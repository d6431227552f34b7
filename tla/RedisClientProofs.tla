------------------------- MODULE RedisClientProofs --------------------------
(***************************************************************************)
(* PoolSound, and that the client implements RedisCalls, for any number of *)
(* callers, connections and faults and any size of the pool: every action  *)
(* keeps the inductive invariant below, and is a step of RedisCalls or     *)
(* changes nothing there.  The invariant follows a command along its       *)
(* connection: at most one request or one reply is under way on any        *)
(* connection (Single), it belongs to the Do that holds the connection or  *)
(* to one that has failed (Asked, Answered), and what a caller has been    *)
(* told agrees with where its Do is (Told).  The first lemmas say what a   *)
(* change of one Do or of one connection alone preserves, and what the     *)
(* invariant gives every step; then there is one lemma per action.         *)
(***************************************************************************)
EXTENDS RedisClient, TLAPS

(* A record update usable in every leaf: the SMT backend then leaves the   *)
(* leaf untyped.  Type inference is most of the time these proofs would    *)
(* take otherwise.                                                         *)
Blank == [field |-> 0]
Blanks == {Blank}

\* Writing the value a field already has changes nothing.
LEMMA Untyped == [Blank EXCEPT !.field = 0] \in Blanks
  BY DEF Blank, Blanks

USE Untyped

Front(s) == SubSeq(s, 1, Len(s) - 1)
Last(s) == s[Len(s)]

Busy(c) == conn[c].sent # <<>>          \* a request is under way
Query(c) == Head(conn[c].sent).cmd
Ready(c) == conn[c].wire # <<>>         \* a reply is
Said(c) == Head(conn[c].wire)

Distinct(s) == \A i, j \in 1..Len(s) : s[i] = s[j] => i = j

Holding == {"write", "read"}

\* Who has which connection.
Owned ==
  /\ Distinct(idle)
  /\ \A c \in Conns : conn[c].open <=> (c \in Range(idle) \/ \E p \in Callers : Held(p) = c)
  /\ \A p \in Callers : /\ Held(p) # NoConn <=> call[p].phase \in Holding
                        /\ Held(p) \notin Range(idle)
  /\ \A p, q \in Callers : Held(p) = Held(q) /\ Held(p) # NoConn => p = q

\* What may be under way on it.
SingleOn(c) ==
  /\ Len(conn[c].sent) <= 1 /\ Len(conn[c].wire) <= 1
  /\ Busy(c) => ~Ready(c)
  /\ Ready(c) => conn[c].open
  /\ conn[c].open /\ (Busy(c) \/ Ready(c)) =>
       \E p \in Callers : Held(p) = c /\ call[p].phase = "read"

Single == \A c \in Conns : SingleOn(c)

\* A request is the current one of the Do that reads, or one given up; it has
\* not been executed and is under way once.
Asked ==
  /\ \A c \in Conns : Busy(c) =>
       /\ applied[Query(c)] = 0
       /\ ~conn[c].open => outcome[Query(c)] = "failed"
       /\ \A p \in Callers : Held(p) = c => Query(c) = Current(p)
  /\ \A c, d \in Conns : Busy(c) /\ Busy(d) /\ Query(c) = Query(d) => c = d

\* A reply is to the current command of the Do that reads, and true.
Answered ==
  \A c \in Conns : Ready(c) =>
    /\ \A p \in Callers : Held(p) = c => Said(c).cmd = Current(p)
    /\ (Said(c).kind = "value") <=> (applied[Said(c).cmd] = 1)

\* What the caller knows.
ToldTo(p) ==
  /\ call[p].phase # "idle" => call[p].n >= 1
  /\ call[p].phase \in {"get", "dial", "write"} => applied[Current(p)] = 0
  /\ \A i \in 1..MaxCalls :
       /\ outcome[<<p, i>>] = "none" <=> i > call[p].n
       /\ outcome[<<p, i>>] = "none" => applied[<<p, i>>] = 0
       /\ outcome[<<p, i>>] = "pending" <=> (i = call[p].n /\ call[p].phase # "idle")

Told == \A p \in Callers : ToldTo(p)

IInv == TypeOK /\ Owned /\ Single /\ Asked /\ Answered /\ Told
-----------------------------------------------------------------------------
(* Sequences *)

\* The two lengths such a sequence has.
LEMMA OneAtMost == \A n : n = 0 \/ n = 1 => n <= 1
  OBVIOUS

\* A sequence with one element at most has nothing after the first.
LEMMA OnlyOne ==
  ASSUME NEW S, NEW s \in Seq(S), s # <<>>, Len(s) <= 1
  PROVE  Head(s) \in S /\ Tail(s) = <<>>
  OBVIOUS

\* What is put into an empty sequence is all of it.
LEMMA FirstOne ==
  ASSUME NEW S, NEW x \in S
  PROVE  /\ Append(<<>>, x) \in Seq(S) /\ Append(<<>>, x) # <<>>
         /\ Head(Append(<<>>, x)) = x /\ Len(Append(<<>>, x)) = 1
  OBVIOUS

\* put: the pool gets a connection it does not have.
LEMMA Pooled ==
  ASSUME NEW s \in Seq(Conns), NEW c \in Conns, Distinct(s), c \notin Range(s)
  PROVE  /\ Append(s, c) \in Seq(Conns) /\ Len(Append(s, c)) = Len(s) + 1
         /\ Range(Append(s, c)) = Range(s) \cup {c}
         /\ Distinct(Append(s, c))
<1> DEFINE t == Append(s, c)
<1>1. /\ t \in Seq(Conns) /\ Len(t) = Len(s) + 1 /\ Len(s) \in Nat
      /\ DOMAIN s = 1 .. Len(s) /\ DOMAIN t = 1 .. Len(s) + 1
      /\ t[Len(s) + 1] = c /\ \A i \in 1 .. Len(s) : t[i] = s[i]
  OBVIOUS
<1> HIDE DEF t
<1>2. Range(t) = Range(s) \cup {c}
  <2>1. ASSUME NEW x \in Range(t) PROVE x \in Range(s) \cup {c}
    BY <2>1, <1>1 DEF Range
  <2>2. ASSUME NEW x \in Range(s) PROVE x \in Range(t)
    BY <2>2, <1>1 DEF Range
  <2>3. c \in Range(t)
    BY <1>1 DEF Range
  <2> QED BY <2>1, <2>2, <2>3
<1>3. Distinct(t)
  <2>1. \A i \in 1 .. Len(s) : s[i] # c
    BY <1>1 DEF Range
  <2> QED BY <1>1, <2>1 DEF Distinct
<1> QED BY <1>1, <1>2, <1>3 DEF t

\* A sequence without its end.
LEMMA Prefix ==
  ASSUME NEW S, NEW s, NEW n \in Nat, \A i \in 1 .. n : s[i] \in S
  PROVE  /\ SubSeq(s, 1, n) \in Seq(S) /\ Len(SubSeq(s, 1, n)) = n
         /\ \A i \in 1 .. n : SubSeq(s, 1, n)[i] = s[i]
  OBVIOUS

\* get: it gives away the one it got last.
LEMMA Unpooled ==
  ASSUME NEW s \in Seq(Conns), s # <<>>, Distinct(s)
  PROVE  /\ Front(s) \in Seq(Conns) /\ Len(Front(s)) = Len(s) - 1
         /\ Last(s) \in Conns /\ Last(s) \in Range(s)
         /\ Range(Front(s)) = Range(s) \ {Last(s)}
         /\ Distinct(Front(s))
<1> DEFINE t == Front(s)
<1>0. Len(s) \in Nat \ {0} /\ Len(s) - 1 \in Nat /\ DOMAIN s = 1 .. Len(s)
      /\ \A i \in 1 .. (Len(s) - 1) : s[i] \in Conns
  OBVIOUS
<1>1. /\ t \in Seq(Conns) /\ Len(t) = Len(s) - 1 /\ Len(s) \in Nat \ {0}
      /\ DOMAIN s = 1 .. Len(s) /\ DOMAIN t = 1 .. (Len(s) - 1)
      /\ \A i \in 1 .. (Len(s) - 1) : t[i] = s[i]
  <2> DEFINE n == Len(s) - 1
  <2>1. n \in Nat /\ \A i \in 1 .. n : s[i] \in Conns
    BY <1>0
  <2> HIDE DEF n
  <2>2. /\ SubSeq(s, 1, n) \in Seq(Conns) /\ Len(SubSeq(s, 1, n)) = n
        /\ \A i \in 1 .. n : SubSeq(s, 1, n)[i] = s[i]
    BY <2>1, Prefix
  <2> QED BY <1>0, <2>2 DEF n, Front
<1> HIDE DEF t
<1>2. Last(s) \in Conns /\ Last(s) \in Range(s)
  BY <1>1 DEF Last, Range
<1>3. Distinct(t)
  BY <1>1 DEF Distinct
<1>4. ASSUME NEW x \in Range(t) PROVE x \in Range(s) \ {Last(s)}
  <2>1. PICK i \in 1 .. (Len(s) - 1) : x = t[i]
    BY <1>1 DEF Range
  <2> QED BY <2>1, <1>1 DEF Range, Distinct, Last
<1>5. ASSUME NEW x \in Range(s) \ {Last(s)} PROVE x \in Range(t)
  <2>1. PICK i \in 1 .. Len(s) : x = s[i]
    BY <1>1 DEF Range
  <2>2. i \in 1 .. (Len(s) - 1)
    BY <2>1, <1>1 DEF Last
  <2> QED BY <2>1, <2>2, <1>1 DEF Range
<1> QED BY <1>1, <1>2, <1>3, <1>4, <1>5 DEF t
-----------------------------------------------------------------------------
(* The step *)

Phases == {"idle", "get", "dial", "write", "read"}
Verbs == {"plain", "evalsha", "eval"}
Results == {"none", "pending", "value", "error", "failed"}
CallRecord == [phase : Phases, n : 0..MaxCalls, verb : Verbs, conn : Conns \cup {NoConn}]
ConnRecord == [open : BOOLEAN, peer : BOOLEAN, sent : Seq(Request), wire : Seq(Answer)]

\* The Do of p moves on, the others stay where they are.
Moves(p, phase, n, c) ==
  /\ call' \in [Callers -> CallRecord]
  /\ call'[p].phase = phase /\ call'[p].n = n /\ Held(p)' = c
  /\ n = call[p].n => Current(p)' = Current(p)
  /\ \A q \in Callers : q # p =>
       call'[q] = call[q] /\ Held(q)' = Held(q) /\ Current(q)' = Current(q)

\* Connection c changes, the others stay as they are.
Turns(c, open, sent, wire) ==
  /\ conn' \in [Conns -> ConnRecord]
  /\ conn'[c].open = open /\ conn'[c].sent = sent /\ conn'[c].wire = wire
  /\ Busy(c)' <=> sent # <<>>
  /\ Ready(c)' <=> wire # <<>>
  /\ Query(c)' = Head(sent).cmd /\ Said(c)' = Head(wire)
  /\ \A d \in Conns : d # c =>
       /\ conn'[d] = conn[d] /\ Query(d)' = Query(d) /\ Said(d)' = Said(d)
       /\ Busy(d)' <=> Busy(d)
       /\ Ready(d)' <=> Ready(d)

\* A new record for p alone is such a move.
LEMMA MovesBy ==
  ASSUME call \in [Callers -> CallRecord], NEW p \in Callers, NEW r \in CallRecord,
         call' = [call EXCEPT ![p] = r]
  PROVE  Moves(p, r.phase, r.n, r.conn)
  BY DEF Moves, Held, Current

\* A new record for c alone is such a turn.
LEMMA TurnsBy ==
  ASSUME conn \in [Conns -> ConnRecord], NEW c \in Conns, NEW r \in ConnRecord,
         conn' = [conn EXCEPT ![c] = r]
  PROVE  Turns(c, r.open, r.sent, r.wire)
  BY DEF Turns, Busy, Ready, Query, Said

\* Each p has a record, and so has each c.
LEMMA Typed ==
  ASSUME TypeOK
  PROVE  /\ call \in [Callers -> CallRecord] /\ conn \in [Conns -> ConnRecord]
         /\ idle \in Seq(Conns) /\ Len(idle) <= Cap
         /\ outcome \in [Commands -> Results] /\ applied \in [Commands -> 0..1]
         /\ loaded \in BOOLEAN /\ drops \in 0..MaxDrops
  BY DEF TypeOK, CallRecord, ConnRecord, Phases, Verbs, Results

\* And if each has one afterwards, TypeOK holds again.
LEMMA TypedNext ==
  ASSUME call' \in [Callers -> CallRecord], conn' \in [Conns -> ConnRecord],
         idle' \in Seq(Conns), Len(idle') <= Cap,
         outcome' \in [Commands -> Results], applied' \in [Commands -> 0..1],
         loaded' \in BOOLEAN, drops' \in 0..MaxDrops
  PROVE  TypeOK'
  BY DEF TypeOK, CallRecord, ConnRecord, Phases, Verbs, Results

\* A phase, and a connection for it.
LEMMA MovesTo ==
  ASSUME call \in [Callers -> CallRecord], NEW p \in Callers,
         NEW phase \in Phases, NEW c \in Conns \cup {NoConn},
         call' = [call EXCEPT ![p].phase = phase, ![p].conn = c]
  PROVE  Moves(p, phase, call[p].n, c)
<1> DEFINE r == [call[p] EXCEPT !.phase = phase, !.conn = c]
<1>1. call[p] \in CallRecord
  OBVIOUS
<1>2. r \in CallRecord /\ r.phase = phase /\ r.n = call[p].n /\ r.conn = c
  BY <1>1, Zenon DEF CallRecord
<1>3. call' = [call EXCEPT ![p] = r]
  BY Zenon
<1> HIDE DEF r
<1> QED BY <1>2, <1>3, MovesBy, Zenon

\* A phase alone.
LEMMA MovesOn ==
  ASSUME call \in [Callers -> CallRecord], NEW p \in Callers, NEW phase \in Phases,
         call' = [call EXCEPT ![p].phase = phase]
  PROVE  Moves(p, phase, call[p].n, Held(p))
<1> DEFINE r == [call[p] EXCEPT !.phase = phase]
<1>1. call[p] \in CallRecord
  OBVIOUS
<1>2. r \in CallRecord /\ r.phase = phase /\ r.n = call[p].n /\ r.conn = Held(p)
  BY <1>1, Zenon DEF CallRecord, Held
<1>3. call' = [call EXCEPT ![p] = r]
  BY Zenon
<1> HIDE DEF r
<1> QED BY <1>2, <1>3, MovesBy, Zenon

\* Close of a connection drops what was on its way to us.
LEMMA ClosedTurns ==
  ASSUME conn \in [Conns -> ConnRecord], NEW c \in Conns, conn' = Closed(c)
  PROVE  Turns(c, FALSE, conn[c].sent, <<>>)
<1> DEFINE r == [conn[c] EXCEPT !.open = FALSE, !.wire = <<>>]
<1>1. conn[c] \in ConnRecord /\ <<>> \in Seq(Answer)
  OBVIOUS
<1>2. r \in ConnRecord /\ r.open = FALSE /\ r.sent = conn[c].sent /\ r.wire = <<>>
  BY <1>1, Zenon DEF ConnRecord
<1>3. conn' = [conn EXCEPT ![c] = r]
  BY Zenon DEF Closed
<1> HIDE DEF r
<1> QED BY <1>2, <1>3, TurnsBy, Zenon

\* What the invariant says of the commands under way.
LEMMA Carried ==
  ASSUME TypeOK, Single, NEW c \in Conns
  PROVE  /\ Busy(c) => /\ Head(conn[c].sent) \in Request /\ Query(c) \in Commands
                       /\ Tail(conn[c].sent) = <<>>
         /\ Ready(c) => /\ Said(c) \in Answer /\ Said(c).cmd \in Commands
                        /\ Tail(conn[c].wire) = <<>>
<1>1. conn[c] \in ConnRecord
  BY Typed
<1>2. conn[c].sent \in Seq(Request) /\ conn[c].wire \in Seq(Answer)
  BY <1>1 DEF ConnRecord
<1>3. Busy(c) => Head(conn[c].sent) \in Request /\ Tail(conn[c].sent) = <<>>
  BY <1>2, OnlyOne DEF Busy, Single, SingleOn
<1>4. Ready(c) => Said(c) \in Answer /\ Tail(conn[c].wire) = <<>>
  BY <1>2, OnlyOne DEF Ready, Said, Single, SingleOn
<1> QED BY <1>3, <1>4 DEF Query, Request, Answer

\* The command of a Do under way.
LEMMA Underway ==
  ASSUME TypeOK, Told, NEW p \in Callers, call[p].phase # "idle"
  PROVE  /\ call[p].n \in 1..MaxCalls /\ Current(p) \in Commands
         /\ outcome[Current(p)] = "pending"
<1>1. call[p].n \in 0..MaxCalls
  BY Typed DEF CallRecord
<1>2. call[p].n \in 1..MaxCalls
  BY <1>1, RedisClientAssumption DEF Told, ToldTo
<1> QED BY <1>2 DEF Told, ToldTo, Current, Commands

\* A Do goes on with its command.
LEMMA ToldOn ==
  ASSUME TypeOK, Told, NEW p \in Callers, NEW phase \in Phases \ {"idle"}, NEW c,
         call[p].phase # "idle", Moves(p, phase, call[p].n, c), UNCHANGED <<outcome, applied>>,
         phase # "read" => applied[Current(p)] = 0
  PROVE  Told'
<1>1. ASSUME NEW q \in Callers, q # p PROVE ToldTo(q)'
  BY <1>1 DEF Told, ToldTo, Moves, Current
<1>2. ToldTo(p)'
  <2>1. ToldTo(p) /\ call'[p].phase = phase /\ call'[p].n = call[p].n
    BY DEF Told, Moves
  <2>2. Current(p)' = Current(p)
    BY <2>1 DEF Current
  <2> QED BY <2>1, <2>2 DEF ToldTo, Phases
<1> QED BY <1>1, <1>2 DEF Told

\* It returns.
LEMMA ToldResult ==
  ASSUME TypeOK, Told, NEW p \in Callers, NEW result \in {"value", "error", "failed"},
         call[p].phase # "idle", Finish(p, result), UNCHANGED applied
  PROVE  /\ Moves(p, "idle", call[p].n, NoConn)
         /\ outcome' \in [Commands -> Results] /\ Told'
         /\ outcome'[Current(p)] = result
         /\ \A k \in Commands : k # Current(p) => outcome'[k] = outcome[k]
<1>t. call \in [Callers -> CallRecord] /\ outcome \in [Commands -> Results]
  BY Typed
<1>c. Current(p) \in Commands /\ call[p].n \in 1..MaxCalls
  BY Underway
<1>1. Moves(p, "idle", call[p].n, NoConn)
  BY <1>t, MovesTo, Zenon DEF Finish, Phases
<1>2. outcome' = [outcome EXCEPT ![Current(p)] = result]
  BY DEF Finish
<1>3. /\ outcome' \in [Commands -> Results] /\ outcome'[Current(p)] = result
      /\ \A k \in Commands : k # Current(p) => outcome'[k] = outcome[k]
  BY <1>2, <1>t, <1>c DEF Results
<1>4. ASSUME NEW q \in Callers, q # p PROVE ToldTo(q)'
  <2>1. \A i \in 1..MaxCalls : outcome'[<<q, i>>] = outcome[<<q, i>>]
    BY <1>4, <1>3 DEF Current, Commands
  <2>2. ToldTo(q) /\ call'[q] = call[q]
    BY <1>1, <1>4 DEF Told, Moves
  <2> QED BY <2>1, <2>2 DEF ToldTo, Current
<1>5. ToldTo(p)'
  <2>1. \A i \in 1..MaxCalls :
          outcome'[<<p, i>>] = IF i = call[p].n THEN result ELSE outcome[<<p, i>>]
    BY <1>2, <1>t, <1>c DEF Current, Commands
  <2>2. ToldTo(p) /\ call'[p].phase = "idle" /\ call'[p].n = call[p].n
    BY <1>1 DEF Told, Moves
  <2> QED BY <2>1, <2>2, <1>c DEF ToldTo
<1> QED BY <1>1, <1>3, <1>4, <1>5 DEF Told

\* What is under way stays where it is.
LEMMA SameConn ==
  ASSUME UNCHANGED conn
  PROVE  \A c \in Conns : /\ Busy(c)' <=> Busy(c)
                          /\ Query(c)' = Query(c)
                          /\ Ready(c)' <=> Ready(c)
                          /\ Said(c)' = Said(c)
  BY DEF Busy, Query, Ready, Said

\* A Do under way has its request on the connection it reads from, or nowhere.
LEMMA NotElsewhere ==
  ASSUME IInv, NEW p \in Callers, call[p].phase # "idle",
         NEW c \in Conns, Busy(c), Query(c) = Current(p)
  PROVE  conn[c].open /\ Held(p) = c /\ call[p].phase = "read"
<1>1. TypeOK /\ Owned /\ Single /\ Asked /\ Told
  BY DEF IInv
<1>2. conn[c].open
  BY <1>1, Underway DEF Asked
<1>3. PICK q \in Callers : Held(q) = c /\ call[q].phase = "read"
  BY <1>1, <1>2 DEF Single, SingleOn
<1>4. Current(q) = Current(p)
  BY <1>1, <1>3 DEF Asked
<1>5. q = p
  BY <1>4 DEF Current
<1> QED BY <1>2, <1>3, <1>5

\* A connection with something under way on our side has a reader.
LEMMA Reader ==
  ASSUME IInv, NEW c \in Conns, conn[c].open, Busy(c) \/ Ready(c)
  PROVE  \E p \in Callers : /\ Held(p) = c /\ call[p].phase = "read"
                            /\ Busy(c) => Query(c) = Current(p)
                            /\ Ready(c) => Said(c).cmd = Current(p)
  BY DEF IInv, Single, SingleOn, Asked, Answered

\* A Do lets go of its connection, which is closed or pooled.
LEMMA OwnedLess ==
  ASSUME IInv, NEW p \in Callers, NEW c \in Conns, c = Held(p),
         NEW phase \in {"idle", "get"}, NEW n, Moves(p, phase, n, NoConn),
         \A d \in Conns : d # c => conn'[d].open = conn[d].open,
         \/ ~conn'[c].open /\ idle' = idle
         \/ conn'[c].open /\ idle' = Append(idle, c)
  PROVE  Owned'
<1>0. Owned /\ idle \in Seq(Conns)
  BY Typed DEF IInv
<1>1. c # NoConn /\ c \notin Range(idle) /\ \A q \in Callers : Held(q) = c => q = p
  BY <1>0, RedisClientAssumption DEF Owned
<1>2. /\ Distinct(idle')
      /\ \A d \in Conns : d # c => (d \in Range(idle') <=> d \in Range(idle))
      /\ c \in Range(idle') <=> conn'[c].open
      /\ NoConn \notin Range(idle')
  <2>1. NoConn \notin Range(idle)
    BY <1>0, RedisClientAssumption DEF Range
  <2>2. CASE ~conn'[c].open /\ idle' = idle
    BY <2>1, <2>2, <1>0, <1>1 DEF Owned
  <2>3. CASE conn'[c].open /\ idle' = Append(idle, c)
    <3>1. Range(idle') = Range(idle) \cup {c} /\ Distinct(idle')
      BY <2>3, <1>0, <1>1, Pooled DEF Owned
    <3> QED BY <3>1, <2>1, <2>3, <1>1
  <2> QED BY <2>2, <2>3
<1>3. /\ Held(p)' = NoConn /\ call'[p].phase = phase
      /\ \A q \in Callers : q # p => Held(q)' = Held(q) /\ call'[q] = call[q]
  BY DEF Moves
<1>4. \A d \in Conns :
        conn'[d].open <=> (d \in Range(idle') \/ \E q \in Callers : Held(q)' = d)
  BY <1>0, <1>1, <1>2, <1>3, RedisClientAssumption DEF Owned
<1>5. \A q \in Callers : /\ Held(q)' # NoConn <=> call'[q].phase \in Holding
                         /\ Held(q)' \notin Range(idle')
  <2>1. ASSUME NEW q \in Callers, q # p PROVE Held(q)' \notin Range(idle')
    <3>1. CASE Held(q) = NoConn
      BY <2>1, <3>1, <1>2, <1>3
    <3>2. CASE Held(q) # NoConn
      BY <2>1, <3>2, <1>0, <1>1, <1>2, <1>3, Typed DEF IInv, Owned, CallRecord, Held
    <3> QED BY <3>1, <3>2
  <2> QED BY <2>1, <1>0, <1>2, <1>3 DEF Owned, Holding
<1>6. \A q, r \in Callers : Held(q)' = Held(r)' /\ Held(q)' # NoConn => q = r
  BY <1>0, <1>3 DEF Owned
<1> QED BY <1>2, <1>4, <1>5, <1>6 DEF Owned
-----------------------------------------------------------------------------
\* A write or a read fails: the connection is closed.
LEMMA FailsKeeps ==
  ASSUME IInv, NEW p \in Callers, call[p].phase \in Holding, conn' = Closed(Held(p)),
         Finish(p, "failed"), UNCHANGED <<idle, loaded, drops, applied>>
  PROVE  IInv'
<1>0. TypeOK /\ Owned /\ Single /\ Asked /\ Answered /\ Told
  BY DEF IInv
<1>t. call \in [Callers -> CallRecord] /\ conn \in [Conns -> ConnRecord]
  BY <1>0, Typed
<1>h. PICK c \in Conns : c = Held(p) /\ c # NoConn
  BY <1>0, <1>t DEF Owned, Holding, Held, CallRecord
<1>i. c \notin Range(idle) /\ call[p].phase # "idle"
  BY <1>0, <1>h DEF Owned, Holding
<1>o. conn[c].open /\ \A q \in Callers : Held(q) = c => q = p
  BY <1>0, <1>h DEF Owned
<1>1. /\ Moves(p, "idle", call[p].n, NoConn) /\ Told'
      /\ outcome' \in [Commands -> Results]
      /\ outcome'[Current(p)] = "failed"
      /\ \A k \in Commands : k # Current(p) => outcome'[k] = outcome[k]
  BY <1>0, <1>i, ToldResult
<1>2. Turns(c, FALSE, conn[c].sent, <<>>)
  BY <1>t, <1>h, ClosedTurns, Zenon
<1>s. /\ Busy(c)' <=> Busy(c)
      /\ Query(c)' = Query(c) /\ ~Ready(c)'
  BY <1>2 DEF Turns, Busy, Query
<1>d. Busy(c) => Query(c) = Current(p)
  BY SMTT(30), <1>0, <1>h DEF Asked
<1>3. TypeOK'
  BY SMTT(30), <1>0, <1>1, <1>2, Typed, TypedNext DEF Moves, Turns
<1>4. Owned'
  <2>1. ~conn'[c].open /\ \A d \in Conns : d # c => conn'[d].open = conn[d].open
    BY <1>2 DEF Turns
  <2> QED BY SMTT(30), <2>1, <1>1, <1>h, OwnedLess
<1>5. Single'
  <2>1. ASSUME NEW d \in Conns, d # c PROVE SingleOn(d)'
    BY SMTT(30), <2>1, <1>0, <1>1, <1>2, <1>h DEF Single, SingleOn, Moves, Turns
  <2>2. SingleOn(c)'
    BY SMTT(30), <1>0, <1>2, <1>s DEF Single, SingleOn, Turns
  <2> QED BY SMTT(30), <2>1, <2>2 DEF Single
<1>6. \A d \in Conns : Busy(d) => Query(d) \in Commands
  BY <1>0, Carried
<1>7. \A d \in Conns : /\ Busy(d)' <=> Busy(d)
                       /\ Query(d)' = Query(d)
                       /\ Ready(d)' => Ready(d) /\ Said(d)' = Said(d)
  BY Zenon, <1>2, <1>s DEF Turns
<1>8. \A q \in Callers, d \in Conns : Held(q)' = d => Held(q) = d /\ Current(q)' = Current(q)
  BY SMTT(30), <1>1, RedisClientAssumption DEF Moves
<1>9. \A d \in Conns : ~conn'[d].open => d = c \/ ~conn[d].open
  BY SMTT(30), <1>2 DEF Turns
<1>10. Asked'
  BY SMTT(30), <1>0, <1>1, <1>6, <1>7, <1>8, <1>9, <1>d DEF Asked
<1>11. Answered'
  BY <1>0, <1>7, <1>8 DEF Answered
<1> QED BY Zenon, <1>1, <1>3, <1>4, <1>5, <1>10, <1>11 DEF IInv

\* The command is written.
LEMMA WriteKeeps ==
  ASSUME IInv, NEW p \in Callers, Write(p)
  PROVE  IInv'
<1>0. TypeOK /\ Owned /\ Single /\ Asked /\ Answered /\ Told
  BY DEF IInv
<1>t. call \in [Callers -> CallRecord] /\ conn \in [Conns -> ConnRecord]
  BY <1>0, Typed
<1>u. UNCHANGED <<idle, loaded, drops, outcome, applied>> /\ call[p].phase = "write"
  BY DEF Write
<1>c. Current(p) \in Commands /\ applied[Current(p)] = 0 /\ call[p].phase # "idle"
  BY <1>0, <1>u, Underway DEF Told, ToldTo
<1>h. PICK c \in Conns : c = Held(p) /\ c # NoConn
  BY <1>0, <1>t, <1>u DEF Owned, Holding, Held, CallRecord
<1>o. conn[c].open /\ \A q \in Callers : Held(q) = c => q = p
  BY <1>0, <1>h DEF Owned
<1>q. ~Busy(c) /\ ~Ready(c)
  BY <1>0, <1>h, <1>o, <1>u DEF Single, SingleOn
<1>e. conn[c].sent = <<>> /\ conn[c].wire = <<>>
  BY <1>q DEF Busy, Ready
<1>1. Moves(p, "read", call[p].n, c)
  BY <1>t, <1>h, MovesOn, Zenon DEF Write, Phases
<1>2. Turns(c, TRUE, <<>>, <<>>) \/ \E s : /\ Turns(c, TRUE, s, <<>>) /\ Len(s) = 1
                                           /\ Head(s).cmd = Current(p)
  <2>1. CASE ~conn[c].peer
    <3>1. UNCHANGED conn
      BY <2>1, <1>h DEF Write
    <3>2. Turns(c, TRUE, <<>>, <<>>)
      BY <3>1, <1>t, <1>o, <1>e DEF Turns, Busy, Ready, Query, Said, ConnRecord
    <3> QED BY <3>2, Zenon
  <2>2. CASE conn[c].peer
    <3> DEFINE req == [cmd |-> Current(p), verb |-> call[p].verb]
    <3> DEFINE s == Append(conn[c].sent, req)
    <3> DEFINE r == [conn[c] EXCEPT !.sent = s]
    <3>0. req \in Request /\ req.cmd = Current(p)
      BY <1>c, <1>t DEF Request, CallRecord, Verbs
    <3> HIDE DEF req
    <3>1. s \in Seq(Request) /\ Len(s) = 1 /\ Head(s) = req
      BY <3>0, <1>e, FirstOne
    <3>2. conn' = [conn EXCEPT ![c] = r]
      BY <2>2, <1>h, Zenon DEF Write, req
    <3> HIDE DEF s
    <3>3. conn[c] \in ConnRecord
      BY <1>t, <1>h
    <3>4. r \in ConnRecord /\ r.open = conn[c].open /\ r.sent = s /\ r.wire = conn[c].wire
      BY <3>1, <3>3, Zenon DEF ConnRecord
    <3> HIDE DEF r
    <3>5. Turns(c, r.open, r.sent, r.wire)
      BY <3>2, <3>4, <1>t, <1>h, TurnsBy, Zenon
    <3>6. r.open = TRUE /\ r.wire = <<>>
      BY <3>4, <1>o, <1>e, <1>t, <1>h DEF ConnRecord
    <3> QED BY <3>0, <3>1, <3>4, <3>5, <3>6, Zenon
  <2> QED BY <2>1, <2>2, Zenon
<1>3. PICK s : /\ Turns(c, TRUE, s, <<>>)
               /\ s = <<>> \/ (Len(s) = 1 /\ Head(s).cmd = Current(p))
  BY <1>2, Zenon
<1>4. TypeOK'
  BY SMTT(30), <1>0, <1>1, <1>3, <1>u, Typed, TypedNext DEF Moves, Turns
<1>5. \A q \in Callers : Held(q)' = Held(q) /\ Current(q)' = Current(q)
  BY SMTT(30), <1>1, <1>h DEF Moves
<1>6. Owned'
  BY <1>0, <1>1, <1>3, <1>5, <1>u, <1>h, <1>o DEF Owned, Holding, Moves, Turns
<1>7. Single'
  <2>1. ASSUME NEW d \in Conns, d # c PROVE SingleOn(d)'
    BY <2>1, <1>0, <1>1, <1>3, <1>5, <1>h DEF Single, SingleOn, Moves, Turns
  <2>2. SingleOn(c)'
    <3>1. /\ conn'[c].sent = s /\ conn'[c].wire = <<>> /\ ~Ready(c)'
          /\ Held(p)' = c /\ call'[p].phase = "read"
      BY <1>1, <1>3 DEF Moves, Turns
    <3>0. Len(<<>>) = 0
      OBVIOUS
    <3>3. Len(s) = 0 \/ Len(s) = 1
      BY <1>3, <3>0, Zenon
    <3>2. Len(s) <= 1 /\ Len(<<>>) <= 1
      BY <3>3, <3>0, OneAtMost, Zenon
    <3> QED BY <3>1, <3>2, Zenon DEF SingleOn
  <2> QED BY SMTT(30), <2>1, <2>2 DEF Single
<1>8. \A d \in Conns : Busy(d) => Query(d) # Current(p)
  BY SMTT(30), <1>c, <1>u, NotElsewhere
<1>9. Asked' /\ Answered'
  BY SMTT(30), <1>0, <1>3, <1>5, <1>8, <1>c, <1>o, <1>u DEF Asked, Answered, Turns
<1>10. Told'
  BY SMTT(30), <1>0, <1>1, <1>c, <1>u, ToldOn DEF Phases
<1> QED BY <1>4, <1>6, <1>7, <1>9, <1>10 DEF IInv

\* A connection is dialled.
LEMMA DialKeeps ==
  ASSUME IInv, NEW p \in Callers, NEW c \in Conns, Dial(p, c)
  PROVE  IInv'
<1>0. TypeOK /\ Owned /\ Single /\ Asked /\ Answered /\ Told
  BY DEF IInv
<1>t. call \in [Callers -> CallRecord] /\ conn \in [Conns -> ConnRecord]
  BY <1>0, Typed
<1>u. UNCHANGED <<idle, loaded, drops, outcome, applied>> /\ call[p].phase = "dial"
      /\ ~conn[c].open
  BY DEF Dial
<1>h. Held(p) = NoConn /\ applied[Current(p)] = 0
  BY <1>0, <1>u DEF Owned, Holding, Told, ToldTo
<1>f. c \notin Range(idle) /\ \A q \in Callers : Held(q) # c
  BY <1>0, <1>u DEF Owned
<1>1. Moves(p, "write", call[p].n, c)
  BY <1>t, MovesTo, Zenon DEF Dial, Phases
<1>2. Turns(c, TRUE, <<>>, <<>>)
  <2> DEFINE r == [open |-> TRUE, peer |-> TRUE, sent |-> <<>>, wire |-> <<>>]
  <2>1. r \in ConnRecord /\ r.open = TRUE /\ r.sent = <<>> /\ r.wire = <<>>
    BY DEF ConnRecord
  <2>2. conn' = [conn EXCEPT ![c] = r]
    BY SMTT(30) DEF Dial
  <2> HIDE DEF r
  <2> QED BY <2>1, <2>2, <1>t, TurnsBy, Zenon
<1>3. TypeOK'
  BY SMTT(30), <1>0, <1>1, <1>2, <1>u, Typed, TypedNext DEF Moves, Turns
<1>4. Owned'
  BY SMTT(30), <1>0, <1>1, <1>2, <1>u, <1>h, <1>f, RedisClientAssumption
  DEF Owned, Holding, Moves, Turns
<1>5. Single'
  BY SMTT(30), <1>0, <1>1, <1>2, <1>u, <1>h, RedisClientAssumption
  DEF Single, SingleOn, Moves, Turns
<1>6. Asked' /\ Answered'
  BY SMTT(30), <1>0, <1>1, <1>2, <1>u, <1>f DEF Asked, Answered, Moves, Turns
<1>7. Told'
  BY SMTT(30), <1>0, <1>1, <1>u, <1>h, ToldOn DEF Phases
<1> QED BY <1>3, <1>4, <1>5, <1>6, <1>7 DEF IInv

\* None is.
LEMMA DialFailsKeeps ==
  ASSUME IInv, NEW p \in Callers, DialFails(p)
  PROVE  IInv'
<1>0. TypeOK /\ Owned /\ Single /\ Asked /\ Answered /\ Told
  BY DEF IInv
<1>u. UNCHANGED <<idle, conn, loaded, drops, applied>> /\ call[p].phase = "dial"
      /\ Finish(p, "failed")
  BY DEF DialFails
<1>h. Held(p) = NoConn
  BY <1>0, <1>u DEF Owned, Holding
<1>1. /\ Moves(p, "idle", call[p].n, NoConn) /\ Told'
      /\ outcome' \in [Commands -> Results]
      /\ outcome'[Current(p)] = "failed"
      /\ \A k \in Commands : k # Current(p) => outcome'[k] = outcome[k]
  BY <1>0, <1>u, ToldResult
<1>2. \A q \in Callers : Held(q)' = Held(q) /\ Current(q)' = Current(q)
  BY <1>1, <1>h DEF Moves
<1>3. TypeOK'
  BY SMTT(30), <1>0, <1>1, <1>u, Typed, TypedNext DEF Moves
<1>4. Owned'
  BY SMTT(30), <1>0, <1>1, <1>2, <1>u, <1>h DEF Owned, Holding, Moves
<1>5. Single'
  BY SMTT(30), <1>0, <1>1, <1>2, <1>u, <1>h, SameConn, RedisClientAssumption
  DEF Single, SingleOn, Moves
<1>6. Asked' /\ Answered'
  BY <1>0, <1>1, <1>2, <1>u, SameConn, Carried DEF Asked, Answered
<1> QED BY SMTT(30), <1>1, <1>3, <1>4, <1>5, <1>6 DEF IInv

\* A connection is taken from the pool, or one has to be dialled.
LEMMA GetKeeps ==
  ASSUME IInv, NEW p \in Callers, Get(p)
  PROVE  IInv'
<1>0. TypeOK /\ Owned /\ Single /\ Asked /\ Answered /\ Told
  BY DEF IInv
<1>t. call \in [Callers -> CallRecord] /\ idle \in Seq(Conns)
  BY <1>0, Typed
<1>u. UNCHANGED <<conn, loaded, drops, outcome, applied>> /\ call[p].phase = "get"
  BY DEF Get
<1>h. Held(p) = NoConn /\ applied[Current(p)] = 0
  BY <1>0, <1>u DEF Owned, Holding, Told, ToldTo
<1>1. CASE idle # <<>>
  <2>1. idle' = Front(idle) /\ Moves(p, "write", call[p].n, Last(idle))
    BY <1>0, <1>1, <1>t, Unpooled, MovesTo, Zenon DEF Get, Owned, Phases, Front, Last
  <2>2. /\ idle' \in Seq(Conns) /\ Len(idle') = Len(idle) - 1 /\ Distinct(idle')
        /\ Last(idle) \in Range(idle) /\ Range(idle') = Range(idle) \ {Last(idle)}
        /\ Last(idle) \in Conns
    BY <2>1, <1>0, <1>1, <1>t, Unpooled DEF Owned
  <2> DEFINE c == Last(idle)
  <2> HIDE DEF c
  <2>3. /\ Held(p)' = c /\ call'[p].phase = "write" /\ c \in Conns /\ c \in Range(idle)
        /\ Range(idle') = Range(idle) \ {c} /\ \A q \in Callers : Held(q) # c
        /\ \A q \in Callers : q # p => call'[q] = call[q] /\ Held(q)' = Held(q)
    BY <2>1, <2>2, <1>0 DEF Moves, Held, Owned, c
  <2>4. TypeOK'
    <3>1. Len(idle') <= Cap
      BY SMTT(30), <2>2, <1>0, <1>t, Typed, RedisClientAssumption
    <3> QED BY <3>1, <2>1, <2>2, <1>0, <1>u, Typed, TypedNext DEF Moves
  <2>5. Owned'
    BY <2>2, <2>3, <1>0, <1>u, <1>h, RedisClientAssumption DEF Owned, Holding
  <2>6. ~Busy(c) /\ ~Ready(c)
    BY SMTT(30), <2>3, <1>0 DEF Single, SingleOn, Owned
  <2>7. Single'
    BY <2>3, <2>6, <1>0, <1>u, <1>h, SameConn DEF Single, SingleOn
  <2>8. \A q \in Callers : Current(q)' = Current(q)
    BY SMTT(30), <2>1 DEF Moves, Current
  <2>9. Asked' /\ Answered'
    BY SMTT(30), <2>3, <2>6, <2>8, <1>0, <1>u, SameConn DEF Asked, Answered
  <2>10. Told'
    BY <2>1, <1>0, <1>u, <1>h, ToldOn DEF Phases
  <2> QED BY <2>4, <2>5, <2>7, <2>9, <2>10 DEF IInv
<1>2. CASE idle = <<>>
  <2>1. UNCHANGED idle /\ Moves(p, "dial", call[p].n, NoConn)
    BY <1>2, <1>t, <1>h, MovesOn DEF Get, Phases
  <2>2. /\ Held(p)' = NoConn /\ call'[p].phase = "dial"
        /\ \A q \in Callers : q # p => call'[q] = call[q] /\ Held(q)' = Held(q)
    BY <2>1 DEF Moves, Held
  <2>3. TypeOK'
    BY <2>1, <1>0, <1>t, <1>u, Typed, TypedNext DEF Moves
  <2>4. Owned'
    BY <2>1, <2>2, <1>0, <1>u, <1>h DEF Owned, Holding
  <2>5. Single'
    BY <2>2, <1>0, <1>u, <1>h, SameConn DEF Single, SingleOn
  <2>6. \A q \in Callers : Current(q)' = Current(q)
    BY SMTT(30), <2>1 DEF Moves, Current
  <2>7. Asked' /\ Answered'
    BY SMTT(30), <2>2, <2>6, <1>0, <1>u, <1>h, SameConn, RedisClientAssumption
    DEF Asked, Answered
  <2>8. Told'
    BY <2>1, <1>0, <1>u, <1>h, ToldOn DEF Phases
  <2> QED BY <2>3, <2>4, <2>5, <2>7, <2>8 DEF IInv
<1> QED BY <1>1, <1>2

\* A call is made.
LEMMA BeginKeeps ==
  ASSUME IInv, NEW p \in Callers, NEW verb \in {"plain", "evalsha"}, Begin(p, verb)
  PROVE  IInv'
<1> DEFINE k == <<p, call[p].n + 1>>
<1>0. TypeOK /\ Owned /\ Single /\ Asked /\ Answered /\ Told
  BY DEF IInv
<1>t. call \in [Callers -> CallRecord] /\ outcome \in [Commands -> Results]
  BY <1>0, Typed
<1>n. call[p].n + 1 \in 1..MaxCalls /\ k \in Commands
  BY <1>t, RedisClientAssumption DEF Begin, CallRecord, Commands
<1>1. Moves(p, "get", call[p].n + 1, NoConn)
  <2> DEFINE r == [phase |-> "get", n |-> call[p].n + 1, verb |-> verb, conn |-> NoConn]
  <2>1. r \in CallRecord /\ r.phase = "get" /\ r.n = call[p].n + 1 /\ r.conn = NoConn
    BY <1>n DEF CallRecord, Phases, Verbs
  <2>2. call' = [call EXCEPT ![p] = r]
    BY DEF Begin
  <2> HIDE DEF r
  <2> QED BY <2>1, <2>2, <1>t, MovesBy, Zenon
<1>u. UNCHANGED <<idle, conn, loaded, drops, applied>> /\ call[p].phase = "idle"
      /\ outcome' = [outcome EXCEPT ![k] = "pending"]
  BY DEF Begin
<1>h. Held(p) = NoConn
  BY <1>0, <1>u DEF Owned, Holding
<1>2. TypeOK'
  <2>1. outcome' \in [Commands -> Results]
    BY <1>u, <1>n, <1>t DEF Results
  <2> QED BY <2>1, <1>0, <1>1, <1>u, Typed, TypedNext DEF Moves
<1>3. Owned'
  BY <1>0, <1>1, <1>u, <1>h DEF Owned, Moves, Held, Holding
<1>4. Single'
  BY <1>0, <1>1, <1>u DEF Single, SingleOn, Busy, Ready, Moves, Held
<1>5. \A c \in Conns : (Busy(c)' <=> Busy(c)) /\ Query(c)' = Query(c)
                       /\ (Ready(c)' <=> Ready(c)) /\ Said(c)' = Said(c)
  BY <1>u DEF Busy, Query, Ready, Said
<1>6. \A c \in Conns, q \in Callers : Held(q)' = c => Held(q) = c /\ Current(q)' = Current(q)
  BY <1>1, RedisClientAssumption DEF Moves, Held, Current
<1>7. outcome[k] = "none"
  BY <1>0, <1>n, <1>t DEF Told, ToldTo, CallRecord
<1>8. \A j \in Commands : outcome[j] = "failed" => outcome'[j] = "failed"
  BY SMTT(30), <1>u, <1>7, <1>t
<1>9. Asked'
  BY <1>0, <1>5, <1>6, <1>8, <1>u, Carried DEF Asked
<1>10. Answered'
  BY <1>0, <1>5, <1>6, <1>u DEF Answered
<1>11. Told'
  <2>1. ASSUME NEW q \in Callers, q # p, NEW i \in 1..MaxCalls
        PROVE  outcome'[<<q, i>>] = outcome[<<q, i>>]
    BY <2>1, <1>u, <1>n, <1>t DEF Commands
  <2>2. ASSUME NEW i \in 1..MaxCalls
        PROVE  outcome'[<<p, i>>] = IF i = call[p].n + 1 THEN "pending" ELSE outcome[<<p, i>>]
    BY <1>u, <1>n, <1>t DEF Commands
  <2>3. call[p].n \in Nat
    BY <1>t DEF CallRecord
  <2>4. applied[k] = 0
    BY <1>0, <1>7, <1>n DEF Told, ToldTo
  <2>5. ASSUME NEW q \in Callers, q # p PROVE ToldTo(q)'
    BY <2>1, <2>5, <1>0, <1>1, <1>u DEF Told, ToldTo, Moves, Current
  <2>6. ToldTo(p)'
    <3>1. ToldTo(p) /\ call'[p].phase = "get" /\ call'[p].n = call[p].n + 1
      BY <1>0, <1>1 DEF Told, Moves
    <3>2. applied'[Current(p)'] = 0
      BY <3>1, <2>4, <1>u DEF Current
    <3> QED BY <3>1, <3>2, <2>2, <2>3, <1>u DEF ToldTo
  <2> QED BY <2>5, <2>6 DEF Told
<1> QED BY <1>2, <1>3, <1>4, <1>9, <1>10, <1>11 DEF IInv

(* The reply and the server keep the invariant *)

\* The server executes a request: of a Do that waits for the reply, or of one
\* that has given up.
LEMMA ExecuteKeeps ==
  ASSUME IInv, NEW c \in Conns, NEW kind \in {"value", "error", "noscript"}, Execute(c, kind)
  PROVE  /\ IInv'
         /\ \E k \in Commands :
              /\ outcome[k] \in {"pending", "failed"} /\ applied[k] = 0
              /\ applied' = IF kind = "value" THEN [applied EXCEPT ![k] = 1] ELSE applied
<1>0. TypeOK /\ Owned /\ Single /\ Asked /\ Answered /\ Told
  BY DEF IInv
<1>t. conn \in [Conns -> ConnRecord] /\ applied \in [Commands -> 0..1] /\ loaded \in BOOLEAN
  BY <1>0, Typed
<1>u. UNCHANGED <<idle, call, drops, outcome>>
  BY Zenon DEF Execute
<1>b. Busy(c)
  BY DEF Execute, Busy
<1>k. PICK k \in Commands : k = Query(c)
  BY SMTT(30), <1>0, <1>b, Carried
<1>s. /\ conn[c].wire = <<>> /\ Tail(conn[c].sent) = <<>> /\ applied[k] = 0
      /\ \A d \in Conns : d # c /\ Busy(d) => Query(d) # k
  BY SMTT(30), <1>0, <1>b, <1>k, Carried DEF Single, SingleOn, Ready, Asked
<1>1. applied' = IF kind = "value" THEN [applied EXCEPT ![k] = 1] ELSE applied
  <2>1. applied' = IF kind = "value" THEN [applied EXCEPT ![k] = @ + 1] ELSE applied
    BY <1>k, Zenon DEF Execute, Query
  <2> QED BY <2>1, <1>s, <1>t
<1>2. /\ applied' \in [Commands -> 0..1]
      /\ applied'[k] = 1 <=> kind = "value"
      /\ \A j \in Commands : j # k => applied'[j] = applied[j]
  BY <1>1, <1>s, <1>t
<1>3. loaded' \in BOOLEAN
  BY <1>t DEF Execute
<1>a. [cmd |-> k, kind |-> kind] \in Answer
  BY DEF Answer
<1>4. \/ conn[c].open /\ Turns(c, TRUE, <<>>, Append(<<>>, [cmd |-> k, kind |-> kind]))
      \/ ~conn[c].open /\ Turns(c, FALSE, <<>>, <<>>)
  <2> DEFINE w == IF conn[c].open THEN Append(<<>>, [cmd |-> k, kind |-> kind]) ELSE <<>>
             r == [conn[c] EXCEPT !.sent = <<>>, !.wire = w]
  <2>1. conn' = [conn EXCEPT ![c].sent = Tail(@),
                             ![c].wire = IF conn[c].open
                                         THEN Append(@, [cmd |-> k, kind |-> kind])
                                         ELSE @]
    BY <1>k, Zenon DEF Execute, Query
  <2>2. conn' = [conn EXCEPT ![c] = r]
    BY <2>1, <1>s, Zenon
  <2>3. w \in Seq(Answer) /\ <<>> \in Seq(Request)
    BY <1>a, FirstOne
  <2>4. conn[c] \in ConnRecord
    BY <1>t
  <2>5. conn[c].open \in BOOLEAN
    BY <2>4 DEF ConnRecord
  <2>6. conn[c].open => w = Append(<<>>, [cmd |-> k, kind |-> kind])
    BY Zenon
  <2>7. ~conn[c].open => w = <<>>
    BY Zenon
  <2> HIDE DEF w
  <2>8. r \in ConnRecord /\ r.open = conn[c].open /\ r.sent = <<>> /\ r.wire = w
    BY <2>3, <2>4, Zenon DEF ConnRecord
  <2> HIDE DEF r
  <2>9. Turns(c, r.open, r.sent, r.wire)
    BY <2>2, <2>8, <1>t, TurnsBy, Zenon
  <2>10. CASE conn[c].open
    BY <2>5, <2>6, <2>8, <2>9, <2>10, Zenon
  <2>11. CASE ~conn[c].open
    BY <2>5, <2>7, <2>8, <2>9, <2>11, Zenon
  <2> QED BY <2>10, <2>11, Zenon
<1>5. PICK open \in BOOLEAN, w \in Seq(Answer) :
        /\ Turns(c, open, <<>>, w) /\ conn[c].open = open
        /\ Len(w) <= 1 /\ (w # <<>> <=> open)
        /\ open => Head(w) = [cmd |-> k, kind |-> kind]
  <2>1. conn[c].open \in BOOLEAN /\ <<>> \in Seq(Answer) /\ Len(<<>>) <= 1
    BY <1>t DEF ConnRecord
  <2>2. CASE conn[c].open /\ Turns(c, TRUE, <<>>, Append(<<>>, [cmd |-> k, kind |-> kind]))
    <3> DEFINE a == Append(<<>>, [cmd |-> k, kind |-> kind])
    <3>1. /\ a \in Seq(Answer) /\ a # <<>> /\ Len(a) <= 1
          /\ Head(a) = [cmd |-> k, kind |-> kind]
      BY <1>a
    <3>2. Turns(c, TRUE, <<>>, a) /\ conn[c].open = TRUE
      BY <2>1, <2>2, Zenon
    <3> HIDE DEF a
    <3> QED BY <3>1, <3>2, Zenon
  <2>3. CASE ~conn[c].open /\ Turns(c, FALSE, <<>>, <<>>)
    BY <2>1, <2>3, Zenon
  <2> QED BY <1>4, <2>2, <2>3, Zenon
<1>6. /\ \A p \in Callers : Held(p)' = Held(p) /\ Current(p)' = Current(p)
      /\ \A d \in Conns : conn'[d].open = conn[d].open
      /\ ~Busy(c)' /\ (Ready(c)' <=> open)
      /\ open => Said(c)'.cmd = k /\ Said(c)'.kind = kind
      /\ \A d \in Conns : d # c =>
           /\ conn'[d] = conn[d] /\ Query(d)' = Query(d) /\ Said(d)' = Said(d)
           /\ Busy(d)' <=> Busy(d)
           /\ Ready(d)' <=> Ready(d)
  BY <1>5, <1>u DEF Turns, Held, Current
<1>7. open => \E p \in Callers : Held(p) = c /\ call[p].phase = "read" /\ k = Current(p)
  BY <1>5, <1>b, <1>k, Reader, Zenon
<1>8. outcome[k] \in {"pending", "failed"}
  <2>1. CASE open
    BY <2>1, <1>0, <1>7, Underway
  <2>2. CASE ~open
    BY SMTT(30), <2>2, <1>0, <1>5, <1>b, <1>k DEF Asked
  <2> QED BY <2>1, <2>2
<1>9. TypeOK'
  BY SMTT(30), <1>0, <1>2, <1>3, <1>5, <1>u, Typed, TypedNext DEF Turns
<1>10. Owned'
  BY <1>0, <1>6, <1>u DEF Owned
<1>11. Single'
  <2>1. ASSUME NEW d \in Conns, d # c PROVE SingleOn(d)'
    BY SMTT(30), <2>1, <1>0, <1>6, <1>u DEF Single, SingleOn
  <2>2. SingleOn(c)'
    <3>1. /\ conn'[c].sent = <<>> /\ conn'[c].wire = w /\ conn'[c].open = open
          /\ Len(<<>>) <= 1
      BY SMTT(30), <1>5 DEF Turns
    <3>2. open => \E p \in Callers : Held(p)' = c /\ call'[p].phase = "read"
      BY SMTT(30), <1>6, <1>7, <1>u
    <3> QED BY SMTT(30), <3>1, <3>2, <1>5, <1>6 DEF SingleOn
  <2> QED BY SMTT(30), <2>1, <2>2 DEF Single
<1>12. Asked'
  <2>1. \A d \in Conns : Busy(d)' => Busy(d) /\ d # c /\ Query(d)' = Query(d)
    BY <1>6
  <2>2. \A d \in Conns : Busy(d)' => applied'[Query(d)] = applied[Query(d)]
    BY <2>1, <1>0, <1>2, <1>s, Carried
  <2> QED BY SMTT(30), <2>1, <2>2, <1>0, <1>6, <1>u DEF Asked
<1>13. Answered'
  <2>1. ASSUME NEW d \in Conns, d # c, Ready(d)'
        PROVE  /\ \A p \in Callers : Held(p)' = d => Said(d)'.cmd = Current(p)'
               /\ (Said(d)'.kind = "value") <=> (applied'[Said(d)'.cmd] = 1)
    <3>1. Ready(d) /\ Said(d)' = Said(d) /\ Said(d).cmd \in Commands /\ conn[d].open
      BY <2>1, <1>0, <1>6, Carried DEF Single, SingleOn
    <3>2. PICK q \in Callers : Held(q) = d /\ call[q].phase = "read" /\ Said(d).cmd = Current(q)
      BY <3>1, Reader
    <3>3. Current(q) # k
      <4>1. SUFFICES ASSUME Current(q) = k PROVE FALSE
        OBVIOUS
      <4> QED BY <4>1, <3>2, <2>1, <1>b, <1>k, NotElsewhere
    <3> QED BY SMTT(30), <3>1, <3>2, <3>3, <1>0, <1>2, <1>6 DEF Answered
  <2>2. ASSUME Ready(c)'
        PROVE  /\ \A p \in Callers : Held(p)' = c => Said(c)'.cmd = Current(p)'
               /\ (Said(c)'.kind = "value") <=> (applied'[Said(c)'.cmd] = 1)
    <3>1. \A p \in Callers : Held(p) = c => k = Current(p)
      BY <1>0, <1>b, <1>k DEF Asked
    <3> QED BY <3>1, <2>2, <1>2, <1>6
  <2> QED BY SMTT(30), <2>1, <2>2 DEF Answered
<1>14. Told'
  <2>1. ASSUME NEW p \in Callers PROVE ToldTo(p)'
    <3>1. ToldTo(p) /\ Current(p)' = Current(p) /\ call' = call /\ outcome' = outcome
      BY <1>0, <1>6, <1>u DEF Told
    <3>2. ASSUME call[p].phase \in {"get", "dial", "write"} PROVE applied'[Current(p)] = 0
      <4>1. Current(p) # k
        BY <3>2, <1>b, <1>k, NotElsewhere
      <4> QED BY <4>1, <3>1, <3>2, <1>0, <1>2, Underway DEF ToldTo
    <3>3. ASSUME NEW i \in 1..MaxCalls, outcome[<<p, i>>] = "none" PROVE applied'[<<p, i>>] = 0
      <4>1. <<p, i>> # k /\ <<p, i>> \in Commands
        BY <3>3, <1>8 DEF Commands
      <4> QED BY <4>1, <3>1, <3>3, <1>2 DEF ToldTo
    <3> QED BY <3>1, <3>2, <3>3 DEF ToldTo
  <2> QED BY <2>1 DEF Told
<1> QED BY <1>1, <1>8, <1>9, <1>10, <1>11, <1>12, <1>13, <1>14, <1>s, Zenon DEF IInv

\* What a Do keeps of the others when it lets go of a silent connection.
LEMMA LetGo ==
  ASSUME IInv, NEW p \in Callers, NEW c \in Conns, c = Held(p),
         NEW phase \in {"idle", "get"}, Moves(p, phase, call[p].n, NoConn),
         NEW open \in BOOLEAN, Turns(c, open, <<>>, <<>>),
         UNCHANGED applied,
         \A k \in Commands : outcome[k] = "failed" => outcome'[k] = "failed"
  PROVE  Single' /\ Asked' /\ Answered'
<1>0. TypeOK /\ Owned /\ Single /\ Asked /\ Answered
  BY DEF IInv
<1>1. \A d \in Conns : /\ Busy(d)' => Busy(d) /\ d # c /\ Query(d)' = Query(d)
                       /\ Ready(d)' => Ready(d) /\ d # c /\ Said(d)' = Said(d)
                       /\ d # c => conn'[d] = conn[d]
  BY DEF Turns
<1>2. \A q \in Callers, d \in Conns : Held(q)' = d => Held(q) = d /\ Current(q)' = Current(q)
  BY RedisClientAssumption DEF Moves
<1>3. Single'
  <2>1. ASSUME NEW d \in Conns, d # c PROVE SingleOn(d)'
    <3>1. \A q \in Callers : Held(q) = d => Held(q)' = d /\ call'[q] = call[q]
      BY <2>1 DEF Moves
    <3> QED BY <3>1, <2>1, <1>0, <1>1 DEF Single, SingleOn
  <2>2. SingleOn(c)'
    <3>1. conn'[c].sent = <<>> /\ conn'[c].wire = <<>> /\ ~Busy(c)' /\ ~Ready(c)'
      BY DEF Turns
    <3>2. Len(<<>>) <= 1
      OBVIOUS
    <3> QED BY <3>1, <3>2, Zenon DEF SingleOn
  <2> QED BY <2>1, <2>2 DEF Single
<1>4. \A d \in Conns : Busy(d) => Query(d) \in Commands
  BY <1>0, Carried
<1>5. Asked'
  BY <1>0, <1>1, <1>2, <1>4 DEF Asked
<1>6. Answered'
  BY <1>0, <1>1, <1>2 DEF Answered
<1> QED BY <1>3, <1>5, <1>6

\* The reply is read.
LEMMA ReplyKeeps ==
  ASSUME IInv, NEW p \in Callers, Reply(p)
  PROVE  /\ IInv'
         /\ \/ UNCHANGED outcome
            \/ \E result \in {"value", "error"} :
                 Finish(p, result) /\ (result = "value" <=> applied[Current(p)] = 1)
<1>0. TypeOK /\ Owned /\ Single /\ Asked /\ Answered /\ Told
  BY DEF IInv
<1>t. /\ call \in [Callers -> CallRecord] /\ conn \in [Conns -> ConnRecord]
      /\ idle \in Seq(Conns) /\ Len(idle) <= Cap
  BY <1>0, Typed
<1>u. UNCHANGED <<loaded, drops, applied>> /\ call[p].phase = "read" /\ call[p].phase # "idle"
  BY DEF Reply
<1>c. Current(p) \in Commands /\ outcome[Current(p)] = "pending"
  BY <1>0, <1>u, Underway
<1>h. PICK c \in Conns : c = Held(p) /\ c # NoConn
  BY <1>0, <1>t, <1>u DEF Owned, Holding, Held, CallRecord
<1>r. Ready(c) /\ conn[c].sent = <<>> /\ Tail(conn[c].wire) = <<>> /\ c \notin Range(idle)
      /\ conn[c].open /\ conn[c] \in ConnRecord
  <2>1. Ready(c) /\ c \notin Range(idle) /\ conn[c].open /\ conn[c] \in ConnRecord
    BY <1>0, <1>h, <1>t DEF Reply, Ready, Owned
  <2> QED BY <2>1, <1>0, Carried DEF Single, SingleOn, Busy
<1>k. Said(c) \in Answer /\ Said(c).cmd = Current(p)
      /\ ((Said(c).kind = "value") <=> (applied[Current(p)] = 1))
  BY <1>0, <1>h, <1>r, Carried DEF Answered
<1>1. \E open \in BOOLEAN :
        /\ Turns(c, open, <<>>, <<>>)
        /\ \/ ~open /\ idle' = idle
           \/ open /\ idle' = Append(idle, c) /\ Len(idle) < Cap
  <2> DEFINE took == [conn[c] EXCEPT !.wire = Tail(@)]
  <2>1. took \in ConnRecord /\ took.open /\ took.sent = <<>> /\ took.wire = <<>>
    <3>1. <<>> \in Seq(Answer)
      OBVIOUS
    <3>2. took = [conn[c] EXCEPT !.wire = <<>>]
      BY <1>r, Zenon
    <3> QED BY <3>1, <3>2, <1>r, Zenon DEF ConnRecord
  <2>2. Put(c, took)
    BY <1>h, Zenon DEF Reply
  <2> HIDE DEF took
  <2>3. CASE Len(idle) >= Cap
    <3> DEFINE r == [conn[c] EXCEPT !.open = FALSE, !.wire = <<>>, !.sent = took.sent]
    <3>1. conn' = [conn EXCEPT ![c] = r] /\ idle' = idle
      BY <2>2, <2>3, Zenon DEF Put, Closed
    <3>2. r \in ConnRecord /\ r.open = FALSE /\ r.sent = <<>> /\ r.wire = <<>>
      BY <2>1, <1>r, Zenon DEF ConnRecord
    <3> HIDE DEF r
    <3>3. Turns(c, r.open, r.sent, r.wire)
      BY <3>1, <3>2, <1>t, TurnsBy, Zenon
    <3> QED BY <3>1, <3>2, <3>3, Zenon
  <2>4. CASE ~(Len(idle) >= Cap)
    <3>1. conn' = [conn EXCEPT ![c] = took] /\ idle' = Append(idle, c)
      BY <2>2, <2>4 DEF Put
    <3>2. Turns(c, took.open, took.sent, took.wire)
      BY <3>1, <2>1, <1>t, TurnsBy, Zenon
    <3>3. Len(idle) < Cap /\ took.open = TRUE
      BY <2>1, <2>4, <1>t, RedisClientAssumption DEF ConnRecord
    <3> QED BY <3>1, <3>2, <3>3, <2>1, Zenon
  <2> QED BY <2>3, <2>4
<1>2. PICK open \in BOOLEAN :
        /\ Turns(c, open, <<>>, <<>>)
        /\ \/ ~open /\ idle' = idle
           \/ open /\ idle' = Append(idle, c) /\ Len(idle) < Cap
  BY <1>1, Zenon
<1>3. idle' \in Seq(Conns) /\ Len(idle') <= Cap
  BY SMTT(30), <1>2, <1>t, <1>r, <1>0, Pooled, RedisClientAssumption DEF Owned
<1>4. \/ /\ Said(c).kind = "noscript"
         /\ Moves(p, "get", call[p].n, NoConn) /\ UNCHANGED outcome
      \/ Said(c).kind \in {"value", "error"} /\ Finish(p, Said(c).kind)
  <2>1. CASE Said(c).kind = "noscript"
    <3> DEFINE r == [call[p] EXCEPT !.phase = "get", !.verb = "eval", !.conn = NoConn]
    <3>1. call' = [call EXCEPT ![p] = r] /\ UNCHANGED outcome
      BY <2>1, <1>h, <1>k, Zenon DEF Reply, Said
    <3>2. call[p] \in CallRecord
      BY <1>t
    <3>3. r \in CallRecord /\ r.phase = "get" /\ r.n = call[p].n /\ r.conn = NoConn
      BY <3>2, Zenon DEF CallRecord, Phases, Verbs
    <3> HIDE DEF r
    <3>4. Moves(p, r.phase, r.n, r.conn)
      BY <3>1, <3>3, <1>t, MovesBy, Zenon
    <3> QED BY <2>1, <3>1, <3>3, <3>4
  <2>2. CASE Said(c).kind # "noscript"
    <3>1. Finish(p, Said(c).kind)
      BY <2>2, <1>h, <1>k DEF Reply, Said
    <3> QED BY <2>2, <3>1, <1>k DEF Answer
  <2> QED BY <2>1, <2>2
<1>5. /\ Told' /\ outcome' \in [Commands -> Results]
      /\ \E phase \in {"idle", "get"} : Moves(p, phase, call[p].n, NoConn)
      /\ \A k \in Commands : outcome[k] = "failed" => outcome'[k] = "failed"
  <2>1. CASE /\ Said(c).kind = "noscript"
             /\ Moves(p, "get", call[p].n, NoConn) /\ UNCHANGED outcome
    <3>1. applied[Current(p)] = 0
      BY <2>1, <1>k, <1>c, <1>0, Typed
    <3>2. Told'
      BY <3>1, <2>1, <1>0, <1>u, ToldOn DEF Phases
    <3> QED BY <3>2, <2>1, <1>0, Typed
  <2>2. CASE Said(c).kind \in {"value", "error"} /\ Finish(p, Said(c).kind)
    <3>1. PICK result \in {"value", "error", "failed"} : result = Said(c).kind
      BY <2>2
    <3>2. /\ Moves(p, "idle", call[p].n, NoConn)
          /\ outcome' \in [Commands -> Results] /\ Told'
          /\ \A k \in Commands : k # Current(p) => outcome'[k] = outcome[k]
      BY <3>1, <2>2, <1>0, <1>u, ToldResult
    <3> QED BY <3>2, <1>c
  <2> QED BY <1>4, <2>1, <2>2
<1>6. PICK phase \in {"idle", "get"} : Moves(p, phase, call[p].n, NoConn)
  BY <1>5
<1>7. TypeOK'
  BY <1>0, <1>2, <1>3, <1>5, <1>6, <1>u, Typed, TypedNext DEF Moves, Turns
<1>8. Owned'
  <2>1. conn'[c].open = open /\ \A d \in Conns : d # c => conn'[d].open = conn[d].open
    BY <1>2 DEF Turns
  <2> QED BY <2>1, <1>2, <1>6, <1>h, OwnedLess
<1>9. Single' /\ Asked' /\ Answered'
  BY <1>2, <1>5, <1>6, <1>h, <1>u, LetGo
<1>10. IInv'
  BY <1>5, <1>7, <1>8, <1>9 DEF IInv
<1>11. \/ UNCHANGED outcome
       \/ \E result \in {"value", "error"} :
            Finish(p, result) /\ (result = "value" <=> applied[Current(p)] = 1)
  BY <1>4, <1>k, Zenon
<1> QED BY <1>10, <1>11, Zenon

\* Requests are lost, nothing else is.
LEMMA LossKeeps ==
  ASSUME IInv, conn' \in [Conns -> ConnRecord],
         \A c \in Conns : /\ conn'[c].open = conn[c].open /\ conn'[c].wire = conn[c].wire
                          /\ (conn'[c].sent = conn[c].sent \/ conn'[c].sent = <<>>),
         loaded' \in BOOLEAN, drops' \in 0..MaxDrops,
         UNCHANGED <<idle, call, outcome, applied>>
  PROVE  IInv'
<1>0. TypeOK /\ Owned /\ Single /\ Asked /\ Answered /\ Told
  BY DEF IInv
<1>1. TypeOK'
  BY <1>0, Typed, TypedNext
<1>2. \A p \in Callers : Held(p)' = Held(p) /\ Current(p)' = Current(p)
  BY DEF Held, Current
<1>3. \A c \in Conns : /\ Busy(c)' => Busy(c) /\ Query(c)' = Query(c)
                       /\ Ready(c)' <=> Ready(c)
                       /\ Said(c)' = Said(c)
  BY DEF Busy, Query, Ready, Said
<1>4. Owned'
  BY <1>0, <1>2 DEF Owned
<1>5. Single'
  <2>1. Len(<<>>) = 0
    OBVIOUS
  <2>2. \A c \in Conns : Len(conn'[c].sent) <= 1
    BY <2>1, <1>0 DEF Single, SingleOn
  <2> QED BY <2>2, <1>0, <1>2, <1>3 DEF Single, SingleOn
<1>6. Asked'
  BY <1>0, <1>2, <1>3 DEF Asked
<1>7. Answered'
  BY <1>0, <1>2, <1>3 DEF Answered
<1>8. Told'
  BY <1>0, <1>2 DEF Told, ToldTo
<1> QED BY <1>1, <1>4, <1>5, <1>6, <1>7, <1>8 DEF IInv

\* The server closes a connection.
LEMMA DropKeeps ==
  ASSUME IInv, NEW c \in Conns, Drop(c)
  PROVE  IInv'
<1>t. conn \in [Conns -> ConnRecord] /\ drops \in 0..MaxDrops /\ loaded \in BOOLEAN
  BY Typed DEF IInv
<1> DEFINE r == [conn[c] EXCEPT !.peer = FALSE, !.sent = <<>>]
<1>1. conn' = [conn EXCEPT ![c] = r]
  BY Zenon DEF Drop
<1>2. conn[c] \in ConnRecord /\ <<>> \in Seq(Request)
  BY <1>t
<1>3. r \in ConnRecord /\ r.open = conn[c].open /\ r.wire = conn[c].wire /\ r.sent = <<>>
  BY <1>2, Zenon DEF ConnRecord
<1> HIDE DEF r
<1>u. drops < MaxDrops /\ drops' = drops + 1 /\ UNCHANGED <<idle, call, loaded, outcome, applied>>
  BY Zenon DEF Drop
<1>4. drops' \in 0..MaxDrops
  BY <1>t, <1>u, RedisClientAssumption
<1>5. /\ conn' \in [Conns -> ConnRecord]
      /\ \A d \in Conns : /\ conn'[d].open = conn[d].open /\ conn'[d].wire = conn[d].wire
                           /\ (conn'[d].sent = conn[d].sent \/ conn'[d].sent = <<>>)
  BY <1>1, <1>3, <1>t
<1> QED BY <1>4, <1>5, <1>t, <1>u, LossKeeps

\* It restarts.
LEMMA RestartKeeps ==
  ASSUME IInv, Restart
  PROVE  IInv'
<1>t. conn \in [Conns -> ConnRecord] /\ drops \in 0..MaxDrops
  BY Typed DEF IInv
<1>1. ASSUME NEW d \in Conns
      PROVE  /\ conn'[d] \in ConnRecord
             /\ conn'[d].open = conn[d].open /\ conn'[d].wire = conn[d].wire
             /\ conn'[d].sent = <<>>
  <2> DEFINE r == [conn[d] EXCEPT !.peer = FALSE, !.sent = <<>>]
  <2>1. conn'[d] = r
    BY Zenon DEF Restart
  <2>2. conn[d] \in ConnRecord /\ <<>> \in Seq(Request)
    BY <1>t
  <2> QED BY <2>1, <2>2, Zenon DEF ConnRecord
<1>2. conn' \in [Conns -> ConnRecord]
  <2>1. conn' = [d \in Conns |-> conn'[d]]
    BY Zenon DEF Restart
  <2> QED BY <2>1, <1>1, Zenon
<1>u. drops < MaxDrops /\ drops' = drops + 1 /\ loaded' = FALSE
      /\ UNCHANGED <<idle, call, outcome, applied>>
  BY Zenon DEF Restart
<1>3. drops' \in 0..MaxDrops
  BY <1>t, <1>u, RedisClientAssumption
<1>4. \A d \in Conns : /\ conn'[d].open = conn[d].open /\ conn'[d].wire = conn[d].wire
                       /\ (conn'[d].sent = conn[d].sent \/ conn'[d].sent = <<>>)
  BY <1>1
<1>5. loaded' \in BOOLEAN
  BY <1>u, Zenon
<1> QED BY <1>2, <1>3, <1>4, <1>5, <1>u, LossKeeps, Zenon

\* The client closes what is idle, and nothing is under way there.
LEMMA CloseKeeps ==
  ASSUME IInv, Close
  PROVE  IInv'
<1>0. TypeOK /\ Owned /\ Single /\ Asked /\ Answered /\ Told
  BY DEF IInv
<1>t. conn \in [Conns -> ConnRecord] /\ drops \in 0..MaxDrops
  BY <1>0, Typed
<1>u. drops < MaxDrops /\ drops' = drops + 1 /\ idle' = <<>>
      /\ UNCHANGED <<call, loaded, outcome, applied>>
  BY Zenon DEF Close
<1>d. drops' \in 0..MaxDrops
  BY <1>t, <1>u, RedisClientAssumption
<1>1. ASSUME NEW d \in Conns, d \in Range(idle)
      PROVE  /\ conn[d].sent = <<>> /\ conn[d].wire = <<>>
             /\ conn'[d] \in ConnRecord /\ ~conn'[d].open
             /\ conn'[d].sent = <<>> /\ conn'[d].wire = <<>>
  <2>1. conn[d].sent = <<>> /\ conn[d].wire = <<>>
    BY <1>1, <1>0 DEF Owned, Single, SingleOn, Busy, Ready
  <2> DEFINE r == [conn[d] EXCEPT !.open = FALSE, !.wire = <<>>]
  <2>2. conn'[d] = r
    BY <1>1, Zenon DEF Close
  <2>3. conn[d] \in ConnRecord /\ <<>> \in Seq(Answer)
    BY <1>t
  <2>4. r \in ConnRecord /\ r.open = FALSE /\ r.sent = conn[d].sent /\ r.wire = <<>>
    BY <2>3, Zenon DEF ConnRecord
  <2> HIDE DEF r
  <2> QED BY <2>1, <2>2, <2>4
<1>2. \A d \in Conns : d \notin Range(idle) => conn'[d] = conn[d]
  BY Zenon DEF Close
<1>3. TypeOK'
  <2>1. conn' \in [Conns -> ConnRecord]
    <3>1. conn' = [d \in Conns |-> conn'[d]]
      BY Zenon DEF Close
    <3>2. \A d \in Conns : conn'[d] \in ConnRecord
      BY <1>1, <1>2, <1>t
    <3> QED BY <3>1, <3>2, Zenon
  <2>2. idle' \in Seq(Conns) /\ Len(idle') <= Cap
    BY <1>u, RedisClientAssumption
  <2> QED BY <2>1, <2>2, <1>0, <1>d, <1>u, Typed, TypedNext
<1>4. \A p \in Callers : Held(p)' = Held(p) /\ Current(p)' = Current(p)
  BY <1>u DEF Held, Current
<1>5. \A d \in Conns : /\ Busy(d)' <=> Busy(d)
                       /\ Busy(d) \/ Ready(d) => d \notin Range(idle) /\ conn'[d] = conn[d]
                       /\ Ready(d)' <=> Ready(d)
  BY <1>1, <1>2 DEF Busy, Ready
<1>6. \A d \in Conns : /\ Busy(d) => Query(d)' = Query(d)
                       /\ Ready(d) => Said(d)' = Said(d)
  BY <1>5 DEF Query, Said
<1>7. Owned'
  <2>1. Distinct(<<>>) /\ Range(<<>>) = {}
    BY DEF Distinct, Range
  <2>2. \A d \in Conns : conn'[d].open <=> \E p \in Callers : Held(p) = d
    BY <1>0, <1>1, <1>2 DEF Owned
  <2> QED BY <2>1, <2>2, <1>0, <1>4, <1>u DEF Owned
<1>8. Single'
  <2>1. Len(<<>>) = 0
    OBVIOUS
  <2>2. \A d \in Conns : /\ Len(conn'[d].sent) <= 1 /\ Len(conn'[d].wire) <= 1
                         /\ conn'[d].open => conn[d].open
    BY <2>1, <1>0, <1>1, <1>2 DEF Single, SingleOn
  <2> QED BY <2>2, <1>0, <1>4, <1>5, <1>u DEF Single, SingleOn
<1>9. Asked'
  BY SMTT(30), <1>0, <1>4, <1>5, <1>6, <1>u DEF Asked
<1>10. Answered'
  BY <1>0, <1>4, <1>5, <1>6, <1>u DEF Answered
<1>11. Told'
  BY <1>0, <1>4, <1>u DEF Told, ToldTo
<1> QED BY <1>3, <1>7, <1>8, <1>9, <1>10, <1>11 DEF IInv
-----------------------------------------------------------------------------
(* The theorems *)

\* Nothing has been called and no connection is open.
LEMMA Beginning ==
  ASSUME Init
  PROVE  IInv
<1>1. /\ idle = <<>> /\ conn = [c \in Conns |-> Unused] /\ loaded = FALSE /\ drops = 0
      /\ call = [p \in Callers |-> NoCall]
      /\ outcome = [k \in Commands |-> "none"] /\ applied = [k \in Commands |-> 0]
  BY DEF Init
<1>2. TypeOK
  <2>1. Unused \in ConnRecord
    BY DEF Unused, ConnRecord
  <2>2. NoCall \in CallRecord
    BY RedisClientAssumption DEF NoCall, CallRecord, Phases, Verbs
  <2>3. /\ idle \in Seq(Conns) /\ Len(idle) <= Cap
        /\ outcome \in [Commands -> Results] /\ applied \in [Commands -> 0..1]
        /\ loaded \in BOOLEAN /\ drops \in 0..MaxDrops
    <3>1. idle \in Seq(Conns) /\ Len(idle) = 0
      BY <1>1
    <3>2. outcome \in [Commands -> Results]
      BY <1>1 DEF Results
    <3>3. applied \in [Commands -> 0..1] /\ loaded \in BOOLEAN
      <4>1. 0 \in 0..1
        OBVIOUS
      <4> QED BY <4>1, <1>1, Zenon
    <3>4. 0 <= Cap /\ drops \in 0..MaxDrops
      BY <1>1, RedisClientAssumption
    <3> QED BY <3>1, <3>2, <3>3, <3>4
  <2>4. call \in [Callers -> CallRecord] /\ conn \in [Conns -> ConnRecord]
    BY <1>1, <2>1, <2>2
  <2> QED BY <2>3, <2>4 DEF TypeOK, CallRecord, ConnRecord, Phases, Verbs, Results
<1>3. /\ \A c \in Conns : ~conn[c].open /\ conn[c].sent = <<>> /\ conn[c].wire = <<>>
      /\ \A p \in Callers : Held(p) = NoConn /\ call[p].phase = "idle" /\ call[p].n = 0
  BY <1>1 DEF Unused, NoCall, Held
<1>4. Owned
  <2>1. Distinct(<<>>) /\ Range(<<>>) = {}
    BY DEF Distinct, Range
  <2> QED BY <2>1, <1>1, <1>3, RedisClientAssumption DEF Owned, Holding
<1>5. Single
  <2>1. Len(<<>>) <= 1
    OBVIOUS
  <2> QED BY <2>1, <1>3 DEF Single, SingleOn, Busy, Ready
<1>6. Asked /\ Answered
  BY <1>3 DEF Asked, Answered, Busy, Ready
<1>7. Told
  <2>1. \A p \in Callers, i \in 1..MaxCalls :
          outcome[<<p, i>>] = "none" /\ applied[<<p, i>>] = 0
    BY <1>1 DEF Commands
  <2> QED BY <2>1, <1>3 DEF Told, ToldTo
<1> QED BY <1>2, <1>4, <1>5, <1>6, <1>7 DEF IInv

\* Every step of the callers and of the server keeps the invariant.
LEMMA Induction ==
  ASSUME IInv, [Next]_vars
  PROVE  IInv'
<1>1. CASE UNCHANGED vars
  <2>1. UNCHANGED <<idle, conn, call, loaded, drops, outcome, applied>>
    BY <1>1 DEF vars
  <2>2. \A p \in Callers : Held(p)' = Held(p) /\ Current(p)' = Current(p)
    BY <2>1 DEF Held, Current
  <2>3. TypeOK' <=> TypeOK
    BY <2>1 DEF TypeOK
  <2>4. Owned' <=> Owned
    BY SMTT(30), <2>1, <2>2 DEF Owned
  <2>5. Single' <=> Single
    BY SMTT(30), <2>1, <2>2, SameConn DEF Single, SingleOn
  <2>6. Asked' <=> Asked
    BY SMTT(30), <2>1, <2>2, SameConn DEF Asked
  <2>7. Answered' <=> Answered
    BY SMTT(30), <2>1, <2>2, SameConn DEF Answered
  <2>8. Told' <=> Told
    BY <2>1, <2>2 DEF Told, ToldTo
  <2> QED BY <2>3, <2>4, <2>5, <2>6, <2>7, <2>8 DEF IInv
<1>2. ASSUME NEW p \in Callers, NEW verb \in {"plain", "evalsha"}, Begin(p, verb)
      PROVE IInv'
  BY <1>2, BeginKeeps
<1>3. ASSUME NEW p \in Callers,
             Get(p) \/ DialFails(p) \/ Write(p) \/ WriteFails(p) \/ Reply(p) \/ ReadFails(p)
      PROVE  IInv'
  <2>1. CASE WriteFails(p) \/ ReadFails(p)
    <3>1. /\ call[p].phase \in Holding /\ conn' = Closed(Held(p)) /\ Finish(p, "failed")
          /\ UNCHANGED <<idle, loaded, drops, applied>>
      BY <2>1, Zenon DEF WriteFails, ReadFails, Holding
    <3> QED BY <3>1, FailsKeeps, Zenon
  <2> QED BY <1>3, <2>1, GetKeeps, DialFailsKeeps, WriteKeeps, ReplyKeeps, Zenon
<1>4. ASSUME NEW p \in Callers, NEW c \in Conns, Dial(p, c) PROVE IInv'
  BY <1>4, DialKeeps
<1>5. ASSUME NEW c \in Conns, Drop(c) PROVE IInv'
  BY <1>5, DropKeeps
<1>6. ASSUME NEW c \in Conns, NEW kind \in {"value", "error", "noscript"}, Execute(c, kind)
      PROVE  IInv'
  BY <1>6, ExecuteKeeps
<1>7. CASE Close
  BY <1>7, CloseKeeps
<1>8. CASE Restart
  BY <1>8, RestartKeeps
<1> QED BY <1>1, <1>2, <1>3, <1>4, <1>5, <1>6, <1>7, <1>8, Zenon DEF Next

\* The invariant holds in every state.
LEMMA Inductive == Spec => []IInv
<1>1. Init => IInv
  BY Beginning
<1>2. IInv /\ [Next]_vars => IInv'
  BY Induction
<1> QED BY <1>1, <1>2, PTL DEF Spec

\* get and put: in every state a connection is open exactly while it is in the
\* pool, once, or in the hands of one Do; the pool is within its size; and
\* nothing is under way on a connection in the pool.
THEOREM PoolStaysSound == Spec => []PoolSound
<1>1. IInv => PoolSound
  <2> SUFFICES ASSUME IInv PROVE PoolSound
    OBVIOUS
  <2>1. TypeOK /\ Owned /\ Single
    BY DEF IInv
  <2>2. ASSUME NEW c \in Conns
        PROVE  LET users == {p \in Callers : Held(p) = c} IN
               /\ conn[c].open <=> (c \in Range(idle) \/ users # {})
               /\ \A p, q \in users : p = q
               /\ c \in Range(idle) => users = {}
    BY <2>1, RedisClientAssumption DEF Owned
  <2>3. ASSUME NEW c \in Range(idle) PROVE conn[c].sent = <<>> /\ conn[c].wire = <<>>
    <3>1. c \in Conns
      BY <2>1, Typed DEF Range
    <3> QED BY <3>1, <2>1 DEF Owned, Single, SingleOn, Busy, Ready
  <2> QED BY <2>1, <2>2, <2>3 DEF PoolSound, Owned, Distinct
<1> QED BY <1>1, Inductive, PTL

\* Every step of the client and the server is a step of RedisCalls or none.
LEMMA Simulates ==
  ASSUME IInv, [Next]_vars
  PROVE  [Calls!Next]_<<outcome, applied>>
<1>0. TypeOK /\ Told
  BY DEF IInv
<1>t. call \in [Callers -> CallRecord]
  BY <1>0, Typed
<1>1. CASE UNCHANGED vars
  BY <1>1 DEF vars
<1>2. ASSUME NEW p \in Callers, NEW verb \in {"plain", "evalsha"}, Begin(p, verb)
      PROVE  Calls!Next
  <2> DEFINE n == call[p].n + 1
  <2>1. n \in 1..MaxCalls /\ call[p].phase = "idle" /\ call[p].n \in Nat
    BY <1>2, <1>t, RedisClientAssumption DEF Begin, CallRecord
  <2>2. outcome' = [outcome EXCEPT ![<<p, n>>] = "pending"] /\ UNCHANGED applied
    BY <1>2 DEF Begin
  <2>3. /\ outcome[<<p, n>>] = "none"
        /\ \A i \in 1..(n - 1) : outcome[<<p, i>>] \notin {"none", "pending"}
    <3>1. ToldTo(p)
      BY <1>0 DEF Told
    <3>2. outcome[<<p, n>>] = "none"
      BY <3>1, <2>1 DEF ToldTo
    <3>3. ASSUME NEW i \in 1..(n - 1) PROVE outcome[<<p, i>>] \notin {"none", "pending"}
      <4>1. i \in 1..MaxCalls /\ ~(i > call[p].n)
        BY <2>1, <3>3, RedisClientAssumption
      <4> QED BY <4>1, <3>1, <2>1 DEF ToldTo
    <3> QED BY <3>2, <3>3
  <2> HIDE DEF n
  <2>4. Calls!Call(p, n)
    BY SMTT(30), <2>2, <2>3 DEF Calls!Call, Calls!Becomes
  <2> QED BY <2>1, <2>4 DEF Calls!Next
<1>3. ASSUME NEW p \in Callers, NEW result \in {"value", "error", "failed"},
             call[p].phase # "idle", Finish(p, result), UNCHANGED applied,
             result = "value" => applied[Current(p)] = 1,
             result = "error" => applied[Current(p)] = 0
      PROVE  Calls!Next
  <2>1. Current(p) \in Commands /\ outcome[Current(p)] = "pending"
    BY <1>0, <1>3, Underway
  <2>2. Calls!Becomes(Current(p), result)
    BY <1>3 DEF Finish, Calls!Becomes
  <2>3. Calls!Return(Current(p)) \/ Calls!Reject(Current(p)) \/ Calls!Fail(Current(p))
    BY <1>3, <2>1, <2>2 DEF Calls!Return, Calls!Reject, Calls!Fail
  <2> QED BY <2>1, <2>3 DEF Calls!Next, Calls!Commands, Commands
<1>4. ASSUME NEW p \in Callers, DialFails(p) \/ WriteFails(p) \/ ReadFails(p)
      PROVE  Calls!Next
  <2>1. call[p].phase # "idle" /\ Finish(p, "failed") /\ UNCHANGED applied
    BY <1>4 DEF DialFails, WriteFails, ReadFails
  <2> QED BY <2>1, <1>3
<1>5. ASSUME NEW p \in Callers, Reply(p)
      PROVE Calls!Next \/ UNCHANGED <<outcome, applied>>
  <2>1. call[p].phase # "idle" /\ UNCHANGED applied
    BY <1>5 DEF Reply
  <2>2. CASE UNCHANGED outcome
    BY <2>1, <2>2
  <2>3. ASSUME NEW result \in {"value", "error"}, Finish(p, result),
               result = "value" <=> applied[Current(p)] = 1
        PROVE  Calls!Next
    <3>1. applied[Current(p)] \in 0..1
      BY <2>1, <1>0, Underway, Typed
    <3> QED BY <3>1, <2>1, <2>3, <1>3
  <2> QED BY <2>2, <2>3, <1>5, ReplyKeeps, Zenon
<1>6. ASSUME NEW c \in Conns, NEW kind \in {"value", "error", "noscript"}, Execute(c, kind)
      PROVE  Calls!Next \/ UNCHANGED <<outcome, applied>>
  <2>1. PICK k \in Commands :
          /\ outcome[k] \in {"pending", "failed"} /\ applied[k] = 0
          /\ applied' = IF kind = "value" THEN [applied EXCEPT ![k] = 1] ELSE applied
    BY <1>6, ExecuteKeeps, Zenon
  <2>2. UNCHANGED outcome
    BY <1>6, Zenon DEF Execute
  <2>3. CASE kind = "value"
    BY <2>1, <2>2, <2>3, Zenon DEF Calls!Next, Calls!Apply, Calls!Commands, Commands
  <2> QED BY <2>1, <2>2, <2>3
<1>7. ASSUME NEW p \in Callers, Get(p) \/ Write(p) \/ \E c \in Conns : Dial(p, c)
      PROVE  UNCHANGED <<outcome, applied>>
  BY <1>7, Zenon DEF Get, Write, Dial
<1>8. CASE Close \/ Restart \/ \E c \in Conns : Drop(c)
  BY <1>8, Zenon DEF Close, Restart, Drop
<1> QED BY <1>1, <1>2, <1>4, <1>5, <1>6, <1>7, <1>8, Zenon DEF Next

\* Do and Run implement RedisCalls: a value means the command was executed
\* once, an error that it was not, a failure nothing either way.
THEOREM Implements == Spec => CallsSpec
<1>1. Init => Calls!Init
  BY DEF Init, Calls!Init, Calls!Commands, Commands
<1>2. IInv /\ [Next]_vars => [Calls!Next]_<<outcome, applied>>
  BY Simulates
<1> QED BY <1>1, <1>2, Inductive, PTL DEF Spec, CallsSpec, Calls!Spec
=============================================================================

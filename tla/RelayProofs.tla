---------------------------- MODULE RelayProofs -----------------------------
(***************************************************************************)
(* OneCopy, SentOnce, WaitingHasBody and KeptWhileSteady for any number of *)
(* messages and drainers, from one inductive invariant.  It keeps the      *)
(* places of a message apart pairwise (Apart), knows what is stored for it *)
(* at each place (Stored), that a message the server was heard to take is  *)
(* on its way out (Counted), and that a held message which is done with    *)
(* was delivered or suppressed (Settled).                                  *)
(* The first lemmas say what a change of one drainer's record alone        *)
(* preserves, and what the invariant gives every step; then every action   *)
(* keeps it, one lemma per action.                                         *)
(***************************************************************************)
EXTENDS Relay, TLAPS

(* A record update usable in every leaf: the SMT backend then leaves the   *)
(* leaf untyped.  Type inference is most of the time these proofs would    *)
(* take otherwise.                                                         *)
Blank == [field |-> 0]
Blanks == {Blank}

\* Writing the value a field already has changes nothing.
LEMMA Untyped == [Blank EXCEPT !.field = 0] \in Blanks
  BY DEF Blank, Blanks

USE Untyped

Listed(s) == {s[i] : i \in DOMAIN s}
Distinct(s) == \A i, j \in DOMAIN s : s[i] = s[j] => i = j
Pending == {"new", "set", "push"}

Apart ==
  /\ Distinct(ready)
  /\ \A m \in Messages :
       /\ accept[m] \in Pending => m \notin Listed(ready) /\ later[m] = NotLater /\ m \notin dead
       /\ m \in Listed(ready) => later[m] = NotLater /\ m \notin dead
       /\ later[m] # NotLater => m \notin dead
  /\ \A d \in Drainers : Item(d) # Nobody =>
       /\ accept[Item(d)] \notin Pending /\ Item(d) \notin Listed(ready)
       /\ later[Item(d)] = NotLater /\ Item(d) \notin dead
       /\ \A e \in Drainers : Item(e) = Item(d) => e = d

Early == {"requeue", "get"}

\* What is stored for the message of a call that has got to phase.
Fits(m, phase, attempts) ==
  m # Nobody =>
    /\ body[m] # NoBody
    /\ phase \in Early => body[m] < env.maxAttempts
    /\ phase \notin Early \cup {"place"} => attempts < env.maxAttempts
    /\ phase = "place" => body[m] = attempts /\ attempts > 0

Stored ==
  /\ \A m \in Messages :
       /\ accept[m] = "push" \/ m \in Listed(ready) \/ later[m] # NotLater
            => body[m] \in 0 .. (env.maxAttempts - 1)
       /\ m \in dead => body[m] # NoBody
  /\ \A d \in Drainers : Fits(Item(d), drain[d].phase, drain[d].attempts)

Counted ==
  /\ \A m \in Messages :
       /\ copies[m] <= 1 + unheard[m]
       /\ accept[m] \in Pending \/ m \in Listed(ready) \/ later[m] # NotLater \/ m \in dead
            => copies[m] <= unheard[m]
  /\ \A d \in Drainers : Item(d) # Nobody /\ drain[d].phase # "done"
       => copies[Item(d)] <= unheard[Item(d)]

Over(m) == fate[m] \in {"delivered", "suppressed"}

Waits(m) == m \in Listed(ready) \/ later[m] # NotLater \/ m \in dead

Settled ==
  Steady =>
    /\ \A m \in Messages : accept[m] = "accepted" =>
         Waits(m) \/ (\E d \in Drainers : Item(d) = m) \/ Over(m)
    /\ \A d \in Drainers : drain[d].phase = "done" => Over(Item(d))

IInv ==
  /\ env \in Environments /\ TypeOK
  /\ Apart /\ Stored /\ Counted /\ Settled
-----------------------------------------------------------------------------
(* Lists without repetition *)

\* LPUSH of an id that is not there.
LEMMA PushList ==
  ASSUME NEW s \in Seq(Messages), NEW m \in Messages
  PROVE  /\ Append(s, m) \in Seq(Messages)
         /\ Listed(Append(s, m)) = Listed(s) \cup {m}
         /\ Distinct(s) /\ m \notin Listed(s) => Distinct(Append(s, m))
  <1>1. Append(s, m) \in Seq(Messages)
    OBVIOUS
  <1>2. Listed(Append(s, m)) = Listed(s) \cup {m}
    <2>1. /\ DOMAIN Append(s, m) = DOMAIN s \cup {Len(s) + 1}
          /\ Len(s) + 1 \notin DOMAIN s /\ Append(s, m)[Len(s) + 1] = m
          /\ \A i \in DOMAIN s : Append(s, m)[i] = s[i]
      OBVIOUS
    <2> QED BY <2>1, ZenonT(30) DEF Listed
  <1>3. ASSUME Distinct(s), m \notin Listed(s) PROVE Distinct(Append(s, m))
    BY <1>3 DEF Listed, Distinct
  <1> QED BY <1>1, <1>2, <1>3

\* RPOP of the oldest id.
LEMMA PopList ==
  ASSUME NEW s \in Seq(Messages), s # <<>>, Distinct(s)
  PROVE  /\ Tail(s) \in Seq(Messages) /\ Head(s) \in Messages
         /\ Head(s) \in Listed(s)
         /\ Listed(Tail(s)) = Listed(s) \ {Head(s)}
         /\ Distinct(Tail(s))
<1> DEFINE t == Tail(s)
<1>1. /\ t \in Seq(Messages) /\ Head(s) = s[1] /\ Len(s) > 0
      /\ DOMAIN s = 1 .. Len(s) /\ DOMAIN t = 1 .. (Len(s) - 1)
      /\ \A i \in DOMAIN t : t[i] = s[i + 1]
  OBVIOUS
<1> HIDE DEF t
<1>2. Head(s) \in Messages /\ Head(s) \in Listed(s)
  BY <1>1 DEF Listed
<1>3. Distinct(t)
  BY SMTT(30), <1>1 DEF Distinct
<1>4. ASSUME NEW x \in Listed(t) PROVE x \in Listed(s) \ {Head(s)}
  <2>1. PICK i \in DOMAIN t : x = t[i]
    BY DEF Listed
  <2> QED BY SMTT(30), <2>1, <1>1 DEF Listed, Distinct
<1>5. ASSUME NEW x \in Listed(s) \ {Head(s)} PROVE x \in Listed(t)
  <2>1. PICK i \in DOMAIN s : x = s[i]
    BY DEF Listed
  <2>2. i - 1 \in DOMAIN t /\ t[i - 1] = x
    BY <2>1, <1>1
  <2> QED BY <2>2 DEF Listed
<1> QED BY <1>1, <1>2, <1>3, <1>4, <1>5 DEF t
-----------------------------------------------------------------------------
(* The step *)

\* The call of d moves on, the others stay where they are.
Turn(d, phase, item, attempts) ==
  /\ (drain \in [Drainers -> Calls])'
  /\ drain'[d].phase = phase /\ drain'[d].item = item /\ drain'[d].attempts = attempts
  /\ \A e \in Drainers : e # d => drain'[e] = drain[e]

LEMMA BecomesTurns ==
  ASSUME drain \in [Drainers -> Calls], UNCHANGED env,
         NEW d \in Drainers, NEW call \in Calls, Becomes(d, call)
  PROVE  Turn(d, call.phase, call.item, call.attempts)
<1>1. Calls' = Calls
  BY DEF Calls
<1> QED BY <1>1 DEF Becomes, Turn

LEMMA GotoTurns ==
  ASSUME drain \in [Drainers -> Calls], UNCHANGED env,
         NEW d \in Drainers, NEW phase \in Phases, Goto(d, phase)
  PROVE  Turn(d, phase, Item(d), drain[d].attempts)
<1> DEFINE call == [drain[d] EXCEPT !.phase = phase]
<1>1. /\ call \in Calls /\ call.phase = phase
      /\ call.item = Item(d) /\ call.attempts = drain[d].attempts
  BY DEF Calls, Item
<1>2. Becomes(d, call)
  BY DEF Goto
<1> HIDE DEF call
<1> QED BY <1>1, <1>2, BecomesTurns

LEMMA ReturnTurns ==
  ASSUME env \in Environments, UNCHANGED env, drain \in [Drainers -> Calls],
         NEW d \in Drainers, Return(d)
  PROVE  Turn(d, "idle", Nobody, 0)
<1>1. env.maxAttempts \in Nat
  BY RelayAssumption
<1>2. Idle \in Calls /\ Idle.phase = "idle" /\ Idle.item = Nobody /\ Idle.attempts = 0
  BY <1>1 DEF Idle, Calls, Phases
<1> QED BY <1>2, BecomesTurns DEF Return

\* A call that keeps its message or lets go of it disturbs no place.
LEMMA ApartTurn ==
  ASSUME NEW d \in Drainers, NEW p, NEW i, NEW a, Turn(d, p, i, a),
         i \in {Nobody, Item(d)}, Apart, UNCHANGED <<ready, later, dead, accept>>
  PROVE  Apart'
  BY DEF Apart, Turn, Item, Pending

LEMMA StoredTurn ==
  ASSUME NEW d \in Drainers, NEW p, NEW i, NEW a, Turn(d, p, i, a),
         Fits(i, p, a), Stored, UNCHANGED <<env, body, ready, later, dead, accept>>
  PROVE  Stored'
  BY DEF Stored, Turn, Item, Fits

LEMMA CountedTurn ==
  ASSUME NEW d \in Drainers, NEW p, NEW i, NEW a, Turn(d, p, i, a),
         i = Nobody \/ (i = Item(d) /\ (p = "done" \/ drain[d].phase # "done")),
         Counted, UNCHANGED <<ready, later, dead, accept, copies, unheard>>
  PROVE  Counted'
  BY DEF Counted, Turn, Item, Pending

LEMMA SettledStep ==
  ASSUME NEW d \in Drainers, NEW p, NEW i, NEW a, Turn(d, p, i, a), Apart, Settled,
         UNCHANGED <<env, accept>>,
         Steady => /\ \A m \in Messages : m # Item(d) /\ Waits(m) => Waits(m)' \/ i = m
                   /\ \A m \in Messages : m # Item(d) /\ Over(m) => Over(m)'
                   /\ \A m \in Messages : m = Item(d) => i = m \/ Waits(m)' \/ Over(m)'
                   /\ p = "done" => Over(i)',
         \A e \in Drainers : drain[e].phase = "done" => Item(e) \in Messages /\ Item(e) # Nobody
  PROVE  Settled'
<1> SUFFICES ASSUME Steady PROVE Settled'
  BY DEF Settled, Steady
<1>1. ASSUME NEW e \in Drainers, (drain[e].phase = "done")' PROVE Over(Item(e))'
  <2>1. CASE e = d
    BY <1>1, <2>1 DEF Turn, Item
  <2>2. CASE e # d
    <3>1. Item(e)' = Item(e) /\ drain[e].phase = "done"
      BY <1>1, <2>2 DEF Turn, Item
    <3>2. Item(e) # Item(d) /\ Over(Item(e)) /\ Item(e) \in Messages
      BY <3>1, <2>2 DEF Apart, Settled
    <3> QED BY <3>1, <3>2 DEF Over
  <2> QED BY <2>1, <2>2
<1>2. ASSUME NEW m \in Messages, (accept[m] = "accepted")', ~Waits(m)', ~Over(m)'
      PROVE  \E e \in Drainers : Item(e)' = m
  <2>1. CASE i = m
    BY <2>1 DEF Turn, Item
  <2>2. CASE i # m
    <3>1. m # Item(d)
      BY <1>2, <2>2
    <3>2. PICK e \in Drainers : Item(e) = m
      BY <1>2, <2>2, <3>1 DEF Settled
    <3> QED BY <3>1, <3>2 DEF Turn, Item
  <2> QED BY <2>1, <2>2
<1> QED BY <1>1, <1>2 DEF Settled

\* The same where neither the queue nor a fate changes.
LEMMA SettledTurn ==
  ASSUME NEW d \in Drainers, NEW p, NEW i, NEW a, Turn(d, p, i, a), Apart, Settled,
         UNCHANGED <<env, ready, later, dead, accept, fate>>,
         Steady => \/ i = Item(d) \/ Item(d) \notin Messages \/ Over(Item(d)),
         Steady /\ p = "done" => Over(i),
         \A e \in Drainers : drain[e].phase = "done" => Item(e) \in Messages /\ Item(e) # Nobody
  PROVE  Settled'
<1>1. \A m : (Waits(m)' <=> Waits(m)) /\ (Over(m)' <=> Over(m))
  BY DEF Waits, Over
<1> QED BY <1>1, SettledStep

\* Another message of the same call, or another body for it.
LEMMA StoredStep ==
  ASSUME NEW d \in Drainers, NEW p, NEW i, NEW a, Turn(d, p, i, a), Stored, UNCHANGED env,
         Fits(i, p, a)',
         \A m \in Messages :
           /\ (accept[m] = "push" \/ m \in Listed(ready) \/ later[m] # NotLater)'
                => body'[m] \in 0 .. (env.maxAttempts - 1)
           /\ (m \in dead)' => body'[m] # NoBody,
         \A e \in Drainers : e # d => Item(e) = Nobody \/ body'[Item(e)] = body[Item(e)]
  PROVE  Stored'
<1>1. \A e \in Drainers : Fits(Item(e), drain[e].phase, drain[e].attempts)'
  BY DEF Stored, Turn, Item, Fits
<1> QED BY <1>1 DEF Stored

\* The other variables keeping their types, a call holds an item where it should.
LEMMA TypeTurn ==
  ASSUME NEW d \in Drainers, NEW p, NEW i, NEW a, Turn(d, p, i, a),
         i # Nobody <=> p \in Holding, TypeOK
  PROVE  \A e \in Drainers : (Item(e)' # Nobody) <=> (drain'[e].phase \in Holding)
  BY Zenon DEF TypeOK, Turn, Item

(* What the invariant gives every step *)

LEMMA Parts ==
  ASSUME IInv
  PROVE  env \in Environments /\ TypeOK /\ Apart /\ Stored /\ Counted /\ Settled
  BY DEF IInv

LEMMA Whole ==
  ASSUME IInv, env' = env, TypeOK', Apart', Stored', Counted', Settled'
  PROVE  IInv'
  BY DEF IInv

LEMMA Limits ==
  ASSUME IInv
  PROVE  /\ env.maxAttempts \in Nat \ {0}
         /\ env.gate \subseteq {"allow", "suppressed", "unvouched"}
  BY Parts, RelayAssumption

LEMMA Calm == Steady => \A o \in Outcomes : Ok(o)
  BY DEF Steady, Outcomes, Ok

LEMMA CallsTyped ==
  ASSUME IInv
  PROVE  drain \in [Drainers -> Calls]
  BY Parts DEF TypeOK

LEMMA HoldsItem ==
  ASSUME IInv
  PROVE  \A d \in Drainers :
           drain[d].phase \in Holding => Item(d) \in Messages /\ Item(d) # Nobody
  BY Parts, CallsTyped, RelayAssumption DEF TypeOK, Calls, Item

LEMMA HoldsNone ==
  ASSUME IInv
  PROVE  \A d \in Drainers : drain[d].phase \notin Holding => Item(d) = Nobody
  BY Parts DEF TypeOK

LEMMA AttemptsBounded ==
  ASSUME IInv
  PROVE  \A d \in Drainers : drain[d].attempts \in 0 .. env.maxAttempts
  BY CallsTyped DEF Calls

LEMMA DelayNat ==
  ASSUME IInv
  PROVE  Delay(env.maxAttempts) \in Nat
  BY Parts, Limits, BackoffGrows

LEMMA Counters ==
  ASSUME IInv
  PROVE  /\ copies \in [Messages -> Nat] /\ unheard \in [Messages -> Nat]
         /\ fate \in [Messages -> {"none", "suppressed", "unvouched", "delivered",
                                    "deferred", "rejected"}]
         /\ body \in [Messages -> Int] /\ later \in [Messages -> Int]
  BY Parts, Limits DEF TypeOK, NoBody, NotLater

LEMMA Exclusive ==
  ASSUME IInv
  PROVE  \A d, e \in Drainers : Item(d) # Nobody /\ e # d => Item(e) # Item(d)
  BY Parts DEF Apart

LEMMA DoneHolds ==
  ASSUME IInv
  PROVE  \A d \in Drainers : drain[d].phase = "done" => Item(d) \in Messages /\ Item(d) # Nobody
  BY HoldsItem DEF Holding
-----------------------------------------------------------------------------
(* Every action keeps the invariant *)

\* The gate answers a message handed in.
LEMMA SubmitKeeps ==
  ASSUME IInv, env' = env, NEW m \in Messages, NEW answer \in env.gate, Submit(m, answer)
  PROVE  IInv'
<1>5. TypeOK'
  BY Parts, Limits
  DEF Submit, TypeOK, Calls, Item, Holding, queue, history, NoBody, NotLater
<1>6. Apart'
  BY Parts DEF Submit, TypeOK, Apart, Pending, Item, queue, history
<1>7. Stored'
  BY Parts, Limits
  DEF Submit, TypeOK, Apart, Stored, Fits, Pending, Item, queue, history, NoBody,
      NotLater
<1>8. Counted'
  BY Parts DEF Submit, TypeOK, Apart, Counted, Pending, Item, queue, history
<1>9. Settled'
  BY Parts, Calm
  DEF Submit, TypeOK, Settled, Waits, Steady, Over, Item, queue, history
<1> QED BY Whole, <1>5, <1>6, <1>7, <1>8, <1>9

\* The body is stored.
LEMMA EnqueueSetKeeps ==
  ASSUME IInv, env' = env, NEW m \in Messages, NEW o \in Outcomes, EnqueueSet(m, o)
  PROVE  IInv'
<1> USE DEF Ran, Ok
<1>5. TypeOK'
  BY Parts, Limits
  DEF EnqueueSet, TypeOK, Calls, Item, Holding, queue, history, NoBody, NotLater
<1>6. Apart'
  BY Parts DEF EnqueueSet, TypeOK, Apart, Pending, Item, queue, history
<1>7. Stored'
  BY Parts, Limits, SMTT(30)
  DEF EnqueueSet, TypeOK, Apart, Stored, Fits, Pending, Item, queue, history, NoBody,
      NotLater
<1>8. Counted'
  BY Parts DEF EnqueueSet, TypeOK, Apart, Counted, Pending, Item, queue, history
<1>9. Settled'
  BY Parts, Calm
  DEF EnqueueSet, TypeOK, Settled, Waits, Steady, Over, Item, queue, history
<1> QED BY Whole, <1>5, <1>6, <1>7, <1>8, <1>9

\* The id is pushed.
LEMMA EnqueuePushKeeps ==
  ASSUME IInv, env' = env, NEW m \in Messages, NEW o \in Outcomes, EnqueuePush(m, o)
  PROVE  IInv'
<1> USE DEF Ran, Ok
<1>1. m \notin Listed(ready) /\ ready \in Seq(Messages) /\ Distinct(ready)
  BY Parts DEF EnqueuePush, TypeOK, Apart, Pending
<1>2. /\ ready' \in Seq(Messages) /\ Distinct(ready')
      /\ Listed(ready) \subseteq Listed(ready')
      /\ Listed(ready') \subseteq Listed(ready) \cup {m}
      /\ Ok(o) => m \in Listed(ready')
  BY <1>1, PushList DEF EnqueuePush
<1>5. TypeOK'
  BY Parts, Limits, <1>2
  DEF EnqueuePush, TypeOK, Calls, Item, Holding, queue, history, NoBody, NotLater
<1>6. Apart'
  BY Parts, <1>2 DEF EnqueuePush, TypeOK, Apart, Pending, Item, queue, history
<1>7. Stored'
  BY SMTT(30), Parts, Limits, <1>2
  DEF EnqueuePush, TypeOK, Apart, Stored, Fits, Pending, Item, queue, history, NoBody,
      NotLater
<1>8. Counted'
  BY Parts, <1>2
  DEF EnqueuePush, TypeOK, Apart, Counted, Pending, Item, queue, history
<1>9. Settled'
  BY SMTT(30), Parts, Calm, <1>2
  DEF EnqueuePush, TypeOK, Settled, Waits, Steady, Over, Item, queue, history
<1> QED BY Whole, <1>5, <1>6, <1>7, <1>8, <1>9

\* The caller goes away.
LEMMA CallerCutKeeps ==
  ASSUME IInv, env' = env, NEW m \in Messages, CallerCut(m)
  PROVE  IInv'
<1>5. TypeOK'
  BY SMTT(30), Parts, Limits
  DEF CallerCut, TypeOK, Calls, Item, Holding, queue, history, NoBody, NotLater
<1>6. Apart'
  BY Parts DEF CallerCut, TypeOK, Apart, Pending, Item, queue, history
<1>7. Stored'
  BY SMTT(30), Parts, Limits
  DEF CallerCut, TypeOK, Apart, Stored, Fits, Pending, Item, queue, history, NoBody,
      NotLater
<1>8. Counted'
  BY Parts DEF CallerCut, TypeOK, Apart, Counted, Pending, Item, queue, history
<1>9. Settled'
  BY Parts, Calm
  DEF CallerCut, TypeOK, Settled, Waits, Steady, Over, Item, queue, history
<1> QED BY Whole, <1>5, <1>6, <1>7, <1>8, <1>9

\* A drainer looks whether it may send.
LEMMA BeginKeeps ==
  ASSUME IInv, env' = env, NEW d \in Drainers, Begin(d)
  PROVE  IInv'
<1>1. Turn(d, "range", Item(d), drain[d].attempts)
  BY Parts, CallsTyped, GotoTurns DEF Begin, Phases
<1>4. \A e \in Drainers : (Item(e)' # Nobody) <=> (drain'[e].phase \in Holding)
  BY <1>1, Parts, HoldsItem, HoldsNone, RelayAssumption, TypeTurn DEF Begin, Holding
<1>5. TypeOK'
  BY <1>1, <1>4, Parts DEF Begin, Turn, TypeOK, queue, history, Item
<1>6. Apart'
  <2>1. UNCHANGED <<ready, later, dead, accept>>
    BY Zenon DEF Begin, queue, history
  <2> QED BY <2>1, <1>1, Parts, ApartTurn
<1>7. Stored'
  BY <1>1, Parts, HoldsItem, HoldsNone, StoredTurn
  DEF Begin, queue, history, Stored, Fits, Early, Holding
<1>8. Counted'
  <2>1. drain[d].phase # "done" /\ UNCHANGED <<ready, later, dead, accept, copies, unheard>>
    BY Zenon DEF Begin, queue, history
  <2> QED BY <2>1, <1>1, Parts, CountedTurn
<1>9. Settled'
  BY <1>1, Parts, Calm, HoldsNone, RelayAssumption, DoneHolds, SettledTurn
  DEF Begin, queue, history, Holding
<1> QED BY Whole, <1>5, <1>6, <1>7, <1>8, <1>9

\* The process stops with a message in hand.
LEMMA RestartKeeps ==
  ASSUME IInv, env' = env, NEW d \in Drainers, Restart(d)
  PROVE  IInv'
<1>1. Turn(d, "idle", Nobody, 0)
  BY Parts, CallsTyped, ReturnTurns DEF Restart
<1>4. \A e \in Drainers : (Item(e)' # Nobody) <=> (drain'[e].phase \in Holding)
  BY <1>1, Parts, HoldsItem, HoldsNone, RelayAssumption, TypeTurn DEF Restart, Holding
<1>5. TypeOK'
  BY <1>1, <1>4, Parts DEF Restart, Turn, TypeOK, queue, history, Item
<1>6. Apart'
  <2>1. UNCHANGED <<ready, later, dead, accept>>
    BY Zenon DEF Restart, queue, history
  <2> QED BY <2>1, <1>1, Parts, ApartTurn
<1>7. Stored'
  BY <1>1, Parts, HoldsItem, HoldsNone, StoredTurn
  DEF Restart, queue, history, Stored, Fits, Early, Holding
<1>8. Counted'
  <2>1. UNCHANGED <<ready, later, dead, accept, copies, unheard>>
    BY Zenon DEF Restart, queue, history
  <2> QED BY <2>1, <1>1, Parts, CountedTurn
<1>9. Settled'
  BY <1>1, Parts, DoneHolds, SettledTurn DEF Restart, queue, history, Steady
<1> QED BY Whole, <1>5, <1>6, <1>7, <1>8, <1>9

\* The due messages are read.
LEMMA DueKeeps ==
  ASSUME IInv, env' = env, NEW d \in Drainers, NEW o \in Outcomes, Due(d, o)
  PROVE  IInv'
<1> USE DEF Ran, Ok
<1>1. CASE ~(Ok(o))
  <2>1. Turn(d, "idle", Nobody, 0)
    BY <1>1, Parts, CallsTyped, ReturnTurns DEF Due
  <2>4. \A e \in Drainers : (Item(e)' # Nobody) <=> (drain'[e].phase \in Holding)
    BY <1>1, <2>1, Parts, HoldsItem, HoldsNone, RelayAssumption, TypeTurn
    DEF Due, Holding
  <2>5. TypeOK'
    BY <1>1, <2>1, <2>4, Parts DEF Due, Turn, TypeOK, queue, history, Item
  <2>6. Apart'
    <3>1. UNCHANGED <<ready, later, dead, accept>>
      BY <1>1 DEF Due, queue, history
    <3> QED BY <3>1, <1>1, <2>1, Parts, ApartTurn
  <2>7. Stored'
    BY <1>1, <2>1, Parts, HoldsItem, HoldsNone, StoredTurn
    DEF Due, queue, history, Stored, Fits, Early, Holding
  <2>8. Counted'
    <3>1. drain[d].phase # "done" /\ UNCHANGED <<ready, later, dead, accept, copies, unheard>>
      BY <1>1 DEF Due, queue, history
    <3> QED BY <3>1, <1>1, <2>1, Parts, CountedTurn
  <2>9. Settled'
    BY <1>1, <2>1, Parts, Calm, HoldsNone, RelayAssumption, DoneHolds, SettledTurn
    DEF Due, queue, history, Holding
  <2> QED BY Whole, <2>5, <2>6, <2>7, <2>8, <2>9
<1>2. CASE Ok(o)
  <2> DEFINE call == [drain[d] EXCEPT !.phase = "promote", !.todo = {m \in Messages : later[m] = 0}]
  <2>1. Becomes(d, call)
    BY <1>2, SMTT(30) DEF Due
  <2>2. /\ call \in Calls /\ call.phase = "promote"
        /\ call.item = Item(d) /\ call.attempts = drain[d].attempts
    BY CallsTyped, ZenonT(30) DEF Calls, Phases, Item
  <2> HIDE DEF call
  <2>3. Turn(d, "promote", Item(d), drain[d].attempts)
    BY <2>1, <2>2, Parts, CallsTyped, BecomesTurns
  <2>4. \A e \in Drainers : (Item(e)' # Nobody) <=> (drain'[e].phase \in Holding)
    BY <1>2, <2>3, Parts, HoldsItem, HoldsNone, RelayAssumption, TypeTurn
    DEF Due, Holding
  <2>5. TypeOK'
    BY <1>2, <2>3, <2>4, Parts DEF Due, Turn, TypeOK, queue, history, Item
  <2>6. Apart'
    <3>1. UNCHANGED <<ready, later, dead, accept>>
      BY <1>2 DEF Due, queue, history
    <3> QED BY <3>1, <1>2, <2>3, Parts, ApartTurn
  <2>7. Stored'
    BY <1>2, <2>3, Parts, HoldsItem, HoldsNone, StoredTurn
    DEF Due, queue, history, Stored, Fits, Early, Holding
  <2>8. Counted'
    <3>1. drain[d].phase # "done" /\ UNCHANGED <<ready, later, dead, accept, copies, unheard>>
      BY <1>2 DEF Due, queue, history
    <3> QED BY <3>1, <1>2, <2>3, Parts, CountedTurn
  <2>9. Settled'
    BY <1>2, <2>3, Parts, Calm, HoldsNone, RelayAssumption, DoneHolds, SettledTurn
    DEF Due, queue, history, Holding
  <2> QED BY Whole, <2>5, <2>6, <2>7, <2>8, <2>9
<1> QED BY <1>1, <1>2

\* The body of the message popped is read.
LEMMA GetKeeps ==
  ASSUME IInv, env' = env, NEW d \in Drainers, NEW o \in Outcomes, Get(d, o)
  PROVE  IInv'
<1> USE DEF Ran, Ok
<1>a. body[Item(d)] \in 0 .. env.maxAttempts /\ body[Item(d)] # NoBody /\ body[Item(d)] < env.maxAttempts
  BY Parts, Limits, HoldsItem DEF Get, TypeOK, Stored, Fits, Holding, Early, NoBody
<1>1. CASE ~(Ok(o) /\ body[Item(d)] # NoBody)
  <2>1. Turn(d, "idle", Nobody, 0)
    BY <1>1, Parts, CallsTyped, ReturnTurns DEF Get
  <2>4. \A e \in Drainers : (Item(e)' # Nobody) <=> (drain'[e].phase \in Holding)
    BY <1>1, <1>a, <2>1, Parts, HoldsItem, HoldsNone, RelayAssumption, TypeTurn
    DEF Get, Holding
  <2>5. TypeOK'
    BY <1>1, <1>a, <2>1, <2>4, Parts DEF Get, Turn, TypeOK, queue, history, Item
  <2>6. Apart'
    <3>1. UNCHANGED <<ready, later, dead, accept>>
      BY <1>1 DEF Get, queue, history
    <3> QED BY <3>1, <1>1, <1>a, <2>1, Parts, ApartTurn
  <2>7. Stored'
    BY <1>1, <1>a, <2>1, Parts, HoldsItem, HoldsNone, StoredTurn
    DEF Get, queue, history, Stored, Fits, Early, Holding
  <2>8. Counted'
    <3>1. drain[d].phase # "done" /\ UNCHANGED <<ready, later, dead, accept, copies, unheard>>
      BY <1>1 DEF Get, queue, history
    <3> QED BY <3>1, <1>1, <1>a, <2>1, Parts, CountedTurn
  <2>9. Settled'
    BY <1>1, <1>a, <2>1, Parts, Calm, HoldsNone, RelayAssumption, DoneHolds, SettledTurn
    DEF Get, queue, history, Holding
  <2> QED BY Whole, <2>5, <2>6, <2>7, <2>8, <2>9
<1>2. CASE Ok(o) /\ body[Item(d)] # NoBody
  <2> DEFINE call == [drain[d] EXCEPT !.phase = "gate", !.attempts = body[Item(d)]]
  <2>1. Becomes(d, call)
    BY <1>2 DEF Get
  <2>2. /\ call \in Calls /\ call.phase = "gate"
        /\ call.item = Item(d) /\ call.attempts = body[Item(d)]
    BY CallsTyped, <1>a, Zenon DEF Calls, Phases, Item
  <2> HIDE DEF call
  <2>3. Turn(d, "gate", Item(d), body[Item(d)])
    BY <2>1, <2>2, Parts, CallsTyped, BecomesTurns
  <2>4. \A e \in Drainers : (Item(e)' # Nobody) <=> (drain'[e].phase \in Holding)
    BY <1>2, <1>a, <2>3, Parts, HoldsItem, HoldsNone, RelayAssumption, TypeTurn
    DEF Get, Holding
  <2>5. TypeOK'
    BY SMTT(30), <1>2, <1>a, <2>3, <2>4, Parts
    DEF Get, Turn, TypeOK, queue, history, Item
  <2>6. Apart'
    <3>1. UNCHANGED <<ready, later, dead, accept>>
      BY <1>2 DEF Get, queue, history
    <3> QED BY <3>1, <1>2, <1>a, <2>3, Parts, ApartTurn
  <2>7. Stored'
    BY <1>2, <1>a, <2>3, Parts, HoldsItem, HoldsNone, StoredTurn
    DEF Get, queue, history, Stored, Fits, Early, Holding
  <2>8. Counted'
    <3>1. drain[d].phase # "done" /\ UNCHANGED <<ready, later, dead, accept, copies, unheard>>
      BY <1>2 DEF Get, queue, history
    <3> QED BY <3>1, <1>2, <1>a, <2>3, Parts, CountedTurn
  <2>9. Settled'
    BY <1>2, <1>a, <2>3, Parts, Calm, HoldsNone, RelayAssumption, DoneHolds, SettledTurn
    DEF Get, queue, history, Holding
  <2> QED BY Whole, <2>5, <2>6, <2>7, <2>8, <2>9
<1> QED BY <1>1, <1>2

\* No server of the domain is reached.
LEMMA UnreachedKeeps ==
  ASSUME IInv, env' = env, NEW d \in Drainers, Unreached(d)
  PROVE  IInv'
<1>1. Turn(d, "store", Item(d), drain[d].attempts)
  BY Parts, CallsTyped, GotoTurns DEF Unreached, Phases
<1>4. \A e \in Drainers : (Item(e)' # Nobody) <=> (drain'[e].phase \in Holding)
  BY <1>1, Parts, HoldsItem, HoldsNone, RelayAssumption, TypeTurn DEF Unreached, Holding
<1>5. TypeOK'
  BY <1>1, <1>4, Parts DEF Unreached, Turn, TypeOK, queue, history, Item
<1>6. Apart'
  <2>1. UNCHANGED <<ready, later, dead, accept>>
    BY Zenon DEF Unreached, queue, history
  <2> QED BY <2>1, <1>1, Parts, ApartTurn
<1>7. Stored'
  <2>1. UNCHANGED <<body, ready, later, dead, accept>>
    BY Zenon DEF Unreached, queue, history
  <2>2. drain[d].phase = "route" /\ Fits(Item(d), drain[d].phase, drain[d].attempts)
    BY Parts, Zenon DEF Unreached, Stored
  <2>3. Fits(Item(d), "store", drain[d].attempts)
    BY <2>2, Zenon DEF Fits, Early
  <2> QED BY <1>1, <2>1, <2>3, Parts, StoredTurn, Zenon
<1>8. Counted'
  <2>1. drain[d].phase # "done" /\ UNCHANGED <<ready, later, dead, accept, copies, unheard>>
    BY Zenon DEF Unreached, queue, history
  <2> QED BY <2>1, <1>1, Parts, CountedTurn
<1>9. Settled'
  BY <1>1, Parts, Calm, HoldsNone, RelayAssumption, DoneHolds, SettledTurn
  DEF Unreached, queue, history, Holding
<1> QED BY Whole, <1>5, <1>6, <1>7, <1>8, <1>9

\* A server is reached.
LEMMA RouteKeeps ==
  ASSUME IInv, env' = env, NEW d \in Drainers, Route(d)
  PROVE  IInv'
<1>1. Turn(d, "send", Item(d), drain[d].attempts)
  BY Parts, CallsTyped, GotoTurns DEF Route, Phases
<1>4. \A e \in Drainers : (Item(e)' # Nobody) <=> (drain'[e].phase \in Holding)
  BY <1>1, Parts, HoldsItem, HoldsNone, RelayAssumption, TypeTurn DEF Route, Holding
<1>5. TypeOK'
  BY <1>1, <1>4, Parts DEF Route, Turn, TypeOK, queue, history, Item
<1>6. Apart'
  <2>1. UNCHANGED <<ready, later, dead, accept>>
    BY Zenon DEF Route, queue, history
  <2> QED BY <2>1, <1>1, Parts, ApartTurn
<1>7. Stored'
  <2>1. UNCHANGED <<body, ready, later, dead, accept>>
    BY Zenon DEF Route, queue, history
  <2>2. drain[d].phase = "route" /\ Fits(Item(d), drain[d].phase, drain[d].attempts)
    BY Parts, Zenon DEF Route, Stored
  <2>3. Fits(Item(d), "send", drain[d].attempts)
    BY <2>2, Zenon DEF Fits, Early
  <2> QED BY <1>1, <2>1, <2>3, Parts, StoredTurn, Zenon
<1>8. Counted'
  <2>1. drain[d].phase # "done" /\ UNCHANGED <<ready, later, dead, accept, copies, unheard>>
    BY Zenon DEF Route, queue, history
  <2> QED BY <2>1, <1>1, Parts, CountedTurn
<1>9. Settled'
  BY <1>1, Parts, Calm, HoldsNone, RelayAssumption, DoneHolds, SettledTurn
  DEF Route, queue, history, Holding
<1> QED BY Whole, <1>5, <1>6, <1>7, <1>8, <1>9

\* The gate is asked again.
LEMMA GateKeeps ==
  ASSUME IInv, env' = env, NEW d \in Drainers, NEW answer \in env.gate, Gate(d, answer)
  PROVE  IInv'
<1>1. Turn(d, IF answer = "allow" THEN "route" ELSE "done", Item(d), drain[d].attempts)
  BY Parts, CallsTyped, GotoTurns DEF Gate, Phases
<1>4. \A e \in Drainers : (Item(e)' # Nobody) <=> (drain'[e].phase \in Holding)
  BY <1>1, Parts, HoldsItem, HoldsNone, RelayAssumption, TypeTurn DEF Gate, Holding
<1>5. TypeOK'
  BY <1>1, <1>4, Parts, Limits, HoldsItem DEF Gate, Turn, TypeOK, queue, Item, Holding
<1>6. Apart'
  <2>1. UNCHANGED <<ready, later, dead, accept>>
    BY Zenon DEF Gate, queue, history
  <2> QED BY <2>1, <1>1, Parts, ApartTurn
<1>7. Stored'
  <2>1. UNCHANGED <<body, ready, later, dead, accept>>
    BY Zenon DEF Gate, queue, history
  <2>2. drain[d].phase = "gate" /\ Fits(Item(d), drain[d].phase, drain[d].attempts)
    BY Parts, Zenon DEF Gate, Stored
  <2>3. Fits(Item(d), IF answer = "allow" THEN "route" ELSE "done", drain[d].attempts)
    BY <2>2, Zenon DEF Fits, Early
  <2> QED BY <1>1, <2>1, <2>3, Parts, StoredTurn, Zenon
<1>8. Counted'
  <2>1. drain[d].phase # "done" /\ UNCHANGED <<ready, later, dead, accept, copies, unheard>>
    BY Zenon DEF Gate, queue, history
  <2> QED BY <2>1, <1>1, Parts, CountedTurn
<1>9. Settled'
  BY <1>1, Parts, Limits, HoldsItem, RelayAssumption, Counters, DoneHolds, SettledStep
  DEF Gate, queue, Waits, Over, Holding, Steady
<1> QED BY Whole, <1>5, <1>6, <1>7, <1>8, <1>9

\* The server takes the message.
LEMMA DeliveredKeeps ==
  ASSUME IInv, env' = env, NEW d \in Drainers, Delivered(d)
  PROVE  IInv'
<1>1. Turn(d, "done", Item(d), drain[d].attempts)
  BY Parts, CallsTyped, GotoTurns DEF Delivered, Phases
<1>4. \A e \in Drainers : (Item(e)' # Nobody) <=> (drain'[e].phase \in Holding)
  BY <1>1, Parts, HoldsItem, HoldsNone, RelayAssumption, TypeTurn DEF Delivered, Holding
<1>5. TypeOK'
  BY SMTT(30), <1>1, <1>4, Parts, HoldsItem
  DEF Delivered, Turn, TypeOK, queue, Item, Holding
<1>6. Apart'
  <2>1. UNCHANGED <<ready, later, dead, accept>>
    BY Zenon DEF Delivered, queue, history
  <2> QED BY <2>1, <1>1, Parts, ApartTurn
<1>7. Stored'
  <2>1. UNCHANGED <<body, ready, later, dead, accept>>
    BY Zenon DEF Delivered, queue, history
  <2>2. drain[d].phase = "send" /\ Fits(Item(d), drain[d].phase, drain[d].attempts)
    BY Parts, Zenon DEF Delivered, Stored
  <2>3. Fits(Item(d), "done", drain[d].attempts)
    BY <2>2, Zenon DEF Fits, Early
  <2> QED BY <1>1, <2>1, <2>3, Parts, StoredTurn, Zenon
<1>8. Counted'
  BY <1>1, Parts, HoldsItem, Counters, Exclusive
  DEF Delivered, queue, Turn, Apart, Counted, Item, Holding
<1>9. Settled'
  BY <1>1, Parts, Limits, HoldsItem, RelayAssumption, Counters, DoneHolds, SettledStep
  DEF Delivered, queue, Waits, Over, Holding, Steady
<1> QED BY Whole, <1>5, <1>6, <1>7, <1>8, <1>9

\* The server takes it and is not heard.
LEMMA UnheardKeeps ==
  ASSUME IInv, env' = env, NEW d \in Drainers, Unheard(d)
  PROVE  IInv'
<1>1. Turn(d, "store", Item(d), drain[d].attempts)
  BY Parts, CallsTyped, GotoTurns DEF Unheard, Phases
<1>4. \A e \in Drainers : (Item(e)' # Nobody) <=> (drain'[e].phase \in Holding)
  BY <1>1, Parts, HoldsItem, HoldsNone, RelayAssumption, TypeTurn DEF Unheard, Holding
<1>5. TypeOK'
  <2>1. copies' \in [Messages -> Nat] /\ unheard' \in [Messages -> Nat]
    <3>1. Item(d) \in Messages
      BY HoldsItem DEF Unheard, Holding
    <3>2. /\ copies' = [copies EXCEPT ![Item(d)] = @ + 1]
          /\ unheard' = [unheard EXCEPT ![Item(d)] = @ + 1]
      BY Zenon DEF Unheard
    <3> QED BY <3>1, <3>2, Counters
  <2>2. drain' \in [Drainers -> Calls']
    BY <1>1, Zenon DEF Turn
  <2>3. UNCHANGED <<body, ready, later, dead, accept, burned, fate>>
    BY Zenon DEF Unheard, queue
  <2> QED BY <1>4, <2>1, <2>2, <2>3, Parts, Zenon DEF TypeOK
<1>6. Apart'
  <2>1. UNCHANGED <<ready, later, dead, accept>>
    BY Zenon DEF Unheard, queue, history
  <2> QED BY <2>1, <1>1, Parts, ApartTurn
<1>7. Stored'
  <2>1. UNCHANGED <<body, ready, later, dead, accept>>
    BY Zenon DEF Unheard, queue, history
  <2>2. drain[d].phase = "send" /\ Fits(Item(d), drain[d].phase, drain[d].attempts)
    BY Parts, Zenon DEF Unheard, Stored
  <2>3. Fits(Item(d), "store", drain[d].attempts)
    BY <2>2, Zenon DEF Fits, Early
  <2> QED BY <1>1, <2>1, <2>3, Parts, StoredTurn, Zenon
<1>8. Counted'
  BY <1>1, Parts, HoldsItem, Counters, Exclusive
  DEF Unheard, queue, Turn, Apart, Counted, Item, Holding
<1>9. Settled'
  BY <1>1, Parts, Calm, HoldsNone, RelayAssumption, DoneHolds, SettledTurn
  DEF Unheard, queue, history, Holding
<1> QED BY Whole, <1>5, <1>6, <1>7, <1>8, <1>9

\* The server refuses it.
LEMMA RefusedKeeps ==
  ASSUME IInv, env' = env, NEW d \in Drainers, NEW how \in {"deferred", "rejected"}, Refused(d, how)
  PROVE  IInv'
<1>1. Turn(d, "store", Item(d), drain[d].attempts)
  BY Parts, CallsTyped, GotoTurns DEF Refused, Phases
<1>4. \A e \in Drainers : (Item(e)' # Nobody) <=> (drain'[e].phase \in Holding)
  BY <1>1, Parts, HoldsItem, HoldsNone, RelayAssumption, TypeTurn DEF Refused, Holding
<1>5. TypeOK'
  BY <1>1, <1>4, Parts, HoldsItem
  DEF Refused, Turn, TypeOK, queue, Item, Holding
<1>6. Apart'
  <2>1. UNCHANGED <<ready, later, dead, accept>>
    BY Zenon DEF Refused, queue, history
  <2> QED BY <2>1, <1>1, Parts, ApartTurn
<1>7. Stored'
  <2>1. UNCHANGED <<body, ready, later, dead, accept>>
    BY Zenon DEF Refused, queue, history
  <2>2. drain[d].phase = "send" /\ Fits(Item(d), drain[d].phase, drain[d].attempts)
    BY Parts, Zenon DEF Refused, Stored
  <2>3. Fits(Item(d), "store", drain[d].attempts)
    BY <2>2, Zenon DEF Fits, Early
  <2> QED BY <1>1, <2>1, <2>3, Parts, StoredTurn, Zenon
<1>8. Counted'
  <2>1. drain[d].phase # "done" /\ UNCHANGED <<ready, later, dead, accept, copies, unheard>>
    BY Zenon DEF Refused, queue, history
  <2> QED BY <2>1, <1>1, Parts, CountedTurn, SMTT(30)
<1>9. Settled'
  BY <1>1, Parts, Limits, HoldsItem, RelayAssumption, Counters, DoneHolds, SettledStep
  DEF Refused, queue, Waits, Over, Holding, Steady
<1> QED BY Whole, <1>5, <1>6, <1>7, <1>8, <1>9

(* Every action keeps the invariant, continued *)
\* The body is deleted.
LEMMA DoneKeeps ==
  ASSUME IInv, env' = env, NEW d \in Drainers, NEW o \in Outcomes, Done(d, o)
  PROVE  IInv'
<1> USE DEF Ran, Ok
<1>1. Turn(d, "idle", Nobody, 0)
  BY Parts, CallsTyped, ReturnTurns DEF Done
<1>2. \A m \in Messages : m # Item(d) => body'[m] = body[m]
  BY Counters DEF Done
<1>3. /\ \A m \in Messages :
           accept[m] = "push" \/ Waits(m) => m # Item(d)
      /\ \A e \in Drainers : e # d /\ Item(e) # Nobody => Item(e) # Item(d) /\ Item(e) \in Messages
  BY Parts, HoldsItem, HoldsNone, Exclusive DEF Done, Apart, Pending, Waits, Holding
<1>4. \A e \in Drainers : (Item(e)' # Nobody) <=> (drain'[e].phase \in Holding)
  BY <1>1, Parts, HoldsItem, HoldsNone, RelayAssumption, TypeTurn DEF Done, Holding
<1>5. TypeOK'
  BY SMTT(30), <1>1, <1>4, Parts, Limits, HoldsItem
  DEF Done, Turn, TypeOK, history, Item, Holding, NoBody
<1>6. Apart'
  <2>1. UNCHANGED <<ready, later, dead, accept>>
    BY DEF Done, queue, history
  <2> QED BY <2>1, <1>1, Parts, ApartTurn
<1>7. Stored'
  BY <1>1, <1>2, <1>3, Parts, StoredStep DEF Done, Stored, Waits, Fits
<1>8. Counted'
  <2>1. UNCHANGED <<ready, later, dead, accept, copies, unheard>>
    BY DEF Done, queue, history
  <2> QED BY <2>1, <1>1, Parts, CountedTurn
<1>9. Settled'
  BY <1>1, Parts, HoldsItem, DoneHolds, SettledTurn DEF Done, history, Settled
<1> QED BY Whole, <1>5, <1>6, <1>7, <1>8, <1>9

\* The attempt is counted in the body.
LEMMA StoreKeeps ==
  ASSUME IInv, env' = env, NEW d \in Drainers, NEW o \in Outcomes, Store(d, o)
  PROVE  IInv'
<1> USE DEF Ran, Ok
<1>a. Item(d) \in Messages /\ drain[d].attempts \in 0 .. (env.maxAttempts - 1)
  BY Parts, Limits, HoldsItem, AttemptsBounded DEF Store, Stored, Fits, Holding, Early
<1>b. \A m \in Messages : m # Item(d) => body'[m] = body[m]
  BY Counters DEF Store
<1>c. /\ \A m \in Messages :
           accept[m] = "push" \/ Waits(m) => m # Item(d)
      /\ \A e \in Drainers : e # d /\ Item(e) # Nobody => Item(e) # Item(d) /\ Item(e) \in Messages
  BY Parts, HoldsItem, HoldsNone, Exclusive DEF Store, Apart, Pending, Waits, Holding
<1>d. body' \in [Messages -> NoBody .. env.maxAttempts]
  BY <1>a, Parts, Limits, SMTT(30) DEF Store, TypeOK, NoBody
<1>e. drain[d].attempts + 1 \in 0 .. env.maxAttempts
  BY <1>a, Limits
<1>1. CASE ~(Ok(o))
  <2>1. Turn(d, "idle", Nobody, 0)
    BY <1>1, Parts, CallsTyped, ReturnTurns DEF Store
  <2>4. \A e \in Drainers : (Item(e)' # Nobody) <=> (drain'[e].phase \in Holding)
    BY <1>1, <1>a, <2>1, Parts, HoldsItem, HoldsNone, RelayAssumption, TypeTurn
    DEF Store, Holding
  <2>5. TypeOK'
    BY <1>1, <1>d, <2>1, <2>4, Parts DEF Store, Turn, TypeOK, history, Item
  <2>6. Apart'
    <3>1. UNCHANGED <<ready, later, dead, accept>>
      BY SMTT(30), <1>1 DEF Store, queue, history
    <3> QED BY <3>1, <1>1, <1>a, <2>1, Parts, ApartTurn
  <2>7. Stored'
    BY <1>1, <1>b, <1>c, <2>1, Parts, StoredStep DEF Store, Stored, Fits, Waits
  <2>8. Counted'
    <3>1. drain[d].phase # "done" /\ UNCHANGED <<ready, later, dead, accept, copies, unheard>>
      BY <1>1 DEF Store, queue, history
    <3> QED BY <3>1, <1>1, <1>a, <2>1, Parts, CountedTurn
  <2>9. Settled'
    BY <1>1, <1>a, <2>1, Parts, Calm, HoldsNone, RelayAssumption, DoneHolds, SettledTurn
    DEF Store, queue, history, Holding
  <2> QED BY Whole, <2>5, <2>6, <2>7, <2>8, <2>9
<1>2. CASE Ok(o)
  <2> DEFINE call == [drain[d] EXCEPT !.phase = "place", !.attempts = @ + 1]
  <2>1. Becomes(d, call)
    BY <1>2 DEF Store
  <2>2. /\ call \in Calls /\ call.phase = "place"
        /\ call.item = Item(d) /\ call.attempts = drain[d].attempts + 1
    BY CallsTyped, <1>e, ZenonT(30) DEF Calls, Phases, Item
  <2> HIDE DEF call
  <2>3. Turn(d, "place", Item(d), drain[d].attempts + 1)
    BY <2>1, <2>2, Parts, CallsTyped, BecomesTurns
  <2>4. \A e \in Drainers : (Item(e)' # Nobody) <=> (drain'[e].phase \in Holding)
    BY <1>2, <1>a, <2>3, Parts, HoldsItem, HoldsNone, RelayAssumption, TypeTurn
    DEF Store, Holding
  <2>5. TypeOK'
    BY <1>2, <1>d, <2>3, <2>4, Parts, SMTT(30) DEF Store, Turn, TypeOK, history, Item
  <2>6. Apart'
    <3>1. UNCHANGED <<ready, later, dead, accept>>
      BY SMTT(30), <1>2 DEF Store, queue, history
    <3> QED BY <3>1, <1>2, <1>a, <2>3, Parts, ApartTurn
  <2>7. Stored'
    BY <1>2, <1>a, <1>b, <1>c, <2>3, Parts, Counters, StoredStep
    DEF Store, Stored, Fits, Waits, Early, NoBody
  <2>8. Counted'
    <3>1. drain[d].phase # "done" /\ UNCHANGED <<ready, later, dead, accept, copies, unheard>>
      BY <1>2 DEF Store, queue, history
    <3> QED BY <3>1, <1>2, <1>a, <2>3, Parts, CountedTurn
  <2>9. Settled'
    BY <1>2, <1>a, <2>3, Parts, Calm, HoldsNone, RelayAssumption, DoneHolds, SettledTurn
    DEF Store, queue, history, Holding
  <2> QED BY Whole, <2>5, <2>6, <2>7, <2>8, <2>9
<1> QED BY <1>1, <1>2

\* The message is put off.
LEMMA ScheduleKeeps ==
  ASSUME IInv, env' = env, NEW d \in Drainers, NEW o \in Outcomes, Schedule(d, o)
  PROVE  IInv'
<1> USE DEF Ran, Ok
<1>1. Turn(d, "idle", Nobody, 0)
  BY Parts, CallsTyped, ReturnTurns DEF Schedule
<1>2. /\ Item(d) \in Messages /\ body[Item(d)] \in 0 .. (env.maxAttempts - 1)
      /\ Delay(drain[d].attempts) \in 0 .. Delay(env.maxAttempts)
  BY Parts, Limits, HoldsItem, AttemptsBounded, BackoffGrows
  DEF Schedule, Spent, Stored, Fits, Holding
<1>3. \A m \in Messages : Ok(o) /\ m = Item(d) => later'[m] # NotLater
  BY <1>2, Counters DEF Schedule, NotLater
<1>4. \A e \in Drainers : (Item(e)' # Nobody) <=> (drain'[e].phase \in Holding)
  BY <1>1, Parts, HoldsItem, HoldsNone, RelayAssumption, TypeTurn DEF Schedule, Holding
<1>5. TypeOK'
  BY <1>1, <1>2, <1>4, Parts, SMTT(30)
  DEF Schedule, Turn, TypeOK, history, Item, NotLater
<1>6. Apart'
  BY <1>1, <1>2, Parts, HoldsItem, Counters
  DEF Schedule, Turn, Apart, Item, Holding, Pending
<1>7. Stored'
  BY <1>1, <1>2, Parts, HoldsItem, Counters, StoredStep
  DEF Schedule, Stored, Fits
<1>8. Counted'
  BY <1>1, <1>2, Parts, HoldsItem, Counters
  DEF Schedule, Turn, Counted, history, Item, Holding
<1>9. Settled'
  BY <1>1, <1>2, <1>3, Parts, Calm, Counters, DoneHolds, SettledStep
  DEF Schedule, history, Waits, Over
<1> QED BY Whole, <1>5, <1>6, <1>7, <1>8, <1>9

\* The message is given up.
LEMMA BuryKeeps ==
  ASSUME IInv, env' = env, NEW d \in Drainers, NEW o \in Outcomes, Bury(d, o)
  PROVE  IInv'
<1> USE DEF Ran, Ok
<1>1. Turn(d, "idle", Nobody, 0)
  BY Parts, CallsTyped, ReturnTurns DEF Bury
<1>4. \A e \in Drainers : (Item(e)' # Nobody) <=> (drain'[e].phase \in Holding)
  BY <1>1, Parts, HoldsItem, HoldsNone, RelayAssumption, TypeTurn DEF Bury, Holding
<1>5. TypeOK'
  BY <1>1, <1>4, Parts, HoldsItem DEF Bury, Turn, TypeOK, history, Item, Holding
<1>6. Apart'
  BY <1>1, Parts, HoldsItem DEF Bury, Turn, Apart, Item, Holding, Pending
<1>7. Stored'
  BY <1>1, Parts, HoldsItem, StoredStep DEF Bury, Stored, Fits, Holding
<1>8. Counted'
  BY <1>1, Parts, HoldsItem DEF Bury, Turn, Counted, history, Item, Holding
<1>9. Settled'
  BY <1>1, Parts, Calm, HoldsItem, DoneHolds, SettledStep
  DEF Bury, history, Waits, Over, Holding
<1> QED BY Whole, <1>5, <1>6, <1>7, <1>8, <1>9

\* A due message leaves the schedule.
LEMMA UnscheduleKeeps ==
  ASSUME IInv, env' = env, NEW d \in Drainers, NEW o \in Outcomes, NEW m \in Messages, Unschedule(d, m, o)
  PROVE  IInv'
<1> USE DEF Ran, Ok
<1>a. /\ later' \in [Messages -> NotLater .. Delay(env.maxAttempts)]
      /\ \A x \in Messages : x # m => later'[x] = later[x]
      /\ later'[m] \in {later[m], NotLater} /\ (Ok(o) => later'[m] = NotLater)
  BY Parts, DelayNat DEF Unschedule, TypeOK, NotLater
<1>1. CASE ~Ok(o)
  <2>1. Turn(d, "idle", Nobody, 0)
    BY <1>1, Parts, CallsTyped, ReturnTurns DEF Unschedule
  <2>4. \A e \in Drainers : (Item(e)' # Nobody) <=> (drain'[e].phase \in Holding)
    BY <1>1, <2>1, Parts, HoldsItem, HoldsNone, RelayAssumption, TypeTurn
    DEF Unschedule, Holding
  <2>5. TypeOK'
    BY SMTT(30), <1>1, <2>1, <1>a, <2>4, Parts
    DEF Unschedule, Turn, TypeOK, history, Item
  <2>6. Apart'
    BY <1>1, <2>1, <1>a, Parts DEF Unschedule, Turn, Apart, Item
  <2>7. Stored'
    BY <1>1, <2>1, <1>a, Parts, Limits, StoredStep DEF Unschedule, Stored, Fits
  <2>8. Counted'
    BY <1>1, <2>1, <1>a, Parts DEF Unschedule, Turn, Counted, history, Item
  <2>9. Settled'
    BY <1>1, <2>1, <1>a, Parts, Calm, HoldsNone, RelayAssumption, DoneHolds, SettledStep
    DEF Unschedule, history, Waits, Over, Holding
  <2> QED BY Whole, <2>5, <2>6, <2>7, <2>8, <2>9
<1>2. CASE Ok(o) /\ later[m] = NotLater
  <2> DEFINE call == [drain[d] EXCEPT !.todo = @ \ {m}]
  <2>1. Becomes(d, call)
    BY <1>2 DEF Unschedule
  <2>2. /\ call \in Calls /\ call.phase = drain[d].phase
        /\ call.item = Item(d) /\ call.attempts = drain[d].attempts
    BY CallsTyped DEF Calls, Phases, Item
  <2> HIDE DEF call
  <2>3. Turn(d, drain[d].phase, Item(d), drain[d].attempts)
    BY <2>1, <2>2, Parts, CallsTyped, BecomesTurns
  <2>4. \A e \in Drainers : (Item(e)' # Nobody) <=> (drain'[e].phase \in Holding)
    BY <1>2, <2>3, Parts, HoldsItem, HoldsNone, RelayAssumption, TypeTurn
    DEF Unschedule, Holding
  <2>5. TypeOK'
    BY <1>2, <2>3, <1>a, <2>4, Parts DEF Unschedule, Turn, TypeOK, history, Item
  <2>6. Apart'
    BY <1>2, <2>3, <1>a, Parts DEF Unschedule, Turn, Apart, Item
  <2>7. Stored'
    BY <1>2, <2>3, <1>a, Parts, Limits, StoredStep DEF Unschedule, Stored, Fits
  <2>8. Counted'
    BY <1>2, <2>3, <1>a, Parts DEF Unschedule, Turn, Counted, history, Item
  <2>9. Settled'
    BY <1>2, <2>3, <1>a, Parts, Calm, HoldsNone, RelayAssumption, DoneHolds, SettledStep
    DEF Unschedule, history, Waits, Over, Holding
  <2> QED BY Whole, <2>5, <2>6, <2>7, <2>8, <2>9
<1>3. CASE Ok(o) /\ later[m] # NotLater
  <2> DEFINE call == [drain[d] EXCEPT !.phase = "requeue", !.item = m, !.todo = @ \ {m}]
  <2>1. Becomes(d, call)
    BY <1>3 DEF Unschedule
  <2>2. /\ call \in Calls /\ call.phase = "requeue"
        /\ call.item = m /\ call.attempts = drain[d].attempts
    BY CallsTyped, Zenon DEF Calls, Phases, Item
  <2> HIDE DEF call
  <2>3. Turn(d, "requeue", m, drain[d].attempts)
    BY <2>1, <2>2, Parts, CallsTyped, BecomesTurns
  <2>4. \A e \in Drainers : (Item(e)' # Nobody) <=> (drain'[e].phase \in Holding)
    BY <1>3, <2>3, Parts, HoldsItem, HoldsNone, RelayAssumption, TypeTurn
    DEF Unschedule, Holding
  <2>5. TypeOK'
    BY <1>3, <2>3, <1>a, <2>4, Parts, Zenon DEF Unschedule, Turn, TypeOK, history, Item
  <2>6. Apart'
    BY <1>3, <2>3, <1>a, Parts, HoldsNone DEF Unschedule, Turn, Apart, Item, Holding
  <2>7. Stored'
    BY <1>3, <2>3, <1>a, Parts, Limits, Counters, StoredStep
    DEF Unschedule, Stored, Fits, Early, NoBody
  <2>8. Counted'
    BY <1>3, <2>3, <1>a, Parts DEF Unschedule, Turn, Counted, history, Item
  <2>9. Settled'
    BY <1>3, <2>3, <1>a, Parts, Calm, HoldsNone, RelayAssumption, DoneHolds, SettledStep
    DEF Unschedule, history, Waits, Over, Holding
  <2> QED BY Whole, <2>5, <2>6, <2>7, <2>8, <2>9
<1> QED BY <1>1, <1>2, <1>3

\* A due message becomes ready.
LEMMA RequeueKeeps ==
  ASSUME IInv, env' = env, NEW d \in Drainers, NEW o \in Outcomes, Requeue(d, o)
  PROVE  IInv'
<1> USE DEF Ran, Ok
<1>a. /\ Item(d) \in Messages /\ Item(d) \notin Listed(ready) /\ Item(d) # Nobody
      /\ ready \in Seq(Messages) /\ Distinct(ready)
  BY Parts, HoldsItem DEF Requeue, TypeOK, Apart, Holding
<1>b. /\ ready' \in Seq(Messages) /\ Distinct(ready')
      /\ Listed(ready) \subseteq Listed(ready')
      /\ Listed(ready') \subseteq Listed(ready) \cup {Item(d)}
      /\ Ok(o) => Item(d) \in Listed(ready')
  BY <1>a, PushList DEF Requeue
<1>c. body[Item(d)] \in 0 .. (env.maxAttempts - 1)
  BY <1>a, Parts, Limits DEF Requeue, Stored, Fits, Early, TypeOK, NoBody
<1>1. CASE ~(Ok(o))
  <2>1. Turn(d, "idle", Nobody, 0)
    BY <1>1, Parts, CallsTyped, ReturnTurns DEF Requeue
  <2>4. \A e \in Drainers : (Item(e)' # Nobody) <=> (drain'[e].phase \in Holding)
    BY <1>1, <1>a, <1>b, <2>1, Parts, HoldsItem, HoldsNone, RelayAssumption, TypeTurn
    DEF Requeue, Holding
  <2>5. TypeOK'
    BY SMTT(30), <1>1, <1>a, <1>b, <2>1, <2>4, Parts
    DEF Requeue, Turn, TypeOK, history, Item
  <2>6. Apart'
    BY SMTT(30), <1>1, <1>a, <1>b, <2>1, Parts DEF Requeue, Turn, Apart, Item
  <2>7. Stored'
    BY <1>1, <1>a, <1>b, <2>1, Parts, <1>c, StoredStep DEF Requeue, Stored, Fits
  <2>8. Counted'
    BY <1>1, <1>a, <1>b, <2>1, Parts, HoldsItem
    DEF Requeue, Turn, Counted, history, Item, Holding
  <2>9. Settled'
    BY <1>1, <1>a, <1>b, <2>1, Parts, Calm, DoneHolds, SettledStep
    DEF Requeue, history, Waits, Over
  <2> QED BY Whole, <2>5, <2>6, <2>7, <2>8, <2>9
<1>2. CASE Ok(o)
  <2> DEFINE call == [drain[d] EXCEPT !.phase = "promote", !.item = Nobody]
  <2>1. Becomes(d, call)
    BY <1>2 DEF Requeue
  <2>2. /\ call \in Calls /\ call.phase = "promote"
        /\ call.item = Nobody /\ call.attempts = drain[d].attempts
    BY CallsTyped, Zenon DEF Calls, Phases, Item
  <2> HIDE DEF call
  <2>3. Turn(d, "promote", Nobody, drain[d].attempts)
    BY <2>1, <2>2, Parts, CallsTyped, BecomesTurns
  <2>4. \A e \in Drainers : (Item(e)' # Nobody) <=> (drain'[e].phase \in Holding)
    BY SMTT(30), <1>2, <1>a, <1>b, <2>3, Parts, HoldsItem, HoldsNone, RelayAssumption,
       TypeTurn
    DEF Requeue, Holding
  <2>5. TypeOK'
    BY <1>2, <1>a, <1>b, <2>3, <2>4, Parts
    DEF Requeue, Turn, TypeOK, history, Item
  <2>6. Apart'
    BY SMTT(30), <1>2, <1>a, <1>b, <2>3, Parts DEF Requeue, Turn, Apart, Item
  <2>7. Stored'
    BY <1>2, <1>a, <1>b, <2>3, Parts, <1>c, StoredStep DEF Requeue, Stored, Fits
  <2>8. Counted'
    BY <1>2, <1>a, <1>b, <2>3, Parts, HoldsItem
    DEF Requeue, Turn, Counted, history, Item, Holding
  <2>9. Settled'
    BY <1>2, <1>a, <1>b, <2>3, Parts, Calm, DoneHolds, SettledStep
    DEF Requeue, history, Waits, Over
  <2> QED BY Whole, <2>5, <2>6, <2>7, <2>8, <2>9
<1> QED BY <1>1, <1>2

\* The oldest ready message is taken.
LEMMA PopKeeps ==
  ASSUME IInv, env' = env, NEW d \in Drainers, NEW o \in Outcomes, Pop(d, o)
  PROVE  IInv'
<1> USE DEF Ran, Ok
<1>a. /\ ready' \in Seq(Messages) /\ Distinct(ready')
      /\ Listed(ready') \subseteq Listed(ready)
      /\ ready = <<>> => ready' = ready
      /\ Ok(o) /\ ready # <<>> =>
           /\ Head(ready) \in Messages /\ Head(ready) \in Listed(ready)
           /\ Listed(ready') = Listed(ready) \ {Head(ready)}
  BY SMTT(30), Parts, PopList DEF Pop, TypeOK, Apart
<1>b. /\ Head(ready) \in Listed(ready) /\ Head(ready) \in Messages
         => body[Head(ready)] \in 0 .. (env.maxAttempts - 1)
      /\ body' = body
  BY Parts DEF Pop, Stored
<1>1. CASE ~(Ok(o) /\ ready # <<>>)
  <2>1. Turn(d, "idle", Nobody, 0)
    BY <1>1, Parts, CallsTyped, ReturnTurns DEF Pop
  <2>4. \A e \in Drainers : (Item(e)' # Nobody) <=> (drain'[e].phase \in Holding)
    BY SMTT(30), <1>1, <1>a, <2>1, Parts, HoldsItem, HoldsNone, RelayAssumption,
       TypeTurn
    DEF Pop, Holding
  <2>5. TypeOK'
    BY <1>1, <1>a, <2>1, <2>4, Parts DEF Pop, Turn, TypeOK, history, Item
  <2>6. Apart'
    BY SMTT(30), <1>1, <1>a, <2>1, Parts, HoldsNone DEF Pop, Turn, Apart, Item, Holding
  <2>7. Stored'
    BY <1>1, <1>a, <2>1, <1>b, Parts, Limits, StoredStep
    DEF Pop, Stored, Fits, Early, NoBody
  <2>8. Counted'
    BY <1>1, <1>a, <2>1, Parts DEF Pop, Turn, Counted, history, Item
  <2>9. Settled'
    BY <1>1, <1>a, <2>1, Parts, Calm, HoldsNone, RelayAssumption, DoneHolds, SettledStep
    DEF Pop, history, Waits, Over, Holding
  <2> QED BY Whole, <2>5, <2>6, <2>7, <2>8, <2>9
<1>2. CASE Ok(o) /\ ready # <<>>
  <2> DEFINE call == [drain[d] EXCEPT !.phase = "get", !.item = Head(ready)]
  <2>1. Becomes(d, call)
    BY <1>2 DEF Pop
  <2>2. /\ call \in Calls /\ call.phase = "get"
        /\ call.item = Head(ready) /\ call.attempts = drain[d].attempts
    BY CallsTyped, <1>a, <1>2, ZenonT(30) DEF Calls, Phases, Item
  <2> HIDE DEF call
  <2>3. Turn(d, "get", Head(ready), drain[d].attempts)
    BY <2>1, <2>2, Parts, CallsTyped, BecomesTurns
  <2>4. \A e \in Drainers : (Item(e)' # Nobody) <=> (drain'[e].phase \in Holding)
    BY <1>2, <1>a, <2>3, Parts, HoldsItem, HoldsNone, RelayAssumption, TypeTurn
    DEF Pop, Holding
  <2>5. TypeOK'
    BY <1>2, <1>a, <2>3, <2>4, Parts, SMTT(30)
    DEF Pop, Turn, TypeOK, history, Item
  <2>6. Apart'
    BY SMTT(30), <1>2, <1>a, <2>3, Parts, HoldsNone DEF Pop, Turn, Apart, Item, Holding
  <2>7. Stored'
    BY SMTT(30), <1>2, <1>a, <2>3, <1>b, Parts, Limits, StoredStep
    DEF Pop, Stored, Fits, Early, NoBody
  <2>8. Counted'
    BY SMTT(30), <1>2, <1>a, <2>3, Parts DEF Pop, Turn, Counted, history, Item
  <2>9. Settled'
    BY SMTT(30), <1>2, <1>a, <2>3, Parts, Calm, HoldsNone, RelayAssumption, DoneHolds,
       SettledStep
    DEF Pop, history, Waits, Over, Holding
  <2> QED BY Whole, <2>5, <2>6, <2>7, <2>8, <2>9
<1> QED BY <1>1, <1>2

\* The address is burned.
LEMMA BurnKeeps ==
  ASSUME IInv, env' = env, Burn
  PROVE  IInv'
<1>1. TypeOK'
  BY Parts DEF Burn, TypeOK, Calls, Item, queue, history
<1>2. Apart' /\ Counted'
  BY Parts DEF Burn, Apart, Counted, Item, queue, history
<1>3. Stored'
  BY Parts DEF Burn, Stored, Fits, Item, queue, history
<1>4. Settled'
  BY Parts DEF Burn, Settled, Waits, Steady, Over, Item, queue, history
<1> QED BY Whole, <1>1, <1>2, <1>3, <1>4

\* The operator resumes.
LEMMA ClearKeeps ==
  ASSUME IInv, env' = env, Clear
  PROVE  IInv'
<1>1. TypeOK'
  BY Parts, Zenon DEF Clear, TypeOK, Calls, Item, queue, history
<1>2. Apart' /\ Counted'
  BY Parts DEF Clear, Apart, Counted, Item, queue, history
<1>3. Stored'
  BY Parts DEF Clear, Stored, Fits, Item, queue, history
<1>4. Settled'
  BY Parts DEF Clear, Settled, Waits, Steady, Over, Item, queue, history
<1> QED BY Whole, <1>1, <1>2, <1>3, <1>4

\* Time passes.
LEMMA TickKeeps ==
  ASSUME IInv, env' = env, Tick
  PROVE  IInv'
<1>1. /\ later' \in [Messages -> NotLater .. Delay(env.maxAttempts)]
      /\ \A m \in Messages : later'[m] = NotLater <=> later[m] = NotLater
  <2>1. ASSUME NEW m \in Messages
        PROVE  /\ later'[m] \in NotLater .. Delay(env.maxAttempts)
               /\ later'[m] = NotLater <=> later[m] = NotLater
    <3> DEFINE most == Delay(env.maxAttempts)
    <3>1. most \in Nat /\ later[m] \in -1 .. most
      BY Parts, DelayNat DEF TypeOK, NotLater
    <3>2. later'[m] = IF later[m] > 0 THEN later[m] - 1 ELSE later[m]
      BY DEF Tick
    <3> HIDE DEF most
    <3>3. later'[m] \in -1 .. most /\ (later'[m] = -1 <=> later[m] = -1)
      BY <3>1, <3>2
    <3> QED BY <3>3 DEF NotLater, most
  <2> QED BY <2>1 DEF Tick
<1>2. TypeOK'
  BY <1>1, Parts, SMTT(30) DEF Tick, TypeOK, Calls, Item, history
<1>3. Apart'
  BY <1>1, Parts, HoldsItem, HoldsNone DEF Tick, Apart, Item
<1>6. Counted'
  BY <1>1, Parts DEF Tick, Counted, Item, history
<1>4. Stored'
  BY <1>1, Parts DEF Tick, Stored, Fits, Item
<1>5. Settled'
  BY <1>1, Parts DEF Tick, Settled, Waits, Steady, Over, Item, history
<1> QED BY Whole, <1>2, <1>3, <1>4, <1>5, <1>6

\* Every step keeps the invariant.
LEMMA Induction == IInv /\ [Next]_<<env, vars>> => IInv'
<1>1. ASSUME IInv, UNCHANGED <<env, vars>> PROVE IInv'
  <2>1. TypeOK'
    BY <1>1 DEF IInv, vars, TypeOK, Calls, Item
  <2>2. Apart' /\ Counted'
    BY SMTT(30), <1>1 DEF IInv, vars, Apart, Counted, Item
  <2>3. Stored'
    BY <1>1 DEF IInv, vars, Stored, Fits, Item
  <2>4. Settled'
    BY <1>1, SMTT(30) DEF IInv, vars, Settled, Waits, Steady, Over, Item
  <2> QED BY <1>1, <2>1, <2>2, <2>3, <2>4 DEF IInv
<1>2. ASSUME IInv, Next PROVE IInv'
  <2>1. env' = env
    BY <1>2 DEF Next
  <2> QED
    BY SMTT(30), <1>2, <2>1, SubmitKeeps, EnqueueSetKeeps, EnqueuePushKeeps,
       CallerCutKeeps,
       BeginKeeps, RestartKeeps, DueKeeps, GetKeeps, UnreachedKeeps, RouteKeeps,
       GateKeeps, DeliveredKeeps, UnheardKeeps, RefusedKeeps, DoneKeeps, StoreKeeps,
       ScheduleKeeps, BuryKeeps, UnscheduleKeeps, RequeueKeeps, PopKeeps, BurnKeeps,
       ClearKeeps, TickKeeps
    DEF Next, Accept, Step
<1> QED BY <1>1, <1>2
-----------------------------------------------------------------------------
(* What the invariant says *)

LEMMA Beginning == Init => IInv
<1> SUFFICES ASSUME Init PROVE IInv
  OBVIOUS
<1>1. env \in Environments /\ env.maxAttempts \in Nat \ {0}
  BY RelayAssumption DEF Init
<1>2. Delay(env.maxAttempts) \in Nat
  BY <1>1, BackoffGrows
<1>3. Idle \in Calls
  BY <1>1 DEF Idle, Calls, Phases
<1>5. Listed(ready) = {} /\ Distinct(ready)
  BY DEF Init, Listed, Distinct
<1>6. \A d \in Drainers : Item(d) = Nobody /\ drain[d].phase = "idle"
  BY DEF Init, Item, Idle
<1>4. TypeOK
  <2>1. drain \in [Drainers -> Calls]
    BY <1>3 DEF Init
  <2>2. body \in [Messages -> NoBody .. env.maxAttempts] /\ later \in [Messages -> NotLater .. Delay(env.maxAttempts)]
    BY <1>1, <1>2 DEF Init, NoBody, NotLater
  <2>3. \A d \in Drainers : (Item(d) # Nobody) <=> (drain[d].phase \in Holding)
    BY <1>6 DEF Holding
  <2>4. ready \in Seq(Messages) /\ dead \subseteq Messages
    BY DEF Init
  <2>7. burned \in BOOLEAN
    BY Zenon DEF Init
  <2>5. /\ accept \in [Messages -> {"new", "set", "push", "accepted", "refused"}]
        /\ copies \in [Messages -> Nat] /\ unheard \in [Messages -> Nat]
    BY DEF Init
  <2>6. fate \in [Messages -> {"none", "suppressed", "unvouched", "delivered",
                               "deferred", "rejected"}]
    BY DEF Init
  <2> QED BY <2>1, <2>2, <2>3, <2>4, <2>5, <2>6, <2>7 DEF TypeOK
<1>7. Apart
  BY <1>5, <1>6 DEF Init, Apart
<1>8. Stored
  BY <1>5, <1>6 DEF Init, Stored, Fits
<1>9. Counted
  BY <1>5, <1>6 DEF Init, Counted
<1>10. Settled
  BY <1>6 DEF Init, Settled
<1> QED BY <1>1, <1>4, <1>7, <1>8, <1>9, <1>10 DEF IInv

LEMMA Reached == Spec => []IInv
  BY Beginning, Induction, PTL DEF Spec

LEMMA PlacesApart == Apart => OneCopy
<1> SUFFICES ASSUME Apart, NEW m \in Messages, NEW p \in Places(m), NEW q \in Places(m)
             PROVE  p = q
  BY DEF OneCopy
<1> DEFINE Positions == {j \in DOMAIN ready : ready[j] = m}
           Holders   == {e \in Drainers : Item(e) = m}
<1>1. m \notin Listed(ready) => Positions = {}
  BY DEF Listed
<1>2. \A j, k \in Positions : j = k
  BY DEF Apart, Distinct
<1>3. m # Nobody
  BY RelayAssumption
<1>4. \A d, e \in Holders : d = e
  BY <1>3 DEF Apart
<1>5. CASE accept[m] \in Pending
  BY <1>1, <1>3, <1>5 DEF Apart, Places, Pending
<1>6. CASE Holders # {}
  BY <1>1, <1>3, <1>4, <1>6 DEF Apart, Places, Pending
<1>7. CASE accept[m] \notin Pending /\ Holders = {} /\ m \in Listed(ready)
  BY <1>2, <1>7 DEF Apart, Places, Pending
<1>8. CASE accept[m] \notin Pending /\ Holders = {} /\ m \notin Listed(ready)
  BY <1>1, <1>8 DEF Apart, Places, Pending
<1> QED BY <1>5, <1>6, <1>7, <1>8

\* However many drainers race over however many messages, whatever commands fail
\* or lose their reply and whoever restarts, a message is never in two places:
\* what promote's "removal happens before it is made ready" is for.
THEOREM MessageInOnePlace == Spec => []OneCopy
<1>1. IInv => OneCopy
  BY PlacesApart DEF IInv
<1> QED BY <1>1, Reached, PTL

\* No number of drainers, failed commands and restarts makes DeliverNext send a
\* message again that the server was heard to take.
THEOREM NotSentTwice == Spec => []SentOnce
<1>1. IInv => SentOnce
  BY Zenon DEF IInv, Counted, SentOnce
<1> QED BY <1>1, Reached, PTL

\* Enqueue and Retry store the body before the id: every id that waits in a list
\* has its body, with fewer attempts than MaxAttempts unless it is buried.
THEOREM BodyBeforeId == Spec => []WaitingHasBody
<1>1. IInv => WaitingHasBody
  BY DEF IInv, Stored, WaitingHasBody, Listed, NoBody
<1> QED BY <1>1, Reached, PTL

\* While Redis answers and nobody is cut off, no interleaving of drainers drops
\* a message a caller was told 202 for.
THEOREM SteadyKeeps == Spec => []KeptWhileSteady
<1>1. IInv => KeptWhileSteady
  <2> SUFFICES ASSUME IInv, Steady, NEW m \in Messages, accept[m] = "accepted", ~Over(m)
               PROVE  Places(m) # {}
    BY DEF KeptWhileSteady, AcceptedKept, Over
  <2>1. Waits(m) \/ \E d \in Drainers : Item(d) = m
    BY DEF IInv, Settled
  <2> QED BY <2>1, ZenonT(30) DEF Waits, Listed, Places
<1> QED BY <1>1, Reached, PTL
=============================================================================

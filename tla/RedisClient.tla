----------------------------- MODULE RedisClient -----------------------------
(***************************************************************************)
(* The pooled Redis client of internal/redis: Do, Run, get, put and Close  *)
(* of client.go over the framing of resp.go, called by many goroutines.    *)
(*                                                                         *)
(* A connection carries whole commands one way and whole replies the       *)
(* other.  The deadline of a command may pass at any moment, the server    *)
(* may drop a connection or restart, and it may execute what it has been   *)
(* sent after the client has given up on the connection.                   *)
(*                                                                         *)
(* Abstractions: a command is who called it and its number; a reply is a   *)
(* value, an error line or NOSCRIPT.  No command of this service answers   *)
(* with an error inside an array, which readValue would leave half read.   *)
(***************************************************************************)
EXTENDS Integers, Sequences, Functions

CONSTANTS
  Callers,    \* goroutines sharing the client
  MaxCalls,   \* calls each of them makes
  Conns,      \* names for connections; a closed one's is used again
  NoConn,
  Cap,        \* Options.PoolSize
  MaxDrops    \* bound: connections dropped, restarts and calls of Close

ASSUME RedisClientAssumption ==
  /\ NoConn \notin Conns
  /\ MaxCalls \in Nat /\ Cap \in Nat \ {0} /\ MaxDrops \in Nat

Commands == Callers \X (1..MaxCalls)

VARIABLES
  idle,      \* Client.idle, the connection used last at the end
  conn,      \* each connection: open on our side, on the server's, and what
             \* is under way in each direction
  call,      \* each caller: where its Do is, the verb, its connection
  loaded,    \* the server has the script cached
  drops,     \* faults so far
  outcome,   \* of each command, as in RedisCalls
  applied    \* how often the server executed each command

vars == <<idle, conn, call, loaded, drops, outcome, applied>>

NoCall == [phase |-> "idle", n |-> 0, verb |-> "plain", conn |-> NoConn]
Unused == [open |-> FALSE, peer |-> FALSE, sent |-> <<>>, wire |-> <<>>]

Init ==
  /\ idle = <<>>
  /\ conn = [c \in Conns |-> Unused]
  /\ call = [p \in Callers |-> NoCall]
  /\ loaded = FALSE
  /\ drops = 0
  /\ outcome = [k \in Commands |-> "none"]
  /\ applied = [k \in Commands |-> 0]

Current(p) == <<p, call[p].n>>
Held(p) == call[p].conn

-----------------------------------------------------------------------------
(* Do *)

\* A plain command is one Do; Run begins with EVALSHA.
Begin(p, verb) ==
  /\ call[p].phase = "idle"
  /\ call[p].n < MaxCalls
  /\ call' = [call EXCEPT ![p] = [phase |-> "get", n |-> @.n + 1,
                                  verb |-> verb, conn |-> NoConn]]
  /\ outcome' = [outcome EXCEPT ![<<p, call[p].n + 1>>] = "pending"]
  /\ UNCHANGED <<idle, conn, loaded, drops, applied>>

\* get: the connection put back last, if there is one; else one is dialled
\* outside the lock.
Get(p) ==
  /\ call[p].phase = "get"
  /\ IF idle # <<>>
     THEN /\ idle' = SubSeq(idle, 1, Len(idle) - 1)
          /\ call' = [call EXCEPT ![p].phase = "write", ![p].conn = idle[Len(idle)]]
     ELSE /\ call' = [call EXCEPT ![p].phase = "dial"]
          /\ UNCHANGED idle
  /\ UNCHANGED <<conn, loaded, drops, outcome, applied>>

Dial(p, c) ==
  /\ call[p].phase = "dial"
  /\ ~conn[c].open
  /\ conn' = [conn EXCEPT ![c] = [open |-> TRUE, peer |-> TRUE, sent |-> <<>>, wire |-> <<>>]]
  /\ call' = [call EXCEPT ![p].phase = "write", ![p].conn = c]
  /\ UNCHANGED <<idle, loaded, drops, outcome, applied>>

\* The caller is told; its connection, if any, is not held any longer.
Finish(p, result) ==
  /\ call' = [call EXCEPT ![p].phase = "idle", ![p].conn = NoConn]
  /\ outcome' = [outcome EXCEPT ![Current(p)] = result]

DialFails(p) ==
  /\ call[p].phase = "dial"
  /\ Finish(p, "failed")
  /\ UNCHANGED <<idle, conn, loaded, drops, applied>>

Closed(c) == [conn EXCEPT ![c].open = FALSE, ![c].wire = <<>>]

\* The bytes leave us; a server that is gone never sees them.
Write(p) ==
  /\ call[p].phase = "write"
  /\ conn' = IF conn[Held(p)].peer
             THEN [conn EXCEPT ![Held(p)].sent =
                     Append(@, [cmd |-> Current(p), verb |-> call[p].verb])]
             ELSE conn
  /\ call' = [call EXCEPT ![p].phase = "read"]
  /\ UNCHANGED <<idle, loaded, drops, outcome, applied>>

\* SetDeadline or Write fails: closed and never pooled.
WriteFails(p) ==
  /\ call[p].phase = "write"
  /\ conn' = Closed(Held(p))
  /\ Finish(p, "failed")
  /\ UNCHANGED <<idle, loaded, drops, applied>>

\* One connection more than the pool holds.
PutOver(c, took) ==
  IF Len(idle) > Cap
  THEN conn' = [Closed(c) EXCEPT ![c].sent = took.sent] /\ UNCHANGED idle
  ELSE conn' = [conn EXCEPT ![c] = took] /\ idle' = Append(idle, c)

\* put after a reply, an error line included: back to the pool unless that is
\* full.  took is the connection once the reply has been read off it.
Put(c, took) ==
  IF Len(idle) >= Cap
  THEN conn' = [Closed(c) EXCEPT ![c].sent = took.sent] /\ UNCHANGED idle
  ELSE conn' = [conn EXCEPT ![c] = took] /\ idle' = Append(idle, c)

\* Run: on NOSCRIPT the body is sent, and that is a Do of its own.
Reply(p) ==
  LET c == Held(p) IN
  /\ call[p].phase = "read"
  /\ conn[c].wire # <<>>
  /\ LET reply == Head(conn[c].wire) IN
     /\ Put(c, [conn[c] EXCEPT !.wire = Tail(@)])
     /\ IF reply.cmd = Current(p) /\ reply.kind = "noscript"
        THEN /\ call' = [call EXCEPT ![p].phase = "get", ![p].verb = "eval",
                                     ![p].conn = NoConn]
             /\ UNCHANGED outcome
        ELSE Finish(p, IF reply.cmd = Current(p) THEN reply.kind ELSE "foreign")
  /\ UNCHANGED <<loaded, drops, applied>>

\* The connection of a failed read is pooled like any other.
ReadFailsPooled(p) ==
  /\ call[p].phase = "read"
  /\ Put(Held(p), conn[Held(p)])
  /\ Finish(p, "failed")
  /\ UNCHANGED <<loaded, drops, applied>>

\* The deadline passes or the connection is lost: put closes it.
ReadFails(p) ==
  /\ call[p].phase = "read"
  /\ conn' = Closed(Held(p))
  /\ Finish(p, "failed")
  /\ UNCHANGED <<idle, loaded, drops, applied>>

\* Close: what is idle now is closed; the client goes on working.
Close ==
  /\ drops < MaxDrops
  /\ idle # <<>>
  /\ conn' = [c \in Conns |-> IF c \in Range(idle)
                              THEN [conn[c] EXCEPT !.open = FALSE, !.wire = <<>>]
                              ELSE conn[c]]
  /\ idle' = <<>>
  /\ drops' = drops + 1
  /\ UNCHANGED <<call, loaded, outcome, applied>>

-----------------------------------------------------------------------------
(* The server *)

\* The answer to a request: EVALSHA of a script it does not have is refused
\* and anything may be rejected (a wrong type, out of memory).
Answers(req) ==
  IF req.verb = "evalsha" /\ ~loaded THEN {"noscript"} ELSE {"value", "error"}

Execute(c, kind) ==
  /\ conn[c].peer
  /\ conn[c].sent # <<>>
  /\ LET req == Head(conn[c].sent) IN
     /\ kind \in Answers(req)
     /\ conn' = [conn EXCEPT ![c].sent = Tail(@),
                             ![c].wire = IF conn[c].open
                                         THEN Append(@, [cmd |-> req.cmd, kind |-> kind])
                                         ELSE @]
     /\ applied' = IF kind = "value" THEN [applied EXCEPT ![req.cmd] = @ + 1] ELSE applied
     /\ loaded' = (loaded \/ (req.verb = "eval" /\ kind = "value"))
  /\ UNCHANGED <<idle, call, drops, outcome>>

\* The server closes a connection: its own timeout, or a proxy in between.
Drop(c) ==
  /\ drops < MaxDrops
  /\ conn[c].peer
  /\ conn' = [conn EXCEPT ![c].peer = FALSE, ![c].sent = <<>>]
  /\ drops' = drops + 1
  /\ UNCHANGED <<idle, call, loaded, outcome, applied>>

\* Every connection is gone, and so are the scripts.
Restart ==
  /\ drops < MaxDrops
  /\ conn' = [c \in Conns |-> [conn[c] EXCEPT !.peer = FALSE, !.sent = <<>>]]
  /\ loaded' = FALSE
  /\ drops' = drops + 1
  /\ UNCHANGED <<idle, call, outcome, applied>>

Next ==
  \/ \E p \in Callers, verb \in {"plain", "evalsha"} : Begin(p, verb)
  \/ \E p \in Callers :
       \/ Get(p) \/ DialFails(p) \/ Write(p) \/ WriteFails(p) \/ Reply(p) \/ ReadFails(p)
       \/ \E c \in Conns : Dial(p, c)
  \/ \E c \in Conns :
       \/ Drop(c)
       \/ \E kind \in {"value", "error", "noscript"} : Execute(c, kind)
  \/ Close
  \/ Restart

Spec == Init /\ [][Next]_vars
-----------------------------------------------------------------------------

Request == [cmd : Commands, verb : {"plain", "evalsha", "eval"}]
Answer  == [cmd : Commands, kind : {"value", "error", "noscript"}]

TypeOK ==
  /\ idle \in Seq(Conns) /\ Len(idle) <= Cap
  /\ conn \in [Conns -> [open : BOOLEAN, peer : BOOLEAN,
                         sent : Seq(Request), wire : Seq(Answer)]]
  /\ call \in [Callers -> [phase : {"idle", "get", "dial", "write", "read"},
                           n : 0..MaxCalls, verb : {"plain", "evalsha", "eval"},
                           conn : Conns \cup {NoConn}]]
  /\ loaded \in BOOLEAN /\ drops \in 0..MaxDrops
  /\ outcome \in [Commands -> {"none", "pending", "value", "error", "failed"}]
  /\ applied \in [Commands -> 0..1]

\* put and get: a connection is open on our side exactly while it is in the
\* pool, once, or in the hands of one Do, and the pool never outgrows its size;
\* one in the pool has nothing under way in either direction, so that the next
\* Do to take it reads the reply to its own command.
PoolSound ==
  /\ TypeOK
  /\ \A i, j \in 1..Len(idle) : idle[i] = idle[j] => i = j
  /\ \A c \in Conns :
       LET users == {p \in Callers : Held(p) = c} IN
       /\ conn[c].open <=> (c \in Range(idle) \/ users # {})
       /\ \A p, q \in users : p = q
       /\ c \in Range(idle) => users = {}
  /\ \A c \in Range(idle) : conn[c].sent = <<>> /\ conn[c].wire = <<>>

\* Do and Run give the caller what RedisCalls promises, whatever the server
\* and the deadlines do.
Calls == INSTANCE RedisCalls
CallsSpec == Calls!Spec
=============================================================================

-------------------------------- MODULE Relay --------------------------------
(***************************************************************************)
(* The outbound mail relay: Accept puts a message on a queue in Redis, and *)
(* the drain loop of each node takes messages off it and sends them        *)
(* (internal/relay: relay.go, queue.go, sender.go; cmd/verifierd drain).   *)
(*                                                                         *)
(* Every Redis command is a step.  It may fail before it runs, or run and  *)
(* lose its reply (internal/redis Do makes no second attempt); a node may  *)
(* restart between any two steps, because nothing waits for the drain      *)
(* goroutine when the process stops.                                       *)
(*                                                                         *)
(* Abstractions: a message is its id and its attempt count.  Due times are *)
(* the ticks left.  ZRANGEBYSCORE is unordered.  What the suppression list, *)
(* the resolver, the pacer and the receiving server answer is a choice.    *)
(***************************************************************************)
EXTENDS Integers, Sequences

CONSTANTS
  Messages,      \* ids of the messages callers submit
  Nobody,        \* no message
  Drainers,      \* nodes running a drain loop on this Redis
  Base,          \* Options.RetryBase, in ticks
  Environments   \* [messages, drainers, maxAttempts, gate, faults, restarts]:
                 \* who is there, Queue.MaxAttempts, what suppressionAllows may
                 \* answer, whether Redis commands may fail, whether nodes may
                 \* restart and callers be cut off

ASSUME RelayAssumption ==
  /\ Nobody \notin Messages
  /\ Base \in Nat
  /\ Environments \subseteq [messages : SUBSET Messages, drainers : SUBSET Drainers,
                             maxAttempts : Nat \ {0},
                             gate : SUBSET {"allow", "suppressed", "unvouched"},
                             faults : BOOLEAN, restarts : BOOLEAN]

VARIABLES
  env,        \* the environment the relay runs in
  body,       \* relay:item:<id>: the attempts stored, or NoBody
  ready,      \* the ready list, oldest first
  later,      \* the retry set: ticks until due, or NotLater
  dead,       \* the buried list
  accept,     \* where the Accept call for each message is
  drain,      \* where each node's DeliverNext is, and the item it holds
  burned,     \* Health: the node must not send now
  copies,     \* history: how often the server took the message
  unheard,    \* history: ... and its reply to that never reached us
  fate        \* history: the last thing decided about the message

vars == <<body, ready, later, dead, accept, drain, burned, copies, unheard, fate>>

NoBody == -1
NotLater == -1

Outcomes == IF env.faults THEN {"ok", "failed", "lost"} ELSE {"ok"}
Ran(o) == o # "failed"
Ok(o) == o = "ok"

Idle == [phase |-> "idle", item |-> Nobody, attempts |-> 0, todo |-> {}]

Init ==
  /\ env \in Environments
  /\ body = [m \in Messages |-> NoBody]
  /\ ready = <<>>
  /\ later = [m \in Messages |-> NotLater]
  /\ dead = {}
  /\ accept = [m \in Messages |-> "new"]
  /\ drain = [d \in Drainers |-> Idle]
  /\ burned = FALSE
  /\ copies = [m \in Messages |-> 0]
  /\ unheard = [m \in Messages |-> 0]
  /\ fate = [m \in Messages |-> "none"]

history == <<copies, unheard, fate>>
queue == <<body, ready, later, dead>>

-----------------------------------------------------------------------------
(* Accept and Enqueue *)

\* Accept: a recipient the gate does not allow is refused before anything is
\* written.
Submit(m, answer) ==
  /\ m \in env.messages /\ accept[m] = "new"
  /\ accept' = [accept EXCEPT ![m] = IF answer = "allow" THEN "set" ELSE "refused"]
  /\ UNCHANGED <<queue, drain, burned, history>>

\* The id goes on the list whatever became of the body.
EnqueueSetUnchecked(m, o) ==
  /\ accept[m] = "set"
  /\ body' = IF Ran(o) THEN [body EXCEPT ![m] = 0] ELSE body
  /\ accept' = [accept EXCEPT ![m] = "push"]
  /\ UNCHANGED <<ready, later, dead, drain, burned, history>>

\* Enqueue: the body first.
EnqueueSet(m, o) ==
  /\ accept[m] = "set"
  /\ body' = IF Ran(o) THEN [body EXCEPT ![m] = 0] ELSE body
  /\ accept' = [accept EXCEPT ![m] = IF Ok(o) THEN "push" ELSE "refused"]
  /\ UNCHANGED <<ready, later, dead, drain, burned, history>>

\* Enqueue: then the id, and the caller is told 202.
EnqueuePush(m, o) ==
  /\ accept[m] = "push"
  /\ ready' = IF Ran(o) THEN Append(ready, m) ELSE ready
  /\ accept' = [accept EXCEPT ![m] = IF Ok(o) THEN "accepted" ELSE "refused"]
  /\ UNCHANGED <<body, later, dead, drain, burned, history>>

\* The caller's request ends before Accept does; it was never told 202.
CallerCut(m) ==
  /\ env.restarts
  /\ accept[m] \in {"set", "push"}
  /\ accept' = [accept EXCEPT ![m] = "refused"]
  /\ UNCHANGED <<queue, drain, burned, history>>

-----------------------------------------------------------------------------
(* DeliverNext *)

Becomes(d, call) == drain' = [drain EXCEPT ![d] = call]
Goto(d, phase) == Becomes(d, [drain[d] EXCEPT !.phase = phase])
Return(d) == Becomes(d, Idle)
Item(d) == drain[d].item

\* A burned IP returns ErrNotSending before the queue is touched.
Begin(d) ==
  /\ d \in env.drainers /\ drain[d].phase = "idle"
  /\ ~burned
  /\ Goto(d, "range")
  /\ UNCHANGED <<queue, accept, burned, history>>

\* promote: ZRANGEBYSCORE.
Due(d, o) ==
  /\ drain[d].phase = "range"
  /\ IF Ok(o)
     THEN Becomes(d, [drain[d] EXCEPT !.phase = "promote",
                                      !.todo = {m \in Messages : later[m] = 0}])
     ELSE Return(d)
  /\ UNCHANGED <<queue, accept, burned, history>>

\* The number ZREM reports is not looked at.
UnscheduleUncounted(d, m, o) ==
  /\ drain[d].phase = "promote"
  /\ m \in drain[d].todo
  /\ later' = IF Ran(o) THEN [later EXCEPT ![m] = NotLater] ELSE later
  /\ IF Ok(o)
     THEN Becomes(d, [drain[d] EXCEPT !.phase = "requeue", !.item = m,
                                      !.todo = @ \ {m}])
     ELSE Return(d)
  /\ UNCHANGED <<body, ready, dead, accept, burned, history>>

\* promote: ZREM one id; only the drainer that removed it makes it ready.
Unschedule(d, m, o) ==
  /\ drain[d].phase = "promote"
  /\ m \in drain[d].todo
  /\ later' = IF Ran(o) THEN [later EXCEPT ![m] = NotLater] ELSE later
  /\ IF ~Ok(o) THEN Return(d)
     ELSE IF later[m] = NotLater THEN Becomes(d, [drain[d] EXCEPT !.todo = @ \ {m}])
     ELSE Becomes(d, [drain[d] EXCEPT !.phase = "requeue", !.item = m,
                                      !.todo = @ \ {m}])
  /\ UNCHANGED <<body, ready, dead, accept, burned, history>>

\* promote: LPUSH the id removed.
Requeue(d, o) ==
  /\ drain[d].phase = "requeue"
  /\ ready' = IF Ran(o) THEN Append(ready, Item(d)) ELSE ready
  /\ IF Ok(o)
     THEN Becomes(d, [drain[d] EXCEPT !.phase = "promote", !.item = Nobody])
     ELSE Return(d)
  /\ UNCHANGED <<body, later, dead, accept, burned, history>>

\* Next: RPOP, once everything due has been promoted.
Pop(d, o) ==
  /\ drain[d].phase = "promote"
  /\ drain[d].todo = {}
  /\ ready' = IF Ran(o) /\ ready # <<>> THEN Tail(ready) ELSE ready
  /\ IF Ok(o) /\ ready # <<>>
     THEN Becomes(d, [drain[d] EXCEPT !.phase = "get", !.item = Head(ready)])
     ELSE Return(d)
  /\ UNCHANGED <<body, later, dead, accept, burned, history>>

\* Next: GET the body; an id without one is dropped.
Get(d, o) ==
  /\ drain[d].phase = "get"
  /\ IF Ok(o) /\ body[Item(d)] # NoBody
     THEN Becomes(d, [drain[d] EXCEPT !.phase = "gate", !.attempts = body[Item(d)]])
     ELSE Return(d)
  /\ UNCHANGED <<queue, accept, burned, history>>

\* suppressionAllows at send time: whatever it has against the recipient, the
\* message is done with.
Gate(d, answer) ==
  /\ drain[d].phase = "gate"
  /\ Goto(d, IF answer = "allow" THEN "route" ELSE "done")
  /\ fate' = IF answer = "allow" THEN fate ELSE [fate EXCEPT ![Item(d)] = answer]
  /\ UNCHANGED <<queue, accept, burned, copies, unheard>>

\* A message nobody answered for is taken for one that was sent.
UnreachedDone(d) ==
  /\ drain[d].phase = "route"
  /\ Goto(d, "done")
  /\ UNCHANGED <<queue, accept, burned, history>>

\* No MX, no budget from the pacer, no vetted address, or no connection.
Unreached(d) ==
  /\ drain[d].phase = "route"
  /\ Goto(d, "store")
  /\ UNCHANGED <<queue, accept, burned, history>>

Route(d) ==
  /\ drain[d].phase = "route"
  /\ Goto(d, "send")
  /\ UNCHANGED <<queue, accept, burned, history>>

\* The delivered message goes the way of a deferred one.
DeliveredRetried(d) ==
  /\ drain[d].phase = "send"
  /\ copies' = [copies EXCEPT ![Item(d)] = @ + 1]
  /\ fate' = [fate EXCEPT ![Item(d)] = "delivered"]
  /\ Goto(d, "store")
  /\ UNCHANGED <<queue, accept, burned, unheard>>

\* Send: the server takes the message and we hear it did.
Delivered(d) ==
  /\ drain[d].phase = "send"
  /\ copies' = [copies EXCEPT ![Item(d)] = @ + 1]
  /\ fate' = [fate EXCEPT ![Item(d)] = "delivered"]
  /\ Goto(d, "done")
  /\ UNCHANGED <<queue, accept, burned, unheard>>

\* Send: the connection is lost after the data; the server may have taken it.
Unheard(d) ==
  /\ drain[d].phase = "send"
  /\ copies' = [copies EXCEPT ![Item(d)] = @ + 1]
  /\ unheard' = [unheard EXCEPT ![Item(d)] = @ + 1]
  /\ Goto(d, "store")
  /\ UNCHANGED <<queue, accept, burned, fate>>

\* Send: a 4xx, or the connection lost before the data (deferred), or a 5xx
\* (rejected).  Both go to Retry.
Refused(d, how) ==
  /\ drain[d].phase = "send"
  /\ fate' = [fate EXCEPT ![Item(d)] = how]
  /\ Goto(d, "store")
  /\ UNCHANGED <<queue, accept, burned, copies, unheard>>

\* Done: DEL the body.
Done(d, o) ==
  /\ drain[d].phase = "done"
  /\ body' = IF Ran(o) THEN [body EXCEPT ![Item(d)] = NoBody] ELSE body
  /\ Return(d)
  /\ UNCHANGED <<ready, later, dead, accept, burned, history>>

\* The attempt is not counted in what is stored.
StoreUncounted(d, o) ==
  /\ drain[d].phase = "store"
  /\ body' = IF Ran(o) THEN [body EXCEPT ![Item(d)] = drain[d].attempts] ELSE body
  /\ IF Ok(o)
     THEN Becomes(d, [drain[d] EXCEPT !.phase = "place", !.attempts = @ + 1])
     ELSE Return(d)
  /\ UNCHANGED <<ready, later, dead, accept, burned, history>>

\* Retry and bury: SET the body with one more attempt.
Store(d, o) ==
  /\ drain[d].phase = "store"
  /\ body' = IF Ran(o) THEN [body EXCEPT ![Item(d)] = drain[d].attempts + 1] ELSE body
  /\ IF Ok(o)
     THEN Becomes(d, [drain[d] EXCEPT !.phase = "place", !.attempts = @ + 1])
     ELSE Return(d)
  /\ UNCHANGED <<ready, later, dead, accept, burned, history>>

Spent(d) == drain[d].attempts >= env.maxAttempts

\* base << (attempts - 1)
Delay(attempts) == Base * 2^(attempts - 1)

\* The backoff grows with the attempts.  True of every base; stated because the
\* provers know nothing of powers.
ASSUME BackoffGrows ==
  \A e \in Environments : \A n \in 1 .. e.maxAttempts :
    Delay(n) \in 0 .. Delay(e.maxAttempts)

\* Retry: ZADD with the backoff.
Schedule(d, o) ==
  /\ drain[d].phase = "place"
  /\ ~Spent(d)
  /\ later' = IF Ran(o) THEN [later EXCEPT ![Item(d)] = Delay(drain[d].attempts)]
                        ELSE later
  /\ Return(d)
  /\ UNCHANGED <<body, ready, dead, accept, burned, history>>

\* bury: LPUSH on the dead list.
Bury(d, o) ==
  /\ drain[d].phase = "place"
  /\ Spent(d)
  /\ dead' = IF Ran(o) THEN dead \cup {Item(d)} ELSE dead
  /\ Return(d)
  /\ UNCHANGED <<body, ready, later, accept, burned, history>>

\* The process stops with a DeliverNext under way.
Restart(d) ==
  /\ env.restarts
  /\ drain[d].phase # "idle"
  /\ Return(d)
  /\ UNCHANGED <<queue, accept, burned, history>>

\* External: IPHealth finds the IP listed or complained about, or clear again.
Burn == ~burned /\ burned' = TRUE /\ UNCHANGED <<queue, accept, drain, history>>
Clear == burned /\ burned' = FALSE /\ UNCHANGED <<queue, accept, drain, history>>

Tick ==
  /\ \E m \in Messages : later[m] > 0
  /\ later' = [m \in Messages |-> IF later[m] > 0 THEN later[m] - 1 ELSE later[m]]
  /\ UNCHANGED <<body, ready, dead, accept, drain, burned, history>>

-----------------------------------------------------------------------------
Accept(m) ==
  \/ \E answer \in env.gate : Submit(m, answer)
  \/ \E o \in Outcomes : EnqueueSet(m, o) \/ EnqueuePush(m, o)
  \/ CallerCut(m)

\* One step of DeliverNext.
Step(d) ==
  \/ \E o \in Outcomes : \/ Due(d, o) \/ Requeue(d, o) \/ Pop(d, o)
                         \/ Get(d, o) \/ Done(d, o) \/ Store(d, o)
                         \/ Schedule(d, o) \/ Bury(d, o)
                         \/ \E m \in Messages : Unschedule(d, m, o)
  \/ \E answer \in env.gate : Gate(d, answer)
  \/ Unreached(d) \/ Route(d)
  \/ Delivered(d) \/ Unheard(d)
  \/ \E how \in {"deferred", "rejected"} : Refused(d, how)

Next ==
  /\ \/ \E m \in Messages : Accept(m)
     \/ \E d \in Drainers : Begin(d) \/ Step(d) \/ Restart(d)
     \/ Burn \/ Clear \/ Tick
  /\ UNCHANGED env

Spec == Init /\ [][Next]_<<env, vars>>

\* A node calls DeliverNext again and again, far more often than the health
\* check changes its mind (the drain interval is seconds, the check's minutes);
\* each of its calls returns, because every I/O has a deadline; time passes;
\* and a listing is lifted some day.
FairSpec ==
  /\ Spec
  /\ \A d \in Drainers : SF_vars(Begin(d)) /\ WF_vars(Step(d))
  /\ WF_vars(Tick) /\ WF_vars(Clear)

-----------------------------------------------------------------------------
Phases == {"idle", "range", "promote", "requeue", "get", "gate", "route",
           "send", "done", "store", "place"}

\* Redis answers every command and nobody is cut off.
Steady == ~env.faults /\ ~env.restarts /\ "unvouched" \notin env.gate

Holding == {"requeue", "get", "gate", "route", "send", "done", "store", "place"}

Calls == [phase : Phases, item : Messages \cup {Nobody},
          attempts : 0 .. env.maxAttempts, todo : SUBSET Messages]

\* Attempts stay within MaxAttempts, delays within the longest backoff, and a
\* call holds an item exactly in the phases that handle one.
TypeOK ==
  /\ body \in [Messages -> NoBody .. env.maxAttempts]
  /\ ready \in Seq(Messages)
  /\ later \in [Messages -> NotLater .. Delay(env.maxAttempts)]
  /\ dead \subseteq Messages
  /\ accept \in [Messages -> {"new", "set", "push", "accepted", "refused"}]
  /\ drain \in [Drainers -> Calls]
  /\ \A d \in Drainers : (Item(d) # Nobody) <=> (drain[d].phase \in Holding)
  /\ burned \in BOOLEAN
  /\ copies \in [Messages -> Nat] /\ unheard \in [Messages -> Nat]
  /\ fate \in [Messages -> {"none", "suppressed", "unvouched", "delivered",
                            "deferred", "rejected"}]

\* The places a message is in: waiting to be pushed by Accept, a position of the
\* ready list, the retry set, the dead list, the hands of a drainer.
Places(m) ==
  (IF accept[m] \in {"new", "set", "push"} THEN {<<"accept">>} ELSE {})
    \cup {<<"ready", i>> : i \in {j \in DOMAIN ready : ready[j] = m}}
    \cup (IF later[m] # NotLater THEN {<<"later">>} ELSE {})
    \cup (IF m \in dead THEN {<<"dead">>} ELSE {})
    \cup {<<"drain", d>> : d \in {e \in Drainers : Item(e) = m}}

\* "a message promoted twice is sent twice, so removal happens before it is
\* made ready" (queue.go, promote): a message is never in two places at once,
\* whatever drainers race, commands fail and nodes restart.
OneCopy == \A m \in Messages : \A p, q \in Places(m) : p = q

\* The server takes a message twice only when its reply to an earlier copy was
\* lost: no order of drainers, failed commands and restarts duplicates one.
SentOnce == \A m \in Messages : copies[m] <= 1 + unheard[m]

\* "an id can never reach the ready list pointing at nothing" (Enqueue): every
\* id waiting to be sent, retried or looked at has its body.
WaitingHasBody ==
  TypeOK /\ \A m \in Messages :
    m \in {ready[i] : i \in DOMAIN ready} \cup dead \/ later[m] # NotLater => body[m] # NoBody

\* A message the caller was told 202 for is waiting, buried or in the hands of
\* a drainer until the server took it or its recipient asked to be forgotten:
\* "a message accepted from a caller and then dropped cannot [be asked again]"
\* (queue.go), "must not answer until a restart could not lose it" (send.go).
AcceptedKept ==
  \A m \in Messages :
    accept[m] = "accepted" => Places(m) # {} \/ fate[m] \in {"delivered", "suppressed"}

\* The same while Redis answers and no process is cut off: no order of two
\* drainers, of refusals and of a burned IP drops a message.
KeptWhileSteady == Steady => AcceptedKept

\* Every accepted message is delivered, forgotten or buried in the end: no
\* number of refusals keeps it in circulation, and none starves behind others.
Settles ==
  \A m \in Messages :
    Steady /\ accept[m] = "accepted" ~> fate[m] \in {"delivered", "suppressed"} \/ m \in dead
=============================================================================

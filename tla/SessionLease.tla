---------------------------- MODULE SessionLease ----------------------------
(***************************************************************************)
(* The session leases of one pace key: pacer.AcquireSession, the scripts   *)
(* of internal/limiter, and the timed course of the SMTP session a lease   *)
(* is held for.  The lease set lives in Redis and all nodes share it.      *)
(*                                                                         *)
(* Time is relative: Tick lets one unit pass, expiry[i] is the time a      *)
(* lease still has, call[c].left how long call c may stay where it is.     *)
(* One tick is the polling interval of AcquireSession.                     *)
(***************************************************************************)
EXTENDS Integers, FiniteSets

CONSTANTS
  Calls,      \* AcquireSession calls of all nodes, by the goroutine making them
  Ids,        \* lease identifiers
  MaxLimit,   \* largest working concurrency (conc) a caller may read
  TTL,        \* pacer.session_lease
  LeaseWait,  \* pacer.lease_wait
  MaxLag,     \* longest a Redis command takes before it runs or fails
  TokenWait,  \* longest wait for a token
  Addrs,      \* most addresses an MX host resolves to
  Timeout,    \* probe.timeout: one dial, and the deadline of the connection
  ReleaseGrace

ASSUME LeaseAssumption ==
  /\ MaxLimit \in Nat \ {0} /\ TTL \in Nat \ {0} /\ LeaseWait \in Nat
  /\ MaxLag \in Nat /\ TokenWait \in Nat /\ Addrs \in Nat \ {0}
  /\ Timeout \in Nat \ {0} /\ ReleaseGrace \in Nat

\* "none" marks a call that is not in progress; it is no lease identifier.
ASSUME IdAssumption == "none" \notin Ids

VARIABLES
  held,    \* members of the sorted set rt:mx:<key>:inflight
  expiry,  \* their scores
  keyTTL,  \* the PEXPIRE of the set
  call,    \* where each AcquireSession call, and its session, has got to
  blame    \* observer: calls that saw a competitor while they waited

vars == <<held, expiry, keyTTL, call, blame>>

Phases == {"idle", "sent", "wait", "token", "dial", "talk", "end", "release"}
\* The phases in which the session lives off its lease, and those in which it
\* has a connection to the receiver.
Live == {"token", "dial", "talk", "end"}
Open == {"talk", "end"}

Holders == {c \in Calls : call[c].phase \in Live}

\* No call in progress.
Idle == [phase |-> "idle", left |-> 0, id |-> "none", limit |-> 1,
         waited |-> 0, dials |-> 0]

Init ==
  /\ held = {}
  /\ expiry = [i \in Ids |-> 0]
  /\ keyTTL = 0
  /\ call = [c \in Calls |-> Idle]
  /\ blame = {}
-----------------------------------------------------------------------------
\* The call moves to a phase it may stay in for at most n ticks.
To(c, phase, n) ==
  call' = [call EXCEPT ![c].phase = phase, ![c].left = n]

Return(c) == call' = [call EXCEPT ![c] = Idle]

\* leaseID: 16 random bytes, different from every identifier in use.
FreshId(i) ==
  /\ i \notin held
  /\ \A d \in Calls : call[d].id # i

\* AcquireSession begins: the limit is read once, for the whole wait, and the
\* first Lease takes its clock reading and its identifier.
Begin(c, limit, i) ==
  /\ call[c].phase = "idle" /\ FreshId(i)
  /\ call' = [call EXCEPT ![c] = [phase |-> "sent", left |-> MaxLag, id |-> i,
                                  limit |-> limit, waited |-> 0, dials |-> 0]]
  /\ blame' = IF Holders # {} THEN blame \cup {c} ELSE blame \ {c}
  /\ UNCHANGED <<held, expiry, keyTTL>>

\* The polling interval is over: Lease again, with a new clock and identifier.
Poll(c, i) ==
  /\ call[c].phase = "wait" /\ call[c].left = 0 /\ FreshId(i)
  /\ call' = [call EXCEPT ![c].phase = "sent", ![c].left = MaxLag, ![c].id = i]
  /\ UNCHANGED <<held, expiry, keyTTL, blame>>

\* How old the clock reading is that the script was sent.
Age(c) == MaxLag - call[c].left

\* What ZREMRANGEBYSCORE -inf now leaves.
Survivors(c) == {i \in held : expiry[i] > -Age(c)}

\* The limit check reads "<=" for "<".
HasRoomOffByOne(c) == Cardinality(Survivors(c)) <= call[c].limit

HasRoom(c) == Cardinality(Survivors(c)) < call[c].limit

\* The script finds room: ZADD, PEXPIRE.
GrantedWrite(c) ==
  /\ held' = Survivors(c) \cup {call[c].id}
  /\ expiry' = [expiry EXCEPT ![call[c].id] = TTL - Age(c)]
  /\ keyTTL' = TTL
  /\ blame' = blame \cup {d \in Calls \ {c} : call[d].phase \in {"sent", "wait"}}

Grant(c) ==
  /\ call[c].phase = "sent" /\ HasRoom(c)
  /\ GrantedWrite(c)
  /\ To(c, "token", TokenWait)

\* The script ran but its reply never came: the caller opens no session
\* (fails closed) and the lease it does not know of stays until it expires.
GrantLost(c) ==
  /\ call[c].phase = "sent" /\ HasRoom(c)
  /\ GrantedWrite(c)
  /\ Return(c)

\* The script finds no room: expired members are gone, nothing else changes.
RefusedWrite(c) ==
  /\ held' = Survivors(c)
  /\ UNCHANGED <<expiry, keyTTL, blame>>

\* Refused, and another polling interval fits before the deadline.
Refuse(c) ==
  /\ call[c].phase = "sent" /\ ~HasRoom(c)
  /\ call[c].waited + 1 <= LeaseWait
  /\ RefusedWrite(c)
  /\ To(c, "wait", 1)

\* The wait is the earliest expiry itself, not capped at the polling interval.
TimeOutUncapped(c) ==
  /\ call[c].phase = "sent" /\ ~HasRoom(c)
  /\ \A i \in Survivors(c) : call[c].waited + expiry[i] + Age(c) > LeaseWait
  /\ RefusedWrite(c)
  /\ Return(c)

\* Refused, and the next interval would end after the deadline: PausedError.
TimeOut(c) ==
  /\ call[c].phase = "sent" /\ ~HasRoom(c)
  /\ call[c].waited + 1 > LeaseWait
  /\ RefusedWrite(c)
  /\ Return(c)

\* The command fails before the script runs, or the request is cancelled
\* or its process dies while it waits: no session.
Abandon(c) ==
  /\ call[c].phase \in {"sent", "wait"}
  /\ Return(c)
  /\ UNCHANGED <<held, expiry, keyTTL, blame>>
-----------------------------------------------------------------------------
\* Acquire granted a token: dial the first of n vetted addresses.
Token(c, n) ==
  /\ call[c].phase = "token"
  /\ call' = [call EXCEPT ![c].phase = "dial", ![c].left = Timeout,
                          ![c].dials = n]
  /\ UNCHANGED <<held, expiry, keyTTL, blame>>

\* dialAny: this address did not answer, the next one is tried.
NextDial(c) ==
  /\ call[c].phase = "dial" /\ call[c].dials > 1
  /\ call' = [call EXCEPT ![c].left = Timeout, ![c].dials = @ - 1]
  /\ UNCHANGED <<held, expiry, keyTTL, blame>>

\* Connected: only now is the connection given its deadline.
Connect(c) ==
  /\ call[c].phase = "dial"
  /\ To(c, "talk", Timeout)
  /\ UNCHANGED <<held, expiry, keyTTL, blame>>

\* The deadline is set anew for every command.
WindRearms(c) ==
  /\ call[c].phase = "talk"
  /\ To(c, "talk", Timeout)
  /\ UNCHANGED <<held, expiry, keyTTL, blame>>

\* The last wait for a token, or the teardown writes, outside that deadline.
Wind(c) ==
  /\ call[c].phase = "talk"
  /\ To(c, "end", TokenWait)
  /\ UNCHANGED <<held, expiry, keyTTL, blame>>

\* The session returns before or after it dialled; the deferred Close runs
\* before the deferred release.
Leave(c) ==
  /\ call[c].phase \in Live
  /\ To(c, "release", ReleaseGrace)
  /\ UNCHANGED <<held, expiry, keyTTL, blame>>

\* Release: ZREM of the session's own member.
Release(c) ==
  /\ call[c].phase = "release"
  /\ held' = held \ {call[c].id}
  /\ Return(c)
  /\ UNCHANGED <<expiry, keyTTL, blame>>

\* The release fails, or the process dies with the lease: it is left to
\* expire, and a dead process has no connections.
Die(c) ==
  /\ call[c].phase \in Live \cup {"release"}
  /\ Return(c)
  /\ UNCHANGED <<held, expiry, keyTTL, blame>>

Dec(n) == IF n > 0 THEN n - 1 ELSE 0

\* A call one tick later.
Aged(r) ==
  [r EXCEPT !.left = Dec(@),
            !.waited = IF r.phase \in {"sent", "wait"} THEN @ + 1 ELSE @]

\* PEXPIRE forgotten: the set is there until a call prunes it.
TickUnexpired ==
  /\ \A c \in Calls : call[c].phase # "idle" => call[c].left > 0
  /\ expiry' = [i \in Ids |-> IF expiry[i] > -MaxLag THEN expiry[i] - 1
                                                     ELSE expiry[i]]
  /\ keyTTL' = Dec(keyTTL)
  /\ call' = [c \in Calls |-> Aged(call[c])]
  /\ UNCHANGED <<held, blame>>

\* One unit of time passes; nobody may outstay its bound.  A set whose PEXPIRE
\* has run out is gone.  A score older than -MaxLag is the same to every caller.
Tick ==
  /\ \A c \in Calls : call[c].phase # "idle" => call[c].left > 0
  /\ held' = IF keyTTL <= 1 THEN {} ELSE held
  /\ expiry' = [i \in Ids |-> IF expiry[i] > -MaxLag THEN expiry[i] - 1
                                                     ELSE expiry[i]]
  /\ keyTTL' = Dec(keyTTL)
  /\ call' = [c \in Calls |-> Aged(call[c])]
  /\ UNCHANGED blame

Step(c) ==
  \/ \E i \in Ids : Poll(c, i)
  \/ Grant(c) \/ GrantLost(c) \/ Refuse(c) \/ TimeOut(c) \/ Abandon(c)
  \/ \E n \in 1 .. Addrs : Token(c, n)
  \/ NextDial(c) \/ Connect(c) \/ Wind(c) \/ Leave(c) \/ Release(c) \/ Die(c)

Next ==
  \/ \E c \in Calls : \/ \E l \in 1 .. MaxLimit, i \in Ids : Begin(c, l, i)
                      \/ Step(c)
  \/ Tick

Spec == Init /\ [][Next]_vars

\* Time passes, and a call that has used up its bound moves on: timers fire,
\* Redis commands and dials time out.  Nobody is obliged to ask for a lease.
Fairness ==
  /\ WF_vars(Tick)
  /\ \A c \in Calls : WF_vars(Step(c))

FairSpec == Spec /\ Fairness
-----------------------------------------------------------------------------
\* The longest a session lives off one lease.
MaxHold == TokenWait + Addrs * Timeout + Timeout + TokenWait

\* What the comment on Options.LeaseTTL asks of the configuration.
LeaseOutlivesSession == MaxHold + MaxLag < TTL

\* Every call is somewhere in its course, carries an identifier exactly while
\* it is in progress, and stays within the bounds of its phase.
TypeOK ==
  /\ held \subseteq Ids
  /\ expiry \in [Ids -> Int]
  /\ keyTTL \in 0 .. TTL
  /\ call \in [Calls -> [phase : Phases, left : Nat, id : Ids \cup {"none"},
                         limit : 1 .. MaxLimit, waited : Nat, dials : 0 .. Addrs]]
  /\ \A c \in Calls : (call[c].phase = "idle") <=> (call[c].id = "none")
  /\ blame \subseteq Calls

\* A live session's own lease is in the set and has not run out, so no other
\* call can be given its room: what AcquireSession's callers rely on from the
\* grant until the connection is closed.
LeaseCoversSession ==
  \A c \in Holders : call[c].id \in held /\ expiry[call[c].id] > 0

\* At most MaxLimit connections to one receiving system are open at once, over
\* all nodes ("a per-process semaphore would let N nodes hold N connections").
OpenWithinLimit ==
  Cardinality({c \in Calls : call[c].phase \in Open}) <= MaxLimit

\* The leases implement a semaphore shared by all nodes.
Slots == INSTANCE SessionSlots WITH inside <- Holders
SlotsSpec == Slots!Spec

\* A crash, a lost reply or a failed release never wedges a key: a call waits
\* in vain only if a session was live when it began to wait, or another call was
\* granted a lease in the meantime (needs LeaseWait >= TTL).
TimesOutOnlyBehindOthers ==
  [][\A c \in Calls : TimeOut(c) => c \in blame]_vars

\* Every lease is taken out of the set in the end, whoever died holding it.
LeasesReclaimed ==
  \A i \in Ids : (i \in held) ~> (i \notin held)
=============================================================================

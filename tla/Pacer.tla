------------------------------- MODULE Pacer -------------------------------
(***************************************************************************)
(* The AIMD pacer for one pace key: internal/pacer, on several nodes that  *)
(* share Redis.  Each node keeps an entry in memory, guarded by a mutex;   *)
(* every Redis command happens outside it (but for savedPause), so the     *)
(* steps below interleave between workers, an operator and the clock.      *)
(*                                                                         *)
(* Rates are whole units.  A pause is the time it still has: Never when it *)
(* was never set (the zero time), 0 when it is over.  The saved conc and   *)
(* state are written and never read back, and are left out.                *)
(***************************************************************************)
EXTENDS Integers, Counting

CONSTANTS
  Nodes, Workers,
  NodeOf,            \* the node each worker (a session or the relay) runs on
  MinRate, SeedMax,  \* the shipped band
  MinConc, MaxConc,
  CleanBeforeClimb,
  PauseFor,          \* the band's pause
  StandFor,          \* the stand-down guard's pause
  PromoteAfter, Step, Ceiling,   \* Options.Promote; Step a percentage
  Environments       \* which workers run, and what else may happen to them

ASSUME PacerAssumption ==
  /\ Nodes # {} /\ NodeOf \in [Workers -> Nodes]
  /\ MinRate \in Nat \ {0} /\ SeedMax \in Nat /\ MinRate <= SeedMax
  /\ MinConc \in Nat \ {0} /\ MaxConc \in Nat /\ MinConc <= MaxConc
  /\ CleanBeforeClimb \in Nat \ {0} /\ PauseFor \in Nat \ {0}
  /\ StandFor \in Nat \ {0}
  /\ PromoteAfter \in Nat /\ Step \in Nat /\ Step > 100
  /\ Ceiling \in Nat /\ SeedMax <= Ceiling
  /\ Environments \subseteq
       [workers : SUBSET Workers, faults : BOOLEAN, evictions : BOOLEAN,
        restarts : BOOLEAN, standdowns : BOOLEAN, operator : SUBSET {"resume", "promote"}]

VARIABLES
  env,     \* the environment of this behaviour; it never changes
  mem,     \* per node, the mxState of the key, or NoEntry
  saved,   \* Redis: the saved rate and pause, the band's ceiling, the proposal
  wk,      \* the workers
  op,      \* the operator's request in progress
  earned,  \* observer: the highest rate any entry reached by climbing
  stood    \* observer: per node, what is left of a stand-down PauseKey set

vars == <<env, mem, saved, wk, op, earned, stood>>

Never   == -1
Missing == 0     \* no such key in Redis, or cleared
NoEntry == [max |-> 0, rate |-> 0, conc |-> 0, clean |-> 0, until |-> Never,
            atCeiling |-> 0, proposed |-> FALSE]
Tracked(n) == mem[n] # NoEntry

WorkerPhases == {"idle", "band", "rate", "insert", "got", "ask", "propose",
                 "saverate", "savepause", "answered", "stand"}
IdleWorker == [phase |-> "idle", max |-> 0, rate |-> 0, until |-> Never,
               orphan |-> NoEntry]
IdleOp == [phase |-> "idle", node |-> CHOOSE n \in Nodes : TRUE, max |-> 0]

Init ==
  /\ env \in Environments
  /\ mem = [n \in Nodes |-> NoEntry]
  /\ saved = [rate |-> Missing, pause |-> Never, max |-> Missing, prop |-> Missing]
  /\ wk = [w \in Workers |-> IdleWorker]
  /\ op = IdleOp
  /\ earned = SeedMax
  /\ stood = [n \in Nodes |-> 0]

Least(a, b)   == IF a < b THEN a ELSE b
Largest(a, b) == IF a > b THEN a ELSE b
Outcomes      == IF env.faults THEN BOOLEAN ELSE {TRUE}
-----------------------------------------------------------------------------
(* stateFor *)

To(w, phase) == wk' = [wk EXCEPT ![w].phase = phase]

\* The key is tracked already, or has to be loaded.
Lookup(w) ==
  /\ wk[w].phase = "idle"
  /\ To(w, IF Tracked(NodeOf[w]) THEN "got" ELSE "band")
  /\ UNCHANGED <<mem, saved, op, earned, stood>>

\* bandFor: the band in Redis, or the seed when there is none or it cannot be read.
ReadBand(w, ok) ==
  /\ wk[w].phase = "band"
  /\ wk' = [wk EXCEPT ![w].phase = "rate",
                      ![w].max = IF ok /\ saved.max # Missing THEN saved.max
                                                              ELSE SeedMax]
  /\ UNCHANGED <<mem, saved, op, earned, stood>>

\* The saved rate is ignored.
StartRateCeiling(max, ok) == max

\* A saved rate may only lower the start.
StartRate(max, ok) ==
  IF ok /\ saved.rate # Missing /\ saved.rate < max
    THEN Largest(MinRate, saved.rate) ELSE max

ReadRate(w, ok) ==
  /\ wk[w].phase = "rate"
  /\ wk' = [wk EXCEPT ![w].phase = "insert",
                      ![w].rate = StartRate(wk[w].max, ok)]
  /\ UNCHANGED <<mem, saved, op, earned, stood>>

\* Under the lock: another worker won the race, or the new entry goes in with
\* the pause Redis remembers.
Insert(w, ok) ==
  LET n == NodeOf[w] IN
  /\ wk[w].phase = "insert"
  /\ mem' = IF Tracked(n) THEN mem ELSE
       [mem EXCEPT ![n] = [max |-> wk[w].max, rate |-> wk[w].rate,
          conc |-> MinConc, clean |-> 0,
          until |-> IF ok THEN saved.pause ELSE Never,
          atCeiling |-> 0, proposed |-> FALSE]]
  /\ To(w, "got")
  /\ UNCHANGED <<saved, op, earned, stood>>

\* The entry a worker's pointer refers to: the tracked one, or the one that
\* was tracked when it was dropped from the map.
Entry(w) == IF wk[w].orphan # NoEntry THEN wk[w].orphan ELSE mem[NodeOf[w]]

\* Acquire and AcquireSession: a paused key is refused; otherwise the worker
\* goes on to take its token and ask the receiver, or gets neither.
Acquire(w) ==
  /\ wk[w].phase = "got"
  /\ wk' = [wk EXCEPT ![w] =
              [IdleWorker EXCEPT !.phase = IF Entry(w).until > 0 THEN "idle"
                                                                 ELSE "ask"]]
  /\ UNCHANGED <<mem, saved, op, earned, stood>>

\* No token (the bucket cannot be read) or no reply: nothing is observed.
GiveUp(w) ==
  /\ wk[w].phase = "ask"
  /\ To(w, "idle")
  /\ UNCHANGED <<mem, saved, op, earned, stood>>
-----------------------------------------------------------------------------
(* Observe and persist *)

Halve(rate) == Largest(MinRate, rate \div 2)
\* Ten per cent, rounded up to a whole unit.
Climb(rate, max) == Least(max, (11 * rate + 9) \div 10)

\* The floor is not checked.
ThrottledNoFloor(e) ==
  [e EXCEPT !.clean = 0, !.atCeiling = 0, !.rate = e.rate \div 2,
            !.conc = Largest(MinConc, e.conc - 1)]

\* A throttle: half the rate and one connection less; at the floor, a pause.
Throttled(e) ==
  IF e.rate > MinRate
    THEN [e EXCEPT !.clean = 0, !.atCeiling = 0, !.rate = Halve(e.rate),
                   !.conc = Largest(MinConc, e.conc - 1)]
    ELSE [e EXCEPT !.clean = 0, !.atCeiling = 0, !.until = PauseFor]

\* Any other answer counts as clean.  clean matters up to CleanBeforeClimb and
\* atCeiling up to PromoteAfter, where the model stops counting.
Climbs(e) == e.clean + 1 >= CleanBeforeClimb /\ e.rate < e.max
Clean(e) ==
  LET rate == IF Climbs(e) THEN Climb(e.rate, e.max) ELSE e.rate
  IN  [max |-> e.max, rate |-> rate, until |-> e.until, proposed |-> e.proposed,
       clean |-> IF Climbs(e) THEN 0 ELSE Least(CleanBeforeClimb, e.clean + 1),
       conc  |-> IF Climbs(e) THEN Least(MaxConc, e.conc + 1) ELSE e.conc,
       atCeiling |-> IF rate >= e.max THEN Least(PromoteAfter, e.atCeiling + 1)
                                      ELSE e.atCeiling]

\* Enough clean answers at the ceiling, and no proposal from this entry yet.
Proposes(e) ==
  LET c == Clean(e) IN /\ PromoteAfter > 0 /\ c.rate >= c.max
                       /\ ~e.proposed /\ c.atCeiling >= PromoteAfter

\* What persist and proposeBand are handed: a copy of the entry.
Snapshot(w, phase, e) ==
  wk' = [wk EXCEPT ![w] = [phase |-> phase, max |-> e.max, rate |-> e.rate,
                           until |-> e.until, orphan |-> wk[w].orphan]]

\* The prober's observe and the relay: one answer, reduced to whether it was a
\* throttle.  A policy refusal is handed in like any other answer.
Observe(w, answer) ==
  LET n == NodeOf[w]
      e == mem[n]
      new == IF answer = "throttle" THEN Throttled(e) ELSE Clean(e)
      propose == answer # "throttle" /\ Proposes(e)
  IN
  /\ wk[w].phase = "ask"
  /\ \/ /\ ~Tracked(n)
        /\ To(w, "answered")
        /\ UNCHANGED <<mem, earned>>
     \/ /\ Tracked(n)
        /\ mem' = [mem EXCEPT ![n] = [new EXCEPT !.proposed = @ \/ propose]]
        /\ earned' = Largest(earned, new.rate)
        /\ Snapshot(w, IF propose THEN "propose" ELSE "saverate", new)
  /\ UNCHANGED <<saved, op, stood>>

NextMax(max) == Least(Ceiling, (max * Step) \div 100)

\* proposeBand: bounded by the absolute ceiling, and only ever upwards.
Propose(w, ok) ==
  /\ wk[w].phase = "propose"
  /\ saved' = IF ok /\ NextMax(wk[w].max) > wk[w].max
                THEN [saved EXCEPT !.prop = NextMax(wk[w].max)] ELSE saved
  /\ To(w, "saverate")
  /\ UNCHANGED <<mem, op, earned, stood>>

SaveRate(w, ok) ==
  /\ wk[w].phase = "saverate"
  /\ saved' = IF ok THEN [saved EXCEPT !.rate = wk[w].rate] ELSE saved
  /\ To(w, "savepause")
  /\ UNCHANGED <<mem, op, earned, stood>>

\* The pause is not persisted.
SavePauseSkipped(w, ok) ==
  /\ wk[w].phase = "savepause"
  /\ To(w, "answered")
  /\ UNCHANGED <<mem, saved, op, earned, stood>>

SavePause(w, ok) ==
  /\ wk[w].phase = "savepause"
  /\ saved' = IF ok /\ wk[w].until # Never
                THEN [saved EXCEPT !.pause = wk[w].until] ELSE saved
  /\ To(w, "answered")
  /\ UNCHANGED <<mem, op, earned, stood>>

Done(w) ==
  /\ wk[w].phase = "answered"
  /\ wk' = [wk EXCEPT ![w] = IdleWorker]
  /\ UNCHANGED <<mem, saved, op, earned, stood>>
-----------------------------------------------------------------------------
(* PauseKey, called by the stand-down guard after the answer was observed *)

\* The entry in memory is not told.
StandMemForgotten(w) ==
  /\ env.standdowns /\ wk[w].phase = "answered"
  /\ wk' = [wk EXCEPT ![w].phase = "stand", ![w].until = StandFor]
  /\ UNCHANGED <<mem, saved, op, earned, stood>>

StandMem(w) ==
  LET n == NodeOf[w] IN
  /\ env.standdowns /\ wk[w].phase = "answered"
  /\ mem' = IF Tracked(n) THEN [mem EXCEPT ![n].until = StandFor] ELSE mem
  /\ wk' = [wk EXCEPT ![w].phase = "stand", ![w].until = StandFor]
  /\ UNCHANGED <<saved, op, earned, stood>>

StandRedis(w, ok) ==
  /\ wk[w].phase = "stand"
  /\ saved' = IF ok THEN [saved EXCEPT !.pause = wk[w].until] ELSE saved
  /\ stood' = IF ok THEN [stood EXCEPT ![NodeOf[w]] = wk[w].until] ELSE stood
  /\ wk' = [wk EXCEPT ![w] = IdleWorker]
  /\ UNCHANGED <<mem, op, earned>>
-----------------------------------------------------------------------------
(* The operator: ResumeKey and Promote *)

ResumeMem(n) ==
  /\ "resume" \in env.operator /\ op.phase = "idle"
  /\ mem' = IF Tracked(n) THEN [mem EXCEPT ![n].until = Never] ELSE mem
  /\ stood' = [m \in Nodes |-> 0]
  /\ op' = [op EXCEPT !.phase = "resume", !.node = n]
  /\ UNCHANGED <<saved, wk, earned>>

ResumeRedis(ok) ==
  /\ op.phase = "resume"
  /\ saved' = IF ok THEN [saved EXCEPT !.pause = 0] ELSE saved
  /\ op' = IdleOp
  /\ UNCHANGED <<mem, wk, earned, stood>>

\* Promote reads the standing proposal, and the band it widens.
PromoteRead(n) ==
  /\ "promote" \in env.operator /\ op.phase = "idle" /\ saved.prop # Missing
  /\ op' = [phase |-> "band", node |-> n, max |-> saved.prop]
  /\ UNCHANGED <<mem, saved, wk, earned, stood>>

PromoteBand(ok) ==
  /\ op.phase = "band"
  /\ saved' = IF ok THEN [saved EXCEPT !.max = op.max] ELSE saved
  /\ op' = IF ok THEN [op EXCEPT !.phase = "clear"] ELSE IdleOp
  /\ UNCHANGED <<mem, wk, earned, stood>>

PromoteClear(ok) ==
  /\ op.phase = "clear"
  /\ saved' = IF ok THEN [saved EXCEPT !.prop = Missing] ELSE saved
  /\ op' = IF ok THEN [op EXCEPT !.phase = "drop"] ELSE IdleOp
  /\ UNCHANGED <<mem, wk, earned, stood>>

\* The entry leaves the map; workers that hold a pointer to it keep it.
Drop(n) ==
  /\ mem' = [mem EXCEPT ![n] = NoEntry]
  /\ wk' = [w \in Workers |->
              IF NodeOf[w] = n /\ wk[w].phase = "got" /\ wk[w].orphan = NoEntry
                THEN [wk[w] EXCEPT !.orphan = mem[n]] ELSE wk[w]]

PromoteDrop ==
  /\ op.phase = "drop"
  /\ Drop(op.node)
  /\ op' = IdleOp
  /\ UNCHANGED <<saved, earned, stood>>
-----------------------------------------------------------------------------
\* evictLocked, on behalf of another key: idle too long, or least recently used.
Evict(n) ==
  /\ env.evictions /\ Tracked(n)
  /\ Drop(n)
  /\ UNCHANGED <<saved, op, earned, stood>>

\* The process restarts; what was in memory or on its way to Redis is gone.
Restart(n) ==
  /\ env.restarts
  /\ mem' = [mem EXCEPT ![n] = NoEntry]
  /\ wk' = [w \in Workers |-> IF NodeOf[w] = n THEN IdleWorker ELSE wk[w]]
  /\ op' = IF op.node = n THEN IdleOp ELSE op
  /\ UNCHANGED <<saved, earned, stood>>

Dec(t) == IF t > 0 THEN t - 1 ELSE t
Aged(e) == [e EXCEPT !.until = Dec(@)]

Tick ==
  /\ mem' = [n \in Nodes |-> Aged(mem[n])]
  /\ saved' = [saved EXCEPT !.pause = Dec(@)]
  /\ wk' = [w \in Workers |-> [wk[w] EXCEPT !.until = Dec(@),
                                            !.orphan = Aged(@)]]
  /\ stood' = [n \in Nodes |-> Dec(stood[n])]
  /\ UNCHANGED <<op, earned>>

Answers == {"clean", "throttle", "policy"}

Work(w) ==
  \/ Lookup(w) \/ Acquire(w) \/ GiveUp(w) \/ Done(w) \/ StandMem(w)
  \/ \E answer \in Answers : Observe(w, answer)
  \/ \E ok \in Outcomes : \/ ReadBand(w, ok) \/ ReadRate(w, ok) \/ Insert(w, ok)
                          \/ Propose(w, ok) \/ SaveRate(w, ok) \/ SavePause(w, ok)
                          \/ StandRedis(w, ok)

Operate ==
  \/ \E n \in Nodes : ResumeMem(n) \/ PromoteRead(n)
  \/ \E ok \in Outcomes : ResumeRedis(ok) \/ PromoteBand(ok) \/ PromoteClear(ok)
  \/ PromoteDrop

Next ==
  /\ \/ \E w \in env.workers : Work(w)
     \/ Operate
     \/ \E n \in Nodes : Evict(n) \/ Restart(n)
     \/ Tick
  /\ UNCHANGED env

Spec == Init /\ [][Next]_vars
-----------------------------------------------------------------------------
Times == Nat \cup {Never}
EntryType == [max : Nat, rate : Nat, conc : Nat, clean : Nat, until : Times,
              atCeiling : Nat, proposed : BOOLEAN]

\* Every entry, copy and saved value is of the shape the code gives it.
TypeOK ==
  /\ env \in Environments
  /\ mem \in [Nodes -> EntryType]
  /\ saved \in [rate : Nat, pause : Times, max : Nat, prop : Nat]
  /\ wk \in [Workers -> [phase : WorkerPhases, max : Nat, rate : Nat,
                          until : Times, orphan : EntryType]]
  /\ op \in [phase : {"idle", "resume", "band", "clear", "drop"}, node : Nodes,
              max : Nat]
  /\ earned \in Nat /\ stood \in [Nodes -> Nat]

\* "Never move outside [min_rate, max_rate]": whatever was saved, promoted,
\* evicted or reloaded, a node paces the key inside the band its entry holds,
\* and no band goes past the absolute ceiling.
RateWithinBand ==
  TypeOK /\ \A n \in Nodes : Tracked(n) =>
    /\ MinRate <= mem[n].rate /\ mem[n].rate <= mem[n].max
    /\ mem[n].max <= Ceiling
    /\ MinConc <= mem[n].conc /\ mem[n].conc <= MaxConc

\* It takes more clean answers to propose a band than a node has workers between
\* observing one and saving the rate: one of them has saved it by then.
SavedFirst ==
  PromoteAfter = 0 \/ \A n \in Nodes :
    ~AtLeast({w \in env.workers : NodeOf[w] = n}, PromoteAfter)

\* "Promoting widens the permission, not the rate": as long as the saved rate
\* can be read, no write of it is lost in a restart, and one comes before the
\* first proposal, a node never paces the key faster than the seed allows or
\* clean answers have earned, on any node.
EarnedRate ==
  ~env.faults /\ ~env.restarts /\ SavedFirst => \A n \in Nodes : mem[n].rate <= earned

\* Nobody is between observing an answer, or standing the key down, or lifting
\* a pause, and writing the result to Redis.
Quiet ==
  /\ op.phase = "idle"
  /\ \A w \in Workers : wk[w].phase \notin
       {"propose", "saverate", "savepause", "stand"}

\* Workers' snapshots and pauses can cross each other, and a Resume, on their way
\* to Redis: a single worker cannot cross itself.
Alone == (\E w \in Workers : env.workers = {w}) /\ "resume" \notin env.operator

\* "A paused MX is safe to evict: pause_until is in Redis", and "a restart keeps
\* it": once every write has been made, Redis holds every pause in memory.
PausePersisted ==
  Alone /\ ~env.faults /\ Quiet =>
    \A n \in Nodes : mem[n].until > 0 => saved.pause >= mem[n].until

\* PauseKey "stands a pace key down until the given time, whatever the AIMD loop
\* thinks of it": the node goes on refusing for as long as PauseKey said.
StandDownKept ==
  \A n \in Nodes :
    Tracked(n) /\ Quiet /\ stood[n] > 0 => mem[n].until >= stood[n]

\* ... which holds for a worker alone, through evictions, promotions and restarts.
StandDownKeptAlone == Alone /\ ~env.faults => StandDownKept
=============================================================================

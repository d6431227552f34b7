------------------------------ MODULE StandDown ------------------------------
(***************************************************************************)
(* The stand-down guard for one pace key: internal/standdown.  Sessions    *)
(* hand it refusals of us; it counts the distinct hosts that refused       *)
(* within the window in a sorted set in Redis, and pauses the key when a   *)
(* refusal names a blocklist (rule A) or enough hosts refused (rule B).    *)
(* An operator may resume the key at any moment.                           *)
(*                                                                         *)
(* Benign replies return before anything happens and are left out.  So is  *)
(* the set's own expiry, two windows after its last use: by then every     *)
(* member is older than the window and the next count drops it.            *)
(***************************************************************************)
EXTENDS Integers, Counting

CONSTANTS
  Sessions, Hosts,
  Threshold,         \* Options.Hosts
  Window, Pause,
  MaxLag,            \* the longest an Observe takes (its context's timeout)
  MaxTime,           \* bound on the clock
  Faults             \* Redis commands may fail

ASSUME StandDownAssumption ==
  /\ Threshold \in Nat \ {0, 1} /\ Window \in Nat \ {0} /\ Pause \in Nat \ {0}
  /\ MaxLag \in Nat /\ MaxTime \in Nat /\ Faults \in BOOLEAN

VARIABLES
  clock,
  refusals,   \* the sorted set: per host the time of its refusal, or Never
  stood,      \* the guard's own record: paused until
  paused,     \* pause_until in Redis (the copy in memory is Pacer's)
  call,       \* per session, the Observe in progress
  op,         \* the operator's Resume in progress
  last,       \* observer: per host, when it last refused
  crossed     \* observer: a Resume has come between the two halves of a stand-down

guardVars == <<clock, refusals, stood, paused, call, op, last, crossed>>

Never    == -1
Idle     == [phase |-> "idle", host |-> "none", names |-> FALSE, now |-> 0]
Outcomes == IF Faults THEN BOOLEAN ELSE {TRUE}

GuardInit ==
  /\ clock = 0 /\ stood = 0 /\ paused = 0 /\ op = "idle" /\ crossed = FALSE
  /\ refusals = [h \in Hosts |-> Never]
  /\ last = [h \in Hosts |-> Never]
  /\ call = [c \in Sessions |-> Idle]
-----------------------------------------------------------------------------
(* Observe.  Each Redis command and each locked section is a step. *)

To(c, phase) == call' = [call EXCEPT ![c].phase = phase]
Return(c)    == call' = [call EXCEPT ![c] = Idle]

\* More refusals change nothing while the guard has the key down.
Observe(c, h, names) ==
  /\ call[c].phase = "idle" /\ ~(clock < stood)
  /\ call' = [call EXCEPT ![c] = [phase |-> "zadd", host |-> h, names |-> names,
                                  now |-> clock]]
  /\ last' = [last EXCEPT ![h] = clock]
  /\ UNCHANGED <<clock, refusals, stood, paused, op, crossed>>

ZAdd(c, ok) ==
  /\ call[c].phase = "zadd"
  /\ refusals' = IF ok THEN [refusals EXCEPT ![call[c].host] = call[c].now]
                       ELSE refusals
  /\ IF ok THEN To(c, "zrem") ELSE Return(c)
  /\ UNCHANGED <<clock, stood, paused, op, last, crossed>>

\* Nothing is ever too old.
FreshAll(time, cutoff) == TRUE

\* The cutoff itself is still inside the window.
Fresh(time, cutoff) == time >= cutoff

ZRem(c, ok) ==
  /\ call[c].phase = "zrem"
  /\ refusals' = IF ok THEN [h \in Hosts |->
                               IF Fresh(refusals[h], call[c].now - Window)
                                 THEN refusals[h] ELSE Never]
                       ELSE refusals
  /\ IF ok THEN To(c, "zcard") ELSE Return(c)
  /\ UNCHANGED <<clock, stood, paused, op, last, crossed>>

Counted == {h \in Hosts : refusals[h] # Never}
RuleA(c) == call[c].names
RuleB(c) == ~call[c].names /\ AtLeast(Counted, Threshold)

ZCard(c, ok) ==
  /\ call[c].phase = "zcard"
  /\ IF ok /\ (RuleA(c) \/ RuleB(c)) THEN To(c, "pause") ELSE Return(c)
  /\ UNCHANGED <<clock, refusals, stood, paused, op, last, crossed>>

Until(c) == call[c].now + Pause

\* The answer to PauseKey is not looked at.
PauseKeyUnchecked(c, ok) ==
  /\ call[c].phase = "pause"
  /\ paused' = IF ok THEN Until(c) ELSE paused
  /\ To(c, "stand")
  /\ UNCHANGED <<clock, refusals, stood, op, last, crossed>>

PauseKey(c, ok) ==
  /\ call[c].phase = "pause"
  /\ paused' = IF ok THEN Until(c) ELSE paused
  /\ IF ok THEN To(c, "stand") ELSE Return(c)
  /\ UNCHANGED <<clock, refusals, stood, op, last, crossed>>

Stand(c) ==
  /\ call[c].phase = "stand"
  /\ stood' = Until(c)
  /\ Return(c)
  /\ UNCHANGED <<clock, refusals, paused, op, last, crossed>>
-----------------------------------------------------------------------------
(* Resume *)

ResumeKey(ok) ==
  /\ op = "idle"
  /\ paused' = IF ok THEN 0 ELSE paused
  /\ crossed' = (crossed \/ (ok /\ \E c \in Sessions : call[c].phase = "stand"))
  /\ op' = IF ok THEN "del" ELSE "idle"
  /\ UNCHANGED <<clock, refusals, stood, call, last>>

DelRefusals(ok) ==
  /\ op = "del"
  /\ refusals' = IF ok THEN [h \in Hosts |-> Never] ELSE refusals
  /\ op' = "forget"
  /\ UNCHANGED <<clock, stood, paused, call, last, crossed>>

Forget ==
  /\ op = "forget"
  /\ stood' = 0 /\ op' = "idle"
  /\ UNCHANGED <<clock, refusals, paused, call, last, crossed>>

\* No Observe outlives its context.
Tick ==
  /\ clock < MaxTime
  /\ \A c \in Sessions : call[c].phase # "idle" => clock - call[c].now < MaxLag
  /\ clock' = clock + 1
  /\ UNCHANGED <<refusals, stood, paused, call, op, last, crossed>>

GuardNext ==
  \/ \E c \in Sessions :
       \/ \E h \in Hosts, names \in BOOLEAN : Observe(c, h, names)
       \/ \E ok \in Outcomes : \/ ZAdd(c, ok) \/ ZRem(c, ok) \/ ZCard(c, ok)
                               \/ PauseKey(c, ok)
       \/ Stand(c)
  \/ \E ok \in Outcomes : ResumeKey(ok) \/ DelRefusals(ok)
  \/ Forget \/ Tick

GuardSpec == GuardInit /\ [][GuardNext]_guardVars
-----------------------------------------------------------------------------
\* Times are times, calls are in a phase of Observe, and a host is in the set
\* with a time it refused us at or before.
GuardTypeOK ==
  /\ clock \in 0..MaxTime /\ stood \in Nat /\ paused \in Nat
  /\ refusals \in [Hosts -> 0..MaxTime \cup {Never}]
  /\ last \in [Hosts -> 0..MaxTime \cup {Never}]
  /\ \A h \in Hosts : refusals[h] <= last[h]
  /\ op \in {"idle", "del", "forget"} /\ crossed \in BOOLEAN
  /\ call \in [Sessions -> [phase : {"idle", "zadd", "zrem", "zcard", "pause", "stand"},
                            host : Hosts \cup {"none"}, names : BOOLEAN,
                            now : 0..MaxTime]]

\* The oldest refusal a count can rest on: the window, or an Observe's own time
\* when that is longer, before the Observe that counts, which takes its time too.
Reach == (IF Window > MaxLag THEN Window ELSE MaxLag) + MaxLag

\* Rule B stands a key down only on the word of enough distinct hosts, each of
\* which refused within the window (give or take the time an Observe takes).
RuleBHasEvidence ==
  [][\A c \in Sessions : ZCard(c, TRUE) /\ RuleB(c) =>
       AtLeast({h \in Hosts : last[h] # Never /\ clock - last[h] <= Reach}, Threshold)]_guardVars

\* "already down; more refusals change nothing": while the guard turns refusals
\* away because it has the key down, the pacer really has it paused (give or take
\* the time an Observe takes), whatever fails and whenever the operator resumes;
\* but for a Resume between PauseKey and the guard's own record of it.
StoodIsPaused ==
  GuardTypeOK /\ (~crossed /\ op = "idle" /\ stood > clock + MaxLag => paused > clock)
=============================================================================

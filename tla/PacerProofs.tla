----------------------------- MODULE PacerProofs -----------------------------
(***************************************************************************)
(* What the pacer keeps for every value of the constants, and for every    *)
(* environment of a run: the rate inside its band (RateWithinBand), the    *)
(* rate earned by clean answers (EarnedRate), and a pause, or a            *)
(* stand-down, that Redis remembers (PausePersisted, StandDownKeptAlone).  *)
(*                                                                         *)
(* BandInv follows every band and rate between memory and Redis, EarnInv   *)
(* what was earned along the same ways, and AloneInv the pause of a node   *)
(* that is alone; each handler has a lemma that it keeps all three.        *)
(***************************************************************************)
EXTENDS Pacer, TLAPS

(* A record update usable in every leaf: the SMT backend then leaves the   *)
(* leaf untyped.  Type inference is most of the time these proofs would    *)
(* take otherwise.                                                         *)
Blank == [field |-> 0]
Blanks == {Blank}

\* Writing the value a field already has changes nothing.
LEMMA Untyped == [Blank EXCEPT !.field = 0] \in Blanks
  BY DEF Blank, Blanks

USE Untyped

WorkerType == [phase : WorkerPhases, max : Nat, rate : Nat, until : Times,
               orphan : EntryType]

Band(max) == MinRate <= max /\ max <= Ceiling
Sound(e) == /\ Band(e.max) /\ MinRate <= e.rate /\ e.rate <= e.max
            /\ MinConc <= e.conc /\ e.conc <= MaxConc

\* Every band on its way from Redis to an entry, or from an entry to Redis, and
\* every rate, is one an entry may hold.
MemInv   == \A n \in Nodes : Tracked(n) => Sound(mem[n])
SavedInv == /\ saved.max # Missing => Band(saved.max)
            /\ saved.prop # Missing => Band(saved.prop)
            /\ op.phase = "band" => Band(op.max)
Carried(r) ==
  /\ r.phase \in {"rate", "insert", "propose"} => Band(r.max)
  /\ r.phase \in {"insert", "propose", "saverate"} => MinRate <= r.rate
  /\ r.phase = "insert" => r.rate <= r.max
  /\ r.phase = "stand" => r.until \in Nat
CarryInv == \A w \in Workers : Carried(wk[w])
BandInv == TypeOK /\ MemInv /\ SavedInv /\ CarryInv

\* Workers of a node that have observed an answer and not yet saved the rate.
Unsaved   == {"propose", "saverate"}
Saving(n) == {w \in env.workers : NodeOf[w] = n /\ wk[w].phase \in Unsaved}

\* No rate is more than was earned; until a rate is saved nothing is proposed, as
\* every clean answer at the ceiling has its worker still on the way to Redis.
Earning == ~env.faults /\ ~env.restarts /\ SavedFirst
RatesEarned ==
  /\ SeedMax <= earned /\ saved.rate <= earned
  /\ \A n \in Nodes : mem[n].rate <= earned
  /\ \A w \in Workers : wk[w].phase \in {"insert", "propose", "saverate"} =>
       wk[w].rate <= earned
NothingSaved ==
  /\ saved.max = Missing /\ saved.prop = Missing /\ op.phase \in {"idle", "resume"}
  /\ \A w \in Workers : /\ wk[w].phase # "propose"
                        /\ wk[w].phase = "rate" => wk[w].max = SeedMax
  /\ \A n \in Nodes : AtLeast(Saving(n), mem[n].atCeiling)
EarnInv == Earning => RatesEarned /\ (saved.rate = Missing => NothingSaved)

\* A worker alone: the pause of its node's entry is in Redis, or on its way there;
\* a stand-down is in Redis and in every entry the worker may look at.
Writing == {"propose", "saverate", "savepause", "stand"}
Loading == {"idle", "band", "rate", "insert", "got"}
OnlyInv(w) ==
  LET n == NodeOf[w] IN
  /\ \A m \in Nodes \ {n} : mem[m] = NoEntry /\ stood[m] = 0
  /\ op.phase # "resume"
  /\ wk[w].phase = "got" => wk[w].orphan # NoEntry \/ Tracked(n)
  /\ IF wk[w].phase \in Writing
       THEN Tracked(n) => wk[w].until = mem[n].until
       ELSE mem[n].until > 0 => saved.pause >= mem[n].until
  /\ stood[n] > 0 => /\ wk[w].phase \in Loading
                     /\ saved.pause >= stood[n]
                     /\ Tracked(n) => mem[n].until >= stood[n]
                     /\ wk[w].orphan # NoEntry => wk[w].orphan.until >= stood[n]
AloneInv == Alone /\ ~env.faults => \A w \in env.workers : OnlyInv(w)
IInv == BandInv /\ EarnInv /\ AloneInv
-----------------------------------------------------------------------------
(* What an answer does to an entry *)

\* Halving stays at or above MinRate, climbing at or below the band.
LEMMA HalveClimb ==
  ASSUME NEW rate \in Nat, NEW max \in Nat, MinRate <= rate, rate <= max
  PROVE  /\ Halve(rate) \in Nat /\ MinRate <= Halve(rate) /\ Halve(rate) <= rate
         /\ Climb(rate, max) \in Nat /\ rate <= Climb(rate, max) /\ Climb(rate, max) <= max
  BY PacerAssumption DEF Halve, Climb, Largest, Least

\* A band proposed is above MinRate and at most the ceiling.
LEMMA NextMaxBand ==
  ASSUME NEW max \in Nat, Band(max), NextMax(max) > max
  PROVE  NextMax(max) \in Nat /\ NextMax(max) # Missing /\ Band(NextMax(max))
  <1>1. max * Step \in Nat
    BY PacerAssumption
  <1>2. (max * Step) \div 100 \in Nat
    BY <1>1
  <1> QED BY <1>2, PacerAssumption DEF NextMax, Least, Band, Missing

\* The entry of a key that a node does not track.
LEMMA NoEntryType ==
  /\ NoEntry \in EntryType /\ NoEntry.until = Never /\ NoEntry.rate = 0
  /\ NoEntry.atCeiling = 0 /\ NoEntry.conc = 0
  BY DEF NoEntry, EntryType, Times, Never

\* An entry in use has at least one connection.
LEMMA SoundTracked == \A e : Sound(e) => e # NoEntry
  BY NoEntryType, PacerAssumption DEF Sound

\* A throttled answer never raises a rate, and clears the count at the ceiling.
LEMMA ThrottledEntry ==
  ASSUME NEW e \in EntryType, Sound(e)
  PROVE  /\ Throttled(e) \in EntryType /\ Sound(Throttled(e))
         /\ Throttled(e).rate <= e.rate /\ Throttled(e).atCeiling = 0
  <1>1. /\ e.rate \in Nat /\ e.max \in Nat /\ e.conc \in Nat /\ e.until \in Times
        /\ MinRate <= e.rate /\ e.rate <= e.max
    BY DEF EntryType, Sound
  <1>2. CASE e.rate > MinRate
    <2>1. Throttled(e) = [max |-> e.max, rate |-> Halve(e.rate),
                          conc |-> Largest(MinConc, e.conc - 1), clean |-> 0,
                          until |-> e.until, atCeiling |-> 0, proposed |-> e.proposed]
      BY <1>2, Zenon DEF Throttled, EntryType
    <2>2. Largest(MinConc, e.conc - 1) \in MinConc..MaxConc
      BY <1>1, PacerAssumption DEF Largest, Sound
    <2>3. Halve(e.rate) \in Nat /\ MinRate <= Halve(e.rate) /\ Halve(e.rate) <= e.rate
      BY <1>1, <1>2, HalveClimb DEF Sound, EntryType
    <2> QED BY <1>1, <2>1, <2>2, <2>3, PacerAssumption DEF Sound, EntryType
  <1>3. CASE ~(e.rate > MinRate)
    <2>1. Throttled(e) = [max |-> e.max, rate |-> e.rate, conc |-> e.conc, clean |-> 0,
                          until |-> PauseFor, atCeiling |-> 0, proposed |-> e.proposed]
      BY <1>3, Zenon DEF Throttled, EntryType
    <2> QED BY <1>1, <2>1, PacerAssumption DEF Sound, EntryType, Times
  <1> QED BY <1>2, <1>3

\* A clean answer counts at most one more at the ceiling, and only once there.
LEMMA CleanEntry ==
  ASSUME NEW e \in EntryType, Sound(e)
  PROVE  /\ Clean(e) \in EntryType /\ Sound(Clean(e)) /\ Clean(e).until = e.until
         /\ Clean(e).atCeiling <= e.atCeiling + 1
  <1> DEFINE rate == IF Climbs(e) THEN Climb(e.rate, e.max) ELSE e.rate
             clean == IF Climbs(e) THEN 0 ELSE Least(CleanBeforeClimb, e.clean + 1)
             conc == IF Climbs(e) THEN Least(MaxConc, e.conc + 1) ELSE e.conc
             at == IF rate >= e.max THEN Least(PromoteAfter, e.atCeiling + 1) ELSE e.atCeiling
  <1>1. /\ e.rate \in Nat /\ e.max \in Nat /\ e.conc \in Nat /\ e.until \in Times
        /\ e.clean \in Nat /\ e.atCeiling \in Nat
        /\ MinRate <= e.rate /\ e.rate <= e.max
    BY DEF EntryType, Sound
  <1>2. rate \in Nat /\ MinRate <= rate /\ rate <= e.max
    <2>1. /\ Climb(e.rate, e.max) \in Nat /\ e.rate <= Climb(e.rate, e.max)
          /\ Climb(e.rate, e.max) <= e.max
      BY <1>1, HalveClimb
    <2> QED BY <1>1, <2>1, PacerAssumption
  <1>3. clean \in Nat
    BY <1>1, PacerAssumption DEF Least
  <1>4. conc \in MinConc..MaxConc
    BY <1>1, PacerAssumption DEF Least, Sound
  <1>5. at \in Nat /\ at <= e.atCeiling + 1
    BY <1>1, PacerAssumption DEF Least
  <1>6. Clean(e) = [max |-> e.max, rate |-> rate, conc |-> conc, clean |-> clean,
                    until |-> e.until, atCeiling |-> at, proposed |-> e.proposed]
    BY Zenon DEF Clean
  <1> HIDE DEF rate, clean, conc, at
  <1> QED BY <1>1, <1>2, <1>3, <1>4, <1>5, <1>6, PacerAssumption DEF Sound, EntryType

\* The entry after an answer, as Observe leaves it.
LEMMA ProposedEntry ==
  ASSUME NEW e \in EntryType, NEW b \in BOOLEAN
  PROVE  LET f == [e EXCEPT !.proposed = b] IN
         /\ f \in EntryType /\ f.max = e.max /\ f.rate = e.rate /\ f.conc = e.conc
         /\ f.until = e.until /\ f.atCeiling = e.atCeiling
  BY DEF EntryType

\* Setting a pause changes nothing else.
LEMMA UntilEntry ==
  ASSUME NEW e \in EntryType, NEW t \in Times
  PROVE  LET f == [e EXCEPT !.until = t] IN
         /\ f \in EntryType /\ f.max = e.max /\ f.rate = e.rate /\ f.conc = e.conc
         /\ f.until = t /\ f.atCeiling = e.atCeiling
  BY DEF EntryType

\* Every set has at least 0 members.
LEMMA AtLeastNone == ASSUME NEW S PROVE AtLeast(S, 0)
  <1> DEFINE f == [i \in 1..0 |-> i]
  <1>1. f \in [1..0 -> S]
    OBVIOUS
  <1>2. \A i, j \in 1..0 : f[i] = f[j] => i = j
    OBVIOUS
  <1> QED BY <1>1, <1>2, Zenon DEF AtLeast

\* A larger set has as many members, and fewer.
LEMMA AtLeastFewer ==
  ASSUME NEW S, NEW T, S \subseteq T, NEW k \in Nat, NEW l \in Nat, l <= k, AtLeast(S, k)
  PROVE  AtLeast(T, l)
  <1>1. PICK f \in [1..k -> S] : \A i, j \in 1..k : f[i] = f[j] => i = j
    BY DEF AtLeast
  <1> DEFINE g == [i \in 1..l |-> f[i]]
  <1>2. g \in [1..l -> T]
    BY <1>1
  <1>3. \A i, j \in 1..l : g[i] = g[j] => i = j
    BY <1>1
  <1> QED BY <1>2, <1>3, Zenon DEF AtLeast

\* One more member, one more counted.
LEMMA AtLeastMore ==
  ASSUME NEW S, NEW x, x \notin S, NEW k \in Nat, AtLeast(S, k)
  PROVE  AtLeast(S \cup {x}, k + 1)
  <1>1. PICK f \in [1..k -> S] : \A i, j \in 1..k : f[i] = f[j] => i = j
    BY DEF AtLeast
  <1> DEFINE g == [i \in 1..(k + 1) |-> IF i = k + 1 THEN x ELSE f[i]]
  <1>2. g \in [1..(k + 1) -> S \cup {x}]
    BY <1>1
  <1>3. \A i, j \in 1..(k + 1) : g[i] = g[j] => i = j
    BY <1>1
  <1> QED BY <1>2, <1>3, Zenon DEF AtLeast

-----------------------------------------------------------------------------
(* What a step does to a worker *)

Worker(phase, max, rate, until, orphan) ==
  [phase |-> phase, max |-> max, rate |-> rate, until |-> until, orphan |-> orphan]

\* The fields of the record a worker moves to.
LEMMA WorkerFields ==
  ASSUME NEW phase, NEW max, NEW rate, NEW until, NEW orphan
  PROVE  LET r == Worker(phase, max, rate, until, orphan) IN
         /\ r.phase = phase /\ r.max = max /\ r.rate = rate /\ r.until = until
         /\ r.orphan = orphan
  BY DEF Worker

Moves(w, r) ==
  /\ wk' \in [Workers -> WorkerType] /\ wk'[w] = r
  /\ \A v \in Workers \ {w} : wk'[v] = wk[v]

\* The ways the handlers write a worker's record, each as a move of that worker.
LEMMA WorkerMoves ==
  ASSUME TypeOK, NEW w \in Workers, NEW r \in WorkerType, wk' = [wk EXCEPT ![w] = r]
  PROVE  Moves(w, r)
  BY DEF TypeOK, WorkerType, Moves

LEMMA ToMoves ==
  ASSUME TypeOK, NEW w \in Workers, NEW phase \in WorkerPhases, To(w, phase)
  PROVE  Moves(w, Worker(phase, wk[w].max, wk[w].rate, wk[w].until, wk[w].orphan))
  BY DEF TypeOK, WorkerType, Moves, To, Worker

\* Acquire's first read: the saved band, or the seed's.
LEMMA ReadBandMoves ==
  ASSUME TypeOK, NEW w \in Workers, NEW ok \in BOOLEAN, ReadBand(w, ok)
  PROVE  \E max \in Nat :
           /\ Moves(w, Worker("rate", max, wk[w].rate, wk[w].until, wk[w].orphan))
           /\ max = IF ok /\ saved.max # Missing THEN saved.max ELSE SeedMax
  <1> DEFINE max == IF ok /\ saved.max # Missing THEN saved.max ELSE SeedMax
  <1>1. max \in Nat
    BY PacerAssumption DEF TypeOK
  <1>2. wk' = [wk EXCEPT ![w].phase = "rate", ![w].max = max]
    BY Zenon DEF ReadBand
  <1> HIDE DEF max
  <1>3. Moves(w, Worker("rate", max, wk[w].rate, wk[w].until, wk[w].orphan))
    BY <1>1, <1>2, ZenonT(30) DEF TypeOK, WorkerType, Moves, Worker, WorkerPhases
  <1> QED BY <1>1, <1>3 DEF max

\* Acquire's second read: the saved rate within the band, or the seed's.
LEMMA ReadRateMoves ==
  ASSUME TypeOK, NEW w \in Workers, NEW ok \in BOOLEAN, ReadRate(w, ok)
  PROVE  \E rate \in Nat :
           /\ Moves(w, Worker("insert", wk[w].max, rate, wk[w].until, wk[w].orphan))
           /\ rate = StartRate(wk[w].max, ok)
  <1> DEFINE rate == StartRate(wk[w].max, ok)
  <1>1. rate \in Nat
    BY PacerAssumption DEF TypeOK, StartRate, Largest
  <1>2. wk' = [wk EXCEPT ![w].phase = "insert", ![w].rate = rate]
    BY Zenon DEF ReadRate
  <1> HIDE DEF rate
  <1>3. Moves(w, Worker("insert", wk[w].max, rate, wk[w].until, wk[w].orphan))
    BY <1>1, <1>2, ZenonT(30) DEF TypeOK, WorkerType, Moves, Worker, WorkerPhases
  <1> QED BY <1>1, <1>3 DEF rate

-----------------------------------------------------------------------------
(* What a step has to show *)

\* The types of the state, one variable and one field at a time.
LEMMA EnvTypes ==
  ASSUME TypeOK
  PROVE  /\ env.workers \subseteq Workers /\ env.faults \in BOOLEAN
         /\ env.restarts \in BOOLEAN
  BY PacerAssumption DEF TypeOK

LEMMA EntryFields ==
  \A e \in EntryType : /\ e.max \in Nat /\ e.rate \in Nat /\ e.conc \in Nat
                        /\ e.until \in Times /\ e.until \in Int /\ e.atCeiling \in Nat
  BY DEF EntryType, Times, Never

LEMMA WorkerTypes ==
  ASSUME TypeOK, NEW w \in Workers
  PROVE  /\ NodeOf[w] \in Nodes /\ mem[NodeOf[w]] \in EntryType /\ wk[w] \in WorkerType
         /\ wk[w].orphan \in EntryType /\ stood[NodeOf[w]] \in Nat /\ wk[w].until \in Times
  BY PacerAssumption DEF TypeOK, WorkerType

\* Alone, the worker that moves is the only one.
LEMMA OnlyWorker ==
  ASSUME Alone, NEW w \in env.workers
  PROVE  env.workers = {w}
  BY Zenon DEF Alone

LEMMA AloneStep ==
  ASSUME TypeOK, UNCHANGED env, NEW w \in env.workers,
         Alone /\ ~env.faults => OnlyInv(w)'
  PROVE  AloneInv'
  BY OnlyWorker, Zenon DEF AloneInv, Alone

\* A worker that stays on one side of saving leaves every node's count alone.
LEMMA SavingMove ==
  ASSUME NEW w \in env.workers, NEW r, Moves(w, r), UNCHANGED env, env.workers \subseteq Workers,
         wk[w].phase \in Unsaved <=> r.phase \in Unsaved
  PROVE  \A n \in Nodes : Saving(n)' = Saving(n)
  BY DEF Saving, Moves

\* A worker that carries a band and a rate of its entry keeps BandInv.
LEMMA BandMove ==
  ASSUME BandInv, NEW w \in Workers, NEW r, Moves(w, r), Carried(r), UNCHANGED <<env, op>>,
         saved' \in [rate : Nat, pause : Times, max : Nat, prop : Nat], SavedInv',
         mem' \in [Nodes -> EntryType], MemInv',
         earned' \in Nat, stood' \in [Nodes -> Nat]
  PROVE  BandInv'
  <1>1. TypeOK'
    BY DEF BandInv, TypeOK, Moves, WorkerType
  <1>2. CarryInv'
    BY Zenon DEF BandInv, CarryInv, Moves
  <1> QED BY <1>1, <1>2 DEF BandInv

\* A worker's step that leaves the entries alone.
LEMMA SaveMove ==
  ASSUME IInv, NEW w \in env.workers, NEW r, Moves(w, r), Carried(r),
         UNCHANGED <<env, mem, op, earned>>,
         saved' \in [rate : Nat, pause : Times, max : Nat, prop : Nat], SavedInv',
         stood' \in [Nodes -> Nat],
         Earning => /\ saved'.rate <= earned
                    /\ r.phase \in {"insert", "propose", "saverate"} => r.rate <= earned,
         Earning /\ saved'.rate = Missing =>
           /\ saved.rate = Missing /\ saved'.max = saved.max /\ saved'.prop = saved.prop
           /\ wk[w].phase \notin Unsaved /\ r.phase \notin Unsaved
           /\ r.phase = "rate" => r.max = SeedMax,
         Alone /\ ~env.faults => OnlyInv(w)'
  PROVE  IInv'
  <1>1. TypeOK /\ w \in Workers /\ env.workers \subseteq Workers
    BY EnvTypes DEF IInv, BandInv
  <1>2. MemInv'
    BY Zenon DEF IInv, BandInv, MemInv, Tracked
  <1>3. BandInv'
    BY <1>1, <1>2, BandMove DEF IInv, TypeOK
  <1>4. EarnInv'
    <2> SUFFICES ASSUME Earning PROVE RatesEarned' /\ (saved'.rate = Missing => NothingSaved')
      BY Zenon DEF EarnInv, Earning, SavedFirst
    <2>1. RatesEarned'
      BY Zenon DEF IInv, EarnInv, RatesEarned, Moves
    <2>2. ASSUME saved'.rate = Missing PROVE NothingSaved'
      <3>1. \A n \in Nodes : Saving(n)' = Saving(n)
        BY <1>1, <2>2, SavingMove
      <3> QED BY <2>2, <3>1, Zenon DEF IInv, EarnInv, NothingSaved, Moves, Unsaved
    <2> QED BY <2>1, <2>2
  <1>5. AloneInv'
    BY <1>1, AloneStep
  <1> QED BY <1>3, <1>4, <1>5 DEF IInv

\* A worker's step that leaves the entries and Redis alone.
LEMMA QuietMove ==
  ASSUME IInv, NEW w \in env.workers, NEW r, Moves(w, r), Carried(r),
         UNCHANGED <<env, mem, saved, op, earned, stood>>,
         wk[w].phase \notin Unsaved, r.phase \notin Unsaved,
         Earning /\ r.phase = "insert" => r.rate <= earned,
         Earning /\ r.phase = "rate" /\ saved.rate = Missing => r.max = SeedMax,
         Alone /\ ~env.faults => OnlyInv(w)'
  PROVE  IInv'
  <1>1. SavedInv' /\ (Earning => saved.rate <= earned)
    BY Zenon DEF IInv, BandInv, SavedInv, EarnInv, RatesEarned
  <1>2. /\ saved \in [rate : Nat, pause : Times, max : Nat, prop : Nat]
        /\ stood \in [Nodes -> Nat]
    BY DEF IInv, BandInv, TypeOK
  <1> QED BY <1>1, <1>2, SaveMove, Zenon DEF Unsaved

\* A move between two phases that write nothing keeps what is owed to Redis.
LEMMA OnlyMove ==
  ASSUME NEW w \in Workers, OnlyInv(w), NEW r, Moves(w, r), UNCHANGED <<mem, saved, op, stood>>,
         wk[w].phase \notin Writing, r.phase \notin Writing,
         r.phase = "got" => Tracked(NodeOf[w]),
         r.orphan = wk[w].orphan \/ r.orphan = NoEntry,
         stood[NodeOf[w]] > 0 => r.phase \in Loading
  PROVE  OnlyInv(w)'
  <1>1. wk'[w] = r
    BY DEF Moves
  <1> QED BY <1>1, Zenon DEF OnlyInv, Tracked
-----------------------------------------------------------------------------
(* stateFor and Acquire *)

\* Each step of a worker keeps the invariant: the lookup of the entry.
LEMMA LookupStep ==
  ASSUME IInv, NEW w \in env.workers, Lookup(w), UNCHANGED env
  PROVE  IInv'
  <1> DEFINE phase == IF Tracked(NodeOf[w]) THEN "got" ELSE "band"
             r == Worker(phase, wk[w].max, wk[w].rate, wk[w].until, wk[w].orphan)
  <1>1. /\ wk[w].phase = "idle" /\ UNCHANGED <<mem, saved, op, earned, stood>>
        /\ To(w, phase) /\ TypeOK
    BY DEF Lookup, IInv, BandInv
  <1>2. w \in Workers /\ phase \in {"got", "band"} /\ (phase = "got" => Tracked(NodeOf[w]))
    BY <1>1, EnvTypes
  <1> HIDE DEF phase
  <1>3. Moves(w, r) /\ r.phase = phase /\ r.orphan = wk[w].orphan
    BY <1>1, <1>2, ToMoves, WorkerFields DEF WorkerPhases
  <1> HIDE DEF r
  <1>4. Alone /\ ~env.faults => OnlyInv(w)'
    BY <1>1, <1>2, <1>3, OnlyMove DEF IInv, AloneInv, Writing, Loading
  <1>5. Carried(r) /\ wk[w].phase \notin Unsaved /\ r.phase \notin Unsaved
    BY <1>1, <1>2, <1>3 DEF Carried, Unsaved
  <1> QED BY <1>1, <1>2, <1>3, <1>4, <1>5, QuietMove

\* The read of the saved band: a band that is saved was proposed.
LEMMA ReadBandStep ==
  ASSUME IInv, NEW w \in env.workers, NEW ok \in BOOLEAN, ReadBand(w, ok), UNCHANGED env
  PROVE  IInv'
  <1>1. /\ wk[w].phase = "band" /\ UNCHANGED <<mem, saved, op, earned, stood>>
        /\ TypeOK /\ w \in Workers
    BY EnvTypes DEF ReadBand, IInv, BandInv
  <1>2. PICK max \in Nat :
          /\ Moves(w, Worker("rate", max, wk[w].rate, wk[w].until, wk[w].orphan))
          /\ max = IF ok /\ saved.max # Missing THEN saved.max ELSE SeedMax
    BY <1>1, ReadBandMoves
  <1> DEFINE r == Worker("rate", max, wk[w].rate, wk[w].until, wk[w].orphan)
  <1>3. Moves(w, r) /\ r.phase = "rate" /\ r.max = max /\ r.orphan = wk[w].orphan
    BY <1>2, WorkerFields
  <1> HIDE DEF r
  <1>4. Band(max)
    BY <1>2, PacerAssumption DEF IInv, BandInv, SavedInv, Band
  <1>5. Alone /\ ~env.faults => OnlyInv(w)'
    BY <1>1, <1>3, OnlyMove DEF IInv, AloneInv, Writing, Loading
  <1>6. Carried(r) /\ wk[w].phase \notin Unsaved /\ r.phase \notin Unsaved
    BY <1>1, <1>3, <1>4 DEF Carried, Unsaved
  <1>7. Earning /\ saved.rate = Missing => r.max = SeedMax
    BY <1>2, <1>3 DEF IInv, EarnInv, NothingSaved
  <1> QED BY <1>1, <1>3, <1>5, <1>6, <1>7, QuietMove

\* A saved rate was earned; without one the band is still the seed.
LEMMA ReadRateStep ==
  ASSUME IInv, NEW w \in env.workers, NEW ok \in Outcomes, ReadRate(w, ok), UNCHANGED env
  PROVE  IInv'
  <1>1. /\ wk[w].phase = "rate" /\ UNCHANGED <<mem, saved, op, earned, stood>>
        /\ TypeOK /\ w \in Workers /\ ok \in BOOLEAN
    BY EnvTypes, Zenon DEF ReadRate, IInv, BandInv, Outcomes
  <1>2. PICK rate \in Nat :
          /\ Moves(w, Worker("insert", wk[w].max, rate, wk[w].until, wk[w].orphan))
          /\ rate = StartRate(wk[w].max, ok)
    BY <1>1, ReadRateMoves
  <1> DEFINE r == Worker("insert", wk[w].max, rate, wk[w].until, wk[w].orphan)
  <1>3. /\ Moves(w, r) /\ r.phase = "insert" /\ r.max = wk[w].max /\ r.rate = rate
        /\ r.orphan = wk[w].orphan
    BY <1>2, WorkerFields
  <1> HIDE DEF r
  <1>4. Band(wk[w].max) /\ wk[w].max \in Nat /\ saved.rate \in Nat /\ earned \in Nat
    BY <1>1 DEF IInv, BandInv, CarryInv, Carried, TypeOK
  <1>5. MinRate <= rate /\ rate <= wk[w].max
    BY <1>2, <1>4, PacerAssumption DEF StartRate, Largest, Band
  <1>6. Earning => rate <= earned
    <2> SUFFICES ASSUME Earning PROVE rate <= earned
      OBVIOUS
    <2>1. ok = TRUE /\ SeedMax <= earned /\ saved.rate <= earned
      BY DEF IInv, EarnInv, RatesEarned, Earning, Outcomes
    <2>2. saved.rate = Missing => wk[w].max = SeedMax
      BY <1>1 DEF IInv, EarnInv, NothingSaved
    <2> QED BY <1>2, <1>4, <2>1, <2>2, PacerAssumption DEF StartRate, Largest
  <1>7. Alone /\ ~env.faults => OnlyInv(w)'
    BY <1>1, <1>3, OnlyMove DEF IInv, AloneInv, Writing, Loading
  <1>8. Carried(r) /\ wk[w].phase \notin Unsaved /\ r.phase \notin Unsaved
    BY <1>1, <1>3, <1>4, <1>5 DEF Carried, Unsaved
  <1> QED BY <1>1, <1>3, <1>6, <1>7, <1>8, QuietMove

\* A worker at rest carries nothing.
LEMMA IdleMoves ==
  /\ IdleWorker \in WorkerType /\ IdleWorker.phase = "idle" /\ IdleWorker.orphan = NoEntry
  /\ Carried(IdleWorker)
  BY NoEntryType DEF IdleWorker, WorkerType, WorkerPhases, Times, Carried

\* The worker that a stand-down finds looks at an entry that says so.
LEMMA AcquireStep ==
  ASSUME IInv, NEW w \in env.workers, Acquire(w), UNCHANGED env
  PROVE  IInv'
  <1> DEFINE phase == IF Entry(w).until > 0 THEN "idle" ELSE "ask"
             r == [IdleWorker EXCEPT !.phase = phase]
  <1>1. /\ wk[w].phase = "got" /\ UNCHANGED <<mem, saved, op, earned, stood>>
        /\ wk' = [wk EXCEPT ![w] = r] /\ TypeOK /\ w \in Workers
    BY EnvTypes DEF Acquire, IInv, BandInv
  <1>2. phase \in {"idle", "ask"} /\ (Entry(w).until > 0 => phase = "idle")
    OBVIOUS
  <1> HIDE DEF phase
  <1>3. r \in WorkerType /\ r.phase = phase /\ r.orphan = NoEntry
    BY <1>2, IdleMoves DEF WorkerType, WorkerPhases
  <1> HIDE DEF r
  <1>4. Moves(w, r)
    BY <1>1, <1>3, WorkerMoves, Zenon
  <1>5. Alone /\ ~env.faults => OnlyInv(w)'
    <2> SUFFICES ASSUME Alone, ~env.faults PROVE OnlyInv(w)'
      OBVIOUS
    <2>1. OnlyInv(w)
      BY DEF IInv, AloneInv
    <2>2. ASSUME stood[NodeOf[w]] > 0 PROVE r.phase \in Loading
      <3>1. /\ NodeOf[w] \in Nodes /\ stood[NodeOf[w]] \in Nat /\ mem[NodeOf[w]].until \in Int
            /\ wk[w].orphan.until \in Int
        BY <1>1, WorkerTypes, EntryFields
      <3>2. Entry(w).until >= stood[NodeOf[w]] /\ Entry(w).until \in Int
        BY <1>1, <2>1, <2>2, <3>1, Zenon DEF OnlyInv, Entry, Tracked
      <3> QED BY <1>2, <1>3, <2>2, <3>1, <3>2 DEF Loading
    <2> QED BY <1>1, <1>2, <1>3, <1>4, <2>1, <2>2, OnlyMove DEF Writing
  <1>6. Carried(r) /\ wk[w].phase \notin Unsaved /\ r.phase \notin Unsaved
    BY <1>1, <1>2, <1>3 DEF Carried, Unsaved
  <1> QED BY <1>1, <1>2, <1>3, <1>4, <1>5, <1>6, QuietMove

\* A worker that gives up leaves what it read behind.
LEMMA GiveUpStep ==
  ASSUME IInv, NEW w \in env.workers, GiveUp(w), UNCHANGED env
  PROVE  IInv'
  <1> DEFINE r == Worker("idle", wk[w].max, wk[w].rate, wk[w].until, wk[w].orphan)
  <1>1. /\ wk[w].phase = "ask" /\ UNCHANGED <<mem, saved, op, earned, stood>>
        /\ To(w, "idle") /\ TypeOK /\ w \in Workers
    BY EnvTypes DEF GiveUp, IInv, BandInv
  <1>2. Moves(w, r) /\ r.phase = "idle" /\ r.orphan = wk[w].orphan
    BY <1>1, ToMoves, WorkerFields DEF WorkerPhases
  <1> HIDE DEF r
  <1>3. Alone /\ ~env.faults => OnlyInv(w)'
    BY <1>1, <1>2, OnlyMove DEF IInv, AloneInv, Writing, Loading
  <1>4. Carried(r) /\ wk[w].phase \notin Unsaved /\ r.phase \notin Unsaved
    BY <1>1, <1>2 DEF Carried, Unsaved
  <1> QED BY <1>1, <1>2, <1>3, <1>4, QuietMove

\* A worker that answered goes back to rest.
LEMMA DoneStep ==
  ASSUME IInv, NEW w \in env.workers, Done(w), UNCHANGED env
  PROVE  IInv'
  <1>1. /\ wk[w].phase = "answered" /\ UNCHANGED <<mem, saved, op, earned, stood>>
        /\ wk' = [wk EXCEPT ![w] = IdleWorker] /\ TypeOK /\ w \in Workers
    BY EnvTypes DEF Done, IInv, BandInv
  <1>2. Moves(w, IdleWorker)
    BY <1>1, IdleMoves, WorkerMoves, Zenon
  <1>3. Alone /\ ~env.faults => OnlyInv(w)'
    BY <1>1, <1>2, IdleMoves, OnlyMove DEF IInv, AloneInv, Writing, Loading
  <1>4. wk[w].phase \notin Unsaved /\ IdleWorker.phase \notin Unsaved
    BY <1>1, IdleMoves DEF Unsaved
  <1> QED BY <1>1, <1>2, <1>3, <1>4, IdleMoves, QuietMove

\* A new entry starts inside the band, at a rate that was earned, with the pause
\* Redis remembers.
LEMMA InsertStep ==
  ASSUME IInv, NEW w \in env.workers, NEW ok \in Outcomes, Insert(w, ok), UNCHANGED env
  PROVE  IInv'
  <1> DEFINE n == NodeOf[w]
             until == IF ok THEN saved.pause ELSE Never
             e == [max |-> wk[w].max, rate |-> wk[w].rate, conc |-> MinConc, clean |-> 0,
                   until |-> until, atCeiling |-> 0, proposed |-> FALSE]
             r == Worker("got", wk[w].max, wk[w].rate, wk[w].until, wk[w].orphan)
  <1>1. /\ wk[w].phase = "insert" /\ UNCHANGED <<saved, op, earned, stood>>
        /\ mem' = (IF Tracked(n) THEN mem ELSE [mem EXCEPT ![n] = e])
        /\ To(w, "got") /\ TypeOK /\ w \in Workers
    BY EnvTypes DEF Insert, IInv, BandInv
  <1>2. Moves(w, r) /\ r.phase = "got" /\ r.orphan = wk[w].orphan
    BY <1>1, ToMoves, WorkerFields DEF WorkerPhases
  <1>3. until \in Times /\ (~env.faults => until = saved.pause)
    BY <1>1, Zenon DEF TypeOK, Outcomes, Times
  <1>4. /\ wk[w].max \in Nat /\ wk[w].rate \in Nat /\ Band(wk[w].max)
        /\ MinRate <= wk[w].rate /\ wk[w].rate <= wk[w].max
    BY <1>1 DEF IInv, BandInv, CarryInv, Carried, TypeOK
  <1> HIDE DEF until
  <1>5. /\ e \in EntryType /\ Sound(e) /\ e.rate = wk[w].rate /\ e.atCeiling = 0
        /\ e.until = until
    BY <1>3, <1>4, PacerAssumption DEF EntryType, Sound
  <1>6. e # NoEntry /\ n \in Nodes
    BY <1>1, <1>5, SoundTracked, WorkerTypes, Zenon
  <1> HIDE DEF e, r, n
  <1>7. /\ mem' \in [Nodes -> EntryType] /\ \A m \in Nodes \ {n} : mem'[m] = mem[m]
        /\ mem'[n] = IF Tracked(n) THEN mem[n] ELSE e
    BY <1>1, <1>5, <1>6 DEF TypeOK
  <1>8. MemInv'
    BY <1>5, <1>7, Zenon DEF IInv, BandInv, MemInv, Tracked
  <1>9. SavedInv'
    BY <1>1, Zenon DEF IInv, BandInv, SavedInv
  <1>10. Carried(r)
    BY <1>2 DEF Carried
  <1>11. BandInv'
    BY <1>1, <1>2, <1>7, <1>8, <1>9, <1>10, BandMove DEF IInv, TypeOK
  <1>12. EarnInv'
    <2>1. \A m \in Nodes : Saving(m)' = Saving(m)
      BY <1>1, <1>2, EnvTypes, SavingMove DEF Unsaved
    <2> SUFFICES ASSUME Earning PROVE RatesEarned' /\ (saved.rate = Missing => NothingSaved')
      BY <1>1, Zenon DEF EarnInv, Earning, SavedFirst
    <2>2. RatesEarned /\ wk[w].rate <= earned /\ (saved.rate = Missing => NothingSaved)
      BY <1>1, Zenon DEF IInv, EarnInv, RatesEarned
    <2>3. RatesEarned'
      BY <1>1, <1>2, <1>5, <1>7, <2>2 DEF RatesEarned, Moves
    <2>5. ASSUME saved.rate = Missing, NEW m \in Nodes
          PROVE  AtLeast(Saving(m)', mem'[m].atCeiling)
      BY <1>5, <1>7, <2>1, <2>2, <2>5, AtLeastNone, Zenon DEF NothingSaved
    <2>6. saved.rate = Missing => NothingSaved'
      BY <1>1, <1>2, <2>2, <2>5, Zenon DEF NothingSaved, Moves
    <2> QED BY <2>3, <2>6
  <1>13. Alone /\ ~env.faults => OnlyInv(w)'
    <2> SUFFICES ASSUME Alone, ~env.faults PROVE OnlyInv(w)'
      OBVIOUS
    <2>1. OnlyInv(w) /\ wk'[w] = r
      BY <1>2 DEF IInv, AloneInv, Moves
    <2>2. /\ \A m \in Nodes \ {n} : mem'[m] = NoEntry
          /\ mem'[n] # NoEntry
          /\ mem'[n].until = mem[n].until \/ mem'[n].until = saved.pause
      BY <1>3, <1>5, <1>6, <1>7, <2>1, Zenon DEF OnlyInv, Tracked, n
    <2>3. /\ mem'[n].until > 0 => saved.pause >= mem'[n].until
          /\ stood[n] > 0 => saved.pause >= stood[n] /\ mem'[n].until >= stood[n]
      <3>1. saved.pause \in Int
        BY <1>1 DEF TypeOK, Times, Never
      <3>2. CASE Tracked(n)
        BY <1>1, <1>7, <2>1, <3>2 DEF OnlyInv, Writing, n
      <3>3. CASE ~Tracked(n)
        BY <1>3, <1>5, <1>7, <2>1, <3>1, <3>3 DEF OnlyInv, n
      <3> QED BY <3>2, <3>3
    <2>4. r.phase = "got" /\ r.phase \in Loading /\ r.phase \notin Writing
      BY <1>2 DEF Loading, Writing
    <2> QED BY <1>1, <1>2, <2>1, <2>2, <2>3, <2>4, Zenon DEF OnlyInv, Tracked, n
  <1>14. AloneInv'
    BY <1>1, <1>13, AloneStep
  <1> QED BY <1>11, <1>12, <1>14 DEF IInv

-----------------------------------------------------------------------------
(* persist and PauseKey *)

\* A proposal goes up, and not past the ceiling.
LEMMA ProposeStep ==
  ASSUME IInv, NEW w \in env.workers, NEW ok, Propose(w, ok), UNCHANGED env
  PROVE  IInv'
  <1> DEFINE max == NextMax(wk[w].max)
             r == Worker("saverate", wk[w].max, wk[w].rate, wk[w].until, wk[w].orphan)
  <1>1. /\ wk[w].phase = "propose" /\ UNCHANGED <<mem, op, earned, stood>>
        /\ saved' = (IF ok /\ max > wk[w].max THEN [saved EXCEPT !.prop = max] ELSE saved)
        /\ To(w, "saverate") /\ TypeOK /\ w \in Workers
    BY EnvTypes, Zenon DEF Propose, IInv, BandInv
  <1>2. /\ Moves(w, r) /\ r.phase = "saverate" /\ r.orphan = wk[w].orphan
        /\ r.rate = wk[w].rate /\ r.until = wk[w].until
    BY <1>1, ToMoves, WorkerFields DEF WorkerPhases
  <1> HIDE DEF r
  <1>3. /\ wk[w].max \in Nat /\ Band(wk[w].max) /\ MinRate <= wk[w].rate /\ stood \in [Nodes -> Nat]
        /\ saved \in [rate : Nat, pause : Times, max : Nat, prop : Nat]
    BY <1>1 DEF IInv, BandInv, CarryInv, Carried, TypeOK
  <1>4. max > wk[w].max => max \in Nat /\ Band(max)
    BY <1>3, NextMaxBand
  <1> HIDE DEF max
  <1>5. /\ saved' \in [rate : Nat, pause : Times, max : Nat, prop : Nat]
        /\ saved'.rate = saved.rate /\ saved'.max = saved.max /\ saved'.pause = saved.pause
        /\ saved'.prop = saved.prop \/ Band(saved'.prop)
    BY <1>1, <1>3, <1>4
  <1>6. SavedInv' /\ Carried(r)
    BY <1>1, <1>2, <1>3, <1>5, Zenon DEF IInv, BandInv, SavedInv, Carried
  <1>7. Earning => wk[w].rate <= earned /\ saved.rate <= earned /\ saved.rate # Missing
    BY <1>1, Zenon DEF IInv, EarnInv, RatesEarned, NothingSaved
  <1>8. ASSUME OnlyInv(w) PROVE OnlyInv(w)'
    BY <1>1, <1>2, <1>5, <1>8, Zenon DEF OnlyInv, Writing, Loading, Moves, Tracked
  <1>9. Alone /\ ~env.faults => OnlyInv(w)'
    BY <1>8 DEF IInv, AloneInv
  <1> QED BY <1>1, <1>2, <1>3, <1>5, <1>6, <1>7, <1>9, SaveMove, Zenon

\* The first rate saved ends the time in which nothing is proposed.
LEMMA SaveRateStep ==
  ASSUME IInv, NEW w \in env.workers, NEW ok \in Outcomes, SaveRate(w, ok), UNCHANGED env
  PROVE  IInv'
  <1> DEFINE r == Worker("savepause", wk[w].max, wk[w].rate, wk[w].until, wk[w].orphan)
  <1>1. /\ wk[w].phase = "saverate" /\ UNCHANGED <<mem, op, earned, stood>>
        /\ saved' = (IF ok THEN [saved EXCEPT !.rate = wk[w].rate] ELSE saved)
        /\ To(w, "savepause") /\ TypeOK /\ w \in Workers
    BY EnvTypes, Zenon DEF SaveRate, IInv, BandInv
  <1>2. /\ Moves(w, r) /\ r.phase = "savepause" /\ r.orphan = wk[w].orphan
        /\ r.until = wk[w].until
    BY <1>1, ToMoves, WorkerFields DEF WorkerPhases
  <1> HIDE DEF r
  <1>3. /\ wk[w].rate \in Nat /\ MinRate <= wk[w].rate /\ stood \in [Nodes -> Nat]
        /\ saved \in [rate : Nat, pause : Times, max : Nat, prop : Nat]
    BY <1>1 DEF IInv, BandInv, CarryInv, Carried, TypeOK
  <1>4. /\ saved' \in [rate : Nat, pause : Times, max : Nat, prop : Nat]
        /\ saved'.max = saved.max /\ saved'.prop = saved.prop /\ saved'.pause = saved.pause
        /\ saved'.rate = IF ok THEN wk[w].rate ELSE saved.rate
    BY <1>1, <1>3
  <1>5. SavedInv' /\ Carried(r)
    BY <1>1, <1>2, <1>4, Zenon DEF IInv, BandInv, SavedInv, Carried
  <1>6. Earning => ok = TRUE /\ wk[w].rate <= earned
    BY <1>1, Zenon DEF IInv, EarnInv, RatesEarned, Earning, Outcomes
  <1>7. wk[w].rate # Missing
    BY <1>3, PacerAssumption DEF Missing
  <1>8. ASSUME OnlyInv(w) PROVE OnlyInv(w)'
    BY <1>1, <1>2, <1>4, <1>8, Zenon DEF OnlyInv, Writing, Loading, Moves, Tracked
  <1>9. Alone /\ ~env.faults => OnlyInv(w)'
    BY <1>8 DEF IInv, AloneInv
  <1> QED BY <1>1, <1>2, <1>3, <1>4, <1>5, <1>6, <1>7, <1>9, SaveMove, Zenon

\* A step that writes a pause, and nothing else, to Redis.
LEMMA PauseMove ==
  ASSUME IInv, NEW w \in env.workers, NEW r, Moves(w, r), Carried(r), NEW t \in Times,
         UNCHANGED <<env, mem, op, earned>>, stood' \in [Nodes -> Nat],
         saved' = saved \/ saved' = [saved EXCEPT !.pause = t],
         wk[w].phase \in {"savepause", "stand"}, r.phase \in {"answered", "idle"},
         Alone /\ ~env.faults => OnlyInv(w)'
  PROVE  IInv'
  <1>1. saved \in [rate : Nat, pause : Times, max : Nat, prop : Nat]
    BY DEF IInv, BandInv, TypeOK
  <1>2. /\ saved' \in [rate : Nat, pause : Times, max : Nat, prop : Nat]
        /\ saved'.max = saved.max /\ saved'.prop = saved.prop /\ saved'.rate = saved.rate
    BY <1>1
  <1>3. SavedInv' /\ (Earning => saved.rate <= earned)
    BY <1>2, Zenon DEF IInv, BandInv, SavedInv, EarnInv, RatesEarned
  <1>4. /\ r.phase \notin {"insert", "propose", "saverate", "rate"} /\ r.phase \notin Unsaved
        /\ wk[w].phase \notin Unsaved
    BY DEF Unsaved
  <1> QED BY <1>2, <1>3, <1>4, SaveMove, Zenon

\* The pause reaches Redis: what memory holds is saved again.
LEMMA SavePauseStep ==
  ASSUME IInv, NEW w \in env.workers, NEW ok \in Outcomes, SavePause(w, ok), UNCHANGED env
  PROVE  IInv'
  <1> DEFINE r == Worker("answered", wk[w].max, wk[w].rate, wk[w].until, wk[w].orphan)
             n == NodeOf[w]
  <1>1. /\ wk[w].phase = "savepause" /\ UNCHANGED <<mem, op, earned, stood>>
        /\ saved' = (IF ok /\ wk[w].until # Never
                        THEN [saved EXCEPT !.pause = wk[w].until] ELSE saved)
        /\ To(w, "answered") /\ TypeOK /\ w \in Workers
    BY EnvTypes, Zenon DEF SavePause, IInv, BandInv
  <1>2. /\ Moves(w, r) /\ r.phase = "answered" /\ r.orphan = wk[w].orphan
    BY <1>1, ToMoves, WorkerFields DEF WorkerPhases
  <1> HIDE DEF r
  <1>3. Carried(r)
    BY <1>2 DEF Carried
  <1>4. ASSUME Alone, ~env.faults PROVE OnlyInv(w)'
    <2>1. OnlyInv(w) /\ wk'[w] = r /\ ok = TRUE
      BY <1>2, <1>4, Zenon DEF IInv, AloneInv, Moves, Outcomes
    <2>2. mem[n].until > 0 => saved'.pause = mem[n].until
      <3>1. saved \in [rate : Nat, pause : Times, max : Nat, prop : Nat]
        BY <1>1 DEF TypeOK
      <3> QED BY <1>1, <2>1, <3>1, NoEntryType DEF OnlyInv, Writing, Tracked, Never
    <2>3. mem[n].until \in Int
      BY <1>1, WorkerTypes, EntryFields
    <2>4. mem[n].until > 0 => saved'.pause >= mem[n].until
      BY <2>2, <2>3
    <2>5. r.phase \notin Writing /\ wk[w].phase \notin Loading
      BY <1>1, <1>2 DEF Writing, Loading
    <2> QED BY <1>1, <1>2, <2>1, <2>4, <2>5, Zenon DEF OnlyInv, Tracked
  <1>5. wk[w].until \in Times /\ stood \in [Nodes -> Nat]
    BY <1>1, WorkerTypes DEF TypeOK
  <1> QED BY <1>1, <1>2, <1>3, <1>4, <1>5, PauseMove, Zenon

\* The stand-down is now in Redis, as it was in memory.
LEMMA StandRedisStep ==
  ASSUME IInv, NEW w \in env.workers, NEW ok \in Outcomes, StandRedis(w, ok), UNCHANGED env
  PROVE  IInv'
  <1> DEFINE n == NodeOf[w]
             t == wk[w].until
  <1>1. /\ wk[w].phase = "stand" /\ UNCHANGED <<mem, op, earned>>
        /\ saved' = (IF ok THEN [saved EXCEPT !.pause = t] ELSE saved)
        /\ stood' = (IF ok THEN [stood EXCEPT ![n] = t] ELSE stood)
        /\ wk' = [wk EXCEPT ![w] = IdleWorker] /\ TypeOK /\ w \in Workers
    BY EnvTypes, Zenon DEF StandRedis, IInv, BandInv
  <1>2. Moves(w, IdleWorker)
    BY <1>1, IdleMoves, WorkerMoves, Zenon
  <1>3. t \in Nat /\ t \in Times /\ n \in Nodes
    BY <1>1, WorkerTypes DEF IInv, BandInv, CarryInv, Carried
  <1> HIDE DEF t, n
  <1>4. /\ stood' \in [Nodes -> Nat] /\ stood'[n] = (IF ok THEN t ELSE stood[n])
        /\ \A m \in Nodes \ {n} : stood'[m] = stood[m]
    BY <1>1, <1>3 DEF TypeOK
  <1>5. ASSUME Alone, ~env.faults PROVE OnlyInv(w)'
    <2>1. OnlyInv(w) /\ wk'[w] = IdleWorker /\ ok = TRUE
      BY <1>2, <1>5, Zenon DEF IInv, AloneInv, Moves, Outcomes
    <2>2. saved'.pause = t
      BY <1>1, <2>1 DEF TypeOK
    <2>3. mem[n].until > 0 => Tracked(n)
      BY NoEntryType DEF Tracked, Never
    <2>4. Tracked(n) => mem[n].until = t
      BY <1>1, <2>1 DEF OnlyInv, Writing, n, t
    <2>5. IdleWorker.phase = "idle" /\ IdleWorker.phase \notin Writing /\ IdleWorker.phase \in Loading
      BY IdleMoves DEF Writing, Loading
    <2>6. t >= t
      BY <1>3
    <2> QED BY <1>1, <1>4, <2>1, <2>2, <2>3, <2>4, <2>5, <2>6, IdleMoves, ZenonT(30) DEF OnlyInv, Tracked, n
  <1> QED BY <1>1, <1>2, <1>3, <1>4, <1>5, IdleMoves, PauseMove, Zenon

\* A step that sets one entry: of the worker's node, and inside its band.
LEMMA EntryMove ==
  ASSUME IInv, NEW w \in env.workers, NEW r, Moves(w, r), Carried(r), NEW n \in Nodes,
         NEW e \in EntryType, Sound(e), mem' = [mem EXCEPT ![n] = e],
         UNCHANGED <<env, saved, op, stood>>, earned' \in Nat, EarnInv',
         Alone /\ ~env.faults => OnlyInv(w)'
  PROVE  IInv'
  <1>1. TypeOK /\ w \in Workers
    BY EnvTypes DEF IInv, BandInv
  <1>2. /\ mem' \in [Nodes -> EntryType] /\ mem'[n] = e
        /\ \A m \in Nodes \ {n} : mem'[m] = mem[m]
    BY <1>1 DEF TypeOK
  <1>3. MemInv' /\ SavedInv'
    BY <1>2, Zenon DEF IInv, BandInv, MemInv, SavedInv, Tracked
  <1>4. BandInv'
    BY <1>1, <1>2, <1>3, BandMove DEF IInv, TypeOK
  <1>5. AloneInv'
    BY <1>1, AloneStep
  <1> QED BY <1>4, <1>5 DEF IInv

\* StandDown's worker carries the stand-down to Redis.
LEMMA StandMemMoves ==
  ASSUME TypeOK, NEW w \in Workers, StandMem(w)
  PROVE  Moves(w, Worker("stand", wk[w].max, wk[w].rate, StandFor, wk[w].orphan))
  <1>1. wk' = [wk EXCEPT ![w].phase = "stand", ![w].until = StandFor]
    BY Zenon DEF StandMem
  <1>2. StandFor \in Times
    BY PacerAssumption DEF Times
  <1> QED BY <1>1, <1>2, ZenonT(30) DEF TypeOK, WorkerType, Moves, Worker, WorkerPhases

\* The entry holds the stand-down that is on its way to Redis.
LEMMA StandMemStep ==
  ASSUME IInv, NEW w \in env.workers, StandMem(w), UNCHANGED env
  PROVE  IInv'
  <1> DEFINE n == NodeOf[w]
             r == Worker("stand", wk[w].max, wk[w].rate, StandFor, wk[w].orphan)
             e == [mem[n] EXCEPT !.until = StandFor]
  <1>1. /\ wk[w].phase = "answered" /\ UNCHANGED <<saved, op, earned, stood>>
        /\ mem' = (IF Tracked(n) THEN [mem EXCEPT ![n].until = StandFor] ELSE mem)
        /\ TypeOK /\ w \in Workers /\ env.workers \subseteq Workers
    BY EnvTypes, Zenon DEF StandMem, IInv, BandInv
  <1>2. /\ Moves(w, r) /\ r.phase = "stand" /\ r.until = StandFor /\ r.orphan = wk[w].orphan
    BY <1>1, StandMemMoves, WorkerFields
  <1> HIDE DEF r
  <1>3. /\ Carried(r) /\ r.phase \notin Unsaved /\ wk[w].phase \notin Unsaved
        /\ StandFor \in Times /\ n \in Nodes /\ mem[n] \in EntryType
        /\ r.phase \in Writing /\ wk[w].phase \notin Loading
    BY <1>1, <1>2, WorkerTypes, PacerAssumption
    DEF Carried, Unsaved, Times, Writing, Loading
  <1>4. CASE ~Tracked(n)
    <2>1. ASSUME OnlyInv(w) PROVE OnlyInv(w)'
      BY <1>1, <1>2, <1>3, <1>4, <2>1, Zenon DEF OnlyInv, Moves, Tracked
    <2>2. Alone /\ ~env.faults => OnlyInv(w)'
      BY <2>1 DEF IInv, AloneInv
    <2> QED BY <1>1, <1>2, <1>3, <1>4, <2>2, QuietMove
  <1>5. CASE Tracked(n)
    <2>1. /\ e \in EntryType /\ e.rate = mem[n].rate /\ e.atCeiling = mem[n].atCeiling
          /\ e.until = StandFor /\ Sound(e)
      BY <1>3, <1>5, UntilEntry DEF IInv, BandInv, MemInv, Sound
    <2>2. mem' = [mem EXCEPT ![n] = e]
      BY <1>1, <1>3, <1>5, Zenon DEF TypeOK
    <2> HIDE DEF e, n
    <2>3. /\ mem'[n] = e /\ \A m \in Nodes \ {n} : mem'[m] = mem[m]
          /\ \A m \in Nodes : mem'[m].rate = mem[m].rate /\ mem'[m].atCeiling = mem[m].atCeiling
      BY <1>1, <2>1, <2>2, <1>3 DEF TypeOK
    <2>4. EarnInv'
      <3>1. \A m \in Nodes : Saving(m)' = Saving(m)
        BY <1>1, <1>2, <1>3, SavingMove
      <3>2. Earning => RatesEarned'
        BY <1>1, <1>2, <2>3, Zenon DEF IInv, EarnInv, RatesEarned, Moves
      <3>3. Earning /\ saved.rate = Missing => NothingSaved'
        BY <1>1, <1>2, <2>3, <3>1, Zenon DEF IInv, EarnInv, NothingSaved, Moves
      <3> QED BY <1>1, <3>2, <3>3, Zenon DEF EarnInv, Earning, SavedFirst
    <2>5. ASSUME OnlyInv(w) PROVE OnlyInv(w)'
      BY <1>1, <1>2, <1>3, <2>1, <2>3, <2>5, ZenonT(30) DEF OnlyInv, Moves, Tracked, n
    <2>6. Alone /\ ~env.faults => OnlyInv(w)'
      BY <2>5 DEF IInv, AloneInv
    <2>7. earned' \in Nat
      BY <1>1 DEF TypeOK
    <2> QED BY <1>1, <1>2, <1>3, <2>1, <2>2, <2>4, <2>6, <2>7, EntryMove, Zenon
  <1> QED BY <1>4, <1>5

-----------------------------------------------------------------------------
(* Observe *)

\* A worker takes the entry's values with it, out of the mutex.
LEMMA SnapshotMoves ==
  ASSUME TypeOK, NEW w \in Workers, NEW phase \in WorkerPhases, NEW e \in EntryType,
         Snapshot(w, phase, e)
  PROVE  Moves(w, Worker(phase, e.max, e.rate, e.until, wk[w].orphan))
  <1>1. Worker(phase, e.max, e.rate, e.until, wk[w].orphan) \in WorkerType
    BY WorkerTypes DEF Worker, WorkerType, EntryType
  <1> QED BY <1>1, WorkerMoves, Zenon DEF Snapshot, Worker

\* As long as no rate is saved, a node has not seen enough clean answers at the
\* ceiling: each of them has a worker still on its way to Redis.
LEMMA NoProposal ==
  ASSUME IInv, Earning, saved.rate = Missing, NEW w \in env.workers, wk[w].phase = "ask",
         mem[NodeOf[w]] \in EntryType, Sound(mem[NodeOf[w]])
  PROVE  /\ ~Proposes(mem[NodeOf[w]])
         /\ AtLeast(Saving(NodeOf[w]) \cup {w}, Clean(mem[NodeOf[w]]).atCeiling)
  <1> DEFINE n == NodeOf[w]
             all == {v \in env.workers : NodeOf[v] = n}
             k == mem[n].atCeiling
             l == Clean(mem[n]).atCeiling
  <1>1. n \in Nodes /\ w \notin Saving(n) /\ Saving(n) \cup {w} \subseteq all
    BY EnvTypes, WorkerTypes DEF IInv, BandInv, Saving, Unsaved
  <1>2. k \in Nat /\ l \in Nat /\ l <= k + 1
    BY CleanEntry, EntryFields
  <1>3. AtLeast(Saving(n), k)
    BY <1>1, Zenon DEF IInv, EarnInv, NothingSaved
  <1> HIDE DEF n, all, k, l
  <1>4. AtLeast(Saving(n) \cup {w}, k + 1)
    BY <1>1, <1>2, <1>3, AtLeastMore
  <1>5. k + 1 \in Nat
    BY <1>2
  <1>6. AtLeast(Saving(n) \cup {w}, l)
    BY <1>2, <1>4, <1>5, AtLeastFewer
  <1>7. ASSUME Proposes(mem[n]) PROVE FALSE
    <2>1. PromoteAfter \in Nat /\ PromoteAfter # 0 /\ PromoteAfter <= k + 1
      BY <1>2, <1>7, PacerAssumption DEF Proposes, l
    <2>2. AtLeast(all, PromoteAfter)
      BY <1>1, <1>4, <1>5, <2>1, AtLeastFewer
    <2> QED BY <1>1, <2>1, <2>2, Zenon DEF Earning, SavedFirst, all
  <1> QED BY <1>6, <1>7, Zenon DEF n, l

\* Observe: the entry changes under the mutex, and its values leave with the
\* worker.
LEMMA ObserveStep ==
  ASSUME IInv, NEW w \in env.workers, NEW answer \in Answers, Observe(w, answer), UNCHANGED env
  PROVE  IInv'
  <1> DEFINE n == NodeOf[w]
             e == mem[n]
             new == IF answer = "throttle" THEN Throttled(e) ELSE Clean(e)
             propose == answer # "throttle" /\ Proposes(e)
             f == [new EXCEPT !.proposed = @ \/ propose]
             phase == IF propose THEN "propose" ELSE "saverate"
  <1>1. /\ wk[w].phase = "ask" /\ UNCHANGED <<saved, op, stood>>
        /\ TypeOK /\ w \in Workers /\ env.workers \subseteq Workers
    BY EnvTypes, Zenon DEF Observe, IInv, BandInv
  <1>2. n \in Nodes /\ e \in EntryType /\ wk[w].phase \notin Loading /\ wk[w].phase \notin Unsaved
    BY <1>1, WorkerTypes DEF Loading, Unsaved
  <1>3. CASE ~Tracked(n)
    <2> DEFINE r == Worker("answered", wk[w].max, wk[w].rate, wk[w].until, wk[w].orphan)
    <2>1. To(w, "answered") /\ UNCHANGED <<mem, earned>>
      BY <1>3, Zenon DEF Observe
    <2>2. Moves(w, r) /\ r.phase = "answered" /\ r.orphan = wk[w].orphan
      BY <1>1, <2>1, ToMoves, WorkerFields DEF WorkerPhases
    <2> HIDE DEF r
    <2> HIDE DEF e, n, new, propose, f, phase
    <2>3. Carried(r) /\ r.phase \notin Unsaved /\ r.phase \notin Writing /\ wk[w].phase \notin Writing
      BY <1>1, <2>2 DEF Carried, Unsaved, Writing
    <2>4. Alone /\ ~env.faults => OnlyInv(w)'
      <3>1. OnlyInv(w) => ~(stood[NodeOf[w]] > 0)
        BY <1>2, Zenon DEF OnlyInv
      <3> QED BY <1>1, <2>1, <2>2, <2>3, <3>1, OnlyMove DEF IInv, AloneInv
    <2> QED BY <1>1, <1>2, <2>1, <2>2, <2>3, <2>4, QuietMove
  <1>4. CASE Tracked(n)
    <2> DEFINE r == Worker(phase, new.max, new.rate, new.until, wk[w].orphan)
    <2>1. /\ mem' = [mem EXCEPT ![n] = f] /\ earned' = Largest(earned, new.rate)
          /\ Snapshot(w, phase, new)
      BY <1>4, Zenon DEF Observe
    <2>2. Sound(e)
      BY <1>2, <1>4 DEF IInv, BandInv, MemInv
    <2>3. new \in EntryType /\ Sound(new)
      BY <1>2, <2>2, ThrottledEntry, CleanEntry
    <2>4. /\ Earning /\ saved.rate = Missing =>
               phase = "saverate" /\ AtLeast(Saving(n) \cup {w}, new.atCeiling)
      <3>1. CASE answer = "throttle"
        BY <1>2, <2>2, <3>1, ThrottledEntry, AtLeastNone
      <3>2. CASE answer # "throttle"
        BY <1>1, <1>2, <2>2, <3>2, NoProposal
      <3> QED BY <3>1, <3>2
    <2>5. phase \in {"propose", "saverate"} /\ phase \in WorkerPhases
      BY DEF WorkerPhases
    <2> HIDE DEF new, phase
    <2>6. /\ f \in EntryType /\ f.rate = new.rate /\ f.until = new.until /\ Sound(f)
          /\ f.atCeiling = new.atCeiling
      <3> HIDE DEF propose
      <3>1. (new.proposed \/ propose) \in BOOLEAN
        BY Zenon
      <3> QED BY <2>3, <3>1, ProposedEntry, Zenon DEF Sound
    <2> HIDE DEF f, propose
    <2>7. /\ Moves(w, r) /\ r.phase = phase /\ r.max = new.max /\ r.rate = new.rate
          /\ r.until = new.until /\ r.orphan = wk[w].orphan
      BY <1>1, <2>1, <2>3, <2>5, SnapshotMoves, WorkerFields
    <2> HIDE DEF r
    <2>8. Carried(r) /\ r.phase \in Writing /\ r.phase # "got"
      BY <2>3, <2>5, <2>7 DEF Carried, Sound, Writing
    <2> HIDE DEF e, n
    <2>9. /\ mem'[n] = f /\ \A m \in Nodes \ {n} : mem'[m] = mem[m]
      BY <1>1, <1>2, <2>1 DEF TypeOK
    <2>10. earned' \in Nat /\ earned <= earned' /\ new.rate <= earned'
      BY <1>1, <2>1, <2>3, EntryFields DEF TypeOK, Largest
    <2>11. EarnInv'
      <3> SUFFICES ASSUME Earning PROVE RatesEarned' /\ (saved.rate = Missing => NothingSaved')
        BY <1>1, Zenon DEF EarnInv, Earning, SavedFirst
      <3>1. RatesEarned /\ (saved.rate = Missing => NothingSaved)
        BY DEF IInv, EarnInv
      <3>2. RatesEarned'
        <4>1. /\ \A m \in Nodes : mem[m].rate \in Nat
              /\ \A v \in Workers : wk[v].rate \in Nat
              /\ earned \in Nat /\ saved.rate \in Nat
          BY <1>1 DEF TypeOK, EntryType
        <4> QED BY <1>1, <2>6, <2>7, <2>9, <2>10, <3>1, <4>1, PacerAssumption DEF RatesEarned, Moves
      <3>3. ASSUME saved.rate = Missing PROVE NothingSaved'
        <4>1. /\ Saving(n)' = Saving(n) \cup {w}
              /\ \A m \in Nodes \ {n} : Saving(m)' = Saving(m)
          BY <1>1, <1>2, <2>5, <2>7 DEF Saving, Unsaved, Moves, n
        <4>2. ASSUME NEW m \in Nodes PROVE AtLeast(Saving(m)', mem'[m].atCeiling)
          BY <2>4, <2>6, <2>9, <3>1, <3>3, <4>1, Zenon DEF NothingSaved
        <4>3. r.phase # "propose" /\ r.phase # "rate"
          BY <2>4, <2>7, <3>3
        <4> QED BY <1>1, <2>7, <3>1, <3>3, <4>2, <4>3, Zenon DEF NothingSaved, Moves
      <3> QED BY <3>2, <3>3
    <2>12. ASSUME OnlyInv(w) PROVE OnlyInv(w)'
      <3>1. wk'[w] = r /\ mem'[n].until = new.until /\ ~(stood[n] > 0)
        BY <1>2, <2>6, <2>7, <2>9, <2>12, Zenon DEF OnlyInv, Moves, n
      <3> QED BY <1>1, <2>7, <2>8, <2>9, <2>12, <3>1, Zenon DEF OnlyInv, Tracked, n
    <2>13. Alone /\ ~env.faults => OnlyInv(w)'
      BY <2>12 DEF IInv, AloneInv
    <2> QED BY <1>1, <1>2, <2>1, <2>6, <2>7, <2>8, <2>10, <2>11, <2>13, EntryMove, Zenon
  <1> QED BY <1>3, <1>4

-----------------------------------------------------------------------------
(* The operator, evictions, restarts and the clock *)

OpType == [phase : {"idle", "resume", "band", "clear", "drop"}, node : Nodes, max : Nat]

\* An operator at rest.
LEMMA IdleOpType == IdleOp \in OpType /\ IdleOp.phase = "idle"
  BY PacerAssumption DEF IdleOp, OpType

\* A step of somebody else than a worker: entries keep their rates.
LEMMA OtherStep ==
  ASSUME IInv, UNCHANGED <<env, earned>>, TypeOK', MemInv', SavedInv', CarryInv',
         saved'.rate = saved.rate,
         Earning =>
           /\ \A n \in Nodes : \/ mem'[n].rate = mem[n].rate /\ mem'[n].atCeiling = mem[n].atCeiling
                               \/ mem'[n] = NoEntry
           /\ \A w \in Workers : /\ wk'[w].phase = wk[w].phase /\ wk'[w].rate = wk[w].rate
                                  /\ wk'[w].max = wk[w].max,
         Earning /\ NothingSaved => /\ saved'.max = Missing /\ saved'.prop = Missing
                                    /\ op'.phase \in {"idle", "resume"},
         \A w \in env.workers : Alone /\ ~env.faults => OnlyInv(w)'
  PROVE  IInv'
  <1>1. BandInv'
    BY DEF BandInv
  <1>2. AloneInv'
    BY Zenon DEF AloneInv, Alone
  <1>3. EarnInv'
    <2> SUFFICES ASSUME Earning PROVE RatesEarned' /\ (saved.rate = Missing => NothingSaved')
      BY Zenon DEF EarnInv, Earning, SavedFirst
    <2>1. RatesEarned /\ (saved.rate = Missing => NothingSaved)
      BY DEF IInv, EarnInv
    <2>2. RatesEarned'
      <3>1. 0 <= earned
        BY DEF IInv, BandInv, TypeOK
      <3>2. NoEntry.rate <= earned
        BY <3>1, NoEntryType
      <3> QED BY <2>1, <3>2, Zenon DEF RatesEarned
    <2>3. ASSUME saved.rate = Missing PROVE NothingSaved'
      <3>1. \A n \in Nodes : Saving(n)' = Saving(n)
        BY EnvTypes, Zenon DEF IInv, BandInv, Saving
      <3>2. ASSUME NEW n \in Nodes PROVE AtLeast(Saving(n)', mem'[n].atCeiling)
        BY <2>1, <2>3, <3>1, NoEntryType, AtLeastNone, Zenon DEF NothingSaved
      <3> QED BY <2>1, <2>3, <3>2, Zenon DEF NothingSaved
    <2> QED BY <2>2, <2>3
  <1> QED BY <1>1, <1>2, <1>3 DEF IInv

\* The operator's steps on Redis alone.
LEMMA OperatorMove ==
  ASSUME IInv, UNCHANGED <<env, mem, wk, earned, stood>>, op' \in OpType,
         saved' \in [rate : Nat, pause : Times, max : Nat, prop : Nat], SavedInv',
         saved'.rate = saved.rate,
         Earning /\ NothingSaved => /\ saved'.max = Missing /\ saved'.prop = Missing
                                    /\ op'.phase \in {"idle", "resume"},
         op.phase # "resume" => op'.phase # "resume" /\ saved'.pause = saved.pause
  PROVE  IInv'
  <1>1. TypeOK'
    BY DEF IInv, BandInv, TypeOK, OpType
  <1>2. MemInv' /\ CarryInv'
    BY Zenon DEF IInv, BandInv, MemInv, CarryInv, Tracked
  <1>3. ASSUME NEW w \in env.workers, Alone, ~env.faults PROVE OnlyInv(w)'
    <2>1. OnlyInv(w)
      BY <1>3 DEF IInv, AloneInv
    <2> QED BY <2>1, Zenon DEF OnlyInv, Tracked
  <1> QED BY <1>1, <1>2, <1>3, OtherStep, Zenon

\* What an operator's step may rely on.
LEMMA OperateTypes ==
  ASSUME IInv
  PROVE  /\ saved \in [rate : Nat, pause : Times, max : Nat, prop : Nat] /\ op \in OpType
         /\ SavedInv
  BY DEF IInv, BandInv, TypeOK, OpType

\* Resume's delete of the saved pause: it crosses whatever is on its way.
LEMMA ResumeRedisStep ==
  ASSUME IInv, NEW ok, ResumeRedis(ok), UNCHANGED env
  PROVE  IInv'
  <1>1. /\ op.phase = "resume" /\ UNCHANGED <<mem, wk, earned, stood>> /\ op' = IdleOp
        /\ saved' = IF ok THEN [saved EXCEPT !.pause = 0] ELSE saved
    BY Zenon DEF ResumeRedis
  <1>2. /\ saved' \in [rate : Nat, pause : Times, max : Nat, prop : Nat]
        /\ saved'.rate = saved.rate /\ saved'.max = saved.max /\ saved'.prop = saved.prop
    BY <1>1, OperateTypes DEF Times
  <1>3. SavedInv'
    BY <1>1, <1>2, OperateTypes, IdleOpType DEF SavedInv
  <1> QED BY <1>1, <1>2, <1>3, IdleOpType, OperatorMove DEF NothingSaved

\* Promote reads a proposal, and carries it.
LEMMA PromoteReadStep ==
  ASSUME IInv, NEW n \in Nodes, PromoteRead(n), UNCHANGED env
  PROVE  IInv'
  <1>1. /\ op.phase = "idle" /\ UNCHANGED <<mem, saved, wk, earned, stood>>
        /\ saved.prop # Missing /\ op' = [phase |-> "band", node |-> n, max |-> saved.prop]
    BY Zenon DEF PromoteRead
  <1>2. op' \in OpType /\ op'.phase = "band" /\ op'.max = saved.prop
    BY <1>1, OperateTypes DEF OpType
  <1>3. SavedInv'
    BY <1>1, <1>2, OperateTypes DEF SavedInv
  <1> QED BY <1>1, <1>2, <1>3, OperateTypes, OperatorMove DEF NothingSaved

\* Promote saves the band it read.
LEMMA PromoteBandStep ==
  ASSUME IInv, NEW ok, PromoteBand(ok), UNCHANGED env
  PROVE  IInv'
  <1>1. /\ op.phase = "band" /\ UNCHANGED <<mem, wk, earned, stood>>
        /\ saved' = (IF ok THEN [saved EXCEPT !.max = op.max] ELSE saved)
        /\ op' = IF ok THEN [op EXCEPT !.phase = "clear"] ELSE IdleOp
    BY Zenon DEF PromoteBand
  <1>2. op' \in OpType /\ op'.phase \in {"clear", "idle"}
    BY <1>1, OperateTypes, IdleOpType DEF OpType
  <1>3. /\ saved' \in [rate : Nat, pause : Times, max : Nat, prop : Nat]
        /\ saved'.rate = saved.rate /\ saved'.pause = saved.pause /\ saved'.prop = saved.prop
        /\ saved'.max \in {saved.max, op.max}
    BY <1>1, OperateTypes DEF OpType
  <1>4. SavedInv'
    BY <1>1, <1>2, <1>3, OperateTypes DEF SavedInv
  <1> QED BY <1>1, <1>2, <1>3, <1>4, OperatorMove DEF NothingSaved

\* Promote deletes the proposal.
LEMMA PromoteClearStep ==
  ASSUME IInv, NEW ok, PromoteClear(ok), UNCHANGED env
  PROVE  IInv'
  <1>1. /\ op.phase = "clear" /\ UNCHANGED <<mem, wk, earned, stood>>
        /\ saved' = (IF ok THEN [saved EXCEPT !.prop = Missing] ELSE saved)
        /\ op' = IF ok THEN [op EXCEPT !.phase = "drop"] ELSE IdleOp
    BY Zenon DEF PromoteClear
  <1>2. op' \in OpType /\ op'.phase \in {"drop", "idle"}
    BY <1>1, OperateTypes, IdleOpType DEF OpType
  <1>3. /\ saved' \in [rate : Nat, pause : Times, max : Nat, prop : Nat]
        /\ saved'.rate = saved.rate /\ saved'.pause = saved.pause /\ saved'.max = saved.max
        /\ saved'.prop \in {saved.prop, Missing}
    BY <1>1, OperateTypes DEF Missing
  <1>4. SavedInv'
    BY <1>1, <1>2, <1>3, OperateTypes DEF SavedInv
  <1> QED BY <1>1, <1>2, <1>3, <1>4, OperatorMove DEF NothingSaved

\* A pause is lifted in memory first; nobody is alone with an operator who resumes.
LEMMA ResumeMemStep ==
  ASSUME IInv, NEW n \in Nodes, ResumeMem(n), UNCHANGED env
  PROVE  IInv'
  <1> DEFINE e == [mem[n] EXCEPT !.until = Never]
  <1>1. /\ "resume" \in env.operator /\ UNCHANGED <<saved, wk, earned>>
        /\ mem' = (IF Tracked(n) THEN [mem EXCEPT ![n].until = Never] ELSE mem)
        /\ stood' = [m \in Nodes |-> 0] /\ op' = [op EXCEPT !.phase = "resume", !.node = n]
    BY Zenon DEF ResumeMem
  <1>2. op' \in OpType /\ op'.phase = "resume"
    BY <1>1, OperateTypes, Zenon DEF OpType
  <1>3. mem \in [Nodes -> EntryType] /\ mem[n] \in EntryType /\ Never \in Times
    BY DEF IInv, BandInv, TypeOK, Times
  <1>4. /\ e \in EntryType /\ e.rate = mem[n].rate /\ e.atCeiling = mem[n].atCeiling
        /\ Sound(mem[n]) => Sound(e)
    BY <1>3, UntilEntry DEF Sound
  <1>5. mem' = IF Tracked(n) THEN [mem EXCEPT ![n] = e] ELSE mem
    BY <1>1, Zenon
  <1> HIDE DEF e
  <1>6. /\ mem' \in [Nodes -> EntryType] /\ \A m \in Nodes \ {n} : mem'[m] = mem[m]
        /\ mem'[n] = IF Tracked(n) THEN e ELSE mem[n]
    BY <1>3, <1>4, <1>5
  <1>7. TypeOK'
    BY <1>1, <1>2, <1>6 DEF IInv, BandInv, TypeOK, OpType
  <1>8. MemInv'
    BY <1>4, <1>6, Zenon DEF IInv, BandInv, MemInv, Tracked
  <1>9. SavedInv' /\ CarryInv'
    BY <1>1, <1>2, Zenon DEF IInv, BandInv, SavedInv, CarryInv
  <1>10. \A m \in Nodes : mem'[m].rate = mem[m].rate /\ mem'[m].atCeiling = mem[m].atCeiling
    BY <1>4, <1>6, Zenon
  <1> QED BY <1>1, <1>2, <1>7, <1>8, <1>9, <1>10, OtherStep, Zenon DEF Alone, NothingSaved

\* An entry goes; the workers of its node keep what they carry, or start over.
LEMMA ForgetStep ==
  ASSUME IInv, NEW n \in Nodes, UNCHANGED <<env, saved, earned, stood>>,
         mem' = [mem EXCEPT ![n] = NoEntry], wk' \in [Workers -> WorkerType],
         \A w \in Workers : wk'[w] = IdleWorker \/
           /\ wk'[w].phase = wk[w].phase /\ wk'[w].rate = wk[w].rate
           /\ wk'[w].max = wk[w].max /\ wk'[w].until = wk[w].until,
         Earning => \A w \in Workers :
           /\ wk'[w].phase = wk[w].phase /\ wk'[w].rate = wk[w].rate /\ wk'[w].max = wk[w].max,
         op' = op \/ op' = IdleOp,
         \A w \in env.workers : Alone /\ ~env.faults => OnlyInv(w)'
  PROVE  IInv'
  <1>1. /\ mem' \in [Nodes -> EntryType] /\ mem'[n] = NoEntry
        /\ \A m \in Nodes \ {n} : mem'[m] = mem[m]
    BY NoEntryType, Zenon DEF IInv, BandInv, TypeOK
  <1>2. op' \in OpType /\ (op'.phase = "idle" \/ op' = op)
    BY OperateTypes, IdleOpType
  <1>3. TypeOK'
    BY <1>1, <1>2 DEF IInv, BandInv, TypeOK, OpType, WorkerType
  <1>4. MemInv'
    BY <1>1, Zenon DEF IInv, BandInv, MemInv, Tracked
  <1>5. SavedInv'
    BY <1>2 DEF IInv, BandInv, SavedInv
  <1>6. CarryInv'
    BY IdleMoves, Zenon DEF IInv, BandInv, CarryInv, Carried
  <1>7. \A m \in Nodes : \/ mem'[m].rate = mem[m].rate /\ mem'[m].atCeiling = mem[m].atCeiling
                        \/ mem'[m] = NoEntry
    BY <1>1, Zenon
  <1>8. NothingSaved => op'.phase \in {"idle", "resume"}
    BY <1>2 DEF NothingSaved
  <1> QED BY <1>3, <1>4, <1>5, <1>6, <1>7, <1>8, OtherStep, Zenon DEF NothingSaved

\* The worker that looks at the entry keeps it, with its pause.
LEMMA DropStep ==
  ASSUME IInv, NEW n \in Nodes, Drop(n), UNCHANGED <<env, saved, earned, stood>>,
         op' = op \/ op' = IdleOp
  PROVE  IInv'
  <1>1. /\ mem' = [mem EXCEPT ![n] = NoEntry]
        /\ wk' = [w \in Workers |->
              IF NodeOf[w] = n /\ wk[w].phase = "got" /\ wk[w].orphan = NoEntry
                THEN [wk[w] EXCEPT !.orphan = mem[n]] ELSE wk[w]]
        /\ TypeOK /\ mem[n] \in EntryType
    BY Zenon DEF Drop, IInv, BandInv, TypeOK
  <1> DEFINE Keeps(w) == NodeOf[w] = n /\ wk[w].phase = "got" /\ wk[w].orphan = NoEntry
  <1>2. ASSUME NEW w \in Workers
        PROVE  /\ wk'[w] \in WorkerType
               /\ wk'[w].phase = wk[w].phase /\ wk'[w].rate = wk[w].rate
               /\ wk'[w].max = wk[w].max /\ wk'[w].until = wk[w].until
               /\ wk'[w].orphan = IF Keeps(w) THEN mem[n] ELSE wk[w].orphan
    <2>1. wk[w] \in WorkerType
      BY <1>1, WorkerTypes
    <2>2. CASE Keeps(w)
      <3>1. wk'[w] = [wk[w] EXCEPT !.orphan = mem[n]]
        BY <1>1, <2>2
      <3> QED BY <1>1, <2>1, <2>2, <3>1 DEF WorkerType
    <2>3. CASE ~Keeps(w)
      <3>1. wk'[w] = wk[w]
        BY <1>1, <2>3, Zenon
      <3> QED BY <2>1, <2>3, <3>1, Zenon
    <2> QED BY <2>2, <2>3
  <1>3. wk' \in [Workers -> WorkerType]
    <2>1. wk' = [w \in Workers |-> wk'[w]]
      BY <1>1, Zenon
    <2> QED BY <1>2, <2>1, Zenon
  <1>4. ASSUME NEW w \in env.workers, Alone, ~env.faults PROVE OnlyInv(w)'
    <2>1. OnlyInv(w) /\ w \in Workers /\ NodeOf[w] \in Nodes /\ op'.phase # "resume"
      BY <1>1, <1>4, EnvTypes, WorkerTypes, IdleOpType, Zenon
      DEF IInv, AloneInv, OnlyInv
    <2>2. /\ mem'[n] = NoEntry /\ \A m \in Nodes \ {n} : mem'[m] = mem[m]
          /\ ~(NoEntry.until > 0)
      BY <1>1, NoEntryType DEF TypeOK, Never
    <2>3. CASE n # NodeOf[w]
      BY <1>1, <1>2, <2>1, <2>2, <2>3, Zenon DEF OnlyInv, Tracked
    <2>4. CASE n = NodeOf[w]
      BY <1>1, <1>2, <2>1, <2>2, <2>4, ZenonT(30) DEF OnlyInv, Tracked
    <2> QED BY <2>3, <2>4
  <1> QED BY <1>1, <1>2, <1>3, <1>4, ForgetStep, Zenon

\* A restart forgets the entry; the pause it had is in Redis.
LEMMA RestartStep ==
  ASSUME IInv, NEW n \in Nodes, Restart(n), UNCHANGED env
  PROVE  IInv'
  <1>1. /\ env.restarts /\ mem' = [mem EXCEPT ![n] = NoEntry]
        /\ wk' = [w \in Workers |-> IF NodeOf[w] = n THEN IdleWorker ELSE wk[w]]
        /\ op' = (IF op.node = n THEN IdleOp ELSE op)
        /\ UNCHANGED <<saved, earned, stood>> /\ TypeOK
    BY Zenon DEF Restart, IInv, BandInv
  <1>2. \A w \in Workers : wk'[w] = IF NodeOf[w] = n THEN IdleWorker ELSE wk[w]
    BY <1>1
  <1>3. wk' \in [Workers -> WorkerType]
    BY <1>1, IdleMoves DEF TypeOK, WorkerType
  <1>4. ASSUME NEW w \in env.workers, Alone, ~env.faults PROVE OnlyInv(w)'
    <2>1. OnlyInv(w) /\ w \in Workers /\ NodeOf[w] \in Nodes /\ op'.phase # "resume"
      BY <1>1, <1>4, EnvTypes, WorkerTypes, IdleOpType, Zenon
      DEF IInv, AloneInv, OnlyInv
    <2>2. /\ mem'[n] = NoEntry /\ \A m \in Nodes \ {n} : mem'[m] = mem[m]
          /\ ~(NoEntry.until > 0)
      BY <1>1, NoEntryType DEF TypeOK, Never
    <2>3. CASE n # NodeOf[w]
      BY <1>1, <1>2, <2>1, <2>2, <2>3, Zenon DEF OnlyInv, Tracked
    <2>4. CASE n = NodeOf[w]
      <3>1. IdleWorker.phase = "idle" /\ IdleWorker.phase \notin Writing /\ IdleWorker.phase \in Loading
        BY IdleMoves DEF Writing, Loading
      <3> QED BY <1>1, <1>2, <2>1, <2>2, <2>4, <3>1, IdleMoves, Zenon DEF OnlyInv, Tracked
    <2> QED BY <2>3, <2>4
  <1>5. ~Earning
    BY <1>1 DEF Earning
  <1>6. op' = op \/ op' = IdleOp
    BY <1>1, Zenon
  <1> QED BY <1>1, <1>2, <1>3, <1>4, <1>5, <1>6, ForgetStep, Zenon

\* Time passes for an entry and for no entry alike.
LEMMA AgedEntry ==
  ASSUME NEW e \in EntryType
  PROVE  /\ Aged(e) \in EntryType /\ Aged(e).until = Dec(e.until)
         /\ Aged(e).max = e.max /\ Aged(e).rate = e.rate /\ Aged(e).conc = e.conc
         /\ Aged(e).atCeiling = e.atCeiling /\ (Aged(e) = NoEntry <=> e = NoEntry)
  <1>1. e.until \in Times /\ Dec(e.until) \in Times /\ (Dec(e.until) = Never <=> e.until = Never)
    BY DEF EntryType, Times, Dec, Never
  <1>2. /\ Aged(e) \in EntryType /\ Aged(e).until = Dec(e.until)
        /\ Aged(e).max = e.max /\ Aged(e).rate = e.rate /\ Aged(e).conc = e.conc
        /\ Aged(e).atCeiling = e.atCeiling
    BY <1>1, UntilEntry DEF Aged
  <1>3. e.until = Never => Aged(e) = e
    BY DEF Aged, Dec, EntryType, Never
  <1> QED BY <1>1, <1>2, <1>3, NoEntryType, Zenon

\* Time shortens pauses alike: the longer one stays the longer one.
LEMMA DecTimes ==
  \A s, t \in Times : /\ Dec(t) \in Times /\ t \in Int /\ (t \in Nat => Dec(t) \in Nat)
                      /\ (s >= t => Dec(s) >= Dec(t)) /\ (Dec(t) > 0 => t > 0)
  BY DEF Times, Dec, Never

\* What time does to the pauses of an entry and of a worker.
LEMMA TickMem ==
  ASSUME TypeOK, mem' = [n \in Nodes |-> Aged(mem[n])], NEW n \in Nodes
  PROVE  /\ mem'[n] \in EntryType /\ mem'[n].until = Dec(mem[n].until)
         /\ mem'[n].max = mem[n].max /\ mem'[n].rate = mem[n].rate
         /\ mem'[n].conc = mem[n].conc /\ mem'[n].atCeiling = mem[n].atCeiling
         /\ (mem'[n] = NoEntry <=> mem[n] = NoEntry)
  <1>1. mem'[n] = Aged(mem[n]) /\ mem[n] \in EntryType
    BY Zenon DEF TypeOK
  <1> QED BY <1>1, AgedEntry, Zenon

\* Time passes for what a worker carries.
LEMMA TickWorker ==
  ASSUME TypeOK, NEW w \in Workers,
         wk'[w] = [wk[w] EXCEPT !.until = Dec(@), !.orphan = Aged(@)]
  PROVE  /\ wk'[w] \in WorkerType /\ wk'[w].phase = wk[w].phase
         /\ wk'[w].max = wk[w].max /\ wk'[w].rate = wk[w].rate
         /\ wk'[w].until = Dec(wk[w].until)
         /\ wk'[w].orphan.until = Dec(wk[w].orphan.until)
         /\ (wk'[w].orphan = NoEntry <=> wk[w].orphan = NoEntry)
  <1> DEFINE t == Dec(wk[w].until)
             o == Aged(wk[w].orphan)
  <1>1. wk[w] \in WorkerType /\ wk[w].until \in Times /\ wk[w].orphan \in EntryType
    BY WorkerTypes, Zenon
  <1>2. t \in Times
    BY <1>1, DecTimes, Zenon
  <1>3. /\ o \in EntryType /\ o.until = Dec(wk[w].orphan.until)
        /\ (o = NoEntry <=> wk[w].orphan = NoEntry)
    BY <1>1, AgedEntry, Zenon
  <1>4. wk'[w] = [wk[w] EXCEPT !.until = t, !.orphan = o]
    BY Zenon
  <1> HIDE DEF t, o
  <1>5. /\ wk'[w] \in WorkerType /\ wk'[w].phase = wk[w].phase
        /\ wk'[w].max = wk[w].max /\ wk'[w].rate = wk[w].rate
        /\ wk'[w].until = t /\ wk'[w].orphan = o
    BY <1>1, <1>2, <1>3, <1>4, Zenon DEF WorkerType
  <1> QED BY <1>3, <1>5, Zenon DEF t, o

\* A stand-down runs out everywhere at once.
LEMMA TickOnly ==
  ASSUME IInv, Alone, ~env.faults, NEW w \in env.workers, UNCHANGED <<env, op>>,
         mem' = [n \in Nodes |-> Aged(mem[n])],
         wk'[w] = [wk[w] EXCEPT !.until = Dec(@), !.orphan = Aged(@)],
         \A n \in Nodes : stood'[n] = Dec(stood[n]),
         saved'.pause = Dec(saved.pause)
  PROVE  OnlyInv(w)'
  <1> DEFINE n == NodeOf[w]
  <1>1. TypeOK /\ OnlyInv(w) /\ w \in Workers
    BY EnvTypes, Zenon DEF IInv, BandInv, AloneInv
  <1>2. /\ n \in Nodes /\ mem[n].until \in Times /\ wk[w].orphan.until \in Times
        /\ stood[n] \in Times
    BY <1>1, WorkerTypes, EntryFields DEF Times
  <1>3. saved.pause \in Times
    BY <1>1 DEF TypeOK
  <1>4. \A m \in Nodes \ {n} : mem'[m] = NoEntry /\ stood'[m] = 0
    <2>1. Dec(0) = 0
      BY DEF Dec
    <2> QED BY <1>1, <2>1, TickMem, Zenon DEF OnlyInv
  <1>5. /\ mem'[n].until = Dec(mem[n].until) /\ (mem'[n] = NoEntry <=> mem[n] = NoEntry)
        /\ stood'[n] = Dec(stood[n])
    BY <1>1, <1>2, TickMem, Zenon
  <1>6. /\ wk'[w].phase = wk[w].phase /\ wk'[w].until = Dec(wk[w].until)
        /\ wk'[w].orphan.until = Dec(wk[w].orphan.until)
        /\ (wk'[w].orphan = NoEntry <=> wk[w].orphan = NoEntry)
    BY <1>1, TickWorker, Zenon
  <1>7. Dec(mem[n].until) > 0 /\ saved.pause >= mem[n].until => Dec(saved.pause) >= Dec(mem[n].until)
    BY <1>2, <1>3, DecTimes, Zenon
  <1>8. Dec(mem[n].until) > 0 => mem[n].until > 0
    BY <1>2, DecTimes, Zenon
  <1>9. /\ Dec(stood[n]) > 0 => stood[n] > 0
        /\ saved.pause >= stood[n] => Dec(saved.pause) >= Dec(stood[n])
        /\ mem[n].until >= stood[n] => Dec(mem[n].until) >= Dec(stood[n])
        /\ wk[w].orphan.until >= stood[n] => Dec(wk[w].orphan.until) >= Dec(stood[n])
    BY <1>2, <1>3, DecTimes, Zenon
  <1>10. IF wk[w].phase \in Writing
           THEN mem'[n] # NoEntry => wk'[w].until = mem'[n].until
           ELSE mem'[n].until > 0 => saved'.pause >= mem'[n].until
    BY <1>1, <1>5, <1>6, <1>7, <1>8, Zenon DEF OnlyInv, Tracked
  <1>11. stood'[n] > 0 =>
           /\ wk[w].phase \in Loading /\ saved'.pause >= stood'[n]
           /\ mem'[n] # NoEntry => mem'[n].until >= stood'[n]
           /\ wk'[w].orphan # NoEntry => wk'[w].orphan.until >= stood'[n]
    BY <1>1, <1>5, <1>6, <1>9, Zenon DEF OnlyInv, Tracked
  <1>12. op'.phase # "resume" /\ (wk'[w].phase = "got" => wk'[w].orphan # NoEntry \/ mem'[n] # NoEntry)
    BY <1>1, <1>5, <1>6, Zenon DEF OnlyInv, Tracked
  <1> QED BY <1>4, <1>6, <1>10, <1>11, <1>12, Zenon DEF OnlyInv, Tracked

\* Time passes for memory, Redis and every worker at once.
LEMMA TickStep ==
  ASSUME IInv, Tick, UNCHANGED env
  PROVE  IInv'
  <1>1. TypeOK /\ UNCHANGED <<op, earned>>
    BY Zenon DEF Tick, IInv, BandInv
  <1>2. mem' = [n \in Nodes |-> Aged(mem[n])]
    BY Zenon DEF Tick
  <1>3. stood' = [n \in Nodes |-> Dec(stood[n])]
    BY Zenon DEF Tick
  <1>4. wk' = [w \in Workers |-> [wk[w] EXCEPT !.until = Dec(@), !.orphan = Aged(@)]]
    BY Zenon DEF Tick
  <1>5. ASSUME NEW w \in Workers
        PROVE  wk'[w] = [wk[w] EXCEPT !.until = Dec(@), !.orphan = Aged(@)]
    BY <1>4, Zenon
  <1>6. ASSUME NEW w \in Workers
        PROVE  /\ wk'[w] \in WorkerType /\ wk'[w].phase = wk[w].phase
               /\ wk'[w].max = wk[w].max /\ wk'[w].rate = wk[w].rate
               /\ wk'[w].until = Dec(wk[w].until)
    BY <1>1, <1>5, TickWorker, Zenon
  <1>7. ASSUME NEW n \in Nodes
        PROVE  stood[n] \in Nat /\ stood'[n] = Dec(stood[n]) /\ stood'[n] \in Nat
    <2>1. stood[n] \in Nat /\ stood'[n] = Dec(stood[n])
      BY <1>1, <1>3, Zenon DEF TypeOK
    <2> QED BY <2>1 DEF Dec
  <1>8. /\ saved' \in [rate : Nat, pause : Times, max : Nat, prop : Nat]
        /\ saved'.rate = saved.rate /\ saved'.max = saved.max /\ saved'.prop = saved.prop
        /\ saved'.pause = Dec(saved.pause) /\ saved.pause \in Times
    <2>1. saved' = [saved EXCEPT !.pause = Dec(saved.pause)]
      BY Zenon DEF Tick
    <2>2. saved \in [rate : Nat, pause : Times, max : Nat, prop : Nat]
      BY <1>1 DEF TypeOK
    <2>3. saved.pause \in Times /\ Dec(saved.pause) \in Times
      BY <2>2, DecTimes, Zenon
    <2> HIDE DEF Dec
    <2> QED BY <2>1, <2>2, <2>3
  <1>9. TypeOK'
    <2>1. mem' \in [Nodes -> EntryType]
      BY <1>1, <1>2, TickMem, Zenon
    <2>2. wk' \in [Workers -> WorkerType]
      BY <1>4, <1>6, Zenon
    <2>3. stood' \in [Nodes -> Nat]
      BY <1>3, <1>7, Zenon
    <2> QED BY <1>1, <1>8, <2>1, <2>2, <2>3, Zenon DEF TypeOK, WorkerType
  <1>10. MemInv'
    <2> SUFFICES ASSUME NEW n \in Nodes, mem'[n] # NoEntry PROVE Sound(mem'[n])
      BY Zenon DEF MemInv, Tracked
    <2>1. /\ mem'[n].max = mem[n].max /\ mem'[n].rate = mem[n].rate
          /\ mem'[n].conc = mem[n].conc /\ mem[n] # NoEntry
      BY <1>1, <1>2, TickMem, Zenon
    <2>2. Sound(mem[n])
      BY <2>1, Zenon DEF IInv, BandInv, MemInv, Tracked
    <2> QED BY <2>1, <2>2, Zenon DEF Sound
  <1>11. SavedInv'
    BY <1>1, <1>8, Zenon DEF IInv, BandInv, SavedInv
  <1>12. CarryInv'
    <2> SUFFICES ASSUME NEW w \in Workers PROVE Carried(wk'[w])
      BY Zenon DEF CarryInv
    <2>1. Carried(wk[w])
      BY DEF IInv, BandInv, CarryInv
    <2>2. wk[w].until \in Nat => Dec(wk[w].until) \in Nat
      BY DEF Dec
    <2> QED BY <1>6, <2>1, <2>2, Zenon DEF Carried
  <1>13. ASSUME NEW w \in env.workers, Alone, ~env.faults PROVE OnlyInv(w)'
    <2>1. UNCHANGED <<env, op>> /\ w \in Workers
      BY <1>1, EnvTypes
    <2>2. \A n \in Nodes : stood'[n] = Dec(stood[n])
      BY <1>7
    <2> QED BY <1>2, <1>5, <1>8, <1>13, <2>1, <2>2, TickOnly, Zenon
  <1> QED BY <1>1, <1>2, <1>6, <1>8, <1>9, <1>10, <1>11, <1>12, <1>13, TickMem, OtherStep, Zenon
             DEF NothingSaved

-----------------------------------------------------------------------------
(* The theorems *)

\* The invariant holds of a start: nothing tracked, nothing saved.
LEMMA InitIInv == Init => IInv
  <1> SUFFICES ASSUME Init PROVE IInv
    OBVIOUS
  <1>1. /\ mem = [n \in Nodes |-> NoEntry] /\ wk = [w \in Workers |-> IdleWorker]
        /\ saved = [rate |-> Missing, pause |-> Never, max |-> Missing, prop |-> Missing]
        /\ op = IdleOp /\ earned = SeedMax /\ stood = [n \in Nodes |-> 0] /\ env \in Environments
    BY DEF Init
  <1>2. TypeOK
    <2>1. mem \in [Nodes -> EntryType] /\ wk \in [Workers -> WorkerType] /\ stood \in [Nodes -> Nat]
      BY <1>1, NoEntryType, IdleMoves
    <2>2. saved \in [rate : Nat, pause : Times, max : Nat, prop : Nat]
      BY <1>1 DEF Missing, Times
    <2> QED BY <1>1, <2>1, <2>2, IdleOpType, PacerAssumption DEF TypeOK, OpType, WorkerType
  <1>3. saved.rate = Missing /\ saved.max = Missing /\ saved.prop = Missing
    BY <1>1
  <1>4. BandInv
    <2>1. MemInv /\ CarryInv
      BY <1>1, IdleMoves DEF MemInv, CarryInv, Tracked
    <2>2. SavedInv
      BY <1>1, <1>3, IdleOpType DEF SavedInv
    <2> QED BY <1>2, <2>1, <2>2 DEF BandInv
  <1>5. EarnInv
    <2>1. RatesEarned
      <3>1. SeedMax <= earned /\ saved.rate <= earned /\ 0 <= earned
        BY <1>1, <1>3, PacerAssumption DEF Missing
      <3>2. \A n \in Nodes : mem[n].rate = 0
        BY <1>1, NoEntryType, Zenon
      <3>3. \A w \in Workers : wk[w].phase = "idle"
        BY <1>1, IdleMoves, Zenon
      <3> QED BY <3>1, <3>2, <3>3 DEF RatesEarned
    <2>2. NothingSaved
      BY <1>1, <1>3, NoEntryType, IdleMoves, IdleOpType, AtLeastNone, Zenon
      DEF NothingSaved
    <2> QED BY <2>1, <2>2 DEF EarnInv
  <1>6. AloneInv
    <2> SUFFICES ASSUME NEW w \in env.workers PROVE OnlyInv(w)
      BY DEF AloneInv
    <2>1. w \in Workers /\ NodeOf[w] \in Nodes /\ wk[w] = IdleWorker /\ mem[NodeOf[w]] = NoEntry
          /\ stood[NodeOf[w]] = 0
      BY <1>1, <1>2, EnvTypes, WorkerTypes
    <2> QED BY <1>1, <2>1, NoEntryType, IdleMoves, IdleOpType DEF OnlyInv, Tracked, Writing, Never
  <1> QED BY <1>4, <1>5, <1>6 DEF IInv

\* Every step keeps the invariant.
LEMMA NextIInv == IInv /\ [Next]_vars => IInv'
  <1> SUFFICES ASSUME IInv, [Next]_vars PROVE IInv'
    OBVIOUS
  <1>1. ASSUME NEW w \in env.workers, Work(w), UNCHANGED env PROVE IInv'
    <2>1. Outcomes \subseteq BOOLEAN
      BY Zenon DEF Outcomes
    <2> QED BY <1>1, <2>1, LookupStep, AcquireStep, GiveUpStep, DoneStep, StandMemStep,
               ObserveStep, ReadBandStep, ReadRateStep, InsertStep, ProposeStep, SaveRateStep,
               SavePauseStep, StandRedisStep, Zenon DEF Work
  <1>2. ASSUME Operate, UNCHANGED env PROVE IInv'
    <2>1. CASE PromoteDrop
      <3>1. op.node \in Nodes
        BY OperateTypes DEF OpType
      <3> QED BY <1>2, <2>1, <3>1, DropStep, Zenon DEF PromoteDrop
    <2> QED BY <1>2, <2>1, ResumeMemStep, PromoteReadStep, ResumeRedisStep, PromoteBandStep,
               PromoteClearStep, Zenon DEF Operate
  <1>3. ASSUME NEW n \in Nodes, Evict(n), UNCHANGED env PROVE IInv'
    BY <1>3, DropStep, Zenon DEF Evict
  <1>4. CASE UNCHANGED vars
    BY <1>4, ZenonT(30)
    DEF vars, IInv, BandInv, TypeOK, MemInv, SavedInv, CarryInv, Tracked, EarnInv,
       Earning, SavedFirst, RatesEarned, NothingSaved, Saving, AloneInv, Alone, OnlyInv
  <1> QED BY <1>1, <1>2, <1>3, <1>4, RestartStep, TickStep, Zenon DEF Next

\* The invariant gives the four properties.
LEMMA IInvSafe ==
  IInv => RateWithinBand /\ EarnedRate /\ PausePersisted /\ StandDownKeptAlone
  <1> SUFFICES ASSUME IInv PROVE RateWithinBand /\ EarnedRate /\ PausePersisted /\ StandDownKeptAlone
    OBVIOUS
  <1>1. RateWithinBand
    BY DEF IInv, BandInv, MemInv, Sound, Band, RateWithinBand
  <1>2. EarnedRate
    BY Zenon DEF IInv, EarnInv, Earning, RatesEarned, EarnedRate
  <1>3. ASSUME Alone, ~env.faults, Quiet, NEW n \in Nodes
        PROVE  /\ mem[n].until > 0 => saved.pause >= mem[n].until
               /\ Tracked(n) /\ stood[n] > 0 => mem[n].until >= stood[n]
    <2>1. PICK w \in Workers : env.workers = {w}
      BY <1>3 DEF Alone
    <2>2. OnlyInv(w) /\ wk[w].phase \notin Writing
      BY <1>3, <2>1 DEF IInv, AloneInv, Quiet, Writing
    <2> QED BY <2>2, NoEntryType DEF OnlyInv, Tracked, Never
  <1> QED BY <1>1, <1>2, <1>3, Zenon DEF PausePersisted, StandDownKeptAlone, StandDownKept

\* Whatever a node reads from Redis, climbs to or halves to, a tracked key's rate is
\* between MinRate and its band, the band at most the ceiling, and the connections
\* between MinConc and MaxConc (load, Observe and Promote).
THEOREM PacerRateWithinBand == Spec => []RateWithinBand
  BY InitIInv, NextIInv, IInvSafe, PTL DEF Spec

\* Promoting a band widens what the rate may become and not the rate: while the
\* saved rate can be read and a rate is saved before the first proposal, no node is
\* faster than the seed or what clean answers earned.
THEOREM PacerEarnedRate == Spec => []EarnedRate
  BY InitIInv, NextIInv, IInvSafe, PTL DEF Spec

\* With one worker, no Resume and no Redis fault, a pause in memory is in Redis once
\* persist and PauseKey have made their writes, so that an evicted or restarted
\* entry is paused again.
THEOREM PacerPausePersisted == Spec => []PausePersisted
  BY InitIInv, NextIInv, IInvSafe, PTL DEF Spec

\* Under the same conditions PauseKey's stand-down stays in the entry for as long as
\* it was asked for, through answers, evictions, promotions and restarts.
THEOREM PacerStandDownKeptAlone == Spec => []StandDownKeptAlone
  BY InitIInv, NextIInv, IInvSafe, PTL DEF Spec
=============================================================================

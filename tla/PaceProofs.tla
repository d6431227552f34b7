----------------------------- MODULE PaceProofs -----------------------------
(***************************************************************************)
(* Whether we send at all and how fast, for every value of the constants.  *)
(* The bucket's grants in any interval are bounded by burst, rate and the  *)
(* time its timestamp was turned back; when calls reach Redis in clock     *)
(* order they are bounded by the rate.  And the health of the sending IP,  *)
(* which a listing or a spike of complaints takes away.                    *)
(*                                                                         *)
(* The parts share nothing but this module: no theorem is about two.       *)
(***************************************************************************)
EXTENDS TokenBucket, IPHealth, TLAPS
-----------------------------------------------------------------------------
(* The token bucket *)

(* A record update usable in every leaf: the SMT backend then leaves the   *)
(* leaf untyped.  Type inference is most of the time these proofs would    *)
(* take otherwise.                                                         *)
Blank == [field |-> 0]
Blanks == {Blank}

\* Writing the value a field already has changes nothing.
LEMMA Untyped == [Blank EXCEPT !.field = 0] \in Blanks
  BY DEF Blank, Blanks

USE Untyped

\* A larger factor gives a larger product.
LEMMA MulMonotone ==
  ASSUME NEW r \in Nat, NEW a \in Int, NEW b \in Int, a <= b
  PROVE  r * a <= r * b
  <1>1. r * (b - a) >= 0
    OBVIOUS
  <1>2. r * b = r * a + r * (b - a)
    OBVIOUS
  <1> QED BY <1>1, <1>2

LEMMA MulDistributes ==
  ASSUME NEW r \in Int, NEW a \in Int, NEW b \in Int
  PROVE  r * (a + b) = r * a + r * b
  OBVIOUS

\* A refill at a caller's rate is at most the refill at the highest rate.
LEMMA RefillBound ==
  ASSUME NEW r \in Nat, NEW R \in Nat, NEW e \in Nat, r <= R
  PROVE  e * r <= R * e /\ e * r \in Nat /\ R * e \in Nat
  <1>1. e * r <= e * R
    BY MulMonotone
  <1> QED BY <1>1
-----------------------------------------------------------------------------
\* The last write of a bucket stamps both its timestamp and its expiry.
ExpiryInv == bucket.expireAt = 0 \/ bucket.expireAt >= bucket.ts + TTL

\* Once something was granted in the interval, the bucket was last written in
\* it, and grants plus what is left are covered by the credit so far.
CreditInv ==
  win.granted > 0 =>
    /\ bucket.ts + MaxLag >= win.at
    /\ bucket.expireAt >= win.at + TTL
    /\ win.granted + bucket.tokens
         <= Burst + MaxRate * ((bucket.ts - win.at) + MaxLag + win.rewound)

IInv == TypeOK /\ ExpiryInv /\ CreditInv

LEMMA RunTypeOK ==
  ASSUME TypeOK, NEW c \in Callers, Run(c)
  PROVE  /\ TypeOK'
         /\ ExpiryInv'
         /\ call[c].now \in Nat /\ call[c].rate \in Rates
         /\ Refill(call[c].now, call[c].rate) \in 0 .. Burst
  <1> DEFINE now == call[c].now  rate == call[c].rate
  <1>1. now \in Nat /\ rate \in Rates /\ now <= clock
    BY DEF Run, TypeOK, Calls, Idle
  <1>2. Elapsed(now) \in Nat /\ Rewind(now) \in Nat
    BY <1>1 DEF TypeOK, Elapsed, Rewind
  <1>3. Elapsed(now) * rate \in Nat
    BY <1>1, <1>2, BucketAssumption DEF Rates
  <1>4. Refill(now, rate) \in 0 .. Burst
    BY <1>3, BucketAssumption DEF Refill, TypeOK
  <1>5. bucket' \in [tokens : 0 .. Burst, ts : Nat, expireAt : Nat]
    BY <1>1, <1>4, BucketAssumption DEF Run, TypeOK
  <1>6. win' \in [at : Nat, granted : Nat, rewound : Nat] /\ win'.at = win.at
    <2> DEFINE g == IF Refill(now, rate) >= Want THEN Want ELSE 0
    <2>1. g \in Nat
      BY BucketAssumption
    <2>2. win' = [at |-> win.at, granted |-> win.granted + g,
                  rewound |-> win.rewound + Rewind(now)]
      BY DEF Run
    <2> HIDE DEF g
    <2> QED BY <1>2, <2>1, <2>2 DEF TypeOK
  <1>7. call' \in [Callers -> Calls \cup {Idle}]
         /\ \A d \in Callers : call'[d].now <= clock'
    BY DEF Run, TypeOK, Idle
  <1>8. bucket'.ts = now /\ bucket'.expireAt = clock + TTL /\ clock' = clock
    BY DEF Run
  <1>9. TypeOK'
    BY <1>1, <1>5, <1>6, <1>7, <1>8 DEF TypeOK
  <1>10. ExpiryInv'
    BY <1>1, <1>8, BucketAssumption DEF ExpiryInv, TypeOK
  <1> QED BY <1>1, <1>4, <1>9, <1>10

\* The bucket was there: the refill is paid for by the time since ts, and a
\* timestamp turned back is entered in rewound.
LEMMA RunLive ==
  ASSUME IInv, NEW c \in Callers, Run(c), ~Missing
  PROVE  CreditInv'
  <1> DEFINE now == call[c].now  rate == call[c].rate
  <1>1. /\ now \in Nat /\ rate \in Rates /\ TypeOK /\ TypeOK'
        /\ Refill(now, rate) \in 0 .. Burst
    BY RunTypeOK DEF IInv
  <1>2. /\ win'.granted + bucket'.tokens = win.granted + Refill(now, rate)
        /\ win'.rewound = win.rewound + Rewind(now) /\ win'.at = win.at
        /\ bucket'.ts = now /\ bucket'.expireAt = clock + TTL
        /\ clock - now <= MaxLag
    BY <1>1, BucketAssumption DEF Run, TypeOK
  <1>3. now + MaxLag >= win.at /\ clock + TTL >= win.at + TTL
    BY <1>1, <1>2, BucketAssumption DEF TypeOK
  <1> DEFINE span == (now - win.at) + MaxLag + win'.rewound
  <1>4. span \in Nat /\ MaxRate * span \in Nat
    BY <1>1, <1>2, <1>3, BucketAssumption DEF TypeOK
  <1>5. CASE win.granted = 0
    BY <1>1, <1>2, <1>3, <1>4, <1>5, BucketAssumption DEF TypeOK, CreditInv
  <1>6. CASE win.granted > 0
    <2> DEFINE was == (bucket.ts - win.at) + MaxLag + win.rewound
    <2>1. was \in Int /\ Elapsed(now) \in Nat /\ Rewind(now) \in Nat
          /\ was + Elapsed(now) = span
      <3>1. /\ bucket.ts \in Nat /\ win.at \in Nat /\ MaxLag \in Nat
            /\ win.rewound \in Nat /\ win'.rewound = win.rewound + Rewind(now)
        BY <1>1, <1>2, BucketAssumption DEF TypeOK
      <3>2. /\ Elapsed(now) \in Nat /\ Rewind(now) \in Nat
            /\ bucket.ts + Elapsed(now) = now + Rewind(now)
        BY <1>1, <3>1 DEF Elapsed, Rewind
      <3> QED BY <1>1, <3>1, <3>2
    <2>2. Elapsed(now) * rate <= MaxRate * Elapsed(now)
          /\ Elapsed(now) * rate \in Nat /\ MaxRate * Elapsed(now) \in Nat
      BY <1>1, <2>1, RefillBound, BucketAssumption DEF Rates
    <2>3. Refill(now, rate) <= bucket.tokens + Elapsed(now) * rate
      BY <2>2, BucketAssumption, <1>1 DEF Refill, TypeOK
    <2>4. MaxRate * span = MaxRate * was + MaxRate * Elapsed(now)
      BY <2>1, MulDistributes, BucketAssumption
    <2>5. win.granted + bucket.tokens <= Burst + MaxRate * was
      BY <1>6 DEF IInv, CreditInv
    <2>6. MaxRate * was \in Int
      BY <2>1, BucketAssumption
    <2>7. win.granted + Refill(now, rate) <= Burst + MaxRate * span
      <3> HIDE DEF was, span, now, rate
      <3> QED BY <1>1, <1>4, <2>2, <2>3, <2>4, <2>5, <2>6, BucketAssumption
                 DEF TypeOK
    <2> QED BY <1>2, <1>3, <2>7 DEF CreditInv
  <1> QED BY <1>1, <1>3, <1>5, <1>6, <1>2 DEF TypeOK, CreditInv

\* The bucket had expired: it comes back full, and the time since its last
\* write would have filled it anyway.
LEMMA RunMissing ==
  ASSUME IInv, NEW c \in Callers, Run(c), Missing
  PROVE  CreditInv'
  <1> DEFINE now == call[c].now  rate == call[c].rate
  <1>1. /\ now \in Nat /\ TypeOK /\ TypeOK' /\ Refill(now, rate) = Burst
    BY RunTypeOK DEF IInv, Refill
  <1>2. /\ win'.granted + bucket'.tokens = win.granted + Burst
        /\ win'.rewound = win.rewound + Rewind(now) /\ win'.at = win.at
        /\ bucket'.ts = now /\ bucket'.expireAt = clock + TTL
        /\ clock - now <= MaxLag
    BY <1>1, BucketAssumption DEF Run, TypeOK
  <1>3. now + MaxLag >= win.at /\ clock + TTL >= win.at + TTL
    BY <1>1, <1>2, BucketAssumption DEF TypeOK
  <1> DEFINE span == (now - win.at) + MaxLag + win'.rewound
  <1>4. span \in Nat /\ MaxRate * span \in Nat
    BY <1>1, <1>2, <1>3, BucketAssumption DEF TypeOK
  <1>5. CASE win.granted = 0
    BY <1>1, <1>2, <1>3, <1>4, <1>5, BucketAssumption DEF TypeOK, CreditInv
  <1>6. CASE win.granted > 0
    <2> DEFINE was == (bucket.ts - win.at) + MaxLag + win.rewound
    <2>1. now >= bucket.ts + (TTL - MaxLag)
      BY <1>1, <1>2, <1>6, BucketAssumption, ExpiryAssumption
         DEF IInv, CreditInv, ExpiryInv, Missing, TypeOK
    <2>2. was \in Int /\ was + (TTL - MaxLag) <= span
      BY <1>1, <1>2, <2>1, BucketAssumption, ExpiryAssumption
         DEF TypeOK, Rewind
    <2>3. MaxRate * (was + (TTL - MaxLag)) <= MaxRate * span
      BY <1>4, <2>2, MulMonotone, BucketAssumption
    <2>4. MaxRate * (was + (TTL - MaxLag))
            = MaxRate * was + MaxRate * (TTL - MaxLag)
      BY <2>2, MulDistributes, BucketAssumption
    <2>5. win.granted + bucket.tokens <= Burst + MaxRate * was
      BY <1>6 DEF IInv, CreditInv
    <2>6. MaxRate * was \in Int /\ MaxRate * (TTL - MaxLag) \in Int
      BY <2>2, BucketAssumption
    <2>7. win.granted + Burst <= Burst + MaxRate * span
      <3> HIDE DEF was, span, now
      <3> QED BY <1>1, <1>4, <2>3, <2>4, <2>5, <2>6, BucketAssumption,
                 ExpiryAssumption DEF TypeOK
    <2> QED BY <1>2, <1>3, <2>7 DEF CreditInv
  <1> QED BY <1>1, <1>5, <1>6 DEF TypeOK

LEMMA IInvInit == Init => IInv
  BY BucketAssumption DEF Init, IInv, TypeOK, ExpiryInv, CreditInv, Idle

LEMMA IInvNext == IInv /\ [Next]_vars => IInv'
  <1> SUFFICES ASSUME IInv, [Next]_vars PROVE IInv'
    OBVIOUS
  <1>1. ASSUME NEW c \in Callers, NEW rate \in Rates, Take(c, rate)
        PROVE  IInv'
    <2>1. TypeOK'
      BY <1>1 DEF IInv, TypeOK, Take, Calls
    <2> QED BY <1>1, <2>1 DEF IInv, Take, ExpiryInv, CreditInv
  <1>2. ASSUME NEW c \in Callers, Run(c) PROVE IInv'
    BY <1>2, RunTypeOK, RunLive, RunMissing DEF IInv
  <1>3. ASSUME NEW c \in Callers, Fail(c) PROVE IInv'
    <2>1. TypeOK'
      BY <1>3 DEF IInv, TypeOK, Fail, Idle
    <2> QED BY <1>3, <2>1 DEF IInv, Fail, ExpiryInv, CreditInv
  <1>4. CASE Tick
    <2>1. \A c \in Callers : call[c].now \in Int
      BY DEF IInv, TypeOK, Calls, Idle
    <2>2. TypeOK'
      BY <1>4, <2>1 DEF IInv, TypeOK, Tick
    <2> QED BY <1>4, <2>2 DEF IInv, ExpiryInv, CreditInv, Tick
  <1>5. CASE OpenWindow
    BY <1>5 DEF IInv, TypeOK, ExpiryInv, CreditInv, OpenWindow
  <1>6. CASE UNCHANGED vars
    BY <1>6 DEF IInv, TypeOK, ExpiryInv, CreditInv, vars
  <1> QED BY <1>1, <1>2, <1>3, <1>4, <1>5, <1>6 DEF Next

\* Whatever the lag, rates and number of callers: the stored bucket stays
\* within [0, Burst] and no stored or carried clock is ahead of real time.
THEOREM TypeCorrect == Spec => []TypeOK
  <1>1. IInv => TypeOK
    BY DEF IInv
  <1> QED BY IInvInit, IInvNext, <1>1, PTL DEF Spec

LEMMA IInvCredit == IInv => GrantsWithinCredit
  <1> SUFFICES ASSUME IInv PROVE GrantsWithinCredit
    OBVIOUS
  <1> DEFINE span == (clock - win.at) + MaxLag + win.rewound
             was  == (bucket.ts - win.at) + MaxLag + win.rewound
  <1>1. span \in Nat /\ was \in Int /\ was <= span
    BY BucketAssumption DEF IInv, TypeOK
  <1>2. MaxRate * was <= MaxRate * span
        /\ MaxRate * span \in Nat /\ MaxRate * was \in Int
    BY <1>1, MulMonotone, BucketAssumption
  <1>3. CASE win.granted = 0
    BY <1>2, <1>3, BucketAssumption DEF GrantsWithinCredit
  <1>4. CASE win.granted > 0
    <2>1. win.granted + bucket.tokens <= Burst + MaxRate * was
      BY <1>4 DEF IInv, CreditInv
    <2>2. win.granted <= Burst + MaxRate * span
      <3> HIDE DEF was, span
      <3> QED BY <1>2, <2>1, BucketAssumption DEF IInv, TypeOK
    <2> QED BY <2>2 DEF GrantsWithinCredit
  <1> QED BY <1>3, <1>4 DEF IInv, TypeOK

\* In every interval the script's grants are within burst plus rate times the
\* interval, the callers' clock lag and the time the timestamp was turned back.
THEOREM CreditBound == Spec => []GrantsWithinCredit
  BY IInvInit, IInvNext, IInvCredit, PTL DEF Spec
-----------------------------------------------------------------------------
\* Calls that run at the instant their clock was read never turn it back.
NoRewind == win.rewound = 0

\* When no call is delayed between reading its clock and running, the bucket
\* keeps its promise: all nodes together stay within the configured rate.
THEOREM RateBound == MaxLag = 0 => (Spec => []GrantsWithinRate)
  <1> SUFFICES ASSUME MaxLag = 0 PROVE Spec => []GrantsWithinRate
    OBVIOUS
  <1>1. Init => NoRewind
    BY DEF Init, NoRewind
  <1>2. IInv /\ NoRewind /\ [Next]_vars => NoRewind'
    <2> SUFFICES ASSUME IInv, NoRewind, [Next]_vars PROVE NoRewind'
      OBVIOUS
    <2>1. ASSUME NEW c \in Callers, Run(c) PROVE NoRewind'
      <3>1. call[c].now \in Nat
        BY <2>1, RunTypeOK DEF IInv
      <3>2. clock - call[c].now <= 0 /\ clock \in Nat
            /\ bucket.ts \in Nat /\ bucket.ts <= clock
        BY <2>1 DEF Run, IInv, TypeOK
      <3>3. Rewind(call[c].now) = 0
        BY <3>1, <3>2 DEF Rewind
      <3> QED BY <2>1, <3>3 DEF Run, NoRewind
    <2> QED BY <2>1 DEF Next, Take, Fail, Tick, OpenWindow, NoRewind, vars
  <1>3. IInv /\ NoRewind => GrantsWithinRate
    <2> SUFFICES ASSUME IInv, NoRewind PROVE GrantsWithinRate
      OBVIOUS
    <2>1. (clock - win.at) + MaxLag + win.rewound = (clock - win.at) + MaxLag
      BY BucketAssumption DEF IInv, TypeOK, NoRewind
    <2> QED BY <2>1, IInvCredit DEF GrantsWithinCredit, GrantsWithinRate
  <1> QED BY IInvInit, IInvNext, <1>1, <1>2, <1>3, PTL DEF Spec
-----------------------------------------------------------------------------
(* The health of the sending IP *)

RoundType == [at : {"boot", "idle", "asking", "persist"},
              todo : SUBSET Zones, on : SUBSET Zones, clean : SUBSET Zones]

Real == {"list", "junk"}

\* The world, and the zones that passed the self-test: none of them answers
\* everything or refuses everything.
TestInv ==
  /\ env \in Environments /\ kind \in [Zones -> Kinds]
  /\ zones \subseteq Zones /\ zones # {} /\ trusted \in BOOLEAN
  /\ trusted => \A z \in zones : kind[z] \in Real

\* What a round has so far, and what the node is stood down for.
RoundInv ==
  /\ round \in RoundType
  /\ round.todo \subseteq zones /\ round.on \cup round.clean \subseteq zones \ round.todo
  /\ round.on \cap round.clean = {}
  /\ round.at \in {"asking", "persist"} => trusted
  /\ round.at \in {"boot", "idle"} => round.todo \cup round.on \cup round.clean = {}
  /\ reason \subseteq zones /\ (reason # {} => trusted)
  /\ round.at = "boot" => reason = {}

\* Who still owes the key its verdict.
LatestKeyInv ==
  /\ resume \in {"idle", "persist"} /\ crossed \in BOOLEAN
  /\ key \subseteq Zones /\ verdict \subseteq Zones
  /\ ~crossed /\ ~env.lapses =>
       /\ round.at = "persist" => resume = "idle" /\ verdict = round.on
       /\ resume = "persist" => verdict = {}
       /\ round.at # "persist" /\ resume = "idle" => key = verdict

\* The complaints kept are those of the history that still count, at the same age.
SpamInv ==
  /\ DOMAIN complaints \subseteq DOMAIN history
  /\ \A i \in DOMAIN history : history[i] \in Nat
  /\ \A i \in DOMAIN complaints : complaints[i] = history[i]
  /\ ~env.restarts =>
       \A i \in DOMAIN history : history[i] < Window => i \in DOMAIN complaints
  /\ sending \in {"unasked", "stopped", "open"} /\ SpikeStopsSending

HealthIInv == TestInv /\ RoundInv /\ LatestKeyInv /\ SpamInv

\* The invariant gives the properties.
LEMMA HealthSafe == HealthIInv => HealthTypeOK /\ BurnedOnlyByListing /\ KeyIsLastVerdict /\ SpikeStopsSending
  <1> SUFFICES ASSUME HealthIInv PROVE HealthTypeOK /\ BurnedOnlyByListing /\ KeyIsLastVerdict
                                  /\ SpikeStopsSending
    OBVIOUS
  <1>1. round.at \in {"boot", "idle", "asking", "persist"}
    BY DEF HealthIInv, RoundInv, RoundType
  <1>2. HealthTypeOK
    BY <1>1, Zenon
    DEF HealthIInv, TestInv, RoundInv, LatestKeyInv, SpamInv, HealthTypeOK
  <1>3. BurnedOnlyByListing
    BY DEF HealthIInv, TestInv, RoundInv, BurnedOnlyByListing, Real
  <1>4. KeyIsLastVerdict
    BY <1>2, Zenon DEF HealthIInv, LatestKeyInv, KeyIsLastVerdict
  <1>5. SpikeStopsSending
    BY DEF HealthIInv, SpamInv
  <1> QED BY <1>2, <1>3, <1>4, <1>5

\* A resolver that is refused everything is not listed at the zone's own test
\* point, and one that answers everything has no clean point: neither passes,
\* whichever lookups fail.
LEMMA SelfTestSound ==
  ASSUME NEW z \in Zones, kind[z] \in Kinds, NEW failed \in SUBSET (Zones \X Points),
         selfTestZone([p \in Points |-> query(z, p, <<z, p>> \in failed)])
  PROVE  kind[z] \in Real
  <1> DEFINE said == [p \in Points |-> query(z, p, <<z, p>> \in failed)]
  <1>1. /\ said["test"] = query(z, "test", <<z, "test">> \in failed)
        /\ said["clean"] = query(z, "clean", <<z, "clean">> \in failed)
        /\ said["doc1"] = query(z, "doc1", <<z, "doc1">> \in failed)
        /\ said["doc2"] = query(z, "doc2", <<z, "doc2">> \in failed)
    BY DEF Points
  <1>2. /\ said["test"] = "listed"
        /\ said["clean"] = "clean" \/ said["doc1"] = "clean" \/ said["doc2"] = "clean"
    BY DEF selfTestZone, secondOpinion
  <1>3. kind[z] # "stub"
    BY <1>1, <1>2 DEF query, ZoneReply
  <1>4. kind[z] # "wildcard"
    BY <1>1, <1>2 DEF query, ZoneReply
  <1> QED BY <1>3, <1>4, IPHealthAssumption, Zenon DEF Real

\* A node that starts has no verdict.
LEMMA HealthInitInv == HealthInit => HealthIInv
  <1> SUFFICES ASSUME HealthInit PROVE HealthIInv
    OBVIOUS
  <1>1. round = [at |-> "boot", todo |-> {}, on |-> {}, clean |-> {}] /\ reason = {}
    BY Zenon DEF HealthInit, NoRound
  <1>2. TestInv
    BY IPHealthAssumption, Zenon DEF HealthInit, TestInv
  <1>3. RoundInv
    BY <1>1 DEF RoundInv, RoundType
  <1>4. LatestKeyInv
    BY <1>1, Zenon DEF HealthInit, LatestKeyInv
  <1>5. SpamInv
    BY DEF HealthInit, SpamInv, SpikeStopsSending
  <1> QED BY <1>2, <1>3, <1>4, <1>5 DEF HealthIInv

\* SelfTest decides which zones are watched.
LEMMA SelfTestStep ==
  ASSUME HealthIInv, SelfTest, UNCHANGED env
  PROVE  HealthIInv'
  <1>1. /\ round.at = "boot" /\ round' = NoRound
        /\ UNCHANGED <<kind, onList, reason, resume, key, verdict, crossed, spam>>
    BY DEF SelfTest, world
  <1>2. TestInv'
    <2>1. PICK failed \in SUBSET (Zones \X Points) :
            LET said(z) == [p \in Points |-> query(z, p, <<z, p>> \in failed)]
                kept    == {z \in Zones : selfTestZone(said(z))}
            IN  /\ zones' = IF kept = {} THEN zones ELSE kept
                /\ trusted' = (kept # {})
      BY Zenon DEF SelfTest
    <2> DEFINE kept == {z \in Zones :
                  selfTestZone([p \in Points |-> query(z, p, <<z, p>> \in failed)])}
    <2>2. zones' = (IF kept = {} THEN zones ELSE kept) /\ trusted' = (kept # {})
      BY <2>1
    <2>3. \A z \in kept : z \in Zones /\ kind[z] \in Real
      BY SelfTestSound DEF HealthIInv, TestInv
    <2> HIDE DEF kept
    <2> QED BY <1>1, <2>2, <2>3 DEF HealthIInv, TestInv
  <1>3. round' = [at |-> "idle", todo |-> {}, on |-> {}, clean |-> {}]
    BY <1>1 DEF NoRound
  <1>4. RoundInv'
    BY <1>1, <1>3 DEF HealthIInv, RoundInv, RoundType
  <1>5. LatestKeyInv'
    BY <1>1, <1>3 DEF HealthIInv, LatestKeyInv
  <1>6. SpamInv'
    BY <1>1, Zenon DEF HealthIInv, SpamInv, SpikeStopsSending, spam
  <1> QED BY <1>2, <1>4, <1>5, <1>6 DEF HealthIInv

\* The four steps of a round after the self-test; what they leave alone.
LEMMA RoundFrame ==
  ASSUME HealthIInv, UNCHANGED <<env, world, test, spam>>, RoundInv', LatestKeyInv'
  PROVE  HealthIInv'
  <1>1. TestInv'
    BY Zenon DEF HealthIInv, TestInv, world, test
  <1>2. SpamInv'
    BY Zenon DEF HealthIInv, SpamInv, SpikeStopsSending, spam
  <1> QED BY <1>1, <1>2 DEF HealthIInv

\* A round begins with every watched zone to ask.
LEMMA BeginRoundStep ==
  ASSUME HealthIInv, Begin, UNCHANGED env
  PROVE  HealthIInv'
  <1>1. /\ round.at = "idle" /\ trusted
        /\ UNCHANGED <<world, test, reason, resume, key, verdict, crossed, spam>>
        /\ round' = [at |-> "asking", todo |-> zones, on |-> {}, clean |-> {}]
    BY Zenon DEF Begin, NoRound
  <1>2. RoundInv'
    BY <1>1 DEF HealthIInv, TestInv, RoundInv, RoundType, test
  <1>3. LatestKeyInv'
    BY <1>1 DEF HealthIInv, LatestKeyInv
  <1> QED BY <1>1, <1>2, <1>3, RoundFrame

\* One query of a round: a zone is on, clean or silent.
LEMMA QueryStep ==
  ASSUME HealthIInv, NEW z \in Zones, NEW failed, Query(z, failed), UNCHANGED env
  PROVE  HealthIInv'
  <1> DEFINE on == IF query(z, "ip", failed) = "listed" THEN round.on \cup {z} ELSE round.on
             clean == IF query(z, "ip", failed) = "clean" THEN round.clean \cup {z}
                                                           ELSE round.clean
  <1>1. /\ round.at = "asking" /\ z \in round.todo
        /\ UNCHANGED <<world, test, reason, resume, key, verdict, crossed, spam>>
        /\ round' = [round EXCEPT !.todo = round.todo \ {z}, !.on = on, !.clean = clean]
    BY Zenon DEF Query
  <1>2. round \in RoundType
    BY DEF HealthIInv, RoundInv
  <1>3. round' = [at |-> "asking", todo |-> round.todo \ {z}, on |-> on, clean |-> clean]
    BY <1>1, <1>2, Zenon DEF RoundType
  <1>4. /\ \/ on = round.on \cup {z} /\ clean = round.clean
           \/ on = round.on /\ clean = round.clean \cup {z}
           \/ on = round.on /\ clean = round.clean
    OBVIOUS
  <1> HIDE DEF on, clean
  <1>5. RoundInv'
    BY <1>1, <1>3, <1>4 DEF HealthIInv, TestInv, RoundInv, RoundType, test
  <1>6. LatestKeyInv'
    BY <1>1, <1>3 DEF HealthIInv, LatestKeyInv
  <1> QED BY <1>1, <1>5, <1>6, RoundFrame

\* The round's verdict is owed to the key from here until Persist.
LEMMA PublishStep ==
  ASSUME HealthIInv, Publish, UNCHANGED env
  PROVE  HealthIInv'
  <1>1. /\ round.at = "asking" /\ round.todo = {}
        /\ reason' = round.on /\ verdict' = round.on
        /\ UNCHANGED <<world, test, resume, key, spam>>
        /\ crossed' = (crossed \/ resume = "persist")
    BY Zenon DEF Publish
  <1>2. round' = [round EXCEPT !.at = "persist"] /\ round \in RoundType
    BY DEF Publish, HealthIInv, RoundInv
  <1>3. round' = [at |-> "persist", todo |-> {}, on |-> round.on, clean |-> round.clean]
    BY <1>1, <1>2 DEF RoundType
  <1>4. RoundInv'
    BY <1>1, <1>3 DEF HealthIInv, RoundInv, RoundType, test
  <1>5. round'.at = "persist" /\ round'.on = round.on /\ round.on \subseteq Zones
    BY <1>2, <1>3 DEF RoundType
  <1>6. LatestKeyInv'
    BY <1>1, <1>5, Zenon DEF HealthIInv, LatestKeyInv
  <1> QED BY <1>1, <1>4, <1>6, RoundFrame

\* The verdict of a round goes to Redis.
LEMMA PersistStep ==
  ASSUME HealthIInv, NEW failed \in {FALSE, env.lapses}, Persist(failed), UNCHANGED env
  PROVE  HealthIInv'
  <1>1. /\ round.at = "persist" /\ round' = NoRound
        /\ key' = IF failed THEN key ELSE round.on
        /\ UNCHANGED <<world, test, reason, resume, verdict, crossed, spam>>
    BY DEF Persist
  <1>2. round' = [at |-> "idle", todo |-> {}, on |-> {}, clean |-> {}]
    BY <1>1 DEF NoRound
  <1>3. RoundInv'
    BY <1>1, <1>2 DEF HealthIInv, RoundInv, RoundType, test
  <1>4. round.on \subseteq Zones /\ round'.at = "idle"
    BY <1>2 DEF HealthIInv, RoundInv, RoundType
  <1>5. LatestKeyInv'
    BY <1>1, <1>4, Zenon DEF HealthIInv, LatestKeyInv
  <1> QED BY <1>1, <1>3, <1>5, RoundFrame

\* Resume clears the verdict in memory.
LEMMA ResumeMemStep ==
  ASSUME HealthIInv, ResumeMem, UNCHANGED env
  PROVE  HealthIInv'
  <1>1. /\ resume = "idle" /\ reason' = {} /\ verdict' = {} /\ resume' = "persist"
        /\ UNCHANGED <<world, test, round, key, spam>>
        /\ crossed' = (crossed \/ round.at = "persist")
    BY Zenon DEF ResumeMem
  <1>2. RoundInv'
    BY <1>1, Zenon DEF HealthIInv, RoundInv, test
  <1>3. LatestKeyInv'
    BY <1>1, Zenon DEF HealthIInv, LatestKeyInv
  <1> QED BY <1>1, <1>2, <1>3, RoundFrame

\* Resume clears it in Redis.
LEMMA ResumePersistStep ==
  ASSUME HealthIInv, NEW failed \in {FALSE, env.lapses}, ResumePersist(failed), UNCHANGED env
  PROVE  HealthIInv'
  <1>1. /\ resume = "persist" /\ resume' = "idle"
        /\ key' = IF failed THEN key ELSE {}
        /\ UNCHANGED <<world, test, reason, round, verdict, crossed, spam>>
    BY DEF ResumePersist
  <1>2. RoundInv'
    BY <1>1, Zenon DEF HealthIInv, RoundInv, test
  <1>3. LatestKeyInv'
    BY <1>1, Zenon DEF HealthIInv, LatestKeyInv
  <1> QED BY <1>1, <1>2, <1>3, RoundFrame

\* The steps of the complaints touch nothing of the standing.
LEMMA SpamFrame ==
  ASSUME HealthIInv, UNCHANGED <<env, world, test, reason, round, resume, key, verdict, crossed>>,
         SpamInv'
  PROVE  HealthIInv'
  <1>1. TestInv' /\ RoundInv' /\ LatestKeyInv'
    BY Zenon DEF HealthIInv, TestInv, RoundInv, LatestKeyInv, world, test
  <1> QED BY <1>1 DEF HealthIInv

\* A complaint is recorded, and sending has to be asked about again.
LEMMA ObserveComplaintStep ==
  ASSUME HealthIInv, ObserveComplaint, UNCHANGED env
  PROVE  HealthIInv'
  <1>1. PICK n :
        /\ history' = [i \in DOMAIN history \cup {n} |-> IF i = n THEN 0 ELSE history[i]]
        /\ complaints' = [i \in DOMAIN complaints \cup {n} |->
                            IF i = n THEN 0 ELSE complaints[i]]
        /\ sending' = "unasked"
        /\ UNCHANGED <<world, test, reason, round, resume, key, verdict, crossed>>
    BY Zenon DEF ObserveComplaint
  <1>2. DOMAIN history' = DOMAIN history \cup {n}
        /\ DOMAIN complaints' = DOMAIN complaints \cup {n}
    BY <1>1
  <1>3. /\ \A i \in DOMAIN history' : history'[i] = IF i = n THEN 0 ELSE history[i]
        /\ \A i \in DOMAIN complaints' : complaints'[i] = IF i = n THEN 0 ELSE complaints[i]
    BY <1>1
  <1>4. SpamInv'
    BY <1>1, <1>2, <1>3 DEF HealthIInv, SpamInv, SpikeStopsSending
  <1> QED BY <1>1, <1>4, SpamFrame

\* Nothing dropped still counted, so the count is the count of the history.
LEMMA SendingPausedStep ==
  ASSUME HealthIInv, SendingPaused, UNCHANGED env
  PROVE  HealthIInv'
  <1> DEFINE recent == {i \in DOMAIN history : history[i] < Window}
  <1>1. /\ complaints' = [i \in Kept(complaints) |-> complaints[i]]
        /\ sending' \in {"stopped", "open"}
        /\ UNCHANGED <<world, test, reason, round, resume, key, verdict, crossed, history>>
    BY DEF SendingPaused
  <1>2. Kept(complaints) \subseteq recent /\ (~env.restarts => Kept(complaints) = recent)
    BY DEF HealthIInv, SpamInv, Kept
  <1>3. /\ DOMAIN complaints' = Kept(complaints)
        /\ \A i \in DOMAIN complaints' : complaints'[i] = history[i]
    BY <1>1 DEF HealthIInv, SpamInv, Kept
  <1>4. SpikeStopsSending'
    BY <1>1, <1>2 DEF SendingPaused, SpikeStopsSending
  <1>5. SpamInv'
    BY <1>1, <1>2, <1>3, <1>4 DEF HealthIInv, SpamInv
  <1> QED BY <1>1, <1>5, SpamFrame

\* Complaints age.
LEMMA HealthTickStep ==
  ASSUME HealthIInv, HealthTick, UNCHANGED env
  PROVE  HealthIInv'
  <1>1. /\ complaints' = Age(complaints) /\ history' = Age(history) /\ sending' = "unasked"
        /\ UNCHANGED <<world, test, reason, round, resume, key, verdict, crossed>>
    BY DEF HealthTick
  <1>2. DOMAIN history' = DOMAIN history /\ DOMAIN complaints' = DOMAIN complaints
    BY <1>1 DEF Age
  <1>3. \A i \in DOMAIN history : /\ history'[i] \in Nat
                                  /\ history'[i] < Window => history[i] < Window
    BY <1>1, IPHealthAssumption DEF Age, Gone, HealthIInv, TestInv, SpamInv
  <1>4. \A i \in DOMAIN complaints : complaints'[i] = history'[i]
    BY <1>1 DEF Age, HealthIInv, SpamInv
  <1>5. SpamInv'
    BY <1>1, <1>2, <1>3, <1>4 DEF HealthIInv, SpamInv, SpikeStopsSending
  <1> QED BY <1>1, <1>5, SpamFrame

\* A zone lists the address, or delists it.
LEMMA ListStep ==
  ASSUME HealthIInv, NEW z \in Zones, List(z), UNCHANGED env
  PROVE  HealthIInv'
  <1>1. UNCHANGED <<kind, test, reason, round, resume, key, verdict, crossed, spam>>
    BY DEF List
  <1>2. TestInv' /\ RoundInv' /\ LatestKeyInv'
    BY <1>1, Zenon DEF HealthIInv, TestInv, RoundInv, LatestKeyInv, test
  <1>3. SpamInv'
    BY <1>1, Zenon DEF HealthIInv, SpamInv, SpikeStopsSending, spam
  <1> QED BY <1>2, <1>3 DEF HealthIInv

\* A restart in the middle of a write is what the observer calls crossed.
LEMMA RestartStep ==
  ASSUME HealthIInv, Restart, UNCHANGED env
  PROVE  HealthIInv'
  <1>1. /\ env.restarts
        /\ zones' = Zones /\ trusted' = FALSE /\ reason' = {} /\ resume' = "idle"
        /\ crossed' = (crossed \/ round.at = "persist" \/ resume = "persist")
        /\ complaints' = <<>> /\ sending' = "unasked"
        /\ UNCHANGED <<world, key, verdict, history>>
    BY Zenon DEF Restart
  <1>2. round' = [at |-> "boot", todo |-> {}, on |-> {}, clean |-> {}]
    BY Zenon DEF Restart, NoRound
  <1>3. TestInv'
    BY <1>1, IPHealthAssumption, Zenon DEF HealthIInv, TestInv, world
  <1>4. RoundInv'
    BY <1>1, <1>2 DEF RoundInv, RoundType
  <1>5. round'.at = "boot"
    BY <1>2
  <1>6. LatestKeyInv'
    BY <1>1, <1>5, Zenon DEF HealthIInv, LatestKeyInv
  <1>7. SpamInv'
    BY <1>1 DEF HealthIInv, SpamInv, SpikeStopsSending
  <1> QED BY <1>3, <1>4, <1>6, <1>7 DEF HealthIInv

\* Every step keeps the invariant.
LEMMA HealthNextInv == HealthIInv /\ [HealthNext]_<<env, healthVars>> => HealthIInv'
  <1> SUFFICES ASSUME HealthIInv, [HealthNext]_<<env, healthVars>> PROVE HealthIInv'
    OBVIOUS
  <1>1. CASE HealthNext
    <2>1. UNCHANGED env
      BY <1>1 DEF HealthNext
    <2>2. CASE SelfTest \/ Begin \/ Publish
      BY <2>1, <2>2, SelfTestStep, BeginRoundStep, PublishStep
    <2>3. ASSUME NEW failed \in {FALSE, env.lapses},
                 \/ Persist(failed) \/ ResumePersist(failed)
                 \/ \E z \in Zones : Query(z, failed)
          PROVE  HealthIInv'
      BY <2>1, <2>3, PersistStep, ResumePersistStep, QueryStep, Zenon
    <2>4. CASE ResumeMem \/ ObserveComplaint \/ SendingPaused \/ HealthTick \/ Restart
      BY <2>1, <2>4, ResumeMemStep, ObserveComplaintStep, SendingPausedStep,
         HealthTickStep,
         RestartStep
    <2>5. ASSUME NEW z \in Zones, List(z) PROVE HealthIInv'
      BY <2>1, <2>5, ListStep
    <2> QED BY <1>1, <2>2, <2>3, <2>4, <2>5, Zenon DEF HealthNext, Round
  <1>2. CASE UNCHANGED <<env, healthVars>>
    <2>1. UNCHANGED <<env, world, test, reason, round, resume, key, verdict, crossed, spam>>
      BY <1>2, Zenon DEF healthVars
    <2>2. RoundInv' /\ LatestKeyInv'
      BY <2>1, Zenon DEF HealthIInv, RoundInv, LatestKeyInv, test
    <2> QED BY <2>1, <2>2, RoundFrame
  <1> QED BY <1>1, <1>2

\* No resolver that is refused everything, or that answers everything, ever stands
\* the node down: whatever the number of zones and whichever lookups fail.
THEOREM IPHealthBurnedOnlyByListing == HealthSpec => []BurnedOnlyByListing
  BY HealthInitInv, HealthNextInv, HealthSafe, PTL DEF HealthSpec

\* ip:health:<ip> is the last verdict once nobody is writing it.
THEOREM IPHealthKeyIsLastVerdict == HealthSpec => []KeyIsLastVerdict
  BY HealthInitInv, HealthNextInv, HealthSafe, PTL DEF HealthSpec

\* SendingPaused answers by exactly the complaints of the window, whatever the
\* window and the threshold.
THEOREM IPHealthSpikeStopsSending == HealthSpec => []SpikeStopsSending
  BY HealthInitInv, HealthNextInv, HealthSafe, PTL DEF HealthSpec
=============================================================================

---------------------------- MODULE MxSimProofs ----------------------------
(***************************************************************************)
(* What ClassifyAs and beforeRCPT make of every reply, whatever its code,  *)
(* enhanced code and wording; and the simulated mail exchanger, for any    *)
(* number of addresses and connections, any profiles and any schedule of   *)
(* its clients, its operators and the clock.                               *)
(*                                                                         *)
(* The invariant joins a session's own order, the engine's counts, what    *)
(* the engine remembers of the times of RCPTs and of greylisted addresses, *)
(* and what the observers saw: the rate limit is kept because each RCPT    *)
(* let past is remembered, or a newer one is, in spite of the pruning, and *)
(* a verdict is true because the engine has never known an address for     *)
(* longer than since it asked.                                             *)
(***************************************************************************)
EXTENDS MxSim, TLAPS

(* A record update usable in every leaf: the SMT backend then leaves the   *)
(* leaf untyped.  Type inference is most of the time these proofs would    *)
(* take otherwise.                                                         *)
Blank == [field |-> 0]
Blanks == {Blank}

\* Writing the value a field already has changes nothing.
LEMMA Untyped == [Blank EXCEPT !.field = 0] \in Blanks
  BY DEF Blank, Blanks

USE Untyped
-----------------------------------------------------------------------------
(* The replies *)

\* classifyPermanent calls a mailbox missing exactly where the reply, taken as
\* a permanent refusal, condemns one.
LEMMA PermanentCondemns ==
  ASSUME NEW r \in Reply, Refusal(r)
  PROVE  classifyPermanent(r) = "invalid" <=> Condemns(r)
<1>1. SubjectRule(r) = "invalid" <=>
        /\ ~(subject(r) = 2 /\ detail(r) = 2)
        /\ Sender(r) /\ subject(r) \notin {1, 2} => Says(r, "mailbox")
        /\ subject(r) \in {4, 7} => Says(r, "mailbox")
  BY DEF SubjectRule
<1>2. Sender(r) <=> NamesUs(r)
  BY DEF Sender, NamesUs
<1> QED BY <1>1, <1>2 DEF classifyPermanent, Condemns, FullMailbox

\* ClassifyAs says "invalid" exactly for the replies that condemn the mailbox.
THEOREM InvalidIsCondemned ==
  ASSUME NEW r \in Reply
  PROVE  ClassifyAs(r) = "invalid" <=> Condemns(r)
<1>1. r.code \in Int
  BY DEF Reply
<1>2. CASE Refusal(r)
  <2>1. ClassifyAs(r) = classifyPermanent(r)
    BY <1>1, <1>2 DEF ClassifyAs, Refusal, Grey, Temporary, Permanent
  <2> QED BY <1>2, <2>1, PermanentCondemns
<1>3. CASE ~Refusal(r)
  <2>1. ClassifyAs(r) # "invalid"
    BY <1>1, <1>3 DEF ClassifyAs, Refusal, Grey, Temporary, Permanent
  <2> QED BY <1>3, <2>1 DEF Condemns
<1> QED BY <1>2, <1>3

\* Nothing classifyPermanent says is a throttle.
LEMMA PermanentNoThrottle ==
  ASSUME NEW r \in Reply
  PROVE  classifyPermanent(r) \in {"policy", "valid", "invalid"}
  BY DEF classifyPermanent, SubjectRule

\* ClassifyAs says something the pacer counts exactly for the replies that tell
\* us to slow down.
THEOREM ThrottleIsSlow ==
  ASSUME NEW r \in Reply
  PROVE  IsThrottle(ClassifyAs(r)) <=> SlowsUs(r)
<1>1. r.code \in Int
  BY DEF Reply
<1>2. ~IsThrottle(classifyPermanent(r))
  BY PermanentNoThrottle DEF IsThrottle
<1>3. IsThrottle(ClassifyAs(r)) <=> ClassifyAs(r) = "throttled"
  BY <1>2 DEF ClassifyAs, IsThrottle
<1>4. classifyPermanent(r) # "throttled"
  BY <1>2 DEF IsThrottle
<1> QED BY <1>1, <1>3, <1>4 DEF ClassifyAs, SlowsUs, Grey, Encrypt, Temporary, Permanent

\* A reply before any RCPT is no verdict on an address.
THEOREM BeforeRCPTNoVerdict ==
  ASSUME NEW r \in Reply
  PROVE  ~Verdict(beforeRCPT(r))
  BY DEF beforeRCPT, Verdict
-----------------------------------------------------------------------------
(* Times *)

\* What the library says of finite sets and of the naturals. It is brought in, and this
\* is proved, where the lemmas come together: up to there they are stated under it.
Counts == \A S : IsFiniteSet(S) => Cardinality(S) \in Nat
CountsNone == IsFiniteSet({}) /\ Cardinality({}) = 0
CountsOne == \A x : Cardinality({x}) = 1
CountsPart ==
  \A S : IsFiniteSet(S) =>
    \A T \in SUBSET S : IsFiniteSet(T) /\ Cardinality(T) <= Cardinality(S)
CountsMore ==
  \A S, x : IsFiniteSet(S) =>
    /\ IsFiniteSet(S \cup {x})
    /\ Cardinality(S \cup {x}) = IF x \in S THEN Cardinality(S) ELSE Cardinality(S) + 1
CountsLess ==
  \A S, x : IsFiniteSet(S) =>
    /\ IsFiniteSet(S \ {x})
    /\ Cardinality(S \ {x}) = IF x \in S THEN Cardinality(S) - 1 ELSE Cardinality(S)
HasLeast == \A T \in SUBSET Nat : T # {} => \E x \in T : \A y \in T : x <= y

Library ==
  /\ Counts /\ CountsNone /\ CountsOne /\ CountsPart /\ CountsMore /\ CountsLess
  /\ HasLeast

\* The kth newest of some ages, counted from 0.
Kth(t, k) == t[Len(t) - k]

\* Ages below h that are in order, no more than depth.
Ordered(t, depth, h) ==
  /\ t \in Seq(Nat) /\ Len(t) <= depth
  /\ \A k \in 1 .. Len(t) : t[k] < h
  /\ \A i, j \in 1 .. Len(t) : i <= j => t[j] <= t[i]

Times(t, depth) == Ordered(t, depth, Horizon)

\* The newest n are the last n.
LEMMA NewestIs ==
  ASSUME NEW t \in Seq(Nat), NEW n \in 0 .. Len(t)
  PROVE  /\ Newest(t, n) \in Seq(Nat) /\ Len(Newest(t, n)) = n
         /\ \A i \in 1 .. n : Newest(t, n)[i] = t[Len(t) - n + i]
         /\ \A k \in 0 .. n - 1 : Kth(Newest(t, n), k) = Kth(t, k)
<1> DEFINE m == Len(t) - n + 1  u == SubSeq(t, m, Len(t))
<1>1. Len(t) \in Nat /\ n \in Nat /\ n <= Len(t) /\ \A i \in 1 .. Len(t) : t[i] \in Nat
  OBVIOUS
<1>0. Len(t) \in Nat /\ n \in Nat /\ n <= Len(t)
  BY <1>1
<1>2. m \in Int /\ Len(t) \in Int /\ m >= 1
  BY <1>0
<1>3. \A i \in m .. Len(t) : t[i] \in Nat
  BY <1>1, <1>2
<1> HIDE DEF m
<1>4. /\ u \in Seq(Nat) /\ Len(u) = (IF m <= Len(t) THEN Len(t) - m + 1 ELSE 0)
      /\ \A i \in 1 .. Len(t) - m + 1 : u[i] = t[m + i - 1]
  BY <1>1, <1>2, <1>3
<1> HIDE DEF u
<1>5. Len(u) = n
  BY <1>1, <1>4 DEF m
<1>6. \A i \in 1 .. n : u[i] = t[Len(t) - n + i]
  <2> TAKE i \in 1 .. n
  <2>1. i \in 1 .. Len(t) - m + 1 /\ m + i - 1 = Len(t) - n + i
    BY <1>0 DEF m
  <2> QED BY <2>1, <1>4, Zenon
<1>7. \A k \in 0 .. n - 1 : Kth(u, k) = Kth(t, k)
  <2> TAKE k \in 0 .. n - 1
  <2>1. n - k \in 1 .. n /\ Len(t) - n + (n - k) = Len(t) - k
    BY <1>0
  <2>2. u[n - k] = t[Len(t) - n + (n - k)]
    BY <2>1, <1>6, Zenon
  <2> QED BY <2>1, <2>2, <1>5, Zenon DEF Kth
<1>8. u = Newest(t, n)
  BY DEF Newest, u, m
<1> QED BY <1>4, <1>5, <1>6, <1>7, <1>8

\* One more time is remembered, and the oldest forgotten beyond the depth.
LEMMA StampIs ==
  ASSUME NEW depth \in Nat, NEW t, Times(t, depth)
  PROVE  /\ Times(Stamp(t, depth), depth)
         /\ Len(Stamp(t, depth)) = IF Len(t) < depth THEN Len(t) + 1 ELSE depth
         /\ \A k \in 0 .. Len(Stamp(t, depth)) - 1 :
              Kth(Stamp(t, depth), k) = IF k = 0 THEN 0 ELSE Kth(t, k - 1)
<1> DEFINE all == Append(t, 0)
           n == IF Len(all) > depth THEN depth ELSE Len(all)
           u == Newest(all, n)
<1>1. /\ t \in Seq(Nat) /\ Len(t) \in Nat /\ Len(t) <= depth
      /\ \A k \in 1 .. Len(t) : t[k] \in Nat /\ t[k] < Horizon
      /\ \A i, j \in 1 .. Len(t) : i <= j => t[j] <= t[i]
  BY DEF Times, Ordered
<1>2. /\ all \in Seq(Nat) /\ Len(all) = Len(t) + 1 /\ all[Len(t) + 1] = 0
      /\ \A i \in 1 .. Len(t) : all[i] = t[i]
  BY <1>1
<1> HIDE DEF all
<1>3. n \in 0 .. Len(all) /\ n <= depth /\ n = (IF Len(t) < depth THEN Len(t) + 1 ELSE depth)
  BY <1>1, <1>2
<1> HIDE DEF n
<1>4. /\ u \in Seq(Nat) /\ Len(u) = n
      /\ \A i \in 1 .. n : u[i] = all[Len(all) - n + i]
      /\ \A k \in 0 .. n - 1 : Kth(u, k) = Kth(all, k)
  BY Zenon, <1>2, <1>3, NewestIs
<1> HIDE DEF u
<1>5. \A i \in 1 .. Len(all) : all[i] < Horizon
  BY <1>1, <1>2, MxSimAssumption
<1>6. ASSUME NEW i \in 1 .. Len(all), NEW j \in 1 .. Len(all), i <= j
      PROVE  all[j] <= all[i]
  <2>1. all[i] \in Nat /\ i \in 1 .. Len(t) + 1 /\ j \in 1 .. Len(t) + 1
    BY <1>1, <1>2
  <2>2. CASE j = Len(t) + 1
    BY <2>1, <2>2, <1>2
  <2>3. CASE j # Len(t) + 1
    <3>1. i \in 1 .. Len(t) /\ j \in 1 .. Len(t)
      BY <2>1, <2>3, <1>1, <1>6
    <3> QED BY Zenon, <3>1, <1>1, <1>2, <1>6
  <2> QED BY <2>2, <2>3
<1>7. Times(u, depth)
  <2>0. Len(all) \in Nat /\ n \in 0 .. Len(all)
    BY <1>1, <1>2, <1>3
  <2>1. \A i \in 1 .. n : Len(all) - n + i \in 1 .. Len(all)
    BY <2>0
  <2>3. \A i \in 1 .. n : u[i] < Horizon
    BY Zenon, <2>1, <1>4, <1>5
  <2>4. ASSUME NEW i \in 1 .. n, NEW j \in 1 .. n, i <= j PROVE u[j] <= u[i]
    <3> DEFINE x == Len(all) - n + i  y == Len(all) - n + j
    <3>1. x \in 1 .. Len(all) /\ y \in 1 .. Len(all) /\ x <= y
      BY <2>0, <2>1, <2>4
    <3>2. u[i] = all[x] /\ u[j] = all[y]
      BY <1>4
    <3> HIDE DEF x, y
    <3> QED BY <3>1, <3>2, <1>6
  <2> QED BY <1>3, <1>4, <2>3, <2>4 DEF Times, Ordered
<1>8. \A k \in 0 .. n - 1 : Kth(u, k) = IF k = 0 THEN 0 ELSE Kth(t, k - 1)
  <2> TAKE k \in 0 .. n - 1
  <2>0. Kth(all, k) = all[Len(t) + 1 - k]
    BY <1>2 DEF Kth
  <2>1. Kth(u, k) = all[Len(t) + 1 - k]
    BY <2>0, <1>4, Zenon
  <2>2. CASE k = 0
    BY <2>1, <2>2, <1>1, <1>2
  <2>3. CASE k # 0
    <3>0. Len(t) \in Nat /\ n \in Nat /\ n <= Len(t) + 1
      BY <1>1, <1>2, <1>3
    <3>1. Len(t) + 1 - k \in 1 .. Len(t) /\ Len(t) - (k - 1) = Len(t) + 1 - k
      BY <2>3, <3>0
    <3>2. all[Len(t) + 1 - k] = t[Len(t) - (k - 1)]
      BY <3>1, <1>2
    <3> QED BY <3>2, <2>1, <2>3 DEF Kth
  <2> QED BY <2>2, <2>3
<1>9. u = Stamp(t, depth)
  BY DEF u, n, all, Stamp
<1> QED BY <1>3, <1>4, <1>7, <1>8, <1>9

\* prune drops from the front what lies outside the window: what is left are the
\* newest, all those in the window among them.
LEMMA PruneIs ==
  ASSUME Library, NEW t \in Seq(Nat), NEW w \in Nat
  PROVE  \E n \in 0 .. Len(t) :
           /\ prune(t, w) = Newest(t, n)
           /\ \A k \in 0 .. Len(t) - 1 : Kth(t, k) < w => k < n
           /\ n > 0 => t[Len(t) - n + 1] < w
<1> DEFINE Stops(i) == /\ \A j \in 1 .. i : t[j] >= w
                       /\ i < Len(t) => t[i + 1] < w
           T == {i \in Nat : i = Len(t) \/ (i < Len(t) /\ t[i + 1] < w)}
<1>0. Len(t) \in Nat /\ \A j \in 1 .. Len(t) : t[j] \in Nat
  OBVIOUS
<1>1. PICK x \in T : \A y \in T : x <= y
  <2>1. T \in SUBSET Nat /\ Len(t) \in T
    BY <1>0
  <2> HIDE DEF T
  <2>2. HasLeast
    BY DEF Library
  <2> QED BY <2>1, <2>2, Zenon DEF HasLeast
<1>2. x \in 0 .. Len(t) /\ Stops(x)
  <2>1. x \in 0 .. Len(t) /\ (x < Len(t) => t[x + 1] < w)
    BY <1>0
  <2>2. ASSUME NEW j \in 1 .. x PROVE t[j] >= w
    <3>1. j - 1 \in Nat /\ j - 1 < x /\ j - 1 < Len(t) /\ j - 1 + 1 = j /\ t[j] \in Nat
      BY <2>1, <1>0
    <3>2. j - 1 \notin T
      <4> HIDE DEF T
      <4> QED BY <3>1, <2>1, <1>1
    <3>3. ~(t[j] < w)
      BY <3>1, <3>2
    <3> QED BY <3>1, <3>3
  <2> QED BY <2>1, <2>2
<1> DEFINE i == CHOOSE i \in 0 .. Len(t) : Stops(i)
<1>3. i \in 0 .. Len(t) /\ Stops(i)
  <2> HIDE DEF Stops
  <2> QED BY <1>2
<1>4. prune(t, w) = Newest(t, Len(t) - i)
  BY DEF prune
<1> HIDE DEF i
<1>5. Len(t) - i \in 0 .. Len(t)
  BY <1>0, <1>3
<1>6. ASSUME NEW k \in 0 .. Len(t) - 1, Kth(t, k) < w PROVE k < Len(t) - i
  <2>1. Len(t) - k \in 1 .. Len(t) /\ t[Len(t) - k] < w
    BY <1>6, <1>0 DEF Kth
  <2>2. t[Len(t) - k] \in Nat
    BY <2>1, <1>0
  <2>3. Len(t) - k \notin 1 .. i
    BY <2>1, <2>2, <1>3
  <2> QED BY <2>1, <2>3, <1>0, <1>3
<1>7. Len(t) - i > 0 => t[Len(t) - (Len(t) - i) + 1] < w
  <2>1. Len(t) - (Len(t) - i) + 1 = i + 1 /\ (Len(t) - i > 0 => i < Len(t))
    BY <1>0, <1>3
  <2> QED BY <2>1, <1>3
<1> QED BY <1>4, <1>5, <1>6, <1>7

\* What prune leaves is in order, and lies in the window.
LEMMA Pruned ==
  ASSUME Library,
         NEW depth \in Nat, NEW h \in Nat, NEW t, Ordered(t, depth, h), NEW w \in Nat
  PROVE  /\ Ordered(prune(t, w), depth, h) /\ Len(prune(t, w)) <= Len(t)
         /\ \A k \in 0 .. Len(prune(t, w)) - 1 : Kth(prune(t, w), k) = Kth(t, k)
         /\ \A k \in 0 .. Len(t) - 1 : Kth(t, k) < w => k < Len(prune(t, w))
         /\ \A i \in 1 .. Len(prune(t, w)) : prune(t, w)[i] < w
<1> DEFINE u == prune(t, w)
<1>1. /\ t \in Seq(Nat) /\ Len(t) \in Nat /\ Len(t) <= depth
      /\ \A i \in 1 .. Len(t) : t[i] \in Nat /\ t[i] < h
      /\ \A i, j \in 1 .. Len(t) : i <= j => t[j] <= t[i]
  BY DEF Ordered
<1>2. PICK n \in 0 .. Len(t) :
           /\ u = Newest(t, n)
           /\ \A k \in 0 .. Len(t) - 1 : Kth(t, k) < w => k < n
           /\ n > 0 => t[Len(t) - n + 1] < w
  BY Zenon, <1>1, PruneIs
<1>0. Len(t) \in Nat /\ n \in 0 .. Len(t)
  BY <1>1
<1> HIDE DEF u
<1>3. /\ u \in Seq(Nat) /\ Len(u) = n
      /\ \A i \in 1 .. n : u[i] = t[Len(t) - n + i]
      /\ \A k \in 0 .. n - 1 : Kth(u, k) = Kth(t, k)
  <2>1. /\ Newest(t, n) \in Seq(Nat) /\ Len(Newest(t, n)) = n
        /\ \A i \in 1 .. n : Newest(t, n)[i] = t[Len(t) - n + i]
        /\ \A k \in 0 .. n - 1 : Kth(Newest(t, n), k) = Kth(t, k)
    BY <1>1, NewestIs, Zenon
  <2> QED BY <2>1, <1>2, Zenon
<1>4. ASSUME NEW i \in 1 .. n PROVE u[i] < h /\ u[i] < w
  <2> DEFINE x == Len(t) - n + i  y == Len(t) - n + 1
  <2>1. x \in 1 .. Len(t) /\ y \in 1 .. Len(t) /\ y <= x /\ n > 0
    BY <1>0
  <2>2. u[i] = t[x] /\ t[y] < w
    BY <2>1, <1>2, <1>3
  <2> HIDE DEF x, y
  <2>3. t[x] \in Nat /\ t[y] \in Nat /\ t[x] <= t[y] /\ t[x] < h
    BY Zenon, <2>1, <1>1
  <2> QED BY <2>2, <2>3
<1>5. ASSUME NEW i \in 1 .. n, NEW j \in 1 .. n, i <= j PROVE u[j] <= u[i]
  <2> DEFINE x == Len(t) - n + i  y == Len(t) - n + j
  <2>1. x \in 1 .. Len(t) /\ y \in 1 .. Len(t) /\ x <= y
    BY <1>0, <1>5
  <2>2. u[i] = t[x] /\ u[j] = t[y]
    BY <1>3
  <2> HIDE DEF x, y
  <2> QED BY Zenon, <2>1, <2>2, <1>1
<1>6. n <= depth
  BY <1>1
<1> QED BY <1>2, <1>3, <1>4, <1>5, <1>6 DEF Ordered, u

\* Time passes: what is remembered is one older, or too old to matter.
LEMMA AgedIs ==
  ASSUME Library, NEW depth \in Nat, NEW t, Times(t, depth)
  PROVE  /\ Times(Aged(t), depth) /\ Len(Aged(t)) <= Len(t)
         /\ \A k \in 0 .. Len(Aged(t)) - 1 : Kth(Aged(t), k) = Kth(t, k) + 1
         /\ \A k \in 0 .. Len(t) - 1 : Kth(t, k) + 1 < Horizon => k < Len(Aged(t))
<1> DEFINE o == [i \in 1 .. Len(t) |-> t[i] + 1]  u == prune(o, Horizon)
<1>1. /\ t \in Seq(Nat) /\ Len(t) \in Nat /\ Len(t) <= depth /\ Horizon \in Nat
      /\ \A i \in 1 .. Len(t) : t[i] \in Nat /\ t[i] < Horizon
      /\ \A i, j \in 1 .. Len(t) : i <= j => t[j] <= t[i]
  BY MxSimAssumption DEF Times, Ordered
<1>2. /\ o \in Seq(Nat) /\ Len(o) = Len(t)
      /\ \A i \in 1 .. Len(t) : o[i] = t[i] + 1
  BY <1>1
<1>3. Aged(t) = u
  BY DEF Aged
<1> HIDE DEF o
<1>4. \A k \in 0 .. Len(t) - 1 : Kth(o, k) = Kth(t, k) + 1
  <2> TAKE k \in 0 .. Len(t) - 1
  <2>1. Len(t) - k \in 1 .. Len(t)
    BY <1>1
  <2> QED BY <2>1, <1>2 DEF Kth
<1>5. Ordered(o, depth, Horizon + 1) /\ Horizon + 1 \in Nat
  <2>1. \A i \in 1 .. Len(t) : o[i] < Horizon + 1
    BY <1>1, <1>2
  <2>2. \A i, j \in 1 .. Len(t) : i <= j => o[j] <= o[i]
    BY <1>1, <1>2
  <2> QED BY <1>1, <1>2, <2>1, <2>2 DEF Ordered
<1>6. /\ Ordered(u, depth, Horizon + 1) /\ Len(u) <= Len(o)
      /\ \A k \in 0 .. Len(u) - 1 : Kth(u, k) = Kth(o, k)
      /\ \A k \in 0 .. Len(o) - 1 : Kth(o, k) < Horizon => k < Len(u)
      /\ \A i \in 1 .. Len(u) : u[i] < Horizon
  BY Zenon, <1>1, <1>5, Pruned
<1> HIDE DEF u
<1>7. Times(u, depth) /\ Len(u) \in Nat
  BY <1>6 DEF Times, Ordered
<1>8. \A k \in 0 .. Len(u) - 1 : Kth(u, k) = Kth(t, k) + 1
  BY <1>1, <1>2, <1>4, <1>6, <1>7
<1>9. \A k \in 0 .. Len(t) - 1 : Kth(t, k) + 1 < Horizon => k < Len(u)
  BY <1>2, <1>4, <1>6
<1> QED BY <1>2, <1>3, <1>6, <1>7, <1>8, <1>9

\* A rule is exceeded when the count-th newest time, from 0, is in its window.
LEMMA ExceededBy ==
  ASSUME Library,
         NEW depth \in Nat, NEW t, Times(t, depth), NEW rule \in Rule, enabled(rule),
         rule.count < Len(t), Kth(t, rule.count) < rule.window
  PROVE  Exceeds(rule, t)
<1>1. rule.count \in Nat /\ rule.window \in Nat /\ Len(t) \in Nat /\ Horizon \in Nat
  BY MxSimAssumption DEF Rule, Times, Ordered
<1>2. \A k \in 0 .. Len(t) - 1 : Kth(t, k) < rule.window => k < Len(prune(t, rule.window))
  BY Zenon, <1>1, Pruned DEF Times
<1>3. rule.count \in 0 .. Len(t) - 1
  BY <1>1
<1>4. rule.count < Len(prune(t, rule.window))
  BY <1>2, <1>3
<1> QED BY <1>1, <1>4 DEF Exceeds
-----------------------------------------------------------------------------
(* The RCPT rate.  passed are the times of RCPTs let past the limit, times *)
(* those the engine remembers.                                             *)

\* No more than the count of them lie in the window.
Within(rule, passed) == Len(passed) > rule.count => Kth(passed, rule.count) >= rule.window

\* Each of them in the window is remembered, or a newer one is.
Covered(rule, times, passed) ==
  \A k \in 0 .. Len(passed) - 1 :
    Kth(passed, k) < rule.window => k < Len(times) /\ Kth(times, k) <= Kth(passed, k)

\* What the times are made of.
LEMMA TimesNat ==
  ASSUME NEW depth \in Nat, NEW t, Times(t, depth)
  PROVE  /\ Len(t) \in Nat /\ Len(t) <= depth
         /\ \A k \in 0 .. Len(t) - 1 : Kth(t, k) \in Nat
         /\ \A k \in 0 .. Len(t) - 1 :
              k > 0 => k - 1 \in 0 .. Len(t) - 1 /\ Kth(t, k - 1) <= Kth(t, k)
<1>1. /\ t \in Seq(Nat) /\ Len(t) \in Nat /\ Len(t) <= depth
      /\ \A i \in 1 .. Len(t) : t[i] \in Nat
      /\ \A i, j \in 1 .. Len(t) : i <= j => t[j] <= t[i]
  BY DEF Times, Ordered
<1>0. Len(t) \in Nat
  BY <1>1
<1>2. ASSUME NEW k \in 0 .. Len(t) - 1 PROVE Kth(t, k) \in Nat
  <2>1. Len(t) - k \in 1 .. Len(t)
    BY <1>0
  <2> QED BY <2>1, <1>1 DEF Kth
<1>3. ASSUME NEW k \in 0 .. Len(t) - 1, k > 0
      PROVE  k - 1 \in 0 .. Len(t) - 1 /\ Kth(t, k - 1) <= Kth(t, k)
  <2> DEFINE x == Len(t) - k  y == Len(t) - (k - 1)
  <2>1. k - 1 \in 0 .. Len(t) - 1 /\ x \in 1 .. Len(t) /\ y \in 1 .. Len(t) /\ x <= y
    BY <1>0, <1>3
  <2>2. Kth(t, k) = t[x] /\ Kth(t, k - 1) = t[y]
    BY DEF Kth
  <2> HIDE DEF x, y
  <2> QED BY Zenon, <2>1, <2>2, <1>1
<1> QED BY <1>1, <1>2, <1>3

\* The RCPT just decided is the newest remembered, the others are one further.
LEMMA Counted ==
  ASSUME Library,
         NEW depth \in Nat \ {0}, NEW times, Times(times, depth), NEW w \in Nat \ {0}
  PROVE  /\ Times(prune(Stamp(times, depth), w), depth)
         /\ Len(prune(Stamp(times, depth), w)) > 0
         /\ Kth(prune(Stamp(times, depth), w), 0) = 0
         /\ \A k \in 0 .. Len(times) - 1 :
              k + 1 < depth /\ Kth(times, k) < w =>
                /\ k + 1 < Len(prune(Stamp(times, depth), w))
                /\ Kth(prune(Stamp(times, depth), w), k + 1) = Kth(times, k)
<1> DEFINE s == Stamp(times, depth)  u == prune(s, w)
<1>1. /\ Times(s, depth) /\ Len(s) = (IF Len(times) < depth THEN Len(times) + 1 ELSE depth)
      /\ \A k \in 0 .. Len(s) - 1 : Kth(s, k) = IF k = 0 THEN 0 ELSE Kth(times, k - 1)
  BY StampIs
<1> HIDE DEF s
<1>2. /\ Ordered(u, depth, Horizon) /\ Len(u) <= Len(s)
      /\ \A k \in 0 .. Len(u) - 1 : Kth(u, k) = Kth(s, k)
      /\ \A k \in 0 .. Len(s) - 1 : Kth(s, k) < w => k < Len(u)
      /\ \A i \in 1 .. Len(u) : u[i] < w
  <2>1. depth \in Nat /\ w \in Nat /\ Horizon \in Nat
    BY MxSimAssumption
  <2>2. Ordered(s, depth, Horizon)
    BY <1>1 DEF Times
  <2> QED BY Zenon, <2>1, <2>2, Pruned
<1> HIDE DEF u
<1>3. /\ Len(times) \in Nat /\ Len(times) <= depth /\ Len(u) \in Nat /\ Len(s) \in Nat
      /\ Len(s) > 0
  BY <1>1, <1>2, TimesNat DEF Times
<1>4. Times(u, depth) /\ Len(u) > 0 /\ Kth(u, 0) = 0
  <2>1. 0 \in 0 .. Len(s) - 1 /\ Kth(s, 0) = 0
    BY <1>1, <1>3
  <2>2. 0 < Len(u)
    BY <2>1, <1>2
  <2> QED BY <2>1, <2>2, <1>2, <1>3 DEF Times
<1>5. ASSUME NEW k \in 0 .. Len(times) - 1, k + 1 < depth, Kth(times, k) < w
      PROVE  k + 1 < Len(u) /\ Kth(u, k + 1) = Kth(times, k)
  <2>1. k + 1 \in 0 .. Len(s) - 1 /\ k + 1 # 0 /\ k + 1 - 1 = k
    BY <1>1, <1>3, <1>5
  <2>2. Kth(s, k + 1) = Kth(times, k)
    BY <2>1, <1>1
  <2>3. k + 1 < Len(u)
    BY <2>1, <2>2, <1>2, <1>5
  <2>4. k + 1 \in 0 .. Len(u) - 1
    BY <2>1, <2>3, <1>3
  <2> QED BY <2>2, <2>3, <2>4, <1>2
<1> QED BY <1>4, <1>5 DEF u, s

\* A RCPT within the limit is let past: the limit is kept.
LEMMA RatePassed ==
  ASSUME Library,
         NEW depth \in Nat, NEW times, Times(times, depth), NEW passed, Times(passed, depth),
         NEW rule \in Rule, enabled(rule), rule.count < depth,
         Covered(rule, times, passed), ~Exceeds(rule, Stamp(times, depth))
  PROVE  /\ Within(rule, Stamp(passed, depth))
         /\ Covered(rule, prune(Stamp(times, depth), rule.window), Stamp(passed, depth))
<1> DEFINE w == rule.window  s == Stamp(times, depth)  u == prune(s, w)
           p == Stamp(passed, depth)
<1>0. /\ rule.count \in Nat /\ rule.count > 0 /\ w \in Nat \ {0} /\ depth \in Nat \ {0}
  BY MxSimAssumption DEF Rule, enabled
<1>1. /\ Times(s, depth) /\ Len(s) = (IF Len(times) < depth THEN Len(times) + 1 ELSE depth)
      /\ \A k \in 0 .. Len(s) - 1 : Kth(s, k) = IF k = 0 THEN 0 ELSE Kth(times, k - 1)
      /\ Times(p, depth)
      /\ Len(p) = (IF Len(passed) < depth THEN Len(passed) + 1 ELSE depth)
      /\ \A k \in 0 .. Len(p) - 1 : Kth(p, k) = IF k = 0 THEN 0 ELSE Kth(passed, k - 1)
  BY StampIs
<1>2. /\ Len(u) > 0 /\ Kth(u, 0) = 0
      /\ \A k \in 0 .. Len(times) - 1 : k + 1 < depth /\ Kth(times, k) < w =>
                k + 1 < Len(u) /\ Kth(u, k + 1) = Kth(times, k)
  <2> HIDE DEF w
  <2> QED BY SMTT(30), <1>0, Counted
<1>3. /\ Len(times) \in Nat /\ Len(passed) \in Nat /\ Len(passed) <= depth /\ Len(times) <= depth
      /\ \A k \in 0 .. Len(passed) - 1 : Kth(passed, k) \in Nat
      /\ \A k \in 0 .. Len(times) - 1 : Kth(times, k) \in Nat
  BY TimesNat
<1> HIDE DEF u, p, w
<1>4. ASSUME NEW k \in 0 .. Len(p) - 1, k > 0, Kth(p, k) < w
      PROVE  /\ k - 1 \in 0 .. Len(times) - 1 /\ k < depth
             /\ Kth(times, k - 1) <= Kth(p, k) /\ Kth(times, k - 1) < w
  <2>1. k - 1 \in 0 .. Len(passed) - 1 /\ k < depth /\ Kth(p, k) = Kth(passed, k - 1)
    BY <1>1, <1>3, <1>4
  <2>2. k - 1 < Len(times) /\ Kth(times, k - 1) <= Kth(passed, k - 1)
    BY <2>1, <1>4 DEF Covered, w
  <2>3. k - 1 \in 0 .. Len(times) - 1
    BY <2>1, <2>2, <1>3
  <2>4. Kth(times, k - 1) \in Nat /\ Kth(passed, k - 1) \in Nat
    BY <2>1, <2>3, <1>3
  <2> QED BY <2>1, <2>2, <2>3, <2>4, <1>0, <1>4
<1>5. Covered(rule, u, p)
  <2>1. ASSUME NEW k \in 0 .. Len(p) - 1, Kth(p, k) < w
        PROVE  k < Len(u) /\ Kth(u, k) <= Kth(p, k)
    <3>1. CASE k = 0
      BY <3>1, <1>1, <1>2
    <3>2. CASE k > 0
      <4>1. /\ k - 1 \in 0 .. Len(times) - 1 /\ (k - 1) + 1 = k /\ k < depth
            /\ Kth(times, k - 1) <= Kth(p, k) /\ Kth(times, k - 1) < w
        BY <2>1, <3>2, <1>4
      <4>2. k < Len(u) /\ Kth(u, k) = Kth(times, k - 1)
        BY <4>1, <1>2
      <4> QED BY <4>1, <4>2
    <3> QED BY <3>1, <3>2
  <2> QED BY <2>1 DEF Covered, w
<1>6. Within(rule, p)
  <2> SUFFICES ASSUME Len(p) > rule.count, ~(Kth(p, rule.count) >= w) PROVE FALSE
    BY DEF Within, w
  <2>0. Len(p) \in Nat
    BY <1>1, <1>3
  <2> DEFINE c == rule.count
  <2>1. c \in 0 .. Len(p) - 1 /\ c > 0 /\ c < depth
    BY <2>0, <1>0
  <2>2. Kth(p, c) \in Nat
    BY <2>1, <1>1, TimesNat
  <2> HIDE DEF c
  <2>3. Kth(p, c) < w
    BY <2>2, <1>0 DEF c
  <2>4. /\ c - 1 \in 0 .. Len(times) - 1 /\ Kth(times, c - 1) < w
    BY <2>1, <2>3, <1>4
  <2>5. c \in 0 .. Len(s) - 1 /\ c < Len(s)
    BY <2>1, <2>4, <1>1, <1>3
  <2>6. Kth(s, c) < w
    BY <2>1, <2>4, <2>5, <1>1
  <2> QED BY <2>5, <2>6, <1>1, ExceededBy DEF c, w
<1> QED BY <1>5, <1>6 DEF u, p, w

\* A RCPT refused by the rate limit is remembered, and those let past still are.
LEMMA RateRefused ==
  ASSUME Library,
         NEW depth \in Nat, NEW times, Times(times, depth), NEW passed, Times(passed, depth),
         NEW rule \in Rule, enabled(rule), rule.count < depth, Covered(rule, times, passed)
  PROVE  Covered(rule, prune(Stamp(times, depth), rule.window), passed)
<1> DEFINE w == rule.window  u == prune(Stamp(times, depth), w)
<1>0. rule.count \in Nat /\ w \in Nat \ {0} /\ depth \in Nat \ {0}
  BY MxSimAssumption DEF Rule, enabled
<1>1. /\ Len(u) > 0 /\ Kth(u, 0) = 0
      /\ \A k \in 0 .. Len(times) - 1 : k + 1 < depth /\ Kth(times, k) < w =>
                k + 1 < Len(u) /\ Kth(u, k + 1) = Kth(times, k)
  <2> HIDE DEF w
  <2> QED BY <1>0, Counted
<1>2. /\ Len(times) \in Nat /\ Len(passed) \in Nat /\ Len(passed) <= depth
      /\ \A k \in 0 .. Len(passed) - 1 : Kth(passed, k) \in Nat
      /\ \A k \in 0 .. Len(times) - 1 : Kth(times, k) \in Nat
      /\ \A k \in 0 .. Len(passed) - 1 :
           k > 0 => k - 1 \in 0 .. Len(passed) - 1 /\ Kth(passed, k - 1) <= Kth(passed, k)
  BY TimesNat
<1> HIDE DEF u, w
<1>3. ASSUME NEW k \in 0 .. Len(passed) - 1, Kth(passed, k) < w
      PROVE  k < Len(u) /\ Kth(u, k) <= Kth(passed, k)
  <2>1. CASE k = 0
    BY <2>1, <1>1, <1>2
  <2>2. CASE k > 0
    <3>1. k - 1 \in 0 .. Len(passed) - 1 /\ Kth(passed, k - 1) <= Kth(passed, k)
          /\ Kth(passed, k) \in Nat /\ Kth(passed, k - 1) \in Nat
          /\ k - 1 + 1 = k /\ k < depth
      BY <2>2, <1>2
    <3>2. Kth(passed, k - 1) < w
      BY <3>1, <1>0, <1>3
    <3>3. k - 1 < Len(times) /\ Kth(times, k - 1) <= Kth(passed, k - 1)
      BY <3>1, <3>2 DEF Covered, w
    <3>4. k - 1 \in 0 .. Len(times) - 1 /\ Kth(times, k - 1) \in Nat
      BY <3>1, <3>3, <1>2
    <3>5. Kth(times, k - 1) < w /\ Kth(times, k - 1) <= Kth(passed, k)
      BY <3>1, <3>2, <3>3, <3>4, <1>0
    <3>6. k < Len(u) /\ Kth(u, k) = Kth(times, k - 1)
      BY <3>1, <3>4, <3>5, <1>1
    <3> QED BY <3>5, <3>6
  <2> QED BY <2>1, <2>2
<1> QED BY <1>3 DEF Covered, u, w

\* Both grow older together.
LEMMA RateAged ==
  ASSUME Library,
         NEW depth \in Nat, NEW times, Times(times, depth), NEW passed, Times(passed, depth),
         NEW rule \in Rule, Covered(rule, times, passed), Within(rule, passed)
  PROVE  Covered(rule, Aged(times), Aged(passed)) /\ Within(rule, Aged(passed))
<1> DEFINE u == Aged(times)  p == Aged(passed)  w == rule.window
<1>0. rule.count \in Nat /\ w \in Nat /\ w <= Horizon /\ Horizon \in Nat
  BY MxSimAssumption DEF Rule
<1>1. /\ Times(p, depth) /\ Len(p) <= Len(passed)
      /\ \A k \in 0 .. Len(p) - 1 : Kth(p, k) = Kth(passed, k) + 1
  BY AgedIs
<1>2. /\ Times(u, depth)
      /\ \A k \in 0 .. Len(u) - 1 : Kth(u, k) = Kth(times, k) + 1
      /\ \A k \in 0 .. Len(times) - 1 : Kth(times, k) + 1 < Horizon => k < Len(u)
  BY AgedIs
<1>3. /\ Len(times) \in Nat /\ Len(passed) \in Nat
      /\ \A k \in 0 .. Len(passed) - 1 : Kth(passed, k) \in Nat
      /\ \A k \in 0 .. Len(times) - 1 : Kth(times, k) \in Nat
  BY TimesNat
<1>4. Len(p) \in Nat /\ Len(u) \in Nat
  BY <1>1, <1>2, TimesNat
<1> HIDE DEF u, p, w
<1>5. ASSUME NEW k \in 0 .. Len(p) - 1, Kth(p, k) < w
      PROVE  k < Len(u) /\ Kth(u, k) <= Kth(p, k)
  <2>1. k \in 0 .. Len(passed) - 1 /\ Kth(p, k) = Kth(passed, k) + 1 /\ Kth(passed, k) \in Nat
    BY <1>1, <1>3, <1>4
  <2>2. Kth(passed, k) < w
    BY <2>1, <1>0, <1>5
  <2>3. k < Len(times) /\ Kth(times, k) <= Kth(passed, k)
    BY <2>1, <2>2 DEF Covered, w
  <2>4. k \in 0 .. Len(times) - 1 /\ Kth(times, k) \in Nat
    BY <2>1, <2>3, <1>3
  <2>5. Kth(times, k) + 1 < Horizon
    BY <2>1, <2>3, <2>4, <1>0, <1>5
  <2>6. k < Len(u)
    BY <2>4, <2>5, <1>2
  <2>7. k \in 0 .. Len(u) - 1
    BY <2>6, <1>4
  <2>8. Kth(u, k) = Kth(times, k) + 1
    BY <2>7, <1>2
  <2> QED BY <2>1, <2>3, <2>4, <2>6, <2>8
<1>6. Within(rule, p)
  <2> SUFFICES ASSUME Len(p) > rule.count PROVE Kth(p, rule.count) >= w
    BY DEF Within, w
  <2>1. rule.count \in 0 .. Len(p) - 1 /\ rule.count \in 0 .. Len(passed) - 1
    BY <1>0, <1>1, <1>3, <1>4
  <2>2. Len(passed) > rule.count
    BY <2>1, <1>0, <1>3
  <2>3. Kth(passed, rule.count) >= w
    BY <2>2 DEF Within, w
  <2>4. Kth(p, rule.count) = Kth(passed, rule.count) + 1 /\ Kth(passed, rule.count) \in Nat
    BY <2>1, <1>1, <1>3
  <2> QED BY <2>3, <2>4, <1>0
<1> QED BY <1>5, <1>6 DEF Covered, u, p, w

-----------------------------------------------------------------------------
(* The invariant.  Its parts are operators of the environment e, a profile *)
(* p and a session's record r.                                             *)

SessionPhases == {"closed", "open", "rcpt", "held", "closing"}
SaidType      == [cmd : {"none", "CONN", "MAIL", "DATA", "RCPT"}, reply : Reply]
SessType(e)   == [phase : SessionPhases, ip : IPs \cup {"none"}, helo : BOOLEAN,
                  tls : BOOLEAN, mail : BOOLEAN, rcpts : Nat,
                  txDomains : SUBSET {a.domain : a \in e.addrs}, txns : Nat,
                  addr : e.addrs \cup {NoAddr}, said : SaidType]
AskedType(e)  == [e.addrs -> -1 .. Horizon]
IpType(e)     == [connTimes : Seq(Nat), rcptTimes : Seq(Nat), active : Nat,
                  cooldown : Nat, greylist : AskedType(e)]
StatsType     == [current : Nat, max : Nat]
AdminType     == [phase : {"idle", "set", "copied"}, np : Profile]
ObsType(e)    == [passed : [IPs -> Seq(Nat)], asked : [IPs -> AskedType(e)],
                  crossed : SUBSET IPs, unseen : BOOLEAN, put : Profile, stale : BOOLEAN]

Typed ==
  /\ env \in Environments /\ prof \in Profile /\ ips \in [IPs -> IpType(env)]
  /\ stats \in StatsType /\ sess \in [Conns -> SessType(env)]
  /\ admin \in AdminType /\ obs \in ObsType(env)

\* But for its chaos, p is a profile of the environment.
Like(e, p) ==
  \E q \in Profiles(e) :
    /\ p.says = q.says /\ p.rcptRate = q.rcptRate /\ p.maxConns = q.maxConns
    /\ p.tls = q.tls /\ p.domainsPerTx = q.domainsPerTx /\ p.txPerConn = q.txPerConn

Ruled == Like(env, prof) /\ Like(env, admin.np)

\* What dispatch keeps of a session.
InOrder(e, r) ==
  /\ r.phase # "closed" => r.ip \in IPs
  /\ r.phase \in {"rcpt", "held"} => r.addr \in e.addrs
  /\ r.mail => r.helo /\ r.txns > 0
  /\ (r.rcpts > 0 \/ r.txDomains # {} \/ r.phase = "rcpt") => r.mail
  /\ IsFiniteSet(r.txDomains)
  /\ e.puts = {} =>
       /\ r.mail /\ e.prof.tls = "required" => r.tls
       /\ e.prof.domainsPerTx > 0 => Cardinality(r.txDomains) <= e.prof.domainsPerTx
       /\ e.prof.txPerConn > 0 => r.txns <= e.prof.txPerConn

Orderly == \A c \in Conns : InOrder(env, sess[c])

Timed ==
  \A ip \in IPs : /\ Times(ips[ip].connTimes, env.depth.conn)
                  /\ Times(ips[ip].rcptTimes, env.depth.rcpt)
                  /\ Times(obs.passed[ip], env.depth.rcpt)

\* The connections an address has open, active of them known to the engine.
KnownFrom(e, crossed, ip, n, active) ==
  /\ active <= n
  /\ ip \notin crossed =>
       active = n /\ (e.prof.maxConns > 0 /\ e.puts = {} => n <= e.prof.maxConns)

Tallied ==
  /\ stats.current = Cardinality({c \in Conns : Open(c)})
  /\ stats.max >= stats.current \/ obs.unseen
  /\ stats.max <= Cardinality(Conns)
  /\ \A ip \in IPs :
       KnownFrom(env, obs.crossed, ip, Cardinality(OpenFrom(ip)), ips[ip].active)

\* The rate limit that was put is in force, and kept.
Limiting ==
  ~obs.stale =>
    /\ prof.rcptRate = obs.put.rcptRate
    /\ admin.phase = "copied" => admin.np.rcptRate = obs.put.rcptRate
    /\ enabled(obs.put.rcptRate) =>
         \A ip \in IPs : /\ Covered(obs.put.rcptRate, ips[ip].rcptTimes, obs.passed[ip])
                         /\ Within(obs.put.rcptRate, obs.passed[ip])

\* The engine has known of a RCPT no longer than it was asked.
Noted ==
  \A ip \in IPs : \A a \in env.addrs : ips[ip].greylist[a] <= obs.asked[ip][a]

Reads(said) == IF said.cmd = "RCPT" THEN ClassifyAs(said.reply) ELSE beforeRCPT(said.reply)
Takes(p, a) ==
  /\ a.local \notin p.bounce
  /\ a.local \in p.exists \/ p.catchAll \/ a.domain \in p.catchAllDomains

\* A verdict read in what a session was told last is true.
Truthful(e, p, asked, r) ==
  Verdict(Reads(r.said)) =>
    /\ r.said.cmd = "RCPT" /\ r.ip \in IPs /\ r.addr \in e.addrs
    /\ (Reads(r.said) = "valid") <=> Takes(p, r.addr)
    /\ p.greylist > 0 => asked[r.ip][r.addr] >= p.greylist

Truth == \A c \in Conns : Truthful(env, prof, obs.asked, sess[c])

IInv == Typed /\ Ruled /\ Orderly /\ Timed /\ Tallied /\ Limiting /\ Noted /\ Truth

LEMMA Parts ==
  ASSUME IInv
  PROVE  /\ Typed /\ Ruled /\ Orderly /\ Timed /\ Tallied /\ Limiting /\ Noted /\ Truth
  BY DEF IInv

\* The fields of what is typed.
LEMMA EnvIs ==
  ASSUME Typed
  PROVE  /\ env.depth.conn \in Nat /\ env.depth.rcpt \in Nat /\ Horizon \in Nat \ {0}
         /\ IsFiniteSet(Conns) /\ env.ips \subseteq IPs /\ env.conns \subseteq Conns
         /\ env.prof \in Profile /\ env.puts \subseteq Profile
         /\ env.chaos \subseteq SUBSET {"drop", "temp"}
  BY MxSimAssumption DEF Typed, Profiles

LEMMA ProfIs ==
  ASSUME NEW p \in Profile
  PROVE  /\ p.maxConns \in Nat /\ p.connRate \in Rule /\ p.rcptRate \in Rule
         /\ p.rcptPerConn \in Nat /\ p.cooldown \in Nat /\ p.greylist \in Nat
         /\ p.domainsPerTx \in Nat /\ p.txPerConn \in Nat
         /\ p.says.accept \in Reply /\ p.says.reject \in Reply /\ p.says.tooMany \in Reply
         /\ p.says.connRate \in Reply /\ p.says.rcptRate \in Reply
         /\ p.says.greylist \in Reply /\ p.says.tempError \in Reply
         /\ p.says.relayDenied \in Reply /\ p.says.domainLimit \in Reply
         /\ p.says.txLimit \in Reply
  BY DEF Profile

LEMMA SessIs ==
  ASSUME NEW e, NEW r \in SessType(e)
  PROVE  /\ r.phase \in SessionPhases /\ r.ip \in IPs \cup {"none"}
         /\ {r.helo, r.tls, r.mail} \subseteq BOOLEAN /\ r.rcpts \in Nat /\ r.txns \in Nat
         /\ r.txDomains \subseteq {a.domain : a \in e.addrs}
         /\ r.addr \in e.addrs \cup {NoAddr} /\ r.said \in SaidType
         /\ r.said.reply \in Reply
  BY DEF SessType, SaidType
-----------------------------------------------------------------------------
(* A session's record *)

\* What dispatch knows of the session, but for where it is.
Same(u, r) ==
  /\ u.ip = r.ip /\ u.helo = r.helo /\ u.tls = r.tls /\ u.mail = r.mail
  /\ u.rcpts = r.rcpts /\ u.txDomains = r.txDomains /\ u.txns = r.txns

LEMMA SilentIs == Silent \in SaidType /\ ~Verdict(Reads(Silent))
<1>1. NoReply \in Reply /\ NoReply.code = 0
  BY DEF NoReply, Reply, NoCode
<1>2. Silent \in SaidType /\ Silent.cmd = "none" /\ Silent.reply = NoReply
  BY <1>1 DEF Silent, SaidType
<1>3. ~Verdict(beforeRCPT(NoReply))
  BY DEF beforeRCPT, Verdict
<1> QED BY <1>2, <1>3 DEF Reads

Commands == {"CONN", "MAIL", "DATA", "RCPT"}

\* A reply heard is all that changes.
LEMMA HearsIs ==
  ASSUME NEW e, NEW r \in SessType(e), NEW cmd \in Commands, NEW reply \in Reply
  PROVE  LET u == Hears(r, cmd, reply) IN
         /\ u \in SessType(e) /\ u.said.cmd = cmd /\ u.said.reply = reply
         /\ u.phase = r.phase /\ u.addr = r.addr /\ Same(u, r)
<1> DEFINE said == [cmd |-> cmd, reply |-> reply]  u == [r EXCEPT !.said = said]
<1>1. said \in SaidType /\ said.cmd = cmd /\ said.reply = reply
  BY DEF SaidType, Commands
<1> HIDE DEF said
<1>2. /\ u \in SessType(e) /\ u.said = said /\ u.phase = r.phase /\ u.addr = r.addr
      /\ Same(u, r)
  BY <1>1, Zenon DEF SessType, Same
<1>3. u = Hears(r, cmd, reply)
  BY Zenon DEF Hears, said
<1> QED BY <1>1, <1>2, <1>3, Zenon

\* A transaction that is over leaves the greeting, the TLS and the count.
LEMMA NoTransactionIs ==
  ASSUME NEW e, NEW r \in SessType(e)
  PROVE  LET u == NoTransaction(r) IN
         /\ u \in SessType(e) /\ u.phase = r.phase /\ u.ip = r.ip
         /\ u.helo = r.helo /\ u.tls = r.tls /\ u.txns = r.txns
         /\ u.mail = FALSE /\ u.rcpts = 0 /\ u.txDomains = {} /\ u.said = Silent
<1> DEFINE u == [r EXCEPT !.mail = FALSE, !.rcpts = 0, !.txDomains = {}, !.addr = NoAddr,
                          !.said = Silent]
<1>1. /\ 0 \in Nat /\ {} \in SUBSET {a.domain : a \in e.addrs}
      /\ NoAddr \in e.addrs \cup {NoAddr}
  OBVIOUS
<1>2. /\ u \in SessType(e) /\ u.phase = r.phase /\ u.ip = r.ip
      /\ u.helo = r.helo /\ u.tls = r.tls /\ u.txns = r.txns
      /\ u.mail = FALSE /\ u.rcpts = 0 /\ u.txDomains = {} /\ u.said = Silent
  BY <1>1, SilentIs, Zenon DEF SessType
<1>3. u = NoTransaction(r)
  BY Zenon DEF NoTransaction
<1> QED BY <1>2, <1>3, Zenon

\* A session without a transaction, and with no more opened than before, is in
\* order.
LEMMA OrderBefore ==
  ASSUME Library,
         NEW e \in Environments, NEW r \in SessType(e), InOrder(e, r), NEW u \in SessType(e),
         u.phase = r.phase, u.phase # "rcpt", u.phase # "held", u.ip = r.ip, u.mail = FALSE,
         u.rcpts = 0, u.txDomains = {}, u.txns = r.txns
  PROVE  InOrder(e, u)
<1>1. e.prof.domainsPerTx \in Nat
  BY MxSimAssumption DEF Profiles, Profile
<1>2. IsFiniteSet({}) /\ Cardinality({}) = 0
  BY DEF Library, CountsNone
<1> QED BY <1>1, <1>2 DEF InOrder

\* One of which only what it is told, and perhaps where it is, changes.
LEMMA OrderSame ==
  ASSUME NEW e, NEW r, InOrder(e, r), NEW u, Same(u, r),
         u.phase # "closed" => r.phase # "closed",
         u.phase \in {"rcpt", "held"} => u.addr \in e.addrs,
         u.phase = "rcpt" => r.phase = "rcpt"
  PROVE  InOrder(e, u)
  BY Zenon DEF InOrder, Same

-----------------------------------------------------------------------------
(* A step that changes one session and leaves it open.                     *)

\* The sessions after it.
LEMMA OneSession ==
  ASSUME Typed, UNCHANGED env, NEW c \in Conns, NEW r \in SessType(env),
         sess' = [sess EXCEPT ![c] = r]
  PROVE  /\ sess' \in [Conns -> SessType(env')]
         /\ \A d \in Conns : sess'[d] = IF d = c THEN r ELSE sess[d]
<1>1. sess \in [Conns -> SessType(env)]
  BY DEF Typed
<1>2. [sess EXCEPT ![c] = r] \in [Conns -> SessType(env)]
  BY <1>1, Zenon
<1>3. \A d \in Conns : sess'[d] = IF d = c THEN r ELSE sess[d]
  BY <1>1
<1> QED BY <1>2, <1>3

LEMMA OrderKept ==
  ASSUME Orderly, UNCHANGED env, NEW c \in Conns, NEW r, InOrder(env, r),
         \A d \in Conns : sess'[d] = IF d = c THEN r ELSE sess[d]
  PROVE  Orderly'
<1> SUFFICES ASSUME NEW d \in Conns PROVE InOrder(env', sess'[d])
  BY Zenon DEF Orderly
<1>1. InOrder(env, sess[d])
  BY DEF Orderly
<1>2. sess'[d] = r \/ sess'[d] = sess[d]
  OBVIOUS
<1> QED BY <1>1, <1>2, Zenon

\* The sessions counted are the same.
LEMMA TallyKept ==
  ASSUME Tallied, UNCHANGED <<env, stats>>, NEW c \in Conns, NEW r, Open(c),
         r.phase # "closed", r.ip = sess[c].ip,
         \A d \in Conns : sess'[d] = IF d = c THEN r ELSE sess[d],
         \A ip \in IPs : ips'[ip].active = ips[ip].active,
         obs'.crossed = obs.crossed, obs'.unseen = obs.unseen
  PROVE  Tallied'
<1>1. \A d \in Conns : /\ sess'[d].phase = "closed" <=> sess[d].phase = "closed"
                       /\ sess'[d].ip = sess[d].ip
  BY DEF Open
<1>2. {d \in Conns : Open(d)}' = {d \in Conns : Open(d)}
  BY <1>1 DEF Open
<1>3. \A ip \in IPs : OpenFrom(ip)' = OpenFrom(ip)
  BY <1>1 DEF Open, OpenFrom
<1>4. /\ (stats.current = Cardinality({d \in Conns : Open(d)}))'
      /\ (stats.max >= stats.current \/ obs.unseen)'
      /\ (stats.max <= Cardinality(Conns))'
  BY <1>2, Zenon DEF Tallied
<1>5. ASSUME NEW ip \in IPs
      PROVE  KnownFrom(env, obs.crossed, ip, Cardinality(OpenFrom(ip)), ips[ip].active)'
  <2>1. KnownFrom(env, obs.crossed, ip, Cardinality(OpenFrom(ip)), ips[ip].active)
    BY DEF Tallied
  <2> QED BY <2>1, <1>3, Zenon
<1> QED BY <1>4, <1>5, Zenon DEF Tallied

LEMMA BecomesKeeps ==
  ASSUME IInv, UNCHANGED env, NEW c \in Conns, NEW r \in SessType(env), Becomes(c, r),
         Open(c), r.phase # "closed", r.ip = sess[c].ip, InOrder(env, r),
         Truthful(env, prof, obs.asked, r)
  PROVE  IInv'
<1>1. Typed /\ Ruled /\ Orderly /\ Timed /\ Tallied /\ Limiting /\ Noted /\ Truth
  BY Parts
<1>2. /\ sess' = [sess EXCEPT ![c] = r] /\ prof' = prof /\ ips' = ips /\ stats' = stats
      /\ admin' = admin /\ obs' = obs
  BY DEF Becomes
<1>3. /\ sess' \in [Conns -> SessType(env')]
      /\ \A d \in Conns : sess'[d] = IF d = c THEN r ELSE sess[d]
  BY Zenon, <1>1, <1>2, OneSession
<1>4. Typed'
  BY <1>1, <1>2, <1>3, Zenon DEF Typed
<1>5. Ruled'
  BY <1>1, <1>2, Zenon DEF Ruled
<1>6. Orderly'
  BY <1>1, <1>3, OrderKept
<1>7. Timed'
  BY <1>1, <1>2, Zenon DEF Timed
<1>8. Tallied'
  BY <1>1, <1>2, <1>3, TallyKept
<1>9. Limiting'
  BY <1>1, <1>2, Zenon DEF Limiting
<1>10. Noted'
  BY <1>1, <1>2, Zenon DEF Noted
<1>11. Truth'
  <2> SUFFICES ASSUME NEW d \in Conns PROVE Truthful(env', prof', obs'.asked, sess'[d])
    BY Zenon DEF Truth
  <2>1. Truthful(env, prof, obs.asked, sess[d])
    BY <1>1 DEF Truth
  <2>2. sess'[d] = r \/ sess'[d] = sess[d]
    BY <1>3
  <2> QED BY <2>1, <2>2, <1>2, Zenon
<1> QED BY <1>4, <1>5, <1>6, <1>7, <1>8, <1>9, <1>10, <1>11 DEF IInv
-----------------------------------------------------------------------------
(* The commands *)

\* What the invariant says of a session.
LEMMA SessionIs ==
  ASSUME IInv, NEW c \in Conns
  PROVE  /\ env \in Environments /\ prof \in Profile /\ Like(env, prof)
         /\ sess[c] \in SessType(env) /\ InOrder(env, sess[c])
         /\ Truthful(env, prof, obs.asked, sess[c])
<1>1. Typed /\ Ruled /\ Orderly /\ Truth
  BY Parts
<1>2. sess \in [Conns -> SessType(env)]
  BY <1>1 DEF Typed
<1>3. sess[c] \in SessType(env)
  BY <1>2, Zenon
<1> QED BY <1>1, <1>3, Zenon DEF Typed, Ruled, Orderly, Truth

\* No verdict is read but in an answer to RCPT.
LEMMA Unread ==
  ASSUME NEW e, NEW p, NEW asked, NEW r, r.said = Silent \/ r.said.cmd # "RCPT"
  PROVE  Truthful(e, p, asked, r)
<1>1. ASSUME r.said.cmd # "RCPT" PROVE ~Verdict(Reads(r.said))
  BY <1>1 DEF Reads, beforeRCPT, Verdict
<1> QED BY <1>1, SilentIs, Zenon DEF Truthful

\* The profile in force, where it is never replaced.
LEMMA ProfStays ==
  ASSUME NEW e, NEW p, Like(e, p), e.puts = {}
  PROVE  /\ p.tls = e.prof.tls /\ p.domainsPerTx = e.prof.domainsPerTx
         /\ p.txPerConn = e.prof.txPerConn /\ p.maxConns = e.prof.maxConns
  BY Zenon DEF Like, Profiles

LEMMA HeloKeeps ==
  ASSUME Library, IInv, UNCHANGED env, NEW c \in Conns, Helo(c)
  PROVE  IInv'
<1> DEFINE s == sess[c]  u == NoTransaction(s)  r == [u EXCEPT !.helo = TRUE]
<1>1. s \in SessType(env) /\ InOrder(env, s) /\ env \in Environments
  BY SessionIs
<1>2. s.phase = "open" /\ Becomes(c, r)
  BY Zenon DEF Helo, Command
<1> HIDE DEF s
<1>3. /\ u \in SessType(env) /\ u.phase = s.phase /\ u.ip = s.ip
      /\ u.helo = s.helo /\ u.tls = s.tls /\ u.txns = s.txns
      /\ u.mail = FALSE /\ u.rcpts = 0 /\ u.txDomains = {} /\ u.said = Silent
  BY Zenon, <1>1, NoTransactionIs
<1> HIDE DEF u
<1>4. /\ r \in SessType(env) /\ r.phase = u.phase /\ r.ip = u.ip /\ r.txns = u.txns
      /\ r.mail = u.mail /\ r.rcpts = u.rcpts /\ r.txDomains = u.txDomains
      /\ r.said = u.said
  BY <1>3, Zenon DEF SessType
<1> HIDE DEF r
<1>5. InOrder(env, r)
  BY Zenon, <1>1, <1>2, <1>3, <1>4, OrderBefore
<1>6. Truthful(env, prof, obs.asked, r)
  BY <1>3, <1>4, Unread
<1>7. r.phase # "closed" /\ r.ip = sess[c].ip /\ Open(c)
  BY <1>2, <1>3, <1>4 DEF Open, s
<1> QED BY <1>2, <1>4, <1>5, <1>6, <1>7, BecomesKeeps

LEMMA RsetKeeps ==
  ASSUME Library, IInv, UNCHANGED env, NEW c \in Conns, sess[c].phase = "open",
         Becomes(c, NoTransaction(sess[c]))
  PROVE  IInv'
<1> DEFINE s == sess[c]  u == NoTransaction(s)
<1>1. s \in SessType(env) /\ InOrder(env, s) /\ env \in Environments
  BY SessionIs
<1>2. s.phase = "open" /\ Becomes(c, u)
  OBVIOUS
<1> HIDE DEF s
<1>3. /\ u \in SessType(env) /\ u.phase = s.phase /\ u.ip = s.ip
      /\ u.helo = s.helo /\ u.tls = s.tls /\ u.txns = s.txns
      /\ u.mail = FALSE /\ u.rcpts = 0 /\ u.txDomains = {} /\ u.said = Silent
  BY Zenon, <1>1, NoTransactionIs
<1> HIDE DEF u
<1>5. InOrder(env, u)
  BY Zenon, <1>1, <1>2, <1>3, OrderBefore
<1>6. Truthful(env, prof, obs.asked, u)
  BY <1>3, Unread
<1>7. u.phase # "closed" /\ u.ip = sess[c].ip /\ Open(c)
  BY <1>2, <1>3 DEF Open, s
<1> QED BY <1>2, <1>3, <1>5, <1>6, <1>7, BecomesKeeps

\* A command that is refused outside RCPT only says so.
LEMMA RefusedKeeps ==
  ASSUME IInv, UNCHANGED env, NEW c \in Conns, sess[c].phase = "open",
         NEW cmd \in {"MAIL", "DATA"}, NEW reply \in Reply,
         Becomes(c, Hears(sess[c], cmd, reply))
  PROVE  IInv'
<1> DEFINE s == sess[c]  u == Hears(s, cmd, reply)
<1>1. s \in SessType(env) /\ InOrder(env, s) /\ env \in Environments
  BY SessionIs
<1>2. s.phase = "open" /\ Becomes(c, u)
  OBVIOUS
<1> HIDE DEF s
<1>0. cmd \in Commands
  BY DEF Commands
<1>3. /\ u \in SessType(env) /\ u.said.cmd = cmd /\ u.said.reply = reply
      /\ u.phase = s.phase /\ u.addr = s.addr /\ Same(u, s)
  BY <1>0, <1>1, HearsIs
<1> HIDE DEF u
<1>5. InOrder(env, u)
  BY <1>1, <1>2, <1>3, OrderSame
<1>6. Truthful(env, prof, obs.asked, u)
  BY <1>3, Unread
<1>7. u.phase # "closed" /\ u.ip = sess[c].ip /\ Open(c)
  BY <1>2, <1>3 DEF Open, s, Same
<1> QED BY <1>2, <1>3, <1>5, <1>6, <1>7, BecomesKeeps

LEMMA MailKeeps ==
  ASSUME Library, IInv, UNCHANGED env, NEW c \in Conns, Mail(c)
  PROVE  IInv'
<1> DEFINE s == sess[c]  u == NoTransaction(s)
           r == [u EXCEPT !.mail = TRUE, !.txns = @ + 1]
<1>1. /\ s \in SessType(env) /\ InOrder(env, s) /\ env \in Environments
      /\ prof \in Profile /\ Like(env, prof)
  BY SessionIs
<1>2. /\ [code |-> 503, ec |-> <<5, 5, 1>>, words |-> {}] \in Reply
      /\ [code |-> 530, ec |-> <<5, 7, 0>>, words |-> {"sender", "tls"}] \in Reply
      /\ prof.says.txLimit \in Reply
  BY <1>1, ProfIs DEF Reply, Wordings
<1>3. \/ \E reply \in Reply : Becomes(c, Hears(s, "MAIL", reply))
      \/ /\ s.helo /\ ~(prof.tls = "required" /\ ~s.tls)
         /\ ~(prof.txPerConn > 0 /\ s.txns >= prof.txPerConn)
         /\ Becomes(c, r)
  BY <1>2, ZenonT(30) DEF Mail
<1>4. s.phase = "open"
  BY DEF Mail, Command
<1>5. ASSUME NEW reply \in Reply, Becomes(c, Hears(s, "MAIL", reply)) PROVE IInv'
  <2>1. "MAIL" \in {"MAIL", "DATA"}
    OBVIOUS
  <2> QED BY <1>4, <1>5, <2>1, RefusedKeeps
<1>6. ASSUME s.helo, ~(prof.tls = "required" /\ ~s.tls),
             ~(prof.txPerConn > 0 /\ s.txns >= prof.txPerConn), Becomes(c, r)
      PROVE  IInv'
  <2> HIDE DEF s
  <2>1. /\ u \in SessType(env) /\ u.phase = s.phase /\ u.ip = s.ip
        /\ u.helo = s.helo /\ u.tls = s.tls /\ u.txns = s.txns
        /\ u.mail = FALSE /\ u.rcpts = 0 /\ u.txDomains = {} /\ u.said = Silent
    BY Zenon, <1>1, NoTransactionIs
  <2>2. u.txns \in Nat /\ u.txns + 1 \in Nat /\ u.txns + 1 > 0
    BY <1>1, <2>1, SessIs
  <2> HIDE DEF u
  <2>3. /\ r \in SessType(env) /\ r.phase = u.phase /\ r.ip = u.ip /\ r.txns = u.txns + 1
        /\ r.mail = TRUE /\ r.rcpts = u.rcpts /\ r.txDomains = u.txDomains
        /\ r.said = u.said /\ r.helo = u.helo /\ r.tls = u.tls
    BY <2>1, <2>2, Zenon DEF SessType
  <2> HIDE DEF r
  <2>4. IsFiniteSet({}) /\ Cardinality({}) = 0
    BY DEF Library, CountsNone
  <2>5. env.puts = {} =>
          /\ env.prof.tls = "required" => s.tls
          /\ env.prof.txPerConn > 0 => s.txns < env.prof.txPerConn
    BY <1>1, <1>6, ProfStays, ProfIs, SessIs
  <2>9. env.prof.domainsPerTx \in Nat /\ env.prof.txPerConn \in Nat
    BY <1>1, ProfIs, MxSimAssumption DEF Profiles
  <2>10. s.ip \in IPs
    BY <1>1, <1>4 DEF InOrder
  <2>6. InOrder(env, r)
    BY <1>4, <1>6, <2>1, <2>2, <2>3, <2>4, <2>5, <2>9, <2>10 DEF InOrder
  <2>7. Truthful(env, prof, obs.asked, r)
    BY <2>1, <2>3, Unread
  <2>8. r.phase # "closed" /\ r.ip = sess[c].ip /\ Open(c)
    BY <1>4, <2>1, <2>3 DEF Open, s
  <2> QED BY <1>6, <2>3, <2>6, <2>7, <2>8, BecomesKeeps
<1> QED BY <1>3, <1>5, <1>6

\* A session whose loop ends, or waits for a deadline, is told nothing more.
LEMMA LeaveKeeps ==
  ASSUME IInv, UNCHANGED env, NEW c \in Conns, sess[c].phase \in {"open", "held"},
         Becomes(c, [sess[c] EXCEPT !.phase = "closing"])
  PROVE  IInv'
<1> DEFINE s == sess[c]  r == [s EXCEPT !.phase = "closing"]
<1>1. /\ s \in SessType(env) /\ InOrder(env, s) /\ Truthful(env, prof, obs.asked, s)
  BY SessionIs
<1>2. s.phase \in {"open", "held"} /\ Becomes(c, r)
  OBVIOUS
<1> HIDE DEF s
<1>3. "closing" \in SessionPhases
  BY DEF SessionPhases
<1>4. /\ r \in SessType(env) /\ r.phase = "closing" /\ r.addr = s.addr /\ r.said = s.said
      /\ Same(r, s)
  BY <1>1, <1>3, Zenon DEF SessType, Same
<1> HIDE DEF r
<1>5. InOrder(env, r)
  BY <1>1, <1>2, <1>4, OrderSame
<1>6. r.phase # "closed" /\ r.ip = s.ip /\ s.phase # "closed"
  BY <1>2, <1>4 DEF Same
<1>7. Truthful(env, prof, obs.asked, r)
  BY <1>1, <1>4, <1>6, Zenon DEF Truthful
<1> QED BY <1>2, <1>4, <1>5, <1>6, <1>7, BecomesKeeps DEF Open, s

LEMMA StartTLSKeeps ==
  ASSUME Library,
         IInv, UNCHANGED env, NEW c \in Conns, NEW works \in BOOLEAN, StartTLS(c, works)
  PROVE  IInv'
<1> DEFINE s == sess[c]  u == NoTransaction(s)
           r == [u EXCEPT !.tls = TRUE, !.helo = FALSE]
<1>1. s \in SessType(env) /\ InOrder(env, s) /\ env \in Environments
  BY SessionIs
<1>2. s.phase = "open"
  BY DEF StartTLS, Command
<1>3. CASE works
  <2>1. Becomes(c, r)
    BY <1>3, Zenon DEF StartTLS
  <2> HIDE DEF s
  <2>2. /\ u \in SessType(env) /\ u.phase = s.phase /\ u.ip = s.ip
        /\ u.helo = s.helo /\ u.tls = s.tls /\ u.txns = s.txns
        /\ u.mail = FALSE /\ u.rcpts = 0 /\ u.txDomains = {} /\ u.said = Silent
    BY Zenon, <1>1, NoTransactionIs
  <2> HIDE DEF u
  <2>3. /\ r \in SessType(env) /\ r.phase = u.phase /\ r.ip = u.ip /\ r.txns = u.txns
        /\ r.mail = u.mail /\ r.rcpts = u.rcpts /\ r.txDomains = u.txDomains
        /\ r.said = u.said
    BY <2>2, Zenon DEF SessType
  <2> HIDE DEF r
  <2>4. InOrder(env, r)
    BY Zenon, <1>1, <1>2, <2>2, <2>3, OrderBefore
  <2>5. Truthful(env, prof, obs.asked, r)
    BY <2>2, <2>3, Unread
  <2>6. r.phase # "closed" /\ r.ip = sess[c].ip /\ Open(c)
    BY <1>2, <2>2, <2>3 DEF Open, s
  <2> QED BY <2>1, <2>3, <2>4, <2>5, <2>6, BecomesKeeps
<1>4. CASE ~works
  <2>1. Becomes(c, [sess[c] EXCEPT !.phase = "closing"])
    BY <1>4, Zenon DEF StartTLS
  <2> QED BY <1>2, <2>1, LeaveKeeps
<1> QED BY <1>3, <1>4

LEMMA DataKeeps ==
  ASSUME Library, IInv, UNCHANGED env, NEW c \in Conns, Data(c)
  PROVE  IInv'
<1>1. sess[c].phase = "open"
  BY DEF Data, Command
<1> DEFINE reply == [code |-> 503, ec |-> <<5, 5, 1>>, words |-> {}]
<1>2. reply \in Reply /\ "DATA" \in {"MAIL", "DATA"}
  BY DEF Reply, Wordings
<1>3. Becomes(c, Hears(sess[c], "DATA", reply)) \/ Becomes(c, NoTransaction(sess[c]))
  BY Zenon DEF Data
<1> HIDE DEF reply
<1> QED BY <1>1, <1>2, <1>3, RefusedKeeps, RsetKeeps

\* What the replies of a profile of the environment mean.
LEMMA MeantIs ==
  ASSUME NEW e \in Environments, NEW p, Like(e, p)
  PROVE  /\ ClassifyAs(p.says.accept) = "valid" /\ ClassifyAs(p.says.reject) # "valid"
         /\ ~Verdict(ClassifyAs(p.says.rcptRate)) /\ ~Verdict(ClassifyAs(p.says.greylist))
         /\ ~Verdict(ClassifyAs(p.says.tempError))
         /\ ~Verdict(ClassifyAs(p.says.relayDenied))
         /\ ~Verdict(ClassifyAs(p.says.domainLimit))
<1>1. PICK q \in Profiles(e) : p.says = q.says
  BY Zenon DEF Like
<1>2. /\ ClassifyAs(q.says.accept) = "valid" /\ ClassifyAs(q.says.reject) # "valid"
      /\ \A reply \in {q.says.rcptRate, q.says.greylist, q.says.tempError,
                       q.says.relayDenied, q.says.domainLimit} :
           ~Verdict(ClassifyAs(reply))
  BY MeantAssumption, Zenon DEF Meant
<1>3. /\ ~Verdict(ClassifyAs(q.says.rcptRate)) /\ ~Verdict(ClassifyAs(q.says.greylist))
      /\ ~Verdict(ClassifyAs(q.says.tempError)) /\ ~Verdict(ClassifyAs(q.says.relayDenied))
      /\ ~Verdict(ClassifyAs(q.says.domainLimit))
  BY <1>2, Zenon
<1> QED BY <1>1, <1>2, <1>3, Zenon

BadSequence == [code |-> 503, ec |-> <<5, 5, 1>>, words |-> {}]

LEMMA BadSequenceIs == BadSequence \in Reply /\ ~Verdict(ClassifyAs(BadSequence))
<1>1. BadSequence \in Reply
  BY DEF BadSequence, Reply, Wordings
<1>2. BadSequence.code = 503 /\ BadSequence.words = {}
  BY DEF BadSequence
<1> QED BY <1>1, <1>2 DEF ClassifyAs, Verdict, Says, Temporary

\* A recipient refused before the engine is asked.
LEMMA RcptRefusedKeeps ==
  ASSUME IInv, UNCHANGED env, NEW c \in Conns, sess[c].phase = "open",
         NEW a \in env.addrs, NEW reply \in Reply, ~Verdict(ClassifyAs(reply)),
         Becomes(c, [Hears(sess[c], "RCPT", reply) EXCEPT !.addr = a])
  PROVE  IInv'
<1> DEFINE s == sess[c]  u == Hears(s, "RCPT", reply)  r == [u EXCEPT !.addr = a]
<1>0. "RCPT" \in Commands
  BY DEF Commands
<1>1. s \in SessType(env) /\ InOrder(env, s) /\ env \in Environments
  BY SessionIs
<1>2. s.phase = "open" /\ Becomes(c, r)
  OBVIOUS
<1> HIDE DEF s
<1>3. /\ u \in SessType(env) /\ u.said.cmd = "RCPT" /\ u.said.reply = reply
      /\ u.phase = s.phase /\ u.addr = s.addr /\ Same(u, s)
  BY <1>0, <1>1, HearsIs
<1> HIDE DEF u
<1>4. r \in SessType(env) /\ r.said = u.said /\ r.phase = u.phase /\ Same(r, u)
  BY <1>3, Zenon DEF SessType, Same
<1> HIDE DEF r
<1>5. Same(r, s)
  BY <1>3, <1>4, Zenon DEF Same
<1>6. InOrder(env, r)
  BY <1>1, <1>2, <1>3, <1>4, <1>5, OrderSame
<1>7. Truthful(env, prof, obs.asked, r)
  <2>1. ~Verdict(Reads(r.said))
    BY <1>3, <1>4, Zenon DEF Reads
  <2> QED BY <2>1, Zenon DEF Truthful
<1>8. r.phase # "closed" /\ r.ip = sess[c].ip /\ Open(c)
  BY <1>2, <1>3, <1>4, <1>5 DEF Open, s, Same
<1> QED BY <1>2, <1>4, <1>6, <1>7, <1>8, BecomesKeeps

\* One more domain in a transaction that has fewer than the profile allows.
LEMMA DomainAdded ==
  ASSUME Library, NEW p \in Profile, NEW D, IsFiniteSet(D), NEW d, NEW one \in BOOLEAN,
         one <=> p.domainsPerTx > 0 /\ d \notin D,
         ~(one /\ Cardinality(D) >= p.domainsPerTx),
         p.domainsPerTx > 0 => Cardinality(D) <= p.domainsPerTx
  PROVE  LET E == IF one THEN D \cup {d} ELSE D IN
         IsFiniteSet(E) /\ (p.domainsPerTx > 0 => Cardinality(E) <= p.domainsPerTx)
<1>1. p.domainsPerTx \in Nat /\ Cardinality(D) \in Nat
  BY ProfIs DEF Library, Counts
<1>2. CASE one
  <2>1. /\ IsFiniteSet(D \cup {d})
        /\ Cardinality(D \cup {d}) = IF d \in D THEN Cardinality(D) ELSE Cardinality(D) + 1
    BY DEF Library, CountsMore
  <2>2. Cardinality(D \cup {d}) = Cardinality(D) + 1
    BY <1>2, <2>1, Zenon
  <2> QED BY <1>1, <1>2, <2>1, <2>2
<1> QED BY <1>2

LEMMA RcptKeeps ==
  ASSUME Library, IInv, UNCHANGED env, NEW c \in Conns, NEW a \in env.addrs, Rcpt(c, a)
  PROVE  IInv'
<1> DEFINE s == sess[c]  one == prof.domainsPerTx > 0 /\ a.domain \notin s.txDomains
           D == IF one THEN s.txDomains \cup {a.domain} ELSE s.txDomains
           r == [s EXCEPT !.phase = "rcpt", !.addr = a, !.said = Silent,
                          !.rcpts = s.rcpts + 1, !.txDomains = D]
<1>1. /\ s \in SessType(env) /\ InOrder(env, s) /\ env \in Environments
      /\ prof \in Profile /\ Like(env, prof)
  BY SessionIs
<1>2. s.phase = "open"
  BY DEF Rcpt, Command
<1>3. \/ Becomes(c, [Hears(s, "RCPT", BadSequence) EXCEPT !.addr = a])
      \/ Becomes(c, [Hears(s, "RCPT", prof.says.domainLimit) EXCEPT !.addr = a])
      \/ /\ s.mail /\ ~(one /\ Cardinality(s.txDomains) >= prof.domainsPerTx)
         /\ Becomes(c, r)
  BY Zenon DEF Rcpt, BadSequence
<1>4. ASSUME Becomes(c, [Hears(s, "RCPT", BadSequence) EXCEPT !.addr = a]) PROVE IInv'
  BY <1>2, <1>4, BadSequenceIs, RcptRefusedKeeps
<1>5. ASSUME Becomes(c, [Hears(s, "RCPT", prof.says.domainLimit) EXCEPT !.addr = a])
      PROVE  IInv'
  <2>1. ~Verdict(ClassifyAs(prof.says.domainLimit)) /\ prof.says.domainLimit \in Reply
    BY <1>1, MeantIs, ProfIs
  <2> QED BY <1>2, <1>5, <2>1, RcptRefusedKeeps
<1>6. ASSUME s.mail, ~(one /\ Cardinality(s.txDomains) >= prof.domainsPerTx), Becomes(c, r)
      PROVE  IInv'
  <2> HIDE DEF s
  <2>1. /\ s.rcpts + 1 \in Nat /\ "rcpt" \in SessionPhases
        /\ D \in SUBSET {b.domain : b \in env.addrs}
    BY <1>1, SessIs DEF SessionPhases
  <2>2. IsFiniteSet(s.txDomains) /\ s.ip \in IPs /\ s.helo /\ s.txns > 0
    BY <1>1, <1>2, <1>6 DEF InOrder
  <2>3. ASSUME env.puts = {}
        PROVE  /\ prof.domainsPerTx > 0 => Cardinality(s.txDomains) <= prof.domainsPerTx
               /\ prof.domainsPerTx = env.prof.domainsPerTx
               /\ env.prof.tls = "required" => s.tls
               /\ env.prof.txPerConn > 0 => s.txns <= env.prof.txPerConn
    BY <1>1, <1>6, <2>3, ProfStays DEF InOrder
  <2>4. one \in BOOLEAN
    OBVIOUS
  <2>5. IsFiniteSet(D)
    BY <2>2 DEF Library, CountsMore
  <2>6. ASSUME env.puts = {}
        PROVE  prof.domainsPerTx > 0 => Cardinality(D) <= prof.domainsPerTx
    <3> HIDE DEF r
    <3> DEFINE T == s.txDomains  d == a.domain
    <3>1. D = IF one THEN T \cup {d} ELSE T
      OBVIOUS
    <3>2. one <=> prof.domainsPerTx > 0 /\ d \notin T
      OBVIOUS
    <3>3. /\ ~(one /\ Cardinality(T) >= prof.domainsPerTx) /\ IsFiniteSet(T)
          /\ prof.domainsPerTx > 0 => Cardinality(T) <= prof.domainsPerTx
      BY <1>6, <2>2, <2>3, <2>6
    <3> HIDE DEF D, one, T, d
    <3>4. LET E == IF one THEN T \cup {d} ELSE T IN
          IsFiniteSet(E) /\ (prof.domainsPerTx > 0 => Cardinality(E) <= prof.domainsPerTx)
      BY Zenon, <1>1, <2>4, <3>2, <3>3, DomainAdded
    <3> QED BY <3>1, <3>4, Zenon
  <2> HIDE DEF D
  <2>7. /\ r \in SessType(env) /\ r.phase = "rcpt" /\ r.ip = s.ip /\ r.txns = s.txns
        /\ r.mail = s.mail /\ r.rcpts = s.rcpts + 1 /\ r.txDomains = D
        /\ r.said = Silent /\ r.helo = s.helo /\ r.tls = s.tls /\ r.addr = a
    BY <1>1, <2>1, SilentIs, Zenon DEF SessType
  <2> HIDE DEF r, one
  <2>8. InOrder(env, r)
    BY <1>6, <2>2, <2>3, <2>5, <2>6, <2>7, Zenon DEF InOrder
  <2>9. Truthful(env, prof, obs.asked, r)
    BY <2>7, Unread
  <2>10. r.phase # "closed" /\ r.ip = sess[c].ip /\ Open(c)
    BY <1>2, <2>7 DEF Open, s
  <2> QED BY <1>6, <2>7, <2>8, <2>9, <2>10, BecomesKeeps
<1> QED BY <1>3, <1>4, <1>5, <1>6
-----------------------------------------------------------------------------
(* What the engine remembers of an address *)

\* Two states that differ in the connections, and in how long the cooldown is.
Alike(t, s) ==
  t.rcptTimes = s.rcptTimes /\ t.greylist = s.greylist

LEMMA IpIs ==
  ASSUME NEW e, NEW s \in IpType(e)
  PROVE  /\ s.connTimes \in Seq(Nat) /\ s.rcptTimes \in Seq(Nat) /\ s.active \in Nat
         /\ s.cooldown \in Nat /\ s.greylist \in AskedType(e)
  BY DEF IpType

LEMMA StartCooldownIs ==
  ASSUME NEW e, NEW s \in IpType(e), prof \in Profile
  PROVE  LET t == startCooldown(s) IN
         /\ t \in IpType(e) /\ t.connTimes = s.connTimes /\ t.active = s.active
         /\ Alike(t, s)
<1> DEFINE n == IF prof.cooldown > s.cooldown THEN prof.cooldown ELSE s.cooldown
           t == [s EXCEPT !.cooldown = n]
<1>1. n \in Nat
  BY ProfIs, IpIs
<1>2. t = startCooldown(s)
  BY Zenon DEF startCooldown
<1> HIDE DEF n
<1>3. t \in IpType(e) /\ t.connTimes = s.connTimes /\ t.active = s.active /\ Alike(t, s)
  BY <1>1, Zenon DEF IpType, Alike
<1> QED BY <1>2, <1>3, Zenon

\* Times that are put in place of others.
LEMMA ConnTimesIs ==
  ASSUME NEW e, NEW s \in IpType(e), NEW depth \in Nat, NEW ages, Times(ages, depth)
  PROVE  LET t == [s EXCEPT !.connTimes = ages] IN
         /\ t \in IpType(e) /\ t.connTimes = ages /\ t.active = s.active /\ Alike(t, s)
<1>1. ages \in Seq(Nat)
  BY DEF Times, Ordered
<1> QED BY <1>1, Zenon DEF IpType, Alike

\* What OnConnect leaves, s having counted the connection already.
LEMMA OnConnectIs ==
  ASSUME Library, NEW e, NEW s \in IpType(e), prof \in Profile, NEW depth \in Nat,
         Times(s.connTimes, depth)
  PROVE  LET v == OnConnect(s) IN
         /\ v.s \in IpType(e) /\ Times(v.s.connTimes, depth) /\ Alike(v.s, s)
         /\ v.reason = "banner" =>
              /\ v.s.active = s.active + 1
              /\ prof.maxConns > 0 => s.active < prof.maxConns
         /\ v.reason # "banner" => v.s.active = s.active
<1> DEFINE w == prof.connRate.window
           kept == IF enabled(prof.connRate) THEN [s EXCEPT !.connTimes = prune(@, w)] ELSE s
           full == prof.maxConns > 0 /\ s.active >= prof.maxConns
           in == [kept EXCEPT !.active = @ + 1]
           v == OnConnect(s)
<1>1. /\ prof.maxConns \in Nat /\ s.active \in Nat /\ w \in Nat /\ Horizon \in Nat
  BY MxSimAssumption, ProfIs, IpIs DEF Rule
<1>2. Times(prune(s.connTimes, w), depth)
  <2> DEFINE t == s.connTimes
  <2>1. Ordered(t, depth, Horizon)
    BY DEF Times
  <2> HIDE DEF t, w
  <2>2. /\ Ordered(prune(t, w), depth, Horizon) /\ Len(prune(t, w)) <= Len(t)
        /\ \A k \in 0 .. Len(prune(t, w)) - 1 : Kth(prune(t, w), k) = Kth(t, k)
        /\ \A k \in 0 .. Len(t) - 1 : Kth(t, k) < w => k < Len(prune(t, w))
        /\ \A i \in 1 .. Len(prune(t, w)) : prune(t, w)[i] < w
    BY Zenon, <1>1, <2>1, Pruned
  <2> QED BY <2>2, Zenon DEF Times, t
<1> HIDE DEF w
<1>3. /\ kept \in IpType(e) /\ Times(kept.connTimes, depth) /\ kept.active = s.active
      /\ Alike(kept, s)
  <2>1. CASE enabled(prof.connRate)
    <3> DEFINE ages == prune(s.connTimes, w)  t == [s EXCEPT !.connTimes = ages]
    <3>1. kept = t
      BY <2>1, Zenon
    <3>2. Times(ages, depth)
      BY <1>2
    <3> HIDE DEF ages, kept
    <3>3. t \in IpType(e) /\ t.connTimes = ages /\ t.active = s.active /\ Alike(t, s)
      BY <3>2, ConnTimesIs
    <3> QED BY <3>1, <3>2, <3>3, Zenon
  <2>2. CASE ~enabled(prof.connRate)
    <3>1. kept = s
      BY <2>2, Zenon
    <3> QED BY <3>1, Zenon DEF Alike
  <2> QED BY <2>1, <2>2
<1>4. \/ v.s = s /\ v.reason = "cooldown"
      \/ v.s = startCooldown(s) /\ v.reason = "max_concurrent"
      \/ v.s = startCooldown(kept) /\ v.reason = "conn_rate"
      \/ v.s = in /\ v.reason = "banner" /\ ~full
  <2>1. \/ v = [s |-> s, reason |-> "cooldown"]
        \/ v = [s |-> startCooldown(s), reason |-> "max_concurrent"]
        \/ v = [s |-> startCooldown(kept), reason |-> "conn_rate"]
        \/ v = [s |-> in, reason |-> "banner"] /\ ~full
    BY Zenon DEF OnConnect, w
  <2> HIDE DEF v, in, kept, full
  <2> QED BY <2>1
<1> HIDE DEF kept
<1>5. kept.active + 1 \in Nat
  BY <1>1, <1>3
<1>6. /\ in \in IpType(e) /\ in.connTimes = kept.connTimes /\ in.active = kept.active + 1
      /\ Alike(in, kept)
  BY <1>3, <1>5, Zenon DEF IpType, Alike
<1> HIDE DEF in, v
<1>7. CASE v.s = s /\ v.reason = "cooldown"
  BY <1>7, Zenon DEF v, Alike
<1>8. CASE v.s = startCooldown(s) /\ v.reason = "max_concurrent"
  <2> DEFINE t == startCooldown(s)
  <2>1. t \in IpType(e) /\ t.connTimes = s.connTimes /\ t.active = s.active /\ Alike(t, s)
    BY StartCooldownIs
  <2> QED BY <1>8, <2>1, Zenon DEF v
<1>9. CASE v.s = startCooldown(kept) /\ v.reason = "conn_rate"
  <2> DEFINE t == startCooldown(kept)
  <2>1. /\ t \in IpType(e) /\ t.connTimes = kept.connTimes /\ t.active = kept.active
        /\ Alike(t, kept)
    BY <1>3, StartCooldownIs
  <2> QED BY <1>3, <1>9, <2>1, Zenon DEF v, Alike
<1>10. CASE v.s = in /\ v.reason = "banner" /\ ~full
  <2>1. prof.maxConns > 0 => s.active < prof.maxConns
    BY <1>1, <1>10
  <2>2. Alike(in, s)
    BY <1>3, <1>6, Zenon DEF Alike
  <2> QED BY <1>3, <1>6, <1>10, <2>1, <2>2, Zenon DEF v
<1> QED BY <1>4, <1>7, <1>8, <1>9, <1>10

\* The state of one address changes.
LEMMA OneIp ==
  ASSUME Typed, UNCHANGED env, NEW ip \in IPs, NEW t \in IpType(env),
         ips' = [ips EXCEPT ![ip] = t]
  PROVE  /\ ips' \in [IPs -> IpType(env')]
         /\ \A i \in IPs : ips'[i] = IF i = ip THEN t ELSE ips[i]
<1>1. ips \in [IPs -> IpType(env)]
  BY DEF Typed
<1>2. [ips EXCEPT ![ip] = t] \in [IPs -> IpType(env)]
  BY <1>1, Zenon
<1>3. \A i \in IPs : ips'[i] = IF i = ip THEN t ELSE ips[i]
  BY <1>1
<1> QED BY <1>2, <1>3

\* What is remembered of RCPTs, where only connections and cooldowns changed.
LEMMA AlikeKeeps ==
  ASSUME Typed, Limiting, Noted, UNCHANGED <<env, prof, admin>>,
         \A i \in IPs : Alike(ips'[i], ips[i]),
         obs'.passed = obs.passed, obs'.asked = obs.asked, obs'.put = obs.put,
         obs'.stale = obs.stale
  PROVE  Limiting' /\ Noted'
<1>1. \A i \in IPs : ips'[i].rcptTimes = ips[i].rcptTimes /\ ips'[i].greylist = ips[i].greylist
  BY Zenon DEF Alike
<1>2. Limiting'
  <2> SUFFICES ASSUME ~obs'.stale
               PROVE  /\ prof'.rcptRate = obs'.put.rcptRate
                      /\ admin'.phase = "copied" => admin'.np.rcptRate = obs'.put.rcptRate
                      /\ enabled(obs'.put.rcptRate) =>
                           \A i \in IPs :
                             /\ Covered(obs'.put.rcptRate, ips'[i].rcptTimes, obs'.passed[i])
                             /\ Within(obs'.put.rcptRate, obs'.passed[i])
    BY Zenon DEF Limiting
  <2>1. /\ prof.rcptRate = obs.put.rcptRate
        /\ admin.phase = "copied" => admin.np.rcptRate = obs.put.rcptRate
        /\ enabled(obs.put.rcptRate) =>
             \A i \in IPs : /\ Covered(obs.put.rcptRate, ips[i].rcptTimes, obs.passed[i])
                            /\ Within(obs.put.rcptRate, obs.passed[i])
    BY Zenon DEF Limiting
  <2>2. enabled(obs'.put.rcptRate) <=> enabled(obs.put.rcptRate)
    BY Zenon
  <2>3. ASSUME enabled(obs.put.rcptRate), NEW i \in IPs
        PROVE  /\ Covered(obs'.put.rcptRate, ips'[i].rcptTimes, obs'.passed[i])
               /\ Within(obs'.put.rcptRate, obs'.passed[i])
    <3>1. /\ Covered(obs.put.rcptRate, ips[i].rcptTimes, obs.passed[i])
          /\ Within(obs.put.rcptRate, obs.passed[i])
      BY <2>1, <2>3
    <3>2. ips'[i].rcptTimes = ips[i].rcptTimes
      BY <1>1
    <3> QED BY <3>1, <3>2, Zenon
  <2> QED BY <2>1, <2>2, <2>3, Zenon
<1>3. Noted'
  <2> SUFFICES ASSUME NEW i \in IPs, NEW a \in env.addrs
               PROVE  ips'[i].greylist[a] <= obs'.asked[i][a]
    BY DEF Noted
  <2>1. ips[i].greylist[a] <= obs.asked[i][a]
    BY DEF Noted
  <2> QED BY <1>1, <2>1
<1> QED BY <1>2, <1>3

\* One more session is open.
LEMMA OpenedMore ==
  ASSUME Library,
         IsFiniteSet(Conns), NEW c \in Conns, ~Open(c), NEW r, r.phase # "closed",
         \A d \in Conns : sess'[d] = IF d = c THEN r ELSE sess[d]
  PROVE  /\ Cardinality({d \in Conns : Open(d)}') = Cardinality({d \in Conns : Open(d)}) + 1
         /\ Cardinality({d \in Conns : Open(d)}) + 1 <= Cardinality(Conns)
         /\ Cardinality(OpenFrom(r.ip)') = Cardinality(OpenFrom(r.ip)) + 1
         /\ \A i : i # r.ip => OpenFrom(i)' = OpenFrom(i)
<1> DEFINE O == {d \in Conns : Open(d)}  P == {d \in Conns : Open(d)}'
<1>1. P = O \cup {c} /\ c \notin O /\ P \subseteq Conns /\ O \subseteq Conns
  BY DEF Open
<1>2. OpenFrom(r.ip)' = OpenFrom(r.ip) \cup {c} /\ c \notin OpenFrom(r.ip)
      /\ OpenFrom(r.ip) \subseteq Conns
  BY DEF Open, OpenFrom
<1>3. \A i : i # r.ip => OpenFrom(i)' = OpenFrom(i)
  BY DEF Open, OpenFrom
<1> HIDE DEF O, P
<1>4. \A T \in SUBSET Conns : c \notin T => Cardinality(T \cup {c}) = Cardinality(T) + 1
  <2> TAKE T \in SUBSET Conns
  <2>1. IsFiniteSet(T)
    BY DEF Library, CountsPart
  <2>2. /\ IsFiniteSet(T \cup {c})
        /\ Cardinality(T \cup {c}) = IF c \in T THEN Cardinality(T) ELSE Cardinality(T) + 1
    BY <2>1 DEF Library, CountsMore
  <2> QED BY <2>2, Zenon
<1>5. Cardinality(P) = Cardinality(O) + 1
  BY <1>1, <1>4
<1>6. Cardinality(P) <= Cardinality(Conns)
  BY <1>1 DEF Library, CountsPart
<1>7. Cardinality(OpenFrom(r.ip)') = Cardinality(OpenFrom(r.ip)) + 1
  BY <1>2, <1>4
<1>8. /\ Cardinality(P) = Cardinality(O) + 1 /\ Cardinality(O) + 1 <= Cardinality(Conns)
  BY <1>5, <1>6
<1> QED BY <1>3, <1>7, <1>8 DEF O, P

\* One session less is open.
LEMMA OpenedLess ==
  ASSUME Library,
         IsFiniteSet(Conns), NEW c \in Conns, Open(c), NEW j \in IPs, j = sess[c].ip,
         \A d \in Conns : sess'[d] = IF d = c THEN Idle ELSE sess[d]
  PROVE  /\ Cardinality({d \in Conns : Open(d)}') = Cardinality({d \in Conns : Open(d)}) - 1
         /\ Cardinality({d \in Conns : Open(d)}) \in Nat \ {0}
         /\ Cardinality(OpenFrom(j)') = Cardinality(OpenFrom(j)) - 1
         /\ Cardinality(OpenFrom(j)) \in Nat \ {0}
         /\ \A i : i # j => OpenFrom(i)' = OpenFrom(i)
<1> DEFINE O == {d \in Conns : Open(d)}  P == {d \in Conns : Open(d)}'
<1>0. Idle.phase = "closed"
  BY DEF Idle
<1>1. P = O \ {c} /\ c \in O /\ P \subseteq Conns /\ O \subseteq Conns
  BY <1>0 DEF Open
<1>2. /\ OpenFrom(j)' = OpenFrom(j) \ {c} /\ c \in OpenFrom(j)
      /\ OpenFrom(j) \subseteq Conns
  BY <1>0 DEF Open, OpenFrom
<1>3. \A i : i # j => OpenFrom(i)' = OpenFrom(i)
  BY <1>0 DEF Open, OpenFrom
<1> HIDE DEF O, P
<1>4. \A T \in SUBSET Conns :
        c \in T => Cardinality(T \ {c}) = Cardinality(T) - 1 /\ Cardinality(T) \in Nat \ {0}
  <2> SUFFICES ASSUME NEW T \in SUBSET Conns, c \in T
               PROVE  Cardinality(T \ {c}) = Cardinality(T) - 1 /\ Cardinality(T) \in Nat \ {0}
    OBVIOUS
  <2>1. IsFiniteSet(T)
    BY DEF Library, CountsPart
  <2>2. /\ IsFiniteSet(T \ {c})
        /\ Cardinality(T \ {c}) = IF c \in T THEN Cardinality(T) - 1 ELSE Cardinality(T)
    BY SMTT(30), <2>1 DEF Library, CountsLess
  <2>3. Cardinality(T) \in Nat /\ Cardinality(T \ {c}) \in Nat
    BY <2>1, <2>2 DEF Library, Counts
  <2>4. Cardinality(T \ {c}) = Cardinality(T) - 1
    BY <2>2, Zenon
  <2> QED BY <2>3, <2>4
<1>5. Cardinality(P) = Cardinality(O) - 1 /\ Cardinality(O) \in Nat \ {0}
  BY <1>1, <1>4
<1>6. Cardinality(OpenFrom(j)') = Cardinality(OpenFrom(j)) - 1
      /\ Cardinality(OpenFrom(j)) \in Nat \ {0}
  BY <1>2, <1>4
<1> QED BY <1>3, <1>5, <1>6 DEF O, P
-----------------------------------------------------------------------------
(* Connections *)

LEMMA IdleIs ==
  ASSUME NEW e
  PROVE  /\ Idle \in SessType(e) /\ Idle.phase = "closed" /\ Idle.ip = "none"
         /\ Idle.mail = FALSE /\ Idle.rcpts = 0 /\ Idle.txDomains = {} /\ Idle.txns = 0
         /\ Idle.said = Silent
<1>1. Silent \in SaidType
  BY SilentIs
<1>2. "closed" \in SessionPhases
  BY DEF SessionPhases
<1> DEFINE t == Silent
<1> HIDE DEF t
<1>3. LET u == [phase |-> "closed", ip |-> "none", helo |-> FALSE, tls |-> FALSE,
                mail |-> FALSE, rcpts |-> 0, txDomains |-> {}, txns |-> 0,
                addr |-> NoAddr, said |-> t] IN
      /\ u \in SessType(e) /\ u.phase = "closed" /\ u.ip = "none"
      /\ u.mail = FALSE /\ u.rcpts = 0 /\ u.txDomains = {} /\ u.txns = 0
      /\ u.said = t
  BY <1>1, <1>2 DEF SessType, t
<1> QED BY <1>3, Zenon DEF Idle, t

\* A session that has said nothing is in order.
LEMMA OrderNew ==
  ASSUME Library,
         NEW e \in Environments, NEW r, r.phase = "closed" \/ (r.phase = "open" /\ r.ip \in IPs),
         r.mail = FALSE, r.rcpts = 0, r.txDomains = {},
         r.txns = 0
  PROVE  InOrder(e, r)
<1>1. e.prof.domainsPerTx \in Nat /\ e.prof.txPerConn \in Nat
  BY MxSimAssumption, ProfIs DEF Profiles
<1>2. IsFiniteSet({}) /\ Cardinality({}) = 0
  BY DEF Library, CountsNone
<1> QED BY <1>1, <1>2 DEF InOrder

LEMMA TruthKept ==
  ASSUME Truth, UNCHANGED <<env, prof>>, obs'.asked = obs.asked, NEW c \in Conns, NEW r,
         Truthful(env, prof, obs.asked, r),
         \A d \in Conns : sess'[d] = IF d = c THEN r ELSE sess[d]
  PROVE  Truth'
<1> SUFFICES ASSUME NEW d \in Conns PROVE Truthful(env', prof', obs'.asked, sess'[d])
  BY Zenon DEF Truth
<1>1. Truthful(env, prof, obs.asked, sess[d])
  BY DEF Truth
<1>2. sess'[d] = r \/ sess'[d] = sess[d]
  OBVIOUS
<1> QED BY <1>1, <1>2, Zenon

\* The connection is counted, at the end of those remembered.
LEMMA StampedIs ==
  ASSUME IInv, NEW ip \in IPs
  PROVE  LET s == [ips[ip] EXCEPT !.connTimes = Stamp(@, env.depth.conn)] IN
         /\ s \in IpType(env) /\ Times(s.connTimes, env.depth.conn)
         /\ s.active = ips[ip].active /\ Alike(s, ips[ip])
<1> DEFINE u == ips[ip]  n == env.depth.conn  ages == Stamp(u.connTimes, n)
           s == [u EXCEPT !.connTimes = ages]
<1>1. Typed /\ Timed
  BY Parts
<1>2. u \in IpType(env) /\ n \in Nat /\ Times(u.connTimes, n)
  BY <1>1, EnvIs DEF Typed, Timed
<1> HIDE DEF u, n
<1>3. Times(ages, n)
  <2> DEFINE t == u.connTimes
  <2> HIDE DEF t
  <2>1. /\ Times(Stamp(t, n), n)
        /\ Len(Stamp(t, n)) = IF Len(t) < n THEN Len(t) + 1 ELSE n
        /\ \A k \in 0 .. Len(Stamp(t, n)) - 1 :
             Kth(Stamp(t, n), k) = IF k = 0 THEN 0 ELSE Kth(t, k - 1)
    BY <1>2, StampIs DEF t
  <2> QED BY <2>1, Zenon DEF t
<1> HIDE DEF ages
<1>4. s \in IpType(env) /\ s.connTimes = ages /\ s.active = u.active /\ Alike(s, u)
  BY <1>2, <1>3, ConnTimesIs
<1>5. /\ s \in IpType(env) /\ Times(s.connTimes, n) /\ s.active = u.active /\ Alike(s, u)
  BY <1>3, <1>4, Zenon
<1> HIDE DEF s
<1>6. s = [ips[ip] EXCEPT !.connTimes = Stamp(@, env.depth.conn)]
  BY Zenon DEF s, u, ages, n
<1> QED BY <1>5, <1>6, Zenon DEF u, n

\* Times that are kept, but for the connections of one address.
LEMMA TimedKept ==
  ASSUME Timed, UNCHANGED env, obs'.passed = obs.passed, NEW ip \in IPs,
         Times(ips'[ip].connTimes, env.depth.conn), Alike(ips'[ip], ips[ip]),
         \A i \in IPs : i # ip => ips'[i] = ips[i]
  PROVE  Timed'
<1> SUFFICES ASSUME NEW i \in IPs
             PROVE  /\ Times(ips'[i].connTimes, env.depth.conn)
                    /\ Times(ips'[i].rcptTimes, env.depth.rcpt)
                    /\ Times(obs'.passed[i], env.depth.rcpt)
  BY Zenon DEF Timed
<1>1. /\ Times(ips[i].connTimes, env.depth.conn)
      /\ Times(ips[i].rcptTimes, env.depth.rcpt)
      /\ Times(obs.passed[i], env.depth.rcpt)
  BY DEF Timed
<1>2. CASE i = ip
  BY <1>1, <1>2, Zenon DEF Alike
<1>3. CASE i # ip
  BY <1>1, <1>3, Zenon
<1> QED BY <1>2, <1>3

\* What both outcomes of OnConnect have in common.
LEMMA ConnectsKeeps ==
  ASSUME IInv, UNCHANGED <<env, prof, admin>>, NEW c \in Conns, NEW ip \in IPs,
         NEW t \in IpType(env), Times(t.connTimes, env.depth.conn), Alike(t, ips[ip]),
         ips' = [ips EXCEPT ![ip] = t], NEW r \in SessType(env), InOrder(env, r),
         r.said = Silent \/ r.said.cmd # "RCPT", sess' = [sess EXCEPT ![c] = r],
         stats' \in StatsType, obs' \in ObsType(env),
         obs'.passed = obs.passed, obs'.asked = obs.asked, obs'.put = obs.put,
         obs'.stale = obs.stale, Tallied'
  PROVE  IInv'
<1>1. Typed /\ Ruled /\ Orderly /\ Timed /\ Tallied /\ Limiting /\ Noted /\ Truth
  BY Parts
<1>2. /\ sess' \in [Conns -> SessType(env')]
      /\ \A d \in Conns : sess'[d] = IF d = c THEN r ELSE sess[d]
  BY Zenon, <1>1, OneSession
<1>3. /\ ips' \in [IPs -> IpType(env')]
      /\ \A i \in IPs : ips'[i] = IF i = ip THEN t ELSE ips[i]
  BY Zenon, <1>1, OneIp
<1>4. Typed'
  BY <1>1, <1>2, <1>3, Zenon DEF Typed
<1>5. Ruled'
  BY <1>1, Zenon DEF Ruled
<1>6. Orderly'
  BY <1>1, <1>2, OrderKept
<1>7. /\ Times(ips'[ip].connTimes, env.depth.conn) /\ Alike(ips'[ip], ips[ip])
      /\ \A i \in IPs : i # ip => ips'[i] = ips[i]
  BY <1>3, Zenon
<1>8. Timed'
  BY <1>1, <1>7, TimedKept
<1>9. \A i \in IPs : Alike(ips'[i], ips[i])
  BY <1>7, Zenon DEF Alike
<1>10. Limiting' /\ Noted'
  BY <1>1, <1>9, AlikeKeeps
<1>11. Truthful(env, prof, obs.asked, r)
  BY Unread
<1>12. Truth'
  BY <1>1, <1>2, <1>11, TruthKept
<1> QED BY <1>4, <1>5, <1>6, <1>8, <1>10, <1>12 DEF IInv

\* The counts, with one more connection.
LEMMA AdmittedTallied ==
  ASSUME Library,
         IInv, UNCHANGED <<env, prof, admin>>, NEW c \in Conns, NEW ip \in IPs, ~Open(c),
         NEW r, r.phase = "open", r.ip = ip,
         \A d \in Conns : sess'[d] = IF d = c THEN r ELSE sess[d],
         ips'[ip].active = ips[ip].active + 1,
         prof.maxConns > 0 => ips[ip].active < prof.maxConns,
         \A i \in IPs : i # ip => ips'[i] = ips[i],
         stats'.current = stats.current + 1,
         stats'.max = (IF stats.current + 1 > stats.max THEN stats.current + 1 ELSE stats.max),
         obs'.crossed = obs.crossed
  PROVE  Tallied'
<1>1. Typed /\ Ruled /\ Tallied
  BY Parts
<1>2. IsFiniteSet(Conns) /\ env.prof.maxConns \in Nat /\ prof.maxConns \in Nat
  BY <1>1, EnvIs, ProfIs DEF Typed
<1>3. r.phase # "closed"
  OBVIOUS
<1>4. /\ Cardinality({d \in Conns : Open(d)}') = Cardinality({d \in Conns : Open(d)}) + 1
      /\ Cardinality({d \in Conns : Open(d)}) + 1 <= Cardinality(Conns)
      /\ Cardinality(OpenFrom(r.ip)') = Cardinality(OpenFrom(r.ip)) + 1
      /\ \A i : i # r.ip => OpenFrom(i)' = OpenFrom(i)
  BY ZenonT(60), <1>2, <1>3, OpenedMore
<1>5. /\ stats.current = Cardinality({d \in Conns : Open(d)})
      /\ stats.max <= Cardinality(Conns)
      /\ stats.current \in Nat /\ stats.max \in Nat /\ Cardinality(Conns) \in Nat
  BY <1>1, <1>2 DEF Library, Counts, Tallied, Typed, StatsType
<1>6. /\ stats'.current = Cardinality({d \in Conns : Open(d)}')
      /\ stats'.max >= stats'.current /\ stats'.max <= Cardinality(Conns)
  <2>1. stats'.current = Cardinality({d \in Conns : Open(d)}')
    BY <1>4, <1>5, Zenon
  <2>2. stats.current + 1 <= Cardinality(Conns)
    BY <1>4, <1>5, Zenon
  <2> QED BY <1>5, <2>1, <2>2
<1>7. ASSUME NEW i \in IPs
      PROVE  KnownFrom(env, obs.crossed, i, Cardinality(OpenFrom(i)), ips[i].active)'
  <2>1. KnownFrom(env, obs.crossed, i, Cardinality(OpenFrom(i)), ips[i].active)
    BY <1>1 DEF Tallied
  <2>2. CASE i # ip
    BY <1>4, <2>1, <2>2, Zenon
  <2>3. CASE i = ip
    <3> DEFINE n == Cardinality(OpenFrom(ip))  m == ips[ip].active
    <3>1. n \in Nat /\ m \in Nat
      <4>1. OpenFrom(ip) \subseteq Conns
        BY DEF OpenFrom
      <4>2. IsFiniteSet(OpenFrom(ip))
        BY <1>2, <4>1 DEF Library, CountsPart
      <4>3. ips[ip] \in IpType(env)
        BY <1>1 DEF Typed
      <4> QED BY <4>2, <4>3, IpIs DEF Library, Counts
    <3>2. Cardinality(OpenFrom(ip)') = n + 1 /\ ips'[ip].active = m + 1
      BY <1>4, Zenon
    <3>3. KnownFrom(env, obs.crossed, ip, n, m)
      BY <2>1, <2>3, Zenon
    <3>4. prof.maxConns > 0 => m < prof.maxConns
      OBVIOUS
    <3> HIDE DEF n, m
    <3>5. KnownFrom(env, obs.crossed, ip, n + 1, m + 1)
      <4>1. env.puts = {} => env.prof.maxConns = prof.maxConns
        BY <1>1, ProfStays DEF Ruled
      <4> QED BY <1>2, <3>1, <3>3, <3>4, <4>1 DEF KnownFrom
    <3> QED BY <2>3, <3>2, <3>5, Zenon
  <2> QED BY <2>2, <2>3
<1> QED BY <1>6, <1>7, Zenon DEF Tallied

\* The counts, where no session is opened or closed.
LEMMA SameTallied ==
  ASSUME IInv, UNCHANGED <<env, stats, obs>>, 
         \A d \in Conns : /\ sess'[d].phase = "closed" <=> sess[d].phase = "closed"
                          /\ sess[d].phase # "closed" => sess'[d].ip = sess[d].ip,
         \A i \in IPs : ips'[i].active = ips[i].active
  PROVE  Tallied'
<1>1. Tallied
  BY Parts
<1>2. {d \in Conns : Open(d)}' = {d \in Conns : Open(d)}
  BY DEF Open
<1>3. \A i \in IPs : OpenFrom(i)' = OpenFrom(i)
  BY DEF Open, OpenFrom
<1>4. /\ (stats.current = Cardinality({d \in Conns : Open(d)}))'
      /\ (stats.max >= stats.current \/ obs.unseen)'
      /\ (stats.max <= Cardinality(Conns))'
  BY <1>1, <1>2, Zenon DEF Tallied
<1>5. ASSUME NEW i \in IPs
      PROVE  KnownFrom(env, obs.crossed, i, Cardinality(OpenFrom(i)), ips[i].active)'
  <2>1. KnownFrom(env, obs.crossed, i, Cardinality(OpenFrom(i)), ips[i].active)
    BY <1>1 DEF Tallied
  <2> QED BY <2>1, <1>3, Zenon
<1> QED BY <1>4, <1>5, Zenon DEF Tallied

LEMMA Refusal421Is ==
  ASSUME prof \in Profile, NEW reason
  PROVE  Refusal421(reason) \in Reply
<1>1. Unavailable \in Reply
  BY DEF Unavailable, Reply, Wordings
<1>2. prof.says.tooMany \in Reply /\ prof.says.connRate \in Reply
  BY ProfIs
<1> QED BY <1>1, <1>2, Zenon DEF Refusal421

LEMMA ConnectKeeps ==
  ASSUME Library, IInv, UNCHANGED env, NEW c \in Conns, NEW ip \in IPs, Connect(c, ip)
  PROVE  IInv'
<1> DEFINE s == [ips[ip] EXCEPT !.connTimes = Stamp(@, env.depth.conn)]
           v == OnConnect(s)
           in == [Idle EXCEPT !.phase = "open", !.ip = ip]
           said == [cmd |-> "CONN", reply |-> Refusal421(v.reason)]
           out == [Idle EXCEPT !.said = said]
<1>1. Typed /\ Ruled /\ Orderly /\ Timed /\ Tallied /\ Limiting /\ Noted /\ Truth
  BY Parts
<1>2. /\ ~Open(c) /\ UNCHANGED <<prof, admin>> /\ ips' = [ips EXCEPT ![ip] = v.s]
  BY Zenon DEF Connect
<1>3. v.reason = "banner" =>
        /\ sess' = [sess EXCEPT ![c] = in]
        /\ stats' = [current |-> stats.current + 1,
                     max |-> IF stats.current + 1 > stats.max
                               THEN stats.current + 1 ELSE stats.max]
        /\ obs' = [obs EXCEPT !.unseen = FALSE]
  BY Zenon DEF Connect
<1>4. v.reason # "banner" => sess' = [sess EXCEPT ![c] = out] /\ UNCHANGED <<stats, obs>>
  BY Zenon DEF Connect
<1>5. /\ s \in IpType(env) /\ Times(s.connTimes, env.depth.conn)
      /\ s.active = ips[ip].active /\ Alike(s, ips[ip])
  BY StampedIs
<1> HIDE DEF s
<1>6. prof \in Profile /\ env \in Environments /\ env.depth.conn \in Nat
      /\ stats \in StatsType /\ obs \in ObsType(env)
  BY <1>1, EnvIs DEF Typed
<1>7. /\ v.s \in IpType(env) /\ Times(v.s.connTimes, env.depth.conn) /\ Alike(v.s, s)
      /\ v.reason = "banner" =>
           /\ v.s.active = s.active + 1
           /\ prof.maxConns > 0 => s.active < prof.maxConns
      /\ v.reason # "banner" => v.s.active = s.active
  BY <1>5, <1>6, OnConnectIs
<1> HIDE DEF v
<1>8. Alike(v.s, ips[ip])
  BY <1>5, <1>7, Zenon DEF Alike
<1>9. /\ ips' \in [IPs -> IpType(env')]
      /\ \A i \in IPs : ips'[i] = IF i = ip THEN v.s ELSE ips[i]
  BY Zenon, <1>1, <1>2, <1>7, OneIp
<1>10. /\ Idle \in SessType(env) /\ Idle.phase = "closed" /\ Idle.ip = "none"
       /\ Idle.mail = FALSE /\ Idle.rcpts = 0 /\ Idle.txDomains = {} /\ Idle.txns = 0
       /\ Idle.said = Silent
  BY Zenon, IdleIs
<1>11. CASE v.reason = "banner"
  <2>1. "open" \in SessionPhases /\ ip \in IPs \cup {"none"}
    BY DEF SessionPhases
  <2>2. /\ in \in SessType(env) /\ in.phase = "open" /\ in.ip = ip /\ in.mail = FALSE
        /\ in.rcpts = 0 /\ in.txDomains = {} /\ in.txns = 0 /\ in.said = Silent
    BY <1>10, <2>1, Zenon DEF SessType
  <2> HIDE DEF in
  <2>3. InOrder(env, in)
    BY <1>6, <2>2, OrderNew, Zenon
  <2>4. /\ sess' \in [Conns -> SessType(env')]
        /\ \A d \in Conns : sess'[d] = IF d = c THEN in ELSE sess[d]
    BY <1>1, <1>3, <1>11, <2>2, OneSession
  <2>5. /\ stats' \in StatsType /\ stats'.current = stats.current + 1
        /\ stats'.max = (IF stats.current + 1 > stats.max THEN stats.current + 1 ELSE stats.max)
    BY <1>3, <1>6, <1>11 DEF StatsType
  <2>6. /\ obs' \in ObsType(env) /\ obs'.passed = obs.passed /\ obs'.asked = obs.asked
        /\ obs'.put = obs.put /\ obs'.stale = obs.stale /\ obs'.crossed = obs.crossed
    BY <1>3, <1>6, <1>11, Zenon DEF ObsType
  <2>7. /\ ips'[ip].active = ips[ip].active + 1
        /\ prof.maxConns > 0 => ips[ip].active < prof.maxConns
        /\ \A i \in IPs : i # ip => ips'[i] = ips[i]
    BY <1>5, <1>7, <1>9, <1>11, Zenon
  <2>8. Tallied'
    BY <1>2, <2>2, <2>4, <2>5, <2>6, <2>7, AdmittedTallied
  <2> QED BY Zenon, <1>2, <1>3, <1>7, <1>8, <1>11, <2>2, <2>3, <2>5, <2>6, <2>8, ConnectsKeeps
<1>12. CASE v.reason # "banner"
  <2>1. said \in SaidType /\ said.cmd = "CONN"
    BY <1>6, Refusal421Is DEF SaidType
  <2> HIDE DEF said
  <2>2. /\ out \in SessType(env) /\ out.phase = "closed" /\ out.mail = FALSE
        /\ out.rcpts = 0 /\ out.txDomains = {} /\ out.txns = 0 /\ out.said = said
    BY <1>10, <2>1, Zenon DEF SessType
  <2> HIDE DEF out
  <2>3. InOrder(env, out)
    BY <1>6, <2>2, OrderNew, Zenon
  <2>4. /\ sess' \in [Conns -> SessType(env')]
        /\ \A d \in Conns : sess'[d] = IF d = c THEN out ELSE sess[d]
    BY <1>1, <1>4, <1>12, <2>2, OneSession
  <2>5. stats' = stats /\ obs' = obs /\ out.said.cmd # "RCPT"
    BY <1>4, <1>12, <2>1, <2>2
  <2>6. \A i \in IPs : ips'[i].active = ips[i].active
    BY <1>5, <1>7, <1>9, <1>12, Zenon
  <2>7. \A d \in Conns : /\ sess'[d].phase = "closed" <=> sess[d].phase = "closed"
                         /\ sess[d].phase # "closed" => sess'[d].ip = sess[d].ip
    BY <1>2, <2>2, <2>4 DEF Open
  <2>8. Tallied'
    BY <2>5, <2>6, <2>7, SameTallied
  <2>9. stats' \in StatsType /\ obs' \in ObsType(env) /\ obs'.passed = obs.passed
        /\ obs'.asked = obs.asked /\ obs'.put = obs.put /\ obs'.stale = obs.stale
    BY <1>6, <2>5
  <2> QED BY Zenon, <1>2, <1>4, <1>7, <1>8, <1>12, <2>2, <2>3, <2>5, <2>8, <2>9, ConnectsKeeps
<1> QED BY <1>11, <1>12

LEMMA OnDisconnectKeeps ==
  ASSUME Library, IInv, UNCHANGED env, NEW c \in Conns, OnDisconnect(c)
  PROVE  IInv'
<1>1. Typed /\ Ruled /\ Orderly /\ Timed /\ Tallied /\ Limiting /\ Noted /\ Truth
  BY Parts
<1>2. sess[c] \in SessType(env) /\ InOrder(env, sess[c]) /\ env \in Environments
  BY SessionIs
<1>3. PICK ip \in IPs : ip = sess[c].ip
  BY <1>2 DEF OnDisconnect, InOrder
<1>4. /\ sess[c].phase = "closing" /\ sess' = [sess EXCEPT ![c] = Idle]
      /\ UNCHANGED <<prof, admin>>
      /\ ips' = [ips EXCEPT ![ip].active = Less(@)]
      /\ stats' = [stats EXCEPT !.current = Less(@)]
      /\ obs' = [obs EXCEPT !.crossed = IF OpenFrom(ip) = {c} THEN @ \ {ip} ELSE @]
  BY <1>3, Zenon DEF OnDisconnect
<1>5. /\ ips[ip] \in IpType(env) /\ Times(ips[ip].connTimes, env.depth.conn)
      /\ stats \in StatsType /\ obs \in ObsType(env)
      /\ obs.crossed \in SUBSET IPs /\ ips \in [IPs -> IpType(env)]
  BY <1>1 DEF Typed, Timed, ObsType
<1> DEFINE u == ips[ip]  m == u.active  t == [u EXCEPT !.active = Less(m)]
<1>6. m \in Nat /\ Less(m) \in Nat /\ (m > 0 => Less(m) = m - 1) /\ (m = 0 => Less(m) = 0)
  BY <1>5, IpIs DEF Less
<1>7. ips' = [ips EXCEPT ![ip] = t]
  BY <1>4, <1>5, Zenon
<1>8. /\ t \in IpType(env) /\ t.connTimes = u.connTimes /\ t.active = Less(m) /\ Alike(t, u)
  BY <1>5, <1>6, Zenon DEF IpType, Alike
<1> HIDE DEF t
<1>9. /\ ips' \in [IPs -> IpType(env')]
      /\ \A i \in IPs : ips'[i] = IF i = ip THEN t ELSE ips[i]
  BY Zenon, <1>1, <1>7, <1>8, OneIp
<1>10. /\ Idle \in SessType(env) /\ Idle.phase = "closed" /\ Idle.ip = "none"
       /\ Idle.mail = FALSE /\ Idle.rcpts = 0 /\ Idle.txDomains = {} /\ Idle.txns = 0
       /\ Idle.said = Silent
  BY Zenon, IdleIs
<1>11. InOrder(env, Idle)
  BY <1>2, <1>10, OrderNew, Zenon
<1>12. /\ sess' \in [Conns -> SessType(env')]
       /\ \A d \in Conns : sess'[d] = IF d = c THEN Idle ELSE sess[d]
  BY Zenon, <1>1, <1>4, <1>10, OneSession
<1> DEFINE C == IF OpenFrom(ip) = {c} THEN obs.crossed \ {ip} ELSE obs.crossed
<1>13. C \in SUBSET IPs
  BY <1>5
<1>14. obs' = [obs EXCEPT !.crossed = C]
  BY <1>4, Zenon
<1>15. /\ \A i \in IPs : i # ip => (i \in C <=> i \in obs.crossed)
       /\ ip \notin C => ip \notin obs.crossed \/ OpenFrom(ip) = {c}
  OBVIOUS
<1> HIDE DEF C
<1>16. /\ obs' \in ObsType(env) /\ obs'.passed = obs.passed /\ obs'.asked = obs.asked
       /\ obs'.put = obs.put /\ obs'.stale = obs.stale /\ obs'.crossed = C
       /\ obs'.unseen = obs.unseen
  BY <1>5, <1>13, <1>14, Zenon DEF ObsType
<1>17. Open(c) /\ IsFiniteSet(Conns)
  BY <1>1, <1>4, EnvIs DEF Open
<1>18. /\ Cardinality({d \in Conns : Open(d)}') = Cardinality({d \in Conns : Open(d)}) - 1
       /\ Cardinality({d \in Conns : Open(d)}) \in Nat \ {0}
       /\ Cardinality(OpenFrom(ip)') = Cardinality(OpenFrom(ip)) - 1
       /\ Cardinality(OpenFrom(ip)) \in Nat \ {0}
       /\ \A i : i # ip => OpenFrom(i)' = OpenFrom(i)
  BY <1>3, <1>10, <1>12, <1>17, OpenedLess
<1>19. /\ stats.current = Cardinality({d \in Conns : Open(d)})
       /\ stats.max >= stats.current \/ obs.unseen
       /\ stats.max <= Cardinality(Conns)
       /\ stats.current \in Nat /\ stats.max \in Nat
  BY <1>1 DEF Tallied, Typed, StatsType
<1>20. /\ stats' \in StatsType /\ stats'.max = stats.max /\ stats'.current = stats.current - 1
       /\ stats.current \in Nat \ {0}
  <2>1. stats.current \in Nat \ {0}
    BY <1>18, <1>19, Zenon
  <2>2. Less(stats.current) = stats.current - 1 /\ stats.current - 1 \in Nat
    BY <2>1 DEF Less
  <2> QED BY <1>4, <1>5, <2>1, <2>2, Zenon DEF StatsType
<1>21. Tallied'
  <2>1. stats'.current = Cardinality({d \in Conns : Open(d)}')
    BY <1>18, <1>19, <1>20, Zenon
  <2>2. /\ stats'.max >= stats'.current \/ obs'.unseen
        /\ stats'.max <= Cardinality(Conns)
    BY <1>16, <1>19, <1>20
  <2>3. ASSUME NEW i \in IPs
        PROVE  KnownFrom(env, obs.crossed, i, Cardinality(OpenFrom(i)), ips[i].active)'
    <3>1. KnownFrom(env, obs.crossed, i, Cardinality(OpenFrom(i)), ips[i].active)
      BY <1>1 DEF Tallied
    <3>2. CASE i # ip
      <4>1. KnownFrom(env, C, i, Cardinality(OpenFrom(i)), ips[i].active)
        BY <1>15, <3>1, <3>2, Zenon DEF KnownFrom
      <4> QED BY <1>9, <1>16, <1>18, <3>2, <4>1, Zenon
    <3>3. CASE i = ip
      <4> DEFINE n == Cardinality(OpenFrom(ip))
      <4>1. KnownFrom(env, obs.crossed, ip, n, m)
        BY <3>1, <3>3, Zenon
      <4>2. /\ Cardinality(OpenFrom(ip)') = n - 1 /\ n \in Nat \ {0}
            /\ ips'[ip].active = Less(m)
        BY <1>8, <1>9, <1>18, Zenon
      <4>3. ip \notin C => ip \notin obs.crossed \/ n = 1
        <5>1. Cardinality({c}) = 1
          BY DEF Library, CountsOne
        <5> QED BY <1>15, <5>1, Zenon
      <4>4. env.prof.maxConns \in Nat
        BY <1>1, EnvIs, ProfIs
      <4> HIDE DEF n, m
      <4>5. KnownFrom(env, C, ip, n - 1, Less(m))
        BY <1>6, <4>1, <4>2, <4>3, <4>4 DEF KnownFrom
      <4> QED BY <1>16, <3>3, <4>2, <4>5, Zenon
    <3> QED BY <3>2, <3>3
  <2> QED BY <2>1, <2>2, <2>3, Zenon DEF Tallied
<1>22. Times(t.connTimes, env.depth.conn) /\ Alike(t, ips[ip])
  BY <1>5, <1>8, Zenon
<1> QED BY Zenon, <1>4, <1>7, <1>8, <1>10, <1>11, <1>16, <1>20, <1>21, <1>22, ConnectsKeeps
-----------------------------------------------------------------------------
(* The engine's decision on a RCPT *)

Reasons == {"cooldown", "rcpt_per_conn", "rcpt_rate", "relay_denied", "drop", "temp",
            "timeout", "greylist", "bounce_list", "accept", "catch_all", "unknown"}
Decided == {"bounce_list", "accept", "catch_all", "unknown"}

\* What the decision says of the address and of the limits.
LEMMA ReasonIs ==
  ASSUME NEW s, NEW a, NEW n, NEW luck \in {"none", "drop", "temp"}
  PROVE  LET reason == Reason(s, a, n, luck) IN
         /\ reason \in Reasons
         /\ reason \notin Limited =>
              ~Exceeds(prof.rcptRate, Stamp(s.rcptTimes, env.depth.rcpt))
         /\ reason = "greylist" => prof.greylist > 0
         /\ reason \in Decided =>
              /\ ~Greylisted(s, a)
              /\ Takes(prof, a) <=> reason \in {"accept", "catch_all"}
<1> DEFINE reason == Reason(s, a, n, luck)
           cold == s.cooldown > 0
           many == prof.rcptPerConn > 0 /\ n > prof.rcptPerConn
           fast == Exceeds(prof.rcptRate, Stamp(s.rcptTimes, env.depth.rcpt))
           relay == prof.relayDenied /\ prof.domains # {} /\ a.domain \notin prof.domains
           drop == a.local \in prof.drop
           timeout == a.local \in prof.timeout
           grey == Greylisted(s, a)
           bounce == a.local \in prof.bounce
           exists == a.local \in prof.exists
           all == prof.catchAll \/ a.domain \in prof.catchAllDomains
<1>1. reason = IF cold THEN "cooldown" ELSE IF many THEN "rcpt_per_conn"
               ELSE IF fast THEN "rcpt_rate" ELSE IF relay THEN "relay_denied"
               ELSE IF luck # "none" THEN luck ELSE IF drop THEN "drop"
               ELSE IF timeout THEN "timeout" ELSE IF grey THEN "greylist"
               ELSE IF bounce THEN "bounce_list" ELSE IF exists THEN "accept"
               ELSE IF all THEN "catch_all" ELSE "unknown"
  BY DEF Reason
<1>2. Takes(prof, a) <=> ~bounce /\ (exists \/ all)
  BY Zenon DEF Takes
<1>3. grey => prof.greylist > 0
  BY Zenon DEF Greylisted
<1> HIDE DEF reason, cold, many, fast, relay, drop, timeout, grey, bounce, exists, all
<1>4. /\ reason \in Reasons
      /\ reason \notin Limited => ~fast
      /\ reason = "greylist" => prof.greylist > 0
      /\ reason \in Decided => ~grey /\ (Takes(prof, a) <=> reason \in {"accept", "catch_all"})
  BY <1>1, <1>2, <1>3 DEF Reasons, Decided, Limited, Throttles
<1> QED BY <1>4 DEF reason, fast, grey

\* What is said, and what of it is a verdict.
LEMMA ReplyToIs ==
  ASSUME env \in Environments, prof \in Profile, Like(env, prof), NEW reason \in Reasons
  PROVE  /\ ReplyTo(reason) \in Reply
         /\ reason \notin Decided => ~Verdict(ClassifyAs(ReplyTo(reason)))
         /\ reason \in {"accept", "catch_all"} => ClassifyAs(ReplyTo(reason)) = "valid"
         /\ reason \in {"bounce_list", "unknown"} => ClassifyAs(ReplyTo(reason)) # "valid"
<1> DEFINE x == ReplyTo(reason)  slow == [code |-> 452, ec |-> <<4, 5, 3>>, words |-> {"throttle"}]
<1>1. /\ ClassifyAs(prof.says.accept) = "valid" /\ ClassifyAs(prof.says.reject) # "valid"
      /\ ~Verdict(ClassifyAs(prof.says.rcptRate)) /\ ~Verdict(ClassifyAs(prof.says.greylist))
      /\ ~Verdict(ClassifyAs(prof.says.tempError))
      /\ ~Verdict(ClassifyAs(prof.says.relayDenied))
      /\ ~Verdict(ClassifyAs(prof.says.domainLimit))
  BY MeantIs
<1>2. /\ prof.says.accept \in Reply /\ prof.says.reject \in Reply
      /\ prof.says.rcptRate \in Reply /\ prof.says.greylist \in Reply
      /\ prof.says.tempError \in Reply /\ prof.says.relayDenied \in Reply
  BY ProfIs
<1>3. slow \in Reply /\ ~Verdict(ClassifyAs(slow))
  <2>1. slow \in Reply
    BY DEF Reply, Wordings
  <2>2. slow.code = 452 /\ slow.words = {"throttle"}
    OBVIOUS
  <2> HIDE DEF slow
  <2> QED BY <2>1, <2>2 DEF ClassifyAs, Verdict, Says, Temporary
<1>4. Unavailable \in Reply /\ ~Verdict(ClassifyAs(Unavailable))
  <2>1. Unavailable \in Reply
    BY DEF Reply, Wordings, Unavailable
  <2>2. Unavailable.code = 421 /\ Unavailable.words = {"throttle"}
    BY DEF Unavailable
  <2> QED BY <2>1, <2>2 DEF ClassifyAs, Verdict, Says, Temporary
<1>5. NoReply \in Reply /\ ~Verdict(ClassifyAs(NoReply))
  <2>1. NoReply \in Reply /\ NoReply.code = 0
    BY DEF NoReply, Reply, NoCode
  <2> QED BY <2>1 DEF ClassifyAs, Verdict
<1>6. /\ reason = "cooldown" => x = prof.says.rcptRate \/ x = Unavailable
      /\ reason = "rcpt_per_conn" => x = slow
      /\ reason = "rcpt_rate" => x = prof.says.rcptRate
      /\ reason = "relay_denied" => x = prof.says.relayDenied
      /\ reason = "temp" => x = prof.says.tempError
      /\ reason = "greylist" => x = prof.says.greylist
      /\ reason \in {"bounce_list", "unknown"} => x = prof.says.reject
      /\ reason \in {"accept", "catch_all"} => x = prof.says.accept
      /\ reason \in {"drop", "timeout"} => x = NoReply
  <2> HIDE DEF slow
  <2>1. reason \in {"drop", "timeout"} => x = NoReply
    BY DEF ReplyTo
  <2> QED BY <2>1 DEF ReplyTo, slow
<1> HIDE DEF x, slow
<1>7. \/ reason = "cooldown" \/ reason = "rcpt_per_conn" \/ reason = "rcpt_rate"
      \/ reason = "relay_denied" \/ reason = "temp" \/ reason = "greylist"
      \/ reason \in {"bounce_list", "unknown"} \/ reason \in {"accept", "catch_all"}
      \/ reason \in {"drop", "timeout"}
  BY DEF Reasons
<1>8. x \in Reply
  BY <1>2, <1>3, <1>4, <1>5, <1>6, <1>7, Zenon
<1>9. reason \notin Decided => ~Verdict(ClassifyAs(x))
  <2>1. reason \notin Decided =>
          ~(reason \in {"bounce_list", "unknown"}) /\ ~(reason \in {"accept", "catch_all"})
    BY DEF Decided
  <2> QED BY <1>1, <1>3, <1>4, <1>5, <1>6, <1>7, <2>1, Zenon
<1>10. /\ reason \in {"accept", "catch_all"} => ClassifyAs(x) = "valid"
       /\ reason \in {"bounce_list", "unknown"} => ClassifyAs(x) # "valid"
  BY <1>1, <1>6, Zenon
<1> QED BY <1>8, <1>9, <1>10 DEF x

\* What is remembered.
LEMMA RemembersIs ==
  ASSUME Library, IInv, NEW ip \in IPs, NEW a \in env.addrs, NEW reason
  PROVE  LET s == ips[ip]
             t == Remembers(s, a, reason)
             kept == reason \in {"cooldown", "rcpt_per_conn"} \/ ~enabled(prof.rcptRate)
         IN
         /\ t \in IpType(env) /\ t.connTimes = s.connTimes /\ t.active = s.active
         /\ t.rcptTimes = IF kept THEN s.rcptTimes
                          ELSE prune(Stamp(s.rcptTimes, env.depth.rcpt), prof.rcptRate.window)
         /\ t.greylist = IF reason = "greylist" /\ s.greylist[a] = -1
                           THEN [s.greylist EXCEPT ![a] = 0] ELSE s.greylist
         /\ Times(t.rcptTimes, env.depth.rcpt)
<1> DEFINE s == ips[ip]  n == env.depth.rcpt  w == prof.rcptRate.window
           kept == reason \in {"cooldown", "rcpt_per_conn"} \/ ~enabled(prof.rcptRate)
           ages == IF kept THEN s.rcptTimes ELSE prune(Stamp(s.rcptTimes, n), w)
           p == IF kept THEN s ELSE [s EXCEPT !.rcptTimes = prune(Stamp(@, n), w)]
           new == reason = "greylist" /\ s.greylist[a] = -1
           known == IF new THEN [s.greylist EXCEPT ![a] = 0] ELSE s.greylist
           g == IF new THEN [p EXCEPT !.greylist[a] = 0] ELSE p
           t == Remembers(s, a, reason)
<1>1. Typed /\ Timed
  BY Parts
<1>2. /\ s \in IpType(env) /\ n \in Nat /\ w \in Nat /\ Horizon \in Nat \ {0}
      /\ Times(s.rcptTimes, n) /\ prof \in Profile
  <2>1. prof \in Profile /\ s \in IpType(env) /\ Times(s.rcptTimes, n)
    BY <1>1, Zenon DEF Typed, Timed
  <2>2. prof.rcptRate \in Rule
    BY <2>1, ProfIs
  <2> QED BY <1>1, <2>1, <2>2, EnvIs DEF Rule
<1>3. t = IF reason \in Throttles THEN startCooldown(g) ELSE g
  BY Zenon DEF Remembers
<1> HIDE DEF s, n, w, t
<1>4. Times(prune(Stamp(s.rcptTimes, n), w), n)
  <2> DEFINE u == s.rcptTimes
  <2>0. Times(u, n)
    BY <1>2
  <2> HIDE DEF u
  <2>1. /\ Times(Stamp(u, n), n)
        /\ Len(Stamp(u, n)) = IF Len(u) < n THEN Len(u) + 1 ELSE n
        /\ \A k \in 0 .. Len(Stamp(u, n)) - 1 :
             Kth(Stamp(u, n), k) = IF k = 0 THEN 0 ELSE Kth(u, k - 1)
    BY <1>2, <2>0, StampIs
  <2> DEFINE z == Stamp(u, n)
  <2>2. Ordered(z, n, Horizon) /\ Horizon \in Nat
    BY <1>2, <2>1 DEF Times
  <2> HIDE DEF z
  <2>3. /\ Ordered(prune(z, w), n, Horizon) /\ Len(prune(z, w)) <= Len(z)
        /\ \A k \in 0 .. Len(prune(z, w)) - 1 : Kth(prune(z, w), k) = Kth(z, k)
        /\ \A k \in 0 .. Len(z) - 1 : Kth(z, k) < w => k < Len(prune(z, w))
        /\ \A i \in 1 .. Len(prune(z, w)) : prune(z, w)[i] < w
    BY Zenon, <1>2, <2>2, Pruned
  <2> QED BY <2>3, Zenon DEF Times, z, u
<1>5. Times(ages, n) /\ ages \in Seq(Nat)
  BY Zenon, <1>2, <1>4 DEF Times, Ordered
<1> HIDE DEF kept
<1>6. /\ p \in IpType(env) /\ p.connTimes = s.connTimes /\ p.active = s.active
      /\ p.rcptTimes = ages /\ p.greylist = s.greylist
  <2>1. CASE kept
    BY <1>2, <2>1, Zenon
  <2>2. CASE ~kept
    <3>1. p = [s EXCEPT !.rcptTimes = ages]
      BY <2>2, Zenon
    <3> HIDE DEF ages, p
    <3> QED BY <1>2, <1>5, <3>1, Zenon DEF IpType
  <2> QED BY <2>1, <2>2
<1> HIDE DEF p, ages
<1>7. known \in AskedType(env)
  <2>1. 0 \in -1 .. Horizon
    BY <1>2
  <2>2. s.greylist \in AskedType(env)
    BY <1>2, IpIs
  <2> QED BY <2>1, <2>2, Zenon DEF AskedType
<1>8. /\ g \in IpType(env) /\ g.connTimes = s.connTimes /\ g.active = s.active
      /\ g.rcptTimes = ages /\ g.greylist = known
  <2>1. CASE new
    <3>1. g = [p EXCEPT !.greylist = known]
      BY <1>6, <2>1, Zenon
    <3> HIDE DEF g, known
    <3> QED BY <1>6, <1>7, <3>1, Zenon DEF IpType
  <2>2. CASE ~new
    BY <1>6, <2>2, Zenon
  <2> QED BY <2>1, <2>2
<1> HIDE DEF g, known
<1>9. LET v == startCooldown(g) IN
      /\ v \in IpType(env) /\ v.connTimes = g.connTimes /\ v.active = g.active /\ Alike(v, g)
  BY <1>2, <1>8, StartCooldownIs
<1>10. /\ t \in IpType(env) /\ t.connTimes = s.connTimes /\ t.active = s.active
       /\ t.rcptTimes = ages /\ t.greylist = known /\ Times(t.rcptTimes, n)
  BY <1>3, <1>5, <1>8, <1>9, Zenon DEF Alike
<1> QED BY <1>10, Zenon DEF t, s, ages, known, n, w, kept

\* An address that asked long enough ago did so later too.
LEMMA TruthfulLater ==
  ASSUME NEW e, NEW p \in Profile, NEW old \in [IPs -> AskedType(e)],
         NEW new \in [IPs -> AskedType(e)],
         \A i \in IPs : \A b \in e.addrs : old[i][b] <= new[i][b],
         NEW r, Truthful(e, p, old, r)
  PROVE  Truthful(e, p, new, r)
<1> SUFFICES ASSUME Verdict(Reads(r.said))
             PROVE  /\ r.said.cmd = "RCPT" /\ r.ip \in IPs /\ r.addr \in e.addrs
                    /\ (Reads(r.said) = "valid") <=> Takes(p, r.addr)
                    /\ p.greylist > 0 => new[r.ip][r.addr] >= p.greylist
  BY Zenon DEF Truthful
<1>1. /\ r.said.cmd = "RCPT" /\ r.ip \in IPs /\ r.addr \in e.addrs
      /\ (Reads(r.said) = "valid") <=> Takes(p, r.addr)
      /\ p.greylist > 0 => old[r.ip][r.addr] >= p.greylist
  BY Zenon DEF Truthful
<1>2. p.greylist > 0 => new[r.ip][r.addr] >= p.greylist
  <2> DEFINE i == r.ip  b == r.addr
  <2>1. i \in IPs /\ b \in e.addrs /\ (p.greylist > 0 => old[i][b] >= p.greylist)
    BY <1>1, Zenon
  <2> HIDE DEF i, b
  <2>2. old[i][b] \in Int /\ new[i][b] \in Int /\ old[i][b] <= new[i][b]
    <3>1. old[i] \in [e.addrs -> -1 .. Horizon] /\ new[i] \in [e.addrs -> -1 .. Horizon]
      BY <2>1, Zenon DEF AskedType
    <3>2. old[i][b] \in -1 .. Horizon /\ new[i][b] \in -1 .. Horizon
      BY <2>1, <3>1, Zenon
    <3> QED BY <2>1, <3>2, MxSimAssumption
  <2>3. p.greylist \in Nat
    BY ProfIs
  <2> QED BY <2>1, <2>2, <2>3 DEF i, b
<1> QED BY <1>1, <1>2, Zenon

\* The rate limit, past one RCPT.
LEMMA LimitKept ==
  ASSUME Library, IInv, ~obs.stale, enabled(prof.rcptRate), NEW ip \in IPs, NEW reason,
         reason \notin Limited => ~Exceeds(prof.rcptRate, Stamp(ips[ip].rcptTimes, env.depth.rcpt)),
         NEW times,
         times = IF reason \in {"cooldown", "rcpt_per_conn"} \/ ~enabled(prof.rcptRate)
                   THEN ips[ip].rcptTimes
                   ELSE prune(Stamp(ips[ip].rcptTimes, env.depth.rcpt), prof.rcptRate.window),
         NEW passed,
         passed = IF reason \in Limited THEN obs.passed[ip]
                                        ELSE Stamp(obs.passed[ip], env.depth.rcpt)
  PROVE  Covered(prof.rcptRate, times, passed) /\ Within(prof.rcptRate, passed)
<1> DEFINE rule == prof.rcptRate  n == env.depth.rcpt  u == ips[ip].rcptTimes
           o == obs.passed[ip]
<1>1. Typed /\ Ruled /\ Timed /\ Limiting
  BY Parts
<1>2. n \in Nat /\ rule \in Rule /\ Times(u, n) /\ Times(o, n) /\ enabled(rule)
  BY <1>1, EnvIs, ProfIs DEF Typed, Timed
<1>3. Covered(rule, u, o) /\ Within(rule, o)
  <2>1. rule = obs.put.rcptRate
    BY <1>1 DEF Limiting
  <2>2. enabled(obs.put.rcptRate) =>
         \A i \in IPs : /\ Covered(obs.put.rcptRate, ips[i].rcptTimes, obs.passed[i])
                        /\ Within(obs.put.rcptRate, obs.passed[i])
    BY <1>1, Zenon DEF Limiting
  <2>3. enabled(obs.put.rcptRate)
    BY <1>2, <2>1, Zenon
  <2> QED BY <2>1, <2>2, <2>3, Zenon
<1>4. rule.count < n
  <2>1. PICK q \in Profiles(env) : rule = q.rcptRate
    BY <1>1, Zenon DEF Ruled, Like
  <2>2. q.rcptRate.count > 0 => n > q.rcptRate.count
    BY <1>1, <2>1, MxSimAssumption DEF Typed
  <2>3. rule.count > 0 /\ rule.count \in Nat
    BY <1>2 DEF enabled, Rule
  <2> QED BY <1>2, <2>1, <2>2, <2>3
<1> DEFINE kept == reason \in {"cooldown", "rcpt_per_conn"}
<1>5. /\ times = IF kept THEN u ELSE prune(Stamp(u, n), rule.window)
      /\ passed = IF reason \in Limited THEN o ELSE Stamp(o, n)
      /\ reason \notin Limited => ~Exceeds(rule, Stamp(u, n))
  BY <1>2
<1>6. kept => reason \in Limited
  BY DEF Limited, Throttles
<1> HIDE DEF rule, n, u, o, kept
<1>7. CASE kept
  BY <1>3, <1>5, <1>6, <1>7, Zenon DEF rule
<1>8. CASE ~kept /\ reason \in Limited
  <2>1. Covered(rule, prune(Stamp(u, n), rule.window), o)
    BY <1>2, <1>3, <1>4, RateRefused
  <2> QED BY <1>3, <1>5, <1>8, <2>1, Zenon DEF rule
<1>9. CASE ~kept /\ reason \notin Limited
  <2>1. ~Exceeds(rule, Stamp(u, n))
    BY <1>5, <1>9
  <2>2. /\ Within(rule, Stamp(o, n))
        /\ Covered(rule, prune(Stamp(u, n), rule.window), Stamp(o, n))
    BY <1>2, <1>3, <1>4, <2>1, RatePassed
  <2> QED BY <1>5, <1>9, <2>2, Zenon DEF rule
<1> QED BY <1>7, <1>8, <1>9

\* What the observers note of a RCPT.
Noting(o, ip, a, P, A) == [o EXCEPT !.passed[ip] = P, !.asked[ip][a] = A]

LEMMA RcptObserved ==
  ASSUME obs \in ObsType(env), NEW ip \in IPs, NEW a \in env.addrs, NEW P \in Seq(Nat),
         NEW A \in -1 .. Horizon, obs' = Noting(obs, ip, a, P, A)
  PROVE  /\ obs' \in ObsType(env) /\ obs'.crossed = obs.crossed /\ obs'.unseen = obs.unseen
         /\ obs'.put = obs.put /\ obs'.stale = obs.stale
         /\ \A i \in IPs : obs'.passed[i] = IF i = ip THEN P ELSE obs.passed[i]
         /\ \A i \in IPs : \A b \in env.addrs :
              obs'.asked[i][b] = IF i = ip /\ b = a THEN A ELSE obs.asked[i][b]
<1> DEFINE p == obs.passed  k == obs.asked
           p2 == [p EXCEPT ![ip] = P]  k2 == [k EXCEPT ![ip] = [k[ip] EXCEPT ![a] = A]]
<1>1. p \in [IPs -> Seq(Nat)] /\ k \in [IPs -> [env.addrs -> -1 .. Horizon]]
  BY Zenon DEF ObsType, AskedType
<1>2. obs' = [obs EXCEPT !.passed = p2, !.asked = k2]
  BY Zenon DEF Noting
<1> HIDE DEF p, k
<1>3. p2 \in [IPs -> Seq(Nat)] /\ \A i \in IPs : p2[i] = IF i = ip THEN P ELSE p[i]
  BY <1>1, Zenon
<1>4. /\ [k[ip] EXCEPT ![a] = A] \in [env.addrs -> -1 .. Horizon]
      /\ \A b \in env.addrs : [k[ip] EXCEPT ![a] = A][b] = IF b = a THEN A ELSE k[ip][b]
  BY <1>1, Zenon
<1>5. /\ k2 \in [IPs -> [env.addrs -> -1 .. Horizon]]
      /\ \A i \in IPs : k2[i] = IF i = ip THEN [k[ip] EXCEPT ![a] = A] ELSE k[i]
  BY <1>1, <1>4, Zenon
<1>6. \A i \in IPs : \A b \in env.addrs : k2[i][b] = IF i = ip /\ b = a THEN A ELSE k[i][b]
  BY <1>4, <1>5, Zenon
<1> HIDE DEF p2, k2
<1>7. /\ obs' \in ObsType(env) /\ obs'.crossed = obs.crossed /\ obs'.unseen = obs.unseen
      /\ obs'.put = obs.put /\ obs'.stale = obs.stale /\ obs'.passed = p2 /\ obs'.asked = k2
  BY <1>2, <1>3, <1>5, Zenon DEF ObsType, AskedType
<1> QED BY <1>3, <1>6, <1>7, Zenon DEF p, k

LEMMA OnRcptKeeps ==
  ASSUME Library,
         IInv, UNCHANGED env, NEW c \in Conns, NEW luck \in {"none", "drop", "temp"},
         OnRcpt(c, luck)
  PROVE  IInv'
<1>1. Typed /\ Ruled /\ Orderly /\ Timed /\ Tallied /\ Limiting /\ Noted /\ Truth
  BY Parts
<1>2. /\ env \in Environments /\ prof \in Profile /\ Like(env, prof)
      /\ sess[c] \in SessType(env) /\ InOrder(env, sess[c])
      /\ Truthful(env, prof, obs.asked, sess[c])
  BY SessionIs
<1>3. sess[c].phase = "rcpt" /\ UNCHANGED <<prof, stats, admin>>
  BY Zenon DEF OnRcpt
<1>4. PICK ip \in IPs : ip = sess[c].ip
  BY <1>2, <1>3 DEF InOrder
<1>5. PICK a \in env.addrs : a = sess[c].addr
  BY <1>2, <1>3 DEF InOrder
<1>6. PICK reason : reason = Reason(ips[ip], a, sess[c].rcpts, luck)
  OBVIOUS
<1> DEFINE s == ips[ip]  t == Remembers(s, a, reason)  n == env.depth.rcpt
           u == Hears(sess[c], "RCPT", ReplyTo(reason))
           ph == CASE reason \in Throttles \cup {"drop"} -> "closing"
                   [] reason = "timeout" -> "held"
                   [] OTHER -> "open"
           r == [u EXCEPT !.phase = ph]
           P == IF reason \in Limited THEN obs.passed[ip] ELSE Stamp(obs.passed[ip], n)
           A == IF obs.asked[ip][a] = -1 /\ prof.greylist > 0 THEN 0 ELSE obs.asked[ip][a]
<1>7. /\ ips \in [IPs -> IpType(env)] /\ sess \in [Conns -> SessType(env)]
      /\ obs \in ObsType(env) /\ s \in IpType(env) /\ n \in Nat /\ Horizon \in Nat \ {0}
      /\ obs.passed \in [IPs -> Seq(Nat)] /\ obs.asked \in [IPs -> AskedType(env)]
      /\ obs.asked[ip] \in [env.addrs -> -1 .. Horizon]
      /\ s.greylist \in [env.addrs -> -1 .. Horizon]
  <2>1. /\ ips \in [IPs -> IpType(env)] /\ sess \in [Conns -> SessType(env)]
        /\ obs \in ObsType(env) /\ s \in IpType(env)
    BY <1>1, Zenon DEF Typed
  <2>2. s.greylist \in AskedType(env) /\ obs.passed \in [IPs -> Seq(Nat)]
        /\ obs.asked \in [IPs -> AskedType(env)]
    BY SMTT(30), <2>1, IpIs DEF ObsType
  <2> QED BY <1>1, <2>1, <2>2, EnvIs DEF AskedType
<1>8. /\ ips' = [ips EXCEPT ![ip] = t] /\ sess' = [sess EXCEPT ![c] = r]
      /\ obs' = Noting(obs, ip, a, P, A)
  BY Zenon, <1>4, <1>5, <1>6, <1>7 DEF OnRcpt, Noting
<1>9. /\ reason \in Reasons
      /\ reason \notin Limited => ~Exceeds(prof.rcptRate, Stamp(s.rcptTimes, n))
      /\ reason = "greylist" => prof.greylist > 0
      /\ reason \in Decided =>
           /\ ~Greylisted(s, a)
           /\ Takes(prof, a) <=> reason \in {"accept", "catch_all"}
  BY <1>6, ReasonIs
<1>10. /\ ReplyTo(reason) \in Reply
       /\ reason \notin Decided => ~Verdict(ClassifyAs(ReplyTo(reason)))
       /\ reason \in {"accept", "catch_all"} => ClassifyAs(ReplyTo(reason)) = "valid"
       /\ reason \in {"bounce_list", "unknown"} => ClassifyAs(ReplyTo(reason)) # "valid"
  BY <1>2, <1>9, ReplyToIs
<1> DEFINE kept == reason \in {"cooldown", "rcpt_per_conn"} \/ ~enabled(prof.rcptRate)
<1>11. /\ t \in IpType(env) /\ t.connTimes = s.connTimes /\ t.active = s.active
       /\ t.rcptTimes = IF kept THEN s.rcptTimes
                        ELSE prune(Stamp(s.rcptTimes, n), prof.rcptRate.window)
       /\ t.greylist = IF reason = "greylist" /\ s.greylist[a] = -1
                         THEN [s.greylist EXCEPT ![a] = 0] ELSE s.greylist
       /\ Times(t.rcptTimes, n)
  BY RemembersIs, Zenon
<1> HIDE DEF t
<1>12. ph \in {"closing", "held", "open"} /\ "RCPT" \in Commands
  BY DEF Commands
<1>13. /\ u \in SessType(env) /\ u.said.cmd = "RCPT" /\ u.said.reply = ReplyTo(reason)
       /\ u.phase = sess[c].phase /\ u.addr = sess[c].addr /\ Same(u, sess[c])
  BY <1>2, <1>10, <1>12, HearsIs
<1> HIDE DEF u, ph
<1>14. ph \in SessionPhases
  BY <1>12 DEF SessionPhases
<1>15. r \in SessType(env) /\ r.phase = ph /\ r.said = u.said /\ r.addr = u.addr /\ Same(r, u)
  BY <1>13, <1>14, Zenon DEF SessType, Same
<1> HIDE DEF r
<1>16. Same(r, sess[c]) /\ r.ip = ip /\ r.addr = a
  BY <1>4, <1>5, <1>13, <1>15, Zenon DEF Same
<1>17. InOrder(env, r)
  BY SMTT(30), <1>2, <1>3, <1>12, <1>15, <1>16, OrderSame
<1>18. Times(P, n) /\ P \in Seq(Nat)
  <2> DEFINE o == obs.passed[ip]
  <2>1. Times(o, n)
    BY <1>1 DEF Timed
  <2> HIDE DEF o
  <2>2. /\ Times(Stamp(o, n), n)
        /\ Len(Stamp(o, n)) = IF Len(o) < n THEN Len(o) + 1 ELSE n
        /\ \A k \in 0 .. Len(Stamp(o, n)) - 1 :
             Kth(Stamp(o, n), k) = IF k = 0 THEN 0 ELSE Kth(o, k - 1)
    BY <1>7, <2>1, StampIs, ZenonT(60)
  <2>3. Times(P, n)
    BY <2>1, <2>2, Zenon DEF o
  <2> QED BY <2>3 DEF Times, Ordered
<1>19. /\ A \in -1 .. Horizon /\ obs.asked[ip][a] <= A /\ (prof.greylist > 0 => A >= 0)
  <2>1. obs.asked[ip][a] \in -1 .. Horizon
    BY <1>7, Zenon
  <2> QED BY <1>7, <2>1
<1> HIDE DEF P, A
<1>20. /\ obs' \in ObsType(env) /\ obs'.crossed = obs.crossed /\ obs'.unseen = obs.unseen
       /\ obs'.put = obs.put /\ obs'.stale = obs.stale
       /\ \A i \in IPs : obs'.passed[i] = IF i = ip THEN P ELSE obs.passed[i]
       /\ \A i \in IPs : \A b \in env.addrs :
            obs'.asked[i][b] = IF i = ip /\ b = a THEN A ELSE obs.asked[i][b]
  BY <1>7, <1>8, <1>18, <1>19, RcptObserved
<1>21. /\ sess' \in [Conns -> SessType(env')]
       /\ \A d \in Conns : sess'[d] = IF d = c THEN r ELSE sess[d]
  BY Zenon, <1>1, <1>8, <1>15, OneSession
<1>22. /\ ips' \in [IPs -> IpType(env')]
       /\ \A i \in IPs : ips'[i] = IF i = ip THEN t ELSE ips[i]
  BY Zenon, <1>1, <1>8, <1>11, OneIp
<1>23. Typed'
  BY <1>1, <1>3, <1>20, <1>21, <1>22, Zenon DEF Typed
<1>24. Ruled'
  BY <1>1, <1>3, Zenon DEF Ruled
<1>25. Orderly'
  BY <1>1, <1>17, <1>21, OrderKept
<1>26. Timed'
  <2> SUFFICES ASSUME NEW i \in IPs
               PROVE  /\ Times(ips'[i].connTimes, env.depth.conn)
                      /\ Times(ips'[i].rcptTimes, n) /\ Times(obs'.passed[i], n)
    BY Zenon DEF Timed
  <2>1. /\ Times(ips[i].connTimes, env.depth.conn) /\ Times(ips[i].rcptTimes, n)
        /\ Times(obs.passed[i], n)
    BY <1>1 DEF Timed
  <2>2. CASE i = ip
    BY <1>11, <1>18, <1>20, <1>22, <2>1, <2>2, Zenon
  <2>3. CASE i # ip
    BY <1>20, <1>22, <2>1, <2>3, ZenonT(30)
  <2> QED BY <2>2, <2>3
<1>27. Tallied'
  <2>1. \A i \in IPs : ips'[i].active = ips[i].active
    BY <1>11, <1>22, Zenon
  <2>2. Open(c) /\ r.phase # "closed" /\ r.ip = sess[c].ip
    BY <1>3, <1>4, <1>12, <1>15, <1>16 DEF Open
  <2> QED BY <1>1, <1>3, <1>20, <1>21, <2>1, <2>2, TallyKept
<1>28. Limiting'
  <2> SUFFICES ASSUME ~obs'.stale
               PROVE  /\ prof'.rcptRate = obs'.put.rcptRate
                      /\ admin'.phase = "copied" => admin'.np.rcptRate = obs'.put.rcptRate
                      /\ enabled(obs'.put.rcptRate) =>
                           \A i \in IPs :
                             /\ Covered(obs'.put.rcptRate, ips'[i].rcptTimes, obs'.passed[i])
                             /\ Within(obs'.put.rcptRate, obs'.passed[i])
    BY Zenon DEF Limiting
  <2>1. ~obs.stale
    BY <1>20
  <2>2. /\ prof.rcptRate = obs.put.rcptRate
        /\ admin.phase = "copied" => admin.np.rcptRate = obs.put.rcptRate
        /\ enabled(obs.put.rcptRate) =>
             \A i \in IPs : /\ Covered(obs.put.rcptRate, ips[i].rcptTimes, obs.passed[i])
                            /\ Within(obs.put.rcptRate, obs.passed[i])
    BY <1>1, <2>1, Zenon DEF Limiting
  <2>3. ASSUME enabled(prof.rcptRate), NEW i \in IPs
        PROVE  /\ Covered(prof.rcptRate, ips'[i].rcptTimes, obs'.passed[i])
               /\ Within(prof.rcptRate, obs'.passed[i])
    <3>1. CASE i = ip
      <4> DEFINE times == t.rcptTimes
      <4>1. times = IF reason \in {"cooldown", "rcpt_per_conn"} \/ ~enabled(prof.rcptRate)
                      THEN ips[ip].rcptTimes
                      ELSE prune(Stamp(ips[ip].rcptTimes, env.depth.rcpt), prof.rcptRate.window)
        BY <1>11, Zenon
      <4>2. P = IF reason \in Limited THEN obs.passed[ip]
                                      ELSE Stamp(obs.passed[ip], env.depth.rcpt)
        BY Zenon DEF P
      <4> HIDE DEF times
      <4>3. Covered(prof.rcptRate, times, P) /\ Within(prof.rcptRate, P)
        BY <1>9, <2>1, <2>3, <4>1, <4>2, LimitKept
      <4> QED BY <1>20, <1>22, <3>1, <4>3, Zenon DEF times
    <3>2. CASE i # ip
      <4>1. enabled(obs.put.rcptRate)
        BY <2>2, <2>3, Zenon
      <4>2. /\ Covered(prof.rcptRate, ips[i].rcptTimes, obs.passed[i])
            /\ Within(prof.rcptRate, obs.passed[i])
        BY <2>2, <4>1, Zenon
      <4> QED BY <1>20, <1>22, <3>2, <4>2, Zenon
    <3> QED BY <3>1, <3>2
  <2> QED BY <1>3, <1>20, <2>2, <2>3, Zenon
<1>29. Noted'
  <2> SUFFICES ASSUME NEW i \in IPs, NEW b \in env.addrs
               PROVE  ips'[i].greylist[b] <= obs'.asked[i][b]
    BY DEF Noted
  <2>1. ips[i].greylist[b] <= obs.asked[i][b]
    BY <1>1 DEF Noted
  <2>2. CASE i = ip /\ b = a
    <3>1. (t.greylist[a] = 0 /\ reason = "greylist") \/ t.greylist[a] = s.greylist[a]
      BY <1>7, <1>11
    <3>2. s.greylist[a] <= obs.asked[ip][a] /\ s.greylist[a] \in Int
          /\ obs.asked[ip][a] \in Int /\ A \in Int
      <4>1. s.greylist[a] \in -1 .. Horizon /\ obs.asked[ip][a] \in -1 .. Horizon
        BY <1>7, Zenon
      <4> QED BY <1>7, <1>19, <2>1, <2>2, <4>1
    <3>3. t.greylist[a] <= A
      BY <1>9, <1>19, <3>1, <3>2
    <3> QED BY <1>20, <1>22, <2>2, <3>3, ZenonT(30)
  <2>3. CASE i = ip /\ b # a
    <3>1. t.greylist[b] = s.greylist[b]
      BY <1>7, <1>11, <2>3
    <3> QED BY <1>20, <1>22, <2>1, <2>3, <3>1, Zenon
  <2>4. CASE i # ip
    BY <1>20, <1>22, <2>1, <2>4, Zenon
  <2> QED BY <2>2, <2>3, <2>4
<1>30. Truth'
  <2>1. \A i \in IPs : \A b \in env.addrs : obs.asked[i][b] <= obs'.asked[i][b]
    <3> SUFFICES ASSUME NEW i \in IPs, NEW b \in env.addrs
                 PROVE  obs.asked[i][b] <= obs'.asked[i][b]
      OBVIOUS
    <3>1. obs.asked[i][b] \in Int
      <4>1. obs.asked[i] \in [env.addrs -> -1 .. Horizon]
        BY <1>7, Zenon DEF AskedType
      <4>2. obs.asked[i][b] \in -1 .. Horizon
        BY <4>1, Zenon
      <4> QED BY <1>7, <4>2
    <3> QED BY <1>19, <1>20, <3>1
  <2>2. obs'.asked \in [IPs -> AskedType(env)]
    BY <1>20, Zenon DEF ObsType
  <2>3. Truthful(env, prof, obs'.asked, r)
    <3>1. Reads(r.said) = ClassifyAs(ReplyTo(reason))
      BY <1>13, <1>15, Zenon DEF Reads
    <3>2. ASSUME Verdict(Reads(r.said))
          PROVE  /\ (Reads(r.said) = "valid") <=> Takes(prof, r.addr)
                 /\ prof.greylist > 0 => obs'.asked[r.ip][r.addr] >= prof.greylist
      <4>1. reason \in Decided
        BY <1>10, <3>1, <3>2, Zenon
      <4>2. reason \in {"accept", "catch_all"} \/ reason \in {"bounce_list", "unknown"}
        BY <4>1 DEF Decided
      <4>3. (Reads(r.said) = "valid") <=> reason \in {"accept", "catch_all"}
        BY <1>10, <3>1, <4>2
      <4>4. (Reads(r.said) = "valid") <=> Takes(prof, r.addr)
        BY <1>9, <1>16, <4>1, <4>3, Zenon
      <4>5. ASSUME prof.greylist > 0 PROVE obs'.asked[ip][a] >= prof.greylist
        <5>1. ~(s.greylist[a] < prof.greylist)
          BY <1>9, <4>1, <4>5, Zenon DEF Greylisted
        <5>2. s.greylist[a] <= obs.asked[ip][a]
          BY <1>1 DEF Noted
        <5>3. /\ s.greylist[a] \in -1 .. Horizon /\ obs.asked[ip][a] \in -1 .. Horizon
          BY <1>7, Zenon
        <5>4. A >= prof.greylist
          BY <1>2, <1>7, <1>19, <5>1, <5>2, <5>3, ProfIs
        <5> QED BY <1>20, <5>4, Zenon
      <4> QED BY <1>16, <4>4, <4>5, Zenon
    <3>3. r.said.cmd = "RCPT" /\ r.ip \in IPs /\ r.addr \in env.addrs
      BY <1>13, <1>15, <1>16, Zenon
    <3> QED BY <3>2, <3>3, Zenon DEF Truthful
  <2> SUFFICES ASSUME NEW d \in Conns PROVE Truthful(env', prof', obs'.asked, sess'[d])
    BY Zenon DEF Truth
  <2>4. CASE d = c
    BY <1>3, <1>21, <2>3, <2>4, Zenon
  <2>5. CASE d # c
    <3>1. Truthful(env, prof, obs.asked, sess[d])
      BY <1>1 DEF Truth
    <3>2. Truthful(env, prof, obs'.asked, sess[d])
      BY Zenon, <1>2, <1>7, <2>1, <2>2, <3>1, TruthfulLater
    <3> QED BY <1>3, <1>21, <2>5, <3>2, Zenon
  <2> QED BY <2>4, <2>5
<1> QED BY <1>23, <1>24, <1>25, <1>26, <1>27, <1>28, <1>29, <1>30 DEF IInv
-----------------------------------------------------------------------------
(* The admin API *)

LEMMA NoTimes ==
  ASSUME NEW depth \in Nat
  PROVE  Times(<<>>, depth) /\ <<>> \in Seq(Nat)
  BY DEF Times, Ordered

LEMMA NothingPassed ==
  ASSUME NEW rule \in Rule, NEW times
  PROVE  Covered(rule, times, <<>>) /\ Within(rule, <<>>)
  BY DEF Covered, Within, Rule

\* What was said is forgotten, and nothing else.
LEMMA UnsaidIs ==
  ASSUME IInv, UNCHANGED env, sess' = Unsaid
  PROVE  /\ sess' \in [Conns -> SessType(env)] /\ Orderly' /\ Truth'
         /\ \A d \in Conns : /\ sess'[d].phase = "closed" <=> sess[d].phase = "closed"
                             /\ sess[d].phase # "closed" => sess'[d].ip = sess[d].ip
<1>1. ASSUME NEW d \in Conns
      PROVE  /\ sess'[d] \in SessType(env) /\ InOrder(env, sess'[d])
             /\ \A p, asked : Truthful(env, p, asked, sess'[d])
             /\ sess'[d].phase = sess[d].phase /\ sess'[d].ip = sess[d].ip
  <2> DEFINE s == sess[d]  r == [s EXCEPT !.said = Silent]
  <2>1. s \in SessType(env) /\ InOrder(env, s)
    BY SessionIs
  <2>2. sess'[d] = r
    BY Zenon DEF Unsaid
  <2> HIDE DEF s
  <2>3. /\ r \in SessType(env) /\ r.phase = s.phase /\ r.addr = s.addr /\ r.said = Silent
        /\ Same(r, s)
    BY <2>1, SilentIs, Zenon DEF SessType, Same
  <2> HIDE DEF r
  <2>4. s.phase \in {"rcpt", "held"} => s.addr \in env.addrs
    BY <2>1 DEF InOrder
  <2>5. InOrder(env, r)
    BY <2>1, <2>3, <2>4, OrderSame, Zenon
  <2>6. \A p, asked : Truthful(env, p, asked, r)
    BY <2>3, Unread, Zenon
  <2> QED BY <2>2, <2>3, <2>5, <2>6, Zenon DEF s, Same
<1>2. sess' \in [Conns -> SessType(env)]
  <2>1. Unsaid = [d \in Conns |-> sess'[d]]
    BY Zenon DEF Unsaid
  <2> QED BY <1>1, <2>1, Zenon
<1>3. Orderly' /\ Truth'
  BY <1>1, Zenon DEF Orderly, Truth
<1> QED BY <1>1, <1>2, <1>3, Zenon

\* Another profile is put in force.
LEMMA SetProfileKeeps ==
  ASSUME IInv, UNCHANGED env, NEW p \in Profile, Like(env, p), SetProfile(p),
         obs' \in ObsType(env), obs'.passed = [i \in IPs |-> <<>>],
         obs'.asked = obs.asked, obs'.crossed = obs.crossed, obs'.unseen = obs.unseen,
         admin' \in AdminType, Like(env, admin'.np),
         ~obs'.stale => /\ p.rcptRate = obs'.put.rcptRate
                        /\ admin'.phase = "copied" => admin'.np.rcptRate = obs'.put.rcptRate
  PROVE  IInv'
<1>1. Typed /\ Ruled /\ Orderly /\ Timed /\ Tallied /\ Limiting /\ Noted /\ Truth
  BY Parts
<1>2. /\ prof' = p /\ sess' = Unsaid /\ stats' = stats
      /\ ips' = [i \in IPs |-> [ips[i] EXCEPT !.cooldown = 0]]
  BY Zenon DEF SetProfile
<1>3. /\ sess' \in [Conns -> SessType(env)] /\ Orderly' /\ Truth'
      /\ \A d \in Conns : /\ sess'[d].phase = "closed" <=> sess[d].phase = "closed"
                          /\ sess[d].phase # "closed" => sess'[d].ip = sess[d].ip
  BY <1>2, UnsaidIs
<1>4. ASSUME NEW i \in IPs
      PROVE  /\ ips'[i] \in IpType(env) /\ ips'[i].connTimes = ips[i].connTimes
             /\ ips'[i].active = ips[i].active /\ ips'[i].rcptTimes = ips[i].rcptTimes
             /\ ips'[i].greylist = ips[i].greylist
  <2> DEFINE s == ips[i]
  <2>1. s \in IpType(env) /\ 0 \in Nat
    BY <1>1 DEF Typed
  <2>2. ips'[i] = [s EXCEPT !.cooldown = 0]
    BY <1>2, Zenon
  <2> HIDE DEF s
  <2>3. /\ ips'[i] \in IpType(env) /\ ips'[i].connTimes = s.connTimes
        /\ ips'[i].active = s.active /\ ips'[i].rcptTimes = s.rcptTimes
        /\ ips'[i].greylist = s.greylist
    BY <2>1, <2>2, Zenon DEF IpType
  <2> QED BY <2>3 DEF s
<1>5. ips' \in [IPs -> IpType(env)]
  <2>1. ips' = [i \in IPs |-> ips'[i]]
    BY <1>2, Zenon
  <2> QED BY <1>4, <2>1, Zenon
<1>6. Typed'
  BY <1>1, <1>2, <1>3, <1>5, Zenon DEF Typed
<1>7. Ruled'
  BY <1>2, Zenon DEF Ruled
<1>8. \A i \in IPs : obs'.passed[i] = <<>>
  BY Zenon
<1>9. env.depth.rcpt \in Nat
  BY <1>1, EnvIs
<1>10. Timed'
  <2>1. Times(<<>>, env.depth.rcpt)
    BY <1>9, NoTimes
  <2> QED BY <1>1, <1>4, <1>8, <2>1, Zenon DEF Timed
<1>11. Tallied'
  <2>1. {d \in Conns : Open(d)}' = {d \in Conns : Open(d)}
    BY <1>3 DEF Open
  <2>2. \A i \in IPs : OpenFrom(i)' = OpenFrom(i)
    BY <1>3 DEF Open, OpenFrom
  <2>3. /\ (stats.current = Cardinality({d \in Conns : Open(d)}))'
        /\ (stats.max >= stats.current \/ obs.unseen)'
        /\ (stats.max <= Cardinality(Conns))'
    BY <1>1, <1>2, <2>1, Zenon DEF Tallied
  <2>4. ASSUME NEW i \in IPs
        PROVE  KnownFrom(env, obs.crossed, i, Cardinality(OpenFrom(i)), ips[i].active)'
    <3>1. KnownFrom(env, obs.crossed, i, Cardinality(OpenFrom(i)), ips[i].active)
      BY <1>1 DEF Tallied
    <3> QED BY <1>4, <3>1, <2>2, Zenon
  <2> QED BY <2>3, <2>4, Zenon DEF Tallied
<1>12. Limiting'
  <2>1. \A i \in IPs : /\ Covered(obs'.put.rcptRate, ips'[i].rcptTimes, obs'.passed[i])
                       /\ Within(obs'.put.rcptRate, obs'.passed[i])
    <3>1. obs'.put.rcptRate \in Rule
      BY ProfIs DEF ObsType
    <3> QED BY <1>8, <3>1, NothingPassed, Zenon
  <2> QED BY <1>2, <2>1, Zenon DEF Limiting
<1>13. Noted'
  BY <1>1, <1>4, Zenon DEF Noted
<1> QED BY <1>3, <1>6, <1>7, <1>10, <1>11, <1>12, <1>13 DEF IInv

LEMMA LikeIs ==
  ASSUME NEW e, NEW p \in Profiles(e)
  PROVE  Like(e, p)
  BY Zenon DEF Like

LEMMA PutProfileKeeps ==
  ASSUME IInv, UNCHANGED env, NEW p \in env.puts, putProfile(p)
  PROVE  IInv'
<1>1. Typed /\ Ruled
  BY Parts
<1>2. /\ SetProfile(p) /\ admin' = admin
      /\ obs' = [obs EXCEPT !.put = p, !.passed = [i \in IPs |-> <<>>],
                            !.stale = @ \/ admin.phase = "copied"]
  BY Zenon DEF putProfile
<1>3. p \in Profile /\ Like(env, p)
  BY <1>1, EnvIs, LikeIs DEF Profiles
<1> DEFINE none == [i \in IPs |-> <<>>]  stale == obs.stale \/ admin.phase = "copied"
<1>4. none \in [IPs -> Seq(Nat)] /\ stale \in BOOLEAN
  <2>1. obs.stale \in BOOLEAN
    BY <1>1, Zenon DEF Typed, ObsType
  <2>2. <<>> \in Seq(Nat)
    OBVIOUS
  <2> QED BY <2>1, <2>2, Zenon
<1>5. obs' = [obs EXCEPT !.put = p, !.passed = none, !.stale = stale]
  BY <1>2, Zenon
<1>6. obs \in ObsType(env) /\ admin \in AdminType
  BY <1>1 DEF Typed
<1> HIDE DEF none, stale
<1>7. /\ obs' \in ObsType(env) /\ obs'.passed = none /\ obs'.asked = obs.asked
      /\ obs'.crossed = obs.crossed /\ obs'.unseen = obs.unseen /\ obs'.put = p
      /\ obs'.stale = stale
  BY <1>3, <1>4, <1>5, <1>6, Zenon DEF ObsType
<1>8. ~obs'.stale => admin'.phase # "copied"
  BY <1>2, <1>7, Zenon DEF stale
<1>9. admin' \in AdminType /\ Like(env, admin'.np)
  BY <1>1, <1>2, <1>6, Zenon DEF Ruled
<1>10. ~obs'.stale => /\ p.rcptRate = obs'.put.rcptRate
                      /\ admin'.phase = "copied" => admin'.np.rcptRate = obs'.put.rcptRate
  BY <1>7, <1>8, Zenon
<1> QED BY <1>2, <1>3, <1>7, <1>9, <1>10, SetProfileKeeps DEF none

LEMMA ChaosWriteKeeps ==
  ASSUME IInv, UNCHANGED env, chaosWrite
  PROVE  IInv'
<1>1. Typed /\ Ruled /\ Limiting
  BY Parts
<1>2. /\ SetProfile(admin.np) /\ admin' = [phase |-> "idle", np |-> env.prof]
      /\ obs' = [obs EXCEPT !.passed = [i \in IPs |-> <<>>]] /\ admin.phase = "copied"
  BY Zenon DEF chaosWrite
<1>3. PICK p : p = admin.np
  OBVIOUS
<1>4. p \in Profile /\ Like(env, p) /\ SetProfile(p)
  <2>1. admin.np \in Profile
    BY <1>1, Zenon DEF Typed, AdminType
  <2> QED BY <1>1, <1>2, <1>3, <2>1, Zenon DEF Ruled
<1>5. /\ admin' \in AdminType /\ admin'.phase = "idle" /\ Like(env, admin'.np)
  <2>1. env.prof \in Profile /\ Like(env, env.prof)
    BY <1>1, EnvIs, LikeIs DEF Profiles
  <2>2. admin' \in AdminType /\ admin'.phase = "idle" /\ admin'.np = env.prof
    BY <1>2, <2>1 DEF AdminType
  <2> QED BY <2>1, <2>2, Zenon
<1> DEFINE none == [i \in IPs |-> <<>>]
<1>6. none \in [IPs -> Seq(Nat)]
  <2>2. <<>> \in Seq(Nat)
    OBVIOUS
  <2> QED BY <2>2, Zenon
<1>7. obs \in ObsType(env) /\ obs' = [obs EXCEPT !.passed = none]
  BY <1>1, <1>2, Zenon DEF Typed
<1> HIDE DEF none
<1>8. /\ obs' \in ObsType(env) /\ obs'.passed = none /\ obs'.asked = obs.asked
      /\ obs'.crossed = obs.crossed /\ obs'.unseen = obs.unseen /\ obs'.put = obs.put
      /\ obs'.stale = obs.stale
  BY <1>6, <1>7, Zenon DEF ObsType
<1>9. ~obs'.stale => /\ p.rcptRate = obs'.put.rcptRate
                     /\ admin'.phase = "copied" => admin'.np.rcptRate = obs'.put.rcptRate
  <2>1. ~obs.stale => admin.np.rcptRate = obs.put.rcptRate
    BY <1>1, <1>2, Zenon DEF Limiting
  <2> QED BY <1>3, <1>5, <1>8, <2>1
<1> QED BY <1>4, <1>5, <1>8, <1>9, SetProfileKeeps DEF none

\* The profile of another chaos, and a request in progress or not.
LEMMA ChaosKeeps ==
  ASSUME IInv, UNCHANGED <<env, ips, stats, sess, obs>>, prof' \in Profile, Like(env, prof'),
         prof'.rcptRate = prof.rcptRate, prof'.greylist = prof.greylist,
         \A a : Takes(prof', a) <=> Takes(prof, a),
         admin' \in AdminType, Like(env, admin'.np),
         ~obs.stale /\ admin'.phase = "copied" => admin'.np.rcptRate = obs.put.rcptRate
  PROVE  IInv'
<1>1. Typed /\ Ruled /\ Orderly /\ Timed /\ Tallied /\ Limiting /\ Noted /\ Truth
  BY Parts
<1>2. Typed' /\ Ruled'
  BY <1>1, Zenon DEF Typed, Ruled
<1>3. Orderly' /\ Timed' /\ Noted'
  BY <1>1, Zenon DEF Orderly, Timed, Noted
<1>4. Tallied'
  <2>1. {d \in Conns : Open(d)}' = {d \in Conns : Open(d)}
    BY DEF Open
  <2>2. \A i \in IPs : OpenFrom(i)' = OpenFrom(i)
    BY DEF Open, OpenFrom
  <2> QED BY <1>1, <2>1, <2>2, Zenon DEF Tallied
<1>5. Limiting'
  BY <1>1, Zenon DEF Limiting
<1>6. Truth'
  <2> SUFFICES ASSUME NEW d \in Conns PROVE Truthful(env', prof', obs'.asked, sess'[d])
    BY Zenon DEF Truth
  <2>1. Truthful(env, prof, obs.asked, sess[d])
    BY <1>1 DEF Truth
  <2> QED BY <2>1, Zenon DEF Truthful
<1> QED BY <1>2, <1>3, <1>4, <1>5, <1>6 DEF IInv

LEMMA ChaosSetKeeps ==
  ASSUME IInv, UNCHANGED env, NEW chaos \in env.chaos, NEW tarpit \in BOOLEAN,
         chaosSet(chaos, tarpit)
  PROVE  IInv'
<1>1. Typed /\ Ruled
  BY Parts
<1>2. /\ admin.phase = "idle" /\ prof' = [prof EXCEPT !.chaos = chaos]
      /\ admin' = (IF tarpit THEN [phase |-> "set", np |-> prof] ELSE admin)
      /\ UNCHANGED <<ips, stats, sess, obs>>
  BY Zenon DEF chaosSet
<1>3. prof \in Profile /\ chaos \in SUBSET {"drop", "temp"} /\ admin \in AdminType
      /\ Like(env, prof) /\ Like(env, admin.np)
  BY <1>1, EnvIs DEF Typed, Ruled
<1>4. /\ prof' \in Profile /\ prof'.rcptRate = prof.rcptRate /\ prof'.greylist = prof.greylist
      /\ prof'.bounce = prof.bounce /\ prof'.exists = prof.exists
      /\ prof'.catchAll = prof.catchAll /\ prof'.catchAllDomains = prof.catchAllDomains
      /\ prof'.says = prof.says /\ prof'.maxConns = prof.maxConns /\ prof'.tls = prof.tls
      /\ prof'.domainsPerTx = prof.domainsPerTx /\ prof'.txPerConn = prof.txPerConn
  BY <1>2, <1>3, ZenonT(60) DEF Profile
<1>5. Like(env, prof')
  BY <1>3, <1>4, ZenonT(30) DEF Like
<1>6. \A a : Takes(prof', a) <=> Takes(prof, a)
  BY <1>4, Zenon DEF Takes
<1>7. admin' \in AdminType /\ admin'.phase # "copied" /\ Like(env, admin'.np)
  <2>1. CASE tarpit
    <3>1. admin' \in AdminType /\ admin'.phase = "set" /\ admin'.np = prof
      BY <1>2, <1>3, <2>1 DEF AdminType
    <3> QED BY <1>3, <3>1
  <2>2. CASE ~tarpit
    BY <1>2, <1>3, <2>2
  <2> QED BY <2>1, <2>2
<1> QED BY <1>2, <1>4, <1>5, <1>6, <1>7, ChaosKeeps

LEMMA ChaosCopyKeeps ==
  ASSUME IInv, UNCHANGED env, chaosCopy
  PROVE  IInv'
<1>1. Typed /\ Ruled /\ Limiting
  BY Parts
<1>2. /\ admin' = [phase |-> "copied", np |-> prof]
      /\ UNCHANGED <<prof, ips, stats, sess, obs>>
  BY Zenon DEF chaosCopy
<1>3. prof \in Profile /\ Like(env, prof)
  BY <1>1, Zenon DEF Typed, Ruled
<1>4. admin' \in AdminType /\ admin'.np = prof
  BY <1>2, <1>3 DEF AdminType
<1>5. ~obs.stale => prof.rcptRate = obs.put.rcptRate
  BY <1>1, Zenon DEF Limiting
<1>6. \A a : Takes(prof', a) <=> Takes(prof, a)
  BY <1>2, Zenon
<1>7. prof' \in Profile /\ Like(env, prof') /\ prof'.rcptRate = prof.rcptRate
      /\ prof'.greylist = prof.greylist
  BY <1>2, <1>3, Zenon
<1>8. Like(env, admin'.np) /\ (~obs.stale /\ admin'.phase = "copied" =>
                                 admin'.np.rcptRate = obs.put.rcptRate)
  BY <1>3, <1>4, <1>5, Zenon
<1> QED BY <1>2, <1>4, <1>6, <1>7, <1>8, ChaosKeeps

\* An address nobody connected from.
LEMMA StateIs ==
  ASSUME env \in Environments
  PROVE  /\ state \in IpType(env) /\ state.connTimes = <<>> /\ state.rcptTimes = <<>>
         /\ state.active = 0 /\ state.greylist = [a \in env.addrs |-> -1]
         /\ [a \in env.addrs |-> -1] \in AskedType(env)
         /\ \A a \in env.addrs : state.greylist[a] = -1
<1> DEFINE g == [a \in env.addrs |-> -1]
<1>1. g \in AskedType(env) /\ \A a \in env.addrs : g[a] = -1
  BY MxSimAssumption DEF AskedType
<1>2. state = [connTimes |-> <<>>, rcptTimes |-> <<>>, active |-> 0, cooldown |-> 0,
               greylist |-> g]
  BY DEF state
<1> HIDE DEF g
<1>3. /\ state \in IpType(env) /\ state.connTimes = <<>> /\ state.rcptTimes = <<>>
      /\ state.active = 0 /\ state.greylist = g
  BY <1>1, <1>2 DEF IpType
<1> QED BY <1>1, <1>3, Zenon DEF g

\* Nothing is remembered of any address.
Fresh ==
  /\ env \in Environments /\ ips = [i \in IPs |-> state]
  /\ obs.passed = [i \in IPs |-> <<>>]
  /\ obs.asked = [i \in IPs |-> [a \in env.addrs |-> -1]] /\ obs.put \in Profile
  /\ ~obs.stale => /\ prof.rcptRate = obs.put.rcptRate
                   /\ admin.phase = "copied" => admin.np.rcptRate = obs.put.rcptRate

FreshTyped ==
  /\ ips \in [IPs -> IpType(env)] /\ obs.passed \in [IPs -> Seq(Nat)]
  /\ obs.asked \in [IPs -> AskedType(env)] /\ \A i \in IPs : ips[i].active = 0

LEMMA FreshIs == Fresh => FreshTyped /\ Timed /\ Limiting /\ Noted
<1> SUFFICES ASSUME Fresh PROVE FreshTyped /\ Timed /\ Limiting /\ Noted
  OBVIOUS
<1> USE DEF Fresh
<1>1. /\ state \in IpType(env) /\ state.connTimes = <<>> /\ state.rcptTimes = <<>>
      /\ state.active = 0 /\ state.greylist = [a \in env.addrs |-> -1]
      /\ [a \in env.addrs |-> -1] \in AskedType(env)
      /\ \A a \in env.addrs : state.greylist[a] = -1
  BY StateIs
<1>2. <<>> \in Seq(Nat) /\ env.depth.conn \in Nat /\ env.depth.rcpt \in Nat
  BY MxSimAssumption
<1>3. Times(<<>>, env.depth.conn) /\ Times(<<>>, env.depth.rcpt)
  BY <1>2, NoTimes
<1>4. /\ ips \in [IPs -> IpType(env)] /\ obs.passed \in [IPs -> Seq(Nat)]
      /\ obs.asked \in [IPs -> AskedType(env)]
  BY <1>1, <1>2, Zenon
<1>5. /\ \A i \in IPs : ips[i] = state /\ obs.passed[i] = <<>>
      /\ \A i \in IPs : obs.asked[i] = [a \in env.addrs |-> -1]
  BY Zenon
<1>6. Timed
  BY <1>1, <1>3, <1>5, Zenon DEF Timed
<1>7. Limiting
  <2>1. obs.put.rcptRate \in Rule
    BY ProfIs
  <2>2. \A i \in IPs : /\ Covered(obs.put.rcptRate, ips[i].rcptTimes, obs.passed[i])
                       /\ Within(obs.put.rcptRate, obs.passed[i])
    BY <1>5, <2>1, NothingPassed, Zenon
  <2> QED BY <2>2, Zenon DEF Limiting
<1>8. Noted
  <2> SUFFICES ASSUME NEW i \in IPs, NEW a \in env.addrs
               PROVE  ips[i].greylist[a] <= obs.asked[i][a]
    BY DEF Noted
  <2>1. ips[i].greylist[a] = -1 /\ obs.asked[i][a] = -1
    BY <1>1, <1>5, ZenonT(30)
  <2> QED BY <2>1
<1>9. FreshTyped
  BY <1>1, <1>4, <1>5, Zenon DEF FreshTyped
<1> QED BY <1>6, <1>7, <1>8, <1>9

LEMMA ResetKeeps ==
  ASSUME Library, IInv, UNCHANGED env, resetProfile
  PROVE  IInv'
<1>1. Typed /\ Ruled /\ Orderly /\ Timed /\ Tallied /\ Limiting /\ Noted /\ Truth
  BY Parts
<1> DEFINE none == [i \in IPs |-> <<>>]  never == [i \in IPs |-> [a \in env.addrs |-> -1]]
           C == obs.crossed \cup {i \in IPs : OpenFrom(i) # {}}  more == stats.current > 0
<1>2. /\ ips' = [i \in IPs |-> state] /\ stats' = [stats EXCEPT !.max = 0] /\ sess' = Unsaid
      /\ obs' = [obs EXCEPT !.passed = none, !.asked = never, !.crossed = C, !.unseen = more]
      /\ UNCHANGED <<prof, admin>>
  BY Zenon DEF resetProfile
<1>3. /\ obs \in ObsType(env) /\ stats \in StatsType /\ env \in Environments
      /\ obs.crossed \in SUBSET IPs /\ obs.put \in Profile /\ prof \in Profile
      /\ stats.current \in Nat /\ IsFiniteSet(Conns) /\ env.prof \in Profile
  BY <1>1, EnvIs DEF Typed, ObsType, StatsType
<1>4. /\ state \in IpType(env) /\ state.connTimes = <<>> /\ state.rcptTimes = <<>>
      /\ state.active = 0 /\ state.greylist = [a \in env.addrs |-> -1]
      /\ [a \in env.addrs |-> -1] \in AskedType(env)
      /\ \A a \in env.addrs : state.greylist[a] = -1
  BY <1>3, StateIs
<1>5. /\ none \in [IPs -> Seq(Nat)] /\ never \in [IPs -> AskedType(env)] /\ C \in SUBSET IPs
      /\ more \in BOOLEAN
  <2>1. <<>> \in Seq(Nat)
    OBVIOUS
  <2> QED BY <1>3, <1>4, <2>1
<1>6. \A i \in IPs : i \notin C => OpenFrom(i) = {}
  OBVIOUS
<1> HIDE DEF none, never, C, more
<1>7. /\ obs' \in ObsType(env) /\ obs'.passed = none /\ obs'.asked = never
      /\ obs'.crossed = C /\ obs'.unseen = more /\ obs'.put = obs.put
      /\ obs'.stale = obs.stale
  BY <1>2, <1>3, <1>5, Zenon DEF ObsType
<1>8. ips' = [i \in IPs |-> state'] 
  BY <1>2 DEF state
<1>9. ~obs'.stale => /\ prof'.rcptRate = obs'.put.rcptRate
                     /\ admin'.phase = "copied" => admin'.np.rcptRate = obs'.put.rcptRate
  BY <1>1, <1>2, <1>7, Zenon DEF Limiting
<1>10. /\ ips' \in [IPs -> IpType(env')] /\ Timed' /\ Limiting' /\ Noted'
       /\ \A i \in IPs : ips'[i].active = 0
  <2>1. env' \in Environments /\ obs'.put \in Profile
    BY <1>3, <1>7
  <2>2. obs'.passed = [i \in IPs |-> <<>>]
        /\ obs'.asked = [i \in IPs |-> [a \in env'.addrs |-> -1]]
    BY <1>7 DEF none, never
  <2>3. Fresh'
    BY <1>8, <1>9, <2>1, <2>2 DEF Fresh
  <2>4. FreshTyped' /\ Timed' /\ Limiting' /\ Noted'
    BY <2>3, FreshIs, PTL
  <2> QED BY <2>4, Zenon DEF FreshTyped
<1>11. /\ sess' \in [Conns -> SessType(env)] /\ Orderly' /\ Truth'
       /\ \A d \in Conns : /\ sess'[d].phase = "closed" <=> sess[d].phase = "closed"
                           /\ sess[d].phase # "closed" => sess'[d].ip = sess[d].ip
  BY <1>2, UnsaidIs
<1>12. stats' \in StatsType /\ stats'.current = stats.current /\ stats'.max = 0
  <2>1. 0 \in Nat
    OBVIOUS
  <2> QED BY <1>2, <1>3, <2>1, Zenon DEF StatsType
<1>13. Typed'
  BY <1>1, <1>2, <1>7, <1>10, <1>11, <1>12, Zenon DEF Typed
<1>14. Ruled'
  BY <1>1, <1>2, Zenon DEF Ruled
<1>15. Tallied'
  <2>1. {d \in Conns : Open(d)}' = {d \in Conns : Open(d)}
    BY <1>11 DEF Open
  <2>2. \A i \in IPs : OpenFrom(i)' = OpenFrom(i)
    BY <1>11 DEF Open, OpenFrom
  <2>3. stats'.current = Cardinality({d \in Conns : Open(d)}')
    BY <1>1, <1>12, <2>1, Zenon DEF Tallied
  <2>4. /\ stats'.max >= stats'.current \/ obs'.unseen
        /\ stats'.max <= Cardinality(Conns)
    <3>1. Cardinality(Conns) \in Nat
      BY <1>3 DEF Library, Counts
    <3>2. stats.current = 0 \/ more
      BY <1>3 DEF more
    <3> QED BY <1>3, <1>7, <1>12, <3>1, <3>2
  <2>5. ASSUME NEW i \in IPs
        PROVE  KnownFrom(env, obs.crossed, i, Cardinality(OpenFrom(i)), ips[i].active)'
    <3> DEFINE n == Cardinality(OpenFrom(i))
    <3>1. n \in Nat
      <4>1. OpenFrom(i) \subseteq Conns
        BY DEF OpenFrom
      <4>2. IsFiniteSet(OpenFrom(i))
        BY <1>3, <4>1 DEF Library, CountsPart
      <4> QED BY <4>2 DEF Library, Counts
    <3>2. i \notin C => n = 0
      BY <1>6 DEF Library, CountsNone
    <3> HIDE DEF n
    <3>3. KnownFrom(env, C, i, n, 0)
      BY <1>3, <3>1, <3>2, ProfIs DEF KnownFrom
    <3> QED BY <1>7, <1>10, <2>2, <3>3, Zenon DEF n
  <2> QED BY <2>3, <2>4, <2>5, Zenon DEF Tallied
<1> QED BY <1>10, <1>11, <1>13, <1>14, <1>15 DEF IInv
-----------------------------------------------------------------------------
(* The clock *)

LEMMA OlderIs ==
  ASSUME NEW x \in -1 .. Horizon
  PROVE  /\ Older(x) \in -1 .. Horizon /\ x <= Older(x)
         /\ \A y \in -1 .. Horizon : x <= y => Older(x) <= Older(y)
  BY MxSimAssumption DEF Older

LEMMA AllOlder ==
  ASSUME NEW e, NEW g \in AskedType(e)
  PROVE  LET o == [a \in e.addrs |-> Older(g[a])] IN
         o \in AskedType(e) /\ \A a \in e.addrs : o[a] = Older(g[a]) /\ g[a] \in -1 .. Horizon
<1>1. ASSUME NEW a \in e.addrs
      PROVE g[a] \in -1 .. Horizon /\ Older(g[a]) \in -1 .. Horizon
  <2>1. g[a] \in -1 .. Horizon
    BY Zenon DEF AskedType
  <2> QED BY <2>1, OlderIs
<1> QED BY <1>1, Zenon DEF AskedType

LEMMA TickKeeps ==
  ASSUME Library, IInv, UNCHANGED env, Tick
  PROVE  IInv'
<1>1. Typed /\ Ruled /\ Orderly /\ Timed /\ Tallied /\ Limiting /\ Noted /\ Truth
  BY Parts
<1>2. /\ ips' = [ip \in IPs |->
           [ips[ip] EXCEPT !.connTimes = Aged(@), !.rcptTimes = Aged(@),
                           !.cooldown = Less(@),
                           !.greylist = [a \in env.addrs |-> Older(@[a])]]]
      /\ obs' = [obs EXCEPT !.passed = [ip \in IPs |-> Aged(@[ip])],
                            !.asked = [ip \in IPs |-> [a \in env.addrs |-> Older(@[ip][a])]]]
      /\ UNCHANGED <<prof, stats, sess, admin>>
  BY Zenon DEF Tick
<1>3. /\ env.depth.conn \in Nat /\ env.depth.rcpt \in Nat /\ Horizon \in Nat \ {0}
      /\ obs \in ObsType(env) /\ prof \in Profile
      /\ obs.passed \in [IPs -> Seq(Nat)] /\ obs.asked \in [IPs -> AskedType(env)]
      /\ obs.put.rcptRate \in Rule
  <2>1. obs.put \in Profile
    BY <1>1, Zenon DEF Typed, ObsType
  <2> QED BY <1>1, <2>1, EnvIs, ProfIs DEF Typed, ObsType
<1>4. ASSUME NEW t, NEW depth \in Nat, Times(t, depth)
      PROVE  Times(Aged(t), depth) /\ Aged(t) \in Seq(Nat)
  <2>1. /\ Times(Aged(t), depth) /\ Len(Aged(t)) <= Len(t)
        /\ \A k \in 0 .. Len(Aged(t)) - 1 : Kth(Aged(t), k) = Kth(t, k) + 1
        /\ \A k \in 0 .. Len(t) - 1 : Kth(t, k) + 1 < Horizon => k < Len(Aged(t))
    BY <1>4, AgedIs
  <2>2. Aged(t) \in Seq(Nat)
    BY <2>1 DEF Times, Ordered
  <2> QED BY <2>1, <2>2
<1>5. ASSUME NEW i \in IPs
      PROVE  /\ ips'[i] \in IpType(env) /\ ips'[i].active = ips[i].active
             /\ ips'[i].connTimes = Aged(ips[i].connTimes)
             /\ ips'[i].rcptTimes = Aged(ips[i].rcptTimes)
             /\ \A a \in env.addrs : ips'[i].greylist[a] = Older(ips[i].greylist[a])
             /\ Times(ips'[i].connTimes, env.depth.conn)
             /\ Times(ips'[i].rcptTimes, env.depth.rcpt)
  <2> DEFINE s == ips[i]  k == Aged(s.connTimes)  q == Aged(s.rcptTimes)
             g == [a \in env.addrs |-> Older(s.greylist[a])]  m == Less(s.cooldown)
  <2>1. s \in IpType(env) /\ Times(s.connTimes, env.depth.conn)
        /\ Times(s.rcptTimes, env.depth.rcpt)
    BY <1>1 DEF Typed, Timed
  <2>2. ips'[i] = [s EXCEPT !.connTimes = k, !.rcptTimes = q, !.cooldown = m, !.greylist = g]
    BY <1>2, Zenon
  <2> HIDE DEF s
  <2>3. /\ Times(k, env.depth.conn) /\ k \in Seq(Nat)
        /\ Times(q, env.depth.rcpt) /\ q \in Seq(Nat)
    BY Zenon, <1>3, <1>4, <2>1
  <2>4. s.greylist \in AskedType(env) /\ m \in Nat
    BY <2>1, IpIs DEF Less
  <2>5. g \in AskedType(env) /\ \A a \in env.addrs : g[a] = Older(s.greylist[a])
    <3> DEFINE o == s.greylist
    <3>1. o \in AskedType(env)
      BY <2>4
    <3> HIDE DEF o
    <3>2. LET u == [a \in env.addrs |-> Older(o[a])] IN
          /\ u \in AskedType(env)
          /\ \A a \in env.addrs : u[a] = Older(o[a]) /\ o[a] \in -1 .. Horizon
      BY <3>1, AllOlder
    <3> QED BY <3>2, Zenon DEF o
  <2> HIDE DEF k, q, g, m
  <2>6. /\ ips'[i] \in IpType(env) /\ ips'[i].active = s.active /\ ips'[i].connTimes = k
        /\ ips'[i].rcptTimes = q /\ ips'[i].greylist = g
    BY <2>1, <2>2, <2>3, <2>4, <2>5, Zenon DEF IpType
  <2> QED BY <2>3, <2>5, <2>6, Zenon DEF k, q, s
<1>6. ips' \in [IPs -> IpType(env)]
  <2>1. ips' = [i \in IPs |-> ips'[i]]
    BY <1>2, Zenon
  <2> QED BY <1>5, <2>1, Zenon
<1> DEFINE P == [i \in IPs |-> Aged(obs.passed[i])]
           A == [i \in IPs |-> [a \in env.addrs |-> Older(obs.asked[i][a])]]
<1>7. /\ P \in [IPs -> Seq(Nat)]
      /\ \A i \in IPs : P[i] = Aged(obs.passed[i]) /\ Times(P[i], env.depth.rcpt)
  <2>1. \A i \in IPs : Times(obs.passed[i], env.depth.rcpt)
    BY <1>1, Zenon DEF Timed
  <2>2. \A i \in IPs : /\ Aged(obs.passed[i]) \in Seq(Nat)
                       /\ Times(Aged(obs.passed[i]), env.depth.rcpt)
    BY <1>3, <1>4, <2>1, Zenon
  <2> QED BY <2>2, Zenon
<1>8. /\ A \in [IPs -> AskedType(env)]
      /\ \A i \in IPs : \A a \in env.addrs : /\ A[i][a] = Older(obs.asked[i][a])
                                             /\ obs.asked[i][a] \in -1 .. Horizon
  <2>1. ASSUME NEW i \in IPs
        PROVE  LET o == [a \in env.addrs |-> Older(obs.asked[i][a])] IN
               /\ o \in AskedType(env)
               /\ \A a \in env.addrs : o[a] = Older(obs.asked[i][a])
                                       /\ obs.asked[i][a] \in -1 .. Horizon
    <3> DEFINE g == obs.asked[i]
    <3>1. g \in AskedType(env)
      BY <1>3, Zenon
    <3> HIDE DEF g
    <3>2. LET o == [a \in env.addrs |-> Older(g[a])] IN
          /\ o \in AskedType(env)
          /\ \A a \in env.addrs : o[a] = Older(g[a]) /\ g[a] \in -1 .. Horizon
      BY <3>1, AllOlder
    <3> QED BY <3>2, Zenon DEF g
  <2> QED BY <2>1, Zenon
<1>9. obs' = [obs EXCEPT !.passed = P, !.asked = A]
  BY <1>2, Zenon
<1> HIDE DEF P, A
<1>10. /\ obs' \in ObsType(env) /\ obs'.passed = P /\ obs'.asked = A /\ obs'.put = obs.put
       /\ obs'.crossed = obs.crossed /\ obs'.unseen = obs.unseen /\ obs'.stale = obs.stale
  BY <1>3, <1>7, <1>8, <1>9, Zenon DEF ObsType
<1>11. Typed'
  BY <1>1, <1>2, <1>6, <1>10, Zenon DEF Typed
<1>12. Ruled' /\ Orderly'
  BY <1>1, <1>2, Zenon DEF Ruled, Orderly
<1>13. Timed'
  BY <1>5, <1>7, <1>10, Zenon DEF Timed
<1>14. Tallied'
  <2>1. {d \in Conns : Open(d)}' = {d \in Conns : Open(d)}
    BY ZenonT(30), <1>2 DEF Open
  <2>2. \A i \in IPs : OpenFrom(i)' = OpenFrom(i)
    BY Zenon, <1>2 DEF Open, OpenFrom
  <2>3. /\ (stats.current = Cardinality({d \in Conns : Open(d)}))'
        /\ (stats.max >= stats.current \/ obs.unseen)'
        /\ (stats.max <= Cardinality(Conns))'
    BY <1>1, <1>2, <1>10, <2>1, Zenon DEF Tallied
  <2>4. ASSUME NEW i \in IPs
        PROVE  KnownFrom(env, obs.crossed, i, Cardinality(OpenFrom(i)), ips[i].active)'
    <3>1. KnownFrom(env, obs.crossed, i, Cardinality(OpenFrom(i)), ips[i].active)
      BY <1>1 DEF Tallied
    <3> QED BY <1>5, <1>10, <3>1, <2>2, Zenon
  <2> QED BY <2>3, <2>4, Zenon DEF Tallied
<1>15. Limiting'
  <2> SUFFICES ASSUME ~obs'.stale
               PROVE  /\ prof'.rcptRate = obs'.put.rcptRate
                      /\ admin'.phase = "copied" => admin'.np.rcptRate = obs'.put.rcptRate
                      /\ enabled(obs'.put.rcptRate) =>
                           \A i \in IPs :
                             /\ Covered(obs'.put.rcptRate, ips'[i].rcptTimes, obs'.passed[i])
                             /\ Within(obs'.put.rcptRate, obs'.passed[i])
    BY Zenon DEF Limiting
  <2> DEFINE rule == obs.put.rcptRate
  <2>1. /\ prof.rcptRate = rule
        /\ admin.phase = "copied" => admin.np.rcptRate = rule
        /\ enabled(rule) =>
             \A i \in IPs : /\ Covered(rule, ips[i].rcptTimes, obs.passed[i])
                            /\ Within(rule, obs.passed[i])
    BY <1>1, <1>10, Zenon DEF Limiting
  <2>2. ASSUME enabled(rule), NEW i \in IPs
        PROVE  Covered(rule, ips'[i].rcptTimes, obs'.passed[i]) /\ Within(rule, obs'.passed[i])
    <3> DEFINE t == ips[i].rcptTimes  p == obs.passed[i]  n == env.depth.rcpt
    <3>1. Covered(rule, t, p) /\ Within(rule, p)
      BY <2>1, <2>2, Zenon
    <3>2. Times(t, n) /\ Times(p, n) /\ n \in Nat /\ rule \in Rule
      BY <1>1, <1>3, Zenon DEF Timed
    <3> HIDE DEF t, p, n, rule
    <3>3. Covered(rule, Aged(t), Aged(p)) /\ Within(rule, Aged(p))
      BY <3>1, <3>2, RateAged
    <3> QED BY <1>5, <1>7, <1>10, <3>3, Zenon DEF t, p
  <2> QED BY <1>2, <1>10, <2>1, <2>2, Zenon
<1>16. Noted'
  <2> SUFFICES ASSUME NEW i \in IPs, NEW a \in env.addrs
               PROVE  ips'[i].greylist[a] <= obs'.asked[i][a]
    BY DEF Noted
  <2> DEFINE x == ips[i].greylist[a]  y == obs.asked[i][a]
  <2>1. x <= y /\ y \in -1 .. Horizon
    BY <1>1, <1>8 DEF Noted
  <2>2. x \in -1 .. Horizon
    <3>1. ips[i] \in IpType(env)
      BY <1>1 DEF Typed
    <3>2. ips[i].greylist \in [env.addrs -> -1 .. Horizon]
      BY <3>1, IpIs DEF AskedType
    <3> QED BY <3>2, Zenon
  <2> HIDE DEF x, y
  <2>3. Older(x) <= Older(y)
    BY <2>1, <2>2, OlderIs
  <2> QED BY <1>5, <1>8, <1>10, <2>3, Zenon DEF x, y
<1>17. Truth'
  <2>1. \A i \in IPs : \A b \in env.addrs : obs.asked[i][b] <= A[i][b]
    <3> SUFFICES ASSUME NEW i \in IPs, NEW b \in env.addrs PROVE obs.asked[i][b] <= A[i][b]
      OBVIOUS
    <3> DEFINE y == obs.asked[i][b]
    <3>1. y \in -1 .. Horizon /\ A[i][b] = Older(y)
      BY <1>8, Zenon
    <3> HIDE DEF y
    <3>2. y <= Older(y)
      BY <3>1, OlderIs
    <3> QED BY <3>1, <3>2, Zenon DEF y
  <2> SUFFICES ASSUME NEW d \in Conns PROVE Truthful(env', prof', obs'.asked, sess'[d])
    BY Zenon DEF Truth
  <2>2. Truthful(env, prof, obs.asked, sess[d])
    BY <1>1 DEF Truth
  <2>3. Truthful(env, prof, A, sess[d])
    BY Zenon, <1>3, <1>8, <2>1, <2>2, TruthfulLater
  <2> QED BY <1>2, <1>10, <2>3, Zenon
<1> QED BY <1>11, <1>12, <1>13, <1>14, <1>15, <1>16, <1>17 DEF IInv
-----------------------------------------------------------------------------
(* The library *)

INSTANCE FiniteSetTheorems

Below == OpToRel(<, Nat)

LEMMA BelowWellFounded == IsWellFoundedOn(Below, Nat)
  BY NatLessThanWellFounded, Zenon DEF Below

LEMMA BelowIsLess ==
  ASSUME NEW x \in Nat, NEW y \in Nat, x < y
  PROVE  <<x, y>> \in Below
  BY DEF Below, OpToRel

\* A set of naturals has a least element.
LEMMA Least ==
  ASSUME NEW T \in SUBSET Nat, T # {}
  PROVE  \E x \in T : \A y \in T : x <= y
<1>1. PICK x \in T : \A y \in T : ~(<<y, x>> \in Below)
  BY WFMin, BelowWellFounded, Zenon
<1>2. \A y \in T : ~(y < x)
  BY <1>1, BelowIsLess, Zenon
<1> QED BY <1>2

LEMMA LibraryHolds == Library
<1>1. Counts
  BY FS_CardinalityType DEF Counts
<1>2. CountsNone
  BY FS_EmptySet DEF CountsNone
<1>3. CountsOne
  BY Zenon, FS_Singleton DEF CountsOne
<1>4. CountsPart
  BY FS_Subset DEF CountsPart
<1>5. CountsMore
  BY FS_AddElement DEF CountsMore
<1>6. CountsLess
  BY FS_RemoveElement DEF CountsLess
<1>7. HasLeast
  BY Least DEF HasLeast
<1> QED BY <1>1, <1>2, <1>3, <1>4, <1>5, <1>6, <1>7 DEF Library

\* Within, counted.
LEMMA WithinCounts ==
  ASSUME NEW depth \in Nat, NEW passed, Times(passed, depth), NEW rule \in Rule,
         Within(rule, passed)
  PROVE  Cardinality({i \in DOMAIN passed : passed[i] < rule.window}) <= rule.count
<1> DEFINE recent == {i \in DOMAIN passed : passed[i] < rule.window}
           n == Len(passed)  c == rule.count
<1>0. /\ c \in Nat /\ rule.window \in Nat /\ n \in Nat
      /\ DOMAIN passed = 1 .. n /\ \A i \in 1 .. n : passed[i] \in Nat
      /\ \A i, j \in 1 .. n : i <= j => passed[j] <= passed[i]
  BY MxSimAssumption DEF Rule, Times, Ordered
<1>1. recent \subseteq (n - c + 1) .. n
  <2> SUFFICES ASSUME NEW i \in 1 .. n, passed[i] < rule.window, ~(i >= n - c + 1)
               PROVE  FALSE
    BY <1>0
  <2>1. n > c /\ n - c \in 1 .. n /\ i <= n - c
    BY <1>0
  <2>2. passed[n - c] >= rule.window
    BY <2>1 DEF Within, Kth
  <2>3. passed[n - c] <= passed[i] /\ passed[n - c] \in Nat /\ passed[i] \in Nat
    BY SMTT(30), <2>1, <1>0
  <2> QED BY <2>2, <2>3, <1>0
<1>2. n - c + 1 \in Int /\ n \in Int
  BY <1>0
<1> HIDE DEF recent
<1>3. /\ IsFiniteSet((n - c + 1) .. n)
      /\ Cardinality((n - c + 1) .. n) = IF n - c + 1 > n THEN 0 ELSE n - (n - c + 1) + 1
  BY SMTT(30), <1>2, FS_Interval
<1>4. Cardinality((n - c + 1) .. n) <= c /\ Cardinality((n - c + 1) .. n) \in Nat
  BY <1>0, <1>3
<1>5. Cardinality(recent) <= Cardinality((n - c + 1) .. n) /\ IsFiniteSet(recent)
  BY Zenon, <1>1, <1>3, FS_Subset
<1>6. Cardinality(recent) \in Nat
  BY SMTT(30), <1>5, FS_CardinalityType
<1>7. Cardinality(recent) <= c
  BY <1>0, <1>4, <1>5, <1>6
<1> QED BY <1>7 DEF recent

-----------------------------------------------------------------------------
(* The invariant holds, and gives the properties *)

LEMMA InitHolds == Init => IInv
<1> SUFFICES ASSUME Init PROVE IInv
  OBVIOUS
<1>1. /\ env \in Environments /\ prof = env.prof /\ ips = [ip \in IPs |-> state]
      /\ stats = [current |-> 0, max |-> 0] /\ sess = [c \in Conns |-> Idle]
      /\ admin = [phase |-> "idle", np |-> env.prof]
      /\ obs = [passed |-> [ip \in IPs |-> <<>>],
                asked |-> [ip \in IPs |-> [a \in env.addrs |-> -1]],
                crossed |-> {}, unseen |-> FALSE, put |-> prof, stale |-> FALSE]
  BY Zenon DEF Init
<1>2. prof \in Profile /\ Like(env, prof) /\ IsFiniteSet(Conns) /\ prof.maxConns \in Nat
  <2>1. prof \in Profiles(env) /\ Profiles(env) \subseteq Profile
    BY SMTT(30), <1>1, MxSimAssumption DEF Profiles
  <2> QED BY <2>1, LikeIs, ProfIs, MxSimAssumption
<1> DEFINE none == [ip \in IPs |-> <<>>]
           never == [ip \in IPs |-> [a \in env.addrs |-> -1]]
<1>3. obs = [passed |-> none, asked |-> never, crossed |-> {}, unseen |-> FALSE,
             put |-> prof, stale |-> FALSE]
  BY <1>1
<1> HIDE DEF none, never
<1>4. /\ obs.passed = none /\ obs.asked = never /\ obs.crossed = {} /\ obs.unseen = FALSE
      /\ obs.put = prof /\ obs.stale = FALSE
  BY <1>3
<1>5. admin \in AdminType /\ admin.phase = "idle" /\ admin.np = prof
  BY SMTT(30), <1>1, <1>2 DEF AdminType
<1>6. Fresh
  BY <1>1, <1>2, <1>4, <1>5 DEF Fresh, none, never
<1>7. FreshTyped /\ Timed /\ Limiting /\ Noted
  BY <1>6, FreshIs
<1>8. /\ ips \in [IPs -> IpType(env)] /\ none \in [IPs -> Seq(Nat)]
      /\ never \in [IPs -> AskedType(env)] /\ \A i \in IPs : ips[i].active = 0
  BY <1>4, <1>7, ZenonT(30) DEF FreshTyped
<1>9. obs \in ObsType(env)
  BY <1>2, <1>3, <1>8 DEF ObsType
<1>10. /\ Idle \in SessType(env) /\ Idle.phase = "closed" /\ Idle.ip = "none"
       /\ Idle.mail = FALSE /\ Idle.rcpts = 0 /\ Idle.txDomains = {} /\ Idle.txns = 0
       /\ Idle.said = Silent
  BY Zenon, IdleIs
<1>11. \A c \in Conns : sess[c] = Idle
  BY <1>1, Zenon
<1>12. Typed
  <2>1. sess \in [Conns -> SessType(env)]
    BY <1>1, <1>10, ZenonT(30)
  <2>2. stats \in StatsType
    BY <1>1 DEF StatsType
  <2> QED BY <1>1, <1>2, <1>5, <1>8, <1>9, <2>1, <2>2, Zenon DEF Typed
<1>13. Ruled
  BY <1>2, <1>5, Zenon DEF Ruled
<1>14. Orderly
  <2>1. InOrder(env, Idle)
    BY LibraryHolds, <1>1, <1>10, OrderNew, Zenon
  <2> QED BY <1>11, <2>1, Zenon DEF Orderly
<1>15. Truth
  <2>1. Truthful(env, prof, obs.asked, Idle)
    BY <1>10, Unread, Zenon
  <2> QED BY <1>11, <2>1, Zenon DEF Truth
<1>16. Tallied
  <2>1. {c \in Conns : Open(c)} = {} /\ \A i \in IPs : OpenFrom(i) = {}
    BY SMTT(30), <1>10, <1>11 DEF Open, OpenFrom
  <2>2. Cardinality({}) = 0 /\ Cardinality(Conns) \in Nat
    BY <1>2, FS_EmptySet, FS_CardinalityType
  <2>3. stats.current = 0 /\ stats.max = 0
    BY <1>1
  <2>4. /\ stats.current = Cardinality({c \in Conns : Open(c)})
        /\ stats.max >= stats.current /\ stats.max <= Cardinality(Conns)
    BY <2>1, <2>2, <2>3
  <2>5. ASSUME NEW i \in IPs
        PROVE  KnownFrom(env, obs.crossed, i, Cardinality(OpenFrom(i)), ips[i].active)
    <3>1. KnownFrom(env, obs.crossed, i, 0, 0)
      BY <1>1, <1>2 DEF KnownFrom
    <3> QED BY <1>8, <2>1, <2>2, <3>1, Zenon
  <2> QED BY <2>4, <2>5, ZenonT(30) DEF Tallied
<1> QED BY <1>7, <1>12, <1>13, <1>14, <1>15, <1>16 DEF IInv

LEMMA StutterKeeps ==
  ASSUME IInv, UNCHANGED vars
  PROVE  IInv'
<1>1. Typed /\ Ruled /\ Orderly /\ Timed /\ Tallied /\ Limiting /\ Noted /\ Truth
  BY Parts
<1>2. /\ env' = env /\ prof' = prof /\ ips' = ips /\ stats' = stats /\ sess' = sess
      /\ admin' = admin /\ obs' = obs
  BY DEF vars
<1>3. Typed' /\ Ruled' /\ Orderly' /\ Timed' /\ Noted' /\ Truth' /\ Limiting'
  BY <1>1, <1>2, Zenon DEF Typed, Ruled, Orderly, Timed, Noted, Truth, Limiting
<1>4. Tallied'
  BY <1>1, <1>2, Zenon DEF Tallied, Open, OpenFrom
<1> QED BY <1>3, <1>4 DEF IInv

LEMMA SessionKeeps ==
  ASSUME IInv, UNCHANGED env, NEW c \in Conns, Session(c)
  PROVE  IInv'
<1>1. env.ips \subseteq IPs
  BY Parts, EnvIs
<1>2. ASSUME NEW ip \in env.ips, Connect(c, ip) PROVE IInv'
  BY LibraryHolds, <1>1, <1>2, ConnectKeeps
<1>3. ASSUME Rset(c) PROVE IInv'
  BY LibraryHolds, <1>3, RsetKeeps DEF Rset, Command
<1>4. ASSUME Leave(c) PROVE IInv'
  <2>1. sess[c].phase \in {"open", "held"}
        /\ sess' = [sess EXCEPT ![c].phase = "closing"]
        /\ UNCHANGED <<prof, ips, stats, admin, obs>>
    BY <1>4, ZenonT(30) DEF Leave
  <2>2. Becomes(c, [sess[c] EXCEPT !.phase = "closing"])
    BY <2>1, Zenon DEF Becomes
  <2> QED BY SMTT(30), <2>1, <2>2, LeaveKeeps
<1>5. ASSUME NEW works \in BOOLEAN, StartTLS(c, works) PROVE IInv'
  BY LibraryHolds, <1>5, StartTLSKeeps
<1>6. ASSUME NEW a \in env.addrs, Rcpt(c, a) PROVE IInv'
  BY SMTT(30), LibraryHolds, <1>6, RcptKeeps
<1>7. ASSUME NEW luck \in {"none", "drop", "temp"}, OnRcpt(c, luck) PROVE IInv'
  BY SMTT(30), LibraryHolds, <1>7, OnRcptKeeps
<1>8. ASSUME Helo(c) \/ Mail(c) \/ Data(c) \/ OnDisconnect(c) PROVE IInv'
  BY LibraryHolds, <1>8, HeloKeeps, MailKeeps, DataKeeps, OnDisconnectKeeps
<1> QED BY <1>2, <1>3, <1>4, <1>5, <1>6, <1>7, <1>8, Zenon DEF Session

LEMMA NextKeeps == IInv /\ [Next]_vars => IInv'
<1> SUFFICES ASSUME IInv, [Next]_vars PROVE IInv'
  OBVIOUS
<1>1. ASSUME UNCHANGED vars PROVE IInv'
  BY <1>1, StutterKeeps
<1>2. ASSUME NEW c \in env.conns, Session(c), UNCHANGED env PROVE IInv'
  <2>1. c \in Conns
    BY <1>2, Parts, EnvIs
  <2> QED BY SMTT(30), <1>2, <2>1, SessionKeeps
<1>3. ASSUME Admin, UNCHANGED env PROVE IInv'
  <2>1. ASSUME NEW p \in env.puts, putProfile(p) PROVE IInv'
    BY <1>3, <2>1, PutProfileKeeps
  <2>2. ASSUME resetProfile \/ chaosCopy \/ chaosWrite PROVE IInv'
    BY LibraryHolds, <1>3, <2>2, ResetKeeps, ChaosCopyKeeps, ChaosWriteKeeps
  <2>3. ASSUME NEW chaos \in env.chaos, NEW tarpit \in BOOLEAN, chaosSet(chaos, tarpit)
        PROVE  IInv'
    BY SMTT(30), <1>3, <2>3, ChaosSetKeeps
  <2> QED BY <1>3, <2>1, <2>2, <2>3, Zenon DEF Admin
<1>4. ASSUME Tick, UNCHANGED env PROVE IInv'
  BY LibraryHolds, <1>4, TickKeeps
<1> QED BY <1>1, <1>2, <1>3, <1>4, Zenon DEF Next

\* What the simulator's engine, sessions and admin API keep together.
THEOREM MxInvariant == Spec => []IInv
  BY InitHolds, NextKeeps, PTL DEF Spec

\* A recipient belongs to a transaction, a transaction follows a greeting and
\* TLS where it is required, and what a profile that stays allows is not
\* exceeded, whatever commands the clients of the simulator send and in
\* whatever order (dispatch, handleMail, handleRcpt).
THEOREM MxSessionOrder == Spec => []SessionOrder
<1>1. IInv => SessionOrder
  <2> SUFFICES ASSUME IInv, NEW c \in Conns
               PROVE  LET s == sess[c] IN
                      /\ s.mail => s.helo /\ s.txns > 0
                      /\ (s.rcpts > 0 \/ s.txDomains # {} \/ s.phase = "rcpt") => s.mail
                      /\ env.puts = {} =>
                           /\ s.mail /\ prof.tls = "required" => s.tls
                           /\ prof.domainsPerTx > 0 =>
                                Cardinality(s.txDomains) <= prof.domainsPerTx
                           /\ prof.txPerConn > 0 => s.txns <= prof.txPerConn
    BY Zenon DEF SessionOrder
  <2>1. Like(env, prof) /\ InOrder(env, sess[c])
    BY SessionIs
  <2>2. env.puts = {} =>
          /\ prof.tls = env.prof.tls /\ prof.domainsPerTx = env.prof.domainsPerTx
          /\ prof.txPerConn = env.prof.txPerConn /\ prof.maxConns = env.prof.maxConns
    BY <2>1, ProfStays, ZenonT(30)
  <2> QED BY <2>1, <2>2, Zenon DEF InOrder
<1> QED BY <1>1, MxInvariant, PTL

\* Times remembered are of the type the model gives them.
LEMMA TimesAges ==
  ASSUME env \in Environments, NEW t, NEW depth \in {env.depth.conn, env.depth.rcpt},
         Times(t, depth)
  PROVE  t \in Ages
<1>1. /\ t \in Seq(Nat) /\ Len(t) \in Nat /\ Len(t) <= depth /\ DOMAIN t = 1 .. Len(t)
      /\ \A k \in 1 .. Len(t) : t[k] \in Nat /\ t[k] < Horizon
  BY DEF Times, Ordered
<1>2. env.depth.conn \in Nat /\ env.depth.rcpt \in Nat /\ Horizon \in Nat
  BY MxSimAssumption
<1>3. Len(t) \in 0 .. (env.depth.conn + env.depth.rcpt)
  BY SMTT(30), <1>1, <1>2
<1>4. \A k \in 1 .. Len(t) : t[k] \in 0 .. (Horizon - 1)
  BY SMTT(30), <1>1, <1>2
<1>5. t = [k \in 1 .. Len(t) |-> t[k]]
  BY <1>1
<1>6. t \in [1 .. Len(t) -> 0 .. (Horizon - 1)]
  BY <1>4, <1>5, ZenonT(30)
<1> QED BY <1>3, <1>6, Zenon DEF Ages

LEMMA Types == IInv => TypeOK
<1> SUFFICES ASSUME IInv PROVE TypeOK
  OBVIOUS
<1>1. Typed /\ Orderly /\ Timed /\ Tallied
  BY Parts
<1>2. env \in Environments /\ IsFiniteSet(Conns) /\ Cardinality(Conns) \in Nat
  BY SMTT(30), <1>1, EnvIs, FS_CardinalityType DEF Typed
<1>3. \A T \in SUBSET Conns : Cardinality(T) \in Nat /\ Cardinality(T) <= Cardinality(Conns)
  BY SMTT(30), <1>2, FS_Subset, FS_CardinalityType
<1>4. ASSUME NEW ip \in IPs
      PROVE  /\ ips[ip].connTimes \in Ages /\ ips[ip].rcptTimes \in Ages
             /\ ips[ip].active \in 0 .. Cardinality(Conns) /\ ips[ip].cooldown \in Nat
             /\ ips[ip].greylist \in [env.addrs -> -1 .. Horizon]
  <2>1. ips[ip] \in IpType(env) /\ Times(ips[ip].connTimes, env.depth.conn)
        /\ Times(ips[ip].rcptTimes, env.depth.rcpt)
    BY <1>1 DEF Typed, Timed
  <2>2. ips[ip].connTimes \in Ages /\ ips[ip].rcptTimes \in Ages
    BY SMTT(30), <1>2, <2>1, TimesAges
  <2>3. /\ ips[ip].active \in Nat /\ ips[ip].cooldown \in Nat
        /\ ips[ip].greylist \in AskedType(env)
    BY <2>1, IpIs
  <2>4. ips[ip].active <= Cardinality(OpenFrom(ip)) /\ OpenFrom(ip) \in SUBSET Conns
    BY <1>1 DEF Tallied, KnownFrom, OpenFrom
  <2>5. ips[ip].active \in 0 .. Cardinality(Conns)
    <3> DEFINE n == Cardinality(OpenFrom(ip))
    <3>1. n \in Nat /\ n <= Cardinality(Conns) /\ ips[ip].active <= n
      BY SMTT(30), <1>3, <2>4
    <3> HIDE DEF n
    <3> QED BY <1>2, <2>3, <3>1
  <2> QED BY <2>2, <2>3, <2>5, ZenonT(30) DEF AskedType
<1>5. stats.current \in 0 .. Cardinality(Conns) /\ stats.max \in 0 .. Cardinality(Conns)
  <2>1. stats.current \in Nat /\ stats.max \in Nat /\ stats.max <= Cardinality(Conns)
    BY <1>1 DEF Typed, StatsType, Tallied
  <2>2. stats.current <= Cardinality(Conns)
    <3> DEFINE O == {c \in Conns : Open(c)}
    <3>1. O \in SUBSET Conns /\ stats.current = Cardinality(O)
      BY <1>1, ZenonT(30) DEF Tallied
    <3> HIDE DEF O
    <3> QED BY SMTT(30), <1>3, <3>1
  <2> QED BY SMTT(30), <1>2, <2>1, <2>2
<1>6. ASSUME NEW c \in Conns
      PROVE  /\ sess[c].phase \in {"closed", "open", "rcpt", "held", "closing"}
             /\ sess[c].said.reply \in Reply
             /\ sess[c].phase \in {"rcpt", "held"} => sess[c].addr \in env.addrs
  <2>1. sess[c] \in SessType(env) /\ InOrder(env, sess[c])
    BY SessionIs
  <2>2. sess[c].phase \in SessionPhases /\ sess[c].said.reply \in Reply
    BY <2>1, SessIs
  <2> QED BY <2>1, <2>2, ZenonT(30) DEF InOrder, SessionPhases
<1> QED BY <1>4, <1>5, <1>6, ZenonT(30) DEF TypeOK

\* The engine's count of open connections is that of the sessions OnConnect
\* admitted and OnDisconnect has not ended; an address's own count is right
\* until a Reset falls between the two, never too high, and within the limit.
THEOREM MxOpenCounted == Spec => []OpenCounted
<1>1. IInv => OpenCounted
  <2> SUFFICES ASSUME IInv PROVE OpenCounted
    OBVIOUS
  <2>1. TypeOK /\ Tallied /\ Ruled
    BY Types, Parts
  <2>2. ASSUME NEW ip \in IPs
        PROVE  LET n == Cardinality(OpenFrom(ip)) IN
               /\ ips[ip].active <= n
               /\ ip \notin obs.crossed =>
                    /\ ips[ip].active = n
                    /\ prof.maxConns > 0 /\ env.puts = {} => n <= prof.maxConns
    <3>1. KnownFrom(env, obs.crossed, ip, Cardinality(OpenFrom(ip)), ips[ip].active)
      BY <2>1, ZenonT(30) DEF Tallied
    <3>2. env.puts = {} =>
            /\ prof.tls = env.prof.tls /\ prof.domainsPerTx = env.prof.domainsPerTx
            /\ prof.txPerConn = env.prof.txPerConn /\ prof.maxConns = env.prof.maxConns
      BY <2>1, ProfStays, Zenon DEF Ruled
    <3> QED BY <3>1, <3>2, ZenonT(30) DEF KnownFrom
  <2> QED BY <2>1, <2>2, Zenon DEF OpenCounted, Tallied
<1> QED BY <1>1, MxInvariant, PTL

\* OnRcpt lets no more RCPTs of an address past the limit in force within any of
\* its windows than the limit's count, although it prunes what it remembers by
\* the window and counts the refused RCPTs too.
THEOREM MxRateKept == Spec => []RcptRateKept
<1>1. IInv => RcptRateKept
  <2> SUFFICES ASSUME IInv, NEW ip \in IPs, enabled(obs.put.rcptRate), ~obs.stale
               PROVE  Cardinality({i \in DOMAIN obs.passed[ip] :
                                     obs.passed[ip][i] < obs.put.rcptRate.window})
                        <= obs.put.rcptRate.count
    BY Zenon DEF RcptRateKept
  <2>1. Typed /\ Timed /\ Limiting
    BY Parts
  <2> DEFINE p == obs.passed[ip]  rule == obs.put.rcptRate  n == env.depth.rcpt
  <2>2. Within(rule, p)
    BY <2>1, ZenonT(30) DEF Limiting
  <2>3. Times(p, n)
    BY <2>1, ZenonT(30) DEF Timed
  <2>4. n \in Nat /\ rule \in Rule
    <3>1. obs.put \in Profile
      BY <2>1, ZenonT(30) DEF Typed, ObsType
    <3> QED BY <2>1, <3>1, EnvIs, ProfIs
  <2> HIDE DEF p, rule, n
  <2>5. Cardinality({i \in DOMAIN p : p[i] < rule.window}) <= rule.count
    BY <2>2, <2>3, <2>4, WithinCounts
  <2> QED BY <2>5 DEF p, rule
<1> QED BY <1>1, MxInvariant, PTL

\* With replies that mean what they are given for, a verdict the prober reads in
\* a reply is true of the profile's recipients, comes only from RCPT, and with
\* greylisting only after an earlier RCPT the delay ago or more.
THEOREM MxVerdictsTrue == Spec => []VerdictsTrue
<1>1. IInv => VerdictsTrue
  <2> SUFFICES ASSUME IInv, NEW c \in Conns, Verdict(Class(c))
               PROVE  /\ sess[c].said.cmd = "RCPT"
                      /\ (Class(c) = "valid") <=> Deliverable(sess[c].addr)
                      /\ prof.greylist > 0 =>
                           obs.asked[sess[c].ip][sess[c].addr] >= prof.greylist
    BY Zenon DEF VerdictsTrue
  <2>1. Truthful(env, prof, obs.asked, sess[c])
    BY SessionIs
  <2>2. Class(c) = Reads(sess[c].said)
    BY Zenon DEF Class, Reads
  <2>3. Deliverable(sess[c].addr) <=> Takes(prof, sess[c].addr)
    BY Zenon DEF Deliverable, Takes
  <2> QED BY <2>1, <2>2, <2>3, ZenonT(30) DEF Truthful
<1> QED BY <1>1, MxInvariant, PTL

\* Whatever the simulator says, ClassifyAs calls a mailbox missing exactly where
\* the reply condemns one, and counts a throttle exactly where it slows us down.
THEOREM MxReadAsMeant == Spec => []ReadAsMeant
<1>1. IInv => ReadAsMeant
  <2> SUFFICES ASSUME IInv, NEW c \in Conns
               PROVE  LET r == sess[c].said.reply IN
                      /\ ClassifyAs(r) = "invalid" <=> Condemns(r)
                      /\ IsThrottle(ClassifyAs(r)) <=> SlowsUs(r)
    BY Zenon DEF ReadAsMeant
  <2>1. sess[c].said.reply \in Reply
    BY SessionIs, SessIs
  <2> QED BY <2>1, InvalidIsCondemned, ThrottleIsSlow
<1> QED BY <1>1, MxInvariant, PTL
=============================================================================

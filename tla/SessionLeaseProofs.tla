------------------------- MODULE SessionLeaseProofs -------------------------
(***************************************************************************)
(* For every number of calls, limit and set of time bounds: the lease set  *)
(* cannot be wedged, and when a lease outlives the longest session the     *)
(* leases implement a semaphore over all nodes.                            *)
(***************************************************************************)
EXTENDS SessionLease, FiniteSetTheorems, TLAPS

(* A record update usable in every leaf: the SMT backend then leaves the   *)
(* leaf untyped.  Type inference is most of the time these proofs would    *)
(* take otherwise.                                                         *)
Blank == [field |-> 0]
Blanks == {Blank}

\* Writing the value a field already has changes nothing.
LEMMA Untyped == [Blank EXCEPT !.field = 0] \in Blanks
  BY DEF Blank, Blanks

USE Untyped

CallRecord == [phase : Phases, left : Nat, id : Ids \cup {"none"},
               limit : 1 .. MaxLimit, waited : Nat, dials : 0 .. Addrs]

CallsOK ==
  /\ call \in [Calls -> CallRecord]
  /\ \A c \in Calls : (call[c].phase = "idle") <=> (call[c].id = "none")

LEMMA IdleRecord == Idle \in CallRecord /\ Idle.phase = "idle" /\ Idle.id = "none"
  BY LeaseAssumption DEF Idle, CallRecord, Phases

LEMMA UpdateType ==
  ASSUME CallsOK, NEW c \in Calls, NEW r \in CallRecord,
         (r.phase = "idle") <=> (r.id = "none"), call' = [call EXCEPT ![c] = r]
  PROVE  CallsOK'
  BY DEF CallsOK

LEMMA ToType ==
  ASSUME CallsOK, NEW c \in Calls, call[c].phase # "idle",
         NEW phase \in Phases \ {"idle"}, NEW n \in Nat, To(c, phase, n)
  PROVE  CallsOK'
  <1> DEFINE r == [call[c] EXCEPT !.phase = phase, !.left = n]
  <1>1. call[c] \in CallRecord /\ call[c].id # "none"
    BY DEF CallsOK
  <1>2. r \in CallRecord /\ r.phase = phase /\ r.id = call[c].id
    BY <1>1, Zenon DEF CallRecord
  <1>3. call' = [call EXCEPT ![c] = r]
    BY Zenon DEF To
  <1> QED BY <1>1, <1>2, <1>3, UpdateType, Zenon

LEMMA ReturnType ==
  ASSUME CallsOK, NEW c \in Calls, Return(c)
  PROVE  CallsOK'
  BY IdleRecord DEF CallsOK, Return

LEMMA BeginType ==
  ASSUME CallsOK, NEW c \in Calls, NEW l \in 1 .. MaxLimit, NEW i \in Ids,
         Begin(c, l, i)
  PROVE  CallsOK'
  BY LeaseAssumption, IdAssumption DEF CallsOK, Begin, CallRecord, Phases

LEMMA PollType ==
  ASSUME CallsOK, NEW c \in Calls, NEW i \in Ids, Poll(c, i)
  PROVE  CallsOK'
  <1> DEFINE r == [call[c] EXCEPT !.phase = "sent", !.left = MaxLag, !.id = i]
  <1>1. call[c] \in CallRecord
    BY DEF CallsOK
  <1>2. r \in CallRecord /\ r.phase = "sent" /\ r.id = i
    BY <1>1, LeaseAssumption, Zenon DEF CallRecord, Phases
  <1>3. call' = [call EXCEPT ![c] = r]
    BY Zenon DEF Poll
  <1> QED BY <1>2, <1>3, UpdateType, IdAssumption, Zenon

LEMMA TokenType ==
  ASSUME CallsOK, NEW c \in Calls, NEW n \in 1 .. Addrs, Token(c, n)
  PROVE  CallsOK'
  <1> DEFINE r == [call[c] EXCEPT !.phase = "dial", !.left = Timeout,
                                  !.dials = n]
  <1>1. call[c] \in CallRecord /\ call[c].id # "none"
    BY DEF CallsOK, Token
  <1>0. n \in 0 .. Addrs /\ Timeout \in Nat /\ "dial" \in Phases
    BY LeaseAssumption DEF Phases
  <1>2. r \in CallRecord /\ r.phase = "dial" /\ r.id = call[c].id
    BY <1>0, <1>1, Zenon DEF CallRecord
  <1>3. call' = [call EXCEPT ![c] = r]
    BY Zenon DEF Token
  <1> QED BY <1>1, <1>2, <1>3, UpdateType, Zenon

LEMMA NextDialType ==
  ASSUME CallsOK, NEW c \in Calls, NextDial(c)
  PROVE  CallsOK'
  BY LeaseAssumption DEF CallsOK, NextDial, CallRecord, Phases

LEMMA AgedRecord ==
  ASSUME NEW r \in CallRecord
  PROVE  /\ Aged(r) \in CallRecord
         /\ Aged(r).phase = r.phase /\ Aged(r).id = r.id
         /\ Aged(r).limit = r.limit /\ Aged(r).dials = r.dials
         /\ Aged(r).left = Dec(r.left)
         /\ Aged(r).waited = IF r.phase \in {"sent", "wait"} THEN r.waited + 1
                                                             ELSE r.waited
  <1> DEFINE w == IF r.phase \in {"sent", "wait"} THEN r.waited + 1 ELSE r.waited
             l == Dec(r.left)
  <1>1. l \in Nat /\ w \in Nat
    BY DEF CallRecord, Dec
  <1>2. Aged(r) = [r EXCEPT !.left = l, !.waited = w]
    BY DEF Aged
  <1> HIDE DEF l, w
  <1>3. /\ Aged(r) \in CallRecord
        /\ Aged(r).phase = r.phase /\ Aged(r).id = r.id
        /\ Aged(r).limit = r.limit /\ Aged(r).dials = r.dials
        /\ Aged(r).left = l /\ Aged(r).waited = w
    BY <1>1, <1>2, Zenon DEF CallRecord
  <1> QED BY <1>3 DEF l, w

LEMMA TickType ==
  ASSUME CallsOK, Tick
  PROVE  CallsOK'
  BY AgedRecord DEF CallsOK, Tick

-----------------------------------------------------------------------------
\* The set is never larger than the largest limit any caller read.
HeldInv == IsFiniteSet(held) /\ Cardinality(held) <= MaxLimit

\* A set with members has time left, at least as much as each member.
KeyInv ==
  /\ held # {} => keyTTL > 0
  /\ \A i \in held : expiry[i] <= keyTTL

\* While nobody else is granted anything the set only gets older.
BlameInv ==
  \A c \in Calls :
    call[c].phase \in {"sent", "wait"} /\ c \notin blame /\ keyTTL > 0
      => keyTTL + call[c].waited <= TTL

\* A clock reading is at most MaxLag old; a dialling call has an address left.
BoundInv ==
  \A c \in Calls : /\ call[c].phase = "sent" => call[c].left <= MaxLag
                   /\ call[c].phase = "dial" => call[c].dials >= 1

IInv == TypeOK /\ HeldInv /\ KeyInv /\ BlameInv /\ BoundInv

LEMMA TypeOKSplit ==
  TypeOK <=> /\ held \subseteq Ids /\ expiry \in [Ids -> Int]
             /\ keyTTL \in 0 .. TTL /\ CallsOK /\ blame \subseteq Calls
  BY DEF TypeOK, CallsOK, CallRecord

LEMMA SurvivorsFacts ==
  ASSUME HeldInv, NEW c \in Calls
  PROVE  /\ Survivors(c) \subseteq held
         /\ IsFiniteSet(Survivors(c)) /\ Cardinality(Survivors(c)) \in Nat
         /\ Cardinality(Survivors(c)) <= Cardinality(held)
         /\ Cardinality(held) \in Nat
  <1>1. Survivors(c) \subseteq held
    BY DEF Survivors
  <1> QED BY <1>1, FS_Subset, FS_CardinalityType DEF HeldInv

LEMMA IInvInit == Init => IInv
  <1> SUFFICES ASSUME Init PROVE IInv
    OBVIOUS
  <1>1. CallsOK
    BY IdleRecord DEF Init, CallsOK
  <1>2. TypeOK
    BY <1>1, TypeOKSplit, LeaseAssumption DEF Init
  <1>3. HeldInv
    BY FS_EmptySet, LeaseAssumption DEF Init, HeldInv
  <1> QED BY <1>2, <1>3 DEF Init, IInv, KeyInv, BlameInv, BoundInv, Idle

\* The writes of a script that finds room.
LEMMA GrantFacts ==
  ASSUME IInv, NEW c \in Calls, call[c].phase = "sent", HasRoom(c),
         GrantedWrite(c)
  PROVE  /\ HeldInv' /\ KeyInv' /\ held' \subseteq Ids
         /\ expiry' \in [Ids -> Int] /\ keyTTL' = TTL /\ blame' \subseteq Calls
         /\ Age(c) \in 0 .. MaxLag
  <1>1. CallsOK /\ call[c] \in CallRecord /\ call[c].id \in Ids
    BY TypeOKSplit DEF IInv, CallsOK, CallRecord
  <1>2. Age(c) \in 0 .. MaxLag
    BY <1>1, LeaseAssumption DEF IInv, BoundInv, Age, CallRecord
  <1>3. HeldInv'
    <2>1. Cardinality(Survivors(c)) + 1 <= MaxLimit
      BY <1>1, SurvivorsFacts, LeaseAssumption DEF HasRoom, CallRecord, IInv
    <2>2. IsFiniteSet(Survivors(c))
      BY SurvivorsFacts DEF IInv
    <2>3. /\ IsFiniteSet(Survivors(c) \cup {call[c].id})
          /\ Cardinality(Survivors(c) \cup {call[c].id})
               <= Cardinality(Survivors(c)) + 1
      <3>1. Cardinality(Survivors(c)) \in Nat
        BY SurvivorsFacts DEF IInv
      <3>2. /\ IsFiniteSet(Survivors(c) \cup {call[c].id})
            /\ Cardinality(Survivors(c) \cup {call[c].id})
                 = IF call[c].id \in Survivors(c)
                     THEN Cardinality(Survivors(c))
                     ELSE Cardinality(Survivors(c)) + 1
        <4> HIDE DEF Survivors
        <4> QED BY <2>2, FS_AddElement, Zenon
      <3> QED BY <3>1, <3>2
    <2>4. Cardinality(Survivors(c) \cup {call[c].id}) \in Nat
      BY <2>3, FS_CardinalityType
    <2>5. Cardinality(Survivors(c)) \in Nat
      BY SurvivorsFacts DEF IInv
    <2> QED BY <2>1, <2>3, <2>4, <2>5, LeaseAssumption DEF GrantedWrite, HeldInv
  <1>4. held' \subseteq Ids /\ expiry' \in [Ids -> Int]
    BY <1>1, <1>2, LeaseAssumption DEF GrantedWrite, Survivors, IInv, TypeOK
  <1>5. KeyInv'
    BY <1>1, <1>2, LeaseAssumption
       DEF GrantedWrite, Survivors, IInv, TypeOK, KeyInv
  <1> QED BY <1>2, <1>3, <1>4, <1>5 DEF GrantedWrite, IInv, TypeOK

\* The writes of a script that finds none.
LEMMA RefuseFacts ==
  ASSUME IInv, NEW c \in Calls, RefusedWrite(c)
  PROVE  HeldInv' /\ KeyInv' /\ held' \subseteq Ids
  <1>1. HeldInv'
    BY SurvivorsFacts, LeaseAssumption DEF RefusedWrite, IInv, HeldInv
  <1> QED BY <1>1 DEF RefusedWrite, IInv, KeyInv, TypeOK, Survivors

\* A step of one call that leaves the lease set and the observer alone.
LEMMA CallStep ==
  ASSUME IInv, UNCHANGED <<held, expiry, keyTTL, blame>>, CallsOK',
         NEW c \in Calls, \A d \in Calls \ {c} : call'[d] = call[d],
         call'[c].phase = "sent" => call'[c].left <= MaxLag,
         call'[c].phase = "dial" => call'[c].dials >= 1,
         call'[c].phase \in {"sent", "wait"}
           => call[c].phase = "wait" /\ call'[c].waited = call[c].waited
  PROVE  IInv'
  <1>1. TypeOK'
    BY TypeOKSplit DEF IInv, TypeOK, CallsOK, CallRecord
  <1>2. BoundInv'
    BY DEF IInv, BoundInv
  <1>3. BlameInv'
    BY DEF IInv, BlameInv
  <1> QED BY <1>1, <1>2, <1>3 DEF IInv, HeldInv, KeyInv

LEMMA ReturnEffect ==
  ASSUME CallsOK, NEW c \in Calls, Return(c)
  PROVE  call'[c] = Idle /\ \A d \in Calls \ {c} : call'[d] = call[d]
  BY DEF CallsOK, Return

LEMMA ToEffect ==
  ASSUME CallsOK, NEW c \in Calls, NEW phase, NEW n, To(c, phase, n)
  PROVE  /\ call'[c].phase = phase /\ call'[c].left = n
         /\ call'[c].id = call[c].id /\ call'[c].limit = call[c].limit
         /\ call'[c].waited = call[c].waited /\ call'[c].dials = call[c].dials
         /\ \A d \in Calls \ {c} : call'[d] = call[d]
  BY DEF CallsOK, CallRecord, To

\* A granted lease: every other waiting call is entered in blame.
LEMMA GrantStep ==
  ASSUME IInv, NEW c \in Calls, call[c].phase = "sent", HasRoom(c),
         GrantedWrite(c), CallsOK', call'[c].phase \in {"token", "idle"},
         \A d \in Calls \ {c} : call'[d] = call[d]
  PROVE  IInv'
  <1>1. TypeOK'
    BY GrantFacts, TypeOKSplit, LeaseAssumption
       DEF TypeOK, CallsOK, CallRecord
  <1>2. BoundInv'
    BY DEF IInv, BoundInv
  <1>3. BlameInv'
    BY DEF IInv, BlameInv, GrantedWrite
  <1> QED BY <1>1, <1>2, <1>3, GrantFacts DEF IInv

\* A refused one: the set only shrinks.
LEMMA RefuseStep ==
  ASSUME IInv, NEW c \in Calls, call[c].phase = "sent", RefusedWrite(c),
         CallsOK', call'[c].phase \in {"wait", "idle"},
         call'[c].phase = "wait" => call'[c].waited = call[c].waited,
         \A d \in Calls \ {c} : call'[d] = call[d]
  PROVE  IInv'
  <1>1. TypeOK'
    BY RefuseFacts, TypeOKSplit DEF IInv, RefusedWrite, TypeOK, CallsOK, CallRecord
  <1>2. BoundInv'
    BY DEF IInv, BoundInv
  <1>3. BlameInv'
    BY DEF IInv, BlameInv, RefusedWrite
  <1> QED BY <1>1, <1>2, <1>3, RefuseFacts DEF IInv

LEMMA ReleaseStep ==
  ASSUME IInv, NEW c \in Calls, Release(c)
  PROVE  IInv'
  <1>1. CallsOK /\ CallsOK'
    BY TypeOKSplit, ReturnType DEF IInv, Release
  <1>2. call'[c] = Idle /\ \A d \in Calls \ {c} : call'[d] = call[d]
    BY <1>1, ReturnEffect DEF Release
  <1>3. TypeOK'
    BY <1>1, TypeOKSplit DEF IInv, Release, TypeOK, CallsOK, CallRecord
  <1>4. HeldInv'
    <2>1. held' \subseteq held
      BY DEF Release
    <2> QED BY <2>1, FS_Subset, FS_CardinalityType, LeaseAssumption
            DEF IInv, HeldInv
  <1> QED BY <1>2, <1>3, <1>4
          DEF IInv, KeyInv, BlameInv, BoundInv, Release, Idle

LEMMA TickStep ==
  ASSUME IInv, Tick
  PROVE  IInv'
  <1>1. CallsOK /\ CallsOK'
    BY TypeOKSplit, TickType DEF IInv
  <1>2. \A c \in Calls :
          /\ call'[c].phase = call[c].phase /\ call'[c].dials = call[c].dials
          /\ call'[c].left = Dec(call[c].left)
          /\ call'[c].waited = IF call[c].phase \in {"sent", "wait"}
                                 THEN call[c].waited + 1 ELSE call[c].waited
    BY <1>1, AgedRecord DEF Tick, CallsOK
  <1>3. expiry' \in [Ids -> Int] /\ keyTTL' \in 0 .. TTL /\ held' \subseteq held
    BY LeaseAssumption DEF IInv, TypeOK, Tick, Dec
  <1>4. TypeOK'
    BY <1>1, <1>3, TypeOKSplit DEF IInv, Tick, TypeOK, CallsOK, CallRecord
  <1>5. HeldInv'
    BY SMTT(30), <1>3, FS_Subset, FS_CardinalityType, LeaseAssumption DEF IInv, HeldInv
  <1>6. KeyInv'
    BY <1>3, LeaseAssumption DEF IInv, KeyInv, Tick, Dec, TypeOK
  <1>7. BoundInv'
    BY <1>1, <1>2, LeaseAssumption DEF IInv, BoundInv, Dec, CallsOK, CallRecord
  <1>8. BlameInv'
    <2> SUFFICES ASSUME NEW c \in Calls, call'[c].phase \in {"sent", "wait"},
                        c \notin blame', keyTTL' > 0
                 PROVE  keyTTL' + call'[c].waited <= TTL
      BY DEF BlameInv
    <2>1. keyTTL > 0 /\ keyTTL' = keyTTL - 1
      BY DEF Tick, Dec, IInv, TypeOK
    <2>2. call[c].waited \in Nat /\ call'[c].waited = call[c].waited + 1
      BY <1>1, <1>2 DEF CallsOK, CallRecord
    <2> QED BY <1>2, <2>1, <2>2, LeaseAssumption DEF IInv, BlameInv, Tick, TypeOK
  <1> QED BY <1>4, <1>5, <1>6, <1>7, <1>8 DEF IInv

LEMMA IInvNext == IInv /\ [Next]_vars => IInv'
  <1> SUFFICES ASSUME IInv, [Next]_vars PROVE IInv'
    OBVIOUS
  <1>0. CallsOK
    BY TypeOKSplit DEF IInv
  <1> USE DEF Phases, Live
  <1>1. ASSUME NEW c \in Calls, NEW l \in 1 .. MaxLimit, NEW i \in Ids,
               Begin(c, l, i)
        PROVE  IInv'
    <2>1. CallsOK'
      BY <1>0, <1>1, BeginType
    <2>2. /\ call'[c].phase = "sent" /\ call'[c].left = MaxLag
          /\ call'[c].waited = 0
          /\ \A d \in Calls \ {c} : call'[d] = call[d]
      BY <1>0, <1>1 DEF Begin, CallsOK
    <2>3. blame' \subseteq Calls /\ \A d \in Calls \ {c} : d \in blame' <=> d \in blame
      BY <1>1 DEF Begin, IInv, TypeOK
    <2>4. TypeOK'
      BY <1>1, <2>1, <2>3, TypeOKSplit DEF Begin, IInv, TypeOK, CallsOK, CallRecord
    <2>5. BoundInv'
      BY <2>2, LeaseAssumption DEF BoundInv, IInv
    <2>6. BlameInv'
      BY <1>1, <2>2, <2>3, LeaseAssumption DEF Begin, BlameInv, IInv, TypeOK
    <2> QED BY <1>1, <2>4, <2>5, <2>6 DEF Begin, IInv, HeldInv, KeyInv
  <1>2. ASSUME NEW c \in Calls, NEW i \in Ids, Poll(c, i) PROVE IInv'
    <2>1. CallsOK'
      BY <1>0, <1>2, PollType
    <2>2. /\ call[c].phase = "wait"
          /\ call'[c].phase = "sent" /\ call'[c].left = MaxLag
          /\ call'[c].waited = call[c].waited
          /\ \A d \in Calls \ {c} : call'[d] = call[d]
      BY <1>0, <1>2 DEF Poll, CallsOK, CallRecord
    <2>3. UNCHANGED <<held, expiry, keyTTL, blame>> /\ MaxLag <= MaxLag
      BY <1>2, LeaseAssumption DEF Poll
    <2> QED BY <2>1, <2>2, <2>3, CallStep
  <1>3. ASSUME NEW c \in Calls, Grant(c) PROVE IInv'
    BY <1>0, <1>3, GrantStep, ToType, ToEffect, LeaseAssumption DEF Grant
  <1>4. ASSUME NEW c \in Calls, GrantLost(c) PROVE IInv'
    BY <1>0, <1>4, GrantStep, ReturnType, ReturnEffect, IdleRecord DEF GrantLost
  <1>5. ASSUME NEW c \in Calls, Refuse(c) PROVE IInv'
    BY <1>0, <1>5, RefuseStep, ToType, ToEffect DEF Refuse
  <1>6. ASSUME NEW c \in Calls, TimeOut(c) PROVE IInv'
    BY <1>0, <1>6, RefuseStep, ReturnType, ReturnEffect, IdleRecord DEF TimeOut
  <1>7. ASSUME NEW c \in Calls, Abandon(c) \/ Die(c) PROVE IInv'
    BY <1>0, <1>7, CallStep, ReturnType, ReturnEffect, IdleRecord DEF Abandon, Die
  <1>8. ASSUME NEW c \in Calls, NEW n \in 1 .. Addrs, Token(c, n) PROVE IInv'
    <2>1. CallsOK'
      BY <1>0, <1>8, TokenType
    <2>2. /\ call'[c].phase = "dial" /\ call'[c].dials = n /\ n >= 1
          /\ \A d \in Calls \ {c} : call'[d] = call[d]
      BY <1>0, <1>8, LeaseAssumption DEF Token, CallsOK, CallRecord
    <2> QED BY <1>8, <2>1, <2>2, CallStep, Zenon DEF Token
  <1>9. ASSUME NEW c \in Calls, NextDial(c) PROVE IInv'
    <2>1. CallsOK'
      BY <1>0, <1>9, NextDialType
    <2>2. /\ call'[c].phase = "dial" /\ call'[c].dials >= 1
          /\ \A d \in Calls \ {c} : call'[d] = call[d]
      BY <1>0, <1>9, LeaseAssumption DEF NextDial, CallsOK, CallRecord
    <2> QED BY <1>9, <2>1, <2>2, CallStep, Zenon DEF NextDial
  <1>10. ASSUME NEW c \in Calls, Connect(c) \/ Wind(c) PROVE IInv'
    BY <1>0, <1>10, CallStep, ToType, ToEffect, LeaseAssumption DEF Connect, Wind
  <1>11. ASSUME NEW c \in Calls, Leave(c) PROVE IInv'
    BY <1>0, <1>11, CallStep, ToType, ToEffect, LeaseAssumption DEF Leave
  <1>12. ASSUME NEW c \in Calls, Release(c) PROVE IInv'
    BY <1>12, ReleaseStep
  <1>13. CASE Tick
    BY <1>13, TickStep
  <1>14. CASE UNCHANGED vars
    BY <1>14 DEF IInv, TypeOK, HeldInv, KeyInv, BlameInv, BoundInv, vars
  <1> QED BY SMTT(30), <1>1, <1>2, <1>3, <1>4, <1>5, <1>6, <1>7, <1>8, <1>9, <1>10,
             <1>11, <1>12, <1>13, <1>14 DEF Next, Step

LEMMA SpecIInv == Spec => []IInv
  BY IInvInit, IInvNext, PTL DEF Spec

\* Every reachable state is well formed, for any number of calls.
THEOREM TypeCorrect == Spec => []TypeOK
  <1>1. IInv => TypeOK
    BY DEF IInv
  <1> QED BY SpecIInv, <1>1, PTL

\* With lease_wait at least session_lease, a call is never turned away because
\* of leases that died with their holders alone.
THEOREM NeverWedged == LeaseWait >= TTL => (Spec => TimesOutOnlyBehindOthers)
  <1> SUFFICES ASSUME LeaseWait >= TTL PROVE Spec => TimesOutOnlyBehindOthers
    OBVIOUS
  <1>1. IInv => (\A c \in Calls : TimeOut(c) => c \in blame)
    <2> SUFFICES ASSUME IInv, NEW c \in Calls, TimeOut(c), c \notin blame
                 PROVE  FALSE
      OBVIOUS
    <2>1. call[c] \in CallRecord
      BY TypeOKSplit DEF IInv, CallsOK
    <2>2. Survivors(c) # {}
      BY SMTT(30), <2>1, FS_EmptySet, LeaseAssumption DEF TimeOut, HasRoom, CallRecord
    <2>3. keyTTL > 0
      BY <2>2 DEF Survivors, IInv, KeyInv
    <2>4. keyTTL + call[c].waited <= TTL
      BY <2>3 DEF IInv, BlameInv, TimeOut
    <2> QED BY <2>1, <2>3, <2>4, LeaseAssumption
            DEF TimeOut, IInv, TypeOK, CallRecord
  <1> QED BY SpecIInv, <1>1, PTL DEF TimesOutOnlyBehindOthers
-----------------------------------------------------------------------------
(***************************************************************************)
(* The lease outlives the session: a live session's lease has more time    *)
(* left than the session can still take.                                   *)
(***************************************************************************)
\* The longest the session of a call in this state can still live.
Remaining(r) ==
  IF r.phase = "token" THEN r.left + Addrs * Timeout + Timeout + TokenWait
  ELSE IF r.phase = "dial"
    THEN r.left + (r.dials - 1) * Timeout + Timeout + TokenWait
  ELSE IF r.phase = "talk" THEN r.left + TokenWait
  ELSE r.left

UniqueInv ==
  \A c, d \in Calls : c # d /\ call[c].id = call[d].id => call[c].id = "none"

CoverInv ==
  \A c \in Holders : /\ call[c].id \in held
                     /\ expiry[call[c].id] > Remaining(call[c])

LiveInv == UniqueInv /\ CoverInv

LEMMA MulMonotone ==
  ASSUME NEW a \in Nat, NEW b \in Nat, NEW t \in Nat, a <= b
  PROVE  a * t \in Nat /\ b * t \in Nat /\ a * t <= b * t
  <1>1. (b - a) * t >= 0
    OBVIOUS
  <1>2. b * t = a * t + (b - a) * t
    OBVIOUS
  <1> QED BY <1>1, <1>2

LEMMA RemainingType ==
  ASSUME NEW r \in CallRecord, r.phase = "dial" => r.dials >= 1
  PROVE  Remaining(r) \in Nat /\ Remaining(r) >= r.left
  <1>1. Addrs * Timeout \in Nat
    BY LeaseAssumption
  <1>2. CASE r.phase = "dial"
    <2>1. r.dials - 1 \in Nat
      BY <1>2, LeaseAssumption DEF CallRecord
    <2>2. (r.dials - 1) * Timeout \in Nat
      BY <2>1, LeaseAssumption
    <2> QED BY <1>2, <2>2, LeaseAssumption DEF Remaining, CallRecord
  <1>3. CASE r.phase # "dial"
    BY <1>1, <1>3, LeaseAssumption DEF Remaining, CallRecord
  <1> QED BY <1>2, <1>3

\* A step of one call that keeps its identifier and does not lengthen its stay.
LEMMA LiveStep ==
  ASSUME IInv, LiveInv, NEW c \in Calls, UNCHANGED expiry,
         \A d \in Calls \ {c} : call'[d] = call[d] /\ (call[d].phase \in Live
                                       /\ call[d].id \in held => call[d].id \in held'),
         call'[c].id \in {call[c].id, "none"},
         call'[c].phase \in Live =>
           /\ call[c].phase \in Live /\ call'[c].id = call[c].id
           /\ call[c].id \in held'
           /\ expiry[call[c].id] > Remaining(call'[c])
  PROVE  LiveInv'
  <1>1. UniqueInv'
    BY DEF LiveInv, UniqueInv
  <1>2. CoverInv'
    <2> SUFFICES ASSUME NEW d \in Calls, call'[d].phase \in Live
                 PROVE  /\ call'[d].id \in held'
                        /\ expiry[call'[d].id] > Remaining(call'[d])
      BY DEF CoverInv, Holders
    <2>1. CASE d = c
      BY <2>1
    <2>2. CASE d # c
      BY <2>2 DEF LiveInv, CoverInv, Holders
    <2> QED BY <2>1, <2>2
  <1> QED BY <1>1, <1>2 DEF LiveInv

\* The purge spares the leases of live sessions.
LEMMA SurvivorsCover ==
  ASSUME IInv, LiveInv, NEW c \in Calls, call[c].phase = "sent",
         NEW d \in Holders
  PROVE  call[d].id \in Survivors(c)
  <1>1. CallsOK /\ call[c] \in CallRecord /\ call[d] \in CallRecord /\ d \in Calls
    BY TypeOKSplit DEF IInv, CallsOK, Holders
  <1>2. Age(c) \in Nat
    BY <1>1, LeaseAssumption DEF IInv, BoundInv, Age, CallRecord
  <1>3. Remaining(call[d]) \in Nat
    BY <1>1, RemainingType DEF IInv, BoundInv
  <1>4. call[d].id \in held /\ expiry[call[d].id] \in Int
        /\ expiry[call[d].id] > Remaining(call[d])
    BY DEF LiveInv, CoverInv, IInv, TypeOK
  <1>5. expiry[call[d].id] > -Age(c)
    BY <1>2, <1>3, <1>4
  <1> QED BY <1>4, <1>5 DEF Survivors

\* Live sessions are at most as many as the members the purge leaves.
LEMMA HoldersCounted ==
  ASSUME IInv, LiveInv, NEW S, IsFiniteSet(S),
         \A d \in Holders : call[d].id \in S
  PROVE  IsFiniteSet(Holders) /\ Cardinality(Holders) <= Cardinality(S)
  <1> DEFINE f == [d \in Holders |-> call[d].id]
  <1>1. \A d \in Holders : call[d].id # "none"
    BY TypeOKSplit DEF IInv, CallsOK, Holders, Live
  <1>2. f \in Injection(Holders, S)
    BY <1>1 DEF LiveInv, UniqueInv, Holders, Injection, IsInjective
  <1> HIDE DEF f
  <1> QED BY <1>2, FS_Injection

\* A call takes a fresh identifier before it has a session.
LEMMA FreshStep ==
  ASSUME LiveInv, NEW c \in Calls, NEW i \in Ids, FreshId(i),
         UNCHANGED <<held, expiry>>, call'[c].id = i, call'[c].phase \notin Live,
         \A d \in Calls \ {c} : call'[d] = call[d]
  PROVE  LiveInv'
  <1>1. UniqueInv'
    BY DEF LiveInv, UniqueInv, FreshId
  <1>2. CoverInv'
    BY DEF LiveInv, CoverInv, Holders
  <1> QED BY <1>1, <1>2 DEF LiveInv

LEMMA GrantLive ==
  ASSUME IInv, LiveInv, LeaseOutlivesSession,
         NEW c \in Calls, call[c].phase = "sent", HasRoom(c), GrantedWrite(c),
         call'[c].id \in {call[c].id, "none"},
         call'[c].phase \in Live => /\ call'[c].id = call[c].id
                                   /\ call'[c].phase = "token"
                                   /\ call'[c].left = TokenWait,
         \A d \in Calls \ {c} : call'[d] = call[d]
  PROVE  LiveInv'
  <1>1. UniqueInv'
    BY DEF LiveInv, UniqueInv
  <1>2. call[c].id \in Ids /\ call[c].id # "none" /\ Age(c) \in 0 .. MaxLag
    BY GrantFacts, TypeOKSplit, IdAssumption DEF IInv, CallsOK, CallRecord
  <1>3. CoverInv'
    <2> SUFFICES ASSUME NEW d \in Calls, call'[d].phase \in Live
                 PROVE  /\ call'[d].id \in held'
                        /\ expiry'[call'[d].id] > Remaining(call'[d])
      BY DEF CoverInv, Holders
    <2>1. CASE d = c
      <3>1. Remaining(call'[c]) = MaxHold /\ MaxHold \in Nat
        BY <2>1, LeaseAssumption DEF Remaining, MaxHold
      <3>2. expiry'[call[c].id] = TTL - Age(c)
        BY SMTT(30), <1>2 DEF GrantedWrite, IInv, TypeOK
      <3> QED BY SMTT(30), <1>2, <2>1, <3>1, <3>2, LeaseAssumption
              DEF LeaseOutlivesSession, GrantedWrite
    <2>2. CASE d # c
      <3>1. d \in Holders /\ call'[d] = call[d]
        BY <2>2 DEF Holders
      <3>2. call[d].id \in Survivors(c)
        BY <3>1, SurvivorsCover
      <3>3. call[d].id # call[c].id
        BY <1>2, <2>2 DEF LiveInv, UniqueInv
      <3> QED BY SMTT(30), <3>1, <3>2, <3>3 DEF GrantedWrite, LiveInv, CoverInv, IInv, TypeOK
    <2> QED BY <2>1, <2>2
  <1> QED BY <1>1, <1>3 DEF LiveInv

LEMMA TickLive ==
  ASSUME IInv, LiveInv, Tick
  PROVE  LiveInv'
  <1>1. CallsOK
    BY TypeOKSplit DEF IInv
  <1>2. \A c \in Calls : /\ call[c] \in CallRecord /\ call'[c] = Aged(call[c])
                         /\ call'[c].id = call[c].id
                         /\ call'[c].phase = call[c].phase
    BY <1>1, AgedRecord DEF Tick, CallsOK
  <1>3. UniqueInv'
    BY <1>2 DEF LiveInv, UniqueInv
  <1>4. CoverInv'
    <2> SUFFICES ASSUME NEW c \in Calls, call[c].phase \in Live
                 PROVE  /\ call[c].id \in held'
                        /\ expiry'[call[c].id] > Remaining(call'[c])
      BY <1>2 DEF CoverInv, Holders
    <2>1. call[c].left > 0 /\ call[c].left \in Nat
      BY <1>2 DEF Tick, Live, CallRecord
    <2>2. Remaining(call[c]) \in Nat /\ Remaining(call[c]) >= call[c].left
      BY <1>2, RemainingType DEF IInv, BoundInv
    <2>3. /\ call'[c].left = call[c].left - 1
          /\ call'[c].phase = call[c].phase /\ call'[c].dials = call[c].dials
      BY <1>2, <2>1, AgedRecord DEF Dec
    <2>4. Remaining(call'[c]) = Remaining(call[c]) - 1
      <3>1. Addrs * Timeout \in Nat
        BY LeaseAssumption
      <3>2. CASE call[c].phase = "dial"
        <4>1. (call[c].dials - 1) * Timeout \in Int
          BY <1>2, LeaseAssumption DEF CallRecord
        <4> QED BY <2>1, <2>3, <3>2, <4>1, LeaseAssumption DEF Remaining
      <3>3. CASE call[c].phase # "dial"
        BY <2>1, <2>3, <3>1, <3>3, LeaseAssumption DEF Remaining
      <3> QED BY <3>2, <3>3
    <2>5. /\ call[c].id \in held /\ call[c].id \in Ids
          /\ expiry[call[c].id] \in Int
          /\ expiry[call[c].id] > Remaining(call[c])
          /\ expiry[call[c].id] <= keyTTL /\ keyTTL \in Nat
      BY LeaseAssumption DEF LiveInv, CoverInv, Holders, IInv, TypeOK, KeyInv
    <2>6. keyTTL > 1
      BY <2>1, <2>2, <2>5
    <2>7. expiry'[call[c].id] = expiry[call[c].id] - 1
      BY SMTT(30), <2>1, <2>2, <2>5, LeaseAssumption DEF Tick
    <2> QED BY <2>2, <2>4, <2>5, <2>6, <2>7 DEF Tick
  <1> QED BY <1>3, <1>4 DEF LiveInv

LEMMA TokenLive ==
  ASSUME IInv, LiveInv, NEW c \in Calls, NEW n \in 1 .. Addrs, Token(c, n)
  PROVE  LiveInv'
  <1>1. call[c] \in CallRecord
    BY TypeOKSplit DEF IInv, CallsOK
  <1>2. /\ call[c].phase = "token" /\ call'[c].phase = "dial"
        /\ call'[c].left = Timeout /\ call'[c].dials = n
        /\ call'[c].id = call[c].id
        /\ \A d \in Calls \ {c} : call'[d] = call[d]
    BY <1>1, TypeOKSplit DEF Token, IInv, CallsOK, CallRecord
  <1>3. UNCHANGED <<held, expiry>>
    BY DEF Token
  <1>4. Timeout + (n - 1) * Timeout = n * Timeout
    BY LeaseAssumption
  <1>5. n * Timeout \in Nat /\ Addrs * Timeout \in Nat
        /\ n * Timeout <= Addrs * Timeout
    BY MulMonotone, LeaseAssumption
  <1>6. Remaining(call'[c]) \in Nat /\ Remaining(call'[c]) <= Remaining(call[c])
        /\ Remaining(call[c]) \in Nat
    BY SMTT(30), <1>1, <1>2, <1>4, <1>5, LeaseAssumption DEF Remaining, CallRecord
  <1>7. /\ call[c].id \in held /\ expiry[call[c].id] \in Int
        /\ expiry[call[c].id] > Remaining(call[c])
    BY <1>2 DEF LiveInv, CoverInv, Holders, Live, IInv, TypeOK
  <1>8. expiry[call[c].id] > Remaining(call'[c])
    BY <1>6, <1>7
  <1> QED BY <1>2, <1>3, <1>7, <1>8, LiveStep DEF Live

LEMMA NextDialLive ==
  ASSUME IInv, LiveInv, NEW c \in Calls, NextDial(c)
  PROVE  LiveInv'
  <1>1. call[c] \in CallRecord
    BY TypeOKSplit DEF IInv, CallsOK
  <1>2. /\ call[c].phase = "dial" /\ call'[c].phase = "dial"
        /\ call[c].dials > 1
        /\ call'[c].left = Timeout /\ call'[c].dials = call[c].dials - 1
        /\ call'[c].id = call[c].id
        /\ \A d \in Calls \ {c} : call'[d] = call[d]
    BY <1>1, TypeOKSplit DEF NextDial, IInv, CallsOK, CallRecord
  <1>3. UNCHANGED <<held, expiry>>
    BY DEF NextDial
  <1>4. Timeout + ((call[c].dials - 1) - 1) * Timeout = (call[c].dials - 1) * Timeout
        /\ (call[c].dials - 1) * Timeout \in Int
    BY <1>1, LeaseAssumption DEF CallRecord
  <1>5. Remaining(call'[c]) <= Remaining(call[c]) /\ Remaining(call'[c]) \in Int
        /\ Remaining(call[c]) \in Int
    BY SMTT(30), <1>1, <1>2, <1>4, LeaseAssumption DEF Remaining, CallRecord
  <1>7. /\ call[c].id \in held /\ expiry[call[c].id] \in Int
        /\ expiry[call[c].id] > Remaining(call[c])
    BY <1>2 DEF LiveInv, CoverInv, Holders, Live, IInv, TypeOK
  <1>8. expiry[call[c].id] > Remaining(call'[c])
    BY SMTT(30), <1>5, <1>7
  <1> QED BY SMTT(30), <1>2, <1>3, <1>7, <1>8, LiveStep DEF Live

\* Connect and Wind: the next phase is no longer than what was left.
LEMMA TalkLive ==
  ASSUME IInv, LiveInv, NEW c \in Calls, Connect(c) \/ Wind(c)
  PROVE  LiveInv'
  <1>1. CallsOK /\ call[c] \in CallRecord
    BY TypeOKSplit DEF IInv, CallsOK
  <1>2. /\ call[c].phase \in Live /\ call'[c].id = call[c].id
        /\ \A d \in Calls \ {c} : call'[d] = call[d]
        /\ UNCHANGED <<held, expiry>>
    BY <1>1, ToEffect DEF Connect, Wind, Live
  <1>3. Remaining(call'[c]) <= Remaining(call[c]) /\ Remaining(call'[c]) \in Nat
        /\ Remaining(call[c]) \in Int
    <2>1. CASE Connect(c)
      <3>1. call[c].phase = "dial" /\ call'[c].phase = "talk" /\ call'[c].left = Timeout
        BY <1>1, <2>1, ToEffect DEF Connect
      <3>2. call[c].dials - 1 \in Nat
        BY <1>1, <3>1, LeaseAssumption DEF IInv, BoundInv, CallRecord
      <3>3. (call[c].dials - 1) * Timeout \in Nat
        BY <3>2, LeaseAssumption
      <3> QED BY SMTT(30), <1>1, <3>1, <3>3, LeaseAssumption DEF Remaining, CallRecord
    <2>2. CASE Wind(c)
      <3>1. call[c].phase = "talk" /\ call'[c].phase = "end" /\ call'[c].left = TokenWait
        BY <1>1, <2>2, ToEffect DEF Wind
      <3> QED BY <1>1, <3>1, LeaseAssumption DEF Remaining, CallRecord
    <2> QED BY <2>1, <2>2
  <1>4. /\ call[c].id \in held /\ expiry[call[c].id] \in Int
        /\ expiry[call[c].id] > Remaining(call[c])
    BY <1>2 DEF LiveInv, CoverInv, Holders, IInv, TypeOK
  <1>5. expiry[call[c].id] > Remaining(call'[c])
    BY <1>3, <1>4
  <1> QED BY SMTT(30), <1>2, <1>4, <1>5, LiveStep

LEMMA LiveNext == LeaseOutlivesSession /\ IInv /\ LiveInv /\ [Next]_vars => LiveInv'
  <1> SUFFICES ASSUME LeaseOutlivesSession, IInv, LiveInv, [Next]_vars PROVE LiveInv'
    OBVIOUS
  <1>0. CallsOK
    BY TypeOKSplit DEF IInv
  <1>1. ASSUME NEW c \in Calls, NEW l \in 1 .. MaxLimit, NEW i \in Ids,
               Begin(c, l, i)
        PROVE  LiveInv'
    <2>1. /\ call'[c].id = i /\ call'[c].phase \notin Live
          /\ \A d \in Calls \ {c} : call'[d] = call[d]
      BY <1>0, <1>1 DEF Begin, CallsOK, Live
    <2> QED BY <1>1, <2>1, FreshStep DEF Begin
  <1>2. ASSUME NEW c \in Calls, NEW i \in Ids, Poll(c, i) PROVE LiveInv'
    <2>1. /\ call'[c].id = i /\ call'[c].phase \notin Live
          /\ \A d \in Calls \ {c} : call'[d] = call[d]
      BY <1>0, <1>2 DEF Poll, CallsOK, CallRecord, Live
    <2>2. FreshId(i) /\ UNCHANGED <<held, expiry>>
      BY <1>2 DEF Poll
    <2> QED BY <2>1, <2>2, FreshStep
  <1>3. ASSUME NEW c \in Calls, Grant(c) PROVE LiveInv'
    BY <1>0, <1>3, ToEffect, GrantLive DEF Grant
  <1>4. ASSUME NEW c \in Calls, GrantLost(c) PROVE LiveInv'
    BY <1>0, <1>4, ReturnEffect, IdleRecord, GrantLive DEF GrantLost, Live
  <1>5. ASSUME NEW c \in Calls, Refuse(c) \/ TimeOut(c) PROVE LiveInv'
    <2>1. /\ call'[c].id \in {call[c].id, "none"} /\ call'[c].phase \notin Live
          /\ \A d \in Calls \ {c} : call'[d] = call[d]
      BY <1>0, <1>5, ToEffect, ReturnEffect, IdleRecord DEF Refuse, TimeOut, Live
    <2>2. call[c].phase = "sent" /\ held' = Survivors(c) /\ UNCHANGED expiry
      BY <1>5 DEF Refuse, TimeOut, RefusedWrite
    <2>3. \A d \in Calls : call[d].phase \in Live => call[d].id \in Survivors(c)
      BY <2>2, SurvivorsCover DEF Holders
    <2> QED BY <2>1, <2>2, <2>3, LiveStep
  <1>6. ASSUME NEW c \in Calls, Abandon(c) \/ Die(c) PROVE LiveInv'
    BY <1>0, <1>6, ReturnEffect, IdleRecord, LiveStep DEF Abandon, Die, Live
  <1>7. ASSUME NEW c \in Calls, Leave(c) PROVE LiveInv'
    <2>1. call'[c].id = call[c].id /\ call'[c].phase \notin Live
          /\ UNCHANGED <<held, expiry>>
          /\ \A d \in Calls \ {c} : call'[d] = call[d]
      BY <1>0, <1>7, ToEffect DEF Leave, Live
    <2> QED BY <2>1, LiveStep
  <1>8. ASSUME NEW c \in Calls, Release(c) PROVE LiveInv'
    <2>1. /\ call'[c].id = "none" /\ call'[c].phase \notin Live
          /\ \A d \in Calls \ {c} : call'[d] = call[d]
      BY <1>0, <1>8, ReturnEffect, IdleRecord DEF Release, Live
    <2>2. \A d \in Calls \ {c} : call[d].phase \in Live => call[d].id # call[c].id
      BY <1>0 DEF LiveInv, UniqueInv, CallsOK, Live
    <2> QED BY <1>8, <2>1, <2>2, LiveStep DEF Release
  <1>9. ASSUME NEW c \in Calls, Step(c) PROVE LiveInv'
    BY SMTT(30), <1>2, <1>3, <1>4, <1>5, <1>6, <1>7, <1>8, <1>9,
       TokenLive, NextDialLive, TalkLive DEF Step
  <1>10. CASE UNCHANGED vars
    BY <1>10 DEF LiveInv, UniqueInv, CoverInv, Holders, vars
  <1> QED BY <1>1, <1>9, <1>10, TickLive DEF Next

LEMMA LiveInit == Init => LiveInv
  BY IdleRecord DEF Init, LiveInv, UniqueInv, CoverInv, Holders, Live

LEMMA SpecLive == LeaseOutlivesSession => (Spec => []LiveInv)
  <1> SUFFICES ASSUME LeaseOutlivesSession PROVE Spec => []LiveInv
    OBVIOUS
  <1>1. IInv /\ LiveInv /\ [Next]_vars => LiveInv'
    BY LiveNext
  <1> QED BY SpecIInv, LiveInit, <1>1, PTL DEF Spec

\* If session_lease exceeds the longest session plus the lag of a Redis command,
\* no session ever outlives its lease.
THEOREM LeaseCovers == LeaseOutlivesSession => (Spec => []LeaseCoversSession)
  <1> SUFFICES ASSUME LeaseOutlivesSession PROVE Spec => []LeaseCoversSession
    OBVIOUS
  <1>1. IInv /\ LiveInv => LeaseCoversSession
    <2> SUFFICES ASSUME IInv, LiveInv, NEW c \in Holders
                 PROVE  call[c].id \in held /\ expiry[call[c].id] > 0
      BY DEF LeaseCoversSession
    <2>1. call[c] \in CallRecord
      BY TypeOKSplit DEF IInv, CallsOK, Holders
    <2>2. Remaining(call[c]) \in Nat
      BY <2>1, RemainingType DEF IInv, BoundInv, Holders
    <2>3. call[c].id \in held /\ expiry[call[c].id] > Remaining(call[c])
          /\ expiry[call[c].id] \in Int
      BY DEF LiveInv, CoverInv, IInv, TypeOK
    <2> QED BY <2>2, <2>3
  <1> QED BY SpecIInv, SpecLive, <1>1, PTL

\* Then at most MaxLimit connections are open at once, over all nodes.
THEOREM WithinLimit == LeaseOutlivesSession => (Spec => []OpenWithinLimit)
  <1> SUFFICES ASSUME LeaseOutlivesSession PROVE Spec => []OpenWithinLimit
    OBVIOUS
  <1>1. IInv /\ LiveInv => OpenWithinLimit
    <2> SUFFICES ASSUME IInv, LiveInv PROVE OpenWithinLimit
      OBVIOUS
    <2> DEFINE O == {c \in Calls : call[c].phase \in Open}
    <2>1. IsFiniteSet(Holders) /\ Cardinality(Holders) <= Cardinality(held)
      BY HoldersCounted DEF IInv, HeldInv, LiveInv, CoverInv
    <2>2. O \subseteq Holders
      BY DEF Holders, Open, Live
    <2>3. IsFiniteSet(O) /\ Cardinality(O) <= Cardinality(Holders)
      BY <2>1, <2>2, FS_Subset
    <2>4. Cardinality(O) \in Nat /\ Cardinality(Holders) \in Nat
          /\ Cardinality(held) \in Nat /\ Cardinality(held) <= MaxLimit
      BY <2>1, <2>3, FS_CardinalityType DEF IInv, HeldInv
    <2> QED BY <2>1, <2>3, <2>4, LeaseAssumption DEF OpenWithinLimit
  <1> QED BY SpecIInv, SpecLive, <1>1, PTL

\* The leases implement the semaphore of SessionSlots: every step of the lease
\* set, the callers and the clock enters one call, ends one, or changes nothing.
THEOREM Refinement == LeaseOutlivesSession => (Spec => SlotsSpec)
  <1> SUFFICES ASSUME LeaseOutlivesSession PROVE Spec => SlotsSpec
    OBVIOUS
  <1>1. Init => Slots!Init
    BY IdleRecord DEF Init, Slots!Init, Holders, Live
  <1>2. IInv /\ LiveInv /\ [Next]_vars => [Slots!Next]_Holders
    <2> SUFFICES ASSUME IInv, LiveInv, [Next]_vars
                 PROVE  Slots!Next \/ UNCHANGED Holders
      BY DEF Slots!Next
    <2>0. CallsOK
      BY TypeOKSplit DEF IInv
    <2>1. ASSUME NEW c \in Calls, Grant(c) PROVE Slots!Next
      <3>1. call'[c].phase = "token" /\ \A d \in Calls \ {c} : call'[d] = call[d]
        BY <2>0, <2>1, ToEffect DEF Grant
      <3>2. c \notin Holders /\ Holders' = Holders \cup {c}
        BY <2>1, <3>1 DEF Grant, Holders, Live
      <3>3. IsFiniteSet(Holders)
            /\ Cardinality(Holders) <= Cardinality(Survivors(c))
        BY <2>1, SurvivorsFacts, SurvivorsCover, HoldersCounted DEF Grant, IInv
      <3>4. Cardinality(Survivors(c)) < MaxLimit
        BY <2>0, <2>1, SurvivorsFacts, LeaseAssumption
           DEF Grant, HasRoom, CallsOK, CallRecord, IInv
      <3>5. Cardinality(Holders) < MaxLimit
        BY SMTT(30), <3>3, <3>4, FS_CardinalityType, SurvivorsFacts, LeaseAssumption
        DEF IInv
      <3>6. Slots!Cardinality(Holders) = Cardinality(Holders)
        BY Zenon DEF Slots!Cardinality, Cardinality
      <3> QED BY <3>2, <3>5, <3>6 DEF Slots!Next, Slots!Enter
    <2>2. ASSUME NEW c \in Calls, \A d \in Calls \ {c} : call'[d] = call[d],
                 call'[c].phase \notin Live
          PROVE  Slots!Next \/ UNCHANGED Holders
      <3>1. CASE c \in Holders
        <4>1. Holders' = Holders \ {c}
          BY <2>2 DEF Holders
        <4> QED BY <3>1, <4>1 DEF Slots!Next, Slots!Exit
      <3>2. CASE c \notin Holders
        BY <2>2, <3>2 DEF Holders
      <3> QED BY <3>1, <3>2
    <2>3. ASSUME NEW c \in Calls, \A d \in Calls \ {c} : call'[d] = call[d],
                 call[c].phase \in Live, call'[c].phase \in Live
          PROVE  UNCHANGED Holders
      BY <2>3 DEF Holders
    <2>4. ASSUME NEW c \in Calls, NEW l \in 1 .. MaxLimit, NEW i \in Ids,
                 Begin(c, l, i)
          PROVE  Slots!Next \/ UNCHANGED Holders
      BY SMTT(30), <2>0, <2>2, <2>4 DEF Begin, CallsOK, Live
    <2>5. ASSUME NEW c \in Calls, NEW i \in Ids, Poll(c, i)
          PROVE  Slots!Next \/ UNCHANGED Holders
      <3>1. /\ call'[c].phase \notin Live
            /\ \A d \in Calls \ {c} : call'[d] = call[d]
        BY <2>0, <2>5 DEF Poll, CallsOK, CallRecord, Live
      <3> QED BY SMTT(30), <3>1, <2>2
    <2>6. ASSUME NEW c \in Calls, \/ GrantLost(c) \/ TimeOut(c) \/ Abandon(c)
                                 \/ Release(c) \/ Die(c)
          PROVE  Slots!Next \/ UNCHANGED Holders
      BY <2>0, <2>2, <2>6, ReturnEffect, IdleRecord
         DEF GrantLost, TimeOut, Abandon, Release, Die, Live
    <2>7. ASSUME NEW c \in Calls, Refuse(c) \/ Leave(c)
          PROVE  Slots!Next \/ UNCHANGED Holders
      <3>1. /\ call'[c].phase \notin Live
            /\ \A d \in Calls \ {c} : call'[d] = call[d]
        BY <2>0, <2>7, ToEffect DEF Refuse, Leave, Live
      <3> QED BY <3>1, <2>2
    <2>8. ASSUME NEW c \in Calls, Connect(c) \/ Wind(c) PROVE UNCHANGED Holders
      <3>1. /\ call[c].phase \in Live /\ call'[c].phase \in Live
            /\ \A d \in Calls \ {c} : call'[d] = call[d]
        BY SMTT(30), <2>0, <2>8, ToEffect DEF Connect, Wind, Live
      <3> QED BY <3>1, <2>3
    <2>9. ASSUME NEW c \in Calls, NextDial(c) \/ \E n \in 1 .. Addrs : Token(c, n)
          PROVE  UNCHANGED Holders
      <3>1. /\ call[c].phase \in Live /\ call'[c].phase \in Live
            /\ \A d \in Calls \ {c} : call'[d] = call[d]
        BY <2>0, <2>9 DEF NextDial, Token, CallsOK, CallRecord, Live
      <3> QED BY <3>1, <2>3
    <2>10. CASE Tick
      <3>1. \A c \in Calls : call'[c].phase = call[c].phase
        BY <2>0, <2>10, AgedRecord DEF Tick, CallsOK
      <3> QED BY <3>1 DEF Holders
    <2>11. CASE UNCHANGED vars
      BY <2>11 DEF vars, Holders
    <2> QED BY SMTT(30), <2>1, <2>4, <2>5, <2>6, <2>7, <2>8, <2>9, <2>10, <2>11
            DEF Next, Step
  <1> QED BY SpecIInv, SpecLive, <1>1, <1>2, PTL DEF Spec, SlotsSpec, Slots!Spec
=============================================================================

------------------------------ MODULE Resolver ------------------------------
(***************************************************************************)
(* Resolve of internal/resolver: the guard, and the cache of vetted        *)
(* answers and of refusals that all requests of a node share.              *)
(*                                                                         *)
(* The lock of the cache is held for one get or one put; the lookup runs   *)
(* between them, so lookups of one host overlap and store in any order.    *)
(* DNS may answer each lookup differently, fail it, or not answer before   *)
(* the timeout, and the caller may be cancelled meanwhile.                 *)
(*                                                                         *)
(* Abstractions: an address is whether it is routable global unicast (the  *)
(* predicates and prefixes of guard.go) and whether it is an IPv4 address  *)
(* mapped into IPv6.  An answer is a set of them.  Times are ticks elapsed *)
(* or left, so that the clock needs no bound.                              *)
(***************************************************************************)
EXTENDS Integers, Counting

CONSTANTS
  Callers, Hosts, NoHost,
  Answers,        \* sets of addresses DNS may answer with
  TTL, NegTTL,    \* Options.CacheTTL and NegativeTTL
  Timeout,        \* Options.Timeout
  Size,           \* Options.CacheSize
  Lag             \* the longest a goroutine that has its answer is not run

Address == [routable : BOOLEAN, mapped : BOOLEAN]

ASSUME ResolverAssumption ==
  /\ NoHost \notin Hosts
  /\ Answers \subseteq SUBSET Address
  /\ {TTL, NegTTL, Size} \subseteq Nat \ {0} /\ NegTTL <= TTL
  /\ {Timeout, Lag} \subseteq Nat

VARIABLES
  cache,    \* Resolver.cache: an entry for each host it remembers
  call,     \* each caller: where its Resolve is, and what DNS answered it
  served    \* what each caller was told in this tick, and how old that is

resolverVars == <<cache, call, served>>

Old == TTL + Lag + 1   \* ages are not told apart from here on

Idle == [phase |-> "idle", host |-> NoHost, failed |-> FALSE, answer |-> {}, age |-> 0]
Nothing == [addrs |-> {}, err |-> "none", age |-> 0]

ResolverInit ==
  /\ cache = <<>>
  /\ call = [p \in Callers |-> Idle]
  /\ served = [p \in Callers |-> Nothing]

-----------------------------------------------------------------------------
(* guard.go *)

Blocked(a) == a.mapped \/ ~a.routable
Unmap(a) == [a EXCEPT !.mapped = FALSE]
Refused(err) == [addrs |-> {}, err |-> err]

\* What Resolve makes of an answer: the addresses it may connect to, or why
\* there are none.
Vet(answer) ==
  LET out == {a \in {Unmap(b) : b \in answer} : ~Blocked(a)} IN
  IF answer = {} THEN Refused("noaddress")
  ELSE IF out = {} THEN Refused("blocked")
  ELSE [addrs |-> out, err |-> "none"]

-----------------------------------------------------------------------------
(* cache.go *)

Expired(h) == cache[h].left < 0

\* Whatever is remembered is served.
HitAny(h) == h \in DOMAIN cache

\* get: an expired entry counts as absent.
Hit(h) == h \in DOMAIN cache /\ ~Expired(h)

Full == AtLeast(DOMAIN cache, Size)

\* evictLocked: the expired entries, and if that frees nothing any one.
Evictions ==
  LET stale == {h \in DOMAIN cache : Expired(h)} IN
  IF ~Full THEN {{}}
  ELSE IF stale # {} THEN {stale} ELSE {{h} : h \in DOMAIN cache}

\* put: a refusal or a failure is held for the shorter time.
Lifetime(err) == IF err = "none" THEN TTL ELSE NegTTL

\* put: room is made even when the host is remembered already.
PutCache(h, result, age) ==
  \E gone \in Evictions :
    cache' = [g \in (DOMAIN cache \ gone) \cup {h} |->
                IF g = h THEN [addrs |-> result.addrs, err |-> result.err,
                               left |-> Lifetime(result.err), age |-> age]
                ELSE cache[g]]

-----------------------------------------------------------------------------
(* Resolve *)

Tell(p, result, age) ==
  served' = [served EXCEPT ![p] = [addrs |-> result.addrs, err |-> result.err, age |-> age]]

\* An address in place of a name is vetted as it stands and never cached.
Literal(p, a) ==
  /\ call[p].phase = "idle"
  /\ Tell(p, IF Blocked(a) THEN Refused("blocked") ELSE [addrs |-> {a}, err |-> "none"], 0)
  /\ UNCHANGED <<cache, call>>

\* get drops an expired entry.
BeginLookup(p, h) ==
  /\ call[p].phase = "idle"
  /\ IF Hit(h)
     THEN /\ Tell(p, cache[h], cache[h].age)
          /\ UNCHANGED <<cache, call>>
     ELSE /\ cache' = [g \in DOMAIN cache \ {h} |-> cache[g]]
          /\ call' = [call EXCEPT ![p] = [Idle EXCEPT !.phase = "lookup", !.host = h]]
          /\ UNCHANGED served

\* The lookup has its result; the goroutine has not gone on yet.  age counts
\* from here.
Over(p, failed, answer) ==
  /\ call[p].phase = "lookup"
  /\ call' = [call EXCEPT ![p] = [phase |-> "answered", host |-> call[p].host,
                                  failed |-> failed, answer |-> answer, age |-> 0]]
  /\ UNCHANGED <<cache, served>>

Answered(p, answer) == Over(p, FALSE, answer)

\* DNS fails, does not answer before the timeout, or the caller is cancelled:
\* all three are an error of the lookup.
LookupFails(p) == Over(p, TRUE, {})

\* The answer is stored as it came and vetted for this caller alone.
StoreRaw(p) ==
  LET result == IF call[p].failed THEN Refused("lookup") ELSE Vet(call[p].answer) IN
  /\ call[p].phase = "answered"
  /\ PutCache(call[p].host, [addrs |-> call[p].answer, err |-> result.err], call[p].age)
  /\ Tell(p, result, call[p].age)
  /\ call' = [call EXCEPT ![p] = Idle]

\* Vetted, stored, and returned to the caller.
Store(p) ==
  LET result == IF call[p].failed THEN Refused("lookup") ELSE Vet(call[p].answer) IN
  /\ call[p].phase = "answered"
  /\ PutCache(call[p].host, result, call[p].age)
  /\ Tell(p, result, call[p].age)
  /\ call' = [call EXCEPT ![p] = Idle]

Older(age) == IF age < Old THEN age + 1 ELSE Old

\* Time does not pass the deadline of a lookup, nor a goroutine by for longer
\* than Lag.
ResolverTick ==
  /\ \A p \in Callers :
       /\ call[p].phase = "lookup" => call[p].age < Timeout
       /\ call[p].phase = "answered" => call[p].age < Lag
  /\ call' = [p \in Callers |-> IF call[p].phase = "idle" THEN Idle
                                ELSE [call[p] EXCEPT !.age = @ + 1]]
  /\ cache' = [h \in DOMAIN cache |->
                 [cache[h] EXCEPT !.left = IF @ < 0 THEN @ ELSE @ - 1, !.age = Older(@)]]
  /\ served' = [p \in Callers |-> Nothing]

ResolverNext ==
  \/ \E p \in Callers, h \in Hosts : BeginLookup(p, h)
  \/ \E p \in Callers, a \in Address : Literal(p, a)
  \/ \E p \in Callers, answer \in Answers : Answered(p, answer)
  \/ \E p \in Callers : LookupFails(p) \/ Store(p)
  \/ ResolverTick

ResolverSpec == ResolverInit /\ [][ResolverNext]_resolverVars
-----------------------------------------------------------------------------

Errors == {"none", "lookup", "noaddress", "blocked"}

ResolverTypeOK ==
  /\ DOMAIN cache \subseteq Hosts
  /\ \A h \in DOMAIN cache : cache[h] \in [addrs : SUBSET Address, err : Errors,
                                          left : -1..TTL, age : 0..Old]
  /\ call \in [Callers -> [phase : {"idle", "lookup", "answered"},
                           host : Hosts \cup {NoHost}, failed : BOOLEAN,
                           answer : Answers \cup {{}}, age : 0..(Timeout + Lag)]]
  /\ served \in [Callers -> [addrs : SUBSET Address, err : Errors, age : 0..Old]]

\* Resolve and put: what a caller is given, from DNS or from the cache, is
\* either addresses that may all be connected to or an error, whatever the zone
\* answered in between; and the cache never holds more than its size.
OnlyVetted ==
  /\ ResolverTypeOK
  /\ ~AtLeast(DOMAIN cache, Size + 1)
  /\ \A p \in Callers :
       /\ \A a \in served[p].addrs : ~Blocked(a)
       /\ served[p].addrs # {} => served[p].err = "none"

\* get and put: what DNS said is told to nobody once it is older than its
\* lifetime and the time its goroutine may take to store it, in whatever order
\* overlapping lookups store; a failure or a refusal only for the shorter one.
ServedFresh ==
  \A p \in Callers : served[p].age <= Lag + (IF served[p].err = "none" THEN TTL ELSE NegTTL)
=============================================================================

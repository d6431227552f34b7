# Models of the email verifier

TLA+ specifications of `email-verifier` (`verifierd`), written from its source,
with the TLC runs that check them and TLAPS proofs about all of them. Every safety
property of the passing runs is also a theorem. `PROJECT.json` lists every run, the source lines behind every
definition, the hazards, the findings and the theorems.

## The system

`verifierd` asks receiving mail servers whether mailboxes exist. It opens an
SMTP session, gives a sender and recipients, and hangs up before any message.
Several nodes may run at once and share one Redis. Around this:

| Part | State | Operations | Shared with |
| --- | --- | --- | --- |
| token bucket (`limiter`) | a Redis hash per key: tokens, time, expiry | `Take` (one script) | all nodes |
| session leases (`limiter`, `pacer`) | a Redis sorted set per key | `AcquireSession`, `Release` | all nodes |
| pacer (`pacer`) | an entry per key in memory; rate, pause, band and proposal in Redis | `Acquire`, `Observe`, `PauseKey`, `ResumeKey`, `Promote`, eviction | workers of a node; nodes through Redis |
| stand-down guard (`standdown`) | a sorted set of refusing hosts; its own record in memory | `Observe`, `Resume` | sessions of a node, operator |
| classification (`prober/classify.go`) | none | `ClassifyAs` | prober, relay |
| prober (`prober`) | one request: queue of groups, session, results | `probe` | pacer, leases, IP health |
| relay (`relay`) | items, ready list, retry set, dead list in Redis | `Accept`, `DeliverNext` | callers, drainers |
| IP health (`iphealth`) | zones, verdict, complaints in memory; a key in Redis | `SelfTest`, `Check`, `Resume`, `ObserveComplaint` | prober, relay, operator |
| suppression (`suppress`) | a set, a version and a stamp in Redis | `Import`, `Suppressed`, `Stale` | prober, relay, the exporter |
| Redis client (`redis`) | a pool of connections, replies under way | `Do`, `Run`, `Close` | all goroutines of a node |
| resolver (`resolver`) | a cache of vetted answers and refusals | `Resolve` | all requests of a node |
| MX simulator (`mxsim`) | per-address rates and cooldowns, sessions, a profile | SMTP commands; `Reset`, PUT, chaos | clients, operators |
| API, config, metrics | see "Not modelled" | | |

What makes it hard: every Redis command is a step of its own and may fail, or
run and lose its reply; nodes read their clocks before the command that uses
them runs; state is copied under a lock and written to Redis after it; an entry
is read from Redis before the lock is taken; processes restart; a receiver may
cut a session anywhere; and operators resume, promote and import while all this
goes on.

What must hold: the limits on rate and on connections are kept over all nodes;
the pace stays inside its band and below what was earned; a pause is kept; a
refusal of the client is never a verdict about a mailbox; every address of a
request is answered; a caller of Redis reads the reply to its own command; only
vetted addresses are dialled; an accepted message is neither lost nor duplicated;
the node is stood down by a real listing only; a suppressed address is not
mailed.

## Modules

Each component module has its `MC` module of the same name with `.cfg` files.

- **TokenBucket**: `token_bucket.lua` and `Take`. `bucket` is the hash, `call`
  the calls whose clock has been read and whose script has not run: `MaxLag` is
  how late a call may be. `Run` is the whole script. `win` is an observer that
  opens an interval at any moment (`OpenWindow`) and adds up the grants in it.
- **SessionLease**: `lease.lua`, `Release` and `AcquireSession`, and the part
  of a session that matters to its lease: waiting for a token, dialling address
  after address, talking, hanging up. A caller may die, a grant or a release may
  be lost. Times are kept as time remaining, so the state space is finite.
- **SessionSlots**: what the leases promise, a counting semaphore.
- **Pacer**: one key on several nodes. `mem[n]` is the entry of node `n`,
  `saved` what Redis holds. `stateFor` is a read of the band, a read of the rate
  and an insert; `Observe` is the update and snapshot under the lock, then the
  two writes; `Promote` and `PauseKey` are split at their writes too.
- **StandDown**: `Observe` as `ZADD`, `ZREMRANGEBYSCORE`, `ZCARD`, `PauseKey` and
  the record; `Resume` as its three effects.
- **Classify**: the rules of `ClassifyAs` and `classifyPermanent` in their order.
  A reply is a code, an enhanced code and the set of hint lists its text matches.
- **Probe** (extends Classify): one request, with the addresses still to ask, the
  session, the results and what was seen of the receiver. Replies come from a set
  of classified ones; Redis, DNS and the network may refuse at each step. The groups
  of a queue or a session are a set of addresses: `mergeGroups` leaves one group per
  domain, and the API takes an address only under its own domain, so the groups can
  be told from the addresses. Which domain `takeSession` begins with and which
  address is asked next is left open, where the code goes by the order of the
  request; what is proved holds in every order.
- **Relay**: the queue command by command, `DeliverNext` of several drainers, and
  the outcomes of an SMTP session, the unheard final reply among them.
- **IPHealth**: the self-test with its second opinion, rounds zone by zone, the
  operator's resume, complaints, restarts. The nature of a zone (a list, a list
  with a bad entry, refused, answering everything) is part of the world.
- **Suppress**: imports command by command, and the relay's gate with its reads.
- **RedisClient**: `Do`, `Run`, `get`, `put` and `Close` of many goroutines. A
  connection has what was sent and not yet executed (`sent`) and what was answered
  and not yet read (`wire`). A deadline may pass at any step, the server may drop a
  connection or restart, and it may execute what it was sent after the client has
  closed the connection. `Run` is `EVALSHA`, and on `NOSCRIPT` a second `Do`.
- **RedisCalls**: what the other modules assume of a command. A call that returns a
  value was executed, once; one Redis rejected was not; one that failed may have
  been, or may be later. It is the abstract specification of RedisClient.
- **Resolver**: `Resolve` with its cache, the eviction of `put`, and the guard, for
  overlapping lookups that DNS answers differently, late, or not at all.
- **MxSim** (extends Classify): the simulator's policy engine (`ips`, `stats`), the
  SMTP sessions (`sess`) and the admin operations. A chaos request is three steps,
  as in `admin.go`: set the chaos, copy the profile, write it back. `prune` drops the
  leading times that are out of the window, as the loop in `engine.go` does. `obs` is
  the observer: which RCPTs passed when, who asked for whom first and how long ago,
  what was PUT last, which addresses a `Reset` crossed. What a session was told last
  is forgotten when a new profile or a `Reset` takes away what made it true. Every reply has the code and the wording of the shipped profiles and is
  read by `ClassifyAs`, so simulator and prober are checked against each other.

**Counting** says that a set has at least so many members, without cardinalities;
StandDown's threshold, the resolver's full cache, the size of a session in Probe and
a condition of Pacer use it.

They are joined where one component's promise is another's assumption. Probe
takes a lease and tokens as answers SessionLease and TokenBucket describe;
StandDown's `PauseKey` is the operation whose two halves Pacer models; Relay's
gate answers `allow`, `suppressed` or `unvouched`, which Suppress computes; and
Relay's `Burn` and `Clear` are the verdict of IPHealth. A Redis command in Relay,
Pacer, StandDown and Suppress runs, fails, or runs and fails, which is RedisCalls
except that a failed command is not executed later than the step that failed.
MxSim's replies are classified by the rules Probe uses.

## What the runs show

Every run of a module starts from a set of *environments*: records that say
which workers there are, whether Redis commands may fail, whether processes
restart, what the operator does, and, for Probe, which request arrives under
which options. `Init` picks one, nothing changes it, and a property that the
code keeps only in some of them names the condition (`Alone`, `Steady`,
`Orderly`). Where the exception is one particular interleaving, an observer
`crossed` records that it has happened and the property speaks of all other
behaviours.

Runs that pass:

| Run | Properties | States | Bounds |
| --- | --- | --- | --- |
| `TokenBucket_late` | `GrantsWithinCredit` | 107k | 2 callers, up to 2 ticks late, 7 ticks |
| `SessionLease_leases` | `LeaseCoversSession`, `SlotsSpec`, `TimesOutOnlyBehindOthers`, `LeasesReclaimed` | 359k | 2 calls, 1 slot, 2 addresses to dial, `LeaseWait` = `TTL` |
| `Pacer_paced` | `RateWithinBand`, `EarnedRate`, `PausePersisted`, `StandDownKeptAlone` | 920k | 2 workers with failures and restarts; 2 nodes with an operator who promotes; 1 worker with everything |
| `Probe_request` | `EveryAddressAnswered`, `VerdictOnlyFromRCPT`, `PacerHears`, `LeasedAndPaid`, `AskedAgainOnlyUngrouped`, `MixedAnswersCondemnHost`, `Terminates` | 749k | 4 requests of up to 3 domains and 3 addresses, 7 replies |
| `StandDown_guard` | `StoodIsPaused`, `RuleBHasEvidence` | 1.8M | 2 sessions, 2 hosts, 5 ticks, failures, resumes |
| `Relay_faults` | `OneCopy`, `SentOnce`, `WaitingHasBody`, `KeptWhileSteady`, `Settles` | 291k | 2 messages with 2 drainers and 2 attempts or 1 and 3, in calm; 1 message with 2 drainers and 3 attempts, 2 messages with 1 drainer and 2, with faults |
| `IPHealth_standing` | `BurnedOnlyByListing`, `SpikeStopsSending`, `KeyIsLastVerdict`, `ListingNotIgnored` | 477k | 2 zones of every nature, complaints over a window of 2 |
| `Suppress_imports` | `AddedNotSent`, `VersionIsWhole`, `ReplaceIsExact` | 729k | 2 imports at once that add; up to 3 exports one after the other |
| `RedisClient_pool` | `PoolSound`, `CallsSpec` | 675k | 2 goroutines, 2 calls each, pool of 1, 2 connections, 1 fault of the server |
| `Resolver_cache` | `OnlyVetted`, `ServedFresh` | 969k | 2 callers, 3 hosts, cache of 2, lifetimes 2 and 1, timeout 1, answers up to 1 tick late |
| `MxSim_served` | `SessionOrder`, `OpenCounted`, `RcptRateKept`, `VerdictsTrue`, `ReadAsMeant`, `CooldownEnds` | 141k | 8 profiles, up to 3 connections of 2 addresses, windows of 2 ticks |

Each module's type invariant is part of one of these properties, or proved
(TokenBucket, SessionLease).

Two of everything that races is enough for each pairwise order, and a third
export is there because the property needs one (an import after a truncated
one). Three hosts share the two entries of the resolver's cache, so that entries
are evicted while a lookup is under way, and both connections of the Redis client
can be open while the pool holds one. A request of the prober has three domains, so
that the two a receiver refused could be grouped once more. Time bounds are longer than the longest wait
in each model; in StandDown they are long enough for a pause to end and for
refusals to leave the window. `MaxTime`, `MaxCalls`, `MaxDrops` and the numbers of
exports and of complaints are the only artificial bounds. Deadlock is checked
except in StandDown (the clock stops at `MaxTime`) and RedisClient (the callers
have made their calls). Symmetry is used only in runs without liveness properties.

One run ends in a violation, where the program does something else than its own
comment says (quoted under `findings`): in `Relay_unvouched` an accepted message is
removed because the suppression list is stale when the message is to be sent.

### What the conditions leave out

The conditions on the properties above are there because the code does not keep
the property without them. What each one excludes, as seen in the models:

- `GrantsWithinCredit` has the term `win.rewound`: a late call stores its older
  clock reading and the seconds in between are refilled a second time.
- `LeaseCoversSession` needs `LeaseOutlivesSession`. `config.go` compares the
  lease with `probe.timeout` alone, and a session that dials two addresses lasts
  longer than one timeout.
- `PausePersisted` is for a worker alone (`Alone`): of two workers of a node the one
  with the older snapshot may write last, and a Resume may delete from Redis a pause
  that was set after it had cleared the entry.
- `EarnedRate` excludes failures and restarts: when the saved rate cannot be read the
  entry starts at the ceiling of its band. It also asks that a rate is saved before the
  first proposal (`SavedFirst`): a proposal takes `PromoteAfter` clean answers, and with
  as many workers of a node all between observing and saving, the operator may promote
  the band while Redis has no rate, and another node starts at the new ceiling. The
  default of `PromoteAfter` is 500, far above the sessions a node has with one key.
- `StandDownKeptAlone` is for a worker alone: a throttle observed by a session
  under way writes its own, shorter pause over the one `PauseKey` set
  (`pacer.go:417`), and a Resume may cross the stand-down on its way to Redis.
- `RuleBHasEvidence` counts refusals within `Reach`. An `Observe` that takes longer
  than the window lets a refusal be counted that is as old as two Observes: the cutoff
  is computed from the time the Observe began.
- `PacerHears` leaves out what is not reported: a connection lost or timed out in
  answer to an RCPT has the class of a throttle and the pacer does not hear of it;
  of a domain refused as relay beside another the guard does not; nor does it of a
  421 of class policy (one that asks for TLS) that ends a session between two
  domains, where `prober.go:1191` calls `observe` and not `refused`.
- `StoodIsPaused` excludes a resume between `PauseKey` and the guard's record of
  it, after which the guard believes in a pause that was lifted.
- `KeptWhileSteady` excludes restarts: after `RPOP` the message is in no list.
- `KeyIsLastVerdict` excludes a round and a resume that write verdict and key in
  opposite orders, and failing writes.
- `AddedNotSent` and `ReplaceIsExact` exclude what a replacing import does to a
  concurrent check, to another import, and when it fails after its `DEL`.
- `OpenCounted` speaks of addresses no `Reset` has crossed: a reset with open
  connections forgets them, and `active` and `MaxConcurrentSeen` are too small
  until they are closed. `RcptRateKept` excludes a PUT between the two halves of a
  chaos request, which writes the older profile back.
- `ServedFresh` allows the time `Lag` a goroutine may take to store its answer, from
  when the lifetime runs: of two lookups of a host the slower one may store last,
  and its older answer is the one kept. There is no single flight, and a caller that
  is cancelled stores its own cancellation as a failure, which everybody is served
  for `NegTTL`.

### What the models make visible

Consequences of the code that a reader may not expect; the first three of the
prober and the relay differ from the comment beside them.

- A command that failed may still be executed, after its caller has been told
  (`RedisCalls`). Scripts are safe against it where they read the time they are
  given; a late `LPUSH` or `SET` is not undone.
- `readValue` stops at an error inside an array and leaves the other elements
  unread on a connection that is then pooled. No command the service sends is
  answered that way; RedisClient assumes so.
- A reply of class policy is observed by the pacer, as a clean one
  (`prober.go:1237`; "It never moves the pacer", `prober.go:1240`).
- A domain refused as relay may have further addresses, which are asked about in the
  sessions that follow (`prober.go:1254`; "The refused domain is not asked again").
- A 5xx to a relayed message is retried until its attempts run out (`relay.go:223`;
  "Retrying spends the IP's standing on a question already settled").
- `Promote` takes the proposal's ceiling and the band as they were when it read them,
  so it undoes a band set in between, and it drops the entry of its own node only
  (`pacer.go:510`, `pacer.go:523`).
- An over-quota 452 whose text has a throttle hint is a throttle, and a 5xx that asks
  to slow down, without an enhanced code, condemns the mailbox (`classify.go:362`,
  `classify.go:441`); so does `550 relay not permitted` outside a grouped session.
- `catch_all` is false when every bogus address got an answer and none was accepted,
  whatever the refusals said (`prober.go:1419`).
- A lookup that fails counts as "not listed", so a zone that lapses lifts the
  stand-down it caused (`iphealth.go:415`).
- In the simulator, a request for chaos that is answered 400 may have been applied,
  and the greylist survives a new profile.

## Fairness

- `SessionLease_leases`: time passes, and a call that can go on does (its
  goroutine is scheduled, its timers fire). Nothing is asked of a holder: it may
  die at any moment.
- `Probe_request`: the session goes on, since every read, write and dial has a
  deadline. Which outcome a step has is free.
- `Relay_faults`: a drainer that can go on does, and its loop, which runs on a
  ticker, starts a delivery again and again (strong fairness, because being
  stood down disables it in between); time passes. `WF(Clear)` assumes of the
  world that the node does not stay stood down for ever: without it nothing is
  sent, which is what the code is meant to do.
- `IPHealth_standing`: rounds go on, as `Run` is a ticker loop.
- `MxSim_served`: time passes. A client may stop at any point; what must end is the
  cooldown, not the session.

## Proofs

The proofs hold for every number of nodes, callers, messages, hosts, zones and
connections and every value of the limits and times within the named assumptions,
and for every set of environments.

| Module | About |
| --- | --- |
| `PaceProofs` | TokenBucket, IPHealth |
| `PacerProofs` | Pacer |
| `ProbeProofs` | Probe, StandDown |
| `GateProofs` | Suppress, Resolver |
| `SessionLeaseProofs` | SessionLease, SessionSlots |
| `RelayProofs` | Relay |
| `RedisClientProofs` | RedisClient, RedisCalls |
| `MxSimProofs` | Classify, MxSim |

Where a module is about two components, no theorem is about both: IPHealth, Resolver
and StandDown prefix the names of their specification (`HealthSpec`, `ResolverSpec`,
`GuardSpec`) so that they can be extended beside another. Every safety invariant is
proved along the same lines: an invariant `IInv` (`GuardInv`, `ResolverInv`,
`HealthIInv`, `ProbeInv`) that holds initially, a lemma per action that the action keeps it, and
a lemma that it implies the property. TLC has checked each of them on the instance of
the run before it was proved.

Each module begins with the fact `Untyped`, about an update of a one-field record, and
makes it usable in every step. It says nothing about the system: with a record update
among its facts tlapm's SMT backend does not try to infer types, which for records as
large as these takes longer than the proof.

**Token bucket.** `TypeCorrect`; `CreditBound`: `Spec => []GrantsWithinCredit`;
`RateBound`: the same for `GrantsWithinRate` when `MaxLag = 0`. The invariant
is about an interval in the past, so it is not inductive: `CreditInv` adds to
the grants of the interval what is still in the bucket and what it may yet
refill, and `ExpiryInv` says that a bucket Redis forgets would have been full.
The latter rests on `ExpiryAssumption`, that an idle bucket refills before its key
expires. `RefillBound` and the two facts on products carry the arithmetic.

**Session leases.** `TypeCorrect` and `NeverWedged` (`LeaseWait >= TTL`, which
the default configuration satisfies: 60 s and 50 s) rest on `IInv`: what is held
has a score within the lease time (`HeldInv`), the key lives at least as long as
its members (`KeyInv`), and a call that waits with no competitor seen waits
for scores that run out before its deadline (`BlameInv`, `BoundInv`).
`LeaseCovers`, `WithinLimit` and `Refinement` (`Spec => SlotsSpec`) are under
`LeaseOutlivesSession`, and add `LiveInv`: leases of live sessions are distinct,
and each is in the set with more time left than its session can still take
(`CoverInv`). `MaxHold` is that longest session. With a smaller `TTL` two
connections are open where one is allowed, so the hypothesis is needed.

**Reply classification** (in `MxSimProofs`). `InvalidIsCondemned`: `ClassifyAs`, with
its rules tried one after the other, says `invalid` exactly for the replies
`Condemns` describes without an order; `ThrottleIsSlow` is the same for what the
pacer counts as a throttle; `BeforeRCPTNoVerdict`: no reply before RCPT is a verdict.

**Pacer.** `PacerRateWithinBand`, `PacerEarnedRate`, `PacerPausePersisted` and
`PacerStandDownKeptAlone`. A rate in an entry came from Redis, from another worker's
snapshot or from an answer, so `BandInv` says of every band and rate on one of these
ways what `RateWithinBand` says of an entry: what is saved, proposed, read and not yet
inserted, observed and not yet saved, read by `Promote` and not yet written. `EarnInv`
does the same for what was earned. Its difficult half is the time before the first rate is
saved, when a node that loads the key starts at the ceiling of the saved band: then
no band may have been proposed, because each clean answer at the ceiling that an entry
counts belongs to a worker still on its way to Redis (`NothingSaved`), and `SavedFirst`
says there are fewer of those than a proposal needs. `AloneInv` is about the one
worker: the pause in memory is in Redis or is what the worker is about to write, and a
stand-down is in Redis, in the entry, and in an entry dropped from the map that the
worker still holds.

**Prober.** `ProbeAnswersAll` (`EveryAddressAnswered`), `ProbeVerdicts`
(`VerdictOnlyFromRCPT`), `ProbeReports` (`PacerHears`), `ProbeAsksOnce`
(`AskedAgainOnlyUngrouped`), `ProbePaysAndLeases` (`LeasedAndPaid`) and `ProbeCondemns`
(`MixedAnswersCondemnHost`), for any addresses, domains, requests, limits and replies.
The properties speak of results, and most steps give a result to many addresses at
once or hand addresses back. `Told` therefore says of the addresses without a result
that they are those still waiting in the queue or the session, and that such an
address has been asked about only if grouping was refused; a session is grouped only
while nobody has refused it (`Shape`), which is why nobody is asked a third time.
`Paid` counts the token that was taken before the socket and is still there for the
first RCPT. `Settled` relates the verdict of a domain to the answers about its bogus
addresses, with the running counts for the domain being asked about and no verdict for
one that may still be. `ProbeAssumption` asks that every address of a request is under
its own domain, which the API checks, and that the limits the code defaults to one or
more are so.

**Simulator.** `MxSessionOrder`, `MxOpenCounted`, `MxRateKept`, `MxVerdictsTrue` and
`MxReadAsMeant`, for any number of addresses and connections and any profiles, from
one invariant. `Orderly` and `Tallied` are the first two, with what makes them
inductive: the profile in force differs from one of the environment's in its chaos
only (`Ruled`), also while a chaos request holds a copy of it. `RcptRateKept` is about
the RCPTs that passed, and the engine decides by the times it remembers, refused RCPTs
among them and old ones pruned. `Limiting` says that each RCPT that passed is covered:
the engine remembers one at least as new in its place (`Covered`), so a count over its
times bounds the count over those that passed. The lemmas on times (`StampIs`,
`PruneIs`, `RatePassed`, `RateRefused`, `RateAged`) say what remembering, pruning and
ageing do to that; `Timed` has the times in order. `Truth` says that a verdict a session
read is true of its recipient, and `Noted` that the engine has known of an address for
no longer than since the observer saw it ask, which greylisting turns on.
`MxSimAssumption` gives the profiles their types and makes the depth to which times are
kept exceed every rule's count; `MeantAssumption` asks of the profiles that the reply
to a recipient that is taken reads as valid, the one to a recipient that is not does
not, and the others are no verdicts. TLC evaluates both for the profiles of the run.
The lemmas are stated under `Library`, the few facts on cardinalities and least
elements they use, and `LibraryHolds` proves it from the library's theorems where the
lemmas come together.

**Stand-down guard.** `StandDownStoodIsPaused` and `StandDownRuleBHasEvidence`
(an action property: what is true when rule B stands a key down). The guard's record
and the pause are written by two steps and lifted by two others; `StandInv` says of
every session between its two that the pause reaches what it is about to record.
`CountInv` says of every session between dropping old refusals and counting that no
other session has put an older one back in the meantime than `Reach` allows.

**Resolver.** `ResolverOnlyVetted` and `ResolverServedFresh`. An entry is vetted when
it is stored, its age and the rest of its lifetime never exceed lifetime and lag
(`CacheInv`), and an answer not yet stored is no older than the lag (`InTime`). That
evicting makes room for one more is `EvictionsMakeRoom`.

**Suppression.** `SuppressAddedNotSent`, `SuppressVersionIsWhole`,
`SuppressReplaceIsExact`. While imports only add, what an import has done of its export
is on the copy for good (`AddInv`), which carries over to the version, to what was
answered, and to each read of the gate. With one importer the copy is at every moment
what the exports since the last replace say but for what is still to do (`Exact`).

**IP health.** `IPHealthBurnedOnlyByListing`, `IPHealthKeyIsLastVerdict`,
`IPHealthSpikeStopsSending`. No zone that passed the self-test refuses or answers
everything, whichever lookups failed (`TestInv`); a round finds only such zones
(`RoundInv`); somebody still owes the key the last verdict, or it is there
(`LatestKeyInv`); and the complaints kept are those of the whole history that still
count (`SpamInv`).

**Relay.** `MessageInOnePlace` (`OneCopy`), `NotSentTwice` (`SentOnce`),
`BodyBeforeId` (`WaitingHasBody`) and `SteadyKeeps` (`KeptWhileSteady`), from one
invariant. `OneCopy` alone is not inductive: a drainer that holds a message must know
that it is in no list, and that depends on where each step of the delivery is. So
`Apart` keeps the places of a message apart pairwise, `Stored` says what is stored for
it at each of them, `Counted` that a message the server was heard to take is on its
way out, and `Settled` that what is done with was delivered or suppressed. The proofs
use `RelayAssumption` and `BackoffGrows`, that the delays of the back-off do not
shrink: a fact about powers of two, which TLC evaluates and the provers, who know
nothing of `^`, cannot prove.

**Redis client.** `PoolStaysSound`: `Spec => []PoolSound`; `Implements`:
`Spec => CallsSpec`. `PoolSound` says nothing about a connection in use, so the
invariant follows a command along its connection: who holds which (`Owned`), at most
one request or reply under way (`Single`), belonging to the Do that holds the
connection or to one that has failed and not executed yet (`Asked`), a reply that is
true (`Answered`), and what each caller has been told (`Told`). That a reply on the
wire is the holder's own is what makes `Reply` a step of RedisCalls; that a request of
a closed connection has failed is what makes a late execution one.
`RedisClientAssumption` asks for a pool of at least one connection, which
`Options` defaults to.

Only model-checked: the liveness properties (`LeasesReclaimed`, `Terminates`, `Settles`,
`ListingNotIgnored`, `CooldownEnds`), since the provers have no rule for fairness. The
violation of `Relay_unvouched` is TLC's alone, too.

`SavedFirst`, the absence of a Resume in `Alone`, and `Reach` were found by attempts to
prove the properties without them; TLC shows the counterexample on a small instance
each time. The attempt to prove `VerdictsTrue` found that a `Reset` makes the engine
forget who asked while a session may still hold a verdict that rested on it, and the
one for `PacerHears` the 421 between two domains.

## Not modelled

- Reading of replies and of retry hints (`reply.go`, `retry.go`), encoding of Redis
  values, DKIM, message building, log redaction: formatting and parsing of strings
  without state. The models take what they yield as inputs.
- The HTTP API beyond the handlers above, configuration files, metrics, MX
  profiles, pace families: no state of their own that anything decides on.
- `ObservePolicy` of IP health, a gauge.
- `MX` of the resolver, which sorts the hosts of one answer and keeps nothing.
- In the simulator: loading of profiles, the transcript, the rendered statistics,
  and the shutdown of the listener (`Serve` registers it after `Shutdown` may have
  looked).
- A script of Redis that fails half-way counts as rejected.

What is left of the source is of these kinds: statements that build objects, read
files, render JSON or count. A model of them would have no step that another actor
can come between.

## Plan

1. Composition: Pacer with SessionLease and Probe on one key; Relay with Suppress and
   IPHealth in place of their answers; StandDown with Pacer.
2. Abstract specifications: a message queue that Relay refines in the absence of
   restarts; a set that Suppress refines when it only adds.

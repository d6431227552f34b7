------------------------------- MODULE Probe -------------------------------
(***************************************************************************)
(* One probe request against one MX: internal/prober's probe, probeDomains *)
(* and session.  The addresses of several domains are packed into sessions;*)
(* each session takes a lease, a token and a connection, speaks SMTP, and  *)
(* leaves one result per address or hands addresses back to be asked again.*)
(*                                                                         *)
(* The groups of a queue or a session are a set of addresses: mergeGroups  *)
(* leaves one group per domain, and the API accepts an address only under  *)
(* its own.  Which group comes next, and which of its addresses, is left   *)
(* open; the code goes by the order of the request.                        *)
(*                                                                         *)
(* A single-domain request is a request of one group: chunks and           *)
(* takeSession split it the same way.  Redis, the network and the receiver *)
(* answer as they like.  Observe and OnRefusal are kept as what they told  *)
(* the pacer and the stand-down guard (Pacer and StandDown model those).   *)
(***************************************************************************)
EXTENDS Classify, Counting

CONSTANTS
  Addrs, Domains,
  domainOf,      \* each address's domain
  NoDomain,
  Replies,       \* what the receiver may say
  Environments   \* the requests and the configurations they meet

VARIABLES
  env,       \* the request and the configuration
  phase,     \* where the request, or the session it runs, has got to
  queue,     \* addresses still to be asked about
  s,         \* the session
  results, verdicts,
  known,     \* the host is remembered as a randomiser
  fallen,    \* grouping is off for this family on this node
  refused,   \* a receiver refused grouping in this request
  tokens,    \* taken from the bucket
  told,      \* what the pacer and the guard have heard: throttle, refusal
  seen       \* observer: per address the RCPTs sent, and the bogus answers

vars == <<phase, queue, s, results, verdicts, known, fallen, refused, tokens,
          told, seen>>

Request      == env.request        \* of [domain, addrs, need], as it was sent
Suppressible == env.suppressible   \* addresses the suppression list may hold
maxRCPT      == env.maxRCPT
MultiDomain  == env.multiDomain    \* the family is cleared for grouping
Named        == env.named          \* it has a name to remember a fallback by
policyStop   == env.policyStop
policyStopMax == env.policyStopMax
WantStop     == env.wantStop       \* what the request asks for
catchAllProbes == env.catchAllProbes
auditProbes  == env.auditProbes
Audit        == env.audit          \* audit samples are drawn

NetErrors == {"timeout", "conn_error"}
Classes == {"none", "valid", "invalid", "deferred", "throttled", "policy",
            "bad_sequence", "unknown", "guarded", "no_budget", "paused",
            "ip_burned", "suppressed", "tls_failed"} \cup NetErrors
Opt == {"nil", "yes", "no"}     \* a *bool

ASSUME ProbeAssumption ==
  /\ domainOf \in [Addrs -> Domains] /\ NoDomain \notin Domains
  /\ Replies \subseteq Reply
  /\ \A e \in Environments :
       /\ {e.maxRCPT, e.catchAllProbes} \subseteq Nat \ {0}
       /\ {e.policyStop, e.policyStopMax, e.wantStop, e.auditProbes} \subseteq Nat
       /\ {e.multiDomain, e.named, e.audit} \subseteq BOOLEAN
       \* The API accepts an address only under its own domain.
       /\ \A g \in e.request :
            g.need \in BOOLEAN /\ g.addrs \subseteq {a \in Addrs : domainOf[a] = g.domain}

NoResult  == [class |-> "none", accepted |-> "nil", connected |-> FALSE,
              catchAll |-> "nil", randomiser |-> "nil"]
NoVerdict == [catchAll |-> "nil", randomiser |-> "nil"]
NoSession == [todo |-> {}, batch |-> {}, at |-> NoDomain, ask |-> {},
              grouped |-> FALSE, first |-> TRUE,
              asked |-> 0, run |-> 0, skipTLS |-> FALSE, held |-> FALSE,
              conn |-> "none", bogus |-> 0, accepted |-> 0, audit |-> FALSE]

Init ==
  /\ env \in Environments
  /\ phase = "start" /\ queue = {} /\ s = NoSession
  /\ results = [a \in Addrs |-> NoResult]
  /\ verdicts = [d \in Domains |-> NoVerdict]
  /\ known \in BOOLEAN /\ fallen \in {FALSE, MultiDomain /\ Named}
  /\ refused = FALSE /\ tokens = 0
  /\ told = [throttle |-> FALSE, refusal |-> FALSE]
  /\ seen = [asks |-> [a \in Addrs |-> 0],
             bogus |-> [d \in Domains |-> {}], questions |-> 0]
-----------------------------------------------------------------------------
(* The request: mergeGroups, unsuppressed, takeSession *)

Requested    == UNION {g.addrs : g \in Request}
NeedCatchAll == {g.domain : g \in {h \in Request : h.need}}

Of(as, d)     == {a \in as : domainOf[a] = d}
DomainsOf(as) == {domainOf[a] : a \in as}

\* The suppressed addresses are refused first; an unreadable list refuses none.
Start(hit) ==
  /\ phase = "start" /\ hit \subseteq Requested
  /\ results' = [a \in Addrs |->
       IF a \in hit THEN [NoResult EXCEPT !.class = "suppressed"] ELSE NoResult]
  /\ queue' = Requested \ hit
  /\ phase' = IF hit = Requested THEN "done" ELSE "take"
  /\ UNCHANGED <<s, verdicts, known, fallen, refused, tokens, told, seen>>

grouping == MultiDomain /\ ~fallen /\ ~refused
Fits(as) == ~AtLeast(as, maxRCPT + 1)

\* takeSession: whole domains up to the limit when grouped, otherwise one; a
\* domain larger than the limit is split.
Batches(d) ==
  LET head    == Of(queue, d)
      with(D) == {a \in queue : domainOf[a] \in D}
      others  == DomainsOf(queue) \ {d}
  IN  IF ~Fits(head) THEN {as \in SUBSET head : Fits(as) /\ AtLeast(as, maxRCPT)}
      ELSE IF ~grouping THEN {head}
      ELSE {with(D \cup {d}) : D \in {E \in SUBSET others :
              /\ Fits(with(E \cup {d}))
              /\ E = others \/ \E e \in others \ E : ~Fits(with(E \cup {d, e}))}}

TakeSession(d) ==
  /\ phase = "take"
  /\ \E batch \in Batches(d) :
       /\ queue' = queue \ batch
       /\ s' = [NoSession EXCEPT !.todo = batch, !.batch = batch, !.at = d,
                  !.grouped = (DomainsOf(batch) # {d}),
                  !.ask = {e \in DomainsOf(batch) \cap NeedCatchAll :
                             ~known /\ verdicts[e] = NoVerdict}]
  /\ phase' = "health"
  /\ UNCHANGED <<results, verdicts, known, fallen, refused, tokens, told, seen>>
-----------------------------------------------------------------------------
(* The end of a session: its connection closed, its lease given back *)

NonAnswer(class) == [NoResult EXCEPT !.class = class]
Mark(res, as, class) ==
  [a \in Addrs |-> IF a \in as THEN NonAnswer(class) ELSE res[a]]

\* After the plaintext rerun, what it could not reach ends tls_failed.
AfterRerun(res) ==
  [a \in Addrs |->
     IF /\ s.skipTLS /\ a \in s.batch
        /\ ~res[a].connected /\ res[a].class \in NetErrors
       THEN [res[a] EXCEPT !.class = "tls_failed"] ELSE res[a]]

\* The addresses left over are not put back.
CloseForgets(res, rest) ==
  /\ results' = AfterRerun(res)
  /\ refused' = (refused \/ rest # {})
  /\ phase' = "take" /\ s' = NoSession
  /\ UNCHANGED <<queue, known>>

\* What was not asked is put back, whatever ended the session.
CloseRequeues(res, rest) ==
  /\ results' = AfterRerun(res)
  /\ queue' = s.todo \cup queue
  /\ refused' = (refused \/ rest # {})
  /\ phase' = "take" /\ s' = NoSession
  /\ UNCHANGED known

Close(res, rest) ==
  /\ results' = AfterRerun(res)
  /\ queue' = rest \cup queue
  /\ refused' = (refused \/ rest # {})
  /\ phase' = "take" /\ s' = NoSession
  /\ UNCHANGED known

\* fail: the same non-answer for every address of the session.
Fail(class) == Close(Mark(results, s.batch, class), {})

\* unattempted: the addresses not asked yet come back with no answer.
Unattempted(res, todo, class) == Close(Mark(res, todo, class), {})

\* regroupFrom: grouping is off, and what is left goes again.
RegroupFrom(res, todo) ==
  /\ Close(res, todo)
  /\ fallen' = (fallen \/ (MultiDomain /\ Named))

\* A deferral is reported as a throttle.
TellDeferred(class) ==
  told' = [throttle |-> told.throttle \/ IsThrottleOrDeferred(class),
           refusal  |-> told.refusal \/ class = "policy"]

\* observe and refused.
Tell(class) ==
  told' = [throttle |-> told.throttle \/ IsThrottle(class),
           refusal  |-> told.refusal \/ class = "policy"]
-----------------------------------------------------------------------------
(* Before the first RCPT *)

Before == {"health", "resolve", "lease", "token", "dial"}
After  == [health |-> "resolve", resolve |-> "lease", lease |-> "token",
           token |-> "dial", dial |-> "banner", banner |-> "ehlo",
           ehlo |-> "starttls", ehlo2 |-> "mail", mail |-> "rcpt"]
Refusals == [health |-> {"ip_burned"}, resolve |-> {"guarded"} \cup NetErrors,
             lease |-> {"paused", "no_budget"}, token |-> {"paused", "no_budget"},
             dial |-> NetErrors]

Prepare ==
  /\ phase \in Before
  /\ phase' = After[phase]
  /\ s' = [s EXCEPT !.held = @ \/ phase = "lease",
                    !.conn = IF phase = "dial" THEN "open" ELSE @]
  /\ tokens' = IF phase = "token" THEN tokens + 1 ELSE tokens
  /\ UNCHANGED <<queue, results, verdicts, known, fallen, refused, told, seen>>

NotPrepared(class) ==
  /\ phase \in Before /\ class \in Refusals[phase]
  /\ Fail(class)
  /\ UNCHANGED <<verdicts, fallen, tokens, told, seen>>

Expected == [banner |-> 220, ehlo |-> 250, ehlo2 |-> 250, mail |-> 250]

Greeted ==
  /\ phase \in DOMAIN Expected
  /\ phase' = After[phase]
  /\ UNCHANGED <<queue, s, results, verdicts, known, fallen, refused, tokens,
                 told, seen>>

TurnedAway(r) ==
  /\ phase \in DOMAIN Expected /\ r.code # Expected[phase]
  /\ Fail(beforeRCPT(r))
  /\ Tell(beforeRCPT(r))
  /\ UNCHANGED <<verdicts, fallen, tokens, seen>>

Dropped(class) ==
  /\ phase \in DOMAIN Expected /\ class \in NetErrors
  /\ Fail(class)
  /\ UNCHANGED <<verdicts, fallen, tokens, told, seen>>

\* Not asked (a rerun, not offered, known broken) or refused: plaintext.
StayPlain ==
  /\ phase = "starttls"
  /\ phase' = "mail"
  /\ UNCHANGED <<queue, s, results, verdicts, known, fallen, refused, tokens,
                 told, seen>>

Upgrade ==
  /\ phase = "starttls" /\ ~s.skipTLS
  /\ phase' = "ehlo2"
  /\ UNCHANGED <<queue, s, results, verdicts, known, fallen, refused, tokens,
                 told, seen>>

\* The lease is kept for the rerun.
HandshakeFailsHolding ==
  /\ phase = "starttls" /\ ~s.skipTLS
  /\ s' = [s EXCEPT !.skipTLS = TRUE, !.conn = "none"]
  /\ phase' = "health"
  /\ UNCHANGED <<queue, results, verdicts, known, fallen, refused, tokens,
                 told, seen>>

\* The connection is closed, the lease released, and the session run again in
\* plaintext under a lease of its own.
HandshakeFails ==
  /\ phase = "starttls" /\ ~s.skipTLS
  /\ s' = [s EXCEPT !.skipTLS = TRUE, !.conn = "none", !.held = FALSE]
  /\ phase' = "health"
  /\ UNCHANGED <<queue, results, verdicts, known, fallen, refused, tokens,
                 told, seen>>
-----------------------------------------------------------------------------
(* The RCPTs of the current domain *)

Current  == Of(s.todo, s.at)           \* its addresses not asked about yet
Asking(a) == phase = "rcpt" /\ a \in Current
Foreign  == s.grouped /\ ~s.first      \* a domain other than the session's first

\* policyStopFor: clamped, never rejected.
policyStopFor ==
  LET want    == IF WantStop = 1 THEN 2 ELSE WantStop
      ceiling == IF policyStopMax = 0 THEN policyStop ELSE policyStopMax
  IN  IF WantStop = 0 THEN policyStop
      ELSE IF want > ceiling THEN ceiling ELSE want

\* The first RCPT uses the token taken before the socket.
Ask(a) ==
  /\ tokens' = IF s.asked > 0 THEN tokens + 1 ELSE tokens
  /\ seen' = [seen EXCEPT !.asks[a] = @ + 1, !.questions = @ + 1]

OutOfBudget(class) ==
  /\ phase = "rcpt" /\ Current # {} /\ s.asked > 0 /\ class \in {"paused", "no_budget"}
  /\ Unattempted(results, s.todo, class)
  /\ UNCHANGED <<verdicts, fallen, tokens, told, seen>>

Lost(a, class) ==
  /\ Asking(a) /\ class \in NetErrors
  /\ Ask(a)
  /\ Unattempted(results, s.todo, class)
  /\ UNCHANGED <<verdicts, fallen, told>>

\* The session's first or only domain is handed back like a foreign one.
DomainLimitAnywhere(a, r) ==
  /\ Asking(a) /\ ~relayRefusal(r) /\ domainLimitRefusal(r)
  /\ Ask(a)
  /\ RegroupFrom(results, s.todo)
  /\ UNCHANGED <<verdicts, told>>

\* Not an answer: the receiver will not take this domain beside the others.
DomainLimit(a, r) ==
  /\ Asking(a) /\ Foreign /\ ~relayRefusal(r) /\ domainLimitRefusal(r)
  /\ Ask(a)
  /\ RegroupFrom(results, s.todo)
  /\ UNCHANGED <<verdicts, told>>

rcptResult(class) ==
  [NoResult EXCEPT !.class = class, !.connected = TRUE,
     !.accepted = CASE class = "valid" -> "yes" [] class = "invalid" -> "no"
                    [] OTHER -> "nil"]

\* A foreign domain refused as relay: policy, and not about us.
RelayRefused(a, r) ==
  /\ Asking(a) /\ Foreign /\ relayRefusal(r)
  /\ Ask(a)
  /\ RegroupFrom([results EXCEPT ![a] = rcptResult("policy")], s.todo \ {a})
  /\ UNCHANGED <<verdicts, told>>

\* The reply about one address; enough policy replies in a row end the session.
Answer(a, r) ==
  LET class == ClassifyAs(r)
      res   == [results EXCEPT ![a] = rcptResult(class)]
      run   == IF class = "policy" THEN s.run + 1 ELSE 0
      stop  == policyStopFor > 0 /\ run >= policyStopFor
  IN
  /\ Asking(a) /\ ~(Foreign /\ (relayRefusal(r) \/ domainLimitRefusal(r)))
  /\ Ask(a)
  /\ Tell(class)
  /\ \/ stop /\ Unattempted(res, s.todo \ {a}, "policy")
     \/ /\ ~stop
        /\ results' = res
        /\ s' = [s EXCEPT !.todo = @ \ {a}, !.asked = @ + 1, !.run = run]
        /\ UNCHANGED <<phase, queue, known, refused>>
  /\ UNCHANGED <<verdicts, fallen>>
-----------------------------------------------------------------------------
(* The catch-all question, and the next domain *)

AnyAccepted == \E a \in Of(s.batch, s.at) : results[a].class = "valid"
Answered    == phase = "rcpt" /\ Current = {}

NextGroup ==
  \/ s.todo = {} /\ Close(results, {})
  \/ \E d \in DomainsOf(s.todo) :
       /\ s' = [s EXCEPT !.at = d, !.first = FALSE, !.bogus = 0, !.accepted = 0,
                         !.audit = FALSE]
       /\ phase' = "rset"
       /\ UNCHANGED <<queue, results, known, refused>>

NoCatchAll ==
  /\ Answered /\ ~(s.at \in s.ask /\ AnyAccepted)
  /\ NextGroup
  /\ UNCHANGED <<verdicts, fallen, tokens, told, seen>>

AskCatchAll(audit) ==
  /\ Answered /\ s.at \in s.ask /\ AnyAccepted
  /\ s' = [s EXCEPT !.audit = audit]
  /\ phase' = "bogus"
  /\ UNCHANGED <<queue, results, verdicts, known, fallen, refused, tokens, told,
                 seen>>

Limit == IF s.audit /\ auditProbes > catchAllProbes THEN auditProbes
                                                    ELSE catchAllProbes

\* One bogus RCPT, paid for like any other; a rejected one settles it, unless
\* this is an audit.
BogusAnswer(r) ==
  LET valid == ClassifyAs(r) = "valid" IN
  /\ phase = "bogus"
  /\ tokens' = tokens + 1
  /\ seen' = [seen EXCEPT !.questions = @ + 1,
                          !.bogus[s.at] = @ \cup {ClassifyAs(r)}]
  /\ s' = [s EXCEPT !.bogus = @ + 1, !.accepted = IF valid THEN @ + 1 ELSE @]
  /\ phase' = IF (valid \/ s.audit) /\ s.bogus + 1 < Limit THEN "bogus" ELSE "decide"
  /\ UNCHANGED <<queue, results, verdicts, known, fallen, refused, told>>

\* No budget, or the connection went: the verdict is what has been answered.
BogusCut(sent) ==
  /\ phase = "bogus"
  /\ tokens' = IF sent THEN tokens + 1 ELSE tokens
  /\ seen' = IF sent THEN [seen EXCEPT !.questions = @ + 1] ELSE seen
  /\ s' = [s EXCEPT !.conn = IF sent THEN "dead" ELSE @]
  /\ phase' = "decide"
  /\ UNCHANGED <<queue, results, verdicts, known, fallen, refused, told>>

\* One accepted bogus address is a catch-all, whatever the others said.
decideCatchAllAny(accepted, answered) ==
  IF answered = 0 THEN NoVerdict
  ELSE [catchAll |-> IF accepted > 0 THEN "yes" ELSE "no", randomiser |-> "no"]

decideCatchAll(accepted, answered) ==
  CASE answered = 0 -> NoVerdict
    [] answered > 0 /\ accepted = answered -> [catchAll |-> "yes", randomiser |-> "no"]
    [] answered > 0 /\ accepted = 0        -> [catchAll |-> "no", randomiser |-> "no"]
    [] OTHER                               -> [catchAll |-> "yes", randomiser |-> "yes"]

Decide ==
  /\ phase = "decide"
  /\ verdicts' = IF s.bogus = 0 THEN verdicts
       ELSE [verdicts EXCEPT ![s.at] = decideCatchAll(s.accepted, s.bogus)]
  /\ NextGroup
  /\ UNCHANGED <<fallen, tokens, told, seen>>

\* RSET, then MAIL FROM, for the next domain's transaction.
Between == {"rset", "mail2"}

Opened ==
  /\ phase \in Between /\ s.conn = "open"
  /\ phase' = IF phase = "rset" THEN "mail2" ELSE "rcpt"
  /\ UNCHANGED <<queue, s, results, verdicts, known, fallen, refused, tokens,
                 told, seen>>

NotOpened(class) ==
  /\ phase \in Between /\ class \in NetErrors
  /\ Unattempted(results, s.todo, class)
  /\ UNCHANGED <<verdicts, fallen, tokens, told, seen>>

\* A throttle ends the session; any other refusal is a refusal of grouping.
Reopened(r) ==
  LET class == beforeRCPT(r) IN
  /\ phase \in Between /\ s.conn = "open" /\ r.code # 250
  /\ \/ /\ r.code = 421 \/ IsThrottle(class)
        /\ told' = [told EXCEPT !.throttle = @ \/ IsThrottle(class)]
        /\ Unattempted(results, s.todo, class)
        /\ UNCHANGED fallen
     \/ /\ ~(r.code = 421 \/ IsThrottle(class))
        /\ RegroupFrom(results, s.todo)
        /\ UNCHANGED told
  /\ UNCHANGED <<verdicts, tokens, seen>>
-----------------------------------------------------------------------------
(* The end of the request *)

Randomised  == \E d \in Domains : verdicts[d].randomiser = "yes"

\* Verdicts are per domain, but a randomiser condemns the host.  Remembering it
\* is best effort.
Finish(marked) ==
  LET v(a) == IF known \/ Randomised
                THEN [catchAll |-> "yes", randomiser |-> "yes"]
                ELSE verdicts[domainOf[a]]
  IN
  /\ phase = "take" /\ queue = {}
  /\ results' = [a \in Addrs |-> IF a \notin Requested THEN results[a] ELSE
       [results[a] EXCEPT !.catchAll = v(a).catchAll,
                          !.randomiser = v(a).randomiser]]
  /\ known' = (known \/ (Randomised /\ marked))
  /\ phase' = "done"
  /\ UNCHANGED <<queue, s, verdicts, fallen, refused, tokens, told, seen>>

\* Another request on this node is refused grouping by the same family.
FallenElsewhere ==
  /\ MultiDomain /\ Named /\ ~fallen /\ phase # "done"
  /\ fallen' = TRUE
  /\ UNCHANGED <<phase, queue, s, results, verdicts, known, refused, tokens,
                 told, seen>>

Done == phase = "done" /\ UNCHANGED vars

Step ==
  \/ \E hit \in SUBSET Suppressible : Start(hit)
  \/ \E d \in DomainsOf(queue) : TakeSession(d)
  \/ Prepare \/ Greeted \/ StayPlain \/ Upgrade \/ HandshakeFails
  \/ \E class \in Classes :
       \/ NotPrepared(class) \/ Dropped(class) \/ OutOfBudget(class) \/ NotOpened(class)
       \/ \E a \in s.todo : Lost(a, class)
  \/ \E r \in Replies :
       \/ TurnedAway(r) \/ BogusAnswer(r) \/ Reopened(r)
       \/ \E a \in s.todo : DomainLimit(a, r) \/ RelayRefused(a, r) \/ Answer(a, r)
  \/ NoCatchAll \/ Decide \/ Opened
  \/ \E b \in BOOLEAN : \/ (b => Audit) /\ AskCatchAll(b)
                        \/ BogusCut(b) \/ Finish(b)

Next ==
  /\ Step \/ FallenElsewhere \/ Done
  /\ UNCHANGED env

Spec     == Init /\ [][Next]_<<env, vars>>
FairSpec == Spec /\ WF_vars(Step)
-----------------------------------------------------------------------------
\* The request, its session and its results have the shapes the code gives them,
\* and a session never asks about an address that is still queued.
TypeOK ==
  /\ phase \in {"start", "take", "starttls", "rcpt", "bogus", "decide", "done"}
               \cup Before \cup DOMAIN Expected \cup Between
  /\ queue \subseteq Requested /\ s.todo \subseteq s.batch
  /\ s.batch \subseteq Requested \ queue /\ Fits(s.batch)
  /\ results \in [Addrs -> [class : Classes, accepted : Opt, connected : BOOLEAN,
                            catchAll : Opt, randomiser : Opt]]
  /\ verdicts \in [Domains -> [catchAll : Opt, randomiser : Opt]]
  /\ tokens \in Nat /\ {known, fallen, refused} \subseteq BOOLEAN

\* Whatever the receiver refuses, drops or makes the prober ask again, every
\* address of the request ends with a result.
EveryAddressAnswered ==
  phase = "done" => \A a \in Requested : results[a].class # "none"

\* "A rejection of us is never a rejection of the address": only an answer to an
\* RCPT about the address itself makes it valid or invalid.
VerdictOnlyFromRCPT ==
  \A a \in Addrs : Verdict(results[a].class) \/ results[a].accepted # "nil" =>
    seen.asks[a] > 0 /\ results[a].connected

\* The pacer hears of a throttle exactly when some result says throttled, and
\* the guard of a refusal exactly when some result says policy, but for a domain
\* refused as relay beside another and a session a policy 421 ends between two
\* domains; a lost connection or a timeout is reported to neither.
PacerHears ==
  /\ told.throttle <=> \E a \in Addrs : results[a].class = "throttled"
  /\ told.refusal => \E a \in Addrs : results[a].class = "policy"
  /\ (\E a \in Addrs : results[a].class = "policy") =>
       told.refusal \/ (MultiDomain /\ \E d, e \in DomainsOf(Requested) : d # e)

\* An address is asked about again only after a receiver refused grouping, and
\* then once more: neither the rerun in plaintext nor a split asks twice.
AskedAgainOnlyUngrouped ==
  \A a \in Addrs : seen.asks[a] <= (IF refused THEN 2 ELSE 1)

\* A session never waits for a lease while it holds one, and is never connected
\* without one: the plaintext rerun "would wait on ourselves".  "Budget is one
\* token per recipient, not per session", bogus ones included.
LeasedAndPaid ==
  /\ TypeOK
  /\ phase = "lease" => ~s.held
  /\ s.conn # "none" => s.held
  /\ seen.questions <= tokens

\* Bogus addresses accepted and rejected in turn condemn the host: every result
\* of the request says randomiser.
MixedAnswersCondemnHost ==
  phase = "done" /\ (\E d \in Domains : "valid" \in seen.bogus[d] /\ seen.bogus[d] # {"valid"})
    => \A a \in Requested : results[a].randomiser = "yes"

\* The request ends: "a refusal can never loop", nor can the rerun.
Terminates == <>(phase = "done")
=============================================================================

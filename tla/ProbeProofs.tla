---------------------------- MODULE ProbeProofs ----------------------------
(***************************************************************************)
(* A probe request, and the guard its refusals are reported to.            *)
(*                                                                         *)
(* For a request of any addresses and domains against any receiver: no     *)
(* address is left without a result, only an RCPT about it makes it valid  *)
(* or invalid, and the leases, tokens and reports are what its questions   *)
(* call for.  The invariant follows the addresses from the queue through   *)
(* the session to their results: those without a result are those that     *)
(* wait (Waits), and what is true of them so far does not depend on how    *)
(* the session will end.                                                   *)
(*                                                                         *)
(* For any number of sessions and hosts: the guard knows of every pause it *)
(* ordered, and rule B stands a key down only on the word of enough        *)
(* distinct hosts.                                                         *)
(***************************************************************************)
EXTENDS Probe, StandDown, TLAPS

(* A record update usable in every leaf: the SMT backend then leaves the   *)
(* leaf untyped.  Type inference is most of the time these proofs would    *)
(* take otherwise.                                                         *)
Blank == [field |-> 0]
Blanks == {Blank}

\* Writing the value a field already has changes nothing.
LEMMA Untyped == [Blank EXCEPT !.field = 0] \in Blanks
  BY DEF Blank, Blanks

USE Untyped
-----------------------------------------------------------------------------
(* A probe request *)

Outside == {"start", "take", "done"}      \* no session is under way
Early   == {"health", "resolve", "lease", "token", "dial", "banner", "ehlo", "starttls",
            "ehlo2", "mail"}              \* before its first RCPT
Paying  == {"dial", "banner", "ehlo", "starttls", "ehlo2", "mail", "rcpt", "bogus",
            "decide", "rset", "mail2"}    \* the first token has been taken
Leased  == Paying \cup {"token"}
Bogus   == {"bogus", "decide"}
ProbePhases == Outside \cup Early \cup {"rcpt", "bogus", "decide", "rset", "mail2"}

ResultType  == [class : Classes, accepted : Opt, connected : BOOLEAN,
                catchAll : Opt, randomiser : Opt]
VerdictType == [catchAll : Opt, randomiser : Opt]
SessionType == [todo : SUBSET Addrs, batch : SUBSET Addrs, at : Domains \cup {NoDomain},
                ask : SUBSET Domains, grouped : BOOLEAN, first : BOOLEAN, asked : Nat,
                run : Nat, skipTLS : BOOLEAN, held : BOOLEAN,
                conn : {"none", "open", "dead"}, bogus : Nat, accepted : Nat,
                audit : BOOLEAN]
SeenType    == [asks : [Addrs -> Nat], bogus : [Domains -> SUBSET Classes], questions : Nat]
ToldType    == [throttle : BOOLEAN, refusal : BOOLEAN]

ManyDomains == MultiDomain /\ \E d, e \in DomainsOf(Requested) : d # e

(* What is said of results res while the addresses as wait, asks RCPTs were    *)
(* sent, t was told and ref says whether grouping was refused.                 *)

\* The addresses without a result are those that wait.
Waits(res, as) ==
  \A a \in Addrs : res[a].class = "none" <=> a \notin Requested \/ a \in as

Answers(res, asks) ==
  \A a \in Addrs : Verdict(res[a].class) \/ res[a].accepted # "nil" =>
    asks[a] > 0 /\ res[a].connected

Heard(res, t) ==
  /\ t.throttle <=> \E a \in Addrs : res[a].class = "throttled"
  /\ t.refusal => \E a \in Addrs : res[a].class = "policy"
  /\ (\E a \in Addrs : res[a].class = "policy") => t.refusal \/ ManyDomains

\* One that waits has been asked about only if grouping was refused.
Asked(res, asks, ref) ==
  \A a \in Addrs :
    /\ asks[a] <= (IF ref THEN 2 ELSE 1)
    /\ res[a].class = "none" => asks[a] <= (IF ref THEN 1 ELSE 0)

Reported(res, as, asks, t, ref) ==
  Waits(res, as) /\ Answers(res, asks) /\ Heard(res, t) /\ Asked(res, asks, ref)

\* What the pacer and the guard hear of a class: a refusal of a domain beside
\* others need not be told.
Hears(class, t, u) ==
  /\ u \in ToldType
  /\ u.throttle <=> t.throttle \/ class = "throttled"
  /\ \/ u.refusal <=> t.refusal \/ class = "policy"
     \/ (u.refusal <=> t.refusal) /\ ManyDomains

\* One more RCPT about a, and its answer.
More(asks, a) == [asks EXCEPT ![a] = @ + 1]
WithAnswer(res, a, class) == [res EXCEPT ![a] = rcptResult(class)]

NonVerdicts == Classes \ {"none", "valid", "invalid"}

Waiting == IF phase = "start" THEN Requested ELSE queue \cup s.todo

Typed ==
  /\ env \in Environments /\ phase \in ProbePhases /\ s \in SessionType
  /\ results \in [Addrs -> ResultType] /\ verdicts \in [Domains -> VerdictType]
  /\ known \in BOOLEAN /\ fallen \in BOOLEAN /\ refused \in BOOLEAN
  /\ tokens \in Nat /\ told \in ToldType /\ seen \in SeenType

\* What is queued is not in the session; a session has something to ask until
\* its last domain is answered, and is grouped only while nobody refused it.
Shape ==
  /\ queue \subseteq Requested /\ s.todo \subseteq s.batch
  /\ s.batch \subseteq Requested \ queue /\ Fits(s.batch)
  /\ phase \in Outside => s = NoSession
  /\ phase \notin Outside => s.at \in Domains
  /\ phase \in Early => s.todo = s.batch
  /\ phase \in Early \cup Between => s.todo # {}
  /\ phase \in Bogus => Current = {}
  /\ phase \notin Outside /\ ~s.grouped => DomainsOf(s.batch) = {s.at}
  /\ phase \in Between => s.grouped
  /\ s.grouped => ManyDomains /\ ~refused
  /\ phase \in {"start", "done"} => queue = {}

Told == Reported(results, Waiting, seen.asks, told, refused)

\* The lease is held from lease to release, and a token not used by the first
\* RCPT is still there for it.
Paid ==
  /\ s.held <=> phase \in Leased
  /\ s.conn # "none" => s.held
  /\ seen.questions + (IF phase \in Paying /\ s.asked = 0 THEN 1 ELSE 0) <= tokens

MixedAnswers(b) == "valid" \in b /\ b # {"valid"}

\* A domain whose bogus addresses were answered has the verdict they call for,
\* but for the one being asked of, of which the answers are counted; a domain
\* that may still be asked of has none.
Settled ==
  /\ \A d \in Domains : ~(phase \in Bogus /\ d = s.at) =>
       /\ verdicts[d] = NoVerdict => seen.bogus[d] = {}
       /\ MixedAnswers(seen.bogus[d]) => verdicts[d].randomiser = "yes"
  /\ phase \in Bogus =>
       /\ s.accepted <= s.bogus
       /\ s.bogus = 0 => seen.bogus[s.at] = {}
       /\ "valid" \in seen.bogus[s.at] => s.accepted > 0
       /\ ~(seen.bogus[s.at] \subseteq {"valid"}) => s.accepted < s.bogus
  /\ phase \notin Bogus => s.bogus = 0 /\ s.accepted = 0
  /\ \A d \in s.ask : d = s.at \/ d \in DomainsOf(s.todo) => verdicts[d] = NoVerdict
  /\ phase = "start" => \A d \in Domains : verdicts[d] = NoVerdict
  /\ MixedAnswersCondemnHost

ProbeInv == Typed /\ Shape /\ Told /\ Paid /\ Settled

-----------------------------------------------------------------------------
(* Results *)

LEMMA ClassifyClass ==
  ASSUME NEW r \in Reply
  PROVE  ClassifyAs(r) \in {"unknown", "deferred", "policy", "throttled", "bad_sequence",
                            "valid", "invalid"}
  <1>1. classifyPermanent(r) \in {"policy", "valid", "invalid"}
    BY DEF classifyPermanent, SubjectRule
  <1> QED BY <1>1 DEF ClassifyAs

LEMMA BeforeClass ==
  ASSUME NEW r \in Reply
  PROVE  beforeRCPT(r) \in {"unknown", "deferred", "policy", "throttled", "bad_sequence"}
  BY ClassifyClass DEF beforeRCPT, Verdict

LEMMA RerunReported ==
  ASSUME NEW res \in [Addrs -> ResultType], NEW as, NEW asks, NEW t, NEW ref,
         Reported(res, as, asks, t, ref)
  PROVE  /\ AfterRerun(res) \in [Addrs -> ResultType]
         /\ Reported(AfterRerun(res), as, asks, t, ref)
  <1> DEFINE new == AfterRerun(res)
  <1>1. ASSUME NEW a \in Addrs
        PROVE  /\ new[a] \in ResultType
               /\ new[a].accepted = res[a].accepted /\ new[a].connected = res[a].connected
               /\ \/ new[a].class = res[a].class
                  \/ res[a].class \in NetErrors /\ new[a].class = "tls_failed"
    BY DEF AfterRerun, ResultType, Classes
  <1>2. new \in [Addrs -> ResultType]
    BY <1>1 DEF AfterRerun
  <1> HIDE DEF new
  <1>3. \A a \in Addrs : \A c \in {"none", "valid", "invalid", "throttled", "policy"} :
          new[a].class = c <=> res[a].class = c
    BY <1>1 DEF NetErrors
  <1>4. Waits(new, as)
    BY <1>3, Zenon DEF Reported, Waits
  <1>5. Answers(new, asks)
    BY <1>1, <1>3 DEF Reported, Answers, Verdict
  <1>6. Heard(new, t)
    BY <1>3, Zenon DEF Reported, Heard
  <1>7. Asked(new, asks, ref)
    BY <1>3 DEF Reported, Asked
  <1> QED BY <1>2, <1>4, <1>5, <1>6, <1>7 DEF Reported, new

\* The same non-answer for addresses that wait.
LEMMA MarkReported ==
  ASSUME NEW res \in [Addrs -> ResultType], NEW as, NEW asks, NEW t \in ToldType, NEW ref,
         Reported(res, as, asks, t, ref),
         NEW marked \in SUBSET as, as \subseteq Requested, Requested \subseteq Addrs,
         NEW class \in NonVerdicts, NEW u, Hears(class, t, u), marked # {} \/ u = t
  PROVE  /\ Mark(res, marked, class) \in [Addrs -> ResultType]
         /\ Reported(Mark(res, marked, class), as \ marked, asks, u, ref)
  <1> DEFINE new == Mark(res, marked, class)
  <1>1. ASSUME NEW a \in marked
        PROVE  /\ a \in Addrs /\ res[a].class = "none"
               /\ new[a] \in ResultType /\ new[a].class = class /\ new[a].accepted = "nil"
    <2>1. a \in Addrs /\ a \in Requested
      BY Zenon
    <2>2. new[a] = NonAnswer(class)
      BY <2>1 DEF Mark
    <2>3. class \in Classes
      BY DEF NonVerdicts
    <2> QED BY <2>1, <2>2, <2>3, Zenon DEF NonAnswer, NoResult, ResultType, Opt, Reported, Waits
  <1>2. ASSUME NEW a \in Addrs, a \notin marked
        PROVE  new[a] = res[a]
    BY <1>2 DEF Mark
  <1>3. new \in [Addrs -> ResultType]
    <2>1. \A a \in Addrs : new[a] \in ResultType
      BY <1>1, <1>2
    <2> QED BY <2>1, Zenon DEF Mark
  <1> HIDE DEF new
  <1>5. Waits(new, as \ marked)
    BY <1>1, <1>2, Zenon DEF Reported, Waits, NonVerdicts
  <1>6. Answers(new, asks)
    BY <1>1, <1>2 DEF Reported, Answers, Verdict, NonVerdicts
  <1>9. Asked(new, asks, ref)
    BY <1>1, <1>2 DEF Reported, Asked, NonVerdicts
  <1>7. CASE marked = {}
    <2>1. \A a \in Addrs : new[a] = res[a]
      BY <1>2, <1>7
    <2>2. Heard(new, u)
      BY <2>1, <1>7 DEF Reported, Heard
    <2> QED BY <1>3, <1>5, <1>6, <1>9, <2>2 DEF Reported, new
  <1>8. CASE marked # {}
    <2>1. PICK b \in marked : TRUE
      BY <1>8
    <2>2. \A c \in {"throttled", "policy"} :
            (\E a \in Addrs : new[a].class = c)
              <=> (\E a \in Addrs : res[a].class = c) \/ class = c
      BY <1>1, <1>2, <2>1
    <2>3. Heard(new, u)
      BY <2>2, Zenon DEF Reported, Heard, Hears
    <2> QED BY <1>3, <1>5, <1>6, <1>9, <2>3 DEF Reported, new
  <1> QED BY <1>7, <1>8

\* An address that waits was asked about once, for nothing: grouping was refused.
LEMMA RefusedReported ==
  ASSUME NEW res \in [Addrs -> ResultType], NEW as, NEW asks \in [Addrs -> Nat], NEW t,
         Reported(res, as, asks, t, FALSE), NEW a \in Addrs
  PROVE  /\ More(asks, a) \in [Addrs -> Nat]
         /\ res[a].class = "none" => Reported(res, as, More(asks, a), t, TRUE)
  <1> DEFINE more == More(asks, a)
  <1>1. more[a] = asks[a] + 1 /\ \A b \in Addrs \ {a} : more[b] = asks[b]
    BY DEF More
  <1>2. more \in [Addrs -> Nat]
    BY <1>1 DEF More
  <1> HIDE DEF more
  <1>3. Answers(res, more)
    BY <1>1 DEF Reported, Answers
  <1>4. ASSUME res[a].class = "none"
        PROVE  Asked(res, more, TRUE)
    BY <1>1, <1>4 DEF Reported, Asked
  <1> QED BY <1>2, <1>3, <1>4, Zenon DEF Reported, more

\* One more RCPT about an address that had not used its last one.
LEMMA MoreReported ==
  ASSUME NEW res, NEW as, NEW asks \in [Addrs -> Nat], NEW t,
         NEW ref, Reported(res, as, asks, t, ref), NEW a \in Addrs,
         res[a].class # "none", asks[a] <= (IF ref THEN 1 ELSE 0)
  PROVE  Reported(res, as, More(asks, a), t, ref)
  <1> DEFINE more == More(asks, a)
  <1>1. more[a] = asks[a] + 1 /\ \A b \in Addrs \ {a} : more[b] = asks[b]
    BY DEF More
  <1> HIDE DEF more
  <1>2. Answers(res, more)
    BY <1>1 DEF Reported, Answers
  <1>3. Asked(res, more, ref)
    BY <1>1 DEF Reported, Asked
  <1> QED BY <1>2, <1>3, Zenon DEF Reported, more

\* Once grouping is refused more is allowed.
LEMMA RefusalReported ==
  ASSUME NEW res, NEW as, NEW asks \in [Addrs -> Nat], NEW t, NEW ref \in BOOLEAN,
         NEW also \in BOOLEAN, Reported(res, as, asks, t, ref)
  PROVE  Reported(res, as, asks, t, ref \/ also)
  <1>1. Asked(res, asks, ref \/ also)
    BY DEF Reported, Asked
  <1> QED BY <1>1, Zenon DEF Reported

-----------------------------------------------------------------------------
(* Parts of the invariant that most steps leave alone *)

LEMMA RequestFacts ==
  ASSUME Typed
  PROVE  /\ Requested \subseteq Addrs
         /\ \A a \in Requested : domainOf[a] \in Domains
         /\ maxRCPT \in Nat \ {0} /\ catchAllProbes \in Nat \ {0}
         /\ MultiDomain \in BOOLEAN /\ Named \in BOOLEAN
         /\ {policyStop, policyStopMax, WantStop, auditProbes} \subseteq Nat
         /\ domainOf \in [Addrs -> Domains]
  BY ProbeAssumption DEF Typed, Requested, Request, maxRCPT, MultiDomain, Named, policyStop,
     policyStopMax, WantStop, auditProbes, catchAllProbes

LEMMA EnvSame ==
  ASSUME UNCHANGED env
  PROVE  /\ Requested' = Requested
         /\ ManyDomains' <=> ManyDomains
         /\ \A as : Fits(as)' <=> Fits(as)
  BY DEF Requested, Request, ManyDomains, MultiDomain, DomainsOf, Fits, maxRCPT

\* What was said of the new results in the old state is said in the new one.
LEMMA ToldNext ==
  ASSUME UNCHANGED env, Reported(results', Waiting', seen'.asks, told', refused')
  PROVE  Told'
  BY EnvSame DEF Told, Reported, Waits, Answers, Heard, Asked

\* A session of nobody is within the limit.
LEMMA NoneFits ==
  ASSUME Typed
  PROVE  Fits({})
  <1>1. ASSUME AtLeast({}, maxRCPT + 1) PROVE FALSE
    <2>1. PICK f \in [1..(maxRCPT + 1) -> {}] : TRUE
      BY <1>1 DEF AtLeast
    <2>2. 1 \in 1..(maxRCPT + 1)
      BY RequestFacts
    <2> QED BY <2>1, <2>2
  <1> QED BY <1>1 DEF Fits

LEMMA NoSessionFacts ==
  /\ NoSession \in SessionType
  /\ NoSession.todo = {} /\ NoSession.batch = {} /\ NoSession.at = NoDomain
  /\ NoSession.ask = {} /\ NoSession.grouped = FALSE /\ NoSession.asked = 0
  /\ NoSession.held = FALSE /\ NoSession.conn = "none"
  /\ NoSession.bogus = 0 /\ NoSession.accepted = 0
  BY DEF NoSession, SessionType

\* Steps within a session that neither ask about an address nor give one up.
LEMMA MoveKeeps ==
  ASSUME ProbeInv, UNCHANGED <<env, queue, results, told, refused>>,
         s'.todo = s.todo, s'.batch = s.batch, s'.grouped = s.grouped,
         s'.at \in Domains, seen'.asks = seen.asks,
         phase \notin Outside, phase' \notin Outside,
         phase' \in Early => phase \in Early,
         phase' \in Between => s.todo # {} /\ s.grouped, s'.at = s.at \/ s.grouped,
         phase' \in Bogus => Of(s.todo, s'.at) = {}
  PROVE  Shape' /\ Told'
  <1>1. Shape'
    BY EnvSame DEF ProbeInv, Shape, Current, Of, DomainsOf, Between, Early, Outside
  <1>2. Waiting' = Waiting
    BY DEF Waiting, Outside
  <1>3. Told'
    BY <1>2, ToldNext DEF ProbeInv, Told
  <1> QED BY <1>1, <1>3

\* Steps that ask no bogus address.
LEMMA SettledKeeps ==
  ASSUME Typed, Settled, UNCHANGED <<env, verdicts>>, seen'.bogus = seen.bogus,
         phase \notin Bogus, phase' \notin Bogus \cup {"start", "done"},
         s'.bogus = 0, s'.accepted = 0,
         \A d \in s'.ask : d = s'.at \/ d \in DomainsOf(s'.todo) => verdicts[d] = NoVerdict
  PROVE  Settled'
  BY DEF Settled, MixedAnswersCondemnHost, DomainsOf
\* A session ends: the addresses of rest wait again, the others have a result.
LEMMA CloseInv ==
  ASSUME ProbeInv, UNCHANGED env, phase \notin Outside,
         NEW res \in [Addrs -> ResultType], NEW rest \in SUBSET s.todo, Close(res, rest),
         verdicts' \in [Domains -> VerdictType], fallen' \in BOOLEAN, tokens' \in Nat,
         told' \in ToldType, seen' \in SeenType,
         Reported(res, queue \cup rest, seen'.asks, told', refused \/ rest # {}),
         seen'.questions <= tokens',
         \A d \in Domains :
           /\ verdicts'[d] = NoVerdict => seen'.bogus[d] = {}
           /\ MixedAnswers(seen'.bogus[d]) => verdicts'[d].randomiser = "yes"
  PROVE  ProbeInv'
  <1>1. /\ results' = AfterRerun(res) /\ queue' = rest \cup queue
        /\ refused' = (refused \/ rest # {}) /\ phase' = "take" /\ s' = NoSession
        /\ known' = known
    BY Zenon DEF Close
  <1>2. /\ results' \in [Addrs -> ResultType]
        /\ Reported(results', queue \cup rest, seen'.asks, told', refused')
    BY <1>1, RerunReported
  <1>3. Typed'
    <2>1. phase' \in ProbePhases
      BY <1>1 DEF ProbePhases, Outside
    <2> QED BY <1>1, <1>2, <2>1, NoSessionFacts, Zenon DEF ProbeInv, Typed
  <1>4. Shape'
    <2>1. Fits({})'
      BY <1>3, EnvSame, NoneFits DEF ProbeInv
    <2>2. phase' \in Outside /\ phase' \notin Early \cup Between \cup Bogus
          /\ phase' \notin {"start", "done"}
      BY <1>1 DEF Outside, Early, Between, Bogus
    <2>3. queue' \subseteq Requested
      BY <1>1 DEF ProbeInv, Shape
    <2> QED BY <1>1, <2>1, <2>2, <2>3, EnvSame, NoSessionFacts DEF Shape
  <1>5. Told'
    <2>1. Waiting' = queue \cup rest
      BY <1>1, NoSessionFacts DEF Waiting
    <2> QED BY <1>2, <2>1, ToldNext
  <1>6. Paid'
    <2>1. phase' \notin Leased /\ phase' \notin Paying
      BY <1>1 DEF Leased, Paying
    <2>2. seen'.questions \in Nat
      BY DEF SeenType
    <2> QED BY <1>1, <2>1, <2>2, NoSessionFacts DEF Paid
  <1>7. Settled'
    BY <1>1, NoSessionFacts DEF Settled, MixedAnswersCondemnHost, Bogus
  <1> QED BY <1>3, <1>4, <1>5, <1>6, <1>7, Zenon DEF ProbeInv

\* A session ends with a non-answer for the addresses that still wait in it.
LEMMA GiveUpInv ==
  ASSUME ProbeInv, UNCHANGED <<env, verdicts, fallen>>, phase \notin Outside \cup Bogus,
         NEW res \in [Addrs -> ResultType], NEW marked \in SUBSET s.todo,
         NEW class \in NonVerdicts, Close(Mark(res, marked, class), {}),
         NEW t \in ToldType, seen' \in SeenType, tokens' \in Nat,
         Reported(res, queue \cup marked, seen'.asks, t, refused),
         Hears(class, t, told'), marked # {} \/ told' = t,
         seen'.questions <= tokens', seen'.bogus = seen.bogus
  PROVE  ProbeInv'
  <1>1. queue \cup marked \subseteq Requested /\ queue \cap marked = {}
    BY DEF ProbeInv, Shape
  <1>2. Requested \subseteq Addrs
    BY RequestFacts DEF ProbeInv
  <1> DEFINE new == Mark(res, marked, class)
  <1>3. /\ new \in [Addrs -> ResultType]
        /\ Reported(new, (queue \cup marked) \ marked, seen'.asks, told', refused)
    BY <1>1, <1>2, MarkReported, Zenon
  <1>4. (queue \cup marked) \ marked = queue \cup {}
    BY <1>1
  <1>5. told' \in ToldType /\ refused = (refused \/ {} # {})
    BY DEF Hears, ProbeInv, Typed
  <1>6. \A d \in Domains :
           /\ verdicts'[d] = NoVerdict => seen'.bogus[d] = {}
           /\ MixedAnswers(seen'.bogus[d]) => verdicts'[d].randomiser = "yes"
    BY Zenon DEF ProbeInv, Settled
  <1>7. verdicts' \in [Domains -> VerdictType] /\ fallen' \in BOOLEAN
    BY DEF ProbeInv, Typed
  <1> HIDE DEF new
  <1>8. Reported(new, queue \cup {}, seen'.asks, told', refused \/ {} # {})
    BY <1>3, <1>4, <1>5, Zenon
  <1>9. Close(new, {})
    BY DEF new
  <1> QED BY <1>3, <1>5, <1>6, <1>7, <1>8, <1>9, CloseInv, Zenon

\* The same when none of them was answered and no more is asked.
LEMMA FailInv ==
  ASSUME ProbeInv, UNCHANGED <<env, verdicts, fallen, tokens, seen>>,
         phase \notin Outside \cup Bogus, s.todo # {}, NEW class \in NonVerdicts,
         Close(Mark(results, s.todo, class), {}), Hears(class, told, told')
  PROVE  ProbeInv'
  <1>1. Reported(results, queue \cup s.todo, seen'.asks, told, refused)
    BY DEF ProbeInv, Told, Waiting, Outside
  <1>2. /\ results \in [Addrs -> ResultType] /\ told \in ToldType
        /\ seen' \in SeenType /\ tokens' \in Nat /\ seen'.bogus = seen.bogus
        /\ seen.questions \in Nat
    BY DEF ProbeInv, Typed, SeenType
  <1>3. seen'.questions <= tokens'
    BY <1>2 DEF ProbeInv, Paid
  <1> QED BY <1>1, <1>2, <1>3, GiveUpInv

\* Nothing new to tell of a class that is neither a throttle nor a refusal.
LEMMA QuietHears ==
  ASSUME NEW t \in ToldType, NEW class, class \notin {"throttled", "policy"}
  PROVE  Hears(class, t, t)
  BY DEF Hears, ToldType

LEMMA TellHears ==
  ASSUME told \in ToldType, NEW class, class \notin NetErrors, Tell(class)
  PROVE  Hears(class, told, told')
  BY Zenon DEF Hears, ToldType, Tell, IsThrottle, NetErrors

-----------------------------------------------------------------------------
(* The start of a request and of its sessions *)

LEMMA ProbeInitInv == Init => ProbeInv
  <1> SUFFICES ASSUME Init PROVE ProbeInv
    OBVIOUS
  <1>1. /\ env \in Environments /\ phase = "start" /\ queue = {} /\ s = NoSession
        /\ known \in BOOLEAN /\ refused = FALSE /\ tokens = 0
    BY Zenon DEF Init
  <1>2. results \in [Addrs -> ResultType] /\ \A a \in Addrs : results[a] = NoResult
    BY DEF Init, NoResult, ResultType, Classes, Opt
  <1>3. verdicts \in [Domains -> VerdictType] /\ \A d \in Domains : verdicts[d] = NoVerdict
    BY DEF Init, NoVerdict, VerdictType, Opt
  <1>4. /\ told \in ToldType /\ ~told.throttle /\ ~told.refusal
        /\ seen \in SeenType /\ \A a \in Addrs : seen.asks[a] = 0
        /\ \A d \in Domains : seen.bogus[d] = {}
        /\ seen.questions = 0
    BY DEF Init, ToldType, SeenType
  <1>5. fallen \in BOOLEAN
    BY <1>1, ProbeAssumption, Zenon DEF Init, MultiDomain, Named
  <1>6. Typed
    BY <1>1, <1>2, <1>3, <1>4, <1>5, NoSessionFacts, Zenon DEF Typed, ProbePhases, Outside
  <1>7. Shape
    BY <1>1, <1>6, NoneFits, NoSessionFacts DEF Shape, Outside, Early, Between, Bogus
  <1>8. Told
    <2>1. \A a \in Addrs : results[a].class = "none" /\ results[a].accepted = "nil"
      BY <1>2 DEF NoResult
    <2>2. Waiting = Requested
      BY <1>1 DEF Waiting
    <2> QED BY <1>1, <1>4, <2>1, <2>2
            DEF Told, Reported, Waits, Answers, Heard, Asked, Verdict
  <1>9. Paid
    BY <1>1, <1>4, NoSessionFacts DEF Paid, Leased, Paying
  <1>10. Settled
    BY <1>1, <1>3, <1>4, NoSessionFacts
       DEF Settled, Bogus, MixedAnswers, MixedAnswersCondemnHost
  <1> QED BY <1>6, <1>7, <1>8, <1>9, <1>10 DEF ProbeInv

LEMMA StartInv ==
  ASSUME ProbeInv, UNCHANGED env, NEW hit, Start(hit)
  PROVE  ProbeInv'
  <1>1. /\ phase = "start" /\ hit \subseteq Requested /\ queue' = Requested \ hit
        /\ phase' = (IF hit = Requested THEN "done" ELSE "take")
        /\ UNCHANGED <<s, verdicts, known, fallen, refused, tokens, told, seen>>
    BY Zenon DEF Start
  <1>2. s = NoSession
    BY <1>1 DEF ProbeInv, Shape, Outside
  <1>3. \A a \in Addrs : results'[a] = IF a \in hit THEN [NoResult EXCEPT !.class = "suppressed"]
                                                    ELSE NoResult
    BY DEF Start
  <1>4. results' \in [Addrs -> ResultType]
    BY Zenon DEF Start, NoResult, ResultType, Classes, Opt
  <1>5. Typed'
    BY <1>1, <1>4 DEF ProbeInv, Typed, ProbePhases, Outside
  <1>6. Shape'
    <2>1. s' = NoSession /\ Fits({})'
      BY <1>1, <1>2, <1>5, EnvSame, NoneFits DEF ProbeInv
    <2> QED BY <1>1, <2>1, EnvSame, NoSessionFacts
            DEF Shape, Outside, Early, Between, Bogus
  <1>7. Told'
    <2>1. Waiting' = Requested \ hit
      BY <1>1, <1>2, NoSessionFacts DEF Waiting
    <2>2. Waits(results, Requested)
      BY <1>1 DEF ProbeInv, Told, Reported, Waiting
    <2>3. \A a \in Addrs : results[a].class = "none"
      BY <2>2 DEF Waits
    <2>4. \A a \in Addrs : /\ results'[a].class = IF a \in hit THEN "suppressed" ELSE "none"
                           /\ results'[a].accepted = "nil"
      BY <1>3 DEF NoResult
    <2>5. Waits(results', Requested \ hit) /\ Answers(results', seen.asks)
      BY <1>1, <2>4 DEF Waits, Answers, Verdict
    <2>6. Heard(results', told) /\ Asked(results', seen.asks, refused)
      BY <2>3, <2>4 DEF ProbeInv, Told, Reported, Heard, Asked
    <2>7. Reported(results', Waiting', seen'.asks, told', refused')
      BY <1>1, <2>1, <2>5, <2>6, Zenon DEF Reported
    <2> QED BY <2>7, ToldNext
  <1>8. Paid'
    BY <1>1, <1>2, NoSessionFacts DEF ProbeInv, Paid, Leased, Paying
  <1>9. Settled'
    BY <1>1, <1>2, NoSessionFacts
       DEF ProbeInv, Settled, Bogus, MixedAnswers, MixedAnswersCondemnHost
  <1> QED BY <1>5, <1>6, <1>7, <1>8, <1>9 DEF ProbeInv

\* takeSession leaves a session that is not empty and not too large, of the
\* queue, and of several domains only while grouping is on.
LEMMA BatchFacts ==
  ASSUME Typed, queue \subseteq Requested, NEW d \in DomainsOf(queue),
         NEW batch \in Batches(d)
  PROVE  /\ batch \subseteq queue /\ batch # {} /\ Fits(batch)
         /\ DomainsOf(batch) # {d} => ManyDomains /\ ~refused
  <1> DEFINE head == Of(queue, d)
             with(D) == {a \in queue : domainOf[a] \in D}
             others == DomainsOf(queue) \ {d}
  <1>1. PICK h \in queue : domainOf[h] = d
    BY DEF DomainsOf
  <1>2. h \in head
    BY <1>1 DEF Of
  <1>3. CASE ~Fits(head)
    <2>1. batch \subseteq head /\ Fits(batch) /\ AtLeast(batch, maxRCPT)
      BY <1>3, Zenon DEF Batches
    <2>2. PICK f \in [1..maxRCPT -> batch] : TRUE
      BY <2>1 DEF AtLeast
    <2>3. 1 \in 1..maxRCPT
      BY RequestFacts
    <2>4. f[1] \in batch
      BY <2>2, <2>3
    <2>5. DomainsOf(batch) = {d}
      BY <2>1, <2>4 DEF DomainsOf, Of
    <2> QED BY <2>1, <2>4, <2>5 DEF Of
  <1>4. CASE Fits(head) /\ ~grouping
    <2>1. batch = head
      BY <1>4, Zenon DEF Batches
    <2>2. DomainsOf(batch) = {d}
      BY <1>2, <2>1 DEF DomainsOf, Of
    <2> QED BY <1>2, <1>4, <2>1, <2>2 DEF Of
  <1>5. CASE Fits(head) /\ grouping
    <2>1. PICK D \in SUBSET others : batch = with(D \cup {d}) /\ Fits(with(D \cup {d}))
      BY <1>5, Zenon DEF Batches
    <2>2. batch \subseteq queue /\ h \in batch
      BY <1>1, <2>1
    <2>3. ASSUME DomainsOf(batch) # {d} PROVE ManyDomains
      <3>1. d \in DomainsOf(batch)
        BY <1>1, <2>2 DEF DomainsOf
      <3>2. PICK e \in DomainsOf(batch) : e # d
        BY <2>3, <3>1
      <3>3. DomainsOf(batch) \subseteq DomainsOf(Requested)
        BY <2>2 DEF DomainsOf
      <3>4. d \in DomainsOf(Requested) /\ e \in DomainsOf(Requested)
        BY <3>1, <3>2, <3>3
      <3> QED BY <1>5, <3>2, <3>4 DEF ManyDomains, grouping
    <2> QED BY <1>5, <2>1, <2>2, <2>3 DEF grouping
  <1> QED BY <1>3, <1>4, <1>5

LEMMA TakeInv ==
  ASSUME ProbeInv, UNCHANGED env, NEW d \in DomainsOf(queue), TakeSession(d)
  PROVE  ProbeInv'
  <1>1. /\ phase = "take" /\ phase' = "health"
        /\ UNCHANGED <<results, verdicts, known, fallen, refused, tokens, told, seen>>
    BY Zenon DEF TakeSession
  <1> DEFINE asks(batch) == {e \in DomainsOf(batch) \cap NeedCatchAll :
                               ~known /\ verdicts[e] = NoVerdict}
  <1>2. PICK batch \in Batches(d) :
          /\ queue' = queue \ batch
          /\ s' = [NoSession EXCEPT !.todo = batch, !.batch = batch, !.at = d,
                     !.grouped = (DomainsOf(batch) # {d}), !.ask = asks(batch)]
    BY Zenon DEF TakeSession
  <1>3. queue \subseteq Requested /\ s = NoSession
    BY <1>1 DEF ProbeInv, Shape, Outside
  <1>4. /\ batch \subseteq queue /\ batch # {} /\ Fits(batch)
        /\ DomainsOf(batch) # {d} => ManyDomains /\ ~refused
    BY <1>3, BatchFacts DEF ProbeInv
  <1>5. batch \subseteq Addrs /\ d \in Domains /\ DomainsOf(batch) \subseteq Domains
    BY <1>3, <1>4, RequestFacts DEF ProbeInv, DomainsOf
  <1> DEFINE ask == asks(batch)
  <1>6. ask \subseteq Domains /\ \A e \in ask : verdicts[e] = NoVerdict
    BY <1>5
  <1> HIDE DEF ask
  <1>7. /\ s' \in SessionType /\ s'.todo = batch /\ s'.batch = batch /\ s'.at = d
        /\ s'.grouped = (DomainsOf(batch) # {d}) /\ s'.ask = ask /\ s'.asked = 0
        /\ s'.held = FALSE /\ s'.conn = "none" /\ s'.bogus = 0 /\ s'.accepted = 0
    <2>1. s' = [NoSession EXCEPT !.todo = batch, !.batch = batch, !.at = d,
                     !.grouped = (DomainsOf(batch) # {d}), !.ask = ask]
      BY <1>2 DEF ask
    <2> QED BY <2>1, <1>5, <1>6, Zenon DEF NoSession, SessionType
  <1>8. Typed'
    BY <1>1, <1>7 DEF ProbeInv, Typed, ProbePhases, Early
  <1>9. Shape'
    <2>1. Fits(batch)' /\ Requested' = Requested /\ (ManyDomains' <=> ManyDomains)
      BY <1>4, EnvSame
    <2> HIDE DEF asks
    <2> QED BY <1>1, <1>2, <1>3, <1>4, <1>5, <1>7, <2>1, Zenon
            DEF Shape, DomainsOf, Outside, Early, Between, Bogus
  <1>10. Told'
    <2>1. Waiting' = Waiting
      <3> HIDE DEF asks
      <3> QED BY <1>1, <1>2, <1>3, <1>4, <1>7, NoSessionFacts DEF Waiting
    <2> QED BY <1>1, <2>1, ToldNext DEF ProbeInv, Told
  <1>11. Paid'
    BY <1>1, <1>3, <1>7, NoSessionFacts DEF ProbeInv, Paid, Leased, Paying
  <1>12. Settled'
    BY <1>1, <1>6, <1>7, SettledKeeps DEF ProbeInv, Bogus
  <1> QED BY <1>8, <1>9, <1>10, <1>11, <1>12 DEF ProbeInv

-----------------------------------------------------------------------------
(* Before the first RCPT *)

LEMMA PrepareInv ==
  ASSUME ProbeInv, UNCHANGED env, Prepare
  PROVE  ProbeInv'
  <1>1. /\ UNCHANGED <<queue, results, verdicts, known, fallen, refused, told, seen>>
        /\ phase \in {"health", "resolve", "lease", "token", "dial"}
        /\ tokens' = IF phase = "token" THEN tokens + 1 ELSE tokens
    BY DEF Prepare, Before
  <1>2. /\ phase = "health" => phase' = "resolve"
        /\ phase = "resolve" => phase' = "lease"
        /\ phase = "lease" => phase' = "token"
        /\ phase = "token" => phase' = "dial"
        /\ phase = "dial" => phase' = "banner"
    BY <1>1 DEF Prepare, After
  <1>3. s \in SessionType /\ s.at \in Domains
    BY <1>1 DEF ProbeInv, Typed, Shape, Outside
  <1>4. /\ s' \in SessionType /\ s'.todo = s.todo /\ s'.batch = s.batch /\ s'.at = s.at
        /\ s'.ask = s.ask /\ s'.grouped = s.grouped /\ s'.asked = s.asked
        /\ s'.held = (s.held \/ phase = "lease")
        /\ s'.conn = IF phase = "dial" THEN "open" ELSE s.conn
        /\ s'.bogus = s.bogus /\ s'.accepted = s.accepted
    BY <1>3, Zenon DEF Prepare, SessionType
  <1>5. Typed'
    BY <1>1, <1>2, <1>4 DEF ProbeInv, Typed, ProbePhases, Early
  <1>6. Shape' /\ Told'
    BY <1>1, <1>2, <1>3, <1>4, MoveKeeps DEF Outside, Early, Between, Bogus
  <1>7. Paid'
    <2>1. /\ phase' \in Leased <=> phase \in Leased \/ phase = "lease"
          /\ phase' \in Paying <=> phase \in Paying \/ phase = "token"
          /\ phase = "dial" => phase \in Leased
          /\ phase = "token" => phase \notin Paying
      BY <1>1, <1>2 DEF Leased, Paying
    <2>2. /\ s.held <=> phase \in Leased
          /\ s.conn # "none" => s.held
          /\ seen.questions + (IF phase \in Paying /\ s.asked = 0 THEN 1 ELSE 0) <= tokens
      BY DEF ProbeInv, Paid
    <2>3. seen.questions \in Nat /\ tokens \in Nat
      BY DEF ProbeInv, Typed, SeenType
    <2>4. /\ s'.held <=> phase' \in Leased
          /\ s'.conn # "none" => s'.held
      BY <2>1, <2>2, <1>4, Zenon
    <2>5. seen.questions + (IF phase' \in Paying /\ s.asked = 0 THEN 1 ELSE 0) <= tokens'
      BY <1>1, <2>1, <2>2, <2>3
    <2> QED BY <1>1, <1>4, <2>4, <2>5 DEF Paid
  <1>8. Settled'
    <2>1. s.bogus = 0 /\ s.accepted = 0 /\ phase \notin Bogus
          /\ phase' \notin Bogus \cup {"start", "done"}
      BY <1>1, <1>2 DEF ProbeInv, Settled, Bogus
    <2> QED BY <1>1, <1>4, <2>1, SettledKeeps DEF ProbeInv, Settled
  <1> QED BY <1>5, <1>6, <1>7, <1>8 DEF ProbeInv

\* Greeted, StayPlain, Upgrade and Opened: only the phase changes.
LEMMA PhaseInv ==
  ASSUME ProbeInv,
         UNCHANGED <<env, queue, s, results, verdicts, known, fallen, refused, tokens, told,
                     seen>>,
         phase \in Paying \ Bogus, phase' \in Paying \ Bogus,
         phase' \in Early => phase \in Early,
         phase' \in Between => phase \in Between
  PROVE  ProbeInv'
  <1>1. phase \notin Outside /\ phase' \notin Outside
    BY DEF Paying, Outside
  <1>2. Typed'
    BY DEF ProbeInv, Typed, ProbePhases, Paying, Early
  <1>3. s.at \in Domains /\ (phase' \in Between => s.todo # {} /\ s.grouped)
        /\ phase' \notin Bogus
    BY <1>1 DEF ProbeInv, Shape
  <1>4. Shape' /\ Told'
    BY <1>1, <1>3, MoveKeeps
  <1>5. Paid'
    BY DEF ProbeInv, Paid, Leased
  <1>6. Settled'
    <2>1. s.bogus = 0 /\ s.accepted = 0
      BY DEF ProbeInv, Settled
    <2> QED BY <1>1, <2>1, SettledKeeps DEF ProbeInv, Settled, Outside
  <1> QED BY <1>2, <1>4, <1>5, <1>6 DEF ProbeInv

LEMMA GreetedInv ==
  ASSUME ProbeInv, UNCHANGED env, Greeted
  PROVE  ProbeInv'
  <1>1. /\ UNCHANGED <<queue, s, results, verdicts, known, fallen, refused, tokens, told, seen>>
        /\ phase \in {"banner", "ehlo", "ehlo2", "mail"} /\ phase' = After[phase]
    BY DEF Greeted, Expected
  <1>2. phase' \in {"ehlo", "starttls", "mail", "rcpt"}
    BY <1>1 DEF After
  <1> QED BY <1>1, <1>2, PhaseInv DEF Paying, Bogus, Early, Between

LEMMA PlainInv ==
  ASSUME ProbeInv, UNCHANGED env, StayPlain \/ Upgrade
  PROVE  ProbeInv'
  <1>1. /\ UNCHANGED <<queue, s, results, verdicts, known, fallen, refused, tokens, told, seen>>
        /\ phase = "starttls" /\ phase' \in {"mail", "ehlo2"}
    BY DEF StayPlain, Upgrade
  <1> QED BY <1>1, PhaseInv DEF Paying, Bogus, Early, Between

\* RSET and MAIL FROM for the next domain.
LEMMA OpenedInv ==
  ASSUME ProbeInv, UNCHANGED env, Opened
  PROVE  ProbeInv'
  <1>1. /\ UNCHANGED <<queue, s, results, verdicts, known, fallen, refused, tokens, told, seen>>
        /\ phase \in Between /\ phase' \in {"mail2", "rcpt"}
    BY DEF Opened
  <1> QED BY <1>1, PhaseInv DEF Paying, Bogus, Early, Between

LEMMA HandshakeInv ==
  ASSUME ProbeInv, UNCHANGED env, HandshakeFails
  PROVE  ProbeInv'
  <1>1. /\ UNCHANGED <<queue, results, verdicts, known, fallen, refused, tokens, told, seen>>
        /\ phase = "starttls" /\ phase' = "health"
        /\ s' = [s EXCEPT !.skipTLS = TRUE, !.conn = "none", !.held = FALSE]
    BY Zenon DEF HandshakeFails
  <1>2. s \in SessionType /\ s.at \in Domains
    BY <1>1 DEF ProbeInv, Typed, Shape, Outside
  <1>3. /\ s' \in SessionType /\ s'.todo = s.todo /\ s'.batch = s.batch /\ s'.at = s.at
        /\ s'.ask = s.ask /\ s'.grouped = s.grouped /\ s'.asked = s.asked
        /\ s'.held = FALSE /\ s'.conn = "none"
        /\ s'.bogus = s.bogus /\ s'.accepted = s.accepted
    BY <1>1, <1>2, Zenon DEF SessionType
  <1>4. Typed'
    BY <1>1, <1>3 DEF ProbeInv, Typed, ProbePhases, Early
  <1>5. Shape' /\ Told'
    BY <1>1, <1>2, <1>3, MoveKeeps DEF Outside, Early, Between, Bogus
  <1>6. Paid'
    BY SMTT(30), <1>1, <1>3 DEF ProbeInv, Typed, SeenType, Paid, Leased, Paying
  <1>7. Settled'
    <2>1. s.bogus = 0 /\ s.accepted = 0 /\ phase \notin Bogus
          /\ phase' \notin Bogus \cup {"start", "done"}
      BY <1>1 DEF ProbeInv, Settled, Bogus
    <2> QED BY <1>1, <1>3, <2>1, SettledKeeps DEF ProbeInv, Settled
  <1> QED BY <1>4, <1>5, <1>6, <1>7 DEF ProbeInv

LEMMA NotPreparedInv ==
  ASSUME ProbeInv, UNCHANGED env, NEW class, NotPrepared(class)
  PROVE  ProbeInv'
  <1>1. /\ phase \in {"health", "resolve", "lease", "token", "dial"}
        /\ class \in Refusals[phase] /\ Close(Mark(results, s.batch, class), {})
        /\ UNCHANGED <<verdicts, fallen, tokens, told, seen>>
    BY Zenon DEF NotPrepared, Before, Fail
  <1>2. class \in NonVerdicts \ {"throttled", "policy"}
    BY <1>1 DEF Refusals, NetErrors, NonVerdicts, Classes
  <1>3. phase \notin Outside \cup Bogus /\ s.batch = s.todo /\ s.todo # {}
    BY <1>1 DEF ProbeInv, Shape, Outside, Bogus, Early
  <1> QED BY <1>1, <1>2, <1>3, FailInv, QuietHears DEF ProbeInv, Typed

LEMMA DroppedInv ==
  ASSUME ProbeInv, UNCHANGED env, NEW class, Dropped(class)
  PROVE  ProbeInv'
  <1>1. /\ phase \in {"banner", "ehlo", "ehlo2", "mail"}
        /\ class \in NetErrors /\ Close(Mark(results, s.batch, class), {})
        /\ UNCHANGED <<verdicts, fallen, tokens, told, seen>>
    BY DEF Dropped, Expected, Fail
  <1>2. class \in NonVerdicts \ {"throttled", "policy"}
    BY <1>1 DEF NetErrors, NonVerdicts, Classes
  <1>3. phase \notin Outside \cup Bogus /\ s.batch = s.todo /\ s.todo # {}
    BY <1>1 DEF ProbeInv, Shape, Outside, Bogus, Early
  <1> QED BY <1>1, <1>2, <1>3, FailInv, QuietHears DEF ProbeInv, Typed

LEMMA TurnedAwayInv ==
  ASSUME ProbeInv, UNCHANGED env, NEW r \in Replies, TurnedAway(r)
  PROVE  ProbeInv'
  <1> DEFINE class == beforeRCPT(r)
  <1>1. /\ phase \in {"banner", "ehlo", "ehlo2", "mail"}
        /\ Close(Mark(results, s.batch, class), {}) /\ Tell(class)
        /\ UNCHANGED <<verdicts, fallen, tokens, seen>>
    BY DEF TurnedAway, Expected, Fail
  <1>2. class \in {"unknown", "deferred", "policy", "throttled", "bad_sequence"}
    BY BeforeClass, ProbeAssumption
  <1> HIDE DEF class
  <1>3. class \in NonVerdicts /\ class \notin NetErrors
    BY <1>2 DEF NonVerdicts, Classes, NetErrors
  <1>4. Hears(class, told, told')
    BY <1>1, <1>3, TellHears DEF ProbeInv, Typed
  <1>5. phase \notin Outside \cup Bogus /\ s.batch = s.todo /\ s.todo # {}
    BY <1>1 DEF ProbeInv, Shape, Outside, Bogus, Early
  <1> QED BY <1>1, <1>3, <1>4, <1>5, FailInv

-----------------------------------------------------------------------------
(* The RCPTs *)

\* One question is asked and paid for.
LEMMA AskFacts ==
  ASSUME ProbeInv, NEW a, Asking(a), Ask(a)
  PROVE  /\ phase = "rcpt" /\ a \in s.todo /\ a \in Addrs /\ results[a].class = "none"
         /\ seen.asks \in [Addrs -> Nat] /\ seen.asks[a] <= (IF refused THEN 1 ELSE 0)
         /\ seen' \in SeenType /\ seen'.asks = More(seen.asks, a)
         /\ seen'.bogus = seen.bogus
         /\ tokens' \in Nat /\ seen'.questions <= tokens'
         /\ Reported(results, queue \cup s.todo, seen.asks, told, refused)
  <1>1. phase = "rcpt" /\ a \in s.todo
    BY DEF Asking, Current, Of
  <1>2. a \in Addrs
    BY <1>1, RequestFacts DEF ProbeInv, Shape
  <1>3. Reported(results, queue \cup s.todo, seen.asks, told, refused)
    BY <1>1 DEF ProbeInv, Told, Waiting
  <1>4. results[a].class = "none" /\ seen.asks[a] <= (IF refused THEN 1 ELSE 0)
    BY <1>1, <1>2, <1>3 DEF Reported, Waits, Asked
  <1>5. seen \in SeenType /\ seen.asks \in [Addrs -> Nat] /\ seen.questions \in Nat
        /\ tokens \in Nat /\ s.asked \in Nat
    BY DEF ProbeInv, Typed, SeenType, SessionType
  <1> DEFINE more == More(seen.asks, a)
  <1>6. seen' = [asks |-> more, bogus |-> seen.bogus, questions |-> seen.questions + 1]
    BY <1>5, Zenon DEF Ask, SeenType, More
  <1>7. more \in [Addrs -> Nat]
    BY <1>2, <1>5 DEF More
  <1> HIDE DEF more
  <1>8. /\ seen' \in SeenType /\ seen'.asks = more
        /\ seen'.bogus = seen.bogus /\ seen'.questions = seen.questions + 1
    BY <1>5, <1>6, <1>7 DEF SeenType
  <1>9. tokens' \in Nat /\ seen.questions + 1 <= tokens'
    <2>1. seen.questions + (IF s.asked = 0 THEN 1 ELSE 0) <= tokens
      BY <1>1 DEF ProbeInv, Paid, Paying
    <2>2. tokens' = IF s.asked > 0 THEN tokens + 1 ELSE tokens
      BY DEF Ask
    <2> QED BY <1>5, <2>1, <2>2
  <1> QED BY <1>1, <1>2, <1>3, <1>4, <1>5, <1>8, <1>9 DEF more

\* The reply to that question, and what is heard of it.
LEMMA AnswerReported ==
  ASSUME ProbeInv, NEW a, Asking(a), Ask(a), NEW class \in Classes \ {"none"}, NEW u,
         Hears(class, told, u)
  PROVE  /\ WithAnswer(results, a, class) \in [Addrs -> ResultType]
         /\ Reported(WithAnswer(results, a, class), queue \cup (s.todo \ {a}), seen'.asks, u,
                     refused)
  <1> DEFINE new == WithAnswer(results, a, class)
             more == seen'.asks
  <1>1. /\ a \in Addrs /\ a \in s.todo /\ results[a].class = "none"
        /\ seen.asks \in [Addrs -> Nat] /\ seen.asks[a] <= (IF refused THEN 1 ELSE 0)
        /\ more = More(seen.asks, a)
        /\ Reported(results, queue \cup s.todo, seen.asks, told, refused)
    BY AskFacts
  <1>2. results \in [Addrs -> ResultType] /\ a \in Requested /\ a \notin queue
    BY <1>1 DEF ProbeInv, Typed, Shape
  <1>3. /\ new[a] = rcptResult(class) /\ \A b \in Addrs \ {a} : new[b] = results[b]
        /\ new \in [Addrs -> ResultType] <=> new[a] \in ResultType
        /\ more[a] = seen.asks[a] + 1 /\ \A b \in Addrs \ {a} : more[b] = seen.asks[b]
    BY <1>1, <1>2 DEF More, WithAnswer
  <1>4. new[a] \in ResultType /\ new[a].class = class /\ new[a].connected = TRUE
    BY <1>3, Zenon DEF rcptResult, NoResult, ResultType, Opt, Classes
  <1> HIDE DEF new, more
  <1>5. Waits(new, queue \cup (s.todo \ {a}))
    BY <1>1, <1>2, <1>3, <1>4, ZenonT(30) DEF Reported, Waits
  <1>6. Answers(new, more)
    BY <1>1, <1>3, <1>4 DEF Reported, Answers
  <1>7. \A c \in {"throttled", "policy"} :
          (\E b \in Addrs : new[b].class = c)
            <=> (\E b \in Addrs : results[b].class = c) \/ class = c
    BY <1>1, <1>3, <1>4
  <1>8. Heard(new, u)
    BY <1>1, <1>7, Zenon DEF Reported, Heard, Hears
  <1>9. Asked(new, more, refused)
    BY <1>1, <1>3, <1>4 DEF Reported, Asked
  <1> QED BY <1>3, <1>4, <1>5, <1>6, <1>8, <1>9 DEF Reported, new, more

\* What the invariant says of bogus answers, when none is under way.
LEMMA SettledFacts ==
  ASSUME ProbeInv, phase \notin Bogus, UNCHANGED verdicts, seen'.bogus = seen.bogus
  PROVE  /\ verdicts' \in [Domains -> VerdictType]
         /\ \A d \in Domains :
              /\ verdicts'[d] = NoVerdict => seen'.bogus[d] = {}
              /\ MixedAnswers(seen'.bogus[d]) => verdicts'[d].randomiser = "yes"
  BY Zenon DEF ProbeInv, Typed, Settled

LEMMA OutOfBudgetInv ==
  ASSUME ProbeInv, UNCHANGED env, NEW class, OutOfBudget(class)
  PROVE  ProbeInv'
  <1>1. /\ phase = "rcpt" /\ Current # {} /\ class \in {"paused", "no_budget"}
        /\ Close(Mark(results, s.todo, class), {})
        /\ UNCHANGED <<verdicts, fallen, tokens, told, seen>>
    BY Zenon DEF OutOfBudget, Unattempted
  <1>2. class \in NonVerdicts \ {"throttled", "policy"}
    BY <1>1 DEF NonVerdicts, Classes
  <1>3. phase \notin Outside \cup Bogus /\ s.todo # {}
    BY <1>1 DEF Outside, Bogus, Current, Of
  <1>4. Hears(class, told, told')
    BY <1>1, <1>2, QuietHears DEF ProbeInv, Typed
  <1> QED BY <1>1, <1>2, <1>3, <1>4, FailInv

LEMMA NotOpenedInv ==
  ASSUME ProbeInv, UNCHANGED env, NEW class, NotOpened(class)
  PROVE  ProbeInv'
  <1>1. /\ phase \in Between /\ class \in NetErrors
        /\ Close(Mark(results, s.todo, class), {})
        /\ UNCHANGED <<verdicts, fallen, tokens, told, seen>>
    BY Zenon DEF NotOpened, Unattempted
  <1>2. class \in NonVerdicts \ {"throttled", "policy"}
    BY <1>1 DEF NonVerdicts, Classes, NetErrors
  <1>3. phase \notin Outside \cup Bogus
    BY <1>1 DEF Outside, Bogus, Between
  <1>4. s.todo # {}
    BY <1>1 DEF ProbeInv, Shape
  <1>5. Hears(class, told, told')
    BY <1>1, <1>2, QuietHears DEF ProbeInv, Typed
  <1> QED BY <1>1, <1>2, <1>3, <1>4, <1>5, FailInv

LEMMA LostInv ==
  ASSUME ProbeInv, UNCHANGED env, NEW a, NEW class, Lost(a, class)
  PROVE  ProbeInv'
  <1> DEFINE new == Mark(results, s.todo, class)
  <1>1. /\ Asking(a) /\ class \in NetErrors /\ Ask(a) /\ Close(new, {})
        /\ UNCHANGED <<verdicts, fallen, told>>
    BY Zenon DEF Lost, Unattempted
  <1>2. class \in NonVerdicts \ {"throttled", "policy"}
    BY <1>1 DEF NonVerdicts, Classes, NetErrors
  <1>3. queue \cup s.todo \subseteq Requested /\ queue \cap s.todo = {}
    BY DEF ProbeInv, Shape
  <1>4. Requested \subseteq Addrs /\ results \in [Addrs -> ResultType] /\ told \in ToldType
    BY RequestFacts DEF ProbeInv, Typed
  <1>5. /\ new \in [Addrs -> ResultType]
        /\ Reported(new, (queue \cup s.todo) \ s.todo, seen.asks, told, refused)
    <2>1. Reported(results, queue \cup s.todo, seen.asks, told, refused)
      BY <1>1, AskFacts, Zenon
    <2>2. Hears(class, told, told)
      BY <1>2, <1>4, QuietHears
    <2> QED BY <1>2, <1>3, <1>4, <2>1, <2>2, MarkReported, Zenon
  <1>6. (queue \cup s.todo) \ s.todo = queue \cup {} /\ refused = (refused \/ {} # {})
    BY <1>3 DEF ProbeInv, Typed
  <1>7. new[a].class # "none"
    BY <1>1, <1>2, AskFacts DEF Mark, NonAnswer, NoResult, NonVerdicts
  <1> HIDE DEF new
  <1>8. Reported(new, queue \cup {}, seen'.asks, told', refused \/ {} # {})
    <2>1. Reported(new, queue \cup {}, seen.asks, told', refused)
      BY <1>1, <1>5, <1>6
    <2>2. /\ a \in Addrs /\ seen.asks \in [Addrs -> Nat]
          /\ seen.asks[a] <= (IF refused THEN 1 ELSE 0)
          /\ seen'.asks = More(seen.asks, a)
      BY <1>1, AskFacts
    <2>3. Reported(new, queue \cup {}, seen'.asks, told', refused)
      BY <1>7, <2>1, <2>2, MoreReported, Zenon
    <2> QED BY <1>6, <2>3
  <1>9. phase \notin Outside /\ phase \notin Bogus /\ fallen' \in BOOLEAN
    BY <1>1, AskFacts DEF Outside, Bogus, ProbeInv, Typed
  <1> QED BY <1>1, <1>4, <1>5, <1>8, <1>9, AskFacts, SettledFacts, CloseInv, Zenon

\* A refusal of grouping: what still waits in the session waits again.
LEMMA RegroupInv ==
  ASSUME ProbeInv, UNCHANGED <<env, verdicts>>, phase \notin Outside \cup Bogus,
         NEW res \in [Addrs -> ResultType], NEW rest \in SUBSET s.todo, RegroupFrom(res, rest),
         told' \in ToldType, seen' \in SeenType, tokens' \in Nat,
         Reported(res, queue \cup rest, seen'.asks, told', refused \/ rest # {}),
         seen'.questions <= tokens', seen'.bogus = seen.bogus
  PROVE  ProbeInv'
  <1>1. Close(res, rest) /\ fallen' = (fallen \/ (MultiDomain /\ Named))
    BY Zenon DEF RegroupFrom
  <1>2. fallen' \in BOOLEAN
    BY <1>1
  <1>3. phase \notin Outside /\ phase \notin Bogus
    OBVIOUS
  <1> QED BY SMTT(30), <1>1, <1>2, <1>3, SettledFacts, CloseInv

\* A session is beside its first domain only while nobody refused grouping.
LEMMA ForeignFacts ==
  ASSUME ProbeInv, Foreign
  PROVE  ManyDomains /\ refused = FALSE
  BY Zenon DEF ProbeInv, Typed, Shape, Foreign

LEMMA DomainLimitInv ==
  ASSUME ProbeInv, UNCHANGED env, NEW a, NEW r, DomainLimit(a, r)
  PROVE  ProbeInv'
  <1>1. /\ Asking(a) /\ Foreign /\ Ask(a) /\ RegroupFrom(results, s.todo)
        /\ UNCHANGED <<verdicts, told>>
    BY Zenon DEF DomainLimit
  <1>2. refused = FALSE
    BY <1>1, ForeignFacts
  <1>3. /\ results \in [Addrs -> ResultType] /\ told \in ToldType
    BY DEF ProbeInv, Typed
  <1>4. /\ phase = "rcpt" /\ a \in s.todo /\ a \in Addrs /\ results[a].class = "none"
        /\ seen.asks \in [Addrs -> Nat] /\ seen'.asks = More(seen.asks, a)
        /\ seen' \in SeenType /\ seen'.bogus = seen.bogus
        /\ tokens' \in Nat /\ seen'.questions <= tokens'
        /\ Reported(results, queue \cup s.todo, seen.asks, told, FALSE)
    BY <1>1, <1>2, AskFacts, Zenon
  <1>5. Reported(results, queue \cup s.todo, seen'.asks, told', TRUE)
    <2>1. Reported(results, queue \cup s.todo, More(seen.asks, a), told, TRUE)
      BY <1>3, <1>4, RefusedReported, Zenon
    <2>2. seen'.asks = More(seen.asks, a) /\ told' = told
      BY <1>1, <1>4
    <2> QED BY <2>1, <2>2, Zenon
  <1>6. (refused \/ s.todo # {}) = TRUE
    BY <1>4
  <1>7. phase \notin Outside \cup Bogus
    BY <1>4 DEF Outside, Bogus
  <1>8. Reported(results, queue \cup s.todo, seen'.asks, told', refused \/ s.todo # {})
    BY <1>5, <1>6, Zenon
  <1> QED BY <1>1, <1>3, <1>4, <1>7, <1>8, RegroupInv, Zenon

LEMMA RelayRefusedInv ==
  ASSUME ProbeInv, UNCHANGED env, NEW a, NEW r, RelayRefused(a, r)
  PROVE  ProbeInv'
  <1> DEFINE new == WithAnswer(results, a, "policy")
             rest == s.todo \ {a}
  <1>1. /\ Asking(a) /\ Foreign /\ Ask(a) /\ RegroupFrom(new, rest)
        /\ UNCHANGED <<verdicts, told>>
    BY Zenon DEF RelayRefused, WithAnswer
  <1>2. ManyDomains
    BY <1>1, ForeignFacts
  <1>3. /\ phase = "rcpt" /\ seen' \in SeenType /\ seen'.bogus = seen.bogus
        /\ tokens' \in Nat /\ seen'.questions <= tokens'
    BY <1>1, AskFacts, Zenon
  <1>4. told \in ToldType /\ refused \in BOOLEAN /\ "policy" \in Classes \ {"none"}
    BY DEF ProbeInv, Typed, Classes
  <1>5. Hears("policy", told, told')
    BY <1>1, <1>2, <1>4 DEF Hears
  <1>6. /\ new \in [Addrs -> ResultType]
        /\ Reported(new, queue \cup rest, seen'.asks, told', refused)
    BY <1>1, <1>4, <1>5, AnswerReported, Zenon
  <1>7. seen'.asks \in [Addrs -> Nat] /\ (rest # {}) \in BOOLEAN
    BY <1>3 DEF SeenType
  <1>8. phase \notin Outside \cup Bogus /\ rest \subseteq s.todo
    BY <1>3 DEF Outside, Bogus
  <1> HIDE DEF new, rest
  <1>9. Reported(new, queue \cup rest, seen'.asks, told', refused \/ rest # {})
    BY <1>4, <1>6, <1>7, RefusalReported, Zenon
  <1> QED BY <1>1, <1>3, <1>4, <1>6, <1>8, <1>9, RegroupInv, Zenon

LEMMA PolicyStopNat ==
  ASSUME Typed
  PROVE  policyStopFor \in Nat
  BY RequestFacts DEF policyStopFor

LEMMA AnswerInv ==
  ASSUME ProbeInv, UNCHANGED env, NEW a, NEW r \in Replies, Answer(a, r)
  PROVE  ProbeInv'
  <1> DEFINE class == ClassifyAs(r)
             res  == WithAnswer(results, a, class)
             run  == IF class = "policy" THEN s.run + 1 ELSE 0
             stop == policyStopFor > 0 /\ run >= policyStopFor
             left == s.todo \ {a}
  <1>1. /\ Asking(a) /\ Ask(a) /\ Tell(class) /\ UNCHANGED <<verdicts, fallen>>
        /\ \/ stop /\ Close(Mark(res, left, "policy"), {})
           \/ /\ results' = res
              /\ s' = [s EXCEPT !.todo = @ \ {a}, !.asked = @ + 1, !.run = run]
              /\ UNCHANGED <<phase, queue, known, refused>>
    BY Zenon DEF Answer, Unattempted, WithAnswer
  <1>2. class \in {"unknown", "deferred", "policy", "throttled", "bad_sequence", "valid",
                   "invalid"}
    BY ClassifyClass, ProbeAssumption
  <1> HIDE DEF class
  <1>3. class \in Classes \ {"none"} /\ class \notin NetErrors
    BY <1>2 DEF Classes, NetErrors
  <1>4. /\ phase = "rcpt" /\ a \in s.todo
        /\ seen' \in SeenType /\ seen'.bogus = seen.bogus
        /\ tokens' \in Nat /\ seen'.questions <= tokens'
    BY <1>1, AskFacts, Zenon
  <1>5. told \in ToldType /\ s \in SessionType /\ s.run \in Nat /\ s.asked \in Nat
    BY DEF ProbeInv, Typed, SessionType
  <1>6. Hears(class, told, told') /\ told' \in ToldType
    BY <1>1, <1>3, <1>5, TellHears DEF Hears
  <1>7. queue \cup s.todo \subseteq Requested
    BY DEF ProbeInv, Shape
  <1>8. /\ res \in [Addrs -> ResultType]
        /\ Reported(res, queue \cup left, seen'.asks, told', refused)
    BY <1>1, <1>3, <1>6, AnswerReported, Zenon
  <1>9. phase \notin Outside \cup Bogus /\ left \subseteq s.todo
    BY <1>4, Zenon DEF Outside, Bogus
  <1> HIDE DEF res, left
  <1>10. CASE stop /\ Close(Mark(res, left, "policy"), {})
    <2>1. class = "policy"
      BY <1>10, PolicyStopNat DEF ProbeInv
    <2>2. told'.refusal = TRUE
      BY <1>1, <2>1, Zenon DEF Tell
    <2>3. Hears("policy", told', told') /\ "policy" \in NonVerdicts
      BY <1>6, <2>2 DEF Hears, NonVerdicts, Classes
    <2> HIDE DEF stop
    <2> QED BY <1>1, <1>4, <1>6, <1>7, <1>8, <1>9, <1>10, <2>3, GiveUpInv
  <1>11. CASE /\ results' = res
              /\ s' = [s EXCEPT !.todo = @ \ {a}, !.asked = @ + 1, !.run = run]
              /\ UNCHANGED <<phase, queue, known, refused>>
    <2> DEFINE asked == s.asked + 1
    <2>1. run \in Nat /\ asked \in Nat /\ left \subseteq Addrs
      BY <1>5, <1>9 DEF SessionType
    <2>0. s' = [s EXCEPT !.todo = left, !.asked = asked, !.run = run]
      BY <1>11 DEF left
    <2> HIDE DEF run, asked
    <2>2. /\ s' \in SessionType /\ s'.todo = left /\ s'.batch = s.batch /\ s'.at = s.at
          /\ s'.ask = s.ask /\ s'.grouped = s.grouped /\ s'.asked = s.asked + 1
          /\ s'.held = s.held /\ s'.conn = s.conn
          /\ s'.bogus = s.bogus /\ s'.accepted = s.accepted
      <3>1. s' \in SessionType
        BY <1>5, <2>0, <2>1, Zenon DEF SessionType
      <3>2. /\ s'.todo = left /\ s'.batch = s.batch /\ s'.at = s.at
            /\ s'.ask = s.ask /\ s'.grouped = s.grouped /\ s'.asked = asked
            /\ s'.held = s.held /\ s'.conn = s.conn
            /\ s'.bogus = s.bogus /\ s'.accepted = s.accepted
        BY <1>5, <2>0 DEF SessionType
      <3> QED BY <3>1, <3>2 DEF asked
    <2>3. Typed'
      <3>1. phase' \in ProbePhases /\ known' \in BOOLEAN /\ refused' \in BOOLEAN
        BY <1>11 DEF ProbeInv, Typed
      <3> QED BY <1>1, <1>4, <1>6, <1>8, <1>11, <2>2, <3>1, Zenon DEF ProbeInv, Typed
    <2>4. Shape'
      <3>1. phase' \notin Outside \cup Bogus \cup Early \cup Between \cup {"start", "done"}
        BY <1>4, <1>11 DEF Outside, Bogus, Early, Between
      <3>2. s.at \in Domains
        BY <1>9 DEF ProbeInv, Shape
      <3>3. (DomainsOf(s.batch))' = DomainsOf(s.batch)
        BY <2>2 DEF DomainsOf
      <3>4. ~s'.grouped => (DomainsOf(s.batch))' = {s'.at}
        BY <1>9, <2>2, <3>3, Zenon DEF ProbeInv, Shape
      <3>5. /\ queue' \subseteq Requested' /\ s'.todo \subseteq s'.batch
            /\ s'.batch \subseteq Requested' \ queue' /\ Fits(s.batch)'
            /\ s'.grouped => ManyDomains' /\ ~refused'
        BY <1>7, <1>9, <1>11, <2>2, EnvSame DEF ProbeInv, Shape
      <3> QED BY <2>2, <3>1, <3>2, <3>4, <3>5 DEF Shape
    <2>5. Told'
      <3>1. Waiting' = queue \cup left
        BY <1>4, <1>11, <2>2 DEF Waiting
      <3> QED BY <1>8, <1>11, <3>1, ToldNext
    <2>6. Paid'
      <3>1. phase \in Leased /\ s'.asked # 0 /\ seen'.questions \in Nat
        BY SMTT(30), <1>4, <1>5, <2>2 DEF Leased, Paying, SeenType
      <3> QED BY <1>4, <1>11, <2>2, <3>1 DEF ProbeInv, Paid
    <2>7. Settled'
      <3>1. /\ s'.bogus = 0 /\ s'.accepted = 0 /\ phase \notin Bogus
            /\ phase' \notin Bogus \cup {"start", "done"}
        BY <1>4, <1>11, <2>2 DEF ProbeInv, Settled, Bogus
      <3>2. DomainsOf(left) \subseteq DomainsOf(s.todo)
        BY <1>9 DEF DomainsOf
      <3> QED BY <1>1, <1>4, <2>2, <3>1, <3>2, SettledKeeps DEF ProbeInv, Settled
    <2> QED BY <2>3, <2>4, <2>5, <2>6, <2>7 DEF ProbeInv
  <1> QED BY <1>1, <1>10, <1>11

LEMMA ReopenedInv ==
  ASSUME ProbeInv, UNCHANGED env, NEW r \in Replies, Reopened(r)
  PROVE  ProbeInv'
  <1> DEFINE class == beforeRCPT(r)
  <1>1. /\ phase \in Between /\ UNCHANGED <<verdicts, tokens, seen>>
        /\ \/ /\ r.code = 421 \/ IsThrottle(class)
              /\ told' = [told EXCEPT !.throttle = @ \/ IsThrottle(class)]
              /\ Close(Mark(results, s.todo, class), {}) /\ UNCHANGED fallen
           \/ RegroupFrom(results, s.todo) /\ UNCHANGED told
    BY Zenon DEF Reopened, Unattempted
  <1>2. r \in Reply
    BY ProbeAssumption
  <1>3. class \in {"unknown", "deferred", "policy", "throttled", "bad_sequence"}
    BY <1>2, BeforeClass
  <1>4. phase \notin Outside \cup Bogus
    BY <1>1 DEF Outside, Bogus, Between
  <1>5. s.todo # {}
    BY <1>1 DEF ProbeInv, Shape
  <1>6. told \in ToldType /\ results \in [Addrs -> ResultType] /\ seen \in SeenType
        /\ tokens \in Nat /\ seen.questions \in Nat /\ refused \in BOOLEAN
        /\ seen.asks \in [Addrs -> Nat]
    BY DEF ProbeInv, Typed, SeenType
  <1>7. ManyDomains
    BY <1>1 DEF ProbeInv, Shape
  <1> HIDE DEF class
  <1>8. CASE /\ r.code = 421 \/ IsThrottle(class)
             /\ told' = [told EXCEPT !.throttle = @ \/ IsThrottle(class)]
             /\ Close(Mark(results, s.todo, class), {}) /\ UNCHANGED fallen
    <2>1. Hears(class, told, told') /\ class \in NonVerdicts
      BY <1>3, <1>6, <1>7, <1>8, Zenon DEF Hears, ToldType, IsThrottle, NonVerdicts, Classes
    <2> QED BY <1>1, <1>4, <1>5, <1>8, <2>1, FailInv
  <1>9. CASE RegroupFrom(results, s.todo) /\ UNCHANGED told
    <2>1. Reported(results, queue \cup s.todo, seen.asks, told, refused)
      BY <1>4 DEF ProbeInv, Told, Waiting, Outside
    <2>2. Reported(results, queue \cup s.todo, seen.asks, told, refused \/ s.todo # {})
      BY <1>6, <2>1, RefusalReported, Zenon
    <2>3. seen.questions <= tokens
      BY <1>6 DEF ProbeInv, Paid
    <2> QED BY <1>1, <1>4, <1>6, <1>9, <2>2, <2>3, RegroupInv
  <1> QED BY <1>1, <1>8, <1>9

-----------------------------------------------------------------------------
(* The catch-all question, and the next domain *)

\* The next domain, or the end of the session, once the verdict of the last one
\* is in.
LEMMA NextGroupInv ==
  ASSUME ProbeInv, UNCHANGED <<env, fallen, tokens, told, seen>>, NextGroup,
         phase \in {"rcpt", "decide"}, Current = {},
         verdicts' \in [Domains -> VerdictType],
         \A d \in Domains :
           /\ verdicts'[d] = NoVerdict => seen.bogus[d] = {}
           /\ MixedAnswers(seen.bogus[d]) => verdicts'[d].randomiser = "yes",
         \A d \in Domains \ {s.at} : verdicts'[d] = verdicts[d]
  PROVE  ProbeInv'
  <1>1. /\ results \in [Addrs -> ResultType] /\ told' \in ToldType /\ seen' \in SeenType
        /\ fallen' \in BOOLEAN /\ tokens' \in Nat /\ refused = (refused \/ {} # {})
        /\ seen.questions \in Nat /\ s \in SessionType /\ s.ask \subseteq Domains
    BY DEF ProbeInv, Typed, SeenType, SessionType
  <1>2. phase \notin Outside /\ s.at \in Domains
    BY Zenon DEF ProbeInv, Shape, Outside
  <1>3. CASE s.todo = {} /\ Close(results, {})
    <2>1. Reported(results, queue \cup {}, seen'.asks, told', refused \/ {} # {})
      BY <1>1, <1>2, <1>3, Zenon DEF ProbeInv, Told, Waiting, Outside
    <2>2. seen'.questions <= tokens'
      BY <1>1 DEF ProbeInv, Paid
    <2>3. \A d \in Domains :
            /\ verdicts'[d] = NoVerdict => seen'.bogus[d] = {}
            /\ MixedAnswers(seen'.bogus[d]) => verdicts'[d].randomiser = "yes"
      BY Zenon
    <2> QED BY <1>1, <1>2, <1>3, <2>1, <2>2, <2>3, CloseInv, Zenon
  <1>4. ASSUME NEW d \in DomainsOf(s.todo),
               s' = [s EXCEPT !.at = d, !.first = FALSE, !.bogus = 0, !.accepted = 0,
                              !.audit = FALSE],
               phase' = "rset", UNCHANGED <<queue, results, known, refused>>
        PROVE  ProbeInv'
    <2>1. d \in Domains /\ d # s.at /\ s.todo # {}
      <3>1. s.todo \subseteq Requested
        BY DEF ProbeInv, Shape
      <3>2. d \in Domains
        BY <1>4, <3>1, RequestFacts DEF ProbeInv, DomainsOf
      <3>3. d # s.at /\ s.todo # {}
        BY <1>4 DEF DomainsOf, Current, Of
      <3> QED BY <3>2, <3>3
    <2>2. s.grouped
      <3>1. d \in DomainsOf(s.batch)
        BY <1>4 DEF ProbeInv, Shape, DomainsOf
      <3> QED BY <1>2, <2>1, <3>1 DEF ProbeInv, Shape
    <2>3. /\ s' \in SessionType /\ s'.todo = s.todo /\ s'.batch = s.batch /\ s'.at = d
          /\ s'.ask = s.ask /\ s'.grouped = s.grouped /\ s'.asked = s.asked
          /\ s'.held = s.held /\ s'.conn = s.conn
          /\ s'.bogus = 0 /\ s'.accepted = 0
      BY <1>1, <1>4, <2>1, Zenon DEF SessionType
    <2>4. Typed'
      <3>1. phase' \in ProbePhases
        BY <1>4 DEF ProbePhases
      <3> QED BY <1>1, <1>4, <2>3, <3>1 DEF ProbeInv, Typed
    <2>5. Shape' /\ Told'
      <3>1. phase' \notin Outside /\ phase' \notin Early /\ phase' \notin Bogus
        BY <1>4 DEF Outside, Early, Bogus
      <3> QED BY <1>2, <1>4, <2>1, <2>2, <2>3, <3>1, MoveKeeps
    <2>6. Paid'
      <3>1. /\ phase \in Leased /\ phase' \in Leased
            /\ phase \in Paying /\ phase' \in Paying
        BY <1>4 DEF Leased, Paying
      <3> QED BY <1>4, <2>3, <3>1 DEF ProbeInv, Paid
    <2>7. Settled'
      <3>1. \A e \in s.ask : e = d \/ e \in DomainsOf(s.todo) => verdicts'[e] = NoVerdict
        <4>1. s.at \notin DomainsOf(s.todo)
          BY Zenon DEF DomainsOf, Current, Of
        <4> QED BY <1>1, <1>4, <2>1, <4>1 DEF ProbeInv, Settled
      <3>2. (DomainsOf(s.todo))' = DomainsOf(s.todo)
        BY <2>3 DEF DomainsOf
      <3>3. phase' \notin Bogus /\ phase' # "start" /\ phase' # "done"
        BY <1>4 DEF Bogus
      <3> QED BY <2>3, <3>1, <3>2, <3>3, Zenon DEF Settled, MixedAnswersCondemnHost
    <2> QED BY <2>4, <2>5, <2>6, <2>7 DEF ProbeInv
  <1> QED BY <1>3, <1>4, Zenon DEF NextGroup

LEMMA NoCatchAllInv ==
  ASSUME ProbeInv, UNCHANGED env, NoCatchAll
  PROVE  ProbeInv'
  <1>1. /\ phase = "rcpt" /\ Current = {} /\ NextGroup
        /\ UNCHANGED <<verdicts, fallen, tokens, told, seen>>
    BY Zenon DEF NoCatchAll, Answered
  <1>2. phase \notin Bogus /\ phase \in {"rcpt", "decide"} /\ seen'.bogus = seen.bogus
    BY <1>1 DEF Bogus
  <1> QED BY <1>1, <1>2, SettledFacts, NextGroupInv

LEMMA AskCatchAllInv ==
  ASSUME ProbeInv, UNCHANGED env, NEW audit \in BOOLEAN, AskCatchAll(audit)
  PROVE  ProbeInv'
  <1>1. /\ phase = "rcpt" /\ Current = {} /\ s.at \in s.ask
        /\ s' = [s EXCEPT !.audit = audit] /\ phase' = "bogus"
        /\ UNCHANGED <<queue, results, verdicts, known, fallen, refused, tokens, told, seen>>
    BY Zenon DEF AskCatchAll, Answered
  <1>2. s \in SessionType /\ s.at \in Domains
    BY <1>1 DEF ProbeInv, Typed, Shape, Outside
  <1>3. /\ s' \in SessionType /\ s'.todo = s.todo /\ s'.batch = s.batch /\ s'.at = s.at
        /\ s'.ask = s.ask /\ s'.grouped = s.grouped /\ s'.asked = s.asked
        /\ s'.held = s.held /\ s'.conn = s.conn
        /\ s'.bogus = s.bogus /\ s'.accepted = s.accepted
    BY <1>1, <1>2 DEF SessionType
  <1>4. Typed'
    BY <1>1, <1>3 DEF ProbeInv, Typed, ProbePhases
  <1>5. Shape' /\ Told'
    <2>1. /\ phase \notin Outside /\ phase' \notin Outside /\ phase' \notin Early
          /\ phase' \notin Between /\ Of(s.todo, s'.at) = {}
      BY <1>1, <1>3 DEF Outside, Early, Between, Current
    <2> QED BY <1>1, <1>2, <1>3, <2>1, MoveKeeps
  <1>6. Paid'
    <2>1. phase \in Leased /\ phase' \in Leased /\ phase \in Paying /\ phase' \in Paying
      BY <1>1 DEF Leased, Paying
    <2> QED BY <1>1, <1>3, <2>1 DEF ProbeInv, Paid
  <1>7. Settled'
    <2>1. phase \notin Bogus /\ phase' \in Bogus /\ phase' # "start" /\ phase' # "done"
      BY <1>1 DEF Bogus
    <2>2. s.bogus = 0 /\ s.accepted = 0 /\ verdicts[s.at] = NoVerdict /\ seen.bogus[s.at] = {}
      BY <1>1, <1>2, <2>1 DEF ProbeInv, Settled
    <2>3. (DomainsOf(s.todo))' = DomainsOf(s.todo)
      BY <1>3 DEF DomainsOf
    <2> QED BY <1>1, <1>3, <2>1, <2>2, <2>3 DEF ProbeInv, Settled, MixedAnswersCondemnHost
  <1> QED BY <1>4, <1>5, <1>6, <1>7 DEF ProbeInv

LEMMA BogusAnswerInv ==
  ASSUME ProbeInv, UNCHANGED env, NEW r \in Replies, BogusAnswer(r)
  PROVE  ProbeInv'
  <1> DEFINE class == ClassifyAs(r)
             heard == [seen.bogus EXCEPT ![s.at] = @ \cup {class}]
             accepted == IF class = "valid" THEN s.accepted + 1 ELSE s.accepted
  <1>1. /\ phase = "bogus" /\ phase' \in {"bogus", "decide"} /\ tokens' = tokens + 1
        /\ s' = [s EXCEPT !.bogus = @ + 1,
                          !.accepted = IF class = "valid" THEN @ + 1 ELSE @]
        /\ seen' = [seen EXCEPT !.questions = @ + 1, !.bogus[s.at] = @ \cup {class}]
        /\ UNCHANGED <<queue, results, verdicts, known, fallen, refused, told>>
    BY Zenon DEF BogusAnswer
  <1>2. class \in Classes
    BY ClassifyClass, ProbeAssumption DEF Classes
  <1> HIDE DEF class
  <1>3. /\ s \in SessionType /\ s.at \in Domains /\ s.bogus \in Nat /\ s.accepted \in Nat
        /\ seen \in SeenType /\ seen.bogus \in [Domains -> SUBSET Classes]
        /\ seen.questions \in Nat /\ tokens \in Nat /\ seen.asks \in [Addrs -> Nat]
    BY <1>1 DEF ProbeInv, Typed, Shape, Outside, SessionType, SeenType
  <1>4. accepted \in Nat
    BY <1>3
  <1>5. s' = [s EXCEPT !.bogus = s.bogus + 1, !.accepted = accepted]
    BY <1>1, <1>3 DEF SessionType
  <1>6. seen' = [asks |-> seen.asks, bogus |-> heard, questions |-> seen.questions + 1]
    BY <1>1, <1>3, Zenon DEF SeenType
  <1>7. /\ heard \in [Domains -> SUBSET Classes] /\ heard[s.at] = seen.bogus[s.at] \cup {class}
        /\ \A d \in Domains \ {s.at} : heard[d] = seen.bogus[d]
    BY <1>2, <1>3
  <1> HIDE DEF heard
  <1>8. /\ seen' \in SeenType /\ seen'.asks = seen.asks /\ seen'.bogus = heard
        /\ seen'.questions = seen.questions + 1
    BY <1>3, <1>6, <1>7 DEF SeenType
  <1>9. /\ s' \in SessionType /\ s'.todo = s.todo /\ s'.batch = s.batch /\ s'.at = s.at
        /\ s'.ask = s.ask /\ s'.grouped = s.grouped /\ s'.asked = s.asked
        /\ s'.held = s.held /\ s'.conn = s.conn
        /\ s'.bogus = s.bogus + 1 /\ s'.accepted = accepted
    <2> DEFINE bogus == s.bogus + 1
    <2>1. bogus \in Nat
      BY <1>3
    <2> HIDE DEF accepted, bogus
    <2>2. s' = [s EXCEPT !.bogus = bogus, !.accepted = accepted]
      BY <1>5 DEF bogus
    <2>3. s' \in SessionType
      BY <1>3, <1>4, <2>1, <2>2, Zenon DEF SessionType
    <2>4. /\ s'.todo = s.todo /\ s'.batch = s.batch /\ s'.at = s.at
          /\ s'.ask = s.ask /\ s'.grouped = s.grouped /\ s'.asked = s.asked
          /\ s'.held = s.held /\ s'.conn = s.conn
          /\ s'.bogus = bogus /\ s'.accepted = accepted
      BY <1>3, <2>2 DEF SessionType
    <2> QED BY <2>3, <2>4 DEF bogus
  <1>10. Typed'
    BY <1>1, <1>3, <1>8, <1>9 DEF ProbeInv, Typed, ProbePhases
  <1>11. Shape' /\ Told'
    <2>1. /\ phase \notin Outside /\ phase' \notin Outside /\ phase' \notin Early
          /\ phase' \notin Between
      BY <1>1 DEF Outside, Early, Between
    <2>2. Of(s.todo, s'.at) = {}
      BY <1>1, <1>9 DEF ProbeInv, Shape, Bogus, Current
    <2> QED BY <1>1, <1>3, <1>8, <1>9, <2>1, <2>2, MoveKeeps
  <1>12. Paid'
    <2>1. phase \in Leased /\ phase' \in Leased /\ phase \in Paying /\ phase' \in Paying
      BY <1>1 DEF Leased, Paying
    <2>2. seen.questions + (IF s.asked = 0 THEN 1 ELSE 0) <= tokens
      BY <2>1 DEF ProbeInv, Paid
    <2>3. seen'.questions + (IF s.asked = 0 THEN 1 ELSE 0) <= tokens'
      BY <1>1, <1>3, <1>8, <2>2
    <2> QED BY <1>9, <2>1, <2>3 DEF ProbeInv, Paid
  <1>13. Settled'
    <2>1. phase \in Bogus /\ phase' \in Bogus /\ phase' # "start" /\ phase' # "done"
      BY <1>1 DEF Bogus
    <2>2. /\ s.accepted <= s.bogus
          /\ "valid" \in seen.bogus[s.at] => s.accepted > 0
          /\ ~(seen.bogus[s.at] \subseteq {"valid"}) => s.accepted < s.bogus
      BY <2>1 DEF ProbeInv, Settled
    <2>3. /\ accepted <= s.bogus + 1 /\ s.bogus + 1 # 0
          /\ "valid" \in heard[s.at] => accepted > 0
          /\ ~(heard[s.at] \subseteq {"valid"}) => accepted < s.bogus + 1
      BY <1>3, <1>7, <2>2
    <2> HIDE DEF accepted
    <2>4. (DomainsOf(s.todo))' = DomainsOf(s.todo)
      BY <1>9 DEF DomainsOf
    <2>5. \A d \in Domains : d # s.at =>
            /\ verdicts[d] = NoVerdict => heard[d] = {}
            /\ MixedAnswers(heard[d]) => verdicts[d].randomiser = "yes"
      BY <1>7, <2>1 DEF ProbeInv, Settled
    <2>6. \A d \in s.ask : d = s.at \/ d \in DomainsOf(s.todo) => verdicts[d] = NoVerdict
      BY Zenon DEF ProbeInv, Settled
    <2> QED BY <1>1, <1>8, <1>9, <2>1, <2>3, <2>4, <2>5, <2>6, ZenonT(30)
            DEF Settled, MixedAnswersCondemnHost
  <1> QED BY <1>10, <1>11, <1>12, <1>13 DEF ProbeInv

LEMMA BogusCutInv ==
  ASSUME ProbeInv, UNCHANGED env, NEW sent \in BOOLEAN, BogusCut(sent)
  PROVE  ProbeInv'
  <1> DEFINE conn == IF sent THEN "dead" ELSE s.conn
  <1>1. /\ phase = "bogus" /\ phase' = "decide"
        /\ tokens' = (IF sent THEN tokens + 1 ELSE tokens)
        /\ seen' = (IF sent THEN [seen EXCEPT !.questions = @ + 1] ELSE seen)
        /\ s' = [s EXCEPT !.conn = IF sent THEN "dead" ELSE @]
        /\ UNCHANGED <<queue, results, verdicts, known, fallen, refused, told>>
    BY Zenon DEF BogusCut
  <1>2. /\ s \in SessionType /\ s.at \in Domains /\ seen \in SeenType
        /\ seen.questions \in Nat /\ tokens \in Nat /\ conn \in {"none", "open", "dead"}
    BY <1>1 DEF ProbeInv, Typed, Shape, Outside, SessionType, SeenType
  <1>3. /\ seen' \in SeenType /\ seen'.asks = seen.asks /\ seen'.bogus = seen.bogus
        /\ seen'.questions = IF sent THEN seen.questions + 1 ELSE seen.questions
    BY <1>1, <1>2 DEF SeenType
  <1>4. s' = [s EXCEPT !.conn = conn]
    BY <1>1, <1>2 DEF SessionType
  <1> HIDE DEF conn
  <1>5. /\ s' \in SessionType /\ s'.todo = s.todo /\ s'.batch = s.batch /\ s'.at = s.at
        /\ s'.ask = s.ask /\ s'.grouped = s.grouped /\ s'.asked = s.asked
        /\ s'.held = s.held /\ s'.bogus = s.bogus /\ s'.accepted = s.accepted
    BY <1>2, <1>4 DEF SessionType
  <1>6. Typed'
    BY <1>1, <1>2, <1>3, <1>5 DEF ProbeInv, Typed, ProbePhases
  <1>7. Shape' /\ Told'
    <2>1. /\ phase \notin Outside /\ phase' \notin Outside /\ phase' \notin Early
          /\ phase' \notin Between
      BY <1>1 DEF Outside, Early, Between
    <2>2. Of(s.todo, s'.at) = {}
      BY <1>1, <1>5 DEF ProbeInv, Shape, Bogus, Current
    <2> QED BY <1>1, <1>2, <1>3, <1>5, <2>1, <2>2, MoveKeeps
  <1>8. Paid'
    <2>1. phase \in Leased /\ phase' \in Leased /\ phase \in Paying /\ phase' \in Paying
      BY <1>1 DEF Leased, Paying
    <2>2. seen.questions + (IF s.asked = 0 THEN 1 ELSE 0) <= tokens /\ s.held
      BY <2>1 DEF ProbeInv, Paid
    <2>3. seen'.questions + (IF s.asked = 0 THEN 1 ELSE 0) <= tokens'
      BY <1>1, <1>2, <1>3, <2>2
    <2> QED BY <1>5, <2>1, <2>2, <2>3 DEF Paid
  <1>9. Settled'
    <2>1. phase \in Bogus /\ phase' \in Bogus /\ phase' # "start" /\ phase' # "done"
      BY <1>1 DEF Bogus
    <2>2. (DomainsOf(s.todo))' = DomainsOf(s.todo)
      BY <1>5 DEF DomainsOf
    <2> QED BY <1>1, <1>3, <1>5, <2>1, <2>2 DEF ProbeInv, Settled, MixedAnswersCondemnHost
  <1> QED BY <1>6, <1>7, <1>8, <1>9 DEF ProbeInv

LEMMA DecideInv ==
  ASSUME ProbeInv, UNCHANGED env, Decide
  PROVE  ProbeInv'
  <1> DEFINE verdict == decideCatchAll(s.accepted, s.bogus)
  <1>1. /\ phase = "decide" /\ NextGroup /\ UNCHANGED <<fallen, tokens, told, seen>>
        /\ verdicts' = (IF s.bogus = 0 THEN verdicts ELSE [verdicts EXCEPT ![s.at] = verdict])
    BY Zenon DEF Decide
  <1>2. phase \in Bogus /\ phase \notin Outside
    BY <1>1 DEF Bogus, Outside
  <1>3. Current = {} /\ s.at \in Domains
    BY <1>2 DEF ProbeInv, Shape
  <1>4. s.accepted \in Nat /\ s.bogus \in Nat /\ verdicts \in [Domains -> VerdictType]
    BY DEF ProbeInv, Typed, SessionType
  <1>5. /\ s.accepted <= s.bogus
        /\ s.bogus = 0 => seen.bogus[s.at] = {}
        /\ "valid" \in seen.bogus[s.at] => s.accepted > 0
        /\ ~(seen.bogus[s.at] \subseteq {"valid"}) => s.accepted < s.bogus
    BY <1>2 DEF ProbeInv, Settled
  <1>6. verdict \in VerdictType
    BY DEF decideCatchAll, NoVerdict, VerdictType, Opt
  <1>7. ASSUME s.bogus # 0
        PROVE  /\ verdict # NoVerdict
               /\ MixedAnswers(seen.bogus[s.at]) => verdict.randomiser = "yes"
    <2>1. s.bogus > 0
      BY <1>4, <1>7
    <2>2. verdict.catchAll # "nil"
      BY <1>4, <2>1 DEF decideCatchAll
    <2>3. verdict # NoVerdict
      BY <2>2 DEF NoVerdict
    <2>4. ASSUME MixedAnswers(seen.bogus[s.at])
          PROVE  verdict.randomiser = "yes"
      <3>1. s.accepted > 0 /\ s.accepted < s.bogus
        BY <1>5, <2>4 DEF MixedAnswers
      <3>2. ~(s.bogus = 0) /\ ~(s.bogus > 0 /\ s.accepted = s.bogus)
            /\ ~(s.bogus > 0 /\ s.accepted = 0)
        BY <1>4, <3>1
      <3> QED BY <3>2 DEF decideCatchAll
    <2> QED BY <2>3, <2>4
  <1> HIDE DEF verdict
  <1>8. /\ verdicts' \in [Domains -> VerdictType]
        /\ \A d \in Domains \ {s.at} : verdicts'[d] = verdicts[d]
        /\ s.bogus = 0 => verdicts' = verdicts
        /\ s.bogus # 0 => verdicts'[s.at] = verdict
    BY <1>1, <1>3, <1>4, <1>6
  <1>9. ASSUME NEW d \in Domains
        PROVE  /\ verdicts'[d] = NoVerdict => seen.bogus[d] = {}
               /\ MixedAnswers(seen.bogus[d]) => verdicts'[d].randomiser = "yes"
    <2>1. CASE d # s.at
      BY <1>8, <2>1 DEF ProbeInv, Settled
    <2>2. CASE d = s.at /\ s.bogus = 0
      BY <1>5, <2>2 DEF MixedAnswers
    <2>3. CASE d = s.at /\ s.bogus # 0
      BY <1>7, <1>8, <2>3, Zenon
    <2> QED BY <2>1, <2>2, <2>3
  <1> QED BY <1>1, <1>3, <1>8, <1>9, NextGroupInv

-----------------------------------------------------------------------------
(* The end of the request *)

LEMMA FinishInv ==
  ASSUME ProbeInv, UNCHANGED env, NEW marked \in BOOLEAN, Finish(marked)
  PROVE  ProbeInv'
  <1> DEFINE v(a) == IF known \/ Randomised THEN [catchAll |-> "yes", randomiser |-> "yes"]
                                            ELSE verdicts[domainOf[a]]
             new(a) == [results[a] EXCEPT !.catchAll = v(a).catchAll,
                                          !.randomiser = v(a).randomiser]
  <1>1. /\ phase = "take" /\ queue = {} /\ phase' = "done"
        /\ results' = [a \in Addrs |-> IF a \notin Requested THEN results[a] ELSE new(a)]
        /\ known' = (known \/ (Randomised /\ marked))
        /\ UNCHANGED <<queue, s, verdicts, fallen, refused, tokens, told, seen>>
    BY Zenon DEF Finish
  <1>2. s = NoSession
    BY <1>1, Zenon DEF ProbeInv, Shape, Outside
  <1>3. results \in [Addrs -> ResultType] /\ verdicts \in [Domains -> VerdictType]
        /\ domainOf \in [Addrs -> Domains]
    BY RequestFacts DEF ProbeInv, Typed
  <1>4. ASSUME NEW a \in Addrs
        PROVE  /\ results'[a] \in ResultType
               /\ results'[a].class = results[a].class
               /\ results'[a].accepted = results[a].accepted
               /\ results'[a].connected = results[a].connected
               /\ a \in Requested /\ Randomised => results'[a].randomiser = "yes"
    <2>1. v(a) \in VerdictType /\ (Randomised => v(a).randomiser = "yes")
      BY <1>3 DEF VerdictType, Opt
    <2>2. v(a).catchAll \in Opt /\ v(a).randomiser \in Opt
      BY <2>1 DEF VerdictType
    <2>3. results[a] \in ResultType
      BY <1>3
    <2>4. results'[a] = IF a \notin Requested THEN results[a] ELSE new(a)
      BY <1>1, Zenon
    <2> HIDE DEF v
    <2>5. /\ new(a) \in ResultType /\ new(a).class = results[a].class
          /\ new(a).accepted = results[a].accepted /\ new(a).connected = results[a].connected
          /\ new(a).randomiser = v(a).randomiser
      BY <2>2, <2>3, Zenon DEF ResultType
    <2> HIDE DEF new
    <2> QED BY <2>1, <2>3, <2>4, <2>5
  <1>5. results' \in [Addrs -> ResultType]
    BY <1>1, <1>4, Zenon
  <1> HIDE DEF v, new
  <1>6. known' \in BOOLEAN
    BY <1>1 DEF ProbeInv, Typed, Randomised
  <1>7. Typed'
    <2>1. phase' \in ProbePhases
      BY <1>1 DEF ProbePhases, Outside
    <2> QED BY <1>1, <1>5, <1>6, <2>1, Zenon DEF ProbeInv, Typed
  <1>8. Shape'
    <2>1. s' = NoSession /\ Fits({})'
      BY <1>1, <1>2, <1>7, EnvSame, NoneFits DEF ProbeInv
    <2>2. phase' \in Outside /\ phase' \notin Early \cup Between \cup Bogus /\ queue' = {}
      BY <1>1 DEF Outside, Early, Between, Bogus
    <2> QED BY <2>1, <2>2, NoSessionFacts DEF Shape
  <1>9. Told'
    <2>1. Waiting' = Waiting
      BY <1>1, <1>2 DEF Waiting
    <2>2. Reported(results, Waiting, seen.asks, told, refused)
      BY DEF ProbeInv, Told
    <2>3. Reported(results', Waiting, seen.asks, told, refused)
      BY <1>4, <2>2 DEF Reported, Waits, Answers, Heard, Asked
    <2> QED BY <1>1, <2>1, <2>3, ToldNext
  <1>10. Paid'
    <2>1. /\ phase \notin Leased /\ phase' \notin Leased
          /\ phase \notin Paying /\ phase' \notin Paying
      BY <1>1 DEF Leased, Paying
    <2> QED BY <1>1, <2>1 DEF ProbeInv, Paid
  <1>11. Settled'
    <2>1. phase \notin Bogus /\ phase' \notin Bogus /\ phase' # "start"
      BY <1>1 DEF Bogus
    <2>2. \A d \in Domains :
            /\ verdicts[d] = NoVerdict => seen.bogus[d] = {}
            /\ MixedAnswers(seen.bogus[d]) => verdicts[d].randomiser = "yes"
      BY <2>1 DEF ProbeInv, Settled
    <2>3. (\E d \in Domains : MixedAnswers(seen.bogus[d]))
            => \A a \in Requested : results'[a].randomiser = "yes"
      BY <1>4, <2>2, RequestFacts, Zenon DEF ProbeInv, Randomised
    <2>4. MixedAnswersCondemnHost'
      BY <1>1, <2>3, EnvSame, Zenon DEF MixedAnswersCondemnHost, MixedAnswers
    <2> QED BY <1>1, <1>2, <2>1, <2>2, <2>4, NoSessionFacts DEF Settled
  <1> QED BY <1>7, <1>8, <1>9, <1>10, <1>11 DEF ProbeInv

\* A step that changes nothing the invariant speaks of, but for its types.
LEMMA SameInv ==
  ASSUME ProbeInv, Typed',
         UNCHANGED <<env, phase, queue, s, results, verdicts, refused, tokens, told, seen>>
  PROVE  ProbeInv'
  <1>1. Shape'
    BY EnvSame DEF ProbeInv, Shape, Current, Of, DomainsOf
  <1>2. Told'
    <2>1. Waiting' = Waiting
      BY EnvSame DEF Waiting
    <2> QED BY <2>1, ToldNext DEF ProbeInv, Told
  <1>3. Paid'
    BY DEF ProbeInv, Paid
  <1>4. Settled'
    BY EnvSame, Zenon DEF ProbeInv, Settled, DomainsOf, MixedAnswersCondemnHost
  <1> QED BY <1>1, <1>2, <1>3, <1>4 DEF ProbeInv

LEMMA ElsewhereInv ==
  ASSUME ProbeInv, UNCHANGED env, FallenElsewhere
  PROVE  ProbeInv'
  <1>1. /\ fallen' = TRUE
        /\ UNCHANGED <<phase, queue, s, results, verdicts, known, refused, tokens, told, seen>>
    BY Zenon DEF FallenElsewhere
  <1>2. Typed'
    BY <1>1 DEF ProbeInv, Typed
  <1> QED BY <1>1, <1>2, SameInv DEF ProbeInv

LEMMA ProbeNextInv ==
  ASSUME ProbeInv, [Next]_<<env, vars>>
  PROVE  ProbeInv'
  <1>1. CASE UNCHANGED <<env, vars>>
    <2>1. UNCHANGED <<env, phase, queue, s, results, verdicts, known, fallen, refused, tokens,
                      told, seen>>
      BY <1>1, Zenon DEF vars
    <2>2. Typed'
      BY <2>1, Zenon DEF ProbeInv, Typed
    <2> QED BY <2>1, <2>2, SameInv
  <1>2. CASE Next /\ Step
    <2> USE <1>2
    <2>0. UNCHANGED env
      BY Zenon DEF Next
    <2>1. ASSUME NEW hit \in SUBSET Suppressible, Start(hit) PROVE ProbeInv'
      BY <2>0, <2>1, StartInv, Zenon
    <2>2. ASSUME NEW d \in DomainsOf(queue), TakeSession(d) PROVE ProbeInv'
      BY <2>0, <2>2, TakeInv, Zenon
    <2>3. ASSUME Prepare \/ Greeted \/ StayPlain \/ Upgrade \/ HandshakeFails PROVE ProbeInv'
      BY <2>0, <2>3, PrepareInv, GreetedInv, PlainInv, HandshakeInv, Zenon
    <2>4. ASSUME NEW class \in Classes,
                 \/ NotPrepared(class) \/ Dropped(class) \/ OutOfBudget(class)
                 \/ NotOpened(class) \/ \E a \in s.todo : Lost(a, class)
          PROVE  ProbeInv'
      BY <2>0, <2>4, NotPreparedInv, DroppedInv, OutOfBudgetInv, NotOpenedInv, LostInv, Zenon
    <2>5. ASSUME NEW r \in Replies, TurnedAway(r) \/ BogusAnswer(r) \/ Reopened(r)
          PROVE  ProbeInv'
      BY <2>0, <2>5, TurnedAwayInv, BogusAnswerInv, ReopenedInv, Zenon
    <2>6. ASSUME NEW r \in Replies, NEW a \in s.todo,
                 DomainLimit(a, r) \/ RelayRefused(a, r) \/ Answer(a, r)
          PROVE  ProbeInv'
      BY <2>0, <2>6, DomainLimitInv, RelayRefusedInv, AnswerInv, Zenon
    <2>7. ASSUME NoCatchAll \/ Decide \/ Opened PROVE ProbeInv'
      BY <2>0, <2>7, NoCatchAllInv, DecideInv, OpenedInv, Zenon
    <2>8. ASSUME NEW b \in BOOLEAN, AskCatchAll(b) \/ BogusCut(b) \/ Finish(b)
          PROVE  ProbeInv'
      BY <2>0, <2>8, AskCatchAllInv, BogusCutInv, FinishInv, Zenon
    <2> QED BY <2>1, <2>2, <2>3, <2>4, <2>5, <2>6, <2>7, <2>8, Zenon DEF Step
  <1>3. CASE Next /\ FallenElsewhere
    BY <1>3, ElsewhereInv, Zenon DEF Next
  <1>4. CASE Next /\ Done
    <2>1. UNCHANGED <<env, vars>>
      BY <1>4, Zenon DEF Next, Done
    <2> QED BY <1>1, <2>1
  <1> QED BY <1>1, <1>2, <1>3, <1>4, Zenon DEF Next

\* What the invariant says of an ended request and of its results.
LEMMA ProbeInvSafe ==
  ASSUME ProbeInv
  PROVE  /\ EveryAddressAnswered /\ VerdictOnlyFromRCPT /\ PacerHears
         /\ AskedAgainOnlyUngrouped /\ LeasedAndPaid /\ MixedAnswersCondemnHost
  <1>1. /\ Waits(results, Waiting) /\ Answers(results, seen.asks) /\ Heard(results, told)
        /\ Asked(results, seen.asks, refused)
    BY DEF ProbeInv, Told, Reported
  <1>2. EveryAddressAnswered
    <2>1. ASSUME phase = "done" PROVE Waiting = {}
      <3>1. s = NoSession /\ queue = {}
        BY <2>1 DEF ProbeInv, Shape, Outside
      <3> QED BY <2>1, <3>1, NoSessionFacts DEF Waiting
    <2> QED BY <1>1, <2>1, RequestFacts DEF EveryAddressAnswered, Waits, ProbeInv
  <1>3. VerdictOnlyFromRCPT /\ PacerHears /\ AskedAgainOnlyUngrouped
    BY <1>1, Zenon DEF VerdictOnlyFromRCPT, PacerHears, AskedAgainOnlyUngrouped, Answers,
       Heard, Asked, ManyDomains
  <1>4. LeasedAndPaid
    <2>1. TypeOK
      <3>1. phase \in {"start", "take", "starttls", "rcpt", "bogus", "decide", "done"}
                      \cup Before \cup DOMAIN Expected \cup Between
        BY DEF ProbeInv, Typed, ProbePhases, Outside, Early, Before, Expected, Between
      <3>2. /\ queue \subseteq Requested /\ s.todo \subseteq s.batch
            /\ s.batch \subseteq Requested \ queue /\ Fits(s.batch)
        BY Zenon DEF ProbeInv, Shape
      <3>3. /\ results \in [Addrs -> ResultType] /\ verdicts \in [Domains -> VerdictType]
            /\ tokens \in Nat /\ {known, fallen, refused} \subseteq BOOLEAN
        BY DEF ProbeInv, Typed
      <3> QED BY <3>1, <3>2, <3>3, Zenon DEF TypeOK, ResultType, VerdictType
    <2>2. phase = "lease" => ~s.held
      BY DEF ProbeInv, Paid, Leased, Paying
    <2>3. seen.questions <= tokens
      BY DEF ProbeInv, Paid, Typed, SeenType
    <2> QED BY <2>1, <2>2, <2>3 DEF LeasedAndPaid, ProbeInv, Paid
  <1>5. MixedAnswersCondemnHost
    BY Zenon DEF ProbeInv, Settled
  <1> QED BY <1>2, <1>3, <1>4, <1>5

-----------------------------------------------------------------------------
(* What a probe request promises *)

\* Every state of a request satisfies the invariant, whatever Redis, the network
\* and the receiver do.
THEOREM ProbeInvariant == Spec => []ProbeInv
  BY ProbeInitInv, ProbeNextInv, PTL DEF Spec

\* However sessions fail, are cut short, are run again in plaintext or have their
\* domains asked one by one, no address of a request is left without a result.
THEOREM ProbeAnswersAll == Spec => []EveryAddressAnswered
  BY ProbeInvariant, ProbeInvSafe, PTL

\* An address is called valid or invalid only by a reply to an RCPT about it.
THEOREM ProbeVerdicts == Spec => []VerdictOnlyFromRCPT
  BY ProbeInvariant, ProbeInvSafe, PTL

\* observe and refused are called exactly for the throttles and the refusals that
\* the results report, but for those of grouping.
THEOREM ProbeReports == Spec => []PacerHears
  BY ProbeInvariant, ProbeInvSafe, PTL

\* regroupFrom is the only way an address is asked about twice, and it happens to
\* an address once.
THEOREM ProbeAsksOnce == Spec => []AskedAgainOnlyUngrouped
  BY ProbeInvariant, ProbeInvSafe, PTL

\* The rerun in plaintext never waits for a lease it holds, and every question,
\* bogus ones included, has a token of its own.
THEOREM ProbePaysAndLeases == Spec => []LeasedAndPaid
  BY ProbeInvariant, ProbeInvSafe, PTL

\* A host whose bogus answers were mixed, for any domain and in any session, ends
\* as a randomiser in every result.
THEOREM ProbeCondemns == Spec => []MixedAnswersCondemnHost
  BY ProbeInvariant, ProbeInvSafe, PTL
-----------------------------------------------------------------------------
(* The stand-down guard *)

\* What an Observe in progress carries: the host that refused, at a time that is
\* not older than its context allows nor newer than that host's last refusal.
ObserveInv ==
  \A c \in Sessions : call[c].phase # "idle" =>
    /\ call[c].host \in Hosts /\ call[c].now <= last[call[c].host]
    /\ call[c].now <= clock /\ clock - call[c].now <= MaxLag

\* No host has refused in the future.
LastInv == \A h \in Hosts : last[h] <= clock

\* What is counted after the old refusals were dropped.
CountInv ==
  \A c \in Sessions : call[c].phase = "zcard" =>
    \A h \in Hosts : refusals[h] # Never => refusals[h] + Reach >= call[c].now + MaxLag

\* The guard's record, and one about to be made, is not ahead of the pause it
\* records by more than the time an Observe takes.
StandInv ==
  /\ stood <= clock + Pause
  /\ ~crossed =>
       /\ op = "idle" => stood <= paused + MaxLag
       /\ \A c \in Sessions : call[c].phase = "stand" => Until(c) <= paused + MaxLag

GuardInv == GuardTypeOK /\ ObserveInv /\ LastInv /\ CountInv /\ StandInv

Phases   == {"idle", "zadd", "zrem", "zcard", "pause", "stand"}
ObserveType == [phase : Phases, host : Hosts \cup {"none"}, names : BOOLEAN, now : 0..MaxTime]
Stamp    == 0..MaxTime \cup {Never}

\* An Observe goes from one phase to the next with what it carries, or returns.
Turns(c, ph) ==
  /\ call' \in [Sessions -> ObserveType]
  /\ call'[c].phase = ph
  /\ ph # "idle" => call'[c].host = call[c].host /\ call'[c].now = call[c].now
  /\ \A d \in Sessions \ {c} : call'[d] = call[d]

\* A session's next phase, as a turn of that session.
LEMMA ToTurns ==
  ASSUME GuardTypeOK, NEW c \in Sessions, NEW ph \in Phases, To(c, ph)
  PROVE  Turns(c, ph)
  BY DEF GuardTypeOK, To, Turns, ObserveType, Phases

LEMMA ReturnTurns ==
  ASSUME GuardTypeOK, NEW c \in Sessions, Return(c)
  PROVE  Turns(c, "idle")
  BY StandDownAssumption DEF GuardTypeOK, Return, Turns, ObserveType, Phases, Idle

\* A turn leaves every Observe with what it carried.
LEMMA TurnsCallInv ==
  ASSUME ObserveInv, NEW c \in Sessions, NEW ph, Turns(c, ph),
         call[c].phase # "idle", UNCHANGED <<clock, last>>
  PROVE  ObserveInv'
  BY DEF ObserveInv, Turns

\* Nothing refused and nobody stood down.
LEMMA GuardInitInv == GuardInit => GuardInv
  <1> SUFFICES ASSUME GuardInit PROVE GuardInv
    OBVIOUS
  <1>1. GuardTypeOK
    <2>1. Idle \in ObserveType
      BY StandDownAssumption DEF Idle, ObserveType, Phases
    <2>2. call \in [Sessions -> ObserveType]
      BY <2>1, Zenon DEF GuardInit
    <2>3. 0 \in 0..MaxTime /\ 0 \in Nat
      BY StandDownAssumption
    <2>4. /\ clock \in 0..MaxTime /\ stood \in Nat /\ paused \in Nat
          /\ op = "idle" /\ crossed \in BOOLEAN
      BY <2>3, Zenon DEF GuardInit
    <2>5. /\ refusals \in [Hosts -> Stamp] /\ last \in [Hosts -> Stamp]
          /\ \A h \in Hosts : refusals[h] = Never /\ last[h] = Never
      BY DEF GuardInit, Stamp
    <2>6. \A h \in Hosts : refusals[h] <= last[h]
      BY <2>5 DEF Never
    <2> QED BY <2>2, <2>4, <2>5, <2>6, Zenon DEF GuardTypeOK, ObserveType, Phases, Stamp
  <1>3. LastInv
    BY DEF GuardInit, LastInv, Never
  <1>4. ObserveInv /\ CountInv
    BY DEF GuardInit, ObserveInv, CountInv, Idle
  <1>5. StandInv
    BY StandDownAssumption DEF GuardInit, StandInv, Idle
  <1> QED BY <1>1, <1>3, <1>4, <1>5 DEF GuardInv

\* Observe begins with the clock it read.
LEMMA ObserveStep ==
  ASSUME GuardInv, NEW c \in Sessions, NEW h \in Hosts, NEW names \in BOOLEAN,
         Observe(c, h, names)
  PROVE  GuardInv'
  <1> DEFINE r == [phase |-> "zadd", host |-> h, names |-> names, now |-> clock]
  <1>1. /\ call' = [call EXCEPT ![c] = r] /\ last' = [last EXCEPT ![h] = clock]
        /\ UNCHANGED <<clock, refusals, stood, paused, op, crossed>>
    BY DEF Observe
  <1>2. GuardTypeOK /\ r \in ObserveType /\ clock \in 0..MaxTime
    BY DEF GuardInv, GuardTypeOK, ObserveType, Phases
  <1>3. call' \in [Sessions -> ObserveType] /\ last' \in [Hosts -> Stamp]
    BY <1>1, <1>2 DEF GuardTypeOK, ObserveType, Phases, Stamp
  <1>4. \A g \in Hosts : last[g] <= last'[g] /\ last'[g] <= clock
    BY <1>1, <1>2 DEF GuardInv, LastInv, GuardTypeOK, Never
  <1>5. GuardTypeOK'
    BY <1>1, <1>2, <1>3, <1>4, StandDownAssumption
    DEF GuardTypeOK, ObserveType, Phases, Stamp, Never
  <1>6. ObserveInv'
    BY <1>1, <1>2, <1>4, StandDownAssumption
    DEF GuardInv, ObserveInv, GuardTypeOK, Never
  <1>7. LastInv'
    BY <1>1, <1>4 DEF LastInv
  <1>8. CountInv' /\ StandInv'
    BY <1>1, <1>2 DEF GuardInv, CountInv, StandInv, Until, GuardTypeOK
  <1> QED BY <1>5, <1>6, <1>7, <1>8 DEF GuardInv

\* What a turn of one Observe, with the clock and the hosts' last refusals left
\* alone, has to show of the rest.
LEMMA TurnIInv ==
  ASSUME GuardInv, NEW c \in Sessions, NEW ph \in Phases, Turns(c, ph),
         call[c].phase # "idle", UNCHANGED <<clock, op, last, crossed>>,
         stood' \in Nat, paused' \in Nat, refusals' \in [Hosts -> Stamp],
         \A h \in Hosts : refusals'[h] <= last[h],
         CountInv', StandInv'
  PROVE  GuardInv'
  <1>1. GuardTypeOK'
    BY DEF GuardInv, GuardTypeOK, Turns, ObserveType, Phases, Stamp
  <1>2. ObserveInv'
    BY TurnsCallInv DEF GuardInv
  <1>3. LastInv'
    BY DEF GuardInv, LastInv
  <1> QED BY <1>1, <1>2, <1>3 DEF GuardInv

\* The two halves of StandInv survive a turn that touches neither record and does
\* not come out of PauseKey.
LEMMA TurnStandInv ==
  ASSUME GuardInv, NEW c \in Sessions, NEW ph, Turns(c, ph), ph # "stand",
         UNCHANGED <<clock, op, crossed, stood, paused>>
  PROVE  StandInv'
  BY DEF GuardInv, StandInv, Turns, Until

\* Observe's ZADD: the host's refusal is stamped with the time Observe read.
LEMMA ZAddStep ==
  ASSUME GuardInv, NEW c \in Sessions, NEW ok \in BOOLEAN, ZAdd(c, ok)
  PROVE  GuardInv'
  <1> DEFINE ph == IF ok THEN "zrem" ELSE "idle"
             h == call[c].host
             now == call[c].now
  <1>1. /\ call[c].phase = "zadd" /\ UNCHANGED <<clock, stood, paused, op, last, crossed>>
        /\ refusals' = IF ok THEN [refusals EXCEPT ![h] = now] ELSE refusals
    BY DEF ZAdd
  <1>2. Turns(c, ph) /\ ph \in Phases /\ ph \notin {"zcard", "stand"}
    <2>1. "zrem" \in Phases /\ "idle" \in Phases
      BY DEF Phases
    <2> QED BY <2>1, ToTurns, ReturnTurns DEF ZAdd, GuardInv
  <1>3. /\ h \in Hosts /\ now <= last[h] /\ clock - now <= MaxLag /\ now \in 0..MaxTime
        /\ clock \in 0..MaxTime /\ now <= clock
        /\ refusals \in [Hosts -> Stamp] /\ \A g \in Hosts : refusals[g] <= last[g]
    BY <1>1 DEF GuardInv, ObserveInv, GuardTypeOK, Stamp
  <1> HIDE DEF ph, h, now
  <1>4. /\ refusals' \in [Hosts -> Stamp] /\ \A g \in Hosts : refusals'[g] <= last[g]
        /\ \A g \in Hosts : refusals'[g] = refusals[g] \/ refusals'[g] = now
    BY <1>1, <1>3 DEF Stamp
  <1>5. CountInv'
    <2> SUFFICES ASSUME NEW d \in Sessions, call'[d].phase = "zcard",
                        NEW g \in Hosts, refusals'[g] # Never
                 PROVE  refusals'[g] + Reach >= call'[d].now + MaxLag
      BY DEF CountInv, Reach
    <2>1. d # c /\ call[d].phase = "zcard" /\ call'[d].now = call[d].now
      BY <1>2 DEF Turns
    <2>2. call[d].now <= clock /\ call[d].now \in 0..MaxTime
      BY <2>1 DEF GuardInv, ObserveInv, GuardTypeOK
    <2>3. CASE refusals'[g] = now
      BY <1>3, <2>1, <2>2, <2>3, StandDownAssumption DEF Reach
    <2>4. CASE refusals'[g] = refusals[g]
      BY <2>1, <2>4 DEF GuardInv, CountInv
    <2> QED BY <1>4, <2>3, <2>4
  <1>6. StandInv'
    BY <1>1, <1>2, TurnStandInv
  <1>7. stood' \in Nat /\ paused' \in Nat
    BY <1>1 DEF GuardInv, GuardTypeOK
  <1> QED BY <1>1, <1>2, <1>4, <1>5, <1>6, <1>7, TurnIInv

\* Observe's ZREMRANGEBYSCORE drops what has left the window of that time.
LEMMA ZRemStep ==
  ASSUME GuardInv, NEW c \in Sessions, NEW ok \in BOOLEAN, ZRem(c, ok)
  PROVE  GuardInv'
  <1> DEFINE ph == IF ok THEN "zcard" ELSE "idle"
             now == call[c].now
  <1>1. /\ call[c].phase = "zrem" /\ UNCHANGED <<clock, stood, paused, op, last, crossed>>
        /\ refusals' = IF ok THEN [g \in Hosts |-> IF refusals[g] >= now - Window
                                                     THEN refusals[g] ELSE Never]
                             ELSE refusals
    BY DEF ZRem, Fresh
  <1>2. Turns(c, ph) /\ ph \in Phases /\ ph # "stand"
    <2>1. "zcard" \in Phases /\ "idle" \in Phases
      BY DEF Phases
    <2> QED BY <2>1, ToTurns, ReturnTurns DEF ZRem, GuardInv
  <1>3. /\ now \in 0..MaxTime /\ last \in [Hosts -> Stamp]
        /\ refusals \in [Hosts -> Stamp] /\ \A g \in Hosts : refusals[g] <= last[g]
    BY <1>1 DEF GuardInv, GuardTypeOK, Stamp
  <1>4. ph = "zcard" => ok
    OBVIOUS
  <1>5. ph = "idle" \/ ph = "zcard"
    OBVIOUS
  <1>6. ph # "idle" => call'[c].now = now
    BY <1>2 DEF Turns
  <1> HIDE DEF ph, now
  <1>7. /\ refusals' \in [Hosts -> Stamp] /\ \A g \in Hosts : refusals'[g] <= last[g]
        /\ \A g \in Hosts : refusals'[g] = refusals[g] \/ refusals'[g] = Never
        /\ ok => \A g \in Hosts : refusals'[g] # Never => refusals'[g] >= now - Window
    BY <1>1, <1>3 DEF Stamp, Never
  <1>8. CountInv'
    <2> SUFFICES ASSUME NEW d \in Sessions, call'[d].phase = "zcard",
                        NEW g \in Hosts, refusals'[g] # Never
                 PROVE  refusals'[g] + Reach >= call'[d].now + MaxLag
      BY DEF CountInv, Reach
    <2>1. refusals'[g] = refusals[g] /\ refusals'[g] \in Int
      BY <1>3, <1>7 DEF Stamp, Never
    <2>2. CASE d = c
      <3>1. ok /\ call'[d].now = now
        BY <1>2, <1>4, <1>6, <2>2 DEF Turns
      <3>2. refusals'[g] >= now - Window
        BY <1>7, <3>1
      <3> QED BY <1>3, <2>1, <3>1, <3>2, StandDownAssumption DEF Reach
    <2>3. CASE d # c
      <3>1. call'[d] = call[d]
        BY <1>2, <2>3 DEF Turns
      <3> QED BY <2>1, <3>1 DEF GuardInv, CountInv
    <2> QED BY <2>2, <2>3
  <1>9. StandInv'
    BY <1>1, <1>2, TurnStandInv
  <1>10. stood' \in Nat /\ paused' \in Nat
    BY <1>1, Zenon DEF GuardInv, GuardTypeOK
  <1> QED BY <1>1, <1>2, <1>7, <1>8, <1>9, <1>10, TurnIInv

\* Observe's ZCARD: what is counted is still in reach.
LEMMA ZCardStep ==
  ASSUME GuardInv, NEW c \in Sessions, NEW ok \in BOOLEAN, ZCard(c, ok)
  PROVE  GuardInv'
  <1>1. /\ call[c].phase = "zcard"
        /\ UNCHANGED <<clock, refusals, stood, paused, op, last, crossed>>
    BY DEF ZCard
  <1>2. \E ph \in {"pause", "idle"} : Turns(c, ph)
    <2>1. "pause" \in Phases
      BY DEF Phases
    <2> QED BY <2>1, ToTurns, ReturnTurns DEF ZCard, GuardInv
  <1>3. PICK ph \in {"pause", "idle"} : Turns(c, ph)
    BY <1>2
  <1>4. ph \in Phases /\ ph # "zcard" /\ ph # "stand"
    BY DEF Phases
  <1>5. CountInv'
    BY <1>1, <1>3, <1>4 DEF GuardInv, CountInv, Turns, Reach
  <1>6. StandInv'
    BY <1>1, <1>3, <1>4, TurnStandInv
  <1>7. /\ stood' \in Nat /\ paused' \in Nat /\ refusals' \in [Hosts -> Stamp]
        /\ \A h \in Hosts : refusals'[h] <= last[h]
    BY <1>1, Zenon DEF GuardInv, GuardTypeOK, Stamp
  <1> QED BY <1>1, <1>3, <1>4, <1>5, <1>6, <1>7, TurnIInv

\* The pause a session saves reaches as far as any session's that is about to
\* write the guard's own record, and as far as that record, but for MaxLag.
LEMMA PauseKeyStep ==
  ASSUME GuardInv, NEW c \in Sessions, NEW ok \in BOOLEAN, PauseKey(c, ok)
  PROVE  GuardInv'
  <1> DEFINE ph == IF ok THEN "stand" ELSE "idle"
  <1>1. /\ call[c].phase = "pause" /\ UNCHANGED <<clock, refusals, stood, op, last, crossed>>
        /\ paused' = IF ok THEN call[c].now + Pause ELSE paused
    BY DEF PauseKey, Until
  <1>2. Turns(c, ph) /\ ph \in Phases /\ ph # "zcard"
    <2>1. "stand" \in Phases /\ "idle" \in Phases
      BY DEF Phases
    <2> QED BY <2>1, ToTurns, ReturnTurns DEF PauseKey, GuardInv
  <1>3. ~ok => ph # "stand"
    OBVIOUS
  <1>4. CountInv'
    BY <1>1, <1>2 DEF GuardInv, CountInv, Turns, Reach
  <1>5. /\ stood \in Nat /\ paused \in Nat /\ clock \in Nat /\ call[c].now \in Nat
        /\ clock - call[c].now <= MaxLag
    BY <1>1 DEF GuardInv, GuardTypeOK, ObserveInv
  <1> HIDE DEF ph
  <1>6. StandInv'
    <2>1. CASE ok
      <3>1. paused' = call[c].now + Pause
        BY <1>1, <2>1, Zenon
      <3>2. stood' <= clock' + Pause /\ stood' <= paused' + MaxLag
        BY <1>1, <1>5, <3>1, StandDownAssumption
        DEF GuardInv, StandInv
      <3>3. ASSUME NEW d \in Sessions, call'[d].phase = "stand"
            PROVE  call'[d].now + Pause <= paused' + MaxLag
        <4>1. call[d].phase # "idle" /\ call'[d].now = call[d].now
          BY <1>1, <1>2, <3>3 DEF Turns
        <4>2. call[d].now \in Nat /\ call[d].now <= clock
          BY <4>1 DEF GuardInv, GuardTypeOK, ObserveInv
        <4> QED BY <1>5, <3>1, <4>1, <4>2, StandDownAssumption
      <3> QED BY <3>2, <3>3, Zenon DEF StandInv, Until
    <2>2. CASE ~ok
      BY <1>1, <1>2, <1>3, <2>2, TurnStandInv
    <2> QED BY <2>1, <2>2
  <1>7. /\ stood' \in Nat /\ paused' \in Nat /\ refusals' \in [Hosts -> Stamp]
        /\ \A h \in Hosts : refusals'[h] <= last[h]
    BY <1>1, <1>5, StandDownAssumption DEF GuardInv, GuardTypeOK, Stamp
  <1> QED BY <1>1, <1>2, <1>4, <1>6, <1>7, TurnIInv

\* The guard's own record, made after PauseKey's.
LEMMA StandStep ==
  ASSUME GuardInv, NEW c \in Sessions, Stand(c)
  PROVE  GuardInv'
  <1>1. /\ call[c].phase = "stand" /\ UNCHANGED <<clock, refusals, paused, op, last, crossed>>
        /\ stood' = call[c].now + Pause
    BY DEF Stand, Until
  <1>2. Turns(c, "idle") /\ "idle" \in Phases
    BY ReturnTurns DEF Stand, GuardInv, Phases
  <1>3. /\ call[c].now \in Nat /\ call[c].now <= clock /\ clock \in Nat /\ paused \in Nat
        /\ ~crossed => call[c].now + Pause <= paused + MaxLag
    BY <1>1 DEF GuardInv, GuardTypeOK, ObserveInv, StandInv, Until
  <1>4. CountInv'
    BY <1>1, <1>2 DEF GuardInv, CountInv, Turns, Reach
  <1>5. \A d \in Sessions : call'[d].phase = "stand" => call'[d] = call[d]
    BY <1>2 DEF Turns
  <1>6. StandInv'
    BY <1>1, <1>3, <1>5, StandDownAssumption DEF GuardInv, StandInv, Until
  <1>7. stood' \in Nat /\ paused' \in Nat
    BY <1>1, <1>3, StandDownAssumption
  <1>8. /\ refusals' \in [Hosts -> Stamp]
        /\ \A h \in Hosts : refusals'[h] <= last[h]
    BY <1>1, Zenon DEF GuardInv, GuardTypeOK, Stamp
  <1> QED BY <1>1, <1>2, <1>4, <1>6, <1>7, <1>8, TurnIInv

\* A Resume leaves the Observes alone.  Clearing the pause while one of them is
\* between PauseKey and its own record is what the observer calls crossed.
LEMMA ResumeKeyStep ==
  ASSUME GuardInv, NEW ok \in BOOLEAN, ResumeKey(ok)
  PROVE  GuardInv'
  <1>1. /\ UNCHANGED <<clock, refusals, stood, call, last>>
        /\ paused' = IF ok THEN 0 ELSE paused
        /\ op' = IF ok THEN "del" ELSE "idle"
        /\ crossed' = (crossed \/ (ok /\ \E c \in Sessions : call[c].phase = "stand"))
        /\ op = "idle"
    BY Zenon DEF ResumeKey
  <1>2. op' \in {"idle", "del", "forget"} /\ paused' \in Nat /\ crossed' \in BOOLEAN
    BY <1>1 DEF GuardInv, GuardTypeOK
  <1>3. GuardTypeOK'
    BY <1>1, <1>2 DEF GuardInv, GuardTypeOK
  <1>4. ObserveInv' /\ LastInv' /\ CountInv'
    BY <1>1 DEF GuardInv, ObserveInv, LastInv, CountInv, Reach
  <1>5. stood' <= clock' + Pause
    BY <1>1 DEF GuardInv, StandInv
  <1>6. CASE ok
    <2>1. op' # "idle" /\ \A c \in Sessions : ~crossed' => call'[c].phase # "stand"
      BY <1>1, <1>6, Zenon
    <2>2. StandInv'
      BY <1>5, <2>1 DEF StandInv
    <2> QED BY <1>3, <1>4, <2>2 DEF GuardInv
  <1>7. CASE ~ok
    <2>1. UNCHANGED <<clock, stood, paused, op, call>> /\ (crossed' <=> crossed)
      BY <1>1, <1>7, Zenon
    <2>2. StandInv'
      BY <2>1 DEF GuardInv, StandInv, Until
    <2> QED BY <1>3, <1>4, <2>2 DEF GuardInv
  <1> QED BY <1>6, <1>7

\* Resume forgets the refusals.
LEMMA DelRefusalsStep ==
  ASSUME GuardInv, NEW ok \in BOOLEAN, DelRefusals(ok)
  PROVE  GuardInv'
  <1>1. /\ UNCHANGED <<clock, stood, paused, call, last, crossed>> /\ op' = "forget"
        /\ refusals' = IF ok THEN [h \in Hosts |-> Never] ELSE refusals
    BY DEF DelRefusals
  <1>2. /\ refusals' \in [Hosts -> Stamp] /\ \A h \in Hosts : refusals'[h] <= last[h]
        /\ \A h \in Hosts : refusals'[h] = Never \/ refusals'[h] = refusals[h]
    BY <1>1 DEF GuardInv, GuardTypeOK, Stamp, Never
  <1>3. GuardTypeOK'
    BY <1>1, <1>2 DEF GuardInv, GuardTypeOK, Stamp
  <1>4. ObserveInv' /\ LastInv' /\ StandInv'
    BY <1>1 DEF GuardInv, ObserveInv, LastInv, StandInv, Until
  <1>5. CountInv'
    BY <1>1, <1>2 DEF GuardInv, CountInv, Reach
  <1> QED BY <1>3, <1>4, <1>5 DEF GuardInv

\* Resume drops the guard's own record.
LEMMA ForgetStep ==
  ASSUME GuardInv, Forget
  PROVE  GuardInv'
  <1>1. /\ UNCHANGED <<clock, refusals, paused, call, last, crossed>>
        /\ stood' = 0 /\ op' = "idle"
    BY DEF Forget
  <1>2. GuardTypeOK'
    BY <1>1 DEF GuardInv, GuardTypeOK
  <1>3. ObserveInv' /\ LastInv' /\ CountInv'
    BY <1>1 DEF GuardInv, ObserveInv, LastInv, CountInv, Reach
  <1>4. StandInv'
    BY <1>1, StandDownAssumption DEF GuardInv, GuardTypeOK, StandInv, Until
  <1> QED BY <1>2, <1>3, <1>4 DEF GuardInv

\* Time passes, at most MaxLag past the time an Observe read.
LEMMA GuardTick ==
  ASSUME GuardInv, Tick
  PROVE  GuardInv'
  <1>1. /\ UNCHANGED <<refusals, stood, paused, call, op, last, crossed>>
        /\ clock < MaxTime /\ clock' = clock + 1
        /\ \A c \in Sessions : call[c].phase # "idle" => clock - call[c].now < MaxLag
    BY DEF Tick
  <1>2. clock \in 0..MaxTime /\ call \in [Sessions -> ObserveType] /\ last \in [Hosts -> Stamp]
    BY DEF GuardInv, GuardTypeOK, ObserveType, Phases, Stamp
  <1>3. GuardTypeOK'
    BY <1>1, StandDownAssumption DEF GuardInv, GuardTypeOK
  <1>4. ObserveInv'
    BY <1>1, <1>2, StandDownAssumption DEF GuardInv, ObserveInv, ObserveType
  <1>5. LastInv'
    BY <1>1, <1>2, StandDownAssumption DEF GuardInv, LastInv, Stamp, Never
  <1>6. CountInv'
    BY <1>1 DEF GuardInv, CountInv, Reach
  <1>7. StandInv'
    BY <1>1, <1>2, StandDownAssumption DEF GuardInv, GuardTypeOK, StandInv, Until
  <1> QED BY <1>3, <1>4, <1>5, <1>6, <1>7 DEF GuardInv

\* Every step keeps the invariant.
LEMMA GuardNextInv == GuardInv /\ [GuardNext]_guardVars => GuardInv'
  <1> SUFFICES ASSUME GuardInv, [GuardNext]_guardVars PROVE GuardInv'
    BY DEF GuardInv
  <1>1. Outcomes \subseteq BOOLEAN
    BY Zenon DEF Outcomes
  <1>2. ASSUME NEW c \in Sessions, NEW h \in Hosts, NEW names \in BOOLEAN,
               Observe(c, h, names)
        PROVE  GuardInv'
    BY <1>2, ObserveStep
  <1>3. ASSUME NEW c \in Sessions, NEW ok \in Outcomes,
               ZAdd(c, ok) \/ ZRem(c, ok) \/ ZCard(c, ok) \/ PauseKey(c, ok)
        PROVE  GuardInv'
    BY <1>1, <1>3, ZAddStep, ZRemStep, ZCardStep, PauseKeyStep, Zenon
  <1>4. ASSUME NEW c \in Sessions, Stand(c) PROVE GuardInv'
    BY <1>4, StandStep
  <1>5. ASSUME NEW ok \in Outcomes, ResumeKey(ok) \/ DelRefusals(ok) PROVE GuardInv'
    BY <1>1, <1>5, ResumeKeyStep, DelRefusalsStep, Zenon
  <1>6. CASE Forget \/ Tick
    BY <1>6, ForgetStep, GuardTick
  <1>7. CASE UNCHANGED guardVars
    BY <1>7, Zenon
    DEF guardVars, GuardInv, GuardTypeOK, ObserveInv, LastInv, CountInv, StandInv, Until,
        Reach
  <1> QED BY <1>2, <1>3, <1>4, <1>5, <1>6, <1>7, Zenon DEF GuardNext

\* What the guard has down, the pacer has paused: the operator's Resume between
\* PauseKey and the guard's own record aside.
THEOREM StandDownStoodIsPaused == GuardSpec => []StoodIsPaused
  <1>1. GuardInv => StoodIsPaused
    BY StandDownAssumption DEF GuardInv, StandInv, StoodIsPaused, GuardTypeOK
  <1> QED BY <1>1, GuardInitInv, GuardNextInv, PTL DEF GuardSpec

\* The hosts counted are hosts that refused recently.
LEMMA CountedEvidence ==
  ASSUME GuardInv, NEW c \in Sessions, ZCard(c, TRUE), RuleB(c)
  PROVE  AtLeast({h \in Hosts : last[h] # Never /\ clock - last[h] <= Reach}, Threshold)
  <1> DEFINE E == {h \in Hosts : last[h] # Never /\ clock - last[h] <= Reach}
  <1>1. call[c].phase = "zcard" /\ AtLeast(Counted, Threshold)
    BY DEF ZCard, RuleB
  <1>2. /\ clock - call[c].now <= MaxLag /\ call[c].now \in Nat /\ clock \in Nat
        /\ last \in [Hosts -> Stamp] /\ refusals \in [Hosts -> Stamp]
        /\ \A h \in Hosts : refusals[h] <= last[h]
    BY <1>1 DEF GuardInv, ObserveInv, GuardTypeOK, Stamp
  <1>3. Reach \in Nat
    BY StandDownAssumption DEF Reach
  <1>4. Counted \subseteq E
    <2> SUFFICES ASSUME NEW h \in Hosts, refusals[h] # Never
                 PROVE  last[h] # Never /\ clock - last[h] <= Reach
      BY Zenon DEF Counted
    <2>1. refusals[h] + Reach >= call[c].now + MaxLag
      BY <1>1 DEF GuardInv, CountInv
    <2> QED BY <1>2, <1>3, <2>1, StandDownAssumption DEF Stamp, Never
  <1> HIDE DEF E
  <1>5. AtLeast(E, Threshold)
    BY <1>1, <1>4, Zenon DEF AtLeast
  <1> QED BY <1>5 DEF E

\* A stand-down under rule B has its hosts, however the Observes interleave.
THEOREM StandDownRuleBHasEvidence == GuardSpec => RuleBHasEvidence
  <1> DEFINE A == \A c \in Sessions : ZCard(c, TRUE) /\ RuleB(c) =>
       AtLeast({h \in Hosts : last[h] # Never /\ clock - last[h] <= Reach}, Threshold)
  <1>1. GuardInv /\ [GuardNext]_guardVars => [A]_guardVars
    BY CountedEvidence, Zenon DEF GuardInv
  <1> QED BY <1>1, GuardInitInv, GuardNextInv, PTL DEF GuardSpec, RuleBHasEvidence
=============================================================================

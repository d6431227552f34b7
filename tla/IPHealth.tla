----------------------------- MODULE IPHealth -----------------------------
(***************************************************************************)
(* The standing of the sending IP: internal/iphealth.  A self-test at      *)
(* startup decides which blocklist zones are believed; rounds of queries   *)
(* stand the node down while a zone lists the IP; an operator may resume   *)
(* it; spam complaints stop sending alone.                                 *)
(*                                                                         *)
(* A zone is a list (perhaps carrying an entry it should not), a resolver  *)
(* that is refused everything, or one that answers everything.  Listings   *)
(* come and go while a round is running.                                   *)
(***************************************************************************)
EXTENDS Naturals, FiniteSets

CONSTANTS
  Zones,
  Kinds,          \* what the zones may be
  Window, Threshold,  \* of the complaints
  Environments    \* whether lookups and Redis writes may fail, whether the process
                  \* may restart, and a bound on the complaints

ASSUME IPHealthAssumption ==
  /\ Kinds \subseteq {"list", "junk", "stub", "wildcard"} /\ Zones # {}
  /\ Window \in Nat \ {0} /\ Threshold \in Nat
  /\ \A e \in Environments :
       {e.lapses, e.restarts} \subseteq BOOLEAN /\ e.complaints \in Nat

VARIABLES
  env,                \* the environment of this behaviour
  kind, onList,       \* the world: each zone's nature, the zones listing the IP
  zones, trusted,     \* the zones watched; the self-test has passed
  reason,             \* the zones the node is stood down for: burned when not {}
  round,              \* the round running
  resume,             \* the operator's call running
  key,                \* ip:health:<ip>: the reason last persisted
  verdict,            \* observer: the last verdict reached
  crossed,            \* observer: two writers of the key have overlapped, or one
                      \* was cut off by a restart
  complaints,         \* ages of the complaints kept, by number
  history,            \* observer: ages of all complaints
  sending             \* observer: what SendingPaused answers at this moment

world == <<kind, onList>>
test  == <<zones, trusted>>
spam  == <<complaints, history, sending>>
healthVars  == <<world, test, reason, round, resume, key, verdict, crossed, spam>>

NoRound == [at |-> "idle", todo |-> {}, on |-> {}, clean |-> {}]
Gone == Window          \* the age of a complaint that counts no more

HealthInit ==
  /\ env \in Environments
  /\ kind \in [Zones -> Kinds] /\ onList \in SUBSET Zones
  /\ zones = Zones /\ trusted = FALSE
  /\ reason = {} /\ round = [NoRound EXCEPT !.at = "boot"] /\ resume = "idle"
  /\ key = {} /\ verdict = {} /\ crossed = FALSE
  /\ complaints = <<>> /\ history = <<>> /\ sending = "unasked"
-----------------------------------------------------------------------------
(* One lookup *)

\* The points asked about: the zone's own, then two that nobody can list.
Points == {"test", "clean", "doc1", "doc2"}

\* What the resolver says for a point, or for the sending IP, if it says anything.
ZoneReply(z, p) ==
  CASE kind[z] = "stub"     -> "127.255.255.254"
    [] kind[z] = "wildcard" -> "127.0.0.2"
    [] OTHER -> IF \/ p = "test"
                   \/ p = "ip" /\ z \in onList
                   \/ p \in {"clean", "doc1"} /\ kind[z] = "junk"
                  THEN "127.0.0.2" ELSE "nxdomain"

\* NXDOMAIN is "not listed"; the refusal sentinel is not a listing.
query(z, p, failed) ==
  CASE failed                        -> "error"
    [] ZoneReply(z, p) = "127.0.0.2" -> "listed"
    [] OTHER                         -> "clean"
-----------------------------------------------------------------------------
(* The self-test, once at startup *)

\* A zone is kept unless both points were listed.
secondOpinionLax(said) == ~(said["doc1"] = "listed" /\ said["doc2"] = "listed")

\* Either unlistable point clean: a real list with junk in it.
secondOpinion(said) == said["doc1"] = "clean" \/ said["doc2"] = "clean"

selfTestZone(said) ==
  /\ said["test"] = "listed"
  /\ \/ said["clean"] = "clean"
     \/ said["clean"] = "listed" /\ secondOpinion(said)

\* No zone passing disables the check.
SelfTest ==
  /\ round.at = "boot"
  /\ \E failed \in SUBSET (IF env.lapses THEN Zones \X Points ELSE {}) :
       LET said(z) == [p \in Points |-> query(z, p, <<z, p>> \in failed)]
           kept    == {z \in Zones : selfTestZone(said(z))}
       IN  /\ zones' = IF kept = {} THEN zones ELSE kept
           /\ trusted' = (kept # {})
  /\ round' = NoRound
  /\ UNCHANGED <<world, reason, resume, key, verdict, crossed, spam>>
-----------------------------------------------------------------------------
(* One round of Check, and the ticker that runs it *)

Begin ==
  /\ round.at = "idle" /\ trusted
  /\ round' = [NoRound EXCEPT !.at = "asking", !.todo = zones]
  /\ UNCHANGED <<world, test, reason, resume, key, verdict, crossed, spam>>

\* The last zone asked decides.
QueryLast(z, failed) ==
  /\ round.at = "asking" /\ z \in round.todo
  /\ round' = [round EXCEPT !.todo = @ \ {z},
       !.on    = IF query(z, "ip", failed) = "listed" THEN {z} ELSE {},
       !.clean = IF query(z, "ip", failed) = "clean" THEN @ \cup {z} ELSE @]
  /\ UNCHANGED <<world, test, reason, resume, key, verdict, crossed, spam>>

\* A failed query is not a listing: the zone is passed over.
Query(z, failed) ==
  /\ round.at = "asking" /\ z \in round.todo
  /\ round' = [round EXCEPT !.todo = @ \ {z},
       !.on    = IF query(z, "ip", failed) = "listed" THEN @ \cup {z} ELSE @,
       !.clean = IF query(z, "ip", failed) = "clean" THEN @ \cup {z} ELSE @]
  /\ UNCHANGED <<world, test, reason, resume, key, verdict, crossed, spam>>

Publish ==
  /\ round.at = "asking" /\ round.todo = {}
  /\ reason' = round.on /\ verdict' = round.on
  /\ crossed' = (crossed \/ resume = "persist")
  /\ round' = [round EXCEPT !.at = "persist"]
  /\ UNCHANGED <<world, test, resume, key, spam>>

\* A write that fails is not noticed.
Persist(failed) ==
  /\ round.at = "persist"
  /\ key' = IF failed THEN key ELSE round.on
  /\ round' = NoRound
  /\ UNCHANGED <<world, test, reason, resume, verdict, crossed, spam>>
-----------------------------------------------------------------------------
(* The operator's Resume *)

ResumeMem ==
  /\ resume = "idle" /\ round.at # "boot"
  /\ reason' = {} /\ verdict' = {}
  /\ crossed' = (crossed \/ round.at = "persist")
  /\ resume' = "persist"
  /\ UNCHANGED <<world, test, round, key, spam>>

\* The key is left as the last round wrote it.
ResumePersistSkipped(failed) ==
  /\ resume = "persist"
  /\ resume' = "idle"
  /\ UNCHANGED <<world, test, reason, round, key, verdict, crossed, spam>>

ResumePersist(failed) ==
  /\ resume = "persist"
  /\ key' = IF failed THEN key ELSE {}
  /\ resume' = "idle"
  /\ UNCHANGED <<world, test, reason, round, verdict, crossed, spam>>
-----------------------------------------------------------------------------
(* Complaints *)

ObserveComplaint ==
  /\ round.at # "boot"
  /\ Cardinality(DOMAIN history) < env.complaints
  /\ LET n == Cardinality(DOMAIN history) + 1 IN
     /\ history' = [i \in DOMAIN history \cup {n} |-> IF i = n THEN 0 ELSE history[i]]
     /\ complaints' = [i \in DOMAIN complaints \cup {n} |->
                         IF i = n THEN 0 ELSE complaints[i]]
  /\ sending' = "unasked"
  /\ UNCHANGED <<world, test, reason, round, resume, key, verdict, crossed>>

\* The newest complaint is dropped with the old ones.
KeptLast(ages) ==
  {i \in DOMAIN ages : ages[i] < Window /\ \E j \in DOMAIN ages : j > i}

Kept(ages) == {i \in DOMAIN ages : ages[i] < Window}

\* Complaints drops what is out of the window.  (A zero threshold never pauses.)
SendingPaused ==
  /\ round.at # "boot" /\ Threshold > 0
  /\ complaints' = [i \in Kept(complaints) |-> complaints[i]]
  /\ sending' = IF Cardinality(Kept(complaints)) >= Threshold THEN "stopped" ELSE "open"
  /\ UNCHANGED <<world, test, reason, round, resume, key, verdict, crossed, history>>

Age(ages) == [i \in DOMAIN ages |-> IF ages[i] < Gone THEN ages[i] + 1 ELSE Gone]
HealthTick ==
  /\ complaints' = Age(complaints) /\ history' = Age(history) /\ sending' = "unasked"
  /\ UNCHANGED <<world, test, reason, round, resume, key, verdict, crossed>>
-----------------------------------------------------------------------------
\* A list takes the IP on, or lets it go.
List(z) ==
  /\ onList' = IF z \in onList THEN onList \ {z} ELSE onList \cup {z}
  /\ UNCHANGED <<kind, test, reason, round, resume, key, verdict, crossed, spam>>

\* Everything in memory is lost; the key is never read back.
Restart ==
  /\ env.restarts
  /\ zones' = Zones /\ trusted' = FALSE /\ reason' = {}
  /\ round' = [NoRound EXCEPT !.at = "boot"] /\ resume' = "idle"
  /\ crossed' = (crossed \/ round.at = "persist" \/ resume = "persist")
  /\ complaints' = <<>> /\ sending' = "unasked"
  /\ UNCHANGED <<world, key, verdict, history>>

Round == \/ SelfTest \/ Begin \/ Publish
         \/ \E failed \in {FALSE, env.lapses} :
              Persist(failed) \/ \E z \in Zones : Query(z, failed)

HealthNext ==
  /\ \/ Round \/ ResumeMem
     \/ \E failed \in {FALSE, env.lapses} : ResumePersist(failed)
     \/ ObserveComplaint \/ SendingPaused \/ HealthTick
     \/ (\E z \in Zones : List(z)) \/ Restart
  /\ UNCHANGED env

HealthSpec     == HealthInit /\ [][HealthNext]_<<env, healthVars>>
HealthFairSpec == HealthSpec /\ WF_healthVars(Round)
-----------------------------------------------------------------------------
\* A round's answers are about zones being watched, and the node is stood down
\* only for zones that passed the self-test.
HealthTypeOK ==
  /\ zones \subseteq Zones /\ zones # {} /\ trusted \in BOOLEAN
  /\ reason \subseteq zones /\ (reason # {} => trusted)
  /\ round.at \in {"boot", "idle", "asking", "persist"}
  /\ round.todo \subseteq zones
  /\ round.on \cup round.clean \subseteq zones \ round.todo
  /\ round.on \cap round.clean = {}
  /\ resume \in {"idle", "persist"} /\ {key, verdict} \subseteq SUBSET Zones
  /\ DOMAIN complaints \subseteq DOMAIN history /\ crossed \in BOOLEAN

\* "It must never trigger one": a resolver that is refused everything, or that
\* answers everything, never stands the node down, whichever lookups fail.
BurnedOnlyByListing == \A z \in reason : kind[z] \in {"list", "junk"}

\* Resume is "not a way to ignore a real one": while a watched zone keeps listing
\* the IP and lookups succeed, the node is stood down again and again.
ListingNotIgnored ==
  \A z \in Zones :
    <>[](z \in onList /\ z \in zones /\ trusted /\ ~env.lapses) => []<>(reason # {})

\* Sending stops exactly when the threshold complained within the window, until
\* a restart: dropping old complaints loses none that still count, and keeps none
\* that do not.
SpikeStopsSending ==
  LET recent == {i \in DOMAIN history : history[i] < Window} IN
  sending # "unasked" /\ ~env.restarts =>
    (sending = "stopped" <=> Cardinality(recent) >= Threshold)

\* ip:health:<ip> is "the last verdict on this sending address" once nobody is
\* writing it, unless a write failed, a Resume and a round overlapped between
\* verdict and write, or a restart came between the two.
KeyIsLastVerdict ==
  /\ HealthTypeOK
  /\ round.at \in {"boot", "idle"} /\ resume = "idle" /\ ~crossed /\ ~env.lapses
       => key = verdict
=============================================================================

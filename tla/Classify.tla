------------------------------ MODULE Classify ------------------------------
(***************************************************************************)
(* From one SMTP reply to what it means: internal/prober/classify.go, with *)
(* beforeRCPT, rcptResult and the refusals of grouping from prober.go.     *)
(*                                                                         *)
(* A reply is its code, its enhanced code (<<class, subject, detail>>, or  *)
(* NoCode) and its words: the set of the wordings it contains.  Each       *)
(* wording stands for one of the code's hint lists or expressions, "named" *)
(* for our own identity in the text.                                       *)
(***************************************************************************)
EXTENDS Integers

Wordings == {"greylist", "tls", "throttle", "mailbox", "sender", "named",
             "quota", "sending", "relay", "domainlimit"}
NoCode == <<0, -1, -1>>

Temporary(code) == 400 <= code /\ code < 500
Permanent(code) == 500 <= code /\ code < 600
Says(r, wording) == wording \in r.words
subject(r) == r.ec[2]
detail(r)  == r.ec[3]

senderCodes == {<<5, 1, 7>>, <<5, 1, 8>>} \cup {<<5, 7, d>> : d \in 23..27}

\* Our identity counts as sender wording, but not under a recipient code.
Sender(r) == Says(r, "sender") \/ (Says(r, "named") /\ subject(r) \notin {1, 2})

\* A policy code decides before the wording.
PolicyCodeFirst(r) ==
  IF subject(r) = 1 THEN "invalid"
  ELSE IF subject(r) = 2 THEN IF detail(r) = 2 THEN "valid" ELSE "invalid"
  ELSE IF subject(r) \in {4, 7} \/ Sender(r) THEN "policy"
  ELSE "invalid"

\* What is left once the quota rules have passed: the subject, then the wording.
SubjectRule(r) ==
  IF subject(r) = 1 THEN "invalid"
  ELSE IF subject(r) = 2 THEN IF detail(r) = 2 THEN "valid" ELSE "invalid"
  ELSE IF Says(r, "mailbox") THEN "invalid"
  ELSE IF subject(r) \in {4, 7} \/ Sender(r) THEN "policy"
  ELSE "invalid"

classifyPermanent(r) ==
  IF r.ec \in senderCodes THEN "policy"
  ELSE IF Sender(r) /\ ~Says(r, "mailbox") THEN "policy"
  ELSE IF Says(r, "quota") /\ Says(r, "sending")
            /\ (r.ec = NoCode \/ subject(r) = 7) THEN "policy"
  ELSE IF Says(r, "quota") /\ ~Says(r, "sending")
            /\ (r.ec = NoCode \/ subject(r) = 2) THEN "valid"
  ELSE SubjectRule(r)

ClassifyAs(r) ==
  IF r.code < 200 \/ r.code > 599 THEN "unknown"
  ELSE IF Says(r, "greylist") THEN "deferred"
  ELSE IF Temporary(r.code) /\ Says(r, "tls") THEN "policy"
  ELSE IF r.code = 421 THEN "throttled"
  ELSE IF r.code = 503 THEN "bad_sequence"
  ELSE IF r.code < 300 THEN "valid"
  ELSE IF r.code < 400 THEN "unknown"
  ELSE IF Temporary(r.code)
    THEN IF Says(r, "throttle") THEN "throttled" ELSE "deferred"
  ELSE classifyPermanent(r)

\* A deferral counts.
IsThrottleOrDeferred(class) ==
  class \in {"throttled", "timeout", "conn_error", "deferred"}

IsThrottle(class) == class \in {"throttled", "timeout", "conn_error"}
Verdict(class)    == class \in {"valid", "invalid"}

\* The would-be verdict is passed on.
beforeRCPTVerbatim(r) == ClassifyAs(r)

\* A refusal before any RCPT is never a verdict.
beforeRCPT(r) ==
  LET c == ClassifyAs(r) IN
  IF ~Verdict(c) THEN c ELSE IF Permanent(r.code) THEN "policy" ELSE "unknown"

relayRefusal(r) == r.code >= 400 /\ Says(r, "relay")
domainLimitRefusal(r) ==
  /\ r.code >= 400
  /\ Says(r, "domainlimit") \/ (r.code < 500 /\ r.ec = <<4, 3, 0>>)
-----------------------------------------------------------------------------
(* What smtp-classification.md says a class is about, with no regard to    *)
(* the order in which the code tries its rules.                            *)

Reply == [code : Int, ec : Int \X Int \X Int, words : SUBSET Wordings]

Grey(r)    == Says(r, "greylist") /\ r.code \in 200..599
Encrypt(r) == Temporary(r.code) /\ Says(r, "tls")
Refusal(r) == Permanent(r.code) /\ r.code # 503 /\ ~Grey(r)
NamesUs(r) == Says(r, "sender")
                \/ (Says(r, "named") /\ subject(r) \notin {1, 2})

\* A mailbox that is full, in code or in words that are not about our sending.
FullMailbox(r) ==
  \/ subject(r) = 2 /\ detail(r) = 2
  \/ /\ Says(r, "quota") /\ ~Says(r, "sending")
     /\ r.ec = NoCode \/ subject(r) = 2

\* "A rejection of us is never a rejection of the address": a reply condemns a
\* mailbox exactly when it is a permanent one that is not about the sender, in
\* code or in words, and not about a full mailbox.
Condemns(r) ==
  /\ Refusal(r) /\ r.ec \notin senderCodes /\ ~FullMailbox(r)
  /\ NamesUs(r) => Says(r, "mailbox")
  /\ subject(r) \in {4, 7} => Says(r, "mailbox")
  /\ ~(/\ Says(r, "quota") /\ Says(r, "sending")
       /\ r.ec = NoCode \/ subject(r) = 7)

\* We are told to slow down by a 421 or by throttle wording in a 4xx, and
\* neither by greylisting nor by a demand for encryption.
SlowsUs(r) ==
  /\ r.code = 421 \/ (Temporary(r.code) /\ Says(r, "throttle"))
  /\ ~Grey(r) /\ ~Encrypt(r)
=============================================================================

------------------------------ MODULE MCProbe ------------------------------
EXTENDS Probe, TLC

CONSTANTS a1, a2, a3, b1, c1, da, db, dc

DomainOfAddr ==
  [a \in Addrs |-> IF a = b1 THEN db ELSE IF a = c1 THEN dc ELSE da]

R(code, ec, words) == [code |-> code, ec |-> ec, words |-> words]

\* An acceptance, a missing mailbox, a deferral, a throttle, a refusal of us, a
\* foreign domain refused as relay and as one domain too many.
SomeReplies ==
  {R(250, <<2, 1, 5>>, {}), R(550, <<5, 1, 1>>, {"mailbox"}),
   R(450, NoCode, {"greylist"}), R(421, <<4, 7, 0>>, {"throttle"}),
   R(550, <<5, 7, 1>>, {"sender"}), R(554, <<5, 7, 1>>, {"relay", "sender"}),
   R(451, <<4, 3, 0>>, {"domainlimit"})}

Group(d, as, need) == [domain |-> d, addrs |-> as, need |-> need]

\* Two callers' batches met: one domain named twice, an address repeated.
TwoDomains == {Group(da, {a1}, FALSE), Group(db, {b1}, FALSE), Group(da, {a1, a2}, TRUE)}
OneEach    == {Group(da, {a1}, FALSE), Group(db, {b1}, FALSE), Group(dc, {c1}, FALSE)}
OneDomain  == {Group(da, {a1, a2, a3}, FALSE)}

Grouped ==
  [request |-> TwoDomains, suppressible |-> {}, maxRCPT |-> 3,
   multiDomain |-> TRUE, named |-> TRUE,
   policyStop |-> 2, policyStopMax |-> 0, wantStop |-> 0,
   catchAllProbes |-> 2, auditProbes |-> 3, audit |-> FALSE]

\* A family without a name: nothing remembers that it refused grouping, and the
\* two domains left over could be grouped again.  One policy reply is enough.
Unnamed ==
  [Grouped EXCEPT !.request = OneEach, !.named = FALSE, !.policyStop = 1]

\* One domain too large for a session, an address suppressed, a stop of its own.
Single ==
  [Grouped EXCEPT !.request = OneDomain, !.suppressible = {a2}, !.maxRCPT = 2,
                  !.policyStopMax = 3, !.wantStop = 1]

\* Audit samples beyond the catch-all probe, in sessions of one address.
Audited ==
  [Single EXCEPT !.request = {Group(da, {a1, a2}, TRUE)}, !.maxRCPT = 1,
                 !.catchAllProbes = 1, !.auditProbes = 2, !.audit = TRUE]

Several == {Grouped, Unnamed, Single, Audited}
=============================================================================

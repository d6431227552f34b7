------------------------------- MODULE MCRelay -------------------------------
(* Small instances of Relay. *)
EXTENDS Relay, TLC

Environment(messages, drainers, maxAttempts, gate, faults, restarts) ==
  [messages |-> messages, drainers |-> drainers, maxAttempts |-> maxAttempts,
   gate |-> gate, faults |-> faults, restarts |-> restarts]

Lists == {"allow", "suppressed"}
Some == {"m1"}
One  == {"d1"}

\* Nothing goes wrong but the receiving server and the health of the IP ...
Calm == {Environment(Messages, Drainers, 2, Lists, FALSE, FALSE),
         Environment(Messages, One, 3, Lists, FALSE, FALSE)}
\* ... or everything does: two drainers after one message, and two messages.
Rough == {Environment(Some, Drainers, 3, Lists \cup {"unvouched"}, TRUE, TRUE),
          Environment(Messages, One, 2, Lists \cup {"unvouched"}, TRUE, TRUE)}

CalmAndRough == Calm \cup Rough

\* The suppression list cannot be read at times; nothing else goes wrong.
Unreadable == {Environment(Some, One, 2, Lists \cup {"unvouched"}, FALSE, FALSE)}
=============================================================================

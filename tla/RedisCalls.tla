----------------------------- MODULE RedisCalls -----------------------------
(***************************************************************************)
(* What a caller of the Redis client may rely on, and all it may rely on.  *)
(* A call that returns a value was executed, once; one that Redis rejected *)
(* was not and will not be; one that failed may have been executed, may    *)
(* not, and may still be executed after the caller has been told it failed. *)
(***************************************************************************)
EXTENDS Integers

CONSTANTS
  Callers,
  MaxCalls   \* calls each caller makes

Commands == Callers \X (1..MaxCalls)

VARIABLES
  outcome,   \* of each command: "none" until it is called, "pending", then
             \* "value", "error" (Redis rejected it) or "failed"
  applied    \* how often Redis executed each command

Init ==
  /\ outcome = [k \in Commands |-> "none"]
  /\ applied = [k \in Commands |-> 0]

Becomes(k, result) == outcome' = [outcome EXCEPT ![k] = result]

\* A caller waits for its call before it makes the next.
Call(p, n) ==
  /\ outcome[<<p, n>>] = "none"
  /\ \A i \in 1..(n - 1) : outcome[<<p, i>>] \notin {"none", "pending"}
  /\ Becomes(<<p, n>>, "pending")
  /\ UNCHANGED applied

Apply(k) ==
  /\ outcome[k] \in {"pending", "failed"}
  /\ applied[k] = 0
  /\ applied' = [applied EXCEPT ![k] = 1]
  /\ UNCHANGED outcome

Return(k) ==
  /\ outcome[k] = "pending"
  /\ applied[k] = 1
  /\ Becomes(k, "value")
  /\ UNCHANGED applied

Reject(k) ==
  /\ outcome[k] = "pending"
  /\ applied[k] = 0
  /\ Becomes(k, "error")
  /\ UNCHANGED applied

Fail(k) ==
  /\ outcome[k] = "pending"
  /\ Becomes(k, "failed")
  /\ UNCHANGED applied

Next ==
  \/ \E p \in Callers, n \in 1..MaxCalls : Call(p, n)
  \/ \E k \in Commands : Apply(k) \/ Return(k) \/ Reject(k) \/ Fail(k)

Spec == Init /\ [][Next]_<<outcome, applied>>
=============================================================================

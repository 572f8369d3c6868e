--------------------------- MODULE CircuitBreaker ---------------------------
(***************************************************************************)
(* The gateway's circuit breaker and the requests that pass it: one        *)
(* breaker, shared by the requests to all five services.  is_open reads    *)
(* under the read lock and resets under the write lock, and lets go of     *)
(* everything in between; the other operations are one locked step each.   *)
(***************************************************************************)
EXTENDS Integers, FiniteSets

CONSTANTS
  Requests,     \* slots for requests under way
  Threshold,    \* failure_threshold
  Timeout       \* timeout, in ticks

ASSUME BreakerAssumption ==
  /\ IsFiniteSet(Requests)
  /\ Threshold \in Nat \ {0}
  /\ Timeout \in Nat

VARIABLES
  failures, isOpen,
  age,          \* time since last_failure, as far as it matters
  pc            \* what each request does

vars == <<failures, isOpen, age, pc>>

Old == Timeout + 1    \* the timeout has passed, or there was no failure yet
Expired == age = Old

Init ==
  /\ failures = 0
  /\ isOpen = FALSE
  /\ age = Old
  /\ pc = [r \in Requests |-> "idle"]

Goto(r, step) == pc' = [pc EXCEPT ![r] = step]

-----------------------------------------------------------------------------
\* is_open answers FALSE, and proxy_request goes on to send.
Pass(r) ==
  /\ pc[r] = "idle"
  /\ ~isOpen
  /\ Goto(r, "sending")
  /\ UNCHANGED <<failures, isOpen, age>>

\* ServiceUnavailable; the request is over.
Refuse(r) ==
  /\ pc[r] = "idle"
  /\ isOpen
  /\ ~Expired
  /\ UNCHANGED vars

\* The timeout has passed: is_open drops the read lock and calls reset.
Retry(r) ==
  /\ pc[r] = "idle"
  /\ isOpen
  /\ Expired
  /\ Goto(r, "reset")
  /\ UNCHANGED <<failures, isOpen, age>>

Close ==
  /\ failures' = 0
  /\ isOpen' = FALSE
  /\ UNCHANGED age

\* Mutant: the count of failures is not cleared.
ResetFlag(r) ==
  /\ pc[r] = "reset"
  /\ isOpen' = FALSE
  /\ Goto(r, "sending")
  /\ UNCHANGED <<failures, age>>

\* Mutant: the count alone is cleared.
ResetCount(r) ==
  /\ pc[r] = "reset"
  /\ failures' = 0
  /\ Goto(r, "sending")
  /\ UNCHANGED <<isOpen, age>>

Reset(r) ==
  /\ pc[r] = "reset"
  /\ Close
  /\ Goto(r, "sending")

\* Any answer counts as a success, whatever its status.
RecordSuccess(r) ==
  /\ pc[r] = "sending"
  /\ Close
  /\ Goto(r, "idle")

\* A connection error, or the request's own timeout.
RecordFailure(r) ==
  /\ pc[r] = "sending"
  /\ failures' = failures + 1
  /\ isOpen' = IF failures' >= Threshold THEN TRUE ELSE isOpen
  /\ age' = 0
  /\ Goto(r, "idle")

\* The body cannot be read, or the client hangs up: nothing is recorded.
Abort(r) ==
  /\ pc[r] # "idle"
  /\ Goto(r, "idle")
  /\ UNCHANGED <<failures, isOpen, age>>

Tick ==
  /\ ~Expired
  /\ age' = age + 1
  /\ UNCHANGED <<failures, isOpen, pc>>

Step(r) == Reset(r) \/ RecordSuccess(r) \/ RecordFailure(r)

Next ==
  \/ \E r \in Requests : Pass(r) \/ Refuse(r) \/ Retry(r) \/ Step(r) \/ Abort(r)
  \/ Tick

Spec == Init /\ [][Next]_vars

-----------------------------------------------------------------------------
TypeOK ==
  /\ failures \in Nat
  /\ isOpen \in BOOLEAN
  /\ age \in 0..Old
  /\ pc \in [Requests -> {"idle", "reset", "sending"}]

(***************************************************************************)
(* A service that is down is asked in vain a bounded number of times       *)
(* before the gateway gives up on it: the requests on their way when the   *)
(* breaker opens may fail as well, but no more than those.                 *)
(***************************************************************************)
Sending == {r \in Requests : pc[r] = "sending"}
FailuresBounded ==
  /\ isOpen <=> failures >= Threshold
  /\ failures + Cardinality(Sending) < Threshold + Cardinality(Requests)
=============================================================================

---------------------------- MODULE CheckedCount ----------------------------
(***************************************************************************)
(* What is left of a limit that is checked first and counted later: a      *)
(* request is admitted while the count of its key is below the limit, and  *)
(* adds to the count in a step of its own, or never.  Requests admitted    *)
(* together all see the same count.  A count may also go down, as things   *)
(* age or are deleted.  LoginProtection and Authoring implement it.        *)
(***************************************************************************)
EXTENDS Integers

CONSTANTS
  Keys,     \* what is limited: each has a count of its own
  Limit,    \* no request is admitted at or above this count
  Slots     \* requests that can be under way at once

VARIABLES
  count,
  pending   \* requests admitted and not settled

countVars == <<count, pending>>

Init ==
  /\ count = [k \in Keys |-> 0]
  /\ pending = [k \in Keys |-> 0]

Admit(k) ==
  /\ count[k] < Limit
  /\ pending[k] < Slots
  /\ pending'[k] = pending[k] + 1
  /\ count'[k] = count[k]

\* A request is counted, or ends uncounted, or with it the count falls.
Settle(k) ==
  /\ pending[k] > 0
  /\ pending'[k] = pending[k] - 1
  /\ count'[k] \in 0..(count[k] + 1)

\* Or nothing happens to the key.
Decay(k) ==
  /\ count'[k] \in 0..count[k]
  /\ pending'[k] = pending[k]

Next ==
  /\ count' = [k \in Keys |-> count'[k]]
  /\ pending' = [k \in Keys |-> pending'[k]]
  /\ \A k \in Keys : Admit(k) \/ Settle(k) \/ Decay(k)

CountSpec == Init /\ [][Next]_countVars

-----------------------------------------------------------------------------
(***************************************************************************)
(* The limit is passed by no more than the other requests that are under   *)
(* way when the last place is taken.                                       *)
(***************************************************************************)
Overshoot ==
  \A k \in Keys : /\ count[k] \in Nat /\ pending[k] \in 0..Slots
                  /\ count[k] + pending[k] < Limit + Slots
=============================================================================

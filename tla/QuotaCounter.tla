---------------------------- MODULE QuotaCounter ----------------------------
(***************************************************************************)
(* What auth_service promises about quotas, as if every call were one      *)
(* step: a quota counts the distinct idempotency keys charged to it in its *)
(* period, never past its limit, a key that is remembered is never charged *)
(* again, and when a period is over the next one starts afresh, whatever   *)
(* was used in it ("Auto-reset : Quotas périodiques").                     *)
(***************************************************************************)
EXTENDS Integers

CONSTANTS
  Quotas, Keys, Maxima, NoPeriod,
  Ends         \* the moments at which a period may end

VARIABLES
  now,
  made,        \* quotas that exist
  usage, limit,
  periodEnd,   \* the last moment of each quota's period, or NoPeriod
  known        \* the keys remembered

counterVars == <<now, made, usage, limit, periodEnd, known>>

Init ==
  /\ now = 0
  /\ made = {}
  /\ usage = [q \in Quotas |-> 0]
  /\ limit = [q \in Quotas |-> 0]
  /\ periodEnd = [q \in Quotas |-> NoPeriod]
  /\ known = {}

Tick ==
  /\ now' = now + 1
  /\ UNCHANGED <<made, usage, limit, periodEnd, known>>

Grant(q, m, end) ==
  /\ q \notin made
  /\ made' = made \union {q}
  /\ usage' = [usage EXCEPT ![q] = 0]
  /\ limit' = [limit EXCEPT ![q] = m]
  /\ periodEnd' = [periodEnd EXCEPT ![q] = end]
  /\ UNCHANGED <<now, known>>

Remember(k) == k \notin known /\ known' = known \union {k}

Charge(q, k) ==
  /\ q \in made
  /\ usage[q] < limit[q]
  /\ Remember(k)
  /\ usage' = [usage EXCEPT ![q] = @ + 1]
  /\ UNCHANGED <<now, made, limit, periodEnd>>

\* The first charge after the period's end begins a later period, of a quota
\* that was used up as of any other.
ChargeNewPeriod(q, k, end) ==
  /\ q \in made
  /\ limit[q] > 0
  /\ periodEnd[q] # NoPeriod
  /\ periodEnd[q] < now
  /\ end > periodEnd[q]
  /\ Remember(k)
  /\ usage' = [usage EXCEPT ![q] = 1]
  /\ periodEnd' = [periodEnd EXCEPT ![q] = end]
  /\ UNCHANGED <<now, made, limit>>

Clear(q) ==
  /\ q \in made
  /\ usage' = [usage EXCEPT ![q] = 0]
  /\ UNCHANGED <<now, made, limit, periodEnd, known>>

SetLimit(q, m) ==
  /\ q \in made
  /\ usage[q] <= m
  /\ limit' = [limit EXCEPT ![q] = m]
  /\ UNCHANGED <<now, made, usage, periodEnd, known>>

Forget(keys) ==
  /\ known' = known \ keys
  /\ UNCHANGED <<now, made, usage, limit, periodEnd>>

Next ==
  \/ Tick
  \/ \E q \in Quotas, m \in Maxima :
       SetLimit(q, m) \/ \E end \in Ends \union {NoPeriod} : Grant(q, m, end)
  \/ \E q \in Quotas : Clear(q)
  \/ \E q \in Quotas, k \in Keys :
       Charge(q, k) \/ \E end \in Ends : ChargeNewPeriod(q, k, end)
  \/ \E keys \in SUBSET Keys : Forget(keys)

CounterSpec == Init /\ [][Next]_counterVars

=============================================================================

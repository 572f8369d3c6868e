------------------------------ MODULE MCQuota ------------------------------
(***************************************************************************)
(* Small instances of Quota.                                               *)
(***************************************************************************)
EXTENDS Quota, TLC

CONSTANTS daily, endless, k1, k2, k3, h1, h2

OneDayPeriod == [q \in Quotas |-> IF q = daily THEN 2 ELSE NoPeriod]
HandlerKeySymmetry == Permutations(Handlers) \union Permutations(Keys)
=============================================================================

------------------------------ MODULE MCAccess ------------------------------
EXTENDS Access, TLC

CONSTANTS admin, editor

MCSeed == {<<admin, Manage>>, <<admin, ListAll>>}
HandlerSymmetry == Permutations(Handlers)

\* The lesser rights stay with the seeded role, and the founder has no other.
Bounded ==
  /\ <<admin, ListAll>> \in grants
  /\ \A x \in grants : x[2] # Manage => x[1] = admin
  /\ expiry[<<Founder, editor>>] = 0
=============================================================================

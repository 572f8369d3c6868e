------------------------------ MODULE MCGateway -----------------------------
(***************************************************************************)
(* A small instance of Gateway.                                            *)
(***************************************************************************)
EXTENDS Gateway

\* "/api/quiz/list", "/api/quiz/sessions", and a path of no service.
SomePaths == {[public |-> TRUE, service |-> "quiz"], [public |-> FALSE, service |-> "quiz"],
              [public |-> FALSE, service |-> NoService]}
=============================================================================

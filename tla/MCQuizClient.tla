----------------------------- MODULE MCQuizClient ---------------------------
(***************************************************************************)
(* A small instance of QuizClient.                                         *)
(***************************************************************************)
EXTENDS QuizClient

\* Three questions with a limit, one of them over at once, and one without.
SomeLimits == <<2, 0, NoLimit, 1>>
=============================================================================

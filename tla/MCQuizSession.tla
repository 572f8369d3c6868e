--------------------------- MODULE MCQuizSession ---------------------------
(***************************************************************************)
(* Small instances of QuizSession.                                         *)
(***************************************************************************)
EXTENDS QuizSession, TLC

CONSTANTS quizA, quizB, s1, s2, q1, q2, q3, q4, h1, h2

OneSession == [s \in Sessions |-> quizA]
EachItsQuiz == [s \in Sessions |-> IF s = s2 THEN quizB ELSE quizA]
AllInQuizA == [q \in Questions |-> quizA]
LastInQuizB == [q \in Questions |-> IF q = q2 THEN quizB ELSE quizA]
HandlerSymmetry == Permutations(Handlers)
HandlerQuestionSymmetry == Permutations(Handlers) \union Permutations(Questions)
=============================================================================

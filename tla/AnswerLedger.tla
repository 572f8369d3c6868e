---------------------------- MODULE AnswerLedger ----------------------------
(***************************************************************************)
(* What quiz_core_service promises about points, whatever the interleaving *)
(* of its handlers: a session's score is an account to which every         *)
(* recorded answer is posted at most once, with exactly the points the     *)
(* answer row carries.  An answer whose handler dies between its two       *)
(* statements is lost to the score for good.                               *)
(***************************************************************************)
EXTENDS Integers

CONSTANTS
  Sessions, Questions,
  Amounts       \* the points an answer can be worth, numbers of Nat

VARIABLES
  entries,      \* recorded answers: [session, question, points]
  credited,     \* <<session, question>> pairs posted to the score
  lost,         \* pairs recorded but never to be posted
  closed,       \* finalized sessions
  score         \* [Sessions -> Nat]

ledgerVars == <<entries, credited, lost, closed, score>>

Entry == [session: Sessions, question: Questions, points: Amounts]

Init ==
  /\ entries = {}
  /\ credited = {}
  /\ lost = {}
  /\ closed = {}
  /\ score = [s \in Sessions |-> 0]

\* A question is answered at most once per session.
Enter(e) ==
  /\ \A f \in entries : <<f.session, f.question>> # <<e.session, e.question>>
  /\ entries' = entries \union {e}
  /\ UNCHANGED <<credited, lost, closed, score>>

Unsettled(e) == <<e.session, e.question>> \notin credited \union lost

Credit(e) ==
  /\ Unsettled(e)
  /\ credited' = credited \union {<<e.session, e.question>>}
  /\ score' = [score EXCEPT ![e.session] = @ + e.points]
  /\ UNCHANGED <<entries, lost, closed>>

Lose(e) ==
  /\ Unsettled(e)
  /\ lost' = lost \union {<<e.session, e.question>>}
  /\ UNCHANGED <<entries, credited, closed, score>>

Close(s) ==
  /\ s \notin closed
  /\ closed' = closed \union {s}
  /\ UNCHANGED <<entries, credited, lost, score>>

Next ==
  \/ \E e \in Entry : Enter(e)
  \/ \E e \in entries : Credit(e) \/ Lose(e)
  \/ \E s \in Sessions : Close(s)

LedgerSpec == Init /\ [][Next]_ledgerVars

=============================================================================

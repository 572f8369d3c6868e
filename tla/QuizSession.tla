---------------------------- MODULE QuizSession ----------------------------
(***************************************************************************)
(* The session side of quiz_core_service: start_session, submit_answer and *)
(* finalize_session run concurrently, in axum handlers that share nothing  *)
(* but PostgreSQL.  No handler opens a transaction: every statement        *)
(* commits by itself, so submit_answer is a chain of steps that others     *)
(* interleave with, and that stops for good wherever a statement fails or  *)
(* the connection closes and the handler's future is dropped.              *)
(*                                                                         *)
(* Tables: status/score/scoreMax are the columns of sessions_quiz, answers *)
(* is reponses_utilisateur, live/question is questions.  The columns       *)
(* quiz_id never change, so they are constants of the row's identifier.    *)
(***************************************************************************)
EXTENDS Scoring, FiniteSets

CONSTANTS
  Sessions, Quizzes, Questions, Handlers,
  QuizOf,         \* questions.quiz_id
  QuizPlayed,     \* sessions_quiz.quiz_id
  ActiveQuizzes,  \* quizzes with is_active
  PointValues,    \* values of questions.points
  Limits,         \* values of questions.temps_limite_sec
  Times,          \* values of temps_reponse_sec a client sends
  Authoring,      \* whether questions are edited and deleted meanwhile
  NoCall          \* no request in a handler

ASSUME QuizSessionAssumption ==
  /\ QuizOf \in [Questions -> Quizzes]
  /\ QuizPlayed \in [Sessions -> Quizzes]
  /\ ActiveQuizzes \subseteq Quizzes
  /\ PointValues \subseteq Nat
  /\ Limits \subseteq Int \union {NoLimit}
  /\ Times \subseteq Int
  /\ Authoring \in BOOLEAN
  /\ IsFiniteSet(Questions)

VARIABLES
  live,       \* rows of questions
  question,   \* their points and temps_limite_sec
  status,     \* sessions_quiz.status, "absent" before the INSERT
  score, scoreMax,
  answers,    \* rows of reponses_utilisateur
  pc, call,   \* what each handler does, and its local variables
  credited,   \* history: <<session, question>> whose points were added
  lost        \* history: recorded, and the handler died before adding them

vars == <<live, question, status, score, scoreMax, answers, pc, call, credited, lost>>
tables == <<live, question, status, score, scoreMax, answers>>
history == <<credited, lost>>

\* No bonus more than doubles a question.
PossiblePoints == UNION {0..(2 * p) : p \in PointValues}

QuestionRow == [points: PointValues, limit: Limits]

(***************************************************************************)
(* at stands for created_at, the order of the session's rows; streak is    *)
(* not a column: it remembers the streak the points were computed with.    *)
(***************************************************************************)
Answer == [session: Sessions, question: Questions, correct: BOOLEAN,
           points: PossiblePoints, at: Nat, streak: Nat]

AnswersOf(s) == {a \in answers : a.session = s}
Pair(x) == <<x.session, x.question>>

(***************************************************************************)
(* SUM(points) of a function's values: the size of the set of its single   *)
(* points, which needs no recursion.                                       *)
(***************************************************************************)
Total(f) == Cardinality(UNION {{x} \X (1..f[x]) : x \in DOMAIN f})

(***************************************************************************)
(* calculate_streak: how many of the session's latest answers, in          *)
(* created_at order, are right without a wrong one after them.             *)
(***************************************************************************)
Streak(rows) ==
  Cardinality({a \in rows : \A b \in rows : b.at >= a.at => b.correct})

Call == [session: Sessions, question: Questions, time: Times, row: QuestionRow,
         correct: BOOLEAN, streak: Nat, points: PossiblePoints]

HandlerStates == {"idle", "question", "streak", "insert", "credit"}

Init ==
  /\ live = Questions
  /\ question \in [Questions -> QuestionRow]
  /\ status = [s \in Sessions |-> "absent"]
  /\ score = [s \in Sessions |-> 0]
  /\ scoreMax = [s \in Sessions |-> 0]
  /\ answers = {}
  /\ pc = [h \in Handlers |-> "idle"]
  /\ call = [h \in Handlers |-> NoCall]
  /\ credited = {}
  /\ lost = {}

Goto(h, step) == pc' = [pc EXCEPT ![h] = step]

\* The handler returns, with a result or an error, and forgets its locals.
Return(h) ==
  /\ Goto(h, "idle")
  /\ call' = [call EXCEPT ![h] = NoCall]

-----------------------------------------------------------------------------
\* Mutant: score_max is left at its default.
StartSessionWithoutMax(s) ==
  /\ status[s] = "absent"
  /\ QuizPlayed[s] \in ActiveQuizzes
  /\ status' = [status EXCEPT ![s] = "en_cours"]
  /\ UNCHANGED <<live, question, score, scoreMax, answers, pc, call, history>>

(***************************************************************************)
(* start_session.  Its reads come before its only write, and nobody knows  *)
(* the new id before the reply: one step.                                  *)
(***************************************************************************)
StartSession(s) ==
  /\ status[s] = "absent"
  /\ QuizPlayed[s] \in ActiveQuizzes
  /\ status' = [status EXCEPT ![s] = "en_cours"]
  /\ scoreMax' = [scoreMax EXCEPT ![s] =
       Total([q \in {r \in live : QuizOf[r] = QuizPlayed[s]} |-> question[q].points])]
  /\ UNCHANGED <<live, question, score, answers, pc, call, history>>

\* Mutant: finalizing starts the score again.
FinalizeSessionResetsScore(s) ==
  /\ status[s] = "en_cours"
  /\ status' = [status EXCEPT ![s] = "termine"]
  /\ score' = [score EXCEPT ![s] = 0]
  /\ UNCHANGED <<live, question, scoreMax, answers, pc, call, history>>

\* Mutant: the status written is not one the table accepts.
FinalizeSessionMisspelt(s) ==
  /\ status[s] = "en_cours"
  /\ status' = [status EXCEPT ![s] = "terminee"]
  /\ UNCHANGED <<live, question, score, scoreMax, answers, pc, call, history>>

\* finalize_session: one conditional UPDATE ... RETURNING.
FinalizeSession(s) ==
  /\ status[s] = "en_cours"
  /\ status' = [status EXCEPT ![s] = "termine"]
  /\ UNCHANGED <<live, question, score, scoreMax, answers, pc, call, history>>

-----------------------------------------------------------------------------
\* Mutant: find_by_id in place of find_active_by_id.
SubmitAnswerToAnySession(h, s, q, t) ==
  /\ pc[h] = "idle"
  /\ status[s] # "absent"
  /\ Goto(h, "question")
  /\ call' = [call EXCEPT ![h] =
       [session |-> s, question |-> q, time |-> t, row |-> question[q],
        correct |-> FALSE, streak |-> 0, points |-> 0]]
  /\ UNCHANGED <<tables, history>>

(***************************************************************************)
(* submit_answer, statement by statement.  First find_active_by_id.        *)
(***************************************************************************)
SubmitAnswer(h, s, q, t) ==
  /\ pc[h] = "idle"
  /\ status[s] = "en_cours"
  /\ Goto(h, "question")
  /\ call' = [call EXCEPT ![h] =
       [session |-> s, question |-> q, time |-> t, row |-> question[q],
        correct |-> FALSE, streak |-> 0, points |-> 0]]
  /\ UNCHANGED <<tables, history>>

(***************************************************************************)
(* The question, its quiz, the plugin and its verdict.  Whether the answer *)
(* is right is data of the client and of the reponses table: any verdict.  *)
(***************************************************************************)
ReadQuestion(h) ==
  /\ pc[h] = "question"
  /\ call[h].question \in live
  /\ QuizOf[call[h].question] = QuizPlayed[call[h].session]
  /\ Goto(h, "streak")
  /\ \E verdict \in BOOLEAN :
       call' = [call EXCEPT ![h].row = question[call[h].question], ![h].correct = verdict]
  /\ UNCHANGED <<tables, history>>

\* 404 for a question that is gone, 400 for a question of another quiz.
RejectQuestion(h) ==
  /\ pc[h] = "question"
  /\ \/ call[h].question \notin live
     \/ QuizOf[call[h].question] # QuizPlayed[call[h].session]
  /\ Return(h)
  /\ UNCHANGED <<tables, history>>

\* Mutant: the streak counts the answer being given, right or wrong.
ReadStreakIncludingThis(h) ==
  /\ pc[h] = "streak"
  /\ LET c == call[h]
         streak == Streak(AnswersOf(c.session)) + 1
     IN call' = [call EXCEPT ![h].streak = streak,
                             ![h].points = CalculateScore(c.row.points, c.correct, c.time,
                                                          c.row.limit, streak)]
  /\ Goto(h, "insert")
  /\ UNCHANGED <<tables, history>>

\* The streak so far, and the points from it.
ReadStreak(h) ==
  /\ pc[h] = "streak"
  /\ LET c == call[h]
         streak == Streak(AnswersOf(c.session))
     IN call' = [call EXCEPT ![h].streak = streak,
                             ![h].points = CalculateScore(c.row.points, c.correct, c.time,
                                                          c.row.limit, streak)]
  /\ Goto(h, "insert")
  /\ UNCHANGED <<tables, history>>

Answered(s, q) == \E a \in answers : Pair(a) = <<s, q>>

\* Mutant: the table without UNIQUE(session_id, question_id).
InsertAnswerAgain(h) ==
  LET c == call[h] IN
  /\ pc[h] = "insert"
  /\ c.question \in live
  /\ answers' = answers \union
       {[session |-> c.session, question |-> c.question, correct |-> c.correct,
         points |-> c.points, at |-> Cardinality(AnswersOf(c.session)) + 1,
         streak |-> c.streak]}
  /\ Goto(h, "credit")
  /\ UNCHANGED <<live, question, status, score, scoreMax, call, history>>

\* Mutant: the handler answers the client and forgets update_score.
InsertAnswerOnly(h) ==
  LET c == call[h] IN
  /\ pc[h] = "insert"
  /\ ~Answered(c.session, c.question)
  /\ c.question \in live
  /\ answers' = answers \union
       {[session |-> c.session, question |-> c.question, correct |-> c.correct,
         points |-> c.points, at |-> Cardinality(AnswersOf(c.session)) + 1,
         streak |-> c.streak]}
  /\ Return(h)
  /\ UNCHANGED <<live, question, status, score, scoreMax, history>>

\* create_user_answer, under UNIQUE(session_id, question_id) and the foreign
\* key to questions.
InsertAnswer(h) ==
  LET c == call[h] IN
  /\ pc[h] = "insert"
  /\ ~Answered(c.session, c.question)
  /\ c.question \in live
  /\ answers' = answers \union
       {[session |-> c.session, question |-> c.question, correct |-> c.correct,
         points |-> c.points, at |-> Cardinality(AnswersOf(c.session)) + 1,
         streak |-> c.streak]}
  /\ Goto(h, "credit")
  /\ UNCHANGED <<live, question, status, score, scoreMax, call, history>>

\* Mutant: a violated constraint is retried from the start.
RejectInsertRetries(h) ==
  /\ pc[h] = "insert"
  /\ Answered(call[h].session, call[h].question) \/ call[h].question \notin live
  /\ Goto(h, "question")
  /\ UNCHANGED <<tables, call, history>>

RejectInsert(h) ==
  /\ pc[h] = "insert"
  /\ Answered(call[h].session, call[h].question) \/ call[h].question \notin live
  /\ Return(h)
  /\ UNCHANGED <<tables, history>>

\* Mutant: the question's base points are added, without the bonuses.
UpdateScoreByBase(h) ==
  LET c == call[h] IN
  /\ pc[h] = "credit"
  /\ score' = [score EXCEPT ![c.session] = @ + c.row.points]
  /\ credited' = credited \union {Pair(c)}
  /\ Return(h)
  /\ UNCHANGED <<live, question, status, scoreMax, answers, lost>>

\* Mutant: update_score again until the client hangs up.
UpdateScoreRepeatedly(h) ==
  LET c == call[h] IN
  /\ pc[h] = "credit"
  /\ score' = [score EXCEPT ![c.session] = @ + c.points]
  /\ credited' = credited \union {Pair(c)}
  /\ UNCHANGED <<live, question, status, scoreMax, answers, pc, call, lost>>

\* update_score: SET score = score + points, whatever the status has become.
UpdateScore(h) ==
  LET c == call[h] IN
  /\ pc[h] = "credit"
  /\ score' = [score EXCEPT ![c.session] = @ + c.points]
  /\ credited' = credited \union {Pair(c)}
  /\ Return(h)
  /\ UNCHANGED <<live, question, status, scoreMax, answers, lost>>

(***************************************************************************)
(* A statement or the plugin's validation fails, or the client hangs up    *)
(* and axum drops the future: what was committed stays, the rest never     *)
(* happens.                                                                *)
(***************************************************************************)
Abort(h) ==
  /\ pc[h] # "idle"
  /\ lost' = IF pc[h] = "credit" THEN lost \union {Pair(call[h])} ELSE lost
  /\ Return(h)
  /\ UNCHANGED <<tables, credited>>

-----------------------------------------------------------------------------
\* PUT /questions/:id.
UpdateQuestion(q, row) ==
  /\ Authoring
  /\ q \in live
  /\ question' = [question EXCEPT ![q] = row]
  /\ UNCHANGED <<live, status, score, scoreMax, answers, pc, call, history>>

\* DELETE /questions/:id; the foreign key of reponses_utilisateur forbids it
\* once the question is answered.
DeleteQuestion(q) ==
  /\ Authoring
  /\ q \in live
  /\ \A a \in answers : a.question # q
  /\ live' = live \ {q}
  /\ UNCHANGED <<question, status, score, scoreMax, answers, pc, call, history>>

-----------------------------------------------------------------------------
Step(h) ==
  \/ ReadQuestion(h) \/ RejectQuestion(h)
  \/ ReadStreak(h)
  \/ InsertAnswer(h) \/ RejectInsert(h)
  \/ UpdateScore(h)

Next ==
  \/ \E s \in Sessions : StartSession(s) \/ FinalizeSession(s)
  \/ \E h \in Handlers, s \in Sessions, q \in Questions, t \in Times : SubmitAnswer(h, s, q, t)
  \/ \E h \in Handlers : Step(h) \/ Abort(h)
  \/ \E q \in Questions : DeleteQuestion(q) \/ \E row \in QuestionRow : UpdateQuestion(q, row)

\* The runtime polls every future it has not dropped until it returns.
Fairness == \A h \in Handlers : WF_vars(Step(h))

Spec == Init /\ [][Next]_vars
FairSpec == Spec /\ Fairness

-----------------------------------------------------------------------------
(***************************************************************************)
(* Types.  A handler that runs has a call, an idle one has none.           *)
(***************************************************************************)
TypeOK ==
  /\ live \subseteq Questions
  /\ question \in [Questions -> QuestionRow]
  /\ status \in [Sessions -> {"absent", "en_cours", "termine"}]
  /\ score \in [Sessions -> Nat]
  /\ scoreMax \in [Sessions -> Nat]
  /\ answers \subseteq Answer /\ IsFiniteSet(answers)
  /\ pc \in [Handlers -> HandlerStates]
  /\ call \in [Handlers -> Call \union {NoCall}]
  /\ \A h \in Handlers : pc[h] # "idle" => call[h] \in Call
  /\ credited \subseteq Sessions \X Questions
  /\ lost \subseteq Sessions \X Questions

\* A handler is between its INSERT and its UPDATE for this session and question.
Pending(h, pair) == pc[h] = "credit" /\ Pair(call[h]) = pair

CreditedRows(s) == {a \in AnswersOf(s) : Pair(a) \in credited}

(***************************************************************************)
(* The score is the sum of the points of exactly the answers whose         *)
(* update_score ran: no interleaving of submissions, finalization, edits   *)
(* and dropped requests makes it drift from the rows it summarises.        *)
(***************************************************************************)
ScoreIsSumOfCredits ==
  \A s \in Sessions : score[s] = Total([a \in CreditedRows(s) |-> a.points])

(***************************************************************************)
(* A recorded answer is in exactly one of three places: added to the       *)
(* score, lost with its handler, or in the hands of one handler that still *)
(* holds the very points of the row; so no retry ever adds it twice.       *)
(***************************************************************************)
AnswerSettledOnce ==
  /\ credited \intersect lost = {}
  /\ \A a \in answers :
       LET holders == {h \in Handlers : Pending(h, Pair(a))} IN
       IF Pair(a) \in credited \union lost THEN holders = {}
       ELSE \E h \in Handlers : holders = {h} /\ call[h].points = a.points

(***************************************************************************)
(* The ledger's bookkeeping, as strong as it must be to be inductive:      *)
(* UNIQUE keeps one row per pair, only recorded pairs are credited or      *)
(* lost, and handlers about to credit are in one-to-one correspondence     *)
(* with the rows that are neither.                                         *)
(***************************************************************************)
LedgerInv ==
  /\ \A a, b \in answers : Pair(a) = Pair(b) => a = b
  /\ \A p \in credited \union lost : \E a \in answers : Pair(a) = p
  /\ credited \intersect lost = {}
  /\ \A h \in Handlers : pc[h] = "credit" =>
       /\ Pair(call[h]) \notin credited \union lost
       /\ \E a \in answers : Pair(a) = Pair(call[h]) /\ a.points = call[h].points
  /\ \A g, h \in Handlers :
       pc[g] = "credit" /\ pc[h] = "credit" /\ Pair(call[g]) = Pair(call[h]) => g = h
  /\ \A a \in answers :
       Pair(a) \notin credited \union lost => \E h \in Handlers : Pending(h, Pair(a))

(***************************************************************************)
(* Submissions of one session may overlap, so the streak in an answer's    *)
(* points can be out of date; but it is always a streak the session really *)
(* had, after some number of answers recorded before this one.             *)
(***************************************************************************)
StreakWasReal ==
  \A a \in answers : \E n \in 0..(a.at - 1) :
    a.streak = Streak({b \in AnswersOf(a.session) : b.at <= n})

(***************************************************************************)
(* Bonuses at most double a question and a question counts once, so        *)
(* without edits the score stays within twice score_max; the percentage    *)
(* the trigger derives from the two may pass 100 but never 200.            *)
(***************************************************************************)
ScoreWithinTwiceMax ==
  ~Authoring => \A s \in Sessions : score[s] <= 2 * scoreMax[s]

(***************************************************************************)
(* Nothing but update_score of a handler admitted while the session was    *)
(* open moves the score of a finalized session: once no handler is left in *)
(* it, its answers and its score are final and it never reopens.           *)
(***************************************************************************)
InFlight(s) == {h \in Handlers : pc[h] # "idle" /\ call[h].session = s}
Settled(s) == status[s] = "termine" /\ InFlight(s) = {}
SettledIsFinal ==
  [][\A s \in Sessions : Settled(s) =>
       Settled(s)' /\ score'[s] = score[s] /\ AnswersOf(s)' = AnswersOf(s)]_vars

(***************************************************************************)
(* finalize_session does not wait for the submissions in flight, but they  *)
(* drain: every finalized session reaches the point of SettledIsFinal.     *)
(***************************************************************************)
FinalizedSettles == \A s \in Sessions : status[s] = "termine" ~> Settled(s)

(***************************************************************************)
(* Every recorded answer ends up in the score unless its handler was       *)
(* dropped between its two statements.                                     *)
(***************************************************************************)
RecordedIsSettled ==
  \A s \in Sessions, q \in Questions :
    Answered(s, q) ~> <<s, q>> \in credited \union lost

(***************************************************************************)
(* The service implements the ledger, through the rows and the history.    *)
(***************************************************************************)
Ledger == INSTANCE AnswerLedger WITH
  Amounts <- PossiblePoints,
  entries <- {[session |-> a.session, question |-> a.question, points |-> a.points] : a \in answers},
  closed <- {s \in Sessions : status[s] = "termine"}

ImplementsLedger == Ledger!LedgerSpec
=============================================================================

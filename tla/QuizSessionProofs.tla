------------------------- MODULE QuizSessionProofs -------------------------
(***************************************************************************)
(* What holds of QuizSession for all sessions, questions, handlers and     *)
(* point values.                                                           *)
(***************************************************************************)
EXTENDS QuizSession, FiniteSetTheorems, FunctionTheorems, TLAPS

-----------------------------------------------------------------------------
(***************************************************************************)
(* calculate_score: the speed factor is one of four percentages and the    *)
(* streak bonus at most half the question.                                 *)
(***************************************************************************)
LEMMA SpeedPercentType ==
  ASSUME NEW time \in Int, NEW limit \in Int \union {NoLimit}
  PROVE  SpeedPercent(time, limit) \in {75, 100, 125, 150}
BY DEF SpeedPercent

LEMMA StreakPercentType ==
  ASSUME NEW streak \in Nat
  PROVE  StreakPercent(streak) \in 0..50
BY DEF StreakPercent

LEMMA RoundBound ==
  ASSUME NEW h \in Nat, NEW n \in Nat, h <= 100 * n
  PROVE  RoundHundredths(h) \in 0..n
<1>1. (h + 50) \div 100 \in Nat /\ 100 * ((h + 50) \div 100) <= h + 50
  OBVIOUS
<1>2. QED
  BY <1>1 DEF RoundHundredths

(***************************************************************************)
(* A question is never worth more than twice its points, and never less    *)
(* than nothing (geography_plugin.rs, calculate_score).                    *)
(***************************************************************************)
THEOREM CalculateScoreBound ==
  ASSUME NEW base \in Nat, NEW isCorrect \in BOOLEAN, NEW time \in Int,
         NEW limit \in Int \union {NoLimit}, NEW streak \in Nat
  PROVE  CalculateScore(base, isCorrect, time, limit, streak) \in 0..(2 * base)
<1> DEFINE percent == SpeedPercent(time, limit) + StreakPercent(streak)
<1>1. percent \in 0..200
  <2>1. SpeedPercent(time, limit) \in {75, 100, 125, 150}
    BY SpeedPercentType
  <2>2. StreakPercent(streak) \in 0..50
    BY StreakPercentType
  <2>3. QED
    BY <2>1, <2>2
<1>2. base * percent \in Nat /\ base * percent <= 100 * (2 * base)
  <2> HIDE DEF percent
  <2>1. base * percent \in Nat
    BY <1>1
  <2>2. base * percent <= base * 200
    BY <1>1
  <2>3. QED
    BY <2>1, <2>2, <1>1
<1>3. RoundHundredths(base * percent) \in 0..(2 * base)
  BY <1>2, RoundBound
<1>4. QED
  BY <1>3 DEF CalculateScore

LEMMA RoundMonotone ==
  ASSUME NEW g \in Nat, NEW h \in Nat, g <= h
  PROVE  RoundHundredths(g) <= RoundHundredths(h)
<1>1. (g + 50) \div 100 <= (h + 50) \div 100
  OBVIOUS
<1>2. QED
  BY <1>1 DEF RoundHundredths

LEMMA ScoreMonotone ==
  ASSUME NEW base \in Nat, NEW p \in Nat, NEW q \in Nat, p <= q
  PROVE  RoundHundredths(base * p) <= RoundHundredths(base * q)
<1>1. base * p \in Nat /\ base * q \in Nat /\ base * p <= base * q
  OBVIOUS
<1>2. QED
  BY <1>1, RoundMonotone

(***************************************************************************)
(* The speed classes never reward waiting, limits of zero and below        *)
(* included; of times below zero a negative limit would reverse the order  *)
(* (geography_plugin.rs, calculate_score).                                 *)
(***************************************************************************)
THEOREM SlowerEarnsNoMore ==
  ASSUME NEW base \in Nat, NEW isCorrect \in BOOLEAN,
         NEW limit \in Int \union {NoLimit}, NEW streak \in Nat,
         NEW time \in Int, NEW later \in Int, time <= later,
         time >= 0 \/ limit = NoLimit \/ limit >= 0
  PROVE  CalculateScore(base, isCorrect, later, limit, streak)
           <= CalculateScore(base, isCorrect, time, limit, streak)
<1>1. SpeedPercent(later, limit) <= SpeedPercent(time, limit)
  <2>1. CASE limit = NoLimit
    BY <2>1 DEF SpeedPercent
  <2>2. CASE limit \in Int /\ limit >= 0
    BY <2>2, NoLimitAssumption DEF SpeedPercent, RatioBelow, RatioAbove
  <2>3. CASE limit \in Int /\ ~(limit >= 0)
    <3>1. limit # NoLimit /\ time >= 0 /\ later >= 0
      BY <2>3, NoLimitAssumption
    <3>2. RatioBelow(time, limit, 3) /\ RatioBelow(later, limit, 3)
      BY <2>3, <3>1 DEF RatioBelow
    <3>3. QED
      BY <3>1, <3>2 DEF SpeedPercent
  <2>4. QED
    BY <2>1, <2>2, <2>3
<1> DEFINE p == SpeedPercent(later, limit) + StreakPercent(streak)
           q == SpeedPercent(time, limit) + StreakPercent(streak)
<1>2. p \in Nat /\ q \in Nat /\ p <= q
  BY <1>1, SpeedPercentType, StreakPercentType
<1>3. RoundHundredths(base * p) <= RoundHundredths(base * q)
  <2> HIDE DEF p, q
  <2>1. QED
    BY <1>2, ScoreMonotone
<1>4. QED
  BY <1>3 DEF CalculateScore

(***************************************************************************)
(* One right answer more in the streak never earns less: not where the     *)
(* bonus starts, not where it is capped (calculate_score).                 *)
(***************************************************************************)
THEOREM LongerStreakEarnsNoLess ==
  ASSUME NEW base \in Nat, NEW isCorrect \in BOOLEAN,
         NEW limit \in Int \union {NoLimit}, NEW time \in Int,
         NEW streak \in Nat, NEW longer \in Nat, streak <= longer
  PROVE  CalculateScore(base, isCorrect, time, limit, streak)
           <= CalculateScore(base, isCorrect, time, limit, longer)
<1>1. StreakPercent(streak) <= StreakPercent(longer)
  BY DEF StreakPercent
<1> DEFINE p == SpeedPercent(time, limit) + StreakPercent(streak)
           q == SpeedPercent(time, limit) + StreakPercent(longer)
<1>2. p \in Nat /\ q \in Nat /\ p <= q
  BY <1>1, SpeedPercentType, StreakPercentType
<1>3. RoundHundredths(base * p) <= RoundHundredths(base * q)
  <2> HIDE DEF p, q
  <2>1. QED
    BY <1>2, ScoreMonotone
<1>4. QED
  BY <1>3 DEF CalculateScore

-----------------------------------------------------------------------------
(***************************************************************************)
(* Total: a sum of naturals over a finite domain is a natural, and one     *)
(* more summand adds its value.                                            *)
(***************************************************************************)
Units(f) == UNION {{x} \X (1..f[x]) : x \in DOMAIN f}

LEMMA UnitsFinite ==
  ASSUME NEW D, IsFiniteSet(D), NEW f \in [D -> Nat]
  PROVE  IsFiniteSet(Units(f))
<1> DEFINE unit == [x \in D |-> {x} \X (1..f[x])]
           units == {{x} \X (1..f[x]) : x \in DOMAIN f}
<1>1. unit \in Surjection(D, units)
  BY DEF Surjection
<1>2. IsFiniteSet(units)
  BY <1>1, FS_Surjection
<1>3. \A x \in D : IsFiniteSet({x} \X (1..f[x]))
  <2> TAKE x \in D
  <2>1. IsFiniteSet({x})
    BY FS_Singleton
  <2>2. IsFiniteSet(1..f[x])
    BY FS_Interval
  <2>3. QED
    BY <2>1, <2>2, FS_Product
<1>4. \A u \in units : IsFiniteSet(u)
  BY <1>3
<1>5. QED
  BY <1>2, <1>4, FS_UNION DEF Units

LEMMA TotalType ==
  ASSUME NEW D, IsFiniteSet(D), NEW f \in [D -> Nat]
  PROVE  Total(f) \in Nat
BY UnitsFinite, FS_CardinalityType DEF Total, Units

LEMMA TotalEmpty ==
  ASSUME NEW f, DOMAIN f = {}
  PROVE  Total(f) = 0
<1>1. UNION {{x} \X (1..f[x]) : x \in DOMAIN f} = {}
  OBVIOUS
<1>2. QED
  BY <1>1, FS_EmptySet DEF Total

LEMMA SingletonProduct ==
  ASSUME NEW x, NEW T, IsFiniteSet(T)
  PROVE  IsFiniteSet({x} \X T) /\ Cardinality({x} \X T) = Cardinality(T)
<1> DEFINE S == {x}
<1>1. IsFiniteSet(S) /\ Cardinality(S) = 1
  BY FS_Singleton
<1>2. IsFiniteSet(S \X T) /\ Cardinality(S \X T) = Cardinality(S) * Cardinality(T)
  <2> HIDE DEF S
  <2>1. QED
    BY <1>1, FS_Product
<1>3. Cardinality(T) \in Nat
  BY FS_CardinalityType
<1>4. QED
  BY <1>1, <1>2, <1>3

LEMMA TotalExtend ==
  ASSUME NEW D, IsFiniteSet(D), NEW f \in [D -> Nat],
         NEW x, x \notin D, NEW g \in [D \union {x} -> Nat],
         \A y \in D : g[y] = f[y]
  PROVE  Total(g) = Total(f) + g[x]
<1> DEFINE new == {x} \X (1..g[x])
<1>1. Units(g) = Units(f) \union new /\ Units(f) \intersect new = {}
  BY DEF Units
<1>2. IsFiniteSet(new) /\ Cardinality(new) = g[x]
  <2>1. IsFiniteSet(1..g[x]) /\ Cardinality(1..g[x]) = g[x]
    BY FS_Interval
  <2>2. QED
    BY <2>1, SingletonProduct
<1>3. IsFiniteSet(Units(f))
  BY UnitsFinite
<1>4. Cardinality(Units(g)) = Cardinality(Units(f)) + g[x]
  <2> HIDE DEF new
  <2>1. Cardinality(Units(f) \union new)
          = Cardinality(Units(f)) + Cardinality(new) - Cardinality(Units(f) \intersect new)
    BY <1>2, <1>3, FS_Union, Zenon
  <2>2. Cardinality(Units(f)) \in Nat
    BY <1>3, FS_CardinalityType
  <2>3. Cardinality(Units(f) \intersect new) = 0
    BY <1>1, FS_EmptySet, Zenon
  <2>4. Cardinality(Units(g)) = Cardinality(Units(f) \union new)
    BY <1>1, Zenon
  <2>5. g[x] \in Nat
    OBVIOUS
  <2>6. QED
    BY <1>2, <2>1, <2>2, <2>3, <2>4, <2>5
<1>5. QED
  BY <1>4 DEF Total, Units

-----------------------------------------------------------------------------
(***************************************************************************)
(* Types.                                                                  *)
(***************************************************************************)
LEMMA StreakType ==
  ASSUME NEW rows, IsFiniteSet(rows)
  PROVE  Streak(rows) \in Nat
<1>1. {a \in rows : \A b \in rows : b.at >= a.at => b.correct} \in SUBSET rows
  OBVIOUS
<1>2. QED
  BY <1>1, FS_Subset, FS_CardinalityType DEF Streak

LEMMA CallPoints ==
  ASSUME NEW c \in Call, NEW streak \in Nat
  PROVE  CalculateScore(c.row.points, c.correct, c.time, c.row.limit, streak)
           \in PossiblePoints
<1>1. /\ c.row.points \in PointValues /\ c.row.points \in Nat
      /\ c.correct \in BOOLEAN /\ c.time \in Int /\ c.row.limit \in Int \union {NoLimit}
  BY QuizSessionAssumption DEF Call, QuestionRow
<1>2. CalculateScore(c.row.points, c.correct, c.time, c.row.limit, streak)
        \in 0..(2 * c.row.points)
  BY <1>1, CalculateScoreBound
<1>3. QED
  BY <1>1, <1>2 DEF PossiblePoints

LEMMA PossiblePointsNat == PossiblePoints \subseteq Nat
BY QuizSessionAssumption DEF PossiblePoints

LEMMA AnswersOfFinite ==
  ASSUME IsFiniteSet(answers), NEW s
  PROVE  IsFiniteSet(AnswersOf(s)) /\ Cardinality(AnswersOf(s)) \in Nat
<1>1. AnswersOf(s) \in SUBSET answers
  BY DEF AnswersOf
<1>2. QED
  BY <1>1, FS_Subset, FS_CardinalityType

LEMMA InitTypeOK == Init => TypeOK
<1>1. IsFiniteSet({})
  BY FS_EmptySet
<1>2. QED
  BY <1>1 DEF Init, TypeOK, HandlerStates

LEMMA NextTypeOK == TypeOK /\ [Next]_vars => TypeOK'
<1> SUFFICES ASSUME TypeOK, [Next]_vars
             PROVE  TypeOK'
  OBVIOUS
<1> USE DEF TypeOK, HandlerStates
<1>1. ASSUME NEW s \in Sessions, StartSession(s)
      PROVE  TypeOK'
  <2> DEFINE D == {r \in live : QuizOf[r] = QuizPlayed[s]}
             f == [q \in D |-> question[q].points]
  <2>1. IsFiniteSet(D)
    <3>1. D \in SUBSET Questions
      OBVIOUS
    <3>2. QED
      BY <3>1, FS_Subset, QuizSessionAssumption
  <2>2. f \in [D -> Nat]
    BY QuizSessionAssumption DEF QuestionRow
  <2>3. Total(f) \in Nat
    BY <2>1, <2>2, TotalType
  <2>4. scoreMax' \in [Sessions -> Nat]
    BY <1>1, <2>3 DEF StartSession
  <2>5. QED
    BY <1>1, <2>4 DEF StartSession, history
<1>2. ASSUME NEW s \in Sessions, FinalizeSession(s)
      PROVE  TypeOK'
  BY <1>2 DEF FinalizeSession, history
<1>3. ASSUME NEW h \in Handlers, NEW s \in Sessions, NEW q \in Questions, NEW t \in Times,
             SubmitAnswer(h, s, q, t)
      PROVE  TypeOK'
  <2>1. 0 \in PossiblePoints
    <3>1. question[q].points \in PointValues /\ question[q].points \in Nat
      BY QuizSessionAssumption DEF QuestionRow
    <3>2. 0 \in 0..(2 * question[q].points)
      BY <3>1
    <3>3. QED
      BY <3>1, <3>2 DEF PossiblePoints
  <2>2. call' \in [Handlers -> Call \union {NoCall}] /\ call'[h] \in Call
    BY <1>3, <2>1 DEF SubmitAnswer, Call
  <2>3. QED
    BY <1>3, <2>2 DEF SubmitAnswer, Goto, tables, history
<1>4. ASSUME NEW h \in Handlers, ReadQuestion(h)
      PROVE  TypeOK'
  <2>1. call[h] \in Call
    BY <1>4 DEF ReadQuestion
  <2>2. PICK verdict \in BOOLEAN :
          call' = [call EXCEPT ![h].row = question[call[h].question], ![h].correct = verdict]
    BY <1>4 DEF ReadQuestion
  <2>3. call[h].question \in Questions
    BY <2>1 DEF Call
  <2>4. [call[h] EXCEPT !.row = question[call[h].question], !.correct = verdict] \in Call
    BY <2>1, <2>3 DEF Call
  <2>5. call' \in [Handlers -> Call \union {NoCall}] /\ call'[h] \in Call
    BY <2>2, <2>4
  <2>6. QED
    BY <1>4, <2>5 DEF ReadQuestion, Goto, tables, history
<1>5. ASSUME NEW h \in Handlers, RejectQuestion(h)
      PROVE  TypeOK'
  BY <1>5 DEF RejectQuestion, Return, Goto, tables, history
<1>6. ASSUME NEW h \in Handlers, ReadStreak(h)
      PROVE  TypeOK'
  <2>1. call[h] \in Call
    BY <1>6 DEF ReadStreak
  <2> DEFINE streak == Streak(AnswersOf(call[h].session))
  <2>2. streak \in Nat
    BY AnswersOfFinite, StreakType
  <2>3. CalculateScore(call[h].row.points, call[h].correct, call[h].time,
                       call[h].row.limit, streak) \in PossiblePoints
    BY <2>1, <2>2, CallPoints
  <2>4. call' \in [Handlers -> Call \union {NoCall}] /\ call'[h] \in Call
    BY <1>6, <2>1, <2>2, <2>3 DEF ReadStreak, Call
  <2>5. QED
    BY <1>6, <2>4 DEF ReadStreak, Goto, tables, history
<1>7. ASSUME NEW h \in Handlers, InsertAnswer(h)
      PROVE  TypeOK'
  <2>1. call[h] \in Call
    BY <1>7 DEF InsertAnswer
  <2>2. PICK a \in Answer : answers' = answers \union {a}
    <3>1. Cardinality(AnswersOf(call[h].session)) + 1 \in Nat
      BY AnswersOfFinite
    <3>2. QED
      BY <1>7, <2>1, <3>1 DEF InsertAnswer, Answer, Call
  <2>3. IsFiniteSet(answers')
    BY <2>2, FS_AddElement
  <2>4. QED
    BY <1>7, <2>1, <2>2, <2>3 DEF InsertAnswer, Goto, history
<1>8. ASSUME NEW h \in Handlers, RejectInsert(h)
      PROVE  TypeOK'
  BY <1>8 DEF RejectInsert, Return, Goto, tables, history
<1>9. ASSUME NEW h \in Handlers, UpdateScore(h)
      PROVE  TypeOK'
  <2>1. call[h] \in Call
    BY <1>9 DEF UpdateScore
  <2>2. call[h].points \in Nat /\ call[h].session \in Sessions /\ Pair(call[h]) \in Sessions \X Questions
    BY <2>1, PossiblePointsNat DEF Call, Pair
  <2>3. score' \in [Sessions -> Nat]
    BY <1>9, <2>2 DEF UpdateScore
  <2>4. QED
    BY <1>9, <2>2, <2>3 DEF UpdateScore, Return, Goto
<1>10. ASSUME NEW h \in Handlers, Abort(h)
       PROVE  TypeOK'
  <2>1. Pair(call[h]) \in Sessions \X Questions
    BY <1>10 DEF Abort, Call, Pair
  <2>2. QED
    BY <1>10, <2>1 DEF Abort, Return, Goto, tables
<1>11. ASSUME NEW q \in Questions, NEW row \in QuestionRow, UpdateQuestion(q, row)
       PROVE  TypeOK'
  BY <1>11 DEF UpdateQuestion, history
<1>12. ASSUME NEW q \in Questions, DeleteQuestion(q)
       PROVE  TypeOK'
  BY <1>12 DEF DeleteQuestion, history
<1>13. CASE UNCHANGED vars
  BY <1>13 DEF vars
<1>14. QED
  BY <1>1, <1>2, <1>3, <1>4, <1>5, <1>6, <1>7, <1>8, <1>9, <1>10, <1>11, <1>12, <1>13
     DEF Next, Step

(***************************************************************************)
(* Every reachable state is well typed: a running handler always has its   *)
(* locals, and no score or maximum ever leaves the naturals.               *)
(***************************************************************************)
THEOREM TypeCorrect == Spec => []TypeOK
BY InitTypeOK, NextTypeOK, PTL DEF Spec

-----------------------------------------------------------------------------
(***************************************************************************)
(* The ledger's bookkeeping.                                               *)
(***************************************************************************)
LEMMA InitLedgerInv == Init => LedgerInv
BY DEF Init, LedgerInv

\* A step that neither starts nor ends anybody's credit step.
QuietStep ==
  /\ UNCHANGED <<answers, credited, lost>>
  /\ \A g \in Handlers : /\ pc'[g] = "credit" <=> pc[g] = "credit"
                         /\ pc[g] = "credit" => call'[g] = call[g]

LEMMA QuietKeepsLedgerInv == LedgerInv /\ QuietStep => LedgerInv'
BY DEF LedgerInv, QuietStep, Pending, Pair

\* All actions but the three of the credit step are quiet.
LEMMA QuietActions ==
  ASSUME TypeOK, [Next]_vars
  PROVE  \/ QuietStep
         \/ \E h \in Handlers : \/ InsertAnswer(h)
                                \/ UpdateScore(h)
                                \/ Abort(h) /\ pc[h] = "credit"
<1> USE DEF TypeOK, QuietStep, tables, history
<1>1. ASSUME NEW s \in Sessions, StartSession(s) \/ FinalizeSession(s)
      PROVE  QuietStep
  BY <1>1 DEF StartSession, FinalizeSession
<1>2. ASSUME NEW h \in Handlers, NEW s \in Sessions, NEW q \in Questions, NEW t \in Times,
             SubmitAnswer(h, s, q, t)
      PROVE  QuietStep
  BY <1>2 DEF SubmitAnswer, Goto
<1>3. ASSUME NEW h \in Handlers, ReadQuestion(h) \/ ReadStreak(h)
      PROVE  QuietStep
  BY <1>3 DEF ReadQuestion, ReadStreak, Goto
<1>4. ASSUME NEW h \in Handlers, RejectQuestion(h) \/ RejectInsert(h)
      PROVE  QuietStep
  BY <1>4 DEF RejectQuestion, RejectInsert, Return, Goto
<1>5. ASSUME NEW h \in Handlers, Abort(h), pc[h] # "credit"
      PROVE  QuietStep
  BY <1>5 DEF Abort, Return, Goto
<1>6. ASSUME NEW q \in Questions, DeleteQuestion(q) \/ \E row \in QuestionRow : UpdateQuestion(q, row)
      PROVE  QuietStep
  BY <1>6 DEF DeleteQuestion, UpdateQuestion
<1>7. CASE UNCHANGED vars
  BY <1>7 DEF vars
<1>8. QED
  BY <1>1, <1>2, <1>3, <1>4, <1>5, <1>6, <1>7 DEF Next, Step

\* The row InsertAnswer adds is new and belongs to no settled pair.
LEMMA InsertedRow ==
  ASSUME TypeOK, LedgerInv, NEW h \in Handlers, InsertAnswer(h)
  PROVE  \E a \in Answer :
           /\ answers' = answers \union {a}
           /\ Pair(a) = Pair(call[h]) /\ a.points = call[h].points
           /\ \A b \in answers : Pair(b) # Pair(a)
           /\ Pair(a) \notin credited \union lost
<1>1. call[h] \in Call
  BY DEF InsertAnswer, TypeOK
<1>2. PICK a : /\ answers' = answers \union {a}
               /\ a.session = call[h].session /\ a.question = call[h].question
               /\ a.points = call[h].points
               /\ a = [session |-> call[h].session, question |-> call[h].question,
                       correct |-> call[h].correct, points |-> call[h].points,
                       at |-> Cardinality(AnswersOf(call[h].session)) + 1,
                       streak |-> call[h].streak]
  BY DEF InsertAnswer
<1>3. a \in Answer
  <2>1. Cardinality(AnswersOf(call[h].session)) + 1 \in Nat
    BY AnswersOfFinite DEF TypeOK
  <2>2. QED
    BY <1>1, <1>2, <2>1 DEF Answer, Call
<1>4. Pair(a) = Pair(call[h]) /\ \A b \in answers : Pair(b) # Pair(a)
  BY <1>2 DEF InsertAnswer, Answered, Pair
<1>5. QED
  BY <1>2, <1>3, <1>4 DEF LedgerInv

\* The row UpdateScore credits: it is the only one of its pair.
LEMMA CreditedRow ==
  ASSUME TypeOK, LedgerInv, NEW h \in Handlers, pc[h] = "credit"
  PROVE  \E a \in answers :
           /\ Pair(a) = Pair(call[h]) /\ a.points = call[h].points
           /\ \A b \in answers : Pair(b) = Pair(a) => b = a
           /\ Pair(a) \notin credited \union lost
           /\ a.session = call[h].session
<1>1. PICK a \in answers : Pair(a) = Pair(call[h]) /\ a.points = call[h].points
  BY DEF LedgerInv
<1>2. a.session = call[h].session
  BY <1>1 DEF Pair
<1>3. QED
  BY <1>1, <1>2 DEF LedgerInv

LEMMA NextLedgerInv == TypeOK /\ LedgerInv /\ [Next]_vars => LedgerInv'
<1> SUFFICES ASSUME TypeOK, LedgerInv, [Next]_vars
             PROVE  LedgerInv'
  OBVIOUS
<1>1. ASSUME NEW h \in Handlers, InsertAnswer(h)
      PROVE  LedgerInv'
  <2>1. PICK a \in Answer :
           /\ answers' = answers \union {a}
           /\ Pair(a) = Pair(call[h]) /\ a.points = call[h].points
           /\ \A b \in answers : Pair(b) # Pair(a)
           /\ Pair(a) \notin credited \union lost
    BY <1>1, InsertedRow
  <2>2. UNCHANGED <<call, credited, lost>> /\ pc' = [pc EXCEPT ![h] = "credit"]
    BY <1>1 DEF InsertAnswer, Goto, history
  <2>3. \A g \in Handlers : pc[g] = "credit" => Pair(call[g]) # Pair(a)
    BY <2>1 DEF LedgerInv
  <2>4. QED
    BY <2>1, <2>2, <2>3 DEF LedgerInv, TypeOK, Pending, Pair
<1>2. ASSUME NEW h \in Handlers, pc[h] = "credit", UNCHANGED answers, Return(h),
             credited' \union lost' = credited \union lost \union {Pair(call[h])},
             credited' \intersect lost' = {}
      PROVE  LedgerInv'
  <2>1. pc' = [pc EXCEPT ![h] = "idle"] /\ call' = [call EXCEPT ![h] = NoCall]
    BY <1>2 DEF Return, Goto
  <2>2. \A g \in Handlers : pc'[g] = "credit" =>
          pc[g] = "credit" /\ call'[g] = call[g] /\ Pair(call[g]) # Pair(call[h])
    BY <1>2, <2>1 DEF LedgerInv, TypeOK
  <2>3. \A g \in Handlers : g # h => pc'[g] = pc[g] /\ call'[g] = call[g]
    BY <2>1 DEF TypeOK
  <2>4. \A p \in credited' \union lost' : \E a \in answers' : Pair(a) = p
    BY <1>2 DEF LedgerInv
  <2>5. ASSUME NEW g \in Handlers, pc'[g] = "credit"
        PROVE  /\ Pair(call'[g]) \notin credited' \union lost'
               /\ \E a \in answers' : Pair(a) = Pair(call'[g]) /\ a.points = call'[g].points
    BY <1>2, <2>2, <2>5 DEF LedgerInv
  <2>6. ASSUME NEW a \in answers', Pair(a) \notin credited' \union lost'
        PROVE  \E g \in Handlers : pc'[g] = "credit" /\ Pair(call'[g]) = Pair(a)
    <3>1. PICK g \in Handlers : pc[g] = "credit" /\ Pair(call[g]) = Pair(a)
      BY <1>2, <2>6 DEF LedgerInv, Pending
    <3>2. g # h
      BY <1>2, <2>6, <3>1
    <3>3. QED
      BY <2>3, <3>1, <3>2
  <2>7. \A a, b \in answers' : Pair(a) = Pair(b) => a = b
    BY <1>2 DEF LedgerInv
  <2>8. \A f, g \in Handlers :
          pc'[f] = "credit" /\ pc'[g] = "credit" /\ Pair(call'[f]) = Pair(call'[g]) => f = g
    BY <2>2 DEF LedgerInv
  <2>9. QED
    BY <1>2, <2>4, <2>5, <2>6, <2>7, <2>8 DEF LedgerInv, Pending, Pair
<1>3. ASSUME NEW h \in Handlers, UpdateScore(h)
      PROVE  LedgerInv'
  <2>1. Pair(call[h]) \notin credited \union lost
    BY <1>3 DEF UpdateScore, LedgerInv
  <2>2. QED
    BY <1>2, <1>3, <2>1 DEF UpdateScore, LedgerInv
<1>4. ASSUME NEW h \in Handlers, Abort(h), pc[h] = "credit"
      PROVE  LedgerInv'
  <2>1. Pair(call[h]) \notin credited \union lost
    BY <1>4 DEF LedgerInv
  <2>2. QED
    BY <1>2, <1>4, <2>1 DEF Abort, tables, LedgerInv
<1>5. QED
  BY <1>1, <1>3, <1>4, QuietActions, QuietKeepsLedgerInv

(***************************************************************************)
(* The bookkeeping holds in every reachable state: each recorded answer is *)
(* credited, lost, or in the hands of exactly one handler.                 *)
(***************************************************************************)
THEOREM LedgerCorrect == Spec => []LedgerInv
BY InitLedgerInv, NextLedgerInv, TypeCorrect, PTL DEF Spec

(***************************************************************************)
(* No interleaving of submissions, retries and dropped requests settles an *)
(* answer twice, or forgets one.                                           *)
(***************************************************************************)
THEOREM SettledOnce == Spec => []AnswerSettledOnce
<1>1. LedgerInv => AnswerSettledOnce
  BY DEF LedgerInv, AnswerSettledOnce, Pending
<1>2. QED
  BY <1>1, LedgerCorrect, PTL

-----------------------------------------------------------------------------
(***************************************************************************)
(* The score.                                                              *)
(***************************************************************************)
PointsOf(rows) == [a \in rows |-> a.points]

LEMMA CreditedRowsType ==
  ASSUME TypeOK, NEW s
  PROVE  IsFiniteSet(CreditedRows(s)) /\ PointsOf(CreditedRows(s)) \in [CreditedRows(s) -> Nat]
<1>1. CreditedRows(s) \in SUBSET answers
  BY DEF CreditedRows, AnswersOf
<1>2. QED
  BY <1>1, FS_Subset, PossiblePointsNat DEF TypeOK, Answer, PointsOf

LEMMA InitScore == Init => ScoreIsSumOfCredits
<1> SUFFICES ASSUME Init, NEW s \in Sessions
             PROVE  score[s] = Total([a \in CreditedRows(s) |-> a.points])
  BY DEF ScoreIsSumOfCredits
<1>1. DOMAIN [a \in CreditedRows(s) |-> a.points] = {}
  BY DEF Init, CreditedRows, AnswersOf
<1>2. QED
  BY <1>1, TotalEmpty DEF Init

LEMMA NextScore ==
  TypeOK /\ LedgerInv /\ ScoreIsSumOfCredits /\ [Next]_vars => ScoreIsSumOfCredits'
<1> SUFFICES ASSUME TypeOK, LedgerInv, ScoreIsSumOfCredits, [Next]_vars,
                    NEW s \in Sessions
             PROVE  score'[s] = Total([a \in CreditedRows(s)' |-> a.points])
  BY DEF ScoreIsSumOfCredits
<1>1. ASSUME score'[s] = score[s], CreditedRows(s)' = CreditedRows(s)
      PROVE  score'[s] = Total([a \in CreditedRows(s)' |-> a.points])
  BY <1>1 DEF ScoreIsSumOfCredits
<1>2. ASSUME NEW h \in Handlers, InsertAnswer(h)
      PROVE  score'[s] = score[s] /\ CreditedRows(s)' = CreditedRows(s)
  <2>1. PICK a \in Answer : answers' = answers \union {a} /\ Pair(a) \notin credited
    BY <1>2, InsertedRow
  <2>2. UNCHANGED <<score, credited>>
    BY <1>2 DEF InsertAnswer, history
  <2>3. QED
    BY <2>1, <2>2 DEF CreditedRows, AnswersOf, Pair
<1>3. ASSUME NEW h \in Handlers, UpdateScore(h)
      PROVE  score'[s] = Total([a \in CreditedRows(s)' |-> a.points])
  <2>1. PICK r \in answers :
           /\ Pair(r) = Pair(call[h]) /\ r.points = call[h].points
           /\ \A b \in answers : Pair(b) = Pair(r) => b = r
           /\ Pair(r) \notin credited
           /\ r.session = call[h].session
    BY <1>3, CreditedRow DEF UpdateScore
  <2>2. /\ score' = [score EXCEPT ![r.session] = @ + r.points]
        /\ credited' = credited \union {Pair(r)} /\ answers' = answers
    BY <1>3, <2>1 DEF UpdateScore
  <2>3. CASE s # r.session
    <3>1. CreditedRows(s)' = CreditedRows(s)
      BY <2>2, <2>3 DEF CreditedRows, AnswersOf, Pair
    <3>2. score'[s] = score[s]
      BY <2>2, <2>3 DEF TypeOK
    <3>3. QED
      BY <1>1, <3>1, <3>2
  <2>4. CASE s = r.session
    <3>1. CreditedRows(s)' = CreditedRows(s) \union {r} /\ r \notin CreditedRows(s)
      BY <2>1, <2>2, <2>4 DEF CreditedRows, AnswersOf, Pair
    <3>2. score'[s] = score[s] + r.points
      BY <2>2, <2>4 DEF TypeOK
    <3> DEFINE D == CreditedRows(s)
               f == PointsOf(D)
               g == PointsOf(D \union {r})
    <3>3. IsFiniteSet(D) /\ f \in [D -> Nat]
      BY CreditedRowsType
    <3>4. r.points \in Nat
      BY PossiblePointsNat DEF TypeOK, Answer
    <3>5. g \in [D \union {r} -> Nat] /\ g[r] = r.points /\ \A y \in D : g[y] = f[y]
      BY <3>3, <3>4 DEF PointsOf
    <3>6. Total(g) = Total(f) + r.points
      <4> HIDE DEF D, f, g
      <4>1. r \notin D
        BY <3>1 DEF D
      <4>2. QED
        BY <3>3, <3>5, <4>1, TotalExtend
    <3>7. score[s] = Total(f)
      BY DEF ScoreIsSumOfCredits, PointsOf
    <3>8. QED
      BY <3>1, <3>2, <3>6, <3>7 DEF PointsOf
  <2>5. QED
    BY <2>3, <2>4
<1>4. ASSUME NEW h \in Handlers, Abort(h)
      PROVE  score'[s] = score[s] /\ CreditedRows(s)' = CreditedRows(s)
  BY <1>4 DEF Abort, tables, CreditedRows, AnswersOf
<1>5. ASSUME UNCHANGED <<score, answers, credited>>
      PROVE  score'[s] = score[s] /\ CreditedRows(s)' = CreditedRows(s)
  BY <1>5 DEF CreditedRows, AnswersOf
<1>6. \/ UNCHANGED <<score, answers, credited>>
      \/ \E h \in Handlers : InsertAnswer(h) \/ UpdateScore(h) \/ Abort(h)
  BY DEF Next, Step, vars, tables, history, StartSession, FinalizeSession, SubmitAnswer,
         ReadQuestion, RejectQuestion, ReadStreak, RejectInsert, UpdateQuestion, DeleteQuestion
<1>7. QED
  BY <1>1, <1>2, <1>3, <1>4, <1>5, <1>6

(***************************************************************************)
(* At every moment a session's score is the sum of the points of exactly   *)
(* the answers that were credited, however its handlers interleave.        *)
(***************************************************************************)
THEOREM ScoreCorrect == Spec => []ScoreIsSumOfCredits
BY InitScore, NextScore, TypeCorrect, LedgerCorrect, PTL DEF Spec

-----------------------------------------------------------------------------
(***************************************************************************)
(* Refinement.                                                             *)
(***************************************************************************)
LEMMA InitLedger == Init => Ledger!Init
BY DEF Init, Ledger!Init

EntryOf(a) == [session |-> a.session, question |-> a.question, points |-> a.points]
Entries == {[session |-> a.session, question |-> a.question, points |-> a.points] : a \in answers}
Closed == {s \in Sessions : status[s] = "termine"}

LEMMA NextLedger ==
  TypeOK /\ LedgerInv /\ [Next]_vars => [Ledger!Next]_Ledger!ledgerVars
<1> SUFFICES ASSUME TypeOK, LedgerInv, [Next]_vars
             PROVE  [Ledger!Next]_Ledger!ledgerVars
  OBVIOUS
<1>1. ASSUME UNCHANGED <<answers, credited, lost, score>>, Closed' = Closed
      PROVE  UNCHANGED Ledger!ledgerVars
  BY <1>1 DEF Ledger!ledgerVars, Closed
<1>2. ASSUME NEW s \in Sessions, StartSession(s)
      PROVE  UNCHANGED Ledger!ledgerVars
  <2>1. Closed' = Closed
    BY <1>2 DEF StartSession, Closed, TypeOK
  <2>2. QED
    BY <1>1, <1>2, <2>1 DEF StartSession, history
<1>3. ASSUME NEW s \in Sessions, FinalizeSession(s)
      PROVE  Ledger!Close(s)
  BY <1>3 DEF FinalizeSession, Ledger!Close, TypeOK, history
<1>4. ASSUME NEW h \in Handlers, InsertAnswer(h)
      PROVE  \E e \in Ledger!Entry : Ledger!Enter(e)
  <2>1. PICK a \in Answer :
           /\ answers' = answers \union {a}
           /\ \A b \in answers : Pair(b) # Pair(a)
    BY <1>4, InsertedRow
  <2>2. EntryOf(a) \in Ledger!Entry
    BY DEF EntryOf, Ledger!Entry, Answer
  <2>3. Entries' = Entries \union {EntryOf(a)}
    BY <2>1 DEF Entries, EntryOf
  <2>4. \A f \in Entries : <<f.session, f.question>> # <<a.session, a.question>>
    BY <2>1 DEF Entries, Pair
  <2>5. Closed' = Closed /\ UNCHANGED <<credited, lost, score>>
    BY <1>4 DEF InsertAnswer, Closed, history
  <2>6. Ledger!Enter(EntryOf(a))
    BY <2>3, <2>4, <2>5 DEF Ledger!Enter, Entries, Closed, EntryOf
  <2>7. QED
    BY <2>2, <2>6
<1>5. ASSUME NEW h \in Handlers, UpdateScore(h) \/ (Abort(h) /\ pc[h] = "credit")
      PROVE  \E e \in Entries : Ledger!Credit(e) \/ Ledger!Lose(e)
  <2>1. pc[h] = "credit"
    BY <1>5 DEF UpdateScore
  <2>2. PICK r \in answers : /\ Pair(r) = Pair(call[h]) /\ r.points = call[h].points
                             /\ Pair(r) \notin credited \union lost
                             /\ r.session = call[h].session
    BY <2>1, CreditedRow
  <2>3. EntryOf(r) \in Entries
    BY DEF Entries, EntryOf
  <2>4. Ledger!Unsettled(EntryOf(r))
    BY <2>2 DEF Ledger!Unsettled, EntryOf, Pair
  <2>5. Entries' = Entries /\ Closed' = Closed
    BY <1>5 DEF UpdateScore, Abort, tables, Entries, Closed
  <2>6. CASE UpdateScore(h)
    <3>1. Ledger!Credit(EntryOf(r))
      BY <2>2, <2>4, <2>5, <2>6 DEF UpdateScore, Ledger!Credit, EntryOf, Pair, Entries, Closed
    <3>2. QED
      BY <2>3, <3>1
  <2>7. CASE Abort(h)
    <3>1. Ledger!Lose(EntryOf(r))
      BY <2>1, <2>2, <2>4, <2>5, <2>7 DEF Abort, tables, Ledger!Lose, EntryOf, Pair, Entries, Closed
    <3>2. QED
      BY <2>3, <3>1
  <2>8. QED
    BY <1>5, <2>6, <2>7
<1>6. ASSUME UNCHANGED <<answers, credited, lost, score, status>>
      PROVE  UNCHANGED Ledger!ledgerVars
  BY <1>1, <1>6 DEF Closed
<1>7. \/ UNCHANGED <<answers, credited, lost, score, status>>
      \/ \E s \in Sessions : StartSession(s) \/ FinalizeSession(s)
      \/ \E h \in Handlers : \/ InsertAnswer(h)
                             \/ UpdateScore(h)
                             \/ Abort(h) /\ pc[h] = "credit"
  BY DEF Next, Step, vars, tables, history, SubmitAnswer, ReadQuestion, RejectQuestion,
         ReadStreak, RejectInsert, Abort, UpdateQuestion, DeleteQuestion
<1>8. QED
  BY <1>2, <1>3, <1>4, <1>5, <1>6, <1>7 DEF Ledger!Next, Entries

(***************************************************************************)
(* quiz_core_service implements the answer ledger: each recorded answer is *)
(* posted to the score at most once and with the points of its row.        *)
(***************************************************************************)
THEOREM Implementation == Spec => ImplementsLedger
<1>1. TypeOK /\ LedgerInv /\ [Next]_vars => [Ledger!Next]_Ledger!ledgerVars
  BY NextLedger
<1>2. QED
  BY <1>1, InitLedger, TypeCorrect, LedgerCorrect, PTL
     DEF Spec, ImplementsLedger, Ledger!LedgerSpec

-----------------------------------------------------------------------------
(***************************************************************************)
(* SettledIsFinal.  A settled session is in nobody's hands, and nobody     *)
(* gets hold of it, for submit_answer begins in open sessions only.        *)
(***************************************************************************)
Untouched(s) == score'[s] = score[s] /\ AnswersOf(s)' = AnswersOf(s)

LEMMA NotInHand ==
  ASSUME NEW s \in Sessions, Settled(s), NEW h \in Handlers, pc[h] # "idle"
  PROVE  call[h].session # s
BY DEF Settled, InFlight

LEMMA StaysSettled ==
  ASSUME NEW s \in Sessions, Settled(s), status'[s] = status[s],
         \A h \in Handlers : pc'[h] # "idle" =>
           \/ call'[h].session # s
           \/ pc[h] # "idle" /\ call'[h].session = call[h].session
  PROVE  Settled(s)'
BY NotInHand DEF Settled, InFlight

LEMMA SettledStep ==
  ASSUME TypeOK, [Next]_vars, NEW s \in Sessions, Settled(s)
  PROVE  Settled(s)' /\ Untouched(s)
<1> USE DEF TypeOK, HandlerStates, Untouched
<1>0. status[s] = "termine"
  BY DEF Settled
<1>1. ASSUME NEW t \in Sessions, StartSession(t) \/ FinalizeSession(t)
      PROVE  Settled(s)' /\ Untouched(s)
  <2>1. t # s
    BY <1>0, <1>1 DEF StartSession, FinalizeSession
  <2>2. status'[s] = status[s] /\ UNCHANGED <<pc, call, score, answers>>
    BY <1>1, <2>1 DEF StartSession, FinalizeSession
  <2>3. QED
    BY <2>2, StaysSettled DEF AnswersOf
<1>2. ASSUME NEW h \in Handlers, NEW t \in Sessions, NEW q \in Questions, NEW time \in Times,
             SubmitAnswer(h, t, q, time)
      PROVE  Settled(s)' /\ Untouched(s)
  <2>1. t # s /\ call'[h].session = t
    BY <1>0, <1>2 DEF SubmitAnswer
  <2>2. \A g \in Handlers : g # h => pc'[g] = pc[g] /\ call'[g] = call[g]
    BY <1>2 DEF SubmitAnswer, Goto
  <2>3. UNCHANGED <<status, score, answers>>
    BY <1>2 DEF SubmitAnswer, tables
  <2>4. QED
    BY <2>1, <2>2, <2>3, StaysSettled DEF AnswersOf
<1>3. ASSUME NEW h \in Handlers, ReadQuestion(h) \/ ReadStreak(h)
      PROVE  Settled(s)' /\ Untouched(s)
  <2>1. pc[h] # "idle" /\ call[h] \in Call
    BY <1>3 DEF ReadQuestion, ReadStreak
  <2>2. call'[h].session = call[h].session
    BY <1>3, <2>1 DEF ReadQuestion, ReadStreak, Call
  <2>3. \A g \in Handlers : g # h => pc'[g] = pc[g] /\ call'[g] = call[g]
    BY <1>3 DEF ReadQuestion, ReadStreak, Goto
  <2>4. UNCHANGED <<status, score, answers>>
    BY <1>3 DEF ReadQuestion, ReadStreak, tables
  <2>5. QED
    BY <2>1, <2>2, <2>3, <2>4, StaysSettled DEF AnswersOf
<1>4. ASSUME NEW h \in Handlers, InsertAnswer(h)
      PROVE  Settled(s)' /\ Untouched(s)
  <2>1. call[h].session # s
    BY <1>4, NotInHand DEF InsertAnswer
  <2>2. AnswersOf(s)' = AnswersOf(s)
    BY <1>4, <2>1 DEF InsertAnswer, AnswersOf
  <2>3. UNCHANGED <<status, score, call>> /\ pc' = [pc EXCEPT ![h] = "credit"]
    BY <1>4 DEF InsertAnswer, Goto
  <2>4. QED
    BY <2>1, <2>2, <2>3, StaysSettled
<1>5. ASSUME NEW h \in Handlers, Return(h), UNCHANGED <<status, answers>>, score'[s] = score[s]
      PROVE  Settled(s)' /\ Untouched(s)
  <2>1. \A g \in Handlers : pc'[g] # "idle" => pc[g] # "idle" /\ call'[g] = call[g]
    BY <1>5 DEF Return, Goto
  <2>2. QED
    BY <1>5, <2>1, StaysSettled DEF AnswersOf
<1>6. ASSUME NEW h \in Handlers, UpdateScore(h)
      PROVE  Settled(s)' /\ Untouched(s)
  <2>1. call[h].session # s
    BY <1>6, NotInHand DEF UpdateScore
  <2>2. score'[s] = score[s]
    BY <1>6, <2>1 DEF UpdateScore
  <2>3. QED
    BY <1>5, <1>6, <2>2 DEF UpdateScore
<1>7. ASSUME NEW h \in Handlers, RejectQuestion(h) \/ RejectInsert(h) \/ Abort(h)
      PROVE  Settled(s)' /\ Untouched(s)
  BY <1>5, <1>7 DEF RejectQuestion, RejectInsert, Abort, tables
<1>8. ASSUME UNCHANGED <<status, score, answers, pc, call>>
      PROVE  Settled(s)' /\ Untouched(s)
  BY <1>8, StaysSettled DEF AnswersOf
<1>9. QED
  BY <1>1, <1>2, <1>3, <1>4, <1>6, <1>7, <1>8
     DEF Next, Step, vars, UpdateQuestion, DeleteQuestion

(***************************************************************************)
(* Once a finalized session has no submission in flight, its answers and   *)
(* its score never change and it never reopens, whoever still asks         *)
(* (finalize_session, submit_answer).                                      *)
(***************************************************************************)
THEOREM SettledStaysFinal == Spec => SettledIsFinal
<1>1. TypeOK /\ [Next]_vars =>
        [\A s \in Sessions : Settled(s) =>
           Settled(s)' /\ score'[s] = score[s] /\ AnswersOf(s)' = AnswersOf(s)]_vars
  BY SettledStep DEF Untouched
<1>2. QED
  BY <1>1, TypeCorrect, PTL DEF Spec, SettledIsFinal

-----------------------------------------------------------------------------
(***************************************************************************)
(* StreakWasReal.  Rows are numbered in the order of their inserts, so an  *)
(* insert leaves what was the streak after n rows the streak after n rows. *)
(***************************************************************************)
Prefix(s, n) == {b \in AnswersOf(s) : b.at <= n}

RowsInOrder == \A a \in answers : a.at \in 1..Cardinality(AnswersOf(a.session))

HeldStreakWasReal ==
  \A h \in Handlers : pc[h] = "insert" =>
    \E n \in 0..Cardinality(AnswersOf(call[h].session)) :
      call[h].streak = Streak(Prefix(call[h].session, n))

StreakInv == RowsInOrder /\ HeldStreakWasReal /\ StreakWasReal

LEMMA InitStreakInv == Init => StreakInv
BY DEF Init, StreakInv, RowsInOrder, HeldStreakWasReal, StreakWasReal

LEMMA WholePrefix ==
  ASSUME RowsInOrder, TypeOK, NEW s
  PROVE  Prefix(s, Cardinality(AnswersOf(s))) = AnswersOf(s)
<1>1. \A b \in AnswersOf(s) : b.at <= Cardinality(AnswersOf(s))
  BY AnswersOfFinite DEF RowsInOrder, AnswersOf, TypeOK
<1>2. QED
  BY <1>1 DEF Prefix

\* The row InsertAnswer adds is its session's last.
LEMMA InsertedLast ==
  ASSUME TypeOK, RowsInOrder, NEW h \in Handlers, InsertAnswer(h)
  PROVE  \E a \in Answer :
           /\ answers' = answers \union {a}
           /\ a.session = call[h].session /\ a.streak = call[h].streak
           /\ a.at = Cardinality(AnswersOf(a.session)) + 1
           /\ \A s : Cardinality(AnswersOf(s)') =
                Cardinality(AnswersOf(s)) + (IF s = a.session THEN 1 ELSE 0)
           /\ \A s : \A n \in 0..Cardinality(AnswersOf(s)) : Prefix(s, n)' = Prefix(s, n)
<1>1. call[h] \in Call
  BY DEF InsertAnswer, TypeOK
<1>2. PICK a : /\ answers' = answers \union {a}
               /\ a.session = call[h].session /\ a.streak = call[h].streak
               /\ a.at = Cardinality(AnswersOf(a.session)) + 1
               /\ a = [session |-> call[h].session, question |-> call[h].question,
                       correct |-> call[h].correct, points |-> call[h].points,
                       at |-> Cardinality(AnswersOf(call[h].session)) + 1,
                       streak |-> call[h].streak]
  BY DEF InsertAnswer
<1>3. \A s : IsFiniteSet(AnswersOf(s)) /\ Cardinality(AnswersOf(s)) \in Nat
  BY AnswersOfFinite DEF TypeOK
<1>4. a \in Answer
  BY <1>1, <1>2, <1>3 DEF Answer, Call
<1>5. a \notin answers
  BY <1>2, <1>3 DEF RowsInOrder
<1>6. \A s : AnswersOf(s)' = AnswersOf(s) \union (IF s = a.session THEN {a} ELSE {})
  BY <1>2 DEF AnswersOf
<1>7. ASSUME NEW s
      PROVE  Cardinality(AnswersOf(s)') = Cardinality(AnswersOf(s)) + (IF s = a.session THEN 1 ELSE 0)
  <2>1. CASE s = a.session
    <3>1. AnswersOf(s)' = AnswersOf(s) \union {a}
      BY <1>6, <2>1
    <3>2. a \notin AnswersOf(s)
      BY <1>5 DEF AnswersOf
    <3>3. Cardinality(AnswersOf(s) \union {a}) = Cardinality(AnswersOf(s)) + 1
      BY <1>3, <3>2, FS_AddElement
    <3>4. QED
      BY <2>1, <3>1, <3>3
  <2>2. CASE s # a.session
    <3>1. AnswersOf(s)' = AnswersOf(s)
      BY <1>6, <2>2
    <3>2. QED
      BY <1>3, <2>2, <3>1
  <2>3. QED
    BY <2>1, <2>2
<1>8. ASSUME NEW s, NEW n \in 0..Cardinality(AnswersOf(s))
      PROVE  Prefix(s, n)' = Prefix(s, n)
  <2>1. CASE s # a.session
    BY <1>6, <2>1 DEF Prefix
  <2>2. CASE s = a.session
    <3>1. ~(a.at <= n)
      BY <1>2, <1>3, <2>2
    <3>2. QED
      BY <1>6, <2>2, <3>1 DEF Prefix
  <2>3. QED
    BY <2>1, <2>2
<1>9. QED
  BY <1>2, <1>4, <1>6, <1>7, <1>8

LEMMA NextStreakInv == TypeOK /\ TypeOK' /\ StreakInv /\ [Next]_vars => StreakInv'
<1> SUFFICES ASSUME TypeOK, TypeOK', StreakInv, [Next]_vars
             PROVE  StreakInv'
  OBVIOUS
<1> USE DEF StreakInv
<1>0. \A s : IsFiniteSet(AnswersOf(s)) /\ Cardinality(AnswersOf(s)) \in Nat
  BY AnswersOfFinite DEF TypeOK
<1>1. ASSUME NEW h \in Handlers, InsertAnswer(h)
      PROVE  StreakInv'
  <2>1. PICK a \in Answer :
           /\ answers' = answers \union {a}
           /\ a.session = call[h].session /\ a.streak = call[h].streak
           /\ a.at = Cardinality(AnswersOf(a.session)) + 1
           /\ \A s : Cardinality(AnswersOf(s)') =
                Cardinality(AnswersOf(s)) + (IF s = a.session THEN 1 ELSE 0)
           /\ \A s : \A n \in 0..Cardinality(AnswersOf(s)) : Prefix(s, n)' = Prefix(s, n)
    BY <1>1, InsertedLast
  <2>2. \A s : /\ Cardinality(AnswersOf(s)') \in Nat
               /\ Cardinality(AnswersOf(s)) <= Cardinality(AnswersOf(s)')
    BY <1>0, <2>1
  <2>3. RowsInOrder'
    <3> SUFFICES ASSUME NEW b \in answers'
                 PROVE  b.at \in 1..Cardinality(AnswersOf(b.session)')
      BY DEF RowsInOrder
    <3>1. CASE b = a
      BY <1>0, <2>1, <3>1
    <3>2. CASE b \in answers
      BY <1>0, <2>2, <3>2 DEF RowsInOrder
    <3>3. QED
      BY <2>1, <3>1, <3>2
  <2>4. HeldStreakWasReal'
    <3> SUFFICES ASSUME NEW g \in Handlers, pc'[g] = "insert"
                 PROVE  \E n \in 0..Cardinality(AnswersOf(call[g].session)') :
                          call[g].streak = Streak(Prefix(call[g].session, n)')
      BY <1>1 DEF HeldStreakWasReal, InsertAnswer
    <3>1. pc[g] = "insert"
      BY <1>1 DEF InsertAnswer, Goto, TypeOK
    <3>2. PICK n \in 0..Cardinality(AnswersOf(call[g].session)) :
            call[g].streak = Streak(Prefix(call[g].session, n))
      BY <3>1 DEF HeldStreakWasReal
    <3>3. n \in 0..Cardinality(AnswersOf(call[g].session)')
      BY <1>0, <1>1, <2>2, <3>2 DEF InsertAnswer
    <3>4. Prefix(call[g].session, n)' = Prefix(call[g].session, n)
      BY <2>1, <1>1 DEF InsertAnswer
    <3>5. QED
      BY <3>2, <3>3, <3>4
  <2>5. ASSUME NEW b \in answers'
        PROVE  \E n \in 0..(b.at - 1) : b.streak = Streak(Prefix(b.session, n)')
    <3>1. CASE b = a
      <4>1. PICK n \in 0..Cardinality(AnswersOf(a.session)) :
              call[h].streak = Streak(Prefix(a.session, n))
        BY <1>1, <2>1 DEF HeldStreakWasReal, InsertAnswer
      <4>2. n \in 0..(a.at - 1)
        BY <1>0, <2>1, <4>1
      <4>3. QED
        BY <2>1, <3>1, <4>1, <4>2
    <3>2. CASE b \in answers
      <4>1. PICK n \in 0..(b.at - 1) : b.streak = Streak(Prefix(b.session, n))
        BY <3>2 DEF StreakWasReal, Prefix
      <4>2. n \in 0..Cardinality(AnswersOf(b.session))
        BY <1>0, <3>2, <4>1 DEF RowsInOrder
      <4>3. QED
        BY <2>1, <4>1, <4>2
    <3>3. QED
      BY <2>1, <3>1, <3>2
  <2>6. QED
    BY <2>3, <2>4, <2>5 DEF StreakWasReal, Prefix
<1>2. ASSUME UNCHANGED answers,
             \A g \in Handlers : pc'[g] = "insert" =>
               \E n \in 0..Cardinality(AnswersOf(call'[g].session)) :
                 call'[g].streak = Streak(Prefix(call'[g].session, n))
      PROVE  StreakInv'
  <2>1. \A s : AnswersOf(s)' = AnswersOf(s)
    BY <1>2 DEF AnswersOf
  <2>2. RowsInOrder'
    BY <1>2, <2>1 DEF RowsInOrder
  <2>3. HeldStreakWasReal'
    BY <1>2, <2>1 DEF HeldStreakWasReal, Prefix
  <2>4. StreakWasReal'
    BY <1>2, <2>1 DEF StreakWasReal
  <2>5. QED
    BY <2>2, <2>3, <2>4
<1>3. ASSUME NEW h \in Handlers, ReadStreak(h)
      PROVE  StreakInv'
  <2>1. call[h] \in Call
    BY <1>3 DEF ReadStreak, TypeOK
  <2> DEFINE s == call[h].session
             n == Cardinality(AnswersOf(s))
  <2>2. call'[h].session = s /\ call'[h].streak = Streak(AnswersOf(s))
    BY <1>3, <2>1 DEF ReadStreak, Call, TypeOK
  <2>3. Prefix(s, n) = AnswersOf(s) /\ n \in 0..n
    BY <1>0, WholePrefix
  <2>4. \A g \in Handlers : g # h => pc'[g] = pc[g] /\ call'[g] = call[g]
    BY <1>3 DEF ReadStreak, Goto, TypeOK
  <2>5. UNCHANGED answers
    BY <1>3 DEF ReadStreak, tables
  <2>6. QED
    BY <1>2, <2>2, <2>3, <2>4, <2>5 DEF HeldStreakWasReal
<1>4. ASSUME UNCHANGED answers,
             \A g \in Handlers : pc'[g] = "insert" => pc[g] = "insert" /\ call'[g] = call[g]
      PROVE  StreakInv'
  BY <1>2, <1>4 DEF HeldStreakWasReal
<1>5. ASSUME NEW h \in Handlers, RejectQuestion(h) \/ RejectInsert(h) \/ UpdateScore(h) \/ Abort(h)
      PROVE  StreakInv'
  BY <1>4, <1>5
     DEF RejectQuestion, RejectInsert, UpdateScore, Abort, Return, Goto, tables, TypeOK
<1>6. ASSUME NEW h \in Handlers, ReadQuestion(h)
      PROVE  StreakInv'
  BY <1>4, <1>6 DEF ReadQuestion, Goto, tables, TypeOK
<1>7. ASSUME NEW h \in Handlers, NEW s \in Sessions, NEW q \in Questions, NEW t \in Times,
             SubmitAnswer(h, s, q, t)
      PROVE  StreakInv'
  BY <1>4, <1>7 DEF SubmitAnswer, Goto, tables, TypeOK
<1>8. ASSUME UNCHANGED <<answers, pc, call>>
      PROVE  StreakInv'
  BY <1>4, <1>8
<1>9. QED
  BY <1>1, <1>3, <1>5, <1>6, <1>7, <1>8
     DEF Next, Step, vars, StartSession, FinalizeSession, UpdateQuestion, DeleteQuestion

(***************************************************************************)
(* An answer is never paid for a streak its session did not have: however  *)
(* submissions overlap, the streak in its points is the streak after some  *)
(* number of the rows before it (calculate_streak, submit_answer).         *)
(***************************************************************************)
THEOREM StreaksWereReal == Spec => []StreakWasReal
<1>1. Spec => []StreakInv
  BY InitStreakInv, NextStreakInv, TypeCorrect, PTL DEF Spec
<1>2. StreakInv => StreakWasReal
  BY DEF StreakInv
<1>3. QED
  BY <1>1, <1>2, PTL

-----------------------------------------------------------------------------
(***************************************************************************)
(* ScoreWithinTwiceMax.  The sum of the rows against the sum of the        *)
(* questions: every point of a row is the first or the second of a point   *)
(* of its question.                                                        *)
(***************************************************************************)
LEMMA TotalTwice ==
  ASSUME NEW D, NEW f \in [D -> Nat], IsFiniteSet(D),
         NEW E, NEW g \in [E -> Nat], IsFiniteSet(E),
         NEW m \in Injection(D, E), \A x \in D : f[x] <= 2 * g[m[x]]
  PROVE  Total(f) <= 2 * Total(g)
<1> DEFINE U == Units(f)
           V == Units(g)
           T == 1..2
           W == V \X T
           half == [u \in U |-> IF u[2] <= g[m[u[1]]] THEN <<<<m[u[1]], u[2]>>, 1>>
                                ELSE <<<<m[u[1]], u[2] - g[m[u[1]]]>>, 2>>]
<1>1. m \in [D -> E] /\ \A x, y \in D : m[x] = m[y] => x = y
  BY DEF Injection, IsInjective
<1>2. \A u : u \in U <=> \E x \in D : \E i \in 1..f[x] : u = <<x, i>>
  BY DEF Units
<1>3. \A x \in E : \A i \in 1..g[x] : <<x, i>> \in V
  BY DEF Units
<1>4. ASSUME NEW u \in U
      PROVE  /\ u[1] \in D /\ u[2] \in 1..f[u[1]] /\ u = <<u[1], u[2]>>
             /\ m[u[1]] \in E /\ g[m[u[1]]] \in Nat /\ f[u[1]] \in Nat
             /\ u[2] \in Nat \ {0} /\ u[2] <= 2 * g[m[u[1]]]
  <2> HIDE DEF U
  <2>1. PICK x \in D : \E i \in 1..f[x] : u = <<x, i>>
    BY <1>2
  <2>2. PICK i \in 1..f[x] : u = <<x, i>>
    BY <2>1
  <2>3. m[x] \in E /\ g[m[x]] \in Nat /\ f[x] \in Nat /\ f[x] <= 2 * g[m[x]]
    BY <1>1
  <2>4. i \in Nat \ {0} /\ i <= 2 * g[m[x]]
    BY <2>3
  <2>5. QED
    BY <2>2, <2>3, <2>4
<1>5. half \in [U -> W]
  <2> SUFFICES ASSUME NEW u \in U PROVE half[u] \in W
    OBVIOUS
  <2> DEFINE x == u[1]  i == u[2]  k == g[m[x]]
  <2>1. m[x] \in E /\ k \in Nat /\ i \in Nat \ {0} /\ i <= 2 * k
    BY <1>4
  <2>2. CASE i <= k
    <3>1. <<m[x], i>> \in V
      BY <1>3, <2>1, <2>2
    <3>2. half[u] = <<<<m[x], i>>, 1>>
      BY <2>2
    <3>3. QED
      BY <3>1, <3>2
  <2>3. CASE ~(i <= k)
    <3>1. i - k \in 1..k
      BY <2>1, <2>3
    <3>2. <<m[x], i - k>> \in V
      BY <1>3, <2>1, <3>1
    <3>3. half[u] = <<<<m[x], i - k>>, 2>>
      BY <2>3
    <3>4. QED
      BY <3>2, <3>3
  <2>4. QED
    BY <2>2, <2>3
<1>6. \A u, v \in U : half[u] = half[v] => u = v
  <2> SUFFICES ASSUME NEW u \in U, NEW v \in U, half[u] = half[v] PROVE u = v
    OBVIOUS
  <2>1. m[u[1]] = m[v[1]]
    OBVIOUS
  <2>2. u[1] = v[1]
    BY <1>1, <1>4, <2>1
  <2>3. u[2] = v[2]
    BY <1>4, <2>2
  <2>4. QED
    BY <1>4, <2>2, <2>3
<1>7. half \in Injection(U, W)
  BY <1>5, <1>6 DEF Injection, IsInjective
<1> HIDE DEF half
<1>8. IsFiniteSet(V) /\ Cardinality(V) \in Nat
  BY UnitsFinite, FS_CardinalityType
<1>9. IsFiniteSet(W) /\ Cardinality(W) = Cardinality(V) * 2
  <2>1. IsFiniteSet(T) /\ Cardinality(T) = 2
    <3>1. \A n \in Nat : IsFiniteSet(1..n) /\ Cardinality(1..n) = n
      BY FS_Interval
    <3>2. QED
      BY <3>1
  <2> HIDE DEF V, T
  <2>2. QED
    BY <1>8, <2>1, FS_Product
<1>10. Cardinality(U) <= Cardinality(W)
  <2> HIDE DEF U, W
  <2>1. QED
    BY <1>7, <1>9, FS_Injection
<1>11. QED
  BY <1>8, <1>9, <1>10 DEF Total, Units

QuestionsOf(s) == {q \in Questions : QuizOf[q] = QuizPlayed[s]}
Playable(x) == QuizOf[x.question] = QuizPlayed[x.session] /\ status[x.session] # "absent"
Holding == {"streak", "insert", "credit"}

(***************************************************************************)
(* Without edits: a row, and a handler that has read its question, is of   *)
(* a question of its session's quiz, and pays no more than twice what the  *)
(* question counted for in score_max.                                      *)
(***************************************************************************)
WithinInv ==
  /\ live = Questions
  /\ \A s \in Sessions : status[s] # "absent" =>
       scoreMax[s] = Total([q \in QuestionsOf(s) |-> question[q].points])
  /\ \A a \in answers : Playable(a) /\ a.points <= 2 * question[a.question].points
  /\ \A h \in Handlers :
       /\ pc[h] # "idle" => status[call[h].session] # "absent"
       /\ pc[h] \in Holding => /\ Playable(call[h])
                               /\ call[h].row = question[call[h].question]
       /\ pc[h] \in {"insert", "credit"} =>
            call[h].points <= 2 * question[call[h].question].points

LEMMA InitWithinInv == Init => WithinInv
BY DEF Init, WithinInv, Holding

LEMMA NextWithinInv ==
  ASSUME ~Authoring, TypeOK, TypeOK', WithinInv, [Next]_vars
  PROVE  WithinInv'
<1> USE DEF HandlerStates, Holding
<1>0. /\ call \in [Handlers -> Call \union {NoCall}]
      /\ pc \in [Handlers -> HandlerStates]
      /\ \A h \in Handlers : pc[h] # "idle" => call[h] \in Call
  BY DEF TypeOK
<1>1. ASSUME UNCHANGED <<live, question, status, scoreMax, answers>>,
             \A g \in Handlers :
               /\ pc'[g] # "idle" => status[call'[g].session] # "absent"
               /\ pc'[g] \in Holding => /\ Playable(call'[g])
                                        /\ call'[g].row = question[call'[g].question]
               /\ pc'[g] \in {"insert", "credit"} =>
                    call'[g].points <= 2 * question[call'[g].question].points
      PROVE  WithinInv'
  BY <1>1 DEF WithinInv, Playable, QuestionsOf
<1>2. ASSUME NEW s \in Sessions, StartSession(s)
      PROVE  WithinInv'
  <2>1. QuestionsOf(s) = {r \in live : QuizOf[r] = QuizPlayed[s]}
    BY DEF WithinInv, QuestionsOf
  <2>2. scoreMax'[s] = Total([q \in QuestionsOf(s) |-> question[q].points])
    BY <1>2, <2>1 DEF StartSession, TypeOK
  <2>3. \A t \in Sessions : t # s => scoreMax'[t] = scoreMax[t] /\ status'[t] = status[t]
    BY <1>2 DEF StartSession, TypeOK
  <2>4. UNCHANGED <<live, question, answers, pc, call>> /\ status[s] = "absent" /\ status'[s] # "absent"
    BY <1>2 DEF StartSession, TypeOK
  <2>5. \A t \in Sessions : status[t] # "absent" => status'[t] # "absent"
    BY <2>3, <2>4
  <2>6. \A a \in answers : a.session \in Sessions
    BY DEF TypeOK, Answer
  <2>7. \A h \in Handlers : pc[h] # "idle" => call[h].session \in Sessions
    BY <1>0 DEF Call
  <2>8. \A t \in Sessions : status'[t] # "absent" =>
          scoreMax'[t] = Total([q \in QuestionsOf(t) |-> question[q].points])
    BY <2>2, <2>3 DEF WithinInv
  <2>9. QED
    BY <2>4, <2>5, <2>6, <2>7, <2>8 DEF WithinInv, Playable, QuestionsOf
<1>3. ASSUME NEW s \in Sessions, FinalizeSession(s)
      PROVE  WithinInv'
  <2>1. \A t \in Sessions : status[t] # "absent" <=> status'[t] # "absent"
    BY <1>3 DEF FinalizeSession, TypeOK
  <2>2. UNCHANGED <<live, question, scoreMax, answers, pc, call>>
    BY <1>3 DEF FinalizeSession
  <2>3. \A a \in answers : a.session \in Sessions
    BY DEF TypeOK, Answer
  <2>4. \A h \in Handlers : pc[h] # "idle" => call[h].session \in Sessions
    BY <1>0 DEF Call
  <2>5. QED
    BY <2>1, <2>2, <2>3, <2>4 DEF WithinInv, Playable, QuestionsOf
<1>4. ASSUME NEW h \in Handlers, NEW s \in Sessions, NEW q \in Questions, NEW t \in Times,
             SubmitAnswer(h, s, q, t)
      PROVE  WithinInv'
  <2>1. \A g \in Handlers : g # h => pc'[g] = pc[g] /\ call'[g] = call[g]
    BY <1>0, <1>4 DEF SubmitAnswer, Goto
  <2>2. pc'[h] = "question" /\ call'[h].session = s /\ status[s] = "en_cours"
    BY <1>0, <1>4 DEF SubmitAnswer, Goto
  <2>3. QED
    BY <1>1, <1>4, <2>1, <2>2 DEF SubmitAnswer, tables, WithinInv
<1>5. ASSUME NEW h \in Handlers, ReadQuestion(h)
      PROVE  WithinInv'
  <2>1. PICK verdict \in BOOLEAN :
          call' = [call EXCEPT ![h].row = question[call[h].question], ![h].correct = verdict]
    BY <1>5 DEF ReadQuestion
  <2>2. call[h] \in Call
    BY <1>0, <1>5 DEF ReadQuestion
  <2>3. /\ call'[h].session = call[h].session /\ call'[h].question = call[h].question
        /\ call'[h].row = question[call[h].question]
    BY <1>0, <2>1, <2>2 DEF Call
  <2>4. \A g \in Handlers : g # h => pc'[g] = pc[g] /\ call'[g] = call[g]
    BY <1>0, <1>5, <2>1 DEF ReadQuestion, Goto
  <2>5. /\ pc'[h] = "streak" /\ pc[h] = "question"
        /\ QuizOf[call[h].question] = QuizPlayed[call[h].session]
        /\ UNCHANGED <<live, question, status, scoreMax, answers>>
    BY <1>0, <1>5 DEF ReadQuestion, Goto, tables
  <2>6. Playable(call'[h])
    BY <2>3, <2>5 DEF WithinInv, Playable
  <2>7. QED
    BY <1>1, <2>3, <2>4, <2>5, <2>6 DEF WithinInv, Playable
<1>6. ASSUME NEW h \in Handlers, ReadStreak(h)
      PROVE  WithinInv'
  <2> DEFINE streak == Streak(AnswersOf(call[h].session))
             points == CalculateScore(call[h].row.points, call[h].correct, call[h].time,
                                      call[h].row.limit, streak)
  <2>1. call[h] \in Call /\ streak \in Nat
    BY <1>0, <1>6, AnswersOfFinite, StreakType DEF ReadStreak, TypeOK
  <2>2. /\ call[h].row.points \in Nat /\ call[h].correct \in BOOLEAN
        /\ call[h].time \in Int /\ call[h].row.limit \in Int \union {NoLimit}
    BY <2>1, QuizSessionAssumption DEF Call, QuestionRow
  <2>3. points <= 2 * call[h].row.points
    <3>1. points \in 0..(2 * call[h].row.points)
      BY <2>1, <2>2, CalculateScoreBound
    <3>2. QED
      BY <2>2, <3>1
  <2>4. call' = [call EXCEPT ![h].streak = streak, ![h].points = points]
    BY <1>6 DEF ReadStreak
  <2> HIDE DEF streak, points
  <2>5. /\ call'[h].session = call[h].session /\ call'[h].question = call[h].question
        /\ call'[h].row = call[h].row /\ call'[h].points = points
    BY <1>0, <2>1, <2>4 DEF Call
  <2>6. \A g \in Handlers : g # h => pc'[g] = pc[g] /\ call'[g] = call[g]
    BY <1>0, <1>6, <2>4 DEF ReadStreak, Goto
  <2>7. /\ pc'[h] = "insert" /\ pc[h] = "streak"
        /\ UNCHANGED <<live, question, status, scoreMax, answers>>
    BY <1>0, <1>6 DEF ReadStreak, Goto, tables
  <2>8. Playable(call'[h]) /\ call[h].row = question[call[h].question]
    BY <2>5, <2>7 DEF WithinInv, Playable
  <2>9. QED
    BY <1>1, <2>3, <2>5, <2>6, <2>7, <2>8 DEF WithinInv, Playable
<1>7. ASSUME NEW h \in Handlers, InsertAnswer(h)
      PROVE  WithinInv'
  <2>1. PICK a : /\ answers' = answers \union {a}
                 /\ a.session = call[h].session /\ a.question = call[h].question
                 /\ a.points = call[h].points
                 /\ a = [session |-> call[h].session, question |-> call[h].question,
                         correct |-> call[h].correct, points |-> call[h].points,
                         at |-> Cardinality(AnswersOf(call[h].session)) + 1,
                         streak |-> call[h].streak]
    BY <1>7 DEF InsertAnswer
  <2>2. pc' = [pc EXCEPT ![h] = "credit"] /\ pc[h] = "insert"
    BY <1>7 DEF InsertAnswer, Goto
  <2>3. UNCHANGED <<live, question, status, scoreMax, call>>
    BY <1>7 DEF InsertAnswer
  <2>4. Playable(a) /\ a.points <= 2 * question[a.question].points
    BY <2>1, <2>2 DEF WithinInv, Playable
  <2>5. QED
    BY <1>0, <2>1, <2>2, <2>3, <2>4 DEF WithinInv, Playable, QuestionsOf
<1>8. ASSUME NEW h \in Handlers, RejectQuestion(h) \/ RejectInsert(h) \/ UpdateScore(h) \/ Abort(h)
      PROVE  WithinInv'
  <2>1. \A g \in Handlers : pc'[g] # "idle" => pc'[g] = pc[g] /\ call'[g] = call[g]
    BY <1>0, <1>8 DEF RejectQuestion, RejectInsert, UpdateScore, Abort, Return, Goto
  <2>2. UNCHANGED <<live, question, status, scoreMax, answers>>
    BY <1>8 DEF RejectQuestion, RejectInsert, UpdateScore, Abort, tables
  <2>3. QED
    BY <1>1, <2>1, <2>2 DEF WithinInv
<1>9. CASE UNCHANGED vars
  BY <1>1, <1>9 DEF vars, WithinInv
<1>10. QED
  BY <1>2, <1>3, <1>4, <1>5, <1>6, <1>7, <1>8, <1>9
     DEF Next, Step, UpdateQuestion, DeleteQuestion

\* The rows credited to a session are of different questions of its quiz.
LEMMA WithinMax ==
  ASSUME TypeOK, LedgerInv, ScoreIsSumOfCredits, WithinInv, NEW s \in Sessions
  PROVE  score[s] <= 2 * scoreMax[s]
<1> DEFINE D == CreditedRows(s)
           E == QuestionsOf(s)
           f == [a \in D |-> a.points]
           g == [q \in E |-> question[q].points]
           m == [a \in D |-> a.question]
<1>1. IsFiniteSet(D) /\ f \in [D -> Nat]
  BY CreditedRowsType DEF PointsOf
<1>2. E \in SUBSET Questions /\ g \in [E -> Nat]
  BY QuizSessionAssumption DEF QuestionsOf, TypeOK, QuestionRow
<1>3. IsFiniteSet(E)
  BY <1>2, FS_Subset, QuizSessionAssumption
<1>4. \A a \in D : a \in answers /\ a.session = s
  BY DEF CreditedRows, AnswersOf
<1>5. \A a \in D : a.question \in E /\ a.points <= 2 * question[a.question].points
  BY <1>4 DEF WithinInv, Playable, QuestionsOf, TypeOK, Answer
<1>6. \A a, b \in D : a.question = b.question => a = b
  BY <1>4 DEF LedgerInv, Pair
<1>7. m \in Injection(D, E)
  BY <1>5, <1>6 DEF Injection, IsInjective
<1>8. \A a \in D : f[a] <= 2 * g[m[a]]
  BY <1>5
<1>9. score[s] = Total(f)
  BY DEF ScoreIsSumOfCredits
<1>10. CASE status[s] # "absent"
  <2>1. scoreMax[s] = Total(g)
    BY <1>10 DEF WithinInv
  <2>2. Total(f) <= 2 * Total(g)
    <3> HIDE DEF D, E, f, g, m
    <3>1. QED
      BY <1>1, <1>2, <1>3, <1>7, <1>8, TotalTwice
  <2>3. QED
    BY <1>9, <2>1, <2>2
<1>11. CASE status[s] = "absent"
  <2>1. D = {}
    BY <1>4, <1>11 DEF WithinInv, Playable
  <2>2. Total(f) = 0
    BY <2>1, TotalEmpty
  <2>3. QED
    BY <1>9, <2>2 DEF TypeOK
<1>12. QED
  BY <1>10, <1>11

(***************************************************************************)
(* While nobody edits questions, bonuses and overlapping submissions never *)
(* take a session past 200 percent of score_max (start_session,            *)
(* calculate_score, update_score).                                         *)
(***************************************************************************)
THEOREM WithinTwiceMax == Spec => []ScoreWithinTwiceMax
<1> DEFINE Inv == ~Authoring => WithinInv
<1>1. Init => Inv
  BY InitWithinInv
<1>2. TypeOK /\ TypeOK' /\ Inv /\ [Next]_vars => Inv'
  BY NextWithinInv
<1>3. TypeOK /\ LedgerInv /\ ScoreIsSumOfCredits /\ Inv => ScoreWithinTwiceMax
  BY WithinMax DEF ScoreWithinTwiceMax
<1> HIDE DEF Inv
<1>4. QED
  BY <1>1, <1>2, <1>3, TypeCorrect, LedgerCorrect, ScoreCorrect, PTL DEF Spec
=============================================================================

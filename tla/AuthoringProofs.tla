-------------------------- MODULE AuthoringProofs --------------------------
(***************************************************************************)
(* Proofs about Authoring, for every set of questions and handlers.        *)
(***************************************************************************)
EXTENDS Authoring, FiniteSetTheorems, TLAPS

(***************************************************************************)
(* Ids are drawn once: an option that an answer names is the one that was  *)
(* validated, or is gone.                                                  *)
(***************************************************************************)
OptionIdsDrawn ==
  /\ \A o \in options : o.id <= made
  /\ \A o, p \in options : o.id = p.id => o = p
  /\ \A h \in Handlers :
       pc[h].at \in {"validate", "store"} => pc[h].option \in 1..made \union {None}

\* What an answer says of an option, the option has been.
Says(o, a) == o.question = a.question /\ a.correct \in o.been

\* A verdict that waits to be stored is true of its option, if that is still there.
VerdictsHold ==
  \A h \in Handlers :
    pc[h].at = "store" /\ pc[h].as \in Choices /\ pc[h].option # None =>
      \A o \in options : o.id = pc[h].option => Says(o, pc[h])

ExplainInv ==
  /\ OptionIdsDrawn
  /\ \A o \in options : o.correct \in o.been
  /\ VerdictsHold
  /\ AnswersExplained

-----------------------------------------------------------------------------
\* A request moves to a call that is one: the typing of every step on pc.
LEMMA GotoTyping ==
  ASSUME TypeOK, NEW h \in Handlers, NEW c \in Call, pc' = [pc EXCEPT ![h] = c]
  PROVE  pc' \in [Handlers -> Call]
BY DEF TypeOK

LEMMA AuthoringTyping == TypeOK /\ [Next]_vars => TypeOK'
<1> SUFFICES ASSUME TypeOK, [Next]_vars PROVE TypeOK'
  OBVIOUS
<1> USE AuthoringAssumption
<1>0. Idle \in Call
  BY DEF Call
<1>1. ASSUME NEW q \in Questions, DeleteQuestion(q) PROVE TypeOK'
  BY <1>1 DEF TypeOK, DeleteQuestion
<1>2. ASSUME NEW q \in Questions, NEW k \in Kinds, CreateQuestion(q, k) \/ UpdateQuestion(q, k)
      PROVE  TypeOK'
  BY <1>2 DEF TypeOK, CreateQuestion, UpdateQuestion
<1>3. ASSUME NEW o \in options, DeleteReponse(o) PROVE TypeOK'
  BY <1>3 DEF TypeOK, DeleteReponse
<1>4. ASSUME NEW o \in options, NEW c \in BOOLEAN, UpdateReponse(o, c) PROVE TypeOK'
  <2>1. [o EXCEPT !.correct = c, !.been = @ \union {c}] \in Option
    BY DEF TypeOK, Option
  <2> QED
    BY <1>4, <2>1 DEF TypeOK, UpdateReponse
<1>5. ASSUME NEW h \in Handlers, NEW q \in Questions, CreateReponse(h, q) PROVE TypeOK'
  <2>1. [at |-> "count", question |-> q] \in Call
    BY DEF Call
  <2> QED
    BY <1>5, <2>1, GotoTyping DEF TypeOK, CreateReponse, Begin
<1>6. ASSUME NEW h \in Handlers, NEW q \in Questions, NEW n \in BulkSizes, CreateBulk(h, q, n)
      PROVE  TypeOK'
  <2>1. [at |-> "bulk", question |-> q, left |-> n] \in Call
    BY DEF Call
  <2> QED
    BY <1>6, <2>1, GotoTyping DEF TypeOK, CreateBulk, Begin
<1>7. ASSUME NEW h \in Handlers, NEW q \in Questions, NEW id \in 1..made \union {None},
             SubmitAnswer(h, q, id)
      PROVE  TypeOK'
  <2>1. [at |-> "validate", question |-> q, as |-> kind[q], option |-> id] \in Call
    BY <1>7 DEF Call, SubmitAnswer, Live, OptionIds, TypeOK
  <2> QED
    BY <1>7, <2>1, GotoTyping DEF TypeOK, SubmitAnswer, Begin
<1>8. ASSUME NEW h \in Handlers, CountReponses(h) PROVE TypeOK'
  <2>1. pc[h] \in [at : {"count"}, question : Questions]
    BY <1>8 DEF TypeOK, Call, CountReponses, Idle
  <2>2. [pc[h] EXCEPT !.at = "insert"] \in Call
    BY <2>1 DEF Call
  <2>3. pc' = [pc EXCEPT ![h] = Idle] \/ pc' = [pc EXCEPT ![h] = [pc[h] EXCEPT !.at = "insert"]]
    BY <1>8 DEF CountReponses, Goto, Leave
  <2>4. pc' \in [Handlers -> Call]
    BY <1>0, <2>2, <2>3, GotoTyping
  <2> QED
    BY <1>8, <2>4 DEF TypeOK, CountReponses
<1>9. ASSUME NEW q \in Questions, NEW b \in BOOLEAN, Insert(q, b)
      PROVE  options' \subseteq Option /\ made' \in 0..MaxOptions
  BY <1>9 DEF TypeOK, Insert, NewOption, Option, OptionIds
<1>10. ASSUME NEW h \in Handlers, InsertReponse(h) PROVE TypeOK'
  <2>1. pc[h].question \in Questions
    BY <1>10 DEF TypeOK, Call, InsertReponse, Idle
  <2>2. options' \subseteq Option /\ made' \in 0..MaxOptions
    BY <1>9, <1>10, <2>1 DEF InsertReponse, TypeOK
  <2> QED
    BY <1>0, <1>10, <2>2, GotoTyping DEF TypeOK, InsertReponse, Leave
<1>11. ASSUME NEW h \in Handlers, BulkRow(h) PROVE TypeOK'
  <2>1. pc[h] \in [at : {"bulk"}, question : Questions, left : Nat]
    BY <1>11 DEF TypeOK, Call, BulkRow, Idle
  <2>2. [pc[h] EXCEPT !.left = @ - 1] \in Call
    BY <1>11, <2>1 DEF Call, BulkRow
  <2>3. options' \subseteq Option /\ made' \in 0..MaxOptions
    BY <1>9, <1>11, <2>1 DEF BulkRow
  <2>4. pc' \in [Handlers -> Call]
    BY <1>11, <2>2, GotoTyping DEF BulkRow
  <2> QED
    BY <1>11, <2>3, <2>4 DEF TypeOK, BulkRow
<1>12. ASSUME NEW h \in Handlers, BulkEnd(h) \/ Abort(h) PROVE TypeOK'
  BY <1>0, <1>12, GotoTyping DEF TypeOK, BulkEnd, Abort, Leave
<1>13. ASSUME NEW h \in Handlers, ValidateAnswer(h) PROVE TypeOK'
  <2>1. /\ pc[h].question \in Questions
        /\ pc[h].option \in OptionIds \union {None}
    BY <1>13 DEF TypeOK, Call, ValidateAnswer, Idle
  <2>2. pc[h].as \in Choices \union Typed
    BY <1>13 DEF ValidateAnswer, ValidateChoice, ValidateSaisieTexte
  <2>3. ASSUME NEW c \in BOOLEAN
        PROVE  [at |-> "store", question |-> pc[h].question, as |-> pc[h].as,
                option |-> pc[h].option, correct |-> c] \in Call
    BY <2>1, <2>2 DEF Call
  <2>4. (\E c \in BOOLEAN : Judge(h, c)) \/ Leave(h)
    BY <1>13 DEF ValidateAnswer, ValidateChoice, ValidateSaisieTexte, Choose, TypeOK, Option,
                 OptionsOf
  <2>5. pc' \in [Handlers -> Call]
    BY <1>0, <2>3, <2>4, GotoTyping DEF Judge, Leave
  <2> QED
    BY <1>13, <2>5 DEF TypeOK, ValidateAnswer
<1>14. ASSUME NEW h \in Handlers, StoreAnswer(h) PROVE TypeOK'
  <2>1. pc[h] \in [at : {"store"}, question : Questions, as : Choices \union Typed,
                   option : OptionIds \union {None}, correct : BOOLEAN]
    BY <1>14 DEF TypeOK, Call, StoreAnswer, Idle
  <2>2. [question |-> pc[h].question, as |-> pc[h].as, option |-> pc[h].option,
         correct |-> pc[h].correct] \in Answer
    BY <2>1 DEF Answer
  <2> QED
    BY <1>0, <1>14, <2>2, GotoTyping DEF TypeOK, StoreAnswer, Leave
<1>15. CASE UNCHANGED vars
  BY <1>15 DEF vars, TypeOK
<1> QED
  BY <1>1, <1>2, <1>3, <1>4, <1>5, <1>6, <1>7, <1>8, <1>10, <1>11, <1>12, <1>13, <1>14, <1>15
  DEF Next

(***************************************************************************)
(* Every reachable state of the tables and requests is well typed.         *)
(***************************************************************************)
THEOREM AuthoringTypeCorrect == Spec => []TypeOK
<1>1. Init => TypeOK
  BY AuthoringAssumption DEF Init, TypeOK, Call
<1> QED
  BY <1>1, AuthoringTyping, PTL DEF Spec

-----------------------------------------------------------------------------
\* What a step may do to the options: those there were, with more behind them,
\* and new ones under ids never drawn.
OptionsGrowOn ==
  /\ made' >= made
  /\ \A p \in options' :
       \/ p.id > made /\ p.id <= made'
       \/ \E o \in options : o.id = p.id /\ o.question = p.question /\ o.been \subseteq p.been
  /\ \A o, p \in options' : o.id = p.id => o = p
  /\ \A o \in options' : o.correct \in o.been

\* The options an answer holds stay, and so does its question.
HeldStays ==
  /\ \A a \in answers : Live(a.question)'
  /\ \A a \in answers, o \in options : o.id = a.option =>
       \E p \in options' : o.id = p.id /\ o.question = p.question /\ o.been \subseteq p.been

\* No request comes to a verdict or an option it did not have.
CallsGoOn ==
  \A h \in Handlers : pc'[h].at \in {"validate", "store"} => pc'[h] = pc[h]

LEMMA TableStep ==
  ASSUME TypeOK, TypeOK', ExplainInv, OptionsGrowOn, HeldStays, CallsGoOn, answers' = answers
  PROVE  ExplainInv'
<1> USE AuthoringAssumption
<1>1. made \in Nat /\ made' \in Nat /\ options \subseteq Option /\ options' \subseteq Option
  BY DEF TypeOK
<1>2. \A o \in options' : o.id <= made'
  BY <1>1 DEF OptionsGrowOn, ExplainInv, OptionIdsDrawn, Option, OptionIds
<1>3. ASSUME NEW h \in Handlers, pc'[h].at \in {"validate", "store"}
      PROVE  pc'[h].option \in 1..made' \union {None}
  BY <1>1, <1>3 DEF CallsGoOn, ExplainInv, OptionIdsDrawn, OptionsGrowOn
<1>4. OptionIdsDrawn'
  BY <1>2, <1>3 DEF OptionIdsDrawn, OptionsGrowOn
<1>5. VerdictsHold'
  <2> SUFFICES ASSUME NEW h \in Handlers, pc'[h].at = "store", pc'[h].as \in Choices,
                      pc'[h].option # None, NEW p \in options', p.id = pc'[h].option
               PROVE  p.question = pc'[h].question /\ pc'[h].correct \in p.been
    BY DEF VerdictsHold, Says
  <2>1. pc'[h] = pc[h]
    BY DEF CallsGoOn
  <2>2. p.id <= made
    BY <1>1, <2>1 DEF ExplainInv, OptionIdsDrawn
  <2>3. PICK o \in options : o.id = p.id /\ o.question = p.question /\ o.been \subseteq p.been
    BY <1>1, <2>2 DEF OptionsGrowOn, Option, OptionIds
  <2>4. Says(o, pc[h])
    BY <2>1, <2>3 DEF ExplainInv, VerdictsHold
  <2> QED
    BY <2>1, <2>3, <2>4 DEF Says
<1>6. AnswersExplained'
  <2> SUFFICES ASSUME NEW a \in answers, a.as \in Choices, a.option # None
               PROVE  \E p \in options' : /\ p.question = a.question
                                          /\ p.id = a.option /\ a.correct \in p.been
    BY DEF HeldStays, AnswersExplained, OptionsOf
  <2>1. PICK o \in options : o.question = a.question /\ o.id = a.option /\ a.correct \in o.been
    BY DEF ExplainInv, AnswersExplained, OptionsOf
  <2>2. PICK p \in options' : o.id = p.id /\ o.question = p.question /\ o.been \subseteq p.been
    BY <2>1 DEF HeldStays
  <2> QED
    BY <2>1, <2>2
<1> QED
  BY <1>4, <1>5, <1>6 DEF ExplainInv, OptionsGrowOn

LEMMA InsertGrows ==
  ASSUME TypeOK, ExplainInv, kind' = kind,
         NEW q \in Questions, NEW bulk \in BOOLEAN, Insert(q, bulk)
  PROVE  OptionsGrowOn /\ HeldStays
<1>1. made \in Nat /\ options \subseteq Option
  BY AuthoringAssumption DEF TypeOK
<1>2. PICK c \in BOOLEAN : options' = options \union {NewOption(q, c, bulk)}
  BY DEF Insert
<1>3. /\ NewOption(q, c, bulk).id = made + 1
      /\ NewOption(q, c, bulk).correct \in NewOption(q, c, bulk).been
  BY DEF NewOption
<1>4. made' = made + 1
  BY DEF Insert
<1>5. OptionsGrowOn
  <2>1. \A o \in options : o.id # made + 1
    BY <1>1 DEF ExplainInv, OptionIdsDrawn, Option, OptionIds
  <2>2. \A o, p \in options' : o.id = p.id => o = p
    BY <1>2, <1>3, <2>1 DEF ExplainInv, OptionIdsDrawn
  <2>3. \A p \in options' :
          \/ p.id > made /\ p.id <= made'
          \/ \E o \in options : o.id = p.id /\ o.question = p.question /\ o.been \subseteq p.been
    BY <1>1, <1>2, <1>3, <1>4
  <2>4. \A o \in options' : o.correct \in o.been
    BY <1>2, <1>3 DEF ExplainInv
  <2> QED
    BY <1>1, <1>4, <2>2, <2>3, <2>4 DEF OptionsGrowOn
<1>6. HeldStays
  BY <1>2 DEF HeldStays, ExplainInv, AnswersExplained, Live
<1> QED
  BY <1>5, <1>6

\* A step that leaves questions and options alone.
LEMMA SameTables ==
  ASSUME TypeOK, ExplainInv, UNCHANGED <<kind, options, made>>
  PROVE  OptionsGrowOn /\ HeldStays
<1>1. made \in Nat
  BY AuthoringAssumption DEF TypeOK
<1> QED
  BY <1>1 DEF OptionsGrowOn, HeldStays, ExplainInv, OptionIdsDrawn, AnswersExplained, Live

-----------------------------------------------------------------------------
LEMMA AuthorsStep ==
  ASSUME TypeOK, ExplainInv,
         \/ \E q \in Questions : DeleteQuestion(q)
                                 \/ \E k \in Kinds : CreateQuestion(q, k) \/ UpdateQuestion(q, k)
         \/ \E o \in options : DeleteReponse(o) \/ \E c \in BOOLEAN : UpdateReponse(o, c)
  PROVE  OptionsGrowOn /\ HeldStays /\ CallsGoOn /\ answers' = answers
<1>1. made \in Nat /\ options \subseteq Option /\ kind \in [Questions -> Kinds \union {"new", "gone"}]
      /\ answers \subseteq Answer
  BY AuthoringAssumption DEF TypeOK
<1>2. ASSUME NEW q \in Questions, DeleteQuestion(q)
      PROVE  OptionsGrowOn /\ HeldStays /\ CallsGoOn /\ answers' = answers
  <2>1. OptionsGrowOn
    BY <1>1, <1>2 DEF DeleteQuestion, OptionsGrowOn, ExplainInv, OptionIdsDrawn
  <2>2. \A a \in answers : a.question # q
    BY <1>2 DEF DeleteQuestion, Holds
  <2>3. \A a \in answers, o \in OptionsOf(q) : o.id # a.option
    BY <1>2 DEF DeleteQuestion, Holds
  <2>4. HeldStays
    BY <1>1, <1>2, <2>2, <2>3 DEF DeleteQuestion, HeldStays, ExplainInv, AnswersExplained, Live,
                                  Answer
  <2> QED
    BY <1>2, <2>1, <2>4 DEF DeleteQuestion, CallsGoOn
<1>3. ASSUME NEW q \in Questions, NEW k \in Kinds, CreateQuestion(q, k) \/ UpdateQuestion(q, k)
      PROVE  OptionsGrowOn /\ HeldStays /\ CallsGoOn /\ answers' = answers
  <2>1. OptionsGrowOn
    BY <1>1, <1>3 DEF CreateQuestion, UpdateQuestion, OptionsGrowOn, ExplainInv, OptionIdsDrawn
  <2>2. HeldStays
    BY <1>1, <1>3 DEF CreateQuestion, UpdateQuestion, HeldStays, ExplainInv, AnswersExplained, Live,
                      Answer
  <2> QED
    BY <1>3, <2>1, <2>2 DEF CreateQuestion, UpdateQuestion, CallsGoOn
<1>4. ASSUME NEW o \in options, DeleteReponse(o)
      PROVE  OptionsGrowOn /\ HeldStays /\ CallsGoOn /\ answers' = answers
  <2>1. OptionsGrowOn
    BY <1>1, <1>4 DEF DeleteReponse, OptionsGrowOn, ExplainInv, OptionIdsDrawn
  <2>2. HeldStays
    BY <1>1, <1>4 DEF DeleteReponse, HeldStays, ExplainInv, AnswersExplained, Live
  <2> QED
    BY <1>4, <2>1, <2>2 DEF DeleteReponse, CallsGoOn
<1>5. ASSUME NEW o \in options, NEW c \in BOOLEAN, UpdateReponse(o, c)
      PROVE  OptionsGrowOn /\ HeldStays /\ CallsGoOn /\ answers' = answers
  <2> DEFINE new == [o EXCEPT !.correct = c, !.been = @ \union {c}]
  <2>1. /\ new.id = o.id /\ new.question = o.question /\ new.correct = c
        /\ new.been = o.been \union {c}
    BY <1>1 DEF Option
  <2>2. options' = (options \ {o}) \union {new} /\ UNCHANGED <<kind, made, answers, pc>>
    BY <1>5 DEF UpdateReponse
  <2> HIDE DEF new
  <2>3. \A r, p \in options' : r.id = p.id => r = p
    BY <2>1, <2>2 DEF ExplainInv, OptionIdsDrawn
  <2>4. OptionsGrowOn
    BY <1>1, <2>1, <2>2, <2>3 DEF OptionsGrowOn, ExplainInv
  <2>5. HeldStays
    BY <2>1, <2>2 DEF HeldStays, ExplainInv, AnswersExplained, Live
  <2> QED
    BY <2>2, <2>4, <2>5 DEF CallsGoOn
<1> QED
  BY <1>2, <1>3, <1>4, <1>5

LEMMA ExplainStep == TypeOK /\ TypeOK' /\ ExplainInv /\ [Next]_vars => ExplainInv'
<1> SUFFICES ASSUME TypeOK, TypeOK', ExplainInv, [Next]_vars PROVE ExplainInv'
  OBVIOUS
<1>0. pc \in [Handlers -> Call] /\ options \subseteq Option
  BY DEF TypeOK
<1>1. CASE \/ \E q \in Questions : DeleteQuestion(q)
                                  \/ \E k \in Kinds : CreateQuestion(q, k) \/ UpdateQuestion(q, k)
           \/ \E o \in options : DeleteReponse(o) \/ \E c \in BOOLEAN : UpdateReponse(o, c)
  BY <1>1, AuthorsStep, TableStep
<1>2. ASSUME NEW h \in Handlers, NEW q \in Questions,
             CreateReponse(h, q) \/ (\E n \in BulkSizes : CreateBulk(h, q, n))
      PROVE  ExplainInv'
  <2>1. CallsGoOn
    BY <1>0, <1>2 DEF CreateReponse, CreateBulk, Begin, CallsGoOn
  <2> QED
    BY <1>2, <2>1, SameTables, TableStep DEF CreateReponse, CreateBulk
<1>3. ASSUME NEW h \in Handlers, CountReponses(h) \/ BulkEnd(h) \/ Abort(h) PROVE ExplainInv'
  <2>1. \/ pc' = [pc EXCEPT ![h] = Idle]
        \/ pc[h].at = "count" /\ pc' = [pc EXCEPT ![h].at = "insert"]
    BY <1>3 DEF CountReponses, BulkEnd, Abort, Goto, Leave
  <2>2. CASE pc' = [pc EXCEPT ![h] = Idle]
    BY <1>0, <1>3, <2>2, SameTables, TableStep DEF CountReponses, BulkEnd, Abort, CallsGoOn, Idle
  <2>3. CASE pc[h].at = "count" /\ pc' = [pc EXCEPT ![h].at = "insert"]
    <3>1. pc[h] \in [at : {"count"}, question : Questions]
      BY <1>0, <2>3 DEF Call, Idle
    <3>2. [pc[h] EXCEPT !.at = "insert"].at = "insert"
      BY <3>1
    <3>3. CallsGoOn
      BY <1>0, <2>3, <3>2 DEF CallsGoOn
    <3> QED
      BY <1>3, <3>3, SameTables, TableStep DEF CountReponses, BulkEnd, Abort
  <2> QED
    BY <2>1, <2>2, <2>3
<1>4. ASSUME NEW h \in Handlers, InsertReponse(h) PROVE ExplainInv'
  <2>1. pc[h].question \in Questions
    BY <1>0, <1>4 DEF Call, InsertReponse, Idle
  <2>2. OptionsGrowOn /\ HeldStays
    BY <1>4, <2>1, InsertGrows, SameTables DEF InsertReponse
  <2>3. CallsGoOn
    BY <1>0, <1>4 DEF InsertReponse, Leave, CallsGoOn, Idle
  <2> QED
    BY <1>4, <2>2, <2>3, TableStep DEF InsertReponse
<1>5. ASSUME NEW h \in Handlers, BulkRow(h) PROVE ExplainInv'
  <2>1. pc[h] \in [at : {"bulk"}, question : Questions, left : Nat]
    BY <1>0, <1>5 DEF Call, BulkRow, Idle
  <2>2. [pc[h] EXCEPT !.left = @ - 1].at = "bulk"
    BY <2>1
  <2>3. CallsGoOn
    BY <1>0, <1>5, <2>2 DEF BulkRow, CallsGoOn
  <2>4. OptionsGrowOn /\ HeldStays
    BY <1>5, <2>1, InsertGrows DEF BulkRow
  <2> QED
    BY <1>5, <2>3, <2>4, TableStep DEF BulkRow
<1>6. ASSUME NEW h \in Handlers, NEW q \in Questions, NEW id \in 1..made \union {None},
             SubmitAnswer(h, q, id)
      PROVE  ExplainInv'
  <2>1. pc'[h].at = "validate" /\ pc'[h].option = id
        /\ \A g \in Handlers \ {h} : pc'[g] = pc[g]
    BY <1>0, <1>6 DEF SubmitAnswer, Begin
  <2>2. UNCHANGED <<kind, options, made, answers>>
    BY <1>6 DEF SubmitAnswer
  <2>3. OptionIdsDrawn'
    BY <2>1, <2>2 DEF ExplainInv, OptionIdsDrawn
  <2>4. VerdictsHold'
    BY <2>1, <2>2 DEF ExplainInv, VerdictsHold, Says
  <2>5. AnswersExplained'
    BY <2>2 DEF ExplainInv, AnswersExplained, Live, OptionsOf
  <2> QED
    BY <2>2, <2>3, <2>4, <2>5 DEF ExplainInv
<1>7. ASSUME NEW h \in Handlers, ValidateAnswer(h) PROVE ExplainInv'
  <2>1. UNCHANGED <<kind, options, made, answers>> /\ pc[h].at = "validate"
    BY <1>7 DEF ValidateAnswer
  <2>2. CASE Leave(h)
    <3>1. CallsGoOn
      BY <1>0, <2>2 DEF Leave, CallsGoOn, Idle
    <3> QED
      BY <2>1, <3>1, SameTables, TableStep
  <2>3. ASSUME NEW c \in BOOLEAN, Judge(h, c),
               pc[h].as \in Choices /\ pc[h].option # None =>
                 \E o \in OptionsOf(pc[h].question) : o.id = pc[h].option /\ c = o.correct
        PROVE  ExplainInv'
    <3>1. /\ pc'[h].at = "store" /\ pc'[h].question = pc[h].question /\ pc'[h].as = pc[h].as
          /\ pc'[h].option = pc[h].option /\ pc'[h].correct = c
          /\ \A g \in Handlers \ {h} : pc'[g] = pc[g]
      BY <1>0, <2>3 DEF Judge
    <3>2. OptionIdsDrawn'
      BY <2>1, <3>1 DEF ExplainInv, OptionIdsDrawn
    <3>3. ASSUME NEW o \in options, pc[h].as \in Choices, pc[h].option # None,
                 o.id = pc[h].option
          PROVE  o.question = pc[h].question /\ c \in o.been
      BY <2>3, <3>3 DEF ExplainInv, OptionIdsDrawn, OptionsOf
    <3>4. VerdictsHold'
      BY <2>1, <3>1, <3>3 DEF ExplainInv, VerdictsHold, Says
    <3>5. AnswersExplained'
      BY <2>1 DEF ExplainInv, AnswersExplained, Live, OptionsOf
    <3> QED
      BY <2>1, <3>2, <3>4, <3>5 DEF ExplainInv
  <2>4. CASE ValidateChoice(h)
    <3>1. \A o \in OptionsOf(pc[h].question) : o.correct \in BOOLEAN
      BY <1>0 DEF OptionsOf, Option
    <3> QED
      BY <2>2, <2>3, <2>4, <3>1 DEF ValidateChoice, Choose
  <2>5. CASE ValidateSaisieTexte(h)
    <3>1. pc[h].as \notin Choices
      BY <2>5 DEF ValidateSaisieTexte, Choices, Typed
    <3> QED
      BY <2>2, <2>3, <2>5, <3>1 DEF ValidateSaisieTexte
  <2> QED
    BY <1>7, <2>4, <2>5 DEF ValidateAnswer
<1>8. ASSUME NEW h \in Handlers, StoreAnswer(h) PROVE ExplainInv'
  <2>1. UNCHANGED <<kind, options, made>> /\ pc[h].at = "store"
    BY <1>8 DEF StoreAnswer
  <2>2. CallsGoOn
    BY <1>0, <1>8 DEF StoreAnswer, Leave, CallsGoOn, Idle
  <2>3. OptionIdsDrawn' /\ VerdictsHold' /\ \A o \in options' : o.correct \in o.been
    BY <2>1, <2>2 DEF CallsGoOn, ExplainInv, OptionIdsDrawn, VerdictsHold, Says
  <2>4. ASSUME NEW a \in answers', a \notin answers
        PROVE  /\ Live(a.question)
               /\ a.as \in Choices /\ a.option # None =>
                    \E o \in OptionsOf(a.question) : o.id = a.option /\ a.correct \in o.been
    <3>1. /\ a.question = pc[h].question /\ a.as = pc[h].as /\ a.option = pc[h].option
          /\ a.correct = pc[h].correct
          /\ Live(pc[h].question)
          /\ pc[h].option \in {o.id : o \in options} \union {None}
      BY <1>8, <2>4 DEF StoreAnswer
    <3> QED
      BY <2>1, <3>1 DEF ExplainInv, VerdictsHold, Says, OptionsOf
  <2>5. AnswersExplained'
    BY <2>1, <2>4 DEF ExplainInv, AnswersExplained, Live, OptionsOf
  <2> QED
    BY <2>3, <2>5 DEF ExplainInv
<1>9. CASE UNCHANGED vars
  BY <1>9, SameTables, TableStep DEF vars, CallsGoOn
<1> QED
  BY <1>1, <1>2, <1>3, <1>4, <1>5, <1>6, <1>7, <1>8, <1>9 DEF Next

(***************************************************************************)
(* A stored answer stays explained: for any number of requests and         *)
(* options, whatever authors change between its validation and its insert  *)
(* or afterwards, its question and its option are there and the option was *)
(* right or wrong at some time as the answer says.                         *)
(***************************************************************************)
THEOREM StaysExplained == Spec => []AnswersExplained
<1>1. Init => ExplainInv
  BY DEF Init, Idle, ExplainInv, OptionIdsDrawn, VerdictsHold, AnswersExplained
<1>2. ExplainInv => AnswersExplained
  BY DEF ExplainInv
<1> QED
  BY <1>1, <1>2, ExplainStep, AuthoringTypeCorrect, PTL DEF Spec

-----------------------------------------------------------------------------
(***************************************************************************)
(* The limit on a question's options.  Each step is one of CheckedCount's  *)
(* for every question.                                                     *)
(***************************************************************************)
Counted(q) == OptionCount!Admit(q) \/ OptionCount!Settle(q) \/ OptionCount!Decay(q)

LEMMA CountTypes ==
  ASSUME IsFiniteSet(options), NEW q
  PROVE  /\ IsFiniteSet(Singles(q)) /\ Cardinality(Singles(q)) \in Nat
         /\ IsFiniteSet(Inserting(q)) /\ Cardinality(Inserting(q)) \in Nat
         /\ IsFiniteSet(OptionsOf(q)) /\ Cardinality(Singles(q)) <= Cardinality(OptionsOf(q))
         /\ Cardinality(OptionsOf(q)) \in Nat
<1>1. OptionsOf(q) \subseteq options /\ Singles(q) \subseteq OptionsOf(q)
      /\ Inserting(q) \subseteq Handlers
  BY DEF OptionsOf, Singles, Inserting
<1>2. IsFiniteSet(OptionsOf(q)) /\ IsFiniteSet(Inserting(q))
  BY <1>1, FS_Subset, AuthoringAssumption
<1>3. QED
  BY <1>1, <1>2, FS_Subset, FS_CardinalityType

\* The requests that have counted change by the one that moves.
LEMMA InsertingMoves ==
  ASSUME TypeOK, NEW h \in Handlers, NEW c, pc' = [pc EXCEPT ![h] = c], NEW q
  PROVE  Inserting(q)' = IF c.at = "insert" /\ c.question = q THEN Inserting(q) \union {h}
                                                              ELSE Inserting(q) \ {h}
BY DEF TypeOK, Inserting

\* Options are deleted, and no request is done.
LEMMA FewerCounted ==
  ASSUME IsFiniteSet(options), NEW q \in Questions,
         Singles(q)' \subseteq Singles(q), Inserting(q)' = Inserting(q)
  PROVE  Counted(q)
<1>1. PICK S : S = Singles(q)'
  OBVIOUS
<1>2. Cardinality(S) \in Nat /\ Cardinality(S) <= Cardinality(Singles(q))
  BY <1>1, CountTypes, FS_Subset, FS_CardinalityType
<1>3. Cardinality(S) \in 0..Cardinality(Singles(q))
  BY <1>2, CountTypes
<1>4. QED
  BY <1>1, <1>3 DEF Counted, OptionCount!Decay

\* A request is done that may have counted, and inserts nothing.
LEMMA DoneUncounted ==
  ASSUME TypeOK, IsFiniteSet(options), NEW q \in Questions, NEW h \in Handlers, NEW c,
         pc' = [pc EXCEPT ![h] = c], c.at # "insert", Singles(q)' = Singles(q)
  PROVE  Counted(q)
<1>1. Inserting(q)' = Inserting(q) \ {h}
  BY InsertingMoves
<1>2. CASE h \in Inserting(q)
  <2>1. /\ Cardinality(Inserting(q) \ {h}) = Cardinality(Inserting(q)) - 1
        /\ Cardinality(Inserting(q) \ {h}) \in Nat
    BY <1>2, CountTypes, FS_RemoveElement, FS_CardinalityType
  <2>2. Cardinality(Singles(q)') \in 0..(Cardinality(Singles(q)) + 1)
    BY CountTypes
  <2>3. QED
    BY <1>1, <2>1, <2>2, CountTypes DEF Counted, OptionCount!Settle
<1>3. CASE h \notin Inserting(q)
  <2>1. Inserting(q)' = Inserting(q)
    BY <1>1, <1>3
  <2>2. QED
    BY <2>1, FewerCounted
<1>4. QED
  BY <1>2, <1>3

LEMMA LeaveUncounted ==
  ASSUME TypeOK, IsFiniteSet(options), NEW q \in Questions, NEW h \in Handlers,
         Leave(h), Singles(q)' = Singles(q)
  PROVE  Counted(q)
<1>1. Idle.at # "insert"
  BY DEF Idle
<1>2. QED
  BY <1>1, DoneUncounted DEF Leave

LEMMA CountCounted ==
  ASSUME TypeOK, IsFiniteSet(options), NEW q \in Questions,
         NEW h \in Handlers, CountReponses(h)
  PROVE  Counted(q)
<1>1. pc[h] \in [at : {"count"}, question : Questions] /\ Singles(q)' = Singles(q)
  BY DEF TypeOK, Call, CountReponses, Idle, Singles, OptionsOf
<1>2. CASE Leave(h)
  BY <1>1, <1>2, LeaveUncounted
<1>3. CASE Goto(h, "insert") /\ Cardinality(OptionsOf(pc[h].question)) < OptionLimit
  <2>1. PICK c : c = [pc[h] EXCEPT !.at = "insert"]
    OBVIOUS
  <2>2. c.at = "insert" /\ c.question = pc[h].question /\ pc' = [pc EXCEPT ![h] = c]
    BY <1>1, <1>3, <2>1 DEF Goto
  <2>3. h \notin Inserting(q)
    BY <1>1 DEF Inserting
  <2>4. CASE q # pc[h].question
    <3>1. Inserting(q)' = Inserting(q) \ {h}
      BY <2>2, <2>4, InsertingMoves
    <3>2. QED
      BY <1>1, <2>3, <3>1, FewerCounted
  <2>5. CASE q = pc[h].question
    <3>1. Inserting(q)' = Inserting(q) \union {h}
      BY <2>2, <2>5, InsertingMoves
    <3>2. /\ Cardinality(Inserting(q) \union {h}) = Cardinality(Inserting(q)) + 1
          /\ Cardinality(Inserting(q) \union {h}) <= Cardinality(Handlers)
      <4>1. Inserting(q) \union {h} \subseteq Handlers
        BY DEF Inserting
      <4>2. QED
        BY <2>3, <4>1, CountTypes, FS_AddElement, FS_Subset, AuthoringAssumption
    <3>3. Cardinality(Inserting(q)) < Cardinality(Handlers)
      BY <3>2, CountTypes, AuthoringAssumption, FS_CardinalityType
    <3>4. Cardinality(Singles(q)) < OptionLimit
      BY <1>3, <2>5, CountTypes, AuthoringAssumption
    <3>5. QED
      BY <1>1, <3>1, <3>2, <3>3, <3>4 DEF Counted, OptionCount!Admit
  <2>6. QED
    BY <2>4, <2>5
<1>4. QED
  <2>1. \/ Leave(h)
        \/ Goto(h, "insert") /\ ~(Cardinality(OptionsOf(pc[h].question)) >= OptionLimit)
    BY DEF CountReponses
  <2>2. Cardinality(OptionsOf(pc[h].question)) \in Nat
    BY CountTypes
  <2>3. QED
    BY <1>2, <1>3, <2>1, <2>2, AuthoringAssumption

LEMMA InsertCounted ==
  ASSUME TypeOK, IsFiniteSet(options), NEW q \in Questions,
         NEW h \in Handlers, InsertReponse(h)
  PROVE  Counted(q)
<1>1. PICK S, T, r : S = Singles(q)' /\ T = Inserting(q)' /\ r = pc[h].question
  OBVIOUS
<1>2. Leave(h) /\ pc[h].at = "insert"
  BY DEF InsertReponse
<1>3. CASE options' = options \/ q # r
  <2>1. Singles(q)' = Singles(q)
    BY <1>1, <1>3 DEF InsertReponse, Insert, NewOption, Singles, OptionsOf
  <2>2. QED
    BY <1>2, <2>1, LeaveUncounted
<1>4. CASE options' # options /\ q = r
  <2>1. PICK correct \in BOOLEAN : options' = options \union {NewOption(q, correct, FALSE)}
    BY <1>1, <1>4 DEF InsertReponse, Insert
  <2>2. PICK o : o = NewOption(q, correct, FALSE)
    OBVIOUS
  <2>3. options' = options \union {o} /\ o.question = q /\ o.bulk = FALSE
    BY <2>1, <2>2 DEF NewOption
  <2>4. S = Singles(q) \union {o}
    BY <1>1, <2>3 DEF Singles, OptionsOf
  <2>5. Cardinality(S) \in {Cardinality(Singles(q)), Cardinality(Singles(q)) + 1}
    BY <2>4, CountTypes, FS_AddElement
  <2>6. h \in Inserting(q) /\ T = Inserting(q) \ {h}
    <3>1. h \in Inserting(q)
      BY <1>1, <1>2, <1>4 DEF Inserting
    <3>2. Idle.at # "insert"
      BY DEF Idle
    <3>3. QED
      BY <1>1, <1>2, <3>1, <3>2, InsertingMoves DEF Leave
  <2>7. Cardinality(T) = Cardinality(Inserting(q)) - 1 /\ Cardinality(T) \in Nat
    BY <2>6, CountTypes, FS_RemoveElement, FS_CardinalityType
  <2>8. QED
    BY <1>1, <2>5, <2>7, CountTypes DEF Counted, OptionCount!Settle
<1>5. QED
  BY <1>3, <1>4

LEMMA UpdateCounted ==
  ASSUME TypeOK, IsFiniteSet(options), NEW q \in Questions,
         NEW o \in options, NEW correct \in BOOLEAN, UpdateReponse(o, correct)
  PROVE  Counted(q)
<1>1. PICK p : p = [o EXCEPT !.correct = correct, !.been = @ \union {correct}]
  OBVIOUS
<1>2. p.question = o.question /\ p.bulk = o.bulk
  BY <1>1 DEF TypeOK, Option
<1>3. options' = (options \ {o}) \union {p} /\ pc' = pc
  BY <1>1 DEF UpdateReponse
<1>4. PICK S : S = Singles(q)'
  OBVIOUS
<1>5. Inserting(q)' = Inserting(q)
  BY <1>3 DEF Inserting
<1>6. CASE o \in Singles(q)
  <2>1. S = (Singles(q) \ {o}) \union {p}
    BY <1>2, <1>3, <1>4, <1>6 DEF Singles, OptionsOf
  <2>2. /\ IsFiniteSet(Singles(q) \ {o})
        /\ Cardinality(Singles(q) \ {o}) = Cardinality(Singles(q)) - 1
    BY <1>6, CountTypes, FS_RemoveElement
  <2>3. /\ IsFiniteSet(S)
        /\ Cardinality(S) = Cardinality(Singles(q)) - 1 \/ Cardinality(S) = Cardinality(Singles(q))
    <3>1. PICK R : R = Singles(q) \ {o}
      OBVIOUS
    <3>2. /\ IsFiniteSet(R \union {p})
          /\ Cardinality(R \union {p}) = IF p \in R THEN Cardinality(R) ELSE Cardinality(R) + 1
      BY <2>2, <3>1, FS_AddElement
    <3>3. QED
      BY <2>1, <2>2, <3>1, <3>2, CountTypes
  <2>4. Cardinality(S) \in 0..Cardinality(Singles(q))
    BY <2>3, CountTypes, FS_CardinalityType
  <2>5. QED
    BY <1>4, <1>5, <2>4 DEF Counted, OptionCount!Decay
<1>7. CASE o \notin Singles(q)
  <2>1. Singles(q)' = Singles(q)
    BY <1>2, <1>3, <1>7 DEF Singles, OptionsOf
  <2>2. QED
    BY <1>5, <2>1, FewerCounted
<1>8. QED
  BY <1>6, <1>7

\* Options are added one at a time.
FiniteTable == IsFiniteSet(options)

LEMMA CountStep == TypeOK /\ FiniteTable /\ [Next]_vars => [OptionCount!Next]_OptionCount!countVars
<1> SUFFICES ASSUME TypeOK, IsFiniteSet(options), [Next]_vars
             PROVE  [OptionCount!Next]_OptionCount!countVars
  BY DEF FiniteTable
<1>1. CASE UNCHANGED vars
  <2>1. \A q : Singles(q)' = Singles(q) /\ Inserting(q)' = Inserting(q)
    BY <1>1 DEF vars, Singles, OptionsOf, Inserting
  <2>2. UNCHANGED OptionCount!countVars
    BY <2>1 DEF OptionCount!countVars
  <2>3. QED
    BY <2>2
<1>2. ASSUME Next, NEW q \in Questions PROVE Counted(q)
  <2>1. ASSUME NEW r \in Questions,
               DeleteQuestion(r) \/ \E k \in Kinds : CreateQuestion(r, k) \/ UpdateQuestion(r, k)
        PROVE  Counted(q)
    <3>1. Singles(q)' \subseteq Singles(q) /\ Inserting(q)' = Inserting(q)
      BY <2>1 DEF DeleteQuestion, CreateQuestion, UpdateQuestion, Singles, OptionsOf, Inserting
    <3>2. QED
      BY <3>1, FewerCounted
  <2>2. ASSUME NEW o \in options, DeleteReponse(o) PROVE Counted(q)
    <3>1. Singles(q)' \subseteq Singles(q) /\ Inserting(q)' = Inserting(q)
      BY <2>2 DEF DeleteReponse, Singles, OptionsOf, Inserting
    <3>2. QED
      BY <3>1, FewerCounted
  <2>3. ASSUME NEW h \in Handlers, NEW r \in Questions,
               \/ CreateReponse(h, r)
               \/ \E n \in BulkSizes : CreateBulk(h, r, n)
               \/ \E id \in 1..made \union {None} : SubmitAnswer(h, r, id)
        PROVE  Counted(q)
    <3>1. PICK c : pc' = [pc EXCEPT ![h] = c] /\ c.at # "insert"
      <4>1. CASE CreateReponse(h, r)
        <5>1. PICK c : c = [at |-> "count", question |-> r]
          OBVIOUS
        <5>2. c.at # "insert"
          BY <5>1
        <5>3. QED
          BY <4>1, <5>1, <5>2 DEF CreateReponse, Begin
      <4>2. ASSUME NEW n \in BulkSizes, CreateBulk(h, r, n)
            PROVE  \E c : pc' = [pc EXCEPT ![h] = c] /\ c.at # "insert"
        <5>1. PICK c : c = [at |-> "bulk", question |-> r, left |-> n]
          OBVIOUS
        <5>2. c.at # "insert"
          BY <5>1
        <5>3. QED
          BY <4>2, <5>1, <5>2 DEF CreateBulk, Begin
      <4>3. ASSUME NEW id, SubmitAnswer(h, r, id)
            PROVE  \E c : pc' = [pc EXCEPT ![h] = c] /\ c.at # "insert"
        <5>1. PICK c : c = [at |-> "validate", question |-> r, as |-> kind[r], option |-> id]
          OBVIOUS
        <5>2. c.at # "insert"
          BY <5>1
        <5>3. QED
          BY <4>3, <5>1, <5>2 DEF SubmitAnswer, Begin
      <4>4. QED
        BY <2>3, <4>1, <4>2, <4>3
    <3>2. Singles(q)' = Singles(q)
      BY <2>3 DEF CreateReponse, CreateBulk, SubmitAnswer, Singles, OptionsOf
    <3>3. QED
      BY <3>1, <3>2, DoneUncounted
  <2>4. ASSUME NEW h \in Handlers,
               BulkEnd(h) \/ ValidateAnswer(h) \/ StoreAnswer(h) \/ Abort(h)
        PROVE  Counted(q)
    <3>1. Leave(h) \/ \E c \in BOOLEAN : Judge(h, c)
      BY <2>4 DEF BulkEnd, StoreAnswer, Abort, ValidateAnswer, ValidateChoice,
                  ValidateSaisieTexte, Choose, TypeOK, Option, OptionsOf
    <3>2. Singles(q)' = Singles(q)
      BY <2>4 DEF BulkEnd, ValidateAnswer, StoreAnswer, Abort, Singles, OptionsOf
    <3>3. ASSUME NEW correct \in BOOLEAN, Judge(h, correct) PROVE Counted(q)
      <4>1. PICK c : c = [at |-> "store", question |-> pc[h].question, as |-> pc[h].as,
                          option |-> pc[h].option, correct |-> correct]
        OBVIOUS
      <4>2. c.at # "insert" /\ pc' = [pc EXCEPT ![h] = c]
        BY <3>3, <4>1 DEF Judge
      <4>3. QED
        BY <3>2, <4>2, DoneUncounted
    <3>4. QED
      BY <3>1, <3>2, <3>3, LeaveUncounted
  <2>5. ASSUME NEW h \in Handlers, BulkRow(h) PROVE Counted(q)
    <3>1. pc[h] \in [at : {"bulk"}, question : Questions, left : Nat]
      BY <2>5 DEF TypeOK, Call, BulkRow, Idle
    <3>2. PICK c : c = [pc[h] EXCEPT !.left = @ - 1]
      OBVIOUS
    <3>3. pc' = [pc EXCEPT ![h] = c] /\ c.at # "insert"
      BY <2>5, <3>1, <3>2 DEF BulkRow
    <3>4. Singles(q)' = Singles(q)
      BY <2>5 DEF BulkRow, Insert, NewOption, Singles, OptionsOf
    <3>5. QED
      BY <3>3, <3>4, DoneUncounted
  <2>6. QED
    BY <1>2, <2>1, <2>2, <2>3, <2>4, <2>5, CountCounted, InsertCounted, UpdateCounted DEF Next
<1>3. QED
  BY <1>1, <1>2 DEF Counted, OptionCount!Next

LEMMA FiniteOptions == FiniteTable /\ [Next]_vars => FiniteTable'
<1> SUFFICES ASSUME IsFiniteSet(options), [Next]_vars PROVE IsFiniteSet(options')
  BY DEF FiniteTable
<1>1. \/ options' \subseteq options
      \/ \E o : options' = options \union {o}
      \/ \E o, p : options' = (options \ {o}) \union {p}
  BY DEF Next, vars, DeleteQuestion, CreateQuestion, UpdateQuestion, DeleteReponse, UpdateReponse,
         CreateReponse, CreateBulk, SubmitAnswer, CountReponses, InsertReponse, Insert, BulkRow,
         BulkEnd, ValidateAnswer, StoreAnswer, Abort
<1>2. QED
  BY <1>1, FS_Subset, FS_AddElement, FS_RemoveElement

(***************************************************************************)
(* The options of a question implement CheckedCount: create_reponse counts *)
(* them and inserts in a later statement, and nothing else adds to them.   *)
(***************************************************************************)
THEOREM OptionsCounted == Spec => OptionLimitKept
<1>1. Init => OptionCount!Init
  <2> SUFFICES ASSUME Init PROVE OptionCount!Init
    OBVIOUS
  <2>1. \A q \in Questions : Singles(q) = {} /\ Inserting(q) = {}
    BY DEF Init, Singles, OptionsOf, Inserting, Idle
  <2>2. QED
    BY <2>1, FS_EmptySet DEF OptionCount!Init
<1>2. Init => FiniteTable
  BY FS_EmptySet DEF Init, FiniteTable
<1>3. QED
  BY <1>1, <1>2, CountStep, FiniteOptions, AuthoringTypeCorrect, PTL
  DEF Spec, OptionLimitKept, OptionCount!CountSpec

-----------------------------------------------------------------------------
LEMMA OvershootStep ==
  OptionCount!Overshoot /\ [OptionCount!Next]_OptionCount!countVars => OptionCount!Overshoot'
<1> SUFFICES ASSUME OptionCount!Overshoot, [OptionCount!Next]_OptionCount!countVars,
                    NEW q \in Questions,
                    NEW c, c = Cardinality(Singles(q))', NEW p, p = Cardinality(Inserting(q))'
             PROVE  c \in Nat /\ p \in 0..Cardinality(Handlers) /\ c + p < OptionLimit + Cardinality(Handlers)
  BY DEF OptionCount!Overshoot
<1>1. OptionLimit \in Nat \ {0} /\ Cardinality(Handlers) \in Nat
  BY AuthoringAssumption, FS_CardinalityType
<1>2. /\ Cardinality(Singles(q)) \in Nat /\ Cardinality(Inserting(q)) \in 0..Cardinality(Handlers)
      /\ Cardinality(Singles(q)) + Cardinality(Inserting(q)) < OptionLimit + Cardinality(Handlers)
  BY DEF OptionCount!Overshoot
<1>3. CASE OptionCount!Admit(q)
  BY <1>1, <1>2, <1>3 DEF OptionCount!Admit
<1>4. CASE OptionCount!Settle(q)
  BY <1>1, <1>2, <1>4 DEF OptionCount!Settle
<1>5. CASE OptionCount!Decay(q)
  BY <1>1, <1>2, <1>5 DEF OptionCount!Decay
<1>6. CASE UNCHANGED OptionCount!countVars
  BY <1>2, <1>6 DEF OptionCount!countVars
<1>7. QED
  BY <1>3, <1>4, <1>5, <1>6 DEF OptionCount!Next

(***************************************************************************)
(* "max 6 pour un QCM": a question has fewer than six options created one  *)
(* by one, and one for each request that counted before they were in.      *)
(***************************************************************************)
THEOREM OptionOvershoot == Spec => []OptionCount!Overshoot
<1>1. OptionCount!Init => OptionCount!Overshoot
  <2>1. Cardinality(Handlers) \in Nat /\ OptionLimit \in Nat \ {0}
    BY AuthoringAssumption, FS_CardinalityType
  <2>2. QED
    BY <2>1 DEF OptionCount!Init, OptionCount!Overshoot
<1>2. QED
  BY <1>1, OvershootStep, OptionsCounted, PTL DEF OptionLimitKept, OptionCount!CountSpec
=============================================================================

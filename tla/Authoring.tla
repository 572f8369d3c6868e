----------------------------- MODULE Authoring ------------------------------
(***************************************************************************)
(* The questions of a quiz and their answer options (table reponses):      *)
(* authors create, change and delete them while players' answers are       *)
(* validated against them.  Every service call is a series of statements   *)
(* without a transaction.  What happens to a player's session is           *)
(* QuizSession's; here an answer is what it says of the options.           *)
(***************************************************************************)
EXTENDS Integers, FiniteSets

CONSTANTS
  Questions,     \* ids of questions
  Handlers,      \* slots for requests under way
  Kinds,         \* type_question
  OptionLimit,   \* 6
  BulkSizes,     \* lengths of the lists given to create_bulk
  MaxOptions,    \* bound on the options ever created
  MaxAnswers,    \* bound on the answers stored
  None           \* reponse_id is absent

OptionIds == 1..MaxOptions
Choices == {"qcm", "vrai_faux"}
Typed == {"saisie_texte"}

ASSUME AuthoringAssumption ==
  /\ IsFiniteSet(Questions) /\ IsFiniteSet(Handlers)
  /\ OptionLimit \in Nat \ {0}
  /\ BulkSizes \subseteq Nat
  /\ MaxOptions \in Nat /\ MaxAnswers \in Nat
  /\ None \notin Nat

VARIABLES
  kind,       \* per question: its type, "new" before it is created, "gone" after
  options,    \* rows of reponses
  made,       \* how many options were ever created; ids are never used again
  answers,    \* rows of reponses_utilisateur, with the type they were validated as
  pc          \* what each request does

vars == <<kind, options, made, answers, pc>>

\* been: the values is_correct has had, as history.
Option == [id : OptionIds, question : Questions, correct : BOOLEAN, bulk : BOOLEAN,
           been : SUBSET BOOLEAN]
Answer == [question : Questions, as : Choices \union Typed, option : OptionIds \union {None},
           correct : BOOLEAN]

Idle == [at |-> "idle"]

Init ==
  /\ kind = [q \in Questions |-> "new"]
  /\ options = {}
  /\ made = 0
  /\ answers = {}
  /\ pc = [h \in Handlers |-> Idle]

Live(q) == kind[q] \in Kinds
OptionsOf(q) == {o \in options : o.question = q}
Begin(h, call) == pc[h] = Idle /\ pc' = [pc EXCEPT ![h] = call]
Goto(h, step) == pc' = [pc EXCEPT ![h].at = step]
Leave(h) == pc' = [pc EXCEPT ![h] = Idle]

-----------------------------------------------------------------------------
\* Questions.
CreateQuestion(q, k) ==
  /\ kind[q] = "new"
  /\ kind' = [kind EXCEPT ![q] = k]
  /\ UNCHANGED <<options, made, answers, pc>>

UpdateQuestion(q, k) ==
  /\ Live(q)
  /\ kind' = [kind EXCEPT ![q] = k]
  /\ UNCHANGED <<options, made, answers, pc>>

\* Refers to the row by a foreign key without ON DELETE.
Holds(a, q, ids) == a.question = q \/ a.option \in ids

\* The options go with their question, unless an answer holds one of the rows.
DeleteQuestion(q) ==
  /\ Live(q)
  /\ \A a \in answers : ~Holds(a, q, {o.id : o \in OptionsOf(q)})
  /\ kind' = [kind EXCEPT ![q] = "gone"]
  /\ options' = options \ OptionsOf(q)
  /\ UNCHANGED <<made, answers, pc>>

-----------------------------------------------------------------------------
\* Options.
NewOption(q, correct, bulk) ==
  [id |-> made + 1, question |-> q, correct |-> correct, bulk |-> bulk, been |-> {correct}]

Insert(q, bulk) ==
  /\ made < MaxOptions
  /\ made' = made + 1
  /\ \E correct \in BOOLEAN : options' = options \union {NewOption(q, correct, bulk)}

CreateReponse(h, q) ==
  /\ Live(q)
  /\ Begin(h, [at |-> "count", question |-> q])
  /\ UNCHANGED <<kind, options, made, answers>>

\* Mutant: one option more than the limit.
CountReponsesBeyond(h) ==
  /\ pc[h].at = "count"
  /\ IF Cardinality(OptionsOf(pc[h].question)) > OptionLimit
       THEN Leave(h) ELSE Goto(h, "insert")
  /\ UNCHANGED <<kind, options, made, answers>>

CountReponses(h) ==
  /\ pc[h].at = "count"
  /\ IF Cardinality(OptionsOf(pc[h].question)) >= OptionLimit
       THEN Leave(h) ELSE Goto(h, "insert")
  /\ UNCHANGED <<kind, options, made, answers>>

\* The foreign key refuses an option of a question that is gone.
InsertReponse(h) ==
  /\ pc[h].at = "insert"
  /\ IF Live(pc[h].question) THEN Insert(pc[h].question, FALSE)
                             ELSE UNCHANGED <<options, made>>
  /\ Leave(h)
  /\ UNCHANGED <<kind, answers>>

\* create_bulk looks for neither the question nor the limit.
CreateBulk(h, q, n) ==
  /\ kind[q] # "new"
  /\ Begin(h, [at |-> "bulk", question |-> q, left |-> n])
  /\ UNCHANGED <<kind, options, made, answers>>

BulkRow(h) ==
  /\ pc[h].at = "bulk"
  /\ pc[h].left > 0
  /\ Live(pc[h].question)
  /\ Insert(pc[h].question, TRUE)
  /\ pc' = [pc EXCEPT ![h].left = @ - 1]
  /\ UNCHANGED <<kind, answers>>

\* All rows are in, or the question is gone.
BulkEnd(h) ==
  /\ pc[h].at = "bulk"
  /\ pc[h].left = 0 \/ ~Live(pc[h].question)
  /\ Leave(h)
  /\ UNCHANGED <<kind, options, made, answers>>

\* The option is looked for first; WHERE id = $1 finds it or not all the same.
UpdateReponse(o, correct) ==
  /\ options' = (options \ {o}) \union
                  {[o EXCEPT !.correct = correct, !.been = @ \union {correct}]}
  /\ UNCHANGED <<kind, made, answers, pc>>

DeleteReponse(o) ==
  /\ \A a \in answers : a.option # o.id
  /\ options' = options \ {o}
  /\ UNCHANGED <<kind, made, answers, pc>>

-----------------------------------------------------------------------------
\* Answers: the question is read, the plugin validates, the answer is inserted.
SubmitAnswer(h, q, id) ==
  /\ Live(q)
  /\ Begin(h, [at |-> "validate", question |-> q, as |-> kind[q], option |-> id])
  /\ UNCHANGED <<kind, options, made, answers>>

Judge(h, correct) ==
  pc' = [pc EXCEPT ![h] = [at |-> "store", question |-> @.question, as |-> @.as,
                           option |-> @.option, correct |-> correct]]

\* Mutant: the option is looked for by its id alone.
ChooseAnywhere(h) ==
  \/ pc[h].option = None /\ Judge(h, FALSE)
  \/ \E o \in options : o.id = pc[h].option /\ Judge(h, o.correct)
  \/ pc[h].option \notin {o.id : o \in options} \union {None} /\ Leave(h)

\* No option: the time was up.  An option of another question is not found.
Choose(h) ==
  \/ pc[h].option = None /\ Judge(h, FALSE)
  \/ \E o \in OptionsOf(pc[h].question) : o.id = pc[h].option /\ Judge(h, o.correct)
  \/ pc[h].option \notin {o.id : o \in OptionsOf(pc[h].question)} \union {None} /\ Leave(h)

\* validate_qcm and validate_vrai_faux.
ValidateChoice(h) == pc[h].as \in Choices /\ Choose(h)

\* The text is compared with the correct options; without a text the request
\* fails.  An option that came with it is not looked at.
ValidateSaisieTexte(h) ==
  /\ pc[h].as \in Typed
  /\ \/ Judge(h, FALSE) \/ Leave(h)
     \/ (\E o \in OptionsOf(pc[h].question) : o.correct) /\ Judge(h, TRUE)

ValidateAnswer(h) ==
  /\ pc[h].at = "validate"
  /\ ValidateChoice(h) \/ ValidateSaisieTexte(h)
  /\ UNCHANGED <<kind, options, made, answers>>

\* The foreign keys refuse the answer when its question or option is gone.
StoreAnswer(h) ==
  /\ pc[h].at = "store"
  /\ Cardinality(answers) < MaxAnswers
  /\ answers' = IF Live(pc[h].question) /\ pc[h].option \in {o.id : o \in options} \union {None}
                  THEN answers \union {[question |-> pc[h].question, as |-> pc[h].as,
                                        option |-> pc[h].option, correct |-> pc[h].correct]}
                  ELSE answers
  /\ Leave(h)
  /\ UNCHANGED <<kind, options, made>>

-----------------------------------------------------------------------------
\* A statement fails, the plugin does not know the type, or the client hangs up.
\* The rows of a bulk stay.
Abort(h) ==
  /\ pc[h] # Idle
  /\ Leave(h)
  /\ UNCHANGED <<kind, options, made, answers>>

Next ==
  \/ \E q \in Questions : DeleteQuestion(q)
                          \/ \E k \in Kinds : CreateQuestion(q, k) \/ UpdateQuestion(q, k)
  \/ \E o \in options : DeleteReponse(o) \/ \E correct \in BOOLEAN : UpdateReponse(o, correct)
  \/ \E h \in Handlers :
       \/ \E q \in Questions : \/ CreateReponse(h, q)
                               \/ \E n \in BulkSizes : CreateBulk(h, q, n)
                               \/ \E id \in 1..made \union {None} : SubmitAnswer(h, q, id)
       \/ CountReponses(h) \/ InsertReponse(h) \/ BulkRow(h) \/ BulkEnd(h)
       \/ ValidateAnswer(h) \/ StoreAnswer(h) \/ Abort(h)

Spec == Init /\ [][Next]_vars

-----------------------------------------------------------------------------
Call ==
  {Idle}
    \union [at : {"count", "insert"}, question : Questions]
    \union [at : {"bulk"}, question : Questions, left : Nat]
    \union [at : {"validate"}, question : Questions, as : Kinds, option : OptionIds \union {None}]
    \union [at : {"store"}, question : Questions, as : Choices \union Typed,
            option : OptionIds \union {None}, correct : BOOLEAN]

TypeOK ==
  /\ kind \in [Questions -> Kinds \union {"new", "gone"}]
  /\ options \subseteq Option
  /\ made \in 0..MaxOptions
  /\ answers \subseteq Answer
  /\ pc \in [Handlers -> Call]

(***************************************************************************)
(* An answer that was stored stays explained: its question is there, and   *)
(* if an option was chosen, that option is there, is one of that           *)
(* question's, and was right or wrong at some time as the answer says -    *)
(* whatever authors did between the validation and the insert, or since.   *)
(***************************************************************************)
AnswersExplained ==
  \A a \in answers :
    /\ Live(a.question)
    /\ a.as \in Choices /\ a.option # None =>
         \E o \in OptionsOf(a.question) : o.id = a.option /\ a.correct \in o.been

(***************************************************************************)
(* "max 6 pour un QCM": the options created one by one pass the limit by   *)
(* at most the requests that counted before the last of them inserted.     *)
(* create_bulk is not held to any limit.                                   *)
(***************************************************************************)
Singles(q) == {o \in OptionsOf(q) : ~o.bulk}
Inserting(q) == {h \in Handlers : pc[h].at = "insert" /\ pc[h].question = q}

OptionCount == INSTANCE CheckedCount WITH
  Keys <- Questions, Limit <- OptionLimit, Slots <- Cardinality(Handlers),
  count <- [q \in Questions |-> Cardinality(Singles(q))],
  pending <- [q \in Questions |-> Cardinality(Inserting(q))]

OptionLimitKept == OptionCount!CountSpec
=============================================================================

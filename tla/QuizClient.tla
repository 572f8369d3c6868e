----------------------------- MODULE QuizClient -----------------------------
(***************************************************************************)
(* A player's quiz in the Flutter client: the page with its buttons and    *)
(* countdown, the bloc behind it, and the requests on their way to the     *)
(* server, which may fail or get lost on either way.  The bloc's handlers  *)
(* run beside one another; one that awaits a reply goes on with the state  *)
(* it read before.  Code up to the next await, a tap or a timer's callback *)
(* is one step, and the page's listener follows each emit.                 *)
(***************************************************************************)
EXTENDS Integers, Sequences

CONSTANTS
  N,          \* number of questions
  TimeLimit,  \* per question: tempsLimiteSec, or NoLimit for null
  NoLimit

Questions == 1..N

ASSUME QuizClientAssumption ==
  /\ N \in Nat
  /\ TimeLimit \in [Questions -> Nat \union {NoLimit}]
  /\ NoLimit \notin Nat

VARIABLES
  bloc,       \* the bloc's state: at, index (from 1) and submittedAnswers
  page,       \* fields of _QuizSessionPageState; open until it is left
  net,        \* requests on their way, being served or answered
  recorded,   \* on the server: the questions answered
  finalized,  \* on the server: the session is completed
  sent        \* per question: how many answers were sent, as history

server == <<recorded, finalized>>
vars == <<bloc, page, net, recorded, finalized, sent>>

Plain(at) == [at |-> at, index |-> 0, answers |-> <<>>]
InProgress(i, answers) == [at |-> "inProgress", index |-> i, answers |-> answers]
Submitted(i, answers) == [at |-> "submitted", index |-> i, answers |-> answers]

\* read: the bloc's state when the request was sent; awaited: by its handler.
Request(op, read) == [op |-> op, read |-> read, stage |-> "sent", awaited |-> TRUE]

Init ==
  /\ bloc = Plain("initial")
  /\ page = [open |-> TRUE, index |-> 0, submitting |-> FALSE, selected |-> FALSE,
             timer |-> "off", remaining |-> 0]
  /\ net = {}
  /\ recorded = {}
  /\ finalized = FALSE
  /\ sent = [q \in Questions |-> 0]

-----------------------------------------------------------------------------
\* The page's listener: a new question starts its timer, an answer stops it.
Listener(s) ==
  IF s.at = "inProgress" /\ s.index # page.index
    THEN [page EXCEPT !.index = s.index, !.submitting = FALSE, !.selected = FALSE,
            !.timer = IF TimeLimit[s.index] = NoLimit THEN "elapsed" ELSE "countdown",
            !.remaining = IF TimeLimit[s.index] = NoLimit THEN @ ELSE TimeLimit[s.index]]
    ELSE IF s.at \in {"submitted", "completed"} THEN [page EXCEPT !.timer = "off"]
    ELSE page

Emit(s) == bloc' = s /\ page' = Listener(s)
Send(op) == net' = net \union {Request(op, bloc)}

StartSession ==
  /\ bloc.at = "initial"
  /\ page.open
  /\ Emit(Plain("loading"))
  /\ Send("questions")
  /\ UNCHANGED <<server, sent>>

\* _onSubmitAnswer up to its await; without a question on show it does nothing.
OnSubmitAnswer ==
  IF bloc.at = "inProgress"
    THEN /\ Send("answer")
         /\ sent' = [sent EXCEPT ![bloc.index] = @ + 1]
    ELSE UNCHANGED <<net, sent>>

\* An option is tapped, or the text changed: an emptied one selects nothing.
Select ==
  /\ page.open
  /\ bloc.at = "inProgress"
  /\ \E chosen \in BOOLEAN : page' = [page EXCEPT !.selected = chosen]
  /\ UNCHANGED <<bloc, net, server, sent>>

\* Mutant: a second tap is not noticed.
SubmitAgain ==
  /\ page.open
  /\ bloc.at = "inProgress" /\ page.selected
  /\ page' = [page EXCEPT !.submitting = TRUE, !.timer = "off"]
  /\ OnSubmitAnswer
  /\ UNCHANGED <<bloc, server>>

\* _submitAnswer: the button of a question on which something is selected.
SubmitAnswer ==
  /\ page.open
  /\ bloc.at = "inProgress" /\ page.selected
  /\ ~page.submitting
  /\ page' = [page EXCEPT !.submitting = TRUE, !.timer = "off"]
  /\ OnSubmitAnswer
  /\ UNCHANGED <<bloc, server>>

\* The countdown's callback, each second.
CountDown ==
  /\ page.open /\ page.timer = "countdown"
  /\ ~page.submitting /\ page.remaining > 0
  /\ page' = [page EXCEPT !.remaining = @ - 1]
  /\ UNCHANGED <<bloc, net, server, sent>>

\* Mutant: the time is up, and only what is selected is submitted.
TimeoutIfSelected ==
  /\ page.open /\ page.timer = "countdown"
  /\ page.submitting \/ page.remaining = 0
  /\ page' = [page EXCEPT !.timer = "off", !.submitting = TRUE]
  /\ IF page.submitting \/ ~page.selected THEN UNCHANGED <<net, sent>> ELSE OnSubmitAnswer
  /\ UNCHANGED <<bloc, server>>

\* The time is up: what is submitted is an empty answer.
Timeout ==
  /\ page.open /\ page.timer = "countdown"
  /\ page.submitting \/ page.remaining = 0
  /\ page' = [page EXCEPT !.timer = "off", !.submitting = TRUE]
  /\ IF page.submitting THEN UNCHANGED <<net, sent>> ELSE OnSubmitAnswer
  /\ UNCHANGED <<bloc, server>>

\* Mutant: the index of the last question is off by one.
NextQuestionShort ==
  /\ page.open
  /\ bloc.at = "submitted"
  /\ IF bloc.index >= N - 1
       THEN Send("finalize") /\ Emit(Plain("loading"))
       ELSE UNCHANGED net /\ Emit(InProgress(bloc.index + 1, bloc.answers))
  /\ UNCHANGED <<server, sent>>

\* _onNextQuestion, and after the last question _onFinalizeSession.
NextQuestion ==
  /\ page.open
  /\ bloc.at = "submitted"
  /\ IF bloc.index >= N
       THEN Send("finalize") /\ Emit(Plain("loading"))
       ELSE UNCHANGED net /\ Emit(InProgress(bloc.index + 1, bloc.answers))
  /\ UNCHANGED <<server, sent>>

\* The page is left, or a finished quiz replaces it: its bloc is closed.
Leave ==
  /\ page.open
  /\ page' = [page EXCEPT !.open = FALSE, !.timer = "off"]
  /\ UNCHANGED <<bloc, net, server, sent>>

-----------------------------------------------------------------------------
\* A reply, or its failure, resumes the handler that awaited it.
Done(m) == net' = net \ {m}

\* What a closed bloc's handlers emit is dropped.
Resume(s) == IF page.open THEN Emit(s) ELSE UNCHANGED <<bloc, page>>

Fail(m) ==
  /\ Resume(Plain("error"))
  /\ net' = IF m.stage = "sent" THEN (net \ {m}) \union {[m EXCEPT !.awaited = FALSE]}
                                ELSE net \ {m}
  /\ UNCHANGED <<server, sent>>

\* A quiz without questions is an error.
GetQuestions(m) ==
  /\ m.op = "questions" /\ m.stage = "served"
  /\ IF N = 0 THEN Resume(Plain("error")) /\ Done(m)
     ELSE /\ net' = (net \ {m}) \union {Request("start", bloc)}
          /\ UNCHANGED <<bloc, page>>
  /\ UNCHANGED <<server, sent>>

ShowFirst(m) ==
  /\ m.op = "start" /\ m.stage = "served"
  /\ Resume(InProgress(1, <<>>))
  /\ Done(m)
  /\ UNCHANGED <<server, sent>>

\* Mutant: an error is taken for an answer.
ShowAnyAnswer(m) ==
  /\ m.op = "answer" /\ m.stage \in {"served", "refused"}
  /\ Resume(Submitted(m.read.index, Append(m.read.answers, m.read.index)))
  /\ Done(m)
  /\ UNCHANGED <<server, sent>>

\* The feedback is built from the state read before the await.
ShowAnswer(m) ==
  /\ m.op = "answer" /\ m.stage = "served"
  /\ Resume(Submitted(m.read.index, Append(m.read.answers, m.read.index)))
  /\ Done(m)
  /\ UNCHANGED <<server, sent>>

ShowResult(m) ==
  /\ m.op = "finalize" /\ m.stage = "served"
  /\ Resume([m.read EXCEPT !.at = "completed"])
  /\ Done(m)
  /\ UNCHANGED <<server, sent>>

Receive(m) ==
  /\ m.awaited
  /\ GetQuestions(m) \/ ShowFirst(m) \/ ShowAnswer(m) \/ ShowResult(m)

\* An error, no connection, or the client's own timeout: then a request may
\* still reach the server, and its reply nobody.
ReceiveFailure(m) == m.awaited /\ Fail(m)

-----------------------------------------------------------------------------
\* The server's side, as far as a client can tell.
Replied(m, stage) ==
  net' = IF m.awaited THEN (net \ {m}) \union {[m EXCEPT !.stage = stage]} ELSE net \ {m}

\* A question takes one answer, and none when the session is completed.
Serve(m) ==
  /\ m.stage = "sent"
  /\ \/ m.op \in {"questions", "start"} /\ Replied(m, "served") /\ UNCHANGED server
     \/ /\ m.op = "answer" /\ m.read.index \notin recorded /\ ~finalized
        /\ recorded' = recorded \union {m.read.index}
        /\ Replied(m, "served") /\ UNCHANGED finalized
     \/ /\ m.op = "finalize" /\ ~finalized
        /\ finalized' = TRUE
        /\ Replied(m, "served") /\ UNCHANGED recorded
     \/ Replied(m, "refused") /\ UNCHANGED server
  /\ UNCHANGED <<bloc, page, sent>>

Player == Select \/ SubmitAnswer \/ NextQuestion \/ Leave
Clock == CountDown \/ Timeout

Next ==
  \/ StartSession \/ Player \/ Clock
  \/ \E m \in net : Receive(m) \/ ReceiveFailure(m) \/ Serve(m)

(***************************************************************************)
(* The timer runs, and every request is answered, fails or times out.      *)
(* Nothing is assumed of the player.                                       *)
(***************************************************************************)
Fairness ==
  /\ WF_vars(Clock)
  /\ WF_vars(\E m \in net : Receive(m) \/ ReceiveFailure(m))

Spec == Init /\ [][Next]_vars
FairSpec == Spec /\ Fairness

-----------------------------------------------------------------------------
(***************************************************************************)
(* A tap and the countdown, in whatever order they meet, and a reply that  *)
(* keeps either waiting, send one answer for a question between them.      *)
(***************************************************************************)
AnswerSentOnce == \A q \in Questions : sent[q] <= 1

(***************************************************************************)
(* What the player is shown is what the server has: the answers listed are *)
(* those of the questions up to the one on show, in order, and all are on  *)
(* record; a late reply takes the quiz to no other question.               *)
(***************************************************************************)
ShownIsRecorded ==
  LET done == IF bloc.at = "inProgress" THEN bloc.index - 1 ELSE bloc.index
  IN  /\ bloc.answers = [i \in 1..done |-> i]
      /\ 1..done \subseteq recorded

(***************************************************************************)
(* The client completes whole sessions only: every question was answered,  *)
(* and no answer is on its way that the server would still credit.         *)
(***************************************************************************)
FinalizedWhole ==
  finalized => recorded = Questions /\ \A m \in net : m.op = "answer" => m.stage # "sent"

(***************************************************************************)
(* A quiz goes on without its player: while the page is open it does not   *)
(* load for ever, and a question with a time limit does not stay.          *)
(***************************************************************************)
Waiting ==
  /\ page.open
  /\ bloc.at = "loading" \/ (bloc.at = "inProgress" /\ TimeLimit[bloc.index] # NoLimit)

GoesOn == Waiting ~> ~Waiting
=============================================================================

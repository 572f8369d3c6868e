-------------------------- MODULE QuizClientProofs --------------------------
(***************************************************************************)
(* What holds of QuizClient for every number of questions, every choice of *)
(* time limits, and every loss of requests and replies.                    *)
(***************************************************************************)
EXTENDS QuizClient, TLAPS

\* The answers to the first n questions, in order.
Asked(n) == [i \in 1..n |-> i]

LEMMA AskedNone == Asked(0) = <<>>
BY DEF Asked

LEMMA AskedNext ==
  ASSUME NEW i \in Nat \ {0}
  PROVE  Append(Asked(i - 1), i) = Asked(i)
<1>1. Asked(i - 1) \in Seq(Nat) /\ Len(Asked(i - 1)) = i - 1
  BY DEF Asked
<1>2. Append(Asked(i - 1), i) = [k \in 1..i |-> IF k <= i - 1 THEN k ELSE i]
  BY <1>1 DEF Asked
<1>3. QED
  BY <1>2 DEF Asked

-----------------------------------------------------------------------------
(***************************************************************************)
(* The inductive invariant.                                                *)
(***************************************************************************)
Ats == {"initial", "loading", "inProgress", "submitted", "completed", "error"}
Ops == {"questions", "start", "answer", "finalize"}
Stages == {"sent", "served", "refused"}
Page == [open: BOOLEAN, index: 0..N, submitting: BOOLEAN, selected: BOOLEAN,
         timer: {"off", "countdown", "elapsed"}, remaining: Nat]

Typed ==
  /\ page \in Page
  /\ recorded \subseteq Questions
  /\ finalized \in BOOLEAN
  /\ sent \in [Questions -> Nat]

(***************************************************************************)
(* The bloc shows the question the page is at, with the answers up to it,  *)
(* and they are on record.                                                 *)
(***************************************************************************)
BlocInv ==
  \/ bloc.at \in {"initial", "loading", "error"} /\ bloc = Plain(bloc.at)
  \/ \E i \in Questions :
       /\ page.index = i
       /\ \/ bloc = InProgress(i, Asked(i - 1)) /\ 1..(i - 1) \subseteq recorded
          \/ bloc = Submitted(i, Asked(i)) /\ 1..i \subseteq recorded
  \/ bloc = [Submitted(N, Asked(N)) EXCEPT !.at = "completed"] /\ recorded = Questions

(***************************************************************************)
(* A request the bloc waits for belongs to the state the bloc is in; one   *)
(* it has given up is on its way to the server, and the quiz is over.      *)
(***************************************************************************)
Awaited(m) ==
  /\ m.op \in {"questions", "start"} => bloc = Plain("loading") /\ page.index = 0
  /\ m.op = "answer" => bloc = m.read /\ page.submitting
  /\ m.op = "finalize" => bloc = Plain("loading")

GivenUp(m) == m.stage = "sent" /\ (bloc.at = "error" \/ ~page.open)

RequestInv(m) ==
  /\ m \in [op: Ops, read: {m.read}, stage: Stages, awaited: BOOLEAN]
  /\ m.op = "start" => N > 0
  /\ m.op = "answer" =>
       \E i \in Questions : /\ m.read = InProgress(i, Asked(i - 1))
                            /\ 1..(i - 1) \subseteq recorded
                            /\ m.stage = "served" => i \in recorded
                            /\ sent[i] = 1
  /\ m.op = "finalize" => m.read = Submitted(N, Asked(N)) /\ N > 0
  /\ IF m.awaited THEN Awaited(m) ELSE GivenUp(m)

(***************************************************************************)
(* The bloc waits for one request at a time; and the session is completed  *)
(* when the questions are all on record and no answer is under way.        *)
(***************************************************************************)
NetInv ==
  /\ bloc.at = "initial" => net = {} /\ page.index = 0
  /\ \A m \in net : RequestInv(m)
  /\ \A m, n \in net : m.awaited /\ n.awaited => m = n
  /\ finalized \/ (\E m \in net : m.op = "finalize") =>
       recorded = Questions /\ \A m \in net : m.op # "answer"

(***************************************************************************)
(* No answer was sent to a question still to come, nor to the one on show  *)
(* before the page is marked as submitting; what is recorded was sent.     *)
(***************************************************************************)
SentInv ==
  /\ \A q \in Questions : sent[q] <= 1 /\ (q > page.index => sent[q] = 0)
  /\ bloc.at = "inProgress" /\ ~page.submitting => sent[bloc.index] = 0
  /\ \A q \in recorded : sent[q] = 1

ClientInv == Typed /\ BlocInv /\ NetInv /\ SentInv

LEMMA InitClientInv == Init => ClientInv
<1> SUFFICES ASSUME Init PROVE ClientInv
  OBVIOUS
<1>1. Typed
  <2>1. 0 \in 0..N
    BY QuizClientAssumption
  <2>2. page \in Page
    BY <2>1 DEF Init, Page
  <2>3. QED
    BY <2>2 DEF Init, Typed
<1>2. BlocInv
  BY DEF Init, BlocInv, Plain
<1>3. NetInv
  BY DEF Init, NetInv, Plain
<1>4. SentInv
  BY DEF Init, SentInv, Plain
<1>5. QED
  BY <1>1, <1>2, <1>3, <1>4 DEF ClientInv

-----------------------------------------------------------------------------
(***************************************************************************)
(* What the invariant says of the bloc and of the requests.                *)
(***************************************************************************)
LEMMA AtCases ==
  ASSUME ClientInv
  PROVE  /\ bloc.at \in Ats
         /\ bloc.at \in {"initial", "loading", "error"} => bloc = Plain(bloc.at)
         /\ bloc.at = "inProgress" =>
              /\ bloc.index \in Questions /\ page.index = bloc.index
              /\ bloc = InProgress(bloc.index, Asked(bloc.index - 1))
              /\ 1..(bloc.index - 1) \subseteq recorded
         /\ bloc.at = "submitted" =>
              /\ bloc.index \in Questions /\ page.index = bloc.index
              /\ bloc = Submitted(bloc.index, Asked(bloc.index))
              /\ 1..bloc.index \subseteq recorded
         /\ bloc.at = "completed" =>
              /\ bloc.index = N /\ bloc.answers = Asked(N)
              /\ recorded = Questions
BY DEF ClientInv, BlocInv, Plain, InProgress, Submitted, Ats

LEMMA WaitsAt ==
  ASSUME ClientInv, NEW m \in net, m.awaited
  PROVE  /\ m.op \in Ops /\ Awaited(m)
         /\ \/ m.op # "answer" /\ bloc.at = "loading"
            \/ m.op = "answer" /\ bloc.at = "inProgress" /\ page.submitting
<1>1. RequestInv(m)
  BY DEF ClientInv, NetInv
<1>2. m.op \in Ops /\ Awaited(m)
  BY <1>1 DEF RequestInv
<1>3. CASE m.op = "answer"
  <2>1. bloc.at = "inProgress"
    BY <1>1, <1>2, <1>3 DEF RequestInv, Awaited, InProgress
  <2>2. QED
    BY <1>2, <1>3, <2>1 DEF Awaited
<1>4. CASE m.op # "answer"
  <2>1. bloc = Plain("loading")
    BY <1>2, <1>4 DEF Awaited, Ops
  <2>2. QED
    BY <1>2, <1>4, <2>1 DEF Plain
<1>5. QED
  BY <1>3, <1>4

\* While the page is open, the request the bloc waits for is the only one.
LEMMA OnlyRequest ==
  ASSUME ClientInv, page.open, NEW m \in net, m.awaited
  PROVE  net = {m}
<1>1. bloc.at # "error"
  BY WaitsAt
<1>2. \A n \in net : n.awaited
  BY <1>1 DEF ClientInv, NetInv, RequestInv, GivenUp
<1>3. QED
  BY <1>2 DEF ClientInv, NetInv

\* And where it waits for none, there is none.
LEMMA NoRequest ==
  ASSUME ClientInv, page.open,
         bloc.at \in {"initial", "submitted", "completed"}
           \/ (bloc.at = "inProgress" /\ ~page.submitting)
  PROVE  net = {}
<1>1. SUFFICES ASSUME NEW m \in net PROVE FALSE
  OBVIOUS
<1>2. m.awaited
  BY DEF ClientInv, NetInv, RequestInv, GivenUp
<1>3. QED
  BY <1>2, WaitsAt

-----------------------------------------------------------------------------
(***************************************************************************)
(* The page's listener.                                                    *)
(***************************************************************************)
LEMMA ListenerQuiet ==
  ASSUME NEW s, s.at \in {"initial", "loading", "error"}
  PROVE  Listener(s) = page
BY DEF Listener

LEMMA ListenerStops ==
  ASSUME Typed, NEW s, s.at \in {"submitted", "completed"}
  PROVE  /\ Listener(s) \in Page
         /\ Listener(s).open = page.open /\ Listener(s).index = page.index
         /\ Listener(s).submitting = page.submitting
BY DEF Listener, Typed, Page

LEMMA ListenerStarts ==
  ASSUME Typed, NEW s, s.at = "inProgress", s.index \in Questions, s.index # page.index
  PROVE  /\ Listener(s) \in Page
         /\ Listener(s).open = page.open /\ Listener(s).index = s.index
         /\ Listener(s).submitting = FALSE
<1>1. TimeLimit[s.index] \in Nat \union {NoLimit} /\ s.index \in 0..N
  BY QuizClientAssumption DEF Questions
<1>2. CASE TimeLimit[s.index] = NoLimit
  BY <1>1, <1>2 DEF Listener, Typed, Page
<1>3. CASE TimeLimit[s.index] # NoLimit
  BY <1>1, <1>3 DEF Listener, Typed, Page
<1>4. QED
  BY <1>2, <1>3

-----------------------------------------------------------------------------
(***************************************************************************)
(* Steps of three kinds: of the page alone, of the requests alone, and     *)
(* those that leave no request behind.                                     *)
(***************************************************************************)
LEMMA PageStep ==
  ASSUME ClientInv, UNCHANGED <<bloc, net, recorded, finalized, sent>>,
         page' \in Page, page'.index = page.index,
         page.submitting => page'.submitting, page'.open => page.open
  PROVE  ClientInv'
<1> USE DEF ClientInv
<1>1. Typed'
  BY DEF Typed
<1>2. BlocInv'
  BY DEF BlocInv
<1>3. \A m \in net : RequestInv(m)'
  BY DEF NetInv, RequestInv, Awaited, GivenUp
<1>4. NetInv'
  BY <1>3 DEF NetInv
<1>5. SentInv'
  BY DEF SentInv
<1>6. QED
  BY <1>1, <1>2, <1>4, <1>5

LEMMA DropRequests ==
  ASSUME ClientInv, UNCHANGED <<bloc, page, recorded, finalized, sent>>,
         net' \subseteq net
  PROVE  ClientInv'
<1> USE DEF ClientInv
<1>1. Typed' /\ BlocInv' /\ SentInv'
  BY DEF Typed, BlocInv, SentInv
<1>2. \A m \in net' : RequestInv(m)'
  BY DEF NetInv, RequestInv, Awaited, GivenUp
<1>3. NetInv'
  BY <1>2 DEF NetInv
<1>4. QED
  BY <1>1, <1>3

LEMMA NothingUnderWay ==
  ASSUME ClientInv, net' = {}, Typed', BlocInv', SentInv',
         UNCHANGED <<recorded, finalized>>, bloc'.at # "initial"
  PROVE  ClientInv'
BY DEF ClientInv, NetInv

\* The one request of a quiz that had none under way.
LEMMA OneUnderWay ==
  ASSUME ClientInv, NEW m, net' = {m}, Typed', BlocInv', SentInv',
         UNCHANGED <<recorded, finalized>>, bloc'.at # "initial",
         RequestInv(m)', m.op = "answer" => ~finalized,
         m.op = "finalize" => recorded = Questions
  PROVE  ClientInv'
BY DEF ClientInv, NetInv

\* An answer goes to a question that has none yet.
LEMMA SendsAnswer ==
  ASSUME ClientInv, page.open, bloc.at = "inProgress", ~page.submitting, OnSubmitAnswer,
         page' = [page EXCEPT !.submitting = TRUE, !.timer = "off"], UNCHANGED <<bloc, server>>
  PROVE  ClientInv'
<1>0. PICK i, m : i = bloc.index /\ m = Request("answer", bloc)
  OBVIOUS
<1>1. /\ i \in Questions /\ page.index = i /\ bloc = InProgress(i, Asked(i - 1))
      /\ 1..(i - 1) \subseteq recorded
  BY <1>0, AtCases
<1>2. net = {}
  BY NoRequest
<1>3. sent[i] = 0 /\ sent \in [Questions -> Nat]
  BY <1>0 DEF ClientInv, SentInv, Typed
<1>4. net' = {m} /\ sent' = [sent EXCEPT ![i] = @ + 1]
  BY <1>0, <1>2 DEF OnSubmitAnswer, Send
<1>5. sent' \in [Questions -> Nat] /\ sent'[i] = 1 /\ \A q \in Questions \ {i} : sent'[q] = sent[q]
  BY <1>1, <1>3, <1>4
<1>6. /\ page' \in Page /\ page'.index = i /\ page'.submitting
  BY <1>1 DEF ClientInv, Typed, Page
<1>7. Typed'
  BY <1>5, <1>6 DEF ClientInv, Typed, server
<1>8. BlocInv'
  BY <1>1, <1>6 DEF ClientInv, BlocInv, server
<1>9. SentInv'
  <2>1. \A q \in Questions : sent'[q] <= 1 /\ (q > i => sent'[q] = 0)
    BY <1>1, <1>5 DEF ClientInv, SentInv, Questions
  <2>2. \A q \in recorded' : sent'[q] = 1
    BY <1>1, <1>5 DEF ClientInv, SentInv, Typed, server
  <2>3. QED
    BY <1>6, <2>1, <2>2 DEF SentInv
<1>10. ~finalized
  <2>1. i \notin recorded
    BY <1>3 DEF ClientInv, SentInv
  <2>2. QED
    BY <1>1, <2>1 DEF ClientInv, NetInv
<1>11. RequestInv(m)'
  <2>1. /\ m \in [op: Ops, read: {m.read}, stage: Stages, awaited: BOOLEAN]
        /\ m.op = "answer" /\ m.read = bloc /\ m.stage = "sent" /\ m.awaited
    BY <1>0 DEF Request, Ops, Stages
  <2>2. Awaited(m)'
    BY <1>6, <2>1 DEF Awaited
  <2>3. QED
    BY <1>1, <1>5, <2>1, <2>2 DEF RequestInv, server
<1>12. m.op = "answer" /\ bloc'.at # "initial"
  BY <1>0 DEF Request
<1>13. QED
  BY <1>4, <1>7, <1>8, <1>9, <1>10, <1>11, <1>12, OneUnderWay DEF server

\* A request is served or given up, and takes its new form or is gone.
LEMMA RequestMoves ==
  ASSUME ClientInv, UNCHANGED <<bloc, page, sent>>,
         NEW m \in net, NEW n, net' \subseteq (net \ {m}) \union {n},
         n.op \in {"answer", "finalize"} => n.op = m.op,
         n.awaited => m.awaited, RequestInv(n)',
         recorded \subseteq recorded', recorded' \subseteq Questions,
         \A q \in recorded' : sent[q] = 1,
         recorded' # recorded => m.op = "answer",
         finalized' \in BOOLEAN, finalized' # finalized => m.op = "finalize"
  PROVE  ClientInv'
<1>1. Typed' /\ SentInv'
  BY DEF ClientInv, Typed, SentInv
<1>2. BlocInv'
  <2>1. \A j \in Nat : 1..j \subseteq recorded => 1..j \subseteq recorded'
    OBVIOUS
  <2>2. CASE bloc.at \in {"initial", "loading", "error"} /\ bloc = Plain(bloc.at)
    BY <2>2 DEF BlocInv
  <2>3. CASE \E i \in Questions :
               /\ page.index = i
               /\ \/ bloc = InProgress(i, Asked(i - 1)) /\ 1..(i - 1) \subseteq recorded
                  \/ bloc = Submitted(i, Asked(i)) /\ 1..i \subseteq recorded
    <3>1. PICK i \in Questions :
               /\ page.index = i
               /\ \/ bloc = InProgress(i, Asked(i - 1)) /\ 1..(i - 1) \subseteq recorded
                  \/ bloc = Submitted(i, Asked(i)) /\ 1..i \subseteq recorded
      BY <2>3
    <3>2. 1..(i - 1) \subseteq recorded => 1..(i - 1) \subseteq recorded'
      OBVIOUS
    <3>3. 1..i \subseteq recorded => 1..i \subseteq recorded'
      OBVIOUS
    <3>4. QED
      BY <3>1, <3>2, <3>3 DEF BlocInv
  <2>4. CASE bloc = [Submitted(N, Asked(N)) EXCEPT !.at = "completed"] /\ recorded = Questions
    <3>1. recorded' = Questions
      BY <2>4
    <3>2. QED
      BY <2>4, <3>1 DEF BlocInv
  <2>5. QED
    BY <2>2, <2>3, <2>4 DEF ClientInv, BlocInv
<1>3. ASSUME NEW k \in net
      PROVE  RequestInv(k)'
  <2>1. RequestInv(k)
    BY DEF ClientInv, NetInv
  <2>2. k.op = "answer" =>
          \E i \in Questions : /\ k.read = InProgress(i, Asked(i - 1))
                               /\ 1..(i - 1) \subseteq recorded'
                               /\ k.stage = "served" => i \in recorded'
                               /\ sent[i] = 1
    BY <2>1 DEF RequestInv
  <2>3. Awaited(k) => Awaited(k)'
    BY DEF Awaited
  <2>4. GivenUp(k) => GivenUp(k)'
    BY DEF GivenUp
  <2>5. QED
    BY <2>1, <2>2, <2>3, <2>4 DEF RequestInv
<1>4. \A k \in net' : RequestInv(k)'
  BY <1>3
<1>5. \A k, l \in net' : k.awaited /\ l.awaited => k = l
  BY DEF ClientInv, NetInv
<1>6. finalized' \/ (\E k \in net' : k.op = "finalize") =>
        recorded' = Questions /\ \A k \in net' : k.op # "answer"
  <2> SUFFICES ASSUME finalized' \/ (\E k \in net' : k.op = "finalize")
               PROVE  recorded' = Questions /\ \A k \in net' : k.op # "answer"
    OBVIOUS
  <2>1. finalized \/ (\E k \in net : k.op = "finalize")
    BY DEF ClientInv, Typed
  <2>2. recorded = Questions /\ \A k \in net : k.op # "answer"
    BY <2>1 DEF ClientInv, NetInv
  <2>3. QED
    BY <2>2
<1>7. bloc'.at = "initial" => net' = {} /\ page'.index = 0
  BY DEF ClientInv, NetInv
<1>8. QED
  BY <1>1, <1>2, <1>4, <1>5, <1>6, <1>7 DEF ClientInv, NetInv

-----------------------------------------------------------------------------
(***************************************************************************)
(* The actions.                                                            *)
(***************************************************************************)
LEMMA StartSessionStep == ClientInv /\ StartSession => ClientInv'
<1> SUFFICES ASSUME ClientInv, StartSession PROVE ClientInv'
  OBVIOUS
<1>0. PICK m : m = Request("questions", bloc)
  OBVIOUS
<1>1. net = {} /\ page.index = 0 /\ bloc.at = "initial"
  BY DEF ClientInv, NetInv, StartSession
<1>2. net' = {m} /\ bloc' = Plain("loading") /\ UNCHANGED <<recorded, finalized, sent>>
  BY <1>0, <1>1 DEF StartSession, Emit, Send, server
<1>3. page' = page
  BY ListenerQuiet DEF StartSession, Emit, Plain
<1>4. Typed' /\ SentInv'
  BY <1>2, <1>3 DEF ClientInv, Typed, SentInv, Plain
<1>5. BlocInv'
  BY <1>2 DEF BlocInv, Plain
<1>6. /\ m \in [op: Ops, read: {m.read}, stage: Stages, awaited: BOOLEAN]
      /\ m.op = "questions" /\ m.awaited
  BY <1>0 DEF Request, Ops, Stages
<1>7. RequestInv(m)'
  BY <1>1, <1>2, <1>3, <1>6 DEF RequestInv, Awaited
<1>8. bloc'.at # "initial"
  BY <1>2 DEF Plain
<1>9. QED
  BY <1>2, <1>4, <1>5, <1>6, <1>7, <1>8, OneUnderWay

LEMMA NextQuestionStep == ClientInv /\ NextQuestion => ClientInv'
<1> SUFFICES ASSUME ClientInv, NextQuestion PROVE ClientInv'
  OBVIOUS
<1>0. PICK i, m : i = bloc.index /\ m = Request("finalize", bloc)
  OBVIOUS
<1>1. /\ i \in Questions /\ page.index = i /\ bloc = Submitted(i, Asked(i))
      /\ 1..i \subseteq recorded
  BY <1>0, AtCases DEF NextQuestion
<1>2. net = {}
  BY NoRequest DEF NextQuestion
<1>3. UNCHANGED <<recorded, finalized, sent>>
  BY DEF NextQuestion, server
<1>4. i \in Nat /\ i > 0 /\ N \in Nat /\ i <= N
  BY <1>1, QuizClientAssumption DEF Questions
<1>5. CASE i >= N
  <2>1. i = N /\ recorded = Questions
    <3>1. i = N
      BY <1>4, <1>5
    <3>2. QED
      BY <1>1, <3>1, Zenon DEF ClientInv, Typed, Questions
  <2>2. net' = {m} /\ bloc' = Plain("loading") /\ page' = Listener(Plain("loading"))
    BY <1>0, <1>2, <1>5 DEF NextQuestion, Send, Emit
  <2>3. page' = page
    BY <2>2, ListenerQuiet DEF Plain
  <2>4. Typed' /\ SentInv'
    BY <1>3, <2>2, <2>3 DEF ClientInv, Typed, SentInv, Plain
  <2>5. BlocInv'
    BY <2>2 DEF BlocInv, Plain
  <2>6. /\ m \in [op: Ops, read: {m.read}, stage: Stages, awaited: BOOLEAN]
        /\ m.op = "finalize" /\ m.awaited /\ m.read = Submitted(N, Asked(N))
    BY <1>0, <1>1, <2>1 DEF Request, Ops, Stages
  <2>7. RequestInv(m)'
    BY <1>4, <2>1, <2>2, <2>6 DEF RequestInv, Awaited
  <2>8. bloc'.at # "initial"
    BY <2>2 DEF Plain
  <2>9. QED
    BY <1>3, <2>1, <2>2, <2>4, <2>5, <2>6, <2>7, <2>8, OneUnderWay
<1>6. CASE ~(i >= N)
  <2>1. net' = {} /\ bloc' = InProgress(i + 1, Asked(i)) /\ page' = Listener(InProgress(i + 1, Asked(i)))
    BY <1>0, <1>1, <1>2, <1>6 DEF NextQuestion, Emit, Submitted
  <2>2. i + 1 \in Questions /\ i + 1 # i /\ (i + 1) - 1 = i
    BY <1>4, <1>6 DEF Questions
  <2>3. page' \in Page /\ page'.index = i + 1 /\ page'.open = page.open /\ page'.submitting = FALSE
    BY <1>1, <2>1, <2>2, ListenerStarts DEF ClientInv, InProgress
  <2>4. Typed'
    BY <1>3, <2>3 DEF ClientInv, Typed
  <2>5. BlocInv'
    BY <1>1, <1>3, <2>1, <2>2, <2>3 DEF BlocInv
  <2>6. SentInv'
    <3>1. \A q \in Questions : q > i + 1 => q > i
      BY <1>4 DEF Questions
    <3>2. sent[i + 1] = 0
      BY <1>1, <1>4, <2>2 DEF ClientInv, SentInv
    <3>3. bloc'.index = i + 1
      BY <2>1 DEF InProgress
    <3>4. QED
      BY <1>1, <1>3, <2>3, <3>1, <3>2, <3>3 DEF ClientInv, SentInv
  <2>7. bloc'.at # "initial"
    BY <2>1 DEF InProgress
  <2>8. QED
    BY <1>3, <2>1, <2>4, <2>5, <2>6, <2>7, NothingUnderWay
<1>7. QED
  BY <1>5, <1>6

LEMMA PlayerStep == ClientInv /\ (Player \/ Clock) => ClientInv'
<1> SUFFICES ASSUME ClientInv, Player \/ Clock PROVE ClientInv'
  OBVIOUS
<1>0. page \in Page
  BY DEF ClientInv, Typed
<1>1. CASE Select
  <2>1. PICK chosen \in BOOLEAN : page' = [page EXCEPT !.selected = chosen]
    BY <1>1 DEF Select
  <2>2. QED
    BY <1>0, <1>1, <2>1, PageStep DEF Select, server, Page
<1>2. CASE SubmitAnswer
  BY <1>2, SendsAnswer DEF SubmitAnswer
<1>3. CASE Leave
  BY <1>0, <1>3, PageStep DEF Leave, server, Page
<1>4. CASE CountDown
  BY <1>0, <1>4, PageStep DEF CountDown, server, Page
<1>5. CASE Timeout
  <2>1. CASE ~page.submitting /\ bloc.at = "inProgress"
    BY <1>5, <2>1, SendsAnswer DEF Timeout
  <2>2. CASE page.submitting \/ bloc.at # "inProgress"
    <3>1. UNCHANGED <<net, sent>>
      BY <1>5, <2>2 DEF Timeout, OnSubmitAnswer
    <3>2. QED
      BY <1>0, <1>5, <3>1, PageStep DEF Timeout, server, Page
  <2>3. QED
    BY <2>1, <2>2
<1>6. QED
  BY <1>1, <1>2, <1>3, <1>4, <1>5, NextQuestionStep DEF Player, Clock

LEMMA FailStep == ASSUME ClientInv, NEW m \in net, ReceiveFailure(m) PROVE ClientInv'
<1>0. m.awaited /\ RequestInv(m) /\ UNCHANGED <<recorded, finalized, sent>>
  BY DEF ReceiveFailure, Fail, ClientInv, NetInv, server
<1>1. PICK n : n = [m EXCEPT !.awaited = FALSE]
  OBVIOUS
<1>2. m \in [op: Ops, read: {m.read}, stage: Stages, awaited: BOOLEAN]
  BY <1>0 DEF RequestInv
<1>3. /\ n \in [op: Ops, read: {n.read}, stage: Stages, awaited: BOOLEAN]
      /\ n.op = m.op /\ n.read = m.read /\ n.stage = m.stage /\ ~n.awaited
  BY <1>1, <1>2
<1>4. net' = IF m.stage = "sent" THEN (net \ {m}) \union {n} ELSE net \ {m}
  BY <1>1 DEF ReceiveFailure, Fail
<1>5. CASE page.open
  <2>1. net = {m}
    BY <1>0, <1>5, OnlyRequest
  <2>2. bloc' = Plain("error") /\ page' = page
    BY <1>5, ListenerQuiet DEF ReceiveFailure, Fail, Resume, Emit, Plain
  <2>3. Typed' /\ SentInv'
    BY <1>0, <2>2 DEF ClientInv, Typed, SentInv, Plain
  <2>4. BlocInv' /\ bloc'.at = "error"
    BY <2>2 DEF BlocInv, Plain
  <2>5. CASE m.stage = "sent"
    <3>1. net' = {n}
      BY <1>4, <2>1, <2>5
    <3>2. RequestInv(n)'
      BY <1>0, <1>3, <2>4, <2>5 DEF RequestInv, GivenUp
    <3>3. n.op = "answer" => ~finalized
      BY <1>3 DEF ClientInv, NetInv
    <3>4. n.op = "finalize" => recorded = Questions
      BY <1>3 DEF ClientInv, NetInv
    <3>5. QED
      BY <1>0, <2>3, <2>4, <3>1, <3>2, <3>3, <3>4, OneUnderWay
  <2>6. CASE m.stage # "sent"
    <3>1. net' = {}
      BY <1>4, <2>1, <2>6
    <3>2. QED
      BY <1>0, <2>3, <2>4, <3>1, NothingUnderWay
  <2>7. QED
    BY <2>5, <2>6
<1>6. CASE ~page.open
  <2>1. UNCHANGED <<bloc, page>>
    BY <1>6 DEF ReceiveFailure, Fail, Resume
  <2>2. CASE m.stage = "sent"
    <3>1. RequestInv(n)'
      BY <1>0, <1>3, <1>6, <2>1, <2>2 DEF RequestInv, GivenUp
    <3>2. QED
      BY <1>0, <1>3, <1>4, <2>1, <2>2, <3>1, RequestMoves DEF ClientInv, Typed, SentInv
  <2>3. CASE m.stage # "sent"
    BY <1>0, <1>4, <2>1, <2>3, DropRequests
  <2>4. QED
    BY <2>2, <2>3
<1>7. QED
  BY <1>5, <1>6

LEMMA ServeStep == ASSUME ClientInv, NEW m \in net, Serve(m) PROVE ClientInv'
<1>0. RequestInv(m) /\ m.stage = "sent" /\ UNCHANGED <<bloc, page, sent>>
  BY DEF Serve, ClientInv, NetInv
<1>1. m \in [op: Ops, read: {m.read}, stage: Stages, awaited: BOOLEAN]
  BY <1>0 DEF RequestInv
<1>2. PICK stage \in {"served", "refused"} :
        /\ Replied(m, stage)
        /\ recorded' = recorded \/ (m.op = "answer" /\ recorded' = recorded \union {m.read.index})
        /\ m.op = "answer" /\ stage = "served" => m.read.index \in recorded'
        /\ finalized' = finalized \/ (m.op = "finalize" /\ finalized' = TRUE)
  BY DEF Serve, server
<1>3. PICK n : n = IF m.awaited THEN [m EXCEPT !.stage = stage] ELSE m
  OBVIOUS
<1>4. /\ n \in [op: Ops, read: {n.read}, stage: Stages, awaited: BOOLEAN]
      /\ n.op = m.op /\ n.read = m.read /\ n.awaited = m.awaited
      /\ n.stage = IF m.awaited THEN stage ELSE "sent"
  BY <1>0, <1>1, <1>3 DEF Stages
<1>5. net' \subseteq (net \ {m}) \union {n}
  BY <1>2, <1>3 DEF Replied
<1>6. m.op = "answer" =>
        \E i \in Questions : /\ m.read = InProgress(i, Asked(i - 1)) /\ m.read.index = i
                             /\ 1..(i - 1) \subseteq recorded
                             /\ sent[i] = 1
  BY <1>0 DEF RequestInv, InProgress
<1>7. recorded \subseteq recorded' /\ recorded' \subseteq Questions
  BY <1>2, <1>6 DEF ClientInv, Typed
<1>8. \A q \in recorded' : sent[q] = 1
  BY <1>2, <1>6 DEF ClientInv, SentInv
<1>9. finalized' \in BOOLEAN
  BY <1>2 DEF ClientInv, Typed
<1>10. IF n.awaited THEN Awaited(n)' ELSE GivenUp(n)'
  BY <1>0, <1>4 DEF RequestInv, Awaited, GivenUp
<1>11. n.op = "answer" =>
         \E i \in Questions : /\ n.read = InProgress(i, Asked(i - 1))
                              /\ 1..(i - 1) \subseteq recorded'
                              /\ n.stage = "served" => i \in recorded'
                              /\ sent[i] = 1
  <2> SUFFICES ASSUME n.op = "answer"
               PROVE  \E i \in Questions : /\ n.read = InProgress(i, Asked(i - 1))
                                           /\ 1..(i - 1) \subseteq recorded'
                                           /\ n.stage = "served" => i \in recorded'
                                           /\ sent[i] = 1
    OBVIOUS
  <2>1. PICK i \in Questions : /\ m.read = InProgress(i, Asked(i - 1)) /\ m.read.index = i
                               /\ 1..(i - 1) \subseteq recorded
                               /\ sent[i] = 1
    BY <1>4, <1>6
  <2>2. n.stage = "served" => i \in recorded'
    BY <1>2, <1>4, <2>1
  <2>3. 1..(i - 1) \subseteq recorded'
    BY <1>7, <2>1
  <2>4. QED
    BY <1>4, <2>1, <2>2, <2>3
<1>12. RequestInv(n)'
  BY <1>0, <1>4, <1>10, <1>11 DEF RequestInv
<1>13. QED
  BY <1>0, <1>2, <1>4, <1>5, <1>7, <1>8, <1>9, <1>12, RequestMoves

LEMMA ReceiveStep == ASSUME ClientInv, NEW m \in net, Receive(m) PROVE ClientInv'
<1>0. m.awaited /\ RequestInv(m) /\ UNCHANGED <<recorded, finalized, sent>>
  BY DEF Receive, GetQuestions, ShowFirst, ShowAnswer, ShowResult, ClientInv, NetInv, server
<1>1. Awaited(m)
  BY <1>0 DEF RequestInv
<1>2. ASSUME Done(m), page.open
      PROVE  net' = {}
  BY <1>0, <1>2, OnlyRequest DEF Done
<1>3. ASSUME Done(m), ~page.open, UNCHANGED <<bloc, page>>
      PROVE  ClientInv'
  BY <1>0, <1>3, DropRequests DEF Done
<1>4. CASE GetQuestions(m)
  <2>1. m.op = "questions" /\ bloc = Plain("loading") /\ page.index = 0 /\ bloc.at = "loading"
    BY <1>1, <1>4 DEF GetQuestions, Awaited, Plain
  <2>2. CASE N = 0 /\ page.open
    <3>1. bloc' = Plain("error") /\ page' = page
      BY <1>4, <2>2, ListenerQuiet DEF GetQuestions, Resume, Emit, Plain
    <3>2. Typed' /\ SentInv'
      BY <1>0, <3>1 DEF ClientInv, Typed, SentInv, Plain
    <3>3. BlocInv' /\ bloc'.at = "error"
      BY <3>1 DEF BlocInv, Plain
    <3>4. QED
      BY <1>0, <1>2, <1>4, <2>2, <3>2, <3>3, NothingUnderWay DEF GetQuestions
  <2>3. CASE N = 0 /\ ~page.open
    BY <1>3, <1>4, <2>3 DEF GetQuestions, Resume
  <2>4. CASE N # 0
    <3>1. PICK n : n = Request("start", bloc)
      OBVIOUS
    <3>2. net' = (net \ {m}) \union {n} /\ UNCHANGED <<bloc, page>>
      BY <1>4, <2>4, <3>1 DEF GetQuestions
    <3>3. /\ n \in [op: Ops, read: {n.read}, stage: Stages, awaited: BOOLEAN]
          /\ n.op = "start" /\ n.awaited
      BY <3>1 DEF Request, Ops, Stages
    <3>4. N > 0
      BY <2>4, QuizClientAssumption
    <3>5. RequestInv(n)'
      BY <2>1, <3>2, <3>3, <3>4 DEF RequestInv, Awaited
    <3>6. QED
      BY <1>0, <3>2, <3>3, <3>5, RequestMoves DEF ClientInv, Typed, SentInv
  <2>5. QED
    BY <2>2, <2>3, <2>4
<1>5. CASE ShowFirst(m)
  <2>1. CASE page.open
    <3>1. net' = {} /\ bloc' = InProgress(1, <<>>) /\ page' = Listener(InProgress(1, <<>>))
      BY <1>2, <1>5, <2>1 DEF ShowFirst, Resume, Emit
    <3>2. page.index = 0 /\ 1 \in Questions
      BY <1>0, <1>1, <1>5, QuizClientAssumption DEF ShowFirst, Awaited, RequestInv, Questions
    <3>3. page' \in Page /\ page'.index = 1 /\ page'.submitting = FALSE
      <4>1. PICK s : s = InProgress(1, <<>>)
        OBVIOUS
      <4>2. s.at = "inProgress" /\ s.index = 1 /\ page' = Listener(s)
        BY <3>1, <4>1 DEF InProgress
      <4>3. Typed /\ s.index \in Questions /\ s.index # page.index
        BY <3>2, <4>2 DEF ClientInv
      <4>4. Listener(s) \in Page /\ Listener(s).index = 1 /\ Listener(s).submitting = FALSE
        BY <4>2, <4>3, ListenerStarts
      <4>5. QED
        BY <4>2, <4>4
    <3>4. Typed'
      BY <1>0, <3>3 DEF ClientInv, Typed
    <3>5. BlocInv' /\ bloc'.at # "initial"
      <4>1. bloc' = InProgress(1, Asked(1 - 1)) /\ 1..(1 - 1) \subseteq recorded'
        BY <3>1, AskedNone
      <4>2. QED
        BY <3>2, <3>3, <4>1 DEF BlocInv, InProgress
    <3>6. SentInv'
      <4>1. \A q \in Questions : sent[q] = 0
        BY <3>2 DEF ClientInv, SentInv, Questions
      <4>2. bloc'.index = 1
        BY <3>1 DEF InProgress
      <4>3. QED
        BY <1>0, <3>2, <4>1, <4>2 DEF ClientInv, SentInv
    <3>7. QED
      BY <1>0, <3>1, <3>4, <3>5, <3>6, NothingUnderWay
  <2>2. CASE ~page.open
    BY <1>3, <1>5, <2>2 DEF ShowFirst, Resume
  <2>3. QED
    BY <2>1, <2>2
<1>6. CASE ShowAnswer(m)
  <2>1. CASE page.open
    <3>1. PICK i \in Questions : /\ m.read = InProgress(i, Asked(i - 1))
                                 /\ 1..(i - 1) \subseteq recorded
                                 /\ i \in recorded
      BY <1>0, <1>6 DEF ShowAnswer, RequestInv
    <3>2. i \in Nat \ {0} /\ bloc = m.read /\ bloc.at = "inProgress" /\ bloc.index = i
      BY <1>1, <1>6, <3>1, QuizClientAssumption DEF ShowAnswer, Awaited, InProgress, Questions
    <3>3. m.read.index = i /\ Append(m.read.answers, m.read.index) = Asked(i)
      <4>1. m.read.index = i /\ m.read.answers = Asked(i - 1)
        BY <3>1 DEF InProgress
      <4>2. QED
        BY <3>2, <4>1, AskedNext
    <3>4. net' = {} /\ bloc' = Submitted(i, Asked(i)) /\ page' = Listener(Submitted(i, Asked(i)))
      BY <1>2, <1>6, <2>1, <3>3 DEF ShowAnswer, Resume, Emit
    <3>5. page' \in Page /\ page'.index = page.index /\ page.index = i
      BY <3>2, <3>4, ListenerStops, AtCases DEF ClientInv, Submitted
    <3>6. 1..i \subseteq recorded
      BY <3>1, <3>2
    <3>7. Typed'
      BY <1>0, <3>5 DEF ClientInv, Typed
    <3>8. BlocInv' /\ bloc'.at = "submitted"
      BY <1>0, <3>4, <3>5, <3>6 DEF BlocInv, Submitted
    <3>9. SentInv'
      BY <1>0, <3>5, <3>8 DEF ClientInv, SentInv
    <3>10. QED
      BY <1>0, <3>4, <3>7, <3>8, <3>9, NothingUnderWay
  <2>2. CASE ~page.open
    BY <1>3, <1>6, <2>2 DEF ShowAnswer, Resume
  <2>3. QED
    BY <2>1, <2>2
<1>7. CASE ShowResult(m)
  <2>1. CASE page.open
    <3>1. m.read = Submitted(N, Asked(N)) /\ recorded = Questions
      BY <1>0, <1>7 DEF ShowResult, RequestInv, ClientInv, NetInv
    <3>2. PICK s : s = [Submitted(N, Asked(N)) EXCEPT !.at = "completed"]
      OBVIOUS
    <3>3. net' = {} /\ bloc' = s /\ page' = Listener(s)
      BY <1>2, <1>7, <2>1, <3>1, <3>2 DEF ShowResult, Resume, Emit
    <3>4. s.at = "completed"
      BY <3>2 DEF Submitted
    <3>5. page' \in Page /\ page'.index = page.index
      BY <3>3, <3>4, ListenerStops DEF ClientInv
    <3>6. Typed' /\ SentInv'
      BY <1>0, <3>3, <3>4, <3>5 DEF ClientInv, Typed, SentInv
    <3>7. BlocInv'
      BY <1>0, <3>1, <3>2, <3>3 DEF BlocInv
    <3>8. QED
      BY <1>0, <3>3, <3>4, <3>6, <3>7, NothingUnderWay
  <2>2. CASE ~page.open
    BY <1>3, <1>7, <2>2 DEF ShowResult, Resume
  <2>3. QED
    BY <2>1, <2>2
<1>8. QED
  BY <1>4, <1>5, <1>6, <1>7 DEF Receive

LEMMA NextClientInv == ClientInv /\ [Next]_vars => ClientInv'
<1> SUFFICES ASSUME ClientInv, [Next]_vars PROVE ClientInv'
  OBVIOUS
<1>1. CASE UNCHANGED vars
  <2>1. net' \subseteq net /\ UNCHANGED <<bloc, page, recorded, finalized, sent>>
    BY <1>1 DEF vars
  <2>2. QED
    BY <2>1, DropRequests
<1>2. QED
  BY <1>1, StartSessionStep, PlayerStep, ReceiveStep, FailStep, ServeStep DEF Next

\* The inductive invariant holds of every client, whatever gets lost.
THEOREM ClientInvariant == Spec => []ClientInv
<1>1. Init => ClientInv
  BY InitClientInv
<1>2. ClientInv /\ [Next]_vars => ClientInv'
  BY NextClientInv
<1>3. QED
  BY <1>1, <1>2, PTL DEF Spec

-----------------------------------------------------------------------------
(***************************************************************************)
(* A question's answer leaves the client once: _submitAnswer and the       *)
(* countdown's callback in quiz_session_page.dart both look at             *)
(* _isSubmitting before they add SubmitAnswerEvent, and only a new         *)
(* question resets it.                                                     *)
(***************************************************************************)
THEOREM OneAnswerEach == Spec => []AnswerSentOnce
<1>1. ClientInv => AnswerSentOnce
  BY DEF ClientInv, SentInv, AnswerSentOnce
<1>2. QED
  BY <1>1, ClientInvariant, PTL

(***************************************************************************)
(* What quiz_session_bloc.dart shows, built from the state its handlers    *)
(* read before they awaited, is on the server's record: the answers of the *)
(* questions up to the one on show, in order.                              *)
(***************************************************************************)
THEOREM RecordShown == Spec => []ShownIsRecorded
<1>1. ASSUME ClientInv PROVE ShownIsRecorded
  <2>1. CASE bloc.at \in {"initial", "loading", "error"}
    <3>1. bloc.at # "inProgress" /\ bloc.index = 0 /\ bloc.answers = Asked(0)
      BY <1>1, <2>1, AtCases, AskedNone DEF Plain
    <3>2. QED
      BY <3>1 DEF ShownIsRecorded, Asked
  <2>2. CASE bloc.at = "inProgress"
    <3>1. bloc.answers = Asked(bloc.index - 1) /\ 1..(bloc.index - 1) \subseteq recorded
      BY <1>1, <2>2, AtCases DEF InProgress
    <3>2. QED
      BY <2>2, <3>1 DEF ShownIsRecorded, Asked
  <2>3. CASE bloc.at = "submitted"
    <3>1. bloc.answers = Asked(bloc.index) /\ 1..bloc.index \subseteq recorded
      BY <1>1, <2>3, AtCases DEF Submitted
    <3>2. QED
      BY <2>3, <3>1 DEF ShownIsRecorded, Asked
  <2>4. CASE bloc.at = "completed"
    <3>1. bloc.index = N /\ bloc.answers = Asked(N) /\ recorded = 1..N
      BY <1>1, <2>4, AtCases DEF Questions
    <3>2. QED
      BY <2>4, <3>1 DEF ShownIsRecorded, Asked
  <2>5. QED
    BY <1>1, <2>1, <2>2, <2>3, <2>4, AtCases DEF Ats
<1>2. QED
  BY <1>1, ClientInvariant, PTL

(***************************************************************************)
(* _onFinalizeSession is reached from the last question's answer only, so  *)
(* a session the client completed misses none, and no answer given up      *)
(* earlier can still arrive.                                               *)
(***************************************************************************)
THEOREM CompletedWhole == Spec => []FinalizedWhole
<1>1. ClientInv => FinalizedWhole
  BY DEF ClientInv, NetInv, FinalizedWhole
<1>2. QED
  BY <1>1, ClientInvariant, PTL
=============================================================================

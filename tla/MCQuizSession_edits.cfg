CONSTANTS
  quizA = quizA  quizB = quizB
  s1 = s1  s2 = s2
  q1 = q1  q2 = q2  q3 = q3  q4 = q4
  h1 = h1  h2 = h2
  NoCall = NoCall
  NoLimit = NoLimit
  Sessions = {s1}
  Quizzes = {quizA, quizB}
  Questions = {q1, q2}
  Handlers = {h1, h2}
  QuizOf <- AllInQuizA
  QuizPlayed <- OneSession
  ActiveQuizzes = {quizA}
  PointValues = {2, 10}
  Limits = {10}
  Times = {2}
  Authoring = TRUE
SYMMETRY HandlerQuestionSymmetry
SPECIFICATION Spec
INVARIANTS TypeOK ScoreIsSumOfCredits AnswerSettledOnce LedgerInv
CHECK_DEADLOCK FALSE

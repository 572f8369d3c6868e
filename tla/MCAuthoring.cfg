CONSTANTS
  Questions = {q1, q2}
  Handlers = {h1, h2}
  Kinds = {"qcm", "saisie_texte"}
  OptionLimit = 1
  BulkSizes = {2}
  MaxOptions = 3
  MaxAnswers = 1
  None = none
  Other = q2
SPECIFICATION Spec
SYMMETRY HandlerSymmetry
CONSTRAINT Bounded
INVARIANT AnswersExplained
PROPERTY OptionLimitKept

CONSTANTS
  Requests = {r1, r2, r3}
  Threshold = 2
  Timeout = 2
  Users = {u1}
  NoToken = noToken
  Paths <- SomePaths
  NoService = noService
  Limit = 2
  Window = 2
SPECIFICATION FairSpec
INVARIANTS FailuresBounded WindowKept
PROPERTIES Recovers LimitLifts

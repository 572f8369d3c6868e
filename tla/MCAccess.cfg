CONSTANTS
  Users = {root, guest}
  admin = admin
  editor = editor
  Roles = {admin, editor}
  SystemRoles = {admin}
  Permissions = {manage, status, list}
  Manage = manage
  UpdateStatus = status
  ListAll = list
  Handlers = {h1, h2}
  Seed <- MCSeed
  Founder = root
  Idle = idle
  MaxTime = 1
CHECK_DEADLOCK FALSE
SPECIFICATION Spec
SYMMETRY HandlerSymmetry
CONSTRAINT Bounded
INVARIANTS ListingsAgree LateActsBounded
PROPERTY LockoutIsFinal

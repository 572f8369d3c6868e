CONSTANTS
  alice = alice  guest = guest
  h1 = h1  h2 = h2
  NoCall = NoCall
  Users = {alice}
  Guests = {}
  Handlers = {h1, h2}
  AccessLife = 0
  RefreshLife = 1
  Retention = 0
  MaxUuids = 6
  MaxPassword = 1
  MaxLogouts = 1
  EndOfTime = 1
SYMMETRY HandlerSymmetry
SPECIFICATION Spec
INVARIANTS TypeOK OneTokenPerFamily OnlyLateSessionsAreOutdated
PROPERTIES OverStaysOver

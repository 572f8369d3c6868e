CONSTANTS
  alice = alice  guest = guest
  h1 = h1  h2 = h2
  NoCall = NoCall
  Users = {alice, guest}
  Guests = {guest}
  Handlers = {h1, h2}
  AccessLife = 0
  RefreshLife = 1
  Retention = 0
  MaxUuids = 4
  MaxPassword = 1
  MaxLogouts = 1
  EndOfTime = 2
SPECIFICATION Spec
INVARIANTS LogoutRevokes

CONSTANTS
  Ips = {home, office}
  Emails = {alice, nobody}
  Accounts = {alice}
  Devices = {phone}
  Handlers = {h1, h2}
  IpLimit = 1
  LockLimit = 3
  CaptchaAfter = 1
  GuestLimit = 2
  Window = 2
  LockWindow = 3
SPECIFICATION Spec
PROPERTIES IpLimitKept LockKept GuestLimitKept BlocksLift

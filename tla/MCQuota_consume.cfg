CONSTANTS
  daily = daily  endless = endless
  k1 = k1  k2 = k2  k3 = k3
  h1 = h1  h2 = h2
  Nobody = Nobody
  NoTx = NoTx
  NoPeriod = NoPeriod
  Quotas = {daily, endless}
  Keys = {k1, k2}
  Handlers = {h1, h2}
  Maxima = {1, 2}
  PeriodOf <- OneDayPeriod
  Renewable = {daily}
  Retention = 2
  MaxTxTime = 1
  EndOfTime = 4
SYMMETRY HandlerKeySymmetry
SPECIFICATION Spec
INVARIANTS TypeOK UsageWithinLimit LockedRowIsCurrent KeyChargedOnce NoDeadlock
PROPERTIES ImplementsCounter PeriodsMoveForward

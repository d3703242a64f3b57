\* Three Configures, two of them at a time, one request, two addresses, under fairness.
CONSTANTS
  Calls = {c1, c2}
  Requests = {r1}
  Databases = {d1}
  Addrs = {a1, a2}
  None = None
  MaxCalls = 3
  MaxRotations = 1
SPECIFICATION FairSpec
INVARIANTS TypeOK PoolsBalance
PROPERTIES HandlerPoolOpen ConfigureReturns SuccessMeansBound 

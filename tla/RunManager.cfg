SPECIFICATION LiveSpec
CONSTANTS
  t1 = t1  t2 = t2  t3 = t3
  Tokens = {t1, t2, t3}
  MaxPools = 4
  Configured <- MCConfigured
  Req = {q1, q2}
  Nobody = nobody
  NoPool = nopool
  NoToken = notoken
INVARIANTS TypeOK RefusedTriedAll OneRequestPerAccount
PROPERTY AcquireReturns

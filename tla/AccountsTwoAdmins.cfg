\* Two administrators at the same time.
CONSTANTS
  t1 = t1
  t2 = t2
  t3 = t3
  k1 = k1
  k2 = k2
  Admins = {adm1, adm2}
  Tokens <- ThreeTokens
  Keys <- OneKey
  FirstTokens <- OneToken
  FirstKeys <- OneKey
  Faults = 0
SPECIFICATION Spec
INVARIANTS
  ImportRecorded
CHECK_DEADLOCK FALSE

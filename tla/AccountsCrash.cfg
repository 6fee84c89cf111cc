\* One administrator at a time; crashes, restarts and disk errors.
CONSTANTS
  t1 = t1
  t2 = t2
  t3 = t3
  k1 = k1
  k2 = k2
  Admins = {adm1}
  Tokens <- ThreeTokens
  Keys <- TwoKeys
  FirstTokens <- OneToken
  FirstKeys <- OneKey
  Faults = 3
SPECIFICATION Spec
INVARIANTS
  TypeOK
  FileAndMemoryAgree
  AnswersKept
  ServedIsRecorded
\* A program whose config.json is empty, or holds no token, cannot be started.
CHECK_DEADLOCK FALSE

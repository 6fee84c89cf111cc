SPECIFICATION LiveSpec
CONSTANTS
  q1 = q1  q2 = q2
  r1 = r1  r2 = r2
  mA = mA  mB = mB  aA = aA  aB = aB
  Req = {q1, q2}
  Models = {mA, mB}
  Agents = {aA}
  Serves <- Shared
  DefaultModel = mA
  WarmAgents = {}
  RunIds = {r1}
  MaxSess = 2
  Maint = Maint  Warm = Warm
  Background = {Warm}
  Nobody = Nobody  NoRun = NoRun  NoAgent = NoAgent  NoSession = NoSession
INVARIANTS TypeOK OneRequestPerToken SwitchExclusive
PROPERTIES OnlyPrewarmReplacesUsedSession RequestReturns

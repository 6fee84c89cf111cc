SPECIFICATION LiveSpec
CONSTANTS
  q1 = q1  q2 = q2
  r1 = r1  r2 = r2
  mA = mA  mB = mB  aA = aA  aB = aB
  Req = {q1}
  Models = {mA}
  Agents = {aA}
  Serves <- Single
  DefaultModel = mA
  WarmAgents = {aA}
  RunIds = {r1, r2}
  MaxSess = 1
  Maint = Maint  Warm = Warm
  Background = {Maint}
  Nobody = Nobody  NoRun = NoRun  NoAgent = NoAgent  NoSession = NoSession
PROPERTY DrainingEnds

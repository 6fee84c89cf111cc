SPECIFICATION LiveSpecClose
CONSTANTS
  q1 = q1
  r1 = r1  r2 = r2
  mA = mA  aA = aA
  Req = {q1}
  Models = {mA}
  Agents = {aA}
  Serves <- Single
  DefaultModel = mA
  WarmAgents = {}
  RunIds = {r1, r2}
  MaxSess = 0
  Maint = Maint  Warm = Warm
  Background = {Maint}
  Nobody = Nobody  NoRun = NoRun  NoAgent = NoAgent  NoSession = NoSession
CHECK_DEADLOCK FALSE
INVARIANTS NoFinishWhileLeased NoRunForgotten NothingLeftOpen
PROPERTIES ShutdownEnds AnsweredOrCutOff

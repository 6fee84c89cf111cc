SPECIFICATION Spec
CONSTANTS
  a = a
  b = b
  Addr = {a, b}
  Entry <- MCEntry
  Undialable = {a}
  FailLimit = 1
  Handlers = {h1}
  Requests = {q1}
  Tick = tick
  Nobody = nobody
  NoEntry = noentry
  NoAddr = noaddr
  Garbled = garbled
INVARIANT UndialableIsMarked

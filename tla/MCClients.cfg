SPECIFICATION ClientSpec
CONSTANTS
  Caller = {c1}
  MaxSequence = 2
  MaxClock = 3
  MaxIds = 6
  Inst = {i1}
  Client = {q1, q2}
  Reloader = reloader
  NoInst = NoInst
  NoData = NoData
  MaxVersion = 2
  MaxRpcErrors = 1
  Proc = {p1, p2}
  NoProc = NoProc
  MaxRetries = 2
  MaxRevision = 5
  MaxOutages = 2
  MaxEvents = 2
  Oms = {o1, o2}
  Addr = {x1, x2}
  Acct = {a1}
  NoEntry = NoEntry
  MaxChanges = 3
  MaxBreaks = 1
INVARIANTS
  IdsIncrease
  
  
PROPERTIES
  TakeoverSettles
CHECK_DEADLOCK FALSE

SPECIFICATION TxnSpec
CONSTANTS
  b = b
  s = s
  ob = ob
  os = os
  KRW = KRW
  A = A
  NoId = NoId
  Coid = {b, s}
  OrderId = {ob, os}
  Symbol = {A}
  Currency = {KRW}
  BaseCurrency = KRW
  Capital = 2
  Attr <- MCAttr
  Qty = {2}
  Amount = {2}
  Execution <- MCExecution
  FlowAmount <- MCFlowAmount
  FlowTotal <- MCFlowTotal
  Day = {2}
  Conn = {p1, p2}
  NoConn = NoConn
  CommitFails <- WithConn
INVARIANT TxnTypeOK
PROPERTIES
  ImplementsLedger
  RaisedLeavesNothing
SYMMETRY ConnSymmetry

SPECIFICATION LedgerSpec
CONSTANTS
  b = b
  s = s
  ob = ob
  os = os
  KRW = KRW
  USD = USD
  A = A
  NoId = NoId
  Coid <- MCCoid
  OrderId <- MCOrderId
  Symbol = {A}
  Currency <- MCCurrency
  BaseCurrency = KRW
  Capital = 2
  Attr <- MCAttr
  Qty = {0, 2}
  Amount = {1, 2}
  Execution <- MCExecution
  FlowAmount <- MCFlowAmount
  FlowTotal <- MCFlowTotal
  Day = {2}
INVARIANTS
  LedgerTypeOK
  CashConserved
PROPERTY GrantsWithinCap

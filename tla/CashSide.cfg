SPECIFICATION BrokerSpec
CONSTANTS
  h = h
  s1 = s1
  s2 = s2
  b1 = b1
  b2 = b2
  oh = oh
  os1 = os1
  os2 = os2
  ob1 = ob1
  ob2 = ob2
  A = A
  B = B
  KRW = KRW
  w1 = w1
  w2 = w2
  t1 = t1
  t2 = t2
  NoId = NoId
  NoTask = NoTask
  Coid = {h, s1, b1}
  OrderId = {oh, os1, ob1}
  Symbol = {A}
  Currency = {KRW}
  BaseCurrency = KRW
  Capital = 4
  Request <- CashRequest
  Attr <- CashAttr
  Planned = {}
  Seed <- SettleSeed
  Worker = {w1}
  Task = {t1}
  Home <- OneHome
  Denylist = {}
  TradePrice = {1, 2}
  TradeFee = {1}
  MaxFee <- UnitFee
  SettleDelay = 1
  MaxPolls = 2
  Env = {}
  Qty = {}
  Amount = {}
  Execution = {}
  FlowAmount <- CashFlowAmount
  FlowTotal <- CashFlowTotal
  Day = {2}
INVARIANTS
  BrokerTypeOK
  HardCap
  ShortOnlyByFees
  LiveOrdersGuarded
CHECK_DEADLOCK FALSE

SPECIFICATION BrokerSpec
CONSTANTS
  h = h
  s1 = s1
  s2 = s2
  b1 = b1
  b2 = b2
  oh = oh
  os1 = os1
  os2 = os2
  ob1 = ob1
  ob2 = ob2
  A = A
  B = B
  KRW = KRW
  w1 = w1
  w2 = w2
  t1 = t1
  t2 = t2
  NoId = NoId
  NoTask = NoTask
  Coid = {h, s1, b1}
  OrderId = {oh, os1, ob1}
  Symbol = {A}
  Currency = {KRW}
  BaseCurrency = KRW
  Capital = 2
  Request <- SettleRequest
  Attr <- SettleAttr
  Planned = {}
  Seed <- SettleSeed
  Worker = {w1}
  Task = {t1}
  Home <- OneHome
  Denylist = {}
  TradePrice = {1}
  TradeFee = {0, 1}
  MaxFee <- OneFee
  SettleDelay = 1
  MaxPolls = 2
  Env = {"late date"}
  Qty = {}
  Amount = {}
  Execution = {}
  FlowAmount <- MCFlowAmount
  FlowTotal <- MCFlowTotal
  Day = {2}
PROPERTY
  PolledDateCounts
CHECK_DEADLOCK FALSE

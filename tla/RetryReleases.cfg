SPECIFICATION BrokerSpec
CONSTANTS
  h = h
  s1 = s1
  s2 = s2
  b1 = b1
  b2 = b2
  oh = oh
  os1 = os1
  os2 = os2
  ob1 = ob1
  ob2 = ob2
  A = A
  B = B
  KRW = KRW
  w1 = w1
  w2 = w2
  t1 = t1
  t2 = t2
  NoId = NoId
  NoTask = NoTask
  Coid = {h, s1}
  OrderId = {oh, os1}
  Symbol = {A}
  Currency = {KRW}
  BaseCurrency = KRW
  Capital = 2
  Request <- RetryRequest
  Attr <- RetryAttr
  Planned = {}
  Seed <- SellSeed
  Worker = {w1}
  Task = {t1}
  Home <- OneHome
  Denylist = {}
  TradePrice = {1}
  TradeFee = {0}
  MaxFee <- NoFee
  SettleDelay = 0
  MaxPolls = 2
  Env = {"retry"}
  Qty = {}
  Amount = {}
  Execution = {}
  FlowAmount = {}
  FlowTotal = {}
  Day = {}
INVARIANTS
  LiveOrdersGuarded
CHECK_DEADLOCK FALSE

----------------------------- MODULE SleeveLedger -----------------------------
(***************************************************************************)
(* The ledger of one sleeve: virtual cash per currency, the reservations   *)
(* of BUY orders, the order rows that map a client order id to an exchange *)
(* order, and the last cumulative execution snapshot of every order.       *)
(*                                                                         *)
(* The variables are the tables of SqliteSleeveLedger (sleeve_cash,        *)
(* sleeve_reservations, sleeve_orders, sleeve_fills, sleeve_cashflows);    *)
(* InMemorySleeveLedger keeps the same state in dictionaries.  Every       *)
(* operation below is one transaction of the former and one synchronous    *)
(* method of the latter, so it is one action.                              *)
(***************************************************************************)
EXTENDS Integers, FiniteSets, Functions

CONSTANTS
  Coid,          \* client order ids, the idempotency keys
  OrderId,       \* order ids the exchange hands out
  NoId,          \* the blank order id of a row written before the POST
  Symbol,
  Currency,
  BaseCurrency,  \* the currency of the allocated capital
  Capital,       \* allocated_capital
  Attr,          \* what the exchange reports of an order on every poll: named says that it
                 \* has the client order id, which may be blank
  Qty,           \* quantities a caller may pass
  Amount,        \* amounts of money a caller may reserve
  Execution,     \* execution snapshots a poll may return
  FlowAmount,    \* amounts a caller passes to record_cashflow, signed
  FlowTotal,     \* bound: what the cashflows of a currency may add up to
  Day            \* dates, in order; 0 is the blank settlement_date
                 \* and 1 the day the ledger is opened

Side == {"buy", "sell"}

\* A Fill: cumulative quantity, principal (average price x quantity), commission plus
\* tax, and the settlement date.  A quantity or a price of 0 is refused.
Snapshot == [qty : Nat \ {0}, cost : Nat \ {0}, fee : Nat, settles : Nat]

ASSUME LedgerAssumption ==
  /\ IsFiniteSet(Coid) /\ IsFiniteSet(OrderId)
  /\ NoId \notin OrderId
  /\ BaseCurrency \in Currency
  /\ Capital \in Nat
  /\ Attr \in [OrderId -> [coid : Coid, named : BOOLEAN, symbol : Symbol, side : Side,
                           currency : Currency]]
  /\ Qty \subseteq Nat /\ Amount \subseteq Nat /\ Execution \subseteq Snapshot
  /\ FlowAmount \subseteq Int /\ FlowTotal \subseteq Int
  /\ Day \subseteq Nat \ {0}

VARIABLES
  cash,      \* virtual_cash of each currency
  reserved,  \* the reservation of each client order id
  orders,    \* the order row of each client order id
  fills,     \* the last execution snapshot of each order
  flows,     \* sum of the cashflow rows of each currency
  today      \* what today_func returns

ledgerVars == <<cash, reserved, orders, fills, flows, today>>

\* A client order id without a reservation and one without an order row, and an
\* order of which no execution was settled.
NoReservation == [amount |-> 0]
NoOrder       == [status |-> "none"]
NoExecution   == [qty |-> 0, cost |-> 0, fee |-> 0, settles |-> 0]

OpenStatus     == {"pending", "partially_filled"}
TerminalStatus == {"filled", "cancelled", "rejected"}

Reservation == [currency : Currency, amount : Nat]

OrderRow == [status : OpenStatus \cup TerminalStatus, orderId : OrderId \cup {NoId},
             symbol : Symbol, side : Side, currency : Currency, qty : Nat]

LedgerTypeOK ==
  /\ cash \in [Currency -> Int]
  /\ reserved \in [Coid -> Reservation \cup {NoReservation}]
  /\ orders \in [Coid -> OrderRow \cup {NoOrder}]
  /\ fills \in [OrderId -> [qty : Nat, cost : Nat, fee : Nat, settles : Nat]]
  /\ flows \in [Currency -> Int]
  /\ today \in Nat

-------------------------------------------------------------------------------
\* Reading the ledger.

AtLeast0(n) == IF n > 0 THEN n ELSE 0

\* The part of a client order id's own reservation that is in currency cur.
HeldBy(c, cur) ==
  IF reserved[c] # NoReservation /\ reserved[c].currency = cur THEN reserved[c].amount ELSE 0

ReservedTotal(cur) == SumFunctionOnSet([c \in Coid |-> HeldBy(c, cur)], Coid)

\* Cumulative effect on cash of snapshot x of order o.
SignedCash(o, x) ==
  IF Attr[o].side = "buy" THEN -(x.cost + x.fee) ELSE x.cost - x.fee

\* (mutant) the dates compared the wrong way round
UnsettledReversed(o, cur) ==
  Attr[o].side = "sell" /\ Attr[o].currency = cur /\ fills[o].settles < today

Unsettled(o, cur) ==
  Attr[o].side = "sell" /\ Attr[o].currency = cur /\ fills[o].settles > today

SettlementPending(cur) ==
  SumFunctionOnSet([o \in OrderId |-> IF Unsettled(o, cur) THEN SignedCash(o, fills[o]) ELSE 0],
                   OrderId)

Available(cur) == cash[cur] - ReservedTotal(cur) - SettlementPending(cur)

\* Net quantity bought and sold; a sleeve that sold more than it bought has no row.
Position(s) ==
  AtLeast0(SumFunctionOnSet(
    [o \in OrderId |-> IF Attr[o].symbol # s THEN 0
                       ELSE IF Attr[o].side = "buy" THEN fills[o].qty ELSE -fills[o].qty], OrderId))

\* The row with a blank order id finds no snapshot.
FilledOf(id) == IF id \in OrderId THEN fills[id].qty ELSE 0

IsOpenSell(c, s) ==
  orders[c].status \in OpenStatus /\ orders[c].side = "sell" /\ orders[c].symbol = s

OpenSellQty(s, others) ==
  SumFunctionOnSet([c \in Coid |-> IF c \in others /\ IsOpenSell(c, s)
                                   THEN AtLeast0(orders[c].qty - FilledOf(orders[c].orderId))
                                   ELSE 0], Coid)

\* Available to sell, leaving out the caller's own open order.
SellAvailability(s, c) == Position(s) - OpenSellQty(s, Coid \ {c})

RecordedQty(c) == IF orders[c] = NoOrder THEN 0 ELSE orders[c].qty

ClientOrderIdsFor(id) == {c \in Coid : orders[c] # NoOrder /\ orders[c].orderId = id}

-------------------------------------------------------------------------------
\* The operations.

\* (mutant) a reservation in another currency counted as if it were in this one
CanReserveAnyCurrency(c, cur, amount) == amount <= Available(cur) + reserved[c].amount

CanReserve(c, cur, amount) == amount <= Available(cur) + HeldBy(c, cur)

\* reserve() that returns True; it sets the reservation, it does not add to it.
Reserve(c, cur, amount) ==
  /\ CanReserve(c, cur, amount)
  /\ reserved' = [reserved EXCEPT ![c] = [currency |-> cur, amount |-> amount]]
  /\ UNCHANGED <<cash, orders, fills, flows, today>>

Release(c) ==
  /\ reserved' = [reserved EXCEPT ![c] = NoReservation]
  /\ UNCHANGED <<cash, orders, fills, flows, today>>

\* (mutant) the status of an earlier row kept
WriteOrderKeepingStatus(c, id, s, side, cur, qty) ==
  [orders EXCEPT ![c] =
     [status |-> IF orders[c] = NoOrder THEN "pending" ELSE orders[c].status,
      orderId |-> IF id = NoId /\ orders[c] # NoOrder THEN orders[c].orderId ELSE id,
      symbol |-> s, side |-> side, currency |-> cur, qty |-> qty]]

\* (mutant) the order id of an earlier row overwritten with a blank one
WriteOrderBlanking(c, id, s, side, cur, qty) ==
  [orders EXCEPT ![c] = [status |-> "pending", orderId |-> id, symbol |-> s, side |-> side,
                         currency |-> cur, qty |-> qty]]

\* The row after an upsert: a blank id keeps the id of an earlier row, and the
\* status is "pending" again whatever it was.
WriteOrder(c, id, s, side, cur, qty) ==
  [orders EXCEPT ![c] =
     [status |-> "pending",
      orderId |-> IF id = NoId /\ orders[c] # NoOrder THEN orders[c].orderId ELSE id,
      symbol |-> s, side |-> side, currency |-> cur, qty |-> qty]]

RecordOrder(c, id, s, side, cur, qty) ==
  /\ orders' = WriteOrder(c, id, s, side, cur, qty)
  /\ UNCHANGED <<cash, reserved, fills, flows, today>>

\* (mutant) open SELL orders not subtracted
CanSellUnpledged(c, s, qty) == qty <= Position(s)

CanSell(c, s, qty) == qty <= SellAvailability(s, c)

\* reserve_sell() that returns True: the check and the row in one transaction.
ReserveSell(c, s, cur, qty) ==
  /\ CanSell(c, s, qty)
  /\ orders' = WriteOrder(c, NoId, s, "sell", cur, qty)
  /\ UNCHANGED <<cash, reserved, fills, flows, today>>

\* (mutant) a row written where there is none
MarkOrderTerminalUpsert(c, status) ==
  /\ orders' = [orders EXCEPT ![c] = [x \in DOMAIN orders[c] \cup {"status"} |->
                                        IF x = "status" THEN status ELSE orders[c][x]]]
  /\ reserved' = [reserved EXCEPT ![c] = NoReservation]
  /\ UNCHANGED <<cash, fills, flows, today>>

MarkOrderTerminal(c, status) ==
  /\ orders' = IF orders[c] = NoOrder THEN orders ELSE [orders EXCEPT ![c].status = status]
  /\ reserved' = [reserved EXCEPT ![c] = NoReservation]
  /\ UNCHANGED <<cash, fills, flows, today>>

\* Nothing that moves cash differs; a new settlement date alone is not noticed.
SameExecution(x, y) == x.qty = y.qty /\ x.cost = y.cost /\ x.fee = y.fee

\* (mutant) complete only beyond the ordered quantity
CompleteBeyond(c, x) == RecordedQty(c) > 0 /\ x.qty > RecordedQty(c)

Complete(c, x) == RecordedQty(c) > 0 /\ x.qty >= RecordedQty(c)

\* (mutant) what is left of a reservation not compared with 0
ReservationAfterFillUnclamped(c, o, x) ==
  IF Complete(c, x) THEN NoReservation
                    ELSE [reserved[c] EXCEPT !.amount = @ - (x.cost - fills[o].cost)]

\* The reservation of c once snapshot x of its BUY order o is settled.
ReservationAfterFill(c, o, x) ==
  LET left == reserved[c].amount - (x.cost - fills[o].cost)
  IN  IF Complete(c, x) \/ left <= 0 THEN NoReservation
                                     ELSE [reserved[c] EXCEPT !.amount = left]

FillStatus(c, x) == IF Complete(c, x) THEN "filled" ELSE "partially_filled"

\* (mutant) the snapshot settled whole, not as the difference to the previous one
CashAfterFillWhole(o, x) == [cash EXCEPT ![Attr[o].currency] = @ + SignedCash(o, x)]

CashAfterFill(o, x) ==
  [cash EXCEPT ![Attr[o].currency] = @ + SignedCash(o, x) - SignedCash(o, fills[o])]

\* apply_fill() that changes something.  A smaller quantity raises ValueError and a
\* repeated snapshot returns at once: both leave the ledger as it is.  A snapshot without a
\* client order id settles cash and touches neither reservations nor rows.
ApplyFill(o, x) ==
  LET c == Attr[o].coid
  IN  /\ x.qty >= fills[o].qty
      /\ ~SameExecution(fills[o], x)
      /\ cash' = CashAfterFill(o, x)
      /\ reserved' = IF Attr[o].named /\ Attr[o].side = "buy" /\ reserved[c] # NoReservation
                     THEN [reserved EXCEPT ![c] = ReservationAfterFill(c, o, x)]
                     ELSE reserved
      /\ fills' = [fills EXCEPT ![o] = x]
      /\ orders' = IF Attr[o].named /\ orders[c] # NoOrder
                   THEN [orders EXCEPT ![c].status = FillStatus(c, x)]
                   ELSE orders
      /\ UNCHANGED <<flows, today>>

RecordCashflow(cur, amount) ==
  /\ cash' = [cash EXCEPT ![cur] = @ + amount]
  /\ flows' = [flows EXCEPT ![cur] = @ + amount]
  /\ UNCHANGED <<reserved, orders, fills, today>>

\* The clock that today_func reads.
NextDay ==
  /\ today' = today + 1
  /\ UNCHANGED <<cash, reserved, orders, fills, flows>>

-------------------------------------------------------------------------------
LedgerInit ==
  /\ cash = [cur \in Currency |-> IF cur = BaseCurrency THEN Capital ELSE 0]
  /\ reserved = [c \in Coid |-> NoReservation]
  /\ orders = [c \in Coid |-> NoOrder]
  /\ fills = [o \in OrderId |-> NoExecution]
  /\ flows = [cur \in Currency |-> 0]
  /\ today = 1

\* A caller that may use the ledger in any order; of an order it tells the ledger what
\* it told the exchange.
LedgerNext ==
  \/ \E c \in Coid, cur \in Currency, amount \in Amount : Reserve(c, cur, amount)
  \/ \E c \in Coid : Release(c)
  \/ \E o \in OrderId, blank \in BOOLEAN, qty \in Qty :
        RecordOrder(Attr[o].coid, IF blank THEN NoId ELSE o,
                    Attr[o].symbol, Attr[o].side, Attr[o].currency, qty)
  \/ \E o \in OrderId, qty \in Qty :
        Attr[o].side = "sell" /\ ReserveSell(Attr[o].coid, Attr[o].symbol, Attr[o].currency, qty)
  \/ \E c \in Coid, status \in TerminalStatus : MarkOrderTerminal(c, status)
  \/ \E o \in OrderId, x \in Execution : ApplyFill(o, x)
  \/ \E cur \in Currency, amount \in FlowAmount :
        flows[cur] + amount \in FlowTotal /\ RecordCashflow(cur, amount)
  \/ today + 1 \in Day /\ NextDay

LedgerSpec == LedgerInit /\ [][LedgerNext]_ledgerVars

-------------------------------------------------------------------------------
\* Cash is explained by the capital, the cashflows and the last snapshot of every
\* order, whatever the sequence of polls (repeated, skipped, corrected) that led to
\* it: apply_fill settles the difference to the previous snapshot and nothing else
\* moves cash.
Allocated(cur) == IF cur = BaseCurrency THEN Capital ELSE 0

SettledCash(cur) ==
  SumFunctionOnSet([o \in OrderId |-> IF Attr[o].currency = cur
                                      THEN SignedCash(o, fills[o]) ELSE 0], OrderId)

CashConserved ==
  \A cur \in Currency : cash[cur] = Allocated(cur) + flows[cur] + SettledCash(cur)

\* The hard cap at the moment of a grant: a step that settles no fill and raises what
\* is reserved in a currency leaves that currency's available cash at 0 or more, also
\* when a client order id reserves again with another amount or in another currency.
GrantsWithinCap ==
  [][\A cur \in Currency : fills' = fills /\ ReservedTotal(cur)' > ReservedTotal(cur)
                            => Available(cur)' >= 0]_ledgerVars
===============================================================================

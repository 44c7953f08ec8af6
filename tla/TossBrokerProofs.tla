---------------------------- MODULE TossBrokerProofs ----------------------------
(***************************************************************************)
(* What the broker promises of a single order, for any number of workers,  *)
(* calls, orders, requests and prices: whatever the environment does, its  *)
(* types, that the ledger never runs ahead of the exchange, and that an    *)
(* ack leads to its order and to its row; and that a live order is guarded *)
(* and accepted=False final, when nothing is placed again that may be live *)
(* and every accepted order is answered with its id.                       *)
(***************************************************************************)
EXTENDS TossBroker, SleeveLedgerProofs

\* y is an execution of the same order as x that counts at least as much.
Upto(x, y) == x.qty <= y.qty /\ x.cost <= y.cost

\* Neither is a correction of the other's principal: what counts more has cost more.
Consistent(x, y) == /\ x.qty <= y.qty => x.cost <= y.cost
                    /\ y.qty <= x.qty => y.cost <= x.cost

\* The exchange's record of an order: nothing before it is accepted, never more than was
\* ordered, and less than that while it works.
ExchangeShape(o) ==
  /\ exch[o].status = "absent" => exch[o].qty = 0
  /\ exch[o].qty = 0 => exch[o].cost = 0
  /\ exch[o].qty > 0 => exch[o].cost > 0
  /\ OrderedQty(o) > 0 => exch[o].qty <= OrderedQty(o)
  /\ OrderedQty(o) > 0 /\ exch[o].status = "working" => exch[o].qty < OrderedQty(o)
  /\ Attr[o].side = "buy" /\ exch[o].status = "working" => exch[o].cost <= OrderedCost(o)

\* However late polls are applied, the ledger is behind the exchange, and so is every poll.
Behind(o) ==
  /\ Upto(fills[o], exch[o]) /\ Consistent(fills[o], exch[o])
  /\ \A p \in polls : p.order = o => /\ Upto(p.snapshot, exch[o])
                                     /\ Consistent(p.snapshot, exch[o])
                                     /\ Consistent(p.snapshot, fills[o])
  /\ \A p, q \in polls : p.order = o /\ q.order = o => Consistent(p.snapshot, q.snapshot)

\* A row says what was asked for, and has its order id or none.
RowMatches(c) ==
  orders[c] # NoOrder =>
    /\ orders[c].symbol = Request[c].symbol /\ orders[c].side = Request[c].side
    /\ orders[c].qty = Request[c].qty /\ orders[c].orderId \in {NoId, OrderOf(c)}

\* Whoever waits for an answer sent the request, and gets one.
Awaited(m) ==
  m.task # NoTask =>
    tasks[m.task] = [op |-> m.op, coid |-> m.coid, step |-> "waiting", reply |-> "none"]

\* An answer that says what became of an order tells the truth, and comes after the request.
Truthful(t) ==
  LET o == OrderOf(tasks[t].coid)
  IN  tasks[t] # Idle =>
        /\ tasks[t].step = "ready" => tasks[t].reply = "none"
        /\ tasks[t].reply = "accepted" => exch[o].status # "absent"
        /\ tasks[t].reply = "cancelled" => exch[o].status = "cancelled"

Resolves(w) ==
  \A c \in acks[w] \cup plans[w] :
    /\ exch[OrderOf(c)].status # "absent"
    /\ orders[c] # NoOrder /\ orders[c].orderId = OrderOf(c)

\* What holds whatever the environment does.
BaseInv ==
  /\ BrokerTypeOK
  /\ \A o \in OrderId : ExchangeShape(o) /\ Behind(o)
  /\ \A c \in Coid : RowMatches(c)
  /\ \A m \in wire : Awaited(m)
  /\ \A t \in Task : Truthful(t)
  /\ \A w \in Worker : Resolves(w)

-------------------------------------------------------------------------------
\* An order id and its client order id determine one another (clientOrderId).
LEMMA Pairing ==
  /\ \A c \in Coid : OrderOf(c) \in OrderId /\ Attr[OrderOf(c)].coid = c
  /\ \A o \in OrderId : Attr[o].coid \in Coid /\ OrderOf(Attr[o].coid) = o
<1>1. ASSUME NEW c \in Coid PROVE OrderOf(c) \in OrderId /\ Attr[OrderOf(c)].coid = c
  <2>1. PICK o \in OrderId : {p \in OrderId : Attr[p].coid = c} = {o}
    BY BrokerAssumption
  <2>. QED  BY <2>1 DEF OrderOf
<1>2. ASSUME NEW o \in OrderId PROVE Attr[o].coid \in Coid /\ OrderOf(Attr[o].coid) = o
  <2>1. Attr[o].coid \in Coid
    BY ConstantTypes
  <2>2. PICK p \in OrderId : {q \in OrderId : Attr[q].coid = Attr[o].coid} = {p}
    BY <2>1, BrokerAssumption
  <2>3. OrderOf(Attr[o].coid) \in {q \in OrderId : Attr[q].coid = Attr[o].coid}
    BY <1>1, <2>1
  <2>4. o \in {q \in OrderId : Attr[q].coid = Attr[o].coid}
    OBVIOUS
  <2>. QED  BY <2>1, <2>2, <2>3, <2>4
<1>. QED  BY <1>1, <1>2

\* The exchange reports every order with its client order id.
LEMMA ReportsNamed == \A o \in OrderId : Attr[o].named
<1>. SUFFICES ASSUME NEW o \in OrderId PROVE Attr[o].named
  OBVIOUS
<1>. DEFINE r == Request[Attr[o].coid]
<1>1. Attr[o] = [coid |-> Attr[o].coid, named |-> TRUE, symbol |-> r.symbol, side |-> r.side,
                 currency |-> r.currency]
  BY BrokerAssumption, Zenon
<1>. HIDE DEF r
<1>. QED  BY <1>1

\* What a request is made of, and that the exchange reports what was asked for.
LEMMA RequestTypes ==
  /\ \A c \in Coid : /\ Request[c].symbol \in Symbol /\ Request[c].side \in Side
                     /\ Request[c].currency \in Currency /\ Request[c].qty \in Nat
                     /\ Request[c].price \in Nat /\ Request[c].amount \in Nat
                     /\ ReserveAmount(Request[c]) \in Nat
                     /\ Request[c].side = "sell" => Request[c].qty > 0
  /\ \A o \in OrderId : LET r == Request[Attr[o].coid]
                        IN  /\ Attr[o].symbol = r.symbol /\ Attr[o].side = r.side
                            /\ Attr[o].currency = r.currency
                            /\ OrderedQty(o) = r.qty /\ OrderedCost(o) = ReserveAmount(r)
<1>1. ASSUME NEW c \in Coid
      PROVE  /\ Request[c].symbol \in Symbol /\ Request[c].side \in Side
             /\ Request[c].currency \in Currency /\ Request[c].qty \in Nat
             /\ Request[c].price \in Nat /\ Request[c].amount \in Nat
             /\ Request[c].side = "sell" => Request[c].qty > 0
  <2>1. Request[c] \in [symbol : Symbol, side : Side, currency : Currency,
                        qty : Nat, price : Nat, amount : Nat]
    BY BrokerAssumption
  <2>2. (Request[c].qty = 0) # (Request[c].amount = 0)
    BY BrokerAssumption
  <2>3. Request[c].amount > 0 => Request[c].side = "buy"
    BY BrokerAssumption
  <2>. QED  BY <2>1, <2>2, <2>3
<1>2. ASSUME NEW c \in Coid PROVE ReserveAmount(Request[c]) \in Nat
  BY <1>1 DEF ReserveAmount
<1>3. ASSUME NEW o \in OrderId
      PROVE  /\ Attr[o].symbol = Request[Attr[o].coid].symbol
             /\ Attr[o].side = Request[Attr[o].coid].side
             /\ Attr[o].currency = Request[Attr[o].coid].currency
  <2>. DEFINE r == Request[Attr[o].coid]
  <2>1. Attr[o] = [coid |-> Attr[o].coid, named |-> TRUE, symbol |-> r.symbol, side |-> r.side,
                   currency |-> r.currency]
    BY BrokerAssumption, Zenon
  <2>. HIDE DEF r
  <2>2. Attr[o].symbol = r.symbol
    BY <2>1
  <2>3. Attr[o].side = r.side
    BY <2>1
  <2>4. Attr[o].currency = r.currency
    BY <2>1
  <2>. QED  BY <2>2, <2>3, <2>4 DEF r
<1>. QED  BY <1>1, <1>2, <1>3 DEF OrderedQty, OrderedCost

-------------------------------------------------------------------------------
\* Which steps touch the exchange's records: a request is accepted or cancelled there, an
\* order trades, is corrected, or expires.
LEMMA ExchangeMoves ==
  ASSUME [BrokerNext]_vars
  PROVE  \/ UNCHANGED exch
         \/ \E m \in wire : ExchangeAccepts(m) \/ ExchangeCancels(m)
         \/ \E o \in OrderId : Market(o)
<1>1. \A t, c : PlaceBuy(t, c) \/ PlaceSell(t, c) \/ PlaceRefused(t, c) \/ PlaceCached(t, c)
                  => UNCHANGED exch
  BY DEF PlaceBuy, PlaceSell, PlaceRefused, PlaceCached, Begin
<1>2. \A t : SendFails(t) \/ Send(t) \/ PlaceAccepted(t) \/ PlaceConflict(t) \/ PlaceUnwound(t)
               => UNCHANGED exch
  BY DEF SendFails, Send, PlaceAccepted, PlaceConflict, PlaceUnwound
<1>3. \A t, c : CancelBegins(t, c) \/ CancelConfirmed(t) \/ CancelRefused(t) \/ TimesOut(t)
                  => UNCHANGED exch
  BY DEF CancelBegins, CancelConfirmed, CancelRefused, TimesOut
<1>4. \A w : Crash(w) => UNCHANGED exch
  BY DEF Crash
<1>5. \A m : ExchangeRefuses(m) => UNCHANGED exch
  BY DEF ExchangeRefuses
<1>6. \A o, poll, c : ReadFill(o) \/ ApplyPoll(poll) \/ MarkEnded(c) \/ Reconcile(c)
                        => UNCHANGED exch
  BY DEF ReadFill, ApplyPoll, MarkEnded, Reconcile
<1>7. \A cur, amount : Cashflow(cur, amount) => UNCHANGED exch
  BY DEF Cashflow, brokerVars
<1>8. UNCHANGED brokerVars \/ UNCHANGED vars => UNCHANGED exch
  BY DEF brokerVars, vars
<1>. QED  BY <1>1, <1>2, <1>3, <1>4, <1>5, <1>6, <1>7, <1>8, Zenon
          DEF BrokerNext, Place, Resume, Exchange

\* A request for the order is on its way.
OnWire(c) == \E m \in wire : m.op = "place" /\ m.coid = c

\* What a step does to the record of order o: its principal grows with its quantity, an
\* order does not go back to absent, and one that was cancelled or is done stays so.
Advances(o) ==
  /\ \/ exch'[o].qty = exch[o].qty /\ exch'[o].cost = exch[o].cost
     \/ /\ exch[o].status = "working"
        /\ exch'[o].qty = exch[o].qty + 1 /\ exch'[o].cost > exch[o].cost
        /\ Attr[o].side = "buy" => exch'[o].cost <= OrderedCost(o)
  /\ exch'[o].status = "absent" => exch[o].status = "absent"
  /\ exch[o].status \in {"done", "cancelled"} => exch'[o].status = exch[o].status
  /\ exch[o].status = "absent" /\ exch'[o].status # "absent" => OnWire(Attr[o].coid)

ExchangeType == exch \in [OrderId -> [status : {"absent", "working", "done", "cancelled"},
                                      qty : Nat, cost : Nat, fee : Nat, settles : Nat]]

\* Every step keeps the exchange's records well formed and only advances them.
LEMMA ExchangeStep ==
  ASSUME ExchangeType, \A o \in OrderId : ExchangeShape(o), today \in Nat,
         \A m \in wire : m.coid \in Coid, [BrokerNext]_vars
  PROVE  /\ ExchangeType'
         /\ \A o \in OrderId : ExchangeShape(o)' /\ Advances(o)
<1>. USE DEF ExchangeType
<1>1. CASE UNCHANGED exch
  BY <1>1 DEF ExchangeShape, Advances
<1>2. ASSUME NEW m \in wire, ExchangeAccepts(m)
      PROVE  /\ ExchangeType'
             /\ \A o \in OrderId : ExchangeShape(o)' /\ Advances(o)
  <2>. DEFINE a == OrderOf(m.coid)
  <2>1. /\ a \in OrderId /\ Attr[a].coid = m.coid /\ m.op = "place"
        /\ exch[a].status = "absent" /\ exch' = [exch EXCEPT ![a].status = "working"]
    BY <1>2, Pairing DEF ExchangeAccepts
  <2>2. OnWire(Attr[a].coid)
    BY <2>1 DEF OnWire
  <2>. HIDE DEF a
  <2>3. ExchangeType'
    BY <2>1
  <2>4. ASSUME NEW o \in OrderId PROVE ExchangeShape(o)' /\ Advances(o)
    <3>1. OrderedQty(o) \in Nat /\ OrderedCost(o) \in Nat
      BY RequestTypes, Pairing
    <3>2. CASE o = a
      BY <2>1, <2>2, <3>1, <3>2 DEF ExchangeShape, Advances
    <3>3. CASE o # a
      BY <2>1, <3>3 DEF ExchangeShape, Advances
    <3>. QED  BY <3>2, <3>3
  <2>. QED  BY <2>3, <2>4
<1>3. ASSUME NEW m \in wire, ExchangeCancels(m)
      PROVE  /\ ExchangeType'
             /\ \A o \in OrderId : ExchangeShape(o)' /\ Advances(o)
  <2>. DEFINE a == OrderOf(m.coid)
  <2>1. /\ a \in OrderId
        /\ \/ exch' = exch
           \/ exch[a].status = "working" /\ exch' = [exch EXCEPT ![a].status = "cancelled"]
    BY <1>3, Pairing DEF ExchangeCancels
  <2>. HIDE DEF a
  <2>. QED  BY <2>1 DEF ExchangeShape, Advances
<1>4. ASSUME NEW a \in OrderId, Market(a)
      PROVE  /\ ExchangeType'
             /\ \A o \in OrderId : ExchangeShape(o)' /\ Advances(o)
  <2>0. OrderedQty(a) \in Nat /\ OrderedCost(a) \in Nat
    BY RequestTypes, Pairing
  <2>1. ASSUME NEW p \in TradePrice, NEW fee \in TradeFee, NEW last \in BOOLEAN, Trade(a, p, fee, last)
        PROVE  /\ ExchangeType'
               /\ \A o \in OrderId : ExchangeShape(o)' /\ Advances(o)
    <3>1. p \in Nat \ {0} /\ fee \in Nat /\ SettleDelay \in Nat
      BY BrokerAssumption
    <3>. DEFINE status  == IF last THEN "done" ELSE "working"
                settles == IF "late date" \in Env THEN 0 ELSE today + SettleDelay
                new == [status |-> status, qty |-> exch[a].qty + 1, cost |-> exch[a].cost + p,
                        fee |-> exch[a].fee + fee, settles |-> settles]
    <3>2. status \in {"done", "working"} /\ settles \in Nat
      <4>1. status = "done" \/ status = "working"
        BY Zenon
      <4>2. settles = 0 \/ settles = today + SettleDelay
        BY Zenon
      <4>. HIDE DEF status, settles
      <4>. QED  BY <3>1, <4>1, <4>2
    <3>3. exch' = [exch EXCEPT ![a] = new]
      BY <2>1 DEF Trade
    <3>4. /\ exch[a].status = "working"
          /\ Attr[a].side = "buy" => exch[a].cost + p <= OrderedCost(a)
          /\ OrderedQty(a) > 0 => exch[a].qty < OrderedQty(a)
      BY <2>1 DEF Trade, ExchangeShape
    <3>5. OrderedQty(a) > 0 /\ status = "working" => exch[a].qty + 1 < OrderedQty(a)
      <4>1. OrderedQty(a) > 0 => last = (exch[a].qty + 1 = OrderedQty(a))
        BY <2>1, Zenon DEF Trade
      <4>2. status = "working" => ~last
        OBVIOUS
      <4>3. OrderedQty(a) > 0 /\ status = "working" => exch[a].qty + 1 # OrderedQty(a)
        BY <4>1, <4>2, Zenon
      <4>. HIDE DEF status
      <4>. QED  BY <2>0, <3>4, <4>3
    <3>. HIDE DEF status, settles
    <3>6. ExchangeType'
      BY <3>1, <3>2, <3>3
    <3>7. ASSUME NEW o \in OrderId, o # a PROVE ExchangeShape(o)' /\ Advances(o)
      BY <3>3, <3>7 DEF ExchangeShape, Advances
    <3>8. exch'[a] = new /\ exch[a].qty \in Nat /\ exch[a].cost \in Nat
      BY <3>3
    <3>9. ExchangeShape(a)'
      BY <2>0, <3>1, <3>2, <3>4, <3>5, <3>8 DEF ExchangeShape
    <3>10. Advances(a)
      BY <3>1, <3>2, <3>4, <3>8 DEF Advances
    <3>. QED  BY <3>6, <3>7, <3>9, <3>10
  <2>2. ASSUME NEW fee \in TradeFee, Corrected(a, fee)
        PROVE  /\ ExchangeType'
               /\ \A o \in OrderId : ExchangeShape(o)' /\ Advances(o)
    <3>1. fee \in Nat /\ SettleDelay \in Nat
      BY BrokerAssumption
    <3>. DEFINE settles == LateDate(a)
                fixed == [exch[a] EXCEPT !.fee = @ + fee, !.settles = settles]
    <3>2. settles \in Nat
      <4>1. settles = exch[a].settles \/ settles = today + SettleDelay
        BY Zenon DEF LateDate
      <4>. HIDE DEF settles
      <4>. QED  BY <3>1, <4>1
    <3>3. exch' = [exch EXCEPT ![a] = fixed]
      BY <2>2 DEF Corrected
    <3>. HIDE DEF settles
    <3>4. exch[a] \in [status : {"absent", "working", "done", "cancelled"},
                       qty : Nat, cost : Nat, fee : Nat, settles : Nat]
      OBVIOUS
    <3>5. fixed \in [status : {"absent", "working", "done", "cancelled"},
                     qty : Nat, cost : Nat, fee : Nat, settles : Nat]
      <4>. DEFINE paid == [exch[a] EXCEPT !.fee = @ + fee]
      <4>1. paid \in [status : {"absent", "working", "done", "cancelled"},
                      qty : Nat, cost : Nat, fee : Nat, settles : Nat]
        BY <3>1, <3>4
      <4>2. fixed = [paid EXCEPT !.settles = settles]
        OBVIOUS
      <4>. HIDE DEF paid, fixed
      <4>. QED  BY <3>2, <4>1, <4>2
    <3>6. fixed.status = exch[a].status /\ fixed.qty = exch[a].qty /\ fixed.cost = exch[a].cost
      BY <3>4
    <3>. HIDE DEF fixed
    <3>. QED  BY <3>3, <3>5, <3>6 DEF ExchangeShape, Advances
  <2>3. CASE Expires(a)
    BY <2>3 DEF Expires, ExchangeShape, Advances
  <2>. QED  BY <1>4, <2>1, <2>2, <2>3 DEF Market
<1>. QED  BY <1>1, <1>2, <1>3, <1>4, ExchangeMoves

-------------------------------------------------------------------------------
\* A call under way is a call of one client order id.
LEMMA CallType ==
  ASSUME BrokerTypeOK, NEW t \in Task, tasks[t] # Idle
  PROVE  tasks[t] \in Call /\ tasks[t].coid \in Coid
<1>1. tasks[t] \in Call
  BY DEF BrokerTypeOK
<1>. QED  BY <1>1 DEF Call

\* _unwind is release() or mark_order_terminal().
LEMMA UnwindMoves ==
  ASSUME NEW c \in Coid, Unwind(c)
  PROVE  Release(c) \/ \E status \in TerminalStatus : MarkOrderTerminal(c, status)
BY DEF Unwind, TerminalStatus

\* What the broker and the consumer do to the ledger, with what arguments.
LEMMA LedgerMoves ==
  ASSUME BrokerTypeOK, [BrokerNext]_vars
  PROVE  \/ UNCHANGED ledgerVars
         \/ \E c \in Coid :
              \/ /\ Request[c].side = "buy"
                 /\ Reserve(c, Request[c].currency, ReserveAmount(Request[c]))
              \/ /\ Request[c].side = "sell"
                 /\ ReserveSell(c, Request[c].symbol, Request[c].currency, Request[c].qty)
              \/ RecordOrder(c, OrderOf(c), Request[c].symbol, Request[c].side,
                             Request[c].currency, Request[c].qty)
              \/ Release(c)
              \/ \E status \in TerminalStatus : MarkOrderTerminal(c, status)
         \/ \E poll \in polls : ApplyFill(poll.order, poll.snapshot)
         \/ \E cur \in Currency, amount \in FlowAmount : RecordCashflow(cur, amount)
         \/ NextDay
<1>. DEFINE Row(c) == \/ RecordOrder(c, OrderOf(c), Request[c].symbol, Request[c].side,
                                     Request[c].currency, Request[c].qty)
                      \/ Release(c)
                      \/ \E status \in TerminalStatus : MarkOrderTerminal(c, status)
<1>1. \A t, c : PlaceBuy(t, c) => /\ Request[c].side = "buy"
                                  /\ Reserve(c, Request[c].currency, ReserveAmount(Request[c]))
  BY DEF PlaceBuy
<1>2. \A t, c : PlaceSell(t, c) =>
        /\ Request[c].side = "sell"
        /\ ReserveSell(c, Request[c].symbol, Request[c].currency, Request[c].qty)
  BY DEF PlaceSell
<1>3. \A t, c : PlaceRefused(t, c) \/ PlaceCached(t, c) \/ CancelBegins(t, c)
                  => UNCHANGED ledgerVars
  BY DEF PlaceRefused, PlaceCached, CancelBegins
<1>4. ASSUME NEW t \in Task, SendFails(t) \/ PlaceUnwound(t) PROVE \E c \in Coid : Row(c)
  <2>1. tasks[t] # Idle /\ Unwind(tasks[t].coid)
    BY <1>4 DEF SendFails, PlaceUnwound, Calls, Answered
  <2>. QED  BY <2>1, CallType, UnwindMoves
<1>5. ASSUME NEW t \in Task, PlaceAccepted(t) PROVE \E c \in Coid : Row(c)
  <2>1. tasks[t].coid \in Coid
    BY <1>5, CallType DEF PlaceAccepted, Calls, Answered
  <2>2. LET c == tasks[t].coid
        IN  RecordOrder(c, OrderOf(c), Request[c].symbol, Request[c].side, Request[c].currency,
                        Request[c].qty)
    BY <1>5 DEF PlaceAccepted
  <2>. QED  BY <2>1, <2>2
<1>6. ASSUME NEW t \in Task, CancelConfirmed(t)
      PROVE  UNCHANGED ledgerVars \/ \E c \in Coid : Row(c)
  <2>1. \/ UNCHANGED ledgerVars
        \/ \E c \in ClientOrderIdsFor(OrderOf(tasks[t].coid)) : MarkOrderTerminal(c, "cancelled")
    BY <1>6, Zenon DEF CancelConfirmed
  <2>2. \A id : ClientOrderIdsFor(id) \subseteq Coid
    BY DEF ClientOrderIdsFor
  <2>3. "cancelled" \in TerminalStatus
    BY DEF TerminalStatus
  <2>. QED  BY <2>1, <2>2, <2>3
<1>7. \A t : Send(t) \/ PlaceConflict(t) \/ CancelRefused(t) \/ TimesOut(t) => UNCHANGED ledgerVars
  BY DEF Send, PlaceConflict, CancelRefused, TimesOut
<1>8. \A w, m, o : Crash(w) \/ Exchange(m) \/ Market(o) \/ ReadFill(o) => UNCHANGED ledgerVars
  <2>1. \A w : Crash(w) => UNCHANGED ledgerVars
    BY DEF Crash
  <2>2. \A m, reply : Handle(m, reply) => UNCHANGED ledgerVars
    BY DEF Handle
  <2>3. \A m : ExchangeAccepts(m) \/ ExchangeRefuses(m) \/ ExchangeCancels(m) => UNCHANGED ledgerVars
    BY <2>2, Zenon DEF ExchangeAccepts, ExchangeRefuses, ExchangeCancels
  <2>4. \A o, p, fee, last : Trade(o, p, fee, last) => UNCHANGED ledgerVars
    BY Zenon DEF Trade
  <2>5. \A o, fee : Corrected(o, fee) \/ Expires(o) \/ ReadFill(o) => UNCHANGED ledgerVars
    BY Zenon DEF Corrected, Expires, ReadFill
  <2>. QED  BY <2>1, <2>3, <2>4, <2>5, Zenon DEF Exchange, Market
<1>9. \A poll : ApplyPoll(poll) =>
        UNCHANGED ledgerVars \/ ApplyFill(poll.order, poll.snapshot)
  BY DEF ApplyPoll
<1>10. ASSUME NEW c \in Coid, MarkEnded(c) \/ Reconcile(c) PROVE Row(c)
  <2>1. "rejected" \in TerminalStatus /\ "filled" \in TerminalStatus /\ "cancelled" \in TerminalStatus
    BY DEF TerminalStatus
  <2>2. CASE MarkEnded(c)
    BY <2>1, <2>2 DEF MarkEnded
  <2>3. CASE Reconcile(c)
    BY <2>1, <2>3, Zenon DEF Reconcile
  <2>. QED  BY <1>10, <2>2, <2>3
<1>11. \A cur, amount : Cashflow(cur, amount) => RecordCashflow(cur, amount)
  BY DEF Cashflow
<1>12. UNCHANGED vars => UNCHANGED ledgerVars
  BY DEF vars
<1>. QED  BY <1>1, <1>2, <1>3, <1>4, <1>5, <1>6, <1>7, <1>8, <1>9, <1>10, <1>11, <1>12, Zenon
          DEF BrokerNext, Place, Resume

\* The ledger keeps its types under the broker.
LEMMA LedgerTyped ==
  ASSUME BrokerTypeOK, [BrokerNext]_vars
  PROVE  LedgerTypeOK'
<1>1. LedgerTypeOK
  BY DEF BrokerTypeOK
<1>2. CASE UNCHANGED ledgerVars
  BY <1>1, <1>2 DEF ledgerVars, LedgerTypeOK
<1>3. ASSUME NEW c \in Coid, Reserve(c, Request[c].currency, ReserveAmount(Request[c]))
      PROVE  LedgerTypeOK'
  BY <1>1, <1>3, RequestTypes, ReserveTyped
<1>4. ASSUME NEW c \in Coid, ReserveSell(c, Request[c].symbol, Request[c].currency, Request[c].qty)
      PROVE  LedgerTypeOK'
  BY <1>1, <1>4, RequestTypes, ReserveSellTyped
<1>5. ASSUME NEW c \in Coid,
             RecordOrder(c, OrderOf(c), Request[c].symbol, Request[c].side, Request[c].currency,
                         Request[c].qty)
      PROVE  LedgerTypeOK'
  <2>1. OrderOf(c) \in OrderId \cup {NoId}
    BY Pairing
  <2>. QED  BY <1>1, <1>5, <2>1, RequestTypes, RecordOrderTyped
<1>6. ASSUME NEW c \in Coid, Release(c) PROVE LedgerTypeOK'
  BY <1>1, <1>6, ReleaseTyped
<1>7. ASSUME NEW c \in Coid, NEW status \in TerminalStatus, MarkOrderTerminal(c, status)
      PROVE  LedgerTypeOK'
  BY <1>1, <1>7, MarkTyped
<1>8. ASSUME NEW poll \in polls, ApplyFill(poll.order, poll.snapshot) PROVE LedgerTypeOK'
  <2>1. poll.order \in OrderId /\ poll.snapshot \in Snapshot
    BY DEF BrokerTypeOK
  <2>. QED  BY <1>1, <1>8, <2>1, ApplyFillTyped
<1>9. ASSUME NEW cur \in Currency, NEW amount \in FlowAmount, RecordCashflow(cur, amount)
      PROVE  LedgerTypeOK'
  BY <1>1, <1>9, LedgerAssumption, CashflowTyped
<1>10. CASE NextDay
  BY <1>1, <1>10 DEF NextDay, LedgerTypeOK
<1>. QED  BY <1>2, <1>3, <1>4, <1>5, <1>6, <1>7, <1>8, <1>9, <1>10, LedgerMoves

-------------------------------------------------------------------------------
\* The calls of ts end, and nobody waits for the answers of their requests any more: these
\* are still on their way, or lost.
Quits(ts) ==
  /\ tasks' = [t \in Task |-> IF t \in ts THEN Idle ELSE tasks[t]]
  /\ wire' = Orphaned(ts) \/ wire' = {m \in wire : m.task \notin ts}

\* Steps that touch neither the calls nor the wire, and a new day.
LEMMA QuietSteps ==
  /\ \A t, c : PlaceRefused(t, c) \/ PlaceCached(t, c) => UNCHANGED <<tasks, wire>>
  /\ \A o : Market(o) \/ ReadFill(o) => UNCHANGED <<tasks, wire>>
  /\ \A poll : ApplyPoll(poll) => UNCHANGED <<tasks, wire>>
  /\ \A c : MarkEnded(c) \/ Reconcile(c) => UNCHANGED <<tasks, wire>>
  /\ \A cur, amount : Cashflow(cur, amount) => UNCHANGED <<tasks, wire>>
  /\ UNCHANGED brokerVars \/ UNCHANGED vars => UNCHANGED <<tasks, wire>>
<1>1. \A t, c : PlaceRefused(t, c) \/ PlaceCached(t, c) => UNCHANGED <<tasks, wire>>
  BY Zenon DEF PlaceRefused, PlaceCached
<1>2. \A o, p, fee, last : Trade(o, p, fee, last) => UNCHANGED <<tasks, wire>>
  BY Zenon DEF Trade
<1>3. \A o, fee : Corrected(o, fee) \/ Expires(o) \/ ReadFill(o) => UNCHANGED <<tasks, wire>>
  BY Zenon DEF Corrected, Expires, ReadFill
<1>4. \A o : Market(o) \/ ReadFill(o) => UNCHANGED <<tasks, wire>>
  BY <1>2, <1>3, Zenon DEF Market
<1>5. \A poll : ApplyPoll(poll) => UNCHANGED <<tasks, wire>>
  BY Zenon DEF ApplyPoll
<1>6. \A c : MarkEnded(c) \/ Reconcile(c) => UNCHANGED <<tasks, wire>>
  BY Zenon DEF MarkEnded, Reconcile
<1>7. \A cur, amount : Cashflow(cur, amount) => UNCHANGED <<tasks, wire>>
  BY DEF Cashflow, brokerVars
<1>8. UNCHANGED brokerVars \/ UNCHANGED vars => UNCHANGED <<tasks, wire>>
  BY DEF brokerVars, vars
<1>. QED  BY <1>1, <1>4, <1>5, <1>6, <1>7, <1>8, Zenon

\* Every answer that is handled, failure, timeout and crash ends a call with its requests.
LEMMA QuitSteps ==
  ASSUME BrokerTypeOK, \A m \in wire : Awaited(m)
  PROVE  /\ \A t \in Task : SendFails(t) => Quits({t})
         /\ \A t \in Task : PlaceAccepted(t) \/ PlaceConflict(t) \/ PlaceUnwound(t) => Quits({t})
         /\ \A t \in Task : CancelConfirmed(t) \/ CancelRefused(t) => Quits({t})
         /\ \A t \in Task : TimesOut(t) => Quits({t})
         /\ \A w \in Worker : Crash(w) => Quits({t \in Task : Home[t] = w})
<1>2. ASSUME NEW t \in Task, tasks[t] # Idle, Stop(t), UNCHANGED wire,
             \/ tasks[t].step = "ready"
             \/ tasks[t].reply # "none"
      PROVE  Quits({t})
  <2>1. \A m \in wire : m.task # t
    <3>. SUFFICES ASSUME NEW m \in wire, m.task = t PROVE FALSE
      OBVIOUS
    <3>1. t # NoTask
      BY BrokerAssumption
    <3>. DEFINE call == [op |-> m.op, coid |-> m.coid, step |-> "waiting", reply |-> "none"]
    <3>2. tasks[t] = call
      BY <3>1 DEF Awaited
    <3>3. call.step = "waiting" /\ call.reply = "none"
      OBVIOUS
    <3>. HIDE DEF call
    <3>. QED  BY <1>2, <3>2, <3>3
  <2>2. tasks' = [u \in Task |-> IF u \in {t} THEN Idle ELSE tasks[u]]
    BY <1>2 DEF Stop, BrokerTypeOK
  <2>. QED  BY <1>2, <2>1, <2>2 DEF Quits
<1>3. ASSUME NEW t \in Task, SendFails(t) PROVE Quits({t})
  BY <1>2, <1>3 DEF SendFails, Calls
<1>4. ASSUME NEW t \in Task, PlaceAccepted(t) \/ PlaceConflict(t) \/ PlaceUnwound(t) PROVE Quits({t})
  <2>1. /\ tasks[t] # Idle /\ Stop(t) /\ UNCHANGED wire
        /\ tasks[t].reply \in {"accepted", "conflict", "rejected", "denied", "blank"}
    BY <1>4 DEF PlaceAccepted, PlaceConflict, PlaceUnwound, Answered, Calls
  <2>. QED  BY <1>2, <2>1
<1>5. ASSUME NEW t \in Task, CancelConfirmed(t) \/ CancelRefused(t) PROVE Quits({t})
  <2>1. /\ tasks[t] # Idle /\ Stop(t) /\ UNCHANGED wire
        /\ tasks[t].reply \in {"cancelled", "rejected"}
    BY <1>5 DEF CancelConfirmed, CancelRefused, Answered, Calls
  <2>. QED  BY <1>2, <2>1
<1>6. ASSUME NEW t \in Task, TimesOut(t) PROVE Quits({t})
  <2>1. wire' = Orphaned({t}) \/ wire' = {m \in wire : m.task \notin {t}}
    BY <1>6 DEF TimesOut
  <2>2. tasks' = [u \in Task |-> IF u \in {t} THEN Idle ELSE tasks[u]]
    BY <1>6 DEF TimesOut, Stop, BrokerTypeOK
  <2>. QED  BY <2>1, <2>2 DEF Quits
<1>7. ASSUME NEW w \in Worker, Crash(w) PROVE Quits({t \in Task : Home[t] = w})
  BY <1>7 DEF Crash, Quits
<1>. QED  BY <1>3, <1>4, <1>5, <1>6, <1>7

\* A call of place() passes its guard.
Starting(t, c) == PlaceBuy(t, c) \/ PlaceSell(t, c)

\* A placement that is not refused begins a call.
LEMMA StartingBegins == \A t, c : Starting(t, c) => tasks[t] = Idle /\ Begin(t, c)
BY DEF Starting, PlaceBuy, PlaceSell, Starts

\* What a step does to the calls and to the wire: a call begins, sends its request, quits
\* with its requests, or is answered.
LEMMA CallMoves ==
  ASSUME BrokerTypeOK, \A m \in wire : Awaited(m), [BrokerNext]_vars
  PROVE  \/ UNCHANGED <<tasks, wire>>
         \/ \E t \in Task, c \in Coid : Starting(t, c)
         \/ \E t \in Task : Send(t)
         \/ \E t \in Task, c \in Coid : CancelBegins(t, c)
         \/ \E ts \in SUBSET Task : Quits(ts)
         \/ \E m \in wire : Exchange(m)
<1>1. \A t, c : PlaceBuy(t, c) \/ PlaceSell(t, c) => Starting(t, c)
  BY DEF Starting
<1>2. \A w \in Worker : {t \in Task : Home[t] = w} \in SUBSET Task
  OBVIOUS
<1>3. \A t \in Task : {t} \in SUBSET Task
  OBVIOUS
<1>. QED  BY <1>1, <1>2, <1>3, QuitSteps, QuietSteps, Zenon DEF BrokerNext, Place, Resume

CallsType == tasks \in [Task -> Call \cup {Idle}] /\ wire \subseteq Message

\* Every request that somebody waits for belongs to a call that waits, and an answer that
\* says what became of an order tells the truth, also much later.
LEMMA CallStep ==
  ASSUME BrokerTypeOK, \A o \in OrderId : ExchangeShape(o), \A m \in wire : Awaited(m),
         \A t \in Task : Truthful(t), [BrokerNext]_vars
  PROVE  /\ CallsType'
         /\ \A m \in wire' : Awaited(m)'
         /\ \A t \in Task : Truthful(t)'
<1>1. /\ tasks \in [Task -> Call \cup {Idle}] /\ wire \subseteq Message /\ ExchangeType
      /\ \A m \in wire : m.coid \in Coid /\ m.op \in {"place", "cancel"}
      /\ today \in Nat
  BY DEF BrokerTypeOK, LedgerTypeOK, Message, ExchangeType
<1>2. \A o \in OrderId : Advances(o)
  BY <1>1, ExchangeStep
<1>3. \A t \in Task : tasks[t] # Idle => OrderOf(tasks[t].coid) \in OrderId
  BY CallType, Pairing
<1>4. ASSUME NEW t \in Task, tasks'[t] = tasks[t] PROVE Truthful(t)'
  <2>. DEFINE o == OrderOf(tasks[t].coid)
  <2>1. tasks[t] # Idle => o \in OrderId
    BY <1>3
  <2>. HIDE DEF o
  <2>2. tasks[t] # Idle =>
          /\ tasks[t].step = "ready" => tasks[t].reply = "none"
          /\ tasks[t].reply = "accepted" => exch[o].status # "absent"
          /\ tasks[t].reply = "cancelled" => exch[o].status = "cancelled"
    BY DEF Truthful, o
  <2>3. o \in OrderId => /\ exch[o].status # "absent" => exch'[o].status # "absent"
                         /\ exch[o].status = "cancelled" => exch'[o].status = "cancelled"
    BY <1>2 DEF Advances
  <2>4. tasks[t] # Idle =>
          /\ tasks[t].step = "ready" => tasks[t].reply = "none"
          /\ tasks[t].reply = "accepted" => exch'[o].status # "absent"
          /\ tasks[t].reply = "cancelled" => exch'[o].status = "cancelled"
    BY <2>1, <2>2, <2>3
  <2>. QED  BY <1>4, <2>4 DEF Truthful, o
<1>5. ASSUME NEW t \in Task, tasks'[t] = Idle PROVE Truthful(t)'
  BY <1>5 DEF Truthful
<1>6. CASE UNCHANGED <<tasks, wire>>
  BY <1>1, <1>4, <1>6 DEF CallsType, Awaited
<1>7. ASSUME NEW t \in Task, NEW call \in Call, tasks[t] = Idle \/ tasks[t].step = "ready",
             tasks' = [tasks EXCEPT ![t] = call], call.reply = "none",
             \/ wire' = wire
             \/ /\ call.step = "waiting"
                /\ wire' = wire \cup {[op |-> call.op, coid |-> call.coid, task |-> t]}
      PROVE  /\ CallsType'
             /\ \A m \in wire' : Awaited(m)'
             /\ \A u \in Task : Truthful(u)'
  <2>1. tasks'[t] = call /\ \A u \in Task \ {t} : tasks'[u] = tasks[u]
    BY <1>1, <1>7
  <2>2. call.op \in {"place", "cancel"} /\ call.coid \in Coid /\ call.step \in {"ready", "waiting"}
    BY DEF Call
  <2>3. CallsType'
    BY <1>1, <1>7, <2>2 DEF CallsType, Message
  <2>4. \A m \in wire : m.task # t
    <3>. SUFFICES ASSUME NEW m \in wire, m.task = t PROVE FALSE
      OBVIOUS
    <3>1. t # NoTask
      BY BrokerAssumption
    <3>. DEFINE sent == [op |-> m.op, coid |-> m.coid, step |-> "waiting", reply |-> "none"]
    <3>2. tasks[t] = sent
      BY <3>1 DEF Awaited
    <3>3. sent # Idle /\ sent.step = "waiting"
      BY DEF Idle
    <3>. HIDE DEF sent
    <3>. QED  BY <1>7, <3>2, <3>3
  <2>5. ASSUME NEW m \in wire PROVE Awaited(m)'
    BY <1>1, <2>1, <2>4 DEF Awaited, Message
  <2>6. ASSUME NEW m \in wire', m \notin wire PROVE Awaited(m)'
    <3>1. /\ m = [op |-> call.op, coid |-> call.coid, task |-> t] /\ call.step = "waiting"
      BY <1>7, <2>6
    <3>2. call = [op |-> m.op, coid |-> m.coid, step |-> "waiting", reply |-> "none"]
      BY <1>7, <3>1 DEF Call
    <3>. QED  BY <2>1, <3>1, <3>2 DEF Awaited
  <2>7. Truthful(t)'
    BY <1>7, <2>1 DEF Truthful
  <2>8. \A u \in Task \ {t} : Truthful(u)'
    BY <1>4, <2>1
  <2>. QED  BY <2>3, <2>5, <2>6, <2>7, <2>8
<1>8. ASSUME NEW t \in Task, NEW c \in Coid, tasks[t] = Idle, Begin(t, c)
      PROVE  /\ CallsType'
             /\ \A m \in wire' : Awaited(m)'
             /\ \A u \in Task : Truthful(u)'
  <2>. DEFINE call == [op |-> "place", coid |-> c, step |-> "ready", reply |-> "none"]
  <2>1. call \in Call /\ call.reply = "none"
    BY DEF Call
  <2>2. tasks' = [tasks EXCEPT ![t] = call] /\ wire' = wire
    BY <1>8 DEF Begin
  <2>. HIDE DEF call
  <2>. QED  BY <1>7, <1>8, <2>1, <2>2
<1>9. ASSUME NEW t \in Task, Send(t)
      PROVE  /\ CallsType'
             /\ \A m \in wire' : Awaited(m)'
             /\ \A u \in Task : Truthful(u)'
  <2>. DEFINE call == [tasks[t] EXCEPT !.step = "waiting"]
  <2>1. /\ tasks[t] # Idle /\ tasks[t].op = "place" /\ tasks[t].step = "ready"
        /\ tasks' = [tasks EXCEPT ![t] = call]
        /\ wire' = wire \cup {[op |-> "place", coid |-> tasks[t].coid, task |-> t]}
    BY <1>9 DEF Send, Calls
  <2>2. tasks[t] \in Call /\ tasks[t].reply = "none"
    BY <2>1, CallType DEF Truthful
  <2>3. /\ call \in Call /\ call.reply = "none" /\ call.step = "waiting"
        /\ call.op = "place" /\ call.coid = tasks[t].coid
    BY <2>1, <2>2 DEF Call
  <2>. HIDE DEF call
  <2>. QED  BY <1>7, <2>1, <2>3
<1>10. ASSUME NEW t \in Task, NEW c \in Coid, CancelBegins(t, c)
       PROVE  /\ CallsType'
              /\ \A m \in wire' : Awaited(m)'
              /\ \A u \in Task : Truthful(u)'
  <2>. DEFINE call == [op |-> "cancel", coid |-> c, step |-> "waiting", reply |-> "none"]
  <2>1. call \in Call /\ call.reply = "none" /\ call.step = "waiting" /\ call.op = "cancel" /\ call.coid = c
    BY DEF Call
  <2>2. /\ tasks[t] = Idle /\ tasks' = [tasks EXCEPT ![t] = call]
        /\ wire' = wire \cup {[op |-> "cancel", coid |-> c, task |-> t]}
    BY <1>10 DEF CancelBegins
  <2>. HIDE DEF call
  <2>. QED  BY <1>7, <2>1, <2>2
<1>11. ASSUME NEW ts \in SUBSET Task, Quits(ts)
       PROVE  /\ CallsType'
              /\ \A m \in wire' : Awaited(m)'
              /\ \A u \in Task : Truthful(u)'
  <2>1. \A u \in Task : tasks'[u] = IF u \in ts THEN Idle ELSE tasks[u]
    BY <1>11 DEF Quits
  <2>2. \A u \in Task : Truthful(u)'
    BY <1>4, <1>5, <2>1
  <2>3. ASSUME NEW m \in wire' PROVE m \in Message /\ Awaited(m)'
    <3>1. CASE m \in wire /\ m.task \notin ts
      BY <1>1, <2>1, <3>1 DEF Awaited, Message
    <3>2. CASE \E n \in wire : m = [n EXCEPT !.task = NoTask]
      <4>1. PICK n \in wire : m = [n EXCEPT !.task = NoTask]
        BY <3>2
      <4>2. n \in Message
        BY <1>1
      <4>3. m \in Message /\ m.task = NoTask
        BY <4>1, <4>2 DEF Message
      <4>. QED  BY <4>3 DEF Awaited
    <3>. QED  BY <1>11, <3>1, <3>2 DEF Quits, Orphaned
  <2>4. tasks' \in [Task -> Call \cup {Idle}]
    BY <1>1, <1>11 DEF Quits
  <2>. QED  BY <2>2, <2>3, <2>4 DEF CallsType
<1>12. ASSUME NEW m \in wire, Exchange(m)
       PROVE  /\ CallsType'
              /\ \A n \in wire' : Awaited(n)'
              /\ \A u \in Task : Truthful(u)'
  <2>. DEFINE o == OrderOf(m.coid)
  <2>0. o \in OrderId /\ m.coid \in Coid
    BY <1>1, Pairing
  <2>1. PICK reply \in {"accepted", "blank", "denied", "rejected", "conflict", "cancelled"} :
          /\ Handle(m, reply)
          /\ reply = "accepted" => exch'[o].status # "absent"
          /\ reply = "cancelled" => exch'[o].status = "cancelled"
    <3>1. CASE ExchangeAccepts(m)
      <4>1. exch'[o].status = "working"
        BY <1>1, <2>0, <3>1 DEF ExchangeAccepts, ExchangeType
      <4>. QED  BY <3>1, <4>1 DEF ExchangeAccepts
    <3>2. CASE ExchangeRefuses(m)
      <4>1. Handle(m, "denied") \/ Handle(m, "rejected") \/ Handle(m, "conflict")
        BY <3>2, Zenon DEF ExchangeRefuses
      <4>. QED  BY <4>1
    <3>3. CASE ExchangeCancels(m)
      <4>1. \/ Handle(m, "rejected")
            \/ Handle(m, "cancelled") /\ exch'[o].status = "cancelled"
        BY <1>1, <2>0, <3>3 DEF ExchangeCancels, ExchangeType
      <4>. QED  BY <4>1
    <3>. QED  BY <1>12, <3>1, <3>2, <3>3 DEF Exchange
  <2>2. wire' = wire \ {m}
    BY <2>1 DEF Handle
  <2>3. CASE m.task = NoTask
    <3>1. tasks' = tasks
      BY <2>1, <2>3 DEF Handle
    <3>. QED  BY <1>1, <1>4, <2>2, <3>1 DEF CallsType, Awaited
  <2>4. CASE m.task # NoTask
    <3>. DEFINE t == m.task
                call == [tasks[t] EXCEPT !.reply = reply]
    <3>1. t \in Task /\ tasks' = [tasks EXCEPT ![t] = call]
      BY <1>1, <2>1, <2>4 DEF Handle, Message
    <3>. DEFINE sent == [op |-> m.op, coid |-> m.coid, step |-> "waiting", reply |-> "none"]
    <3>2. tasks[t] = sent
      BY <2>4 DEF Awaited
    <3>3. /\ call = [op |-> m.op, coid |-> m.coid, step |-> "waiting", reply |-> reply]
          /\ call \in Call
      BY <1>1, <2>0, <3>2 DEF Call
    <3>4. call.step = "waiting" /\ call.reply = reply /\ call.coid = m.coid
      BY <3>3
    <3>5. ASSUME NEW n \in wire', n.task = t PROVE FALSE
      <4>1. n \in Message /\ m \in Message /\ n # m
        BY <1>1, <2>2
      <4>. DEFINE same == [op |-> n.op, coid |-> n.coid, step |-> "waiting", reply |-> "none"]
      <4>2. tasks[t] = same
        BY <2>2, <2>4, <3>5 DEF Awaited
      <4>3. /\ sent.op = m.op /\ sent.coid = m.coid
            /\ same.op = n.op /\ same.coid = n.coid
        OBVIOUS
      <4>. HIDE DEF sent, same
      <4>4. n.op = m.op /\ n.coid = m.coid
        BY <3>2, <4>2, <4>3
      <4>5. n = m
        BY <3>5, <4>1, <4>4 DEF Message
      <4>. QED  BY <4>1, <4>5
    <3>. HIDE DEF t, call, sent
    <3>6. tasks'[t] = call /\ \A u \in Task \ {t} : tasks'[u] = tasks[u]
      BY <1>1, <3>1
    <3>7. CallsType'
      BY <1>1, <2>2, <3>1, <3>3 DEF CallsType
    <3>8. ASSUME NEW n \in wire' PROVE Awaited(n)'
      BY <1>1, <2>2, <3>5, <3>6 DEF Awaited, Message
    <3>9. Truthful(t)'
      BY <2>1, <3>4, <3>6 DEF Truthful
    <3>. QED  BY <1>4, <3>6, <3>7, <3>8, <3>9
  <2>. QED  BY <2>3, <2>4
<1>. QED  BY <1>6, <1>8, <1>9, <1>10, <1>11, <1>12, CallMoves, StartingBegins

-------------------------------------------------------------------------------
\* Which steps touch the polls and the settled executions: a read copies the exchange's
\* record, and an applied snapshot is one that was read.
LEMMA FillMoves ==
  ASSUME BrokerTypeOK, [BrokerNext]_vars
  PROVE  \/ UNCHANGED <<fills, polls>>
         \/ \E o \in OrderId : ReadFill(o)
         \/ \E poll \in polls : ApplyPoll(poll)
<1>1. UNCHANGED ledgerVars => UNCHANGED fills
  BY DEF ledgerVars
<1>2. \A t, c : PlaceBuy(t, c) \/ PlaceSell(t, c) \/ PlaceRefused(t, c) \/ PlaceCached(t, c)
                  => UNCHANGED <<fills, polls>>
  BY DEF PlaceBuy, PlaceSell, PlaceRefused, PlaceCached, Begin, Reserve, ReserveSell, ledgerVars
<1>3. \A c : Unwind(c) => UNCHANGED fills
  BY DEF Unwind, Release, MarkOrderTerminal
<1>4. \A t : SendFails(t) \/ Send(t) \/ PlaceAccepted(t) \/ PlaceConflict(t) \/ PlaceUnwound(t)
               => UNCHANGED <<fills, polls>>
  BY <1>1, <1>3 DEF SendFails, Send, PlaceAccepted, PlaceConflict, PlaceUnwound, RecordOrder
<1>5. \A t, c : CancelBegins(t, c) \/ CancelConfirmed(t) \/ CancelRefused(t) \/ TimesOut(t)
                  => UNCHANGED <<fills, polls>>
  BY <1>1 DEF CancelBegins, CancelConfirmed, CancelRefused, TimesOut, MarkOrderTerminal
<1>6. \A w : Crash(w) => UNCHANGED <<fills, polls>>
  BY <1>1 DEF Crash
<1>7. \A m : Exchange(m) => UNCHANGED <<fills, polls>>
  BY <1>1 DEF Exchange, ExchangeAccepts, ExchangeRefuses, ExchangeCancels, Handle
<1>8. \A o : Market(o) => UNCHANGED <<fills, polls>>
  <2>1. \A o, p, fee, last : Trade(o, p, fee, last) => UNCHANGED <<ledgerVars, polls>>
    BY Zenon DEF Trade
  <2>2. \A o, fee : Corrected(o, fee) \/ Expires(o) => UNCHANGED <<ledgerVars, polls>>
    BY Zenon DEF Corrected, Expires
  <2>3. \A o : Market(o) => UNCHANGED <<ledgerVars, polls>>
    BY <2>1, <2>2, Zenon DEF Market
  <2>. QED  BY <2>3, <1>1
<1>9. \A c : MarkEnded(c) \/ Reconcile(c) => UNCHANGED <<fills, polls>>
  BY DEF MarkEnded, Reconcile, MarkOrderTerminal, RecordOrder
<1>10. \A cur, amount : Cashflow(cur, amount) => UNCHANGED <<fills, polls>>
  BY DEF Cashflow, brokerVars, RecordCashflow
<1>11. (NextDay /\ UNCHANGED brokerVars) \/ UNCHANGED vars => UNCHANGED <<fills, polls>>
  BY DEF NextDay, brokerVars, vars, ledgerVars
<1>. QED  BY <1>2, <1>4, <1>5, <1>6, <1>7, <1>8, <1>9, <1>10, <1>11, Zenon
          DEF BrokerNext, Place, Resume

PollsType == polls \subseteq [order : OrderId, snapshot : Snapshot]

\* The ledger and every poll stay behind the exchange, in whatever order the polls are
\* read and applied.
LEMMA FillStep ==
  ASSUME BrokerTypeOK, \A o \in OrderId : ExchangeShape(o) /\ Behind(o), [BrokerNext]_vars
  PROVE  PollsType' /\ \A o \in OrderId : Behind(o)'
<1>1. /\ ExchangeType /\ today \in Nat /\ \A m \in wire : m.coid \in Coid
      /\ fills \in [OrderId -> [qty : Nat, cost : Nat, fee : Nat, settles : Nat]]
      /\ PollsType
  BY DEF BrokerTypeOK, LedgerTypeOK, Message, ExchangeType, PollsType
<1>2. \A o \in OrderId : Advances(o)
  BY <1>1, ExchangeStep
<1>3. \A p \in polls : p.order \in OrderId /\ p.snapshot.qty \in Nat /\ p.snapshot.cost \in Nat
  BY <1>1 DEF PollsType, Snapshot
<1>4. \A o \in OrderId : /\ exch[o].qty \in Nat /\ exch[o].cost \in Nat
                         /\ exch'[o].qty \in Nat /\ exch'[o].cost \in Nat
                         /\ fills[o].qty \in Nat /\ fills[o].cost \in Nat
  <2>1. ExchangeType'
    BY <1>1, ExchangeStep
  <2>. QED  BY <1>1, <2>1 DEF ExchangeType
<1>5. CASE UNCHANGED <<fills, polls>>
  <2>1. PollsType'
    BY <1>1, <1>5 DEF PollsType
  <2>2. ASSUME NEW o \in OrderId PROVE Behind(o)'
    <3>1. CASE exch'[o].qty = exch[o].qty /\ exch'[o].cost = exch[o].cost
      BY <1>5, <3>1 DEF Behind, Upto, Consistent
    <3>2. CASE exch'[o].qty = exch[o].qty + 1 /\ exch'[o].cost > exch[o].cost
      BY <1>3, <1>4, <1>5, <3>2 DEF Behind, Upto, Consistent
    <3>. QED  BY <1>2, <3>1, <3>2 DEF Advances
  <2>. QED  BY <2>1, <2>2
<1>6. ASSUME NEW a \in OrderId, ReadFill(a) PROVE PollsType' /\ \A o \in OrderId : Behind(o)'
  <2>. DEFINE read == [order |-> a, snapshot |-> Executed(a)]
  <2>1. /\ exch[a].qty > 0 /\ polls' = polls \cup {read} /\ UNCHANGED <<exch, fills>>
    BY <1>6 DEF ReadFill, ledgerVars
  <2>2. /\ read.order = a /\ read.snapshot = Executed(a)
        /\ Executed(a).qty = exch[a].qty /\ Executed(a).cost = exch[a].cost
    BY DEF Executed
  <2>3. Executed(a) \in Snapshot
    BY <1>1, <2>1 DEF Executed, Snapshot, ExchangeShape, ExchangeType
  <2>. HIDE DEF read
  <2>4. PollsType'
    <3>1. read \in [order : OrderId, snapshot : Snapshot]
      BY <2>3 DEF read
    <3>. QED  BY <1>1, <2>1, <3>1 DEF PollsType
  <2>5. ASSUME NEW o \in OrderId PROVE Behind(o)'
    <3>1. ASSUME NEW p \in polls', p.order = o
          PROVE  /\ Upto(p.snapshot, exch[o])
                 /\ Consistent(p.snapshot, exch[o])
                 /\ Consistent(p.snapshot, fills[o])
      <4>1. CASE p \in polls
        BY <3>1, <4>1 DEF Behind
      <4>2. CASE p = read
        <5>1. p.snapshot.qty = exch[o].qty /\ p.snapshot.cost = exch[o].cost
          BY <2>2, <3>1, <4>2
        <5>2. Consistent(fills[o], exch[o])
          BY DEF Behind
        <5>. QED  BY <1>4, <5>1, <5>2 DEF Upto, Consistent
      <4>. QED  BY <2>1, <4>1, <4>2
    <3>2. ASSUME NEW p \in polls', NEW q \in polls', p.order = o, q.order = o
          PROVE  Consistent(p.snapshot, q.snapshot)
      <4>1. CASE p = read
        <5>1. p.snapshot.qty = exch[o].qty /\ p.snapshot.cost = exch[o].cost
          BY <2>2, <3>2, <4>1
        <5>2. Consistent(q.snapshot, exch[o])
          BY <3>1, <3>2
        <5>. QED  BY <5>1, <5>2 DEF Consistent
      <4>2. CASE q = read
        <5>1. q.snapshot.qty = exch[o].qty /\ q.snapshot.cost = exch[o].cost
          BY <2>2, <3>2, <4>2
        <5>2. Consistent(p.snapshot, exch[o])
          BY <3>1, <3>2
        <5>. QED  BY <5>1, <5>2 DEF Consistent
      <4>3. CASE p \in polls /\ q \in polls
        BY <3>2, <4>3 DEF Behind
      <4>. QED  BY <2>1, <4>1, <4>2, <4>3
    <3>3. Upto(fills[o], exch[o]) /\ Consistent(fills[o], exch[o])
      BY DEF Behind
    <3>. QED  BY <2>1, <3>1, <3>2, <3>3 DEF Behind
  <2>. QED  BY <2>4, <2>5
<1>7. ASSUME NEW poll \in polls, ApplyPoll(poll) PROVE PollsType' /\ \A o \in OrderId : Behind(o)'
  <2>1. polls' \subseteq polls /\ exch' = exch
    BY <1>7 DEF ApplyPoll
  <2>2. \/ fills' = fills
        \/ fills' = [fills EXCEPT ![poll.order] = poll.snapshot]
    BY <1>7 DEF ApplyPoll, ApplyFill, ledgerVars
  <2>3. \A o \in OrderId : fills'[o] = fills[o] \/ (o = poll.order /\ fills'[o] = poll.snapshot)
    BY <1>1, <1>3, <2>2
  <2>4. ASSUME NEW o \in OrderId PROVE Behind(o)'
    <3>1. CASE fills'[o] = fills[o]
      BY <2>1, <3>1 DEF Behind
    <3>2. CASE o = poll.order /\ fills'[o] = poll.snapshot
      BY <2>1, <3>2 DEF Behind
    <3>. QED  BY <2>3, <3>1, <3>2
  <2>. QED  BY <1>1, <2>1, <2>4 DEF PollsType
<1>. QED  BY <1>5, <1>6, <1>7, FillMoves

-------------------------------------------------------------------------------
\* What an operation makes of a row: it stays, it takes another status, it is written again
\* with its own order id, or by reserve_sell without one, which keeps an earlier id.
LEMMA RowMoves ==
  ASSUME BrokerTypeOK, [BrokerNext]_vars, NEW c \in Coid
  PROVE  \/ orders'[c] = orders[c]
         \/ /\ orders[c] # NoOrder
            /\ \E status \in OpenStatus \cup TerminalStatus :
                 orders'[c] = [orders[c] EXCEPT !.status = status]
         \/ /\ orders'[c] \in OrderRow /\ orders'[c].status = "pending"
            /\ orders'[c].symbol = Request[c].symbol /\ orders'[c].side = Request[c].side
            /\ orders'[c].qty = Request[c].qty
            /\ \/ orders'[c].orderId = OrderOf(c)
               \/ orders[c] = NoOrder /\ orders'[c].orderId = NoId
               \/ orders[c] # NoOrder /\ orders'[c].orderId = orders[c].orderId
<1>1. orders \in [Coid -> OrderRow \cup {NoOrder}] /\ LedgerTypeOK /\ LedgerTypeOK'
  BY LedgerTyped DEF BrokerTypeOK, LedgerTypeOK
<1>2. CASE UNCHANGED orders
  BY <1>2
<1>3. ASSUME NEW d \in Coid, NEW id \in {OrderOf(d), NoId},
             id = NoId => Request[d].side = "sell",
             orders' = WriteOrder(d, id, Request[d].symbol, Request[d].side, Request[d].currency,
                                  Request[d].qty)
      PROVE  \/ orders'[c] = orders[c]
             \/ /\ orders'[c] \in OrderRow /\ orders'[c].status = "pending"
                /\ orders'[c].symbol = Request[c].symbol /\ orders'[c].side = Request[c].side
                /\ orders'[c].qty = Request[c].qty
                /\ \/ orders'[c].orderId = OrderOf(c)
                   \/ orders[c] = NoOrder /\ orders'[c].orderId = NoId
                   \/ orders[c] # NoOrder /\ orders'[c].orderId = orders[c].orderId
  <2>1. CASE c # d
    BY <1>1, <1>3, <2>1 DEF WriteOrder
  <2>2. CASE c = d
    <3>. DEFINE kept == IF id = NoId /\ orders[c] # NoOrder THEN orders[c].orderId ELSE id
                row  == [status |-> "pending", orderId |-> kept, symbol |-> Request[c].symbol,
                         side |-> Request[c].side, currency |-> Request[c].currency,
                         qty |-> Request[c].qty]
    <3>1. orders' = [orders EXCEPT ![c] = row]
      BY <1>3, <2>2 DEF WriteOrder
    <3>2. \/ kept = id /\ (id = OrderOf(c) \/ orders[c] = NoOrder)
          \/ kept = orders[c].orderId /\ orders[c] # NoOrder
      BY <1>3, <2>2
    <3>3. /\ row.status = "pending" /\ row.symbol = Request[c].symbol /\ row.side = Request[c].side
          /\ row.qty = Request[c].qty /\ row.orderId = kept
      OBVIOUS
    <3>4. row # NoOrder
      <4>1. "qty" \in DOMAIN row /\ "qty" \notin DOMAIN NoOrder
        BY DEF NoOrder
      <4>. HIDE DEF row
      <4>. QED  BY <4>1
    <3>. HIDE DEF row, kept
    <3>5. orders'[c] = row
      BY <1>1, <3>1
    <3>6. orders'[c] \in OrderRow \cup {NoOrder}
      BY <1>1 DEF LedgerTypeOK
    <3>. QED  BY <1>3, <2>2, <3>2, <3>3, <3>4, <3>5, <3>6
  <2>. QED  BY <2>1, <2>2
<1>4. ASSUME NEW d \in Coid, NEW status \in TerminalStatus, MarkOrderTerminal(d, status)
      PROVE  \/ orders'[c] = orders[c]
             \/ orders[c] # NoOrder /\ orders'[c] = [orders[c] EXCEPT !.status = status]
  BY <1>1, <1>4 DEF MarkOrderTerminal
<1>5. ASSUME NEW poll \in polls, ApplyFill(poll.order, poll.snapshot)
      PROVE  \/ orders'[c] = orders[c]
             \/ /\ orders[c] # NoOrder
                /\ \E status \in OpenStatus \cup TerminalStatus :
                     orders'[c] = [orders[c] EXCEPT !.status = status]
  <2>. DEFINE d == Attr[poll.order].coid
              status == FillStatus(d, poll.snapshot)
  <2>1. \/ orders' = orders
        \/ orders[d] # NoOrder /\ orders' = [orders EXCEPT ![d].status = status]
    BY <1>5 DEF ApplyFill
  <2>2. status \in OpenStatus \cup TerminalStatus
    BY DEF FillStatus, OpenStatus, TerminalStatus
  <2>. HIDE DEF d, status
  <2>. QED  BY <1>1, <2>1, <2>2
<1>6. \A d, cur, amount : Reserve(d, cur, amount) => UNCHANGED orders
  BY DEF Reserve
<1>7. \A d : Release(d) => UNCHANGED orders
  BY DEF Release
<1>8. \A cur, amount : RecordCashflow(cur, amount) => UNCHANGED orders
  BY DEF RecordCashflow
<1>9. NextDay \/ UNCHANGED ledgerVars => UNCHANGED orders
  BY DEF NextDay, ledgerVars
<1>10. ASSUME NEW d \in Coid, Request[d].side = "sell",
              ReserveSell(d, Request[d].symbol, Request[d].currency, Request[d].qty)
       PROVE  orders' = WriteOrder(d, NoId, Request[d].symbol, Request[d].side,
                                   Request[d].currency, Request[d].qty)
  BY <1>10 DEF ReserveSell
<1>11. ASSUME NEW d \in Coid,
              RecordOrder(d, OrderOf(d), Request[d].symbol, Request[d].side, Request[d].currency,
                          Request[d].qty)
       PROVE  /\ OrderOf(d) # NoId
              /\ orders' = WriteOrder(d, OrderOf(d), Request[d].symbol, Request[d].side,
                                      Request[d].currency, Request[d].qty)
  <2>1. OrderOf(d) # NoId
    BY ConstantTypes, Pairing
  <2>. QED  BY <1>11, <2>1 DEF RecordOrder
<1>. QED  BY <1>2, <1>3, <1>4, <1>5, <1>6, <1>7, <1>8, <1>9, <1>10, <1>11, LedgerMoves, Zenon

\* A row goes on saying what was asked for, and never loses its order id.
LEMMA RowStep ==
  ASSUME BrokerTypeOK, \A c \in Coid : RowMatches(c), [BrokerNext]_vars, NEW c \in Coid
  PROVE  /\ RowMatches(c)'
         /\ orders[c] # NoOrder => orders'[c] # NoOrder
         /\ orders[c] # NoOrder /\ orders[c].orderId = OrderOf(c) => orders'[c].orderId = OrderOf(c)
<1>1. orders[c] \in OrderRow \cup {NoOrder}
  BY DEF BrokerTypeOK, LedgerTypeOK
<1>2. \A row \in OrderRow : row # NoOrder
  <2>. SUFFICES ASSUME NEW row \in OrderRow PROVE row # NoOrder
    OBVIOUS
  <2>1. "qty" \in DOMAIN row /\ "qty" \notin DOMAIN NoOrder
    BY DEF OrderRow, NoOrder
  <2>. QED  BY <2>1
<1>3. CASE orders'[c] = orders[c]
  BY <1>3 DEF RowMatches
<1>4. ASSUME NEW status \in OpenStatus \cup TerminalStatus, orders[c] # NoOrder,
             orders'[c] = [orders[c] EXCEPT !.status = status]
      PROVE  /\ RowMatches(c)' /\ orders'[c] # NoOrder /\ orders'[c].orderId = orders[c].orderId
  <2>. DEFINE row == [orders[c] EXCEPT !.status = status]
  <2>1. orders[c] \in OrderRow
    BY <1>1, <1>4
  <2>2. /\ row \in OrderRow
        /\ row.symbol = orders[c].symbol /\ row.side = orders[c].side
        /\ row.qty = orders[c].qty /\ row.orderId = orders[c].orderId
    BY <2>1 DEF OrderRow
  <2>. HIDE DEF row
  <2>3. orders'[c] = row
    BY <1>4 DEF row
  <2>. QED  BY <1>2, <1>4, <2>2, <2>3 DEF RowMatches
<1>5. CASE /\ orders'[c] \in OrderRow /\ orders'[c].status = "pending"
           /\ orders'[c].symbol = Request[c].symbol /\ orders'[c].side = Request[c].side
           /\ orders'[c].qty = Request[c].qty
           /\ \/ orders'[c].orderId = OrderOf(c)
              \/ orders[c] = NoOrder /\ orders'[c].orderId = NoId
              \/ orders[c] # NoOrder /\ orders'[c].orderId = orders[c].orderId
  BY <1>2, <1>5 DEF RowMatches
<1>. QED  BY <1>3, <1>4, <1>5, RowMoves

-------------------------------------------------------------------------------
\* Which steps touch the acks and the plans: an accepted order is cached by its worker, a
\* plan is logged for an order whose ack is cached, and a crash forgets both.
LEMMA AckMoves ==
  ASSUME BrokerTypeOK, [BrokerNext]_vars
  PROVE  \/ UNCHANGED <<acks, plans>>
         \/ \E t \in Task : PlaceAccepted(t)
         \/ \E t \in Task, c \in Coid : c \in acks[Home[t]] /\ UNCHANGED acks /\ Logs(t, c)
         \/ \E w \in Worker : Crash(w)
<1>1. \A t, c : PlaceBuy(t, c) \/ PlaceSell(t, c) \/ PlaceRefused(t, c) \/ CancelBegins(t, c)
                  => UNCHANGED <<acks, plans>>
  BY DEF PlaceBuy, PlaceSell, PlaceRefused, CancelBegins, Begin
<1>2. \A t, c : PlaceCached(t, c) => c \in acks[Home[t]] /\ UNCHANGED acks /\ Logs(t, c)
  BY DEF PlaceCached
<1>3. \A t : SendFails(t) \/ Send(t) \/ PlaceUnwound(t) \/ CancelConfirmed(t) \/ CancelRefused(t)
               \/ TimesOut(t) => UNCHANGED <<acks, plans>>
  BY DEF SendFails, Send, PlaceUnwound, CancelConfirmed, CancelRefused, TimesOut
<1>4. ASSUME NEW t \in Task, PlaceConflict(t)
      PROVE  \/ UNCHANGED <<acks, plans>>
             \/ \E c \in Coid : c \in acks[Home[t]] /\ UNCHANGED acks /\ Logs(t, c)
  <2>1. tasks[t].coid \in Coid
    BY <1>4, CallType DEF PlaceConflict, Answered, Calls
  <2>. QED  BY <1>4, <2>1 DEF PlaceConflict
<1>5. \A m : Exchange(m) => UNCHANGED <<acks, plans>>
  BY DEF Exchange, ExchangeAccepts, ExchangeRefuses, ExchangeCancels, Handle
<1>6. \A o : Market(o) \/ ReadFill(o) => UNCHANGED <<acks, plans>>
  <2>1. \A o, p, fee, last : Trade(o, p, fee, last) => UNCHANGED <<acks, plans>>
    BY Zenon DEF Trade
  <2>2. \A o, fee : Corrected(o, fee) \/ Expires(o) \/ ReadFill(o) => UNCHANGED <<acks, plans>>
    BY Zenon DEF Corrected, Expires, ReadFill
  <2>. QED  BY <2>1, <2>2, Zenon DEF Market
<1>7. \A poll, c : ApplyPoll(poll) \/ MarkEnded(c) \/ Reconcile(c) => UNCHANGED <<acks, plans>>
  BY DEF ApplyPoll, MarkEnded, Reconcile
<1>8. \A cur, amount : Cashflow(cur, amount) => UNCHANGED <<acks, plans>>
  BY DEF Cashflow, brokerVars
<1>9. UNCHANGED brokerVars \/ UNCHANGED vars => UNCHANGED <<acks, plans>>
  BY DEF brokerVars, vars
<1>. QED  BY <1>1, <1>2, <1>3, <1>4, <1>5, <1>6, <1>7, <1>8, <1>9, Zenon
          DEF BrokerNext, Place, Resume

AcksType == acks \in [Worker -> SUBSET Coid] /\ plans \in [Worker -> SUBSET Planned]

\* An ack goes on leading to its order and to its row.
LEMMA AckStep ==
  ASSUME BrokerTypeOK, \A o \in OrderId : ExchangeShape(o), \A c \in Coid : RowMatches(c),
         \A t \in Task : Truthful(t), \A w \in Worker : Resolves(w), [BrokerNext]_vars
  PROVE  AcksType' /\ \A w \in Worker : Resolves(w)'
<1>. DEFINE Leads(c) == /\ exch[OrderOf(c)].status # "absent"
                        /\ orders[c] # NoOrder /\ orders[c].orderId = OrderOf(c)
<1>1. /\ AcksType /\ ExchangeType /\ today \in Nat /\ \A m \in wire : m.coid \in Coid
      /\ Planned \subseteq Coid /\ \A t \in Task : Home[t] \in Worker
  BY BrokerAssumption DEF BrokerTypeOK, AcksType, ExchangeType, LedgerTypeOK, Message
<1>2. ASSUME NEW c \in Coid, Leads(c) PROVE Leads(c)'
  <2>1. OrderOf(c) \in OrderId
    BY Pairing
  <2>2. exch'[OrderOf(c)].status # "absent"
    BY <1>1, <1>2, <2>1, ExchangeStep DEF Advances
  <2>. QED  BY <1>2, <2>2, RowStep
<1>3. \A w \in Worker : \A c \in acks[w] \cup plans[w] : c \in Coid /\ Leads(c)
  BY <1>1 DEF AcksType, Resolves
<1>. SUFFICES AcksType' /\ \A w \in Worker : \A c \in acks'[w] \cup plans'[w] : Leads(c)'
  BY Zenon DEF Resolves
<1>. HIDE DEF Leads
<1>4. CASE UNCHANGED <<acks, plans>>
  BY <1>1, <1>2, <1>3, <1>4 DEF AcksType
<1>5. ASSUME NEW t \in Task, NEW c \in Coid, UNCHANGED plans \/ Logs(t, c),
             UNCHANGED acks \/ acks' = [acks EXCEPT ![Home[t]] = @ \cup {c}], Leads(c)'
      PROVE  AcksType' /\ \A w \in Worker : \A d \in acks'[w] \cup plans'[w] : Leads(d)'
  <2>1. \/ plans' = plans
        \/ c \in Planned /\ plans' = [plans EXCEPT ![Home[t]] = @ \cup {c}]
    BY <1>5 DEF Logs
  <2>2. AcksType'
    BY <1>1, <1>5, <2>1 DEF AcksType
  <2>3. ASSUME NEW w \in Worker, NEW d \in acks'[w] \cup plans'[w] PROVE Leads(d)'
    <3>1. d = c \/ d \in acks[w] \cup plans[w]
      BY <1>1, <1>5, <2>1 DEF AcksType
    <3>. QED  BY <1>2, <1>3, <1>5, <3>1
  <2>. QED  BY <2>2, <2>3
<1>6. ASSUME NEW t \in Task, PlaceAccepted(t)
      PROVE  AcksType' /\ \A w \in Worker : \A c \in acks'[w] \cup plans'[w] : Leads(c)'
  <2>0. PICK c \in Coid : c = tasks[t].coid
    BY <1>6, CallType DEF PlaceAccepted, Answered, Calls
  <2>1. /\ tasks[t] # Idle /\ tasks[t].reply = "accepted"
        /\ acks' = [acks EXCEPT ![Home[t]] = @ \cup {c}] /\ Logs(t, c)
        /\ RecordOrder(c, OrderOf(c), Request[c].symbol, Request[c].side, Request[c].currency,
                       Request[c].qty)
    BY <1>6, <2>0 DEF PlaceAccepted, Answered, Calls
  <2>3. exch[OrderOf(c)].status # "absent"
    BY <2>0, <2>1 DEF Truthful
  <2>4. OrderOf(c) \in OrderId /\ OrderOf(c) # NoId
    BY Pairing, ConstantTypes
  <2>5. exch'[OrderOf(c)].status # "absent"
    BY <1>1, <2>3, <2>4, ExchangeStep DEF Advances
  <2>6. orders'[c] # NoOrder /\ orders'[c].orderId = OrderOf(c)
    <3>. DEFINE row == [status |-> "pending", orderId |-> OrderOf(c), symbol |-> Request[c].symbol,
                        side |-> Request[c].side, currency |-> Request[c].currency,
                        qty |-> Request[c].qty]
    <3>1. orders' = [orders EXCEPT ![c] = row]
      BY <2>1, <2>4 DEF RecordOrder, WriteOrder
    <3>2. row.orderId = OrderOf(c) /\ "qty" \in DOMAIN row /\ "qty" \notin DOMAIN NoOrder
      BY DEF NoOrder
    <3>. HIDE DEF row
    <3>3. orders'[c] = row
      BY <3>1 DEF BrokerTypeOK, LedgerTypeOK
    <3>. QED  BY <3>2, <3>3
  <2>7. Leads(c)'
    BY <2>5, <2>6 DEF Leads
  <2>8. UNCHANGED plans \/ Logs(t, c)
    BY <2>1
  <2>9. UNCHANGED acks \/ acks' = [acks EXCEPT ![Home[t]] = @ \cup {c}]
    BY <2>1
  <2>. QED  BY <1>5, <2>7, <2>8, <2>9
<1>7. ASSUME NEW t \in Task, NEW c \in Coid, c \in acks[Home[t]], UNCHANGED acks, Logs(t, c)
      PROVE  AcksType' /\ \A w \in Worker : \A d \in acks'[w] \cup plans'[w] : Leads(d)'
  <2>1. Leads(c)'
    BY <1>1, <1>2, <1>3, <1>7
  <2>. QED  BY <1>5, <1>7, <2>1
<1>8. ASSUME NEW v \in Worker, Crash(v)
      PROVE  AcksType' /\ \A w \in Worker : \A c \in acks'[w] \cup plans'[w] : Leads(c)'
  <2>1. acks' = [acks EXCEPT ![v] = {}] /\ plans' = [plans EXCEPT ![v] = {}]
    BY <1>8 DEF Crash
  <2>2. \A w \in Worker : acks'[w] \cup plans'[w] \subseteq acks[w] \cup plans[w]
    BY <1>1, <2>1 DEF AcksType
  <2>3. AcksType'
    BY <1>1, <2>1 DEF AcksType
  <2>. QED  BY <1>2, <1>3, <2>2, <2>3
<1>. QED  BY <1>4, <1>6, <1>7, <1>8, AckMoves

-------------------------------------------------------------------------------
\* What a step does to what the consumer knows.
LEMMA KnownMoves ==
  ASSUME BrokerTypeOK, [BrokerNext]_vars
  PROVE  \/ UNCHANGED known
         \/ \E c : \E what \in Known : Told(c, what)
         \/ \E w \in Worker : Crash(w)
<1>. USE DEF Known
<1>1. \A t, c : PlaceBuy(t, c) \/ PlaceSell(t, c) \/ PlaceRefused(t, c) \/ PlaceCached(t, c)
                  => \E d : \E what \in Known : Told(d, what)
  BY DEF PlaceBuy, PlaceSell, PlaceRefused, PlaceCached, Begin, Told
<1>2. \A t : SendFails(t) => \E d : \E what \in Known : Told(d, what)
  BY DEF SendFails
<1>3. \A t : Send(t) \/ CancelRefused(t) => UNCHANGED known
  BY DEF Send, CancelRefused
<1>4. \A t : PlaceAccepted(t) \/ PlaceConflict(t) => \E d : \E what \in Known : Told(d, what)
  BY DEF PlaceAccepted, PlaceConflict
<1>5. \A t : PlaceUnwound(t) => \E d : \E what \in Known : Told(d, what)
  <2>. SUFFICES ASSUME NEW t, PlaceUnwound(t) PROVE \E d : \E what \in Known : Told(d, what)
    OBVIOUS
  <2>1. Told(tasks[t].coid, "new") \/ Told(tasks[t].coid, "refused")
    BY Zenon DEF PlaceUnwound
  <2>. QED  BY <2>1
<1>6. \A t, c : CancelBegins(t, c) => UNCHANGED known
  BY DEF CancelBegins
<1>7. \A t : CancelConfirmed(t) => \E d : \E what \in Known : Told(d, what)
  <2>1. \A t : CancelConfirmed(t) => Told(tasks[t].coid, "closed")
    BY Zenon DEF CancelConfirmed
  <2>. QED  BY <2>1
<1>8. \A t : TimesOut(t) => UNCHANGED known \/ \E d : \E what \in Known : Told(d, what)
  BY DEF TimesOut
<1>9. \A m : Exchange(m) => UNCHANGED known
  BY DEF Exchange, ExchangeAccepts, ExchangeRefuses, ExchangeCancels, Handle
<1>10. \A o : Market(o) \/ ReadFill(o) => UNCHANGED known
  <2>1. \A o, p, fee, last : Trade(o, p, fee, last) => UNCHANGED known
    BY Zenon DEF Trade
  <2>2. \A o, fee : Corrected(o, fee) \/ Expires(o) \/ ReadFill(o) => UNCHANGED known
    BY Zenon DEF Corrected, Expires, ReadFill
  <2>. QED  BY <2>1, <2>2, Zenon DEF Market
<1>11. \A poll : ApplyPoll(poll) => UNCHANGED known
  BY DEF ApplyPoll
<1>12. \A c : MarkEnded(c) \/ Reconcile(c) => \E d : \E what \in Known : Told(d, what)
  BY DEF MarkEnded, Reconcile
<1>13. \A cur, amount : Cashflow(cur, amount) => UNCHANGED known
  BY DEF Cashflow, brokerVars
<1>14. UNCHANGED brokerVars \/ UNCHANGED vars => UNCHANGED known
  BY DEF brokerVars, vars
<1>. HIDE DEF Known
<1>. QED  BY <1>1, <1>2, <1>3, <1>4, <1>5, <1>6, <1>7, <1>8, <1>9, <1>10, <1>11, <1>12, <1>13,
          <1>14, Zenon DEF BrokerNext, Place, Resume

\* So the consumer's knowledge of an order keeps its type.
LEMMA KnownStep ==
  ASSUME BrokerTypeOK, [BrokerNext]_vars
  PROVE  known' \in [Coid -> Known]
<1>1. known \in [Coid -> Known]
  BY DEF BrokerTypeOK
<1>2. \A c : \A what \in Known : Told(c, what) => known' \in [Coid -> Known]
  BY <1>1 DEF Told
<1>3. \A w \in Worker : Crash(w) => known' \in [Coid -> Known]
  BY <1>1 DEF Crash, Known
<1>. QED  BY <1>1, <1>2, <1>3, KnownMoves

\* Only cancel() closes an order whose last execution may not be settled.
LEMMA MissedMoves ==
  ASSUME [BrokerNext]_vars
  PROVE  UNCHANGED missed \/ \E t \in Task : CancelConfirmed(t)
<1>1. \A t, c : PlaceBuy(t, c) \/ PlaceSell(t, c) \/ PlaceRefused(t, c) \/ PlaceCached(t, c)
                  \/ CancelBegins(t, c) => UNCHANGED missed
  BY DEF PlaceBuy, PlaceSell, PlaceRefused, PlaceCached, CancelBegins, Begin
<1>2. \A t : SendFails(t) \/ Send(t) \/ PlaceAccepted(t) \/ PlaceConflict(t) \/ PlaceUnwound(t)
               \/ CancelRefused(t) \/ TimesOut(t) => UNCHANGED missed
  BY DEF SendFails, Send, PlaceAccepted, PlaceConflict, PlaceUnwound, CancelRefused, TimesOut
<1>3. \A w, m : Crash(w) \/ Exchange(m) => UNCHANGED missed
  BY DEF Crash, Exchange, ExchangeAccepts, ExchangeRefuses, ExchangeCancels, Handle
<1>4. \A o : Market(o) \/ ReadFill(o) => UNCHANGED missed
  <2>1. \A o, p, fee, last : Trade(o, p, fee, last) => UNCHANGED missed
    BY Zenon DEF Trade
  <2>2. \A o, fee : Corrected(o, fee) \/ Expires(o) \/ ReadFill(o) => UNCHANGED missed
    BY Zenon DEF Corrected, Expires, ReadFill
  <2>. QED  BY <2>1, <2>2, Zenon DEF Market
<1>5. \A poll, c : ApplyPoll(poll) \/ MarkEnded(c) \/ Reconcile(c) => UNCHANGED missed
  BY DEF ApplyPoll, MarkEnded, Reconcile
<1>6. \A cur, amount : Cashflow(cur, amount) => UNCHANGED missed
  BY DEF Cashflow, brokerVars
<1>7. UNCHANGED brokerVars \/ UNCHANGED vars => UNCHANGED missed
  BY DEF brokerVars, vars
<1>. QED  BY <1>1, <1>2, <1>3, <1>4, <1>5, <1>6, <1>7, Zenon DEF BrokerNext, Place, Resume

\* The gap is never negative: the ledger is behind the exchange.
LEMMA MissedStep ==
  ASSUME BrokerTypeOK, \A o \in OrderId : Behind(o), [BrokerNext]_vars
  PROVE  missed' \in [OrderId -> [qty : Nat, cost : Nat]]
<1>1. missed \in [OrderId -> [qty : Nat, cost : Nat]]
  BY DEF BrokerTypeOK
<1>2. ASSUME NEW t \in Task, CancelConfirmed(t) PROVE missed' \in [OrderId -> [qty : Nat, cost : Nat]]
  <2>. DEFINE o == OrderOf(tasks[t].coid)
              gap == [qty |-> exch[o].qty - fills[o].qty, cost |-> exch[o].cost - fills[o].cost]
  <2>1. missed' = [missed EXCEPT ![o] = gap]
    BY <1>2 DEF CancelConfirmed
  <2>2. o \in OrderId
    BY <1>2, CallType, Pairing DEF CancelConfirmed, Answered, Calls
  <2>. HIDE DEF o
  <2>3. Upto(fills[o], exch[o])
    BY <2>2 DEF Behind
  <2>4. /\ exch[o].qty \in Nat /\ exch[o].cost \in Nat
        /\ fills[o].qty \in Nat /\ fills[o].cost \in Nat
    BY <2>2 DEF BrokerTypeOK, LedgerTypeOK
  <2>5. gap \in [qty : Nat, cost : Nat]
    BY <2>3, <2>4 DEF Upto
  <2>. HIDE DEF gap
  <2>. QED  BY <1>1, <2>1, <2>5
<1>. QED  BY <1>1, <1>2, MissedMoves

-------------------------------------------------------------------------------
\* A ledger that has settled the seeded orders, and an exchange that has them done.
LEMMA BaseInit == BrokerInit => BaseInv
<1>. SUFFICES ASSUME BrokerInit PROVE BaseInv
  OBVIOUS
<1>1. fills \in [OrderId -> [qty : Nat, cost : Nat, fee : Nat, settles : Nat]]
  <2>1. \A o \in DOMAIN Seed : Seed[o] \in [qty : Nat, cost : Nat, fee : Nat, settles : Nat]
    BY BrokerAssumption DEF Snapshot
  <2>2. NoExecution \in [qty : Nat, cost : Nat, fee : Nat, settles : Nat]
    BY DEF NoExecution
  <2>. QED  BY <2>1, <2>2 DEF BrokerInit
<1>2. /\ exch \in [OrderId -> [status : {"absent", "working", "done", "cancelled"},
                              qty : Nat, cost : Nat, fee : Nat, settles : Nat]]
      /\ \A o \in OrderId : /\ exch[o].qty = fills[o].qty /\ exch[o].cost = fills[o].cost
                            /\ exch[o].status = IF o \in DOMAIN Seed THEN "done" ELSE "absent"
  BY <1>1 DEF BrokerInit
<1>3. \A o \in OrderId : /\ o \in DOMAIN Seed => /\ fills[o] = Seed[o] /\ Seed[o] \in Snapshot
                         /\ o \notin DOMAIN Seed => fills[o].qty = 0 /\ fills[o].cost = 0
  BY BrokerAssumption DEF BrokerInit, NoExecution
<1>4. \A o \in OrderId : ExchangeShape(o)
  <2>. SUFFICES ASSUME NEW o \in OrderId PROVE ExchangeShape(o)
    OBVIOUS
  <2>1. OrderedQty(o) = Request[Attr[o].coid].qty
    BY DEF OrderedQty
  <2>2. CASE o \in DOMAIN Seed
    <3>1. Request[Attr[o].coid].qty \in {0, Seed[o].qty}
      <4>1. \A a \in DOMAIN Seed : /\ Request[Attr[a].coid].qty \in {0, Seed[a].qty}
                                   /\ Attr[a].side = "sell" => Seed[a].settles > 0
        BY SeedAssumption, Zenon
      <4>. QED  BY <2>2, <4>1
    <3>2. /\ exch[o].status = "done" /\ exch[o].qty = Seed[o].qty /\ exch[o].cost = Seed[o].cost
      BY <1>2, <1>3, <2>2
    <3>3. Seed[o].qty \in Nat \ {0} /\ Seed[o].cost \in Nat \ {0}
      BY <1>3, <2>2 DEF Snapshot
    <3>. QED  BY <2>1, <3>1, <3>2, <3>3 DEF ExchangeShape
  <2>3. CASE o \notin DOMAIN Seed
    <3>1. OrderedQty(o) \in Nat
      BY RequestTypes, Pairing
    <3>. QED  BY <1>2, <1>3, <2>3, <3>1 DEF ExchangeShape
  <2>. QED  BY <2>2, <2>3
<1>5. polls = {} /\ wire = {}
  BY DEF BrokerInit
<1>6. \A o \in OrderId : Behind(o)
  BY <1>1, <1>2, <1>5 DEF Behind, Upto, Consistent
<1>7. orders \in [Coid -> OrderRow \cup {NoOrder}] /\ \A c \in Coid : RowMatches(c)
  <2>. DEFINE row(c) == [status |-> "filled", orderId |-> OrderOf(c), symbol |-> Request[c].symbol,
                         side |-> Request[c].side, currency |-> Request[c].currency,
                         qty |-> Request[c].qty]
  <2>1. ASSUME NEW c \in Coid
        PROVE  /\ row(c) \in OrderRow
               /\ row(c).symbol = Request[c].symbol /\ row(c).side = Request[c].side
               /\ row(c).qty = Request[c].qty /\ row(c).orderId = OrderOf(c)
    BY RequestTypes, Pairing DEF OrderRow, TerminalStatus
  <2>2. orders = [c \in Coid |-> IF Seeded(c) THEN row(c) ELSE NoOrder]
    BY DEF BrokerInit
  <2>. HIDE DEF row
  <2>. QED  BY <2>1, <2>2 DEF RowMatches
<1>8. cash \in [Currency -> Int]
  <2>1. \A cur \in Currency : SettledCash(cur) \in Int
    BY <1>1, SettledCashType
  <2>2. \A cur \in Currency : Allocated(cur) \in Int
    BY ConstantTypes DEF Allocated
  <2>3. cash = [cur \in Currency |-> Allocated(cur) + SettledCash(cur)]
    BY DEF BrokerInit
  <2>. QED  BY <2>1, <2>2, <2>3
<1>9. LedgerTypeOK
  BY <1>1, <1>7, <1>8 DEF BrokerInit, LedgerTypeOK
<1>10. known \in [Coid -> Known] /\ missed \in [OrderId -> [qty : Nat, cost : Nat]]
  BY DEF BrokerInit, Known
<1>11. tasks = [t \in Task |-> Idle] /\ acks = [w \in Worker |-> {}] /\ plans = [w \in Worker |-> {}]
  BY DEF BrokerInit
<1>12. BrokerTypeOK
  BY <1>2, <1>5, <1>9, <1>10, <1>11 DEF BrokerTypeOK
<1>13. \A w \in Worker : Resolves(w)
  BY <1>11 DEF Resolves
<1>14. \A t \in Task : Truthful(t)
  BY <1>11 DEF Truthful
<1>. QED  BY <1>4, <1>5, <1>6, <1>7, <1>12, <1>13, <1>14 DEF BaseInv

\* Every step keeps it, whatever the environment does.
LEMMA BaseStep == BaseInv /\ [BrokerNext]_vars => BaseInv'
<1>. SUFFICES ASSUME BaseInv, [BrokerNext]_vars PROVE BaseInv'
  OBVIOUS
<1>. USE DEF BaseInv
<1>1. ExchangeType /\ today \in Nat /\ \A m \in wire : m.coid \in Coid
  BY DEF BrokerTypeOK, LedgerTypeOK, Message, ExchangeType
<1>2. ExchangeType' /\ \A o \in OrderId : ExchangeShape(o)'
  BY <1>1, ExchangeStep
<1>3. PollsType' /\ \A o \in OrderId : Behind(o)'
  BY FillStep
<1>4. \A c \in Coid : RowMatches(c)'
  BY RowStep
<1>5. CallsType' /\ (\A m \in wire' : Awaited(m)') /\ \A t \in Task : Truthful(t)'
  BY CallStep
<1>6. AcksType' /\ \A w \in Worker : Resolves(w)'
  BY AckStep
<1>7. BrokerTypeOK'
  BY <1>2, <1>3, <1>5, <1>6, LedgerTyped, KnownStep, MissedStep
     DEF BrokerTypeOK, ExchangeType, PollsType, CallsType, AcksType
<1>. QED  BY <1>2, <1>3, <1>4, <1>5, <1>6, <1>7

\* Every table, record, call and message has its type, whatever the environment does: in
\* particular what cancel() misses is never negative, because the ledger is never ahead of
\* the exchange.
THEOREM BrokerTyping == BrokerSpec => []BrokerTypeOK
<1>1. BaseInv => BrokerTypeOK
  BY DEF BaseInv
<1>. QED  BY <1>1, BaseInit, BaseStep, PTL DEF BrokerSpec

\* An order id belongs to one row.
LEMMA ResolvesAlone ==
  ASSUME BaseInv, NEW c \in Coid, orders[c] # NoOrder, orders[c].orderId = OrderOf(c)
  PROVE  ClientOrderIdsFor(OrderOf(c)) = {c}
<1>1. ASSUME NEW d \in Coid, orders[d] # NoOrder, orders[d].orderId = OrderOf(c) PROVE d = c
  <2>1. orders[d].orderId \in {NoId, OrderOf(d)}
    BY <1>1 DEF BaseInv, RowMatches
  <2>2. OrderOf(c) # NoId
    BY Pairing, ConstantTypes
  <2>3. OrderOf(d) = OrderOf(c)
    BY <1>1, <2>1, <2>2
  <2>. QED  BY <2>3, Pairing
<1>. QED  BY <1>1 DEF ClientOrderIdsFor

\* An ack that a worker caches and an exit plan that it logged lead to an order at the
\* exchange and to its only row, also after crashes, retries and registrations of others.
THEOREM AcksAlwaysResolve == BrokerSpec => []AcksResolve
<1>1. BaseInv => AcksResolve
  <2>. SUFFICES ASSUME BaseInv, NEW w \in Worker, NEW c \in acks[w] \cup plans[w]
                PROVE  /\ exch[OrderOf(c)].status # "absent"
                       /\ ClientOrderIdsFor(OrderOf(c)) = {c}
    BY DEF AcksResolve
  <2>1. c \in Coid
    BY BrokerAssumption DEF BaseInv, BrokerTypeOK
  <2>2. /\ exch[OrderOf(c)].status # "absent"
        /\ orders[c] # NoOrder /\ orders[c].orderId = OrderOf(c)
    BY DEF BaseInv, Resolves
  <2>. QED  BY <2>1, <2>2, ResolvesAlone
<1>. QED  BY <1>1, BaseInit, BaseStep, PTL DEF BrokerSpec

-------------------------------------------------------------------------------
\* Nothing is placed again that may be live, and every accepted order is answered with its id.
Faithful == Env \cap {"retry", "blank"} = {}

Placing(t, c)    == tasks[t] # Idle /\ tasks[t].op = "place" /\ tasks[t].coid = c
Cancelling(t, c) == tasks[t] # Idle /\ tasks[t].op = "cancel" /\ tasks[t].coid = c

Absent(c) == exch[OrderOf(c)].status = "absent"

\* What the consumer knows of a client order id, and what can be on its way: a request
\* of one that it believes never placed, refused, live or closed is not.
KnownRight(c) ==
  /\ known[c] \in {"new", "refused"} => Absent(c)
  /\ \A t \in Task : Placing(t, c) => known[c] = "calling"
  /\ \A t, u \in Task : Placing(t, c) /\ Placing(u, c) => t = u
  /\ \A t \in Task : Cancelling(t, c) => known[c] \in {"live", "closed"}

\* A request is sent once, for an order that is not at the exchange, and one that nobody
\* waits for is known to be in doubt.
SentOnce(m) ==
  m.op = "place" => Absent(m.coid) /\ (m.task = NoTask => known[m.coid] = "unsure")

\* A call that has not sent its request, or was told that it is refused, has no order at
\* the exchange; that one has no request on its way, and neither has one that was answered.
Unsent(t, c) ==
  Placing(t, c) =>
    /\ tasks[t].step = "ready" \/ tasks[t].reply \in {"rejected", "denied"} => Absent(c)
    /\ tasks[t].step = "ready" \/ tasks[t].reply # "none" => ~OnWire(c)
    /\ tasks[t].reply # "blank"

\* What holds of the calls while nothing is placed again that may be live.
CallsRight ==
  /\ \A c \in Coid : KnownRight(c)
  /\ \A m \in wire : SentOnce(m)
  /\ \A t \in Task, c \in Coid : Unsent(t, c)

GuardInv == CallsRight /\ LiveOrdersGuarded

-------------------------------------------------------------------------------
\* An order is being sent when a call of it is under way or a request is on its way.
BeingSent == \A c \in Coid : Sending(c) <=> (OnWire(c) \/ \E t \in Task : Placing(t, c))

\* Sending, as the consumer sees it, is just that.
LEMMA SendingIs == BrokerTypeOK => BeingSent
<1>. SUFFICES ASSUME BrokerTypeOK, NEW c \in Coid
              PROVE  Sending(c) <=> (OnWire(c) \/ \E t \in Task : Placing(t, c))
  BY DEF BeingSent
<1>1. \A t \in Task : Placing(t, c) => Calls(t, "place", "ready") \/ Calls(t, "place", "waiting")
  BY CallType DEF Placing, Calls, Call
<1>2. \A t \in Task : /\ Calls(t, "place", "ready") /\ tasks[t].coid = c => Placing(t, c)
                      /\ Calls(t, "place", "waiting") /\ tasks[t].coid = c => Placing(t, c)
  BY DEF Placing, Calls
<1>3. \A t \in Task : Placing(t, c) => tasks[t].coid = c
  BY DEF Placing
<1>. QED  BY <1>1, <1>2, <1>3, Zenon DEF Sending, OnWire

\* After a step as well.
LEMMA SendingIsNext == BrokerTypeOK' => BeingSent'
BY SendingIs, PTL

\* Only what is being called or is in doubt is being sent.
LEMMA NotSending ==
  ASSUME BaseInv, CallsRight, NEW c \in Coid, known[c] \notin {"calling", "unsure"}
  PROVE  /\ ~OnWire(c) /\ \A t \in Task : ~Placing(t, c)
         /\ ~Sending(c)
<1>1. \A t \in Task : ~Placing(t, c)
  BY DEF CallsRight, KnownRight
<1>2. ASSUME NEW m \in wire, m.op = "place", m.coid = c PROVE FALSE
  <2>1. m.task \in Task \cup {NoTask}
    BY DEF BaseInv, BrokerTypeOK, Message
  <2>2. CASE m.task = NoTask
    BY <1>2, <2>2 DEF CallsRight, SentOnce
  <2>3. CASE m.task # NoTask
    <3>. DEFINE call == [op |-> m.op, coid |-> m.coid, step |-> "waiting", reply |-> "none"]
    <3>1. tasks[m.task] = call
      BY <2>3 DEF BaseInv, Awaited
    <3>2. call # Idle /\ call.op = "place" /\ call.coid = c
      BY <1>2 DEF Idle
    <3>. HIDE DEF call
    <3>. QED  BY <1>1, <2>1, <2>3, <3>1, <3>2 DEF Placing
  <2>. QED  BY <2>2, <2>3
<1>3. ~OnWire(c)
  BY <1>2 DEF OnWire
<1>. QED  BY <1>1, <1>3, SendingIs DEF BaseInv, BeingSent

\* accepted=False: the consumer was told so, and nothing can make the order live.
LEMMA RefusedRight ==
  ASSUME BaseInv, CallsRight
  PROVE  RefusedIsFinal
<1>. SUFFICES ASSUME NEW c \in Coid, known[c] = "refused"
              PROVE  exch[OrderOf(c)].status = "absent" /\ ~Sending(c)
  BY DEF RefusedIsFinal
<1>1. Absent(c)
  BY DEF CallsRight, KnownRight
<1>. QED  BY <1>1, NotSending DEF Absent

\* Nothing executes of an order that was not placed, was refused, or was closed.
Stopped ==
  \A c \in Coid :
    /\ known[c] \in {"new", "refused"} => ~MayExecute(c)
    /\ known[c] = "closed" /\ exch[OrderOf(c)].status # "working" => ~MayExecute(c)

\* It follows from what is known of the calls.
LEMMA StoppedIs == BaseInv /\ CallsRight => Stopped
<1>. SUFFICES ASSUME BaseInv, CallsRight, NEW c \in Coid,
                     \/ known[c] \in {"new", "refused"}
                     \/ known[c] = "closed" /\ exch[OrderOf(c)].status # "working"
              PROVE  ~MayExecute(c)
  BY DEF Stopped
<1>1. known[c] \in {"new", "refused"} => Absent(c)
  BY DEF CallsRight, KnownRight
<1>. QED  BY <1>1, NotSending DEF Absent, MayExecute

\* After a step as well.
LEMMA StoppedIsNext == BaseInv' /\ CallsRight' => Stopped'
BY StoppedIs, PTL

-------------------------------------------------------------------------------
\* A call that ends leaves its order placed, refused, closed or in doubt; a request that
\* outlives it is in doubt.
LEMMA QuitRight ==
  ASSUME BaseInv, CallsRight, NEW ts \in SUBSET Task, Quits(ts), exch' = exch,
         known' \in [Coid -> Known],
         \A c \in Coid : \/ known'[c] = known[c]
                         \/ \E t \in ts : \/ Placing(t, c)
                                          \/ Cancelling(t, c) /\ known'[c] = "closed",
         \A c \in Coid : known'[c] \in {"new", "refused"} /\ known'[c] # known[c] => Absent(c),
         \A c \in Coid, t \in ts : Placing(t, c) /\ OnWire(c) => known'[c] = "unsure"
  PROVE  CallsRight'
<1>1. \A u \in Task : tasks'[u] = IF u \in ts THEN Idle ELSE tasks[u]
  BY DEF Quits
<1>2. \A u \in Task, c \in Coid : /\ Placing(u, c)' => u \notin ts /\ Placing(u, c)
                                  /\ Cancelling(u, c)' => u \notin ts /\ Cancelling(u, c)
  BY <1>1 DEF Placing, Cancelling
<1>3. \A c : Absent(c)' <=> Absent(c)
  BY DEF Absent
<1>4. ASSUME NEW m \in wire'
      PROVE  \E n \in wire : /\ m.op = n.op /\ m.coid = n.coid
                             /\ m.task = NoTask => n.task = NoTask \/ n.task \in ts
  <2>1. wire \subseteq Message
    BY DEF BaseInv, BrokerTypeOK
  <2>2. CASE m \in wire /\ m.task \notin ts
    BY <2>2
  <2>3. CASE \E n \in wire : n.task \in ts /\ m = [n EXCEPT !.task = NoTask]
    <3>1. PICK n \in wire : n.task \in ts /\ m = [n EXCEPT !.task = NoTask]
      BY <2>3
    <3>2. n \in Message
      BY <2>1
    <3>3. m.op = n.op /\ m.coid = n.coid
      BY <3>1, <3>2 DEF Message
    <3>. QED  BY <3>1, <3>3
  <2>. QED  BY <2>2, <2>3 DEF Quits, Orphaned
<1>5. \A c : OnWire(c)' => OnWire(c)
  BY <1>4 DEF OnWire
<1>6. ASSUME NEW c \in Coid PROVE KnownRight(c)'
  <2>1. KnownRight(c)
    BY DEF CallsRight
  <2>2. known'[c] \in {"new", "refused"} => Absent(c)'
    BY <1>3, <2>1 DEF KnownRight
  <2>3. ASSUME NEW u \in Task, Placing(u, c)' PROVE known'[c] = "calling"
    BY <1>2, <2>1, <2>3 DEF KnownRight
  <2>4. ASSUME NEW t \in Task, NEW u \in Task, Placing(t, c)', Placing(u, c)' PROVE t = u
    BY <1>2, <2>1, <2>4 DEF KnownRight
  <2>5. ASSUME NEW u \in Task, Cancelling(u, c)' PROVE known'[c] \in {"live", "closed"}
    BY <1>2, <2>1, <2>5 DEF KnownRight
  <2>. QED  BY <2>2, <2>3, <2>4, <2>5 DEF KnownRight
<1>7. ASSUME NEW m \in wire' PROVE SentOnce(m)'
  <2>. SUFFICES ASSUME m.op = "place"
                PROVE  Absent(m.coid)' /\ (m.task = NoTask => known'[m.coid] = "unsure")
    BY DEF SentOnce
  <2>1. PICK n \in wire : /\ m.op = n.op /\ m.coid = n.coid
                          /\ m.task = NoTask => n.task = NoTask \/ n.task \in ts
    BY <1>4
  <2>2. n.coid \in Coid /\ n.task \in Task \cup {NoTask}
    BY DEF BaseInv, BrokerTypeOK, Message
  <2>3. Absent(m.coid)'
    BY <1>3, <2>1 DEF CallsRight, SentOnce
  <2>4. ASSUME n.task = NoTask PROVE known'[m.coid] = "unsure"
    <3>1. known[n.coid] = "unsure"
      BY <2>1, <2>4 DEF CallsRight, SentOnce
    <3>2. \A t \in Task : ~Placing(t, n.coid) /\ ~Cancelling(t, n.coid)
      BY <2>2, <3>1 DEF CallsRight, KnownRight
    <3>. QED  BY <2>1, <2>2, <3>1, <3>2
  <2>5. ASSUME n.task \in ts PROVE known'[m.coid] = "unsure"
    <3>. DEFINE call == [op |-> n.op, coid |-> n.coid, step |-> "waiting", reply |-> "none"]
    <3>0. n.task # NoTask
      BY <2>5, BrokerAssumption
    <3>1. tasks[n.task] = call
      BY <3>0 DEF BaseInv, Awaited
    <3>2. call # Idle /\ call.op = "place" /\ call.coid = n.coid
      BY <2>1 DEF Idle
    <3>. HIDE DEF call
    <3>3. Placing(n.task, n.coid)
      BY <3>1, <3>2 DEF Placing
    <3>4. OnWire(n.coid)
      BY <2>1 DEF OnWire
    <3>. QED  BY <2>1, <2>2, <2>5, <3>3, <3>4
  <2>. QED  BY <2>1, <2>3, <2>4, <2>5
<1>8. ASSUME NEW u \in Task, NEW c \in Coid PROVE Unsent(u, c)'
  <2>. SUFFICES ASSUME Placing(u, c)'
                PROVE  /\ tasks'[u].step = "ready" \/ tasks'[u].reply \in {"rejected", "denied"}
                            => Absent(c)'
                       /\ tasks'[u].step = "ready" \/ tasks'[u].reply # "none" => ~OnWire(c)'
                       /\ tasks'[u].reply # "blank"
    BY Zenon DEF Unsent
  <2>1. Placing(u, c) /\ tasks'[u] = tasks[u]
    BY <1>1, <1>2
  <2>2. Unsent(u, c)
    BY DEF CallsRight
  <2>. QED  BY <1>3, <1>5, <2>1, <2>2 DEF Unsent
<1>. QED  BY <1>5, <1>6, <1>7, <1>8 DEF CallsRight
\* One call that ends with word of its order.
LEMMA TellRight ==
  ASSUME BaseInv, CallsRight, NEW t \in Task, tasks[t] # Idle, Quits({t}), exch' = exch,
         NEW c \in Coid, c = tasks[t].coid, NEW what \in Known, Told(c, what),
         tasks[t].op = "cancel" => what = "closed",
         what \in {"new", "refused"} => Absent(c),
         tasks[t].op = "place" /\ OnWire(c) => what = "unsure"
  PROVE  CallsRight'
<1>1. known \in [Coid -> Known]
  BY DEF BaseInv, BrokerTypeOK
<1>2. known'[c] = what /\ \A d \in Coid : d # c => known'[d] = known[d]
  BY <1>1 DEF Told
<1>3. known' \in [Coid -> Known]
  BY <1>1 DEF Told
<1>4. tasks[t].op = "place" \/ tasks[t].op = "cancel"
  BY CallType DEF BaseInv, Call
<1>5. Placing(t, c) \/ (Cancelling(t, c) /\ what = "closed")
  BY <1>4 DEF Placing, Cancelling
<1>6. \A d \in Coid : Placing(t, d) => d = c /\ tasks[t].op = "place"
  BY DEF Placing
<1>. QED  BY <1>2, <1>3, <1>5, <1>6, QuitRight

\* One call that ends without.
LEMMA DropRight ==
  ASSUME BaseInv, CallsRight, NEW t \in Task, tasks[t] # Idle, tasks[t].op = "cancel",
         Quits({t}), exch' = exch, known' = known
  PROVE  CallsRight'
<1>1. known \in [Coid -> Known]
  BY DEF BaseInv, BrokerTypeOK
<1>2. \A d \in Coid : ~Placing(t, d)
  BY DEF Placing
<1>. QED  BY <1>1, <1>2, QuitRight

\* What a call of place() in a given state knows of its order.
LEMMA PlacingFacts ==
  ASSUME BaseInv, CallsRight, NEW t \in Task, tasks[t] # Idle, tasks[t].op = "place",
         NEW c, c = tasks[t].coid
  PROVE  /\ c \in Coid /\ Placing(t, c) /\ known[c] = "calling"
         /\ tasks[t].step = "ready" \/ tasks[t].reply \in {"rejected", "denied"} => Absent(c)
         /\ tasks[t].step = "ready" \/ tasks[t].reply # "none" => ~OnWire(c)
         /\ tasks[t].reply # "blank"
<1>1. c \in Coid /\ Placing(t, c)
  BY CallType DEF BaseInv, Placing
<1>. QED  BY <1>1 DEF CallsRight, KnownRight, Unsent

\* The ends of a call of place().
LEMMA PlaceEndsRight ==
  ASSUME BaseInv, CallsRight, NEW t \in Task,
         \/ SendFails(t) \/ PlaceAccepted(t) \/ PlaceConflict(t) \/ PlaceUnwound(t)
         \/ (TimesOut(t) /\ tasks[t].op = "place")
  PROVE  CallsRight'
<1>1. tasks[t] # Idle /\ tasks[t].op = "place" /\ exch' = exch
  BY DEF SendFails, PlaceAccepted, PlaceConflict, PlaceUnwound, TimesOut, Calls, Answered
<1>2. Quits({t})
  BY QuitSteps DEF BaseInv
<1>3. PICK c : c = tasks[t].coid
  OBVIOUS
<1>4. /\ c \in Coid
      /\ tasks[t].step = "ready" \/ tasks[t].reply \in {"rejected", "denied"} => Absent(c)
      /\ tasks[t].step = "ready" \/ tasks[t].reply # "none" => ~OnWire(c)
      /\ tasks[t].reply # "blank"
  BY <1>1, <1>3, PlacingFacts
<1>5. ASSUME SendFails(t) PROVE \E what \in {"new", "refused"} : Told(c, what) /\ Absent(c) /\ ~OnWire(c)
  BY <1>3, <1>4, <1>5 DEF SendFails, Calls
<1>6. ASSUME PlaceAccepted(t) PROVE Told(c, "live") /\ ~OnWire(c)
  BY <1>3, <1>4, <1>6 DEF PlaceAccepted, Answered
<1>7. ASSUME PlaceConflict(t) PROVE (Told(c, "live") \/ Told(c, "unsure")) /\ ~OnWire(c)
  BY <1>3, <1>4, <1>7 DEF PlaceConflict, Answered
<1>8. ASSUME PlaceUnwound(t) PROVE (Told(c, "new") \/ Told(c, "refused")) /\ Absent(c) /\ ~OnWire(c)
  <2>1. PICK reply \in {"rejected", "denied", "blank"} :
          Answered(t, "place", reply) /\ Told(c, IF reply = "rejected" THEN "refused" ELSE "new")
    BY <1>3, <1>8 DEF PlaceUnwound
  <2>2. tasks[t].reply = reply /\ (Told(c, "new") \/ Told(c, "refused"))
    BY <2>1 DEF Answered
  <2>. QED  BY <1>4, <2>2
<1>9. ASSUME TimesOut(t) PROVE Told(c, "unsure")
  BY <1>1, <1>3, <1>9 DEF TimesOut
<1>10. PICK what \in Known : /\ Told(c, what)
                             /\ what \in {"new", "refused"} => Absent(c)
                             /\ OnWire(c) => what = "unsure"
  BY <1>5, <1>6, <1>7, <1>8, <1>9 DEF Known
<1>. QED  BY <1>1, <1>2, <1>3, <1>4, <1>10, TellRight

\* The ends of a call of cancel().
LEMMA CancelEndsRight ==
  ASSUME BaseInv, CallsRight, NEW t \in Task,
         CancelConfirmed(t) \/ CancelRefused(t) \/ (TimesOut(t) /\ tasks[t].op # "place")
  PROVE  CallsRight'
<1>1. tasks[t] # Idle /\ exch' = exch
  BY DEF CancelConfirmed, CancelRefused, TimesOut, Calls, Answered
<1>2. tasks[t].op = "cancel"
  BY DEF CancelConfirmed, CancelRefused, TimesOut, Calls, Answered
<1>3. Quits({t})
  BY QuitSteps DEF BaseInv
<1>4. CASE CancelConfirmed(t)
  <2>1. PICK c \in Coid : c = tasks[t].coid
    BY <1>1, CallType DEF BaseInv
  <2>2. Told(c, "closed") /\ "closed" \in Known
    BY <1>4, <2>1 DEF CancelConfirmed, Known
  <2>. QED  BY <1>1, <1>2, <1>3, <2>1, <2>2, TellRight
<1>5. CASE CancelRefused(t) \/ (TimesOut(t) /\ tasks[t].op # "place")
  <2>1. known' = known
    BY <1>5 DEF CancelRefused, TimesOut
  <2>. QED  BY <1>1, <1>2, <1>3, <2>1, DropRight
<1>. QED  BY <1>4, <1>5

\* A crash leaves the orders that were being placed in doubt.
LEMMA CrashRight ==
  ASSUME BaseInv, CallsRight, NEW w \in Worker, Crash(w)
  PROVE  CallsRight'
<1>. DEFINE dead == {t \in Task : Home[t] = w}
            placing == {tasks[t].coid : t \in {u \in dead : \/ Calls(u, "place", "ready")
                                                            \/ Calls(u, "place", "waiting")}}
<1>1. Quits(dead) /\ exch' = exch
  BY QuitSteps DEF BaseInv, Crash
<1>2. known' = [c \in Coid |-> IF c \in placing THEN "unsure" ELSE known[c]]
  BY DEF Crash
<1>3. known \in [Coid -> Known]
  BY DEF BaseInv, BrokerTypeOK
<1>4. ASSUME NEW c \in placing PROVE \E t \in dead : Placing(t, c)
  BY DEF Calls, Placing
<1>5. ASSUME NEW t \in dead, NEW c \in Coid, Placing(t, c) PROVE c \in placing
  <2>1. Calls(t, "place", "ready") \/ Calls(t, "place", "waiting")
    BY <1>5, CallType DEF BaseInv, Placing, Calls, Call
  <2>. QED  BY <1>5, <2>1 DEF Placing
<1>6. dead \in SUBSET Task
  OBVIOUS
<1>. HIDE DEF dead, placing
<1>7. known' \in [Coid -> Known]
  BY <1>2, <1>3 DEF Known
<1>8. \A c \in Coid : known'[c] = known[c] \/ \E t \in dead : Placing(t, c)
  BY <1>2, <1>4
<1>9. \A c \in Coid : known'[c] \in {"new", "refused"} => known'[c] = known[c]
  BY <1>2
<1>10. \A c \in Coid, t \in dead : Placing(t, c) => known'[c] = "unsure"
  BY <1>2, <1>5
<1>. QED  BY <1>1, <1>6, <1>7, <1>8, <1>9, <1>10, QuitRight

-------------------------------------------------------------------------------
\* A step that touches neither calls nor wire, and changes what is known of an order only
\* if that order is not being sent.
LEMMA QuietRight ==
  ASSUME BaseInv, CallsRight, UNCHANGED <<tasks, wire>>,
         \A c \in Coid : Absent(c)' <=> Absent(c),
         \A c \in Coid : \/ known'[c] = known[c]
                         \/ /\ ~Sending(c)
                            /\ known'[c] \in {"new", "refused"} => Absent(c)
                            /\ (\E t \in Task : Cancelling(t, c)) => known'[c] \in {"live", "closed"}
  PROVE  CallsRight'
<1>1. \A t \in Task, c \in Coid : /\ Placing(t, c)' <=> Placing(t, c)
                                  /\ Cancelling(t, c)' <=> Cancelling(t, c)
  BY DEF Placing, Cancelling
<1>2. \A c \in Coid : OnWire(c)' <=> OnWire(c)
  BY DEF OnWire
<1>3. \A c \in Coid : ~Sending(c) => ~OnWire(c) /\ \A t \in Task : ~Placing(t, c)
  BY SendingIs DEF BaseInv, BeingSent
<1>4. ASSUME NEW c \in Coid PROVE KnownRight(c)'
  <2>1. KnownRight(c)
    BY DEF CallsRight
  <2>. QED  BY <1>1, <1>3, <2>1 DEF KnownRight
<1>5. ASSUME NEW m \in wire' PROVE SentOnce(m)'
  <2>1. m \in wire /\ m.coid \in Coid /\ SentOnce(m)
    BY DEF BaseInv, BrokerTypeOK, Message, CallsRight
  <2>2. m.op = "place" => OnWire(m.coid)
    BY <2>1 DEF OnWire
  <2>. QED  BY <1>3, <2>1, <2>2 DEF SentOnce
<1>6. ASSUME NEW t \in Task, NEW c \in Coid PROVE Unsent(t, c)'
  <2>1. Unsent(t, c) /\ tasks'[t] = tasks[t]
    BY DEF CallsRight
  <2>. QED  BY <1>1, <1>2, <2>1 DEF Unsent
<1>. QED  BY <1>2, <1>4, <1>5, <1>6 DEF CallsRight
\* A call of place() begins for an order that is not at the exchange and not on its way.
LEMMA BeginRight ==
  ASSUME BaseInv, CallsRight, NEW t \in Task, NEW c \in Coid, tasks[t] = Idle,
         known[c] = "new", Begin(t, c)
  PROVE  CallsRight'
<1>. DEFINE call == [op |-> "place", coid |-> c, step |-> "ready", reply |-> "none"]
<1>1. /\ tasks' = [tasks EXCEPT ![t] = call] /\ known' = [known EXCEPT ![c] = "calling"]
      /\ wire' = wire /\ exch' = exch
  BY DEF Begin
<1>2. call # Idle /\ call.op = "place" /\ call.coid = c /\ call.step = "ready" /\ call.reply = "none"
  BY DEF Idle
<1>. HIDE DEF call
<1>3. tasks'[t] = call /\ \A u \in Task \ {t} : tasks'[u] = tasks[u]
  BY <1>1 DEF BaseInv, BrokerTypeOK
<1>4. known'[c] = "calling" /\ \A d \in Coid \ {c} : known'[d] = known[d]
  BY <1>1 DEF BaseInv, BrokerTypeOK
<1>5. \A u \in Task, d \in Coid :
        /\ Placing(u, d)' => (u = t /\ d = c) \/ (u # t /\ Placing(u, d))
        /\ Cancelling(u, d)' => Cancelling(u, d)
  BY <1>2, <1>3 DEF Placing, Cancelling
<1>6. /\ \A d \in Coid : (OnWire(d)' <=> OnWire(d)) /\ (Absent(d)' <=> Absent(d))
  BY <1>1 DEF OnWire, Absent
<1>7. ~OnWire(c) /\ Absent(c) /\ \A u \in Task : ~Placing(u, c) /\ ~Cancelling(u, c)
  <2>1. KnownRight(c)
    BY DEF CallsRight
  <2>. QED  BY <2>1, NotSending DEF KnownRight
<1>8. ASSUME NEW d \in Coid PROVE KnownRight(d)'
  <2>1. KnownRight(d)
    BY DEF CallsRight
  <2>2. CASE d = c
    BY <1>4, <1>5, <1>6, <1>7, <2>2 DEF KnownRight
  <2>3. CASE d # c
    BY <1>4, <1>5, <1>6, <2>1, <2>3 DEF KnownRight
  <2>. QED  BY <2>2, <2>3
<1>9. ASSUME NEW m \in wire' PROVE SentOnce(m)'
  <2>1. m \in wire /\ m.coid \in Coid /\ SentOnce(m)
    BY <1>1 DEF BaseInv, BrokerTypeOK, Message, CallsRight
  <2>2. m.op = "place" => m.coid # c
    BY <1>7, <2>1 DEF OnWire
  <2>. QED  BY <1>4, <1>6, <2>1, <2>2 DEF SentOnce
<1>10. ASSUME NEW u \in Task, NEW d \in Coid PROVE Unsent(u, d)'
  <2>1. Unsent(u, d)
    BY DEF CallsRight
  <2>2. CASE u = t
    BY <1>2, <1>3, <1>5, <1>6, <1>7, <2>2 DEF Unsent
  <2>3. CASE u # t
    BY <1>3, <1>5, <1>6, <2>1, <2>3 DEF Unsent
  <2>. QED  BY <2>2, <2>3
<1>. QED  BY <1>6, <1>8, <1>9, <1>10 DEF CallsRight

\* The request is sent: it is the only one of its order.
LEMMA SendRight ==
  ASSUME BaseInv, CallsRight, NEW t \in Task, Send(t)
  PROVE  CallsRight'
<1>1. PICK c : c = tasks[t].coid
  OBVIOUS
<1>. DEFINE call == [tasks[t] EXCEPT !.step = "waiting"]
            sent == [op |-> "place", coid |-> c, task |-> t]
<1>2. /\ tasks[t] # Idle /\ tasks[t].op = "place" /\ tasks[t].step = "ready"
      /\ tasks' = [tasks EXCEPT ![t] = call] /\ wire' = wire \cup {sent}
      /\ known' = known /\ exch' = exch
  BY <1>1 DEF Send, Calls
<1>3. /\ c \in Coid /\ Placing(t, c) /\ known[c] = "calling" /\ Absent(c) /\ ~OnWire(c)
  BY <1>1, <1>2, PlacingFacts
<1>4. tasks[t] \in Call /\ tasks[t].reply = "none"
  BY <1>2, CallType DEF BaseInv, Truthful
<1>5. /\ call # Idle /\ call.op = "place" /\ call.coid = c /\ call.step = "waiting"
      /\ call.reply = "none"
  BY <1>1, <1>2, <1>4 DEF Call, Idle
<1>6. sent.op = "place" /\ sent.coid = c /\ sent.task = t /\ t # NoTask
  BY BrokerAssumption
<1>. HIDE DEF call, sent
<1>7. tasks'[t] = call /\ \A u \in Task \ {t} : tasks'[u] = tasks[u]
  BY <1>2 DEF BaseInv, BrokerTypeOK
<1>8. \A u \in Task, d \in Coid : /\ Placing(u, d)' <=> Placing(u, d)
                                  /\ Cancelling(u, d)' <=> Cancelling(u, d)
  BY <1>1, <1>2, <1>5, <1>7 DEF Placing, Cancelling
<1>9. \A d \in Coid : (OnWire(d)' => OnWire(d) \/ d = c) /\ (Absent(d)' <=> Absent(d))
  BY <1>2, <1>6 DEF OnWire, Absent
<1>10. ASSUME NEW d \in Coid PROVE KnownRight(d)'
  <2>1. KnownRight(d)
    BY DEF CallsRight
  <2>. QED  BY <1>2, <1>8, <1>9, <2>1 DEF KnownRight
<1>11. ASSUME NEW m \in wire' PROVE SentOnce(m)'
  <2>1. CASE m = sent
    BY <1>3, <1>6, <1>9, <2>1 DEF SentOnce
  <2>2. CASE m \in wire
    <3>1. m.coid \in Coid /\ SentOnce(m)
      BY <2>2 DEF BaseInv, BrokerTypeOK, Message, CallsRight
    <3>. QED  BY <1>2, <1>9, <3>1 DEF SentOnce
  <2>. QED  BY <1>2, <2>1, <2>2
<1>12. ASSUME NEW u \in Task, NEW d \in Coid PROVE Unsent(u, d)'
  <2>1. Unsent(u, d)
    BY DEF CallsRight
  <2>2. CASE u = t
    BY <1>5, <1>7, <2>2 DEF Unsent
  <2>3. CASE u # t
    <3>1. Placing(u, d) => d # c
      BY <1>3, <2>3 DEF CallsRight, KnownRight
    <3>. QED  BY <1>7, <1>8, <1>9, <2>1, <2>3, <3>1 DEF Unsent
  <2>. QED  BY <2>2, <2>3
<1>. QED  BY <1>10, <1>11, <1>12 DEF CallsRight
\* cancel() is asked for an order that is live.
LEMMA CancelBeginsRight ==
  ASSUME BaseInv, CallsRight, NEW t \in Task, NEW c \in Coid, CancelBegins(t, c)
  PROVE  CallsRight'
<1>. DEFINE call == [op |-> "cancel", coid |-> c, step |-> "waiting", reply |-> "none"]
            sent == [op |-> "cancel", coid |-> c, task |-> t]
<1>1. /\ tasks[t] = Idle /\ known[c] = "live" /\ tasks' = [tasks EXCEPT ![t] = call]
      /\ wire' = wire \cup {sent} /\ known' = known /\ exch' = exch
  BY DEF CancelBegins
<1>2. call # Idle /\ call.op = "cancel" /\ call.coid = c /\ sent.op = "cancel"
  BY DEF Idle
<1>. HIDE DEF call, sent
<1>3. tasks'[t] = call /\ \A u \in Task \ {t} : tasks'[u] = tasks[u]
  BY <1>1 DEF BaseInv, BrokerTypeOK
<1>4. \A u \in Task, d \in Coid :
        /\ Placing(u, d)' => u # t /\ Placing(u, d)
        /\ Cancelling(u, d)' => (u = t /\ d = c) \/ Cancelling(u, d)
  BY <1>2, <1>3 DEF Placing, Cancelling
<1>5. \A d : (OnWire(d)' => OnWire(d)) /\ (Absent(d)' <=> Absent(d))
  BY <1>1, <1>2 DEF OnWire, Absent
<1>6. ASSUME NEW d \in Coid PROVE KnownRight(d)'
  <2>1. KnownRight(d)
    BY DEF CallsRight
  <2>. QED  BY <1>1, <1>4, <1>5, <2>1 DEF KnownRight
<1>7. ASSUME NEW m \in wire' PROVE SentOnce(m)'
  BY <1>1, <1>2, <1>5 DEF SentOnce, CallsRight
<1>8. ASSUME NEW u \in Task, NEW d \in Coid PROVE Unsent(u, d)'
  <2>1. Unsent(u, d)
    BY DEF CallsRight
  <2>. QED  BY <1>3, <1>4, <1>5, <2>1 DEF Unsent
<1>. QED  BY <1>6, <1>7, <1>8 DEF CallsRight

\* The exchange handles the only request of an order, and answers who waits for it.
LEMMA ExchangeRight ==
  ASSUME BaseInv, CallsRight, Faithful, NEW m \in wire, Exchange(m)
  PROVE  CallsRight'
<1>1. /\ m \in Message /\ wire' = wire \ {m} /\ known' = known
  BY DEF Exchange, ExchangeAccepts, ExchangeRefuses, ExchangeCancels, Handle, BaseInv, BrokerTypeOK
<1>. DEFINE c == m.coid
<1>2. c \in Coid /\ OrderOf(c) \in OrderId /\ m.op \in {"place", "cancel"} /\ m.task \in Task \cup {NoTask}
  BY <1>1, Pairing DEF Message
<1>3. PICK reply \in {"accepted", "denied", "rejected", "conflict", "cancelled"} :
        /\ tasks' = IF m.task = NoTask THEN tasks ELSE [tasks EXCEPT ![m.task].reply = reply]
        /\ m.op = "place" /\ reply \in {"denied", "rejected"} => exch' = exch
  <2>1. CASE ExchangeAccepts(m)
    <3>1. "blank" \notin Env
      BY DEF Faithful
    <3>. QED  BY <2>1, <3>1 DEF ExchangeAccepts, Handle
  <2>2. CASE ExchangeRefuses(m)
    <3>1. exch' = exch /\ (Handle(m, "denied") \/ Handle(m, "rejected") \/ Handle(m, "conflict"))
      BY <2>2, Zenon DEF ExchangeRefuses
    <3>. QED  BY <3>1 DEF Handle
  <2>3. CASE ExchangeCancels(m)
    <3>1. m.op = "cancel" /\ (Handle(m, "cancelled") \/ Handle(m, "rejected"))
      BY <2>3, Zenon DEF ExchangeCancels
    <3>. QED  BY <3>1 DEF Handle
  <2>. QED  BY <2>1, <2>2, <2>3 DEF Exchange
<1>4. ASSUME NEW d \in Coid, m.op = "place" => d # c PROVE Absent(d)' <=> Absent(d)
  <2>. DEFINE o == OrderOf(d)
              a == OrderOf(c)
  <2>1. o \in OrderId /\ (d # c => o # a)
    BY <1>2, Pairing
  <2>2. exch \in [OrderId -> [status : {"absent", "working", "done", "cancelled"},
                              qty : Nat, cost : Nat, fee : Nat, settles : Nat]]
    BY DEF BaseInv, BrokerTypeOK
  <2>3. CASE ExchangeAccepts(m)
    <3>1. m.op = "place" /\ exch' = [exch EXCEPT ![a].status = "working"]
      BY <2>3 DEF ExchangeAccepts
    <3>. HIDE DEF o, a
    <3>2. exch'[o] = exch[o]
      BY <1>4, <2>1, <2>2, <3>1
    <3>. QED  BY <3>2 DEF Absent, o
  <2>4. CASE ExchangeRefuses(m)
    BY <2>4 DEF ExchangeRefuses, Absent
  <2>5. CASE ExchangeCancels(m)
    <3>1. \/ exch' = exch
          \/ exch[a].status = "working" /\ exch' = [exch EXCEPT ![a].status = "cancelled"]
      BY <2>5 DEF ExchangeCancels
    <3>2. a \in OrderId
      BY <1>2
    <3>. HIDE DEF o, a
    <3>3. exch'[o].status = "absent" <=> exch[o].status = "absent"
      BY <2>1, <2>2, <3>1, <3>2
    <3>. QED  BY <3>3 DEF Absent, o
  <2>. QED  BY <2>3, <2>4, <2>5 DEF Exchange
<1>5. ASSUME NEW n \in wire, n.op = "place", n.task # NoTask PROVE n.task \in Task /\ Placing(n.task, n.coid)
  <2>. DEFINE call == [op |-> n.op, coid |-> n.coid, step |-> "waiting", reply |-> "none"]
  <2>1. tasks[n.task] = call /\ n.task \in Task
    BY <1>5 DEF BaseInv, Awaited, BrokerTypeOK, Message
  <2>2. call # Idle /\ call.op = "place" /\ call.coid = n.coid
    BY <1>5 DEF Idle
  <2>. HIDE DEF call
  <2>. QED  BY <2>1, <2>2 DEF Placing
<1>6. m.op = "place" => Absent(c) /\ ~OnWire(c)'
  <2>. SUFFICES ASSUME m.op = "place" PROVE Absent(c) /\ ~OnWire(c)'
    OBVIOUS
  <2>1. Absent(c) /\ (m.task = NoTask => known[c] = "unsure")
    BY DEF CallsRight, SentOnce
  <2>2. ASSUME NEW n \in wire', n.op = "place", n.coid = c PROVE FALSE
    <3>1. n \in wire /\ n # m /\ n \in Message /\ (n.task = NoTask => known[c] = "unsure")
      BY <1>1, <2>2 DEF CallsRight, SentOnce, BaseInv, BrokerTypeOK
    <3>2. n.task # m.task
      BY <1>1, <2>2, <3>1 DEF Message
    <3>3. n.task # NoTask => n.task \in Task /\ Placing(n.task, c)
      BY <1>5, <2>2, <3>1
    <3>4. m.task # NoTask => m.task \in Task /\ Placing(m.task, c)
      BY <1>5
    <3>5. KnownRight(c)
      BY <1>2 DEF CallsRight
    <3>. QED  BY <2>1, <3>1, <3>2, <3>3, <3>4, <3>5 DEF KnownRight
  <2>. QED  BY <2>1, <2>2 DEF OnWire
<1>7. \A d : OnWire(d)' => OnWire(d)
  BY <1>1 DEF OnWire
<1>8. m.task # NoTask =>
        /\ m.task \in Task
        /\ tasks[m.task] # Idle /\ tasks[m.task].op = m.op /\ tasks[m.task].coid = c
        /\ tasks[m.task].step = "waiting"
        /\ tasks'[m.task] # Idle /\ tasks'[m.task].op = m.op /\ tasks'[m.task].coid = c
        /\ tasks'[m.task].step = "waiting" /\ tasks'[m.task].reply = reply
  <2>. SUFFICES ASSUME m.task # NoTask
                PROVE  /\ m.task \in Task
                       /\ tasks[m.task] # Idle /\ tasks[m.task].op = m.op /\ tasks[m.task].coid = c
                       /\ tasks[m.task].step = "waiting"
                       /\ tasks'[m.task] # Idle /\ tasks'[m.task].op = m.op /\ tasks'[m.task].coid = c
                       /\ tasks'[m.task].step = "waiting" /\ tasks'[m.task].reply = reply
    OBVIOUS
  <2>. DEFINE call == [op |-> m.op, coid |-> c, step |-> "waiting", reply |-> "none"]
              told == [op |-> m.op, coid |-> c, step |-> "waiting", reply |-> reply]
  <2>1. m.task \in Task /\ tasks[m.task] = call
    BY <1>2 DEF BaseInv, Awaited
  <2>2. tasks' = [tasks EXCEPT ![m.task] = [call EXCEPT !.reply = reply]]
    BY <1>3, <2>1
  <2>3. [call EXCEPT !.reply = reply] = told
    OBVIOUS
  <2>4. /\ call # Idle /\ call.op = m.op /\ call.coid = c /\ call.step = "waiting"
        /\ told # Idle /\ told.op = m.op /\ told.coid = c /\ told.step = "waiting" /\ told.reply = reply
    BY DEF Idle
  <2>. HIDE DEF call, told, c
  <2>5. tasks'[m.task] = told
    BY <2>1, <2>2, <2>3 DEF BaseInv, BrokerTypeOK
  <2>. QED  BY <2>1, <2>4, <2>5
<1>9. \A u \in Task : u # m.task => tasks'[u] = tasks[u]
  BY <1>3 DEF BaseInv, BrokerTypeOK
<1>. HIDE DEF c
<1>10. \A u \in Task, d \in Coid : /\ Placing(u, d)' <=> Placing(u, d)
                                   /\ Cancelling(u, d)' <=> Cancelling(u, d)
  <2>. SUFFICES ASSUME NEW u \in Task, NEW d \in Coid
                PROVE  /\ Placing(u, d)' <=> Placing(u, d)
                       /\ Cancelling(u, d)' <=> Cancelling(u, d)
    OBVIOUS
  <2>1. CASE u = m.task /\ m.task # NoTask
    BY <1>8, <2>1 DEF Placing, Cancelling
  <2>2. CASE u # m.task
    BY <1>9, <2>2 DEF Placing, Cancelling
  <2>. QED  BY <2>1, <2>2, BrokerAssumption
<1>11. ASSUME NEW d \in Coid PROVE KnownRight(d)'
  <2>1. KnownRight(d)
    BY DEF CallsRight
  <2>2. known'[d] \in {"new", "refused"} => Absent(d)'
    <3>. SUFFICES ASSUME known[d] \in {"new", "refused"} PROVE Absent(d)'
      BY <1>1
    <3>1. ~OnWire(d) /\ Absent(d)
      BY <2>1, NotSending DEF KnownRight
    <3>2. m.op = "place" => d # c
      BY <3>1 DEF OnWire, c
    <3>. QED  BY <1>4, <3>1, <3>2
  <2>. QED  BY <1>1, <1>10, <2>1, <2>2 DEF KnownRight
<1>12. ASSUME NEW n \in wire' PROVE SentOnce(n)'
  <2>. SUFFICES ASSUME n.op = "place"
                PROVE  Absent(n.coid)' /\ (n.task = NoTask => known'[n.coid] = "unsure")
    BY DEF SentOnce
  <2>1. n \in wire /\ n.coid \in Coid /\ SentOnce(n)
    BY <1>1 DEF BaseInv, BrokerTypeOK, Message, CallsRight
  <2>2. OnWire(n.coid)'
    BY DEF OnWire
  <2>3. m.op = "place" => n.coid # c
    BY <1>6, <2>2 DEF c
  <2>. QED  BY <1>1, <1>4, <2>1, <2>3 DEF SentOnce
<1>13. ASSUME NEW u \in Task, NEW d \in Coid PROVE Unsent(u, d)'
  <2>. SUFFICES ASSUME Placing(u, d)
                PROVE  /\ tasks'[u].step = "ready" \/ tasks'[u].reply \in {"rejected", "denied"}
                            => Absent(d)'
                       /\ tasks'[u].step = "ready" \/ tasks'[u].reply # "none" => ~OnWire(d)'
                       /\ tasks'[u].reply # "blank"
    BY <1>10, Zenon DEF Unsent
  <2>1. CASE u = m.task
    <3>1. u # NoTask
      BY BrokerAssumption
    <3>2. m.op = "place" /\ d = c
      BY <1>8, <2>1, <3>1 DEF Placing
    <3>3. tasks'[u].step = "waiting" /\ tasks'[u].reply = reply
      BY <1>8, <2>1, <3>1
    <3>4. reply \in {"rejected", "denied"} => Absent(c)'
      BY <1>3, <1>6, <3>2 DEF Absent
    <3>5. Absent(c)' = Absent(d)' /\ OnWire(d)' = OnWire(c)'
      BY <3>2 DEF Absent, OnWire, c
    <3>. QED  BY <1>6, <3>2, <3>3, <3>4, <3>5
  <2>2. CASE u # m.task
    <3>1. Unsent(u, d) /\ tasks'[u] = tasks[u]
      BY <1>9, <2>2 DEF CallsRight
    <3>2. m.op = "place" /\ d = c => OnWire(d)
      BY DEF OnWire, c
    <3>. QED  BY <1>4, <1>7, <3>1, <3>2 DEF Unsent
  <2>. QED  BY <2>1, <2>2
<1>. QED  BY <1>11, <1>12, <1>13 DEF CallsRight
-------------------------------------------------------------------------------
\* The market trades, corrects and ends the orders it has.
LEMMA MarketAbsent ==
  ASSUME BaseInv, NEW o \in OrderId, Market(o), NEW c \in Coid
  PROVE  Absent(c)' <=> Absent(c)
<1>1. OrderOf(c) \in OrderId
  BY Pairing
<1>2. exch \in [OrderId -> [status : {"absent", "working", "done", "cancelled"},
                            qty : Nat, cost : Nat, fee : Nat, settles : Nat]]
  BY DEF BaseInv, BrokerTypeOK
<1>3. ASSUME NEW a \in OrderId PROVE exch'[a].status = "absent" <=> exch[a].status = "absent"
  <2>1. ASSUME NEW p \in TradePrice, NEW fee \in TradeFee, NEW last \in BOOLEAN, Trade(o, p, fee, last)
        PROVE  exch'[a].status = "absent" <=> exch[a].status = "absent"
    <3>. DEFINE status == IF last THEN "done" ELSE "working"
                new == [status |-> status, qty |-> exch[o].qty + 1, cost |-> exch[o].cost + p,
                        fee |-> exch[o].fee + fee,
                        settles |-> IF "late date" \in Env THEN 0 ELSE today + SettleDelay]
    <3>1. exch[o].status = "working" /\ exch' = [exch EXCEPT ![o] = new]
      BY <2>1 DEF Trade
    <3>2. new.status = "done" \/ new.status = "working"
      BY Zenon
    <3>. HIDE DEF new
    <3>. QED  BY <1>2, <3>1, <3>2
  <2>2. ASSUME NEW fee \in TradeFee, Corrected(o, fee)
        PROVE  exch'[a].status = "absent" <=> exch[a].status = "absent"
    <3>. DEFINE new == [exch[o] EXCEPT !.fee = @ + fee, !.settles = LateDate(o)]
    <3>1. exch' = [exch EXCEPT ![o] = new]
      BY <2>2 DEF Corrected
    <3>2. new.status = exch[o].status
      BY <1>2
    <3>. HIDE DEF new
    <3>. QED  BY <1>2, <3>1, <3>2
  <2>3. CASE Expires(o)
    BY <1>2, <2>3 DEF Expires
  <2>. QED  BY <2>1, <2>2, <2>3 DEF Market
<1>. QED  BY <1>1, <1>3 DEF Absent

\* Every step keeps the calls right.
LEMMA CallsStep ==
  ASSUME BaseInv, CallsRight, Faithful, [BrokerNext]_vars
  PROVE  CallsRight'
<1>1. \A c \in Coid : MayPlace(c) => known[c] = "new"
  BY DEF MayPlace, Faithful
<1>2. ASSUME NEW t \in Task, NEW c \in Coid, PlaceBuy(t, c) \/ PlaceSell(t, c) PROVE CallsRight'
  <2>1. tasks[t] = Idle /\ known[c] = "new" /\ Begin(t, c)
    BY <1>1, <1>2 DEF PlaceBuy, PlaceSell, Starts
  <2>. QED  BY <2>1, BeginRight
<1>3. ASSUME NEW t \in Task, NEW c \in Coid, PlaceRefused(t, c) PROVE CallsRight'
  <2>1. known[c] = "new" /\ known' = [known EXCEPT ![c] = "refused"] /\ UNCHANGED <<tasks, wire, exch>>
    BY <1>1, <1>3 DEF PlaceRefused, Starts, Told
  <2>2. known'[c] = "refused" /\ \A d \in Coid \ {c} : known'[d] = known[d]
    BY <2>1 DEF BaseInv, BrokerTypeOK
  <2>3. ~Sending(c) /\ Absent(c) /\ ~\E u \in Task : Cancelling(u, c)
    BY <2>1, NotSending DEF CallsRight, KnownRight
  <2>4. \A d \in Coid : Absent(d)' <=> Absent(d)
    BY <2>1 DEF Absent
  <2>. QED  BY <2>1, <2>2, <2>3, <2>4, QuietRight
<1>4. ASSUME NEW t \in Task, NEW c \in Coid, PlaceCached(t, c) PROVE FALSE
  <2>1. known[c] = "new" /\ c \in acks[Home[t]] /\ Home[t] \in Worker
    BY <1>1, <1>4, BrokerAssumption DEF PlaceCached
  <2>. QED  BY <2>1 DEF CallsRight, KnownRight, Absent, BaseInv, Resolves
<1>5. ASSUME NEW t \in Task, Send(t) PROVE CallsRight'
  BY <1>5, SendRight
<1>6. ASSUME NEW t \in Task,
             \/ SendFails(t) \/ PlaceAccepted(t) \/ PlaceConflict(t) \/ PlaceUnwound(t)
             \/ CancelConfirmed(t) \/ CancelRefused(t) \/ TimesOut(t)
      PROVE  CallsRight'
  BY <1>6, PlaceEndsRight, CancelEndsRight
<1>7. ASSUME NEW t \in Task, NEW c \in Coid, CancelBegins(t, c) PROVE CallsRight'
  BY <1>7, CancelBeginsRight
<1>8. ASSUME NEW w \in Worker, Crash(w) PROVE CallsRight'
  BY <1>8, CrashRight
<1>9. ASSUME NEW m \in wire, Exchange(m) PROVE CallsRight'
  BY <1>9, ExchangeRight
<1>10. ASSUME NEW o \in OrderId, Market(o) PROVE CallsRight'
  <2>1. UNCHANGED <<tasks, wire>>
    BY <1>10, QuietSteps
  <2>2. known' = known
    <3>1. \A p, fee, last : Trade(o, p, fee, last) => UNCHANGED known
      BY Zenon DEF Trade
    <3>2. \A fee : Corrected(o, fee) \/ Expires(o) => UNCHANGED known
      BY Zenon DEF Corrected, Expires
    <3>. QED  BY <1>10, <3>1, <3>2, Zenon DEF Market
  <2>. QED  BY <1>10, <2>1, <2>2, MarketAbsent, QuietRight
<1>11. ASSUME UNCHANGED <<tasks, wire, exch, known>> PROVE CallsRight'
  <2>1. \A d \in Coid : Absent(d)' <=> Absent(d)
    BY <1>11 DEF Absent
  <2>. QED  BY <1>11, <2>1, QuietRight
<1>12. \A o, poll : ReadFill(o) \/ ApplyPoll(poll) => UNCHANGED <<tasks, wire, exch, known>>
  BY DEF ReadFill, ApplyPoll
<1>13. ASSUME NEW c \in Coid, MarkEnded(c) PROVE CallsRight'
  <2>1. known[c] \in {"live", "closed"} /\ known' = [known EXCEPT ![c] = "closed"]
        /\ UNCHANGED <<tasks, wire, exch>>
    BY <1>13 DEF MarkEnded, Told
  <2>2. known'[c] = "closed" /\ \A d \in Coid \ {c} : known'[d] = known[d]
    BY <2>1 DEF BaseInv, BrokerTypeOK
  <2>3. ~Sending(c)
    BY <2>1, NotSending
  <2>4. \A d \in Coid : Absent(d)' <=> Absent(d)
    BY <2>1 DEF Absent
  <2>. QED  BY <2>1, <2>2, <2>3, <2>4, QuietRight
<1>14. ASSUME NEW c \in Coid, Reconcile(c) PROVE CallsRight'
  <2>1. /\ known[c] = "unsure" /\ ~Sending(c) /\ UNCHANGED <<tasks, wire, exch>>
        /\ \/ Absent(c) /\ known' = [known EXCEPT ![c] = "refused"]
           \/ known' = [known EXCEPT ![c] = "live"]
    BY <1>14 DEF Reconcile, Told, Absent
  <2>2. /\ (known'[c] = "refused" /\ Absent(c)) \/ known'[c] = "live"
        /\ \A d \in Coid \ {c} : known'[d] = known[d]
    BY <2>1 DEF BaseInv, BrokerTypeOK
  <2>3. ~\E u \in Task : Cancelling(u, c)
    BY <2>1 DEF CallsRight, KnownRight
  <2>4. \A d \in Coid : Absent(d)' <=> Absent(d)
    BY <2>1 DEF Absent
  <2>. QED  BY <2>1, <2>2, <2>3, <2>4, QuietRight
<1>15. \A cur, amount : Cashflow(cur, amount) => UNCHANGED <<tasks, wire, exch, known>>
  BY DEF Cashflow, brokerVars
<1>16. UNCHANGED brokerVars \/ UNCHANGED vars => UNCHANGED <<tasks, wire, exch, known>>
  BY DEF brokerVars, vars
<1>. QED  BY <1>2, <1>3, <1>4, <1>5, <1>6, <1>7, <1>8, <1>9, <1>10, <1>11, <1>12, <1>13, <1>14,
          <1>15, <1>16, Zenon DEF BrokerNext, Place, Resume

-------------------------------------------------------------------------------
\* A call of place() that is under way was under way, or begins.
LEMMA PlacingMoves ==
  ASSUME BaseInv, [BrokerNext]_vars, NEW t \in Task, NEW c \in Coid, Placing(t, c)'
  PROVE  Placing(t, c) \/ Starting(t, c)
<1>. USE DEF Placing
<1>1. tasks \in [Task -> Call \cup {Idle}] /\ wire \subseteq Message
  BY DEF BaseInv, BrokerTypeOK
<1>2. CASE UNCHANGED <<tasks, wire>>
  BY <1>2
<1>3. ASSUME NEW u \in Task, NEW d \in Coid, Starting(u, d)
      PROVE  Placing(t, c) \/ Starting(t, c)
  <2>0. tasks[u] = Idle /\ Begin(u, d)
    BY <1>3, StartingBegins
  <2>. DEFINE call == [op |-> "place", coid |-> d, step |-> "ready", reply |-> "none"]
  <2>1. tasks' = [tasks EXCEPT ![u] = call] /\ call.coid = d
    BY <2>0 DEF Begin
  <2>. HIDE DEF call
  <2>2. CASE t = u
    BY <1>1, <1>3, <2>1, <2>2
  <2>3. CASE t # u
    BY <1>1, <2>1, <2>3
  <2>. QED  BY <2>2, <2>3
<1>4. ASSUME NEW u \in Task, Send(u) PROVE Placing(t, c)
  <2>. DEFINE call == [tasks[u] EXCEPT !.step = "waiting"]
  <2>1. tasks' = [tasks EXCEPT ![u] = call] /\ tasks[u] # Idle
    BY <1>4 DEF Send, Calls
  <2>2. tasks[u] \in Call
    BY <2>1, CallType DEF BaseInv
  <2>3. call.op = tasks[u].op /\ call.coid = tasks[u].coid
    BY <2>2 DEF Call
  <2>. HIDE DEF call
  <2>4. CASE t = u
    BY <1>1, <2>1, <2>3, <2>4
  <2>5. CASE t # u
    BY <1>1, <2>1, <2>5
  <2>. QED  BY <2>4, <2>5
<1>5. ASSUME NEW u \in Task, NEW d \in Coid, CancelBegins(u, d) PROVE Placing(t, c)
  <2>. DEFINE call == [op |-> "cancel", coid |-> d, step |-> "waiting", reply |-> "none"]
  <2>1. tasks' = [tasks EXCEPT ![u] = call] /\ call.op = "cancel"
    BY <1>5 DEF CancelBegins
  <2>. HIDE DEF call
  <2>. QED  BY <1>1, <2>1
<1>6. ASSUME NEW ts \in SUBSET Task, Quits(ts) PROVE Placing(t, c)
  BY <1>1, <1>6 DEF Quits
<1>7. ASSUME NEW m \in wire, NEW reply, Handle(m, reply) PROVE Placing(t, c)
  <2>1. CASE m.task # t \/ m.task = NoTask
    BY <1>1, <1>7, <2>1 DEF Handle
  <2>2. CASE m.task = t /\ m.task # NoTask
    <3>. DEFINE call == [op |-> m.op, coid |-> m.coid, step |-> "waiting", reply |-> "none"]
                told == [op |-> m.op, coid |-> m.coid, step |-> "waiting", reply |-> reply]
    <3>1. tasks[t] = call
      BY <2>2 DEF BaseInv, Awaited
    <3>2. tasks' = [tasks EXCEPT ![t] = [call EXCEPT !.reply = reply]]
      BY <1>7, <2>2, <3>1 DEF Handle
    <3>3. [call EXCEPT !.reply = reply] = told
      OBVIOUS
    <3>4. call # Idle /\ call.op = told.op /\ call.coid = told.coid
      BY DEF Idle
    <3>. HIDE DEF call, told
    <3>. QED  BY <1>1, <3>1, <3>2, <3>3, <3>4
  <2>. QED  BY <2>1, <2>2
<1>8. \A m : Exchange(m) => \E reply : Handle(m, reply)
  BY Zenon DEF Exchange, ExchangeAccepts, ExchangeRefuses, ExchangeCancels
<1>. HIDE DEF Placing
<1>9. BrokerTypeOK /\ \A m \in wire : Awaited(m)
  BY DEF BaseInv
<1>. QED  BY <1>2, <1>3, <1>4, <1>5, <1>6, <1>7, <1>8, <1>9, CallMoves

\* A request on its way was on its way, or belongs to a call that was under way.
LEMMA WireMoves ==
  ASSUME BaseInv, [BrokerNext]_vars, NEW c \in Coid, OnWire(c)'
  PROVE  OnWire(c) \/ \E t \in Task : Placing(t, c)
<1>1. wire \subseteq Message
  BY DEF BaseInv, BrokerTypeOK
<1>2. CASE UNCHANGED <<tasks, wire>>
  BY <1>2 DEF OnWire
<1>3. \A t, d : Starting(t, d) => wire' = wire
  BY StartingBegins DEF Begin
<1>4. ASSUME NEW t \in Task, Send(t) PROVE OnWire(c) \/ Placing(t, c)
  BY <1>4 DEF Send, OnWire, Placing, Calls
<1>5. ASSUME NEW t \in Task, NEW d \in Coid, CancelBegins(t, d) PROVE OnWire(c)
  BY <1>5 DEF CancelBegins, OnWire
<1>6. ASSUME NEW ts \in SUBSET Task, Quits(ts) PROVE OnWire(c)
  <2>1. PICK m \in wire' : m.op = "place" /\ m.coid = c
    BY DEF OnWire
  <2>2. CASE m \in wire
    BY <2>1, <2>2 DEF OnWire
  <2>3. CASE \E n \in wire : m = [n EXCEPT !.task = NoTask]
    <3>1. PICK n \in wire : m = [n EXCEPT !.task = NoTask]
      BY <2>3
    <3>2. n \in Message
      BY <1>1
    <3>3. m.op = n.op /\ m.coid = n.coid
      BY <3>1, <3>2 DEF Message
    <3>. QED  BY <2>1, <3>3 DEF OnWire
  <2>. QED  BY <1>6, <2>2, <2>3 DEF Quits, Orphaned
<1>7. \A m : Exchange(m) => wire' = wire \ {m}
  BY DEF Exchange, ExchangeAccepts, ExchangeRefuses, ExchangeCancels, Handle
<1>8. BrokerTypeOK /\ \A m \in wire : Awaited(m)
  BY DEF BaseInv
<1>9. wire' \subseteq wire => OnWire(c)
  BY DEF OnWire
<1>. QED  BY <1>2, <1>3, <1>4, <1>5, <1>6, <1>7, <1>8, <1>9, CallMoves

\* What may execute could execute before, or is being placed now.
LEMMA MayExecuteMoves ==
  ASSUME BaseInv, [BrokerNext]_vars, NEW c \in Coid, MayExecute(c)'
  PROVE  MayExecute(c) \/ \E t \in Task : Starting(t, c)
<1>. DEFINE o == OrderOf(c)
<1>1. o \in OrderId /\ Attr[o].coid = c
  BY Pairing
<1>2. BaseInv'
  BY BaseStep
<1>3. Advances(o) /\ exch[o].status \in {"absent", "working", "done", "cancelled"}
  BY <1>1, ExchangeStep DEF BaseInv, BrokerTypeOK, ExchangeType, LedgerTypeOK, Message
<1>4. Sending(c) <=> (OnWire(c) \/ \E t \in Task : Placing(t, c))
  BY SendingIs DEF BaseInv, BeingSent
<1>5. Sending(c)' <=> (OnWire(c)' \/ \E t \in Task : Placing(t, c)')
  BY <1>2, SendingIsNext DEF BaseInv, BeingSent
<1>6. Sending(c)' => Sending(c) \/ \E t \in Task : Starting(t, c)
  BY <1>4, <1>5, PlacingMoves, WireMoves
<1>7. CASE exch'[o].status = "working"
  BY <1>1, <1>3, <1>4, <1>7 DEF Advances, MayExecute
<1>8. CASE exch'[o].status = "absent" /\ Sending(c)'
  BY <1>3, <1>6, <1>8 DEF Advances, MayExecute
<1>. QED  BY <1>7, <1>8 DEF MayExecute

-------------------------------------------------------------------------------
\* A guard is a reservation, a row and the settled executions of its order.
LEMMA GuardKept ==
  ASSUME NEW c \in Coid, Guarded(c), reserved'[c] = reserved[c], orders'[c] = orders[c],
         fills'[OrderOf(c)] = fills[OrderOf(c)]
  PROVE  Guarded(c)'
BY DEF Guarded

\* record_order and reserve_sell leave an open row of what was asked for.
LEMMA RowWritten ==
  ASSUME BaseInv, NEW c \in Coid, NEW id, Request[c].side = "sell",
         orders' = WriteOrder(c, id, Request[c].symbol, "sell", Request[c].currency, Request[c].qty)
  PROVE  Guarded(c)'
<1>. DEFINE kept == IF id = NoId /\ orders[c] # NoOrder THEN orders[c].orderId ELSE id
            row  == [status |-> "pending", orderId |-> kept, symbol |-> Request[c].symbol,
                     side |-> "sell", currency |-> Request[c].currency, qty |-> Request[c].qty]
<1>1. orders' = [orders EXCEPT ![c] = row]
  BY DEF WriteOrder
<1>2. /\ row.status = "pending" /\ row.side = "sell" /\ row.symbol = Request[c].symbol
      /\ row.qty = Request[c].qty /\ "qty" \in DOMAIN row /\ "qty" \notin DOMAIN NoOrder
  BY DEF NoOrder
<1>. HIDE DEF row
<1>3. orders'[c] = row
  BY <1>1 DEF BaseInv, BrokerTypeOK, LedgerTypeOK
<1>. QED  BY <1>2, <1>3 DEF Guarded, OpenStatus

\* A BUY that has executed all that its row asked for does not execute any more.
LEMMA CompleteEnds ==
  ASSUME BaseInv, NEW poll \in polls, NEW c, c = Attr[poll.order].coid,
         orders[c] # NoOrder => orders[c].qty = Request[c].qty, Complete(c, poll.snapshot)
  PROVE  c \in Coid /\ OrderOf(c) = poll.order /\ ~MayExecute(c)
<1>1. poll.order \in OrderId /\ poll.snapshot \in Snapshot
  BY DEF BaseInv, BrokerTypeOK
<1>2. c \in Coid /\ OrderOf(c) = poll.order
  BY <1>1, Pairing
<1>3. orders[c] # NoOrder /\ Request[c].qty > 0 /\ poll.snapshot.qty >= Request[c].qty
  BY DEF Complete, RecordedQty
<1>. DEFINE o == poll.order
<1>4. OrderedQty(o) = Request[c].qty /\ Request[c].qty \in Nat
  BY <1>1, <1>2, RequestTypes
<1>5. exch[o].qty \in Nat /\ poll.snapshot.qty \in Nat
  BY <1>1 DEF BaseInv, BrokerTypeOK, Snapshot
<1>6. poll.snapshot.qty <= exch[o].qty
  BY <1>1 DEF BaseInv, Behind, Upto
<1>7. exch[o].qty >= OrderedQty(o) /\ OrderedQty(o) > 0
  BY <1>3, <1>4, <1>5, <1>6
<1>8. exch[o].status # "working" /\ exch[o].status # "absent"
  BY <1>1, <1>4, <1>5, <1>7 DEF BaseInv, ExchangeShape
<1>. QED  BY <1>2, <1>8 DEF MayExecute

\* A poll takes from a reservation what it settles, and closes no row of an order that
\* goes on.
LEMMA FillGuards ==
  ASSUME BaseInv, NEW poll \in polls, ApplyPoll(poll), NEW c \in Coid, MayExecute(c), Guarded(c)
  PROVE  Guarded(c)'
<1>. DEFINE o == OrderOf(c)
            x == poll.snapshot
            r == Request[c]
<1>1. /\ poll.order \in OrderId /\ x \in Snapshot
      /\ o \in OrderId /\ Attr[o].coid = c
      /\ Attr[poll.order].coid \in Coid /\ OrderOf(Attr[poll.order].coid) = poll.order
  BY Pairing DEF BaseInv, BrokerTypeOK
<1>2. /\ fills \in [OrderId -> [qty : Nat, cost : Nat, fee : Nat, settles : Nat]]
      /\ reserved \in [Coid -> Reservation \cup {NoReservation}]
      /\ orders \in [Coid -> OrderRow \cup {NoOrder}]
  BY DEF BaseInv, BrokerTypeOK, LedgerTypeOK
<1>3. CASE UNCHANGED ledgerVars
  BY <1>3, GuardKept DEF ledgerVars
<1>4. CASE ApplyFill(poll.order, x) /\ poll.order # o
  <2>1. Attr[poll.order].coid # c
    BY <1>1, <1>4
  <2>2. fills'[o] = fills[o] /\ reserved'[c] = reserved[c] /\ orders'[c] = orders[c]
    BY <1>1, <1>2, <1>4, <2>1 DEF ApplyFill
  <2>. QED  BY <2>2, GuardKept
<1>5. CASE ApplyFill(poll.order, x) /\ poll.order = o
  <2>1. /\ x.qty >= fills[o].qty /\ fills'[o] = x
        /\ reserved' = IF Attr[o].side = "buy" /\ reserved[c] # NoReservation
                       THEN [reserved EXCEPT ![c] = ReservationAfterFill(c, o, x)] ELSE reserved
        /\ orders' = IF orders[c] = NoOrder THEN orders
                     ELSE [orders EXCEPT ![c].status = FillStatus(c, x)]
    BY <1>1, <1>2, <1>5, ReportsNamed DEF ApplyFill
  <2>2. ~Complete(c, x)
    <3>1. orders[c] # NoOrder => orders[c].qty = Request[c].qty
      BY DEF BaseInv, RowMatches
    <3>. QED  BY <1>1, <1>5, <3>1, CompleteEnds
  <2>3. /\ x.qty \in Nat /\ x.cost \in Nat /\ fills[o].qty \in Nat /\ fills[o].cost \in Nat
        /\ ReserveAmount(r) \in Nat /\ Attr[o].side = r.side
    BY <1>1, <1>2, RequestTypes DEF Snapshot
  <2>4. fills[o].cost <= x.cost
    <3>1. Consistent(x, fills[o])
      BY <1>1, <1>5 DEF BaseInv, Behind
    <3>. QED  BY <2>1, <2>3, <3>1 DEF Consistent
  <2>5. CASE r.side = "buy"
    <3>1. reserved[c].amount + fills[o].cost >= ReserveAmount(r)
      BY <2>5 DEF Guarded
    <3>2. CASE reserved[c] = NoReservation
      <4>1. reserved'[c] = NoReservation /\ NoReservation.amount = 0
        BY <2>1, <3>2 DEF NoReservation
      <4>. QED  BY <2>1, <2>3, <2>4, <2>5, <3>1, <3>2, <4>1 DEF Guarded
    <3>3. CASE reserved[c] # NoReservation
      <4>. DEFINE left == reserved[c].amount - (x.cost - fills[o].cost)
      <4>1. reserved[c] \in Reservation /\ reserved[c].amount \in Nat
        BY <1>2, <3>3 DEF Reservation
      <4>2. reserved'[c] = IF left <= 0 THEN NoReservation ELSE [reserved[c] EXCEPT !.amount = left]
        BY <1>2, <2>1, <2>2, <2>3, <2>5, <3>3 DEF ReservationAfterFill
      <4>3. NoReservation.amount = 0 /\ [reserved[c] EXCEPT !.amount = left].amount = left
        BY <4>1 DEF NoReservation, Reservation
      <4>4. reserved'[c].amount >= left
        BY <2>3, <4>1, <4>2, <4>3
      <4>5. reserved'[c].amount \in Int
        BY <2>3, <4>1, <4>2, <4>3
      <4>6. reserved'[c].amount + x.cost >= ReserveAmount(r)
        <5>. HIDE DEF x, r
        <5>. QED  BY <2>3, <3>1, <4>1, <4>4, <4>5
      <4>. QED  BY <2>1, <2>5, <4>6 DEF Guarded
    <3>. QED  BY <3>2, <3>3
  <2>6. CASE r.side # "buy"
    <3>1. /\ orders[c] # NoOrder /\ orders[c].status \in OpenStatus
          /\ orders[c].side = "sell" /\ orders[c].symbol = r.symbol /\ orders[c].qty = r.qty
      BY <2>6 DEF Guarded
    <3>. DEFINE row == [orders[c] EXCEPT !.status = "partially_filled"]
    <3>2. orders'[c] = row
      BY <1>2, <2>1, <2>2, <3>1 DEF FillStatus
    <3>3. orders[c] \in OrderRow
      BY <1>2, <3>1
    <3>4. /\ row.status = "partially_filled" /\ row.side = "sell" /\ row.symbol = r.symbol
          /\ row.qty = r.qty /\ "qty" \in DOMAIN row /\ "qty" \notin DOMAIN NoOrder
      BY <3>1, <3>3 DEF OrderRow, NoOrder
    <3>. HIDE DEF row, x
    <3>. QED  BY <2>6, <3>2, <3>4 DEF Guarded, OpenStatus
  <2>. QED  BY <2>5, <2>6
<1>. QED  BY <1>3, <1>4, <1>5 DEF ApplyPoll

\* record_order() of an order that goes on.
LEMMA RecordGuards ==
  ASSUME BaseInv, NEW c \in Coid, Guarded(c), NEW id,
         RecordOrder(c, id, Request[c].symbol, Request[c].side, Request[c].currency, Request[c].qty)
  PROVE  Guarded(c)'
<1>1. orders' = WriteOrder(c, id, Request[c].symbol, Request[c].side, Request[c].currency, Request[c].qty)
      /\ reserved' = reserved /\ fills' = fills
  BY DEF RecordOrder
<1>2. CASE Request[c].side = "buy"
  BY <1>1, <1>2 DEF Guarded
<1>3. CASE Request[c].side = "sell"
  BY <1>1, <1>3, RowWritten
<1>. QED  BY <1>2, <1>3, RequestTypes DEF Side

\* The guard stands before the request of its order can be sent.
LEMMA StartGuards ==
  ASSUME BaseInv, NEW t \in Task, NEW c \in Coid, Starting(t, c)
  PROVE  Guarded(c)'
<1>1. CASE PlaceBuy(t, c)
  <2>. DEFINE due == ReserveAmount(Request[c])
  <2>1. /\ Request[c].side = "buy" /\ fills' = fills
        /\ reserved' = [reserved EXCEPT ![c] = [currency |-> Request[c].currency, amount |-> due]]
    BY <1>1 DEF PlaceBuy, Reserve
  <2>2. reserved'[c].amount = due
    BY <2>1 DEF BaseInv, BrokerTypeOK, LedgerTypeOK
  <2>3. fills[OrderOf(c)].cost \in Nat /\ due \in Nat
    BY Pairing, RequestTypes DEF BaseInv, BrokerTypeOK, LedgerTypeOK
  <2>. QED  BY <2>1, <2>2, <2>3 DEF Guarded
<1>2. CASE PlaceSell(t, c)
  BY <1>2, RowWritten DEF PlaceSell, ReserveSell
<1>. QED  BY <1>1, <1>2 DEF Starting

\* Operations on the order of one client order id touch no other reservation or row.
LEMMA OthersKept ==
  ASSUME BaseInv, NEW c \in Coid, NEW d \in Coid, d # c,
         \/ \E cur, amount : Reserve(d, cur, amount)
         \/ \E id, s, side, cur, qty : RecordOrder(d, id, s, side, cur, qty)
         \/ \E s, cur, qty : ReserveSell(d, s, cur, qty)
         \/ Release(d)
         \/ \E status : MarkOrderTerminal(d, status)
  PROVE  reserved'[c] = reserved[c] /\ orders'[c] = orders[c] /\ fills' = fills
<1>. DEFINE Kept == reserved'[c] = reserved[c] /\ orders'[c] = orders[c] /\ fills' = fills
<1>1. /\ reserved \in [Coid -> Reservation \cup {NoReservation}]
      /\ orders \in [Coid -> OrderRow \cup {NoOrder}]
  BY DEF BaseInv, BrokerTypeOK, LedgerTypeOK
<1>2. \A cur, amount : Reserve(d, cur, amount) => Kept
  BY <1>1 DEF Reserve
<1>3. \A id, s, side, cur, qty : orders' = WriteOrder(d, id, s, side, cur, qty) => orders'[c] = orders[c]
  BY <1>1 DEF WriteOrder
<1>4. \A id, s, side, cur, qty : RecordOrder(d, id, s, side, cur, qty) => Kept
  BY <1>3 DEF RecordOrder
<1>5. \A s, cur, qty : ReserveSell(d, s, cur, qty) => Kept
  BY <1>3 DEF ReserveSell
<1>6. Release(d) => Kept
  BY <1>1 DEF Release
<1>7. \A status : MarkOrderTerminal(d, status) => Kept
  BY <1>1 DEF MarkOrderTerminal
<1>. QED  BY <1>2, <1>4, <1>5, <1>6, <1>7

\* What a step does to the reservation, the row and the snapshot of one order.
GuardUntouched(c) ==
  reserved'[c] = reserved[c] /\ orders'[c] = orders[c] /\ fills'[OrderOf(c)] = fills[OrderOf(c)]

Recorded(c) ==
  RecordOrder(c, OrderOf(c), Request[c].symbol, Request[c].side, Request[c].currency, Request[c].qty)

\* _unwind, and a reconciliation that finds no order.
LetGo(c) == known'[c] \in {"new", "refused"} /\ UNCHANGED <<fills, exch>>

\* cancel() or the consumer's mark: the order has ended, and its last execution is settled
\* or counted as missed.
Closed(c) ==
  LET o == OrderOf(c)
  IN  /\ known'[c] = "closed" /\ UNCHANGED <<fills, exch>>
      /\ exch[o].status # "working"
      /\ SameExecution(fills[o], exch[o]) \/ \E t \in Task : CancelConfirmed(t) /\ tasks[t].coid = c

Polled(c) == \E poll \in polls : ApplyPoll(poll) /\ poll.order = OrderOf(c)

\* Nothing else touches the guard of an order.
LEMMA GuardMoves ==
  ASSUME BaseInv, [BrokerNext]_vars, NEW c \in Coid
  PROVE  \/ GuardUntouched(c)
         \/ \E t \in Task : Starting(t, c)
         \/ Recorded(c) \/ LetGo(c) \/ Closed(c) \/ Polled(c)
<1>. DEFINE Moved == \/ GuardUntouched(c)
                     \/ \E t \in Task : Starting(t, c)
                     \/ Recorded(c) \/ LetGo(c) \/ Closed(c) \/ Polled(c)
<1>1. known \in [Coid -> Known]
  BY DEF BaseInv, BrokerTypeOK
<1>2. \A d \in Coid : \A what : Told(d, what) => known'[d] = what
  BY <1>1 DEF Told
<1>3. ASSUME NEW d \in Coid, d # c,
             \/ \E cur, amount : Reserve(d, cur, amount)
             \/ \E id, s, side, cur, qty : RecordOrder(d, id, s, side, cur, qty)
             \/ \E s, cur, qty : ReserveSell(d, s, cur, qty)
             \/ Release(d)
             \/ \E status : MarkOrderTerminal(d, status)
      PROVE  GuardUntouched(c)
  BY <1>3, OthersKept DEF GuardUntouched
<1>4. CASE UNCHANGED ledgerVars
  BY <1>4 DEF ledgerVars, GuardUntouched
<1>5. ASSUME NEW t \in Task, NEW d \in Coid, Starting(t, d) PROVE Moved
  BY <1>3, <1>5 DEF Starting, PlaceBuy, PlaceSell
<1>6. ASSUME NEW t \in Task, SendFails(t) \/ PlaceUnwound(t) PROVE Moved
  <2>1. /\ tasks[t] # Idle /\ Unwind(tasks[t].coid) /\ exch' = exch
        /\ \E what \in {"new", "refused"} : Told(tasks[t].coid, what)
    BY <1>6 DEF SendFails, PlaceUnwound, Calls, Answered
  <2>2. PICK d \in Coid : d = tasks[t].coid
    BY <2>1, CallType DEF BaseInv
  <2>3. CASE d = c
    <3>1. known'[d] \in {"new", "refused"}
      BY <1>2, <2>1, <2>2
    <3>2. fills' = fills
      BY <2>1, <2>2 DEF Unwind, Release, MarkOrderTerminal
    <3>. QED  BY <2>1, <2>3, <3>1, <3>2 DEF LetGo
  <2>4. CASE d # c
    BY <1>3, <2>1, <2>2, <2>4, UnwindMoves
  <2>. QED  BY <2>3, <2>4
<1>7. ASSUME NEW t \in Task, PlaceAccepted(t) PROVE Moved
  <2>1. PICK d \in Coid : d = tasks[t].coid
    BY <1>7, CallType DEF BaseInv, PlaceAccepted, Answered, Calls
  <2>2. Recorded(d)
    BY <1>7, <2>1 DEF PlaceAccepted, Recorded
  <2>. QED  BY <1>3, <2>2 DEF Recorded
<1>8. ASSUME NEW t \in Task, CancelConfirmed(t) PROVE Moved
  <2>1. PICK d \in Coid : d = tasks[t].coid
    BY <1>8, CallType DEF BaseInv, CancelConfirmed, Answered, Calls
  <2>2. CASE ClientOrderIdsFor(OrderOf(d)) = {}
    BY <1>4, <1>8, <2>1, <2>2 DEF CancelConfirmed
  <2>3. ASSUME NEW e \in ClientOrderIdsFor(OrderOf(d)), MarkOrderTerminal(e, "cancelled") PROVE Moved
    <3>1. e \in Coid /\ e = d
      <4>1. e \in Coid /\ orders[e] # NoOrder /\ orders[e].orderId = OrderOf(d)
        BY DEF ClientOrderIdsFor
      <4>2. orders[e].orderId \in {NoId, OrderOf(e)}
        BY <4>1 DEF BaseInv, RowMatches
      <4>. QED  BY <4>1, <4>2, Pairing, ConstantTypes
    <3>2. CASE d = c
      <4>1. Told(d, "closed") /\ exch' = exch /\ tasks[t] # Idle /\ tasks[t].reply = "cancelled"
        BY <1>8, <2>1 DEF CancelConfirmed, Answered, Calls
      <4>2. exch[OrderOf(d)].status = "cancelled"
        BY <2>1, <4>1 DEF BaseInv, Truthful
      <4>3. fills' = fills /\ known'[d] = "closed"
        BY <1>2, <2>3, <4>1 DEF MarkOrderTerminal
      <4>. QED  BY <1>8, <2>1, <3>2, <4>1, <4>2, <4>3 DEF Closed
    <3>3. CASE d # c
      BY <1>3, <2>3, <3>1, <3>3
    <3>. QED  BY <3>2, <3>3
  <2>. QED  BY <1>8, <2>1, <2>2, <2>3 DEF CancelConfirmed
<1>9. ASSUME NEW poll \in polls, ApplyPoll(poll) PROVE Moved
  <2>. DEFINE a == poll.order
  <2>1. a \in OrderId /\ Attr[a].coid \in Coid /\ OrderOf(Attr[a].coid) = a
    BY Pairing DEF BaseInv, BrokerTypeOK
  <2>2. CASE a = OrderOf(c)
    BY <1>9, <2>2 DEF Polled
  <2>3. CASE a # OrderOf(c) /\ ApplyFill(a, poll.snapshot)
    <3>1. /\ fills \in [OrderId -> [qty : Nat, cost : Nat, fee : Nat, settles : Nat]]
          /\ reserved \in [Coid -> Reservation \cup {NoReservation}]
          /\ orders \in [Coid -> OrderRow \cup {NoOrder}]
          /\ OrderOf(c) \in OrderId /\ Attr[a].coid # c
      BY <2>1, <2>3, Pairing DEF BaseInv, BrokerTypeOK, LedgerTypeOK
    <3>. HIDE DEF a
    <3>. QED  BY <2>1, <2>3, <3>1 DEF ApplyFill, GuardUntouched
  <2>. QED  BY <1>4, <1>9, <2>2, <2>3 DEF ApplyPoll
<1>10. ASSUME NEW d \in Coid, MarkEnded(d) PROVE Moved
  <2>1. /\ \E status : MarkOrderTerminal(d, status)
        /\ known'[d] = "closed" /\ exch' = exch /\ exch[OrderOf(d)].status # "working"
        /\ SameExecution(fills[OrderOf(d)], exch[OrderOf(d)])
    BY <1>2, <1>10 DEF MarkEnded
  <2>2. fills' = fills
    BY <2>1 DEF MarkOrderTerminal
  <2>. QED  BY <1>3, <2>1, <2>2 DEF Closed
<1>11. ASSUME NEW d \in Coid, Reconcile(d) PROVE Moved
  <2>1. CASE MarkOrderTerminal(d, "rejected") /\ Told(d, "refused")
    <3>1. known'[d] = "refused" /\ fills' = fills /\ exch' = exch
      BY <1>2, <1>11, <2>1 DEF Reconcile, MarkOrderTerminal
    <3>. QED  BY <1>3, <2>1, <3>1 DEF LetGo
  <2>2. CASE Recorded(d)
    BY <1>3, <2>2 DEF Recorded
  <2>. QED  BY <1>11, <2>1, <2>2 DEF Reconcile, Recorded
<1>12. ASSUME NEW cur, NEW amount, Cashflow(cur, amount) PROVE Moved
  BY <1>12 DEF Cashflow, RecordCashflow, GuardUntouched
<1>13. CASE NextDay
  BY <1>13 DEF NextDay, GuardUntouched
<1>14. \A t, d : PlaceRefused(t, d) \/ PlaceCached(t, d) \/ CancelBegins(t, d) => UNCHANGED ledgerVars
  BY DEF PlaceRefused, PlaceCached, CancelBegins
<1>15. \A t : Send(t) \/ PlaceConflict(t) \/ CancelRefused(t) \/ TimesOut(t) => UNCHANGED ledgerVars
  BY DEF Send, PlaceConflict, CancelRefused, TimesOut
<1>16. \A w : Crash(w) => UNCHANGED ledgerVars
  BY DEF Crash
<1>17. \A m : Exchange(m) => UNCHANGED ledgerVars
  BY Zenon DEF Exchange, ExchangeAccepts, ExchangeRefuses, ExchangeCancels, Handle
<1>18. \A o : Market(o) \/ ReadFill(o) => UNCHANGED ledgerVars
  <2>1. \A o, p, fee, last : Trade(o, p, fee, last) => UNCHANGED ledgerVars
    BY Zenon DEF Trade
  <2>2. \A o, fee : Corrected(o, fee) \/ Expires(o) \/ ReadFill(o) => UNCHANGED ledgerVars
    BY Zenon DEF Corrected, Expires, ReadFill
  <2>. QED  BY <2>1, <2>2, Zenon DEF Market
<1>19. UNCHANGED vars => UNCHANGED ledgerVars
  BY DEF vars
<1>20. \A t, d : PlaceBuy(t, d) \/ PlaceSell(t, d) => Starting(t, d)
  BY DEF Starting
<1>. QED  BY <1>4, <1>5, <1>6, <1>7, <1>8, <1>9, <1>10, <1>11, <1>12, <1>13, <1>14, <1>15, <1>16,
          <1>17, <1>18, <1>19, <1>20, Zenon DEF BrokerNext, Place, Resume

\* What _unwind, cancel(), a reconciliation or a mark takes off the guard does not execute
\* any more; every other step leaves the guard of an order that may execute.
LEMMA GuardGoesOn ==
  ASSUME BaseInv, CallsRight, Faithful, [BrokerNext]_vars,
         NEW c \in Coid, MayExecute(c), Guarded(c), MayExecute(c)'
  PROVE  Guarded(c)'
<1>1. BaseInv' /\ CallsRight'
  BY BaseStep, CallsStep
<1>2. /\ known'[c] \notin {"new", "refused"}
      /\ known'[c] = "closed" => exch'[OrderOf(c)].status = "working"
  BY <1>1, StoppedIsNext DEF Stopped
<1>3. GuardUntouched(c) => Guarded(c)'
  BY GuardKept DEF GuardUntouched
<1>4. (\E t \in Task : Starting(t, c)) => Guarded(c)'
  BY StartGuards
<1>5. Recorded(c) => Guarded(c)'
  BY RecordGuards DEF Recorded
<1>6. ~LetGo(c) /\ ~Closed(c)
  BY <1>2 DEF LetGo, Closed
<1>7. Polled(c) => Guarded(c)'
  BY FillGuards DEF Polled
<1>. QED  BY <1>3, <1>4, <1>5, <1>6, <1>7, GuardMoves

\* A step keeps every guard, and sets one before an order can execute.
LEMMA GuardStep == Faithful /\ BaseInv /\ GuardInv /\ [BrokerNext]_vars => GuardInv'
<1>. SUFFICES ASSUME Faithful, BaseInv, CallsRight, LiveOrdersGuarded, [BrokerNext]_vars
              PROVE  CallsRight' /\ LiveOrdersGuarded'
  BY DEF GuardInv
<1>1. ASSUME NEW c \in Coid, MayExecute(c)' PROVE Guarded(c)'
  <2>1. CASE \E t \in Task : Starting(t, c)
    BY <2>1, StartGuards
  <2>2. CASE MayExecute(c)
    BY <1>1, <2>2, GuardGoesOn DEF LiveOrdersGuarded
  <2>. QED  BY <1>1, <2>1, <2>2, MayExecuteMoves
<1>. QED  BY <1>1, CallsStep DEF LiveOrdersGuarded

\* The ledger opens with complete orders only, and nothing is under way.
LEMMA GuardInit == BrokerInit => GuardInv
<1>. SUFFICES ASSUME BrokerInit PROVE GuardInv
  OBVIOUS
<1>1. /\ \A t \in Task : tasks[t] = Idle
      /\ wire = {} /\ BaseInv
      /\ \A o \in OrderId : exch[o].status = IF o \in DOMAIN Seed THEN "done" ELSE "absent"
      /\ \A c \in Coid : known[c] = IF Seeded(c) THEN "closed" ELSE "new"
  BY BaseInit DEF BrokerInit
<1>2. \A t \in Task : \A c : ~Placing(t, c) /\ ~Cancelling(t, c)
  BY <1>1 DEF Placing, Cancelling
<1>3. ASSUME NEW c \in Coid PROVE KnownRight(c) /\ ~MayExecute(c)
  <2>1. exch[OrderOf(c)].status # "working" /\ (known[c] \in {"new", "refused"} => Absent(c))
    BY <1>1, Pairing DEF Seeded, Absent
  <2>2. ~Sending(c)
    BY <1>1, <1>2, SendingIs DEF BaseInv, BeingSent, OnWire
  <2>. QED  BY <1>2, <2>1, <2>2 DEF KnownRight, MayExecute
<1>. QED  BY <1>1, <1>2, <1>3 DEF GuardInv, CallsRight, LiveOrdersGuarded, Unsent

\* accepted=False is final: the order is not at the exchange, nothing of it is on its way,
\* and no later step of any worker brings it there.
THEOREM RefusalsAreFinal ==
  ASSUME Faithful
  PROVE  BrokerSpec => []RefusedIsFinal
<1>1. BrokerInit => BaseInv /\ GuardInv
  BY BaseInit, GuardInit
<1>2. BaseInv /\ GuardInv /\ [BrokerNext]_vars => BaseInv' /\ GuardInv'
  BY BaseStep, GuardStep
<1>3. BaseInv /\ GuardInv => RefusedIsFinal
  BY RefusedRight DEF GuardInv
<1>. QED  BY <1>1, <1>2, <1>3, PTL DEF BrokerSpec

\* An order that the exchange may still execute is covered by a reservation or an open
\* row, through every answer, timeout, crash, cancellation and late poll.
THEOREM LiveOrdersStayGuarded ==
  ASSUME Faithful
  PROVE  BrokerSpec => []LiveOrdersGuarded
<1>1. BrokerInit => BaseInv /\ GuardInv
  BY BaseInit, GuardInit
<1>2. BaseInv /\ GuardInv /\ [BrokerNext]_vars => BaseInv' /\ GuardInv'
  BY BaseStep, GuardStep
<1>3. GuardInv => LiveOrdersGuarded
  BY DEF GuardInv
<1>. QED  BY <1>1, <1>2, <1>3, PTL DEF BrokerSpec
===============================================================================

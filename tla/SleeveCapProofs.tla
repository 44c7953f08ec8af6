---------------------------- MODULE SleeveCapProofs ----------------------------
(***************************************************************************)
(* What the sleeve promises of its shares and its money: it sells no share *)
(* that it does not hold, it spends no more principal than it has, and the *)
(* cash it counts as available is short by no more than fees, however many *)
(* workers place, cancel, crash and poll.                                  *)
(***************************************************************************)
EXTENDS TossBrokerProofs

NothingMissed == [qty |-> 0, cost |-> 0]

\* A call of cancel() that was answered and has not handled the answer.
Confirmed(t, c) == tasks[t] # Idle /\ tasks[t].reply = "cancelled" /\ tasks[t].coid = c

\* The exchange cancels an order once, and cancel() counts what was missed of it once.
MissedOnce(c) ==
  /\ exch[OrderOf(c)].status # "cancelled" => missed[OrderOf(c)] = NothingMissed
  /\ \A t \in Task : Confirmed(t, c) => missed[OrderOf(c)] = NothingMissed
  /\ \A t, u \in Task : Confirmed(t, c) /\ Confirmed(u, c) => t = u

\* Only a BUY holds a reservation, in its own currency.
ReservedRight(c) ==
  reserved[c] # NoReservation =>
    Request[c].side = "buy" /\ reserved[c].currency = Request[c].currency

OpenRow(c) == orders[c].status \in OpenStatus

\* What an order has executed is settled, was missed by cancel(), or is still guarded.
Accounted(c) ==
  LET o == OrderOf(c)
  IN  IF Request[c].side = "buy"
      THEN exch[o].cost <= reserved[c].amount + fills[o].cost + missed[o].cost
      ELSE ~OpenRow(c) => exch[o].qty <= fills[o].qty + missed[o].qty

\* A SELL settles on one day, and the ledger and every poll have that day.
DatedRight(o) ==
  Attr[o].side = "sell" =>
    /\ exch[o].qty > 0 => exch[o].settles > 0
    /\ fills[o].qty > 0 => fills[o].settles = exch[o].settles
    /\ \A p \in polls : p.order = o => p.snapshot.settles = exch[o].settles

\* The shares of a SELL order that are sold or may be, and what a BUY has cost or may cost;
\* what cancel() missed is not counted.
Sold(o) == IF MayExecute(Attr[o].coid) THEN OrderedQty(o) ELSE exch[o].qty - missed[o].qty
Spent(o) == IF MayExecute(Attr[o].coid) THEN OrderedCost(o) ELSE exch[o].cost - missed[o].cost

\* What each order adds to the shares of s, and what it adds to the money in cur.
Shares(o, s) ==
  IF Attr[o].symbol # s THEN 0 ELSE IF Attr[o].side = "buy" THEN fills[o].qty ELSE -Sold(o)

Money(o, cur) ==
  IF Attr[o].currency # cur THEN 0
  ELSE IF Attr[o].side = "buy" THEN -Spent(o)
  ELSE IF exch[o].settles <= today THEN exch[o].cost ELSE 0

SharesCover == \A s \in Symbol : SumFunctionOnSet([o \in OrderId |-> Shares(o, s)], OrderId) >= 0

MoneyCovers ==
  \A cur \in Currency :
    Allocated(cur) + flows[cur] + SumFunctionOnSet([o \in OrderId |-> Money(o, cur)], OrderId) >= 0

\* What holds whatever the environment does.
ClosedInv ==
  /\ CashConserved
  /\ \A o \in OrderId : fills[o].qty = 0 => fills[o].cost = 0
  /\ \A c \in Coid : MissedOnce(c) /\ ReservedRight(c)

-------------------------------------------------------------------------------
\* The ledger and the exchange do not move in the same step.
LEMMA Apart ==
  ASSUME [BrokerNext]_vars
  PROVE  UNCHANGED exch \/ UNCHANGED <<ledgerVars, missed, known, polls>>
<1>1. \A m : ExchangeAccepts(m) \/ ExchangeCancels(m) => UNCHANGED <<ledgerVars, missed, known, polls>>
  BY Zenon DEF ExchangeAccepts, ExchangeCancels, Handle
<1>2. \A o, p, fee, last : Trade(o, p, fee, last) => UNCHANGED <<ledgerVars, missed, known, polls>>
  BY Zenon DEF Trade
<1>3. \A o, fee : Corrected(o, fee) \/ Expires(o) => UNCHANGED <<ledgerVars, missed, known, polls>>
  BY Zenon DEF Corrected, Expires
<1>4. \A o : Market(o) => UNCHANGED <<ledgerVars, missed, known, polls>>
  BY <1>2, <1>3, Zenon DEF Market
<1>. QED  BY <1>1, <1>4, ExchangeMoves

\* The types of what an order has executed, at the exchange and in the ledger.
LEMMA OrderTypes ==
  ASSUME BaseInv, NEW o \in OrderId
  PROVE  /\ exch[o].qty \in Nat /\ exch[o].cost \in Nat /\ exch[o].settles \in Nat
         /\ exch[o].status \in {"absent", "working", "done", "cancelled"}
         /\ fills[o].qty \in Nat /\ fills[o].cost \in Nat
         /\ fills[o].fee \in Nat /\ fills[o].settles \in Nat
         /\ missed[o].qty \in Nat /\ missed[o].cost \in Nat
         /\ OrderedQty(o) \in Nat /\ OrderedCost(o) \in Nat /\ today \in Nat
BY RequestTypes, Pairing DEF BaseInv, BrokerTypeOK, LedgerTypeOK

\* The same, order by order, as one formula.
OrdersTyped ==
  \A o \in OrderId : /\ exch[o].qty \in Nat /\ exch[o].cost \in Nat /\ exch[o].settles \in Nat
                     /\ fills[o].qty \in Nat /\ fills[o].cost \in Nat
                     /\ fills[o].fee \in Nat /\ fills[o].settles \in Nat
                     /\ missed[o].qty \in Nat /\ missed[o].cost \in Nat

\* It follows from the type invariant.
LEMMA OrdersTypedIs == BaseInv => OrdersTyped
BY OrderTypes DEF OrdersTyped

\* After a step as well.
LEMMA OrdersTypedNext == BaseInv' => OrdersTyped'
BY OrdersTypedIs, PTL

\* A snapshot only ever gives way to one that counts more.
LEMMA FillsGrow ==
  ASSUME BaseInv, [BrokerNext]_vars, NEW o \in OrderId
  PROVE  /\ fills[o].qty <= fills'[o].qty /\ fills[o].cost <= fills'[o].cost
         /\ \/ fills'[o] = fills[o]
            \/ fills'[o].qty > 0 /\ \E poll \in polls : poll.order = o /\ fills'[o] = poll.snapshot
<1>1. /\ fills[o].qty \in Nat /\ fills[o].cost \in Nat
      /\ fills \in [OrderId -> [qty : Nat, cost : Nat, fee : Nat, settles : Nat]]
  BY OrderTypes DEF BaseInv, BrokerTypeOK, LedgerTypeOK
<1>2. CASE fills'[o] = fills[o]
  BY <1>1, <1>2
<1>3. ASSUME NEW poll \in polls, ApplyPoll(poll), fills'[o] # fills[o]
      PROVE  /\ fills[o].qty <= fills'[o].qty /\ fills[o].cost <= fills'[o].cost
             /\ fills'[o].qty > 0 /\ poll.order = o /\ fills'[o] = poll.snapshot
  <2>. DEFINE x == poll.snapshot
  <2>1. ApplyFill(poll.order, x) /\ poll.order \in OrderId /\ x \in Snapshot
    BY <1>3 DEF ApplyPoll, ledgerVars, BaseInv, BrokerTypeOK
  <2>2. poll.order = o /\ fills'[o] = x /\ x.qty >= fills[o].qty
    BY <1>1, <1>3, <2>1 DEF ApplyFill
  <2>3. Consistent(x, fills[o])
    BY <2>2 DEF BaseInv, Behind
  <2>4. x.qty \in Nat /\ x.qty > 0 /\ x.cost \in Nat
    BY <2>1 DEF Snapshot
  <2>. QED  BY <1>1, <2>2, <2>3, <2>4 DEF Consistent
<1>4. \A a \in OrderId : ReadFill(a) => fills' = fills
  BY DEF ReadFill, ledgerVars
<1>. QED  BY <1>2, <1>3, <1>4, FillMoves DEF BaseInv

\* What cancel() counts as missed.
LEMMA MissedStays ==
  ASSUME BaseInv, [BrokerNext]_vars, NEW c \in Coid
  PROVE  \/ missed'[OrderOf(c)] = missed[OrderOf(c)]
         \/ \E t \in Task : CancelConfirmed(t) /\ Confirmed(t, c)
<1>1. missed \in [OrderId -> [qty : Nat, cost : Nat]]
  BY DEF BaseInv, BrokerTypeOK
<1>2. ASSUME NEW t \in Task, CancelConfirmed(t), missed'[OrderOf(c)] # missed[OrderOf(c)]
      PROVE  Confirmed(t, c)
  <2>1. PICK d \in Coid : d = tasks[t].coid
    BY <1>2, CallType DEF BaseInv, CancelConfirmed, Answered, Calls
  <2>2. tasks[t] # Idle /\ tasks[t].reply = "cancelled"
    BY <1>2 DEF CancelConfirmed, Answered, Calls
  <2>3. \E gap : missed' = [missed EXCEPT ![OrderOf(d)] = gap]
    BY <1>2, <2>1 DEF CancelConfirmed
  <2>4. OrderOf(d) = OrderOf(c)
    BY <1>1, <1>2, <2>3, Pairing
  <2>5. d = c
    BY <2>4, Pairing
  <2>. QED  BY <2>1, <2>2, <2>5 DEF Confirmed
<1>. QED  BY <1>2, MissedMoves

\* What it counts, and what it leaves.
LEMMA MissedCounts ==
  ASSUME BaseInv, NEW c \in Coid, NEW t \in Task, CancelConfirmed(t), Confirmed(t, c)
  PROVE  LET o == OrderOf(c)
         IN  /\ missed'[o].qty = exch[o].qty - fills[o].qty
             /\ missed'[o].cost = exch[o].cost - fills[o].cost
             /\ UNCHANGED <<fills, exch>> /\ exch[o].status = "cancelled" /\ tasks'[t] = Idle
<1>. DEFINE o == OrderOf(c)
            gap == [qty |-> exch[o].qty - fills[o].qty, cost |-> exch[o].cost - fills[o].cost]
<1>1. tasks[t].coid = c /\ o \in OrderId
  BY Pairing DEF Confirmed
<1>2. missed' = [missed EXCEPT ![o] = gap]
  BY <1>1 DEF CancelConfirmed
<1>3. missed'[o] = gap
  BY <1>1, <1>2 DEF BaseInv, BrokerTypeOK
<1>4. fills' = fills /\ exch' = exch
  BY DEF CancelConfirmed, MarkOrderTerminal, ledgerVars
<1>5. exch[o].status = "cancelled"
  BY <1>1 DEF BaseInv, Truthful, Confirmed
<1>6. tasks'[t] = Idle
  BY DEF CancelConfirmed, Stop, BaseInv, BrokerTypeOK
<1>. QED  BY <1>3, <1>4, <1>5, <1>6

-------------------------------------------------------------------------------
\* cancel() is told that an order is cancelled in the step that cancels it.
LEMMA ConfirmedMoves ==
  ASSUME BaseInv, [BrokerNext]_vars, NEW t \in Task, NEW c \in Coid, Confirmed(t, c)'
  PROVE  \/ Confirmed(t, c)
         \/ /\ exch[OrderOf(c)].status = "working" /\ UNCHANGED missed
            /\ \A u \in Task \ {t} : tasks'[u] = tasks[u]
<1>1. tasks \in [Task -> Call \cup {Idle}] /\ wire \subseteq Message
  BY DEF BaseInv, BrokerTypeOK
<1>2. CASE tasks'[t] = tasks[t]
  BY <1>2 DEF Confirmed
<1>3. ASSUME NEW u \in Task, NEW d \in Coid, Starting(u, d) \/ CancelBegins(u, d), tasks'[t] # tasks[t]
      PROVE  FALSE
  <2>. DEFINE call(op, step) == [op |-> op, coid |-> d, step |-> step, reply |-> "none"]
  <2>1. \/ tasks' = [tasks EXCEPT ![u] = call("place", "ready")]
        \/ tasks' = [tasks EXCEPT ![u] = call("cancel", "waiting")]
    BY <1>3, StartingBegins DEF Begin, CancelBegins
  <2>2. \A op, step : call(op, step).reply = "none"
    OBVIOUS
  <2>. HIDE DEF call
  <2>3. tasks'[t].reply = "none"
    BY <1>1, <1>3, <2>1, <2>2
  <2>. QED  BY <2>3 DEF Confirmed
<1>4. ASSUME NEW u \in Task, Send(u), tasks'[t] # tasks[t] PROVE FALSE
  <2>1. tasks[u] # Idle /\ tasks[u].step = "ready" /\ tasks' = [tasks EXCEPT ![u] = [tasks[u] EXCEPT !.step = "waiting"]]
    BY <1>4 DEF Send, Calls
  <2>2. tasks[u] \in Call /\ tasks[u].reply = "none"
    BY <2>1, CallType DEF BaseInv, Truthful
  <2>3. [tasks[u] EXCEPT !.step = "waiting"].reply = tasks[u].reply
    BY <2>2 DEF Call
  <2>4. tasks'[t].reply = "none"
    BY <1>1, <1>4, <2>1, <2>2, <2>3
  <2>. QED  BY <2>4 DEF Confirmed
<1>5. ASSUME NEW ts \in SUBSET Task, Quits(ts), tasks'[t] # tasks[t] PROVE FALSE
  BY <1>1, <1>5 DEF Quits, Confirmed
<1>6. ASSUME NEW m \in wire, Exchange(m), tasks'[t] # tasks[t]
      PROVE  /\ exch[OrderOf(c)].status = "working" /\ UNCHANGED missed
             /\ \A u \in Task \ {t} : tasks'[u] = tasks[u]
  <2>1. PICK reply : Handle(m, reply) /\ (reply = "cancelled" => exch[OrderOf(m.coid)].status = "working")
    BY <1>6 DEF Exchange, ExchangeAccepts, ExchangeRefuses, ExchangeCancels
  <2>. DEFINE call == [op |-> m.op, coid |-> m.coid, step |-> "waiting", reply |-> "none"]
              told == [op |-> m.op, coid |-> m.coid, step |-> "waiting", reply |-> reply]
  <2>2. m.task = t /\ m.task # NoTask
    BY <1>1, <1>6, <2>1 DEF Handle
  <2>3. tasks[t] = call
    BY <2>2 DEF BaseInv, Awaited
  <2>4. tasks' = [tasks EXCEPT ![t] = [call EXCEPT !.reply = reply]]
    BY <2>1, <2>2, <2>3 DEF Handle
  <2>5. [call EXCEPT !.reply = reply] = told /\ told.reply = reply /\ told.coid = m.coid
    OBVIOUS
  <2>. HIDE DEF call, told
  <2>6. tasks'[t] = told /\ \A u \in Task \ {t} : tasks'[u] = tasks[u]
    BY <1>1, <2>4, <2>5
  <2>7. reply = "cancelled" /\ m.coid = c
    BY <2>5, <2>6 DEF Confirmed
  <2>8. UNCHANGED missed
    BY <2>1 DEF Handle
  <2>. QED  BY <2>1, <2>6, <2>7, <2>8
<1>7. BrokerTypeOK /\ \A m \in wire : Awaited(m)
  BY DEF BaseInv
<1>. QED  BY <1>2, <1>3, <1>4, <1>5, <1>6, <1>7, CallMoves

\* What cancel() missed of an order is counted once.
LEMMA MissedOnceStep ==
  ASSUME BaseInv, [BrokerNext]_vars, NEW c \in Coid, MissedOnce(c)
  PROVE  MissedOnce(c)'
<1>. DEFINE o == OrderOf(c)
<1>1. o \in OrderId /\ Advances(o) /\ exch[o].status \in {"absent", "working", "done", "cancelled"}
  BY Pairing, ExchangeStep DEF BaseInv, BrokerTypeOK, ExchangeType, LedgerTypeOK, Message
<1>2. \A t \in Task : Confirmed(t, c) => exch[o].status = "cancelled"
  BY DEF BaseInv, Truthful, Confirmed
<1>3. \/ missed'[o] = missed[o]
      \/ \E t \in Task : CancelConfirmed(t) /\ Confirmed(t, c)
  BY MissedStays
<1>4. ASSUME exch'[o].status # "cancelled" PROVE missed'[o] = NothingMissed
  <2>1. exch[o].status # "cancelled"
    BY <1>1, <1>4 DEF Advances
  <2>. QED  BY <1>2, <1>3, <2>1 DEF MissedOnce
<1>5. ASSUME NEW t \in Task, Confirmed(t, c)' PROVE missed'[o] = NothingMissed
  <2>1. CASE ~Confirmed(t, c)
    <3>1. exch[o].status = "working" /\ UNCHANGED missed
      BY <1>5, <2>1, ConfirmedMoves
    <3>. QED  BY <3>1 DEF MissedOnce
  <2>2. ASSUME Confirmed(t, c), NEW u \in Task, CancelConfirmed(u), Confirmed(u, c) PROVE FALSE
    <3>1. u = t /\ tasks'[u] = Idle
      BY <2>2, MissedCounts DEF MissedOnce
    <3>. QED  BY <1>5, <3>1 DEF Confirmed
  <2>. QED  BY <1>3, <2>1, <2>2 DEF MissedOnce
<1>6. ASSUME NEW t \in Task, NEW u \in Task, Confirmed(t, c)', Confirmed(u, c)', t # u PROVE FALSE
  <2>1. ASSUME NEW v \in Task, NEW w \in Task, v # w, Confirmed(v, c)', Confirmed(w, c)', ~Confirmed(v, c)
        PROVE  FALSE
    <3>1. exch[o].status = "working" /\ tasks'[w] = tasks[w]
      BY <2>1, ConfirmedMoves
    <3>2. Confirmed(w, c)
      BY <2>1, <3>1 DEF Confirmed
    <3>. QED  BY <1>2, <3>1, <3>2
  <2>2. Confirmed(t, c) /\ Confirmed(u, c)
    BY <1>6, <2>1
  <2>. QED  BY <1>6, <2>2 DEF MissedOnce
<1>. QED  BY <1>4, <1>5, <1>6 DEF MissedOnce

\* A reservation is granted in the currency of its order, and a fill keeps it there.
LEMMA ReservedStep ==
  ASSUME BaseInv, [BrokerNext]_vars, NEW c \in Coid, ReservedRight(c)
  PROVE  ReservedRight(c)'
<1>1. reserved \in [Coid -> Reservation \cup {NoReservation}]
  BY DEF BaseInv, BrokerTypeOK, LedgerTypeOK
<1>2. CASE reserved'[c] = reserved[c] \/ reserved'[c] = NoReservation
  BY <1>2 DEF ReservedRight
<1>3. ASSUME NEW d \in Coid, Request[d].side = "buy", Reserve(d, Request[d].currency, ReserveAmount(Request[d])),
             reserved'[c] # reserved[c]
      PROVE  ReservedRight(c)'
  <2>. DEFINE held == [currency |-> Request[d].currency, amount |-> ReserveAmount(Request[d])]
  <2>1. reserved' = [reserved EXCEPT ![d] = held] /\ held.currency = Request[d].currency
    BY <1>3 DEF Reserve
  <2>. HIDE DEF held
  <2>2. c = d /\ reserved'[c] = held
    BY <1>1, <1>3, <2>1
  <2>. QED  BY <1>3, <2>1, <2>2 DEF ReservedRight
<1>4. ASSUME NEW poll \in polls, ApplyFill(poll.order, poll.snapshot), reserved'[c] # reserved[c]
      PROVE  ReservedRight(c)'
  <2>. DEFINE a == poll.order
              left == reserved[c].amount - (poll.snapshot.cost - fills[a].cost)
  <2>1. reserved' = IF Attr[a].side = "buy" /\ reserved[Attr[a].coid] # NoReservation
                    THEN [reserved EXCEPT ![Attr[a].coid] = ReservationAfterFill(Attr[a].coid, a, poll.snapshot)]
                    ELSE reserved
    BY <1>4 DEF ApplyFill
  <2>2. reserved[c] # NoReservation /\ reserved'[c] = ReservationAfterFill(c, a, poll.snapshot)
    BY <1>1, <1>4, <2>1
  <2>3. reserved'[c] = NoReservation \/ reserved'[c] = [reserved[c] EXCEPT !.amount = left]
    BY <2>2 DEF ReservationAfterFill
  <2>4. reserved[c] \in Reservation
    BY <1>1, <2>2
  <2>5. [reserved[c] EXCEPT !.amount = left].currency = reserved[c].currency
    BY <2>4 DEF Reservation
  <2>. HIDE DEF left
  <2>. QED  BY <2>2, <2>3, <2>5 DEF ReservedRight
<1>5. ASSUME NEW d \in Coid, Release(d) \/ \E status : MarkOrderTerminal(d, status)
      PROVE  reserved'[c] = reserved[c] \/ reserved'[c] = NoReservation
  BY <1>1, <1>5 DEF Release, MarkOrderTerminal
<1>6. \A d, id, s, side, cur, qty :
        RecordOrder(d, id, s, side, cur, qty) \/ ReserveSell(d, s, cur, qty) => reserved' = reserved
  BY DEF RecordOrder, ReserveSell
<1>7. \A cur, amount : RecordCashflow(cur, amount) \/ NextDay \/ UNCHANGED ledgerVars => reserved' = reserved
  BY DEF RecordCashflow, NextDay, ledgerVars
<1>8. BrokerTypeOK
  BY DEF BaseInv
<1>. QED  BY <1>2, <1>3, <1>4, <1>5, <1>6, <1>7, <1>8, LedgerMoves

\* Only fills and cashflows move cash, whoever calls.
LEMMA BrokerCash ==
  ASSUME BaseInv, [BrokerNext]_vars, CashConserved
  PROVE  CashConserved'
<1>1. LedgerTypeOK /\ LedgerTypeOK'
  BY BaseStep DEF BaseInv, BrokerTypeOK
<1>2. \A poll \in polls : poll.order \in OrderId /\ poll.snapshot \in Snapshot
  BY DEF BaseInv, BrokerTypeOK
<1>3. UNCHANGED ledgerVars \/ NextDay => UNCHANGED <<cash, flows, fills>>
  BY DEF ledgerVars, NextDay
<1>4. \A d, cur, amount : Reserve(d, cur, amount) \/ Release(d) => UNCHANGED <<cash, flows, fills>>
  BY DEF Reserve, Release
<1>5. \A d, id, s, side, cur, qty :
        RecordOrder(d, id, s, side, cur, qty) \/ ReserveSell(d, s, cur, qty) => UNCHANGED <<cash, flows, fills>>
  BY DEF RecordOrder, ReserveSell
<1>6. \A d, status : MarkOrderTerminal(d, status) => UNCHANGED <<cash, flows, fills>>
  BY DEF MarkOrderTerminal
<1>7. BrokerTypeOK
  BY DEF BaseInv
<1>8. \/ UNCHANGED <<cash, flows, fills>>
      \/ \E poll \in polls : ApplyFill(poll.order, poll.snapshot)
      \/ \E cur \in Currency, amount \in FlowAmount : RecordCashflow(cur, amount)
  BY <1>3, <1>4, <1>5, <1>6, <1>7, LedgerMoves
<1>9. \/ UNCHANGED <<cash, flows, fills>>
      \/ \E o \in OrderId, x \in Snapshot : ApplyFill(o, x)
      \/ \E cur \in Currency, amount \in FlowAmount : RecordCashflow(cur, amount)
  BY <1>2, <1>8
<1>. QED  BY <1>1, <1>9, CashKept

\* Whoever calls, and whatever the environment does, the books balance.
LEMMA ClosedStep == BaseInv /\ ClosedInv /\ [BrokerNext]_vars => ClosedInv'
<1>. SUFFICES ASSUME BaseInv, ClosedInv, [BrokerNext]_vars PROVE ClosedInv'
  OBVIOUS
<1>1. ASSUME NEW o \in OrderId, fills'[o].qty = 0 PROVE fills'[o].cost = 0
  <2>1. fills'[o] = fills[o]
    BY <1>1, FillsGrow
  <2>. QED  BY <1>1, <2>1 DEF ClosedInv
<1>. QED  BY <1>1, MissedOnceStep, ReservedStep, BrokerCash DEF ClosedInv

\* The ledger opens balanced, with nothing reserved and nothing missed.
LEMMA ClosedInit == BrokerInit => ClosedInv
<1>. SUFFICES ASSUME BrokerInit PROVE ClosedInv
  OBVIOUS
<1>1. BaseInv
  BY BaseInit
<1>2. CashConserved
  <2>1. ASSUME NEW cur \in Currency PROVE cash[cur] = Allocated(cur) + flows[cur] + SettledCash(cur)
    <3>1. SettledCash(cur) \in Int /\ Allocated(cur) \in Int
      BY <1>1, SettledCashType, ConstantTypes DEF BaseInv, BrokerTypeOK, LedgerTypeOK, Allocated
    <3>2. cash[cur] = Allocated(cur) + SettledCash(cur) /\ flows[cur] = 0
      BY DEF BrokerInit
    <3>. QED  BY <3>1, <3>2
  <2>. QED  BY <2>1 DEF CashConserved
<1>3. ASSUME NEW o \in OrderId PROVE fills[o].qty = 0 => fills[o].cost = 0
  <2>1. fills[o] = IF o \in DOMAIN Seed THEN Seed[o] ELSE NoExecution
    BY DEF BrokerInit
  <2>2. o \in DOMAIN Seed => Seed[o].qty > 0
    BY BrokerAssumption DEF Snapshot
  <2>3. NoExecution.cost = 0
    BY DEF NoExecution
  <2>. QED  BY <2>1, <2>2, <2>3
<1>4. ASSUME NEW c \in Coid PROVE MissedOnce(c) /\ ReservedRight(c)
  <2>1. \A t \in Task : tasks[t] = Idle
    BY DEF BrokerInit
  <2>2. reserved[c] = NoReservation /\ missed[OrderOf(c)] = NothingMissed
    BY Pairing DEF BrokerInit, NothingMissed
  <2>. QED  BY <2>1, <2>2 DEF MissedOnce, ReservedRight, Confirmed
<1>. QED  BY <1>2, <1>3, <1>4 DEF ClosedInv

-------------------------------------------------------------------------------
\* A snapshot that completes a row counts all that the order will have executed.
LEMMA CompleteCounts ==
  ASSUME BaseInv, NEW poll \in polls, NEW c \in Coid, poll.order = OrderOf(c), Complete(c, poll.snapshot)
  PROVE  exch[OrderOf(c)].qty <= poll.snapshot.qty /\ exch[OrderOf(c)].cost <= poll.snapshot.cost
<1>. DEFINE o == OrderOf(c)
            x == poll.snapshot
<1>1. o \in OrderId /\ Attr[o].coid = c
  BY Pairing
<1>2. x.qty \in Nat /\ x.cost \in Nat /\ exch[o].qty \in Nat /\ exch[o].cost \in Nat
  BY <1>1, OrderTypes DEF BaseInv, BrokerTypeOK, Snapshot
<1>3. orders[c] # NoOrder /\ orders[c].qty > 0 /\ x.qty >= orders[c].qty
  BY DEF Complete, RecordedQty
<1>4. orders[c].qty = OrderedQty(o) /\ OrderedQty(o) \in Nat
  BY <1>1, <1>3, OrderTypes, RequestTypes DEF BaseInv, RowMatches
<1>5. exch[o].qty <= OrderedQty(o)
  BY <1>1, <1>3, <1>4 DEF BaseInv, ExchangeShape
<1>6. Consistent(x, exch[o])
  BY <1>1 DEF BaseInv, Behind
<1>7. exch[o].qty <= x.qty
  BY <1>2, <1>3, <1>4, <1>5
<1>. QED  BY <1>6, <1>7 DEF Consistent

\* A poll takes from the reservation what it adds to the snapshot.
LEMMA PolledAccounts ==
  ASSUME BaseInv, [BrokerNext]_vars, NEW c \in Coid, Accounted(c), Polled(c),
         UNCHANGED <<exch, missed>>
  PROVE  Accounted(c)'
<1>. DEFINE o == OrderOf(c)
            r == Request[c]
<1>1. PICK poll \in polls : ApplyPoll(poll) /\ poll.order = o
  BY DEF Polled
<1>2. o \in OrderId /\ Attr[o].coid = c /\ Attr[o].side = r.side /\ r.side \in Side
  BY Pairing, RequestTypes
<1>3. CASE UNCHANGED ledgerVars
  BY <1>3 DEF ledgerVars, Accounted, OpenRow
<1>4. CASE ApplyFill(o, poll.snapshot)
  <2>1. PICK x : x = poll.snapshot
    OBVIOUS
  <2>2. x \in Snapshot /\ x.cost \in Nat /\ x.qty \in Nat
    BY <2>1 DEF BaseInv, BrokerTypeOK, Snapshot
  <2>3. /\ exch[o].qty \in Nat /\ exch[o].cost \in Nat /\ fills[o].qty \in Nat /\ fills[o].cost \in Nat
        /\ missed[o].qty \in Nat /\ missed[o].cost \in Nat
    BY <1>2, OrderTypes
  <2>4. /\ fills \in [OrderId -> [qty : Nat, cost : Nat, fee : Nat, settles : Nat]]
        /\ reserved \in [Coid -> Reservation \cup {NoReservation}]
        /\ orders \in [Coid -> OrderRow \cup {NoOrder}]
    BY DEF BaseInv, BrokerTypeOK, LedgerTypeOK
  <2>5. /\ fills'[o] = x /\ fills[o].qty <= x.qty
        /\ reserved' = IF Attr[o].side = "buy" /\ reserved[c] # NoReservation
                       THEN [reserved EXCEPT ![c] = ReservationAfterFill(c, o, x)] ELSE reserved
        /\ orders' = IF orders[c] = NoOrder THEN orders
                     ELSE [orders EXCEPT ![c].status = FillStatus(c, x)]
    BY <1>2, <1>4, <2>1, <2>4, ReportsNamed DEF ApplyFill
  <2>6. reserved'[c] \in Reservation \cup {NoReservation}
    BY BaseStep DEF BaseInv, BrokerTypeOK, LedgerTypeOK
  <2>7. reserved[c].amount \in Nat /\ reserved'[c].amount \in Nat
    BY <2>4, <2>6 DEF Reservation, NoReservation
  <2>8. fills[o].cost <= x.cost
    BY <1>2, <2>5, FillsGrow
  <2>9. Complete(c, x) => exch[o].qty <= x.qty /\ exch[o].cost <= x.cost
    BY <1>1, <2>1, CompleteCounts
  <2>10. CASE r.side = "buy"
    <3>1. exch[o].cost <= reserved[c].amount + fills[o].cost + missed[o].cost
      BY <2>10 DEF Accounted
    <3>2. CASE Complete(c, x)
      <4>1. exch[o].cost <= reserved'[c].amount + x.cost + missed[o].cost
        BY <2>2, <2>3, <2>7, <2>9, <3>2
      <4>. QED  BY <2>5, <2>10, <4>1 DEF Accounted
    <3>3. CASE ~Complete(c, x)
      <4>. DEFINE left == reserved[c].amount - (x.cost - fills[o].cost)
      <4>1. reserved'[c].amount >= left
        <5>1. CASE reserved[c] = NoReservation
          BY <2>2, <2>3, <2>5, <2>7, <2>8, <5>1
        <5>2. CASE reserved[c] # NoReservation
          <6>1. reserved'[c] = IF left <= 0 THEN NoReservation ELSE [reserved[c] EXCEPT !.amount = left]
            BY <1>2, <2>4, <2>5, <2>10, <3>3, <5>2 DEF ReservationAfterFill
          <6>2. reserved[c] \in Reservation
            BY <2>4, <5>2
          <6>3. [reserved[c] EXCEPT !.amount = left].amount = left /\ NoReservation.amount = 0
            BY <6>2 DEF Reservation, NoReservation
          <6>4. left \in Int
            BY <2>2, <2>3, <2>7
          <6>. HIDE DEF left
          <6>. QED  BY <6>1, <6>3, <6>4
        <5>. QED  BY <5>1, <5>2
      <4>2. exch[o].cost <= reserved'[c].amount + x.cost + missed[o].cost
        <5>. HIDE DEF o, r
        <5>. QED  BY <2>2, <2>3, <2>7, <3>1, <4>1
      <4>. QED  BY <2>5, <2>10, <4>2 DEF Accounted
    <3>. QED  BY <3>2, <3>3
  <2>11. CASE r.side # "buy"
    <3>1. ASSUME ~OpenRow(c)' PROVE exch[o].qty <= x.qty + missed[o].qty
      <4>1. CASE orders[c] = NoOrder
        <5>1. ~OpenRow(c)
          BY <2>5, <3>1, <4>1 DEF OpenRow
        <5>2. exch[o].qty <= fills[o].qty + missed[o].qty
          BY <2>11, <5>1 DEF Accounted
        <5>. HIDE DEF o
        <5>. QED  BY <2>2, <2>3, <2>5, <5>2
      <4>2. CASE orders[c] # NoOrder
        <5>1. orders[c] \in OrderRow
          BY <2>4, <4>2
        <5>2. orders'[c].status = FillStatus(c, x)
          BY <2>4, <2>5, <4>2, <5>1 DEF OrderRow
        <5>3. Complete(c, x)
          BY <3>1, <5>2 DEF FillStatus, OpenRow, OpenStatus
        <5>. HIDE DEF o
        <5>. QED  BY <2>2, <2>3, <2>9, <5>3
      <4>. QED  BY <4>1, <4>2
    <3>. QED  BY <2>5, <2>11, <3>1 DEF Accounted
  <2>. QED  BY <2>10, <2>11
<1>. QED  BY <1>1, <1>3, <1>4 DEF ApplyPoll

\* While nothing is placed again that may be live, a BUY that cancel() or a refusal lets
\* go of has nothing unsettled but what is counted as missed.
LEMMA AccountedStep ==
  ASSUME BaseInv, GuardInv, Faithful, [BrokerNext]_vars, NEW c \in Coid, Accounted(c)
  PROVE  Accounted(c)'
<1>. DEFINE o == OrderOf(c)
<1>1. o \in OrderId /\ Attr[o].coid = c /\ Attr[o].side = Request[c].side
  BY Pairing, RequestTypes
<1>2. BaseInv' /\ GuardInv'
  BY BaseStep, GuardStep
<1>3. /\ exch[o].qty \in Nat /\ exch[o].cost \in Nat /\ exch'[o].qty \in Nat /\ exch'[o].cost \in Nat
      /\ fills[o].qty \in Nat /\ fills[o].cost \in Nat /\ fills'[o].qty \in Nat /\ fills'[o].cost \in Nat
      /\ missed[o].qty \in Nat /\ missed[o].cost \in Nat /\ missed'[o].qty \in Nat /\ missed'[o].cost \in Nat
      /\ OrderedCost(o) \in Nat
  BY <1>1, <1>2, OrderTypes, OrdersTypedIs, OrdersTypedNext DEF OrdersTyped
<1>4. reserved[c].amount \in Nat /\ reserved'[c].amount \in Nat
  <2>1. reserved[c] \in Reservation \cup {NoReservation} /\ reserved'[c] \in Reservation \cup {NoReservation}
    BY <1>2 DEF BaseInv, BrokerTypeOK, LedgerTypeOK
  <2>. QED  BY <2>1 DEF Reservation, NoReservation
<1>. HIDE DEF o
<1>5. SUFFICES \/ exch'[o].qty <= fills'[o].qty + missed'[o].qty /\ exch'[o].cost <= fills'[o].cost + missed'[o].cost
               \/ Accounted(c)'
  <2>1. ASSUME exch'[o].qty <= fills'[o].qty + missed'[o].qty, exch'[o].cost <= fills'[o].cost + missed'[o].cost
        PROVE  /\ exch'[o].qty <= fills'[o].qty + missed'[o].qty
               /\ exch'[o].cost <= reserved'[c].amount + fills'[o].cost + missed'[o].cost
    BY <1>3, <1>4, <2>1
  <2>. QED  BY <2>1 DEF Accounted, o
<1>6. ASSUME NEW t \in Task, CancelConfirmed(t), Confirmed(t, c)
      PROVE  exch'[o].qty <= fills'[o].qty + missed'[o].qty /\ exch'[o].cost <= fills'[o].cost + missed'[o].cost
  <2>1. /\ missed'[o].qty = exch[o].qty - fills[o].qty /\ missed'[o].cost = exch[o].cost - fills[o].cost
        /\ UNCHANGED <<fills, exch>>
    BY <1>6, MissedCounts DEF o
  <2>. QED  BY <1>3, <2>1
<1>7. ASSUME missed'[o] = missed[o], UNCHANGED exch
      PROVE  \/ exch'[o].qty <= fills'[o].qty + missed'[o].qty /\ exch'[o].cost <= fills'[o].cost + missed'[o].cost
             \/ Accounted(c)'
  <2>1. CASE GuardUntouched(c)
    BY <1>7, <2>1 DEF GuardUntouched, Accounted, OpenRow, o
  <2>2. ASSUME exch[o].status = "absent"
        PROVE  exch'[o].qty <= fills'[o].qty + missed'[o].qty /\ exch'[o].cost <= fills'[o].cost + missed'[o].cost
    <3>1. exch[o].qty = 0 /\ exch[o].cost = 0
      BY <1>1, <2>2 DEF BaseInv, ExchangeShape
    <3>. QED  BY <1>3, <1>7, <3>1
  <2>3. ASSUME NEW t \in Task, Starting(t, c) PROVE exch[o].status = "absent"
    <3>1. known[c] = "new"
      BY <2>3 DEF Starting, PlaceBuy, PlaceSell, Starts, MayPlace, Faithful
    <3>. QED  BY <3>1 DEF GuardInv, CallsRight, KnownRight, Absent, o
  <2>4. CASE Recorded(c)
    <3>1. reserved' = reserved /\ fills' = fills /\ orders' = WriteOrder(c, OrderOf(c), Request[c].symbol, Request[c].side, Request[c].currency, Request[c].qty)
      BY <2>4 DEF Recorded, RecordOrder
    <3>2. OpenRow(c)'
      <4>. DEFINE kept == IF OrderOf(c) = NoId /\ orders[c] # NoOrder THEN orders[c].orderId ELSE OrderOf(c)
                  row  == [status |-> "pending", orderId |-> kept, symbol |-> Request[c].symbol,
                           side |-> Request[c].side, currency |-> Request[c].currency, qty |-> Request[c].qty]
      <4>1. orders' = [orders EXCEPT ![c] = row] /\ row.status = "pending"
        BY <3>1 DEF WriteOrder
      <4>. HIDE DEF row
      <4>2. orders'[c] = row
        BY <4>1 DEF BaseInv, BrokerTypeOK, LedgerTypeOK
      <4>. QED  BY <4>1, <4>2 DEF OpenRow, OpenStatus
    <3>. QED  BY <1>7, <3>1, <3>2 DEF Accounted, o
  <2>5. ASSUME LetGo(c) PROVE exch[o].status = "absent"
    BY <1>2, <1>7, <2>5 DEF LetGo, GuardInv, CallsRight, KnownRight, Absent, o
  <2>6. ASSUME SameExecution(fills[o], exch[o]), UNCHANGED fills
        PROVE  exch'[o].qty <= fills'[o].qty + missed'[o].qty /\ exch'[o].cost <= fills'[o].cost + missed'[o].cost
    BY <1>3, <1>7, <2>6 DEF SameExecution
  <2>7. ASSUME Closed(c)
        PROVE  exch'[o].qty <= fills'[o].qty + missed'[o].qty /\ exch'[o].cost <= fills'[o].cost + missed'[o].cost
    <3>1. CASE SameExecution(fills[o], exch[o])
      BY <2>6, <2>7, <3>1 DEF Closed
    <3>2. ASSUME NEW t \in Task, CancelConfirmed(t), tasks[t].coid = c PROVE Confirmed(t, c)
      BY <3>2 DEF CancelConfirmed, Answered, Calls, Confirmed
    <3>. QED  BY <1>6, <2>7, <3>1, <3>2 DEF Closed, o
  <2>8. CASE Polled(c)
    <3>1. UNCHANGED missed
      BY <2>8 DEF Polled, ApplyPoll
    <3>. QED  BY <1>7, <2>8, <3>1, PolledAccounts
  <2>. QED  BY <2>1, <2>2, <2>3, <2>4, <2>5, <2>7, <2>8, GuardMoves
<1>8. ASSUME UNCHANGED <<ledgerVars, missed>>
      PROVE  Accounted(c)'
  <2>1. Advances(o)
    BY <1>1, ExchangeStep DEF BaseInv, BrokerTypeOK, ExchangeType, LedgerTypeOK, Message
  <2>2. UNCHANGED <<reserved, orders, fills, missed>>
    BY <1>8 DEF ledgerVars
  <2>3. CASE exch'[o].qty = exch[o].qty /\ exch'[o].cost = exch[o].cost
    BY <2>2, <2>3 DEF Accounted, OpenRow, o
  <2>4. CASE exch[o].status = "working" /\ (Attr[o].side = "buy" => exch'[o].cost <= OrderedCost(o))
    <3>1. Guarded(c)
      BY <2>4 DEF GuardInv, LiveOrdersGuarded, MayExecute, o
    <3>2. CASE Request[c].side = "buy"
      <4>1. reserved[c].amount + fills[o].cost >= OrderedCost(o)
        BY <1>1, <3>1, <3>2 DEF Guarded, OrderedCost, o
      <4>2. exch'[o].cost <= reserved'[c].amount + fills'[o].cost + missed'[o].cost
        BY <1>1, <1>3, <1>4, <2>2, <2>4, <3>2, <4>1
      <4>. QED  BY <3>2, <4>2 DEF Accounted, o
    <3>3. CASE Request[c].side # "buy"
      BY <2>2, <3>1, <3>3 DEF Guarded, Accounted, OpenRow
    <3>. QED  BY <3>2, <3>3
  <2>. QED  BY <2>1, <2>3, <2>4 DEF Advances
<1>9. missed'[o] = missed[o] \/ \E t \in Task : CancelConfirmed(t) /\ Confirmed(t, c)
  BY MissedStays DEF o
<1>. QED  BY <1>6, <1>7, <1>8, <1>9, Apart

-------------------------------------------------------------------------------
\* The shares that a SELL has sold or may sell become more only when it is placed.
LEMMA SoldFalls ==
  ASSUME BaseInv, ClosedInv, [BrokerNext]_vars, NEW o \in OrderId, Attr[o].side = "sell",
         ~\E t \in Task : Starting(t, Attr[o].coid)
  PROVE  Sold(o)' <= Sold(o)
<1>. DEFINE c == Attr[o].coid
<1>1. c \in Coid /\ OrderOf(c) = o /\ Request[c].side = "sell" /\ OrderedQty(o) > 0
  BY Pairing, RequestTypes
<1>2. BaseInv'
  BY BaseStep
<1>3. /\ exch[o].qty \in Nat /\ exch'[o].qty \in Nat /\ fills[o].qty \in Nat
      /\ missed[o].qty \in Nat /\ missed'[o].qty \in Nat /\ OrderedQty(o) \in Nat
  BY <1>2, OrderTypes, OrdersTypedNext DEF OrdersTyped
<1>4. MayExecute(c)' => MayExecute(c)
  BY <1>1, MayExecuteMoves
<1>5. Sold(o)' = IF MayExecute(c)' THEN OrderedQty(o) ELSE exch'[o].qty - missed'[o].qty
  BY DEF Sold, OrderedQty
<1>6. CASE MayExecute(c)
  <2>1. exch'[o].qty <= OrderedQty(o)
    <3>1. ExchangeShape(o)'
      BY <1>2 DEF BaseInv
    <3>. QED  BY <1>1, <3>1 DEF ExchangeShape, OrderedQty
  <2>. HIDE DEF c
  <2>. QED  BY <1>3, <1>5, <1>6, <2>1 DEF Sold, c
<1>7. CASE ~MayExecute(c)
  <2>1. exch'[o].qty = exch[o].qty
    <3>1. Advances(o)
      BY ExchangeStep DEF BaseInv, BrokerTypeOK, ExchangeType, LedgerTypeOK, Message
    <3>. QED  BY <1>1, <1>7, <3>1 DEF Advances, MayExecute
  <2>2. missed[o].qty <= missed'[o].qty
    <3>1. CASE missed'[o] = missed[o]
      BY <1>3, <3>1
    <3>2. ASSUME NEW t \in Task, CancelConfirmed(t), Confirmed(t, c) PROVE missed[o].qty <= missed'[o].qty
      <4>1. missed[o] = NothingMissed
        BY <1>1, <3>2 DEF ClosedInv, MissedOnce
      <4>. QED  BY <1>3, <4>1 DEF NothingMissed
    <3>. QED  BY <1>1, <3>1, <3>2, MissedStays
  <2>3. Sold(o) = exch[o].qty - missed[o].qty /\ Sold(o)' = exch'[o].qty - missed'[o].qty
    BY <1>4, <1>5, <1>7 DEF Sold
  <2>. HIDE DEF c
  <2>. QED  BY <1>3, <2>1, <2>2, <2>3
<1>. QED  BY <1>6, <1>7

\* What a BUY has cost or may cost becomes more only when it is placed.
LEMMA SpentFalls ==
  ASSUME BaseInv, ClosedInv, [BrokerNext]_vars, NEW o \in OrderId, Attr[o].side = "buy",
         ~\E t \in Task : Starting(t, Attr[o].coid)
  PROVE  Spent(o)' <= Spent(o)
<1>. DEFINE c == Attr[o].coid
<1>1. c \in Coid /\ OrderOf(c) = o
  BY Pairing
<1>2. BaseInv'
  BY BaseStep
<1>3. /\ exch[o].cost \in Nat /\ exch'[o].cost \in Nat /\ fills[o].cost \in Nat
      /\ missed[o].cost \in Nat /\ missed'[o].cost \in Nat /\ OrderedCost(o) \in Nat
  BY <1>2, OrderTypes, OrdersTypedNext DEF OrdersTyped
<1>4. MayExecute(c)' => MayExecute(c)
  BY <1>1, MayExecuteMoves
<1>5. Spent(o)' = IF MayExecute(c)' THEN OrderedCost(o) ELSE exch'[o].cost - missed'[o].cost
  BY DEF Spent, OrderedCost, ReserveAmount
<1>6. Advances(o)
  BY ExchangeStep DEF BaseInv, BrokerTypeOK, ExchangeType, LedgerTypeOK, Message
<1>7. CASE MayExecute(c)
  <2>1. exch[o].cost <= OrderedCost(o)
    <3>1. ExchangeShape(o)
      BY DEF BaseInv
    <3>2. CASE exch[o].status = "working"
      BY <3>1, <3>2 DEF ExchangeShape
    <3>3. CASE exch[o].status = "absent"
      BY <1>3, <3>1, <3>3 DEF ExchangeShape
    <3>. QED  BY <1>1, <1>7, <3>2, <3>3 DEF MayExecute
  <2>2. exch'[o].cost <= OrderedCost(o)
    BY <1>6, <2>1 DEF Advances
  <2>. HIDE DEF c
  <2>. QED  BY <1>3, <1>5, <1>7, <2>2 DEF Spent, c
<1>8. CASE ~MayExecute(c)
  <2>1. exch'[o].cost = exch[o].cost
    BY <1>1, <1>6, <1>8 DEF Advances, MayExecute
  <2>2. missed[o].cost <= missed'[o].cost
    <3>1. CASE missed'[o] = missed[o]
      BY <1>3, <3>1
    <3>2. ASSUME NEW t \in Task, CancelConfirmed(t), Confirmed(t, c) PROVE missed[o].cost <= missed'[o].cost
      <4>1. missed[o] = NothingMissed
        BY <1>1, <3>2 DEF ClosedInv, MissedOnce
      <4>. QED  BY <1>3, <4>1 DEF NothingMissed
    <3>. QED  BY <1>1, <3>1, <3>2, MissedStays
  <2>3. Spent(o) = exch[o].cost - missed[o].cost /\ Spent(o)' = exch'[o].cost - missed'[o].cost
    BY <1>4, <1>5, <1>8 DEF Spent
  <2>. HIDE DEF c
  <2>. QED  BY <1>3, <2>1, <2>2, <2>3
<1>. QED  BY <1>7, <1>8

-------------------------------------------------------------------------------
\* The sell guard.

\* What an order has executed before the first day is settled.
LEMMA AccountedInit == BrokerInit => \A c \in Coid : Accounted(c)
<1>. SUFFICES ASSUME BrokerInit, NEW c \in Coid PROVE Accounted(c)
  OBVIOUS
<1>. DEFINE o == OrderOf(c)
<1>1. o \in OrderId /\ BaseInv
  BY Pairing, BaseInit
<1>2. /\ exch[o].qty \in Nat /\ exch[o].cost \in Nat
      /\ missed[o].qty = 0 /\ missed[o].cost = 0 /\ reserved[c].amount = 0
  BY <1>1, OrderTypes DEF BrokerInit, NoReservation
<1>3. exch[o].qty = fills[o].qty /\ exch[o].cost = fills[o].cost
  <2>. DEFINE rec(p) == [status |-> IF p \in DOMAIN Seed THEN "done" ELSE "absent", qty |-> fills[p].qty,
                         cost |-> fills[p].cost, fee |-> fills[p].fee, settles |-> fills[p].settles]
  <2>1. \A p : rec(p).qty = fills[p].qty /\ rec(p).cost = fills[p].cost
    OBVIOUS
  <2>2. exch = [p \in OrderId |-> rec(p)]
    BY DEF BrokerInit
  <2>. HIDE DEF rec
  <2>. QED  BY <1>1, <2>1, <2>2
<1>. HIDE DEF o
<1>4. exch[o].qty <= fills[o].qty + missed[o].qty /\ exch[o].cost <= reserved[c].amount + fills[o].cost + missed[o].cost
  BY <1>2, <1>3
<1>. QED  BY <1>4 DEF Accounted, o

\* What the first day finds of each order: all of it executed before, or nothing of it.
LEMMA SeededOrders ==
  ASSUME BrokerInit, NEW o \in OrderId
  PROVE  /\ ~MayExecute(Attr[o].coid) /\ missed[o] = NothingMissed
         /\ o \in DOMAIN Seed => /\ fills[o] = Seed[o] /\ exch[o].qty = Seed[o].qty
                                 /\ exch[o].cost = Seed[o].cost /\ exch[o].settles = Seed[o].settles
         /\ o \notin DOMAIN Seed => /\ fills[o] = NoExecution /\ exch[o].qty = 0
                                    /\ exch[o].cost = 0 /\ exch[o].settles = 0
<1>. DEFINE rec(p) == [status |-> IF p \in DOMAIN Seed THEN "done" ELSE "absent", qty |-> fills[p].qty,
                       cost |-> fills[p].cost, fee |-> fills[p].fee, settles |-> fills[p].settles]
<1>1. \A p : /\ rec(p).status = IF p \in DOMAIN Seed THEN "done" ELSE "absent"
             /\ rec(p).qty = fills[p].qty /\ rec(p).cost = fills[p].cost /\ rec(p).settles = fills[p].settles
  OBVIOUS
<1>2. exch = [p \in OrderId |-> rec(p)]
  BY DEF BrokerInit
<1>. HIDE DEF rec
<1>3. /\ exch[o].status = IF o \in DOMAIN Seed THEN "done" ELSE "absent"
      /\ exch[o].qty = fills[o].qty /\ exch[o].cost = fills[o].cost /\ exch[o].settles = fills[o].settles
  BY <1>1, <1>2
<1>4. fills[o] = IF o \in DOMAIN Seed THEN Seed[o] ELSE NoExecution
  BY DEF BrokerInit
<1>5. ~Sending(Attr[o].coid)
  <2>1. BaseInv /\ Attr[o].coid \in Coid /\ wire = {} /\ \A t \in Task : tasks[t] = Idle
    BY BaseInit, Pairing DEF BrokerInit
  <2>. QED  BY <2>1, SendingIs DEF BaseInv, BeingSent, OnWire, Placing
<1>6. missed[o] = NothingMissed
  BY DEF BrokerInit, NothingMissed
<1>7. NoExecution.qty = 0 /\ NoExecution.cost = 0 /\ NoExecution.settles = 0
  BY DEF NoExecution
<1>. QED  BY <1>3, <1>4, <1>5, <1>6, <1>7, Pairing DEF MayExecute

\* What an order adds to the shares is an integer.
LEMMA SharesType == BaseInv => \A o \in OrderId, s \in Symbol : Shares(o, s) \in Int
<1>. SUFFICES ASSUME BaseInv, NEW o \in OrderId, NEW s \in Symbol PROVE Shares(o, s) \in Int
  OBVIOUS
<1>1. Sold(o) \in Int
  BY OrderTypes DEF Sold
<1>. QED  BY <1>1, OrderTypes DEF Shares

\* And it stays one.
LEMMA SharesTypeNext == BaseInv' => \A o \in OrderId, s \in Symbol : Shares(o, s)' \in Int
<1>1. BaseInv' => (\A o \in OrderId, s \in Symbol : Shares(o, s) \in Int)'
  BY SharesType, PTL
<1>. QED  BY <1>1

\* The seeded orders sold no more than they bought.
LEMMA SharesInit == BrokerInit => SharesCover
<1>. SUFFICES ASSUME BrokerInit, NEW s \in Symbol
              PROVE  SumFunctionOnSet([o \in OrderId |-> Shares(o, s)], OrderId) >= 0
  BY DEF SharesCover
<1>. DEFINE f == [o \in OrderId |-> IF o \notin DOMAIN Seed \/ Attr[o].symbol # s THEN 0
                                    ELSE IF Attr[o].side = "buy" THEN Seed[o].qty
                                    ELSE -Seed[o].qty]
            g == [o \in OrderId |-> Shares(o, s)]
<1>1. SumFunctionOnSet(f, OrderId) >= 0
  BY SeedAssumption
<1>2. ASSUME NEW o \in OrderId PROVE f[o] = g[o]
  <2>1. Sold(o) = exch[o].qty /\ exch[o].qty \in Nat
    <3>1. ~MayExecute(Attr[o].coid) /\ missed[o].qty = 0
      BY SeededOrders DEF NothingMissed
    <3>2. exch[o].qty \in Nat
      BY BaseInit, OrderTypes
    <3>. QED  BY <3>1, <3>2 DEF Sold
  <2>2. CASE o \in DOMAIN Seed
    <3>1. fills[o].qty = Seed[o].qty /\ Sold(o) = Seed[o].qty
      BY <2>1, <2>2, SeededOrders
    <3>2. g[o] = IF Attr[o].symbol # s THEN 0 ELSE IF Attr[o].side = "buy" THEN fills[o].qty ELSE -Sold(o)
      BY DEF Shares
    <3>. QED  BY <2>2, <3>1, <3>2
  <2>3. CASE o \notin DOMAIN Seed
    <3>1. fills[o].qty = 0 /\ Sold(o) = 0
      BY <2>1, <2>3, SeededOrders DEF NoExecution
    <3>2. g[o] = IF Attr[o].symbol # s THEN 0 ELSE IF Attr[o].side = "buy" THEN fills[o].qty ELSE -Sold(o)
      BY DEF Shares
    <3>3. g[o] = 0
      BY <3>1, <3>2
    <3>. QED  BY <2>3, <3>3
  <2>. QED  BY <2>2, <2>3
<1>. HIDE DEF f, g
<1>3. SumFunctionOnSet(f, OrderId) = SumFunctionOnSet(g, OrderId)
  BY <1>2, ConstantTypes, SumAgree
<1>. QED  BY <1>1, <1>3 DEF g

\* A SELL that is not placed in the step only ever gives shares back.
LEMMA SharesGrow ==
  ASSUME BaseInv, ClosedInv, [BrokerNext]_vars, NEW o \in OrderId, NEW s \in Symbol,
         Attr[o].symbol = s /\ Attr[o].side = "sell" => ~\E t \in Task : Starting(t, Attr[o].coid)
  PROVE  Shares(o, s) <= Shares(o, s)'
<1>1. BaseInv'
  BY BaseStep
<1>2. CASE Attr[o].symbol # s
  <2>1. Shares(o, s) = 0 /\ Shares(o, s)' = 0
    BY <1>2 DEF Shares
  <2>. QED  BY <2>1
<1>3. CASE Attr[o].symbol = s /\ Attr[o].side = "buy"
  BY <1>3, FillsGrow DEF Shares
<1>4. CASE Attr[o].symbol = s /\ Attr[o].side # "buy"
  <2>1. Attr[o].side = "sell"
    BY <1>4, ConstantTypes DEF Side
  <2>2. Sold(o)' <= Sold(o)
    BY <1>4, <2>1, SoldFalls
  <2>3. Shares(o, s) = -Sold(o) /\ Shares(o, s)' = -Sold(o)'
    BY <1>4 DEF Shares
  <2>4. Sold(o) \in Int /\ Sold(o)' \in Int
    <3>1. Sold(o) \in Int
      BY OrderTypes DEF Sold
    <3>2. Sold(o)' = IF MayExecute(Attr[o].coid)' THEN OrderedQty(o) ELSE exch'[o].qty - missed'[o].qty
      BY DEF Sold, OrderedQty
    <3>. QED  BY <1>1, <3>1, <3>2, OrderTypes, OrdersTypedNext DEF OrdersTyped
  <2>. QED  BY <2>2, <2>3, <2>4
<1>. QED  BY <1>2, <1>3, <1>4

\* The shares a SELL has sold or may sell are settled, or pledged by its open row.
LEMMA SellCovered ==
  ASSUME BaseInv, ClosedInv, LiveOrdersGuarded, NEW o \in OrderId, Attr[o].side = "sell",
         Accounted(Attr[o].coid)
  PROVE  LET c == Attr[o].coid
         IN  Sold(o) <= fills[o].qty + (IF IsOpenSell(c, Attr[o].symbol)
                                        THEN AtLeast0(orders[c].qty - FilledOf(orders[c].orderId)) ELSE 0)
<1>. DEFINE c == Attr[o].coid
            s == Attr[o].symbol
            pledged == AtLeast0(orders[c].qty - FilledOf(orders[c].orderId))
<1>1. /\ c \in Coid /\ OrderOf(c) = o /\ Request[c].side = "sell" /\ Request[c].symbol = s
      /\ Request[c].qty = OrderedQty(o) /\ OrderedQty(o) > 0 /\ OrderedQty(o) \in Nat
  BY Pairing, RequestTypes
<1>2. exch[o].qty \in Nat /\ fills[o].qty \in Nat /\ missed[o].qty \in Nat
  BY OrderTypes
<1>3. exch[o].qty <= OrderedQty(o)
  BY <1>1 DEF BaseInv, ExchangeShape
<1>4. Sold(o) <= OrderedQty(o) /\ Sold(o) \in Int
  BY <1>1, <1>2, <1>3 DEF Sold
<1>5. ASSUME IsOpenSell(c, s), orders[c].qty = OrderedQty(o), orders[c].orderId \in {NoId, o}
      PROVE  OrderedQty(o) <= fills[o].qty + pledged
  <2>1. FilledOf(orders[c].orderId) \in {0, fills[o].qty}
    BY <1>5, LedgerAssumption DEF FilledOf
  <2>2. pledged = AtLeast0(OrderedQty(o) - FilledOf(orders[c].orderId))
    BY <1>5
  <2>3. \A n \in Int : AtLeast0(n) >= n /\ AtLeast0(n) \in Int
    BY DEF AtLeast0
  <2>. HIDE DEF pledged
  <2>. QED  BY <1>1, <1>2, <2>1, <2>2, <2>3
<1>6. ASSUME OpenRow(c) PROVE IsOpenSell(c, s) /\ orders[c].qty = OrderedQty(o) /\ orders[c].orderId \in {NoId, o}
  <2>1. orders[c] # NoOrder
    BY <1>6 DEF OpenRow, OpenStatus, NoOrder
  <2>. QED  BY <1>1, <1>6, <2>1 DEF BaseInv, RowMatches, IsOpenSell, OpenRow
<1>7. MayExecute(c) => OpenRow(c)
  BY <1>1 DEF LiveOrdersGuarded, Guarded, OpenRow
<1>8. ~OpenRow(c) => Sold(o) <= fills[o].qty /\ ~IsOpenSell(c, s)
  <2>1. ASSUME ~OpenRow(c) PROVE exch[o].qty <= fills[o].qty + missed[o].qty /\ Sold(o) = exch[o].qty - missed[o].qty
    BY <1>1, <1>7, <2>1 DEF Accounted, Sold
  <2>2. ~OpenRow(c) => ~IsOpenSell(c, s)
    BY DEF IsOpenSell, OpenRow
  <2>. HIDE DEF c, s
  <2>. QED  BY <1>2, <2>1, <2>2
<1>9. CASE OpenRow(c)
  <2>1. Sold(o) <= fills[o].qty + pledged /\ IsOpenSell(c, s)
    <3>1. IsOpenSell(c, s) /\ OrderedQty(o) <= fills[o].qty + pledged
      BY <1>5, <1>6, <1>9
    <3>2. pledged \in Int
      <4>1. orders[c].qty = OrderedQty(o) /\ orders[c].orderId \in {NoId, o}
        BY <1>6, <1>9
      <4>2. FilledOf(orders[c].orderId) \in Int
        BY <1>2, <4>1, LedgerAssumption DEF FilledOf
      <4>. QED  BY <1>1, <4>1, <4>2 DEF AtLeast0
    <3>. HIDE DEF c, s, pledged
    <3>. QED  BY <1>1, <1>2, <1>4, <3>1, <3>2
  <2>. QED  BY <2>1
<1>10. CASE ~OpenRow(c)
  <2>1. fills[o].qty + 0 = fills[o].qty
    BY <1>2
  <2>. QED  BY <1>8, <1>10, <2>1
<1>. QED  BY <1>9, <1>10

\* A step places one order, and one that was never at the exchange.
LEMMA StartsNew ==
  ASSUME BaseInv, GuardInv, Faithful, NEW t \in Task, NEW c \in Coid, Starting(t, c)
  PROVE  /\ UNCHANGED <<fills, exch, missed, polls, today, flows, cash>>
         /\ \A u \in Task, d \in Coid : Starting(u, d) => d = c
         /\ exch[OrderOf(c)].qty = 0 /\ exch[OrderOf(c)].cost = 0
         /\ fills[OrderOf(c)].qty = 0
<1>. DEFINE o == OrderOf(c)
<1>1. \A u \in Task, d \in Coid : Starting(u, d) => known[d] = "new" /\ known' = [known EXCEPT ![d] = "calling"]
  BY DEF Starting, PlaceBuy, PlaceSell, Starts, MayPlace, Faithful, Begin
<1>2. known \in [Coid -> Known]
  BY DEF BaseInv, BrokerTypeOK
<1>3. ASSUME NEW u \in Task, NEW d \in Coid, Starting(u, d), d # c PROVE FALSE
  BY <1>1, <1>2, <1>3
<1>4. exch[o].qty = 0 /\ exch[o].cost = 0
  <2>1. exch[o].status = "absent"
    BY <1>1 DEF GuardInv, CallsRight, KnownRight, Absent
  <2>. QED  BY <2>1, Pairing DEF BaseInv, ExchangeShape
<1>5. fills[o].qty = 0
  <2>1. fills[o].qty <= exch[o].qty /\ fills[o].qty \in Nat
    BY Pairing, OrderTypes DEF BaseInv, Behind, Upto
  <2>. QED  BY <1>4, <2>1
<1>6. UNCHANGED <<fills, exch, missed, polls, today, flows, cash>>
  BY DEF Starting, PlaceBuy, PlaceSell, Reserve, ReserveSell, Begin
<1>. QED  BY <1>3, <1>4, <1>5, <1>6

\* What an order adds to position(), and what its row takes out of the shares that
\* reserve_sell() lets another order sell.
Net(o, s) == IF Attr[o].symbol # s THEN 0 ELSE IF Attr[o].side = "buy" THEN fills[o].qty ELSE -fills[o].qty
Pledged(d, c, s) ==
  IF d \in Coid \ {c} /\ IsOpenSell(d, s) THEN AtLeast0(orders[d].qty - FilledOf(orders[d].orderId)) ELSE 0

\* What a row pledges is a number of shares.
LEMMA PledgedType == BaseInv => \A d \in Coid : \A c, s : Pledged(d, c, s) \in Nat
<1>. SUFFICES ASSUME BaseInv, NEW d \in Coid, NEW c, NEW s PROVE Pledged(d, c, s) \in Nat
  OBVIOUS
<1>1. ASSUME IsOpenSell(d, s) PROVE orders[d].qty \in Nat
  <2>1. orders[d] # NoOrder
    BY <1>1 DEF IsOpenSell, OpenStatus, NoOrder
  <2>. QED  BY <2>1 DEF BaseInv, BrokerTypeOK, LedgerTypeOK, OrderRow
<1>2. \A id : FilledOf(id) \in Nat
  BY OrderTypes DEF FilledOf
<1>. QED  BY <1>1, <1>2 DEF Pledged, AtLeast0

\* The SELL availability is a sum over the orders, each with what it adds to the position
\* and what its own row pledges.
LEMMA AvailabilityByOrder ==
  ASSUME BaseInv, NEW c \in Coid, NEW s \in Symbol
  PROVE  LET shares == SumFunctionOnSet([o \in OrderId |-> Net(o, s) - Pledged(Attr[o].coid, c, s)], OrderId)
         IN  /\ shares \in Int
             /\ \A q \in Nat : q > 0 /\ CanSell(c, s, q) => q <= shares
<1>. DEFINE net == [o \in OrderId |-> Net(o, s)]
            row == [d \in Coid |-> Pledged(d, c, s)]
            pledged == [o \in OrderId |-> Pledged(Attr[o].coid, c, s)]
            both == [o \in OrderId |-> Net(o, s) - Pledged(Attr[o].coid, c, s)]
            of == [d \in Coid |-> OrderOf(d)]
            zero == [d \in Coid |-> 0]
<1>1. IsFiniteSet(OrderId) /\ IsFiniteSet(Coid)
  BY ConstantTypes
<1>2. \A o \in OrderId : Net(o, s) \in Int /\ Attr[o].coid \in Coid
  BY OrderTypes, Pairing DEF Net
<1>3. \A o \in OrderId : net[o] \in Int /\ pledged[o] \in Int /\ both[o] = net[o] - pledged[o] /\ both[o] \in Int
  BY <1>2, PledgedType
<1>4. \A d \in Coid : of[d] \in OrderId /\ row[d] \in Int /\ zero[d] = 0 /\ 0 <= row[d] /\ row[d] = pledged[of[d]]
  BY PledgedType, Pairing
<1>5. (\A d, e \in Coid : of[d] = of[e] => d = e) /\ \A o \in OrderId : \E d \in Coid : o = of[d]
  BY Pairing
<1>6. Position(s) = AtLeast0(SumFunctionOnSet(net, OrderId))
  BY DEF Position, Net
<1>7. OpenSellQty(s, Coid \ {c}) = SumFunctionOnSet(row, Coid)
  BY DEF OpenSellQty, Pledged
<1>. HIDE DEF net, row, pledged, of, zero
<1>8. SumFunctionOnSet(row, Coid) = SumFunctionOnSet(pledged, OrderId)
  BY <1>1, <1>4, <1>5, SumReindex
<1>9. SumFunctionOnSet(row, Coid) >= 0
  <2>1. SumFunctionOnSet(zero, Coid) = 0
    BY <1>1, <1>4, SumZero
  <2>2. SumFunctionOnSet(zero, Coid) <= SumFunctionOnSet(row, Coid)
    BY <1>1, <1>4, SumMonotone
  <2>3. SumFunctionOnSet(row, Coid) \in Int
    BY <1>1, <1>4, SumType
  <2>. QED  BY <2>1, <2>2, <2>3
<1>10. /\ SumFunctionOnSet(net, OrderId) \in Int /\ SumFunctionOnSet(pledged, OrderId) \in Int
       /\ SumFunctionOnSet(both, OrderId) \in Int
  <2>. HIDE DEF both
  <2>. QED  BY <1>1, <1>3, SumType
<1>11. SumFunctionOnSet(both, OrderId) = SumFunctionOnSet(net, OrderId) - SumFunctionOnSet(pledged, OrderId)
  <2>. HIDE DEF both
  <2>. QED  BY <1>1, <1>3, SumDifference
<1>12. ASSUME NEW q \in Nat, q > 0, CanSell(c, s, q) PROVE q <= SumFunctionOnSet(both, OrderId)
  <2>1. q <= AtLeast0(SumFunctionOnSet(net, OrderId)) - SumFunctionOnSet(row, Coid)
    BY <1>6, <1>7, <1>12 DEF CanSell, SellAvailability
  <2>. HIDE DEF both
  <2>. QED  BY <1>8, <1>9, <1>10, <1>11, <1>12, <2>1 DEF AtLeast0
<1>. QED  BY <1>10, <1>12

\* reserve_sell() that grants leaves the sleeve with shares for every order.
LEMMA SellKeepsShares ==
  ASSUME BaseInv, ClosedInv, GuardInv, Faithful, \A c \in Coid : Accounted(c), [BrokerNext]_vars,
         NEW t \in Task, NEW c \in Coid, PlaceSell(t, c)
  PROVE  SumFunctionOnSet([o \in OrderId |-> Shares(o, Request[c].symbol)'], OrderId) >= 0
<1>. DEFINE s == Request[c].symbol
            q == Request[c].qty
            a == OrderOf(c)
            free == [o \in OrderId |-> Net(o, s) - Pledged(Attr[o].coid, c, s)]
            rest == [o \in OrderId |-> IF o = a THEN free[a] - q ELSE free[o]]
            next == [o \in OrderId |-> Shares(o, s)']
<1>1. /\ s \in Symbol /\ q \in Nat /\ q > 0 /\ a \in OrderId /\ Attr[a].coid = c
      /\ Attr[a].symbol = s /\ Attr[a].side = "sell" /\ OrderedQty(a) = q
  BY Pairing, RequestTypes DEF PlaceSell
<1>2. Starting(t, c) /\ CanSell(c, s, q)
  BY DEF Starting, PlaceSell, ReserveSell
<1>3. /\ fills' = fills /\ exch' = exch /\ missed' = missed
      /\ \A u \in Task, d \in Coid : Starting(u, d) => d = c
      /\ exch[a].qty = 0 /\ fills[a].qty = 0
  BY <1>2, StartsNew
<1>4. q <= SumFunctionOnSet(free, OrderId) /\ SumFunctionOnSet(free, OrderId) \in Int
  BY <1>1, <1>2, AvailabilityByOrder
<1>5. \A o \in OrderId : free[o] \in Int
  BY OrderTypes, PledgedType, Pairing DEF Net
<1>6. ASSUME NEW o \in OrderId PROVE rest[o] <= next[o] /\ next[o] \in Int /\ rest[o] \in Int
  <2>1. rest[o] \in Int
    BY <1>1, <1>5
  <2>2. next[o] \in Int
    BY <1>1, BaseStep, SharesTypeNext
  <2>3. /\ fills[o].qty \in Nat /\ missed[o].qty \in Nat /\ Pledged(Attr[o].coid, c, s) \in Nat
    BY OrderTypes, PledgedType, Pairing
  <2>4. CASE o = a
    <3>1. free[a] = 0
      <4>1. Net(a, s) = -fills[a].qty
        BY <1>1 DEF Net
      <4>2. Pledged(c, c, s) = 0
        BY DEF Pledged
      <4>3. free[a] = Net(a, s) - Pledged(c, c, s)
        BY <1>1
      <4>. HIDE DEF free, a, s
      <4>. QED  BY <1>3, <4>1, <4>2, <4>3
    <3>2. Sold(a)' <= q
      <4>1. Sold(a)' = IF MayExecute(c)' THEN q ELSE exch'[a].qty - missed'[a].qty
        BY <1>1 DEF Sold, OrderedQty
      <4>. HIDE DEF a
      <4>. QED  BY <1>1, <1>3, <2>3, <2>4, <4>1
    <3>3. Sold(a)' \in Int
      <4>1. Sold(a)' = IF MayExecute(c)' THEN q ELSE exch'[a].qty - missed'[a].qty
        BY <1>1 DEF Sold, OrderedQty
      <4>. HIDE DEF a
      <4>. QED  BY <1>1, <1>3, <2>3, <2>4, <4>1
    <3>4. next[o] = -Sold(a)'
      BY <1>1, <2>4 DEF Shares
    <3>5. rest[o] = 0 - q
      BY <2>4, <3>1
    <3>. HIDE DEF next, rest, a, q
    <3>. QED  BY <1>1, <2>1, <2>2, <3>2, <3>3, <3>4, <3>5
  <2>5. CASE o # a /\ Attr[o].symbol # s
    <3>1. next[o] = 0
      BY <2>5 DEF Shares
    <3>2. rest[o] = 0 - Pledged(Attr[o].coid, c, s)
      BY <2>5 DEF Net
    <3>. HIDE DEF next, rest
    <3>. QED  BY <2>1, <2>2, <2>3, <3>1, <3>2
  <2>6. CASE o # a /\ Attr[o].symbol = s /\ Attr[o].side = "buy"
    <3>1. next[o] = fills[o].qty
      BY <1>3, <2>6 DEF Shares
    <3>2. rest[o] = fills[o].qty - Pledged(Attr[o].coid, c, s)
      BY <2>6 DEF Net
    <3>. HIDE DEF next, rest
    <3>. QED  BY <2>1, <2>2, <2>3, <3>1, <3>2
  <2>7. CASE o # a /\ Attr[o].symbol = s /\ Attr[o].side # "buy"
    <3>. DEFINE d == Attr[o].coid
    <3>1. d \in Coid /\ d # c /\ Attr[o].side = "sell"
      BY <2>7, Pairing, ConstantTypes DEF Side
    <3>2. Sold(o) <= fills[o].qty + Pledged(d, c, s)
      BY <2>7, <3>1, SellCovered DEF GuardInv, Pledged
    <3>3. Sold(o)' <= Sold(o)
      BY <1>3, <3>1, SoldFalls
    <3>4. next[o] = -Sold(o)'
      BY <2>7 DEF Shares
    <3>5. rest[o] = -fills[o].qty - Pledged(d, c, s)
      BY <2>7 DEF Net
    <3>6. Sold(o) \in Int /\ Sold(o)' \in Int
      <4>1. Sold(o) \in Int
        BY OrderTypes DEF Sold
      <4>2. Sold(o)' = IF MayExecute(d)' THEN OrderedQty(o) ELSE exch'[o].qty - missed'[o].qty
        BY DEF Sold, OrderedQty
      <4>. QED  BY <1>3, <4>1, <4>2, OrderTypes
    <3>. HIDE DEF next, rest, d
    <3>. QED  BY <2>1, <2>2, <2>3, <3>2, <3>3, <3>4, <3>5, <3>6 DEF d
  <2>. QED  BY <2>1, <2>2, <2>4, <2>5, <2>6, <2>7
<1>7. SumFunctionOnSet(rest, OrderId) = SumFunctionOnSet(free, OrderId) - free[a] + rest[a]
  <2>1. \A o \in OrderId : free[o] \in Int /\ rest[o] \in Int
    BY <1>5, <1>6
  <2>2. \A o \in OrderId \ {a} : rest[o] = free[o]
    OBVIOUS
  <2>3. a \in OrderId /\ IsFiniteSet(OrderId)
    BY <1>1, ConstantTypes
  <2>. HIDE DEF free, rest, a
  <2>. QED  BY <2>1, <2>2, <2>3, SumUpdate
<1>8. rest[a] = free[a] - q /\ free[a] \in Int
  BY <1>1, <1>5
<1>9. SumFunctionOnSet(rest, OrderId) <= SumFunctionOnSet(next, OrderId)
  <2>. HIDE DEF rest, next
  <2>. QED  BY <1>6, ConstantTypes, SumMonotone
<1>10. SumFunctionOnSet(next, OrderId) \in Int /\ SumFunctionOnSet(rest, OrderId) \in Int
  <2>. HIDE DEF rest, next
  <2>. QED  BY <1>6, ConstantTypes, SumType
<1>. HIDE DEF free, rest, q, a
<1>11. SumFunctionOnSet(next, OrderId) >= 0
  <2>. HIDE DEF next
  <2>. QED  BY <1>1, <1>4, <1>7, <1>8, <1>9, <1>10
<1>. QED  BY <1>11 DEF next

\* The sleeve keeps shares for every order that may sell.
LEMMA SharesStep ==
  ASSUME BaseInv, ClosedInv, GuardInv, Faithful, \A c \in Coid : Accounted(c), SharesCover,
         [BrokerNext]_vars
  PROVE  SharesCover'
<1>1. ASSUME NEW s \in Symbol PROVE SumFunctionOnSet([o \in OrderId |-> Shares(o, s)'], OrderId) >= 0
  <2>1. ASSUME NEW t \in Task, NEW c \in Coid, PlaceSell(t, c), Request[c].symbol = s
        PROVE  SumFunctionOnSet([o \in OrderId |-> Shares(o, s)'], OrderId) >= 0
    BY <2>1, SellKeepsShares
  <2>2. ASSUME ~\E t \in Task, c \in Coid : PlaceSell(t, c) /\ Request[c].symbol = s
        PROVE  SumFunctionOnSet([o \in OrderId |-> Shares(o, s)'], OrderId) >= 0
    <3>. DEFINE f == [o \in OrderId |-> Shares(o, s)]
                g == [o \in OrderId |-> Shares(o, s)']
    <3>1. SumFunctionOnSet(f, OrderId) >= 0
      BY DEF SharesCover
    <3>2. ASSUME NEW o \in OrderId PROVE f[o] \in Int /\ g[o] \in Int /\ f[o] <= g[o]
      <4>1. ASSUME Attr[o].symbol = s, Attr[o].side = "sell", NEW t \in Task, Starting(t, Attr[o].coid) PROVE FALSE
        <5>1. Attr[o].coid \in Coid /\ Request[Attr[o].coid].side = "sell" /\ Request[Attr[o].coid].symbol = s
          BY <4>1, Pairing, RequestTypes
        <5>. QED  BY <2>2, <4>1, <5>1 DEF Starting, PlaceBuy
      <4>2. Shares(o, s) <= Shares(o, s)'
        BY <4>1, SharesGrow
      <4>. QED  BY <4>2, SharesType, SharesTypeNext, BaseStep
    <3>. HIDE DEF f, g
    <3>3. /\ SumFunctionOnSet(f, OrderId) <= SumFunctionOnSet(g, OrderId)
          /\ SumFunctionOnSet(f, OrderId) \in Int /\ SumFunctionOnSet(g, OrderId) \in Int
      BY <3>2, ConstantTypes, SumMonotone, SumType
    <3>4. SumFunctionOnSet(g, OrderId) >= 0
      BY <3>1, <3>3
    <3>. QED  BY <3>4 DEF g
  <2>. QED  BY <2>1, <2>2
<1>. QED  BY <1>1 DEF SharesCover

\* Then no share that the sleeve does not hold can be sold, but for what cancel() missed.
LEMMA CoverForbidsOversell ==
  ASSUME BaseInv, SharesCover
  PROVE  NoOversell
<1>. SUFFICES ASSUME NEW s \in Symbol PROVE HoldingAfterSales(s) + MissedSales(s) >= 0
  BY DEF NoOversell
<1>. DEFINE shares == [o \in OrderId |-> Shares(o, s)]
            hold(o) == IF Attr[o].symbol # s THEN 0
                       ELSE IF Attr[o].side = "buy" THEN exch[o].qty
                       ELSE IF exch[o].status = "working" THEN -OrderedQty(o)
                       ELSE -exch[o].qty
            miss(o) == IF Selling(o, s) THEN missed[o].qty ELSE 0
            holding == [o \in OrderId |-> hold(o)]
            unmissed == [o \in OrderId |-> hold(o) - (0 - miss(o))]
            minus == [o \in OrderId |-> 0 - miss(o)]
            missing == [o \in OrderId |-> miss(o)]
            zero == [o \in OrderId |-> 0]
<1>1. \A o \in OrderId : hold(o) \in Int /\ miss(o) \in Int /\ Shares(o, s) \in Int
  BY OrderTypes, SharesType
<1>2. ASSUME NEW o \in OrderId PROVE Shares(o, s) <= hold(o) + miss(o)
  <2>1. /\ exch[o].qty \in Nat /\ fills[o].qty \in Nat /\ missed[o].qty \in Nat /\ OrderedQty(o) \in Nat
        /\ fills[o].qty <= exch[o].qty
    BY OrderTypes DEF BaseInv, Behind, Upto
  <2>2. CASE Attr[o].symbol # s
    <3>1. Shares(o, s) = 0 /\ hold(o) = 0 /\ miss(o) = 0
      BY <2>2 DEF Shares, Selling
    <3>. HIDE DEF hold, miss
    <3>. QED  BY <3>1
  <2>3. CASE Attr[o].symbol = s /\ Attr[o].side = "buy"
    <3>1. Shares(o, s) = fills[o].qty /\ hold(o) = exch[o].qty /\ miss(o) = 0
      BY <2>3 DEF Shares, Selling
    <3>. HIDE DEF hold, miss
    <3>. QED  BY <2>1, <3>1
  <2>4. CASE Attr[o].symbol = s /\ Attr[o].side # "buy"
    <3>1. Attr[o].side = "sell" /\ OrderedQty(o) > 0 /\ OrderOf(Attr[o].coid) = o
      BY <2>4, ConstantTypes, Pairing, RequestTypes DEF Side
    <3>2. exch[o].qty <= OrderedQty(o)
      BY <3>1 DEF BaseInv, ExchangeShape
    <3>3. /\ Shares(o, s) = -Sold(o) /\ miss(o) = missed[o].qty
          /\ hold(o) = IF exch[o].status = "working" THEN -OrderedQty(o) ELSE -exch[o].qty
      BY <2>4, <3>1 DEF Shares, Selling
    <3>4. Sold(o) >= (IF exch[o].status = "working" THEN OrderedQty(o) ELSE exch[o].qty) - missed[o].qty
      BY <2>1, <3>1, <3>2 DEF Sold, MayExecute
    <3>5. Sold(o) \in Int
      BY <2>1 DEF Sold
    <3>. HIDE DEF hold, miss
    <3>. QED  BY <2>1, <3>3, <3>4, <3>5
  <2>. QED  BY <2>2, <2>3, <2>4
<1>3. HoldingAfterSales(s) = SumFunctionOnSet(holding, OrderId) /\ MissedSales(s) = SumFunctionOnSet(missing, OrderId)
  BY DEF HoldingAfterSales, MissedSales
<1>. HIDE DEF hold, miss
<1>4. \A o \in OrderId : /\ holding[o] \in Int /\ missing[o] \in Int /\ minus[o] \in Int /\ unmissed[o] \in Int
                         /\ shares[o] \in Int /\ zero[o] \in Int /\ shares[o] <= unmissed[o]
                         /\ unmissed[o] = holding[o] - minus[o] /\ minus[o] = zero[o] - missing[o] /\ zero[o] = 0
  BY <1>1, <1>2
<1>5. SumFunctionOnSet(shares, OrderId) >= 0
  BY DEF SharesCover
<1>. HIDE DEF shares, holding, unmissed, minus, missing, zero
<1>6. IsFiniteSet(OrderId)
  BY ConstantTypes
<1>7. /\ SumFunctionOnSet(shares, OrderId) \in Int /\ SumFunctionOnSet(holding, OrderId) \in Int
      /\ SumFunctionOnSet(unmissed, OrderId) \in Int /\ SumFunctionOnSet(minus, OrderId) \in Int
      /\ SumFunctionOnSet(missing, OrderId) \in Int
  BY <1>4, <1>6, SumType
<1>8. SumFunctionOnSet(shares, OrderId) <= SumFunctionOnSet(unmissed, OrderId)
  BY <1>4, <1>6, SumMonotone
<1>9. SumFunctionOnSet(unmissed, OrderId) = SumFunctionOnSet(holding, OrderId) - SumFunctionOnSet(minus, OrderId)
  BY <1>4, <1>6, SumDifference
<1>10. SumFunctionOnSet(minus, OrderId) = SumFunctionOnSet(zero, OrderId) - SumFunctionOnSet(missing, OrderId)
  BY <1>4, <1>6, SumDifference
<1>11. SumFunctionOnSet(zero, OrderId) = 0
  BY <1>4, <1>6, SumZero
<1>. QED  BY <1>3, <1>5, <1>7, <1>8, <1>9, <1>10, <1>11

\* What holds while nothing is placed again that may be live.
SharesInv == (\A c \in Coid : Accounted(c)) /\ SharesCover

\* Every step keeps it.
LEMMA SharesInvStep ==
  ASSUME Faithful
  PROVE  BaseInv /\ ClosedInv /\ GuardInv /\ SharesInv /\ [BrokerNext]_vars => SharesInv'
<1>. SUFFICES ASSUME BaseInv, ClosedInv, GuardInv, SharesInv, [BrokerNext]_vars PROVE SharesInv'
  OBVIOUS
<1>1. \A c \in Coid : Accounted(c)
  BY DEF SharesInv
<1>2. \A c \in Coid : Accounted(c)'
  BY <1>1, AccountedStep
<1>3. SharesCover'
  BY <1>1, SharesStep DEF SharesInv
<1>. QED  BY <1>2, <1>3 DEF SharesInv

\* The sleeve sells no share that it does not hold, but for what had executed unpolled when
\* cancel() closed an order: reserve_sell() counts every open row, and a row is closed only
\* when its order can execute nothing more and what it executed is settled or missed.
THEOREM SharesNeverOversold ==
  ASSUME Faithful
  PROVE  BrokerSpec => []NoOversell
<1>1. BrokerInit => BaseInv /\ ClosedInv /\ GuardInv /\ SharesInv
  BY BaseInit, ClosedInit, GuardInit, AccountedInit, SharesInit DEF SharesInv
<1>2. BaseInv /\ ClosedInv /\ GuardInv /\ SharesInv /\ [BrokerNext]_vars
        => BaseInv' /\ ClosedInv' /\ GuardInv' /\ SharesInv'
  BY BaseStep, ClosedStep, GuardStep, SharesInvStep
<1>3. BaseInv /\ SharesInv => NoOversell
  BY CoverForbidsOversell DEF SharesInv
<1>. QED  BY <1>1, <1>2, <1>3, PTL DEF BrokerSpec

-------------------------------------------------------------------------------
\* The hard cap.

\* The settlement date of an execution is known with the execution.
Prompt == "late date" \notin Env

\* What has executed of an order settles on one day, unless the exchange reports the day late.
LEMMA SettlesOnce ==
  ASSUME BaseInv, today >= 1, Prompt, [BrokerNext]_vars, NEW o \in OrderId,
         exch[o].qty > 0 => exch[o].settles > 0
  PROVE  /\ exch[o].qty > 0 => exch'[o].settles = exch[o].settles
         /\ exch'[o].qty > 0 => exch'[o].settles > 0
<1>1. /\ exch \in [OrderId -> [status : {"absent", "working", "done", "cancelled"},
                               qty : Nat, cost : Nat, fee : Nat, settles : Nat]]
      /\ today \in Nat /\ today + SettleDelay > 0 /\ today + SettleDelay \in Nat
  BY BrokerAssumption DEF BaseInv, BrokerTypeOK, LedgerTypeOK
<1>2. CASE exch'[o] = exch[o]
  BY <1>2
<1>3. ASSUME NEW m \in wire, ExchangeAccepts(m) \/ ExchangeCancels(m)
      PROVE  exch'[o].settles = exch[o].settles /\ exch'[o].qty = exch[o].qty
  <2>1. PICK a \in OrderId : a = OrderOf(m.coid)
    BY Pairing DEF BaseInv, BrokerTypeOK, Message
  <2>2. \/ exch' = exch
        \/ exch' = [exch EXCEPT ![a].status = "working"]
        \/ exch' = [exch EXCEPT ![a].status = "cancelled"]
    BY <1>3, <2>1, Zenon DEF ExchangeAccepts, ExchangeCancels
  <2>. QED  BY <1>1, <2>2
<1>4. ASSUME NEW a \in OrderId, Market(a), exch'[o] # exch[o]
      PROVE  /\ exch[o].qty > 0 => exch'[o].settles = exch[o].settles
             /\ exch'[o].qty > 0 => exch'[o].settles > 0
  <2>1. ASSUME NEW p \in TradePrice, NEW fee \in TradeFee, NEW last \in BOOLEAN, Trade(a, p, fee, last)
        PROVE  exch'[o].settles = today + SettleDelay /\ exch[o].settles \in {0, today + SettleDelay}
    <3>. DEFINE settles == IF "late date" \in Env THEN 0 ELSE today + SettleDelay
                new == [status |-> IF last THEN "done" ELSE "working", qty |-> exch[a].qty + 1,
                        cost |-> exch[a].cost + p, fee |-> exch[a].fee + fee, settles |-> settles]
    <3>1. exch' = [exch EXCEPT ![a] = new] /\ exch[a].settles \in {0, today + SettleDelay}
      BY <2>1, Zenon DEF Trade
    <3>2. settles = today + SettleDelay
      BY Zenon DEF Prompt
    <3>. HIDE DEF settles
    <3>3. new.settles = today + SettleDelay
      BY <3>2
    <3>. HIDE DEF new
    <3>. QED  BY <1>1, <1>4, <3>1, <3>3
  <2>2. ASSUME NEW fee \in TradeFee, Corrected(a, fee)
        PROVE  exch[o].qty > 0 /\ exch'[o].settles = exch[o].settles
    <3>. DEFINE fixed == [exch[a] EXCEPT !.fee = @ + fee, !.settles = LateDate(a)]
    <3>1. exch' = [exch EXCEPT ![a] = fixed] /\ exch[a].qty > 0
      BY <2>2 DEF Corrected
    <3>2. fixed.settles = exch[a].settles
      BY <1>1 DEF LateDate, Prompt
    <3>. HIDE DEF fixed
    <3>. QED  BY <1>1, <1>4, <3>1, <3>2
  <2>3. ASSUME Expires(a) PROVE exch'[o].settles = exch[o].settles /\ exch'[o].qty = exch[o].qty
    BY <1>1, <2>3 DEF Expires
  <2>. QED  BY <1>1, <1>4, <2>1, <2>2, <2>3 DEF Market
<1>. QED  BY <1>2, <1>3, <1>4, ExchangeMoves

\* The days only pass.
LEMMA DaysPass ==
  ASSUME BaseInv, [BrokerNext]_vars
  PROVE  today \in Nat /\ today' \in Nat /\ today <= today'
<1>1. today \in Nat
  BY DEF BaseInv, BrokerTypeOK, LedgerTypeOK
<1>2. \A c, cur, amount : Reserve(c, cur, amount) \/ Release(c) => today' = today
  BY DEF Reserve, Release
<1>3. \A c, id, s, side, cur, qty : RecordOrder(c, id, s, side, cur, qty) \/ ReserveSell(c, s, cur, qty) => today' = today
  BY DEF RecordOrder, ReserveSell
<1>4. \A c, status : MarkOrderTerminal(c, status) => today' = today
  BY DEF MarkOrderTerminal
<1>5. \A o, x : ApplyFill(o, x) => today' = today
  BY DEF ApplyFill
<1>6. \A cur, amount : RecordCashflow(cur, amount) => today' = today
  BY DEF RecordCashflow
<1>7. UNCHANGED ledgerVars => today' = today
  BY DEF ledgerVars
<1>8. BrokerTypeOK
  BY DEF BaseInv
<1>9. today' = today \/ today' = today + 1
  BY <1>2, <1>3, <1>4, <1>5, <1>6, <1>7, <1>8, LedgerMoves DEF NextDay
<1>. QED  BY <1>1, <1>9

\* The days have begun, and every SELL has the day on which it settles.
DatesInv == today >= 1 /\ \A o \in OrderId : DatedRight(o)

\* The ledger has the settlement day of what a SELL has executed, and so has every poll.
LEMMA DatesStep ==
  ASSUME BaseInv, DatesInv, Prompt, [BrokerNext]_vars
  PROVE  DatesInv'
<1>1. today' >= 1
  BY DaysPass DEF DatesInv
<1>2. ASSUME NEW o \in OrderId, Attr[o].side = "sell" PROVE DatedRight(o)'
  <2>1. /\ exch[o].qty > 0 => exch[o].settles > 0
        /\ fills[o].qty > 0 => fills[o].settles = exch[o].settles
        /\ \A p \in polls : p.order = o => p.snapshot.settles = exch[o].settles
    BY <1>2 DEF DatesInv, DatedRight
  <2>2. /\ exch[o].qty > 0 => exch'[o].settles = exch[o].settles
        /\ exch'[o].qty > 0 => exch'[o].settles > 0
    BY <2>1, SettlesOnce DEF DatesInv
  <2>3. fills[o].qty > 0 => exch[o].qty > 0
    BY OrderTypes DEF BaseInv, Behind, Upto
  <2>4. \A p \in polls : p.order = o => exch[o].qty > 0
    <3>1. \A p \in polls : p.order = o => p.snapshot.qty <= exch[o].qty /\ p.snapshot.qty \in Nat \ {0}
      BY DEF BaseInv, BrokerTypeOK, Snapshot, Behind, Upto
    <3>. QED  BY <3>1, OrderTypes
  <2>5. fills'[o].qty > 0 => fills'[o].settles = exch'[o].settles
    <3>1. CASE fills'[o] = fills[o]
      BY <2>1, <2>2, <2>3, <3>1
    <3>2. ASSUME NEW poll \in polls, poll.order = o, fills'[o] = poll.snapshot
          PROVE  fills'[o].settles = exch'[o].settles
      BY <2>1, <2>2, <2>4, <3>2
    <3>. QED  BY <3>1, <3>2, FillsGrow
  <2>6. ASSUME NEW p \in polls', p.order = o PROVE p.snapshot.settles = exch'[o].settles
    <3>1. CASE p \in polls
      BY <2>1, <2>2, <2>4, <2>6, <3>1
    <3>2. ASSUME NEW a \in OrderId, ReadFill(a), p \notin polls PROVE p.snapshot.settles = exch'[o].settles
      <4>. DEFINE read == [order |-> a, snapshot |-> Executed(a)]
      <4>1. polls' = polls \cup {read} /\ exch' = exch
        BY <3>2 DEF ReadFill
      <4>2. read.order = a /\ read.snapshot = Executed(a) /\ Executed(a).settles = exch[a].settles
        BY DEF Executed
      <4>. HIDE DEF read
      <4>. QED  BY <2>6, <3>2, <4>1, <4>2
    <3>3. ASSUME NEW poll \in polls, ApplyPoll(poll) PROVE p \in polls
      BY <3>3 DEF ApplyPoll
    <3>4. BrokerTypeOK
      BY DEF BaseInv
    <3>. QED  BY <3>1, <3>2, <3>3, <3>4, FillMoves
  <2>. QED  BY <2>2, <2>5, <2>6 DEF DatedRight
<1>3. ASSUME NEW o \in OrderId, Attr[o].side # "sell" PROVE DatedRight(o)'
  BY <1>3 DEF DatedRight
<1>. QED  BY <1>1, <1>2, <1>3 DEF DatesInv

\* The seeded SELL orders have their day.
LEMMA DatesInit == BrokerInit => DatesInv
<1>. SUFFICES ASSUME BrokerInit PROVE DatesInv
  OBVIOUS
<1>1. today = 1 /\ polls = {}
  BY DEF BrokerInit
<1>2. ASSUME NEW o \in OrderId PROVE DatedRight(o)
  <2>1. CASE o \in DOMAIN Seed
    BY <1>1, <2>1, SeededOrders, SeedAssumption DEF DatedRight
  <2>2. CASE o \notin DOMAIN Seed
    BY <1>1, <2>2, SeededOrders DEF DatedRight, NoExecution
  <2>. QED  BY <2>1, <2>2
<1>. QED  BY <1>1, <1>2 DEF DatesInv

-------------------------------------------------------------------------------
\* What an order adds to the money is an integer.
LEMMA MoneyType == BaseInv => \A o \in OrderId, cur \in Currency : Money(o, cur) \in Int
<1>. SUFFICES ASSUME BaseInv, NEW o \in OrderId, NEW cur \in Currency PROVE Money(o, cur) \in Int
  OBVIOUS
<1>1. Spent(o) \in Int
  BY OrderTypes DEF Spent
<1>. QED  BY <1>1, OrderTypes DEF Money

\* And it stays one.
LEMMA MoneyTypeNext == BaseInv' => \A o \in OrderId, cur \in Currency : Money(o, cur)' \in Int
<1>1. BaseInv' => (\A o \in OrderId, cur \in Currency : Money(o, cur) \in Int)'
  BY MoneyType, PTL
<1>. QED  BY <1>1

\* What an order may spend and has spent.
LEMMA SpentTyped ==
  ASSUME BaseInv, BaseInv', NEW o \in OrderId
  PROVE  Spent(o) \in Int /\ Spent(o)' \in Int
<1>1. Spent(o) \in Int
  BY OrderTypes DEF Spent
<1>2. Spent(o)' = IF MayExecute(Attr[o].coid)' THEN OrderedCost(o) ELSE exch'[o].cost - missed'[o].cost
  BY DEF Spent, OrderedCost, ReserveAmount
<1>3. OrderedCost(o) \in Int /\ exch'[o].cost \in Int /\ missed'[o].cost \in Int
  BY OrderTypes, OrdersTypedNext DEF OrdersTyped
<1>. QED  BY <1>1, <1>2, <1>3

\* An order that is not placed in the step only ever gives money back.
LEMMA MoneyGrows ==
  ASSUME BaseInv, ClosedInv, DatesInv, Prompt, [BrokerNext]_vars,
         NEW o \in OrderId, NEW cur \in Currency,
         Attr[o].currency = cur /\ Attr[o].side = "buy" => ~\E t \in Task : Starting(t, Attr[o].coid)
  PROVE  Money(o, cur) <= Money(o, cur)'
<1>1. BaseInv'
  BY BaseStep
<1>2. CASE Attr[o].currency # cur
  <2>1. Money(o, cur) = 0 /\ Money(o, cur)' = 0
    BY <1>2 DEF Money
  <2>. QED  BY <2>1
<1>3. CASE Attr[o].currency = cur /\ Attr[o].side = "buy"
  <2>1. Spent(o)' <= Spent(o)
    BY <1>3, SpentFalls
  <2>2. Money(o, cur) = -Spent(o) /\ Money(o, cur)' = -Spent(o)'
    BY <1>3 DEF Money
  <2>3. Spent(o) \in Int /\ Spent(o)' \in Int
    BY <1>1, SpentTyped
  <2>. QED  BY <2>1, <2>2, <2>3
<1>4. CASE Attr[o].currency = cur /\ Attr[o].side # "buy"
  <2>1. Attr[o].side = "sell"
    BY <1>4, ConstantTypes DEF Side
  <2>2. /\ exch[o].qty \in Nat /\ exch[o].cost \in Nat /\ exch[o].settles \in Nat
        /\ exch'[o].cost \in Nat /\ exch'[o].settles \in Nat
    BY <1>1, OrderTypes, OrdersTypedNext DEF OrdersTyped
  <2>3. exch[o].cost <= exch'[o].cost
    <3>1. Advances(o)
      BY ExchangeStep DEF BaseInv, BrokerTypeOK, ExchangeType, LedgerTypeOK, Message
    <3>. QED  BY <2>2, <3>1 DEF Advances
  <2>4. exch[o].qty = 0 => exch[o].cost = 0
    BY DEF BaseInv, ExchangeShape
  <2>5. exch[o].qty > 0 => exch'[o].settles = exch[o].settles
    BY <2>1, SettlesOnce DEF DatesInv, DatedRight
  <2>6. today \in Nat /\ today' \in Nat /\ today <= today'
    BY DaysPass
  <2>7. /\ Money(o, cur) = IF exch[o].settles <= today THEN exch[o].cost ELSE 0
        /\ Money(o, cur)' = IF exch'[o].settles <= today' THEN exch'[o].cost ELSE 0
    BY <1>4 DEF Money
  <2>8. CASE exch[o].qty = 0
    BY <2>2, <2>4, <2>7, <2>8
  <2>9. CASE exch[o].qty > 0
    BY <2>2, <2>3, <2>5, <2>6, <2>7, <2>9
  <2>. QED  BY <2>2, <2>8, <2>9
<1>. QED  BY <1>2, <1>3, <1>4

\* What order o leaves of the cash that is available: its effect on cash, less what its
\* reservation holds and what has not settled.
Free(o, cur) ==
  (IF Attr[o].currency = cur THEN SignedCash(o, fills[o]) ELSE 0)
    - HeldBy(Attr[o].coid, cur)
    - (IF Unsettled(o, cur) THEN SignedCash(o, fills[o]) ELSE 0)

\* It is an integer.
LEMMA FreeType == BaseInv => \A o \in OrderId, cur \in Currency : Free(o, cur) \in Int
<1>. SUFFICES ASSUME BaseInv, NEW o \in OrderId, NEW cur \in Currency PROVE Free(o, cur) \in Int
  OBVIOUS
<1>1. SignedCash(o, fills[o]) \in Int
  BY SignedCashType DEF BaseInv, BrokerTypeOK, LedgerTypeOK
<1>2. HeldBy(Attr[o].coid, cur) \in Int
  BY HeldByType, Pairing DEF BaseInv, BrokerTypeOK
<1>. QED  BY <1>1, <1>2 DEF Free

\* available() is the capital, the cashflows and what every order leaves of them.
LEMMA AvailableByOrder ==
  ASSUME BaseInv, CashConserved, NEW cur \in Currency
  PROVE  Available(cur) = Allocated(cur) + flows[cur]
                            + SumFunctionOnSet([o \in OrderId |-> Free(o, cur)], OrderId)
<1>. DEFINE settled == [o \in OrderId |-> IF Attr[o].currency = cur THEN SignedCash(o, fills[o]) ELSE 0]
            held == [c \in Coid |-> HeldBy(c, cur)]
            heldBy == [o \in OrderId |-> HeldBy(Attr[o].coid, cur)]
            pending == [o \in OrderId |-> IF Unsettled(o, cur) THEN SignedCash(o, fills[o]) ELSE 0]
            unheld == [o \in OrderId |-> settled[o] - heldBy[o]]
            free == [o \in OrderId |-> Free(o, cur)]
            of == [c \in Coid |-> OrderOf(c)]
<1>1. IsFiniteSet(OrderId) /\ IsFiniteSet(Coid)
  BY ConstantTypes
<1>2. \A o \in OrderId : SignedCash(o, fills[o]) \in Int /\ HeldBy(Attr[o].coid, cur) \in Int
  BY SignedCashType, HeldByType, Pairing DEF BaseInv, BrokerTypeOK, LedgerTypeOK
<1>3. \A o \in OrderId : /\ settled[o] \in Int /\ heldBy[o] \in Int /\ pending[o] \in Int /\ unheld[o] \in Int
                         /\ unheld[o] = settled[o] - heldBy[o] /\ free[o] = unheld[o] - pending[o]
  BY <1>2 DEF Free
<1>4. \A c \in Coid : of[c] \in OrderId /\ held[c] \in Int /\ held[c] = heldBy[of[c]]
  BY HeldByType, Pairing DEF BaseInv, BrokerTypeOK
<1>5. (\A c, d \in Coid : of[c] = of[d] => c = d) /\ \A o \in OrderId : \E c \in Coid : o = of[c]
  BY Pairing
<1>6. /\ cash[cur] = Allocated(cur) + flows[cur] + SumFunctionOnSet(settled, OrderId)
      /\ ReservedTotal(cur) = SumFunctionOnSet(held, Coid)
      /\ SettlementPending(cur) = SumFunctionOnSet(pending, OrderId)
  BY DEF CashConserved, SettledCash, ReservedTotal, SettlementPending
<1>. HIDE DEF settled, held, heldBy, pending, unheld, of
<1>7. SumFunctionOnSet(held, Coid) = SumFunctionOnSet(heldBy, OrderId)
  BY <1>1, <1>4, <1>5, SumReindex
<1>8. SumFunctionOnSet(unheld, OrderId) = SumFunctionOnSet(settled, OrderId) - SumFunctionOnSet(heldBy, OrderId)
  BY <1>1, <1>3, SumDifference
<1>9. SumFunctionOnSet(free, OrderId) = SumFunctionOnSet(unheld, OrderId) - SumFunctionOnSet(pending, OrderId)
  <2>. HIDE DEF free
  <2>. QED  BY <1>1, <1>3, SumDifference
<1>10. /\ SumFunctionOnSet(settled, OrderId) \in Int /\ SumFunctionOnSet(heldBy, OrderId) \in Int
       /\ SumFunctionOnSet(pending, OrderId) \in Int
  BY <1>1, <1>3, SumType
<1>11. flows[cur] \in Int /\ Allocated(cur) \in Int
  BY ConstantTypes DEF BaseInv, BrokerTypeOK, LedgerTypeOK, Allocated
<1>. HIDE DEF free
<1>12. Available(cur) = Allocated(cur) + flows[cur] + SumFunctionOnSet(free, OrderId)
  BY <1>6, <1>7, <1>8, <1>9, <1>10, <1>11 DEF Available
<1>. QED  BY <1>12 DEF free

\* It leaves no more than the order adds to the money.
LEMMA FreeCovered ==
  ASSUME BaseInv, ClosedInv, LiveOrdersGuarded, DatesInv, NEW o \in OrderId, NEW cur \in Currency,
         Accounted(Attr[o].coid)
  PROVE  Free(o, cur) <= Money(o, cur)
<1>. DEFINE c == Attr[o].coid
<1>1. /\ c \in Coid /\ OrderOf(c) = o /\ Request[c].side = Attr[o].side /\ Request[c].currency = Attr[o].currency
      /\ OrderedCost(o) = ReserveAmount(Request[c])
  BY Pairing, RequestTypes
<1>2. /\ exch[o].cost \in Nat /\ exch[o].settles \in Nat /\ fills[o].qty \in Nat /\ fills[o].cost \in Nat
      /\ fills[o].fee \in Nat /\ fills[o].settles \in Nat /\ missed[o].cost \in Nat /\ OrderedCost(o) \in Nat
      /\ today \in Nat /\ fills[o].cost <= exch[o].cost
  BY OrderTypes DEF BaseInv, Behind, Upto
<1>3. HeldBy(c, cur) \in Nat
  BY <1>1, HeldByType DEF BaseInv, BrokerTypeOK
<1>4. CASE Attr[o].currency # cur
  <2>1. Free(o, cur) = 0 - HeldBy(c, cur) - 0 /\ Money(o, cur) = 0
    BY <1>4 DEF Free, Money, Unsettled
  <2>. HIDE DEF c
  <2>. QED  BY <1>3, <2>1
<1>5. CASE Attr[o].currency = cur /\ Attr[o].side = "buy"
  <2>1. HeldBy(c, cur) = reserved[c].amount
    <3>1. CASE reserved[c] = NoReservation
      BY <3>1 DEF HeldBy, NoReservation
    <3>2. CASE reserved[c] # NoReservation
      <4>1. reserved[c].currency = cur
        BY <1>1, <1>5, <3>2 DEF ClosedInv, ReservedRight
      <4>. QED  BY <3>2, <4>1 DEF HeldBy
    <3>. QED  BY <3>1, <3>2
  <2>2. Spent(o) <= reserved[c].amount + fills[o].cost
    <3>1. CASE MayExecute(c)
      <4>1. reserved[c].amount + fills[o].cost >= OrderedCost(o)
        BY <1>1, <1>5, <3>1 DEF LiveOrdersGuarded, Guarded
      <4>. HIDE DEF c
      <4>. QED  BY <1>2, <1>3, <2>1, <3>1, <4>1 DEF Spent, c
    <3>2. CASE ~MayExecute(c)
      <4>1. exch[o].cost <= reserved[c].amount + fills[o].cost + missed[o].cost
        BY <1>1, <1>5 DEF Accounted
      <4>2. Spent(o) = exch[o].cost - missed[o].cost
        BY <3>2 DEF Spent
      <4>. HIDE DEF c
      <4>. QED  BY <1>2, <1>3, <2>1, <4>1, <4>2
    <3>. QED  BY <3>1, <3>2
  <2>3. Money(o, cur) = -Spent(o) /\ Spent(o) \in Int
    BY <1>2, <1>5 DEF Money, Spent
  <2>4. ~Unsettled(o, cur)
    BY <1>5 DEF Unsettled
  <2>5. SignedCash(o, fills[o]) = -(fills[o].cost + fills[o].fee)
    BY <1>5 DEF SignedCash
  <2>6. Free(o, cur) = -(fills[o].cost + fills[o].fee) - HeldBy(c, cur) - 0
    BY <1>5, <2>4, <2>5 DEF Free
  <2>. HIDE DEF c
  <2>. QED  BY <1>2, <1>3, <2>1, <2>2, <2>3, <2>6
<1>6. CASE Attr[o].currency = cur /\ Attr[o].side # "buy"
  <2>1. Attr[o].side = "sell"
    BY <1>6, ConstantTypes DEF Side
  <2>2. SignedCash(o, fills[o]) = fills[o].cost - fills[o].fee
    BY <1>6 DEF SignedCash
  <2>3. Money(o, cur) = IF exch[o].settles <= today THEN exch[o].cost ELSE 0
    BY <1>6 DEF Money
  <2>4. Unsettled(o, cur) <=> fills[o].settles > today
    BY <1>6, <2>1 DEF Unsettled
  <2>5. fills[o].qty > 0 => fills[o].settles = exch[o].settles
    BY <2>1 DEF DatesInv, DatedRight
  <2>6. fills[o].qty = 0 => fills[o].cost = 0
    BY DEF ClosedInv
  <2>7. Free(o, cur) = SignedCash(o, fills[o]) - HeldBy(c, cur)
                         - (IF Unsettled(o, cur) THEN SignedCash(o, fills[o]) ELSE 0)
    BY <1>6 DEF Free
  <2>. HIDE DEF c
  <2>8. CASE fills[o].settles > today
    <3>1. Free(o, cur) = 0 - HeldBy(c, cur)
      BY <1>2, <1>3, <2>2, <2>4, <2>7, <2>8
    <3>. QED  BY <1>2, <1>3, <2>3, <3>1
  <2>9. CASE ~(fills[o].settles > today)
    <3>1. Free(o, cur) = fills[o].cost - fills[o].fee - HeldBy(c, cur) - 0
      BY <2>2, <2>4, <2>7, <2>9
    <3>2. CASE fills[o].qty = 0
      BY <1>2, <1>3, <2>3, <2>6, <3>1, <3>2
    <3>3. CASE fills[o].qty # 0
      BY <1>2, <1>3, <2>3, <2>5, <2>9, <3>1, <3>3
    <3>. QED  BY <3>2, <3>3
  <2>. QED  BY <2>8, <2>9
<1>. QED  BY <1>4, <1>5, <1>6

\* The seeded orders cost no more than the capital and the sales settled on the first day.
LEMMA MoneyInit == BrokerInit => MoneyCovers
<1>. SUFFICES ASSUME BrokerInit, NEW cur \in Currency
              PROVE  Allocated(cur) + flows[cur] + SumFunctionOnSet([o \in OrderId |-> Money(o, cur)], OrderId) >= 0
  BY DEF MoneyCovers
<1>. DEFINE f == [o \in OrderId |-> IF o \notin DOMAIN Seed \/ Attr[o].currency # cur THEN 0
                                    ELSE IF Attr[o].side = "buy" THEN -Seed[o].cost
                                    ELSE IF Seed[o].settles <= 1 THEN Seed[o].cost
                                    ELSE 0]
            g == [o \in OrderId |-> Money(o, cur)]
<1>1. SumFunctionOnSet(f, OrderId) + Allocated(cur) >= 0
  BY SeedAssumption
<1>2. today = 1 /\ flows[cur] = 0 /\ BaseInv
  BY BaseInit DEF BrokerInit
<1>3. ASSUME NEW o \in OrderId PROVE f[o] = g[o] /\ f[o] \in Int
  <2>1. Spent(o) = exch[o].cost /\ exch[o].cost \in Nat
    <3>1. ~MayExecute(Attr[o].coid) /\ missed[o].cost = 0
      BY SeededOrders DEF NothingMissed
    <3>2. exch[o].cost \in Nat
      BY <1>2, OrderTypes
    <3>. QED  BY <3>1, <3>2 DEF Spent
  <2>2. g[o] = IF Attr[o].currency # cur THEN 0
               ELSE IF Attr[o].side = "buy" THEN -exch[o].cost
               ELSE IF exch[o].settles <= 1 THEN exch[o].cost ELSE 0
    BY <1>2, <2>1 DEF Money
  <2>3. CASE o \in DOMAIN Seed
    <3>1. exch[o].cost = Seed[o].cost /\ exch[o].settles = Seed[o].settles
      BY <2>3, SeededOrders
    <3>. QED  BY <2>1, <2>2, <2>3, <3>1
  <2>4. CASE o \notin DOMAIN Seed
    <3>1. exch[o].cost = 0
      BY <2>4, SeededOrders
    <3>2. g[o] = 0
      BY <2>2, <3>1
    <3>. QED  BY <2>4, <3>2
  <2>. QED  BY <2>3, <2>4
<1>. HIDE DEF f, g
<1>4. SumFunctionOnSet(f, OrderId) = SumFunctionOnSet(g, OrderId) /\ SumFunctionOnSet(f, OrderId) \in Int
  BY <1>3, ConstantTypes, SumAgree, SumType
<1>5. Allocated(cur) \in Int
  BY ConstantTypes DEF Allocated
<1>6. Allocated(cur) + flows[cur] + SumFunctionOnSet(g, OrderId) >= 0
  BY <1>1, <1>2, <1>4, <1>5
<1>. QED  BY <1>6 DEF g

\* Only a deposit or a withdrawal changes what the cashflows add up to.
LEMMA FlowMoves ==
  ASSUME [BrokerNext]_vars
  PROVE  UNCHANGED flows \/ \E cur \in Currency, amount \in FlowAmount : Cashflow(cur, amount)
<1>1. UNCHANGED ledgerVars => UNCHANGED flows
  BY DEF ledgerVars
<1>2. \A t, c : PlaceBuy(t, c) \/ PlaceSell(t, c) \/ PlaceRefused(t, c) \/ PlaceCached(t, c) => UNCHANGED flows
  BY <1>1 DEF PlaceBuy, PlaceSell, PlaceRefused, PlaceCached, Reserve, ReserveSell
<1>3. \A c : Unwind(c) => UNCHANGED flows
  BY DEF Unwind, Release, MarkOrderTerminal
<1>4. \A t : SendFails(t) \/ Send(t) \/ PlaceAccepted(t) \/ PlaceConflict(t) \/ PlaceUnwound(t) => UNCHANGED flows
  BY <1>1, <1>3 DEF SendFails, Send, PlaceAccepted, PlaceConflict, PlaceUnwound, RecordOrder
<1>5. \A t, c : CancelBegins(t, c) \/ CancelConfirmed(t) \/ CancelRefused(t) \/ TimesOut(t) => UNCHANGED flows
  BY <1>1 DEF CancelBegins, CancelConfirmed, CancelRefused, TimesOut, MarkOrderTerminal
<1>6. \A w, m : Crash(w) \/ Exchange(m) => UNCHANGED flows
  BY <1>1 DEF Crash, Exchange, ExchangeAccepts, ExchangeRefuses, ExchangeCancels, Handle
<1>7. \A o : Market(o) => UNCHANGED flows
  <2>1. \A o, p, fee, last : Trade(o, p, fee, last) => UNCHANGED ledgerVars
    BY Zenon DEF Trade
  <2>2. \A o, fee : Corrected(o, fee) \/ Expires(o) => UNCHANGED ledgerVars
    BY Zenon DEF Corrected, Expires
  <2>3. \A o : Market(o) => UNCHANGED ledgerVars
    BY <2>1, <2>2, Zenon DEF Market
  <2>. QED  BY <1>1, <2>3
<1>8. \A o, poll, c : ReadFill(o) \/ ApplyPoll(poll) \/ MarkEnded(c) \/ Reconcile(c) => UNCHANGED flows
  BY <1>1 DEF ReadFill, ApplyPoll, ApplyFill, MarkEnded, Reconcile, MarkOrderTerminal, RecordOrder
<1>9. NextDay \/ UNCHANGED vars => UNCHANGED flows
  BY DEF NextDay, vars, ledgerVars
<1>. QED  BY <1>2, <1>4, <1>5, <1>6, <1>7, <1>8, <1>9, Zenon DEF BrokerNext, Place, Resume

\* reserve() that grants leaves the sleeve with money for every order.
LEMMA BuyKeepsMoney ==
  ASSUME BaseInv, ClosedInv, GuardInv, DatesInv, Faithful, Prompt, \A c \in Coid : Accounted(c),
         [BrokerNext]_vars, NEW t \in Task, NEW c \in Coid, PlaceBuy(t, c)
  PROVE  LET cur == Request[c].currency
         IN  Allocated(cur) + flows'[cur] + SumFunctionOnSet([o \in OrderId |-> Money(o, cur)'], OrderId) >= 0
<1>. DEFINE cur == Request[c].currency
            cost == ReserveAmount(Request[c])
            a == OrderOf(c)
            free == [o \in OrderId |-> Free(o, cur)]
            rest == [o \in OrderId |-> IF o = a THEN free[a] + HeldBy(c, cur) - cost ELSE free[o]]
            next == [o \in OrderId |-> Money(o, cur)']
<1>1. /\ cur \in Currency /\ cost \in Nat /\ a \in OrderId /\ Attr[a].coid = c
      /\ Attr[a].currency = cur /\ Attr[a].side = "buy" /\ OrderedCost(a) = cost
  BY Pairing, RequestTypes DEF PlaceBuy
<1>2. Starting(t, c) /\ cost <= Available(cur) + HeldBy(c, cur)
  BY DEF Starting, PlaceBuy, Reserve, CanReserve
<1>3. /\ fills' = fills /\ exch' = exch /\ missed' = missed /\ flows' = flows
      /\ \A u \in Task, d \in Coid : Starting(u, d) => d = c
      /\ exch[a].cost = 0 /\ fills[a].qty = 0
  BY <1>2, StartsNew
<1>4. Available(cur) = Allocated(cur) + flows[cur] + SumFunctionOnSet(free, OrderId)
  BY <1>1, AvailableByOrder DEF ClosedInv
<1>5. \A o \in OrderId : free[o] \in Int
  BY <1>1, FreeType
<1>6. HeldBy(c, cur) \in Nat
  BY <1>1, HeldByType DEF BaseInv, BrokerTypeOK
<1>7. BaseInv'
  BY BaseStep
<1>8. ASSUME NEW o \in OrderId PROVE rest[o] <= next[o] /\ next[o] \in Int /\ rest[o] \in Int
  <2>1. rest[o] \in Int
    BY <1>1, <1>5, <1>6
  <2>2. next[o] \in Int
    BY <1>1, <1>7, MoneyTypeNext
  <2>3. CASE o = a
    <3>1. fills[a].cost = 0 /\ fills[a].fee \in Nat
      BY <1>1, <1>3, OrderTypes DEF ClosedInv
    <3>2. free[a] = -fills[a].fee - HeldBy(c, cur)
      <4>1. SignedCash(a, fills[a]) = -(fills[a].cost + fills[a].fee) /\ ~Unsettled(a, cur)
        BY <1>1 DEF SignedCash, Unsettled
      <4>2. free[a] = SignedCash(a, fills[a]) - HeldBy(c, cur) - 0
        BY <1>1, <4>1 DEF Free
      <4>. HIDE DEF free, a, cur
      <4>. QED  BY <1>6, <3>1, <4>1, <4>2
    <3>3. Spent(a)' <= cost /\ Spent(a)' \in Int
      <4>1. Spent(a)' = IF MayExecute(c)' THEN cost ELSE exch'[a].cost - missed'[a].cost
        BY <1>1 DEF Spent, OrderedCost, ReserveAmount
      <4>2. missed[a].cost \in Nat
        BY <1>1, OrderTypes
      <4>. HIDE DEF a, cost
      <4>. QED  BY <1>1, <1>3, <4>1, <4>2
    <3>4. next[o] = -Spent(a)'
      BY <1>1, <2>3 DEF Money
    <3>5. rest[o] = free[a] + HeldBy(c, cur) - cost
      BY <2>3
    <3>6. free[a] \in Int
      BY <1>1, <1>5
    <3>. HIDE DEF next, rest, free, a, cost, cur
    <3>. QED  BY <1>1, <1>6, <2>1, <2>2, <3>1, <3>2, <3>3, <3>4, <3>5, <3>6
  <2>4. CASE o # a
    <3>1. Attr[o].coid \in Coid /\ Attr[o].coid # c
      BY <2>4, Pairing
    <3>2. Free(o, cur) <= Money(o, cur)
      BY <1>1, <3>1, FreeCovered DEF GuardInv
    <3>3. Money(o, cur) <= Money(o, cur)'
      BY <1>1, <1>3, <3>1, MoneyGrows
    <3>4. Free(o, cur) \in Int /\ Money(o, cur) \in Int /\ Money(o, cur)' \in Int
      BY <1>1, <1>7, FreeType, MoneyType, MoneyTypeNext
    <3>5. rest[o] = Free(o, cur) /\ next[o] = Money(o, cur)'
      BY <2>4
    <3>. HIDE DEF rest, next
    <3>. QED  BY <3>2, <3>3, <3>4, <3>5
  <2>. QED  BY <2>3, <2>4
<1>9. SumFunctionOnSet(rest, OrderId) = SumFunctionOnSet(free, OrderId) - free[a] + rest[a]
  <2>1. \A o \in OrderId : free[o] \in Int /\ rest[o] \in Int
    BY <1>5, <1>8
  <2>2. \A o \in OrderId \ {a} : rest[o] = free[o]
    OBVIOUS
  <2>3. a \in OrderId /\ IsFiniteSet(OrderId)
    BY <1>1, ConstantTypes
  <2>. HIDE DEF free, rest, a
  <2>. QED  BY <2>1, <2>2, <2>3, SumUpdate
<1>10. rest[a] = free[a] + HeldBy(c, cur) - cost /\ free[a] \in Int
  BY <1>1, <1>5
<1>11. SumFunctionOnSet(rest, OrderId) <= SumFunctionOnSet(next, OrderId)
  <2>. HIDE DEF rest, next
  <2>. QED  BY <1>8, ConstantTypes, SumMonotone
<1>12. /\ SumFunctionOnSet(next, OrderId) \in Int /\ SumFunctionOnSet(rest, OrderId) \in Int
       /\ SumFunctionOnSet(free, OrderId) \in Int
  <2>1. IsFiniteSet(OrderId)
    BY ConstantTypes
  <2>. HIDE DEF rest, next, free
  <2>. QED  BY <1>5, <1>8, <2>1, SumType
<1>13. flows[cur] \in Int /\ Allocated(cur) \in Int
  BY <1>1, ConstantTypes DEF BaseInv, BrokerTypeOK, LedgerTypeOK, Allocated
<1>. HIDE DEF free, rest, next, cost, a, cur
<1>14. Allocated(cur) + flows'[cur] + SumFunctionOnSet(next, OrderId) >= 0
  BY <1>1, <1>2, <1>3, <1>4, <1>6, <1>9, <1>10, <1>11, <1>12, <1>13
<1>. QED  BY <1>14 DEF next, cur

\* A withdrawal leaves the money that is reserved and not settled where it is.
LEMMA CashflowKeepsMoney ==
  ASSUME BaseInv, ClosedInv, GuardInv, DatesInv, \A c \in Coid : Accounted(c),
         NEW cur \in Currency, NEW amount \in FlowAmount, Cashflow(cur, amount)
  PROVE  Allocated(cur) + flows'[cur] + SumFunctionOnSet([o \in OrderId |-> Money(o, cur)], OrderId) >= 0
<1>. DEFINE free == [o \in OrderId |-> Free(o, cur)]
            money == [o \in OrderId |-> Money(o, cur)]
<1>1. Available(cur) + amount >= 0 /\ flows' = [flows EXCEPT ![cur] = @ + amount]
  BY DEF Cashflow, RecordCashflow
<1>2. /\ flows \in [Currency -> Int] /\ Allocated(cur) \in Int /\ amount \in Int /\ flows[cur] \in Int
      /\ IsFiniteSet(OrderId)
  BY ConstantTypes, LedgerAssumption DEF BaseInv, BrokerTypeOK, LedgerTypeOK, Allocated
<1>3. flows'[cur] = flows[cur] + amount
  BY <1>1, <1>2
<1>4. Available(cur) = Allocated(cur) + flows[cur] + SumFunctionOnSet(free, OrderId)
  BY AvailableByOrder DEF ClosedInv
<1>5. \A o \in OrderId : free[o] \in Int /\ money[o] \in Int /\ free[o] <= money[o]
  BY FreeType, MoneyType, FreeCovered, Pairing DEF GuardInv
<1>. HIDE DEF free, money
<1>6. /\ SumFunctionOnSet(free, OrderId) <= SumFunctionOnSet(money, OrderId)
      /\ SumFunctionOnSet(free, OrderId) \in Int /\ SumFunctionOnSet(money, OrderId) \in Int
  BY <1>2, <1>5, SumMonotone, SumType
<1>7. Allocated(cur) + flows'[cur] + SumFunctionOnSet(money, OrderId) >= 0
  BY <1>1, <1>2, <1>3, <1>4, <1>6
<1>. QED  BY <1>7 DEF money

\* The sleeve keeps money for every order that may spend some.
LEMMA MoneyStep ==
  ASSUME BaseInv, ClosedInv, GuardInv, DatesInv, Faithful, Prompt, \A c \in Coid : Accounted(c),
         MoneyCovers, [BrokerNext]_vars
  PROVE  MoneyCovers'
<1>0. BaseInv'
  BY BaseStep
<1>1. ASSUME NEW cur \in Currency
      PROVE  Allocated(cur) + flows'[cur] + SumFunctionOnSet([o \in OrderId |-> Money(o, cur)'], OrderId) >= 0
  <2>. DEFINE f == [o \in OrderId |-> Money(o, cur)]
              g == [o \in OrderId |-> Money(o, cur)']
  <2>1. ASSUME NEW t \in Task, NEW c \in Coid, PlaceBuy(t, c), Request[c].currency = cur
        PROVE  Allocated(cur) + flows'[cur] + SumFunctionOnSet(g, OrderId) >= 0
    BY <2>1, BuyKeepsMoney
  <2>2. ASSUME ~\E t \in Task, c \in Coid : PlaceBuy(t, c) /\ Request[c].currency = cur
        PROVE  Allocated(cur) + flows'[cur] + SumFunctionOnSet(g, OrderId) >= 0
    <3>1. ASSUME NEW o \in OrderId PROVE f[o] \in Int /\ g[o] \in Int /\ f[o] <= g[o]
      <4>1. ASSUME Attr[o].currency = cur, Attr[o].side = "buy", NEW t \in Task, Starting(t, Attr[o].coid) PROVE FALSE
        <5>1. Attr[o].coid \in Coid /\ Request[Attr[o].coid].side = "buy" /\ Request[Attr[o].coid].currency = cur
          BY <4>1, Pairing, RequestTypes
        <5>. QED  BY <2>2, <4>1, <5>1 DEF Starting, PlaceSell
      <4>2. Money(o, cur) <= Money(o, cur)'
        BY <4>1, MoneyGrows
      <4>. QED  BY <1>0, <4>2, MoneyType, MoneyTypeNext
    <3>2. Allocated(cur) + flows'[cur] + SumFunctionOnSet(f, OrderId) >= 0
      <4>1. CASE flows'[cur] = flows[cur]
        BY <4>1 DEF MoneyCovers
      <4>2. ASSUME NEW paid \in Currency, NEW amount \in FlowAmount, Cashflow(paid, amount), flows'[cur] # flows[cur]
            PROVE  Allocated(cur) + flows'[cur] + SumFunctionOnSet(f, OrderId) >= 0
        <5>1. paid = cur
          BY <4>2 DEF Cashflow, RecordCashflow, BaseInv, BrokerTypeOK, LedgerTypeOK
        <5>. QED  BY <4>2, <5>1, CashflowKeepsMoney
      <4>. QED  BY <4>1, <4>2, FlowMoves
    <3>3. flows'[cur] \in Int /\ Allocated(cur) \in Int /\ IsFiniteSet(OrderId)
      BY <1>0, ConstantTypes DEF BaseInv, BrokerTypeOK, LedgerTypeOK, Allocated
    <3>. HIDE DEF f, g
    <3>4. /\ SumFunctionOnSet(f, OrderId) <= SumFunctionOnSet(g, OrderId)
          /\ SumFunctionOnSet(f, OrderId) \in Int /\ SumFunctionOnSet(g, OrderId) \in Int
      BY <3>1, <3>3, SumMonotone, SumType
    <3>. QED  BY <3>2, <3>3, <3>4
  <2>. QED  BY <2>1, <2>2
<1>. QED  BY <1>1 DEF MoneyCovers, Allocated

\* Then no more can be spent than there is, but for what cancel() missed.
LEMMA CoverCapsSpending ==
  ASSUME BaseInv, MoneyCovers
  PROVE  HardCap
<1>. SUFFICES ASSUME NEW cur \in Currency
              PROVE  Committed(cur) <= Allocated(cur) + flows[cur] + SettledSales(cur) + MissedCost(cur)
  BY DEF HardCap
<1>. DEFINE committed == [o \in OrderId |-> IF ~Buying(o, cur) THEN 0
                                            ELSE IF exch[o].status = "working" THEN OrderedCost(o)
                                            ELSE exch[o].cost]
            sales == [o \in OrderId |-> IF Attr[o].side = "sell" /\ Attr[o].currency = cur
                                           /\ exch[o].settles <= today
                                        THEN exch[o].cost ELSE 0]
            missing == [o \in OrderId |-> IF Buying(o, cur) THEN missed[o].cost ELSE 0]
            money == [o \in OrderId |-> Money(o, cur)]
            due == [o \in OrderId |-> committed[o] - missing[o]]
            left == [o \in OrderId |-> sales[o] - due[o]]
<1>1. ASSUME NEW o \in OrderId
      PROVE  /\ committed[o] \in Int /\ sales[o] \in Int /\ missing[o] \in Int /\ money[o] \in Int
             /\ money[o] <= sales[o] - (committed[o] - missing[o])
  <2>1. /\ exch[o].cost \in Nat /\ missed[o].cost \in Nat /\ OrderedCost(o) \in Nat
        /\ OrderOf(Attr[o].coid) = o
    BY OrderTypes, Pairing
  <2>2. money[o] \in Int
    BY MoneyType
  <2>3. CASE Buying(o, cur)
    <3>1. /\ committed[o] = IF exch[o].status = "working" THEN OrderedCost(o) ELSE exch[o].cost
          /\ sales[o] = 0 /\ missing[o] = missed[o].cost /\ money[o] = -Spent(o)
      BY <2>3 DEF Buying, Money
    <3>2. exch[o].status = "absent" => exch[o].cost = 0
      BY DEF BaseInv, ExchangeShape
    <3>3. Spent(o) >= committed[o] - missed[o].cost /\ Spent(o) \in Int
      BY <2>1, <3>1, <3>2 DEF Spent, MayExecute
    <3>. HIDE DEF committed, sales, missing, money
    <3>. QED  BY <2>1, <2>2, <3>1, <3>3
  <2>4. CASE ~Buying(o, cur)
    <3>1. committed[o] = 0 /\ missing[o] = 0
      BY <2>4
    <3>2. CASE Attr[o].currency # cur
      <4>1. sales[o] = 0 /\ money[o] = 0
        BY <3>2 DEF Money
      <4>. HIDE DEF committed, sales, missing, money
      <4>. QED  BY <3>1, <4>1
    <3>3. CASE Attr[o].currency = cur
      <4>1. Attr[o].side = "sell"
        BY <2>4, <3>3, ConstantTypes DEF Buying, Side
      <4>2. /\ sales[o] = IF exch[o].settles <= today THEN exch[o].cost ELSE 0
            /\ money[o] = IF exch[o].settles <= today THEN exch[o].cost ELSE 0
        BY <3>3, <4>1 DEF Money
      <4>. HIDE DEF committed, sales, missing, money
      <4>. QED  BY <2>1, <3>1, <4>2
    <3>. QED  BY <3>2, <3>3
  <2>. QED  BY <2>3, <2>4
<1>2. \A o \in OrderId : /\ due[o] = committed[o] - missing[o] /\ left[o] = sales[o] - due[o]
                         /\ due[o] \in Int /\ left[o] \in Int /\ money[o] <= left[o]
  BY <1>1
<1>3. /\ Committed(cur) = SumFunctionOnSet(committed, OrderId) /\ SettledSales(cur) = SumFunctionOnSet(sales, OrderId)
      /\ MissedCost(cur) = SumFunctionOnSet(missing, OrderId)
  BY DEF Committed, SettledSales, MissedCost
<1>4. Allocated(cur) + flows[cur] + SumFunctionOnSet(money, OrderId) >= 0
  BY DEF MoneyCovers
<1>. HIDE DEF committed, sales, missing, money, due, left
<1>5. flows[cur] \in Int /\ Allocated(cur) \in Int /\ IsFiniteSet(OrderId)
  BY ConstantTypes DEF BaseInv, BrokerTypeOK, LedgerTypeOK, Allocated
<1>6. /\ SumFunctionOnSet(committed, OrderId) \in Int /\ SumFunctionOnSet(sales, OrderId) \in Int
      /\ SumFunctionOnSet(missing, OrderId) \in Int /\ SumFunctionOnSet(money, OrderId) \in Int
  BY <1>1, <1>5, SumType
<1>7. SumFunctionOnSet(money, OrderId) <= SumFunctionOnSet(left, OrderId)
  BY <1>1, <1>2, <1>5, SumMonotone
<1>8. SumFunctionOnSet(due, OrderId) = SumFunctionOnSet(committed, OrderId) - SumFunctionOnSet(missing, OrderId)
  BY <1>1, <1>2, <1>5, SumDifference
<1>9. SumFunctionOnSet(left, OrderId) = SumFunctionOnSet(sales, OrderId) - SumFunctionOnSet(due, OrderId)
  BY <1>1, <1>2, <1>5, SumDifference
<1>. QED  BY <1>3, <1>4, <1>5, <1>6, <1>7, <1>8, <1>9

\* What holds, besides, when the settlement dates come with the executions.
MoneyInv == DatesInv /\ MoneyCovers

\* Every step keeps it.
LEMMA MoneyInvStep ==
  ASSUME Faithful, Prompt
  PROVE  BaseInv /\ ClosedInv /\ GuardInv /\ SharesInv /\ MoneyInv /\ [BrokerNext]_vars => MoneyInv'
<1>. SUFFICES ASSUME BaseInv, ClosedInv, GuardInv, SharesInv, MoneyInv, [BrokerNext]_vars PROVE MoneyInv'
  OBVIOUS
<1>1. (\A c \in Coid : Accounted(c)) /\ DatesInv /\ MoneyCovers
  BY DEF SharesInv, MoneyInv
<1>2. DatesInv'
  BY <1>1, DatesStep
<1>3. MoneyCovers'
  BY <1>1, MoneyStep
<1>. QED  BY <1>2, <1>3 DEF MoneyInv

\* The BUY orders of a currency never cost more principal, in the end, than the capital, the
\* cashflows and the settled sales, but for what cancel() missed: reserve() keeps the cost of
\* an order until it is settled, and available() leaves out sales whose day has not come.
THEOREM SpendingStaysCapped ==
  ASSUME Faithful, Prompt
  PROVE  BrokerSpec => []HardCap
<1>1. BrokerInit => BaseInv /\ ClosedInv /\ GuardInv /\ SharesInv /\ MoneyInv
  BY BaseInit, ClosedInit, GuardInit, AccountedInit, SharesInit, DatesInit, MoneyInit DEF SharesInv, MoneyInv
<1>2. BaseInv /\ ClosedInv /\ GuardInv /\ SharesInv /\ MoneyInv /\ [BrokerNext]_vars
        => BaseInv' /\ ClosedInv' /\ GuardInv' /\ SharesInv' /\ MoneyInv'
  BY BaseStep, ClosedStep, GuardStep, SharesInvStep, MoneyInvStep
<1>3. BaseInv /\ MoneyInv => HardCap
  BY CoverCapsSpending DEF MoneyInv
<1>. QED  BY <1>1, <1>2, <1>3, PTL DEF BrokerSpec

\* Under the broker, too, cash is explained by the capital, the cashflows and the last
\* snapshot of every order, whatever polls are late, lost or repeated. (apply_fill)
THEOREM BrokerCashConservation == BrokerSpec => []CashConserved
<1>1. BrokerInit => BaseInv /\ ClosedInv
  BY BaseInit, ClosedInit
<1>2. BaseInv /\ ClosedInv /\ [BrokerNext]_vars => BaseInv' /\ ClosedInv'
  BY BaseStep, ClosedStep
<1>3. ClosedInv => CashConserved
  BY DEF ClosedInv
<1>. QED  BY <1>1, <1>2, <1>3, PTL DEF BrokerSpec

-------------------------------------------------------------------------------
\* The cash that is available.

\* What is settled of BUY order o or reserved for it, and the principal that it takes: all
\* that it has executed, where cancel() let go of its reservation before that was settled.
KeptFor(o) == fills[o].cost + reserved[Attr[o].coid].amount
Takes(o)   == IF exch[o].cost > KeptFor(o) THEN exch[o].cost ELSE KeptFor(o)

\* What each order leaves of the cash in cur, fees and what cancel() missed aside.
Leaves(o, cur) ==
  IF Attr[o].currency # cur THEN 0
  ELSE IF Attr[o].side = "buy" THEN missed[o].cost - Takes(o)
  ELSE IF fills[o].settles <= today THEN fills[o].cost ELSE 0

CashLeft(cur) == Allocated(cur) + flows[cur] + SumFunctionOnSet([o \in OrderId |-> Leaves(o, cur)], OrderId)

CashCovers == \A cur \in Currency : CashLeft(cur) >= 0

\* An amount that is reserved, or is not, is a natural number.
LEMMA AmountType == BaseInv => \A c \in Coid : reserved[c].amount \in Nat
<1>. SUFFICES ASSUME BaseInv, NEW c \in Coid PROVE reserved[c].amount \in Nat
  OBVIOUS
<1>1. reserved[c] \in Reservation \cup {NoReservation}
  BY DEF BaseInv, BrokerTypeOK, LedgerTypeOK
<1>. QED  BY <1>1 DEF Reservation, NoReservation

\* And it stays one.
LEMMA AmountTypeNext == BaseInv' => \A c \in Coid : reserved'[c].amount \in Nat
<1>1. BaseInv' => (\A c \in Coid : reserved[c].amount \in Nat)'
  BY AmountType, PTL
<1>. QED  BY <1>1

\* What an order leaves is an integer.
LEMMA LeavesType == BaseInv => \A o \in OrderId, cur \in Currency : Leaves(o, cur) \in Int
<1>. SUFFICES ASSUME BaseInv, NEW o \in OrderId, NEW cur \in Currency PROVE Leaves(o, cur) \in Int
  OBVIOUS
<1>1. reserved[Attr[o].coid].amount \in Nat
  BY AmountType, ConstantTypes
<1>2. KeptFor(o) \in Nat
  BY <1>1, OrderTypes DEF KeptFor
<1>3. Takes(o) \in Nat
  BY <1>2, OrderTypes DEF Takes
<1>. QED  BY <1>3, OrderTypes DEF Leaves

\* And it stays one.
LEMMA LeavesTypeNext == BaseInv' => \A o \in OrderId, cur \in Currency : Leaves(o, cur)' \in Int
<1>1. BaseInv' => (\A o \in OrderId, cur \in Currency : Leaves(o, cur) \in Int)'
  BY LeavesType, PTL
<1>. QED  BY <1>1

\* The reservation that place() asks for.
Grants(c) == Reserve(c, Request[c].currency, ReserveAmount(Request[c]))

\* Only a grant of its own, or the poll of its own order, raises what is kept for an order;
\* and a poll raises it to no more than the order has executed.
LEMMA KeptMoves ==
  ASSUME BaseInv, [BrokerNext]_vars, NEW o \in OrderId, Attr[o].side = "buy", ~Grants(Attr[o].coid)
  PROVE  KeptFor(o)' <= KeptFor(o) \/ KeptFor(o)' <= exch[o].cost
<1>. DEFINE c == Attr[o].coid
<1>1. c \in Coid /\ OrderOf(c) = o /\ BaseInv' /\ BrokerTypeOK
  BY Pairing, BaseStep DEF BaseInv
<1>2. /\ fills[o].cost \in Nat /\ fills'[o].cost \in Nat /\ exch[o].cost \in Nat
      /\ reserved[c].amount \in Nat /\ reserved'[c].amount \in Nat
  BY <1>1, OrderTypes, OrdersTypedNext, AmountType, AmountTypeNext DEF OrdersTyped
<1>3. KeptFor(o) = fills[o].cost + reserved[c].amount /\ KeptFor(o)' = fills'[o].cost + reserved'[c].amount
  BY DEF KeptFor
<1>4. reserved \in [Coid -> Reservation \cup {NoReservation}] /\ NoReservation.amount = 0
  BY DEF BaseInv, BrokerTypeOK, LedgerTypeOK, NoReservation
<1>. HIDE DEF c
<1>5. ASSUME fills' = fills, reserved'[c] = reserved[c] \/ reserved'[c] = NoReservation
      PROVE  KeptFor(o)' <= KeptFor(o)
  BY <1>2, <1>3, <1>4, <1>5
<1>6. ASSUME NEW d \in Coid,
             \/ Grants(d) /\ d # c
             \/ \E id, s, side, cur, qty : RecordOrder(d, id, s, side, cur, qty)
             \/ \E s, cur, qty : ReserveSell(d, s, cur, qty)
             \/ Release(d)
             \/ \E status : MarkOrderTerminal(d, status)
      PROVE  fills' = fills /\ (reserved'[c] = reserved[c] \/ reserved'[c] = NoReservation)
  <2>1. CASE Grants(d) /\ d # c
    BY <1>4, <2>1 DEF Grants, Reserve
  <2>2. \A id, s, side, cur, qty : RecordOrder(d, id, s, side, cur, qty) => UNCHANGED <<fills, reserved>>
    BY DEF RecordOrder
  <2>3. \A s, cur, qty : ReserveSell(d, s, cur, qty) => UNCHANGED <<fills, reserved>>
    BY DEF ReserveSell
  <2>4. Release(d) => fills' = fills /\ (reserved'[c] = reserved[c] \/ reserved'[c] = NoReservation)
    BY <1>1, <1>4 DEF Release, c
  <2>5. \A status : MarkOrderTerminal(d, status) => fills' = fills /\ (reserved'[c] = reserved[c] \/ reserved'[c] = NoReservation)
    BY <1>1, <1>4 DEF MarkOrderTerminal, c
  <2>. QED  BY <1>6, <2>1, <2>2, <2>3, <2>4, <2>5
<1>7. ASSUME NEW poll \in polls, ApplyFill(poll.order, poll.snapshot)
      PROVE  KeptFor(o)' <= KeptFor(o) \/ KeptFor(o)' <= exch[o].cost
  <2>. DEFINE a == poll.order
              x == poll.snapshot
              left == reserved[c].amount - (x.cost - fills[o].cost)
  <2>1. /\ a \in OrderId /\ x.cost \in Nat
        /\ fills' = [fills EXCEPT ![a] = x]
        /\ reserved' = IF Attr[a].side = "buy" /\ reserved[Attr[a].coid] # NoReservation
                       THEN [reserved EXCEPT ![Attr[a].coid] = ReservationAfterFill(Attr[a].coid, a, x)]
                       ELSE reserved
    BY <1>7, ReportsNamed DEF ApplyFill, BaseInv, BrokerTypeOK, Snapshot
  <2>2. fills \in [OrderId -> [qty : Nat, cost : Nat, fee : Nat, settles : Nat]]
    BY DEF BaseInv, BrokerTypeOK, LedgerTypeOK
  <2>3. CASE a # o
    <3>1. Attr[a].coid # c
      BY <2>1, <2>3, Pairing DEF c
    <3>2. fills'[o] = fills[o] /\ reserved'[c] = reserved[c]
      BY <2>1, <2>2, <2>3, <3>1
    <3>. QED  BY <1>2, <1>3, <3>2
  <2>4. CASE a = o
    <3>1. fills'[o].cost = x.cost /\ x.cost <= exch[o].cost
      BY <2>1, <2>2, <2>4 DEF BaseInv, Behind, Upto
    <3>2. reserved'[c] = NoReservation \/ reserved'[c] = [reserved[c] EXCEPT !.amount = left]
      <4>1. CASE reserved[c] = NoReservation
        BY <2>1, <2>4, <4>1 DEF c
      <4>2. CASE reserved[c] # NoReservation
        <5>1. reserved'[c] = ReservationAfterFill(c, o, x)
          BY <1>1, <1>4, <2>1, <2>4, <4>2 DEF c
        <5>. QED  BY <5>1 DEF ReservationAfterFill
      <4>. QED  BY <4>1, <4>2
    <3>3. [reserved[c] EXCEPT !.amount = left].amount = left
      <4>1. "amount" \in DOMAIN reserved[c]
        BY <1>1, <1>4 DEF Reservation, NoReservation, c
      <4>. HIDE DEF left
      <4>. QED  BY <4>1
    <3>4. reserved'[c].amount = 0 \/ reserved'[c].amount = left
      BY <1>4, <3>2, <3>3
    <3>. QED  BY <1>2, <1>3, <2>1, <3>1, <3>4
  <2>. QED  BY <2>3, <2>4
<1>8. UNCHANGED ledgerVars \/ NextDay \/ (\E cur, amount : RecordCashflow(cur, amount))
        => UNCHANGED <<fills, reserved>>
  BY DEF ledgerVars, NextDay, RecordCashflow
<1>9. ~Grants(c)
  BY DEF c
<1>. QED  BY <1>1, <1>5, <1>6, <1>7, <1>8, <1>9, LedgerMoves DEF Grants

\* A BUY that is not granted anything only ever leaves more: it trades within what is kept
\* for it, and what cancel() lets go of is counted as missed.
LEMMA TakesFalls ==
  ASSUME BaseInv, ClosedInv, LiveOrdersGuarded, [BrokerNext]_vars,
         NEW o \in OrderId, Attr[o].side = "buy", ~Grants(Attr[o].coid)
  PROVE  missed[o].cost - Takes(o) <= missed'[o].cost - Takes(o)'
<1>. DEFINE c == Attr[o].coid
<1>1. /\ c \in Coid /\ OrderOf(c) = o /\ Request[c].side = "buy" /\ OrderedCost(o) = ReserveAmount(Request[c])
      /\ BaseInv'
  BY Pairing, RequestTypes, BaseStep DEF OrderedCost
<1>2. /\ fills[o].cost \in Nat /\ exch[o].cost \in Nat /\ missed[o].cost \in Nat /\ OrderedCost(o) \in Nat
      /\ fills'[o].cost \in Nat /\ exch'[o].cost \in Nat /\ missed'[o].cost \in Nat
      /\ reserved[c].amount \in Nat /\ reserved'[c].amount \in Nat
  BY <1>1, OrderTypes, OrdersTypedNext, AmountType, AmountTypeNext DEF OrdersTyped
<1>3. /\ KeptFor(o) = fills[o].cost + reserved[c].amount /\ KeptFor(o)' = fills'[o].cost + reserved'[c].amount
      /\ Takes(o)' = IF exch'[o].cost > KeptFor(o)' THEN exch'[o].cost ELSE KeptFor(o)'
  BY DEF KeptFor, Takes
<1>4. KeptFor(o) \in Nat /\ KeptFor(o)' \in Nat
  BY <1>2, <1>3
<1>5. missed[o].cost <= missed'[o].cost
  <2>1. CASE missed'[o] = missed[o]
    BY <1>2, <2>1
  <2>2. ASSUME NEW t \in Task, CancelConfirmed(t), Confirmed(t, c) PROVE missed[o].cost <= missed'[o].cost
    <3>1. missed[o] = NothingMissed
      BY <1>1, <2>2 DEF ClosedInv, MissedOnce
    <3>. QED  BY <1>2, <3>1 DEF NothingMissed
  <2>. QED  BY <1>1, <2>1, <2>2, MissedStays
<1>6. SUFFICES Takes(o)' <= Takes(o)
  <2>1. Takes(o) \in Int /\ Takes(o)' \in Int
    BY <1>2, <1>3, <1>4 DEF Takes
  <2>. QED  BY <1>2, <1>5, <1>6, <2>1
<1>7. CASE UNCHANGED exch
  <2>1. KeptFor(o)' <= KeptFor(o) \/ KeptFor(o)' <= exch[o].cost
    BY KeptMoves
  <2>. QED  BY <1>2, <1>3, <1>4, <1>7, <2>1 DEF Takes
<1>8. CASE UNCHANGED ledgerVars
  <2>1. KeptFor(o)' = KeptFor(o)
    BY <1>3, <1>8 DEF ledgerVars
  <2>2. Advances(o)
    BY ExchangeStep DEF BaseInv, BrokerTypeOK, ExchangeType, LedgerTypeOK, Message
  <2>3. CASE exch'[o].cost = exch[o].cost
    BY <1>2, <1>3, <1>4, <2>1, <2>3 DEF Takes
  <2>4. CASE exch[o].status = "working" /\ exch'[o].cost <= OrderedCost(o)
    <3>1. reserved[c].amount + fills[o].cost >= OrderedCost(o)
      BY <1>1, <2>4 DEF LiveOrdersGuarded, MayExecute, Guarded
    <3>. HIDE DEF c
    <3>2. exch'[o].cost <= KeptFor(o)
      BY <1>2, <1>3, <2>4, <3>1
    <3>. QED  BY <1>2, <1>3, <1>4, <2>1, <3>2 DEF Takes
  <2>. QED  BY <2>2, <2>3, <2>4 DEF Advances
<1>. QED  BY <1>7, <1>8, Apart

\* So does every other order: what a SELL has brought in on its day stays.
LEMMA LeavesGrow ==
  ASSUME BaseInv, ClosedInv, LiveOrdersGuarded, DatesInv, Prompt, [BrokerNext]_vars,
         NEW o \in OrderId, NEW cur \in Currency,
         Attr[o].currency = cur /\ Attr[o].side = "buy" => ~Grants(Attr[o].coid)
  PROVE  Leaves(o, cur) <= Leaves(o, cur)'
<1>1. BaseInv' /\ DatesInv'
  BY BaseStep, DatesStep
<1>2. CASE Attr[o].currency # cur
  <2>1. Leaves(o, cur) = 0 /\ Leaves(o, cur)' = 0
    BY <1>2 DEF Leaves
  <2>. QED  BY <2>1
<1>3. CASE Attr[o].currency = cur /\ Attr[o].side = "buy"
  <2>1. missed[o].cost - Takes(o) <= missed'[o].cost - Takes(o)'
    BY <1>3, TakesFalls
  <2>2. Leaves(o, cur) = missed[o].cost - Takes(o) /\ Leaves(o, cur)' = missed'[o].cost - Takes(o)'
    BY <1>3 DEF Leaves
  <2>. QED  BY <2>1, <2>2
<1>4. CASE Attr[o].currency = cur /\ Attr[o].side # "buy"
  <2>1. Attr[o].side = "sell"
    BY <1>4, ConstantTypes DEF Side
  <2>2. /\ fills[o].qty \in Nat /\ fills[o].cost \in Nat /\ fills[o].settles \in Nat /\ exch[o].qty \in Nat
        /\ fills'[o].qty \in Nat /\ fills'[o].cost \in Nat /\ fills'[o].settles \in Nat
    BY <1>1, OrderTypes, OrdersTypedNext DEF OrdersTyped
  <2>3. fills[o].qty <= fills'[o].qty /\ fills[o].cost <= fills'[o].cost /\ fills[o].qty <= exch[o].qty
    BY FillsGrow DEF BaseInv, Behind, Upto
  <2>4. fills[o].qty = 0 => fills[o].cost = 0
    BY DEF ClosedInv
  <2>5. fills[o].qty > 0 => fills'[o].settles = fills[o].settles
    <3>1. fills[o].qty > 0 => fills[o].settles = exch[o].settles
      BY <2>1 DEF DatesInv, DatedRight
    <3>2. fills'[o].qty > 0 => fills'[o].settles = exch'[o].settles
      BY <1>1, <2>1 DEF DatesInv, DatedRight
    <3>3. exch[o].qty > 0 => exch'[o].settles = exch[o].settles
      BY <2>1, SettlesOnce DEF DatesInv, DatedRight
    <3>. QED  BY <2>2, <2>3, <3>1, <3>2, <3>3
  <2>6. today \in Nat /\ today' \in Nat /\ today <= today'
    BY DaysPass
  <2>7. /\ Leaves(o, cur) = IF fills[o].settles <= today THEN fills[o].cost ELSE 0
        /\ Leaves(o, cur)' = IF fills'[o].settles <= today' THEN fills'[o].cost ELSE 0
    BY <1>4 DEF Leaves
  <2>. QED  BY <2>2, <2>3, <2>4, <2>5, <2>6, <2>7
<1>. QED  BY <1>2, <1>3, <1>4

\* What an order leaves lies between what it leaves of available() and the same without its
\* fees and with what cancel() missed of it.
LEMMA LeavesBetween ==
  ASSUME BaseInv, ClosedInv, NEW o \in OrderId, NEW cur \in Currency, Accounted(Attr[o].coid)
  PROVE  /\ Free(o, cur) <= Leaves(o, cur)
         /\ Leaves(o, cur) <= Free(o, cur)
                                + (IF Attr[o].currency = cur /\ ~Unsettled(o, cur) THEN fills[o].fee ELSE 0)
                                + (IF Buying(o, cur) THEN missed[o].cost ELSE 0)
<1>. DEFINE c == Attr[o].coid
<1>1. /\ c \in Coid /\ OrderOf(c) = o /\ Request[c].side = Attr[o].side /\ Request[c].currency = Attr[o].currency
  BY Pairing, RequestTypes
<1>2. /\ exch[o].cost \in Nat /\ fills[o].cost \in Nat /\ fills[o].fee \in Nat /\ fills[o].settles \in Nat
      /\ missed[o].cost \in Nat /\ today \in Nat /\ reserved[c].amount \in Nat
  BY <1>1, OrderTypes, AmountType
<1>3. HeldBy(c, cur) = IF Attr[o].currency = cur /\ Attr[o].side = "buy" THEN reserved[c].amount ELSE 0
  <2>1. CASE reserved[c] = NoReservation
    BY <2>1 DEF HeldBy, NoReservation
  <2>2. CASE reserved[c] # NoReservation
    <3>1. reserved[c].currency = Attr[o].currency /\ Attr[o].side = "buy"
      BY <1>1, <2>2 DEF ClosedInv, ReservedRight
    <3>. QED  BY <2>2, <3>1 DEF HeldBy
  <2>. QED  BY <2>1, <2>2
<1>4. CASE Attr[o].currency # cur
  <2>1. Free(o, cur) = 0 - 0 - 0 /\ Leaves(o, cur) = 0 /\ ~Buying(o, cur)
    BY <1>3, <1>4 DEF Free, Leaves, Unsettled, Buying
  <2>. QED  BY <1>4, <2>1
<1>5. CASE Attr[o].currency = cur /\ Attr[o].side = "buy"
  <2>1. ~Unsettled(o, cur) /\ Buying(o, cur)
    BY <1>5 DEF Unsettled, Buying
  <2>2. Free(o, cur) = -(fills[o].cost + fills[o].fee) - reserved[c].amount - 0
    BY <1>3, <1>5, <2>1 DEF Free, SignedCash
  <2>3. /\ Leaves(o, cur) = missed[o].cost - Takes(o)
        /\ Takes(o) = IF exch[o].cost > fills[o].cost + reserved[c].amount THEN exch[o].cost
                      ELSE fills[o].cost + reserved[c].amount
    BY <1>5 DEF Leaves, Takes, KeptFor
  <2>4. exch[o].cost <= reserved[c].amount + fills[o].cost + missed[o].cost
    BY <1>1, <1>5 DEF Accounted
  <2>. HIDE DEF c
  <2>5. Takes(o) \in Nat
    BY <1>2, <2>3
  <2>. QED  BY <1>2, <1>5, <2>1, <2>2, <2>3, <2>4, <2>5
<1>6. CASE Attr[o].currency = cur /\ Attr[o].side # "buy"
  <2>1. ~Buying(o, cur) /\ SignedCash(o, fills[o]) = fills[o].cost - fills[o].fee
    BY <1>6 DEF Buying, SignedCash
  <2>2. Unsettled(o, cur) <=> fills[o].settles > today
    BY <1>6, ConstantTypes DEF Unsettled, Side
  <2>3. Leaves(o, cur) = IF fills[o].settles <= today THEN fills[o].cost ELSE 0
    BY <1>6 DEF Leaves
  <2>4. Free(o, cur) = SignedCash(o, fills[o]) - 0 - (IF Unsettled(o, cur) THEN SignedCash(o, fills[o]) ELSE 0)
    BY <1>3, <1>6 DEF Free
  <2>5. CASE fills[o].settles > today
    <3>1. Free(o, cur) = 0 /\ Leaves(o, cur) = 0
      BY <1>2, <2>1, <2>2, <2>3, <2>4, <2>5
    <3>. QED  BY <1>6, <2>1, <2>2, <2>5, <3>1
  <2>6. CASE ~(fills[o].settles > today)
    <3>1. Free(o, cur) = fills[o].cost - fills[o].fee /\ Leaves(o, cur) = fills[o].cost
      BY <1>2, <2>1, <2>2, <2>3, <2>4, <2>6
    <3>. QED  BY <1>2, <1>6, <2>1, <2>2, <2>6, <3>1
  <2>. QED  BY <2>5, <2>6
<1>. QED  BY <1>4, <1>5, <1>6

AllAccounted == \A c \in Coid : Accounted(c)

\* Cash that is available covers what the orders leave.
LEMMA AvailableCovers ==
  BaseInv /\ ClosedInv /\ AllAccounted => \A cur \in Currency : Available(cur) >= 0 => CashLeft(cur) >= 0
<1>. SUFFICES ASSUME BaseInv, ClosedInv, AllAccounted, NEW cur \in Currency, Available(cur) >= 0
              PROVE  CashLeft(cur) >= 0
  OBVIOUS
<1>. DEFINE free == [o \in OrderId |-> Free(o, cur)]
            leaves == [o \in OrderId |-> Leaves(o, cur)]
<1>1. Available(cur) = Allocated(cur) + flows[cur] + SumFunctionOnSet(free, OrderId)
  BY AvailableByOrder DEF ClosedInv
<1>2. \A o \in OrderId : free[o] \in Int /\ leaves[o] \in Int /\ free[o] <= leaves[o]
  BY FreeType, LeavesType, LeavesBetween, Pairing DEF AllAccounted
<1>3. flows[cur] \in Int /\ Allocated(cur) \in Int /\ IsFiniteSet(OrderId)
  BY ConstantTypes DEF BaseInv, BrokerTypeOK, LedgerTypeOK, Allocated
<1>4. CashLeft(cur) = Allocated(cur) + flows[cur] + SumFunctionOnSet(leaves, OrderId)
  BY DEF CashLeft
<1>. HIDE DEF free, leaves
<1>5. /\ SumFunctionOnSet(free, OrderId) <= SumFunctionOnSet(leaves, OrderId)
      /\ SumFunctionOnSet(free, OrderId) \in Int /\ SumFunctionOnSet(leaves, OrderId) \in Int
  BY <1>2, <1>3, SumMonotone, SumType
<1>. QED  BY <1>1, <1>3, <1>4, <1>5

\* After a step as well.
LEMMA AvailableCoversNext ==
  BaseInv' /\ ClosedInv' /\ AllAccounted' => \A cur \in Currency : Available(cur)' >= 0 => CashLeft(cur)' >= 0
<1>1. BaseInv' /\ ClosedInv' /\ AllAccounted'
        => (\A cur \in Currency : Available(cur) >= 0 => CashLeft(cur) >= 0)'
  BY AvailableCovers, PTL
<1>. QED  BY <1>1

\* A withdrawal leaves no less than nothing available.
LEMMA CashflowLeavesCash ==
  ASSUME BaseInv, NEW cur \in Currency, NEW amount \in FlowAmount, Cashflow(cur, amount)
  PROVE  Available(cur)' >= 0
<1>1. /\ Available(cur) + amount >= 0 /\ cash' = [cash EXCEPT ![cur] = @ + amount]
      /\ UNCHANGED <<reserved, orders, fills, today>>
  BY DEF Cashflow, RecordCashflow
<1>2. ReservedTotal(cur)' = ReservedTotal(cur) /\ SettlementPending(cur)' = SettlementPending(cur)
  BY <1>1 DEF ReservedTotal, HeldBy, SettlementPending, Unsettled, SignedCash
<1>3. cash'[cur] = cash[cur] + amount
  BY <1>1 DEF BaseInv, BrokerTypeOK, LedgerTypeOK
<1>4. /\ cash[cur] \in Int /\ amount \in Int /\ SettlementPending(cur) \in Int
  BY SettlementPendingType, LedgerAssumption DEF BaseInv, BrokerTypeOK, LedgerTypeOK
<1>5. ReservedTotal(cur) \in Int
  <2>. DEFINE f == [c \in Coid |-> HeldBy(c, cur)]
  <2>1. \A c \in Coid : f[c] \in Int
    BY HeldByType DEF BaseInv, BrokerTypeOK
  <2>2. ReservedTotal(cur) = SumFunctionOnSet(f, Coid)
    BY DEF ReservedTotal
  <2>. HIDE DEF f
  <2>. QED  BY <2>1, <2>2, ConstantTypes, SumType
<1>. QED  BY <1>1, <1>2, <1>3, <1>4, <1>5 DEF Available

\* What the orders leave is never less than nothing: a grant and a withdrawal look at
\* available() first, and nothing else takes from it.
LEMMA CashStep ==
  ASSUME Faithful, Prompt
  PROVE  BaseInv /\ ClosedInv /\ GuardInv /\ SharesInv /\ MoneyInv /\ CashCovers /\ [BrokerNext]_vars
           => CashCovers'
<1>. SUFFICES ASSUME BaseInv, ClosedInv, GuardInv, SharesInv, MoneyInv, CashCovers, [BrokerNext]_vars,
                     NEW cur \in Currency
              PROVE  CashLeft(cur)' >= 0
  BY DEF CashCovers
<1>1. BaseInv' /\ ClosedInv' /\ AllAccounted'
  BY BaseStep, ClosedStep, SharesInvStep DEF SharesInv, AllAccounted
<1>2. LedgerTypeOK /\ LedgerTypeOK' /\ LiveOrdersGuarded /\ DatesInv
  BY <1>1 DEF BaseInv, BrokerTypeOK, GuardInv, MoneyInv
<1>3. ASSUME Available(cur)' >= 0 PROVE CashLeft(cur)' >= 0
  BY <1>1, <1>3, AvailableCoversNext
<1>4. ASSUME NEW c \in Coid, Grants(c), Request[c].currency = cur PROVE CashLeft(cur)' >= 0
  <2>1. ReserveAmount(Request[c]) \in Nat
    BY RequestTypes
  <2>2. Available(cur)' >= 0
    BY <1>2, <1>4, <2>1, GrantLeavesCash DEF Grants
  <2>. QED  BY <1>3, <2>2
<1>5. ASSUME NEW amount \in FlowAmount, Cashflow(cur, amount) PROVE CashLeft(cur)' >= 0
  BY <1>3, <1>5, CashflowLeavesCash
<1>6. ASSUME ~\E c \in Coid : Grants(c) /\ Request[c].currency = cur, flows'[cur] = flows[cur]
      PROVE  CashLeft(cur)' >= 0
  <2>. DEFINE f == [o \in OrderId |-> Leaves(o, cur)]
              g == [o \in OrderId |-> Leaves(o, cur)']
  <2>1. ASSUME NEW o \in OrderId PROVE f[o] \in Int /\ g[o] \in Int /\ f[o] <= g[o]
    <3>1. Attr[o].coid \in Coid /\ Request[Attr[o].coid].currency = Attr[o].currency
      BY Pairing, RequestTypes
    <3>2. Leaves(o, cur) <= Leaves(o, cur)'
      BY <1>2, <1>6, <3>1, LeavesGrow
    <3>. QED  BY <1>1, <3>2, LeavesType, LeavesTypeNext
  <2>2. /\ CashLeft(cur) = Allocated(cur) + flows[cur] + SumFunctionOnSet(f, OrderId)
        /\ CashLeft(cur)' = Allocated(cur) + flows'[cur] + SumFunctionOnSet(g, OrderId)
    BY DEF CashLeft, Allocated
  <2>3. flows[cur] \in Int /\ Allocated(cur) \in Int /\ IsFiniteSet(OrderId) /\ CashLeft(cur) >= 0
    BY <1>2, ConstantTypes DEF LedgerTypeOK, Allocated, CashCovers
  <2>. HIDE DEF f, g
  <2>4. /\ SumFunctionOnSet(f, OrderId) <= SumFunctionOnSet(g, OrderId)
        /\ SumFunctionOnSet(f, OrderId) \in Int /\ SumFunctionOnSet(g, OrderId) \in Int
    BY <2>1, <2>3, SumMonotone, SumType
  <2>. QED  BY <1>6, <2>2, <2>3, <2>4
<1>7. ASSUME NEW paid \in Currency, NEW amount \in FlowAmount, Cashflow(paid, amount), flows'[cur] # flows[cur]
      PROVE  paid = cur
  BY <1>2, <1>7 DEF Cashflow, RecordCashflow, LedgerTypeOK
<1>. QED  BY <1>4, <1>5, <1>6, <1>7, FlowMoves

\* The seeded orders leave what they leave of the money.
LEMMA CashInit == BrokerInit => CashCovers
<1>. SUFFICES ASSUME BrokerInit, NEW cur \in Currency PROVE CashLeft(cur) >= 0
  BY DEF CashCovers
<1>. DEFINE f == [o \in OrderId |-> Money(o, cur)]
            g == [o \in OrderId |-> Leaves(o, cur)]
<1>1. BaseInv
  BY BaseInit
<1>2. ASSUME NEW o \in OrderId PROVE f[o] = g[o] /\ f[o] \in Int
  <2>1. /\ ~MayExecute(Attr[o].coid) /\ missed[o].cost = 0 /\ reserved[Attr[o].coid].amount = 0
        /\ exch[o].cost = fills[o].cost /\ exch[o].settles = fills[o].settles
    <3>1. Attr[o].coid \in Coid /\ NoReservation.amount = 0
      BY Pairing DEF NoReservation
    <3>2. reserved[Attr[o].coid].amount = 0
      BY <3>1 DEF BrokerInit
    <3>. QED  BY <3>2, SeededOrders DEF NothingMissed, NoExecution
  <2>2. exch[o].cost \in Nat
    BY <1>1, OrderTypes
  <2>3. Takes(o) = exch[o].cost /\ Spent(o) = exch[o].cost
    BY <2>1, <2>2 DEF Takes, KeptFor, Spent
  <2>4. Leaves(o, cur) = Money(o, cur)
    BY <2>1, <2>2, <2>3 DEF Leaves, Money
  <2>. QED  BY <1>1, <2>4, MoneyType
<1>3. CashLeft(cur) = Allocated(cur) + flows[cur] + SumFunctionOnSet(g, OrderId)
  BY DEF CashLeft
<1>4. Allocated(cur) + flows[cur] + SumFunctionOnSet(f, OrderId) >= 0
  BY MoneyInit DEF MoneyCovers
<1>. HIDE DEF f, g
<1>5. SumFunctionOnSet(f, OrderId) = SumFunctionOnSet(g, OrderId)
  BY <1>2, ConstantTypes, SumAgree
<1>. QED  BY <1>3, <1>4, <1>5

\* So the cash that is available is short by no more than the fees and what cancel() missed.
LEMMA CoverBoundsShortage ==
  ASSUME BaseInv, ClosedInv, SharesInv, CashCovers
  PROVE  ShortOnlyByFees
<1>. SUFFICES ASSUME NEW cur \in Currency PROVE Available(cur) + SettledFees(cur) + MissedCost(cur) >= 0
  BY DEF ShortOnlyByFees
<1>. DEFINE free == [o \in OrderId |-> Free(o, cur)]
            fees == [o \in OrderId |-> IF Attr[o].currency = cur /\ ~Unsettled(o, cur) THEN fills[o].fee ELSE 0]
            missing == [o \in OrderId |-> IF Buying(o, cur) THEN missed[o].cost ELSE 0]
            leaves == [o \in OrderId |-> Leaves(o, cur)]
            unpaid == [o \in OrderId |-> leaves[o] - fees[o]]
            short == [o \in OrderId |-> unpaid[o] - missing[o]]
<1>1. ASSUME NEW o \in OrderId
      PROVE  /\ free[o] \in Int /\ fees[o] \in Int /\ missing[o] \in Int /\ leaves[o] \in Int
             /\ leaves[o] <= free[o] + fees[o] + missing[o]
  <2>1. Accounted(Attr[o].coid)
    BY Pairing DEF SharesInv
  <2>2. fills[o].fee \in Int /\ missed[o].cost \in Int
    BY OrderTypes
  <2>. QED  BY <2>1, <2>2, FreeType, LeavesType, LeavesBetween
<1>2. \A o \in OrderId : unpaid[o] = leaves[o] - fees[o] /\ short[o] = unpaid[o] - missing[o]
  OBVIOUS
<1>3. /\ Available(cur) = Allocated(cur) + flows[cur] + SumFunctionOnSet(free, OrderId)
      /\ SettledFees(cur) = SumFunctionOnSet(fees, OrderId) /\ MissedCost(cur) = SumFunctionOnSet(missing, OrderId)
      /\ CashLeft(cur) = Allocated(cur) + flows[cur] + SumFunctionOnSet(leaves, OrderId) /\ CashLeft(cur) >= 0
  BY AvailableByOrder DEF ClosedInv, SettledFees, MissedCost, CashLeft, CashCovers
<1>4. flows[cur] \in Int /\ Allocated(cur) \in Int /\ IsFiniteSet(OrderId)
  BY ConstantTypes DEF BaseInv, BrokerTypeOK, LedgerTypeOK, Allocated
<1>. HIDE DEF free, fees, missing, leaves, unpaid, short
<1>5. \A o \in OrderId : unpaid[o] \in Int /\ short[o] \in Int /\ short[o] <= free[o]
  BY <1>1, <1>2
<1>6. /\ SumFunctionOnSet(free, OrderId) \in Int /\ SumFunctionOnSet(fees, OrderId) \in Int
      /\ SumFunctionOnSet(missing, OrderId) \in Int /\ SumFunctionOnSet(leaves, OrderId) \in Int
  BY <1>1, <1>4, SumType
<1>7. SumFunctionOnSet(unpaid, OrderId) = SumFunctionOnSet(leaves, OrderId) - SumFunctionOnSet(fees, OrderId)
  BY <1>1, <1>2, <1>4, <1>5, SumDifference
<1>8. SumFunctionOnSet(short, OrderId) = SumFunctionOnSet(unpaid, OrderId) - SumFunctionOnSet(missing, OrderId)
  BY <1>1, <1>2, <1>4, <1>5, SumDifference
<1>9. SumFunctionOnSet(short, OrderId) <= SumFunctionOnSet(free, OrderId)
  BY <1>1, <1>4, <1>5, SumMonotone
<1>. QED  BY <1>3, <1>4, <1>6, <1>7, <1>8, <1>9

\* The cash that place() reserves from is never short by more than the settled fees and what
\* cancel() missed, however many orders reserve, trade, end and are polled late, in any order:
\* a poll takes its principal from what was kept for the order. (apply_fill, available)
THEOREM CashShortOnlyByFees ==
  ASSUME Faithful, Prompt
  PROVE  BrokerSpec => []ShortOnlyByFees
<1>1. BrokerInit => BaseInv /\ ClosedInv /\ GuardInv /\ SharesInv /\ MoneyInv /\ CashCovers
  BY BaseInit, ClosedInit, GuardInit, AccountedInit, SharesInit, DatesInit, MoneyInit, CashInit
  DEF SharesInv, MoneyInv
<1>2. BaseInv /\ ClosedInv /\ GuardInv /\ SharesInv /\ MoneyInv /\ CashCovers /\ [BrokerNext]_vars
        => BaseInv' /\ ClosedInv' /\ GuardInv' /\ SharesInv' /\ MoneyInv' /\ CashCovers'
  BY BaseStep, ClosedStep, GuardStep, SharesInvStep, MoneyInvStep, CashStep
<1>3. BaseInv /\ ClosedInv /\ SharesInv /\ CashCovers => ShortOnlyByFees
  BY CoverBoundsShortage
<1>. QED  BY <1>1, <1>2, <1>3, PTL DEF BrokerSpec
===============================================================================

---------------------------- MODULE LedgerTxnProofs ----------------------------
(***************************************************************************)
(* That a transaction is one operation of SleeveLedger, for any number of  *)
(* connections, orders and calls, wherever it is interrupted; that every   *)
(* statement keeps the types, and that a call that raised leaves nothing.  *)
(***************************************************************************)
EXTENDS LedgerTxn, SumTheorems

\* No COMMIT raises where the code does not roll back: in the else branch of _immediate()
\* and in release().
CommitsRollBack == CommitFails \subseteq {"record_order", "mark_order_terminal"}

\* A sale brings in no less than its commission and tax.
SalesPay == \A x \in Execution : x.fee <= x.cost

\* The tables after the statements before the n-th, as the program has them, and the ones
\* at the end.
CashSettled(d, op)     == WriteCash(d, op)
ReservationCut(d, op)  == WriteReservation(CashSettled(d, op), op)
FillStored(d, op)      == WriteFill(ReservationCut(d, op), op)

\* What a connection sees of the tables d when it comes to its n-th statement.
SeesAt(d, op, n) ==
  IF op.name \in {"reserve", "reserve_sell"}
  THEN IF n = 3 THEN IF op.name = "reserve" THEN WriteReservation(d, op) ELSE WriteOrderRow(d, op)
       ELSE d
  ELSE IF op.name = "release" THEN IF n = 2 THEN Unreserve(d, op) ELSE d
  ELSE IF op.name = "record_order" THEN IF n = 2 THEN WriteOrderRow(d, op) ELSE d
  ELSE IF op.name = "mark_order_terminal"
  THEN IF n = 1 THEN d ELSE IF n = 2 THEN WriteStatus(d, op) ELSE Unreserve(WriteStatus(d, op), op)
  ELSE IF op.name = "record_cashflow"
  THEN IF n = 1 THEN d ELSE IF n = 2 THEN WriteCash(d, op) ELSE WriteFlow(WriteCash(d, op), op)
  ELSE IF n <= 2 THEN d ELSE IF n = 3 THEN CashSettled(d, op) ELSE IF n = 4 THEN ReservationCut(d, op)
  ELSE IF n = 5 THEN FillStored(d, op) ELSE WriteStatus(FillStored(d, op), op)

Decided(op, n) ==
  op.name \in {"reserve", "reserve_sell", "apply_fill"} /\ n > 1 => Decides(db, op)

\* A transaction that runs has the lock, no write of a call that raised, and the tables as
\* they were when it began with what its statements wrote, and its decision still holds.
Progress(p) ==
  LET op == txn[p].call
      n  == txn[p].next
  IN  /\ op \in Operation /\ MayCall(op)
      /\ n \in 1 .. Len(Program[op.name]) + 1
      /\ txn[p].view = SeesAt(db, op, n)
      /\ Decided(op, n)

Connected(p) ==
  /\ lock = p => Open(p) /\ txn[p].call # NoCall /\ Progress(p)
  /\ Open(p) /\ lock # p => txn[p].call = NoCall
  /\ Open(p) => /\ txn[p].raised = FALSE
                /\ txn[p] = [call |-> txn[p].call, next |-> txn[p].next,
                             view |-> txn[p].view, raised |-> txn[p].raised]

\* The rows of the tables d. (_SCHEMA)
Typed(d) ==
  /\ d = [cash |-> d.cash, reserved |-> d.reserved, orders |-> d.orders,
          fills |-> d.fills, flows |-> d.flows]
  /\ d.cash \in [Currency -> Int]
  /\ d.reserved \in [Coid -> Ledger!Reservation \cup {Ledger!NoReservation}]
  /\ d.orders \in [Coid -> Ledger!OrderRow \cup {Ledger!NoOrder}]
  /\ d.fills \in [OrderId -> Execution \cup {Ledger!NoExecution}]
  /\ d.flows \in [Currency -> Int]

TablesOK == Typed(db) /\ today \in Nat

TxnInv ==
  /\ TablesOK
  /\ lock \in Conn \cup {NoConn}
  /\ txn = [p \in Conn |-> txn[p]]
  /\ \A p \in Conn : Connected(p)

-------------------------------------------------------------------------------
\* What each call has as its arguments.
LEMMA Calls ==
  \A op \in Operation :
    /\ op.name = "reserve" => op.coid \in Coid /\ op.currency \in Currency /\ op.amount \in Amount
    /\ op.name = "release" => op.coid \in Coid
    /\ op.name = "record_order" => op.order \in OrderId /\ op.qty \in Qty
    /\ op.name = "reserve_sell" => op.order \in OrderId /\ Attr[op.order].side = "sell" /\ op.qty \in Qty
    /\ op.name = "mark_order_terminal" => op.coid \in Coid /\ op.status \in Ledger!TerminalStatus
    /\ op.name = "apply_fill" => op.order \in OrderId /\ op.snapshot \in Execution
    /\ op.name = "record_cashflow" => op.currency \in Currency /\ op.amount \in FlowAmount
    /\ op.name \in {"reserve", "release", "record_order", "reserve_sell", "mark_order_terminal",
                    "apply_fill", "record_cashflow"}
    /\ op # NoCall
BY DEF Operation, NoCall

\* A connection that has begun a transaction is open.
LEMMA OpenIs ==
  \A op \in Operation \cup {NoCall} : \A r :
    r = [call |-> op, next |-> r.next, view |-> r.view, raised |-> r.raised] => r # NoTxn
<1>1. \A op \in Operation \cup {NoCall} : op.name # "closed"
  BY Calls DEF NoCall
<1>. QED  BY <1>1 DEF NoTxn

\* The fold of the instances is the fold.
LEMMA SumOfTables ==
  ASSUME NEW d, NEW f, NEW S
  PROVE  Tables(d)!SumFunctionOnSet(f, S) = SumFunctionOnSet(f, S)
BY DEF SumFunctionOnSet, FoldFunctionOnSet, MapThenFoldSet, Tables!SumFunctionOnSet,
       Tables!FoldFunctionOnSet, Tables!MapThenFoldSet

\* So is the one of the instance on the committed tables.
LEMMA SumOfLedger ==
  ASSUME NEW f, NEW S
  PROVE  Ledger!SumFunctionOnSet(f, S) = SumFunctionOnSet(f, S)
BY DEF SumFunctionOnSet, FoldFunctionOnSet, MapThenFoldSet, Ledger!SumFunctionOnSet,
       Ledger!FoldFunctionOnSet, Ledger!MapThenFoldSet

\* reserve() decides on what it sees as it would on the tables.
LEMMA SameGrant ==
  ASSUME NEW c, NEW cur, NEW amount
  PROVE  Tables(db)!CanReserve(c, cur, amount) = Ledger!CanReserve(c, cur, amount)
BY SumOfTables, SumOfLedger
   DEF Tables!CanReserve, Ledger!CanReserve, Tables!Available, Ledger!Available, Tables!HeldBy,
       Ledger!HeldBy, Tables!ReservedTotal, Ledger!ReservedTotal, Tables!SettlementPending,
       Ledger!SettlementPending, Tables!Unsettled, Ledger!Unsettled, Tables!SignedCash,
       Ledger!SignedCash, Tables!NoReservation, Ledger!NoReservation

\* So does reserve_sell().
LEMMA SameSale ==
  ASSUME NEW c, NEW s, NEW qty
  PROVE  Tables(db)!CanSell(c, s, qty) = Ledger!CanSell(c, s, qty)
BY SumOfTables, SumOfLedger
   DEF Tables!CanSell, Ledger!CanSell, Tables!SellAvailability, Ledger!SellAvailability,
       Tables!Position, Ledger!Position, Tables!OpenSellQty, Ledger!OpenSellQty, Tables!AtLeast0,
       Ledger!AtLeast0, Tables!IsOpenSell, Ledger!IsOpenSell, Tables!FilledOf, Ledger!FilledOf,
       Tables!OpenStatus, Ledger!OpenStatus

-------------------------------------------------------------------------------
\* The statements of each call.
LEMMA Programs ==
  /\ Program["reserve"] = <<"decide", "reservation">>
  /\ Program["release"] = <<"unreserve">>
  /\ Program["record_order"] = <<"order">>
  /\ Program["reserve_sell"] = <<"decide", "order">>
  /\ Program["mark_order_terminal"] = <<"status", "unreserve">>
  /\ Program["apply_fill"] = <<"decide", "cash", "reservation", "fill", "status">>
  /\ Program["record_cashflow"] = <<"cash", "flow">>
BY DEF Program

\* One more statement takes what a connection sees to what it sees next.
LEMMA NextStatement ==
  ASSUME NEW op \in Operation, NEW n \in 1 .. Len(Program[op.name]), NEW d
  PROVE  /\ SeesAt(d, op, n + 1) = Written(SeesAt(d, op, n), op, Program[op.name][n])
         /\ Program[op.name][n] = "decide" => SeesAt(d, op, n) = d
         /\ op.name \in {"reserve", "reserve_sell", "apply_fill"} /\ n = 1 => Program[op.name][n] = "decide"
         /\ SeesAt(d, op, 1) = d
<1>1. CASE op.name = "reserve"
  <2>1. Program[op.name] = <<"decide", "reservation">> /\ n \in 1 .. 2
    BY <1>1, Programs
  <2>. QED  BY <1>1, <2>1 DEF SeesAt, Written
<1>2. CASE op.name = "release"
  <2>1. Program[op.name] = <<"unreserve">> /\ n = 1
    BY <1>2, Programs
  <2>. QED  BY <1>2, <2>1 DEF SeesAt, Written
<1>3. CASE op.name = "record_order"
  <2>1. Program[op.name] = <<"order">> /\ n = 1
    BY <1>3, Programs
  <2>. QED  BY <1>3, <2>1 DEF SeesAt, Written
<1>4. CASE op.name = "reserve_sell"
  <2>1. Program[op.name] = <<"decide", "order">> /\ n \in 1 .. 2
    BY <1>4, Programs
  <2>. QED  BY <1>4, <2>1 DEF SeesAt, Written
<1>5. CASE op.name = "mark_order_terminal"
  <2>1. Program[op.name] = <<"status", "unreserve">> /\ n \in 1 .. 2
    BY <1>5, Programs
  <2>. QED  BY <1>5, <2>1 DEF SeesAt, Written
<1>6. CASE op.name = "apply_fill"
  <2>1. /\ Program[op.name] = <<"decide", "cash", "reservation", "fill", "status">>
        /\ n \in 1 .. 5
    BY <1>6, Programs
  <2>. QED  BY <1>6, <2>1 DEF SeesAt, Written, CashSettled, ReservationCut, FillStored
<1>7. CASE op.name = "record_cashflow"
  <2>1. Program[op.name] = <<"cash", "flow">> /\ n \in 1 .. 2
    BY <1>7, Programs
  <2>. QED  BY <1>7, <2>1 DEF SeesAt, Written
<1>. QED  BY <1>1, <1>2, <1>3, <1>4, <1>5, <1>6, <1>7, Calls

\* What the tables are after the last statement.
LEMMA AtTheEnd ==
  ASSUME NEW op \in Operation, NEW d, NEW n, n = Len(Program[op.name]) + 1
  PROVE  LET v == SeesAt(d, op, n)
         IN  /\ op.name = "reserve" => v = WriteReservation(d, op) /\ n = 3
             /\ op.name = "release" => v = Unreserve(d, op)
             /\ op.name = "record_order" => v = WriteOrderRow(d, op)
             /\ op.name = "reserve_sell" => v = WriteOrderRow(d, op) /\ n = 3
             /\ op.name = "mark_order_terminal" => v = Unreserve(WriteStatus(d, op), op)
             /\ op.name = "apply_fill" => v = WriteStatus(FillStored(d, op), op) /\ n = 6
             /\ op.name = "record_cashflow" => v = WriteFlow(WriteCash(d, op), op)
<1>1. CASE op.name = "reserve"
  <2>1. n = 3 BY <1>1, Programs
  <2>. QED  BY <1>1, <2>1 DEF SeesAt
<1>2. CASE op.name = "release"
  <2>1. n = 2 BY <1>2, Programs
  <2>. QED  BY <1>2, <2>1 DEF SeesAt
<1>3. CASE op.name = "record_order"
  <2>1. n = 2 BY <1>3, Programs
  <2>. QED  BY <1>3, <2>1 DEF SeesAt
<1>4. CASE op.name = "reserve_sell"
  <2>1. n = 3 BY <1>4, Programs
  <2>. QED  BY <1>4, <2>1 DEF SeesAt
<1>5. CASE op.name = "mark_order_terminal"
  <2>1. n = 3 BY <1>5, Programs
  <2>. QED  BY <1>5, <2>1 DEF SeesAt
<1>6. CASE op.name = "apply_fill"
  <2>1. n = 6 BY <1>6, Programs
  <2>. QED  BY <1>6, <2>1 DEF SeesAt
<1>7. CASE op.name = "record_cashflow"
  <2>1. n = 3 BY <1>7, Programs
  <2>. QED  BY <1>7, <2>1 DEF SeesAt
<1>. QED  BY <1>1, <1>2, <1>3, <1>4, <1>5, <1>6, <1>7, Calls

-------------------------------------------------------------------------------
\* Each call that commits is its operation of SleeveLedger.
LEMMA ReserveCommits ==
  ASSUME TablesOK, NEW op \in Operation, op.name = "reserve", Decides(db, op),
         db' = WriteReservation(db, op), today' = today
  PROVE  Ledger!LedgerNext /\ TablesOK'
<1>1. op.coid \in Coid /\ op.currency \in Currency /\ op.amount \in Amount /\ op.amount \in Nat
  BY Calls, TxnAssumption
<1>2. Ledger!CanReserve(op.coid, op.currency, op.amount)
  BY SameGrant DEF Decides
<1>. DEFINE grant == [currency |-> op.currency, amount |-> op.amount]
<1>3. db' = [db EXCEPT !.reserved[op.coid] = grant]
  BY DEF WriteReservation
<1>. HIDE DEF grant
<1>4. /\ db'.reserved = [db.reserved EXCEPT ![op.coid] = grant]
      /\ db'.cash = db.cash /\ db'.orders = db.orders /\ db'.fills = db.fills /\ db'.flows = db.flows
      /\ db' = [cash |-> db'.cash, reserved |-> db'.reserved, orders |-> db'.orders,
                fills |-> db'.fills, flows |-> db'.flows]
  BY <1>3 DEF TablesOK, Typed
<1>5. Ledger!Reserve(op.coid, op.currency, op.amount)
  BY <1>2, <1>4 DEF Ledger!Reserve, grant
<1>6. grant \in Ledger!Reservation
  BY <1>1 DEF grant, Ledger!Reservation
<1>. QED  BY <1>1, <1>4, <1>5, <1>6 DEF Ledger!LedgerNext, TablesOK, Typed

\* release() drops the reservation.
LEMMA ReleaseCommits ==
  ASSUME TablesOK, NEW op \in Operation, op.name = "release",
         db' = Unreserve(db, op), today' = today
  PROVE  Ledger!LedgerNext /\ TablesOK'
<1>1. op.coid \in Coid
  BY Calls
<1>2. /\ db'.reserved = [db.reserved EXCEPT ![op.coid] = Ledger!NoReservation]
      /\ db'.cash = db.cash /\ db'.orders = db.orders /\ db'.fills = db.fills /\ db'.flows = db.flows
      /\ db' = [cash |-> db'.cash, reserved |-> db'.reserved, orders |-> db'.orders,
                fills |-> db'.fills, flows |-> db'.flows]
  BY DEF Unreserve, TablesOK, Typed
<1>3. Ledger!Release(op.coid)
  BY <1>2 DEF Ledger!Release
<1>. QED  BY <1>1, <1>2, <1>3 DEF Ledger!LedgerNext, TablesOK, Typed

\* The row that an upsert writes.
LEMMA RowWritten ==
  ASSUME TablesOK, NEW op \in Operation, op.name \in {"record_order", "reserve_sell"},
         db' = WriteOrderRow(db, op), today' = today
  PROVE  /\ db'.orders = Ledger!WriteOrder(Attr[op.order].coid,
                            IF op.name = "record_order" THEN op.order ELSE NoId,
                            Attr[op.order].symbol, Attr[op.order].side, Attr[op.order].currency, op.qty)
         /\ UNCHANGED <<db.cash, db.reserved, db.fills, db.flows>>
         /\ TablesOK'
<1>. DEFINE a   == Attr[op.order]
            id  == IF op.name = "record_order" THEN op.order ELSE NoId
            row == [status |-> "pending",
                    orderId |-> IF id = NoId /\ db.orders[a.coid] # Ledger!NoOrder
                                THEN db.orders[a.coid].orderId ELSE id,
                    symbol |-> a.symbol, side |-> a.side, currency |-> a.currency, qty |-> op.qty]
<1>1. op.order \in OrderId /\ op.qty \in Nat
  BY Calls, TxnAssumption
<1>2. /\ a.coid \in Coid /\ a.symbol \in Symbol /\ a.side \in Ledger!Side /\ a.currency \in Currency
      /\ id \in OrderId \cup {NoId}
  BY <1>1, TxnAssumption
<1>3. Ledger!WriteOrder(a.coid, id, a.symbol, a.side, a.currency, op.qty)
        = [db.orders EXCEPT ![a.coid] = row]
  BY DEF Ledger!WriteOrder
<1>4. Tables(db)!WriteOrder(a.coid, id, a.symbol, a.side, a.currency, op.qty)
        = [db.orders EXCEPT ![a.coid] = row]
  BY DEF Tables!WriteOrder, Tables!NoOrder, Ledger!NoOrder
<1>5. db' = [db EXCEPT !.orders = [db.orders EXCEPT ![a.coid] = row]]
  BY <1>4 DEF WriteOrderRow
<1>6. row \in Ledger!OrderRow
  <2>1. db.orders[a.coid] # Ledger!NoOrder => db.orders[a.coid].orderId \in OrderId \cup {NoId}
    BY <1>2 DEF TablesOK, Typed, Ledger!OrderRow
  <2>. QED  BY <1>1, <1>2, <2>1 DEF Ledger!OrderRow, Ledger!OpenStatus
<1>. HIDE DEF row
<1>7. /\ db'.orders = [db.orders EXCEPT ![a.coid] = row]
      /\ db'.cash = db.cash /\ db'.reserved = db.reserved /\ db'.fills = db.fills /\ db'.flows = db.flows
      /\ db' = [cash |-> db'.cash, reserved |-> db'.reserved, orders |-> db'.orders,
                fills |-> db'.fills, flows |-> db'.flows]
  BY <1>5 DEF TablesOK, Typed
<1>8. TablesOK'
  BY <1>2, <1>6, <1>7 DEF TablesOK, Typed
<1>. QED  BY <1>3, <1>7, <1>8

\* record_order() is a row with its order id.
LEMMA RecordOrderCommits ==
  ASSUME TablesOK, NEW op \in Operation, op.name = "record_order",
         db' = WriteOrderRow(db, op), today' = today
  PROVE  Ledger!LedgerNext /\ TablesOK'
<1>. DEFINE a == Attr[op.order]
<1>1. op.order \in OrderId /\ op.qty \in Qty /\ op.order # NoId
  BY Calls, TxnAssumption
<1>2. Ledger!RecordOrder(a.coid, op.order, a.symbol, a.side, a.currency, op.qty) /\ TablesOK'
  BY RowWritten DEF Ledger!RecordOrder
<1>3. Ledger!RecordOrder(a.coid, IF FALSE THEN NoId ELSE op.order, a.symbol, a.side, a.currency, op.qty)
  BY <1>2
<1>. QED  BY <1>1, <1>2, <1>3 DEF Ledger!LedgerNext

\* reserve_sell() is a row without one, after its decision.
LEMMA ReserveSellCommits ==
  ASSUME TablesOK, NEW op \in Operation, op.name = "reserve_sell", Decides(db, op),
         db' = WriteOrderRow(db, op), today' = today
  PROVE  Ledger!LedgerNext /\ TablesOK'
<1>. DEFINE a == Attr[op.order]
<1>1. op.order \in OrderId /\ op.qty \in Qty /\ a.side = "sell"
  BY Calls
<1>2. Ledger!CanSell(a.coid, a.symbol, op.qty)
  BY SameSale DEF Decides
<1>3. Ledger!ReserveSell(a.coid, a.symbol, a.currency, op.qty) /\ TablesOK'
  BY <1>1, <1>2, RowWritten DEF Ledger!ReserveSell
<1>. QED  BY <1>1, <1>3 DEF Ledger!LedgerNext

\* mark_order_terminal() closes a row that is there and drops its reservation.
LEMMA MarkCommits ==
  ASSUME TablesOK, NEW op \in Operation, op.name = "mark_order_terminal",
         db' = Unreserve(WriteStatus(db, op), op), today' = today
  PROVE  Ledger!LedgerNext /\ TablesOK'
<1>. DEFINE c == op.coid
            rows == IF db.orders[c] = Ledger!NoOrder THEN db.orders
                    ELSE [db.orders EXCEPT ![c].status = op.status]
<1>1. c \in Coid /\ op.status \in Ledger!TerminalStatus
  BY Calls
<1>2. WriteStatus(db, op) = [db EXCEPT !.orders = rows]
  <2>1. CASE db.orders[c] = Ledger!NoOrder
    <3>1. WriteStatus(db, op) = db
      BY <2>1 DEF WriteStatus
    <3>. QED  BY <2>1, <3>1 DEF TablesOK, Typed
  <2>2. CASE db.orders[c] # Ledger!NoOrder
    BY <2>2 DEF WriteStatus
  <2>. QED  BY <2>1, <2>2
<1>3. rows \in [Coid -> Ledger!OrderRow \cup {Ledger!NoOrder}]
  <2>1. CASE db.orders[c] # Ledger!NoOrder
    <3>1. db.orders[c] \in Ledger!OrderRow
      BY <1>1, <2>1 DEF TablesOK, Typed
    <3>2. [db.orders[c] EXCEPT !.status = op.status] \in Ledger!OrderRow
      BY <1>1, <3>1 DEF Ledger!OrderRow
    <3>. QED  BY <1>1, <2>1, <3>2 DEF TablesOK, Typed
  <2>. QED  BY <2>1 DEF TablesOK, Typed
<1>4. Ledger!MarkOrderTerminal(c, op.status)
        = ( /\ db'.orders = rows
            /\ db'.reserved = [db.reserved EXCEPT ![c] = Ledger!NoReservation]
            /\ db'.cash = db.cash /\ db'.fills = db.fills /\ db'.flows = db.flows /\ today' = today)
  BY DEF Ledger!MarkOrderTerminal
<1>. HIDE DEF rows
<1>5. /\ db'.orders = rows
      /\ db'.reserved = [db.reserved EXCEPT ![c] = Ledger!NoReservation]
      /\ db'.cash = db.cash /\ db'.fills = db.fills /\ db'.flows = db.flows
      /\ db' = [cash |-> db'.cash, reserved |-> db'.reserved, orders |-> db'.orders,
                fills |-> db'.fills, flows |-> db'.flows]
  BY <1>2 DEF Unreserve, TablesOK, Typed
<1>6. TablesOK'
  BY <1>1, <1>3, <1>5 DEF TablesOK, Typed
<1>7. Ledger!MarkOrderTerminal(c, op.status)
  BY <1>4, <1>5
<1>. QED  BY <1>1, <1>6, <1>7 DEF Ledger!LedgerNext

\* record_cashflow() moves the cash of one currency.
LEMMA CashflowCommits ==
  ASSUME TablesOK, NEW op \in Operation, op.name = "record_cashflow", MayCall(op),
         db' = WriteFlow(WriteCash(db, op), op), today' = today
  PROVE  Ledger!LedgerNext /\ TablesOK'
<1>1. /\ op.currency \in Currency /\ op.amount \in FlowAmount /\ op.amount \in Int
      /\ db.flows[op.currency] + op.amount \in FlowTotal
  BY Calls, TxnAssumption DEF MayCall
<1>2. /\ db'.cash = [db.cash EXCEPT ![op.currency] = @ + op.amount]
      /\ db'.flows = [db.flows EXCEPT ![op.currency] = @ + op.amount]
      /\ db'.reserved = db.reserved /\ db'.fills = db.fills /\ db'.orders = db.orders
      /\ db' = [cash |-> db'.cash, reserved |-> db'.reserved, orders |-> db'.orders,
                fills |-> db'.fills, flows |-> db'.flows]
  BY DEF WriteCash, WriteFlow, TablesOK, Typed
<1>3. Ledger!RecordCashflow(op.currency, op.amount)
  BY <1>2 DEF Ledger!RecordCashflow
<1>4. TablesOK'
  BY <1>1, <1>2 DEF TablesOK, Typed
<1>. QED  BY <1>1, <1>3, <1>4 DEF Ledger!LedgerNext

\* A snapshot is settled in four writes, and leaves the tables as apply_fill does.
LEMMA ApplyFillCommits ==
  ASSUME TablesOK, NEW op \in Operation, op.name = "apply_fill", Decides(db, op),
         db' = WriteStatus(FillStored(db, op), op), today' = today
  PROVE  Ledger!LedgerNext /\ TablesOK'
<1>. DEFINE o == op.order
            x == op.snapshot
            c == Attr[o].coid
            money == Ledger!CashAfterFill(o, x)
            left  == IF Attr[o].named /\ Attr[o].side = "buy" /\ db.reserved[c] # Ledger!NoReservation
                     THEN [db.reserved EXCEPT ![c] = Ledger!ReservationAfterFill(c, o, x)]
                     ELSE db.reserved
            rows  == IF Attr[o].named /\ db.orders[c] # Ledger!NoOrder
                     THEN [db.orders EXCEPT ![c].status = Ledger!FillStatus(c, x)] ELSE db.orders
            seen  == [db.fills EXCEPT ![o] = x]
            d1 == CashSettled(db, op)
            d2 == ReservationCut(db, op)
            d3 == FillStored(db, op)
<1>1. o \in OrderId /\ x \in Execution /\ x \in Ledger!Snapshot /\ c \in Coid /\ Attr[o].currency \in Currency
  BY Calls, TxnAssumption
<1>2. x.qty >= db.fills[o].qty /\ ~Ledger!SameExecution(db.fills[o], x)
  BY DEF Decides, Tables!SameExecution, Ledger!SameExecution
<1>3. d1 = [db EXCEPT !.cash = money]
  BY DEF CashSettled, WriteCash, Tables!CashAfterFill, Ledger!CashAfterFill, Tables!SignedCash,
         Ledger!SignedCash
<1>. HIDE DEF money
<1>4. /\ d1.reserved = db.reserved /\ d1.fills = db.fills /\ d1.orders = db.orders
      /\ d1.cash = money /\ d1.flows = db.flows
      /\ d1 = [cash |-> d1.cash, reserved |-> d1.reserved, orders |-> d1.orders,
               fills |-> d1.fills, flows |-> d1.flows]
  BY <1>3 DEF TablesOK, Typed
<1>. HIDE DEF d1
<1>5. Tables(d1)!ReservationAfterFill(c, o, x) = Ledger!ReservationAfterFill(c, o, x)
  BY <1>4 DEF Tables!ReservationAfterFill, Ledger!ReservationAfterFill, Tables!Complete,
              Ledger!Complete, Tables!RecordedQty, Ledger!RecordedQty, Tables!NoOrder,
              Ledger!NoOrder, Tables!NoReservation, Ledger!NoReservation
<1>6. d2 = [d1 EXCEPT !.reserved = left]
  <2>1. d2 = IF Attr[o].named /\ Attr[o].side = "buy" /\ d1.reserved[c] # Ledger!NoReservation
             THEN [d1 EXCEPT !.reserved[c] = Tables(d1)!ReservationAfterFill(c, o, x)] ELSE d1
    BY DEF ReservationCut, WriteReservation, d1
  <2>2. CASE Attr[o].named /\ Attr[o].side = "buy" /\ db.reserved[c] # Ledger!NoReservation
    BY <1>4, <1>5, <2>1, <2>2
  <2>3. CASE ~(Attr[o].named /\ Attr[o].side = "buy" /\ db.reserved[c] # Ledger!NoReservation)
    BY <1>4, <2>1, <2>3
  <2>. QED  BY <2>2, <2>3
<1>7. left \in [Coid -> Ledger!Reservation \cup {Ledger!NoReservation}]
  <2>1. CASE db.reserved[c] = Ledger!NoReservation
    BY <2>1 DEF TablesOK, Typed
  <2>2. CASE db.reserved[c] # Ledger!NoReservation
    <3>1. db.reserved[c] \in Ledger!Reservation
      BY <1>1, <2>2 DEF TablesOK, Typed
    <3>2. x.cost \in Nat /\ db.fills[o].cost \in Nat
      BY <1>1, TxnAssumption DEF TablesOK, Typed, Ledger!Snapshot, Ledger!NoExecution
    <3>3. Ledger!ReservationAfterFill(c, o, x) \in Ledger!Reservation \cup {Ledger!NoReservation}
      BY <3>1, <3>2 DEF Ledger!ReservationAfterFill, Ledger!Reservation
    <3>. QED  BY <1>1, <3>3 DEF TablesOK, Typed
  <2>. QED  BY <2>1, <2>2
<1>. HIDE DEF left
<1>8. /\ d2.reserved = left /\ d2.fills = db.fills /\ d2.orders = db.orders
      /\ d2.cash = money /\ d2.flows = db.flows
      /\ d2 = [cash |-> d2.cash, reserved |-> d2.reserved, orders |-> d2.orders,
               fills |-> d2.fills, flows |-> d2.flows]
  BY <1>4, <1>6
<1>. HIDE DEF d2
<1>9. /\ d3.reserved = left /\ d3.fills = seen /\ d3.orders = db.orders
      /\ d3.cash = money /\ d3.flows = db.flows
      /\ d3 = [cash |-> d3.cash, reserved |-> d3.reserved, orders |-> d3.orders,
               fills |-> d3.fills, flows |-> d3.flows]
  <2>1. d3 = [d2 EXCEPT !.fills[o] = x]
    BY DEF FillStored, WriteFill, d2
  <2>. QED  BY <1>8, <2>1
<1>. HIDE DEF seen
<1>10. db' = [d3 EXCEPT !.orders = rows]
  <2>1. Tables(d3)!FillStatus(c, x) = Ledger!FillStatus(c, x)
    BY <1>9 DEF Tables!FillStatus, Ledger!FillStatus, Tables!Complete, Ledger!Complete,
                Tables!RecordedQty, Ledger!RecordedQty, Tables!NoOrder, Ledger!NoOrder
  <2>2. db' = IF d3.orders[c] = Ledger!NoOrder \/ ~Attr[o].named THEN d3
              ELSE [d3 EXCEPT !.orders[c].status = Tables(d3)!FillStatus(c, x)]
    BY DEF WriteStatus, d3
  <2>. HIDE DEF d3
  <2>3. CASE db.orders[c] = Ledger!NoOrder \/ ~Attr[o].named
    BY <1>9, <2>2, <2>3
  <2>4. CASE db.orders[c] # Ledger!NoOrder /\ Attr[o].named
    BY <1>9, <2>1, <2>2, <2>4
  <2>. QED  BY <2>3, <2>4
<1>. HIDE DEF d3
<1>11. rows \in [Coid -> Ledger!OrderRow \cup {Ledger!NoOrder}]
  <2>1. CASE db.orders[c] # Ledger!NoOrder
    <3>1. db.orders[c] \in Ledger!OrderRow
      BY <1>1, <2>1 DEF TablesOK, Typed
    <3>2. Ledger!FillStatus(c, x) \in Ledger!OpenStatus \cup Ledger!TerminalStatus
      BY DEF Ledger!FillStatus, Ledger!OpenStatus, Ledger!TerminalStatus
    <3>3. [db.orders[c] EXCEPT !.status = Ledger!FillStatus(c, x)] \in Ledger!OrderRow
      BY <3>1, <3>2 DEF Ledger!OrderRow
    <3>. QED  BY <1>1, <2>1, <3>3 DEF TablesOK, Typed
  <2>. QED  BY <2>1 DEF TablesOK, Typed
<1>12. money \in [Currency -> Int]
  <2>1. /\ x.cost \in Nat /\ x.fee \in Nat
        /\ db.fills[o].cost \in Nat /\ db.fills[o].fee \in Nat
    BY <1>1, TxnAssumption DEF TablesOK, Typed, Ledger!Snapshot, Ledger!NoExecution
  <2>2. Ledger!SignedCash(o, x) \in Int /\ Ledger!SignedCash(o, db.fills[o]) \in Int
    BY <2>1 DEF Ledger!SignedCash
  <2>. QED  BY <1>1, <2>2 DEF TablesOK, Typed, money, Ledger!CashAfterFill
<1>13. Ledger!ApplyFill(o, x)
         = ( /\ x.qty >= db.fills[o].qty
             /\ ~Ledger!SameExecution(db.fills[o], x)
             /\ db'.cash = money /\ db'.reserved = left /\ db'.fills = seen /\ db'.orders = rows
             /\ db'.flows = db.flows /\ today' = today)
  BY DEF Ledger!ApplyFill, money, left, seen
<1>. HIDE DEF rows
<1>14. /\ db'.cash = money /\ db'.reserved = left /\ db'.fills = seen /\ db'.orders = rows
       /\ db'.flows = db.flows
       /\ db' = [cash |-> db'.cash, reserved |-> db'.reserved, orders |-> db'.orders,
                 fills |-> db'.fills, flows |-> db'.flows]
  BY <1>9, <1>10
<1>15. Ledger!ApplyFill(o, x)
  BY <1>2, <1>13, <1>14
<1>16. TablesOK'
  <2>1. seen \in [OrderId -> Execution \cup {Ledger!NoExecution}]
    BY <1>1 DEF TablesOK, Typed, seen
  <2>. QED  BY <1>7, <1>11, <1>12, <1>14, <2>1 DEF TablesOK, Typed
<1>. QED  BY <1>1, <1>15, <1>16 DEF Ledger!LedgerNext

-------------------------------------------------------------------------------
\* A decision reads the tables and the clock.
LEMMA TablesStill ==
  ASSUME NEW op, op.name \in {"reserve", "reserve_sell", "apply_fill"}, db' = db, today' = today
  PROVE  Decides(db, op)' = Decides(db, op)
BY DEF Decides, Tables!CanReserve, Tables!Available, Tables!HeldBy, Tables!ReservedTotal,
       Tables!SettlementPending, Tables!Unsettled, Tables!SignedCash, Tables!NoReservation,
       Tables!CanSell, Tables!SellAvailability, Tables!Position, Tables!OpenSellQty,
       Tables!AtLeast0, Tables!IsOpenSell, Tables!FilledOf, Tables!OpenStatus, Tables!SameExecution

\* What is available grows at midnight, for what settles then is not negative: a grant that
\* was decided before is one afterwards.
LEMMA GrantOverMidnight ==
  ASSUME SalesPay, TablesOK, NEW c \in Coid, NEW cur \in Currency, NEW amount \in Nat,
         Tables(db)!CanReserve(c, cur, amount), db' = db, today' = today + 1
  PROVE  Tables(db)!CanReserve(c, cur, amount)'
<1>. DEFINE proceeds(o) == IF Attr[o].side = "buy" THEN -(db.fills[o].cost + db.fills[o].fee)
                           ELSE db.fills[o].cost - db.fills[o].fee
            f == [o \in OrderId |->
                    IF Attr[o].side = "sell" /\ Attr[o].currency = cur /\ db.fills[o].settles > today
                    THEN proceeds(o) ELSE 0]
            g == [o \in OrderId |->
                    IF Attr[o].side = "sell" /\ Attr[o].currency = cur /\ db.fills[o].settles > today + 1
                    THEN proceeds(o) ELSE 0]
            own(d) == IF db.reserved[d] # Ledger!NoReservation /\ db.reserved[d].currency = cur
                      THEN db.reserved[d].amount ELSE 0
            held == [d \in Coid |-> own(d)]
<1>1. Tables(db)!CanReserve(c, cur, amount)
        <=> (amount <= db.cash[cur] - SumFunctionOnSet(held, Coid) - SumFunctionOnSet(f, OrderId) + own(c))
  BY SumOfTables
     DEF Tables!CanReserve, Tables!Available, Tables!HeldBy, Tables!ReservedTotal,
         Tables!SettlementPending, Tables!Unsettled, Tables!SignedCash, Tables!NoReservation,
         Ledger!NoReservation
<1>2. Tables(db)!CanReserve(c, cur, amount)'
        <=> (amount <= db.cash[cur] - SumFunctionOnSet(held, Coid) - SumFunctionOnSet(g, OrderId) + own(c))
  BY SumOfTables
     DEF Tables!CanReserve, Tables!Available, Tables!HeldBy, Tables!ReservedTotal,
         Tables!SettlementPending, Tables!Unsettled, Tables!SignedCash, Tables!NoReservation,
         Ledger!NoReservation
<1>3. \A d \in Coid : own(d) \in Int
  BY DEF TablesOK, Typed, Ledger!Reservation
<1>4. \A o \in OrderId : f[o] \in Int /\ g[o] \in Int /\ g[o] <= f[o]
  <2>. SUFFICES ASSUME NEW o \in OrderId PROVE f[o] \in Int /\ g[o] \in Int /\ g[o] <= f[o]
    OBVIOUS
  <2>1. /\ db.fills[o].cost \in Nat /\ db.fills[o].fee \in Nat /\ db.fills[o].settles \in Nat
        /\ db.fills[o].fee <= db.fills[o].cost
    BY TxnAssumption DEF TablesOK, Typed, Ledger!Snapshot, Ledger!NoExecution, SalesPay
  <2>2. Attr[o].side \in {"buy", "sell"} /\ today \in Nat
    BY TxnAssumption DEF Ledger!Side, TablesOK, Typed
  <2>. QED  BY <2>1, <2>2
<1>5. IsFiniteSet(Coid) /\ IsFiniteSet(OrderId)
  BY TxnAssumption
<1>6. db.cash[cur] \in Int /\ own(c) \in Int
  BY <1>3 DEF TablesOK, Typed
<1>. HIDE DEF f, g
<1>7. SumFunctionOnSet(held, Coid) \in Int
  <2>1. \A d \in Coid : held[d] \in Int
    BY <1>3
  <2>. HIDE DEF held
  <2>. QED  BY <1>5, <2>1, SumType
<1>8. /\ SumFunctionOnSet(f, OrderId) \in Int /\ SumFunctionOnSet(g, OrderId) \in Int
      /\ SumFunctionOnSet(g, OrderId) <= SumFunctionOnSet(f, OrderId)
  BY <1>4, <1>5, SumType, SumMonotone
<1>. HIDE DEF held, own
<1>9. amount <= db.cash[cur] - SumFunctionOnSet(held, Coid) - SumFunctionOnSet(f, OrderId) + own(c)
  BY <1>1
<1>10. amount <= db.cash[cur] - SumFunctionOnSet(held, Coid) - SumFunctionOnSet(g, OrderId) + own(c)
  BY <1>6, <1>7, <1>8, <1>9
<1>. QED  BY <1>2, <1>10, Zenon

\* The other decisions do not read the clock.
LEMMA DecisionHolds ==
  ASSUME SalesPay, TablesOK, NEW op \in Operation, op.name \in {"reserve", "reserve_sell", "apply_fill"},
         Decides(db, op), db' = db, today' \in {today, today + 1}
  PROVE  Decides(db, op)'
<1>1. CASE op.name = "reserve"
  <2>1. op.coid \in Coid /\ op.currency \in Currency /\ op.amount \in Nat
    BY <1>1, Calls, TxnAssumption
  <2>2. Tables(db)!CanReserve(op.coid, op.currency, op.amount)
    BY <1>1 DEF Decides
  <2>3. Tables(db)!CanReserve(op.coid, op.currency, op.amount)'
    <3>1. CASE today' = today + 1
      BY <2>1, <2>2, <3>1, GrantOverMidnight
    <3>2. CASE today' = today
      BY <2>2, <3>2
         DEF Tables!CanReserve, Tables!Available, Tables!HeldBy, Tables!ReservedTotal,
             Tables!SettlementPending, Tables!Unsettled, Tables!SignedCash, Tables!NoReservation
    <3>. QED  BY <3>1, <3>2
  <2>. QED  BY <1>1, <2>3 DEF Decides
<1>2. CASE op.name = "reserve_sell"
  <2>1. Tables(db)!CanSell(Attr[op.order].coid, Attr[op.order].symbol, op.qty)'
    BY <1>2
       DEF Decides, Tables!CanSell, Tables!SellAvailability, Tables!Position, Tables!OpenSellQty,
           Tables!AtLeast0, Tables!IsOpenSell, Tables!FilledOf, Tables!OpenStatus
  <2>. QED  BY <1>2, <2>1 DEF Decides
<1>3. CASE op.name = "apply_fill"
  BY <1>3 DEF Decides, Tables!SameExecution
<1>. QED  BY <1>1, <1>2, <1>3

-------------------------------------------------------------------------------
\* What commits at the end of its program is an operation of the ledger.
LEMMA CommitIsOperation ==
  ASSUME TablesOK, NEW p \in Conn, Progress(p), AtEnd(p), db' = txn[p].view, today' = today
  PROVE  Ledger!LedgerNext /\ TablesOK'
<1>. DEFINE op == txn[p].call
            n  == txn[p].next
<1>1. op \in Operation /\ MayCall(op) /\ Decided(op, n) /\ db' = SeesAt(db, op, n)
  BY DEF Progress
<1>2. n = Len(Program[op.name]) + 1
  <2>1. Len(Program[op.name]) \in Nat
    BY <1>1, Calls, Programs
  <2>. QED  BY <2>1 DEF Progress, AtEnd
<1>. HIDE DEF op, n
<1>3. CASE op.name = "reserve"
  BY <1>1, <1>2, <1>3, AtTheEnd, ReserveCommits DEF Decided
<1>4. CASE op.name = "release"
  BY <1>1, <1>2, <1>4, AtTheEnd, ReleaseCommits
<1>5. CASE op.name = "record_order"
  BY <1>1, <1>2, <1>5, AtTheEnd, RecordOrderCommits
<1>6. CASE op.name = "reserve_sell"
  BY <1>1, <1>2, <1>6, AtTheEnd, ReserveSellCommits DEF Decided
<1>7. CASE op.name = "mark_order_terminal"
  BY <1>1, <1>2, <1>7, AtTheEnd, MarkCommits
<1>8. CASE op.name = "apply_fill"
  BY <1>1, <1>2, <1>8, AtTheEnd, ApplyFillCommits DEF Decided
<1>9. CASE op.name = "record_cashflow"
  BY <1>1, <1>2, <1>9, AtTheEnd, CashflowCommits
<1>. QED  BY <1>1, <1>3, <1>4, <1>5, <1>6, <1>7, <1>8, <1>9, Calls

\* A connection without the lock has nothing to lose.
LEMMA Bystander ==
  ASSUME NEW q \in Conn, Connected(q), txn'[q] = txn[q], lock # q, lock' # q
  PROVE  Connected(q)'
BY DEF Connected, Open

\* A transaction keeps its progress while the clock goes on.
LEMMA Kept ==
  ASSUME SalesPay, TablesOK, NEW q \in Conn, Connected(q), txn'[q] = txn[q], (lock' = q) = (lock = q),
         db' = db, today' \in {today, today + 1}
  PROVE  Connected(q)'
<1>1. CASE lock = q
  <2>. DEFINE op == txn[q].call
              n  == txn[q].next
  <2>1. /\ op \in Operation /\ MayCall(op) /\ n \in 1 .. Len(Program[op.name]) + 1
        /\ txn[q].view = SeesAt(db, op, n) /\ Decided(op, n)
    BY <1>1 DEF Connected, Progress
  <2>2. op.name \in {"reserve", "reserve_sell", "apply_fill"} /\ n > 1 => Decides(db, op)'
    BY <2>1, DecisionHolds DEF Decided
  <2>3. Progress(q)'
    BY <2>1, <2>2 DEF Progress, Decided, MayCall
  <2>. QED  BY <1>1, <2>3 DEF Connected, Open
<1>2. CASE lock # q
  BY <1>2, Bystander
<1>. QED  BY <1>1, <1>2

\* The fields of a transaction.
LEMMA FieldsOf ==
  ASSUME NEW op, NEW n, NEW v, NEW b, NEW r, r = [call |-> op, next |-> n, view |-> v, raised |-> b]
  PROVE  /\ r.call = op /\ r.next = n /\ r.view = v /\ r.raised = b
         /\ r = [call |-> r.call, next |-> r.next, view |-> r.view, raised |-> r.raised]
OBVIOUS

\* What a step that leaves the tables alone has to show.
LEMMA Quiet ==
  ASSUME TxnInv, NEW p \in Conn, db' = db, today' = today,
         lock' \in Conn \cup {NoConn}, txn' = [txn EXCEPT ![p] = txn'[p]],
         Connected(p)', \A q \in Conn \ {p} : Connected(q)'
  PROVE  TxnInv' /\ UNCHANGED Ledger!ledgerVars
<1>1. TablesOK'
  BY DEF TxnInv, TablesOK, Typed
<1>2. txn' = [q \in Conn |-> txn'[q]]
  BY DEF TxnInv
<1>3. \A q \in Conn : Connected(q)'
  OBVIOUS
<1>. QED  BY <1>1, <1>2, <1>3 DEF TxnInv, Ledger!ledgerVars

\* A call begins on the committed tables: the lock was free.
LEMMA BeginsStep ==
  ASSUME TxnInv, NEW p \in Conn, NEW op \in Operation, Begins(p, op)
  PROVE  TxnInv' /\ UNCHANGED Ledger!ledgerVars
<1>1. /\ ~Running(p) /\ MayCall(op) /\ lock \in {NoConn, p} /\ lock' = p
      /\ db' = db /\ today' = today
      /\ txn' = [txn EXCEPT ![p] = [call |-> op, next |-> 1, view |-> View(p),
                                    raised |-> lock = p /\ txn[p].raised]]
  BY Zenon DEF Begins, GetsLock
<1>2. lock = NoConn
  BY <1>1 DEF TxnInv, Connected, Running
<1>3. txn'[p] = [call |-> op, next |-> 1, view |-> db, raised |-> FALSE]
  BY <1>1, <1>2, TxnAssumption DEF TxnInv, View
<1>4. Len(Program[op.name]) \in Nat /\ 1 \in 1 .. Len(Program[op.name])
  BY Calls, Programs
<1>5. SeesAt(db, op, 1) = db
  BY <1>4, NextStatement
<1>6. Progress(p)'
  <2>1. MayCall(op)'
    BY <1>1 DEF MayCall
  <2>. QED  BY <1>1, <1>3, <1>4, <1>5, <2>1 DEF Progress, Decided
<1>7. txn'[p] # NoTxn
  BY <1>3, OpenIs
<1>8. Connected(p)'
  BY <1>1, <1>3, <1>6, <1>7, Calls DEF Connected, Open
<1>9. \A q \in Conn \ {p} : Connected(q)'
  BY <1>1, <1>2, TxnAssumption, Bystander DEF TxnInv
<1>. QED  BY <1>1, <1>8, <1>9, Quiet, TxnAssumption DEF TxnInv

\* A call that runs has the lock and is where its program says.
LEMMA RunningHolds ==
  ASSUME TxnInv, NEW p \in Conn, Running(p)
  PROVE  lock = p /\ Progress(p) /\ txn[p].raised = FALSE /\ p # NoConn
BY TxnAssumption DEF TxnInv, Connected, Running

\* A statement takes the connection's view one write further.
LEMMA ExecutesStep ==
  ASSUME TxnInv, NEW p \in Conn, Executes(p)
  PROVE  TxnInv' /\ UNCHANGED Ledger!ledgerVars
<1>1. PICK op, n, v : /\ op = txn[p].call /\ n = txn[p].next
                      /\ v = Written(txn[p].view, op, Program[op.name][n])
  OBVIOUS
<1>2. /\ lock = p /\ op \in Operation /\ MayCall(op) /\ txn[p].view = SeesAt(db, op, n)
      /\ Decided(op, n) /\ n \in 1 .. Len(Program[op.name]) /\ Len(Program[op.name]) \in Nat
  <2>1. Progress(p) /\ lock = p /\ ~AtEnd(p)
    BY RunningHolds DEF Executes
  <2>2. Len(Program[op.name]) \in Nat
    BY <1>1, <2>1, Calls, Programs DEF Progress
  <2>3. n \in 1 .. Len(Program[op.name]) + 1 /\ ~(n > Len(Program[op.name]))
    BY <1>1, <2>1 DEF Progress, AtEnd
  <2>. QED  BY <1>1, <2>1, <2>2, <2>3 DEF Progress
<1>3. /\ lock' = lock /\ db' = db /\ today' = today
      /\ Program[op.name][n] = "decide" => Decides(txn[p].view, op)
      /\ txn' = [txn EXCEPT ![p] = [txn[p] EXCEPT !.view = v, !.next = n + 1]]
  BY <1>1 DEF Executes, Statement
<1>4. /\ v = SeesAt(db, op, n + 1)
      /\ Program[op.name][n] = "decide" => SeesAt(db, op, n) = db
      /\ op.name \in {"reserve", "reserve_sell", "apply_fill"} /\ n = 1 => Program[op.name][n] = "decide"
  BY <1>1, <1>2, NextStatement
<1>5. op.name \in {"reserve", "reserve_sell", "apply_fill"} => Decides(db, op)
  BY <1>2, <1>3, <1>4 DEF Decided
<1>6. PICK b : b = FALSE /\ txn'[p] = [call |-> op, next |-> n + 1, view |-> v, raised |-> b]
  <2>1. PICK r, w, b : /\ r = txn[p] /\ r = [call |-> op, next |-> n, view |-> w, raised |-> b]
                       /\ b = FALSE
    BY <1>1, <1>2 DEF TxnInv, Connected
  <2>2. PICK s : s = [call |-> op, next |-> n, view |-> v, raised |-> b]
    OBVIOUS
  <2>3. [r EXCEPT !.view = v] = s
    BY <2>1, <2>2
  <2>4. [s EXCEPT !.next = n + 1] = [call |-> op, next |-> n + 1, view |-> v, raised |-> b]
    BY <2>2
  <2>5. [r EXCEPT !.view = v, !.next = n + 1] = [[r EXCEPT !.view = v] EXCEPT !.next = n + 1]
    OBVIOUS
  <2>6. txn'[p] = [r EXCEPT !.view = v, !.next = n + 1]
    BY <1>3, <2>1 DEF TxnInv
  <2>. QED  BY <2>1, <2>3, <2>4, <2>5, <2>6
<1>. PICK r : r = txn'[p]
  OBVIOUS
<1>7. /\ r.call = op /\ r.next = n + 1 /\ r.view = v /\ r.raised = FALSE
       /\ r = [call |-> r.call, next |-> r.next, view |-> r.view, raised |-> r.raised]
  BY <1>6, FieldsOf
<1>8. Progress(p)'
  <2>1. MayCall(op)'
    BY <1>2, <1>3 DEF MayCall
  <2>2. op.name \in {"reserve", "reserve_sell", "apply_fill"} => Decides(db, op)'
    BY <1>3, <1>5, TablesStill
  <2>. QED  BY <1>2, <1>3, <1>4, <1>7, <2>1, <2>2 DEF Progress, Decided
<1>9. txn'[p] # NoTxn /\ op # NoCall
  BY <1>2, <1>6, OpenIs, Calls
<1>10. Connected(p)'
  BY <1>2, <1>3, <1>7, <1>8, <1>9 DEF Connected, Open
<1>11. \A q \in Conn \ {p} : Connected(q)'
  BY <1>2, <1>3, Bystander DEF TxnInv
<1>. QED  BY <1>2, <1>3, <1>6, <1>10, <1>11, Quiet DEF TxnInv

\* The lock is free and the connection closed.
LEMMA ClosesStep ==
  ASSUME TxnInv, NEW p \in Conn, lock \in {p, NoConn}, Closes(p)
  PROVE  \A q \in Conn : Connected(q)'
<1>1. txn'[p] = NoTxn /\ lock' = NoConn /\ \A q \in Conn \ {p} : txn'[q] = txn[q]
  BY DEF Closes, TxnInv
<1>2. Connected(p)'
  BY <1>1, TxnAssumption DEF Connected, Open
<1>3. \A q \in Conn \ {p} : Connected(q)'
  BY <1>1, TxnAssumption, Bystander DEF TxnInv
<1>. QED  BY <1>2, <1>3

\* A transaction that is rolled back leaves the tables alone.
LEMMA RollsBackStep ==
  ASSUME TxnInv, NEW p \in Conn, Running(p), Closes(p), db' = db, today' = today
  PROVE  TxnInv' /\ UNCHANGED Ledger!ledgerVars
<1>1. \A q \in Conn : Connected(q)'
  BY RunningHolds, ClosesStep
<1>2. txn' = [txn EXCEPT ![p] = txn'[p]] /\ lock' = NoConn
  BY DEF Closes, TxnInv
<1>. QED  BY <1>1, <1>2, Quiet

\* A transaction that commits is an operation.
LEMMA CommitsStep ==
  ASSUME TxnInv, NEW p \in Conn, Commits(p)
  PROVE  TxnInv' /\ Ledger!LedgerNext
<1>1. Running(p) /\ AtEnd(p) /\ db' = txn[p].view /\ Closes(p) /\ today' = today
  BY DEF Commits
<1>2. Progress(p) /\ lock = p
  BY <1>1, RunningHolds
<1>3. Ledger!LedgerNext /\ TablesOK'
  BY <1>1, <1>2, CommitIsOperation DEF TxnInv
<1>4. \A q \in Conn : Connected(q)'
  BY <1>1, <1>2, ClosesStep
<1>5. txn' = [q \in Conn |-> txn'[q]] /\ lock' = NoConn
  BY <1>1 DEF Closes, TxnInv
<1>. QED  BY <1>3, <1>4, <1>5 DEF TxnInv

\* A statement that raises is rolled back, or was the only one of release().
LEMMA RaisesStep ==
  ASSUME TxnInv, NEW p \in Conn, Raises(p)
  PROVE  TxnInv' /\ UNCHANGED Ledger!ledgerVars
<1>1. Running(p) /\ db' = db /\ today' = today /\ lock = p /\ txn[p].raised = FALSE /\ p # NoConn
  BY RunningHolds DEF Raises
<1>2. CASE txn[p].call.name # "release"
  <2>1. Closes(p)
    BY <1>2 DEF Raises, RollsBack
  <2>. QED  BY <1>1, <2>1, RollsBackStep
<1>3. CASE txn[p].call.name = "release"
  <2>1. /\ txn' = [txn EXCEPT ![p] = [txn[p] EXCEPT !.call = NoCall, !.view = NoView]]
        /\ lock' = NoConn
    BY <1>1, <1>3 DEF Raises
  <2>2. PICK n, b : b = FALSE /\ txn'[p] = [call |-> NoCall, next |-> n, view |-> NoView, raised |-> b]
    <3>1. PICK r, op, n, v, b : /\ r = txn[p] /\ r = [call |-> op, next |-> n, view |-> v, raised |-> b]
                                /\ b = FALSE
      BY <1>1 DEF TxnInv, Connected, Running
    <3>2. PICK s : s = [call |-> NoCall, next |-> n, view |-> v, raised |-> b]
      OBVIOUS
    <3>3. [r EXCEPT !.call = NoCall] = s
      BY <3>1, <3>2
    <3>4. [s EXCEPT !.view = NoView] = [call |-> NoCall, next |-> n, view |-> NoView, raised |-> b]
      BY <3>2
    <3>5. [r EXCEPT !.call = NoCall, !.view = NoView] = [[r EXCEPT !.call = NoCall] EXCEPT !.view = NoView]
      OBVIOUS
    <3>6. txn'[p] = [r EXCEPT !.call = NoCall, !.view = NoView]
      BY <2>1, <3>1 DEF TxnInv
    <3>. QED  BY <3>1, <3>3, <3>4, <3>5, <3>6
  <2>. PICK r : r = txn'[p]
    OBVIOUS
  <2>3. /\ r.call = NoCall /\ r.raised = FALSE
        /\ r = [call |-> r.call, next |-> r.next, view |-> r.view, raised |-> r.raised]
    BY <2>2, FieldsOf
  <2>4. Connected(p)'
    BY <1>1, <2>1, <2>3 DEF Connected, Open
  <2>5. \A q \in Conn \ {p} : Connected(q)'
    BY <1>1, <2>1, TxnAssumption, Bystander DEF TxnInv
  <2>6. txn' = [txn EXCEPT ![p] = txn'[p]]
    BY <2>1 DEF TxnInv
  <2>. QED  BY <1>1, <2>1, <2>4, <2>5, <2>6, Quiet
<1>. QED  BY <1>2, <1>3

\* A COMMIT that raises is rolled back by "with self._conn".
LEMMA CommitRaisesStep ==
  ASSUME CommitsRollBack, TxnInv, NEW p \in Conn, CommitRaises(p)
  PROVE  TxnInv' /\ UNCHANGED Ledger!ledgerVars
<1>1. Running(p) /\ db' = db /\ today' = today /\ txn[p].call.name \in {"record_order", "mark_order_terminal"}
  BY DEF CommitRaises, CommitsRollBack
<1>2. Closes(p)
  BY <1>1 DEF CommitRaises, Immediate, RollsBack
<1>. QED  BY <1>1, <1>2, RollsBackStep

\* Nothing is left of the transaction of a process that dies.
LEMMA DiesStep ==
  ASSUME SalesPay, TxnInv, NEW p \in Conn, Dies(p)
  PROVE  TxnInv' /\ UNCHANGED Ledger!ledgerVars
<1>1. /\ db' = db /\ today' = today /\ txn' = [txn EXCEPT ![p] = NoTxn]
      /\ lock' = IF lock = p THEN NoConn ELSE lock
  BY DEF Dies
<1>2. txn'[p] = NoTxn /\ lock' # p /\ lock' \in Conn \cup {NoConn}
  BY <1>1, TxnAssumption DEF TxnInv
<1>3. Connected(p)'
  BY <1>2 DEF Connected, Open
<1>4. ASSUME NEW q \in Conn \ {p} PROVE Connected(q)'
  <2>1. txn'[q] = txn[q] /\ (lock' = q) = (lock = q)
    BY <1>1, TxnAssumption DEF TxnInv
  <2>. QED  BY <1>1, <2>1, Kept DEF TxnInv
<1>. QED  BY <1>1, <1>2, <1>3, <1>4, Quiet DEF TxnInv

\* Midnight keeps the decisions of the transactions that run.
LEMMA MidnightStep ==
  ASSUME SalesPay, TxnInv, Midnight
  PROVE  TxnInv' /\ Ledger!LedgerNext
<1>1. today + 1 \in Day /\ today' = today + 1 /\ db' = db /\ lock' = lock /\ txn' = txn
  BY DEF Midnight
<1>2. TablesOK'
  BY <1>1 DEF TxnInv, TablesOK, Typed
<1>3. \A q \in Conn : Connected(q)'
  BY <1>1, Kept DEF TxnInv
<1>4. Ledger!NextDay
  BY <1>1 DEF Ledger!NextDay
<1>. QED  BY <1>1, <1>2, <1>3, <1>4 DEF TxnInv, Ledger!LedgerNext

\* Nothing happens.
LEMMA StutterStep ==
  ASSUME SalesPay, TxnInv, UNCHANGED txnVars
  PROVE  TxnInv' /\ UNCHANGED Ledger!ledgerVars
<1>1. today' = today /\ db' = db /\ lock' = lock /\ txn' = txn
  BY DEF txnVars
<1>2. TablesOK'
  BY <1>1 DEF TxnInv, TablesOK, Typed
<1>3. \A q \in Conn : Connected(q)'
  BY <1>1, Kept DEF TxnInv
<1>. QED  BY <1>1, <1>2, <1>3 DEF TxnInv, Ledger!ledgerVars

\* Every step keeps the invariant, and is an operation or leaves the tables alone.
LEMMA TxnStep ==
  ASSUME CommitsRollBack, SalesPay, TxnInv, [TxnNext]_txnVars
  PROVE  TxnInv' /\ [Ledger!LedgerNext]_(Ledger!ledgerVars)
<1>1. ASSUME NEW p \in Conn, NEW op \in Operation, Begins(p, op)
      PROVE  TxnInv' /\ UNCHANGED Ledger!ledgerVars
  BY <1>1, BeginsStep
<1>2. ASSUME NEW p \in Conn, Executes(p) PROVE TxnInv' /\ UNCHANGED Ledger!ledgerVars
  BY <1>2, ExecutesStep
<1>3. ASSUME NEW p \in Conn, Declines(p) PROVE TxnInv' /\ UNCHANGED Ledger!ledgerVars
  BY <1>3, RollsBackStep DEF Declines
<1>4. ASSUME NEW p \in Conn, Commits(p) PROVE TxnInv' /\ Ledger!LedgerNext
  BY <1>4, CommitsStep
<1>5. ASSUME NEW p \in Conn, Raises(p) PROVE TxnInv' /\ UNCHANGED Ledger!ledgerVars
  BY <1>5, RaisesStep
<1>6. ASSUME NEW p \in Conn, CommitRaises(p) PROVE TxnInv' /\ UNCHANGED Ledger!ledgerVars
  BY <1>6, CommitRaisesStep
<1>7. ASSUME NEW p \in Conn, Dies(p) PROVE TxnInv' /\ UNCHANGED Ledger!ledgerVars
  BY <1>7, DiesStep
<1>. QED
  BY <1>1, <1>2, <1>3, <1>4, <1>5, <1>6, <1>7, MidnightStep, StutterStep, Zenon DEF TxnNext

\* The tables begin as those of the ledger, and no transaction runs.
LEMMA TxnStart == TxnInit => TxnInv /\ Ledger!LedgerInit
<1>. SUFFICES ASSUME TxnInit PROVE TxnInv /\ Ledger!LedgerInit
  OBVIOUS
<1>1. /\ db.cash = [cur \in Currency |-> IF cur = BaseCurrency THEN Capital ELSE 0]
      /\ db.reserved = [c \in Coid |-> Ledger!NoReservation]
      /\ db.orders = [c \in Coid |-> Ledger!NoOrder]
      /\ db.fills = [o \in OrderId |-> Ledger!NoExecution]
      /\ db.flows = [cur \in Currency |-> 0]
      /\ db = [cash |-> db.cash, reserved |-> db.reserved, orders |-> db.orders,
               fills |-> db.fills, flows |-> db.flows]
      /\ today = 1 /\ lock = NoConn /\ txn = [p \in Conn |-> NoTxn]
  BY DEF TxnInit
<1>2. Ledger!LedgerInit
  BY <1>1 DEF Ledger!LedgerInit
<1>3. TablesOK
  BY <1>1, TxnAssumption DEF TablesOK, Typed
<1>4. \A p \in Conn : Connected(p)
  BY <1>1, TxnAssumption DEF Connected, Open
<1>. QED  BY <1>1, <1>2, <1>3, <1>4 DEF TxnInv

\* Every commit is one operation of the ledger and everything else is a stutter, wherever
\* statements and COMMITs raise, processes die and midnight comes. (_immediate)
THEOREM TransactionsAreOperations ==
  ASSUME CommitsRollBack, SalesPay
  PROVE  TxnSpec => ImplementsLedger
<1>1. TxnInv /\ [TxnNext]_txnVars => TxnInv' /\ [Ledger!LedgerNext]_(Ledger!ledgerVars)
  BY TxnStep
<1>. QED  BY TxnStart, <1>1, PTL DEF TxnSpec, ImplementsLedger, Ledger!LedgerSpec

-------------------------------------------------------------------------------
\* The order id and the client order id of a call that settles or writes a row.
LEMMA OrderOfCall ==
  ASSUME NEW op \in Operation, op.name \in {"record_order", "reserve_sell", "apply_fill"}
  PROVE  /\ op.order \in OrderId /\ Attr[op.order].coid \in Coid /\ Attr[op.order].symbol \in Symbol
         /\ Attr[op.order].side \in Ledger!Side /\ Attr[op.order].currency \in Currency
BY Calls, TxnAssumption

\* Tables of which one column was rewritten.
LEMMA OneTableTyped ==
  ASSUME NEW d, Typed(d), NEW t, NEW w,
         \/ w = [d EXCEPT !.cash = t] /\ t \in [Currency -> Int]
         \/ w = [d EXCEPT !.reserved = t]
            /\ t \in [Coid -> Ledger!Reservation \cup {Ledger!NoReservation}]
         \/ w = [d EXCEPT !.orders = t] /\ t \in [Coid -> Ledger!OrderRow \cup {Ledger!NoOrder}]
         \/ w = [d EXCEPT !.fills = t] /\ t \in [OrderId -> Execution \cup {Ledger!NoExecution}]
         \/ w = [d EXCEPT !.flows = t] /\ t \in [Currency -> Int]
  PROVE  Typed(w)
<1>. PICK a, b, c, e, f : /\ d = [cash |-> a, reserved |-> b, orders |-> c, fills |-> e, flows |-> f]
                          /\ a = d.cash /\ b = d.reserved /\ c = d.orders /\ e = d.fills /\ f = d.flows
  BY DEF Typed
<1>1. [d EXCEPT !.cash = t] = [cash |-> t, reserved |-> b, orders |-> c, fills |-> e, flows |-> f]
  OBVIOUS
<1>2. [d EXCEPT !.reserved = t] = [cash |-> a, reserved |-> t, orders |-> c, fills |-> e, flows |-> f]
  OBVIOUS
<1>3. [d EXCEPT !.orders = t] = [cash |-> a, reserved |-> b, orders |-> t, fills |-> e, flows |-> f]
  OBVIOUS
<1>4. [d EXCEPT !.fills = t] = [cash |-> a, reserved |-> b, orders |-> c, fills |-> t, flows |-> f]
  OBVIOUS
<1>5. [d EXCEPT !.flows = t] = [cash |-> a, reserved |-> b, orders |-> c, fills |-> e, flows |-> t]
  OBVIOUS
<1>. QED  BY <1>1, <1>2, <1>3, <1>4, <1>5 DEF Typed

\* Cash is written when a snapshot is settled or capital moved.
LEMMA CashTyped ==
  ASSUME NEW d, Typed(d), NEW op \in Operation, op.name \in {"apply_fill", "record_cashflow"}
  PROVE  Typed(WriteCash(d, op))
<1>1. CASE op.name = "apply_fill"
  <2>. DEFINE o == op.order
              x == op.snapshot
              t == Tables(d)!CashAfterFill(o, x)
  <2>1. o \in OrderId /\ x \in Ledger!Snapshot /\ Attr[o].currency \in Currency
    BY <1>1, OrderOfCall, Calls, TxnAssumption
  <2>2. d.fills[o] \in [qty : Nat, cost : Nat, fee : Nat, settles : Nat] /\ d.cash \in [Currency -> Int]
    BY <2>1, TxnAssumption DEF Typed, Ledger!Snapshot, Ledger!NoExecution
  <2>3. Tables(d)!SignedCash(o, x) \in Int /\ Tables(d)!SignedCash(o, d.fills[o]) \in Int
    BY <2>1, <2>2 DEF Tables!SignedCash, Ledger!Snapshot
  <2>4. t = [d.cash EXCEPT ![Attr[o].currency] =
               @ + Tables(d)!SignedCash(o, x) - Tables(d)!SignedCash(o, d.fills[o])]
    BY DEF Tables!CashAfterFill
  <2>5. t \in [Currency -> Int]
    BY <2>1, <2>2, <2>3, <2>4
  <2>6. WriteCash(d, op) = [d EXCEPT !.cash = t]
    BY <1>1 DEF WriteCash
  <2>. HIDE DEF t
  <2>. QED  BY <2>5, <2>6, OneTableTyped
<1>2. CASE op.name = "record_cashflow"
  <2>. DEFINE t == [d.cash EXCEPT ![op.currency] = @ + op.amount]
  <2>1. op.currency \in Currency /\ op.amount \in Int
    BY <1>2, Calls, TxnAssumption
  <2>2. t \in [Currency -> Int]
    BY <2>1 DEF Typed
  <2>3. WriteCash(d, op) = [d EXCEPT !.cash = t]
    BY <1>2 DEF WriteCash
  <2>. HIDE DEF t
  <2>. QED  BY <2>2, <2>3, OneTableTyped
<1>. QED  BY <1>1, <1>2

\* A reservation is granted, or cut by what a snapshot has cost; it is never below 0.
LEMMA ReservationTyped ==
  ASSUME NEW d, Typed(d), NEW op \in Operation, op.name \in {"reserve", "apply_fill"}
  PROVE  Typed(WriteReservation(d, op))
<1>1. CASE op.name = "reserve"
  <2>. DEFINE grant == [currency |-> op.currency, amount |-> op.amount]
              t == [d.reserved EXCEPT ![op.coid] = grant]
  <2>1. op.coid \in Coid /\ grant \in Ledger!Reservation
    BY <1>1, Calls, TxnAssumption DEF Ledger!Reservation
  <2>2. WriteReservation(d, op) = [d EXCEPT !.reserved = t]
    BY <1>1 DEF WriteReservation
  <2>. HIDE DEF grant
  <2>3. t \in [Coid -> Ledger!Reservation \cup {Ledger!NoReservation}]
    BY <2>1 DEF Typed
  <2>. HIDE DEF t
  <2>. QED  BY <2>2, <2>3, OneTableTyped
<1>2. CASE op.name = "apply_fill"
  <2>. DEFINE o == op.order
              x == op.snapshot
              c == Attr[o].coid
              left == Tables(d)!ReservationAfterFill(c, o, x)
              t == [d.reserved EXCEPT ![c] = left]
  <2>1. o \in OrderId /\ x \in Ledger!Snapshot /\ c \in Coid
    BY <1>2, OrderOfCall, Calls, TxnAssumption
  <2>2. CASE Attr[o].named /\ Attr[o].side = "buy" /\ d.reserved[c] # Ledger!NoReservation
    <3>1. d.reserved[c] \in Ledger!Reservation
      BY <2>1, <2>2 DEF Typed
    <3>2. x.cost \in Nat /\ d.fills[o].cost \in Nat
      BY <2>1, TxnAssumption DEF Typed, Ledger!Snapshot, Ledger!NoExecution
    <3>3. left \in Ledger!Reservation \cup {Ledger!NoReservation}
      BY <3>1, <3>2
         DEF Tables!ReservationAfterFill, Ledger!Reservation, Tables!NoReservation, Ledger!NoReservation
    <3>4. WriteReservation(d, op) = [d EXCEPT !.reserved = t]
      BY <1>2, <2>2 DEF WriteReservation
    <3>. HIDE DEF left
    <3>5. t \in [Coid -> Ledger!Reservation \cup {Ledger!NoReservation}]
      BY <2>1, <3>3 DEF Typed
    <3>. HIDE DEF t
    <3>. QED  BY <3>4, <3>5, OneTableTyped
  <2>3. CASE ~(Attr[o].named /\ Attr[o].side = "buy" /\ d.reserved[c] # Ledger!NoReservation)
    BY <1>2, <2>3 DEF WriteReservation
  <2>. QED  BY <2>2, <2>3
<1>. QED  BY <1>1, <1>2

\* A row is written as pending, and keeps its order id or gets one.
LEMMA RowTyped ==
  ASSUME NEW d, Typed(d), NEW op \in Operation, op.name \in {"record_order", "reserve_sell"}
  PROVE  Typed(WriteOrderRow(d, op))
<1>. DEFINE a   == Attr[op.order]
            id  == IF op.name = "record_order" THEN op.order ELSE NoId
            row == [status |-> "pending",
                    orderId |-> IF id = NoId /\ d.orders[a.coid] # Ledger!NoOrder
                                THEN d.orders[a.coid].orderId ELSE id,
                    symbol |-> a.symbol, side |-> a.side, currency |-> a.currency, qty |-> op.qty]
            t   == [d.orders EXCEPT ![a.coid] = row]
<1>1. /\ a.coid \in Coid /\ a.symbol \in Symbol /\ a.side \in Ledger!Side /\ a.currency \in Currency
      /\ id \in OrderId \cup {NoId} /\ op.qty \in Nat
  BY OrderOfCall, Calls, TxnAssumption
<1>2. row \in Ledger!OrderRow
  <2>1. d.orders[a.coid] # Ledger!NoOrder => d.orders[a.coid].orderId \in OrderId \cup {NoId}
    BY <1>1 DEF Typed, Ledger!OrderRow
  <2>. QED  BY <1>1, <2>1 DEF Ledger!OrderRow, Ledger!OpenStatus
<1>3. WriteOrderRow(d, op) = [d EXCEPT !.orders = t]
  BY DEF WriteOrderRow, Tables!WriteOrder, Tables!NoOrder, Ledger!NoOrder
<1>. HIDE DEF row
<1>4. t \in [Coid -> Ledger!OrderRow \cup {Ledger!NoOrder}]
  BY <1>1, <1>2 DEF Typed
<1>. HIDE DEF t
<1>. QED  BY <1>3, <1>4, OneTableTyped

\* A row that is there gets another status.
LEMMA StatusTyped ==
  ASSUME NEW d, Typed(d), NEW op \in Operation, op.name \in {"mark_order_terminal", "apply_fill"}
  PROVE  Typed(WriteStatus(d, op))
<1>. DEFINE c == IF op.name = "apply_fill" THEN Attr[op.order].coid ELSE op.coid
            status == IF op.name = "apply_fill" THEN Tables(d)!FillStatus(c, op.snapshot) ELSE op.status
            unnamed == op.name = "apply_fill" /\ ~Attr[op.order].named
<1>1. c \in Coid
  BY OrderOfCall, Calls
<1>2. status \in Ledger!OpenStatus \cup Ledger!TerminalStatus
  BY Calls DEF Tables!FillStatus, Ledger!OpenStatus, Ledger!TerminalStatus
<1>3. CASE d.orders[c] = Ledger!NoOrder \/ unnamed
  BY <1>3 DEF WriteStatus
<1>4. CASE d.orders[c] # Ledger!NoOrder /\ ~unnamed
  <2>. DEFINE row == [d.orders[c] EXCEPT !.status = status]
              t == [d.orders EXCEPT ![c] = row]
  <2>1. WriteStatus(d, op) = [d EXCEPT !.orders = t]
    BY <1>4 DEF WriteStatus
  <2>2. d.orders[c] \in Ledger!OrderRow
    BY <1>1, <1>4 DEF Typed
  <2>. HIDE DEF status, c
  <2>3. row \in Ledger!OrderRow
    BY <1>2, <2>2 DEF Ledger!OrderRow
  <2>. HIDE DEF row
  <2>4. t \in [Coid -> Ledger!OrderRow \cup {Ledger!NoOrder}]
    BY <1>1, <2>3 DEF Typed
  <2>. HIDE DEF t
  <2>. QED  BY <2>1, <2>4, OneTableTyped
<1>. QED  BY <1>3, <1>4

\* The statements that write a value that the call has.
LEMMA ValuesTyped ==
  ASSUME NEW d, Typed(d), NEW op \in Operation
  PROVE  /\ op.name = "record_cashflow" => Typed(WriteFlow(d, op))
         /\ op.name \in {"release", "mark_order_terminal"} => Typed(Unreserve(d, op))
         /\ op.name = "apply_fill" => Typed(WriteFill(d, op))
<1>1. ASSUME op.name = "record_cashflow" PROVE Typed(WriteFlow(d, op))
  <2>. DEFINE t == [d.flows EXCEPT ![op.currency] = @ + op.amount]
  <2>1. op.currency \in Currency /\ op.amount \in Int
    BY <1>1, Calls, TxnAssumption
  <2>2. t \in [Currency -> Int] /\ WriteFlow(d, op) = [d EXCEPT !.flows = t]
    BY <2>1 DEF Typed, WriteFlow
  <2>. HIDE DEF t
  <2>. QED  BY <2>2, OneTableTyped
<1>2. ASSUME op.name \in {"release", "mark_order_terminal"} PROVE Typed(Unreserve(d, op))
  <2>. DEFINE t == [d.reserved EXCEPT ![op.coid] = Ledger!NoReservation]
  <2>1. t \in [Coid -> Ledger!Reservation \cup {Ledger!NoReservation}]
    BY <1>2, Calls DEF Typed
  <2>2. Unreserve(d, op) = [d EXCEPT !.reserved = t]
    BY DEF Unreserve
  <2>. HIDE DEF t
  <2>. QED  BY <2>1, <2>2, OneTableTyped
<1>3. ASSUME op.name = "apply_fill" PROVE Typed(WriteFill(d, op))
  <2>. DEFINE t == [d.fills EXCEPT ![op.order] = op.snapshot]
  <2>1. t \in [OrderId -> Execution \cup {Ledger!NoExecution}]
    BY <1>3, Calls DEF Typed
  <2>2. WriteFill(d, op) = [d EXCEPT !.fills = t]
    BY DEF WriteFill
  <2>. HIDE DEF t
  <2>. QED  BY <2>1, <2>2, OneTableTyped
<1>. QED  BY <1>1, <1>2, <1>3

\* Every statement keeps the types of the tables, whatever it was decided from.
LEMMA WritesTyped ==
  ASSUME NEW d, Typed(d), NEW op \in Operation, NEW n \in 1 .. Len(Program[op.name])
  PROVE  Typed(Written(d, op, Program[op.name][n]))
<1>1. CASE op.name = "reserve"
  <2>1. Program[op.name] = <<"decide", "reservation">> /\ n \in 1 .. 2
    BY <1>1, Programs
  <2>. QED  BY <1>1, <2>1, ReservationTyped DEF Written
<1>2. CASE op.name = "release"
  <2>1. Program[op.name] = <<"unreserve">> /\ n = 1
    BY <1>2, Programs
  <2>. QED  BY <1>2, <2>1, ValuesTyped DEF Written
<1>3. CASE op.name = "record_order"
  <2>1. Program[op.name] = <<"order">> /\ n = 1
    BY <1>3, Programs
  <2>. QED  BY <1>3, <2>1, RowTyped DEF Written
<1>4. CASE op.name = "reserve_sell"
  <2>1. Program[op.name] = <<"decide", "order">> /\ n \in 1 .. 2
    BY <1>4, Programs
  <2>. QED  BY <1>4, <2>1, RowTyped DEF Written
<1>5. CASE op.name = "mark_order_terminal"
  <2>1. Program[op.name] = <<"status", "unreserve">> /\ n \in 1 .. 2
    BY <1>5, Programs
  <2>. QED  BY <1>5, <2>1, StatusTyped, ValuesTyped DEF Written
<1>6. CASE op.name = "apply_fill"
  <2>1. /\ Program[op.name] = <<"decide", "cash", "reservation", "fill", "status">>
        /\ n \in 1 .. 5
    BY <1>6, Programs
  <2>. QED  BY <1>6, <2>1, CashTyped, ReservationTyped, ValuesTyped, StatusTyped DEF Written
<1>7. CASE op.name = "record_cashflow"
  <2>1. Program[op.name] = <<"cash", "flow">> /\ n \in 1 .. 2
    BY <1>7, Programs
  <2>. QED  BY <1>7, <2>1, CashTyped, ValuesTyped DEF Written
<1>. QED  BY <1>1, <1>2, <1>3, <1>4, <1>5, <1>6, <1>7, Calls

\* Whoever has the lock sees tables that are right, and only that connection runs a call.
ViewTyped(p) ==
  /\ Open(p) => /\ txn[p] = [call |-> txn[p].call, next |-> txn[p].next,
                             view |-> txn[p].view, raised |-> txn[p].raised]
                /\ txn[p].call \in Operation \cup {NoCall}
                /\ lock = p => Typed(txn[p].view)
  /\ lock = p => Open(p)
  /\ Running(p) => lock = p /\ txn[p].next \in 1 .. Len(Program[txn[p].call.name]) + 1

TypeInv ==
  /\ TablesOK
  /\ lock \in Conn \cup {NoConn}
  /\ txn = [p \in Conn |-> txn[p]]
  /\ \A p \in Conn : ViewTyped(p)

\* The connections that take no part in a step.
LEMMA OthersTyped ==
  ASSUME TypeInv, NEW p \in Conn, lock' \in {lock, NoConn, p}, Running(p) => lock' = NoConn \/ lock' = lock,
         ~Running(p) => lock \in {NoConn, p} \/ lock' = lock,
         NEW q \in Conn \ {p}, txn'[q] = txn[q]
  PROVE  ViewTyped(q)'
<1>1. ViewTyped(q) /\ ViewTyped(p) /\ q # NoConn
  BY TxnAssumption DEF TypeInv
<1>2. Running(q) => lock = q /\ ~Running(p)
  BY <1>1 DEF ViewTyped
<1>3. Open(q)' = Open(q) /\ Running(q)' = Running(q)
  BY DEF Open, Running
<1>. QED  BY <1>1, <1>2, <1>3 DEF ViewTyped

\* A connection that is closed.
LEMMA ClosedTyped ==
  ASSUME NEW p \in Conn, txn'[p] = NoTxn, lock' # p
  PROVE  ViewTyped(p)'
BY DEF ViewTyped, Open, Running

\* A call runs with the lock, and the tables as its statements left them.
LEMMA RunningTyped ==
  ASSUME TypeInv, NEW p \in Conn, Running(p)
  PROVE  /\ txn[p].call \in Operation /\ Typed(txn[p].view) /\ lock = p /\ p # NoConn
         /\ txn[p].next \in 1 .. Len(Program[txn[p].call.name]) + 1
         /\ Len(Program[txn[p].call.name]) \in Nat
         /\ \E b : txn[p] = [call |-> txn[p].call, next |-> txn[p].next,
                             view |-> txn[p].view, raised |-> b]
<1>1. txn[p].call \in Operation /\ ViewTyped(p) /\ Open(p)
  BY DEF TypeInv, ViewTyped, Running
<1>2. p # NoConn
  BY TxnAssumption
<1>3. Len(Program[txn[p].call.name]) \in Nat
  BY <1>1, Calls, Programs
<1>. QED  BY <1>1, <1>2, <1>3 DEF ViewTyped

\* A call that raises keeps its connection's view, or loses it with the lock.
LEMMA LeavesTyped ==
  ASSUME TypeInv, NEW p \in Conn, Running(p), LeavesOpen(p), db' = db, today' = today
  PROVE  TypeInv'
<1>1. PICK b : b = (txn[p].raised \/ txn[p].view # db)
  OBVIOUS
<1>2. PICK op, n, v, a : /\ txn[p] = [call |-> op, next |-> n, view |-> v, raised |-> a]
                         /\ Typed(v) /\ lock = p
  BY RunningTyped
<1>3. txn' = [txn EXCEPT ![p] = [txn[p] EXCEPT !.call = NoCall, !.raised = b]] /\ lock' = lock
  BY <1>1 DEF LeavesOpen
<1>4. txn'[p] = [call |-> NoCall, next |-> n, view |-> v, raised |-> b]
  <2>1. PICK r : r = [call |-> op, next |-> n, view |-> v, raised |-> a]
    OBVIOUS
  <2>2. PICK s : s = [call |-> NoCall, next |-> n, view |-> v, raised |-> a]
    OBVIOUS
  <2>3. [r EXCEPT !.call = NoCall] = s
    BY <2>1, <2>2
  <2>4. [s EXCEPT !.raised = b] = [call |-> NoCall, next |-> n, view |-> v, raised |-> b]
    BY <2>2
  <2>5. [r EXCEPT !.call = NoCall, !.raised = b] = [[r EXCEPT !.call = NoCall] EXCEPT !.raised = b]
    OBVIOUS
  <2>6. txn'[p] = [r EXCEPT !.call = NoCall, !.raised = b]
    BY <1>2, <1>3, <2>1 DEF TypeInv
  <2>. QED  BY <2>3, <2>4, <2>5, <2>6
<1>. PICK r : r = txn'[p]
  OBVIOUS
<1>5. /\ r.call = NoCall /\ r.view = v
      /\ r = [call |-> r.call, next |-> r.next, view |-> r.view, raised |-> r.raised]
  BY <1>4, FieldsOf
<1>6. Open(p)'
  BY <1>5, OpenIs DEF Open
<1>7. ViewTyped(p)'
  BY <1>2, <1>3, <1>5, <1>6 DEF ViewTyped, Running, Open
<1>8. \A q \in Conn \ {p} : ViewTyped(q)'
  BY <1>3, OthersTyped DEF TypeInv
<1>. QED  BY <1>3, <1>7, <1>8 DEF TypeInv, TablesOK

\* A step of one connection that leaves the tables alone.
LEMMA QuietTyped ==
  ASSUME TypeInv, NEW p \in Conn, db' = db, today' = today, lock' \in Conn \cup {NoConn},
         txn' = [txn EXCEPT ![p] = txn'[p]],
         ViewTyped(p)', \A q \in Conn \ {p} : ViewTyped(q)'
  PROVE  TypeInv'
<1>1. txn' = [q \in Conn |-> txn'[q]]
  BY DEF TypeInv
<1>2. \A q \in Conn : ViewTyped(q)'
  OBVIOUS
<1>. QED  BY <1>1, <1>2 DEF TypeInv, TablesOK

\* A transaction that ends without a write.
LEMMA ClosesTyped ==
  ASSUME TypeInv, NEW p \in Conn, Running(p), Closes(p), db' = db, today' = today
  PROVE  TypeInv'
<1>1. txn'[p] = NoTxn /\ lock' = NoConn /\ txn' = [txn EXCEPT ![p] = txn'[p]]
      /\ \A q \in Conn \ {p} : txn'[q] = txn[q]
  BY DEF Closes, TypeInv
<1>2. ViewTyped(p)' /\ \A q \in Conn \ {p} : ViewTyped(q)'
  BY <1>1, ClosedTyped, OthersTyped, RunningTyped
<1>. QED  BY <1>1, <1>2, QuietTyped

\* A call begins on what its connection sees.
LEMMA BeginsTyped ==
  ASSUME TypeInv, NEW p \in Conn, NEW op \in Operation, Begins(p, op)
  PROVE  TypeInv'
<1>1. PICK b : b = (lock = p /\ txn[p].raised)
  OBVIOUS
<1>2. /\ ~Running(p) /\ lock \in {NoConn, p} /\ lock' = p /\ db' = db /\ today' = today
      /\ txn' = [txn EXCEPT ![p] = [call |-> op, next |-> 1, view |-> View(p), raised |-> b]]
  BY <1>1, Zenon DEF Begins, GetsLock
<1>3. Typed(View(p))
  BY <1>2 DEF View, TypeInv, TablesOK, ViewTyped
<1>4. txn'[p] = [call |-> op, next |-> 1, view |-> View(p), raised |-> b]
  BY <1>2 DEF TypeInv
<1>. PICK r, v : r = txn'[p] /\ v = View(p)
  OBVIOUS
<1>5. /\ r.call = op /\ r.next = 1 /\ r.view = v
      /\ r = [call |-> r.call, next |-> r.next, view |-> r.view, raised |-> r.raised]
  BY <1>4, FieldsOf
<1>6. Open(p)' /\ 1 \in 1 .. Len(Program[op.name]) + 1
  BY <1>5, OpenIs, Calls, Programs DEF Open
<1>7. ViewTyped(p)'
  BY <1>2, <1>3, <1>5, <1>6 DEF ViewTyped
<1>8. \A q \in Conn \ {p} : ViewTyped(q)'
  BY <1>2, OthersTyped DEF TypeInv
<1>. QED  BY <1>2, <1>7, <1>8, QuietTyped DEF TypeInv

\* A statement rewrites what its connection sees.
LEMMA ExecutesTyped ==
  ASSUME TypeInv, NEW p \in Conn, Executes(p)
  PROVE  TypeInv'
<1>1. PICK op, n, w, b : /\ txn[p] = [call |-> op, next |-> n, view |-> w, raised |-> b]
                         /\ op = txn[p].call /\ n = txn[p].next /\ w = txn[p].view
                         /\ op \in Operation /\ Typed(w) /\ lock = p /\ p # NoConn
                         /\ n \in 1 .. Len(Program[op.name]) + 1 /\ Len(Program[op.name]) \in Nat
  BY RunningTyped DEF Executes
<1>2. n \in 1 .. Len(Program[op.name])
  BY <1>1 DEF Executes, AtEnd
<1>3. PICK v : v = Written(w, op, Program[op.name][n])
  OBVIOUS
<1>4. /\ lock' = lock /\ db' = db /\ today' = today
      /\ txn' = [txn EXCEPT ![p] = [txn[p] EXCEPT !.view = v, !.next = n + 1]]
  BY <1>1, <1>3 DEF Executes, Statement
<1>5. txn'[p] = [call |-> op, next |-> n + 1, view |-> v, raised |-> b]
  <2>1. PICK r : r = [call |-> op, next |-> n, view |-> w, raised |-> b]
    OBVIOUS
  <2>2. PICK s : s = [call |-> op, next |-> n, view |-> v, raised |-> b]
    OBVIOUS
  <2>3. [r EXCEPT !.view = v] = s
    BY <2>1, <2>2
  <2>4. [s EXCEPT !.next = n + 1] = [call |-> op, next |-> n + 1, view |-> v, raised |-> b]
    BY <2>2
  <2>5. [r EXCEPT !.view = v, !.next = n + 1] = [[r EXCEPT !.view = v] EXCEPT !.next = n + 1]
    OBVIOUS
  <2>6. txn'[p] = [r EXCEPT !.view = v, !.next = n + 1]
    BY <1>1, <1>4, <2>1 DEF TypeInv
  <2>. QED  BY <2>3, <2>4, <2>5, <2>6
<1>6. Typed(v)
  BY <1>1, <1>2, <1>3, WritesTyped
<1>. PICK r : r = txn'[p]
  OBVIOUS
<1>7. /\ r.call = op /\ r.next = n + 1 /\ r.view = v
      /\ r = [call |-> r.call, next |-> r.next, view |-> r.view, raised |-> r.raised]
  BY <1>5, FieldsOf
<1>8. Open(p)' /\ n + 1 \in 1 .. Len(Program[op.name]) + 1
  BY <1>1, <1>2, <1>7, OpenIs DEF Open
<1>9. ViewTyped(p)'
  BY <1>1, <1>4, <1>6, <1>7, <1>8 DEF ViewTyped
<1>10. \A q \in Conn \ {p} : ViewTyped(q)'
  BY <1>4, OthersTyped DEF TypeInv
<1>11. txn' = [txn EXCEPT ![p] = txn'[p]] /\ lock' \in Conn \cup {NoConn}
  BY <1>4 DEF TypeInv
<1>. QED  BY <1>4, <1>9, <1>10, <1>11, QuietTyped

\* What is committed is what the connection saw.
LEMMA CommitsTyped ==
  ASSUME TypeInv, NEW p \in Conn, Commits(p)
  PROVE  TypeInv'
<1>1. /\ Running(p) /\ db' = txn[p].view /\ today' = today /\ Typed(txn[p].view)
      /\ lock' = NoConn /\ txn'[p] = NoTxn /\ p # NoConn
      /\ \A q \in Conn \ {p} : txn'[q] = txn[q]
      /\ txn' = [q \in Conn |-> txn'[q]]
  BY RunningTyped DEF Commits, Closes, TypeInv
<1>2. TablesOK'
  BY <1>1 DEF TypeInv, TablesOK
<1>3. \A q \in Conn : ViewTyped(q)'
  BY <1>1, ClosedTyped, OthersTyped
<1>. QED  BY <1>1, <1>2, <1>3 DEF TypeInv

\* A call raises: it is rolled back, or it leaves its connection open.
LEMMA RaisesTyped ==
  ASSUME TypeInv, NEW p \in Conn, Raises(p) \/ CommitRaises(p)
  PROVE  TypeInv'
<1>1. /\ Running(p) /\ db' = db /\ today' = today
      /\ \/ Closes(p) \/ LeavesOpen(p)
         \/ /\ lock' = NoConn
            /\ txn' = [txn EXCEPT ![p] = [txn[p] EXCEPT !.call = NoCall, !.view = NoView]]
  BY DEF Raises, CommitRaises, RollsBack
<1>2. CASE Closes(p)
  BY <1>1, <1>2, ClosesTyped
<1>3. CASE LeavesOpen(p)
  BY <1>1, <1>3, LeavesTyped
<1>4. CASE /\ lock' = NoConn
           /\ txn' = [txn EXCEPT ![p] = [txn[p] EXCEPT !.call = NoCall, !.view = NoView]]
  <2>1. PICK op, n, v, b : /\ txn[p] = [call |-> op, next |-> n, view |-> v, raised |-> b]
                           /\ op = txn[p].call /\ n = txn[p].next /\ v = txn[p].view
    BY <1>1, RunningTyped
  <2>2. txn'[p] = [call |-> NoCall, next |-> n, view |-> NoView, raised |-> b]
    <3>1. PICK r : r = [call |-> op, next |-> n, view |-> v, raised |-> b]
      OBVIOUS
    <3>2. PICK s : s = [call |-> NoCall, next |-> n, view |-> v, raised |-> b]
      OBVIOUS
    <3>3. [r EXCEPT !.call = NoCall] = s
      BY <3>1, <3>2
    <3>4. [s EXCEPT !.view = NoView] = [call |-> NoCall, next |-> n, view |-> NoView, raised |-> b]
      BY <3>2
    <3>5. [r EXCEPT !.call = NoCall, !.view = NoView] = [[r EXCEPT !.call = NoCall] EXCEPT !.view = NoView]
      OBVIOUS
    <3>6. txn'[p] = [r EXCEPT !.call = NoCall, !.view = NoView]
      BY <1>4, <2>1, <3>1 DEF TypeInv
    <3>. QED  BY <3>3, <3>4, <3>5, <3>6
  <2>. PICK r : r = txn'[p]
    OBVIOUS
  <2>3. /\ r.call = NoCall
        /\ r = [call |-> r.call, next |-> r.next, view |-> r.view, raised |-> r.raised]
    BY <2>2, FieldsOf
  <2>4. ViewTyped(p)'
    BY <1>1, <1>4, <2>3, RunningTyped DEF ViewTyped, Running
  <2>5. \A q \in Conn \ {p} : ViewTyped(q)'
    BY <1>1, <1>4, OthersTyped DEF TypeInv
  <2>6. txn' = [txn EXCEPT ![p] = txn'[p]]
    BY <1>4 DEF TypeInv
  <2>. QED  BY <1>1, <1>4, <2>4, <2>5, <2>6, QuietTyped
<1>. QED  BY <1>1, <1>2, <1>3, <1>4

\* A process that dies loses its view.
LEMMA DiesTyped ==
  ASSUME TypeInv, NEW p \in Conn, Dies(p)
  PROVE  TypeInv'
<1>1. /\ db' = db /\ today' = today /\ txn' = [txn EXCEPT ![p] = NoTxn]
      /\ lock' = IF lock = p THEN NoConn ELSE lock
  BY DEF Dies
<1>2. txn'[p] = NoTxn /\ lock' # p /\ lock' \in Conn \cup {NoConn} /\ txn' = [txn EXCEPT ![p] = txn'[p]]
      /\ \A q \in Conn \ {p} : txn'[q] = txn[q]
  BY <1>1, TxnAssumption DEF TypeInv
<1>3. Running(p) => lock = p
  BY DEF TypeInv, ViewTyped
<1>4. \A q \in Conn \ {p} : ViewTyped(q)'
  BY <1>1, <1>2, <1>3, OthersTyped
<1>. QED  BY <1>1, <1>2, <1>4, ClosedTyped, QuietTyped

\* Nothing is open at first.
LEMMA TypeInit == TxnInit => TypeInv
BY TxnStart, TxnAssumption DEF TxnInv, TxnInit, TypeInv, ViewTyped, Open, Running

\* Every step keeps the types.
LEMMA TypeStep == TypeInv /\ [TxnNext]_txnVars => TypeInv'
<1>. SUFFICES ASSUME TypeInv, [TxnNext]_txnVars PROVE TypeInv'
  OBVIOUS
<1>1. ASSUME NEW p \in Conn, Declines(p) PROVE TypeInv'
  BY <1>1, ClosesTyped DEF Declines
<1>2. ASSUME Midnight \/ UNCHANGED txnVars PROVE TypeInv'
  BY <1>2 DEF Midnight, txnVars, TypeInv, TablesOK, ViewTyped, Open, Running
<1>. QED
  BY <1>1, <1>2, BeginsTyped, ExecutesTyped, CommitsTyped, RaisesTyped, DiesTyped, Zenon DEF TxnNext

\* The tables, the lock and the views of the connections keep their types, whatever raises:
\* also when a call goes on with the writes that one before it has left behind. (_SCHEMA)
THEOREM TransactionTyping == TxnSpec => []TxnTypeOK
<1>1. TypeInv => TxnTypeOK
  <2>. SUFFICES ASSUME TypeInv PROVE TxnTypeOK
    OBVIOUS
  <2>1. Execution \cup {Ledger!NoExecution} \subseteq [qty : Nat, cost : Nat, fee : Nat, settles : Nat]
    BY TxnAssumption DEF Ledger!Snapshot, Ledger!NoExecution
  <2>2. Ledger!LedgerTypeOK
    BY <2>1 DEF TypeInv, TablesOK, Typed, Ledger!LedgerTypeOK
  <2>. QED  BY <2>2 DEF TxnTypeOK, TypeInv, ViewTyped, Typed
<1>. QED  BY TypeInit, TypeStep, <1>1, PTL DEF TxnSpec

-------------------------------------------------------------------------------
\* No open transaction has writes of a call that has raised.
NoneRaised == \A p \in Conn : Open(p) => txn[p].raised = FALSE

\* A transaction that runs has the field that says so.
LEMMA RunningFields ==
  ASSUME TypeInv, NEW p \in Conn, Running(p)
  PROVE  "raised" \in DOMAIN txn[p]
<1>1. PICK r : r = txn[p] /\ r = [call |-> r.call, next |-> r.next, view |-> r.view, raised |-> r.raised]
  BY DEF TypeInv, ViewTyped, Running
<1>2. DOMAIN r = {"call", "next", "view", "raised"}
  BY <1>1
<1>. QED  BY <1>1, <1>2

\* A call begins with no such writes, and its statements are rolled back.
LEMMA NoneRaisedStep ==
  ASSUME CommitsRollBack, TypeInv, NoneRaised, [TxnNext]_txnVars
  PROVE  NoneRaised'
<1>. SUFFICES ASSUME NEW p \in Conn, Open(p)' PROVE txn'[p].raised = FALSE
  BY DEF NoneRaised
<1>1. CASE txn'[p] = txn[p]
  BY <1>1 DEF NoneRaised, Open
<1>2. ASSUME NEW op \in Operation, Begins(p, op) PROVE txn'[p].raised = FALSE
  <2>1. /\ lock = p => Open(p)
        /\ txn' = [txn EXCEPT ![p] = [call |-> op, next |-> 1, view |-> View(p),
                                      raised |-> lock = p /\ txn[p].raised]]
    BY <1>2, Zenon DEF Begins, TypeInv, ViewTyped
  <2>2. (lock = p /\ txn[p].raised) = FALSE
    BY <2>1 DEF NoneRaised
  <2>3. txn'[p] = [call |-> op, next |-> 1, view |-> View(p), raised |-> FALSE]
    BY <2>1, <2>2 DEF TypeInv
  <2>. QED  BY <2>3
<1>3. ASSUME Executes(p) PROVE txn'[p].raised = FALSE
  <2>1. PICK v, n : txn' = [txn EXCEPT ![p] = [txn[p] EXCEPT !.view = v, !.next = n]]
    BY <1>3 DEF Executes
  <2>2. txn'[p] = [txn[p] EXCEPT !.view = v, !.next = n]
    BY <2>1 DEF TypeInv
  <2>3. Running(p) /\ Open(p)
    BY <1>3 DEF Executes, Running
  <2>4. "raised" \in DOMAIN txn[p]
    BY <2>3, RunningFields
  <2>. QED  BY <2>2, <2>3, <2>4 DEF NoneRaised
<1>4. ASSUME Raises(p) PROVE txn'[p].raised = FALSE
  <2>1. Open(p) /\ txn[p].raised = FALSE
    BY <1>4 DEF Raises, Running, NoneRaised
  <2>2. ~Closes(p)
    BY DEF Closes, TypeInv, Open
  <2>3. txn' = [txn EXCEPT ![p] = [txn[p] EXCEPT !.call = NoCall, !.view = NoView]]
    BY <1>4, <2>1, <2>2 DEF Raises, RollsBack
  <2>4. "raised" \in DOMAIN txn[p]
    BY <1>4, RunningFields DEF Raises
  <2>. QED  BY <2>1, <2>3, <2>4 DEF TypeInv
<1>5. ASSUME Declines(p) \/ Commits(p) \/ CommitRaises(p) \/ Dies(p) PROVE FALSE
  <2>1. txn' = [txn EXCEPT ![p] = NoTxn]
    BY <1>5 DEF Declines, Commits, CommitRaises, Dies, Closes, RollsBack, Immediate, CommitsRollBack
  <2>. QED  BY <2>1 DEF TypeInv, Open
<1>6. ASSUME NEW q \in Conn \ {p},
             \/ \E op \in Operation : Begins(q, op)
             \/ Executes(q) \/ Declines(q) \/ Commits(q) \/ Raises(q) \/ CommitRaises(q) \/ Dies(q)
      PROVE  txn'[p] = txn[p]
  BY <1>6
     DEF TypeInv, Begins, Executes, Declines, Commits, Raises, CommitRaises, Dies, Closes, RollsBack,
         LeavesOpen
<1>7. Midnight \/ UNCHANGED txnVars => txn'[p] = txn[p]
  BY DEF Midnight, txnVars
<1>. QED  BY <1>1, <1>2, <1>3, <1>4, <1>5, <1>6, <1>7, Zenon DEF TxnNext

\* No transaction stays open with writes of a call that raised, so nothing of them is
\* committed later. (_immediate, "with self._conn", release)
THEOREM RaisedCallsLeaveNothing ==
  ASSUME CommitsRollBack
  PROVE  TxnSpec => RaisedLeavesNothing
<1>1. TxnInit => TypeInv /\ NoneRaised
  BY TypeInit DEF TxnInit, NoneRaised, Open
<1>2. TypeInv /\ NoneRaised /\ [TxnNext]_txnVars => TypeInv' /\ NoneRaised'
  BY TypeStep, NoneRaisedStep
<1>3. TypeInv /\ NoneRaised /\ [TxnNext]_txnVars
        => [\A p \in Conn : Open(p) /\ txn[p].raised /\ txn'[p] = NoTxn => db' = db]_txnVars
  BY DEF NoneRaised
<1>. QED  BY <1>1, <1>2, <1>3, PTL DEF TxnSpec, RaisedLeavesNothing
===============================================================================

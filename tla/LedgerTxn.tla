------------------------------ MODULE LedgerTxn -------------------------------
(***************************************************************************)
(* SqliteSleeveLedger statement by statement: several processes, each with *)
(* a connection to the one database, run the operations of SleeveLedger as *)
(* transactions.  A transaction changes a copy of the tables that only its *)
(* connection sees until COMMIT.  A statement may raise, COMMIT may raise, *)
(* a process may die, and midnight may come, between any two statements.   *)
(*                                                                         *)
(* reserve, reserve_sell, apply_fill and record_cashflow run in            *)
(* _immediate(), which has the write lock from the start and does not      *)
(* begin in a transaction that is open already.  record_order and          *)
(* mark_order_terminal run in "with self._conn", release on its own: they  *)
(* begin a transaction if there is none, and get the lock with their first *)
(* write, before they have read anything.                                  *)
(***************************************************************************)
EXTENDS Integers, Sequences, FiniteSets

CONSTANTS
  Coid, OrderId, NoId, Symbol, Currency, BaseCurrency, Capital, Attr, Qty, Amount, Execution,
  FlowAmount, FlowTotal, Day,  \* as in SleeveLedger
  Conn,        \* the connections, one per process
  NoConn,      \* nobody has the write lock
  CommitFails  \* the operations whose COMMIT may raise (a reader keeps the file busy too long)

VARIABLES
  db,    \* the committed tables
  lock,  \* the connection that has the write lock
  txn,   \* the transaction of each connection
  today  \* what today_func returns

txnVars == <<db, lock, txn, today>>


\* The operations and helpers of SleeveLedger on tables d.
Tables(d) == INSTANCE SleeveLedger
  WITH cash <- d.cash, reserved <- d.reserved, orders <- d.orders, fills <- d.fills,
       flows <- d.flows

\* SleeveLedger on the committed tables.
Ledger == INSTANCE SleeveLedger
  WITH cash <- db.cash, reserved <- db.reserved, orders <- db.orders, fills <- db.fills,
       flows <- db.flows

\* A call with its arguments.
Operation ==
  [name : {"reserve"}, coid : Coid, currency : Currency, amount : Amount]
  \cup [name : {"release"}, coid : Coid]
  \cup [name : {"record_order"}, order : OrderId, qty : Qty]
  \cup [name : {"reserve_sell"}, order : {o \in OrderId : Attr[o].side = "sell"}, qty : Qty]
  \cup [name : {"mark_order_terminal"}, coid : Coid, status : Ledger!TerminalStatus]
  \cup [name : {"apply_fill"}, order : OrderId, snapshot : Execution]
  \cup [name : {"record_cashflow"}, currency : Currency, amount : FlowAmount]

\* Cashflows stay within their bound.
MayCall(op) == op.name = "record_cashflow" => db.flows[op.currency] + op.amount \in FlowTotal

\* What an operation does in its transaction: the reads that decide, then the writes.
Program ==
  [reserve             |-> <<"decide", "reservation">>,
   release             |-> <<"unreserve">>,
   record_order        |-> <<"order">>,
   reserve_sell        |-> <<"decide", "order">>,
   mark_order_terminal |-> <<"status", "unreserve">>,
   apply_fill          |-> <<"decide", "cash", "reservation", "fill", "status">>,
   record_cashflow     |-> <<"cash", "flow">>]

\* The first conjuncts are those of SleeveLedger.
ASSUME TxnAssumption ==
  /\ IsFiniteSet(Coid) /\ IsFiniteSet(OrderId) /\ NoId \notin OrderId
  /\ BaseCurrency \in Currency /\ Capital \in Nat
  /\ Attr \in [OrderId -> [coid : Coid, named : BOOLEAN, symbol : Symbol, side : Ledger!Side,
                           currency : Currency]]
  /\ Qty \subseteq Nat /\ Amount \subseteq Nat /\ Execution \subseteq Ledger!Snapshot
  /\ FlowAmount \subseteq Int /\ FlowTotal \subseteq Int /\ Day \subseteq Nat \ {0}
  /\ NoConn \notin Conn /\ CommitFails \subseteq DOMAIN Program

Immediate(op) == op.name \in {"reserve", "reserve_sell", "apply_fill", "record_cashflow"}

\* The operation goes on to its writes.  Otherwise it returns, or raises a regression.
Decides(d, op) ==
  CASE op.name = "reserve"      -> Tables(d)!CanReserve(op.coid, op.currency, op.amount)
    [] op.name = "reserve_sell" ->
         Tables(d)!CanSell(Attr[op.order].coid, Attr[op.order].symbol, op.qty)
    [] op.name = "apply_fill"   ->
         /\ op.snapshot.qty >= d.fills[op.order].qty
         /\ ~Tables(d)!SameExecution(d.fills[op.order], op.snapshot)

-------------------------------------------------------------------------------
\* The tables d after a statement of operation op.

WriteCash(d, op) ==
  [d EXCEPT !.cash = IF op.name = "apply_fill"
                     THEN Tables(d)!CashAfterFill(op.order, op.snapshot)
                     ELSE [d.cash EXCEPT ![op.currency] = @ + op.amount]]

WriteFlow(d, op) == [d EXCEPT !.flows[op.currency] = @ + op.amount]

Unreserve(d, op) == [d EXCEPT !.reserved[op.coid] = Ledger!NoReservation]

WriteReservation(d, op) ==
  IF op.name = "reserve"
  THEN [d EXCEPT !.reserved[op.coid] = [currency |-> op.currency, amount |-> op.amount]]
  ELSE LET c == Attr[op.order].coid
       IN  IF /\ Attr[op.order].named /\ Attr[op.order].side = "buy"
              /\ d.reserved[c] # Ledger!NoReservation
           THEN [d EXCEPT !.reserved[c] =
                   Tables(d)!ReservationAfterFill(c, op.order, op.snapshot)]
           ELSE d

WriteFill(d, op) == [d EXCEPT !.fills[op.order] = op.snapshot]

WriteOrderRow(d, op) ==
  LET a  == Attr[op.order]
      id == IF op.name = "record_order" THEN op.order ELSE NoId
  IN  [d EXCEPT !.orders = Tables(d)!WriteOrder(a.coid, id, a.symbol, a.side, a.currency, op.qty)]

\* (mutant) a row written where there is none
WriteStatusUpsert(d, op) ==
  LET c == IF op.name = "apply_fill" THEN Attr[op.order].coid ELSE op.coid
  IN  [d EXCEPT !.orders[c].status = IF op.name = "apply_fill" THEN "filled" ELSE op.status]

WriteStatus(d, op) ==
  LET c      == IF op.name = "apply_fill" THEN Attr[op.order].coid ELSE op.coid
      status == IF op.name = "apply_fill" THEN Tables(d)!FillStatus(c, op.snapshot) ELSE op.status
  IN  IF d.orders[c] = Ledger!NoOrder \/ (op.name = "apply_fill" /\ ~Attr[op.order].named)
      THEN d ELSE [d EXCEPT !.orders[c].status = status]

Written(d, op, statement) ==
  CASE statement = "decide"      -> d
    [] statement = "cash"        -> WriteCash(d, op)
    [] statement = "flow"        -> WriteFlow(d, op)
    [] statement = "reservation" -> WriteReservation(d, op)
    [] statement = "unreserve"   -> Unreserve(d, op)
    [] statement = "fill"        -> WriteFill(d, op)
    [] statement = "order"       -> WriteOrderRow(d, op)
    [] statement = "status"      -> WriteStatus(d, op)

-------------------------------------------------------------------------------
\* A transaction: the call that runs in it, its next statement, and the connection's view
\* of the tables.  An open one without a call was left behind by a call that has raised;
\* raised (history) says that it has writes of such a call.
NoTxn  == [call |-> [name |-> "closed"]]
NoCall == [name |-> "none"]
NoView == "none"

Open(p)    == txn[p] # NoTxn
Running(p) == Open(p) /\ txn[p].call # NoCall

Statement(p) == Program[txn[p].call.name][txn[p].next]
AtEnd(p)     == txn[p].next > Len(Program[txn[p].call.name])

\* What p sees: its own writes if it has made some, else the committed tables.
View(p) == IF lock = p THEN txn[p].view ELSE db

TxnTypeOK ==
  /\ Ledger!LedgerTypeOK
  /\ lock \in Conn \cup {NoConn}
  /\ \A p \in Conn : Open(p) =>
       /\ txn[p].call \in Operation \cup {NoCall}
       /\ lock = p => txn[p].view.reserved \in [Coid -> Ledger!Reservation \cup {Ledger!NoReservation}]

\* (mutant) BEGIN, which does not take the lock
GetsLockLater(p, op) == TRUE

\* The write lock is free, or p has it in a transaction that was left open, which
\* BEGIN IMMEDIATE does not accept.
GetsLock(p, op) == lock \in {NoConn, p} /\ (Open(p) => ~Immediate(op))

\* A call begins.  One that does not get the lock in time raises and has done nothing.
Begins(p, op) ==
  /\ ~Running(p) /\ MayCall(op) /\ GetsLock(p, op)
  /\ lock' = p
  /\ txn' = [txn EXCEPT ![p] = [call |-> op, next |-> 1, view |-> View(p),
                                raised |-> lock = p /\ txn[p].raised]]
  /\ UNCHANGED <<db, today>>

Executes(p) ==
  /\ Running(p) /\ ~AtEnd(p)
  /\ Statement(p) = "decide" => Decides(txn[p].view, txn[p].call)
  /\ txn' = [txn EXCEPT ![p].view = Written(@, txn[p].call, Statement(p)), ![p].next = @ + 1]
  /\ UNCHANGED <<db, lock, today>>

Closes(p) == lock' = NoConn /\ txn' = [txn EXCEPT ![p] = NoTxn]

\* return False, the early return of a repeated snapshot, or a regression raised: COMMIT or
\* ROLLBACK with nothing written.
Declines(p) ==
  /\ Running(p) /\ ~AtEnd(p) /\ Statement(p) = "decide"
  /\ ~Decides(txn[p].view, txn[p].call)
  /\ Closes(p)
  /\ UNCHANGED <<db, today>>

Commits(p) ==
  /\ Running(p) /\ AtEnd(p)
  /\ db' = txn[p].view
  /\ Closes(p)
  /\ UNCHANGED today

\* The call raises and its transaction stays open.
LeavesOpen(p) ==
  /\ txn' = [txn EXCEPT ![p].call = NoCall, ![p].raised = @ \/ txn[p].view # db]
  /\ UNCHANGED lock

\* (mutant) no ROLLBACK
RollsBackNot(p) == LeavesOpen(p)

RollsBack(p) == Closes(p)

\* A statement raises: _immediate() and "with self._conn" roll back.  release() does not;
\* of its only statement nothing is left, and no lock is held if none was before.
Raises(p) ==
  /\ Running(p) /\ ~AtEnd(p)
  /\ IF txn[p].call.name = "release"
     THEN IF txn[p].raised
          THEN LeavesOpen(p)
          ELSE txn' = [txn EXCEPT ![p].call = NoCall, ![p].view = NoView] /\ lock' = NoConn
     ELSE RollsBack(p)
  /\ UNCHANGED <<db, today>>

\* COMMIT raises.  "with self._conn" rolls back; _immediate(), where it is in the else
\* branch, and release() do not.
CommitRaises(p) ==
  /\ Running(p) /\ AtEnd(p) /\ txn[p].call.name \in CommitFails
  /\ IF Immediate(txn[p].call) \/ txn[p].call.name = "release" THEN LeavesOpen(p) ELSE RollsBack(p)
  /\ UNCHANGED <<db, today>>

\* The process dies, a new one takes its place; SQLite has rolled its transaction back.
Dies(p) ==
  /\ Open(p)
  /\ lock' = IF lock = p THEN NoConn ELSE lock
  /\ txn' = [txn EXCEPT ![p] = NoTxn]
  /\ UNCHANGED <<db, today>>

Midnight == today + 1 \in Day /\ today' = today + 1 /\ UNCHANGED <<db, lock, txn>>

TxnInit ==
  /\ db = [cash     |-> [cur \in Currency |-> IF cur = BaseCurrency THEN Capital ELSE 0],
           reserved |-> [c \in Coid |-> Ledger!NoReservation],
           orders   |-> [c \in Coid |-> Ledger!NoOrder],
           fills    |-> [o \in OrderId |-> Ledger!NoExecution],
           flows    |-> [cur \in Currency |-> 0]]
  /\ lock = NoConn
  /\ txn = [p \in Conn |-> NoTxn]
  /\ today = 1

TxnNext ==
  \/ \E p \in Conn :
        \/ \E op \in Operation : Begins(p, op)
        \/ Executes(p) \/ Declines(p) \/ Commits(p)
        \/ Raises(p) \/ CommitRaises(p) \/ Dies(p)
  \/ Midnight

TxnSpec == TxnInit /\ [][TxnNext]_txnVars

-------------------------------------------------------------------------------
\* Each transaction is one operation of SleeveLedger: no process sees, decides on or
\* overwrites a part of another's, whatever raises and whoever dies between two
\* statements, also when a decision was made on the day before the commit.  (_immediate)
ImplementsLedger == Ledger!LedgerSpec

\* What a call that raised has written is never committed, with a later call either.
\* (_immediate, "with self._conn")
RaisedLeavesNothing ==
  [][\A p \in Conn : Open(p) /\ txn[p].raised /\ txn'[p] = NoTxn => db' = db]_txnVars
===============================================================================

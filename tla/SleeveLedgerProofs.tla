-------------------------- MODULE SleeveLedgerProofs --------------------------
(***************************************************************************)
(* Theorems of SleeveLedger for every set of orders, currencies, amounts   *)
(* and snapshots: its types, where its cash comes from, and the hard cap   *)
(* at the moment of a grant.                                               *)
(***************************************************************************)
EXTENDS SleeveLedger, SumTheorems

\* What the other lemmas need of the constants.
LEMMA ConstantTypes ==
  /\ IsFiniteSet(Coid) /\ IsFiniteSet(OrderId)
  /\ NoId \notin OrderId /\ BaseCurrency \in Currency /\ Capital \in Nat
  /\ \A o \in OrderId : /\ Attr[o].coid \in Coid /\ Attr[o].symbol \in Symbol
                        /\ Attr[o].side \in Side /\ Attr[o].currency \in Currency
BY LedgerAssumption

\* The cash effect of a snapshot is an integer (signed_cash).
LEMMA SignedCashType ==
  ASSUME NEW o \in OrderId, NEW x, x.cost \in Nat, x.fee \in Nat
  PROVE  SignedCash(o, x) \in Int
BY DEF SignedCash

\* record_order and reserve_sell write a row of the table: the id of an earlier row is
\* there to be kept when the new one is blank.
LEMMA WriteOrderType ==
  ASSUME orders \in [Coid -> OrderRow \cup {NoOrder}],
         NEW c \in Coid, NEW id \in OrderId \cup {NoId}, NEW s \in Symbol, NEW side \in Side,
         NEW cur \in Currency, NEW qty \in Nat
  PROVE  WriteOrder(c, id, s, side, cur, qty) \in [Coid -> OrderRow \cup {NoOrder}]
<1>. DEFINE kept == IF id = NoId /\ orders[c] # NoOrder THEN orders[c].orderId ELSE id
            row  == [status |-> "pending", orderId |-> kept, symbol |-> s, side |-> side,
                     currency |-> cur, qty |-> qty]
<1>1. kept \in OrderId \cup {NoId}
  BY DEF OrderRow
<1>2. row \in OrderRow
  BY <1>1 DEF OrderRow, OpenStatus
<1>3. WriteOrder(c, id, s, side, cur, qty) = [orders EXCEPT ![c] = row]
  BY DEF WriteOrder
<1>. QED  BY <1>2, <1>3

\* A change of status leaves a row a row (mark_order_terminal, apply_fill).
LEMMA StatusType ==
  ASSUME orders \in [Coid -> OrderRow \cup {NoOrder}],
         NEW c \in Coid, NEW status \in OpenStatus \cup TerminalStatus
  PROVE  (IF orders[c] = NoOrder THEN orders ELSE [orders EXCEPT ![c].status = status])
           \in [Coid -> OrderRow \cup {NoOrder}]
<1>1. CASE orders[c] = NoOrder
  BY <1>1
<1>2. CASE orders[c] # NoOrder
  <2>1. orders[c] \in OrderRow
    BY <1>2
  <2>2. [orders[c] EXCEPT !.status = status] \in OrderRow
    BY <2>1 DEF OrderRow
  <2>3. [orders EXCEPT ![c].status = status] = [orders EXCEPT ![c] = [orders[c] EXCEPT !.status = status]]
    OBVIOUS
  <2>. QED  BY <1>2, <2>2, <2>3
<1>. QED  BY <1>1, <1>2

\* A settled fill leaves no negative reservation behind (_reservation_after_fill).
LEMMA ReservationAfterFillType ==
  ASSUME LedgerTypeOK, NEW c \in Coid, NEW o \in OrderId, NEW x \in Snapshot,
         reserved[c] # NoReservation
  PROVE  ReservationAfterFill(c, o, x) \in Reservation \cup {NoReservation}
<1>1. reserved[c] \in Reservation
  BY DEF LedgerTypeOK
<1>2. x.cost \in Nat /\ fills[o].cost \in Nat
  BY DEF LedgerTypeOK, Snapshot
<1>. DEFINE left == reserved[c].amount - (x.cost - fills[o].cost)
<1>3. left \in Int
  BY <1>1, <1>2 DEF Reservation
<1>4. ASSUME ~(left <= 0) PROVE [reserved[c] EXCEPT !.amount = left] \in Reservation
  <2>1. left \in Nat
    BY <1>3, <1>4
  <2>. HIDE DEF left
  <2>. QED  BY <1>1, <2>1 DEF Reservation
<1>5. ReservationAfterFill(c, o, x) = IF Complete(c, x) \/ left <= 0 THEN NoReservation
                                      ELSE [reserved[c] EXCEPT !.amount = left]
  BY DEF ReservationAfterFill
<1>. HIDE DEF left
<1>. QED  BY <1>4, <1>5

\* The ledger just created has the declared types.
LEMMA InitTyped == LedgerInit => LedgerTypeOK
BY LedgerAssumption DEF LedgerInit, LedgerTypeOK, NoExecution

\* reserve() grants an amount of money.
LEMMA ReserveTyped ==
  ASSUME LedgerTypeOK, NEW c \in Coid, NEW cur \in Currency, NEW amount \in Nat,
         Reserve(c, cur, amount)
  PROVE  LedgerTypeOK'
<1>1. [currency |-> cur, amount |-> amount] \in Reservation
  BY DEF Reservation
<1>. QED  BY <1>1 DEF Reserve, LedgerTypeOK

\* release() deletes a row.
LEMMA ReleaseTyped ==
  ASSUME LedgerTypeOK, NEW c \in Coid, Release(c)
  PROVE  LedgerTypeOK'
BY DEF Release, LedgerTypeOK

\* record_order() writes one.
LEMMA RecordOrderTyped ==
  ASSUME LedgerTypeOK, NEW c \in Coid, NEW id \in OrderId \cup {NoId}, NEW s \in Symbol,
         NEW side \in Side, NEW cur \in Currency, NEW qty \in Nat,
         RecordOrder(c, id, s, side, cur, qty)
  PROVE  LedgerTypeOK'
<1>1. orders' \in [Coid -> OrderRow \cup {NoOrder}]
  BY WriteOrderType DEF RecordOrder, LedgerTypeOK
<1>. QED  BY <1>1 DEF RecordOrder, LedgerTypeOK

\* reserve_sell() writes one without an id.
LEMMA ReserveSellTyped ==
  ASSUME LedgerTypeOK, NEW c \in Coid, NEW s \in Symbol, NEW cur \in Currency, NEW qty \in Nat,
         ReserveSell(c, s, cur, qty)
  PROVE  LedgerTypeOK'
<1>1. "sell" \in Side /\ NoId \in OrderId \cup {NoId}
  BY DEF Side
<1>2. orders' \in [Coid -> OrderRow \cup {NoOrder}]
  BY <1>1, WriteOrderType DEF ReserveSell, LedgerTypeOK
<1>. QED  BY <1>2 DEF ReserveSell, LedgerTypeOK

\* mark_order_terminal() changes the status of a row.
LEMMA MarkTyped ==
  ASSUME LedgerTypeOK, NEW c \in Coid, NEW status \in TerminalStatus, MarkOrderTerminal(c, status)
  PROVE  LedgerTypeOK'
<1>1. orders' \in [Coid -> OrderRow \cup {NoOrder}]
  BY StatusType DEF MarkOrderTerminal, LedgerTypeOK
<1>. QED  BY <1>1 DEF MarkOrderTerminal, LedgerTypeOK

\* apply_fill() settles a snapshot in four tables.
LEMMA ApplyFillTyped ==
  ASSUME LedgerTypeOK, NEW o \in OrderId, NEW x \in Snapshot, ApplyFill(o, x)
  PROVE  LedgerTypeOK'
<1>. DEFINE c == Attr[o].coid
<1>1. c \in Coid /\ Attr[o].currency \in Currency
  BY ConstantTypes
<1>2. fills' \in [OrderId -> [qty : Nat, cost : Nat, fee : Nat, settles : Nat]]
  BY DEF ApplyFill, LedgerTypeOK, Snapshot
<1>3. cash' \in [Currency -> Int]
  <2>1. SignedCash(o, x) \in Int /\ SignedCash(o, fills[o]) \in Int
    BY SignedCashType DEF LedgerTypeOK, Snapshot
  <2>2. cash' = CashAfterFill(o, x)
    BY DEF ApplyFill
  <2>. QED  BY <1>1, <2>1, <2>2 DEF CashAfterFill, LedgerTypeOK
<1>4. orders' \in [Coid -> OrderRow \cup {NoOrder}]
  <2>1. FillStatus(c, x) \in OpenStatus \cup TerminalStatus
    BY DEF FillStatus, OpenStatus, TerminalStatus
  <2>2. orders' = IF Attr[o].named /\ orders[c] # NoOrder
                  THEN [orders EXCEPT ![c].status = FillStatus(c, x)] ELSE orders
    BY DEF ApplyFill
  <2>. HIDE DEF c
  <2>. QED  BY <1>1, <2>1, <2>2, StatusType DEF LedgerTypeOK
<1>5. reserved' \in [Coid -> Reservation \cup {NoReservation}]
  <2>1. reserved' = IF Attr[o].named /\ Attr[o].side = "buy" /\ reserved[c] # NoReservation
                    THEN [reserved EXCEPT ![c] = ReservationAfterFill(c, o, x)]
                    ELSE reserved
    BY DEF ApplyFill
  <2>. HIDE DEF c
  <2>2. CASE Attr[o].named /\ Attr[o].side = "buy" /\ reserved[c] # NoReservation
    <3>1. ReservationAfterFill(c, o, x) \in Reservation \cup {NoReservation}
      BY <1>1, <2>2, ReservationAfterFillType
    <3>. QED  BY <2>1, <2>2, <3>1 DEF LedgerTypeOK
  <2>3. CASE ~(Attr[o].named /\ Attr[o].side = "buy" /\ reserved[c] # NoReservation)
    BY <2>1, <2>3 DEF LedgerTypeOK
  <2>. QED  BY <2>2, <2>3
<1>6. UNCHANGED <<flows, today>>
  BY DEF ApplyFill
<1>. QED  BY <1>2, <1>3, <1>4, <1>5, <1>6 DEF LedgerTypeOK

\* record_cashflow() moves an amount.
LEMMA CashflowTyped ==
  ASSUME LedgerTypeOK, NEW cur \in Currency, NEW amount \in Int, RecordCashflow(cur, amount)
  PROVE  LedgerTypeOK'
BY DEF RecordCashflow, LedgerTypeOK

\* Every operation, and a new day, keeps them.
LEMMA StepTyped == LedgerTypeOK /\ [LedgerNext]_ledgerVars => LedgerTypeOK'
<1>. SUFFICES ASSUME LedgerTypeOK, [LedgerNext]_ledgerVars PROVE LedgerTypeOK'
  OBVIOUS
<1>. USE LedgerAssumption
<1>1. ASSUME NEW c \in Coid, NEW cur \in Currency, NEW amount \in Amount, Reserve(c, cur, amount)
      PROVE  LedgerTypeOK'
  BY <1>1, ReserveTyped
<1>2. ASSUME NEW c \in Coid, Release(c) PROVE LedgerTypeOK'
  BY <1>2, ReleaseTyped
<1>3. ASSUME NEW o \in OrderId, NEW blank \in BOOLEAN, NEW qty \in Qty,
             RecordOrder(Attr[o].coid, IF blank THEN NoId ELSE o, Attr[o].symbol, Attr[o].side,
                         Attr[o].currency, qty)
      PROVE  LedgerTypeOK'
  <2>1. qty \in Nat /\ (IF blank THEN NoId ELSE o) \in OrderId \cup {NoId}
    OBVIOUS
  <2>. QED  BY <1>3, <2>1, ConstantTypes, RecordOrderTyped
<1>4. ASSUME NEW o \in OrderId, NEW qty \in Qty, Attr[o].side = "sell",
             ReserveSell(Attr[o].coid, Attr[o].symbol, Attr[o].currency, qty)
      PROVE  LedgerTypeOK'
  BY <1>4, ConstantTypes, ReserveSellTyped
<1>5. ASSUME NEW c \in Coid, NEW status \in TerminalStatus, MarkOrderTerminal(c, status)
      PROVE  LedgerTypeOK'
  BY <1>5, MarkTyped
<1>6. ASSUME NEW o \in OrderId, NEW x \in Execution, ApplyFill(o, x) PROVE LedgerTypeOK'
  BY <1>6, ApplyFillTyped
<1>7. ASSUME NEW cur \in Currency, NEW amount \in FlowAmount, RecordCashflow(cur, amount)
      PROVE  LedgerTypeOK'
  BY <1>7, CashflowTyped
<1>8. CASE NextDay
  BY <1>8 DEF NextDay, LedgerTypeOK
<1>9. CASE UNCHANGED ledgerVars
  BY <1>9 DEF ledgerVars, LedgerTypeOK
<1>. QED  BY <1>1, <1>2, <1>3, <1>4, <1>5, <1>6, <1>7, <1>8, <1>9 DEF LedgerNext

\* The tables of the ledger keep their types: amounts of money that are reserved are
\* never negative, a row keeps its id, a snapshot is one that was reported.
THEOREM LedgerTyping == LedgerSpec => []LedgerTypeOK
BY InitTyped, StepTyped, PTL DEF LedgerSpec

-------------------------------------------------------------------------------
\* What apply_fill does to the cash of a currency and to the sum of the snapshots that
\* explain it: both grow by the difference of the order's two snapshots, in the
\* currency of the order, and nothing happens in another one.
LEMMA FillConserves ==
  ASSUME LedgerTypeOK, NEW o \in OrderId, NEW x \in Snapshot, ApplyFill(o, x),
         NEW cur \in Currency, LedgerTypeOK'
  PROVE  cash'[cur] - cash[cur] = SettledCash(cur)' - SettledCash(cur)
<1>. DEFINE f == [p \in OrderId |-> IF Attr[p].currency = cur THEN SignedCash(p, fills[p]) ELSE 0]
            g == [p \in OrderId |-> IF Attr[p].currency = cur THEN SignedCash(p, fills'[p]) ELSE 0]
<1>1. SettledCash(cur) = SumFunctionOnSet(f, OrderId)
  BY DEF SettledCash
<1>2. SettledCash(cur)' = SumFunctionOnSet(g, OrderId)
  BY DEF SettledCash, SignedCash
<1>3. \A p \in OrderId : SignedCash(p, fills[p]) \in Int /\ SignedCash(p, fills'[p]) \in Int
  BY SignedCashType DEF LedgerTypeOK
<1>4. \A p \in OrderId : f[p] \in Int /\ g[p] \in Int
  BY <1>3
<1>5. fills' = [fills EXCEPT ![o] = x] /\ fills \in [OrderId -> [qty : Nat, cost : Nat, fee : Nat, settles : Nat]]
  BY DEF ApplyFill, LedgerTypeOK
<1>6. \A p \in OrderId \ {o} : g[p] = f[p]
  BY <1>5
<1>7. f[o] = IF Attr[o].currency = cur THEN SignedCash(o, fills[o]) ELSE 0
  OBVIOUS
<1>8. g[o] = IF Attr[o].currency = cur THEN SignedCash(o, x) ELSE 0
  BY <1>5
<1>9. SumFunctionOnSet(f, OrderId) \in Int
  <2>. HIDE DEF f, g
  <2>. QED  BY <1>4, ConstantTypes, SumType
<1>10. SumFunctionOnSet(g, OrderId) = SumFunctionOnSet(f, OrderId) - f[o] + g[o]
  <2>. HIDE DEF f, g
  <2>. QED  BY <1>4, <1>6, ConstantTypes, SumUpdate
<1>11. cash'[cur] = IF Attr[o].currency = cur
                    THEN cash[cur] + SignedCash(o, x) - SignedCash(o, fills[o]) ELSE cash[cur]
  BY ConstantTypes DEF ApplyFill, CashAfterFill, LedgerTypeOK
<1>12. cash[cur] \in Int /\ SignedCash(o, x) \in Int /\ SignedCash(o, fills[o]) \in Int
  BY <1>3, <1>5 DEF LedgerTypeOK
<1>. HIDE DEF f, g
<1>13. CASE Attr[o].currency = cur
  BY <1>1, <1>2, <1>7, <1>8, <1>9, <1>10, <1>11, <1>12, <1>13
<1>14. CASE Attr[o].currency # cur
  BY <1>1, <1>2, <1>7, <1>8, <1>9, <1>10, <1>11, <1>12, <1>14
<1>. QED  BY <1>13, <1>14

\* What the snapshots explain depends on them alone.
LEMMA SettledCashKept ==
  ASSUME fills' = fills, NEW cur
  PROVE  SettledCash(cur)' = SettledCash(cur)
BY DEF SettledCash, SignedCash

\* What explains the cash of a currency is an integer.
LEMMA SettledCashType ==
  ASSUME fills \in [OrderId -> [qty : Nat, cost : Nat, fee : Nat, settles : Nat]],
         NEW cur \in Currency
  PROVE  SettledCash(cur) \in Int
<1>. DEFINE f == [p \in OrderId |-> IF Attr[p].currency = cur THEN SignedCash(p, fills[p]) ELSE 0]
<1>1. \A p \in OrderId : f[p] \in Int
  BY SignedCashType
<1>2. SettledCash(cur) = SumFunctionOnSet(f, OrderId)
  BY DEF SettledCash
<1>. HIDE DEF f
<1>. QED  BY <1>1, <1>2, ConstantTypes, SumType

\* A ledger just created holds its capital and nothing else.
LEMMA InitConserved == LedgerInit => CashConserved
<1>. SUFFICES ASSUME LedgerInit, NEW cur \in Currency
              PROVE  cash[cur] = Allocated(cur) + flows[cur] + SettledCash(cur)
  BY DEF CashConserved
<1>. DEFINE f == [p \in OrderId |-> IF Attr[p].currency = cur THEN SignedCash(p, fills[p]) ELSE 0]
<1>1. \A p \in OrderId : f[p] = 0
  <2>1. \A p \in OrderId : fills[p].cost = 0 /\ fills[p].fee = 0
    BY DEF LedgerInit, NoExecution
  <2>2. \A p \in OrderId : SignedCash(p, fills[p]) = 0
    BY <2>1 DEF SignedCash
  <2>. QED  BY <2>2
<1>2. SettledCash(cur) = SumFunctionOnSet(f, OrderId)
  BY DEF SettledCash
<1>. HIDE DEF f
<1>3. SettledCash(cur) = 0
  BY <1>1, <1>2, ConstantTypes, SumZero
<1>. QED  BY <1>3, ConstantTypes DEF LedgerInit, Allocated

\* Only a fill and a cashflow touch what cash is made of.
LEMMA CashMoves ==
  ASSUME [LedgerNext]_ledgerVars
  PROVE  \/ UNCHANGED <<cash, flows, fills>>
         \/ \E o \in OrderId, x \in Execution : ApplyFill(o, x)
         \/ \E cur \in Currency, amount \in FlowAmount : RecordCashflow(cur, amount)
<1>1. \A c, cur, amount : Reserve(c, cur, amount) => UNCHANGED <<cash, flows, fills>>
  BY DEF Reserve
<1>2. \A c : Release(c) => UNCHANGED <<cash, flows, fills>>
  BY DEF Release
<1>3. \A c, id, s, side, cur, qty :
        RecordOrder(c, id, s, side, cur, qty) => UNCHANGED <<cash, flows, fills>>
  BY DEF RecordOrder
<1>4. \A c, s, cur, qty : ReserveSell(c, s, cur, qty) => UNCHANGED <<cash, flows, fills>>
  BY DEF ReserveSell
<1>5. \A c, status : MarkOrderTerminal(c, status) => UNCHANGED <<cash, flows, fills>>
  BY DEF MarkOrderTerminal
<1>6. NextDay \/ UNCHANGED ledgerVars => UNCHANGED <<cash, flows, fills>>
  BY DEF NextDay, ledgerVars
<1>. QED  BY <1>1, <1>2, <1>3, <1>4, <1>5, <1>6, Zenon DEF LedgerNext

\* A fill and a cashflow move what explains the cash by as much as they move the cash.
LEMMA CashKept ==
  ASSUME LedgerTypeOK, LedgerTypeOK', CashConserved,
         \/ UNCHANGED <<cash, flows, fills>>
         \/ \E o \in OrderId, x \in Snapshot : ApplyFill(o, x)
         \/ \E cur \in Currency, amount \in FlowAmount : RecordCashflow(cur, amount)
  PROVE  CashConserved'
<1>. SUFFICES ASSUME NEW cur \in Currency
              PROVE  cash'[cur] = Allocated(cur) + flows'[cur] + SettledCash(cur)'
  BY DEF CashConserved, Allocated
<1>1. /\ cash[cur] \in Int /\ cash'[cur] \in Int /\ flows[cur] \in Int
      /\ Allocated(cur) \in Int /\ SettledCash(cur) \in Int
  BY SettledCashType, ConstantTypes DEF LedgerTypeOK, Allocated
<1>2. SettledCash(cur)' \in Int
  <2>. DEFINE f == [p \in OrderId |-> IF Attr[p].currency = cur THEN SignedCash(p, fills'[p]) ELSE 0]
  <2>1. \A p \in OrderId : f[p] \in Int
    BY SignedCashType DEF LedgerTypeOK
  <2>2. SettledCash(cur)' = SumFunctionOnSet(f, OrderId)
    BY DEF SettledCash, SignedCash
  <2>. HIDE DEF f
  <2>. QED  BY <2>1, <2>2, ConstantTypes, SumType
<1>3. cash[cur] = Allocated(cur) + flows[cur] + SettledCash(cur)
  BY DEF CashConserved
<1>4. CASE UNCHANGED <<cash, flows, fills>>
  BY <1>3, <1>4, SettledCashKept
<1>5. ASSUME NEW o \in OrderId, NEW x \in Snapshot, ApplyFill(o, x)
      PROVE  cash'[cur] = Allocated(cur) + flows'[cur] + SettledCash(cur)'
  <2>1. cash'[cur] - cash[cur] = SettledCash(cur)' - SettledCash(cur)
    BY <1>5, FillConserves
  <2>2. flows'[cur] = flows[cur]
    BY <1>5 DEF ApplyFill
  <2>3. cash'[cur] = cash[cur] + (SettledCash(cur)' - SettledCash(cur))
    BY <1>1, <1>2, <2>1
  <2>. QED  BY <1>1, <1>2, <1>3, <2>2, <2>3
<1>6. ASSUME NEW other \in Currency, NEW amount \in FlowAmount, RecordCashflow(other, amount)
      PROVE  cash'[cur] = Allocated(cur) + flows'[cur] + SettledCash(cur)'
  <2>1. SettledCash(cur)' = SettledCash(cur)
    BY <1>6, SettledCashKept DEF RecordCashflow
  <2>2. amount \in Int
    BY LedgerAssumption
  <2>3. \/ cash'[cur] = cash[cur] /\ flows'[cur] = flows[cur]
        \/ cash'[cur] = cash[cur] + amount /\ flows'[cur] = flows[cur] + amount
    BY <1>6 DEF RecordCashflow, LedgerTypeOK
  <2>. QED  BY <1>1, <1>3, <2>1, <2>2, <2>3
<1>. QED  BY <1>4, <1>5, <1>6

\* Nothing else moves cash.
LEMMA StepConserved ==
  LedgerTypeOK /\ LedgerTypeOK' /\ CashConserved /\ [LedgerNext]_ledgerVars => CashConserved'
<1>1. Execution \subseteq Snapshot
  BY LedgerAssumption
<1>. QED  BY <1>1, CashMoves, CashKept

\* Cash is always what was allocated, what flowed in and out, and the last snapshot of
\* every order, whatever polls were repeated, skipped or corrected (apply_fill settles
\* differences).
THEOREM CashConservation == LedgerSpec => []CashConserved
<1>1. LedgerInit => CashConserved
  BY InitConserved
<1>2. LedgerTypeOK /\ LedgerTypeOK' /\ CashConserved /\ [LedgerNext]_ledgerVars => CashConserved'
  BY StepConserved
<1>. QED  BY <1>1, <1>2, LedgerTyping, PTL DEF LedgerSpec

-------------------------------------------------------------------------------
\* What a client order id holds in a currency is a natural number.
LEMMA HeldByType ==
  ASSUME LedgerTypeOK, NEW c \in Coid, NEW cur \in Currency
  PROVE  HeldBy(c, cur) \in Nat
BY DEF HeldBy, LedgerTypeOK, Reservation

\* Writing or deleting one reservation changes the total by that reservation.
LEMMA ReservedTotalUpdate ==
  ASSUME LedgerTypeOK, LedgerTypeOK', NEW c \in Coid, NEW cur \in Currency,
         \A d \in Coid \ {c} : reserved'[d] = reserved[d]
  PROVE  /\ ReservedTotal(cur) \in Int
         /\ ReservedTotal(cur)' = ReservedTotal(cur) - HeldBy(c, cur) + HeldBy(c, cur)'
<1>. DEFINE f == [d \in Coid |-> HeldBy(d, cur)]
            g == [d \in Coid |-> HeldBy(d, cur)']
<1>1. ReservedTotal(cur) = SumFunctionOnSet(f, Coid) /\ ReservedTotal(cur)' = SumFunctionOnSet(g, Coid)
  BY DEF ReservedTotal
<1>2. \A d \in Coid : HeldBy(d, cur)' \in Nat
  BY DEF HeldBy, LedgerTypeOK, Reservation
<1>3. \A d \in Coid : f[d] \in Int /\ g[d] \in Int
  BY <1>2, HeldByType
<1>4. \A d \in Coid \ {c} : g[d] = f[d]
  BY DEF HeldBy
<1>5. f[c] = HeldBy(c, cur) /\ g[c] = HeldBy(c, cur)'
  OBVIOUS
<1>. HIDE DEF f, g
<1>6. SumFunctionOnSet(f, Coid) \in Int
  BY <1>3, ConstantTypes, SumType
<1>7. SumFunctionOnSet(g, Coid) = SumFunctionOnSet(f, Coid) - f[c] + g[c]
  <2>1. IsFiniteSet(Coid)
    BY ConstantTypes
  <2>. QED  BY <1>3, <1>4, <2>1, SumUpdate
<1>. QED  BY <1>1, <1>5, <1>6, <1>7

\* The settlement pending in a currency is an integer.
LEMMA SettlementPendingType ==
  ASSUME LedgerTypeOK, NEW cur \in Currency
  PROVE  SettlementPending(cur) \in Int
<1>. DEFINE f == [o \in OrderId |-> IF Unsettled(o, cur) THEN SignedCash(o, fills[o]) ELSE 0]
<1>1. \A o \in OrderId : f[o] \in Int
  BY SignedCashType DEF LedgerTypeOK
<1>2. SettlementPending(cur) = SumFunctionOnSet(f, OrderId)
  BY DEF SettlementPending
<1>. HIDE DEF f
<1>. QED  BY <1>1, <1>2, ConstantTypes, SumType

\* reserve() that grants: in the currency of the grant the cash available afterwards is
\* what the check found, less the amount.
LEMMA GrantLeavesCash ==
  ASSUME LedgerTypeOK, LedgerTypeOK', NEW c \in Coid, NEW cur \in Currency,
         NEW amount \in Nat, Reserve(c, cur, amount)
  PROVE  Available(cur)' >= 0
<1>1. /\ amount <= cash[cur] - ReservedTotal(cur) - SettlementPending(cur) + HeldBy(c, cur)
      /\ reserved' = [reserved EXCEPT ![c] = [currency |-> cur, amount |-> amount]]
      /\ UNCHANGED <<cash, fills, today>>
  BY DEF Reserve, CanReserve, Available
<1>2. reserved'[c] = [currency |-> cur, amount |-> amount] /\ \A d \in Coid \ {c} : reserved'[d] = reserved[d]
  BY <1>1 DEF LedgerTypeOK
<1>3. HeldBy(c, cur)' \in {amount, 0}
  BY <1>2 DEF HeldBy
<1>4. /\ ReservedTotal(cur) \in Int
      /\ ReservedTotal(cur)' = ReservedTotal(cur) - HeldBy(c, cur) + HeldBy(c, cur)'
  BY <1>2, ReservedTotalUpdate
<1>5. SettlementPending(cur)' = SettlementPending(cur)
  BY <1>1 DEF SettlementPending, Unsettled, SignedCash
<1>6. cash[cur] \in Int /\ SettlementPending(cur) \in Int /\ HeldBy(c, cur) \in Nat
  BY SettlementPendingType, HeldByType DEF LedgerTypeOK
<1>7. Available(cur)' = cash[cur] - ReservedTotal(cur)' - SettlementPending(cur)
  BY <1>1, <1>5 DEF Available
<1>. QED  BY <1>1, <1>3, <1>4, <1>6, <1>7

\* The total of another currency can only shrink: the client order id may have held
\* something there.
LEMMA GrantKeepsCap ==
  ASSUME LedgerTypeOK, LedgerTypeOK', NEW c \in Coid, NEW paid \in Currency,
         NEW amount \in Amount, Reserve(c, paid, amount), NEW cur \in Currency,
         ReservedTotal(cur)' > ReservedTotal(cur)
  PROVE  Available(cur)' >= 0
<1>1. amount \in Nat
  BY LedgerAssumption
<1>2. reserved'[c] = [currency |-> paid, amount |-> amount] /\ \A d \in Coid \ {c} : reserved'[d] = reserved[d]
  BY DEF Reserve, LedgerTypeOK
<1>3. cur # paid => HeldBy(c, cur)' = 0
  BY <1>2 DEF HeldBy
<1>4. /\ ReservedTotal(cur) \in Int /\ HeldBy(c, cur) \in Nat
      /\ ReservedTotal(cur)' = ReservedTotal(cur) - HeldBy(c, cur) + HeldBy(c, cur)'
  BY <1>2, ReservedTotalUpdate, HeldByType
<1>5. cur = paid
  BY <1>3, <1>4
<1>. QED  BY <1>1, <1>5, GrantLeavesCash

\* No other operation that settles nothing raises what is reserved.
LEMMA OnlyGrantsReserve ==
  ASSUME LedgerTypeOK, LedgerTypeOK', [LedgerNext]_ledgerVars, fills' = fills,
         NEW cur \in Currency, ReservedTotal(cur)' > ReservedTotal(cur)
  PROVE  \E c \in Coid, paid \in Currency, amount \in Amount : Reserve(c, paid, amount)
<1>1. reserved' # reserved
  <2>1. ASSUME reserved' = reserved PROVE ReservedTotal(cur)' = ReservedTotal(cur)
    BY <2>1 DEF ReservedTotal, HeldBy
  <2>2. ReservedTotal(cur) \in Int
    <3>. DEFINE f == [d \in Coid |-> HeldBy(d, cur)]
    <3>1. \A d \in Coid : f[d] \in Int
      BY HeldByType
    <3>2. ReservedTotal(cur) = SumFunctionOnSet(f, Coid)
      BY DEF ReservedTotal
    <3>. HIDE DEF f
    <3>. QED  BY <3>1, <3>2, ConstantTypes, SumType
  <2>. QED  BY <2>1, <2>2
<1>2. ASSUME NEW c \in Coid, reserved' = [reserved EXCEPT ![c] = NoReservation] PROVE FALSE
  <2>1. reserved'[c] = NoReservation /\ \A d \in Coid \ {c} : reserved'[d] = reserved[d]
    BY <1>2 DEF LedgerTypeOK
  <2>2. HeldBy(c, cur)' = 0
    BY <2>1 DEF HeldBy
  <2>3. HeldBy(c, cur) \in Nat
    BY HeldByType
  <2>. QED  BY <2>1, <2>2, <2>3, ReservedTotalUpdate
<1>3. ASSUME NEW o \in OrderId, NEW x, ApplyFill(o, x) PROVE FALSE
  <2>1. fills' = [fills EXCEPT ![o] = x] /\ ~SameExecution(fills[o], x)
    BY <1>3 DEF ApplyFill
  <2>2. fills[o] = x
    BY <2>1 DEF LedgerTypeOK
  <2>. QED  BY <2>1, <2>2 DEF SameExecution
<1>4. \A c : Release(c) => reserved' = [reserved EXCEPT ![c] = NoReservation]
  BY DEF Release
<1>5. \A c, status : MarkOrderTerminal(c, status) => reserved' = [reserved EXCEPT ![c] = NoReservation]
  BY DEF MarkOrderTerminal
<1>6. \A c, id, s, side, k, qty : RecordOrder(c, id, s, side, k, qty) => reserved' = reserved
  BY DEF RecordOrder
<1>7. \A c, s, k, qty : ReserveSell(c, s, k, qty) => reserved' = reserved
  BY DEF ReserveSell
<1>8. \A k, amount : RecordCashflow(k, amount) => reserved' = reserved
  BY DEF RecordCashflow
<1>9. NextDay \/ UNCHANGED ledgerVars => reserved' = reserved
  BY DEF NextDay, ledgerVars
<1>. QED  BY <1>1, <1>2, <1>3, <1>4, <1>5, <1>6, <1>7, <1>8, <1>9, Zenon DEF LedgerNext

\* The hard cap at the moment of a grant: whenever a reservation is granted, also to a
\* client order id that already holds one, in the same currency or another, the cash
\* of that currency covers all that is reserved and all that has not settled.
THEOREM GrantsStayWithinCap == LedgerSpec => GrantsWithinCap
<1>1. LedgerTypeOK /\ LedgerTypeOK' /\ [LedgerNext]_ledgerVars =>
        [\A cur \in Currency : fills' = fills /\ ReservedTotal(cur)' > ReservedTotal(cur)
                                 => Available(cur)' >= 0]_ledgerVars
  BY OnlyGrantsReserve, GrantKeepsCap
<1>. QED  BY <1>1, LedgerTyping, PTL DEF LedgerSpec, GrantsWithinCap
===============================================================================

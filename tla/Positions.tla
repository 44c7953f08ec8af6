------------------------------- MODULE Positions -------------------------------
(***************************************************************************)
(* The position of the sleeve in one symbol: its net quantity and its      *)
(* moving average cost, which positions() computes from nothing but the    *)
(* last snapshot of each order, in the order of filled_at.  A snapshot has *)
(* only the time of the last execution it counts, so the snapshots need    *)
(* not be in the order in which the executions happened.                   *)
(***************************************************************************)
EXTENDS Integers, Sequences, FiniteSetsExt, Functions, Ticks

CONSTANTS
  Order,      \* order ids; they compare like numbers
  SideOf,     \* the side of each order
  Size,       \* the quantity of each order
  Price,      \* unit prices of executions, by side
  Untimed,    \* orders whose executions may lack filledAt, which is time 0 then
  MaxTime     \* bound: times of executions

ASSUME PositionAssumption ==
  /\ Order \subseteq Nat /\ IsFiniteSet(Order) /\ Untimed \subseteq Order /\ MaxTime \in Nat
  /\ SideOf \in [Order -> {"buy", "sell"}] /\ Size \in [Order -> Nat]
  /\ DOMAIN Price = {"buy", "sell"} /\ \A side \in DOMAIN Price : Price[side] \subseteq Nat \ {0}

VARIABLES
  trades,  \* the executions at the exchange, one unit each, as they happened
  seen     \* how many executions of each order its last snapshot counts

positionVars == <<trades, seen>>

Executions(o) == {i \in DOMAIN trades : trades[i].order = o}

\* The executions of o that its snapshot counts: its first ones.
Seen(o) == {i \in Executions(o) : Cardinality({j \in Executions(o) : j <= i}) <= seen[o]}

\* The Fill of an order ...
Snapshot(o) ==
  [side |-> SideOf[o], qty |-> seen[o],
   cost |-> SumFunctionOnSet([i \in DOMAIN trades |-> trades[i].price], Seen(o))]

\* ... and its filled_at.
FilledAt(o) == trades[Max(Seen(o))].at

\* (mutant) snapshots in the order of their ids
EarlierById(o, p) == o < p

Earlier(o, p) == FilledAt(o) < FilledAt(p) \/ (FilledAt(o) = FilledAt(p) /\ o < p)

\* The order whose snapshot comes last.
Latest(orders) == CHOOSE o \in orders : \A p \in orders \ {o} : Earlier(p, o)

\* [net_qty, buy_cost, buy_qty]; buy_cost is the fraction cost / over.
Slot == [net : Int, cost : Nat, over : Nat \ {0}, qty : Nat]

EmptySlot == [net |-> 0, cost |-> 0, over |-> 1, qty |-> 0]

Buys(slot, f) ==
  [slot EXCEPT !.net = @ + f.qty, !.cost = @ + f.cost * slot.over, !.qty = @ + f.qty]

\* (mutant) no more sold than was bought before
SellsTracked(slot, f) ==
  LET left == slot.qty - Min({f.qty, slot.qty})
  IN  IF left = 0 THEN EmptySlot
      ELSE [net |-> left, cost |-> slot.cost * left, over |-> slot.over * slot.qty, qty |-> left]

\* (mutant) the basis less the proceeds
SellsAtProceeds(slot, f) ==
  LET left == slot.qty - Min({f.qty, slot.qty})
      net  == slot.net - f.qty
  IN  IF net <= 0 \/ left = 0
      THEN [EmptySlot EXCEPT !.net = net]
      ELSE [slot EXCEPT !.net = net, !.cost = @ - f.cost * slot.over, !.qty = left]

\* A sale takes its quantity out at the average: buy_cost - average x removed, which is
\* buy_cost x (buy_qty - removed) / buy_qty.  A position that is closed starts afresh.
Sells(slot, f) ==
  LET left == slot.qty - Min({f.qty, slot.qty})
      net  == slot.net - f.qty
  IN  IF net <= 0 \/ left = 0
      THEN [EmptySlot EXCEPT !.net = net]
      ELSE [net |-> net, cost |-> slot.cost * left, over |-> slot.over * slot.qty, qty |-> left]

Applies(f, slot) == IF f.side = "buy" THEN Buys(slot, f) ELSE Sells(slot, f)

Filled == {o \in Order : seen[o] > 0}

\* Every snapshot is applied to the position of those before it.
Position == MapThenFoldSet(Applies, EmptySlot, Snapshot, Latest, Filled)

Held     == Position.net > 0
Quantity == IF Held THEN Position.net ELSE 0

\* avg_price of a position that is held, as a fraction.
Average == [num |-> Position.cost, den |-> Position.over * Position.qty]

-------------------------------------------------------------------------------
\* The environment (external).
Now == Max({1} \cup {trades[i].at : i \in DOMAIN trades})

Times(o) ==
  {at \in {Now, Now + 1} : at <= MaxTime} \cup (IF o \in Untimed THEN {0} ELSE {})

SeenBy(side) == SumFunctionOnSet(seen, {o \in Order : SideOf[o] = side})

SoldUnits == Cardinality({i \in DOMAIN trades : SideOf[trades[i].order] = "sell"})

\* An order executes one unit.  What is sold is in the ledger's position before.
Executes(o, price, at) ==
  /\ Cardinality(Executions(o)) < Size[o]
  /\ SideOf[o] = "sell" => SoldUnits < SeenBy("buy")
  /\ trades' = Append(trades, [order |-> o, price |-> price, at |-> at])
  /\ UNCHANGED seen

\* A snapshot reaches apply_fill(), which takes none that counts less.
Polls(o) ==
  /\ \E n \in (seen[o] + 1) .. Cardinality(Executions(o)) : seen' = [seen EXCEPT ![o] = n]
  /\ UNCHANGED trades

PositionInit == trades = <<>> /\ seen = [o \in Order |-> 0]

PositionNext ==
  \E o \in Order :
    \/ \E price \in Price[SideOf[o]], at \in Times(o) : Executes(o, price, at)
    \/ Polls(o)

PositionSpec == PositionInit /\ [][PositionNext]_positionVars

-------------------------------------------------------------------------------
\* Properties.

\* The quantity is what was bought less what was sold, in whatever order the times put the
\* snapshots, a sale before its purchase included: the sell guard depends on it.
\* (_position_rows, position_quantity)
QuantityIsNet == Position.net = SeenBy("buy") - SeenBy("sell")

BuyPrices == {trades[i].price : i \in UNION {Seen(o) : o \in {p \in Order : SideOf[p] = "buy"}}}

\* A position that is held has an average between the lowest and the highest price paid,
\* never 0 and never one that a sale has moved out of them.
AverageWithinPrices ==
  Held => /\ Average.den > 0
          /\ Min(BuyPrices) * Average.den <= Average.num
          /\ Average.num <= Max(BuyPrices) * Average.den

\* The snapshots' executions one by one, as they happened: the reference.
OneMore(i, state) ==
  IF SideOf[trades[i].order] = "buy"
  THEN [state EXCEPT !.qty = @ + 1, !.num = @ + trades[i].price * state.den]
  ELSE IF state.qty = 1 THEN [qty |-> 0, num |-> 0, den |-> 1]
  ELSE [qty |-> state.qty - 1, num |-> state.num * (state.qty - 1), den |-> state.den * state.qty]

Visible == UNION {Seen(o) : o \in Order}

OneByOne == MapThenFoldSet(OneMore, [qty |-> 0, num |-> 0, den |-> 1], LAMBDA i : i, Max, Visible)

\* No order's executions lie between another's, and the times tell them apart.
Apart ==
  \A i, j \in Visible :
    i < j /\ trades[i].order # trades[j].order =>
      /\ trades[i].at < trades[j].at
      /\ \A k \in Seen(trades[i].order) : k < j

\* The average is that of the executions one by one, so a position that was closed does not
\* weigh on the next one, as long as no order's executions lie between another's.
AverageIsMoving ==
  Held /\ Apart => /\ Position.net = OneByOne.qty
                   /\ Average.num * OneByOne.den * OneByOne.qty = OneByOne.num * Average.den

AveragePrice == (Average.num * Unit) \div Average.den

\* The average of a position snaps to the best prices the exchange takes on either side of
\* it, compared with the whole won and the cents around it.  (snap_down, snap_up)
AverageSnaps ==
  Held =>
    LET won  == AveragePrice \div Unit
        cent == AveragePrice \div Cent
    IN  /\ SnapsWell(AveragePrice, "KRW", {w * Unit : w \in (won - 6) .. (won + 6)})
        /\ SnapsWell(AveragePrice, "USD", {c * Cent : c \in (cent - 2) .. (cent + 2)})
===============================================================================

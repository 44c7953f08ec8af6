----------------------------- MODULE MCTossBroker -----------------------------
(***************************************************************************)
(* Instances of TossBroker.  Client order ids and order ids are paired:    *)
(* h stands for the holdings of the sleeve, bought before the run; s1 and  *)
(* s2 sell them, b1 buys at a limit and b2 by amount.                      *)
(***************************************************************************)
EXTENDS TossBroker, TLC

CONSTANTS h, s1, s2, b1, b2, oh, os1, os2, ob1, ob2, A, B, KRW, w1, w2, t1, t2

Coids(o) == CASE o = oh -> h [] o = os1 -> s1 [] o = os2 -> s2 [] o = ob1 -> b1 [] o = ob2 -> b2

Buy(qty, price)  == [symbol |-> A, side |-> "buy", currency |-> KRW,
                     qty |-> qty, price |-> price, amount |-> 0]
BuyFor(amount)   == [symbol |-> A, side |-> "buy", currency |-> KRW,
                     qty |-> 0, price |-> 0, amount |-> amount]
Sell(qty)        == [symbol |-> A, side |-> "sell", currency |-> KRW,
                     qty |-> qty, price |-> 0, amount |-> 0]

AttrOf(requests) ==
  [o \in OrderId |-> [coid |-> Coids(o), named |-> TRUE, symbol |-> requests[Coids(o)].symbol,
                      side |-> requests[Coids(o)].side,
                      currency |-> requests[Coids(o)].currency]]

Held(qty) == oh :> [qty |-> qty, cost |-> qty, fee |-> 0, settles |-> 0]

MCFlowTotal  == -1 .. 0
MCFlowAmount == {-1}

\* A withdrawal of some of the cash, or of what the capital and the sale leave after fees.
CashFlowTotal  == {-4, -1, 0}
CashFlowAmount == {-4, -1}

\* Two sales that together sell more than is held.
SellRequest == (h :> Buy(2, 1)) @@ (s1 :> Sell(2)) @@ (s2 :> Sell(2))
SellAttr    == AttrOf(SellRequest)
SellSeed    == Held(2)

\* A purchase that the sale of the holdings pays for once it has settled.
SettleRequest == (h :> Buy(1, 1)) @@ (s1 :> Sell(1)) @@ (b1 :> Buy(1, 2))
SettleAttr    == AttrOf(SettleRequest)
SettleSeed    == Held(1)

\* One sale of which a part may trade, placed again and again.
RetryRequest == (h :> Buy(2, 1)) @@ (s1 :> Sell(2))
RetryAttr    == AttrOf(RetryRequest)

\* A sale, and a purchase in two parts that needs all the capital unless it trades below
\* its limit, the sale has settled, or the sleeve has withdrawn some of it.
CashRequest == (h :> Buy(1, 1)) @@ (s1 :> Sell(1)) @@ (b1 :> Buy(2, 2))
CashAttr    == AttrOf(CashRequest)

\* A purchase in two parts without fees, and one by amount with a late fee.
PollRequest == (b1 :> Buy(2, 1)) @@ (b2 :> BuyFor(1))
PollAttr    == AttrOf(PollRequest)

NoFee   == [o \in OrderId |-> 0]
OneFee  == [o \in OrderId |-> 1]
\* A fee of 1 with every unit that trades; os1 trades one unit and ob1 two.
UnitFee == [o \in OrderId |-> IF o = ob1 THEN 2 ELSE 1]
PollFee == [o \in OrderId |-> IF o = ob2 THEN 1 ELSE 0]

TwoHomes == (t1 :> w1) @@ (t2 :> w2)
NoSeed == [o \in {} |-> 0]

OneHome  == t1 :> w1

\* The two workers may be exchanged with one another, and so may the two sales.
WorkerSymmetry ==
  {f \in Permutations({w1, w2, t1, t2, s1, s2, os1, os2}) :
     /\ f[w1] \in {w1, w2} /\ f[w2] \in {w1, w2}
     /\ f[t1] = (IF f[w1] = w1 THEN t1 ELSE t2) /\ f[t2] = (IF f[w1] = w1 THEN t2 ELSE t1)
     /\ f[s1] \in {s1, s2} /\ f[s2] \in {s1, s2}
     /\ f[os1] = (IF f[s1] = s1 THEN os1 ELSE os2) /\ f[os2] = (IF f[s1] = s1 THEN os2 ELSE os1)}
===============================================================================

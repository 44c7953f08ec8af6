---------------------------- MODULE MCSleeveLedger ----------------------------
(***************************************************************************)
(* A ledger with one BUY and one SELL order, two currencies and callers    *)
(* that use every operation in any order; the SELL is reported without its *)
(* client order id.                                                        *)
(***************************************************************************)
EXTENDS SleeveLedger

CONSTANTS b, s, ob, os, KRW, USD, A

MCCoid     == {b, s}
MCOrderId  == {ob, os}
MCCurrency == {KRW, USD}
MCAttr ==
  [o \in MCOrderId |->
     IF o = ob THEN [coid |-> b, named |-> TRUE, symbol |-> A, side |-> "buy", currency |-> KRW]
               ELSE [coid |-> s, named |-> FALSE, symbol |-> A, side |-> "sell", currency |-> KRW]]

\* A partial fill, a late fee and a corrected price, and the complete fill.
MCExecution ==
  {[qty |-> 1, cost |-> 2, fee |-> 0, settles |-> 0],
   [qty |-> 1, cost |-> 1, fee |-> 1, settles |-> 2],
   [qty |-> 2, cost |-> 2, fee |-> 1, settles |-> 2]}

MCFlowAmount == {-1, 1}
MCFlowTotal  == -1 .. 0
===============================================================================

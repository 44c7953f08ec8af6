----------------------------- MODULE MCLedgerTxn ------------------------------
(***************************************************************************)
(* Two processes on a ledger with one BUY and one SELL order; the SELL is  *)
(* reported without its client order id.                                   *)
(***************************************************************************)
EXTENDS LedgerTxn, TLC

CONSTANTS b, s, ob, os, KRW, A

MCAttr ==
  [o \in OrderId |->
     IF o = ob THEN [coid |-> b, named |-> TRUE, symbol |-> A, side |-> "buy", currency |-> KRW]
               ELSE [coid |-> s, named |-> FALSE, symbol |-> A, side |-> "sell", currency |-> KRW]]

\* A partial fill, and the complete one with its fee.
MCExecution == {[qty |-> 1, cost |-> 1, fee |-> 0, settles |-> 2],
                [qty |-> 2, cost |-> 2, fee |-> 1, settles |-> 2]}

MCFlowAmount == {-1}
MCFlowTotal  == -1 .. 0

WithConn == {"record_order", "mark_order_terminal"}
AnyCall  == DOMAIN Program

ConnSymmetry == Permutations(Conn)
===============================================================================

----------------------------- MODULE MCPositions ------------------------------
(***************************************************************************)
(* Two purchases and a sale of one symbol whose prices lie on both sides   *)
(* of a band of tick sizes, and the snapping of the average, from which a  *)
(* consumer derives its next price.                                        *)
(***************************************************************************)
EXTENDS Positions

MCSideOf == <<"buy", "sell", "buy">>
MCSize   == <<2, 2, 1>>
MCPrice  == [buy |-> {1994, 2005}, sell |-> {1990}]
===============================================================================

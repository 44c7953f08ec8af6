------------------------------ MODULE MCTossAuth ------------------------------
(***************************************************************************)
(* Two tasks of a process whose client has no account number.              *)
(***************************************************************************)
EXTENDS TossAuth

CONSTANTS a, b

\* The tasks are interchangeable: what holds of the calls of one holds of all.
CallsEnd == CallEnds(a)
===============================================================================

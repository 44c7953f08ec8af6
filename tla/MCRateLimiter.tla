---------------------------- MODULE MCRateLimiter -----------------------------
(***************************************************************************)
(* Four tasks of which two may call in every two ticks.                    *)
(***************************************************************************)
EXTENDS RateLimiter, TLC

TaskSymmetry == Permutations(Task)
===============================================================================

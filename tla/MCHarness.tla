------------------------------ MODULE MCHarness ------------------------------
(* Model-checking instance of Harness: the five scenarios of main(), the   *)
(* complex app's recursion cut down to two breakpoint hits.               *)
EXTENDS Harness

MCTargets == Scen
MCMaxHits == 2
MCRecursionHits == 2
=============================================================================

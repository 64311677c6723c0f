----------------------------- MODULE MCLookaside -----------------------------
(* Module Lookaside for TLC; objects are interchangeable, and so are the   *)
(* threads other than Main.                                                *)
EXTENDS Lookaside, TLC

MCSymmetry == Permutations(Objs) \cup Permutations(Threads \ {Main})
=============================================================================

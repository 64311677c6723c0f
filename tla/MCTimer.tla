------------------------------- MODULE MCTimer -------------------------------
(* Module Timer for TLC; threads are interchangeable.                      *)
EXTENDS Timer, TLC

MCSymmetry == Permutations(Threads)
=============================================================================

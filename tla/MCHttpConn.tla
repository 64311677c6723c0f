----------------------------- MODULE MCHttpConn -----------------------------
(* Module HttpConn for TLC; threads, conns and buffers are interchangeable *)
(* where no liveness is checked.                                           *)
EXTENDS HttpConn, TLC

MCSymmetry == Permutations(Threads) \cup Permutations(Conns) \cup Permutations(Bufs)
=============================================================================

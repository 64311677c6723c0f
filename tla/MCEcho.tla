------------------------------- MODULE MCEcho -------------------------------
(* Module Echo for TLC: descriptors from 1, threads and clients as model   *)
(* values; client addresses are interchangeable.                           *)
EXTENDS Echo, TLC

CONSTANT FdN
MCFds == 1 .. FdN
ClientSymmetry == Permutations(Clients)
=============================================================================

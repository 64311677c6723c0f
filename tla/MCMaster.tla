------------------------------ MODULE MCMaster ------------------------------
(* Module Master for TLC; the .cfg files choose the environment.           *)
EXTENDS Master
=============================================================================

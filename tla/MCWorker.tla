------------------------------ MODULE MCWorker ------------------------------
(* Module Worker for TLC; the .cfg files choose the faults.                *)
EXTENDS Worker
=============================================================================

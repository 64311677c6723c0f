------------------------------- MODULE MCConf -------------------------------
(* Small instances of Conf.                                                *)
EXTENDS Conf
=============================================================================

---------------------------- MODULE MCHealthRead ----------------------------
(* A small instance of HealthRead: the constants are given in the cfg.     *)
EXTENDS HealthRead
=============================================================================

------------------------------ MODULE MCConsole ------------------------------
(* A small instance of Console for TLC: all constants are in the cfg.      *)
EXTENDS Console
=============================================================================

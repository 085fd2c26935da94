----------------------------- MODULE MCTelnetConn -----------------------------
(* TelnetConn for TLC. *)
EXTENDS TelnetConn
===============================================================================

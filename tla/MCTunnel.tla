------------------------------ MODULE MCTunnel ------------------------------
(***************************************************************************)
(* Tunnel with values for TLC: two URLs, the two callers of Close that     *)
(* main.go has.                                                            *)
(***************************************************************************)
EXTENDS Tunnel

CONSTANTS u1, u2, handler, main

MCURLs == {u1, u2}
MCClosers == {handler, main}
=============================================================================

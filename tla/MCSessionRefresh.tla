-------------------------- MODULE MCSessionRefresh --------------------------
(* SessionRefresh for TLC. *)
EXTENDS SessionRefresh
=============================================================================

------------------------------ MODULE MCServer ------------------------------
(***************************************************************************)
(* A small instance of RedpinServer for TLC: the configuration gives it a  *)
(* well-behaved client and another one.                                    *)
(***************************************************************************)
EXTENDS RedpinServer

CONSTANTS good, bad
=============================================================================

---------------------------- MODULE MCVmuStore ----------------------------
(* VmuStore for TLC: operations are not bounded, only failures are. *)
EXTENDS VmuStore
=============================================================================

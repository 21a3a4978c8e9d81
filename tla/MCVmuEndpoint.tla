--------------------------- MODULE MCVmuEndpoint ---------------------------
(* VmuEndpoint for TLC.  One cache slot for two blocks makes them evict     *)
(* each other; two phases make partial blocks.                              *)
EXTENDS VmuEndpoint
=============================================================================

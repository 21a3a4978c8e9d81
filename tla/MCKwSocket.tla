----------------------------- MODULE MCKwSocket -----------------------------
(* KwSocket for TLC.  With two generations every second connection reuses   *)
(* one; MCKwSocket_wrap.cfg has four, and Spec in place of PromptSpec, so   *)
(* that the fifth connection meets what is left of the first.               *)
EXTENDS KwSocket
=============================================================================

------------------------------ MODULE MCKwLink ------------------------------
(* KwLink for TLC: FairSpec, and bounds on sequence numbers and sizes.  Four *)
(* sequence numbers make them wrap; payloads of one and two words, with      *)
(* Poll 1, make a payload that does not fit a plain poll.                    *)
EXTENDS KwLink
=============================================================================

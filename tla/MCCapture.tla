----------------------------- MODULE MCCapture -----------------------------
(* Small instances of Capture for TLC. *)
EXTENDS Capture

(* Two tracks: a four-sector one and a three-sector one whose last sector   *)
(* lies in the leadout approach.                                            *)
MCLen == [t \in 1..2 |-> IF t = 1 THEN 4 ELSE 3]
MCTail == [t \in 1..2 |-> IF t = 1 THEN 4 ELSE 2]

Opt(crc, sizeOnly, skipEnd, sample, dma_, fmt_) ==
  [crc |-> crc, sizeOnly |-> sizeOnly, skipEnd |-> skipEnd,
   sample |-> sample, dma |-> dma_, fmt |-> fmt_]

(* Overlapped SHA-256 capture, and a CRC-only one that skips what it can *)
SafetyOptions == {Opt(FALSE, FALSE, FALSE, FALSE, TRUE, "gdi"),
                  Opt(TRUE, TRUE, TRUE, FALSE, TRUE, "cue")}

(* Every output format, each with the options that skip the most, and a     *)
(* sampling run: what a card that lies can slip past                        *)
SilentOptions == {Opt(FALSE, TRUE, TRUE, FALSE, FALSE, "gdi"),
                  Opt(TRUE, TRUE, TRUE, TRUE, FALSE, "gdi"),
                  Opt(TRUE, TRUE, TRUE, FALSE, FALSE, "export"),
                  Opt(TRUE, TRUE, TRUE, FALSE, TRUE, "direct")}

(* One disc, one way to capture it *)
LiveOptions == {Opt(FALSE, FALSE, FALSE, FALSE, TRUE, "gdi")}

(* CRC-only, end read-back on, Quick Resume *)
QuickOptions == {Opt(TRUE, TRUE, FALSE, FALSE, FALSE, "gdi")}

=============================================================================

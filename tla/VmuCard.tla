------------------------------ MODULE VmuCard ------------------------------
(***************************************************************************)
(* What the journaled memory card promises its user: blocks that change as *)
(* a whole.  A write that was interrupted has happened or has not, once    *)
(* and for all when the card is opened again, and a write that returned OK *)
(* has happened for good.                                                  *)
(***************************************************************************)
EXTENDS Naturals

CONSTANTS
  Blocks,     \* blocks of the card image
  Data        \* contents of a block

VARIABLES
  val,        \* the card
  pend,       \* the write that has not taken effect yet
  up,         \* open and usable
  busy        \* a write has not returned

cardVars == <<val, pend, up, busy>>

None == [block |-> 0, data |-> 0]
Writes == [block : Blocks, data : Data]

CardInit == val \in [Blocks -> Data] /\ pend = None /\ up = FALSE /\ busy = FALSE

Applied(w) == [val EXCEPT ![w.block] = w.data]

CardOpen == ~up /\ up' = TRUE /\ pend' = None /\ UNCHANGED <<val, busy>>
CardWrite == /\ up /\ ~busy
             /\ pend' \in Writes /\ busy' = TRUE /\ UNCHANGED <<val, up>>
TakeEffect == pend # None /\ val' = Applied(pend) /\ pend' = None
CardCommit == TakeEffect /\ UNCHANGED <<up, busy>>
CardReturn == busy /\ pend = None /\ busy' = FALSE /\ UNCHANGED <<val, pend, up>>
CardFail == /\ up' = FALSE /\ busy' = FALSE
            /\ TakeEffect \/ UNCHANGED <<val, pend>>

CardNext == CardOpen \/ CardWrite \/ CardCommit \/ CardReturn \/ CardFail
CardSpec == CardInit /\ [][CardNext]_cardVars
=============================================================================

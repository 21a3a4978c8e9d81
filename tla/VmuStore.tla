------------------------------ MODULE VmuStore ------------------------------
(***************************************************************************)
(* The journaled memory card of src/core/vmu_store.c: an image of blocks   *)
(* and a journal of two sectors, redo data and a commit marker, on a card  *)
(* whose writes stay volatile until a sync.                                *)
(*                                                                         *)
(* cache is what reads return, disk what survives power loss.  Every       *)
(* write_sector and every sync is an action, and each may fail; a write    *)
(* that fails, and a dirty sector at power loss, is old, new or torn.  A   *)
(* marker is the block it names and the CRC of the redo data, modelled as  *)
(* that data; a torn or cleared marker fails its own CRC (NoMark).         *)
(***************************************************************************)
EXTENDS Integers

CONSTANTS
  Blocks,     \* KUI_VMU_STORE_BLOCKS, numbered from 1
  Data,       \* contents of a 512-byte block
  MaxFaults   \* bound: failed calls and power losses

ASSUME BlocksAssumption == Blocks \subseteq (Nat \ {0})
ASSUME DataAssumption == Data \subseteq Nat
ASSUME FaultsAssumption == MaxFaults \in Nat

VARIABLES
  cache, disk,   \* image, redo data and marker: as read, and as they survive
  pc,            \* the next call of the operation under way
  blk, dat,      \* its block and s->data
  want,          \* history: the write that is not durable yet
  faults

vars == <<cache, disk, pc, blk, dat, want, faults>>

Torn == -1
NoMark == [block |-> 0, data |-> Torn]
None == [block |-> 0, data |-> 0]
Sector == Data \cup {Torn}
Cards == [image : [Blocks -> Sector], redo : Sector,
          mark : [block : Blocks, data : Data] \cup {NoMark}]

Fault == faults < MaxFaults /\ faults' = faults + 1
NoFault == faults' = faults

Init ==
  /\ \E f \in [Blocks -> Data] : cache = [image |-> f, redo |-> Torn, mark |-> NoMark]
  /\ disk = cache
  /\ pc = "closed" /\ blk = 0 /\ dat = 0 /\ want = None /\ faults = 0

-----------------------------------------------------------------------------
(* The card.  A sector on its way from u to v is either, or torn; dirty    *)
(* sectors reach the card in any order.                                    *)
Half(u, v, torn) == IF u = v THEN {u} ELSE {u, v, torn}
Images(f, g) == {h \in [Blocks -> Sector] : \A x \in Blocks : h[x] \in Half(f[x], g[x], Torn)}
Halfway(a, b) ==
  {[image |-> f, redo |-> r, mark |-> k] :
     f \in Images(a.image, b.image), r \in Half(a.redo, b.redo, Torn),
     k \in Half(a.mark, b.mark, NoMark)}

(* The redo record becomes durable: from here on the write has happened *)
Durable == want' = IF disk.mark = NoMark /\ disk'.mark # NoMark THEN None ELSE want

(* io_error: ready = 0 *)
IoError == pc' = "closed" /\ Fault

(* write_sector *)
Put(new, next) ==
  /\ \/ cache' = new /\ pc' = next /\ NoFault
     \/ cache' \in Halfway(cache, new) /\ IoError
  /\ UNCHANGED <<disk, blk, dat, want>>

(* sync *)
Flushed(next) ==
  /\ \/ disk' = cache /\ pc' = next /\ NoFault
     \/ disk' \in Halfway(disk, cache) /\ IoError
  /\ Durable
  /\ UNCHANGED <<cache, blk, dat>>

-----------------------------------------------------------------------------
(* kui_vmu_store_open and recover *)

(* Read the marker and, if its CRC is right, the redo data; "corrupt" is    *)
(* KUI_VMU_STORE_CORRUPT.  A store may be opened again without being closed. *)
Replay == cache.mark # NoMark
Open ==
  /\ pc \in {"closed", "idle", "corrupt"}
  /\ \/ /\ ~Replay
        /\ pc' = "idle" /\ want' = None /\ NoFault
        /\ UNCHANGED <<cache, disk, blk, dat>>
     \/ /\ Replay /\ NoFault
        /\ pc' = (IF cache.redo = cache.mark.data THEN "recsync" ELSE "corrupt")
        /\ blk' = cache.mark.block /\ dat' = cache.redo
        /\ UNCHANGED <<cache, disk, want>>
     \/ IoError /\ UNCHANGED <<cache, disk, blk, dat, want>>

(* The record read through the cache is made durable before the replay *)
RecoverSync == pc = "recsync" /\ Flushed("recput")
BadRecoverPut == pc = "recput" /\ Put(cache, "recdone")
RecoverPut ==
  pc = "recput" /\ Put([cache EXCEPT !.image[blk] = dat], "recdone")
RecoverDone ==
  /\ pc = "recdone"
  /\ \/ disk' = cache /\ pc' = "idle" /\ NoFault /\ want' = None
     \/ disk' \in Halfway(disk, cache) /\ IoError /\ UNCHANGED want
  /\ UNCHANGED <<cache, blk, dat>>

-----------------------------------------------------------------------------
(* kui_vmu_store_write: invalidate, redo data, marker, image; each synced *)
Write(b, v) ==
  /\ pc = "idle" /\ pc' = "clear" /\ blk' = b /\ dat' = v
  /\ want' = [block |-> b, data |-> v] /\ NoFault
  /\ UNCHANGED <<cache, disk>>

(* Fault variants ("Bad...") stand before the definition they would replace: *)
(* a write or a sync that is left out.                                       *)
BadClear == pc = "clear" /\ Put(cache, "clearsync")
Clear == pc = "clear" /\ Put([cache EXCEPT !.mark = NoMark], "clearsync")
ClearSync == pc = "clearsync" /\ Flushed("redo")
Redo == pc = "redo" /\ Put([cache EXCEPT !.redo = dat], "redosync")
BadRedoSync == pc = "redosync" /\ pc' = "mark" /\ NoFault
               /\ UNCHANGED <<cache, disk, blk, dat, want>>
RedoSync == pc = "redosync" /\ Flushed("mark")
Mark == pc = "mark"
        /\ Put([cache EXCEPT !.mark = [block |-> blk, data |-> dat]], "marksync")
BadMarkSync == pc = "marksync" /\ pc' = "put" /\ NoFault
               /\ UNCHANGED <<cache, disk, blk, dat, want>>
MarkSync == pc = "marksync" /\ Flushed("put")
PutBlock == pc = "put" /\ Put([cache EXCEPT !.image[blk] = dat], "putsync")
PutSync == pc = "putsync" /\ Flushed("idle")

(* kui_vmu_store_read: only its failure changes anything *)
ReadFails == pc = "idle" /\ IoError /\ UNCHANGED <<cache, disk, blk, dat, want>>

(* kui_vmu_store_sync, and kui_vmu_store_checkpoint, which also clears the  *)
(* marker                                                                   *)
Sync == pc = "idle" /\ Flushed("idle")
Checkpoint == pc = "idle" /\ Flushed("ckclear")
CkClear == pc = "ckclear" /\ Put([cache EXCEPT !.mark = NoMark], "cksync")
CkSync == pc = "cksync" /\ Flushed("idle")

(* Power loss at any time, also between two operations *)
PowerLoss ==
  /\ disk' \in Halfway(disk, cache) /\ cache' = disk'
  /\ pc' = "closed" /\ blk' = 0 /\ dat' = 0 /\ Fault /\ Durable

Next ==
  \/ Open \/ RecoverSync \/ RecoverPut \/ RecoverDone
  \/ \E b \in Blocks, v \in Data : Write(b, v)
  \/ Clear \/ ClearSync \/ Redo \/ RedoSync \/ Mark \/ MarkSync \/ PutBlock \/ PutSync
  \/ ReadFails \/ Sync \/ Checkpoint \/ CkClear \/ CkSync
  \/ PowerLoss

Spec == Init /\ [][Next]_vars

-----------------------------------------------------------------------------
(* Properties *)

Writing == {"clear", "clearsync", "redo", "redosync", "mark", "marksync", "put", "putsync"}
Labels == Writing \cup {"closed", "idle", "recsync", "recput", "recdone", "ckclear",
                        "cksync", "corrupt"}

(* Every sector, marker and operation of kui_vmu_store_* is of its type; in *)
(* particular a torn sector is never taken for the data of a write.         *)
TypeOK ==
  /\ cache \in Cards /\ disk \in Cards /\ pc \in Labels
  /\ blk \in Blocks \cup {0} /\ dat \in Data \cup {0}
  /\ want \in [block : Blocks, data : Data] \cup {None} /\ faults \in 0..MaxFaults

(* The card as it would be found after power loss and recovery *)
Recovered(c) == [b \in Blocks |-> IF c.mark.block = b THEN c.mark.data ELSE c.image[b]]

(* recover(): a marker with a valid CRC, read or left behind by any failure, *)
(* names redo data that matches it, so an open never finds the journal       *)
(* corrupt and locks the user out of the card.                               *)
JournalSound ==
  /\ pc # "corrupt"
  /\ \A c \in {cache, disk} : c.mark # NoMark => c.redo = c.mark.data

(* kui_vmu_store_read: while the card is ready, what it returns is what      *)
(* recovery would return after losing power at this moment.                  *)
ReadsDurable == pc = "idle" => cache.image = Recovered(disk)

(* The journal implements a card of atomic blocks.                           *)
Card == INSTANCE VmuCard WITH
          val <- Recovered(disk), pend <- want,
          up <- pc \in Writing \cup {"idle", "ckclear", "cksync"}, busy <- pc \in Writing
AtomicBlocks == Card!CardSpec

-----------------------------------------------------------------------------
(* The inductive invariant (proved in VmuStoreProofs) *)

Op == [block |-> blk, data |-> dat]

(* Image and recovery agree: nothing depends on the marker *)
Settled ==
  \A b \in Blocks : /\ cache.image[b] = disk.image[b] /\ disk.image[b] \in Data
                    /\ disk.mark.block = b => disk.image[b] = disk.mark.data

(* Only the block the durable marker names may be half written *)
ImageInv ==
  \A b \in Blocks : disk.mark.block # b =>
    disk.image[b] \in Data /\ cache.image[b] = disk.image[b]
MarkInv ==
  /\ cache.mark = disk.mark \/ cache.mark = NoMark \/ disk.mark = NoMark
  /\ cache.mark # NoMark \/ disk.mark # NoMark => cache.redo = disk.redo
  /\ cache.mark = NoMark \/ disk.mark = NoMark => Settled

StepInv ==
  /\ pc \in {"idle", "clear", "ckclear"} =>
       Settled /\ (cache.mark = NoMark \/ cache.mark = disk.mark)
  /\ pc \in {"clearsync", "cksync"} => cache.mark = NoMark
  /\ pc \in {"redo", "redosync", "mark"} => cache.mark = NoMark /\ disk.mark = NoMark
  /\ pc \in {"redosync", "mark"} => cache.redo = dat
  /\ pc = "mark" => disk.redo = dat
  /\ pc = "marksync" => disk.mark = NoMark
  /\ pc \in {"marksync", "put", "putsync", "recsync", "recput", "recdone"} => cache.mark = Op
  /\ pc \in {"put", "putsync", "recput", "recdone"} => disk.mark = Op
  /\ pc \in {"putsync", "recdone"} => cache.image[blk] = dat

WantInv ==
  /\ pc \in {"clear", "clearsync", "redo", "redosync", "mark", "marksync"} => want = Op
  /\ pc \in Writing => blk \in Blocks /\ dat \in Data
  /\ pc \in {"idle", "put", "putsync", "ckclear", "cksync"} => want = None
  /\ cache.mark # NoMark /\ disk.mark = NoMark => want = cache.mark

IndInv == TypeOK /\ JournalSound /\ ImageInv /\ MarkInv /\ StepInv /\ WantInv
=============================================================================

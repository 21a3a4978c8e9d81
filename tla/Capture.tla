------------------------------ MODULE Capture ------------------------------
(***************************************************************************)
(* The disc capture engine of src/core/capture.c and the part of the SD    *)
(* card it owns: one job folder with a file per track, the two alternating *)
(* checkpoint records and the published metadata.                          *)
(*                                                                         *)
(* kui_capture() runs on the single I/O worker.  It is cut into one action *)
(* per call that reaches the card or the drive, because power can be lost, *)
(* the B button pressed and the drive's DMA completed between any two of   *)
(* them.  A sector is an abstract value; a CRC32/SHA-256 is modelled as    *)
(* the values it was computed over (no collisions).                        *)
(***************************************************************************)
EXTENDS Integers, FiniteSets

CONSTANTS
  NTracks,            \* tracks of the plan
  MaxLen,             \* longest track, in sectors
  Len,                \* sectors of each track
  Tail,               \* first sector offset of the leadout approach (= Len: none)
  Chunk,              \* KUI_CAPTURE_CHUNK
  CheckpointSectors,  \* KUI_CHECKPOINT_SECTORS
  RetryLimit,         \* job.retry_limit
  Discs,              \* discs the user may insert (identity is injective)
  Options,            \* kui_capture_options the user may choose
  SilentWrites,       \* TRUE: the card may store wrong bytes without an error
  MaxRuns,            \* bound: NEW and RESUME runs
  MaxFaults           \* bound: crashes, card and drive failures

Tracks == 1..NTracks
Pos == 1..MaxLen
Formats == {"gdi", "cue", "export", "direct"}
OptionSet == [crc: BOOLEAN, sizeOnly: BOOLEAN, skipEnd: BOOLEAN,
              sample: BOOLEAN, dma: BOOLEAN, fmt: Formats]

ASSUME NTracksAssumption == NTracks \in Nat \ {0}
ASSUME MaxLenAssumption == MaxLen \in Nat \ {0}
ASSUME LenAssumption == Len \in [Tracks -> Pos]
ASSUME TailAssumption == Tail \in [Tracks -> 0..MaxLen]
ASSUME ChunkAssumption == Chunk \in Nat \ {0}
ASSUME CheckpointAssumption == CheckpointSectors \in Nat \ {0}
ASSUME RetryAssumption == RetryLimit \in Nat
ASSUME DiscsAssumption == Discs \subseteq (Nat \ {0})
ASSUME OptionsAssumption == Options \subseteq OptionSet
ASSUME SilentAssumption == SilentWrites \in BOOLEAN
ASSUME BoundsAssumption == MaxRuns \in Nat /\ MaxFaults \in Nat

-----------------------------------------------------------------------------
(* Values of saved sectors: what the disc holds, undefined bytes, and bytes *)
(* that a write stored wrongly although it reported success.                *)
Value == Nat \X Nat \X Nat
Sec(d, t, p) == <<d, t, p>>
Junk == <<0, 0, 0>>
Rot == <<0, 0, 1>>

Contents == [Tracks -> [Pos -> Value]]
Nothing == [t \in Tracks |-> [p \in Pos |-> Junk]]
Counts == [Tracks -> 0..MaxLen]
Zero == [t \in Tracks |-> 0]

(* kui_checkpoint as kui_checkpoint_decode admits it; seq = 0 stands for a  *)
(* missing, torn or otherwise invalid record, which the decoder rejects.    *)
Record == [seq: Nat, disc: Nat, crc: BOOLEAN, fmt: Formats,
           sectors: Counts, hash: Contents]
NoRecord == [seq |-> 0, disc |-> 0, crc |-> FALSE, fmt |-> "gdi",
             sectors |-> Zero, hash |-> Nothing]

Manifest == [schema: 0..3, disc: Nat, hash: Contents]
NoManifest == [schema |-> 0, disc |-> 0, hash |-> Nothing]

VARIABLES
  \* the card: the job folder chosen by choose_dir
  size,      \* size of each track file, -1: no file
  cell,      \* its sectors
  dsize,     \* size in the directory entry that survives power loss
  kept,      \* leading sectors untouched since the last sync
  slot,      \* checkpoint-a.bin, checkpoint-b.bin
  gdi, cue, export, manifest,   \* published metadata
  \* the job of the current run (static struct job)
  pc, mode, opt, disc, seq, crcOnly, fmt, sectors, hash, sizeResume, verified,
  \* locals of capture_tracks
  trk, ckptAt, recUntil, n, req, att, cur, buf, dma, ok, failed, ckRet,
  \* environment
  cancel, result, runs, faults

card == <<size, cell, dsize, kept, slot, gdi, cue, export, manifest>>
files == <<size, cell, dsize, kept>>
meta == <<gdi, cue, export, manifest>>
setup == <<mode, opt, disc, crcOnly, fmt, sizeResume>>
job == <<setup, seq, sectors, hash, verified>>
track == <<trk, ckptAt, recUntil, n, req, att, cur, buf, dma, ok, failed, ckRet>>
env == <<cancel, result, runs>>
vars == <<card, pc, job, track, env, faults>>

-----------------------------------------------------------------------------
Min2(a, b) == IF a <= b THEN a ELSE b
Max2(a, b) == IF a >= b THEN a ELSE b

Fault == faults < MaxFaults /\ faults' = faults + 1
NoFault == faults' = faults

(* all_captured() and the position of the track being captured *)
AllCaptured == \A t \in Tracks : sectors[t] = Len[t]
pos == sectors[trk]

(* derivative() || direct_cooked(): output that needs every byte re-read *)
NeedsVerified == fmt \in {"export", "direct"}

(* Fault variants ("Bad...") stand before the definition they would replace. *)
BadSkipEnd == opt.skipEnd /\ mode # "verify" /\ ~NeedsVerified
(* skip_end as kui_capture computes it *)
SkipEnd == opt.skipEnd /\ crcOnly /\ mode # "verify" /\ ~NeedsVerified

BadReadCount(t, p) ==
  IF p >= Len[t] THEN 0
  ELSE IF p > Tail[t] THEN 1
  ELSE Min2(Chunk, Min2(Len[t] - p, Tail[t] - p))
(* capture_read_count with capture_tail_start *)
ReadCount(t, p) ==
  IF p >= Len[t] THEN 0
  ELSE IF p >= Tail[t] THEN 1
  ELSE Min2(Chunk, Min2(Len[t] - p, Tail[t] - p))

BadSlotOf(s) == "a"
(* save_checkpoint_inner: odd sequences go to slot a, even ones to b *)
SlotOf(s) == IF s % 2 = 1 THEN "a" ELSE "b"
Slots == {"a", "b"}

RecordNow == [seq |-> seq, disc |-> disc, crc |-> crcOnly, fmt |-> fmt,
              sectors |-> sectors, hash |-> hash]

(* load_checkpoint: the records the decoder accepts for this disc *)
ValidFor(d, s) == slot[s].seq > 0 /\ slot[s].disc = d
Newest(d, s) == ValidFor(d, s)
                /\ \A o \in Slots : ValidFor(d, o) => slot[o].seq <= slot[s].seq
Conflict(d) == ValidFor(d, "a") /\ ValidFor(d, "b")
               /\ slot["a"].seq = slot["b"].seq /\ slot["a"] # slot["b"]

(* check_files: the running hash covers exactly the recorded sectors *)
HashMatches(t) ==
  \A p \in Pos : hash[t][p] = IF p <= sectors[t] THEN cell[t][p] ELSE Junk
FirstPartial(sec, t) ==
  sec[t] < Len[t] /\ \A u \in Tracks : u < t => sec[u] = Len[u]
BadSizeAdmitted(sec, t, exact) ==
  size[t] = sec[t] \/ (size[t] = -1 /\ sec[t] = 0 /\ ~exact)
SizeAdmitted(sec, t, exact) ==
  \/ size[t] = -1 /\ sec[t] = 0 /\ ~exact
  \/ /\ size[t] # -1 /\ sec[t] <= size[t] /\ size[t] <= Len[t]
     /\ (exact \/ ~FirstPartial(sec, t)) => size[t] = sec[t]
     /\ FirstPartial(sec, t) \/ \A u \in Tracks : u <= t => sec[u] = Len[u]
BytesRead(exact) == exact \/ ~sizeResume
FilesAdmitted(exact) ==
  \A t \in Tracks :
    /\ SizeAdmitted(sectors, t, exact)
    /\ BytesRead(exact) /\ sectors[t] > 0 => HashMatches(t)
BadVerifiedBy(exact) == AllCaptured
VerifiedBy(exact) ==
  AllCaptured /\ (BytesRead(exact) \/ \A t \in Tracks : sectors[t] = 0)

-----------------------------------------------------------------------------
DmaOff == [on |-> FALSE, b |-> 0, t |-> 0, at |-> 0, n |-> 0]
EmptyBuffer == [t |-> 0, at |-> 0, n |-> 0]
NoOptions == [crc |-> FALSE, sizeOnly |-> FALSE, skipEnd |-> FALSE,
              sample |-> FALSE, dma |-> FALSE, fmt |-> "gdi"]
Drive == [on: BOOLEAN, b: 0..1, t: 0..NTracks, at: 0..MaxLen, n: 0..MaxLen]
Buffer == [t: 0..NTracks, at: 0..MaxLen, n: 0..MaxLen]

Init ==
  /\ size = [t \in Tracks |-> -1] /\ dsize = [t \in Tracks |-> -1]
  /\ kept = Zero /\ cell = Nothing
  /\ slot = [s \in Slots |-> NoRecord]
  /\ gdi = FALSE /\ cue = FALSE /\ export = Nothing /\ manifest = NoManifest
  /\ pc = "idle" /\ mode = "new" /\ opt = NoOptions /\ disc = 0 /\ seq = 0
  /\ crcOnly = FALSE /\ fmt = "gdi" /\ sectors = Zero /\ hash = Nothing
  /\ sizeResume = FALSE /\ verified = FALSE
  /\ trk = 1 /\ ckptAt = 0 /\ recUntil = 0 /\ n = 0 /\ req = 0 /\ att = 0
  /\ cur = 0 /\ buf = [b \in 0..1 |-> EmptyBuffer] /\ dma = DmaOff
  /\ ok = TRUE /\ failed = FALSE /\ ckRet = "start"
  /\ cancel = FALSE /\ result = "none" /\ runs = 0 /\ faults = 0

(* memset(&job,0,sizeof(job)) at the next kui_capture(), done when a run is *)
(* over so that finished runs leave no difference behind.                   *)
ResetJob ==
  /\ pc' = "idle" /\ mode' = "new" /\ opt' = NoOptions /\ disc' = 0 /\ seq' = 0
  /\ crcOnly' = FALSE /\ fmt' = "gdi" /\ sectors' = Zero /\ hash' = Nothing
  /\ sizeResume' = FALSE /\ verified' = FALSE
  /\ trk' = 1 /\ ckptAt' = 0 /\ recUntil' = 0 /\ n' = 0 /\ req' = 0 /\ att' = 0
  /\ cur' = 0 /\ buf' = [b \in 0..1 |-> EmptyBuffer] /\ dma' = DmaOff
  /\ ok' = TRUE /\ failed' = FALSE /\ ckRet' = "start"
  /\ cancel' = FALSE

Goto(label) == pc' = label
At(label) == pc = label

-----------------------------------------------------------------------------
(* kui_capture up to choose_dir.  identify() reads the disc only; a failure *)
(* of it, of the mount or of the folder search ends the run with nothing    *)
(* changed, as if it had not begun.                                         *)

(* The user asks for a new capture.  choose_dir opens the next folder       *)
(* number; the model follows that folder until it holds a checkpoint.       *)
StartNew(o, d) ==
  /\ At("idle") /\ runs < MaxRuns
  /\ \A s \in Slots : slot[s].seq = 0
  /\ runs' = runs + 1 /\ mode' = "new" /\ opt' = o /\ disc' = d
  /\ crcOnly' = o.crc /\ fmt' = o.fmt
  /\ slot' = [s \in Slots |-> NoRecord]
  /\ ckRet' = "start" /\ Goto("ckopen")
  /\ NoFault
  /\ UNCHANGED <<files, meta, seq, sectors, hash, sizeResume, verified,
                 trk, ckptAt, recUntil, n, req, att, cur, buf, dma, ok, failed,
                 cancel, result>>

(* Resume or Verify: load_checkpoint and the adoption of the job's own mode *)
Load(m, o, d, s) ==
  /\ At("idle") /\ (m = "resume" => runs < MaxRuns)
  /\ ~Conflict(d) /\ Newest(d, s)
  /\ m = "verify" => \A t \in Tracks : slot[s].sectors[t] = Len[t]
  /\ runs' = (IF m = "resume" THEN runs + 1 ELSE runs) /\ mode' = m /\ opt' = o /\ disc' = d
  /\ seq' = slot[s].seq /\ crcOnly' = slot[s].crc /\ fmt' = slot[s].fmt
  /\ sectors' = slot[s].sectors /\ hash' = slot[s].hash
  /\ sizeResume' = (o.sizeOnly /\ slot[s].crc)
  /\ Goto("check") /\ NoFault
  /\ UNCHANGED <<card, verified, track, cancel, result>>

(* check_files before any write: refusal, Stop or an SD read error ends it *)
PrefixCheck ==
  /\ At("check")
  /\ LET exact == mode = "verify" IN
     \/ /\ FilesAdmitted(exact) /\ ~cancel
        /\ verified' = VerifiedBy(exact)
        /\ Goto(IF AllCaptured THEN "final" ELSE "open")
        /\ NoFault
     \/ /\ ~FilesAdmitted(exact) \/ cancel
        /\ Goto("out") /\ NoFault /\ UNCHANGED verified
     \/ /\ FilesAdmitted(exact) /\ ~cancel /\ Fault
        /\ Goto("out") /\ UNCHANGED verified
  /\ UNCHANGED <<card, setup, seq, sectors, hash, track, env>>

-----------------------------------------------------------------------------
(* capture_tracks *)

(* The file of track t after f_lseek(offset) and f_truncate *)
Truncated(t, p) == [cell EXCEPT ![t] = [q \in Pos |-> IF q <= p THEN @[q] ELSE Junk]]

StartTrack(t) ==
  /\ trk' = t /\ ckptAt' = sectors[t] /\ recUntil' = sectors[t] /\ cur' = 0
  /\ UNCHANGED <<n, req, att, buf, dma, ckRet>>

(* Skip complete tracks, open the first incomplete one and drop its         *)
(* uncommitted suffix; the open itself, the seek or the truncation can fail *)
OpenTrack ==
  /\ At("open")
  /\ \/ /\ AllCaptured /\ Goto("after") /\ NoFault /\ UNCHANGED <<files, track>>
     \/ /\ ~AllCaptured /\ cancel
        /\ Goto("out") /\ NoFault /\ UNCHANGED <<files, track>>
     \/ /\ ~AllCaptured /\ ~cancel /\ Fault
        /\ Goto("out") /\ UNCHANGED <<files, track>>
     \/ \E t \in Tracks :
        /\ ~cancel /\ FirstPartial(sectors, t)
        /\ StartTrack(t) /\ UNCHANGED dsize
        /\ kept' = [kept EXCEPT ![t] = Min2(@, sectors[t])]
        /\ \/ /\ size' = [size EXCEPT ![t] = sectors[t]]
              /\ cell' = Truncated(t, sectors[t])
              /\ ok' = TRUE /\ failed' = FALSE /\ Goto("loop") /\ NoFault
           \/ /\ Fault /\ size' = [size EXCEPT ![t] = Max2(@, 0)]
              /\ ok' = FALSE /\ failed' = TRUE /\ Goto("exit") /\ UNCHANGED cell
  /\ UNCHANGED <<slot, meta, job, env>>

(* Head of the loop: take the overlapped read begun for this chunk, or      *)
(* fall back to an ordinary one                                             *)
Wanted(k) == dma.t = trk /\ dma.at = pos /\ dma.n = k
LoopHead ==
  /\ At("loop")
  /\ \/ /\ pos >= Len[trk] \/ cancel
        /\ Goto("exit") /\ NoFault /\ UNCHANGED <<n, req, att, buf, dma, ok>>
     \/ /\ pos < Len[trk] /\ ~cancel
        /\ LET k == IF pos < recUntil THEN 1 ELSE ReadCount(trk, pos) IN
           /\ n' = k /\ req' = k /\ att' = 0
           /\ \/ /\ ~dma.on
                 /\ Goto("read") /\ NoFault /\ UNCHANGED <<buf, dma, ok>>
              \/ /\ dma.on /\ dma' = DmaOff
                 /\ \/ /\ buf' = [buf EXCEPT ![dma.b] =
                                    [t |-> dma.t, at |-> dma.at, n |-> dma.n]]
                       /\ Goto(IF Wanted(k) THEN "begin" ELSE "read")
                       /\ NoFault /\ UNCHANGED ok
                    \/ /\ Fault /\ Goto("read") /\ UNCHANGED <<buf, ok>>
                    \/ /\ Fault /\ ok' = FALSE /\ Goto("exit") /\ UNCHANGED buf
  /\ UNCHANGED <<card, job, trk, ckptAt, recUntil, cur, failed, ckRet, env>>

(* One attempt of read_raw into buf[cur]; a failed EDC counts as a retry *)
BadMayRetry == att <= RetryLimit
MayRetry == att < RetryLimit
ReadRaw ==
  /\ At("read")
  /\ \/ /\ ~cancel
        /\ buf' = [buf EXCEPT ![cur] = [t |-> trk, at |-> pos, n |-> n]]
        /\ recUntil' = IF n < req THEN pos + req ELSE recUntil
        /\ Goto("begin") /\ NoFault /\ UNCHANGED <<n, att, ok>>
     \/ /\ ~cancel /\ Fault /\ MayRetry
        /\ att' = att + 1 /\ n' = 1
        /\ buf' = [buf EXCEPT ![cur] = EmptyBuffer]
        /\ UNCHANGED <<pc, recUntil, ok>>
     \/ /\ ~cancel /\ Fault
        /\ ok' = FALSE /\ Goto("exit") /\ UNCHANGED <<n, att, buf, recUntil>>
     \/ /\ cancel /\ ok' = FALSE
        /\ Goto("exit") /\ NoFault /\ UNCHANGED <<n, att, buf, recUntil>>
  /\ UNCHANGED <<card, job, trk, ckptAt, req, cur, dma, failed, ckRet, env>>

(* Start the drive on the next chunk before this one is written; the drive  *)
(* may refuse.  pack_saved can reject a data form of a direct 2048 job.     *)
MayOverlap ==
  LET done == pos + n
      k == ReadCount(trk, done)
  IN opt.dma /\ ~dma.on /\ done < Len[trk] /\ k % 2 = 0 /\ done >= recUntil
ReadBegin ==
  /\ At("begin")
  /\ \/ cancel /\ Goto("exit") /\ NoFault /\ UNCHANGED <<buf, dma, ok>>
     \/ /\ ~cancel
        /\ \/ UNCHANGED <<buf, dma>>
           \/ /\ MayOverlap
              /\ dma' = [on |-> TRUE, b |-> 1 - cur, t |-> trk, at |-> pos + n,
                         n |-> ReadCount(trk, pos + n)]
              /\ buf' = [buf EXCEPT ![1 - cur] = EmptyBuffer]
        /\ \/ Goto("write") /\ NoFault /\ UNCHANGED ok
           \/ fmt = "direct" /\ Fault /\ ok' = FALSE /\ Goto("exit")
  /\ UNCHANGED <<card, job, trk, ckptAt, recUntil, n, req, att, cur, failed, ckRet, env>>

(* The values the chunk buffer gives file sectors pos+1 .. pos+n *)
BufferValue(p) ==
  IF p - pos <= buf[cur].n
  THEN Sec(disc, buf[cur].t, buf[cur].at + (p - pos)) ELSE Junk
Written(f, val(_)) ==
  [f EXCEPT ![trk] = [p \in Pos |-> IF pos < p /\ p <= pos + n THEN val(p) ELSE @[p]]]
JunkValue(p) == Junk
RotValue(p) == Rot

(* The chunk is accepted: CRC and SHA extended, position advanced, buffers  *)
(* swapped, and a checkpoint taken when one is due                          *)
Advance ==
  /\ hash' = Written(hash, BufferValue)
  /\ sectors' = [sectors EXCEPT ![trk] = @ + n]
  /\ cur' = 1 - cur
  /\ UNCHANGED <<ok, failed>>
  /\ IF pos + n - ckptAt >= CheckpointSectors \/ pos + n = Len[trk]
     THEN Goto("cksync") /\ ckRet' = "loop"
     ELSE Goto("loop") /\ UNCHANGED ckRet

StorageFailed == ok' = FALSE /\ failed' = TRUE /\ Goto("exit") /\ UNCHANGED <<cur, ckRet>>

(* exact_write between two CRC passes over the source buffer, then          *)
(* sample_readback.  A write may fail, its source buffer may change under   *)
(* it (seen by the second CRC), or the card may keep wrong bytes silently:  *)
(* every sample_every-th chunk is read back, which shows that, or fails of  *)
(* its own; any other chunk is accepted as it is.                           *)
WriteChunk ==
  /\ At("write")
  /\ \/ /\ cell' = Written(cell, BufferValue)
        /\ size' = [size EXCEPT ![trk] = pos + n]
        /\ Advance /\ NoFault
     \/ /\ Fault
        /\ cell' = Written(cell, JunkValue)
        /\ size' = [size EXCEPT ![trk] = pos + n]
        /\ StorageFailed /\ UNCHANGED <<hash, sectors>>
     \/ /\ opt.sample /\ Fault
        /\ \/ cell' = Written(cell, BufferValue)
           \/ SilentWrites /\ cell' = Written(cell, RotValue)
        /\ size' = [size EXCEPT ![trk] = pos + n]
        /\ StorageFailed /\ hash' = Written(hash, BufferValue) /\ UNCHANGED sectors
     \/ /\ SilentWrites /\ Fault
        /\ cell' = Written(cell, RotValue)
        /\ size' = [size EXCEPT ![trk] = pos + n]
        /\ Advance
  /\ UNCHANGED <<dsize, kept, slot, meta, setup, seq, verified,
                 trk, ckptAt, recUntil, n, req, att, buf, dma, env>>

(* Leaving the loop: a begun read is always ended, and the prefix written   *)
(* without a storage failure is committed                                   *)
BadUncommitted == ok /\ pos # ckptAt    \* a read error saves nothing
Uncommitted == ~failed /\ pos # ckptAt
BadLoopExit ==
  /\ At("exit")
  /\ IF Uncommitted
     THEN Goto("cksync") /\ ckRet' = "close"
     ELSE Goto("close") /\ UNCHANGED ckRet
  /\ NoFault
  /\ UNCHANGED <<card, job, trk, ckptAt, recUntil, n, req, att, cur, buf, dma, ok, failed, env>>
LoopExit ==
  /\ At("exit")
  /\ dma' = DmaOff
  /\ IF Uncommitted
     THEN Goto("cksync") /\ ckRet' = "close"
     ELSE Goto("close") /\ UNCHANGED ckRet
  /\ NoFault
  /\ UNCHANGED <<card, job, trk, ckptAt, recUntil, n, req, att, cur, buf, ok, failed, env>>

(* What is left of the open track file when its directory entry was not     *)
(* flushed: some size the card has seen, sound up to the last sync          *)
LoseUnsynced ==
  \E s \in -1..MaxLen, k \in 0..MaxLen :
    /\ s <= Max2(dsize[trk], size[trk])
    /\ (s >= kept[trk] \/ dsize[trk] = -1) /\ (s = -1 => dsize[trk] = -1)
    /\ kept[trk] <= k /\ k <= Max2(s, kept[trk])
    /\ size' = [size EXCEPT ![trk] = s] /\ dsize' = [dsize EXCEPT ![trk] = s]
    /\ kept' = [kept EXCEPT ![trk] = Max2(s, 0)]
    /\ cell' = Truncated(trk, k)

BadSync == UNCHANGED files
Sync == /\ dsize' = [dsize EXCEPT ![trk] = size[trk]]
        /\ kept' = [kept EXCEPT ![trk] = Max2(size[trk], 0)]
        /\ UNCHANGED <<size, cell>>

(* f_close flushes the directory entry; after an earlier error it may not *)
CloseTrack ==
  /\ At("close")
  /\ \/ /\ Sync /\ NoFault /\ UNCHANGED ok
        /\ Goto(IF ~ok \/ cancel THEN "out" ELSE "open")
     \/ /\ failed /\ LoseUnsynced /\ NoFault /\ UNCHANGED ok /\ Goto("out")
     \/ /\ ~failed /\ Fault /\ LoseUnsynced /\ ok' = FALSE /\ Goto("out")
  /\ UNCHANGED <<slot, meta, job, trk, ckptAt, recUntil, n, req, att, cur, buf, dma,
                 failed, ckRet, env>>

-----------------------------------------------------------------------------
(* save_checkpoint_inner, one action per card operation *)

CkFailed ==
  \/ ckRet = "loop" /\ ok' = FALSE /\ failed' = TRUE /\ Goto("exit")
  \/ ckRet = "close" /\ ok' = FALSE /\ UNCHANGED failed /\ Goto("close")
  \/ ckRet = "start" /\ UNCHANGED <<ok, failed>> /\ Goto("out")
CkDone == Goto(IF ckRet = "start" THEN "open" ELSE ckRet)

(* f_sync of the track file comes first *)
CkSync ==
  /\ At("cksync")
  /\ \/ Sync /\ Goto("ckopen") /\ NoFault /\ UNCHANGED <<ok, failed>>
     \/ Fault /\ CkFailed /\ UNCHANGED files
  /\ UNCHANGED <<slot, meta, job, trk, ckptAt, recUntil, n, req, att, cur, buf, dma,
                 ckRet, env>>

(* ++sequence, then FA_CREATE_ALWAYS empties the slot of that parity *)
CkOpen ==
  /\ At("ckopen")
  /\ \/ /\ seq' = seq + 1 /\ slot' = [slot EXCEPT ![SlotOf(seq + 1)] = NoRecord]
        /\ Goto("ckwrite") /\ NoFault /\ UNCHANGED <<ok, failed>>
     \/ Fault /\ CkFailed /\ UNCHANGED <<seq, slot>>
  /\ UNCHANGED <<files, meta, setup, sectors, hash, verified, trk, ckptAt, recUntil,
                 n, req, att, cur, buf, dma, ckRet, env>>

(* write, sync and close; on a failure the record may be torn or, when only *)
(* the close failed, complete                                               *)
CkWrite ==
  /\ At("ckwrite")
  /\ \/ /\ slot' = [slot EXCEPT ![SlotOf(seq)] = RecordNow]
        /\ ckptAt' = pos
        /\ CkDone /\ NoFault /\ UNCHANGED <<seq, ok, failed>>
     \/ /\ Fault /\ CkFailed /\ seq' = seq - 1
        /\ slot' \in {slot, [slot EXCEPT ![SlotOf(seq)] = RecordNow]}
        /\ UNCHANGED ckptAt
  /\ UNCHANGED <<files, meta, setup, sectors, hash, verified, trk, recUntil, n, req,
                 att, cur, buf, dma, ckRet, env>>

-----------------------------------------------------------------------------
(* The end of kui_capture *)

Proceed == ~cancel /\ AllCaptured

(* All tracks captured: re-read everything after a remount, unless skipped *)
EndReadback ==
  /\ At("after")
  /\ \/ Proceed /\ SkipEnd /\ Goto("final") /\ NoFault /\ UNCHANGED verified
     \/ /\ Proceed /\ ~SkipEnd /\ FilesAdmitted(TRUE)
        /\ verified' = VerifiedBy(TRUE) /\ Goto("final") /\ NoFault
     \/ /\ ~Proceed \/ (~SkipEnd /\ ~FilesAdmitted(TRUE))
        /\ Goto("out") /\ NoFault /\ UNCHANGED verified
     \/ Proceed /\ ~SkipEnd /\ Fault /\ Goto("out") /\ UNCHANGED verified
  /\ UNCHANGED <<card, setup, seq, sectors, hash, track, env>>

(* Output that carries a verification claim re-reads once more if needed *)
FinalCheck ==
  /\ At("final")
  /\ LET recheck == NeedsVerified /\ ~verified IN
     \/ Proceed /\ ~recheck /\ Goto("gdi") /\ NoFault /\ UNCHANGED verified
     \/ /\ Proceed /\ recheck /\ FilesAdmitted(TRUE)
        /\ verified' = VerifiedBy(TRUE) /\ Goto("gdi") /\ NoFault
     \/ /\ ~Proceed \/ (recheck /\ ~FilesAdmitted(TRUE))
        /\ Goto("out") /\ NoFault /\ UNCHANGED verified
     \/ Proceed /\ recheck /\ Fault /\ Goto("out") /\ UNCHANGED verified
  /\ UNCHANGED <<card, setup, seq, sectors, hash, track, env>>

(* publish(): an existing file must match and is never replaced; a missing  *)
(* one is created (not by Verify) through a temporary file and a rename.    *)
(* "file" is what the folder holds, "none" its absence, "text" the output.  *)
BadMayCreate == ~cancel
MayCreate == mode # "verify" /\ ~cancel
Publish(file, none, text, next) ==
  \/ file = text /\ file' = file /\ Goto(next) /\ NoFault
  \/ file = none /\ text # none /\ MayCreate /\ file' = text /\ Goto(next) /\ NoFault
  \/ /\ file # text /\ (file # none \/ ~MayCreate)
     /\ file' = file /\ Goto("out") /\ NoFault
  \/ /\ Fault /\ Goto("out")
     /\ file' \in {file} \cup (IF file = none /\ MayCreate THEN {text} ELSE {})

PublishGdi ==
  /\ At("gdi")
  /\ Publish(gdi, FALSE, TRUE, "output")
  /\ UNCHANGED <<files, slot, cue, export, manifest, job, track, env>>

(* BIN/CUE publishes a CUE sheet; a derivative is encoded from the saved    *)
(* sectors, and only after every one of them was re-read                    *)
PublishOutput ==
  /\ At("output")
  /\ \/ fmt = "cue" /\ Publish(cue, FALSE, TRUE, "manifest") /\ UNCHANGED export
     \/ fmt = "export" /\ verified /\ Publish(export, Nothing, cell, "manifest")
        /\ UNCHANGED cue
     \/ fmt = "export" /\ ~verified /\ Goto("out") /\ NoFault /\ UNCHANGED <<cue, export>>
     \/ fmt \in {"gdi", "direct"} /\ Goto("manifest") /\ NoFault
        /\ UNCHANGED <<cue, export>>
  /\ UNCHANGED <<files, slot, gdi, manifest, job, track, env>>

(* Schema 1 and 3 claim saved_data_verified, schema 2 claims nothing *)
Schema == IF fmt = "direct" THEN 3 ELSE IF crcOnly THEN 2 ELSE 1
ManifestNow == [schema |-> Schema, disc |-> disc, hash |-> hash]
PublishManifest ==
  /\ At("manifest")
  /\ \/ (fmt = "direct" => verified) /\ Publish(manifest, NoManifest, ManifestNow, "complete")
     \/ fmt = "direct" /\ ~verified /\ Goto("out") /\ NoFault /\ UNCHANGED manifest
  /\ UNCHANGED <<files, slot, gdi, cue, export, job, track, env>>

(* KUI_CAPTURE_COMPLETE, or the out: label; the final unmount may fail *)
Finish ==
  /\ pc \in {"complete", "out"}
  /\ \/ /\ NoFault
        /\ result' = CASE pc = "complete" -> "complete"
                       [] pc = "out" /\ cancel -> "stopped"
                       [] OTHER -> "failed"
     \/ Fault /\ result' = "failed"
  /\ ResetJob /\ UNCHANGED <<card, runs>>

-----------------------------------------------------------------------------
(* The environment *)

PressB ==
  /\ pc # "idle" /\ ~cancel /\ Fault
  /\ cancel' = TRUE
  /\ UNCHANGED <<card, pc, job, track, result, runs>>

(* Power loss.  Only the open track file and the record being written are   *)
(* in doubt; FatFs structures are assumed to survive.                       *)
Crash ==
  /\ pc # "idle" /\ Fault
  /\ LoseUnsynced
  /\ slot' \in {slot} \cup (IF pc = "ckwrite"
                            THEN {[slot EXCEPT ![SlotOf(seq)] = RecordNow]} ELSE {})
  /\ result' = "crashed" /\ ResetJob
  /\ UNCHANGED <<meta, runs>>

New == \E o \in Options, d \in Discs : StartNew(o, d)
Resume == \E o \in Options, d \in Discs, s \in Slots : Load("resume", o, d, s)
Verify == \E o \in Options, d \in Discs, s \in Slots : Load("verify", o, d, s)

Worker ==
  \/ PrefixCheck \/ OpenTrack \/ LoopHead \/ ReadRaw \/ ReadBegin \/ WriteChunk
  \/ LoopExit \/ CloseTrack \/ CkSync \/ CkOpen \/ CkWrite
  \/ EndReadback \/ FinalCheck \/ PublishGdi \/ PublishOutput \/ PublishManifest
  \/ Finish

Next == New \/ Resume \/ Verify \/ Worker \/ PressB \/ Crash

Spec == Init /\ [][Next]_vars

(* The worker thread is always scheduled again, and every card and drive    *)
(* call it makes returns (SD and GD timeouts).  The user, who may verify in *)
(* between, asks for the capture again as long as it is unfinished.         *)
FairSpec == Spec /\ WF_vars(Worker) /\ SF_vars(New) /\ SF_vars(Resume)

-----------------------------------------------------------------------------
(* Properties *)

Labels == {"idle", "check", "open", "loop", "read", "begin", "write", "exit", "close",
           "cksync", "ckopen", "ckwrite", "after", "final", "gdi", "output",
           "manifest", "complete", "out"}

FlagsOK ==
  /\ gdi \in BOOLEAN /\ cue \in BOOLEAN /\ crcOnly \in BOOLEAN /\ sizeResume \in BOOLEAN
  /\ verified \in BOOLEAN /\ ok \in BOOLEAN /\ failed \in BOOLEAN /\ cancel \in BOOLEAN
DataOK ==
  /\ size \in [Tracks -> -1..MaxLen] /\ dsize \in [Tracks -> -1..MaxLen]
  /\ kept \in Counts /\ cell \in Contents
  /\ slot \in [Slots -> Record] /\ export \in Contents /\ manifest \in Manifest
  /\ pc \in Labels /\ mode \in {"new", "resume", "verify"} /\ opt \in OptionSet
  /\ disc \in Nat /\ seq \in Nat /\ fmt \in Formats
  /\ sectors \in Counts /\ hash \in Contents
  /\ trk \in Tracks /\ ckptAt \in 0..MaxLen /\ recUntil \in Nat
  /\ n \in 0..MaxLen /\ req \in 0..MaxLen /\ att \in 0..RetryLimit
  /\ cur \in 0..1 /\ buf \in [0..1 -> Buffer] /\ dma \in Drive
  /\ ckRet \in {"start", "loop", "close"}
  /\ result \in {"none", "complete", "stopped", "failed", "crashed"}
  /\ runs \in 0..MaxRuns /\ faults \in 0..MaxFaults

(* Every variable of the engine and of the card keeps its type. *)
TypeOK == FlagsOK /\ DataOK

SavedAs(d, t, p) == cell[t][p] = Sec(d, t, p) \/ (SilentWrites /\ cell[t][p] = Rot)

(* A checkpoint record on the card, whatever crash, stop or failure came    *)
(* before or after it was written, describes sectors that are on the card   *)
(* to stay (synced before the record) and hashes of this disc's sectors, in *)
(* order and nothing beyond them.                                           *)
CheckpointSound ==
  \A s \in Slots : slot[s].seq > 0 =>
    \A t \in Tracks :
      /\ slot[s].sectors[t] <= kept[t]
      /\ \A p \in Pos : IF p <= slot[s].sectors[t]
                        THEN /\ slot[s].hash[t][p] = Sec(slot[s].disc, t, p)
                             /\ SavedAs(slot[s].disc, t, p)
                        ELSE slot[s].hash[t][p] = Junk

(* Between runs the newest record is one that check_files admits: no crash  *)
(* or failure leaves track sizes for which Resume refuses the job.          *)
Resumable ==
  pc = "idle" => \A s \in Slots : Newest(slot[s].disc, s) =>
    \A t \in Tracks : SizeAdmitted(slot[s].sectors, t, FALSE)

Whole(c, d) == \A t \in Tracks : \A p \in Pos : p <= Len[t] => c[t][p] = Sec(d, t, p)

(* A manifest that says saved_data_verified (schemas 1 and 3) exists only   *)
(* over a card whose every sector equals the disc's, even when the card     *)
(* stored wrong bytes without reporting it.                                 *)
VerifiedClaim ==
  manifest.schema \in {1, 3} =>
    Whole(cell, manifest.disc) /\ \A t \in Tracks : size[t] = Len[t]

(* Exported output is encoded from verified sectors only. *)
ExportVerified ==
  export # Nothing => \E s \in Slots : slot[s].seq > 0 /\ Whole(export, slot[s].disc)

(* Any manifest, also the claim-free schema 2, describes a complete capture *)
(* of one disc that a checkpoint on the card repeats: a power loss never    *)
(* leaves a manifest over a job that would still be resumed.                *)
ManifestComplete ==
  manifest.schema # 0 =>
    /\ Whole(manifest.hash, manifest.disc)
    /\ \E s \in Slots : /\ Newest(manifest.disc, s)
                        /\ slot[s].hash = manifest.hash
                        /\ \A t \in Tracks : slot[s].sectors[t] = Len[t] /\ size[t] = Len[t]

(* The drive never fills a buffer the worker reads or fills at that moment, *)
(* and no read is in flight once the track loop was left.                   *)
DmaExclusive ==
  dma.on => /\ pc \in {"loop", "begin", "write", "cksync", "ckopen", "ckwrite", "exit"}
            /\ pc \in {"begin", "write"} => dma.b # cur
            /\ pc \in {"cksync", "ckopen", "ckwrite"} => ckRet = "loop"

(* The checkpoint on the way out of the track loop was tried and failed *)
ExitCheckpointFailed == ckRet = "close" /\ pos # ckptAt

(* "Stop/read errors can still commit the successfully written prefix"      *)
(* (capture.c:801): however a run ends, by a Stop seen at any check, by a   *)
(* fatal or exhausted read, by a rejected data form or a failed close, the  *)
(* record a Resume would load covers every sector the run has written,      *)
(* unless a storage operation or that last checkpoint itself failed.        *)
StopKeepsPrefix ==
  pc = "out" /\ ~failed /\ ~ExitCheckpointFailed /\ seq > 0 =>
    \E s \in Slots : Newest(disc, s) /\ slot[s].sectors = sectors

BestSeq == Max2(slot["a"].seq, slot["b"].seq)
Committed(t) == IF slot["a"].seq >= slot["b"].seq
                THEN slot["a"].sectors[t] ELSE slot["b"].sectors[t]

(* What the newest record commits never shrinks, and no step (a crash or a  *)
(* truncation included) changes a committed sector.                         *)
CommitMonotone ==
  [][/\ BestSeq <= BestSeq'
     /\ \A t \in Tracks :
          /\ Committed(t) <= Committed(t)'
          /\ \A p \in Pos : p <= Committed(t) => cell'[t][p] = cell[t][p]]_vars

(* "Verify performs no writes." *)
VerifyReadOnly == [][mode = "verify" /\ pc # "idle" => UNCHANGED card]_vars

(* Every run ends. *)
RunEnds == (pc # "idle") ~> (pc = "idle")

(* Without silent corruption, a job that is resumed after each failure is   *)
(* completed and published once the failures stop.                          *)
ResumeFinishes == <>(manifest.schema # 0)

(* docs/capture-format.md:114-122: a job that does not omit the end         *)
(* read-back explicitly is revalidated before it is finished.               *)
EndReadbackDone == pc = "complete" /\ ~opt.skipEnd => verified

-----------------------------------------------------------------------------
(* The inductive invariant behind CheckpointSound, DmaExclusive and          *)
(* CommitMonotone (proved in CaptureProofs)                                  *)

InLoop == pc \in {"loop", "read", "begin", "write"}
InCk == pc \in {"cksync", "ckopen", "ckwrite"}
Over == pc \in {"idle", "out"}

(* Between runs nothing is left of the last one *)
IdleInv ==
  pc = "idle" => /\ sectors = Zero /\ hash = Nothing /\ seq = 0
                 /\ ok = TRUE /\ failed = FALSE /\ dma = DmaOff

(* Card: a sync covers what is there, and an unflushed file is not kept *)
CardInv ==
  \A t \in Tracks :
    /\ kept[t] <= size[t] \/ kept[t] = 0
    /\ dsize[t] = -1 => kept[t] = 0

(* Records: one disc per folder, alternating slots, growing with sequence *)
SlotInv ==
  /\ \A s \in Slots : IF slot[s].seq > 0 THEN SlotOf(slot[s].seq) = s
                      ELSE slot[s] = NoRecord
  /\ \A s \in Slots, t \in Tracks : slot[s].sectors[t] <= Len[t]
  /\ \A s, o \in Slots : slot[s].seq > 0 /\ slot[o].seq > 0 =>
       /\ slot[s].disc = slot[o].disc
       /\ slot[s].seq <= slot[o].seq =>
            \A t \in Tracks : slot[s].sectors[t] <= slot[o].sectors[t]

(* Job against records: same disc and never behind a record *)
JobInv ==
  ~Over => \A s \in Slots : slot[s].seq > 0 =>
             /\ slot[s].disc = disc
             /\ \A t \in Tracks : slot[s].sectors[t] <= sectors[t]

(* The newest record is the job's own while another one may be written *)
MayCommit == ~Over /\ (ok \/ InCk \/ (pc = "exit" /\ ~failed))
SeqInv ==
  MayCommit =>
    IF pc = "ckwrite"
    THEN seq > 0 /\ slot[SlotOf(seq)].seq = 0 /\ \A s \in Slots : slot[s].seq < seq
    ELSE slot[SlotOf(seq)].seq = seq /\ \A s \in Slots : slot[s].seq <= seq

(* Memory: hashes and saved sectors agree with the disc *)
MemInv ==
  ~Over =>
    \A t \in Tracks : \A p \in Pos :
      IF p <= sectors[t]
      THEN hash[t][p] = Sec(disc, t, p) /\ SavedAs(disc, t, p)
      ELSE hash[t][p] = Junk \/ failed

(* The open track file against the position *)
FileInv ==
  ~Over =>
    /\ \A t \in Tracks : t # trk => sectors[t] <= kept[t]
    /\ sectors[trk] <= size[trk] \/ sectors[trk] = 0
    /\ InLoop \/ (InCk /\ ckRet = "loop") =>
         kept[trk] <= sectors[trk] /\ size[trk] = sectors[trk]
    /\ InLoop \/ pc \in {"exit", "close", "cksync"} \/ sectors[trk] <= kept[trk]

(* Chunk geometry, buffers and error flags *)
ChunkInv ==
  /\ \A t \in Tracks : sectors[t] <= Len[t]
  /\ pc \in {"read", "begin", "write"} => 1 <= n /\ pos + n <= Len[trk]
  /\ pc \in {"begin", "write"} => buf[cur] = [t |-> trk, at |-> pos, n |-> n]
  /\ pc = "read" => n <= req /\ pos + req <= Len[trk]
  /\ failed => ~ok /\ pc \in {"exit", "close", "out"}
  /\ InLoop \/ pc \in {"check", "open"} \/ (InCk /\ ckRet # "close") => ok

(* An overlapped read fills the buffer of the next chunk *)
DmaInv ==
  dma.on => /\ pc \in {"loop", "write", "exit"} \/ (InCk /\ ckRet = "loop")
            /\ pc = "loop" \/ InCk => dma.b = cur
            /\ pc = "write" => dma.b # cur

IndInv == /\ TypeOK /\ IdleInv /\ CardInv /\ SlotInv /\ JobInv /\ SeqInv /\ MemInv
          /\ FileInv /\ ChunkInv /\ DmaInv /\ CheckpointSound

=============================================================================

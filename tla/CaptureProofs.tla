--------------------------- MODULE CaptureProofs ---------------------------
(* Proofs about the capture engine: see the inductive invariant at the end  *)
(* of Capture.                                                              *)
EXTENDS Capture, TLAPS

(* Lengths and positions are natural numbers. *)
LEMMA Geometry ==
  /\ MaxLen \in Nat /\ NTracks \in Nat /\ 1 \in Tracks
  /\ \A t \in Tracks : t \in 0..NTracks /\ Len[t] \in 1..MaxLen /\ Tail[t] \in 0..MaxLen
  BY NTracksAssumption, MaxLenAssumption, LenAssumption, TailAssumption DEF Tracks, Pos

(* A chunk is never empty and never runs past the end of its track. *)
LEMMA ReadCountBounds ==
  ASSUME NEW t \in Tracks, NEW p \in 0..MaxLen
  PROVE  /\ ReadCount(t, p) \in 0..MaxLen
         /\ p < Len[t] => ReadCount(t, p) >= 1 /\ p + ReadCount(t, p) <= Len[t]
  BY Geometry, ChunkAssumption DEF ReadCount, Min2

LEMMA SlotOfIsSlot == \A s \in Nat : SlotOf(s) \in Slots
  BY DEF SlotOf, Slots

(* The constant values of an idle worker and of an empty folder are typed. *)
LEMMA ConstantTypes ==
  /\ Zero \in Counts /\ Nothing \in Contents /\ Junk \in Value /\ Rot \in Value
  /\ NoRecord \in Record /\ NoManifest \in Manifest /\ NoOptions \in OptionSet
  /\ DmaOff \in Drive /\ EmptyBuffer \in Buffer
<1>1. Zero \in Counts /\ Junk \in Value /\ Rot \in Value
  BY Geometry DEF Zero, Counts, Junk, Rot, Value
<1>2. Nothing \in Contents
  BY <1>1 DEF Nothing, Contents
<1>3. NoRecord \in Record /\ NoManifest \in Manifest
  BY <1>1, <1>2 DEF NoRecord, Record, NoManifest, Manifest, Formats
<1>4. NoOptions \in OptionSet /\ DmaOff \in Drive /\ EmptyBuffer \in Buffer
  BY Geometry DEF NoOptions, OptionSet, Formats, DmaOff, Drive, EmptyBuffer, Buffer
<1>5. QED  BY <1>1, <1>2, <1>3, <1>4

(* Truncating or writing a chunk keeps contents typed. *)
LEMMA TruncatedType ==
  ASSUME cell \in Contents, NEW t \in Tracks, NEW p \in Int
  PROVE  Truncated(t, p) \in Contents
  BY ConstantTypes DEF Truncated, Contents

LEMMA BufferValueType ==
  ASSUME DataOK, NEW p \in Pos, pos < p
  PROVE  BufferValue(p) \in Value
<1>1. /\ buf[cur].t \in Nat /\ buf[cur].at \in Nat /\ disc \in Nat /\ pos \in Nat
      /\ p \in Nat
  BY Geometry DEF DataOK, Buffer, pos, Counts, Pos
<1>2. buf[cur].at + (p - pos) \in Nat
  BY <1>1
<1>3. QED  BY <1>1, <1>2, ConstantTypes DEF BufferValue, Sec, Value

LEMMA WrittenType ==
  ASSUME DataOK, NEW f \in Contents
  PROVE  /\ Written(f, BufferValue) \in Contents
         /\ Written(f, JunkValue) \in Contents
         /\ Written(f, RotValue) \in Contents
<1>1. \A p \in Pos : pos < p => BufferValue(p) \in Value
  BY BufferValueType
<1>2. trk \in Tracks  BY DEF DataOK
<1>3. QED
  BY <1>1, <1>2, ConstantTypes DEF Written, Contents, JunkValue, RotValue

-----------------------------------------------------------------------------
(* Type correctness *)

LEMMA InitType == Init => TypeOK
<1>1. Init => FlagsOK
  BY Zenon DEF Init, FlagsOK
<1>2. Init => DataOK
  BY ConstantTypes, Geometry, RetryAssumption, BoundsAssumption
  DEF Init, DataOK, Labels, Formats
<1>3. QED  BY <1>1, <1>2 DEF TypeOK

LEMMA FaultType ==
  ASSUME DataOK, Fault \/ NoFault
  PROVE  faults' \in 0..MaxFaults
  BY BoundsAssumption DEF DataOK, Fault, NoFault

LEMMA LoseType ==
  ASSUME DataOK, LoseUnsynced
  PROVE  /\ size' \in [Tracks -> -1..MaxLen] /\ dsize' \in [Tracks -> -1..MaxLen]
         /\ kept' \in Counts /\ cell' \in Contents
<1>1. PICK s \in -1..MaxLen, k \in 0..MaxLen :
        /\ size' = [size EXCEPT ![trk] = s] /\ dsize' = [dsize EXCEPT ![trk] = s]
        /\ kept' = [kept EXCEPT ![trk] = Max2(s, 0)]
        /\ cell' = Truncated(trk, k)
  BY DEF LoseUnsynced
<1>2. Truncated(trk, k) \in Contents
  BY TruncatedType DEF DataOK
<1>3. QED  BY <1>1, <1>2, Geometry DEF DataOK, Counts, Max2

LEMMA SyncType ==
  ASSUME DataOK, Sync
  PROVE  /\ size' \in [Tracks -> -1..MaxLen] /\ dsize' \in [Tracks -> -1..MaxLen]
         /\ kept' \in Counts /\ cell' \in Contents
  BY Geometry DEF DataOK, Sync, Counts, Max2

LEMMA RecordNowType ==
  ASSUME TypeOK PROVE RecordNow \in Record
  BY DEF TypeOK, FlagsOK, DataOK, RecordNow, Record

(* Every step keeps the types; positions stay inside their tracks because a *)
(* chunk does (ChunkInv), sequences positive because of SeqInv.             *)
LEMMA TypeStep ==
  ASSUME TypeOK, ChunkInv, SeqInv, [Next]_vars
  PROVE  TypeOK'
<1> USE DEF TypeOK
<1>1. ASSUME NEW o \in Options, NEW d \in Discs, StartNew(o, d)
      PROVE  TypeOK'
  <2>1. o \in OptionSet /\ d \in Nat
    BY OptionsAssumption, DiscsAssumption
  <2>2. o.crc \in BOOLEAN /\ o.fmt \in Formats
    BY <2>1 DEF OptionSet
  <2>3. FlagsOK'
    BY <1>1, <2>2, Zenon DEF StartNew, FlagsOK, meta
  <2>4. DataOK'
    BY <1>1, <2>1, <2>2, ConstantTypes, BoundsAssumption
    DEF StartNew, DataOK, Labels, Goto, NoFault, files, meta, Slots
  <2>5. QED  BY <2>3, <2>4
<1>2. ASSUME NEW m \in {"resume", "verify"}, NEW o \in Options, NEW d \in Discs,
             NEW s \in Slots, Load(m, o, d, s)
      PROVE  TypeOK'
  <2>1. o \in OptionSet /\ d \in Nat
    BY OptionsAssumption, DiscsAssumption
  <2>2. slot[s] \in Record
    BY DEF DataOK
  <2>3. slot[s].crc \in BOOLEAN /\ (o.sizeOnly /\ slot[s].crc) \in BOOLEAN
    BY <2>2 DEF Record
  <2>4. FlagsOK'
    BY <1>2, <2>3, Zenon DEF Load, FlagsOK, card, track
  <2>5. DataOK'
    BY <1>2, <2>1, <2>2, BoundsAssumption
    DEF Load, DataOK, Labels, Goto, NoFault, card, track, Record
  <2>6. QED  BY <2>4, <2>5
<1>3. CASE PrefixCheck
  <2>1. FlagsOK'
    BY <1>3, Zenon
    DEF PrefixCheck, FlagsOK, VerifiedBy, BytesRead, AllCaptured, card, setup, track, env
  <2>2. DataOK'
    BY <1>3, FaultType DEF PrefixCheck, DataOK, Labels, Goto, card, setup, track, env
  <2>3. QED  BY <2>1, <2>2 DEF TypeOK
<1>4. CASE OpenTrack
  <2>1. FlagsOK'
    BY <1>4, Zenon DEF OpenTrack, FlagsOK, StartTrack, files, track, meta, job, setup, env
  <2>2. DataOK'
    BY <1>4, FaultType, TruncatedType, Geometry
    DEF OpenTrack, DataOK, StartTrack, Labels, Goto, files, track, meta, job, setup, env,
        Min2, Max2, Counts
  <2>3. QED  BY <2>1, <2>2 DEF TypeOK
<1>5. CASE LoopHead
  <2>1. FlagsOK'
    BY <1>5, Zenon DEF LoopHead, FlagsOK, card, job, setup, env
  <2>2. pc' \in Labels /\ faults' \in 0..MaxFaults
    BY <1>5, FaultType DEF LoopHead, Labels, Goto
  <2>3. n' \in 0..MaxLen /\ req' \in 0..MaxLen /\ att' \in 0..RetryLimit
    <3>1. ReadCount(trk, pos) \in 0..MaxLen
      BY ReadCountBounds DEF DataOK, Counts, pos
    <3>2. QED  BY <1>5, <3>1, Geometry, MaxLenAssumption, RetryAssumption DEF LoopHead, DataOK
  <2>4. buf' \in [0..1 -> Buffer] /\ dma' \in Drive
    <3>1. dma.b \in 0..1 /\ [t |-> dma.t, at |-> dma.at, n |-> dma.n] \in Buffer
      BY DEF DataOK, Drive, Buffer
    <3>2. QED  BY <1>5, <3>1, ConstantTypes DEF LoopHead, DataOK
  <2>5. QED
    BY <1>5, <2>1, <2>2, <2>3, <2>4 DEF LoopHead, DataOK, card, job, setup, env
<1>6. CASE ReadRaw
  <2>1. FlagsOK'
    BY <1>6, Zenon DEF ReadRaw, FlagsOK, card, job, setup, env
  <2>2. DataOK'
    BY <1>6, FaultType, ConstantTypes, Geometry, RetryAssumption
    DEF ReadRaw, MayRetry, DataOK, Labels, Goto, card, job, setup, env, Counts, pos,
        Buffer
  <2>3. QED  BY <2>1, <2>2 DEF TypeOK
<1>7. CASE ReadBegin
  <2>1. FlagsOK'
    BY <1>7, Zenon DEF ReadBegin, FlagsOK, card, job, setup, env
  <2>2. pc' \in Labels /\ faults' \in 0..MaxFaults
    BY <1>7, FaultType DEF ReadBegin, Labels, Goto
  <2>3. buf' \in [0..1 -> Buffer] /\ dma' \in Drive
    <3>1. pos + n \in 0..MaxLen /\ trk \in 0..NTracks /\ 1 - cur \in 0..1
      BY <1>7, Geometry DEF ReadBegin, At, ChunkInv, DataOK, Counts, pos
    <3>2. ReadCount(trk, pos + n) \in 0..MaxLen
      BY <3>1, ReadCountBounds DEF DataOK
    <3>3. [on |-> TRUE, b |-> 1 - cur, t |-> trk, at |-> pos + n,
           n |-> ReadCount(trk, pos + n)] \in Drive
      BY <3>1, <3>2 DEF Drive
    <3>4. QED  BY <1>7, <3>1, <3>3, ConstantTypes DEF ReadBegin, DataOK
  <2>4. QED
    BY <1>7, <2>1, <2>2, <2>3 DEF ReadBegin, DataOK, card, job, setup, env
<1>8. CASE WriteChunk
  <2>1. FlagsOK'
    BY <1>8, Zenon DEF WriteChunk, FlagsOK, Advance, StorageFailed, meta, setup, env
  <2>2. pc' \in Labels /\ faults' \in 0..MaxFaults
    BY <1>8, FaultType DEF WriteChunk, Advance, StorageFailed, Labels, Goto
  <2>3. pos + n \in 0..MaxLen /\ pos = sectors[trk] /\ trk \in Tracks
    BY <1>8, Geometry DEF WriteChunk, At, ChunkInv, DataOK, Counts, pos
  <2>4. size' \in [Tracks -> -1..MaxLen]
    BY <1>8, <2>3, Geometry DEF WriteChunk, DataOK
  <2>5. sectors' \in Counts
    BY <1>8, <2>3 DEF WriteChunk, Advance, StorageFailed, DataOK, Counts
  <2>6. cell' \in Contents /\ hash' \in Contents
    BY <1>8, WrittenType DEF WriteChunk, Advance, StorageFailed, DataOK
  <2>7. cur' \in 0..1 /\ ckRet' \in {"start", "loop", "close"}
    BY <1>8 DEF WriteChunk, Advance, StorageFailed, DataOK
  <2>8. QED
    BY <1>8, <2>1, <2>2, <2>4, <2>5, <2>6, <2>7 DEF WriteChunk, DataOK, meta, setup, env
<1>9. CASE LoopExit
  <2>1. FlagsOK'
    BY <1>9, Zenon DEF LoopExit, FlagsOK, card, job, setup, env
  <2>2. DataOK'
    BY <1>9, FaultType, ConstantTypes
    DEF LoopExit, DataOK, Labels, Goto, card, job, setup, env
  <2>3. QED  BY <2>1, <2>2 DEF TypeOK
<1>10. CASE CloseTrack
  <2>1. FlagsOK'
    BY <1>10, Zenon DEF CloseTrack, FlagsOK, meta, job, setup, env
  <2>2. DataOK'
    BY <1>10, FaultType, SyncType, LoseType
    DEF CloseTrack, DataOK, Labels, Goto, meta, job, setup, env
  <2>3. QED  BY <2>1, <2>2 DEF TypeOK
<1>11. CASE CkSync
  <2>1. FlagsOK'
    BY <1>11, Zenon DEF CkSync, FlagsOK, CkFailed, meta, job, setup, env
  <2>2. DataOK'
    BY <1>11, FaultType, SyncType
    DEF CkSync, DataOK, CkFailed, Labels, Goto, files, meta, job, setup, env
  <2>3. QED  BY <2>1, <2>2 DEF TypeOK
<1>12. CASE CkOpen
  <2>1. FlagsOK'
    BY <1>12, Zenon DEF CkOpen, FlagsOK, CkFailed, meta, setup, env
  <2>2. pc' \in Labels /\ faults' \in 0..MaxFaults
    BY <1>12, FaultType DEF CkOpen, CkFailed, Labels, Goto
  <2>3. seq' \in Nat /\ slot' \in [Slots -> Record]
    BY <1>12, ConstantTypes, SlotOfIsSlot DEF CkOpen, DataOK
  <2>4. QED
    BY <1>12, <2>1, <2>2, <2>3 DEF CkOpen, DataOK, files, meta, setup, env
<1>13. CASE CkWrite
  <2>1. FlagsOK'
    BY <1>13, Zenon DEF CkWrite, FlagsOK, CkFailed, meta, setup, env
  <2>2. pc' \in Labels /\ faults' \in 0..MaxFaults
    BY <1>13, FaultType DEF CkWrite, CkFailed, CkDone, Labels, Goto, DataOK
  <2>3. seq' \in Nat /\ ckptAt' \in 0..MaxLen
    BY <1>13 DEF CkWrite, DataOK, SeqInv, MayCommit, InCk, Over, At, pos, Counts
  <2>4. slot' \in [Slots -> Record]
    BY <1>13, RecordNowType, SlotOfIsSlot DEF CkWrite, DataOK
  <2>5. QED
    BY <1>13, <2>1, <2>2, <2>3, <2>4 DEF CkWrite, DataOK, files, meta, setup, env
<1>14. CASE EndReadback
  <2>1. FlagsOK'
    BY <1>14, Zenon
    DEF EndReadback, FlagsOK, VerifiedBy, BytesRead, AllCaptured, card, setup, track, env
  <2>2. DataOK'
    BY <1>14, FaultType DEF EndReadback, DataOK, Labels, Goto, card, setup, track, env
  <2>3. QED  BY <2>1, <2>2 DEF TypeOK
<1>15. CASE FinalCheck
  <2>1. FlagsOK'
    BY <1>15, Zenon
    DEF FinalCheck, FlagsOK, VerifiedBy, BytesRead, AllCaptured, card, setup, track, env
  <2>2. DataOK'
    BY <1>15, FaultType DEF FinalCheck, DataOK, Labels, Goto, card, setup, track, env
  <2>3. QED  BY <2>1, <2>2 DEF TypeOK
<1>16. CASE PublishGdi
  <2>1. FlagsOK'
    BY <1>16, Zenon DEF PublishGdi, FlagsOK, Publish, job, setup, track, env
  <2>2. DataOK'
    BY <1>16, FaultType
    DEF PublishGdi, DataOK, Publish, Labels, Goto, files, job, setup, track, env
  <2>3. QED  BY <2>1, <2>2 DEF TypeOK
<1>17. CASE PublishOutput
  <2>1. FlagsOK'
    BY <1>17, Zenon DEF PublishOutput, FlagsOK, Publish, job, setup, track, env
  <2>2. DataOK'
    BY <1>17, FaultType
    DEF PublishOutput, DataOK, Publish, Labels, Goto, files, job, setup, track, env
  <2>3. QED  BY <2>1, <2>2 DEF TypeOK
<1>18. CASE PublishManifest
  <2>1. FlagsOK'
    BY <1>18, Zenon DEF PublishManifest, FlagsOK, Publish, job, setup, track, env
  <2>2. DataOK'
    BY <1>18, FaultType
    DEF PublishManifest, DataOK, Publish, ManifestNow, Schema, Manifest, Labels, Goto,
        files, job, setup, track, env
  <2>3. QED  BY <2>1, <2>2 DEF TypeOK
<1>19. CASE Finish
  <2>1. FlagsOK'
    BY <1>19, Zenon DEF Finish, FlagsOK, ResetJob, card
  <2>2. DataOK'
    BY <1>19, FaultType, ConstantTypes, Geometry, RetryAssumption
    DEF Finish, DataOK, ResetJob, Labels, Formats, card
  <2>3. QED  BY <2>1, <2>2 DEF TypeOK
<1>20. CASE PressB
  <2>1. FlagsOK'
    BY <1>20, Zenon DEF PressB, FlagsOK, card, job, setup, track
  <2>2. DataOK'
    BY <1>20, FaultType DEF PressB, DataOK, card, job, setup, track
  <2>3. QED  BY <2>1, <2>2 DEF TypeOK
<1>21. CASE Crash
  <2>1. FlagsOK'
    BY <1>21, Zenon DEF Crash, FlagsOK, ResetJob, meta
  <2>2. DataOK'
    BY <1>21, FaultType, LoseType, RecordNowType, SlotOfIsSlot, ConstantTypes, Geometry,
       RetryAssumption
    DEF Crash, DataOK, ResetJob, Labels, Formats, meta
  <2>3. QED  BY <2>1, <2>2 DEF TypeOK
<1>22. CASE UNCHANGED vars
  BY <1>22 DEF FlagsOK, DataOK, vars, card, job, setup, track, env
<1>23. QED
  BY <1>1, <1>2, <1>3, <1>4, <1>5, <1>6, <1>7, <1>8, <1>9, <1>10, <1>11, <1>12, <1>13,
     <1>14, <1>15, <1>16, <1>17, <1>18, <1>19, <1>20, <1>21, <1>22
  DEF Next, New, Resume, Verify, Worker

-----------------------------------------------------------------------------
(* Which actions touch what *)

LEMMA FilesFrame ==
  ASSUME [Next]_vars
  PROVE  UNCHANGED files \/ OpenTrack \/ WriteChunk \/ CloseTrack \/ CkSync \/ Crash
  BY DEF Next, New, Resume, Verify, Worker, vars, StartNew, Load, PrefixCheck, LoopHead,
         ReadRaw, ReadBegin, LoopExit, CkOpen, CkWrite, EndReadback, FinalCheck,
         PublishGdi, PublishOutput, PublishManifest, Finish, PressB, card, files

LEMMA SlotFrame ==
  ASSUME [Next]_vars
  PROVE  \/ UNCHANGED slot \/ CkOpen \/ CkWrite \/ Crash
         \/ \E o \in Options, d \in Discs : StartNew(o, d)
  BY DEF Next, New, Resume, Verify, Worker, vars, Load, PrefixCheck, OpenTrack, LoopHead,
         ReadRaw, ReadBegin, WriteChunk, LoopExit, CloseTrack, CkSync, EndReadback,
         FinalCheck, PublishGdi, PublishOutput, PublishManifest, Finish, PressB, card

(* The job's progress changes only when a run starts or ends, or a chunk is *)
(* written.                                                                 *)
LEMMA JobFrame ==
  ASSUME DataOK, [Next]_vars
  PROVE  \/ UNCHANGED <<sectors, hash, disc>> /\ (pc' = "idle" => pc = "idle")
         \/ WriteChunk \/ Finish \/ Crash
         \/ \E m \in {"resume", "verify"}, o \in Options, d \in Discs, s \in Slots :
              Load(m, o, d, s)
         \/ \E o \in Options, d \in Discs : StartNew(o, d)
  BY DEF Next, New, Resume, Verify, Worker, vars, job, setup, PrefixCheck, OpenTrack,
         LoopHead, ReadRaw, ReadBegin, LoopExit, CloseTrack, CkSync, CkOpen, CkWrite,
         CkFailed, CkDone, EndReadback, FinalCheck, PublishGdi, PublishOutput,
         PublishManifest, Publish, PressB, At, Goto, DataOK

(* From an ended run the worker only goes on to the next one. *)
LEMMA OverFrame ==
  ASSUME Over, [Next]_vars
  PROVE  \/ UNCHANGED <<pc, card, job, track>> \/ Finish \/ Crash
         \/ \E m \in {"resume", "verify"}, o \in Options, d \in Discs, s \in Slots :
              Load(m, o, d, s)
         \/ \E o \in Options, d \in Discs : StartNew(o, d)
  BY DEF Next, New, Resume, Verify, Worker, vars, PrefixCheck, OpenTrack, LoopHead, ReadRaw,
         ReadBegin, WriteChunk, LoopExit, CloseTrack, CkSync, CkOpen, CkWrite, EndReadback,
         FinalCheck, PublishGdi, PublishOutput, PublishManifest, PressB, At, Over

LEMMA InitInv == Init => IndInv
<1> SUFFICES ASSUME Init PROVE IndInv
  OBVIOUS
<1>1. TypeOK
  BY InitType
<1>2. IdleInv /\ CardInv /\ JobInv /\ SeqInv /\ MemInv /\ FileInv /\ DmaInv
  BY DEF Init, IdleInv, CardInv, JobInv, SeqInv, MayCommit, MemInv, FileInv, DmaInv,
         Over, DmaOff, Zero
<1>3. SlotInv /\ CheckpointSound
  BY Geometry DEF Init, SlotInv, CheckpointSound, NoRecord, Zero
<1>4. ChunkInv
  BY Geometry DEF Init, ChunkInv, Zero
<1>5. QED  BY <1>1, <1>2, <1>3, <1>4 DEF IndInv

LEMMA IdleStep ==
  ASSUME IndInv, [Next]_vars
  PROVE  IdleInv'
<1> USE DEF IndInv, IdleInv
<1>1. CASE Finish \/ Crash
  BY <1>1 DEF Finish, Crash, ResetJob
<1>2. CASE UNCHANGED vars
  BY <1>2 DEF vars, job, track, setup
<1>3. CASE ~(Finish \/ Crash) /\ Next
  <2>1. pc' # "idle"
    BY <1>3 DEF Next, New, Resume, Verify, Worker, StartNew, Load, PrefixCheck, OpenTrack,
       LoopHead, ReadRaw, ReadBegin, WriteChunk, Advance, StorageFailed, LoopExit,
       CloseTrack, CkSync, CkOpen, CkWrite, CkFailed, CkDone, EndReadback, FinalCheck,
       PublishGdi, PublishOutput, PublishManifest, Publish, PressB, At, Goto,
       TypeOK, DataOK
  <2>2. QED  BY <2>1
<1>4. QED  BY <1>1, <1>2, <1>3

-----------------------------------------------------------------------------
(* What truncation, writing and flushing do to the files *)

LEMMA TruncatedAt ==
  ASSUME DataOK, NEW t \in Tracks, NEW k \in Int, NEW u \in Tracks, NEW p \in Pos
  PROVE  Truncated(t, k)[u][p] = IF u = t /\ ~(p <= k) THEN Junk ELSE cell[u][p]
  BY DEF DataOK, Contents, Truncated

LEMMA WrittenAt ==
  ASSUME DataOK, NEW f \in Contents, NEW u \in Tracks, NEW p \in Pos
  PROVE  /\ Written(f, BufferValue)[u][p] =
              IF u = trk /\ pos < p /\ p <= pos + n THEN BufferValue(p) ELSE f[u][p]
         /\ Written(f, JunkValue)[u][p] =
              IF u = trk /\ pos < p /\ p <= pos + n THEN Junk ELSE f[u][p]
         /\ Written(f, RotValue)[u][p] =
              IF u = trk /\ pos < p /\ p <= pos + n THEN Rot ELSE f[u][p]
  BY DEF DataOK, Contents, Written, JunkValue, RotValue

LEMMA LoseEffect ==
  ASSUME DataOK, CardInv, LoseUnsynced
  PROVE  /\ CardInv'
         /\ \A t \in Tracks : kept[t] <= kept'[t]
         /\ \A t \in Tracks, p \in Pos : p <= kept[t] => cell'[t][p] = cell[t][p]
<1>1. PICK s \in -1..MaxLen, k \in 0..MaxLen :
        /\ (s >= kept[trk] \/ dsize[trk] = -1) /\ kept[trk] <= k
        /\ size' = [size EXCEPT ![trk] = s] /\ dsize' = [dsize EXCEPT ![trk] = s]
        /\ kept' = [kept EXCEPT ![trk] = Max2(s, 0)]
        /\ cell' = Truncated(trk, k)
  BY DEF LoseUnsynced
<1>2. trk \in Tracks /\ kept[trk] \in Nat
  BY DEF DataOK, Counts
<1>3. CardInv' /\ \A t \in Tracks : kept[t] <= kept'[t]
  BY <1>1, <1>2, Geometry DEF DataOK, CardInv, Max2, Counts
<1>4. \A t \in Tracks, p \in Pos : p <= kept[t] => cell'[t][p] = cell[t][p]
  BY <1>1, <1>2, TruncatedAt, Geometry DEF Pos
<1>5. QED  BY <1>3, <1>4

LEMMA SyncEffect ==
  ASSUME DataOK, CardInv, Sync
  PROVE  /\ CardInv' /\ UNCHANGED <<size, cell>>
         /\ \A t \in Tracks : kept[t] <= kept'[t]
         /\ kept'[trk] = Max2(size[trk], 0)
         /\ \A t \in Tracks : t # trk => kept'[t] = kept[t]
  BY Geometry DEF DataOK, CardInv, Sync, Max2, Counts

(* Opening a track drops only what lies beyond the job's position. *)
LEMMA OpenEffect ==
  ASSUME IndInv, OpenTrack
  PROVE  /\ CardInv'
         /\ \A t \in Tracks : sectors[t] <= kept'[t] /\ (t # trk' => kept'[t] = kept[t])
         /\ \A t \in Tracks, p \in Pos : p <= sectors[t] => cell'[t][p] = cell[t][p]
<1>1. \A t \in Tracks : sectors[t] <= kept[t]
  BY DEF IndInv, FileInv, OpenTrack, At, Over, InLoop
<1>2. CASE UNCHANGED files
  BY <1>1, <1>2 DEF IndInv, CardInv, files
<1>3. CASE ~UNCHANGED files
  <2>1. PICK t \in Tracks :
          /\ trk' = t /\ UNCHANGED dsize
          /\ kept' = [kept EXCEPT ![t] = Min2(@, sectors[t])]
          /\ \/ size' = [size EXCEPT ![t] = sectors[t]] /\ cell' = Truncated(t, sectors[t])
             \/ size' = [size EXCEPT ![t] = Max2(@, 0)] /\ UNCHANGED cell
    BY <1>3 DEF OpenTrack, StartTrack
  <2>2. kept' = [kept EXCEPT ![t] = sectors[t]]
    <3>1. Min2(kept[t], sectors[t]) = sectors[t]
      BY <1>1 DEF Min2, IndInv, TypeOK, DataOK, Counts
    <3>2. QED  BY <2>1, <3>1
  <2>3. \A u \in Tracks : sectors[u] <= kept'[u] /\ (u # trk' => kept'[u] = kept[u])
    BY <1>1, <2>1, <2>2 DEF IndInv, TypeOK, DataOK, Counts
  <2>4. CardInv'
    BY <1>1, <2>1, <2>2, Geometry DEF IndInv, TypeOK, DataOK, Counts, CardInv, Max2
  <2>5. \A u \in Tracks, p \in Pos : p <= sectors[u] => cell'[u][p] = cell[u][p]
    <3>1. sectors[t] \in Int
      BY DEF IndInv, TypeOK, DataOK, Counts
    <3>2. QED  BY <2>1, <3>1, TruncatedAt DEF IndInv, TypeOK
  <2>6. QED  BY <2>3, <2>4, <2>5
<1>4. QED  BY <1>2, <1>3

(* A write never touches what lies before the job's position. *)
LEMMA WriteEffect ==
  ASSUME IndInv, WriteChunk
  PROVE  /\ CardInv' /\ UNCHANGED <<kept, dsize>>
         /\ \A t \in Tracks, p \in Pos :
              p <= sectors[t] => cell'[t][p] = cell[t][p] /\ hash'[t][p] = hash[t][p]
<1>1. pos = sectors[trk] /\ pos \in Nat /\ n \in Nat /\ trk \in Tracks
  BY DEF pos, IndInv, TypeOK, DataOK, Counts
<1>2. UNCHANGED <<kept, dsize>> /\ size' = [size EXCEPT ![trk] = pos + n]
  BY DEF WriteChunk
<1>3. kept[trk] <= sectors[trk]
  BY DEF IndInv, FileInv, WriteChunk, At, Over, InLoop
<1>4. CardInv'
  BY <1>1, <1>2, <1>3 DEF IndInv, TypeOK, DataOK, Counts, CardInv
<1>5. /\ \A t \in Tracks, p \in Pos : p <= sectors[t] => cell'[t][p] = cell[t][p]
      /\ \A t \in Tracks, p \in Pos : p <= sectors[t] => hash'[t][p] = hash[t][p]
  <2>1. cell \in Contents /\ hash \in Contents /\ DataOK
    BY DEF IndInv, TypeOK, DataOK
  <2>2. /\ \/ cell' = Written(cell, BufferValue) \/ cell' = Written(cell, JunkValue)
           \/ cell' = Written(cell, RotValue)
        /\ UNCHANGED hash \/ hash' = Written(hash, BufferValue)
    BY DEF WriteChunk, Advance
  <2>3. \A p \in Pos : p \in Nat
    BY Geometry DEF Pos
  <2>4. ASSUME NEW t \in Tracks, NEW p \in Pos, p <= sectors[t]
        PROVE  cell'[t][p] = cell[t][p] /\ hash'[t][p] = hash[t][p]
    <3>1. ~(t = trk /\ pos < p /\ p <= pos + n)
      BY <1>1, <2>3, <2>4
    <3>2. /\ Written(cell, BufferValue)[t][p] = cell[t][p]
          /\ Written(cell, JunkValue)[t][p] = cell[t][p]
          /\ Written(cell, RotValue)[t][p] = cell[t][p]
          /\ Written(hash, BufferValue)[t][p] = hash[t][p]
      BY <2>1, <3>1, WrittenAt
    <3>3. QED  BY <2>2, <3>2
  <2>5. QED  BY <2>4
<1>6. QED  BY <1>2, <1>4, <1>5

LEMMA CardStep ==
  ASSUME IndInv, [Next]_vars
  PROVE  CardInv'
<1>1. CASE UNCHANGED files
  BY <1>1 DEF IndInv, CardInv, files
<1>2. CASE CloseTrack \/ CkSync \/ Crash
  BY <1>2, LoseEffect, SyncEffect
  DEF IndInv, TypeOK, CardInv, CloseTrack, CkSync, Crash, files
<1>3. QED  BY <1>1, <1>2, OpenEffect, WriteEffect, FilesFrame

-----------------------------------------------------------------------------
(* The step lemmas, one per conjunct of the inductive invariant *)

(* A record is written only over an emptied slot and only with the highest  *)
(* sequence, by CkWrite or by a power loss in the middle of it.             *)
LEMMA CommitEffect ==
  ASSUME IndInv, pc = "ckwrite", slot' = [slot EXCEPT ![SlotOf(seq)] = RecordNow]
  PROVE  /\ SlotInv'
         /\ slot'[SlotOf(seq)] = RecordNow /\ SlotOf(seq) \in Slots
         /\ \A s \in Slots : s # SlotOf(seq) => slot'[s] = slot[s] /\ slot[s].seq < seq
<1>1. /\ seq \in Nat /\ seq > 0 /\ SlotOf(seq) \in Slots
      /\ \A s \in Slots : slot[s].seq < seq
  BY SlotOfIsSlot DEF IndInv, SeqInv, MayCommit, InCk, Over, TypeOK, DataOK
<1>2. /\ slot'[SlotOf(seq)] = RecordNow
      /\ \A s \in Slots : s # SlotOf(seq) => slot'[s] = slot[s]
  BY <1>1 DEF IndInv, TypeOK, DataOK
<1>3. /\ RecordNow.seq = seq /\ RecordNow.disc = disc /\ RecordNow.sectors = sectors
  BY DEF RecordNow
<1>4. \A s \in Slots : slot[s].seq > 0 =>
         /\ slot[s].disc = disc
         /\ \A t \in Tracks : slot[s].sectors[t] <= sectors[t]
  BY DEF IndInv, JobInv, Over
<1>5. \A s \in Slots : IF slot'[s].seq > 0 THEN SlotOf(slot'[s].seq) = s
                       ELSE slot'[s] = NoRecord
  BY <1>1, <1>2, <1>3 DEF IndInv, SlotInv
<1>6. \A s \in Slots, t \in Tracks : slot'[s].sectors[t] <= Len[t]
  BY <1>2, <1>3 DEF IndInv, SlotInv, ChunkInv
<1>7. ASSUME NEW s \in Slots, NEW o \in Slots, slot'[s].seq > 0, slot'[o].seq > 0
      PROVE  /\ slot'[s].disc = slot'[o].disc
             /\ slot'[s].seq <= slot'[o].seq =>
                  \A t \in Tracks : slot'[s].sectors[t] <= slot'[o].sectors[t]
  <2>1. \A t \in Tracks : sectors[t] <= sectors[t]
    BY DEF IndInv, TypeOK, DataOK, Counts
  <2>2. slot[s].seq \in Nat /\ slot[o].seq \in Nat
    BY DEF IndInv, TypeOK, DataOK, Record
  <2>3. CASE s = SlotOf(seq)
    BY <1>1, <1>2, <1>3, <1>4, <1>7, <2>1, <2>2, <2>3
  <2>4. CASE s # SlotOf(seq)
    BY <1>1, <1>2, <1>3, <1>4, <1>7, <2>2, <2>4 DEF IndInv, SlotInv
  <2>5. QED  BY <2>3, <2>4
<1>8. QED  BY <1>1, <1>2, <1>5, <1>6, <1>7 DEF SlotInv

LEMMA SlotStep ==
  ASSUME IndInv, [Next]_vars
  PROVE  SlotInv'
<1>1. CASE UNCHANGED slot
  BY <1>1 DEF IndInv, SlotInv
<1>2. CASE \E o \in Options, d \in Discs : StartNew(o, d)
  BY <1>2, Geometry DEF StartNew, SlotInv, NoRecord, Zero
<1>3. CASE CkOpen
  <2>1. /\ NoRecord.seq = 0 /\ \A t \in Tracks : NoRecord.sectors[t] = 0
    BY DEF NoRecord, Zero
  <2>2. \A s \in Slots : slot'[s] = slot[s] \/ slot'[s] = NoRecord
    BY <1>3 DEF CkOpen, IndInv, TypeOK, DataOK
  <2>3. QED  BY <2>1, <2>2, Geometry DEF IndInv, SlotInv
<1>4. CASE CkWrite \/ Crash
  BY <1>1, <1>4, CommitEffect DEF CkWrite, Crash, At
<1>5. QED  BY <1>1, <1>2, <1>3, <1>4, SlotFrame

LEMMA JobStep ==
  ASSUME IndInv, [Next]_vars
  PROVE  JobInv'
<1>1. CASE \E m \in {"resume", "verify"}, o \in Options, d \in Discs, s \in Slots :
             Load(m, o, d, s)
  <2>1. PICK s \in Slots, d \in Discs :
          /\ Newest(d, s) /\ disc' = d /\ sectors' = slot[s].sectors /\ UNCHANGED slot
    BY <1>1 DEF Load, card
  <2>2. slot[s].seq > 0 /\ slot[s].disc = d
    BY <2>1 DEF Newest, ValidFor
  <2>3. ASSUME NEW o \in Slots, slot[o].seq > 0
        PROVE  slot[o].disc = d /\ \A t \in Tracks : slot[o].sectors[t] <= slot[s].sectors[t]
    BY <2>1, <2>2, <2>3 DEF Newest, ValidFor, IndInv, SlotInv
  <2>4. QED  BY <2>1, <2>3 DEF JobInv
<1>2. CASE \E o \in Options, d \in Discs : StartNew(o, d)
  BY <1>2 DEF StartNew, JobInv, NoRecord
<1>3. CASE Finish \/ Crash
  BY <1>3 DEF Finish, Crash, ResetJob, JobInv, Over
<1>4. CASE WriteChunk
  <2>1. /\ UNCHANGED <<slot, disc>> /\ ~Over
        /\ sectors' = sectors \/ sectors' = [sectors EXCEPT ![trk] = @ + n]
    BY <1>4 DEF WriteChunk, Advance, At, Over, setup
  <2>2. n \in Nat /\ \A s \in Slots, t \in Tracks : slot[s].sectors[t] \in Nat
    BY DEF IndInv, TypeOK, DataOK, Record, Counts
  <2>3. QED
    BY <2>1, <2>2 DEF IndInv, JobInv, TypeOK, DataOK, Counts
<1>5. CASE UNCHANGED <<sectors, hash, disc>> /\ (pc' = "idle" => pc = "idle")
  <2>1. CASE Over
    <3>1. CASE UNCHANGED <<pc, card, job, track>>
      BY <2>1, <3>1 DEF JobInv, Over
    <3>2. QED  BY <1>1, <1>2, <1>3, <2>1, <3>1, OverFrame
  <2>2. CASE ~Over /\ UNCHANGED slot
    BY <1>5, <2>2 DEF IndInv, JobInv
  <2>3. CASE ~Over /\ CkOpen
    BY <1>5, <2>3, SlotOfIsSlot DEF CkOpen, IndInv, JobInv, NoRecord, TypeOK, DataOK
  <2>4. CASE ~Over /\ CkWrite
    <3>1. CASE UNCHANGED slot
      BY <1>5, <2>4, <3>1 DEF IndInv, JobInv
    <3>2. CASE slot' = [slot EXCEPT ![SlotOf(seq)] = RecordNow]
      BY <1>5, <2>4, <3>2, CommitEffect
      DEF IndInv, JobInv, RecordNow, CkWrite, At, TypeOK, DataOK, Counts
    <3>3. QED  BY <2>4, <3>1, <3>2 DEF CkWrite
  <2>5. QED  BY <1>2, <1>3, <2>1, <2>2, <2>3, <2>4, SlotFrame
<1>6. QED  BY <1>1, <1>2, <1>3, <1>4, <1>5, JobFrame DEF IndInv, TypeOK

(* A sequence number and its successor never share a slot. *)
LEMMA SlotsAlternate ==
  ASSUME NEW s \in Nat PROVE SlotOf(s) # SlotOf(s + 1)
  BY DEF SlotOf

LEMMA SeqStep ==
  ASSUME IndInv, [Next]_vars
  PROVE  SeqInv'
<1> USE DEF SeqInv, MayCommit, InCk, Over
<1>1. ASSUME NEW o \in Options, NEW d \in Discs, StartNew(o, d)
      PROVE  SeqInv'
  BY <1>1, SlotOfIsSlot DEF StartNew, Goto, At, IndInv, IdleInv, NoRecord
<1>2. ASSUME NEW m \in {"resume", "verify"}, NEW o \in Options, NEW d \in Discs,
             NEW s \in Slots, Load(m, o, d, s)
      PROVE  SeqInv'
  <2>1. /\ slot[s].seq > 0 /\ slot[s].disc = d /\ UNCHANGED slot
        /\ seq' = slot[s].seq /\ pc' = "check"
        /\ \A q \in Slots : slot[q].seq > 0 /\ slot[q].disc = d => slot[q].seq <= slot[s].seq
    BY <1>2 DEF Load, Newest, ValidFor, Goto, card
  <2>2. SlotOf(seq') = s
    BY <2>1 DEF IndInv, SlotInv
  <2>3. \A q \in Slots : slot[q].seq \in Nat
    BY DEF IndInv, TypeOK, DataOK, Record
  <2>4. \A q \in Slots : slot[q].seq <= slot[s].seq
    BY <2>1, <2>3 DEF IndInv, SlotInv
  <2>5. QED  BY <2>1, <2>2, <2>4
<1>3. CASE CkOpen
  <2>1. /\ pc = "ckopen" /\ UNCHANGED ckRet
        /\ slot[SlotOf(seq)].seq = seq /\ \A s \in Slots : slot[s].seq <= seq
        /\ seq \in Nat
    BY <1>3 DEF CkOpen, At, IndInv, TypeOK, DataOK
  <2>2. CASE /\ seq' = seq + 1 /\ slot' = [slot EXCEPT ![SlotOf(seq + 1)] = NoRecord]
             /\ pc' = "ckwrite"
    <3>1. SlotOf(seq + 1) \in Slots
      BY <2>1, SlotOfIsSlot
    <3>2. slot'[SlotOf(seq + 1)] = NoRecord
          /\ \A s \in Slots : slot'[s] = slot[s] \/ slot'[s] = NoRecord
      BY <2>2, <3>1 DEF IndInv, TypeOK, DataOK
    <3>3. NoRecord.seq = 0  BY DEF NoRecord
    <3>4. \A s \in Slots : slot'[s].seq < seq + 1
      BY <2>1, <3>2, <3>3 DEF IndInv, TypeOK, DataOK, Record
    <3>5. QED  BY <2>1, <2>2, <3>2, <3>3, <3>4
  <2>3. CASE CkFailed /\ UNCHANGED <<seq, slot>>
    BY <2>1, <2>3 DEF CkFailed, Goto, IndInv, TypeOK, FlagsOK
  <2>4. QED  BY <1>3, <2>2, <2>3 DEF CkOpen, Goto
<1>4. CASE CkWrite
  <2>1. CASE CkFailed
    BY <1>4, <2>1 DEF CkFailed, Goto
  <2>2. CASE /\ slot' = [slot EXCEPT ![SlotOf(seq)] = RecordNow]
             /\ UNCHANGED seq /\ CkDone
    <3>1. pc = "ckwrite" /\ RecordNow.seq = seq
      BY <1>4 DEF CkWrite, At, RecordNow
    <3>2. slot'[SlotOf(seq)].seq = seq /\ \A s \in Slots : slot'[s].seq <= seq
      BY <2>2, <3>1, CommitEffect DEF IndInv, TypeOK, DataOK, Record
    <3>3. pc' # "ckwrite"
      BY <2>2 DEF CkDone, Goto, IndInv, TypeOK, DataOK
    <3>4. QED  BY <2>2, <3>2, <3>3
  <2>3. QED  BY <1>4, <2>1, <2>2 DEF CkWrite
<1>5. CASE Finish \/ Crash
  BY <1>5 DEF Finish, Crash, ResetJob
<1>6. CASE /\ UNCHANGED <<slot, seq>> /\ pc # "ckwrite" /\ pc' # "ckwrite"
           /\ MayCommit' => MayCommit
  BY <1>6 DEF IndInv
<1>7. CASE UNCHANGED <<slot, seq, pc, ok, failed>>
  BY <1>7 DEF IndInv
<1>8. /\ InLoop \/ pc \in {"check", "open"} \/ (InCk /\ ckRet # "close") => ok
      /\ (failed => ~ok) /\ ckRet \in {"start", "loop", "close"}
  BY DEF IndInv, ChunkInv, TypeOK, DataOK, InCk
<1>9. CASE PrefixCheck \/ OpenTrack
  <2>1. UNCHANGED <<slot, seq>> /\ pc \in {"check", "open"} /\ pc' # "ckwrite"
    BY <1>9 DEF PrefixCheck, OpenTrack, At, Goto, card, job
  <2>2. MayCommit
    BY <1>8, <2>1
  <2>3. QED  BY <1>6, <2>1, <2>2
<1>10. CASE LoopHead \/ ReadRaw \/ ReadBegin \/ WriteChunk
  <2>1. pc \in {"loop", "read", "begin", "write"}
    BY <1>10 DEF LoopHead, ReadRaw, ReadBegin, WriteChunk, At
  <2>2. UNCHANGED <<slot, seq>>
    BY <1>10 DEF LoopHead, ReadRaw, ReadBegin, WriteChunk, card, job
  <2>3. pc' # "ckwrite"
    BY <1>10, <2>1
    DEF LoopHead, ReadRaw, ReadBegin, WriteChunk, Advance, StorageFailed, Goto
  <2>4. MayCommit
    BY <1>8, <2>1 DEF InLoop
  <2>5. QED  BY <1>6, <2>1, <2>2, <2>3, <2>4
<1>11. CASE LoopExit
  <2>1. /\ UNCHANGED <<slot, seq, ok, failed>> /\ pc = "exit"
        /\ pc' = "close" \/ (pc' = "cksync" /\ ~failed)
    BY <1>11 DEF LoopExit, Uncommitted, At, Goto, card, job
  <2>2. QED  BY <1>6, <2>1
<1>12. CASE CloseTrack
  <2>1. /\ UNCHANGED <<slot, seq>> /\ pc = "close" /\ pc' \in {"out", "open"}
        /\ pc' = "open" => ok
    BY <1>12 DEF CloseTrack, At, Goto, job
  <2>2. QED  BY <1>6, <2>1
<1>13. CASE CkSync
  <2>1. UNCHANGED <<slot, seq>> /\ pc = "cksync" /\ pc' # "ckwrite"
    BY <1>13 DEF CkSync, CkFailed, At, Goto, job
  <2>2. QED  BY <1>6, <2>1
<1>14. CASE EndReadback \/ FinalCheck \/ PublishGdi \/ PublishOutput \/ PublishManifest
  BY <1>6, <1>14
  DEF EndReadback, FinalCheck, PublishGdi, PublishOutput, PublishManifest, Publish, At,
      Goto, card, job, setup, track
<1>15. CASE PressB \/ UNCHANGED vars
  BY <1>7, <1>15 DEF PressB, vars, card, job, setup, track
<1>16. QED
  BY <1>1, <1>2, <1>3, <1>4, <1>5, <1>9, <1>10, <1>11, <1>12, <1>13,
     <1>14, <1>15
  DEF Next, New, Resume, Verify, Worker

-----------------------------------------------------------------------------
(* The chunk being read and written *)

(* A chunk is in hand only inside the read and write steps of the loop. *)
LEMMA ChunkFrame ==
  ASSUME DataOK, [Next]_vars, pc' \in {"read", "begin", "write"}
  PROVE  LoopHead \/ ReadRaw \/ ReadBegin \/ UNCHANGED <<pc, job, track>>
  BY DEF Next, New, Resume, Verify, Worker, vars, StartNew, Load, PrefixCheck, OpenTrack,
         WriteChunk, Advance, StorageFailed, LoopExit, CloseTrack, CkSync, CkOpen, CkWrite,
         CkFailed, CkDone, EndReadback, FinalCheck, PublishGdi, PublishOutput,
         PublishManifest, Publish, Finish, Crash, ResetJob, PressB, At, Goto, DataOK

LEMMA SectorsStep ==
  ASSUME IndInv, [Next]_vars
  PROVE  \A t \in Tracks : sectors'[t] <= Len[t]
<1>1. \A t \in Tracks : sectors[t] <= Len[t]
  BY DEF IndInv, ChunkInv
<1>2. CASE \E m \in {"resume", "verify"}, o \in Options, d \in Discs, s \in Slots :
             Load(m, o, d, s)
  BY <1>2 DEF Load, IndInv, SlotInv
<1>3. CASE \E o \in Options, d \in Discs : StartNew(o, d)
  BY <1>1, <1>3 DEF StartNew
<1>4. CASE Finish \/ Crash
  BY <1>4, Geometry DEF Finish, Crash, ResetJob, Zero
<1>5. CASE WriteChunk
  <2>1. sectors' = sectors \/ sectors' = [sectors EXCEPT ![trk] = @ + n]
    BY <1>5 DEF WriteChunk, Advance
  <2>2. sectors[trk] + n <= Len[trk]
    BY <1>5 DEF WriteChunk, At, IndInv, ChunkInv, pos
  <2>3. QED  BY <1>1, <2>1, <2>2 DEF IndInv, TypeOK, DataOK, Counts
<1>6. QED  BY <1>1, <1>2, <1>3, <1>4, <1>5, JobFrame DEF IndInv, TypeOK

(* The chunk lies inside the track, and the buffer holds exactly it. *)
Chunked ==
  /\ pc \in {"read", "begin", "write"} => 1 <= n /\ pos + n <= Len[trk]
  /\ pc \in {"begin", "write"} => buf[cur] = [t |-> trk, at |-> pos, n |-> n]
  /\ pc = "read" => n <= req /\ pos + req <= Len[trk]

LEMMA ChunkedStep ==
  ASSUME IndInv, [Next]_vars
  PROVE  Chunked'
<1> SUFFICES ASSUME pc' \in {"read", "begin", "write"} PROVE Chunked'
  BY DEF Chunked
<1>1. /\ trk \in Tracks /\ pos \in 0..MaxLen /\ n \in Nat /\ req \in Nat /\ Len[trk] \in Nat
      /\ buf \in [0..1 -> Buffer] /\ cur \in 0..1
  BY Geometry DEF IndInv, TypeOK, DataOK, pos, Counts
<1>2. Chunked
  BY DEF IndInv, ChunkInv, Chunked
<1>3. CASE LoopHead
  <2> DEFINE k == IF pos < recUntil THEN 1 ELSE ReadCount(trk, pos)
  <2>1. /\ pos < Len[trk] /\ n' = k /\ req' = k /\ UNCHANGED <<trk, sectors, cur>>
        /\ pc = "loop" /\ pc' \in {"read", "begin"}
        /\ pc' = "begin" => /\ dma.on /\ Wanted(k)
                            /\ buf' = [buf EXCEPT ![dma.b] =
                                         [t |-> dma.t, at |-> dma.at, n |-> dma.n]]
    BY <1>3 DEF LoopHead, At, Goto, job
  <2>2. k \in Nat /\ 1 <= k /\ pos + k <= Len[trk]
    BY <1>1, <2>1, ReadCountBounds
  <2>3. pos' = pos
    BY <2>1 DEF pos
  <2>4. pc' = "begin" => buf'[cur] = [t |-> trk, at |-> pos, n |-> k]
    <3>1. pc' = "begin" => dma.b = cur
      BY <2>1 DEF IndInv, DmaInv
    <3>2. QED  BY <1>1, <2>1, <3>1 DEF Wanted
  <2>5. QED  BY <2>1, <2>2, <2>3, <2>4 DEF Chunked
<1>4. CASE ReadRaw
  <2>1. /\ pc = "read" /\ UNCHANGED <<trk, sectors, cur, req>>
        /\ \/ /\ pc' = "begin" /\ n' = n
              /\ buf' = [buf EXCEPT ![cur] = [t |-> trk, at |-> pos, n |-> n]]
           \/ pc' = "read" /\ n' = 1
    BY <1>4 DEF ReadRaw, At, Goto, job
  <2>2. pos' = pos /\ 1 <= n /\ n <= req /\ pos + n <= Len[trk] /\ pos + req <= Len[trk]
    BY <1>2, <2>1 DEF pos, Chunked
  <2>3. QED  BY <1>1, <2>1, <2>2 DEF Chunked
<1>5. CASE ReadBegin
  <2>1. /\ pc = "begin" /\ pc' = "write" /\ UNCHANGED <<trk, sectors, cur, n>>
        /\ UNCHANGED buf \/ buf' = [buf EXCEPT ![1 - cur] = EmptyBuffer]
    BY <1>5 DEF ReadBegin, At, Goto, job
  <2>2. buf'[cur] = buf[cur]
    BY <1>1, <2>1
  <2>3. pos' = pos
    BY <2>1 DEF pos
  <2>4. QED  BY <1>2, <2>1, <2>2, <2>3 DEF Chunked
<1>6. CASE UNCHANGED <<pc, job, track>>
  BY <1>2, <1>6 DEF Chunked, pos, job, track
<1>7. QED  BY <1>3, <1>4, <1>5, <1>6, ChunkFrame DEF IndInv, TypeOK

(* A storage failure clears ok, and the loop runs only while ok holds. *)
Flagged ==
  /\ failed => ~ok /\ pc \in {"exit", "close", "out"}
  /\ InLoop \/ pc \in {"check", "open"} \/ (InCk /\ ckRet # "close") => ok

LEMMA FlaggedStep ==
  ASSUME IndInv, [Next]_vars
  PROVE  Flagged'
<1> USE DEF Flagged, InLoop, InCk
<1>1. /\ Flagged /\ ckRet \in {"start", "loop", "close"}
      /\ ok \in BOOLEAN /\ failed \in BOOLEAN
  BY DEF IndInv, ChunkInv, TypeOK, DataOK, FlagsOK
<1>2. CASE New \/ Resume \/ Verify
  BY <1>2 DEF New, Resume, Verify, StartNew, Load, Goto, At, IndInv, IdleInv, track
<1>3. CASE Finish \/ Crash
  BY <1>3 DEF Finish, Crash, ResetJob
<1>4. CASE PrefixCheck
  BY <1>1, <1>4 DEF PrefixCheck, At, Goto, track
<1>5. CASE OpenTrack
  <2>1. /\ pc = "open"
        /\ \/ UNCHANGED <<ok, failed>> /\ pc' \in {"after", "out"}
           \/ ok' = TRUE /\ failed' = FALSE /\ pc' = "loop"
           \/ ok' = FALSE /\ failed' = TRUE /\ pc' = "exit"
    BY <1>5, Zenon DEF OpenTrack, At, Goto, track
  <2>2. ok /\ ~failed
    BY <1>1, <2>1
  <2>3. CASE UNCHANGED <<ok, failed>> /\ pc' \in {"after", "out"}
    BY <2>2, <2>3
  <2>4. CASE ok' = TRUE /\ failed' = FALSE /\ pc' = "loop"
    BY <2>4
  <2>5. CASE ok' = FALSE /\ failed' = TRUE /\ pc' = "exit"
    BY <2>5
  <2>6. QED  BY <2>1, <2>3, <2>4, <2>5, Zenon
<1>6. CASE LoopHead
  BY <1>1, <1>6 DEF LoopHead, At, Goto
<1>7. CASE ReadRaw \/ ReadBegin
  BY <1>1, <1>7 DEF ReadRaw, ReadBegin, At, Goto
<1>8. CASE WriteChunk
  <2>1. /\ pc = "write"
        /\ Advance \/ StorageFailed
    BY <1>8, Zenon DEF WriteChunk, At
  <2>2. CASE Advance
    BY <1>1, <2>1, <2>2 DEF Advance, Goto
  <2>3. CASE StorageFailed
    BY <1>1, <2>1, <2>3 DEF StorageFailed, Goto
  <2>4. QED  BY <2>1, <2>2, <2>3
<1>9. CASE LoopExit
  BY <1>1, <1>9 DEF LoopExit, Uncommitted, At, Goto
<1>10. CASE CloseTrack
  BY <1>1, <1>10 DEF CloseTrack, At, Goto
<1>11. CASE CkSync \/ CkOpen \/ CkWrite
  BY <1>1, <1>11 DEF CkSync, CkOpen, CkWrite, CkFailed, CkDone, At, Goto
<1>12. CASE EndReadback \/ FinalCheck \/ PublishGdi \/ PublishOutput \/ PublishManifest
  <2>1. UNCHANGED <<ok, failed>> /\ pc \in {"after", "final", "gdi", "output", "manifest"}
    BY <1>12
    DEF EndReadback, FinalCheck, PublishGdi, PublishOutput, PublishManifest, At, track
  <2>2. pc' \in {"final", "gdi", "output", "manifest", "complete", "out"}
    BY <1>12
    DEF EndReadback, FinalCheck, PublishGdi, PublishOutput, PublishManifest, Publish, Goto
  <2>3. QED  BY <1>1, <2>1, <2>2
<1>13. CASE PressB \/ UNCHANGED vars
  BY <1>1, <1>13 DEF PressB, vars, track
<1>14. QED
  BY <1>2, <1>3, <1>4, <1>5, <1>6, <1>7, <1>8, <1>9, <1>10, <1>11, <1>12, <1>13
  DEF Next, Worker

LEMMA ChunkStep ==
  ASSUME IndInv, [Next]_vars
  PROVE  ChunkInv'
  BY SectorsStep, ChunkedStep, FlaggedStep DEF ChunkInv, Chunked, Flagged

(* The drive is left only by ReadBegin and read back only at the loop head  *)
(* or on the way out.                                                       *)
LEMMA DmaStep ==
  ASSUME IndInv, [Next]_vars
  PROVE  DmaInv'
<1> USE DEF DmaInv, InCk
<1>1. /\ DmaInv /\ cur \in 0..1 /\ dma.b \in 0..1 /\ ckRet \in {"start", "loop", "close"}
  BY DEF IndInv, TypeOK, DataOK, Drive
<1>2. DmaOff.on = FALSE
  BY DEF DmaOff
<1>3. CASE New \/ Resume \/ Verify
  BY <1>2, <1>3 DEF New, Resume, Verify, StartNew, Load, Goto, At, IndInv, IdleInv, track
<1>4. CASE Finish \/ Crash \/ LoopExit
  BY <1>2, <1>4 DEF Finish, Crash, ResetJob, LoopExit
<1>5. CASE PrefixCheck \/ OpenTrack
  BY <1>1, <1>5 DEF PrefixCheck, OpenTrack, StartTrack, At, Goto, track
<1>6. CASE LoopHead
  BY <1>1, <1>2, <1>6 DEF LoopHead, At, Goto
<1>7. CASE ReadRaw
  BY <1>1, <1>7 DEF ReadRaw, At, Goto
<1>8. CASE ReadBegin
  BY <1>1, <1>8 DEF ReadBegin, At, Goto
<1>9. CASE WriteChunk
  BY <1>1, <1>9 DEF WriteChunk, Advance, StorageFailed, At, Goto
<1>10. CASE CloseTrack
  BY <1>1, <1>10 DEF CloseTrack, At, Goto
<1>11. CASE CkSync \/ CkOpen \/ CkWrite
  BY <1>1, <1>11 DEF CkSync, CkOpen, CkWrite, CkFailed, CkDone, At, Goto
<1>12. CASE EndReadback \/ FinalCheck \/ PublishGdi \/ PublishOutput \/ PublishManifest
  BY <1>1, <1>12
  DEF EndReadback, FinalCheck, PublishGdi, PublishOutput, PublishManifest, Publish, At,
      Goto, track
<1>13. CASE PressB \/ UNCHANGED vars
  BY <1>1, <1>13 DEF PressB, vars, track
<1>14. QED
  BY <1>3, <1>4, <1>5, <1>6, <1>7, <1>8, <1>9, <1>10, <1>11, <1>12, <1>13
  DEF Next, Worker

-----------------------------------------------------------------------------
(* The open track file *)

(* Inside the loop the file ends at the position; outside of it, and away   *)
(* from the way out, what was captured has been synced.                     *)
Tight == InLoop \/ (InCk /\ ckRet = "loop")
Loose == InLoop \/ pc \in {"exit", "close", "cksync"}

LEMMA FileStep ==
  ASSUME IndInv, [Next]_vars
  PROVE  FileInv'
<1>1. /\ trk \in Tracks /\ n \in Nat /\ ckRet \in {"start", "loop", "close"}
      /\ \A t \in Tracks : sectors[t] \in Nat /\ kept[t] \in Nat /\ size[t] \in Int
      /\ \A t \in Tracks : kept[t] <= size[t] \/ kept[t] = 0
  BY Geometry DEF IndInv, TypeOK, DataOK, Counts, CardInv
<1>2. ~Over => /\ \A t \in Tracks : t # trk => sectors[t] <= kept[t]
               /\ sectors[trk] <= size[trk] \/ sectors[trk] = 0
               /\ Tight => kept[trk] <= sectors[trk] /\ size[trk] = sectors[trk]
               /\ Loose \/ sectors[trk] <= kept[trk]
  BY DEF IndInv, FileInv, Tight, Loose
<1>3. CASE /\ UNCHANGED <<size, kept, sectors, trk>>
           /\ ~Over' => ~Over /\ (Loose => Loose') /\ (Tight' => Tight)
  BY <1>2, <1>3 DEF FileInv, Tight, Loose
<1>4. CASE \E o \in Options, d \in Discs : StartNew(o, d)
  <2>1. /\ sectors = Zero /\ UNCHANGED <<sectors, kept, size, trk>>
        /\ pc' = "ckopen" /\ ckRet' = "start"
    BY <1>4 DEF StartNew, At, Goto, files, IndInv, IdleInv
  <2>2. QED  BY <1>1, <2>1 DEF FileInv, Zero, InLoop, InCk
<1>5. CASE \E m \in {"resume", "verify"}, o \in Options, d \in Discs, s \in Slots :
             Load(m, o, d, s)
  <2>1. PICK s \in Slots : /\ slot[s].seq > 0 /\ sectors' = slot[s].sectors /\ pc' = "check"
                           /\ UNCHANGED <<kept, size, trk>>
    BY <1>5 DEF Load, Newest, ValidFor, Goto, card, track
  <2>2. \A t \in Tracks : sectors'[t] <= kept[t] /\ sectors'[t] \in Nat
    BY <2>1 DEF IndInv, CheckpointSound, TypeOK, DataOK, Record, Counts
  <2>3. QED  BY <1>1, <2>1, <2>2 DEF FileInv, InLoop, InCk
<1>6. CASE Finish \/ Crash
  BY <1>6 DEF Finish, Crash, ResetJob, FileInv, Over
<1>7. CASE OpenTrack
  <2>1. /\ \A t \in Tracks : sectors[t] <= kept'[t] /\ kept'[t] \in Nat /\ size'[t] \in Int
        /\ \A t \in Tracks : kept'[t] <= size'[t] \/ kept'[t] = 0
        /\ UNCHANGED sectors /\ trk' \in Tracks
    <3>1. TypeOK'
      BY TypeStep DEF IndInv
    <3>2. UNCHANGED sectors
      BY <1>7 DEF OpenTrack, job
    <3>3. QED  BY <1>7, <3>1, <3>2, OpenEffect, Geometry DEF TypeOK, DataOK, CardInv, Counts
  <2>2. pc' \in {"after", "out", "exit", "loop"}
    BY <1>7 DEF OpenTrack, Goto
  <2>3. CASE pc' = "loop"
    <3>1. PICK t \in Tracks : /\ trk' = t
                              /\ kept' = [kept EXCEPT ![t] = Min2(@, sectors[t])]
                              /\ size' = [size EXCEPT ![t] = sectors[t]]
      BY <1>7, <2>3 DEF OpenTrack, StartTrack, Goto
    <3>2. kept'[t] <= sectors[t] /\ size'[t] = sectors[t]
      BY <1>1, <3>1 DEF Min2, IndInv, TypeOK, DataOK, Counts
    <3>3. QED  BY <2>1, <2>3, <3>1, <3>2 DEF FileInv
  <2>4. QED  BY <1>1, <2>1, <2>2, <2>3 DEF FileInv, InLoop, InCk
<1>8. CASE LoopHead \/ ReadRaw \/ ReadBegin
  <2>1. /\ UNCHANGED <<size, kept, sectors, trk>>
        /\ InLoop /\ pc' \in {"loop", "read", "begin", "write", "exit"}
    BY <1>8 DEF LoopHead, ReadRaw, ReadBegin, At, Goto, InLoop, card, job
  <2>2. QED  BY <1>3, <2>1 DEF Over, Loose, Tight, InLoop
<1>9. CASE WriteChunk
  <2>1. /\ pc = "write" /\ UNCHANGED <<kept, trk>> /\ size' = [size EXCEPT ![trk] = pos + n]
        /\ \/ sectors' = [sectors EXCEPT ![trk] = @ + n]
              /\ (pc' = "loop" \/ (pc' = "cksync" /\ ckRet' = "loop"))
           \/ UNCHANGED sectors /\ pc' = "exit"
    BY <1>9 DEF WriteChunk, Advance, StorageFailed, At, Goto
  <2>2. kept[trk] <= sectors[trk] /\ \A t \in Tracks : t # trk => sectors[t] <= kept[t]
    BY <1>2, <2>1 DEF Over, Tight, InLoop
  <2>3. /\ size'[trk] = sectors[trk] + n
        /\ \A t \in Tracks : t # trk => sectors'[t] = sectors[t]
    BY <1>1, <2>1 DEF pos, IndInv, TypeOK, DataOK, Counts
  <2>4. CASE UNCHANGED sectors /\ pc' = "exit"
    BY <1>1, <2>1, <2>2, <2>3, <2>4 DEF FileInv, InLoop, InCk
  <2>5. CASE /\ sectors' = [sectors EXCEPT ![trk] = @ + n]
             /\ (pc' = "loop" \/ (pc' = "cksync" /\ ckRet' = "loop"))
    <3>1. sectors'[trk] = sectors[trk] + n
      BY <1>1, <2>5 DEF IndInv, TypeOK, DataOK, Counts
    <3>2. QED  BY <1>1, <2>1, <2>2, <2>3, <2>5, <3>1 DEF FileInv, InLoop, InCk
  <2>6. QED  BY <2>1, <2>4, <2>5
<1>10. CASE LoopExit
  <2>1. /\ UNCHANGED <<size, kept, sectors, trk>> /\ pc = "exit"
        /\ pc' = "close" \/ (pc' = "cksync" /\ ckRet' = "close")
    BY <1>10 DEF LoopExit, At, Goto, card, job
  <2>2. QED  BY <1>3, <2>1 DEF Over, Loose, Tight, InLoop, InCk
<1>11. CASE CloseTrack \/ CkSync
  <2>1. pc \in {"close", "cksync"} /\ UNCHANGED <<sectors, trk, ckRet>>
    BY <1>11 DEF CloseTrack, CkSync, At, job
  <2>2. CASE Sync /\ pc' \in {"out", "open", "ckopen"} /\ (pc' = "ckopen" => pc = "cksync")
    <3>1. /\ UNCHANGED size /\ kept'[trk] = Max2(size[trk], 0)
          /\ \A t \in Tracks : t # trk => kept'[t] = kept[t]
      BY <2>2, SyncEffect DEF IndInv, TypeOK
    <3>2. sectors[trk] <= kept'[trk] /\ kept'[trk] \in Nat
      BY <1>1, <1>2, <2>1, <3>1 DEF Max2, Over
    <3>3. pc' = "ckopen" /\ ckRet = "loop" => kept'[trk] <= sectors[trk]
      BY <1>1, <1>2, <2>1, <2>2, <3>1 DEF Max2, Over, Tight, InCk
    <3>4. QED
      BY <1>1, <1>2, <2>1, <2>2, <3>1, <3>2, <3>3 DEF FileInv, InLoop, InCk, Over, Tight
  <2>3. CASE UNCHANGED files /\ pc = "cksync" /\ pc' \in {"exit", "close", "out"}
    BY <1>3, <2>1, <2>3 DEF Over, Loose, Tight, InLoop, InCk, files
  <2>4. CASE pc' = "out"
    BY <2>4 DEF FileInv, Over
  <2>5. QED
    BY <1>11, <2>2, <2>3, <2>4 DEF CloseTrack, CkSync, CkFailed, At, Goto
<1>12. CASE CkOpen \/ CkWrite
  <2>1. /\ UNCHANGED <<size, kept, sectors, trk, ckRet>> /\ pc \in {"ckopen", "ckwrite"}
        /\ \/ pc' \in {"ckwrite", "out", "exit", "close", "open"}
           \/ pc' = "loop" /\ ckRet = "loop"
    BY <1>1, <1>12 DEF CkOpen, CkWrite, CkFailed, CkDone, At, Goto, files
  <2>2. QED  BY <1>3, <2>1 DEF Over, Loose, Tight, InLoop, InCk
<1>13. CASE \/ PrefixCheck \/ EndReadback \/ FinalCheck \/ PublishGdi \/ PublishOutput
            \/ PublishManifest
  <2>1. UNCHANGED <<size, kept, sectors, trk>>
    BY <1>13
    DEF PrefixCheck, EndReadback, FinalCheck, PublishGdi, PublishOutput, PublishManifest,
        card, files, job, track
  <2>2. pc \in {"check", "after", "final", "gdi", "output", "manifest"}
    BY <1>13
    DEF PrefixCheck, EndReadback, FinalCheck, PublishGdi, PublishOutput, PublishManifest, At
  <2>3. pc' \in {"open", "final", "gdi", "output", "manifest", "complete", "out"}
    BY <1>13
    DEF PrefixCheck, EndReadback, FinalCheck, PublishGdi, PublishOutput, PublishManifest,
        Publish, Goto
  <2>4. QED  BY <1>3, <2>1, <2>2, <2>3 DEF Over, Loose, Tight, InLoop, InCk
<1>14. CASE PressB \/ UNCHANGED vars
  <2>1. UNCHANGED <<size, kept, sectors, trk, pc, ckRet>>
    BY <1>14 DEF PressB, vars, card, job, track
  <2>2. QED  BY <1>3, <2>1 DEF Over, Loose, Tight, InLoop, InCk
<1>15. QED
  BY <1>4, <1>5, <1>6, <1>7, <1>8, <1>9, <1>10, <1>11, <1>12, <1>13, <1>14
  DEF Next, New, Resume, Verify, Worker

-----------------------------------------------------------------------------
(* What memory and the records say about the saved sectors *)

LEMMA MemStep ==
  ASSUME IndInv, [Next]_vars
  PROVE  MemInv'
<1> DEFINE Saved(t, p) == hash[t][p] = Sec(disc, t, p) /\ SavedAs(disc, t, p)
<1>1. ~Over => \A t \in Tracks, p \in Pos :
                 IF p <= sectors[t] THEN Saved(t, p) ELSE hash[t][p] = Junk \/ failed
  BY DEF IndInv, MemInv
<1>2. CASE /\ ~Over' => ~Over /\ UNCHANGED <<sectors, hash, disc>>
           /\ \A t \in Tracks, p \in Pos : p <= sectors[t] => cell'[t][p] = cell[t][p]
           /\ failed => failed'
  BY <1>1, <1>2 DEF MemInv, SavedAs
<1>3. CASE \E o \in Options, d \in Discs : StartNew(o, d)
  <2>1. sectors = Zero /\ hash = Nothing /\ UNCHANGED <<sectors, hash>>
    BY <1>3 DEF StartNew, At, IndInv, IdleInv
  <2>2. QED  BY <2>1, Geometry DEF MemInv, Zero, Nothing, Pos
<1>4. CASE \E m \in {"resume", "verify"}, o \in Options, d \in Discs, s \in Slots :
             Load(m, o, d, s)
  <2>1. PICK s \in Slots :
          /\ slot[s].seq > 0 /\ sectors' = slot[s].sectors /\ hash' = slot[s].hash
          /\ disc' = slot[s].disc /\ UNCHANGED cell
    BY <1>4 DEF Load, Newest, ValidFor, card
  <2>2. QED  BY <2>1 DEF IndInv, CheckpointSound, MemInv, SavedAs
<1>5. CASE Finish \/ Crash
  BY <1>5 DEF Finish, Crash, ResetJob, MemInv, Over
<1>6. CASE OpenTrack
  <2>1. /\ UNCHANGED <<sectors, hash, disc>> /\ ~Over /\ ~failed
        /\ \A t \in Tracks, p \in Pos : p <= sectors[t] => cell'[t][p] = cell[t][p]
    BY <1>6, OpenEffect DEF OpenTrack, At, Over, job, setup, IndInv, ChunkInv
  <2>2. QED  BY <1>2, <2>1
<1>7. CASE WriteChunk
  <2>1. /\ pc = "write" /\ UNCHANGED disc /\ DataOK /\ hash \in Contents /\ cell \in Contents
        /\ buf[cur] = [t |-> trk, at |-> pos, n |-> n]
        /\ pos = sectors[trk] /\ pos \in Nat /\ n \in Nat /\ trk \in Tracks
        /\ \A t \in Tracks : sectors[t] \in Nat
    BY <1>7 DEF WriteChunk, At, setup, IndInv, TypeOK, DataOK, ChunkInv, Counts, pos
  <2>2. \A p \in Pos : p \in Nat
    BY Geometry DEF Pos
  <2>3. \A p \in Pos : pos < p /\ p <= pos + n => BufferValue(p) = Sec(disc, trk, p)
    BY <2>1, <2>2 DEF BufferValue
  <2>4. \A t \in Tracks, p \in Pos : IF p <= sectors[t] THEN Saved(t, p) ELSE hash[t][p] = Junk
    BY <1>1, <2>1 DEF Over, IndInv, ChunkInv
  <2>5. \A t \in Tracks, p \in Pos : p <= sectors[t] =>
           cell'[t][p] = cell[t][p] /\ hash'[t][p] = hash[t][p]
    BY <1>7, WriteEffect
  <2>6. CASE UNCHANGED sectors /\ failed' = TRUE
    BY <2>1, <2>4, <2>5, <2>6 DEF MemInv, SavedAs
  <2>7. CASE /\ hash' = Written(hash, BufferValue) /\ sectors' = [sectors EXCEPT ![trk] = @ + n]
             /\ \/ cell' = Written(cell, BufferValue)
                \/ SilentWrites /\ cell' = Written(cell, RotValue)
    <3> SUFFICES ASSUME NEW t \in Tracks, NEW p \in Pos
                 PROVE  IF p <= sectors'[t]
                        THEN /\ hash'[t][p] = Sec(disc, t, p)
                             /\ \/ cell'[t][p] = Sec(disc, t, p)
                                \/ SilentWrites /\ cell'[t][p] = Rot
                        ELSE hash'[t][p] = Junk
      BY <2>1 DEF MemInv, SavedAs
    <3>1. sectors'[t] = IF t = trk THEN sectors[t] + n ELSE sectors[t]
      BY <2>1, <2>7 DEF DataOK, Counts
    <3>2. CASE p <= sectors[t]
      BY <2>1, <2>2, <2>4, <2>5, <3>1, <3>2 DEF SavedAs
    <3>3. CASE ~(p <= sectors[t]) /\ t = trk /\ p <= sectors[t] + n
      <4>1. pos < p /\ p <= pos + n /\ p <= sectors'[t]
        BY <2>1, <2>2, <3>1, <3>3
      <4>2. /\ Written(hash, BufferValue)[t][p] = Sec(disc, t, p)
            /\ Written(cell, BufferValue)[t][p] = Sec(disc, t, p)
            /\ Written(cell, RotValue)[t][p] = Rot
        BY <2>1, <2>3, <3>3, <4>1, WrittenAt
      <4>3. QED  BY <2>7, <4>1, <4>2
    <3>4. CASE ~(p <= sectors[t]) /\ ~(t = trk /\ p <= sectors[t] + n)
      <4>1. ~(p <= sectors'[t]) /\ ~(t = trk /\ pos < p /\ p <= pos + n)
        BY <2>1, <2>2, <3>1, <3>4
      <4>2. Written(hash, BufferValue)[t][p] = Junk
        BY <2>1, <2>4, <3>4, <4>1, WrittenAt
      <4>3. QED  BY <2>7, <4>1, <4>2
    <3>5. QED  BY <3>2, <3>3, <3>4
  <2>8. QED
    BY <1>7, <2>6, <2>7 DEF WriteChunk, Advance, StorageFailed
<1>8. CASE CloseTrack \/ CkSync
  <2>1. /\ ~Over /\ UNCHANGED <<sectors, hash, disc>>
        /\ pc' = "out" \/ UNCHANGED cell
    BY <1>8 DEF CloseTrack, CkSync, Sync, At, Goto, Over, job, setup, files
  <2>2. failed => failed'
    BY <1>8 DEF CloseTrack, CkSync, CkFailed
  <2>3. CASE pc' = "out"
    BY <2>3 DEF MemInv, Over
  <2>4. QED  BY <1>2, <2>1, <2>2, <2>3
<1>9. CASE /\ UNCHANGED <<sectors, hash, disc>> /\ (pc' = "idle" => pc = "idle")
           /\ UNCHANGED files
           /\ ~(Finish \/ Crash \/ OpenTrack \/ CloseTrack \/ CkSync \/ WriteChunk)
  <2>1. CASE Over
    <3>1. CASE UNCHANGED <<pc, card, job, track>>
      BY <2>1, <3>1 DEF MemInv, Over
    <3>2. QED  BY <1>3, <1>4, <1>9, <2>1, <3>1, OverFrame
  <2>2. CASE ~Over
    <3>1. failed => failed'
      BY <1>9, <2>2
      DEF Next, New, Resume, Verify, Worker, StartNew, Load, PrefixCheck, LoopHead, ReadRaw,
          ReadBegin, LoopExit, CkOpen, CkWrite, CkFailed, EndReadback, FinalCheck, PublishGdi,
          PublishOutput, PublishManifest, PressB, vars, track, Over, At
    <3>2. QED  BY <1>2, <1>9, <2>2, <3>1 DEF files
  <2>3. QED  BY <2>1, <2>2
<1>10. QED
  BY <1>3, <1>4, <1>5, <1>6, <1>7, <1>8, <1>9, JobFrame, FilesFrame DEF IndInv, TypeOK

(* One record against the kept sizes k and the contents c. *)
RecordSound(r, k, c) ==
  r.seq > 0 =>
    \A t \in Tracks :
      /\ r.sectors[t] <= k[t]
      /\ \A p \in Pos : IF p <= r.sectors[t]
                        THEN /\ r.hash[t][p] = Sec(r.disc, t, p)
                             /\ \/ c[t][p] = Sec(r.disc, t, p)
                                \/ SilentWrites /\ c[t][p] = Rot
                        ELSE r.hash[t][p] = Junk

LEMMA SoundRecords ==
  /\ CheckpointSound <=> \A s \in Slots : RecordSound(slot[s], kept, cell)
  /\ CheckpointSound' <=> \A s \in Slots : RecordSound(slot'[s], kept', cell')
  BY DEF CheckpointSound, RecordSound, SavedAs

(* A record stays sound while its sectors are kept and left alone. *)
LEMMA SoundTransfer ==
  ASSUME NEW r, NEW k, NEW c, NEW k2, NEW c2, RecordSound(r, k, c),
         r.seq > 0 => \A t \in Tracks : r.sectors[t] <= k2[t],
         r.seq > 0 => \A t \in Tracks, p \in Pos : p <= r.sectors[t] => c2[t][p] = c[t][p]
  PROVE  RecordSound(r, k2, c2)
  BY DEF RecordSound

(* The record that is about to be written is sound. *)
LEMMA SoundNow ==
  ASSUME IndInv, pc = "ckwrite"
  PROVE  RecordSound(RecordNow, kept, cell)
<1>1. \A t \in Tracks : sectors[t] <= kept[t]
  BY DEF IndInv, FileInv, Over, InLoop, InCk
<1>2. ~failed
  BY DEF IndInv, ChunkInv
<1>3. QED  BY <1>1, <1>2 DEF RecordSound, RecordNow, IndInv, MemInv, Over, SavedAs

(* A step that keeps the records keeps them sound. *)
LEMMA SoundFiles ==
  ASSUME IndInv, [Next]_vars, NEW r \in Record,
         r \in {slot[s] : s \in Slots} \/ (pc = "ckwrite" /\ r = RecordNow)
  PROVE  RecordSound(r, kept', cell')
<1>1. RecordSound(r, kept, cell)
  BY SoundRecords, SoundNow DEF IndInv
<1>2. r.seq > 0 => \A t \in Tracks : r.sectors[t] <= kept[t] /\ r.sectors[t] \in Int
  BY <1>1 DEF RecordSound, Record, Counts
<1>3. /\ \A t \in Tracks : kept[t] \in Int /\ sectors[t] \in Int
      /\ \A p \in Pos : p \in Int
  BY Geometry DEF IndInv, TypeOK, DataOK, Counts, Pos
<1>4. TypeOK'
  BY TypeStep DEF IndInv
<1>5. \A t \in Tracks : kept'[t] \in Int
  BY <1>4 DEF TypeOK, DataOK, Counts
<1>6. ~Over /\ pc # "ckwrite" /\ r.seq > 0 => \A t \in Tracks : r.sectors[t] <= sectors[t]
  BY DEF IndInv, JobInv
<1>7. CASE UNCHANGED files
  BY <1>1, <1>7 DEF files
<1>8. CASE OpenTrack
  <2>1. ~Over /\ pc # "ckwrite"
    BY <1>8 DEF OpenTrack, At, Over
  <2>2. /\ r.seq > 0 => \A t \in Tracks : r.sectors[t] <= kept'[t]
        /\ r.seq > 0 => \A t \in Tracks, p \in Pos :
                          p <= r.sectors[t] => cell'[t][p] = cell[t][p]
    BY <1>2, <1>3, <1>5, <1>6, <1>8, <2>1, OpenEffect
  <2>3. QED  BY <1>1, <2>2, SoundTransfer
<1>9. CASE WriteChunk
  <2>1. ~Over /\ pc # "ckwrite"
    BY <1>9 DEF WriteChunk, At, Over
  <2>2. /\ r.seq > 0 => \A t \in Tracks : r.sectors[t] <= kept'[t]
        /\ r.seq > 0 => \A t \in Tracks, p \in Pos :
                          p <= r.sectors[t] => cell'[t][p] = cell[t][p]
    BY <1>2, <1>3, <1>6, <1>9, <2>1, WriteEffect
  <2>3. QED  BY <1>1, <2>2, SoundTransfer
<1>10. CASE CloseTrack \/ CkSync \/ Crash
  <2>1. UNCHANGED files \/ LoseUnsynced \/ Sync
    BY <1>10 DEF CloseTrack, CkSync, Crash
  <2>2. /\ \A t \in Tracks : kept[t] <= kept'[t]
        /\ \A t \in Tracks, p \in Pos : p <= kept[t] => cell'[t][p] = cell[t][p]
    BY <1>3, <2>1, LoseEffect, SyncEffect DEF IndInv, TypeOK, files
  <2>3. /\ r.seq > 0 => \A t \in Tracks : r.sectors[t] <= kept'[t]
        /\ r.seq > 0 => \A t \in Tracks, p \in Pos :
                          p <= r.sectors[t] => cell'[t][p] = cell[t][p]
    BY <1>2, <1>3, <1>5, <2>2
  <2>4. QED  BY <1>1, <2>3, SoundTransfer
<1>11. QED  BY <1>7, <1>8, <1>9, <1>10, FilesFrame

LEMMA SoundStep ==
  ASSUME IndInv, [Next]_vars
  PROVE  CheckpointSound'
<1>1. \A s \in Slots : slot[s] \in Record /\ RecordSound(slot[s], kept', cell')
  BY SoundFiles DEF IndInv, TypeOK, DataOK
<1>2. RecordSound(NoRecord, kept', cell')
  BY DEF RecordSound, NoRecord
<1>3. CASE UNCHANGED slot
  BY <1>1, <1>3, SoundRecords
<1>4. CASE pc = "ckwrite" /\ slot' = [slot EXCEPT ![SlotOf(seq)] = RecordNow]
  <2>1. RecordNow \in Record
    BY RecordNowType DEF IndInv
  <2>2. RecordSound(RecordNow, kept', cell')
    BY <1>4, <2>1, SoundFiles
  <2>3. \A s \in Slots : slot'[s] = slot[s] \/ slot'[s] = RecordNow
    BY <1>4, CommitEffect
  <2>4. QED  BY <1>1, <2>2, <2>3, SoundRecords
<1>5. CASE CkOpen
  <2>1. \A s \in Slots : slot'[s] = slot[s] \/ slot'[s] = NoRecord
    BY <1>5 DEF CkOpen, IndInv, TypeOK, DataOK
  <2>2. QED  BY <1>1, <1>2, <2>1, SoundRecords
<1>6. CASE \E o \in Options, d \in Discs : StartNew(o, d)
  <2>1. \A s \in Slots : slot'[s] = NoRecord
    BY <1>6 DEF StartNew
  <2>2. QED  BY <1>2, <2>1, SoundRecords
<1>7. QED
  BY <1>3, <1>4, <1>5, <1>6, SlotFrame DEF CkWrite, Crash, At

-----------------------------------------------------------------------------
(* Results *)

(* The inductive invariant holds in every reachable state, for every plan,  *)
(* chunk and checkpoint size, retry limit, option set and number of faults. *)
THEOREM Invariance == Spec => []IndInv
<1>1. Init => IndInv
  BY InitInv
<1>2. IndInv /\ [Next]_vars => IndInv'
  <2> SUFFICES ASSUME IndInv, [Next]_vars PROVE IndInv'
    OBVIOUS
  <2>1. TypeOK'
    BY TypeStep DEF IndInv
  <2>2. QED
    BY <2>1, IdleStep, CardStep, SlotStep, JobStep, SeqStep, MemStep, FileStep, ChunkStep,
       DmaStep, SoundStep
    DEF IndInv
<1>3. QED  BY <1>1, <1>2, PTL DEF Spec

(* The job, the loop's locals and the card keep their types; in particular  *)
(* no position, chunk or file size leaves its track.                        *)
THEOREM TypeCorrect == Spec => []TypeOK
<1>1. IndInv => TypeOK
  BY DEF IndInv
<1>2. QED  BY <1>1, Invariance, PTL

(* A checkpoint record on the card always describes synced sectors of one   *)
(* disc (save_checkpoint_inner syncs the track before it writes the record).*)
THEOREM CheckpointsSound == Spec => []CheckpointSound
<1>1. IndInv => CheckpointSound
  BY DEF IndInv
<1>2. QED  BY <1>1, Invariance, PTL

(* The overlapped drive read of capture_tracks never fills the buffer that  *)
(* is being written and never outlives the track loop.                      *)
THEOREM DmaSafe == Spec => []DmaExclusive
<1>1. IndInv => DmaExclusive
  BY DEF IndInv, DmaInv, DmaExclusive, InCk
<1>2. QED  BY <1>1, Invariance, PTL

(* No step changes a sector that a record on the card covers. *)
LEMMA CommittedKept ==
  ASSUME IndInv, [Next]_vars, NEW s \in Slots, NEW t \in Tracks, NEW p \in Pos,
         p <= slot[s].sectors[t]
  PROVE  cell'[t][p] = cell[t][p]
<1>1. /\ p \in Nat /\ p >= 1 /\ slot[s].sectors[t] \in Int /\ slot[s].seq \in Nat
      /\ kept[t] \in Int /\ sectors[t] \in Int
  BY Geometry DEF Pos, IndInv, TypeOK, DataOK, Record, Counts
<1>2. slot[s].seq > 0
  <2>1. slot[s] = NoRecord => slot[s].sectors[t] = 0
    BY DEF NoRecord, Zero
  <2>2. QED  BY <1>1, <2>1 DEF IndInv, SlotInv
<1>3. p <= kept[t]
  BY <1>1, <1>2 DEF IndInv, CheckpointSound
<1>4. ~Over => p <= sectors[t]
  BY <1>1, <1>2 DEF IndInv, JobInv
<1>5. CASE UNCHANGED files
  BY <1>5 DEF files
<1>6. CASE OpenTrack
  BY <1>4, <1>6, OpenEffect DEF OpenTrack, At, Over
<1>7. CASE WriteChunk
  BY <1>4, <1>7, WriteEffect DEF WriteChunk, At, Over
<1>8. CASE CloseTrack \/ CkSync \/ Crash
  <2>1. UNCHANGED files \/ LoseUnsynced \/ Sync
    BY <1>8 DEF CloseTrack, CkSync, Crash
  <2>2. QED  BY <1>3, <2>1, LoseEffect, SyncEffect DEF IndInv, TypeOK, files
<1>9. QED  BY <1>5, <1>6, <1>7, <1>8, FilesFrame

Best == IF slot["a"].seq >= slot["b"].seq THEN "a" ELSE "b"

LEMMA BestIsNewest ==
  ASSUME DataOK
  PROVE  /\ Best \in Slots /\ \A s \in Slots : slot[s].seq <= slot[Best].seq
         /\ BestSeq = slot[Best].seq
         /\ \A t \in Tracks : Committed(t) = slot[Best].sectors[t]
<1>1. \A s \in Slots : slot[s].seq \in Nat
  BY DEF DataOK, Record
<1>2. QED  BY <1>1 DEF Best, BestSeq, Committed, Max2, Slots

(* The newest record of the card is replaced only by a newer one that       *)
(* commits at least as much.                                                *)
LEMMA NewestGrows ==
  ASSUME IndInv, [Next]_vars
  PROVE  /\ slot[Best].seq <= slot'[Best'].seq
         /\ \A t \in Tracks : slot[Best].sectors[t] <= slot'[Best'].sectors[t]
<1>1. /\ DataOK /\ DataOK'
  BY TypeStep DEF IndInv, TypeOK
<1>2. /\ \A s \in Slots : slot[s].seq \in Nat /\ slot'[s].seq \in Nat
      /\ \A s \in Slots, t \in Tracks : slot[s].sectors[t] \in Nat /\ slot'[s].sectors[t] \in Nat
  BY <1>1 DEF DataOK, Record, Counts
<1>3. /\ Best \in Slots /\ \A s \in Slots : slot[s].seq <= slot[Best].seq
      /\ Best' \in Slots /\ \A s \in Slots : slot'[s].seq <= slot'[Best'].seq
  BY <1>2 DEF Best, Slots
<1>4. /\ \A s \in Slots, t \in Tracks : slot[s].seq = 0 => slot[s].sectors[t] = 0
      /\ SlotInv'
  <2>1. \A t \in Tracks : NoRecord.sectors[t] = 0
    BY DEF NoRecord, Zero
  <2>2. QED  BY <2>1, SlotStep DEF IndInv, SlotInv
<1>5. CASE \E s \in Slots : slot'[s] = slot[Best]
  <2>1. PICK s \in Slots : slot'[s] = slot[Best]
    BY <1>5
  <2>2. slot'[s].seq <= slot'[Best'].seq
    BY <1>3
  <2>3. \A t \in Tracks : slot[Best].sectors[t] <= slot'[Best'].sectors[t]
    <3>1. CASE slot[Best].seq = 0
      BY <1>2, <1>3, <1>4, <3>1
    <3>2. CASE slot[Best].seq > 0
      BY <1>2, <1>3, <1>4, <2>1, <2>2, <3>2 DEF SlotInv
    <3>3. QED  BY <1>2, <1>3, <3>1, <3>2
  <2>4. QED  BY <2>1, <2>2, <2>3
<1>6. CASE slot[Best].seq = 0
  BY <1>2, <1>3, <1>4, <1>6
<1>7. CASE UNCHANGED slot
  BY <1>3, <1>5, <1>7
<1>8. CASE \E o \in Options, d \in Discs : StartNew(o, d)
  BY <1>3, <1>6, <1>8 DEF StartNew
<1>9. CASE CkOpen /\ slot[Best].seq > 0
  <2>1. /\ slot[SlotOf(seq)].seq = seq /\ seq \in Nat /\ \A s \in Slots : slot[s].seq <= seq
        /\ UNCHANGED slot \/ slot' = [slot EXCEPT ![SlotOf(seq + 1)] = NoRecord]
    BY <1>1, <1>9 DEF CkOpen, At, IndInv, SeqInv, MayCommit, InCk, Over, DataOK
  <2>2. slot[Best].seq = seq
    <3>1. SlotOf(seq) \in Slots
      BY <2>1, SlotOfIsSlot
    <3>2. QED  BY <1>2, <1>3, <2>1, <3>1
  <2>3. Best = SlotOf(seq)
    BY <1>3, <1>9, <2>2 DEF IndInv, SlotInv
  <2>4. Best # SlotOf(seq + 1)
    BY <2>1, <2>3, SlotsAlternate
  <2>5. slot'[Best] = slot[Best]
    BY <1>1, <1>3, <2>1, <2>4 DEF DataOK
  <2>6. QED  BY <1>3, <1>5, <2>5
<1>10. CASE pc = "ckwrite" /\ slot' = [slot EXCEPT ![SlotOf(seq)] = RecordNow]
  <2>1. /\ seq > 0 /\ slot[SlotOf(seq)].seq = 0
    BY <1>10 DEF IndInv, SeqInv, MayCommit, InCk, Over
  <2>2. CASE Best # SlotOf(seq)
    BY <1>3, <1>5, <1>10, <2>2, CommitEffect
  <2>3. CASE Best = SlotOf(seq)
    BY <1>6, <2>1, <2>3
  <2>4. QED  BY <2>2, <2>3
<1>11. QED
  BY <1>2, <1>3, <1>6, <1>7, <1>8, <1>9, <1>10, SlotFrame DEF CkWrite, Crash, At

(* Whatever is interrupted, what the newest record commits neither shrinks  *)
(* nor changes on the card: the slots alternate, and truncation and writing *)
(* start at the committed position.                                         *)
THEOREM CommitsMonotone == Spec => CommitMonotone
<1>1. ASSUME IndInv, [Next]_vars
      PROVE  [/\ BestSeq <= BestSeq'
              /\ \A t \in Tracks :
                   /\ Committed(t) <= Committed(t)'
                   /\ \A p \in Pos : p <= Committed(t) => cell'[t][p] = cell[t][p]]_vars
  <2>1. DataOK /\ DataOK'
    BY <1>1, TypeStep DEF IndInv, TypeOK
  <2>2. /\ BestSeq = slot[Best].seq /\ \A t \in Tracks : Committed(t) = slot[Best].sectors[t]
        /\ BestSeq' = slot'[Best'].seq
        /\ \A t \in Tracks : Committed(t)' = slot'[Best'].sectors[t]
    <3>1. /\ \A s \in Slots : slot[s].seq \in Nat
          /\ \A s \in Slots : slot'[s].seq \in Nat
      BY <2>1 DEF DataOK, Record
    <3>2. QED  BY <3>1 DEF Best, BestSeq, Committed, Max2, Slots
  <2>3. \A t \in Tracks, p \in Pos : p <= slot[Best].sectors[t] => cell'[t][p] = cell[t][p]
    BY <1>1, <2>1, CommittedKept, BestIsNewest
  <2>4. QED  BY <1>1, <2>2, <2>3, NewestGrows
<1>2. QED  BY <1>1, Invariance, PTL DEF Spec, CommitMonotone

=============================================================================

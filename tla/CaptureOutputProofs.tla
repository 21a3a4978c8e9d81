------------------------ MODULE CaptureOutputProofs ------------------------
(* Proofs about what a capture leaves behind: resumable files, a stopped    *)
(* run's last record, and the published metadata.  A second inductive       *)
(* invariant, OutInv, stands on the one of CaptureProofs.                   *)
EXTENDS CaptureProofs

(* The stages of a run in which the worker has a track file open for writing *)
Dirty == InLoop \/ pc \in {"exit", "close"} \/ (InCk /\ ckRet # "start")

(* The stages that never write to a track file or a checkpoint *)
Publishing == pc \in {"final", "gdi", "output", "manifest", "complete"}
Quiet == Publishing \/ pc \in {"idle", "check", "out"}

(* A file whose directory entry and data are flushed *)
Clean(t) == size[t] = dsize[t] /\ kept[t] = Max2(size[t], 0)

(* Only the open file is unflushed; no file is longer than its track or     *)
(* holds data beyond its end                                                *)
CleanInv ==
  /\ \A t \in Tracks : Clean(t) \/ (Dirty /\ t = trk)
  /\ \A t \in Tracks : size[t] <= Len[t] /\ dsize[t] <= Len[t]
  /\ \A t \in Tracks, p \in Pos : p > size[t] => cell[t][p] = Junk

(* A track file exists only once the tracks before it are committed whole *)
OrderInv ==
  \A t, u \in Tracks : u < t /\ (size[t] # -1 \/ dsize[t] # -1) => Committed(u) = Len[u]

(* Nothing of the track loop's storage failed *)
Kept == ~failed /\ ~ExitCheckpointFailed

(* The newest record is the job's own and covers all of it but the open     *)
(* track's sectors beyond position k                                        *)
SavedTo(k) ==
  LET r == slot[SlotOf(seq)] IN
  /\ seq > 0 /\ r.seq = seq /\ r.disc = disc /\ \A s \in Slots : slot[s].seq <= seq
  /\ \A t \in Tracks : r.sectors[t] = IF t = trk THEN k ELSE sectors[t]
SavedInv ==
  /\ InLoop \/ (pc = "exit" /\ ~failed) => SavedTo(ckptAt)
  /\ InCk /\ ckRet = "close" => pos # ckptAt
  /\ pc = "close" /\ (ok \/ Kept) => SavedTo(pos)
  /\ Publishing \/ pc \in {"check", "open", "after"} => SavedTo(pos)
  /\ pc = "out" /\ Kept => seq = 0 \/ SavedTo(pos)
StartInv ==
  /\ pc = "cksync" => ckRet # "start"
  /\ pc = "ckopen" /\ ckRet = "start" => seq = 0
  /\ pc = "ckwrite" /\ ckRet = "start" => seq = 1

(* What was re-read, and when it must have been *)
ReadInv ==
  /\ sizeResume => crcOnly /\ pc # "idle"
  /\ verified => (Publishing \/ pc = "out") /\ Whole(cell, disc)
  /\ Publishing => AllCaptured /\ (crcOnly \/ verified)
  /\ Publishing /\ pc # "final" => (NeedsVerified => verified)

(* Verify never leaves the stages that only read or compare *)
VerifyInv == mode = "verify" => Quiet /\ (pc = "idle" \/ AllCaptured)

(* Metadata is published over a complete, committed capture only, and       *)
(* agrees with its newest record                                            *)
Published == export # Nothing \/ manifest.schema # 0
PublishedInv ==
  /\ Published => Quiet /\ \A t \in Tracks : Committed(t) = Len[t]
  /\ export # Nothing => Whole(export, slot[Best].disc)
  /\ manifest.schema = 0 => manifest = NoManifest
  /\ manifest.schema # 0 => /\ manifest.disc = slot[Best].disc
                            /\ manifest.hash = slot[Best].hash
  /\ manifest.schema \in {1, 3} => Whole(cell, manifest.disc)

OutInv == /\ IndInv /\ CleanInv /\ OrderInv /\ SavedInv /\ StartInv /\ ReadInv
          /\ VerifyInv /\ PublishedInv

-----------------------------------------------------------------------------
(* The invariant of CaptureProofs, as a step *)

LEMMA IndStep ==
  ASSUME IndInv, [Next]_vars
  PROVE  IndInv'
<1>1. TypeOK'
  BY TypeStep DEF IndInv
<1>2. QED
  BY <1>1, IdleStep, CardStep, SlotStep, JobStep, SeqStep, MemStep, FileStep, ChunkStep,
     DmaStep, SoundStep
  DEF IndInv

LEMMA InitOut == Init => OutInv
<1> SUFFICES ASSUME Init PROVE OutInv
  OBVIOUS
<1>1. IndInv
  BY InitInv
<1>2. CleanInv /\ OrderInv
  BY Geometry DEF Init, CleanInv, OrderInv, Clean, Max2, Zero, Nothing
<1>3. SavedInv /\ StartInv /\ ReadInv /\ VerifyInv
  BY DEF Init, SavedInv, StartInv, ReadInv, VerifyInv, InLoop, Publishing
<1>4. PublishedInv
  BY DEF Init, PublishedInv, Published, NoManifest
<1>5. QED  BY <1>1, <1>2, <1>3, <1>4 DEF OutInv

(* A file is opened by OpenTrack and left by CloseTrack or a power loss. *)
LEMMA DirtyFrame ==
  ASSUME DataOK, StartInv, [Next]_vars
  PROVE  \/ OpenTrack \/ CloseTrack \/ Crash
         \/ trk' = trk /\ (Dirty => Dirty')
         \/ ~Dirty /\ ~Dirty'
<1> USE DEF Dirty, InLoop, InCk, At, Goto
<1>1. CASE UNCHANGED vars
  BY <1>1 DEF vars, track
<1>2. CASE New \/ Resume \/ Verify \/ Finish
  BY <1>2 DEF New, Resume, Verify, StartNew, Load, Finish, ResetJob
<1>3. CASE PrefixCheck \/ EndReadback \/ FinalCheck \/ PublishGdi \/ PublishOutput
           \/ PublishManifest \/ PressB
  BY <1>3 DEF PrefixCheck, EndReadback, FinalCheck, PublishGdi, PublishOutput,
     PublishManifest, Publish, PressB, track
<1>4. CASE LoopHead \/ ReadRaw \/ ReadBegin \/ WriteChunk \/ LoopExit
  BY <1>4 DEF LoopHead, ReadRaw, ReadBegin, WriteChunk, Advance, StorageFailed, LoopExit
<1>5. CASE CkSync \/ CkOpen \/ CkWrite
  BY <1>5 DEF CkSync, CkOpen, CkWrite, CkFailed, CkDone, StartInv, DataOK
<1>6. QED
  BY <1>1, <1>2, <1>3, <1>4, <1>5 DEF Next, Worker

(* Whatever size the lost directory entry leaves, the file is then whole    *)
(* up to it and empty beyond.                                               *)
LEMMA LoseClean ==
  ASSUME DataOK, CardInv, CleanInv, LoseUnsynced
  PROVE  /\ \A t \in Tracks : t = trk \/ Clean(t) => Clean(t)'
         /\ \A t \in Tracks : size'[t] <= Len[t] /\ dsize'[t] <= Len[t]
         /\ \A t \in Tracks, p \in Pos : p > size'[t] => cell'[t][p] = Junk
<1>1. PICK s \in -1..MaxLen, k \in 0..MaxLen :
        /\ s <= Max2(dsize[trk], size[trk])
        /\ s >= kept[trk] \/ dsize[trk] = -1
        /\ kept[trk] <= k /\ k <= Max2(s, kept[trk])
        /\ size' = [size EXCEPT ![trk] = s] /\ dsize' = [dsize EXCEPT ![trk] = s]
        /\ kept' = [kept EXCEPT ![trk] = Max2(s, 0)]
        /\ cell' = Truncated(trk, k)
  BY DEF LoseUnsynced
<1>2. /\ trk \in Tracks /\ kept[trk] \in Nat /\ dsize[trk] \in Int /\ size[trk] \in Int
      /\ Len[trk] \in Int
  BY Geometry DEF DataOK, Counts
<1>3. s <= Len[trk]
  BY <1>1, <1>2 DEF CleanInv, Max2
<1>4. k <= Max2(s, 0)
  BY <1>1, <1>2 DEF CardInv, Max2
<1>5. \A t \in Tracks : t = trk \/ Clean(t) => Clean(t)'
  BY <1>1, <1>2 DEF DataOK, Clean, Counts
<1>6. \A t \in Tracks : size'[t] <= Len[t] /\ dsize'[t] <= Len[t]
  BY <1>1, <1>2, <1>3 DEF DataOK, CleanInv
<1>7. \A t \in Tracks, p \in Pos : p > size'[t] => cell'[t][p] = Junk
  <2> SUFFICES ASSUME NEW t \in Tracks, NEW p \in Pos, p > size'[t]
               PROVE  cell'[t][p] = Junk
    OBVIOUS
  <2>1. cell'[t][p] = IF t = trk /\ ~(p <= k) THEN Junk ELSE cell[t][p]
    BY <1>1, <1>2, TruncatedAt
  <2>2. CASE t = trk
    BY <1>1, <1>2, <1>4, <2>1, <2>2 DEF DataOK, Max2, Pos
  <2>3. CASE t # trk
    BY <1>1, <1>2, <2>1, <2>3 DEF DataOK, CleanInv
  <2>4. QED  BY <2>2, <2>3
<1>8. QED  BY <1>5, <1>6, <1>7

LEMMA SyncClean ==
  ASSUME DataOK, CleanInv, Sync
  PROVE  /\ \A t \in Tracks : t = trk \/ Clean(t) => Clean(t)'
         /\ \A t \in Tracks : size'[t] <= Len[t] /\ dsize'[t] <= Len[t]
         /\ \A t \in Tracks, p \in Pos : p > size'[t] => cell'[t][p] = Junk
  BY DEF DataOK, CleanInv, Sync, Clean, Counts

LEMMA CleanStep ==
  ASSUME OutInv, [Next]_vars
  PROVE  CleanInv'
<1>0. DataOK /\ CardInv /\ CleanInv /\ StartInv /\ IndInv
  BY DEF OutInv, IndInv, TypeOK
<1>1. CASE CloseTrack \/ Crash
  <2>1. Sync \/ LoseUnsynced
    BY <1>1 DEF CloseTrack, Crash
  <2>2. \A t \in Tracks : t = trk \/ Clean(t)
    BY <1>0 DEF CleanInv
  <2>3. QED  BY <1>0, <2>1, <2>2, LoseClean, SyncClean DEF CleanInv
<1>2. CASE CkSync
  <2>1. Dirty' /\ trk' = trk
    BY <1>0, <1>2 DEF CkSync, CkFailed, StartInv, Dirty, InCk, At, Goto
  <2>2. CASE Sync
    BY <1>0, <2>1, <2>2, SyncClean DEF CleanInv
  <2>3. CASE UNCHANGED files
    BY <1>0, <2>1, <2>3 DEF CleanInv, Clean, files
  <2>4. QED  BY <1>2, <2>2, <2>3 DEF CkSync
<1>3. CASE WriteChunk
  <2>1. Dirty' /\ trk' = trk
    BY <1>3 DEF WriteChunk, Advance, StorageFailed, Dirty, InLoop, InCk, At, Goto
  <2>2. /\ pos \in Int /\ n \in Int /\ size[trk] = pos /\ 1 <= n /\ pos + n <= Len[trk]
        /\ trk \in Tracks
    BY <1>0, <1>3 DEF WriteChunk, At, IndInv, ChunkInv, FileInv, InLoop, Over, DataOK,
       Counts, pos
  <2>3. /\ size' = [size EXCEPT ![trk] = pos + n] /\ UNCHANGED <<dsize, kept>>
        /\ \/ cell' = Written(cell, BufferValue) \/ cell' = Written(cell, JunkValue)
           \/ cell' = Written(cell, RotValue)
    BY <1>3 DEF WriteChunk
  <2>4. \A t \in Tracks : Clean(t)' \/ (Dirty' /\ t = trk')
    BY <1>0, <2>1, <2>3 DEF CleanInv, Clean, DataOK
  <2>5. \A t \in Tracks : size'[t] <= Len[t] /\ dsize'[t] <= Len[t]
    BY <1>0, <2>2, <2>3 DEF CleanInv, DataOK
  <2>6. ASSUME NEW t \in Tracks, NEW p \in Pos, p > size'[t]
        PROVE  cell'[t][p] = Junk
    <3>1. p \in Int /\ cell \in Contents
      BY <1>0 DEF Pos, DataOK
    <3>2. ~(t = trk /\ pos < p /\ p <= pos + n) /\ p > size[t]
      BY <1>0, <2>2, <2>3, <2>6, <3>1 DEF DataOK
    <3>3. cell'[t][p] = cell[t][p]
      BY <1>0, <2>3, <3>1, <3>2, WrittenAt
    <3>4. QED  BY <1>0, <3>2, <3>3 DEF CleanInv
  <2>7. QED  BY <2>4, <2>5, <2>6 DEF CleanInv
<1>4. CASE OpenTrack
  <2>1. \A t \in Tracks : Clean(t)
    BY <1>0, <1>4 DEF OpenTrack, At, CleanInv, Dirty, InLoop, InCk
  <2>2. CASE UNCHANGED files
    BY <1>0, <2>1, <2>2 DEF CleanInv, Clean, files
  <2>3. CASE ~UNCHANGED files
    <3>1. PICK t \in Tracks :
            /\ FirstPartial(sectors, t) /\ trk' = t /\ UNCHANGED dsize
            /\ kept' = [kept EXCEPT ![t] = Min2(@, sectors[t])]
            /\ \/ /\ size' = [size EXCEPT ![t] = sectors[t]]
                  /\ cell' = Truncated(t, sectors[t])
                  /\ pc' = "loop"
               \/ /\ size' = [size EXCEPT ![t] = Max2(@, 0)] /\ UNCHANGED cell
                  /\ pc' = "exit"
      BY <1>4, <2>3 DEF OpenTrack, StartTrack, Goto
    <3>2. Dirty'
      BY <3>1 DEF Dirty, InLoop
    <3>3. sectors[t] \in Int /\ size[t] \in Int /\ sectors[t] <= Len[t] /\ Len[t] \in Nat
      BY <1>0, Geometry DEF DataOK, Counts, IndInv, ChunkInv
    <3>4. \A u \in Tracks : Clean(u)' \/ (Dirty' /\ u = trk')
      BY <1>0, <2>1, <3>1, <3>2 DEF Clean, DataOK, Counts
    <3>5. \A u \in Tracks : size'[u] <= Len[u] /\ dsize'[u] <= Len[u]
      BY <1>0, <3>1, <3>3 DEF CleanInv, DataOK, Max2
    <3>6. ASSUME NEW u \in Tracks, NEW p \in Pos, p > size'[u]
          PROVE  cell'[u][p] = Junk
      <4>1. p \in Nat /\ size[u] \in Int
        BY <1>0 DEF Pos, DataOK
      <4>2. CASE u = t
        <5>1. CASE cell' = Truncated(t, sectors[t]) /\ size' = [size EXCEPT ![t] = sectors[t]]
          <6>1. size'[t] = sectors[t]
            BY <1>0, <5>1 DEF DataOK
          <6>2. ~(p <= sectors[t])
            BY <3>3, <3>6, <4>1, <4>2, <6>1
          <6>3. QED  BY <1>0, <3>3, <4>2, <5>1, <6>2, TruncatedAt
        <5>2. CASE UNCHANGED cell /\ size' = [size EXCEPT ![t] = Max2(@, 0)]
          <6>1. p > size[t]
            BY <1>0, <3>3, <3>6, <4>1, <4>2, <5>2 DEF DataOK, Max2
          <6>2. QED  BY <1>0, <4>2, <5>2, <6>1 DEF CleanInv
        <5>3. QED  BY <3>1, <5>1, <5>2
      <4>3. CASE u # t
        <5>1. size'[u] = size[u]
          BY <1>0, <3>1, <4>3 DEF DataOK
        <5>2. cell'[u][p] = cell[u][p]
          BY <1>0, <3>1, <3>3, <4>3, TruncatedAt
        <5>3. QED  BY <1>0, <3>6, <5>1, <5>2 DEF CleanInv
      <4>4. QED  BY <4>2, <4>3
    <3>7. QED  BY <3>4, <3>5, <3>6 DEF CleanInv
  <2>4. QED  BY <2>2, <2>3
<1>5. CASE UNCHANGED files /\ ~OpenTrack /\ ~CloseTrack /\ ~Crash
  <2>1. (trk' = trk /\ (Dirty => Dirty')) \/ (~Dirty /\ ~Dirty')
    BY <1>0, <1>5, DirtyFrame
  <2>2. QED  BY <1>0, <1>5, <2>1 DEF CleanInv, Clean, files
<1>6. QED  BY <1>1, <1>2, <1>3, <1>4, <1>5, FilesFrame

-----------------------------------------------------------------------------
(* The records *)

(* A record that is the job's own is the newest one. *)
LEMMA SavedIsBest ==
  ASSUME DataOK, SlotInv, NEW k, SavedTo(k)
  PROVE  /\ Best = SlotOf(seq) /\ Newest(disc, Best)
         /\ \A t \in Tracks : Committed(t) = IF t = trk THEN k ELSE sectors[t]
<1>1. /\ seq \in Nat /\ SlotOf(seq) \in Slots /\ \A s \in Slots : slot[s].seq \in Nat
  BY SlotOfIsSlot DEF DataOK, Record
<1>2. /\ Best \in Slots /\ \A s \in Slots : slot[s].seq <= slot[Best].seq
      /\ \A t \in Tracks : Committed(t) = slot[Best].sectors[t]
  BY BestIsNewest
<1>3. slot[Best].seq = seq
  BY <1>1, <1>2 DEF SavedTo
<1>4. Best = SlotOf(seq)
  BY <1>2, <1>3 DEF SlotInv, SavedTo
<1>5. QED  BY <1>2, <1>3, <1>4 DEF SavedTo, Newest, ValidFor

(* A track that a record covers whole stays so. *)
LEMMA WholeStays ==
  ASSUME IndInv, [Next]_vars, NEW t \in Tracks, Committed(t) = Len[t]
  PROVE  Committed(t)' = Len[t]
<1>1. IndInv' /\ DataOK /\ DataOK' /\ SlotInv'
  BY IndStep DEF IndInv, TypeOK
<1>2. /\ Best \in Slots /\ Committed(t) = slot[Best].sectors[t]
  BY <1>1, BestIsNewest
<1>3. /\ \A s \in Slots : slot[s].seq \in Nat
      /\ \A s \in Slots : slot'[s].seq \in Nat
  BY <1>1 DEF DataOK, Record
<1>4. Best' \in Slots /\ Committed(t)' = slot'[Best'].sectors[t]
  BY <1>3 DEF Best, Committed, Slots
<1>5. slot[Best].sectors[t] <= slot'[Best'].sectors[t]
  BY NewestGrows
<1>6. slot'[Best'].sectors[t] <= Len[t]
  BY <1>1, <1>4 DEF SlotInv
<1>7. slot'[Best'].sectors[t] \in Int /\ Len[t] \in Int
  BY <1>1, <1>4, Geometry DEF DataOK, Record, Counts
<1>8. QED  BY <1>2, <1>4, <1>5, <1>6, <1>7

LEMMA OrderStep ==
  ASSUME OutInv, [Next]_vars
  PROVE  OrderInv'
<1>0. IndInv /\ DataOK /\ SlotInv /\ OrderInv /\ SavedInv
  BY DEF OutInv, IndInv, TypeOK
<1> SUFFICES ASSUME NEW t \in Tracks, NEW u \in Tracks, u < t,
                    size'[t] # -1 \/ dsize'[t] # -1
             PROVE  Committed(u)' = Len[u]
  BY DEF OrderInv
<1>1. SUFFICES Committed(u) = Len[u]
  BY <1>0, WholeStays
<1>2. CASE size[t] # -1 \/ dsize[t] # -1
  BY <1>0, <1>2 DEF OrderInv
<1>3. CASE size[t] = -1 /\ dsize[t] = -1
  <2>1. OpenTrack
    <3>1. ~UNCHANGED files
      BY <1>3 DEF files
    <3>2. ~WriteChunk
      <4>1. WriteChunk => size' = [size EXCEPT ![trk] = pos + n] /\ size[trk] = pos
                          /\ pos \in Nat /\ UNCHANGED dsize
        BY <1>0 DEF WriteChunk, At, IndInv, FileInv, InLoop, Over, DataOK, Counts, pos
      <4>2. QED  BY <1>0, <1>3, <4>1 DEF DataOK
    <3>3. ~Sync
      BY <1>0, <1>3 DEF Sync, DataOK
    <3>4. ~LoseUnsynced
      <4>1. LoseUnsynced => \E s \in -1..MaxLen :
               /\ s <= Max2(dsize[trk], size[trk])
               /\ size' = [size EXCEPT ![trk] = s] /\ dsize' = [dsize EXCEPT ![trk] = s]
        BY DEF LoseUnsynced
      <4>2. QED  BY <1>0, <1>3, <4>1 DEF DataOK, Max2
    <3>5. QED
      BY <3>1, <3>2, <3>3, <3>4, FilesFrame DEF CloseTrack, CkSync, Crash
  <2>2. PICK v \in Tracks : /\ FirstPartial(sectors, v) /\ UNCHANGED dsize
                            /\ \E i : size' = [size EXCEPT ![v] = i]
    BY <1>3, <2>1 DEF OpenTrack, StartTrack, files
  <2>3. v = t
    BY <1>0, <1>3, <2>2 DEF DataOK
  <2>4. sectors[u] = Len[u]
    BY <2>2, <2>3 DEF FirstPartial
  <2>5. SavedTo(pos)
    BY <1>0, <2>1 DEF OpenTrack, At, SavedInv
  <2>6. QED  BY <1>0, <2>4, <2>5, SavedIsBest DEF pos
<1>4. QED  BY <1>2, <1>3

LEMMA StartStep ==
  ASSUME OutInv, [Next]_vars
  PROVE  StartInv'
<1>0. /\ StartInv /\ seq \in Nat
      /\ pc = "idle" => seq = 0
  BY DEF OutInv, IndInv, TypeOK, DataOK, IdleInv
<1>1. CASE UNCHANGED <<pc, ckRet, seq>>
  BY <1>0, <1>1 DEF StartInv
<1>2. CASE New \/ WriteChunk \/ LoopExit \/ CkSync \/ CkOpen
  BY <1>0, <1>2 DEF New, StartNew, WriteChunk, Advance, StorageFailed, LoopExit, CkSync,
     CkOpen, CkFailed, StartInv, At, Goto
<1>3. pc' \notin {"cksync", "ckopen", "ckwrite"} \/ UNCHANGED <<pc, ckRet, seq>>
      \/ New \/ WriteChunk \/ LoopExit \/ CkSync \/ CkOpen
  <2>1. CASE UNCHANGED vars \/ PressB
    BY <2>1 DEF vars, job, track, PressB
  <2>2. CASE Resume \/ Verify \/ Finish \/ Crash
    BY <2>2 DEF Resume, Verify, Load, Finish, Crash, ResetJob, Goto
  <2>3. CASE PrefixCheck \/ OpenTrack \/ LoopHead \/ ReadRaw \/ ReadBegin \/ CloseTrack
    BY <2>3 DEF PrefixCheck, OpenTrack, LoopHead, ReadRaw, ReadBegin, CloseTrack, At, Goto
  <2>4. CASE CkWrite
    BY <2>4 DEF CkWrite, CkFailed, CkDone, OutInv, IndInv, TypeOK, DataOK, At, Goto
  <2>5. CASE EndReadback \/ FinalCheck \/ PublishGdi \/ PublishOutput \/ PublishManifest
    BY <2>5 DEF EndReadback, FinalCheck, PublishGdi, PublishOutput, PublishManifest,
       Publish, Goto
  <2>6. QED  BY <2>1, <2>2, <2>3, <2>4, <2>5 DEF Next, Worker
<1>4. QED  BY <1>1, <1>2, <1>3 DEF StartInv

(* Nothing but the open track's progress can outdate the record. *)
LEMMA SavedFrame ==
  ASSUME NEW k, SavedTo(k), UNCHANGED <<slot, seq, disc>>,
         \/ UNCHANGED <<sectors, trk>>
         \/ UNCHANGED trk /\ \A t \in Tracks : t # trk => sectors'[t] = sectors[t]
  PROVE  SavedTo(k)'
  BY DEF SavedTo

LEMMA SavedStep ==
  ASSUME OutInv, [Next]_vars
  PROVE  SavedInv'
<1>0. /\ DataOK /\ SavedInv /\ StartInv /\ IndInv /\ seq \in Nat
      /\ SlotOf(seq) \in Slots
  BY SlotOfIsSlot DEF OutInv, IndInv, TypeOK, DataOK
<1>1. CASE UNCHANGED vars \/ PressB
  BY <1>0, <1>1
  DEF vars, PressB, card, job, setup, track, SavedInv, SavedTo, InLoop, InCk, Publishing,
      pos, Kept, ExitCheckpointFailed
<1>2. CASE Finish \/ Crash
  BY <1>2 DEF Finish, Crash, ResetJob, SavedInv, InLoop, InCk, Publishing
<1>3. CASE New
  BY <1>3 DEF New, StartNew, Goto, SavedInv, InLoop, InCk, Publishing
<1>4. ASSUME NEW m, NEW o \in Options, NEW d \in Discs, NEW s \in Slots, Load(m, o, d, s)
      PROVE  SavedInv'
  <2>1. /\ seq' = slot[s].seq /\ disc' = d /\ sectors' = slot[s].sectors
        /\ pc' = "check" /\ UNCHANGED <<slot, trk>> /\ Newest(d, s)
    BY <1>4 DEF Load, Goto, card, track
  <2>2. /\ slot[s].seq > 0 /\ slot[s].disc = d /\ SlotOf(slot[s].seq) = s
    BY <1>0, <2>1 DEF Newest, ValidFor, IndInv, SlotInv
  <2>3. \A q \in Slots : slot[q].seq <= slot[s].seq
    <3>1. \A q \in Slots : slot[q].seq \in Nat
      BY <1>0 DEF DataOK, Record
    <3>2. QED  BY <1>0, <2>1, <2>2, <3>1 DEF Newest, ValidFor, IndInv, SlotInv
  <2>4. SavedTo(pos)'
    BY <2>1, <2>2, <2>3 DEF SavedTo, pos
  <2>5. QED  BY <2>1, <2>4 DEF SavedInv, InLoop, InCk, Publishing
<1>5. CASE PrefixCheck \/ EndReadback \/ FinalCheck \/ PublishGdi \/ PublishOutput
           \/ PublishManifest
  <2>1. /\ Publishing \/ pc \in {"check", "open", "after"}
        /\ Publishing' \/ pc' \in {"check", "open", "after", "out"}
        /\ UNCHANGED <<slot, seq, disc, sectors, trk>>
    BY <1>5 DEF PrefixCheck, EndReadback, FinalCheck, PublishGdi, PublishOutput,
       PublishManifest, Publish, At, Goto, Publishing, card, setup, job, track
  <2>2. SavedTo(pos)'
    BY <1>0, <2>1, SavedFrame DEF SavedInv, pos
  <2>3. QED  BY <2>1, <2>2 DEF SavedInv, InLoop, InCk, Publishing
<1>6. CASE OpenTrack
  <2>1. SavedTo(pos) /\ UNCHANGED <<slot, seq, disc, sectors>>
    BY <1>0, <1>6 DEF OpenTrack, At, SavedInv, job, setup
  <2>2. CASE UNCHANGED trk /\ pc' \in {"after", "out"}
    <3>1. SavedTo(pos)'
      BY <2>1, <2>2, SavedFrame DEF pos
    <3>2. QED  BY <2>2, <3>1 DEF SavedInv, InLoop, InCk, Publishing
  <2>3. CASE ckptAt' = sectors[trk'] /\ (pc' = "loop" \/ (pc' = "exit" /\ failed'))
    <3>1. SavedTo(ckptAt)'
      BY <2>1, <2>3 DEF SavedTo, pos
    <3>2. QED  BY <2>3, <3>1 DEF SavedInv, InLoop, InCk, Publishing
  <2>4. QED  BY <1>6, <2>2, <2>3 DEF OpenTrack, StartTrack, Goto, track
<1>7. CASE LoopHead \/ ReadRaw \/ ReadBegin \/ WriteChunk
  <2>1. /\ InLoop /\ UNCHANGED <<slot, seq, disc, trk, ckptAt>>
        /\ InLoop' \/ pc' = "exit" \/ (pc' = "cksync" /\ ckRet' = "loop")
    BY <1>7 DEF LoopHead, ReadRaw, ReadBegin, WriteChunk, Advance, StorageFailed, At, Goto,
       InLoop, card, job, setup
  <2>2. \A t \in Tracks : t # trk => sectors'[t] = sectors[t]
    BY <1>0, <1>7 DEF LoopHead, ReadRaw, ReadBegin, WriteChunk, Advance, StorageFailed, job,
       DataOK, Counts
  <2>3. SavedTo(ckptAt)'
    BY <1>0, <2>1, <2>2, SavedFrame DEF SavedInv
  <2>4. QED  BY <2>1, <2>3 DEF SavedInv, InLoop, InCk, Publishing
<1>8. CASE LoopExit
  <2>1. /\ pc = "exit" /\ UNCHANGED <<slot, seq, disc, sectors, trk, ckptAt, ok, failed>>
        /\ \/ pc' = "cksync" /\ ckRet' = "close" /\ pos # ckptAt
           \/ pc' = "close" /\ ~Uncommitted
    BY <1>8 DEF LoopExit, Uncommitted, At, Goto, card, job, setup
  <2>2. ok => ~failed
    BY <1>0 DEF IndInv, ChunkInv
  <2>3. pc' = "close" /\ ~failed => SavedTo(pos)'
    <3>1. pc' = "close" /\ ~failed => pos = ckptAt /\ SavedTo(ckptAt)
      BY <1>0, <2>1 DEF Uncommitted, SavedInv
    <3>2. QED  BY <2>1, <3>1, SavedFrame DEF pos
  <2>4. pos' = pos
    BY <2>1 DEF pos
  <2>5. QED  BY <2>1, <2>2, <2>3, <2>4 DEF SavedInv, InLoop, InCk, Publishing, Kept
<1>9. CASE CloseTrack
  <2>1. /\ pc = "close" /\ UNCHANGED <<slot, seq, disc, sectors, trk, ckptAt, ckRet, failed>>
        /\ pc' \in {"open", "out"} /\ (pc' = "open" => ok)
    BY <1>9 DEF CloseTrack, At, Goto, job, setup
  <2>2. ok \/ Kept => SavedTo(pos)'
    BY <1>0, <2>1, SavedFrame DEF SavedInv, pos
  <2>3. Kept' => Kept
    BY <2>1 DEF Kept, ExitCheckpointFailed, pos
  <2>4. QED  BY <2>1, <2>2, <2>3 DEF SavedInv, InLoop, InCk, Publishing
<1>10. CASE CkSync \/ CkOpen
  <2>1. /\ ckRet \in {"start", "loop", "close"}
        /\ InCk /\ UNCHANGED <<sectors, trk, ckptAt, ckRet>>
        /\ \/ pc' \in {"ckopen", "ckwrite"}
           \/ CkFailed /\ seq' = seq /\ (ckRet = "start" => seq = 0)
    BY <1>0, <1>10 DEF CkSync, CkOpen, StartInv, InCk, At, Goto, DataOK, job
  <2>2. ckRet = "close" => pos # ckptAt /\ pos' # ckptAt'
    BY <1>0, <2>1 DEF SavedInv, pos
  <2>3. QED
    BY <2>1, <2>2
    DEF SavedInv, InLoop, InCk, Publishing, CkFailed, Goto, Kept, ExitCheckpointFailed
<1>11. CASE CkWrite
  <2>1. /\ pc = "ckwrite" /\ UNCHANGED <<disc, sectors, trk, ckRet>>
        /\ ckRet \in {"start", "loop", "close"} /\ (ckRet = "start" => seq = 1)
    BY <1>0, <1>11 DEF CkWrite, At, setup, DataOK, StartInv
  <2>2. CASE CkFailed /\ seq' = seq - 1 /\ UNCHANGED ckptAt
    <3>1. ckRet = "close" => pos' # ckptAt'
      BY <1>0, <2>1, <2>2 DEF SavedInv, InCk, pos
    <3>2. QED
      BY <2>1, <2>2, <3>1
      DEF SavedInv, InLoop, InCk, Publishing, CkFailed, Goto, Kept, ExitCheckpointFailed
  <2>3. CASE /\ slot' = [slot EXCEPT ![SlotOf(seq)] = RecordNow] /\ ckptAt' = pos
             /\ CkDone /\ seq' = seq
    <3>1. seq > 0 /\ \A s \in Slots : slot[s].seq < seq
      BY <1>0, <2>1 DEF IndInv, SeqInv, MayCommit, InCk, Over
    <3>2. slot'[SlotOf(seq)] = RecordNow
      BY <1>0, <2>3 DEF DataOK
    <3>3. \A s \in Slots : slot'[s].seq <= seq
      <4>1. \A s \in Slots : slot[s].seq \in Nat /\ RecordNow.seq = seq
        BY <1>0 DEF DataOK, Record, RecordNow
      <4>2. QED  BY <1>0, <2>3, <3>1, <4>1 DEF DataOK
    <3>4. SavedTo(pos)'
      BY <2>1, <2>3, <3>1, <3>2, <3>3 DEF SavedTo, RecordNow, pos
    <3>5. pos' = ckptAt'
      BY <2>1, <2>3 DEF pos
    <3>6. SavedTo(ckptAt)'
      BY <3>4, <3>5
    <3>7. QED
      BY <2>1, <2>3, <3>4, <3>6 DEF SavedInv, InLoop, InCk, Publishing, CkDone, Goto
  <2>4. QED  BY <1>11, <2>2, <2>3 DEF CkWrite
<1>12. QED
  BY <1>1, <1>2, <1>3, <1>4, <1>5, <1>6, <1>7, <1>8, <1>9, <1>10, <1>11
  DEF Next, Resume, Verify, Worker

-----------------------------------------------------------------------------
(* The re-read *)

(* check_files over every byte of a complete capture, whose running hash is *)
(* the disc's, leaves only cards that hold the disc's sectors.              *)
LEMMA ReadWhole ==
  ASSUME IndInv, ~Over, NEW e \in BOOLEAN, FilesAdmitted(e), VerifiedBy(e)
  PROVE  AllCaptured /\ Whole(cell, disc)
<1>1. AllCaptured
  BY DEF VerifiedBy
<1>2. \A t \in Tracks : sectors[t] = Len[t] /\ sectors[t] > 0
  BY <1>1, Geometry DEF AllCaptured
<1>3. BytesRead(e)
  <2>1. 1 \in Tracks /\ sectors[1] # 0
    BY <1>2, Geometry
  <2>2. QED  BY <2>1 DEF VerifiedBy
<1>4. \A t \in Tracks : HashMatches(t)
  BY <1>2, <1>3 DEF FilesAdmitted
<1>5. \A t \in Tracks, p \in Pos : p <= sectors[t] => hash[t][p] = Sec(disc, t, p)
  BY DEF IndInv, MemInv
<1>6. QED  BY <1>1, <1>2, <1>4, <1>5 DEF HashMatches, Whole

(* Which steps can be the run's re-reads, its end or its start *)
LEMMA ReadFrame ==
  ASSUME DataOK, [Next]_vars
  PROVE  \/ New \/ Resume \/ Verify \/ Finish \/ Crash
         \/ PrefixCheck \/ EndReadback \/ FinalCheck
         \/ /\ UNCHANGED <<verified, setup, sectors, pc, cell>>
         \/ /\ Publishing /\ (pc' = "out" \/ (Publishing' /\ pc' # "final" /\ pc # "final"))
            /\ UNCHANGED <<verified, setup, sectors, cell>>
         \/ /\ ~Publishing /\ pc \notin {"out", "idle", "check"} /\ ~Publishing' /\ pc' # "idle"
            /\ UNCHANGED <<verified, setup>>
<1> USE DEF Publishing, At, Goto
<1>1. CASE UNCHANGED vars \/ PressB
  BY <1>1 DEF vars, PressB, card, job
<1>2. CASE PublishGdi \/ PublishOutput \/ PublishManifest
  BY <1>2 DEF PublishGdi, PublishOutput, PublishManifest, Publish, files, job
<1>3. CASE OpenTrack \/ LoopHead \/ ReadRaw \/ ReadBegin \/ WriteChunk \/ LoopExit
           \/ CloseTrack
  BY <1>3 DEF OpenTrack, LoopHead, ReadRaw, ReadBegin, WriteChunk, Advance, StorageFailed,
     LoopExit, CloseTrack, job
<1>4. CASE CkSync \/ CkOpen \/ CkWrite
  BY <1>4 DEF CkSync, CkOpen, CkWrite, CkFailed, CkDone, DataOK, job
<1>5. QED  BY <1>1, <1>2, <1>3, <1>4 DEF Next, Worker

LEMMA ReadStep ==
  ASSUME OutInv, [Next]_vars
  PROVE  ReadInv'
<1>0. DataOK /\ FlagsOK /\ ReadInv /\ IndInv
  BY DEF OutInv, IndInv, TypeOK
<1>1. CASE New
  <2>1. /\ ~sizeResume /\ ~verified
    BY <1>0, <1>1 DEF New, StartNew, At, ReadInv, Publishing
  <2>2. ~sizeResume' /\ ~verified' /\ ~Publishing'
    BY <1>1, <2>1 DEF New, StartNew, Goto, Publishing
  <2>3. QED  BY <2>2 DEF ReadInv
<1>2. CASE Resume \/ Verify
  <2>1. ~verified' /\ ~Publishing' /\ pc' # "idle"
    BY <1>0, <1>2 DEF Resume, Verify, Load, At, Goto, ReadInv, Publishing
  <2>2. sizeResume' => crcOnly'
    BY <1>2 DEF Resume, Verify, Load
  <2>3. QED  BY <2>1, <2>2 DEF ReadInv
<1>3. CASE Finish \/ Crash
  BY <1>3 DEF Finish, Crash, ResetJob, ReadInv, Publishing
<1>4. CASE PrefixCheck
  <2>1. /\ ~verified /\ pc = "check" /\ ~Over /\ (mode = "verify") \in BOOLEAN
        /\ UNCHANGED <<setup, cell, sectors>>
    BY <1>0, <1>4 DEF PrefixCheck, At, ReadInv, Publishing, Over, card
  <2>2. CASE UNCHANGED verified /\ pc' = "out"
    BY <1>0, <2>1, <2>2 DEF ReadInv, Publishing, setup
  <2>3. CASE /\ FilesAdmitted(mode = "verify") /\ verified' = VerifiedBy(mode = "verify")
             /\ pc' = IF AllCaptured THEN "final" ELSE "open"
    <3>1. verified' => AllCaptured /\ Whole(cell, disc)
      BY <1>0, <2>1, <2>3, ReadWhole
    <3>2. AllCaptured => crcOnly \/ verified'
      BY <1>0, <2>3 DEF VerifiedBy, BytesRead, ReadInv
    <3>3. Whole(cell, disc) = Whole(cell, disc)' /\ AllCaptured = AllCaptured'
      BY <2>1 DEF setup, Whole, AllCaptured
    <3>4. QED  BY <1>0, <2>1, <2>3, <3>1, <3>2, <3>3 DEF ReadInv, Publishing, setup
  <2>4. QED  BY <1>4, <2>2, <2>3 DEF PrefixCheck, Goto
<1>5. CASE EndReadback \/ FinalCheck
  <2>1. /\ pc \in {"after", "final"} /\ ~Over /\ UNCHANGED <<setup, cell, sectors>>
    BY <1>5 DEF EndReadback, FinalCheck, At, Over, card
  <2>2. Whole(cell, disc) = Whole(cell, disc)' /\ AllCaptured = AllCaptured'
        /\ NeedsVerified = NeedsVerified'
    BY <2>1 DEF setup, Whole, AllCaptured, NeedsVerified
  <2>3. CASE UNCHANGED verified /\ pc' = "out"
    BY <1>0, <2>1, <2>2, <2>3 DEF ReadInv, Publishing, setup
  <2>4. CASE FilesAdmitted(TRUE) /\ verified' = VerifiedBy(TRUE) /\ AllCaptured
             /\ pc' \in {"final", "gdi"}
    <3>1. verified' /\ VerifiedBy(TRUE)
      BY <2>4 DEF VerifiedBy, BytesRead
    <3>2. Whole(cell, disc)
      BY <1>0, <2>1, <2>4, <3>1, ReadWhole
    <3>3. QED  BY <1>0, <2>1, <2>2, <2>4, <3>1, <3>2 DEF ReadInv, Publishing, setup
  <2>5. CASE pc = "after" /\ AllCaptured /\ SkipEnd /\ UNCHANGED verified /\ pc' = "final"
    BY <1>0, <2>1, <2>2, <2>5 DEF ReadInv, Publishing, setup, SkipEnd
  <2>6. CASE pc = "final" /\ AllCaptured /\ (NeedsVerified => verified) /\ UNCHANGED verified
             /\ pc' = "gdi"
    BY <1>0, <2>1, <2>2, <2>6 DEF ReadInv, Publishing, setup
  <2>7. QED
    BY <1>5, <2>3, <2>4, <2>5, <2>6 DEF EndReadback, FinalCheck, Proceed, At, Goto
<1>6. CASE UNCHANGED <<verified, setup, sectors, pc, cell>>
  <2>1. ReadInv' = ReadInv
    BY <1>6 DEF ReadInv, setup, Publishing, Whole, AllCaptured, NeedsVerified
  <2>2. QED  BY <1>0, <2>1
<1>7. CASE /\ Publishing /\ (pc' = "out" \/ (Publishing' /\ pc' # "final" /\ pc # "final"))
           /\ UNCHANGED <<verified, setup, sectors, cell>>
  <2>1. Whole(cell, disc) = Whole(cell, disc)' /\ AllCaptured = AllCaptured'
        /\ NeedsVerified = NeedsVerified'
    BY <1>7 DEF setup, Whole, AllCaptured, NeedsVerified
  <2>2. QED  BY <1>0, <1>7, <2>1 DEF ReadInv, setup, Publishing
<1>8. CASE /\ ~Publishing /\ pc \notin {"out", "idle", "check"} /\ ~Publishing' /\ pc' # "idle"
           /\ UNCHANGED <<verified, setup>>
  BY <1>0, <1>8 DEF ReadInv, setup
<1>9. QED  BY <1>0, <1>1, <1>2, <1>3, <1>4, <1>5, <1>6, <1>7, <1>8, ReadFrame

LEMMA VerifyStep ==
  ASSUME OutInv, [Next]_vars
  PROVE  VerifyInv'
<1>0. DataOK /\ VerifyInv
  BY DEF OutInv, IndInv, TypeOK
<1>1. CASE New \/ Resume \/ Finish \/ Crash
  BY <1>1 DEF New, StartNew, Resume, Load, Finish, Crash, ResetJob, VerifyInv
<1>2. CASE Verify
  BY <1>2 DEF Verify, Load, Goto, VerifyInv, Quiet, AllCaptured
<1>3. CASE PrefixCheck
  <2>1. pc = "check" /\ UNCHANGED <<mode, sectors>>
        /\ (pc' = "out" \/ pc' = IF AllCaptured THEN "final" ELSE "open")
    BY <1>3 DEF PrefixCheck, At, Goto, setup
  <2>2. QED  BY <1>0, <2>1 DEF VerifyInv, Quiet, Publishing, AllCaptured
<1>4. CASE EndReadback \/ FinalCheck
  <2>1. pc \in {"after", "final"} /\ UNCHANGED <<mode, sectors>>
        /\ pc' \in {"final", "gdi", "out"}
    BY <1>4 DEF EndReadback, FinalCheck, At, Goto, setup
  <2>2. QED  BY <1>0, <2>1 DEF VerifyInv, Quiet, Publishing, AllCaptured
<1>5. CASE UNCHANGED <<verified, setup, sectors, pc, cell>>
  BY <1>0, <1>5 DEF VerifyInv, Quiet, Publishing, AllCaptured, setup
<1>6. CASE /\ Publishing /\ (pc' = "out" \/ (Publishing' /\ pc' # "final" /\ pc # "final"))
           /\ UNCHANGED <<verified, setup, sectors, cell>>
  BY <1>0, <1>6 DEF VerifyInv, Quiet, Publishing, AllCaptured, setup
<1>7. CASE /\ ~Publishing /\ pc \notin {"out", "idle", "check"} /\ ~Publishing' /\ pc' # "idle"
           /\ UNCHANGED <<verified, setup>>
  BY <1>0, <1>7 DEF VerifyInv, Quiet, setup
<1>8. QED  BY <1>0, <1>1, <1>2, <1>3, <1>4, <1>5, <1>6, <1>7, ReadFrame

-----------------------------------------------------------------------------
(* The published metadata *)

(* With every file flushed, a power loss takes nothing from them. *)
LEMMA CleanLoss ==
  ASSUME DataOK, CardInv, CleanInv, ~Dirty, LoseUnsynced
  PROVE  UNCHANGED files
<1>1. PICK s \in -1..MaxLen, k \in 0..MaxLen :
        /\ s <= Max2(dsize[trk], size[trk])
        /\ s >= kept[trk] \/ dsize[trk] = -1
        /\ s = -1 => dsize[trk] = -1
        /\ kept[trk] <= k /\ k <= Max2(s, kept[trk])
        /\ size' = [size EXCEPT ![trk] = s] /\ dsize' = [dsize EXCEPT ![trk] = s]
        /\ kept' = [kept EXCEPT ![trk] = Max2(s, 0)]
        /\ cell' = Truncated(trk, k)
  BY DEF LoseUnsynced
<1>2. trk \in Tracks /\ Clean(trk) /\ size[trk] \in -1..MaxLen /\ kept[trk] \in Nat
  BY DEF CleanInv, DataOK, Counts
<1>3. s = size[trk] /\ k = kept[trk] /\ Max2(s, 0) = kept[trk]
  BY <1>1, <1>2, Geometry DEF Clean, Max2
<1>4. UNCHANGED <<size, dsize, kept>>
  BY <1>1, <1>2, <1>3 DEF Clean, DataOK, Counts
<1>5. cell' = cell
  <2>1. \A p \in Pos : ~(p <= k) => cell[trk][p] = Junk
    BY <1>2, <1>3, Geometry DEF CleanInv, Clean, Max2, Pos
  <2>2. [q \in Pos |-> IF q <= k THEN cell[trk][q] ELSE Junk] = cell[trk]
    BY <1>2, <2>1 DEF DataOK, Contents
  <2>3. QED  BY <1>1, <1>2, <2>2 DEF Truncated, DataOK, Contents
<1>6. QED  BY <1>4, <1>5 DEF files

(* Once something is published, the job's tracks and records never change   *)
(* again: what is still resumed is only checked and published further.      *)
LEMMA PublishedStays ==
  ASSUME OutInv, [Next]_vars, Published
  PROVE  UNCHANGED <<files, slot>> /\ Quiet'
<1>0. /\ IndInv /\ DataOK /\ CardInv /\ SlotInv /\ CleanInv /\ SavedInv /\ Quiet
      /\ \A t \in Tracks : Committed(t) = Len[t]
  BY DEF OutInv, IndInv, TypeOK, PublishedInv
<1>1. pc \in {"final", "gdi", "output", "manifest", "complete", "idle", "check", "out"}
  BY <1>0 DEF Quiet, Publishing
<1>2. UNCHANGED files
  <2>1. ~Dirty /\ ~OpenTrack /\ ~WriteChunk /\ ~CloseTrack /\ ~CkSync
    BY <1>1 DEF Dirty, InLoop, InCk, OpenTrack, WriteChunk, CloseTrack, CkSync, At
  <2>2. QED  BY <1>0, <2>1, FilesFrame, CleanLoss DEF Crash
<1>3. ~New
  <2>1. Best \in Slots /\ 1 \in Tracks /\ slot[Best].sectors[1] = Len[1] /\ Len[1] # 0
    BY <1>0, BestIsNewest, Geometry
  <2>2. slot[Best].seq # 0
    <3>1. NoRecord.sectors[1] = 0
      BY <2>1 DEF NoRecord, Zero
    <3>2. QED  BY <1>0, <2>1, <3>1 DEF SlotInv
  <2>3. QED  BY <2>1, <2>2 DEF New, StartNew
<1>4. UNCHANGED slot
  <2>1. ~CkOpen /\ ~CkWrite /\ (Crash => UNCHANGED slot)
    BY <1>1 DEF CkOpen, CkWrite, Crash, At
  <2>2. QED  BY <1>3, <2>1, SlotFrame DEF New
<1>5. Quiet'
  <2>1. CASE Resume \/ Verify \/ Finish \/ Crash
    BY <2>1 DEF Resume, Verify, Load, Finish, Crash, ResetJob, Goto, Quiet
  <2>2. CASE PrefixCheck
    <3>1. AllCaptured
      <4>1. SavedTo(pos)
        BY <1>0, <2>2 DEF PrefixCheck, At, SavedInv
      <4>2. QED  BY <1>0, <4>1, SavedIsBest DEF AllCaptured, pos
    <3>2. QED  BY <2>2, <3>1 DEF PrefixCheck, Goto, Quiet, Publishing
  <2>3. CASE EndReadback \/ FinalCheck
    BY <1>1, <2>3 DEF EndReadback, FinalCheck, Goto, Quiet, Publishing, At
  <2>4. QED
    BY <1>0, <1>1, <1>3, <2>1, <2>2, <2>3, ReadFrame DEF Quiet, Publishing
<1>6. QED  BY <1>2, <1>4, <1>5

(* A complete job's own record is its newest and holds its hashes. *)
LEMMA CompleteRecord ==
  ASSUME OutInv, Publishing
  PROVE  /\ slot[Best].disc = disc /\ slot[Best].hash = hash
         /\ \A t \in Tracks : Committed(t) = Len[t]
<1>1. /\ IndInv /\ DataOK /\ SlotInv /\ AllCaptured /\ SavedTo(pos) /\ ~Over
  BY DEF OutInv, IndInv, TypeOK, ReadInv, SavedInv, Publishing, Over
<1>2. /\ Best \in Slots /\ Best = SlotOf(seq) /\ slot[Best].seq > 0 /\ slot[Best].disc = disc
      /\ \A t \in Tracks : Committed(t) = sectors[t]
      /\ \A t \in Tracks : slot[Best].sectors[t] = sectors[t]
  <2>1. /\ Best = SlotOf(seq) /\ \A t \in Tracks : Committed(t) = sectors[t]
    BY <1>1, SavedIsBest DEF pos
  <2>2. Best \in Slots
    BY <1>1, BestIsNewest
  <2>3. QED  BY <1>1, <2>1, <2>2 DEF SavedTo, pos
<1>3. ~failed
  BY <1>1 DEF IndInv, ChunkInv, Publishing
<1>4. \A t \in Tracks, p \in Pos : slot[Best].hash[t][p] = hash[t][p]
  BY <1>1, <1>2, <1>3 DEF IndInv, MemInv, CheckpointSound
<1>5. slot[Best].hash \in Contents /\ hash \in Contents
  BY <1>1, <1>2 DEF DataOK, Record
<1>6. slot[Best].hash = hash
  <2>1. \A t \in Tracks : slot[Best].hash[t] = hash[t]
    BY <1>4, <1>5 DEF Contents
  <2>2. QED  BY <1>5, <2>1 DEF Contents
<1>7. QED  BY <1>1, <1>2, <1>6 DEF AllCaptured

(* Only the three publishing steps touch the metadata. *)
LEMMA MetaFrame ==
  ASSUME [Next]_vars
  PROVE  \/ UNCHANGED <<export, manifest>>
         \/ PublishOutput \/ PublishManifest
<1>1. CASE UNCHANGED vars \/ New \/ Resume \/ Verify \/ PressB \/ Crash \/ Finish
  BY <1>1 DEF vars, New, StartNew, Resume, Verify, Load, PressB, Crash, Finish, card, meta
<1>2. CASE PrefixCheck \/ OpenTrack \/ LoopHead \/ ReadRaw \/ ReadBegin \/ WriteChunk
           \/ LoopExit \/ CloseTrack
  BY <1>2 DEF PrefixCheck, OpenTrack, LoopHead, ReadRaw, ReadBegin, WriteChunk, LoopExit,
     CloseTrack, card, meta
<1>3. CASE CkSync \/ CkOpen \/ CkWrite \/ EndReadback \/ FinalCheck \/ PublishGdi
  BY <1>3 DEF CkSync, CkOpen, CkWrite, EndReadback, FinalCheck, PublishGdi, card, meta
<1>4. QED  BY <1>1, <1>2, <1>3 DEF Next, Worker

LEMMA PublishedStep ==
  ASSUME OutInv, [Next]_vars
  PROVE  PublishedInv'
<1>0. /\ IndInv /\ DataOK /\ PublishedInv /\ ReadInv /\ IndInv'
  BY IndStep DEF OutInv, IndInv, TypeOK
<1>1. CASE UNCHANGED <<export, manifest>> /\ ~Published
  BY <1>0, <1>1 DEF PublishedInv, Published
<1>2. CASE UNCHANGED <<export, manifest>> /\ Published
  <2>1. UNCHANGED <<slot, cell>> /\ Quiet'
    BY <1>2, PublishedStays DEF files
  <2>2. /\ Best' = Best /\ \A t \in Tracks : Committed(t)' = Committed(t)
        /\ \A d : Whole(cell, d)' = Whole(cell, d)
    BY <2>1 DEF Best, Committed, Whole
  <2>3. QED  BY <1>0, <1>2, <2>1, <2>2 DEF PublishedInv, Published, Whole
<1>3. CASE PublishOutput \/ PublishManifest
  <2>1. /\ Publishing /\ UNCHANGED <<slot, cell, disc, hash>>
        /\ pc' \in {"manifest", "complete", "out"}
    BY <1>3 DEF PublishOutput, PublishManifest, Publish, At, Goto, Publishing, files, job,
       setup
  <2>2. Quiet'
    BY <2>1 DEF Quiet, Publishing
  <2>3. /\ slot[Best].disc = disc /\ slot[Best].hash = hash
        /\ \A t \in Tracks : Committed(t) = Len[t]
    BY <2>1, CompleteRecord
  <2>4. /\ Best' = Best /\ \A t \in Tracks : Committed(t)' = Committed(t)
    BY <2>1 DEF Best, Committed
  <2>5. verified => Whole(cell, disc)
    BY <1>0 DEF ReadInv
  <2>6. CASE PublishOutput
    <3>1. UNCHANGED manifest /\ (export' = export \/ (verified /\ export' = cell))
      BY <2>6 DEF PublishOutput, Publish
    <3>2. export' # Nothing => Whole(export', slot[Best].disc)
      BY <1>0, <2>3, <2>5, <3>1 DEF PublishedInv
    <3>3. manifest.schema \in {1, 3} => Whole(cell', manifest.disc)
      BY <1>0, <2>1 DEF PublishedInv
    <3>4. QED
      BY <1>0, <2>1, <2>2, <2>3, <2>4, <3>1, <3>2, <3>3 DEF PublishedInv
  <2>7. CASE PublishManifest
    <3>1. /\ UNCHANGED export
          /\ manifest' = manifest \/ (manifest' = ManifestNow /\ (fmt = "direct" => verified))
      BY <2>7 DEF PublishManifest, Publish
    <3>2. CASE manifest' = manifest
      <4>1. manifest.schema \in {1, 3} => Whole(cell', manifest.disc)
        BY <1>0, <2>1 DEF PublishedInv
      <4>2. QED
        BY <1>0, <2>1, <2>2, <2>3, <2>4, <3>1, <3>2, <4>1 DEF PublishedInv
    <3>3. CASE manifest' = ManifestNow /\ (fmt = "direct" => verified)
      <4>1. Schema \in 1..3 /\ (Schema \in {1, 3} => verified)
        BY <1>0, <2>1, <3>3 DEF Schema, ReadInv
      <4>2. /\ manifest'.schema = Schema /\ manifest'.disc = disc /\ manifest'.hash = hash
        BY <3>3 DEF ManifestNow
      <4>3. manifest'.schema \in {1, 3} => Whole(cell', manifest'.disc)
        BY <2>1, <2>5, <4>1, <4>2
      <4>4. manifest'.schema # 0
        BY <4>1, <4>2
      <4>5. export' # Nothing => Whole(export', slot[Best].disc)
        BY <1>0, <3>1 DEF PublishedInv
      <4>6. QED
        BY <2>1, <2>2, <2>3, <2>4, <4>2, <4>3, <4>4, <4>5 DEF PublishedInv
    <3>4. QED  BY <3>1, <3>2, <3>3
  <2>8. QED  BY <1>3, <2>6, <2>7
<1>4. QED  BY <1>1, <1>2, <1>3, MetaFrame

-----------------------------------------------------------------------------
(* What follows for every instance *)

THEOREM OutputInvariance == Spec => []OutInv
<1>1. Init => OutInv
  BY InitOut
<1>2. OutInv /\ [Next]_vars => OutInv'
  <2> SUFFICES ASSUME OutInv, [Next]_vars PROVE OutInv'
    OBVIOUS
  <2>1. IndInv'
    BY IndStep DEF OutInv
  <2>2. QED
    BY <2>1, CleanStep, OrderStep, SavedStep, StartStep, ReadStep, VerifyStep, PublishedStep
    DEF OutInv
<1>3. QED  BY <1>1, <1>2, PTL DEF Spec

(* Between runs check_files admits the newest record: no crash, failed      *)
(* close or torn checkpoint leaves track files that Resume would refuse.    *)
THEOREM AlwaysResumable == Spec => []Resumable
<1>1. OutInv => Resumable
  <2> SUFFICES ASSUME OutInv, pc = "idle", NEW s \in Slots, Newest(slot[s].disc, s),
                      NEW t \in Tracks
               PROVE  SizeAdmitted(slot[s].sectors, t, FALSE)
    BY DEF Resumable
  <2>1. /\ IndInv /\ DataOK /\ SlotInv /\ CleanInv /\ OrderInv
    BY DEF OutInv, IndInv, TypeOK
  <2>2. /\ \A q \in Slots : slot[q].seq \in Nat
        /\ \A u \in Tracks : /\ slot[s].sectors[u] \in Nat /\ size[u] \in -1..MaxLen
                             /\ kept[u] \in Nat /\ Len[u] \in Nat
    BY <2>1, Geometry DEF DataOK, Record, Counts
  <2>3. s = Best
    <3>1. slot[s].seq > 0 /\ \A q \in Slots : slot[q].seq <= slot[s].seq
      BY <2>1, <2>2 DEF Newest, ValidFor, SlotInv
    <3>2. Best \in Slots /\ slot[s].seq <= slot[Best].seq
      BY <2>1, BestIsNewest
    <3>3. slot[Best].seq = slot[s].seq
      BY <2>2, <3>1, <3>2
    <3>4. QED  BY <2>1, <3>1, <3>2, <3>3 DEF SlotInv
  <2>4. \A u \in Tracks : Committed(u) = slot[s].sectors[u]
    BY <2>1, <2>3, BestIsNewest
  <2>5. /\ slot[s].sectors[t] <= kept[t] /\ slot[s].sectors[t] <= Len[t]
    BY <2>1 DEF IndInv, CheckpointSound, SlotInv, Newest, ValidFor
  <2>6. size[t] <= Len[t] /\ kept[t] = Max2(size[t], 0)
    BY <2>1 DEF CleanInv, Clean, Dirty, InLoop, InCk
  <2>7. CASE size[t] = -1
    BY <2>2, <2>5, <2>6, <2>7 DEF SizeAdmitted, Max2
  <2>8. CASE size[t] # -1
    <3>1. \A u \in Tracks : u < t => slot[s].sectors[u] = Len[u]
      BY <2>1, <2>4, <2>8 DEF OrderInv
    <3>2. slot[s].sectors[t] <= size[t]
      BY <2>2, <2>5, <2>6, <2>8 DEF Max2
    <3>3. CASE slot[s].sectors[t] < Len[t]
      BY <2>6, <2>8, <3>1, <3>2, <3>3 DEF FirstPartial, SizeAdmitted
    <3>4. CASE slot[s].sectors[t] = Len[t]
      <4>1. size[t] = slot[s].sectors[t]
        BY <2>2, <2>6, <3>2, <3>4
      <4>2. \A u \in Tracks : u <= t => slot[s].sectors[u] = Len[u]
        BY <3>1, <3>4 DEF Tracks
      <4>3. QED  BY <2>6, <2>8, <3>2, <4>1, <4>2 DEF SizeAdmitted
    <3>5. slot[s].sectors[t] < Len[t] \/ slot[s].sectors[t] = Len[t]
      <4>1. slot[s].sectors[t] \in Nat /\ Len[t] \in Nat
        BY <2>2
      <4>2. QED  BY <2>5, <4>1
    <3>6. QED  BY <3>3, <3>4, <3>5
  <2>9. QED  BY <2>7, <2>8
<1>2. QED  BY <1>1, OutputInvariance, PTL

(* However a run ends, by a Stop at any check, a read error or a refused    *)
(* data form, the newest record covers every sector it wrote, unless a      *)
(* storage operation or that last checkpoint failed (capture.c:801-803):    *)
(* leaving the loop takes a checkpoint whenever the position moved past     *)
(* the last.                                                                *)
THEOREM StopSavesAll == Spec => []StopKeepsPrefix
<1>1. OutInv => StopKeepsPrefix
  <2> SUFFICES ASSUME OutInv, pc = "out", Kept, seq > 0
               PROVE  \E s \in Slots : Newest(disc, s) /\ slot[s].sectors = sectors
    BY DEF StopKeepsPrefix, Kept
  <2>1. DataOK /\ SlotInv /\ SavedTo(pos)
    BY DEF OutInv, IndInv, TypeOK, DataOK, SavedInv
  <2>2. Best \in Slots /\ Newest(disc, Best)
        /\ \A t \in Tracks : slot[Best].sectors[t] = sectors[t]
    BY <2>1, SavedIsBest, BestIsNewest DEF pos
  <2>3. slot[Best].sectors = sectors
    BY <2>1, <2>2 DEF DataOK, Record, Counts
  <2>4. QED  BY <2>2, <2>3
<1>2. QED  BY <1>1, OutputInvariance, PTL

(* A manifest stands over a complete capture of one disc that the newest    *)
(* record repeats, with every track file at its full length.                *)
THEOREM ManifestsComplete == Spec => []ManifestComplete
<1>1. OutInv => ManifestComplete
  <2> SUFFICES ASSUME OutInv, manifest.schema # 0
               PROVE  /\ Whole(manifest.hash, manifest.disc)
                      /\ \E s \in Slots :
                           /\ Newest(manifest.disc, s) /\ slot[s].hash = manifest.hash
                           /\ \A t \in Tracks : slot[s].sectors[t] = Len[t] /\ size[t] = Len[t]
    BY DEF ManifestComplete
  <2>1. /\ IndInv /\ DataOK /\ SlotInv /\ CleanInv /\ CardInv
        /\ manifest.disc = slot[Best].disc /\ manifest.hash = slot[Best].hash
        /\ \A t \in Tracks : Committed(t) = Len[t]
    BY DEF OutInv, IndInv, TypeOK, PublishedInv, Published
  <2>2. /\ Best \in Slots /\ \A s \in Slots : slot[s].seq <= slot[Best].seq
        /\ \A t \in Tracks : slot[Best].sectors[t] = Len[t]
    BY <2>1, BestIsNewest
  <2>3. slot[Best].seq > 0
    <3>1. slot[Best].seq \in Nat /\ 1 \in Tracks /\ slot[Best].sectors[1] # 0
      BY <2>1, <2>2, Geometry DEF DataOK, Record
    <3>2. NoRecord.sectors[1] = 0
      BY <3>1 DEF NoRecord, Zero
    <3>3. QED  BY <2>1, <2>2, <3>1, <3>2 DEF SlotInv
  <2>4. Newest(manifest.disc, Best)
    BY <2>1, <2>2, <2>3 DEF Newest, ValidFor
  <2>5. Whole(manifest.hash, manifest.disc)
    BY <2>1, <2>2, <2>3 DEF IndInv, CheckpointSound, Whole
  <2>6. ASSUME NEW t \in Tracks PROVE size[t] = Len[t]
    <3>1. Len[t] <= kept[t]
      BY <2>1, <2>2, <2>3 DEF IndInv, CheckpointSound
    <3>2. /\ Len[t] \in Nat /\ Len[t] > 0 /\ kept[t] \in Nat /\ size[t] \in Int
      BY <2>1, Geometry DEF DataOK, Counts
    <3>3. kept[t] <= size[t] /\ size[t] <= Len[t]
      BY <2>1, <3>1, <3>2 DEF CardInv, CleanInv
    <3>4. QED  BY <3>1, <3>2, <3>3
  <2>7. QED  BY <2>1, <2>2, <2>4, <2>5, <2>6
<1>2. QED  BY <1>1, OutputInvariance, PTL

(* A manifest that claims saved_data_verified stands over a card that holds *)
(* the disc, even one that stored wrong bytes silently before.              *)
THEOREM ClaimsVerified == Spec => []VerifiedClaim
<1>1. OutInv /\ ManifestComplete => VerifiedClaim
  BY DEF OutInv, PublishedInv, VerifiedClaim, ManifestComplete
<1>2. QED  BY <1>1, OutputInvariance, ManifestsComplete, PTL

(* An export holds verified sectors of the disc the records are of. *)
THEOREM ExportsVerified == Spec => []ExportVerified
<1>1. OutInv => ExportVerified
  <2> SUFFICES ASSUME OutInv, export # Nothing
               PROVE  \E s \in Slots : slot[s].seq > 0 /\ Whole(export, slot[s].disc)
    BY DEF ExportVerified
  <2>1. /\ DataOK /\ SlotInv /\ Whole(export, slot[Best].disc)
        /\ \A t \in Tracks : Committed(t) = Len[t]
    BY DEF OutInv, IndInv, TypeOK, PublishedInv, Published
  <2>2. /\ Best \in Slots /\ slot[Best].seq \in Nat
        /\ \A t \in Tracks : slot[Best].sectors[t] = Len[t]
    BY <2>1, BestIsNewest DEF DataOK, Record
  <2>3. slot[Best].seq > 0
    <3>1. 1 \in Tracks /\ slot[Best].sectors[1] # 0
      BY <2>2, Geometry
    <3>2. NoRecord.sectors[1] = 0
      BY <3>1 DEF NoRecord, Zero
    <3>3. QED  BY <2>1, <2>2, <3>1, <3>2 DEF SlotInv
  <2>4. QED  BY <2>1, <2>2, <2>3
<1>2. QED  BY <1>1, OutputInvariance, PTL

(* "Verify performs no writes": not even a power loss in the middle of it   *)
(* changes the card, because every file was flushed before.                 *)
THEOREM VerifyWritesNothing == Spec => VerifyReadOnly
<1>1. ASSUME OutInv, [Next]_vars
      PROVE  [mode = "verify" /\ pc # "idle" => UNCHANGED card]_vars
  <2> SUFFICES ASSUME mode = "verify", pc # "idle", Next PROVE UNCHANGED card
    BY <1>1
  <2>1. /\ DataOK /\ CardInv /\ CleanInv
        /\ pc \in {"final", "gdi", "output", "manifest", "complete", "check", "out"}
    BY <1>1 DEF OutInv, IndInv, TypeOK, VerifyInv, Quiet, Publishing
  <2>2. CASE Crash
    <3>1. ~Dirty
      BY <2>1 DEF Dirty, InLoop, InCk
    <3>2. UNCHANGED files
      BY <2>1, <2>2, <3>1, CleanLoss DEF Crash
    <3>3. QED  BY <2>1, <2>2, <3>2 DEF Crash, files, meta, card
  <2>3. CASE PublishGdi \/ PublishOutput \/ PublishManifest
    <3>1. ~MayCreate
      BY DEF MayCreate
    <3>2. QED
      BY <2>3, <3>1 DEF PublishGdi, PublishOutput, PublishManifest, Publish, files, card
  <2>4. CASE PrefixCheck \/ EndReadback \/ FinalCheck \/ Finish \/ PressB
    BY <2>4 DEF PrefixCheck, EndReadback, FinalCheck, Finish, PressB, card
  <2>5. QED
    BY <2>1, <2>2, <2>3, <2>4
    DEF Next, New, Resume, Verify, Worker, StartNew, Load, OpenTrack, LoopHead, ReadRaw,
        ReadBegin, WriteChunk, LoopExit, CloseTrack, CkSync, CkOpen, CkWrite, At
<1>2. QED  BY <1>1, OutputInvariance, PTL DEF Spec, VerifyReadOnly
=============================================================================

--------------------------- MODULE VmuStoreProofs ---------------------------
(***************************************************************************)
(* Proofs about VmuStore for every set of blocks and contents and every    *)
(* number of failures.                                                     *)
(***************************************************************************)
EXTENDS VmuStore, TLAPS

USE BlocksAssumption, DataAssumption, FaultsAssumption

-----------------------------------------------------------------------------
(* A card caught between two cards: each sector is of one of them, or torn. *)
LEMMA HalfwayCard ==
  ASSUME NEW a \in Cards, NEW b \in Cards, NEW c \in Halfway(a, b)
  PROVE  /\ c \in Cards
         /\ \A x \in Blocks : c.image[x] \in Half(a.image[x], b.image[x], Torn)
         /\ c.redo \in Half(a.redo, b.redo, Torn)
         /\ c.mark \in Half(a.mark, b.mark, NoMark)
<1>1. PICK f \in Images(a.image, b.image), r \in Half(a.redo, b.redo, Torn),
           k \in Half(a.mark, b.mark, NoMark) : c = [image |-> f, redo |-> r, mark |-> k]
  BY DEF Halfway
<1>2. f \in [Blocks -> Sector] /\ \A x \in Blocks : f[x] \in Half(a.image[x], b.image[x], Torn)
  BY DEF Images
<1>3. a.redo \in Sector /\ b.redo \in Sector /\ r \in Sector
  BY DEF Cards, Half, Sector
<1>4. k \in [block : Blocks, data : Data] \cup {NoMark}
  BY DEF Cards, Half
<1> QED
  BY <1>1, <1>2, <1>3, <1>4 DEF Cards

(* The three single-sector writes *)
LEMMA MarkCard ==
  ASSUME NEW c \in Cards, NEW k \in [block : Blocks, data : Data] \cup {NoMark}
  PROVE  LET d == [c EXCEPT !.mark = k]
         IN  d \in Cards /\ d.mark = k /\ d.image = c.image /\ d.redo = c.redo
BY DEF Cards

LEMMA RedoCard ==
  ASSUME NEW c \in Cards, NEW v \in Sector
  PROVE  LET d == [c EXCEPT !.redo = v]
         IN  d \in Cards /\ d.mark = c.mark /\ d.image = c.image /\ d.redo = v
BY DEF Cards

LEMMA ImageCard ==
  ASSUME NEW c \in Cards, NEW x \in Blocks, NEW v \in Sector
  PROVE  LET d == [c EXCEPT !.image[x] = v]
         IN  /\ d \in Cards /\ d.mark = c.mark /\ d.redo = c.redo
             /\ d.image = [c.image EXCEPT ![x] = v]
BY DEF Cards

-----------------------------------------------------------------------------
(* A formatted card with a cleared journal *)
LEMMA InitInv == Init => IndInv
BY SMTT(60) DEF Init, IndInv, TypeOK, JournalSound, ImageInv, MarkInv, StepInv, WantInv,
   Settled, Op, Cards, Sector, Torn, NoMark, None, Labels, Writing

(* What a write of one sector leaves behind *)
LEMMA PutCard ==
  ASSUME TypeOK, NEW new \in Cards, NEW next, Put(new, next)
  PROVE  /\ cache' \in Cards /\ disk' = disk /\ blk' = blk /\ dat' = dat /\ want' = want
         /\ \A x \in Blocks : cache'.image[x] \in Half(cache.image[x], new.image[x], Torn)
         /\ cache'.redo \in Half(cache.redo, new.redo, Torn)
         /\ cache'.mark \in Half(cache.mark, new.mark, NoMark)
         /\ faults' \in 0..MaxFaults
         /\ \/ cache' = new /\ pc' = next
            \/ pc' = "closed"
<1>1. CASE cache' = new /\ pc' = next /\ NoFault
  BY <1>1 DEF Put, Half, TypeOK, NoFault
<1>2. CASE cache' \in Halfway(cache, new) /\ IoError
  BY <1>2, HalfwayCard DEF Put, TypeOK, IoError, Fault
<1> QED BY <1>1, <1>2 DEF Put

(* The same for a sync *)
LEMMA FlushedCard ==
  ASSUME TypeOK, NEW next, Flushed(next)
  PROVE  /\ disk' \in Cards /\ cache' = cache /\ blk' = blk /\ dat' = dat /\ Durable
         /\ \A x \in Blocks : disk'.image[x] \in Half(disk.image[x], cache.image[x], Torn)
         /\ disk'.redo \in Half(disk.redo, cache.redo, Torn)
         /\ disk'.mark \in Half(disk.mark, cache.mark, NoMark)
         /\ faults' \in 0..MaxFaults
         /\ \/ disk' = cache /\ pc' = next
            \/ pc' = "closed"
<1>1. CASE disk' = cache /\ pc' = next /\ NoFault
  BY <1>1 DEF Flushed, Half, TypeOK, NoFault
<1>2. CASE disk' \in Halfway(disk, cache) /\ IoError
  BY <1>2, HalfwayCard DEF Flushed, TypeOK, IoError, Fault
<1> QED BY <1>1, <1>2 DEF Flushed

(* Types of the parts of a card *)
LEMMA CardFields ==
  ASSUME NEW c \in Cards
  PROVE  /\ c.image \in [Blocks -> Sector] /\ c.redo \in Sector
         /\ c.mark # NoMark => c.mark.block \in Blocks /\ c.mark.data \in Data
         /\ c.mark = NoMark => c.mark.block = 0
BY DEF Cards, NoMark

(* A valid marker is never taken for a cleared one *)
LEMMA MarkFields ==
  /\ 0 \notin Blocks /\ Torn \notin Data
  /\ \A b \in Blocks, v \in Data : [block |-> b, data |-> v] # NoMark
BY DEF NoMark, Torn

(* A sync that fails, wherever it fails, leaves a card that can be opened. *)
LEMMA FailedSync ==
  ASSUME IndInv, cache' = cache, disk' \in Cards, Durable, pc' = "closed",
         blk' = blk, dat' = dat, faults' \in 0..MaxFaults,
         \A x \in Blocks : disk'.image[x] \in Half(disk.image[x], cache.image[x], Torn),
         disk'.redo \in Half(disk.redo, cache.redo, Torn),
         disk'.mark \in Half(disk.mark, cache.mark, NoMark)
  PROVE  IndInv'
<1>1. cache \in Cards /\ disk \in Cards
  BY DEF IndInv, TypeOK
<1>2. TypeOK'
  BY DEF IndInv, TypeOK, Durable, Labels
<1>3. disk.mark # NoMark \/ cache.mark # NoMark => disk'.redo = disk.redo /\ disk'.redo = cache.redo
  BY DEF IndInv, MarkInv, Half
<1>4. disk'.mark = disk.mark \/ disk'.mark = cache.mark
  BY DEF IndInv, MarkInv, Half
<1>5. JournalSound'
  BY <1>3, <1>4 DEF IndInv, JournalSound
<1>6. cache.mark = NoMark \/ disk.mark = NoMark =>
        \A x \in Blocks : disk'.image[x] = disk.image[x]
  BY DEF IndInv, MarkInv, Settled, Half
<1>7. cache.mark # NoMark /\ disk.mark # NoMark => disk'.mark = disk.mark /\ cache.mark = disk.mark
  BY DEF IndInv, MarkInv, Half
<1>8. ImageInv'
  BY <1>6, <1>7 DEF IndInv, ImageInv, MarkInv, Settled, Half
<1>9. MarkInv'
  BY <1>1, <1>3, <1>4, <1>6, <1>7, CardFields DEF IndInv, MarkInv, Settled
<1>10. StepInv'
  BY DEF StepInv
<1>11. WantInv'
  BY <1>4 DEF IndInv, WantInv, Durable, Writing
<1> QED BY <1>2, <1>5, <1>8, <1>9, <1>10, <1>11 DEF IndInv

(* A sync that succeeds makes what reads return durable. *)
LEMMA DoneSync ==
  ASSUME IndInv, cache' = cache, disk' = cache, pc' \in Labels \ {"corrupt"},
         want' \in {want, None}, blk' = blk, dat' = dat, faults' \in 0..MaxFaults
  PROVE  TypeOK' /\ JournalSound' /\ ImageInv' /\ MarkInv'
<1>1. cache \in Cards /\ disk \in Cards
  BY DEF IndInv, TypeOK
<1>2. TypeOK'
  BY DEF IndInv, TypeOK
<1>3. JournalSound'
  BY DEF IndInv, JournalSound
<1>4. ImageInv'
  BY DEF IndInv, ImageInv, MarkInv, Settled
<1>5. MarkInv'
  BY <1>1, CardFields, MarkFields DEF IndInv, MarkInv, Settled
<1> QED BY <1>2, <1>3, <1>4, <1>5

(* The syncs keep the invariant, done or failed *)
LEMMA RecoverSyncStep == IndInv /\ RecoverSync => IndInv'
<1> SUFFICES ASSUME IndInv, RecoverSync PROVE IndInv'
  OBVIOUS
<1>1. TypeOK /\ cache \in Cards /\ disk \in Cards /\ Flushed("recput")
  BY DEF IndInv, TypeOK, RecoverSync
<1>2. CASE pc' = "closed"
  BY <1>1, <1>2, FlushedCard, FailedSync
<1>3. CASE disk' = cache /\ pc' = "recput"
  <2>1. cache' = cache /\ blk' = blk /\ dat' = dat /\ Durable /\ faults' \in 0..MaxFaults
    BY <1>1, FlushedCard
  <2>2. TypeOK' /\ JournalSound' /\ ImageInv' /\ MarkInv'
    BY <1>3, <2>1, DoneSync DEF Durable, Labels, Writing
  <2>3. StepInv'
    BY <1>1, <1>3, <2>1, CardFields, MarkFields DEF RecoverSync, IndInv, ImageInv,
       MarkInv, StepInv, Settled, Op, JournalSound
  <2>4. WantInv'
    BY <1>1, <1>3, <2>1, CardFields, MarkFields DEF RecoverSync, IndInv, StepInv,
       WantInv, Durable, Writing, Op
  <2> QED BY <2>2, <2>3, <2>4 DEF IndInv
<1> QED BY <1>1, <1>2, <1>3, FlushedCard

LEMMA ClearSyncStep == IndInv /\ ClearSync => IndInv'
<1> SUFFICES ASSUME IndInv, ClearSync PROVE IndInv'
  OBVIOUS
<1>1. TypeOK /\ cache \in Cards /\ disk \in Cards /\ Flushed("redo")
  BY DEF IndInv, TypeOK, ClearSync
<1>2. CASE pc' = "closed"
  BY <1>1, <1>2, FlushedCard, FailedSync
<1>3. CASE disk' = cache /\ pc' = "redo"
  <2>1. cache' = cache /\ blk' = blk /\ dat' = dat /\ Durable /\ faults' \in 0..MaxFaults
    BY <1>1, FlushedCard
  <2>2. TypeOK' /\ JournalSound' /\ ImageInv' /\ MarkInv'
    BY <1>3, <2>1, DoneSync DEF Durable, Labels, Writing
  <2>3. StepInv'
    BY <1>1, <1>3, <2>1, CardFields, MarkFields DEF ClearSync, IndInv, ImageInv,
       MarkInv, StepInv, Settled, Op, JournalSound
  <2>4. WantInv'
    BY <1>1, <1>3, <2>1, CardFields, MarkFields DEF ClearSync, IndInv, StepInv,
       WantInv, Durable, Writing, Op
  <2> QED BY <2>2, <2>3, <2>4 DEF IndInv
<1> QED BY <1>1, <1>2, <1>3, FlushedCard

LEMMA RedoSyncStep == IndInv /\ RedoSync => IndInv'
<1> SUFFICES ASSUME IndInv, RedoSync PROVE IndInv'
  OBVIOUS
<1>1. TypeOK /\ cache \in Cards /\ disk \in Cards /\ Flushed("mark")
  BY DEF IndInv, TypeOK, RedoSync
<1>2. CASE pc' = "closed"
  BY <1>1, <1>2, FlushedCard, FailedSync
<1>3. CASE disk' = cache /\ pc' = "mark"
  <2>1. cache' = cache /\ blk' = blk /\ dat' = dat /\ Durable /\ faults' \in 0..MaxFaults
    BY <1>1, FlushedCard
  <2>2. TypeOK' /\ JournalSound' /\ ImageInv' /\ MarkInv'
    BY <1>3, <2>1, DoneSync DEF Durable, Labels, Writing
  <2>3. StepInv'
    BY <1>1, <1>3, <2>1, CardFields, MarkFields DEF RedoSync, IndInv, ImageInv,
       MarkInv, StepInv, Settled, Op, JournalSound
  <2>4. WantInv'
    BY <1>1, <1>3, <2>1, CardFields, MarkFields DEF RedoSync, IndInv, StepInv,
       WantInv, Durable, Writing, Op
  <2> QED BY <2>2, <2>3, <2>4 DEF IndInv
<1> QED BY <1>1, <1>2, <1>3, FlushedCard

LEMMA MarkSyncStep == IndInv /\ MarkSync => IndInv'
<1> SUFFICES ASSUME IndInv, MarkSync PROVE IndInv'
  OBVIOUS
<1>1. TypeOK /\ cache \in Cards /\ disk \in Cards /\ Flushed("put")
  BY DEF IndInv, TypeOK, MarkSync
<1>2. CASE pc' = "closed"
  BY <1>1, <1>2, FlushedCard, FailedSync
<1>3. CASE disk' = cache /\ pc' = "put"
  <2>1. cache' = cache /\ blk' = blk /\ dat' = dat /\ Durable /\ faults' \in 0..MaxFaults
    BY <1>1, FlushedCard
  <2>2. TypeOK' /\ JournalSound' /\ ImageInv' /\ MarkInv'
    BY <1>3, <2>1, DoneSync DEF Durable, Labels, Writing
  <2>3. StepInv'
    BY <1>1, <1>3, <2>1, CardFields, MarkFields DEF MarkSync, IndInv, ImageInv,
       MarkInv, StepInv, Settled, Op, JournalSound
  <2>4. WantInv'
    BY <1>1, <1>3, <2>1, CardFields, MarkFields DEF MarkSync, IndInv, StepInv,
       WantInv, Durable, Writing, Op
  <2> QED BY <2>2, <2>3, <2>4 DEF IndInv
<1> QED BY <1>1, <1>2, <1>3, FlushedCard

LEMMA PutSyncStep == IndInv /\ PutSync => IndInv'
<1> SUFFICES ASSUME IndInv, PutSync PROVE IndInv'
  OBVIOUS
<1>1. TypeOK /\ cache \in Cards /\ disk \in Cards /\ Flushed("idle")
  BY DEF IndInv, TypeOK, PutSync
<1>2. CASE pc' = "closed"
  BY <1>1, <1>2, FlushedCard, FailedSync
<1>3. CASE disk' = cache /\ pc' = "idle"
  <2>1. cache' = cache /\ blk' = blk /\ dat' = dat /\ Durable /\ faults' \in 0..MaxFaults
    BY <1>1, FlushedCard
  <2>2. TypeOK' /\ JournalSound' /\ ImageInv' /\ MarkInv'
    BY <1>3, <2>1, DoneSync DEF Durable, Labels, Writing
  <2>3. StepInv'
    BY <1>1, <1>3, <2>1, CardFields, MarkFields DEF PutSync, IndInv, ImageInv,
       MarkInv, StepInv, Settled, Op, JournalSound
  <2>4. WantInv'
    BY <1>1, <1>3, <2>1, CardFields, MarkFields DEF PutSync, IndInv, StepInv,
       WantInv, Durable, Writing, Op
  <2> QED BY <2>2, <2>3, <2>4 DEF IndInv
<1> QED BY <1>1, <1>2, <1>3, FlushedCard

LEMMA SyncStep == IndInv /\ Sync => IndInv'
<1> SUFFICES ASSUME IndInv, Sync PROVE IndInv'
  OBVIOUS
<1>1. TypeOK /\ cache \in Cards /\ disk \in Cards /\ Flushed("idle")
  BY DEF IndInv, TypeOK, Sync
<1>2. CASE pc' = "closed"
  BY <1>1, <1>2, FlushedCard, FailedSync
<1>3. CASE disk' = cache /\ pc' = "idle"
  <2>1. cache' = cache /\ blk' = blk /\ dat' = dat /\ Durable /\ faults' \in 0..MaxFaults
    BY <1>1, FlushedCard
  <2>2. TypeOK' /\ JournalSound' /\ ImageInv' /\ MarkInv'
    BY <1>3, <2>1, DoneSync DEF Durable, Labels, Writing
  <2>3. StepInv'
    BY <1>1, <1>3, <2>1, CardFields, MarkFields DEF Sync, IndInv, ImageInv, MarkInv,
       StepInv, Settled, Op, JournalSound
  <2>4. WantInv'
    BY <1>1, <1>3, <2>1, CardFields, MarkFields DEF Sync, IndInv, StepInv, WantInv,
       Durable, Writing, Op
  <2> QED BY <2>2, <2>3, <2>4 DEF IndInv
<1> QED BY <1>1, <1>2, <1>3, FlushedCard

LEMMA CheckpointStep == IndInv /\ Checkpoint => IndInv'
<1> SUFFICES ASSUME IndInv, Checkpoint PROVE IndInv'
  OBVIOUS
<1>1. TypeOK /\ cache \in Cards /\ disk \in Cards /\ Flushed("ckclear")
  BY DEF IndInv, TypeOK, Checkpoint
<1>2. CASE pc' = "closed"
  BY <1>1, <1>2, FlushedCard, FailedSync
<1>3. CASE disk' = cache /\ pc' = "ckclear"
  <2>1. cache' = cache /\ blk' = blk /\ dat' = dat /\ Durable /\ faults' \in 0..MaxFaults
    BY <1>1, FlushedCard
  <2>2. TypeOK' /\ JournalSound' /\ ImageInv' /\ MarkInv'
    BY <1>3, <2>1, DoneSync DEF Durable, Labels, Writing
  <2>3. StepInv'
    BY <1>1, <1>3, <2>1, CardFields, MarkFields DEF Checkpoint, IndInv, ImageInv,
       MarkInv, StepInv, Settled, Op, JournalSound
  <2>4. WantInv'
    BY <1>1, <1>3, <2>1, CardFields, MarkFields DEF Checkpoint, IndInv, StepInv,
       WantInv, Durable, Writing, Op
  <2> QED BY <2>2, <2>3, <2>4 DEF IndInv
<1> QED BY <1>1, <1>2, <1>3, FlushedCard

LEMMA CkSyncStep == IndInv /\ CkSync => IndInv'
<1> SUFFICES ASSUME IndInv, CkSync PROVE IndInv'
  OBVIOUS
<1>1. TypeOK /\ cache \in Cards /\ disk \in Cards /\ Flushed("idle")
  BY DEF IndInv, TypeOK, CkSync
<1>2. CASE pc' = "closed"
  BY <1>1, <1>2, FlushedCard, FailedSync
<1>3. CASE disk' = cache /\ pc' = "idle"
  <2>1. cache' = cache /\ blk' = blk /\ dat' = dat /\ Durable /\ faults' \in 0..MaxFaults
    BY <1>1, FlushedCard
  <2>2. TypeOK' /\ JournalSound' /\ ImageInv' /\ MarkInv'
    BY <1>3, <2>1, DoneSync DEF Durable, Labels, Writing
  <2>3. StepInv'
    BY <1>1, <1>3, <2>1, CardFields, MarkFields DEF CkSync, IndInv, ImageInv,
       MarkInv, StepInv, Settled, Op, JournalSound
  <2>4. WantInv'
    BY <1>1, <1>3, <2>1, CardFields, MarkFields DEF CkSync, IndInv, StepInv,
       WantInv, Durable, Writing, Op
  <2> QED BY <2>2, <2>3, <2>4 DEF IndInv
<1> QED BY <1>1, <1>2, <1>3, FlushedCard

(* The writes of one sector *)
LEMMA ClearStep == IndInv /\ Clear => IndInv'
<1> SUFFICES ASSUME IndInv, Clear PROVE IndInv'
  OBVIOUS
<1> DEFINE new == [cache EXCEPT !.mark = NoMark]
<1>1. TypeOK /\ cache \in Cards /\ disk \in Cards /\ Put(new, "clearsync")
  BY DEF IndInv, TypeOK, Clear
<1>2. blk \in Blocks /\ dat \in Data
  BY <1>1, CardFields, MarkFields DEF Clear, IndInv, TypeOK, WantInv, StepInv, Op,
     Writing, Cards, NoMark
<1>3. new \in Cards /\ new.image = cache.image /\ new.redo = cache.redo /\ new.mark = NoMark
  BY <1>1, <1>2, MarkCard DEF Sector, Op
<1> HIDE DEF new
<1>4. /\ cache' \in Cards /\ disk' = disk /\ blk' = blk /\ dat' = dat /\ want' = want
      /\ faults' \in 0..MaxFaults
      /\ (cache' = new /\ pc' = "clearsync") \/ pc' = "closed"
  BY <1>1, <1>3, PutCard
<1>5. /\ cache'.redo = cache.redo /\ cache'.mark \in {cache.mark, NoMark}
      /\ cache'.image = cache.image
  <2>1. /\ \A x \in Blocks : cache'.image[x] \in Half(cache.image[x], new.image[x], Torn)
        /\ cache'.redo \in Half(cache.redo, new.redo, Torn)
        /\ cache'.mark \in Half(cache.mark, new.mark, NoMark)
    BY <1>1, <1>3, PutCard
  <2> QED
    BY <1>1, <1>2, <1>3, <1>4, <2>1, CardFields DEF Clear, Half, IndInv, StepInv
<1>6. TypeOK'
  BY <1>1, <1>4 DEF TypeOK, Labels, Writing
<1>7. JournalSound'
  BY <1>4, <1>5 DEF Clear, IndInv, JournalSound, StepInv, Op
<1>8. ImageInv'
  BY <1>1, <1>4, <1>5, CardFields, MarkFields DEF Clear, IndInv, ImageInv, StepInv, Op
<1>9. MarkInv'
  BY <1>1, <1>2, <1>4, <1>5, CardFields, MarkFields DEF Clear, IndInv, MarkInv,
     StepInv, Settled, Op
<1>10. StepInv'
  BY <1>1, <1>2, <1>3, <1>4, <1>5, CardFields DEF Clear, IndInv, StepInv, Op
<1>11. WantInv'
  BY <1>4, <1>5 DEF Clear, IndInv, WantInv, StepInv, Writing, Op
<1> QED BY <1>6, <1>7, <1>8, <1>9, <1>10, <1>11 DEF IndInv

LEMMA CkClearStep == IndInv /\ CkClear => IndInv'
<1> SUFFICES ASSUME IndInv, CkClear PROVE IndInv'
  OBVIOUS
<1> DEFINE new == [cache EXCEPT !.mark = NoMark]
<1>1. TypeOK /\ cache \in Cards /\ disk \in Cards /\ Put(new, "cksync")
  BY DEF IndInv, TypeOK, CkClear
<1>2. pc = "ckclear"
  BY DEF CkClear
<1>3. new \in Cards /\ new.image = cache.image /\ new.redo = cache.redo /\ new.mark = NoMark
  BY <1>1, <1>2, MarkCard DEF Sector, Op
<1> HIDE DEF new
<1>4. /\ cache' \in Cards /\ disk' = disk /\ blk' = blk /\ dat' = dat /\ want' = want
      /\ faults' \in 0..MaxFaults
      /\ (cache' = new /\ pc' = "cksync") \/ pc' = "closed"
  BY <1>1, <1>3, PutCard
<1>5. /\ cache'.redo = cache.redo /\ cache'.mark \in {cache.mark, NoMark}
      /\ cache'.image = cache.image
  <2>1. /\ \A x \in Blocks : cache'.image[x] \in Half(cache.image[x], new.image[x], Torn)
        /\ cache'.redo \in Half(cache.redo, new.redo, Torn)
        /\ cache'.mark \in Half(cache.mark, new.mark, NoMark)
    BY <1>1, <1>3, PutCard
  <2> QED
    BY <1>1, <1>2, <1>3, <1>4, <2>1, CardFields DEF CkClear, Half, IndInv, StepInv
<1>6. TypeOK'
  BY <1>1, <1>4 DEF TypeOK, Labels, Writing
<1>7. JournalSound'
  BY <1>4, <1>5 DEF CkClear, IndInv, JournalSound, StepInv, Op
<1>8. ImageInv'
  BY <1>1, <1>4, <1>5, CardFields, MarkFields DEF CkClear, IndInv, ImageInv, StepInv, Op
<1>9. MarkInv'
  BY <1>1, <1>2, <1>4, <1>5, CardFields, MarkFields DEF CkClear, IndInv, MarkInv,
     StepInv, Settled, Op
<1>10. StepInv'
  BY <1>1, <1>2, <1>3, <1>4, <1>5, CardFields DEF CkClear, IndInv, StepInv, Op
<1>11. WantInv'
  BY <1>4, <1>5 DEF CkClear, IndInv, WantInv, StepInv, Writing, Op
<1> QED BY <1>6, <1>7, <1>8, <1>9, <1>10, <1>11 DEF IndInv

LEMMA RedoStep == IndInv /\ Redo => IndInv'
<1> SUFFICES ASSUME IndInv, Redo PROVE IndInv'
  OBVIOUS
<1> DEFINE new == [cache EXCEPT !.redo = dat]
<1>1. TypeOK /\ cache \in Cards /\ disk \in Cards /\ Put(new, "redosync")
  BY DEF IndInv, TypeOK, Redo
<1>2. blk \in Blocks /\ dat \in Data
  BY <1>1, CardFields, MarkFields DEF Redo, IndInv, TypeOK, WantInv, StepInv, Op,
     Writing, Cards, NoMark
<1>3. new \in Cards /\ new.image = cache.image /\ new.redo = dat /\ new.mark = cache.mark
  BY <1>1, <1>2, RedoCard DEF Sector, Op
<1> HIDE DEF new
<1>4. /\ cache' \in Cards /\ disk' = disk /\ blk' = blk /\ dat' = dat /\ want' = want
      /\ faults' \in 0..MaxFaults
      /\ (cache' = new /\ pc' = "redosync") \/ pc' = "closed"
  BY <1>1, <1>3, PutCard
<1>5. /\ cache'.mark = NoMark
      /\ cache'.image = cache.image
  <2>1. /\ \A x \in Blocks : cache'.image[x] \in Half(cache.image[x], new.image[x], Torn)
        /\ cache'.redo \in Half(cache.redo, new.redo, Torn)
        /\ cache'.mark \in Half(cache.mark, new.mark, NoMark)
    BY <1>1, <1>3, PutCard
  <2> QED
    BY <1>1, <1>2, <1>3, <1>4, <2>1, CardFields DEF Redo, Half, IndInv, StepInv
<1>6. TypeOK'
  BY <1>1, <1>4 DEF TypeOK, Labels, Writing
<1>7. JournalSound'
  BY <1>4, <1>5 DEF Redo, IndInv, JournalSound, StepInv, Op
<1>8. ImageInv'
  BY <1>1, <1>4, <1>5, CardFields, MarkFields DEF Redo, IndInv, ImageInv, StepInv, Op
<1>9. MarkInv'
  BY <1>1, <1>2, <1>4, <1>5, CardFields, MarkFields DEF Redo, IndInv, MarkInv,
     StepInv, Settled, Op
<1>10. StepInv'
  BY <1>1, <1>2, <1>3, <1>4, <1>5, CardFields DEF Redo, IndInv, StepInv, Op
<1>11. WantInv'
  BY <1>4, <1>5 DEF Redo, IndInv, WantInv, StepInv, Writing, Op
<1> QED BY <1>6, <1>7, <1>8, <1>9, <1>10, <1>11 DEF IndInv

LEMMA MarkStep == IndInv /\ Mark => IndInv'
<1> SUFFICES ASSUME IndInv, Mark PROVE IndInv'
  OBVIOUS
<1> DEFINE new == [cache EXCEPT !.mark = [block |-> blk, data |-> dat]]
<1>1. TypeOK /\ cache \in Cards /\ disk \in Cards /\ Put(new, "marksync")
  BY DEF IndInv, TypeOK, Mark
<1>2. blk \in Blocks /\ dat \in Data
  BY <1>1, CardFields, MarkFields DEF Mark, IndInv, TypeOK, WantInv, StepInv, Op,
     Writing, Cards, NoMark
<1>3. new \in Cards /\ new.image = cache.image /\ new.redo = cache.redo /\ new.mark = Op
  BY <1>1, <1>2, MarkCard DEF Sector, Op
<1> HIDE DEF new
<1>4. /\ cache' \in Cards /\ disk' = disk /\ blk' = blk /\ dat' = dat /\ want' = want
      /\ faults' \in 0..MaxFaults
      /\ (cache' = new /\ pc' = "marksync") \/ pc' = "closed"
  BY <1>1, <1>3, PutCard
<1>5. /\ cache'.redo = dat /\ cache'.mark \in {NoMark, Op}
      /\ cache'.image = cache.image
  <2>1. /\ \A x \in Blocks : cache'.image[x] \in Half(cache.image[x], new.image[x], Torn)
        /\ cache'.redo \in Half(cache.redo, new.redo, Torn)
        /\ cache'.mark \in Half(cache.mark, new.mark, NoMark)
    BY <1>1, <1>3, PutCard
  <2> QED
    BY <1>1, <1>2, <1>3, <1>4, <2>1, CardFields DEF Mark, Half, IndInv, StepInv
<1>6. TypeOK'
  BY <1>1, <1>4 DEF TypeOK, Labels, Writing
<1>7. JournalSound'
  BY <1>4, <1>5 DEF Mark, IndInv, JournalSound, StepInv, Op
<1>8. ImageInv'
  BY <1>1, <1>4, <1>5, CardFields, MarkFields DEF Mark, IndInv, ImageInv, StepInv, Op
<1>9. MarkInv'
  BY <1>1, <1>2, <1>4, <1>5, CardFields, MarkFields DEF Mark, IndInv, MarkInv,
     StepInv, Settled, Op
<1>10. StepInv'
  BY <1>1, <1>2, <1>3, <1>4, <1>5, CardFields DEF Mark, IndInv, StepInv, Op
<1>11. WantInv'
  BY <1>4, <1>5 DEF Mark, IndInv, WantInv, StepInv, Writing, Op
<1> QED BY <1>6, <1>7, <1>8, <1>9, <1>10, <1>11 DEF IndInv

LEMMA PutBlockStep == IndInv /\ PutBlock => IndInv'
<1> SUFFICES ASSUME IndInv, PutBlock PROVE IndInv'
  OBVIOUS
<1> DEFINE new == [cache EXCEPT !.image[blk] = dat]
<1>1. TypeOK /\ cache \in Cards /\ disk \in Cards /\ Put(new, "putsync")
  BY DEF IndInv, TypeOK, PutBlock
<1>2. blk \in Blocks /\ dat \in Data
  BY <1>1, CardFields, MarkFields DEF PutBlock, IndInv, TypeOK, WantInv, StepInv,
     Op, Writing, Cards, NoMark
<1>3. new \in Cards /\ new.image = [cache.image EXCEPT ![blk] = dat] /\ new.redo = cache.redo /\ new.mark = cache.mark
  BY <1>1, <1>2, ImageCard DEF Sector, Op
<1> HIDE DEF new
<1>4. /\ cache' \in Cards /\ disk' = disk /\ blk' = blk /\ dat' = dat /\ want' = want
      /\ faults' \in 0..MaxFaults
      /\ (cache' = new /\ pc' = "putsync") \/ pc' = "closed"
  BY <1>1, <1>3, PutCard
<1>5. /\ cache'.redo = cache.redo /\ cache'.mark = Op
      /\ \A x \in Blocks : x # blk => cache'.image[x] = cache.image[x]
  <2>1. /\ \A x \in Blocks : cache'.image[x] \in Half(cache.image[x], new.image[x], Torn)
        /\ cache'.redo \in Half(cache.redo, new.redo, Torn)
        /\ cache'.mark \in Half(cache.mark, new.mark, NoMark)
    BY <1>1, <1>3, PutCard
  <2> QED
    BY <1>1, <1>2, <1>3, <1>4, <2>1, CardFields DEF PutBlock, Half, IndInv, StepInv
<1>6. TypeOK'
  BY <1>1, <1>4 DEF TypeOK, Labels, Writing
<1>7. JournalSound'
  BY <1>4, <1>5 DEF PutBlock, IndInv, JournalSound, StepInv, Op
<1>8. ImageInv'
  BY <1>1, <1>4, <1>5, CardFields, MarkFields DEF PutBlock, IndInv, ImageInv,
     StepInv, Op
<1>9. MarkInv'
  BY <1>1, <1>2, <1>4, <1>5, CardFields, MarkFields DEF PutBlock, IndInv, MarkInv,
     StepInv, Settled, Op
<1>10. StepInv'
  BY <1>1, <1>2, <1>3, <1>4, <1>5, CardFields DEF PutBlock, IndInv, StepInv, Op
<1>11. WantInv'
  BY <1>4, <1>5 DEF PutBlock, IndInv, WantInv, StepInv, Writing, Op
<1> QED BY <1>6, <1>7, <1>8, <1>9, <1>10, <1>11 DEF IndInv

LEMMA RecoverPutStep == IndInv /\ RecoverPut => IndInv'
<1> SUFFICES ASSUME IndInv, RecoverPut PROVE IndInv'
  OBVIOUS
<1> DEFINE new == [cache EXCEPT !.image[blk] = dat]
<1>1. TypeOK /\ cache \in Cards /\ disk \in Cards /\ Put(new, "recdone")
  BY DEF IndInv, TypeOK, RecoverPut
<1>2. blk \in Blocks /\ dat \in Data
  <2>1. cache.mark.block = blk /\ cache.mark.data = dat /\ dat \in Data \cup {0}
    BY DEF RecoverPut, IndInv, TypeOK, StepInv, Op
  <2>2. dat # Torn /\ NoMark.data = Torn
    BY <2>1 DEF Torn, NoMark
  <2> QED BY <1>1, <2>1, <2>2, CardFields
<1>3. new \in Cards /\ new.image = [cache.image EXCEPT ![blk] = dat] /\ new.redo = cache.redo /\ new.mark = cache.mark
  BY <1>1, <1>2, ImageCard DEF Sector, Op
<1> HIDE DEF new
<1>4. /\ cache' \in Cards /\ disk' = disk /\ blk' = blk /\ dat' = dat /\ want' = want
      /\ faults' \in 0..MaxFaults
      /\ (cache' = new /\ pc' = "recdone") \/ pc' = "closed"
  BY <1>1, <1>3, PutCard
<1>5. /\ cache'.redo = cache.redo /\ cache'.mark = Op
      /\ \A x \in Blocks : x # blk => cache'.image[x] = cache.image[x]
  <2>1. /\ \A x \in Blocks : cache'.image[x] \in Half(cache.image[x], new.image[x], Torn)
        /\ cache'.redo \in Half(cache.redo, new.redo, Torn)
        /\ cache'.mark \in Half(cache.mark, new.mark, NoMark)
    BY <1>1, <1>3, PutCard
  <2> QED
    BY <1>1, <1>2, <1>3, <1>4, <2>1, CardFields DEF RecoverPut, Half, IndInv, StepInv
<1>6. TypeOK'
  BY <1>1, <1>4 DEF TypeOK, Labels, Writing
<1>7. JournalSound'
  BY <1>4, <1>5 DEF RecoverPut, IndInv, JournalSound, StepInv, Op
<1>8. ImageInv'
  BY <1>1, <1>4, <1>5, CardFields, MarkFields DEF RecoverPut, IndInv, ImageInv,
     StepInv, Op
<1>9. MarkInv'
  BY <1>1, <1>2, <1>4, <1>5, CardFields, MarkFields DEF RecoverPut, IndInv, MarkInv,
     StepInv, Settled, Op
<1>10. StepInv'
  BY <1>1, <1>2, <1>3, <1>4, <1>5, CardFields DEF RecoverPut, IndInv, StepInv, Op
<1>11. WantInv'
  BY <1>4, <1>5 DEF RecoverPut, IndInv, WantInv, StepInv, Writing, Op
<1> QED BY <1>6, <1>7, <1>8, <1>9, <1>10, <1>11 DEF IndInv

(* The other steps *)
LEMMA RecoverDoneStep == IndInv /\ RecoverDone => IndInv'
<1> SUFFICES ASSUME IndInv, RecoverDone PROVE IndInv'
  OBVIOUS
<1>1. cache \in Cards /\ disk \in Cards /\ cache' = cache /\ blk' = blk /\ dat' = dat
      /\ cache.mark = disk.mark /\ cache.mark = Op /\ cache.image[blk] = dat
  BY DEF IndInv, TypeOK, StepInv, RecoverDone
<1>2. CASE disk' = cache /\ pc' = "idle" /\ NoFault /\ want' = None
  <2>1. TypeOK' /\ JournalSound' /\ ImageInv' /\ MarkInv'
    BY <1>1, <1>2, DoneSync DEF IndInv, TypeOK, NoFault, Labels, Writing
  <2>2. cache.mark # NoMark
    BY <1>1 DEF IndInv, TypeOK, Op, NoMark, Torn
  <2>3. StepInv'
    BY <1>1, <1>2, <2>2, CardFields DEF IndInv, ImageInv, StepInv, Settled, Op
  <2>4. WantInv'
    BY <1>1, <1>2 DEF WantInv, Writing
  <2> QED BY <2>1, <2>3, <2>4 DEF IndInv
<1>3. CASE disk' \in Halfway(disk, cache) /\ IoError /\ UNCHANGED want
  <2>1. disk' \in Cards
        /\ (\A x \in Blocks : disk'.image[x] \in Half(disk.image[x], cache.image[x], Torn))
        /\ disk'.redo \in Half(disk.redo, cache.redo, Torn)
        /\ disk'.mark \in Half(disk.mark, cache.mark, NoMark)
    BY <1>1, <1>3, HalfwayCard
  <2>2. Durable
    BY <1>1, <1>3, <2>1 DEF Durable, Half
  <2> QED
    BY <1>1, <1>3, <2>1, <2>2, FailedSync DEF IoError, Fault, IndInv, TypeOK
<1> QED BY <1>2, <1>3 DEF RecoverDone

LEMMA OpenStep == IndInv /\ Open => IndInv'
<1> SUFFICES ASSUME IndInv, Open PROVE IndInv'
  OBVIOUS
<1>1. cache \in Cards /\ disk \in Cards /\ cache' = cache /\ disk' = disk
  BY DEF IndInv, TypeOK, Open
<1>2. JournalSound' /\ ImageInv' /\ MarkInv'
  BY <1>1 DEF IndInv, JournalSound, ImageInv, MarkInv, Settled, Open, IoError, Replay
<1>3. TypeOK'
  BY <1>1, CardFields DEF IndInv, TypeOK, JournalSound, Open, IoError, Replay,
     Fault, NoFault, Labels
<1>4. StepInv'
  BY <1>1 DEF IndInv, StepInv, MarkInv, JournalSound, Settled, Op, Open, IoError,
     Replay, Cards, NoMark
<1>5. WantInv'
  BY <1>1 DEF IndInv, WantInv, Open, IoError, Replay, Writing
<1> QED BY <1>2, <1>3, <1>4, <1>5 DEF IndInv

LEMMA WriteStep == ASSUME NEW b \in Blocks, NEW v \in Data PROVE IndInv /\ Write(b, v) => IndInv'
<1> SUFFICES ASSUME IndInv, Write(b, v) PROVE IndInv'
  OBVIOUS
<1>1. TypeOK'
  BY DEF IndInv, TypeOK, Write, NoFault, Labels, Writing
<1>2. JournalSound' /\ ImageInv' /\ MarkInv'
  BY DEF IndInv, JournalSound, ImageInv, MarkInv, Settled, Write
<1>3. StepInv'
  BY DEF IndInv, StepInv, Settled, Write
<1>4. WantInv'
  <2>1. cache.mark # NoMark => disk.mark # NoMark
    BY DEF IndInv, StepInv, Write
  <2> QED BY <2>1 DEF WantInv, Op, Write
<1> QED BY <1>1, <1>2, <1>3, <1>4 DEF IndInv

LEMMA ReadFailsStep == IndInv /\ ReadFails => IndInv'
<1> SUFFICES ASSUME IndInv, ReadFails PROVE IndInv'
  OBVIOUS
<1>1. TypeOK'
  BY DEF IndInv, TypeOK, ReadFails, IoError, Fault, Labels
<1>2. JournalSound' /\ ImageInv' /\ MarkInv' /\ StepInv' /\ WantInv'
  BY DEF IndInv, JournalSound, ImageInv, MarkInv, StepInv, WantInv, Settled,
     ReadFails, IoError, Writing
<1> QED BY <1>1, <1>2 DEF IndInv

(* Power loss is a failed sync after which reads return what survived *)
LEMMA PowerLossStep == IndInv /\ PowerLoss => IndInv'
<1> SUFFICES ASSUME IndInv, PowerLoss PROVE IndInv'
  OBVIOUS
<1>1. cache \in Cards /\ disk \in Cards /\ cache' = disk' /\ disk' \in Halfway(disk, cache)
  BY DEF IndInv, TypeOK, PowerLoss
<1>2. disk' \in Cards
      /\ (\A x \in Blocks : disk'.image[x] \in Half(disk.image[x], cache.image[x], Torn))
      /\ disk'.redo \in Half(disk.redo, cache.redo, Torn)
      /\ disk'.mark \in Half(disk.mark, cache.mark, NoMark)
  BY <1>1, HalfwayCard
<1>3. TypeOK'
  BY <1>1, <1>2 DEF IndInv, TypeOK, PowerLoss, Fault, Durable, Labels
<1>4. disk'.mark = disk.mark \/ disk'.mark = cache.mark
  BY <1>2 DEF IndInv, MarkInv, Half
<1>5. JournalSound'
  BY <1>1, <1>2, <1>4 DEF IndInv, JournalSound, MarkInv, Half, PowerLoss
<1>6. cache.mark = NoMark \/ disk.mark = NoMark => 
        \A x \in Blocks : disk'.image[x] = disk.image[x]
  BY <1>2 DEF IndInv, MarkInv, Settled, Half
<1>7. ImageInv'
  BY <1>1, <1>2, <1>4, <1>6 DEF IndInv, ImageInv, MarkInv, Settled, Half
<1>8. MarkInv'
  BY <1>1, <1>2, <1>4, <1>6, CardFields DEF IndInv, MarkInv, Settled, Half
<1>9. StepInv' /\ WantInv'
  BY <1>1 DEF StepInv, WantInv, PowerLoss, Writing
<1> QED BY <1>3, <1>5, <1>7, <1>8, <1>9 DEF IndInv

LEMMA StutterStep == IndInv /\ UNCHANGED vars => IndInv'
BY DEF vars, IndInv, TypeOK, JournalSound, ImageInv, MarkInv, StepInv, WantInv,
   Settled, Op

(* The journal protocol keeps its inductive invariant over every step,     *)
(* failure and power loss.                                                 *)
THEOREM Invariance == Spec => []IndInv
<1>1. IndInv /\ [Next]_vars => IndInv'
  BY OpenStep, RecoverSyncStep, RecoverPutStep, RecoverDoneStep, WriteStep, ClearStep,
     ClearSyncStep, RedoStep, RedoSyncStep, MarkStep, MarkSyncStep, PutBlockStep,
     PutSyncStep, ReadFailsStep, SyncStep, CheckpointStep, CkClearStep, CkSyncStep,
     PowerLossStep, StutterStep DEF Next
<1> QED BY <1>1, InitInv, PTL DEF Spec

(* Every variable keeps its type; no torn sector becomes the data of a write. *)
THEOREM TypeCorrect == Spec => []TypeOK
<1>1. IndInv => TypeOK
  BY DEF IndInv
<1> QED BY <1>1, Invariance, PTL

(* recover() never finds the journal corrupt: a marker with a valid CRC names *)
(* redo data that matches it, on the card and through the cache.              *)
THEOREM JournalAlwaysSound == Spec => []JournalSound
<1>1. IndInv => JournalSound
  BY DEF IndInv
<1> QED BY <1>1, Invariance, PTL

(* kui_vmu_store_read returns only what recovery would return after power loss. *)
THEOREM ReadsAreDurable == Spec => []ReadsDurable
<1>1. IndInv => ReadsDurable
  <2> SUFFICES ASSUME IndInv, pc = "idle" PROVE cache.image = Recovered(disk)
    BY DEF ReadsDurable
  <2>1. cache \in Cards /\ disk \in Cards /\ Settled
    BY DEF IndInv, TypeOK, StepInv
  <2>2. \A b \in Blocks : cache.image[b] = Recovered(disk)[b]
    BY <2>1 DEF Settled, Recovered
  <2>3. cache.image = [b \in Blocks |-> cache.image[b]]
    BY <2>1, CardFields
  <2> QED BY <2>2, <2>3 DEF Recovered
<1> QED BY <1>1, Invariance, PTL

-----------------------------------------------------------------------------
(* The refinement of VmuCard *)

Same == Recovered(disk)' = Recovered(disk) /\ want' = want
Effect == /\ want # None /\ want' = None
          /\ Recovered(disk)' = [Recovered(disk) EXCEPT ![want.block] = want.data]

(* Sectors on their way to the card leave what recovery would find alone, *)
(* but for the marker, which makes the whole write happen.                *)
LEMMA DiskMoves ==
  ASSUME IndInv, Durable, disk' \in Cards,
         \A x \in Blocks : disk'.image[x] \in Half(disk.image[x], cache.image[x], Torn),
         disk'.mark \in Half(disk.mark, cache.mark, NoMark)
  PROVE  Same \/ Effect
<1>1. cache \in Cards /\ disk \in Cards
  BY DEF IndInv, TypeOK
<1>2. disk'.mark = disk.mark \/ disk'.mark = cache.mark
  BY DEF IndInv, MarkInv, Half
<1>3. CASE disk.mark = NoMark /\ disk'.mark # NoMark
  <2>1. want = cache.mark /\ disk'.mark = cache.mark /\ want' = None
    BY <1>2, <1>3 DEF IndInv, WantInv, Durable
  <2>2. want # None /\ want.block \in Blocks /\ want.data \in Data
    BY <1>1, <1>3, <2>1, CardFields DEF None
  <2>3. \A x \in Blocks : disk'.image[x] = disk.image[x]
    BY <1>3 DEF IndInv, MarkInv, Settled, Half
  <2>4. \A x \in Blocks : disk.mark.block # x
    BY <1>3, MarkFields DEF NoMark
  <2>5. Recovered(disk)' = [Recovered(disk) EXCEPT ![want.block] = want.data]
    BY <2>1, <2>2, <2>3, <2>4 DEF Recovered
  <2> QED BY <2>1, <2>2, <2>5 DEF Effect
<1>4. CASE ~(disk.mark = NoMark /\ disk'.mark # NoMark)
  <2>1. want' = want
    BY <1>4 DEF Durable
  <2>2. CASE disk'.mark = disk.mark
    <3>1. \A x \in Blocks : disk.mark.block # x => disk'.image[x] = disk.image[x]
      BY DEF IndInv, ImageInv, Half
    <3> QED BY <2>1, <2>2, <3>1 DEF Same, Recovered
  <2>3. CASE disk'.mark = NoMark /\ cache.mark = NoMark
    <3>1. \A x \in Blocks : /\ disk'.image[x] = disk.image[x]
                            /\ disk.mark.block = x => disk.image[x] = disk.mark.data
      BY <2>3 DEF IndInv, MarkInv, Settled, Half
    <3>2. \A x \in Blocks : disk'.mark.block # x
      BY <2>3, MarkFields DEF NoMark
    <3>3. \A x \in Blocks : Recovered(disk)'[x] = Recovered(disk)[x]
      BY <3>1, <3>2 DEF Recovered
    <3>4. Recovered(disk)' = [x \in Blocks |-> Recovered(disk)'[x]]
      BY DEF Recovered
    <3>5. Recovered(disk) = [x \in Blocks |-> Recovered(disk)[x]]
      BY DEF Recovered
    <3> QED BY <2>1, <3>3, <3>4, <3>5 DEF Same
  <2> QED BY <1>2, <1>4, <2>2, <2>3 DEF IndInv, MarkInv
<1> QED BY <1>3, <1>4

(* Each sync moves the card so *)
LEMMA FlushedMoves == ASSUME NEW next PROVE IndInv /\ Flushed(next) => Same \/ Effect
BY FlushedCard, DiskMoves DEF IndInv

(* The abstract card depends on disk and want only *)
LEMMA UnmovedCard == disk' = disk /\ want' = want => Same
BY DEF Same, Recovered

Up == pc \in Writing \cup {"idle", "ckclear", "cksync"}
Busy == pc \in Writing

(* The abstract steps in terms of the journal's state *)
LEMMA CardSteps ==
  /\ Same /\ Up' = Up /\ Busy' = Busy => UNCHANGED Card!cardVars
  /\ (Same \/ Effect) /\ Up' = FALSE /\ Busy' = FALSE => Card!CardNext
  /\ Effect /\ Up' = Up /\ Busy' = Busy => Card!CardNext
  /\ Same /\ Up' = Up /\ Busy = TRUE /\ want = None /\ Busy' = FALSE => Card!CardNext
  /\ (Recovered(disk)' = Recovered(disk) /\ Up = FALSE /\ Up' = TRUE /\ want' = None
      /\ Busy' = Busy) => Card!CardNext
<1>1. Same /\ Up' = Up /\ Busy' = Busy => UNCHANGED Card!cardVars
  BY Zenon DEF Same, Up, Busy, Card!cardVars
<1>2. Same /\ Up' = FALSE /\ Busy' = FALSE => Card!CardNext
  BY Zenon DEF Same, Up, Busy, Card!CardNext, Card!CardFail
<1>3. Effect => Card!TakeEffect
  BY Zenon DEF Effect, Card!TakeEffect, Card!Applied, None, Card!None
<1>4. Effect /\ Up' = FALSE /\ Busy' = FALSE => Card!CardNext
  BY <1>3, Zenon DEF Up, Busy, Card!CardNext, Card!CardFail
<1>5. Effect /\ Up' = Up /\ Busy' = Busy => Card!CardNext
  BY <1>3, Zenon DEF Up, Busy, Card!CardNext, Card!CardCommit
<1>6. Same /\ Up' = Up /\ Busy = TRUE /\ want = None /\ Busy' = FALSE => Card!CardNext
  BY Zenon DEF Same, Up, Busy, Card!CardNext, Card!CardReturn, None, Card!None
<1>7. (Recovered(disk)' = Recovered(disk) /\ Up = FALSE /\ Up' = TRUE /\ want' = None
       /\ Busy' = Busy) => Card!CardNext
  BY Zenon DEF Up, Busy, Card!CardNext, Card!CardOpen, None, Card!None
<1> QED BY <1>1, <1>2, <1>4, <1>5, <1>6, <1>7

(* A write of one sector is invisible to the card, unless it fails *)
LEMMA PutMaps ==
  ASSUME IndInv, NEW new, NEW next, Put(new, next),
         (pc' = next => Up' = Up /\ Busy' = Busy)
  PROVE  Card!CardNext \/ UNCHANGED Card!cardVars
<1>1. Same
  BY UnmovedCard DEF Put
<1>2. pc' = next \/ pc' = "closed"
  BY DEF Put, IoError
<1>3. CASE pc' = "closed"
  <2>1. Up' = FALSE /\ Busy' = FALSE
    BY <1>3 DEF Up, Busy, Writing
  <2> QED BY <1>1, <2>1, CardSteps
<1> QED BY <1>1, <1>2, <1>3, CardSteps

(* So is a sync, unless it makes the marker durable *)
LEMMA FlushedMaps ==
  ASSUME IndInv, NEW next, Flushed(next),
         (pc' = next => Up' = Up /\ Busy' = Busy)
  PROVE  Card!CardNext \/ UNCHANGED Card!cardVars
<1>1. Same \/ Effect
  BY FlushedMoves
<1>2. pc' = next \/ pc' = "closed"
  BY DEF Flushed, IoError
<1>3. CASE pc' = "closed"
  <2>1. Up' = FALSE /\ Busy' = FALSE
    BY <1>3 DEF Up, Busy, Writing
  <2> QED BY <1>1, <2>1, CardSteps
<1> QED BY <1>1, <1>2, <1>3, CardSteps

(* Every step of the journal is a step of the abstract card, or none *)
LEMMA StepMaps == IndInv /\ [Next]_vars => [Card!CardNext]_(Card!cardVars)
<1> SUFFICES ASSUME IndInv, [Next]_vars
             PROVE  Card!CardNext \/ UNCHANGED Card!cardVars
  OBVIOUS
<1>1. CASE RecoverPut
  <2>1. pc' = "recdone" => Up' = Up /\ Busy' = Busy
    BY <1>1 DEF RecoverPut, Up, Busy, Writing
  <2> QED BY <1>1, <2>1, PutMaps DEF RecoverPut
<1>2. CASE Clear
  <2>1. pc' = "clearsync" => Up' = Up /\ Busy' = Busy
    BY <1>2 DEF Clear, Up, Busy, Writing
  <2> QED BY <1>2, <2>1, PutMaps DEF Clear
<1>3. CASE Redo
  <2>1. pc' = "redosync" => Up' = Up /\ Busy' = Busy
    BY <1>3 DEF Redo, Up, Busy, Writing
  <2> QED BY <1>3, <2>1, PutMaps DEF Redo
<1>4. CASE Mark
  <2>1. pc' = "marksync" => Up' = Up /\ Busy' = Busy
    BY <1>4 DEF Mark, Up, Busy, Writing
  <2> QED BY <1>4, <2>1, PutMaps DEF Mark
<1>5. CASE PutBlock
  <2>1. pc' = "putsync" => Up' = Up /\ Busy' = Busy
    BY <1>5 DEF PutBlock, Up, Busy, Writing
  <2> QED BY <1>5, <2>1, PutMaps DEF PutBlock
<1>6. CASE CkClear
  <2>1. pc' = "cksync" => Up' = Up /\ Busy' = Busy
    BY <1>6 DEF CkClear, Up, Busy, Writing
  <2> QED BY <1>6, <2>1, PutMaps DEF CkClear
<1>7. CASE RecoverSync
  <2>1. pc' = "recput" => Up' = Up /\ Busy' = Busy
    BY <1>7 DEF RecoverSync, Up, Busy, Writing
  <2> QED BY <1>7, <2>1, FlushedMaps DEF RecoverSync
<1>8. CASE ClearSync
  <2>1. pc' = "redo" => Up' = Up /\ Busy' = Busy
    BY <1>8 DEF ClearSync, Up, Busy, Writing
  <2> QED BY <1>8, <2>1, FlushedMaps DEF ClearSync
<1>9. CASE RedoSync
  <2>1. pc' = "mark" => Up' = Up /\ Busy' = Busy
    BY <1>9 DEF RedoSync, Up, Busy, Writing
  <2> QED BY <1>9, <2>1, FlushedMaps DEF RedoSync
<1>10. CASE MarkSync
  <2>1. pc' = "put" => Up' = Up /\ Busy' = Busy
    BY <1>10 DEF MarkSync, Up, Busy, Writing
  <2> QED BY <1>10, <2>1, FlushedMaps DEF MarkSync
<1>11. CASE Sync
  <2>1. pc' = "idle" => Up' = Up /\ Busy' = Busy
    BY <1>11 DEF Sync, Up, Busy, Writing
  <2> QED BY <1>11, <2>1, FlushedMaps DEF Sync
<1>12. CASE Checkpoint
  <2>1. pc' = "ckclear" => Up' = Up /\ Busy' = Busy
    BY <1>12 DEF Checkpoint, Up, Busy, Writing
  <2> QED BY <1>12, <2>1, FlushedMaps DEF Checkpoint
<1>13. CASE CkSync
  <2>1. pc' = "idle" => Up' = Up /\ Busy' = Busy
    BY <1>13 DEF CkSync, Up, Busy, Writing
  <2> QED BY <1>13, <2>1, FlushedMaps DEF CkSync
<1>14. CASE PutSync
  <2>1. Same \/ Effect
    BY <1>14, FlushedMoves DEF PutSync
  <2>2. want = None /\ Up = TRUE /\ Busy = TRUE
    BY <1>14 DEF PutSync, IndInv, WantInv, Up, Busy, Writing
  <2>3. CASE pc' = "idle"
    <3>1. Up' = TRUE /\ Busy' = FALSE
      BY <2>3 DEF Up, Busy, Writing
    <3>2. Same
      BY <2>1, <2>2 DEF Effect
    <3> QED BY <2>2, <3>1, <3>2, CardSteps
  <2>4. CASE pc' = "closed"
    <3>1. Up' = FALSE /\ Busy' = FALSE
      BY <2>4 DEF Up, Busy, Writing
    <3> QED BY <2>1, <3>1, CardSteps
  <2> QED BY <1>14, <2>3, <2>4 DEF PutSync, Flushed, IoError
<1>15. CASE RecoverDone
  <2>1. Up = FALSE /\ Busy = FALSE
    BY <1>15 DEF RecoverDone, Up, Busy, Writing
  <2>2. /\ cache \in Cards /\ disk \in Cards /\ cache.mark = disk.mark
        /\ \A x \in Blocks : disk.mark.block # x => cache.image[x] = disk.image[x]
    BY <1>15 DEF RecoverDone, IndInv, TypeOK, StepInv, ImageInv
  <2>3. CASE disk' = cache /\ pc' = "idle" /\ want' = None
    <3>1. Recovered(disk)' = Recovered(disk)
      BY <2>2, <2>3 DEF Recovered
    <3>2. Up' = TRUE /\ Busy' = FALSE
      BY <2>3 DEF Up, Busy, Writing
    <3> QED BY <2>1, <2>3, <3>1, <3>2, CardSteps
  <2>4. CASE disk' \in Halfway(disk, cache) /\ pc' = "closed" /\ want' = want
    <3>1. /\ \A x \in Blocks : disk'.image[x] \in Half(disk.image[x], cache.image[x], Torn)
          /\ disk'.mark \in Half(disk.mark, cache.mark, NoMark)
      BY <2>2, <2>4, HalfwayCard
    <3>2. disk'.mark = disk.mark
      BY <2>2, <3>1 DEF Half
    <3>3. \A x \in Blocks : disk.mark.block # x => disk'.image[x] = disk.image[x]
      BY <2>2, <3>1 DEF Half
    <3>4. Same
      BY <2>4, <3>2, <3>3 DEF Same, Recovered
    <3>5. Up' = FALSE /\ Busy' = FALSE
      BY <2>4 DEF Up, Busy, Writing
    <3> QED BY <3>4, <3>5, CardSteps
  <2> QED BY <1>15, <2>3, <2>4 DEF RecoverDone, IoError
<1>16. CASE Open
  <2>1. disk' = disk /\ Busy = FALSE
    BY <1>16 DEF Open, Busy, Writing
  <2>2. Recovered(disk)' = Recovered(disk)
    BY <2>1 DEF Recovered
  <2>3. CASE pc' = "idle" /\ want' = None
    <3>1. Up' = TRUE /\ Busy' = FALSE
      BY <2>3 DEF Up, Busy, Writing
    <3>2. CASE pc = "idle"
      <4>1. Up = TRUE /\ want = None
        BY <3>2 DEF Up, IndInv, WantInv
      <4> QED BY <2>1, <2>2, <2>3, <3>1, <4>1, CardSteps DEF Same
    <3>3. CASE pc # "idle"
      <4>1. Up = FALSE
        BY <1>16, <3>3 DEF Open, Up, Writing
      <4> QED BY <2>1, <2>2, <2>3, <3>1, <4>1, CardSteps
    <3> QED BY <3>2, <3>3
  <2>4. CASE pc' \in {"recsync", "corrupt", "closed"} /\ want' = want
    <3>1. Up' = FALSE /\ Busy' = FALSE
      BY <2>4 DEF Up, Busy, Writing
    <3> QED BY <2>2, <2>4, <3>1, CardSteps DEF Same
  <2> QED BY <1>16, <2>3, <2>4 DEF Open, IoError
<1>17. CASE ReadFails \/ PowerLoss
  <2>1. Up' = FALSE /\ Busy' = FALSE
    BY <1>17 DEF ReadFails, PowerLoss, IoError, Up, Busy, Writing
  <2>2. ReadFails => Same
    BY UnmovedCard DEF ReadFails
  <2>3. PowerLoss => Same \/ Effect
    BY HalfwayCard, DiskMoves DEF PowerLoss, IndInv, TypeOK
  <2> QED BY <1>17, <2>1, <2>2, <2>3, CardSteps
<1>18. CASE \E b \in Blocks, v \in Data : Write(b, v)
  <2>1. PICK b \in Blocks, v \in Data : Write(b, v)
    BY <1>18
  <2>2. Recovered(disk)' = Recovered(disk)
    BY <2>1 DEF Write, Recovered
  <2>3. want' \in [block : Blocks, data : Data]
    BY <2>1 DEF Write
  <2>4. Up = TRUE /\ Busy = FALSE /\ Up' = TRUE /\ Busy' = TRUE
    BY <2>1 DEF Write, Up, Busy, Writing
  <2>5. Card!CardWrite
    BY <2>2, <2>3, <2>4, Zenon DEF Card!CardWrite, Card!Writes, Up, Busy
  <2> QED BY <2>5, Zenon DEF Card!CardNext
<1>19. CASE UNCHANGED vars
  <2>1. Up' = Up /\ Busy' = Busy
    BY <1>19 DEF vars, Up, Busy
  <2> QED BY <1>19, <2>1, UnmovedCard, CardSteps DEF vars
<1> QED
  BY <1>1, <1>2, <1>3, <1>4, <1>5, <1>6, <1>7, <1>8, <1>9, <1>10,
     <1>11, <1>12, <1>13, <1>14, <1>15, <1>16, <1>17, <1>18, <1>19 DEF Next

(* The journal of vmu_store.c implements a card of atomic blocks: an       *)
(* interrupted kui_vmu_store_write has happened or has not, one that       *)
(* returned OK has happened for good, whatever fails and whenever power is *)
(* lost.                                                                   *)
THEOREM Refinement == Spec => AtomicBlocks
<1>1. Init => Card!CardInit
  <2> SUFFICES ASSUME Init PROVE Card!CardInit
    OBVIOUS
  <2>1. PICK f \in [Blocks -> Data] : disk = [image |-> f, redo |-> Torn, mark |-> NoMark]
    BY DEF Init
  <2>2. disk.image = f /\ disk.mark.block = 0
    BY <2>1 DEF NoMark
  <2>3. Recovered(disk) \in [Blocks -> Data]
    BY <2>2, MarkFields DEF Recovered
  <2>4. want = None /\ Up = FALSE /\ Busy = FALSE
    BY DEF Init, Up, Busy, Writing
  <2> QED BY <2>3, <2>4, Zenon DEF Card!CardInit, Card!None, None, Up, Busy
<1> QED
  BY <1>1, StepMaps, Invariance, PTL DEF Spec, AtomicBlocks, Card!CardSpec
=============================================================================

---------------------------- MODULE VmuEndpoint ----------------------------
(***************************************************************************)
(* The memory card a game sees while K-UI runs it: the Maple protocol      *)
(* engine (vmu_emulation.c) behind the adapter that admits its requests    *)
(* (armada_ce_vmu_write.c), the one-job mailbox between the interrupt-     *)
(* masked protocol and the card (vmu_deferred_io.c), and the worker with   *)
(* its read cache and deadline (armada_ce_vmu_runtime.c) over the SD       *)
(* provider (armada_ce_vmu_sd.c).                                          *)
(*                                                                         *)
(* A 512-byte block is a function from write phases to values.  The CRC of *)
(* a block is the block.  The journaled card below is what VmuCard says of *)
(* it: a write that fails has happened or has not.                         *)
(***************************************************************************)
EXTENDS Integers, FiniteSets

CONSTANTS
  Blocks,       \* blocks of the card, numbered from 1
  Values,       \* contents of one phase, an eighth of a kilobyte
  LastPhase,    \* phases 0..LastPhase make a block; 3 in the code
  CacheSlots,   \* entries of the direct-mapped read cache; 8 in the code
  TicketMax,    \* UINT32_MAX
  MaxRounds,    \* BUSY rounds before the deadline; 1000 in the code
  MaxFaults     \* bound: failures, abandoned requests, power losses

ASSUME BlocksAssumption == Blocks \subseteq Nat \ {0}
ASSUME ValuesAssumption == Values # {}
ASSUME NumbersAssumption ==
  /\ LastPhase \in Nat /\ TicketMax \in Nat /\ MaxFaults \in Nat
  /\ CacheSlots \in Nat \ {0} /\ MaxRounds \in Nat \ {0}

VARIABLES
  card,     \* what the journaled store holds
  power,    \* the game runs
  eng,      \* kui_vmu_emulation_t
  q,        \* struct kui_vmu_deferred_io
  wk,       \* the worker: where it is, the job it claimed, its I/O result
  rt,       \* runtime and provider: cache, block_crc, faults, busy_rounds
  held,     \* the request CE is kept waiting for
  guest,    \* history: what the game was told
  faults    \* faults so far

vars == <<card, power, eng, q, wk, rt, held, guest, faults>>

Phases == 0..LastPhase
Data == [Phases -> Values]
NoBlock == 0
SomeData == [p \in Phases |-> CHOOSE v \in Values : TRUE]
NoReq == [cmd |-> "none", block |-> NoBlock]
Fault == faults < MaxFaults /\ faults' = faults + 1
NoFault == faults' = faults

-----------------------------------------------------------------------------
(* What each part is when the game starts: everything zero, the handoff's  *)
(* block_crc taken from the card                                           *)
FreshEngine == [active |-> FALSE, phases |-> {}, block |-> NoBlock, staged |-> SomeData,
                attempted |-> FALSE, committed |-> NoBlock, read |-> NoBlock]
FreshQueue == [state |-> "idle", op |-> "none", block |-> NoBlock,
               bytes |-> SomeData, ticket |-> 0, applied |-> FALSE]
FreshWorker == [pc |-> "idle", ticket |-> 0, op |-> "none", block |-> NoBlock,
                io |-> "none", result |-> 0]
FreshRuntime(c) == [tag |-> [s \in 0..CacheSlots - 1 |-> NoBlock],
                    cache |-> [s \in 0..CacheSlots - 1 |-> SomeData],
                    crc |-> c, faulted |-> FALSE, sdFaulted |-> FALSE,
                    rounds |-> 0, logged |-> FALSE]
FreshGuest(c) == [reply |-> "none", data |-> SomeData, block |-> NoBlock,
                  wblock |-> NoBlock, wrote |-> SomeData, acked |-> c]

Init ==
  /\ card = [b \in Blocks |-> SomeData] /\ power = FALSE
  /\ eng = FreshEngine /\ q = FreshQueue /\ wk = FreshWorker
  /\ rt = FreshRuntime(card) /\ guest = FreshGuest(card)
  /\ held = NoReq /\ faults = 0

(* kui_armada_ce_vmu_runtime_bind *)
PowerOn ==
  /\ ~power /\ power' = TRUE
  /\ eng' = FreshEngine /\ q' = FreshQueue /\ wk' = FreshWorker
  /\ rt' = FreshRuntime(card) /\ guest' = FreshGuest(card) /\ held' = NoReq
  /\ UNCHANGED <<card, faults>>

-----------------------------------------------------------------------------
(* The mailbox *)

(* fault *)
Faulted(m) == [m EXCEPT !.state = "fault"]

(* Fault variants ("Bad...") stand before the definition they would         *)
(* replace.                                                                  *)
BadSubmit(op, b, data) ==
  [q EXCEPT !.state = "pending", !.op = op, !.block = b, !.ticket = @ + 1,
            !.bytes = IF op = "commit" THEN data ELSE @, !.applied = FALSE]

(* request, an idle mailbox: a new job, or a fault when tickets are used up *)
Submit(op, b, data) ==
  IF q.ticket = TicketMax THEN Faulted(q)
  ELSE [q EXCEPT !.state = "pending", !.op = op, !.block = b, !.ticket = @ + 1,
                 !.bytes = IF op = "commit" THEN data ELSE @, !.applied = FALSE]

BadReady(op, b, data) ==
  /\ q.state \in {"running", "done"} /\ q.op = op /\ q.block = b
  /\ op = "commit" => q.bytes = data
BadReadyAnyBlock(op, b, data) ==
  q.state = "done" /\ q.op = op /\ (op = "commit" => q.bytes = data)

(* request: is this the job whose result waits? *)
Ready(op, b, data) ==
  /\ q.state = "done" /\ q.op = op /\ q.block = b
  /\ op = "commit" => q.bytes = data

(* request: what it returns and leaves; data is the caller's bytes of a     *)
(* commit                                                                   *)
RequestResult(op, b, data) ==
  IF q.state = "fault" \/ (q.state = "idle" /\ q.ticket = TicketMax) THEN "error"
  ELSE IF Ready(op, b, data) THEN "ok" ELSE "busy"
RequestQueue(op, b, data) ==
  CASE q.state = "idle" -> Submit(op, b, data)
    [] Ready(op, b, data) -> [q EXCEPT !.state = "idle"]
    [] OTHER -> q

-----------------------------------------------------------------------------
(* Replies.  kui_armada_ce_vmu_runtime_handle turns AGAIN of a READ or a    *)
(* final SYNC into a held request while the job is queued or running.       *)
Told(r) == [guest EXCEPT !.reply = r, !.block = NoBlock, !.data = SomeData]
Reply(r) == guest' = Told(r)
Defers(result, m) == result = "busy" /\ m.state \in {"pending", "running"}
Hold(req, result, m) == held' = IF Defers(result, m) THEN req ELSE NoReq
ReplyTo(result, m) ==
  CASE result = "error" -> "error"
    [] Defers(result, m) -> "none"
    [] OTHER -> "again"

(* A request reaches the endpoint: CE's own, or the held one once more.     *)
(* A logged fault ends all handling.                                        *)
Asks(req) == /\ power /\ ~rt.logged
             /\ held \in {NoReq, req}

(* kui_armada_ce_vmu_write_handle and CMD_READ *)
Read(b) ==
  LET res == RequestResult("read", b, SomeData)
      m == RequestQueue("read", b, SomeData)
  IN /\ Asks([cmd |-> "read", block |-> b])
     /\ q' = m
     /\ Hold([cmd |-> "read", block |-> b], res, m)
     /\ eng' = [eng EXCEPT !.read = IF res = "ok" THEN b ELSE NoBlock]
     /\ IF res = "ok"
        THEN guest' = [guest EXCEPT !.reply = "data", !.block = b, !.data = q.bytes]
        ELSE Reply(ReplyTo(res, m))
     /\ UNCHANGED <<card, power, wk, rt, faults>>

(* SYNC of phase 0 or 1, answered by the adapter after a read *)
ReadFinal(b) ==
  /\ Asks([cmd |-> "final", block |-> b])
  /\ IF ~eng.active /\ eng.read = b
     THEN Reply("ok") /\ UNCHANGED eng
     ELSE Reply("error") /\ eng' = [eng EXCEPT !.read = NoBlock]
  /\ UNCHANGED <<card, power, q, wk, rt, held, faults>>

(* A request of a shape the adapter does not admit, RESET and KILL included *)
Malformed ==
  /\ Asks([cmd |-> "malformed", block |-> NoBlock])
  /\ eng' = [eng EXCEPT !.read = NoBlock] /\ Reply("error")
  /\ UNCHANGED <<card, power, q, wk, rt, held, faults>>

-----------------------------------------------------------------------------
(* CMD_WRITE.  The engine after phase p of block b, and what it replies.    *)
Restarts(b, p, v) == p = 0 /\ (~eng.active \/ eng.block # b \/ eng.staged[0] # v)
Restarted(b, v) ==
  [eng EXCEPT !.block = b, !.active = TRUE, !.phases = {0}, !.committed = NoBlock,
              !.read = NoBlock, !.attempted = FALSE, !.staged = [@ EXCEPT ![0] = v]]
Follows(b, p) == /\ eng.active /\ eng.block = b /\ p \notin eng.phases
                 /\ eng.phases = 0..p - 1
Repeats(b, p, v) == /\ eng.active /\ eng.block = b /\ p \in eng.phases
                    /\ eng.staged[p] = v
WriteReply(b, p, v) ==
  IF eng.attempted
  THEN IF eng.block = b /\ eng.staged[p] = v THEN "ok" ELSE "again"
  ELSE IF Restarts(b, p, v) \/ Follows(b, p) \/ Repeats(b, p, v) THEN "ok" ELSE "error"
BadWriteEngine(b, p, v) ==
  IF Restarts(b, p, v) THEN Restarted(b, v)
  ELSE IF Follows(b, p) THEN [eng EXCEPT !.staged[p] = v, !.phases = @ \cup {p}] ELSE eng
WriteEngine(b, p, v) ==
  CASE eng.attempted -> eng
    [] ~eng.attempted /\ Restarts(b, p, v) -> Restarted(b, v)
    [] ~eng.attempted /\ ~Restarts(b, p, v) /\ Follows(b, p) ->
         [eng EXCEPT !.staged[p] = v, !.phases = @ \cup {p}]
    [] OTHER -> eng

(* The adapter's CMD 12: prior-read evidence goes first.  The game counts   *)
(* on what it was told was received.                                        *)
Write(b, p, v) ==
  /\ Asks([cmd |-> "write", block |-> b])
  /\ eng' = [WriteEngine(b, p, v) EXCEPT !.read = NoBlock]
  /\ guest' = IF WriteReply(b, p, v) = "ok"
              THEN [Told("ok") EXCEPT !.wblock = b, !.wrote[p] = v]
              ELSE Told(WriteReply(b, p, v))
  /\ UNCHANGED <<card, power, q, wk, rt, held, faults>>

(* SYNC of phase 4.  The game is told that the block it wrote is safe.      *)
SyncOk(b) == [Told("ok") EXCEPT !.acked[b] = IF guest.wblock = b THEN guest.wrote ELSE @,
                                !.wblock = NoBlock, !.wrote = SomeData]
Committed(b) == [eng EXCEPT !.active = FALSE, !.phases = {}, !.committed = b,
                            !.attempted = FALSE, !.read = NoBlock]
CanCommit(b) == eng.active /\ eng.block = b /\ eng.phases = Phases
Sync(b) ==
  LET req == [cmd |-> "sync", block |-> b]
      res == RequestResult("commit", b, eng.staged)
      m == RequestQueue("commit", b, eng.staged)
  IN /\ Asks(req)
     /\ \/ /\ ~CanCommit(b)
           /\ IF ~eng.active /\ eng.committed = b
              THEN guest' = SyncOk(b) ELSE Reply("error")
           /\ eng' = [eng EXCEPT !.read = NoBlock]
           /\ UNCHANGED <<q, held>>
        \/ /\ CanCommit(b)
           /\ q' = m /\ Hold(req, res, m)
           /\ IF res = "ok"
              THEN eng' = Committed(b) /\ guest' = SyncOk(b)
              ELSE /\ eng' = [eng EXCEPT !.attempted = TRUE, !.read = NoBlock]
                   /\ Reply(ReplyTo(res, m))
     /\ UNCHANGED <<card, power, wk, rt, faults>>

(* The game stops waiting for a held request and goes on *)
GiveUp ==
  /\ power /\ held # NoReq /\ Fault
  /\ held' = NoReq
  /\ UNCHANGED <<card, power, eng, q, wk, rt, guest>>

-----------------------------------------------------------------------------
(* The worker: kui_armada_ce_vmu_runtime_work around kui_vmu_deferred_io_   *)
(* work.  It claims the job under the guard, calls the provider without it, *)
(* publishes the result under it, and looks at the deadline.                *)

WorkClaim ==
  /\ power /\ wk.pc = "idle" /\ ~rt.logged /\ q.state = "pending"
  /\ q' = [q EXCEPT !.state = "running"]
  /\ wk' = [wk EXCEPT !.pc = "io", !.ticket = q.ticket, !.op = q.op, !.block = q.block]
  /\ UNCHANGED <<card, power, eng, rt, held, guest, faults>>

(* nothing to do: the deadline's count ends, a fault is put on record *)
WorkNothing ==
  /\ power /\ wk.pc = "idle" /\ ~rt.logged /\ q.state # "pending"
  /\ rt' = [rt EXCEPT !.rounds = 0, !.logged = (q.state = "fault")]
  /\ UNCHANGED <<card, power, eng, q, wk, held, guest, faults>>

(* The provider's result; only after the I/O is it published *)
Ended(io) == wk' = [wk EXCEPT !.pc = "publish", !.io = io]
InIo(op) == power /\ wk.pc = "io" /\ wk.op = op
Slot(b) == b % CacheSlots

(* runtime_cached_read: a hit, checked against block_crc *)
CachedRead ==
  LET s == Slot(wk.block) IN
  /\ InIo("read") /\ ~rt.faulted /\ ~rt.sdFaulted /\ rt.tag[s] = wk.block
  /\ IF rt.cache[s] # rt.crc[wk.block]
     THEN rt' = [rt EXCEPT !.faulted = TRUE] /\ Ended("error") /\ UNCHANGED q
     ELSE q' = [q EXCEPT !.bytes = rt.cache[s]] /\ Ended("ok") /\ UNCHANGED rt
  /\ UNCHANGED <<card, power, eng, held, guest, faults>>

(* armada_sd_execute: the card is lent to the game's own reader.  That a     *)
(* faulted provider refuses everything is never seen: the mailbox has        *)
(* faulted with it and hands out no job.                                     *)
Misses == wk.op = "commit" \/ (~rt.faulted /\ rt.tag[Slot(wk.block)] # wk.block)
ProviderBusy ==
  /\ power /\ wk.pc = "io" /\ ~rt.sdFaulted /\ Misses
  /\ Ended("busy") /\ UNCHANGED <<card, power, eng, q, rt, held, guest, faults>>

(* armada_sd_execute: the loan, the port, the identity or the sector I/O    *)
(* fails, before the store's commit point or after it                       *)
ProviderFails ==
  /\ power /\ wk.pc = "io" /\ ~rt.sdFaulted /\ Misses /\ Fault
  /\ \/ UNCHANGED <<card, q>>
     \/ /\ wk.op = "commit"
        /\ card' = [card EXCEPT ![wk.block] = q.bytes] /\ q' = [q EXCEPT !.applied = TRUE]
  /\ rt' = [rt EXCEPT !.sdFaulted = TRUE] /\ Ended("error")
  /\ UNCHANGED <<power, eng, held, guest>>

(* armada_sd_execute, a read: the block must have the CRC on record *)
SdRead ==
  /\ InIo("read") /\ ~rt.sdFaulted /\ Misses
  /\ IF card[wk.block] # rt.crc[wk.block]
     THEN rt' = [rt EXCEPT !.sdFaulted = TRUE] /\ Ended("error") /\ UNCHANGED q
     ELSE /\ q' = [q EXCEPT !.bytes = card[wk.block]]
          /\ rt' = [rt EXCEPT !.cache[Slot(wk.block)] = card[wk.block],
                              !.tag[Slot(wk.block)] = wk.block]
          /\ Ended("ok")
  /\ UNCHANGED <<card, power, eng, held, guest, faults>>

(* armada_sd_execute, a commit, and runtime_cached_commit *)
BadCommitView(r, b, data) == [r EXCEPT !.crc[b] = data]
CommitView(r, b, data) == [r EXCEPT !.crc[b] = data, !.tag[Slot(b)] = NoBlock]
SdCommit ==
  /\ InIo("commit") /\ ~rt.sdFaulted
  /\ card' = [card EXCEPT ![wk.block] = q.bytes] /\ q' = [q EXCEPT !.applied = TRUE]
  /\ rt' = CommitView(rt, wk.block, q.bytes)
  /\ Ended("ok") /\ UNCHANGED <<power, eng, held, guest, faults>>

(* The result is published only for the job that was claimed *)
SameJob == /\ q.state = "running" /\ q.ticket = wk.ticket
           /\ q.op = wk.op /\ q.block = wk.block
BadPublish ==
  /\ power /\ wk.pc = "publish"
  /\ q' = [q EXCEPT !.state = IF SameJob /\ wk.io # "error" THEN "done" ELSE "fault"]
  /\ wk' = [wk EXCEPT !.pc = "tail", !.result = IF q'.state = "done" THEN 1 ELSE -1]
  /\ UNCHANGED <<card, power, eng, rt, held, guest, faults>>
Publish ==
  /\ power /\ wk.pc = "publish"
  /\ \/ /\ SameJob /\ wk.io = "busy"
        /\ q' = [q EXCEPT !.state = "pending"] /\ wk' = [wk EXCEPT !.pc = "tail", !.result = 0]
     \/ /\ SameJob /\ wk.io = "ok"
        /\ q' = [q EXCEPT !.state = "done"] /\ wk' = [wk EXCEPT !.pc = "tail", !.result = 1]
     \/ /\ ~SameJob \/ wk.io = "error"
        /\ q' = Faulted(q) /\ wk' = [wk EXCEPT !.pc = "tail", !.result = -1]
  /\ UNCHANGED <<card, power, eng, rt, held, guest, faults>>

(* The guard cannot be entered again after the I/O: no acknowledgement *)
BadGuardLost ==
  /\ power /\ wk.pc = "publish" /\ Fault
  /\ wk' = [wk EXCEPT !.pc = "tail", !.result = 0]
  /\ UNCHANGED <<card, power, eng, q, rt, held, guest>>
GuardLost ==
  /\ power /\ wk.pc = "publish" /\ Fault
  /\ wk' = [wk EXCEPT !.pc = "tail", !.result = -2]
  /\ UNCHANGED <<card, power, eng, q, rt, held, guest>>

(* runtime_work's end: count BUSY rounds, give up at the deadline *)
Overdue == wk.result = 0 /\ q.state = "pending" /\ rt.rounds + 1 >= MaxRounds
WorkEnd ==
  /\ power /\ wk.pc = "tail"
  /\ q' = IF Overdue THEN Faulted(q) ELSE q
  /\ rt' = [rt EXCEPT !.rounds = IF wk.result = 0 /\ q.state = "pending" THEN @ + 1 ELSE 0,
                      !.logged = (wk.result < 0 \/ Overdue)]
  /\ wk' = FreshWorker
  /\ UNCHANGED <<card, power, eng, held, guest, faults>>

(* The guard cannot be entered at the end either: -2, with nothing counted   *)
(* and no cause stored.  Whichever guard was lost, the caller's next entry   *)
(* takes -2 for a terminal fault and puts one on record (a2_terminal).       *)
WorkEndLost ==
  /\ power /\ wk.pc = "tail" /\ Fault
  /\ rt' = [rt EXCEPT !.logged = TRUE]
  /\ wk' = FreshWorker
  /\ UNCHANGED <<card, power, eng, q, held, guest>>

(* kui_vmu_deferred_io_poison by the owner, the provider running or not *)
Poison ==
  /\ power /\ q.state # "fault" /\ Fault /\ q' = Faulted(q)
  /\ UNCHANGED <<card, power, eng, wk, rt, held, guest>>

(* Power goes; a commit that was running has happened or has not.  Of the   *)
(* memory only the job that was outstanding is kept, as history.            *)
PowerLoss ==
  /\ power /\ Fault /\ power' = FALSE
  /\ \/ UNCHANGED <<card, q>>
     \/ /\ InIo("commit") /\ ~rt.sdFaulted
        /\ card' = [card EXCEPT ![wk.block] = q.bytes] /\ q' = [q EXCEPT !.applied = TRUE]
  /\ eng' = FreshEngine /\ wk' = FreshWorker /\ held' = NoReq
  /\ rt' = FreshRuntime(card')
  /\ guest' = [FreshGuest(card) EXCEPT !.acked = guest.acked]

-----------------------------------------------------------------------------
Request ==
  \/ \E b \in Blocks : Read(b) \/ ReadFinal(b) \/ Sync(b)
  \/ \E b \in Blocks, p \in Phases, v \in Values : Write(b, p, v)
  \/ Malformed
WorkIo == CachedRead \/ ProviderBusy \/ ProviderFails \/ SdRead \/ SdCommit
Work == WorkClaim \/ WorkNothing \/ WorkIo \/ Publish \/ GuardLost \/ WorkEnd \/ WorkEndLost
Next == PowerOn \/ Request \/ GiveUp \/ Work \/ Poison \/ PowerLoss

Spec == Init /\ [][Next]_vars

(* CE's shim alternates the worker and the held request until it is         *)
(* answered or a fault is on record                                         *)
Redeliver == held # NoReq /\ \E b \in Blocks : Read(b) \/ Sync(b)
FairSpec == Spec /\ WF_vars(Work) /\ WF_vars(Redeliver)

-----------------------------------------------------------------------------
(* Types of all variables *)
Requests == [cmd : {"read", "sync"}, block : Blocks] \cup {NoReq}
MaybeBlock == Blocks \cup {NoBlock}
Engines == [active : BOOLEAN, phases : SUBSET Phases, block : MaybeBlock, staged : Data,
            attempted : BOOLEAN, committed : MaybeBlock, read : MaybeBlock]
Mailboxes == [state : {"idle", "pending", "running", "done", "fault"},
              op : {"none", "read", "commit"}, block : MaybeBlock, bytes : Data,
              ticket : 0..TicketMax, applied : BOOLEAN]
Workers == [pc : {"idle", "io", "publish", "tail"}, ticket : 0..TicketMax,
            op : {"none", "read", "commit"}, block : MaybeBlock,
            io : {"none", "ok", "busy", "error"}, result : -2..1]
Runtimes == [tag : [0..CacheSlots - 1 -> MaybeBlock], cache : [0..CacheSlots - 1 -> Data],
             crc : [Blocks -> Data], faulted : BOOLEAN, sdFaulted : BOOLEAN,
             rounds : 0..MaxRounds, logged : BOOLEAN]
Guests == [reply : {"none", "ok", "again", "error", "data"},
           data : Data, block : MaybeBlock, wblock : MaybeBlock, wrote : Data,
           acked : [Blocks -> Data]]
TypeOK ==
  /\ card \in [Blocks -> Data] /\ power \in BOOLEAN /\ held \in Requests
  /\ eng \in Engines /\ q \in Mailboxes /\ wk \in Workers
  /\ rt \in Runtimes /\ guest \in Guests /\ faults \in 0..MaxFaults

(* A final SYNC that was answered OK is durable: every block holds what the *)
(* game was last told is safe, the phases it had acknowledged.  Only the    *)
(* block of a commit that reached the card and was not answered may differ. *)
(* About vmu_emulation.c's phase 4, request() and the worker's publication. *)
InDoubt(b) == q.op = "commit" /\ q.block = b /\ q.applied /\ q.state # "idle"
AckedDurable == \A b \in Blocks : card[b] = guest.acked[b] \/ InDoubt(b)

(* A commit that waits in the mailbox, is being written or waits to be      *)
(* fetched is still the engine's staged block, byte for byte: the retry     *)
(* that fetches its result can be made.  About commit_attempted in          *)
(* vmu_emulation.c and the comparison in request().                         *)
CommitOwned ==
  (power /\ q.op = "commit" /\ q.state \in {"pending", "running", "done"}) =>
    /\ eng.active /\ eng.attempted /\ eng.phases = Phases
    /\ eng.block = q.block /\ eng.staged = q.bytes

(* The CRC table and the read cache describe the card as it is, unless the  *)
(* provider has failed for good.  About runtime_cached_read and _commit.    *)
CacheFresh ==
  (power /\ ~rt.sdFaulted) =>
    /\ rt.crc = card
    /\ \A s \in DOMAIN rt.tag : rt.tag[s] # NoBlock => rt.cache[s] = card[rt.tag[s]]

(* A READ that is answered returns the block as the card holds it then,     *)
(* through mailbox and cache.                                               *)
ReadCurrent ==
  [][guest'.reply = "data" /\ guest' # guest => guest'.data = card[guest'.block]]_vars

(* A held request is answered, or a fault goes on record, or power goes.    *)
(* About the deadline of kui_armada_ce_vmu_runtime_work and the latched     *)
(* faults of the mailbox.                                                   *)
HeldAnswered == [](held # NoReq => <>(held = NoReq \/ rt.logged \/ ~power))

-----------------------------------------------------------------------------
(* Seen by the game this is still the card of VmuCard, one write at a time, *)
(* interrupted by faults and power losses.                                  *)
Outstanding == q.op = "commit" /\ q.state # "idle"
PendingWrite == IF Outstanding /\ ~q.applied
                THEN [block |-> q.block, data |-> q.bytes] ELSE [block |-> 0, data |-> 0]
Usable == power /\ q.state # "fault"
Busy == Usable /\ Outstanding
Card == INSTANCE VmuCard WITH
  val <- card, pend <- PendingWrite, up <- Usable, busy <- Busy

(* The endpoint implements the abstract card: a block changes as a whole,   *)
(* by the commit that is outstanding, and a commit answered OK has happened. *)
CardKept == Card!CardSpec
=============================================================================

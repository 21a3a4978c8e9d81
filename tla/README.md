# K-UI NeXT in TLA+

TLA+ modules for the parts of K-UI NeXT that keep state across failures: what
they promise, checked by TLC on small instances and, for every safety property,
proved by TLAPS for every instance. Paths below are relative to the
repository root (`src/core/capture.c` and so on).

## The system

K-UI is a Dreamcast program (menu, disc ripper, game loader, VMU manager,
updater, network services) on an SD card, with an optional Wi-Fi board.

| part | state | operations | what makes it hard |
|---|---|---|---|
| Disc capture, `src/core/capture.c` | track files, two checkpoint records, metadata; the job in RAM | New, Resume, Verify | power loss at any write; B pressed at any time; drive DMA under way while the card is written; read retries; cards that lie; options of one run meeting a job of another |
| Wi-Fi link, `firmware/kui-wifi/components/kwlink`, `main/link_spi.c` | two `struct kwl`, one frame armed ahead | build, transfer, receive, sync, reset | damaged and cut frames, restarts of either end, stale armed frame, 8-bit numbers that wrap |
| Wi-Fi sockets, `kwhost.c`, `main/bridge.c` | 8 slots, generations, credits | open, send, receive, close | late messages for a reused slot, credit at its limit |
| VMU journal, `src/core/vmu_store.c` | redo record, image blocks | open (recover), write, checkpoint | power loss between four synced writes; reopen over a volatile cache |
| VMU endpoint, `vmu_emulation.c`, `vmu_deferred_io.c`, `src/loader/armada_ce_vmu_*.c` | protocol engine, one mailbox with a ticket, held request, read cache | Maple READ, WRITE, SYNC; work; poison | interrupt against worker, lock dropped over I/O, games that stop waiting, deadlines |
| Updater, `update_file.c`, `update_boot.c`, parts of `main.c` | banks with receipts, two activation records, the running program's resolver and handoff | review, install, restore, restart, boot | power loss, stale reviews, two GUIs with one label, chains of restarts |
| Retail GD service, `retail_gd.c`, `retail_async.c` | command token, transfer position | request, check, transfer, abort | abort against a completion in flight |
| Salvage and repair | sector map, journal, in-place receipts | scan, resume, repair | crash in mid-repair |
| Settings, options | alternating checked records | save, load | power loss |
| Shell, games, FTP, adapters, loader patches | menus, sockets, registers | - | device- or text-level |

Calls go one way: the shell asks the single I/O worker for a capture, an update
or a VMU operation; these call FatFs, which calls a storage transport. The
network session polls `kwh_step`, which makes one SPI transfer with the board.
`PROJECT.json` lists every component with its status, and the hazards by line.

## Modules

- `Capture` - the capture engine and its job folder.
- `MCCapture`, `MCCapture_*.cfg` - its instances for TLC.
- `CaptureProofs` - its theorems about checkpoints and buffers;
  `CaptureOutputProofs` - those about what runs leave behind.
- `KwLink` - the Wi-Fi link: both ends, the frame armed in between.
- `MCKwLink`, `MCKwLink_*.cfg` - its instances for TLC.
- `KwLinkProofs` - its theorems.
- `VmuCard` - a memory card with atomic blocks, the abstract specification.
- `VmuStore` - the redo journal that implements it.
- `MCVmuStore`, `MCVmuStore.cfg` - its instance for TLC.
- `VmuStoreProofs` - its theorems.
- `VmuEndpoint` - a game's memory card accesses through engine, mailbox, worker,
  cache and provider; implements `VmuCard` too.
- `MCVmuEndpoint`, `MCVmuEndpoint.cfg` - its instance for TLC.
- `VmuEndpointProofs` - its theorems.
- `Updater` - installation, selection and start of software versions.
- `MCUpdater`, `MCUpdater.cfg` - its instance for TLC.
- `UpdaterProofs` - its theorems.
- `KwSocket` - one TCP slot: host, board, the messages in between, the peer.
- `MCKwSocket`, `MCKwSocket.cfg`, `MCKwSocket_wrap.cfg` - its instances for TLC.
- `KwSocketProofs` - its theorems.

Operators called `Bad...` are fault variants: each is the definition below it
with one plausible mistake. No specification uses them. Replacing the
definition by its variant makes TLC report the property that guards it, which
shows that the property depends on that line of code.

### Capture

`kui_capture()` runs on one thread, cut into one action per call that reaches
the card or the drive, since between two of them power can fail, B can be
pressed and a DMA read can end. `pc` names the next call.

| state | code |
|---|---|
| `size`, `cell` | the track files as the running program sees them |
| `dsize`, `kept` | directory size and leading sectors that survive power loss |
| `slot` | `checkpoint-a.bin`, `checkpoint-b.bin`; `seq = 0` is a record the decoder rejects (missing, torn) |
| `gdi`, `cue`, `export`, `manifest` | published files |
| `mode` ... `verified` | `struct job` |
| `trk` ... `ckRet` | locals of `capture_tracks` (`recUntil` = `recovery_until`, `failed` = `storage_failed`, `dma` = `pending*`, `att` = `attempt` of `read_raw`) |
| `cancel`, `result`, `runs`, `faults` | the B button, the outcome, the bounds |

| action | code |
|---|---|
| `New`, `Resume`, `Verify` | `kui_capture` up to `load_checkpoint` |
| `PrefixCheck` | `check_files` before any write |
| `OpenTrack` | open, seek, truncate |
| `LoopHead`, `ReadRaw`, `ReadBegin`, `WriteChunk` | one pass of the loop: end the overlapped read, `read_raw` with its retries, begin the next read, write with the CRC on both sides and the sampled read-back |
| `LoopExit`, `CloseTrack` | end a pending read, commit the prefix, close |
| `CkSync`, `CkOpen`, `CkWrite` | `save_checkpoint_inner` |
| `EndReadback`, `FinalCheck` | the read-backs after capture |
| `PublishGdi`, `PublishOutput`, `PublishManifest` | `final_metadata`, `publish` |
| `Finish`, `PressB`, `Crash` | the `out:` label, the button, power loss |

Abstractions: a sector is the triple (disc, track, position), or `Junk`
(undefined), or `Rot` (stored wrongly although the write reported success). A
CRC32 or SHA-256 is the sequence of values it was computed over, so there are no
collisions. FatFs is external: its own structures survive power loss, only the
open file and the record being written are in doubt (the repository's
`docs/capture-format.md` promises no more). The model follows one job folder;
`New` is possible as long as it holds no record.

Left out: in-place repair receipts (`repaired_metadata`), bench mode, the folder
search, the space check other than as a failure, the sequence limit 2^64, and
the strict and mixed-mode sector refusals other than as read failures.

Properties: `CheckpointSound` (a record describes synced sectors and their
hashes), `Resumable` (no failure leaves sizes that Resume refuses),
`CommitMonotone` (nothing committed is taken back or changed), `StopKeepsPrefix`
(however a run ends, by Stop or by a read error, the newest record covers what was
written, unless a storage operation or the last checkpoint failed),
`DmaExclusive`, `ManifestComplete`, `VerifyReadOnly`, `VerifiedClaim` and
`ExportVerified` (a claim of verified data is true even on a lying card),
`RunEnds`, `ResumeFinishes`.

### KwLink

`host` and `bridge` are the two `struct kwl`; `armed` is the frame the board
has loaded into its SPI slave. `Exchange` is one transfer as both ends run it
(`kwh_step`, and one pass of `link_task`): the host builds, the frames cross,
both receive, the host begins a new session on `KWL_LOST`, the bridge forgets
its sockets on a new session and arms its next frame. `Disturbed` is the same
with the host's frame lost, the bridge's byte count cut or the bridge's frame
damaged, in any combination; a damaged header may claim any length. `BusFail`,
`HostStart`, `BridgeReboot` are a transfer that never happens and the restarts.
`LineReset` is the optional reset line; only `WiredSpec` has it, because current
K-UI does not drive that line (`docs/wifi.md`).

Abstractions: a payload is a serial number and a length in 4-byte words, so the
rounding of `kwl_host_length` is exact; the CRC detects all damage; session
numbers are always new (16-bit numbers from a clock and a counter in the code);
`clock - sent_at` is an age that stops at 2, the only value compared. `put`,
`got`, `serial` and `missed` are history for the properties and bounds.

Properties: `InOrder` (within a session each end has delivered a prefix of what
the other put in), `AckedDelivered` (a payload leaves its sender only after it
was delivered), `FirstFits` (a frame sent for the first time fits the clocked
length unless the board missed two host frames in a row), `AllArrive`.

### VmuStore

`kui_vmu_store_write` invalidates the commit marker, writes the redo data,
writes the marker and only then overwrites the block, each followed by a sync.
`cache` is the card as reads return it, `disk` as it survives power loss, and
every `write_sector` and `sync` is an action (`pc` names the next one).

| action | code |
|---|---|
| `Open`, `RecoverSync`, `RecoverPut`, `RecoverDone` | `kui_vmu_store_open`, `recover` |
| `Write`, `Clear` ... `PutSync` | `kui_vmu_store_write`, its four `write_sync` calls |
| `Checkpoint`, `CkClear`, `CkSync`; `Sync`; `ReadFails` | `kui_vmu_store_checkpoint`; `_sync`; the error exit of `_read` |
| `PowerLoss` | external |

Failures: a write or sync that reports an error, and any dirty sector at power
loss, is old, new or torn (`Half`), sector by sector and in any order
(`Halfway`). After an I/O error the store is closed and may be opened again over
the same cache, without a power cycle. Abstractions: a CRC is the data it
covers, so a torn or cleared marker is invalid and a valid one names its redo
data exactly; the sequence number is written and never compared, so it is left
out; the extent map, the card identity and the argument checks are fixed.

Properties: `JournalSound` (opening never finds the journal corrupt),
`ReadsDurable` (reads return what recovery would), `AtomicBlocks` (the refinement
of `VmuCard`, with `val` the card as recovery would find it and `pend` the write
whose marker is not durable yet; the write takes effect when the marker
reaches the card).

### VmuEndpoint

A game's READ or final SYNC is answered DEFERRED, held and delivered again while
the worker does the I/O. Three actors interleave: the Maple service (`Request`,
`Redeliver`), the worker (`WorkClaim`, the provider's step, `WorkEnd`) and the
owner (`Poison`); power may go at any time.

| state | code |
|---|---|
| `eng` | `struct kui_vmu_emulation`: the open write, its phases, what was attempted |
| `q` | `struct kui_vmu_deferred_io`: state, operation, block, bytes, ticket; `applied` is history |
| `wk` | the worker's locals over the I/O, with its copy of the ticket |
| `rt` | runtime and provider: read cache, block CRCs, fault latches, BUSY rounds |
| `held` | the deferred Maple request |
| `card` | the card, one step per block |
| `guest` | history: what the game was told, what it wrote, what was acknowledged |

| action | code |
|---|---|
| `Read`, `Write`, `Sync`, `Malformed` | `kui_armada_ce_vmu_write_handle`, `kui_vmu_emulation_handle`, the mailbox's `request` |
| `GiveUp`, `Redeliver` | the game goes on; the held request is tried again |
| `WorkClaim`, `WorkNothing`, `WorkEnd` | `kui_armada_ce_vmu_runtime_work`, `kui_vmu_deferred_io_work` before and after the I/O (`Publish`, `Overdue`) |
| `GuardLost`, `WorkEndLost` | a guard that cannot be entered after the I/O; the caller puts the -2 on record (`a2_terminal` in `armada_ce_maple_traffic.c`) |
| `CachedRead`, `SdRead`, `SdCommit`, `ProviderBusy`, `ProviderFails` | `runtime_cached_read`, `runtime_cached_commit`, `armada_sd_execute` |
| `Poison`, `PowerOn`, `PowerLoss` | the owner; `kui_armada_ce_vmu_runtime_bind`; external |

Abstractions: a commit on the card is whole or absent, also when it fails or
power goes (what `VmuStore` promises, and proves); a CRC is the content it
covers, so the CRC comparisons never fail; the error replies are one; DEVINFO
and MEDIA INFO keep no state; RESET and KILL do not pass the adapter. More is
allowed than happens: requests may arrive while the worker is in its I/O (as the
mailbox's header and tests allow; the runtime refuses them there), the worker may
run with nothing held, and the owner may poison at any time.

Properties: `AckedDurable` (an acknowledged block is on the card and stays until
a later write of it), `CommitOwned` (a commit that waits in the mailbox, is
being written or waits to be fetched is still the engine's staged block, byte for
byte), `CacheFresh`,
`ReadCurrent` (an answered READ is the block as the card holds it),
`HeldAnswered`, `CardKept` (`VmuCard`: the card changes only by whole blocks the
game wrote).

### Updater

Versions live in banks under `KUI/system`, next to the untouched root; two
alternating records select one. A bank's name is a hash of its description, so
in the model it is that description. A file is absent, right or wrong.

| state | code |
|---|---|
| `rec`, `bank`, `rootOk` | `active0.bin` and `active1.bin`; the bank directories with members and receipt; the root's `runtime.kui` |
| `gui` | the running program: which content it is, `resolver` and `running` of `update_boot.c`, the handoff in RAM |
| `review` | `update_reviewed` of `main.c` |
| `op` | locals of the operation on the storage worker; `shown` is history |

| action | code |
|---|---|
| `Review`, `Confirm` | `update_work`, with `snapshot_prepare`, `snapshot_target`, `kui_update_target_verify` |
| `MakeDirectories`, `ClearPartial`, `WriteMember`, `WriteReceipt` | `install_snapshot`, one write at a time |
| `Publish` | `publish`, `record_write` |
| `Cancel`, `CutShort` | Stop, a card error or power loss at any write; the file written is absent, right or wrong |
| `ColdBoot`, `Restart`, `BootStep`, `BaselineAsked`, `BootRefused` | `main`, `kui_update_boot_reload`, `update_boot_start`, `read_selected`, `adopt`, `baseline` |
| `Rot`, `BootstrapZip` | a file decays; the repair ZIP is copied by hand (`tools/make_updater_repair.py`; it restores the same root GUI) |

As in the code a cold start always runs the root; only the checked RAM restart
enters a bank. Left out: version-1 deliveries to a root without an engine,
REMOVE rows, withdrawn builds, the space check, ZIP unpacking, read errors that
pass. `kui_update_rollback` does what the reviewed restore of the previous
version does. The two records of one sequence that disagree (`Conflict`) cannot
arise here, since the slot follows the sequence.

Properties: `BankSound` (a receipt stands over a complete bank; selections name
banks with receipts), `PublishesReviewed` (the newest selection changes only to
what the user confirmed, from what the user was shown), `ReferencedKept` (no bank
in use or complete is touched), `InstancesEarned` (directories of one version do
not pile up), `OneVersionRuns` (a program runs with the modules of its own
version), `BootSettles`.

### KwSocket

`host` is a `struct kwh_slot`, `board` a `struct kwb_slot`, `peer` the remote end
behind the board's descriptor, `down` and `up` the messages under way: the link
is a queue until a session ends, which is `InOrder` of `KwLink`. `down` is the
host's queue together with the link's window. Connections are counted in `life`,
but messages are told apart by `Gen`, the count modulo the number of generations.

| action | code |
|---|---|
| `Open`, `CloseGraceful`, `CloseNow`, `Send`, `Recv` | `open_slot`, `kwh_close`, `kwh_send`, `kwh_recv` |
| `HostStep` | `kwh_step`: `credit_back`, then `deliver` |
| `BoardReceive`, `BoardFill` | `socket_message`, `fill` |
| `Connected`, `ReadTcp`, `WriteTcp`, `OrderlyClose` | `kwb_service` |
| `PeerSends`, `PeerEnds` | external |
| `SessionEnds`, `HostLost`, `BoardSynced` | board restart or `kwh_start`; `begin`; `forget` |

Abstractions: LISTEN and CONNECTING are one state `opening`; what fits in a
frame varies, so `fill` may put any of its messages next; queues hold messages
rather than bytes. Left out: UDP, the other seven slots, sharing of a listening
port, and the messages that concern no socket.

The code takes the next of its 32 generations without looking at what is under
way. `Spec` does the same, and there `OwnStream` fails: sixteen pairs of open and
abort fit the host's queue between two steps of the link, and bring a generation
round while messages of the connection that had it are still to come (run
`kwsocket_wrap`, finding 3). So the statement of `firmware/kui-wifi/PROTOCOL.md`,
that nothing of an earlier connection can be mistaken for the new one, needs a
condition the code leaves to its callers: a call takes a generation only when the
queues and the board hold nothing of the connection `GenCount` before (`Apart`).
`PromptSpec` is `Spec` with that asked of `Open` and `CloseNow`, and `FairSpec`
adds the fairness; the run `kwsocket` and the theorems are about these. Whoever
makes fewer than `GenCount` connections meets the condition in any case
(`FirstGenerations`).

Properties: `CreditConserved` (both ways, through full queues and reused
slots, so neither ring overruns), `OwnStream` (application and peer get exactly their
connection's bytes in order, and the end is seen only after all of them),
`Arrives`; all three of `PromptSpec`.

## Runs

| run | shows | bounds |
|---|---|---|
| `capture_safety` | the safety properties | 2 discs, tracks of 4 and 3 sectors, chunk 2, checkpoint every 3, 3 runs, 3 failures |
| `capture_silent` | claims on a lying card | 4 option sets, every format, 3 runs, 2 failures |
| `capture_live` | runs end, jobs finish | 4 runs, 3 failures |
| `capture_readback` | finding 1 (violation) | 2 runs, 1 failure |
| `kwlink_safety` | acknowledgement, fit | 2 and 3 payloads, 2 lengths, 2 faults |
| `kwlink_live` | order and acknowledgement across the wrap, everything arrives | 2 and 5 payloads, 2 lengths, 4 numbers, 2 faults; the board always has more to announce |
| `kwlink_reset` | finding 2 (violation) | 2 and 3 payloads, 2 faults |
| `vmu_store` | journal soundness, durable reads, atomic blocks | 2 blocks, 3 contents, 4 failures, any number of operations |
| `vmu_endpoint` | acknowledged is durable, reads current, held requests answered, atomic blocks | 2 blocks, 2 contents, 2 write phases, 1 cache slot, 2 tickets, deadline of 2 rounds, 2 faults |
| `updater` | sound selections, one version runs, restarts settle | 2 members, 2 contents with one label, a full and a partial delivery, a bank of engine 2, 1 repair identity, 3 sequence numbers, 1 cut, 1 act from outside |
| `kwsocket` | credit, own streams, arrival, connections apart | 3 connections, 2 generations, rings of 2, 1 and 1, 3 bytes from the peer, 2 to it, 1 lost session |
| `kwsocket_wrap` | finding 3 (violation) | 5 connections, 4 generations, a queue of 6 messages, no lost session |

Why these bounds. Tracks of 4 and 3 sectors give a chunk that a checkpoint
interval does not divide, a second track, an odd chunk that cannot be
overlapped and a leadout approach of one sector; a third run sees what a resumed
run left behind, and three failures allow a failed checkpoint, a crash and a
retry in one behaviour. The link keeps two frames outstanding, so four numbers
are the fewest for which old and new can be told apart (the code has 256);
five payloads of the board make its numbers wrap (the host's two do not, and both
ends run the same `kwl` code; `InOrder` is proved for both directions);
lengths 1 and 2 around `Poll` = 1 are a plain poll and a frame that needs a
promise. Four failures let a journal write, its recovery and the recovery of that fail,
with one to spare; two blocks show a half-written block beside one that must not
move. In `VmuEndpoint` one cache slot makes the two blocks collide, and two
faults allow a game that gives up, or a failed commit, followed by power loss.
With two tickets TLC never sees a block read, committed and read again through
the cache in one power cycle. That the commit drops the cached block it does see
(`CacheFresh`); for the read after it there are the theorems `CacheStaysFresh`
and `ReadsAreCurrent`, for any number of tickets. In
`Updater` one cut and one decayed file or copied selector meet in every order
(the invariants also hold with two of either); three sequence numbers reach the
limit. In `KwSocket` the peer sends more than the host's ring, so credit has to
come back, and three connections use one generation twice. `CHECK_DEADLOCK
FALSE` in `Capture`, `KwSocket`: with the bounds used up nobody asks for more; in
`KwLink` a quiet link only repeats itself; in `VmuEndpoint` and `Updater` a
console without tickets or without a root GUI really stops.

Fairness. `Capture`: the worker is always scheduled again and its card and
drive calls return (`WF` of `Worker`; the transports have timeouts), and the
user asks again for an unfinished job (`SF` of `New` and `Resume`, strong
because a Verify may come in between). `ResumeFinishes` therefore says that a
stubborn user gets the disc, not that one run does. `KwLink`: the network
session polls, so transfers go on (`WF` of `Exchange`). `VmuEndpoint`: the worker
is polled from the service loop and a held request is delivered again (`WF` of
`Work` and `Redeliver`). `Updater`: a program that was started runs straight into
its selection (`WF` of `BootStep`); nobody has to hold B. `KwSocket`: the host
steps and the application reads, the board's loop receives, sends and reads its
descriptor (`WF` of each). Faults are bounded, not unfair.

Findings.
1. A CRC-only job with the end read-back on that is resumed with the size-only
   check after its last checkpoint is completed with no saved byte re-read,
   against `docs/capture-format.md` and `docs/bench.cfg.example`. What is
   published claims no verification.
2. A reset pulse leaves the armed frame of the old numbering loaded. If it
   answers a SYNC, the next payload of the board is acknowledged and never
   delivered.
3. `open_slot` and `kwh_close` reuse a socket generation after 32 steps whatever
   is under way, so a late message of an earlier connection can be taken for the
   new one's, against `firmware/kui-wifi/PROTOCOL.md`. No caller in the repository
   comes near that number between two steps of the link.

## Proofs

Every theorem is about `Spec` (no fairness; for the sockets `PromptSpec`, but for
`FirstGenerations`) and every value of the constants that the named `ASSUME`s
admit; TLC evaluates those in every run. Each module has a theorem `Invariance`,
`Spec => []IndInv` (`PromptSpec => []IInv` for the sockets), whose proof has one lemma per
conjunct or per action; each inductive invariant was first checked by TLC on the
instances of the runs. The property theorems follow from it.

| property | theorem | property | theorem |
|---|---|---|---|
| `Capture` `TypeOK` | `TypeCorrect` | `VmuEndpoint` `TypeOK` | `TypeCorrect` |
| `CheckpointSound` | `CheckpointsSound` | `AckedDurable` | `AcknowledgedIsDurable` |
| `DmaExclusive` | `DmaSafe` | `CommitOwned` | `CommitStaysOwned` |
| `CommitMonotone` | `CommitsMonotone` | `CacheFresh` | `CacheStaysFresh` |
| `Resumable` | `AlwaysResumable` | `ReadCurrent` | `ReadsAreCurrent` |
| `StopKeepsPrefix` | `StopSavesAll` | `CardKept` | `Refinement` |
| `ManifestComplete` | `ManifestsComplete` | `Updater` `TypeOK` | `TypeCorrect` |
| `VerifiedClaim` | `ClaimsVerified` | `BankSound` | `BanksStaySound` |
| `ExportVerified` | `ExportsVerified` | `OneVersionRuns` | `VersionsNeverMix` |
| `VerifyReadOnly` | `VerifyWritesNothing` | `ReferencedKept` | `ReferencedBanksKept` |
| `VmuStore` `TypeOK` | `TypeCorrect` | `PublishesReviewed` | `OnlyReviewedPublished` |
| `JournalSound` | `JournalAlwaysSound` | `InstancesEarned` | `InstancesStayEarned` |
| `ReadsDurable` | `ReadsAreDurable` | `KwLink` `TypeOK` | `TypeCorrect` |
| `AtomicBlocks` | `Refinement` | `InOrder` | `DeliveredInOrder` |
| `KwSocket` `CreditConserved` | `CreditNeverLost` | `AckedDelivered` | `NothingLost` |
| `OwnStream` | `StreamsNeverMix` | `FirstFits` | `FirstFrameFits` |

### Capture

For every number of tracks, length, chunk size, checkpoint interval, retry
limit, set of discs and options, with or without silent corruption and for any
number of runs and failures. `CheckpointSound` alone is not inductive, since the
next record is made from RAM. `IndInv` adds that RAM and card agree (`MemInv`),
that the open file is as long as the position says and closed tracks are synced
(`FileInv`, `CardInv`), that chunk buffers hold the sectors about to be written
(`ChunkInv`, `DmaInv`), that the job is never behind a record of its disc
(`JobInv`), that sequence numbers alternate between the slots and grow with what
they commit (`SlotInv`, `SeqInv`), and that nothing is left between runs
(`IdleInv`).

`CaptureOutputProofs` stands on it with a second invariant, `OutInv`
(`OutputInvariance`). Its parts, and what each is for:

- `CleanInv`: only the open file is unflushed, and no file is longer than its
  track or holds data beyond its end. So a power loss outside the track loop
  changes nothing (`CleanLoss`), which `VerifyReadOnly` needs.
- `OrderInv`: a track file exists only once the newest record covers every track
  before it whole. With `CleanInv` this is `Resumable`; it is kept because what
  the newest record commits never shrinks (`NewestGrows` of `CaptureProofs`).
- `SavedInv`, `StartInv`: the job's own record is the newest and lacks at most
  the open track's sectors since the last checkpoint; on the way out of the loop
  it lacks none unless a storage operation or that checkpoint failed. Hence
  `StopKeepsPrefix`, and that a loaded job is the committed one.
- `ReadInv`: where `verified` is set, every byte was compared with hashes that
  are the disc's (`ReadWhole`), and no output with a claim is reached without.
- `VerifyInv`: Verify stays in the stages that read and compare.
- `PublishedInv`: metadata stands over a committed complete capture. From then on
  files and records never change (`PublishedStays`), so what was true when the
  manifest or the export was published stays true.

### VmuStore

For every set of blocks and contents and every number of failures.
`JournalSound` is not inductive: `IndInv` adds that only the block named by the
durable marker may differ between cache and card or be torn (`ImageInv`), that
the two markers agree or one is cleared, over images that then agree (`MarkInv`),
where each step of the protocol stands (`StepInv`), and that a marker which is
only in the cache is the pending write (`WantInv`). `FailedSync` and `DoneSync`
cover all syncs at once; `DiskMoves` is the heart of the refinement: sectors
reaching the card leave what recovery would find alone, but for the marker, which
makes the whole write happen.

### VmuEndpoint

For every set of blocks and contents, number of write phases, cache size,
deadline, number of tickets and faults. `AckedDurable` is not inductive: a SYNC
is acknowledged from what the mailbox says. `IndInv` adds that the engine's
staged block is what the game wrote (`EngineInv`), that a finished or consumed
commit was applied and a finished read holds the block (`QueueInv`), that the job
the worker holds over the dropped lock is still the mailbox's, by its ticket
(`WorkerInv`), that the deadline latches before its count runs out
(`DeadlineInv`) and that a cached block lies in its own slot (`SlotInv`). With
`CommitOwned` a finished commit is the staged block, so its acknowledgement is
true. In `Refinement` the submission of a commit is `VmuCard`'s
write, the provider's I/O its taking effect, and the fetch of the result its
return; a fault of the mailbox, like a power loss, is its failure.

### Updater

For every set of members, contents, deliveries and engine levels, any number of
repair instances, cuts and events from outside; `MaxSeq >= 2` (2^64 - 1 in the
code), and an older updater has a lower engine or no repair instances
(`LegacyAssumption`). `IndInv` says that the slot of a record follows the parity
of its number, so that two readable records never tie (`SlotInv`); that only
files of the description are written (`RowInv`); that a started program carries
the handoff of its image (`GuiInv`); and that the bank being filled has no receipt
and is referenced by nobody, its members written so far being good (`OpInv`).
The last gives `ReferencedKept` and, at the receipt, `BankSound`. `InstancesEarned`
has an invariant of its own, `CountInv`: the instances of a version are taken in
order, and unless one of them is good or being filled, there are no more than cuts
and outside events (`SpoiledInv`).

### KwLink

For every even number of sequence numbers from 4 (256 in the code), every poll
length and payload limit, any number of payloads, faults and sessions. Numbers are
compared modulo `SeqCount`, so `InOrder` needs to know which payload a number
stands for: `Numbered` says that each end's numbers are the lengths of what it
has put and got, modulo `SeqCount`, and `Leads` that a sender's window of at most
two begins no later than the receiver's next payload. Within such a span equal
numbers mean equal places, and an acknowledgement covers exactly what the peer
got; this is where four numbers, and not three, are needed. `ArmedInv` says that
the frame armed ahead mirrors the bridge as it is; that is what a reset pulse
breaks, and `WiredSpec` is not covered (finding 2). `SessionInv` makes the
host's session the newest, so that no frame of an older one is taken;
`JoiningInv` covers the bridge that has joined while the host does not know yet;
`FitInv` bounds the bridge's capacity by the host's last two promises, from which
`FirstFits` follows.

### KwSocket

For every number of generations from two up (32 in the code; with one nothing can
be told apart), every size of the buffers, rings, queues and credit batch, and any
number of connections, bytes and lost sessions, of the behaviours of `PromptSpec`.
`CreditConserved` and `OwnStream`
are not inductive, and neither can be proved without the other: a data message
that found the host's buffer full would leave a hole in the stream, and a message
of another connection would spoil the sums. `IInv` is about the one connection that
the two halves share, if they share one (`Joined`, `Talking`):

- `NearLives`: the board is never ahead of the host, and whatever is under way is
  fewer than `GenCount` connections old. Only here `Apart` is used, in the two
  steps that take a new life (`NextLife`); every other step keeps it. So equal generations are equal
  connections (`GenerationTells`), and a message is acted on only by its own.
- `DownInOrder`: the queue to the board goes through the connections in order, each
  opened before anything else is said on it; only the board's own carries data.
- `ApartUntouched`: a host that does not share the board's connection has only
  asked for its own, so the two begin together, with all the credit unspent.
- `OpeningFirst`, `ClosedLast`: "opening" is the first the host hears of a
  connection and "closed" the last. A late state message never reopens a slot.
- `HostCredit`, `BoardCredit`: the two sums of `CreditConserved`.
- `Sending`, `Receiving`: each byte under way stands at its place in the stream:
  what was read or sent, the host's buffer, the messages one after the other
  (`Placed`), the board's ring, the peer's connection.
- `PeerClosed`: behind the peer's close, wherever it has got to, there is no data.

There is one lemma per action, in two parts where messages are concerned: what
any message keeps (`SentStep`, `HandledStep`, `HeardStep`) and what this one does.
The sums over a queue are running totals (`Totals`), a recursive function; that
there is exactly one such function is shown by a least counterexample
(`LeastElement`, `AddsExists`, `AddsUnique`), and from then on only three facts
are used: what appending a message adds, what taking the first one removes, and
that messages which carry nothing count nothing. `NeverTurnedAway` draws the
conclusion for the code's two refusals: `data_r` in `kwhost.c` never finds its
buffer full and `sock_send` in `bridge.c` never lacks room on a TCP slot.
`FirstGenerations` needs no condition: with fewer connections than generations
every step of `Spec` is one of `PromptSpec` (`EarlyApart`).

### Only model-checked

Liveness (`RunEnds`, `ResumeFinishes`, `AllArrive`, `HeldAnswered`, `BootSettles`,
`Arrives`): out of the prover's reach, as is `ENABLED`.

## Plan

Done: the modules above, and the proofs of all their safety properties. Next, in
this order:

1. `RetailGd` - command tokens, asynchronous reader, abort.
2. Salvage and repair, including the in-place receipts that `Capture` leaves out.

## Not modelled

The modules follow the code that keeps state across failures or shares it
between actors, about three thousand lines. Most of the repository has no such
state: FatFs, lwext4, miniz and stb are third-party (a third of the lines);
menus and drawing show what the parts above return; game images, catalogues and
text protocols are parsers; the transports set registers and pins; and the loader
places machine code for single titles. The share of the repository's lines behind
these modules is therefore small and will stay so; what is missing among the
stateful parts is listed in the plan and in `PROJECT.json`.

------------------------------ MODULE Updater ------------------------------
(***************************************************************************)
(* The offline updater: complete software snapshots ("banks") installed    *)
(* beside an untouched root, two alternating activation records that       *)
(* select one, and the checked RAM restart that enters it.                 *)
(* (update_file.c, update_boot.c, update_work and update_boot_start of     *)
(* main.c.)                                                                *)
(*                                                                         *)
(* A bank's identity is the hash of what it holds, so an identity is that  *)
(* description: delivery flags, required engine, the content of each       *)
(* member, and the number of the repair instance.  A file is absent, the   *)
(* declared bytes ("ok"), or anything else ("bad").                        *)
(***************************************************************************)
EXTENDS Integers, FiniteSets, FiniteSetsExt

CONSTANTS
  Gui,          \* the member runtime.kui
  Members,      \* software paths; all but Gui lie in subdirectories
  Contents,     \* contents a member may have, numbered from 1
  RootGui,      \* the content of the root's own runtime.kui
  Build,        \* the build label compiled into each GUI content
  Packages,     \* deliveries the user may pick: [full, soft]
  Legacy,       \* a bank of an older updater, or Root for none
  Engine,       \* KUI_UPDATE_ENGINE_CURRENT, also the level of every GUI here
  RepairBanks,  \* REPAIR_BANKS
  MaxSeq,       \* UINT64_MAX
  MaxCuts,      \* bound: operations that end early
  MaxEnv        \* bound: decayed files and selector files copied by hand

VARIABLES
  rec,      \* active0.bin and active1.bin
  bank,     \* the directories under KUI/system
  rootOk,   \* the root's runtime.kui is intact
  gui,      \* the running program: its content, its module resolver, its handoff
  review,   \* update_reviewed: what the user was shown
  op,       \* the installation or selection under way on the storage worker
  rotten,   \* history: banks the medium has damaged
  cuts, env \* how often an operation ended early; how often the outside acted

vars == <<rec, bank, rootOk, gui, review, op, rotten, cuts, env>>

Slots == {0, 1}
NoContent == 0                 \* the description has no such row
Software == [Members -> Contents \cup {NoContent}]
Ids == [full : BOOLEAN, eng : 1..Engine, soft : Software, inst : 0..RepairBanks]
Root == [full |-> FALSE, eng |-> 0, soft |-> [m \in Members |-> NoContent], inst |-> 0]

ASSUME NamesAssumption == Gui \in Members /\ Contents \subseteq Nat \ {0}
ASSUME RootAssumption == RootGui \in Contents /\ Contents \subseteq DOMAIN Build
ASSUME DeliveriesAssumption ==
  /\ \A p \in Packages : p.full \in BOOLEAN /\ p.soft \in Software
  /\ Legacy \in Ids \cup {Root}
(* An older updater: its engine is lower, or it knew no repair instances *)
ASSUME LegacyAssumption == Legacy.eng < Engine \/ Legacy.inst = 0
ASSUME BoundsAssumption ==
  /\ Engine \in Nat \ {0} /\ MaxSeq \in Nat /\ MaxSeq >= 2
  /\ RepairBanks \in Nat /\ MaxCuts \in Nat /\ MaxEnv \in Nat

FileStates == {"absent", "ok", "bad"}
Missing == [st |-> "missing", seq |-> 0, selected |-> Root, previous |-> Root]
BadRecord == [Missing EXCEPT !.st = "bad"]
Record(n, sel, prev) == [st |-> "ok", seq |-> n, selected |-> sel, previous |-> prev]
NoHandoff == [seq |-> 0, soft |-> Root.soft]
NoPackage == [full |-> FALSE, soft |-> Root.soft]
NoReview == [kind |-> "none", pkg |-> NoPackage, target |-> Root, act |-> Missing]
NoOp == [stage |-> "idle", id |-> Root, act |-> Missing, slot |-> 0,
         todo |-> {}, shown |-> Missing]
Off == [at |-> "off", code |-> RootGui, mode |-> "root", eff |-> Root, ctx |-> NoHandoff]
RunningRoot == [Off EXCEPT !.at = "run"]
EmptyDirectory == [mem |-> [m \in Members |-> "absent"], rcpt |-> "absent", sub |-> FALSE]

-----------------------------------------------------------------------------
(* Reading the card *)

Valid(i) == rec[i].st = "ok"
Conflict == Valid(0) /\ Valid(1) /\ rec[0].seq = rec[1].seq /\ rec[0] # rec[1]
NewestSlot == IF Valid(1) /\ (~Valid(0) \/ rec[1].seq > rec[0].seq) THEN 1 ELSE 0

(* kui_update_activation_latest, then activation_for_update: no records at *)
(* all, or malformed ones under a running root, are an empty selection     *)
Current(act, slot, recovering) ==
  [ok |-> TRUE, act |-> act, slot |-> slot, recovering |-> recovering]
NoCurrent == [Current(Missing, 0, FALSE) EXCEPT !.ok = FALSE]

ActivationForUpdate ==
  IF ~Conflict /\ (Valid(0) \/ Valid(1)) THEN Current(rec[NewestSlot], NewestSlot, FALSE)
  ELSE IF \A i \in Slots : rec[i] = Missing THEN Current(Missing, 0, FALSE)
  ELSE IF /\ gui.mode = "root" /\ rootOk
          /\ Conflict => \E i \in Slots : rec[i].selected = Root
       THEN Current([Missing EXCEPT !.seq = IF Conflict THEN rec[0].seq ELSE 0],
                    IF Conflict /\ rec[0].selected # Root THEN 1 ELSE 0, TRUE)
       ELSE NoCurrent

Receipt(b) == b \in DOMAIN bank /\ bank[b].rcpt = "ok"
Rows(b) == {m \in Members : b.soft[m] # NoContent}
MembersOk(b) == \A m \in Rows(b) : bank[b].mem[m] = "ok"
BankVerify(b) == Receipt(b) /\ MembersOk(b)

(* kui_update_target_verify: the root's engine is also the least a restore *)
(* target must declare                                                     *)
TargetVerify(b) == rootOk /\ (b # Root => BankVerify(b) /\ b.eng >= Engine)

SameSnapshot(a, b) == a.full = b.full /\ a.eng = b.eng /\ a.soft = b.soft

(* kui_update_effective_snapshot *)
Effective == IF gui.mode = "bank" THEN gui.eff ELSE Root

-----------------------------------------------------------------------------
(* What a delivery becomes, and where *)

(* snapshot_prepare: a partial delivery is laid over the software that is  *)
(* running; whatever is kept is verified where it lies                     *)
Snapshot(p) ==
  LET base == IF p.full THEN Root ELSE Effective
      soft == [m \in Members |-> IF p.soft[m] # NoContent THEN p.soft[m]
                                 ELSE base.soft[m]]
  IN [full |-> IF base = Root THEN p.full ELSE base.full, eng |-> Engine, inst |-> 0,
      soft |-> IF soft[Gui] = NoContent THEN [soft EXCEPT ![Gui] = RootGui] ELSE soft]

SnapshotPrepared(p) ==
  /\ rootOk
  /\ ~p.full => /\ gui.mode # "block"
                /\ Effective # Root =>
                     /\ Receipt(Effective)
                     /\ \A m \in Rows(Effective) :
                          p.soft[m] = NoContent => bank[Effective].mem[m] = "ok"

(* Fault variants ("Bad...") stand before the definition they would replace *)
Named(r) == {r.selected, r.previous}
BadProtected(act, b) == b = Effective
Protected(act, b) ==
  \/ b \in Named(act) \cup {Effective}
  \/ \E i \in Slots : Valid(i) /\ b \in Named(rec[i])
Nonempty(b) ==
  /\ b \in DOMAIN bank
  /\ bank[b].sub \/ bank[b].rcpt # "absent" \/ \E m \in Members : bank[b].mem[m] # "absent"

BadCandidate(act, full, b) ==
  IF Receipt(b) \/ Protected(act, b) \/ (full /\ Nonempty(b)) THEN "refused" ELSE "fresh"

(* snapshot_target for one candidate directory *)
Candidate(act, full, b) ==
  IF Receipt(b) THEN IF MembersOk(b) THEN "complete" ELSE "refused"
  ELSE IF Protected(act, b) \/ (full /\ Nonempty(b)) THEN "refused" ELSE "fresh"

Target(result, b) == [result |-> result, id |-> b]
SnapshotTarget(act, full, snap) ==
  LET inst(k) == [snap EXCEPT !.inst = k]
      usable == {k \in 0..RepairBanks : Candidate(act, full, inst(k)) # "refused"}
  IN CASE full -> IF usable = {} THEN Target("limit", snap)
                  ELSE LET b == inst(Min(usable)) IN Target(Candidate(act, full, b), b)
       [] ~full /\ Effective \notin {Root, snap} /\ Receipt(Effective)
                /\ SameSnapshot(snap, Effective) ->
            Target(IF MembersOk(Effective) THEN "complete" ELSE "refused", Effective)
       [] OTHER -> Target(Candidate(act, full, snap), snap)

-----------------------------------------------------------------------------
Init ==
  /\ rootOk = TRUE /\ gui = Off /\ review = NoReview /\ op = NoOp
  /\ rotten = {} /\ cuts = 0 /\ env = 0
  /\ \/ bank = <<>> /\ rec = [i \in Slots |-> Missing]
     \/ /\ Legacy # Root
        /\ bank = [b \in {Legacy} |->
             [mem |-> [m \in Members |-> IF m \in Rows(b) THEN "ok" ELSE "absent"],
              rcpt |-> "ok", sub |-> TRUE]]
        /\ rec = [i \in Slots |-> IF i = 0 THEN Record(1, Legacy, Root) ELSE Missing]

Idle == gui.at = "run" /\ op = NoOp

-----------------------------------------------------------------------------
(* The user: review, then confirm (update_work) *)

Review ==
  /\ Idle
  /\ LET cur == ActivationForUpdate IN
     \E r \in [kind : {"install"}, pkg : Packages, target : {Root}, act : {cur.act}] \cup
              [kind : {"restore"}, pkg : {NoPackage}, target : {cur.act.previous, Root},
               act : {cur.act}] :
       LET ready == IF r.kind = "restore" THEN TargetVerify(r.target)
                    ELSE /\ SnapshotPrepared(r.pkg)
                         /\ SnapshotTarget(cur.act, r.pkg.full, Snapshot(r.pkg)).result
                              \in {"complete", "fresh"}
       IN review' = IF cur.ok /\ ready THEN r ELSE NoReview
  /\ UNCHANGED <<rec, bank, rootOk, gui, op, rotten, cuts, env>>

(* kui_update_install and install_snapshot up to the first write, or       *)
(* kui_update_select up to publish                                         *)
BeginInstall(cur) ==
  LET p == review.pkg
      t == SnapshotTarget(cur.act, p.full, Snapshot(p))
      begin(stage) == [stage |-> stage, id |-> t.id, act |-> cur.act, slot |-> cur.slot,
                       todo |-> Rows(t.id), shown |-> review.act]
  IN CASE cur.act.seq = MaxSeq \/ ~SnapshotPrepared(p) -> NoOp
       [] OTHER -> CASE t.result = "complete" -> begin("publish")
                     [] t.result = "fresh" -> begin("directories")
                     [] OTHER -> NoOp

BeginSelect(cur) ==
  IF ~TargetVerify(review.target) THEN NoOp
  ELSE [stage |-> "publish", id |-> review.target, act |-> cur.act, slot |-> cur.slot,
        todo |-> {}, shown |-> review.act]

Confirm ==
  /\ Idle /\ review # NoReview
  /\ LET cur == ActivationForUpdate IN
     op' = IF ~cur.ok \/ cur.act # review.act THEN NoOp
           ELSE IF review.kind = "install" THEN BeginInstall(cur) ELSE BeginSelect(cur)
  /\ review' = NoReview
  /\ UNCHANGED <<rec, bank, rootOk, gui, rotten, cuts, env>>

-----------------------------------------------------------------------------
(* The storage worker.  Every step may instead be the operation's last: it *)
(* fails, is cancelled, or the power goes, and the file being written      *)
(* holds whatever had reached the medium.                                  *)
Done == op' = NoOp /\ UNCHANGED <<gui, review, cuts>>
Continue(stage, todo) ==
  op' = [op EXCEPT !.stage = stage, !.todo = todo] /\ UNCHANGED <<gui, review, cuts>>
CutShort ==
  /\ cuts < MaxCuts /\ cuts' = cuts + 1 /\ op' = NoOp /\ review' = NoReview
  /\ gui' \in {gui, Off}

(* Stop is polled between the writes *)
Cancel ==
  /\ op.stage # "idle" /\ CutShort
  /\ UNCHANGED <<rec, bank, rootOk, rotten, env>>

Directory == IF op.id \in DOMAIN bank THEN bank[op.id] ELSE EmptyDirectory
PutDirectory(d) ==
  bank' = [b \in DOMAIN bank \cup {op.id} |-> IF b = op.id THEN d ELSE bank[b]]

(* directories *)
MakeDirectories ==
  /\ op.stage = "directories"
  /\ \/ /\ PutDirectory([Directory EXCEPT !.sub = @ \/ Rows(op.id) # {Gui}])
        /\ Continue("clear", op.todo) \/ CutShort
     \/ PutDirectory(Directory) /\ CutShort
  /\ UNCHANGED <<rec, rootOk, rotten, env>>

(* clear_partial: the members, then the receipt *)
ClearPartial ==
  /\ op.stage = "clear"
  /\ \/ PutDirectory([EmptyDirectory EXCEPT !.sub = Directory.sub]) /\ Continue("members", op.todo)
     \/ /\ \E cleared \in SUBSET Members :
             PutDirectory([Directory EXCEPT !.mem =
               [m \in Members |-> IF m \in cleared THEN "absent" ELSE @[m]]])
        /\ CutShort
  /\ UNCHANGED <<rec, rootOk, rotten, env>>

BadWriteMember ==
  /\ op.stage = "members" /\ op.todo # {}
  /\ \E m \in op.todo, written \in {"ok", "bad"} :        \* not verified
       /\ PutDirectory([Directory EXCEPT !.mem[m] = written])
       /\ Continue("members", op.todo \ {m})
  /\ UNCHANGED <<rec, rootOk, rotten, env>>

(* One turn of install_snapshot's loop: copy, sync, close, verify_member *)
WriteMember ==
  /\ op.stage = "members" /\ op.todo # {}
  /\ \E m \in op.todo :
       /\ m = Gui \/ Gui \notin op.todo
       /\ \/ PutDirectory([Directory EXCEPT !.mem[m] = "ok"]) /\ Continue("members", op.todo \ {m})
          \/ \E left \in FileStates : PutDirectory([Directory EXCEPT !.mem[m] = left]) /\ CutShort
  /\ UNCHANGED <<rec, rootOk, rotten, env>>

(* The receipt, created after the last member and never over an existing   *)
(* file: clear_partial has left none                                       *)
WriteReceipt ==
  /\ op.stage = "members" /\ op.todo = {}
  /\ Directory.rcpt = "absent"
  /\ \/ PutDirectory([Directory EXCEPT !.rcpt = "ok"]) /\ Continue("publish", {})
     \/ \E left \in FileStates : PutDirectory([Directory EXCEPT !.rcpt = left]) /\ CutShort
  /\ UNCHANGED <<rec, rootOk, rotten, env>>

(* publish: the selection must still be the one reviewed; the next record  *)
(* replaces the older of the two                                           *)
BadPublishSlot(cur) == cur.slot
PublishSlot(cur) == IF cur.act.seq = 0 THEN 0 ELSE 1 - cur.slot
Stale(cur) == ~cur.ok \/ cur.act # op.act \/ (cur.act.seq # 0 /\ cur.slot # op.slot)

BadPublish ==
  /\ op.stage = "publish"
  /\ LET cur == ActivationForUpdate IN
     IF Stale(cur) \/ (~cur.recovering /\ cur.act.selected = op.id) THEN Done /\ UNCHANGED rec
     ELSE rec' = [rec EXCEPT ![PublishSlot(cur)] =
                    Record(cur.act.seq + 1, op.id, cur.act.selected)] /\ Done
  /\ UNCHANGED <<bank, rootOk, rotten, env>>

Publish ==
  /\ op.stage = "publish"
  /\ LET cur == ActivationForUpdate
         s == PublishSlot(cur)
         next == Record(cur.act.seq + 1, op.id, cur.act.selected)
     IN IF \/ Stale(cur)
           \/ ~cur.recovering /\ cur.act.selected = op.id
           \/ cur.act.seq = MaxSeq
        THEN Done /\ UNCHANGED rec
        ELSE \/ rec' = [rec EXCEPT ![s] = next] /\ Done
             \/ /\ \E left \in {rec[s], BadRecord, next} \cup
                               (IF Valid(s) THEN {} ELSE {Missing}) :
                     rec' = [rec EXCEPT ![s] = left]
                /\ CutShort
  /\ UNCHANGED <<bank, rootOk, rotten, env>>

-----------------------------------------------------------------------------
(* Starting and restarting *)

(* The loader enters the root GUI, whose handoff slot is empty: root       *)
(* modules, whatever is selected (main)                                    *)
ColdBoot ==
  /\ gui.at = "off" /\ rootOk /\ gui' = RunningRoot
  /\ UNCHANGED <<rec, bank, rootOk, review, op, rotten, cuts, env>>

PowerOff ==
  /\ gui.at # "off" /\ op = NoOp /\ gui' = Off /\ review' = NoReview
  /\ UNCHANGED <<rec, bank, rootOk, op, rotten, cuts, env>>

Blocked == [gui EXCEPT !.at = "run", !.mode = "block", !.eff = Root, !.ctx = NoHandoff]
Chain(code, ctx) == [at |-> "boot", code |-> code, mode |-> "block", eff |-> Root, ctx |-> ctx]

BadBaseline(force) ==
  IF ~rootOk THEN Blocked
  ELSE IF Build[gui.code] = Build[RootGui]
       THEN [gui EXCEPT !.at = "run", !.mode = "root", !.eff = Root, !.ctx = NoHandoff]
       ELSE Chain(RootGui, NoHandoff)

(* baseline: the running program may stay only when it was not chained     *)
Baseline(force) ==
  IF ~rootOk THEN Blocked
  ELSE IF ~force /\ Build[gui.code] = Build[RootGui]
       THEN [gui EXCEPT !.at = "run", !.mode = "root", !.eff = Root, !.ctx = NoHandoff]
       ELSE Chain(RootGui, NoHandoff)

(* adopt: the handoff must be for this record's sequence and manifest, and *)
(* of the file on the card only size, header and empty slot are read again *)
Adopts(r, header) ==
  /\ gui.ctx # NoHandoff /\ r.selected.eng >= Engine
  /\ gui.ctx.seq = r.seq /\ gui.ctx.soft = r.selected.soft
  /\ Build[gui.code] = Build[r.selected.soft[Gui]]
  /\ CASE bank[r.selected].mem[Gui] = "ok" -> TRUE
       [] bank[r.selected].mem[Gui] = "bad" -> header
       [] OTHER -> FALSE

BadAttempt(r, force, header) ==
  IF r.selected = Root THEN "baseline"
  ELSE IF ~Receipt(r.selected) THEN "refused"
  ELSE IF ~force /\ Adopts(r, header) THEN "pinned"
  ELSE IF bank[r.selected].mem[Gui] = "ok" THEN "chain" ELSE "refused"

(* read_selected for one record *)
Attempt(r, force, header) ==
  IF r.selected = Root THEN "baseline"
  ELSE IF ~Receipt(r.selected) \/ r.selected.eng < Engine THEN "refused"
  ELSE IF ~force /\ Adopts(r, header) THEN "pinned"
  ELSE IF bank[r.selected].mem[Gui] = "ok" THEN "chain" ELSE "refused"

(* read_selected: the newest valid record, the older one, the root *)
ReadSelected(force, header) ==
  LET tried == {i \in Slots : Valid(i) /\ ~Conflict /\
                              Attempt(rec[i], force, header) # "refused"}
      i == IF NewestSlot \in tried THEN NewestSlot ELSE 1 - NewestSlot
      r == rec[i]
      outcome == IF tried = {} THEN "baseline" ELSE Attempt(r, force, header)
  IN CASE outcome = "baseline" -> Baseline(force \/ gui.ctx # NoHandoff)
       [] outcome = "pinned" ->
            [gui EXCEPT !.at = "run", !.mode = "bank", !.eff = r.selected, !.ctx = NoHandoff]
       [] outcome = "chain" ->
            Chain(r.selected.soft[Gui], [seq |-> r.seq, soft |-> r.selected.soft])

(* kui_update_boot_reload: a failure keeps the program that is running *)
Restart ==
  /\ Idle
  /\ LET next == ReadSelected(TRUE, FALSE) IN
       /\ next.at = "boot" /\ gui' = next /\ review' = NoReview
  /\ UNCHANGED <<rec, bank, rootOk, op, rotten, cuts, env>>

(* A chained GUI enters main: with an empty slot it is the root, else      *)
(* update_boot_start resolves again                                        *)
BootStep ==
  /\ gui.at = "boot"
  /\ IF gui.ctx = NoHandoff THEN gui' = [gui EXCEPT !.at = "run", !.mode = "root"]
     ELSE \E header \in BOOLEAN : gui' = ReadSelected(FALSE, header)
  /\ UNCHANGED <<rec, bank, rootOk, review, op, rotten, cuts, env>>

(* B held asks for the baseline *)
BaselineAsked ==
  /\ gui.at = "boot" /\ gui.ctx # NoHandoff /\ gui' = Baseline(TRUE)
  /\ UNCHANGED <<rec, bank, rootOk, review, op, rotten, cuts, env>>

(* The card does not open, or the image may not be entered *)
BootRefused ==
  /\ gui.at = "boot" /\ gui.ctx # NoHandoff /\ gui' = Blocked
  /\ UNCHANGED <<rec, bank, rootOk, review, op, rotten, cuts, env>>

-----------------------------------------------------------------------------
(* The outside *)
Outside == env < MaxEnv /\ env' = env + 1

(* A file decays on the medium *)
Rot ==
  /\ Outside
  /\ \/ \E i \in Slots : Valid(i) /\ rec' = [rec EXCEPT ![i] = BadRecord]
        /\ UNCHANGED <<bank, rootOk, rotten>>
     \/ \E b \in DOMAIN bank :
          /\ rotten' = rotten \cup {b}
          /\ \/ bank[b].rcpt = "ok" /\ bank' = [bank EXCEPT ![b].rcpt = "bad"]
             \/ \E m \in Members :
                  bank[b].mem[m] = "ok" /\ bank' = [bank EXCEPT ![b].mem[m] = "bad"]
          /\ UNCHANGED <<rec, rootOk>>
     \/ rootOk /\ rootOk' = FALSE /\ UNCHANGED <<rec, bank, rotten>>
  /\ UNCHANGED <<gui, review, op, cuts>>

(* The bootstrap repair ZIP is copied over by hand: the root GUI and one   *)
(* or both of its selectors, numbered 1 and 2, which name the root         *)
BootstrapZip ==
  /\ Outside /\ op = NoOp /\ rootOk' = TRUE
  /\ \E copied \in SUBSET Slots :
       rec' = [i \in Slots |-> IF i \in copied THEN Record(i + 1, Root, Root) ELSE rec[i]]
  /\ UNCHANGED <<bank, gui, review, op, rotten, cuts>>

Next ==
  \/ Review \/ Confirm \/ Cancel
  \/ MakeDirectories \/ ClearPartial \/ WriteMember \/ WriteReceipt \/ Publish
  \/ ColdBoot \/ PowerOff \/ Restart \/ BootStep \/ BaselineAsked \/ BootRefused
  \/ Rot \/ BootstrapZip

Spec == Init /\ [][Next]_vars

(* The started program runs straight into its boot selection *)
FairSpec == Spec /\ WF_vars(BootStep)

-----------------------------------------------------------------------------
(* Properties *)

(* Every variable holds what its declaration says (the records of          *)
(* update.h and the static state of update_boot.c and main.c).             *)
Versions == Ids \cup {Root}
Records == [st : {"missing", "bad", "ok"}, seq : 0..MaxSeq,
            selected : Versions, previous : Versions]
Directories == [mem : [Members -> FileStates], rcpt : FileStates, sub : BOOLEAN]
Programs == [at : {"off", "boot", "run"}, code : Contents, mode : {"root", "bank", "block"},
             eff : Versions, ctx : [seq : 0..MaxSeq, soft : Software]]
Reviews == [kind : {"install"}, pkg : Packages, target : {Root}, act : Records] \cup
           [kind : {"none", "restore"}, pkg : {NoPackage}, target : Versions, act : Records]
Operations == [stage : {"idle", "directories", "clear", "members", "publish"}, id : Versions,
               act : Records, slot : Slots, todo : SUBSET Members, shown : Records]
TypeOK ==
  /\ rec \in [Slots -> Records] /\ rootOk \in BOOLEAN
  /\ DOMAIN bank \subseteq Ids /\ bank \in [DOMAIN bank -> Directories]
  /\ rotten \subseteq DOMAIN bank
  /\ gui \in Programs /\ review \in Reviews /\ op \in Operations
  /\ cuts \in 0..MaxCuts /\ env \in 0..MaxEnv

(* A receipt stands only over a complete bank, and an activation record    *)
(* that can be read names, as its selection and as the version to go back  *)
(* to, only the root or a bank with its receipt: whatever write of an      *)
(* installation the power cut, unless the medium itself lost the file      *)
(* (install_snapshot's order, publish).                                    *)
BankSound ==
  /\ \A b \in DOMAIN bank \ rotten : Receipt(b) => MembersOk(b)
  /\ \A i \in Slots : Valid(i) =>
       \A b \in Named(rec[i]) \ ({Root} \cup rotten) : Receipt(b)

(* No operation of the updater touches a complete bank, nor one that a     *)
(* readable record names or that is running, damaged as it may be: the     *)
(* repair of a damaged bank goes elsewhere (snapshot_target; updater.md:   *)
(* "Existing or referenced banks are never rewritten in place").           *)
Referenced(b) == b = Effective \/ \E i \in Slots : Valid(i) /\ b \in Named(rec[i])
ReferencedKept ==
  [][env' = env => \A b \in DOMAIN bank :
       BankVerify(b) \/ Referenced(b) => b \in DOMAIN bank' /\ bank'[b] = bank[b]]_vars

(* The newest selection changes only to the version the user confirmed, by *)
(* one in sequence, and only while the newest selection is still the one   *)
(* that user was shown: a torn record, a selection that changed behind the *)
(* review or a second confirmation leave the former newest record in       *)
(* charge (update_work's review, publish).                                 *)
Newest == IF Valid(0) \/ Valid(1) THEN rec[NewestSlot] ELSE Missing
PublishesReviewed ==
  [][Newest' # Newest /\ env' = env =>
       /\ op.stage = "publish" /\ Newest'.selected = op.id
       /\ Newest'.seq = op.shown.seq + 1 /\ Newest'.previous = op.shown.selected
       /\ Newest = op.shown \/ (Newest = Missing /\ op.shown.seq = 0)]_vars

(* The modules the running program loads are those of the version it was   *)
(* itself taken from: root modules under the root GUI, a bank's modules    *)
(* under that bank's GUI, though two GUIs may carry one build label and    *)
(* the selection may change between a restart and the handoff's adoption   *)
(* (read_selected, adopt, baseline).                                       *)
OneVersionRuns ==
  gui.at = "run" =>
    /\ gui.mode = "root" => gui.code = RootGui
    /\ gui.mode = "bank" => gui.code = gui.eff.soft[Gui]

(* A restart comes to rest: a chain of handoffs, each GUI resolving the    *)
(* selection again, always ends in a running program (read_selected        *)
(* refuses a bank whose receipt could not be adopted on the next entry).   *)
BootSettles == gui.at = "boot" ~> gui.at # "boot"

(* Directories of one version do not pile up: beyond the first, each is    *)
(* owed to an installation that ended early or to damage from outside, so  *)
(* installing a version again, however often, adds none and the identities *)
(* run out (LIMIT) no sooner than after RepairBanks + 1 such events        *)
(* (snapshot_target takes a complete bank as it is).                       *)
Instances(b) == {c \in DOMAIN bank : SameSnapshot(b, c)}
InstancesEarned == \A b \in DOMAIN bank : Cardinality(Instances(b)) <= cuts + env + 1
=============================================================================

--------------------------- MODULE UpdaterProofs ---------------------------
(***************************************************************************)
(* Proofs about Updater for every set of members, contents and deliveries, *)
(* every engine level, and every number of repair banks, cuts and outside  *)
(* events.                                                                 *)
(***************************************************************************)
EXTENDS Updater, FiniteSetTheorems, WellFoundedInduction, TLAPS

-----------------------------------------------------------------------------
(* The inductive invariant *)

(* The two activation records alternate: odd numbers are in active0.bin,   *)
(* even ones in active1.bin, so two readable records never tie.            *)
SlotInv == \A i \in Slots : Valid(i) => rec[i].seq >= 1 /\ rec[i].seq % 2 = 1 - i

(* Only files the description has a row for are ever written. *)
RowInv == \A b \in DOMAIN bank : \A m \in Members : bank[b].mem[m] # "absent" => m \in Rows(b)

(* A chained program carries the handoff of the image it was taken from;   *)
(* nothing is installed while one starts; what runs from a bank is there.  *)
GuiInv ==
  /\ gui.at = "boot" => gui.code = IF gui.ctx = NoHandoff THEN RootGui ELSE gui.ctx.soft[Gui]
  /\ op.stage # "idle" => gui.at = "run"
  /\ gui.mode = "bank" => gui.eff \in DOMAIN bank

(* The bank being filled is nobody's selection and has no receipt; the     *)
(* members written so far are good, unless the medium damaged the bank;    *)
(* what is about to be selected has its receipt.                           *)
Filling == op.stage \in {"directories", "clear", "members"}
OpInv ==
  /\ op.stage = "idle" => op = NoOp
  /\ op.shown = op.act
  /\ Filling => /\ op.id \in Ids /\ op.id.eng = Engine /\ op.todo \subseteq Rows(op.id)
                /\ ~Receipt(op.id) /\ ~Referenced(op.id)
                /\ op.stage # "directories" => op.id \in DOMAIN bank
                /\ op.stage # "members" => op.todo = Rows(op.id)
  /\ op.stage = "members" =>
       /\ bank[op.id].rcpt = "absent"
       /\ op.id \notin rotten => \A m \in Rows(op.id) \ op.todo : bank[op.id].mem[m] = "ok"
  /\ op.stage = "publish" => op.id = Root \/ op.id \in rotten \/ Receipt(op.id)

Safe == SlotInv /\ RowInv /\ GuiInv /\ OpInv
IndInv == TypeOK /\ Safe /\ BankSound /\ OneVersionRuns

(* How many directories a version may have: those that an event spoiled,   *)
(* and one more, which is complete or being filled.  The instances of a    *)
(* version of this engine are taken in order.                              *)
Good(c) == BankVerify(c) \/ (op.stage \in {"clear", "members"} /\ op.id = c)
Instance(b, k) == [b EXCEPT !.inst = k]
DirectoriesInv ==
  /\ IsFiniteSet(DOMAIN bank)
  /\ \A b \in DOMAIN bank : b.eng = Engine => \A k \in 0..b.inst : Instance(b, k) \in DOMAIN bank
  /\ op.stage = "directories" =>
       \A k \in 0..RepairBanks : k < op.id.inst => Instance(op.id, k) \in DOMAIN bank
SpoiledInv ==
  /\ \A b \in DOMAIN bank :
       (\A c \in Instances(b) : ~Good(c)) => Cardinality(Instances(b)) <= cuts + env
  /\ op.stage = "directories" /\ op.id \notin DOMAIN bank =>
       Cardinality(Instances(op.id)) <= cuts + env
  /\ op.stage = "members" =>
       \/ \A m \in Rows(op.id) \ op.todo : bank[op.id].mem[m] = "ok"
       \/ Cardinality(Instances(op.id)) <= cuts + env
CountInv == DirectoriesInv /\ SpoiledInv /\ InstancesEarned

-----------------------------------------------------------------------------
(* Constants *)
LEMMA RootFacts ==
  /\ Root \in Versions /\ Root \notin Ids /\ Root.soft \in Software /\ Root.eng = 0
  /\ RootGui \in Contents /\ Gui \in Members /\ NoContent \notin Contents
<1>1. [m \in Members |-> NoContent] \in Software
  BY DEF Software
<1>2. Root.eng = 0 /\ Root.soft = [m \in Members |-> NoContent]
  BY DEF Root
<1>3. Root \notin Ids
  BY <1>2 DEF Ids
<1> QED BY <1>1, <1>2, <1>3, RootAssumption, NamesAssumption DEF Versions, NoContent

LEMMA IdFacts ==
  ASSUME NEW b \in Ids
  PROVE  /\ b \in Versions /\ b # Root /\ b.soft \in Software /\ b.eng \in 1..Engine
         /\ b.inst \in 0..RepairBanks /\ b.full \in BOOLEAN
BY RootFacts DEF Ids, Versions

LEMMA RecordTypes ==
  /\ Missing \in Records /\ BadRecord \in Records
  /\ Missing.st = "missing" /\ Missing.seq = 0 /\ Missing.selected = Root
  /\ Missing.previous = Root /\ BadRecord.st = "bad"
  /\ \A n \in 0..MaxSeq, a, b \in Versions :
       /\ Record(n, a, b) \in Records /\ Record(n, a, b).st = "ok" /\ Record(n, a, b).seq = n
       /\ Record(n, a, b).selected = a /\ Record(n, a, b).previous = b
BY RootFacts, BoundsAssumption DEF Missing, BadRecord, Records, Record

LEMMA FreshTypes ==
  /\ NoHandoff \in [seq : 0..MaxSeq, soft : Software] /\ NoHandoff.seq = 0
  /\ Off \in Programs /\ RunningRoot \in Programs
  /\ Off.at = "off" /\ Off.mode = "root" /\ RunningRoot.at = "run" /\ RunningRoot.mode = "root"
  /\ RunningRoot.code = RootGui
  /\ NoReview \in Reviews /\ NoReview.kind = "none"
  /\ NoOp \in Operations /\ NoOp.stage = "idle" /\ NoOp.shown = NoOp.act
  /\ EmptyDirectory \in Directories
<1>1. NoHandoff \in [seq : 0..MaxSeq, soft : Software] /\ NoHandoff.seq = 0
  BY RootFacts, BoundsAssumption DEF NoHandoff
<1>2. /\ Off \in Programs /\ RunningRoot \in Programs
      /\ Off.at = "off" /\ Off.mode = "root" /\ RunningRoot.at = "run"
      /\ RunningRoot.mode = "root" /\ RunningRoot.code = RootGui
  BY <1>1, RootFacts DEF Off, RunningRoot, Programs
<1>3. NoReview \in Reviews /\ NoReview.kind = "none"
  BY RecordTypes, RootFacts DEF NoReview, Reviews
<1>4. NoOp \in Operations /\ NoOp.stage = "idle" /\ NoOp.shown = NoOp.act
  BY RecordTypes, RootFacts DEF NoOp, Operations, Slots
<1>5. EmptyDirectory \in Directories
  BY DEF EmptyDirectory, Directories, FileStates
<1> QED BY <1>1, <1>2, <1>3, <1>4, <1>5

LEMMA InitInv == Init => IndInv
<1> SUFFICES ASSUME Init PROVE IndInv
  OBVIOUS
<1>1. /\ rootOk = TRUE /\ gui = Off /\ review = NoReview /\ op = NoOp /\ rotten = {}
      /\ cuts = 0 /\ env = 0
  BY DEF Init
<1>2. GuiInv /\ OpInv /\ OneVersionRuns
  BY <1>1, FreshTypes, RootFacts DEF GuiInv, OpInv, Filling, OneVersionRuns
<1>3. /\ rec \in [Slots -> Records] /\ DOMAIN bank \subseteq Ids
      /\ bank \in [DOMAIN bank -> Directories] /\ SlotInv /\ RowInv /\ BankSound
  <2>1. CASE bank = <<>> /\ rec = [i \in Slots |-> Missing]
    <3>1. DOMAIN bank = {} /\ bank = [b \in {} |-> 0]
      BY <2>1
    <3>2. rec \in [Slots -> Records] /\ \A i \in Slots : rec[i].st = "missing"
      BY <2>1, RecordTypes
    <3> QED BY <3>1, <3>2 DEF SlotInv, RowInv, BankSound, Valid, Slots
  <2>2. CASE /\ Legacy # Root
             /\ bank = [b \in {Legacy} |->
                  [mem |-> [m \in Members |-> IF m \in Rows(b) THEN "ok" ELSE "absent"],
                   rcpt |-> "ok", sub |-> TRUE]]
             /\ rec = [i \in Slots |-> IF i = 0 THEN Record(1, Legacy, Root) ELSE Missing]
    <3>1. Legacy \in Ids
      BY <2>2, DeliveriesAssumption
    <3>2. /\ DOMAIN bank = {Legacy} /\ bank[Legacy] \in Directories /\ bank[Legacy].rcpt = "ok"
          /\ \A m \in Members : bank[Legacy].mem[m] = IF m \in Rows(Legacy) THEN "ok" ELSE "absent"
      BY <2>2 DEF Directories, FileStates
    <3>3. bank \in [DOMAIN bank -> Directories]
      BY <2>2, <3>2
    <3>4. /\ Record(1, Legacy, Root) \in Records /\ Record(1, Legacy, Root).st = "ok"
          /\ Record(1, Legacy, Root).seq = 1 /\ Record(1, Legacy, Root).selected = Legacy
          /\ Record(1, Legacy, Root).previous = Root
      <4>1. 1 \in 0..MaxSeq /\ Legacy \in Versions /\ Root \in Versions
        BY <3>1, IdFacts, RootFacts, BoundsAssumption
      <4> QED BY <4>1, RecordTypes
    <3>5. /\ rec \in [Slots -> Records] /\ rec[0] = Record(1, Legacy, Root) /\ rec[1].st = "missing"
      BY <2>2, <3>4, RecordTypes DEF Slots
    <3>6. SlotInv
      BY <3>4, <3>5 DEF SlotInv, Valid, Slots
    <3>7. RowInv
      BY <3>2 DEF RowInv
    <3>8. Receipt(Legacy) /\ MembersOk(Legacy)
      BY <3>2 DEF Receipt, MembersOk, Rows
    <3>9. BankSound
      BY <3>2, <3>4, <3>5, <3>8 DEF BankSound, Valid, Slots, Named
    <3> QED BY <3>1, <3>2, <3>3, <3>5, <3>6, <3>7, <3>9
  <2> QED BY <2>1, <2>2 DEF Init
<1>4. TypeOK
  <2>1. 0 \in 0..MaxCuts /\ 0 \in 0..MaxEnv /\ {} \subseteq DOMAIN bank /\ TRUE \in BOOLEAN
    BY BoundsAssumption
  <2> QED BY <1>1, <1>3, <2>1, FreshTypes, Zenon DEF TypeOK
<1> QED BY <1>2, <1>3, <1>4 DEF IndInv, Safe

-----------------------------------------------------------------------------
(* Reading the card *)

(* Alternation decides between the two records: what the updater and the   *)
(* boot take for the current selection is the newest readable record.      *)
LEMMA CurrentFacts ==
  ASSUME TypeOK, SlotInv
  PROVE  /\ ~Conflict /\ NewestSlot \in Slots /\ Newest \in Records
         /\ ActivationForUpdate.act = Newest /\ ActivationForUpdate.slot = NewestSlot
         /\ IF Valid(0) \/ Valid(1)
            THEN /\ Valid(NewestSlot) /\ Newest = rec[NewestSlot] /\ Newest.seq >= 1
                 /\ ActivationForUpdate.ok /\ ~ActivationForUpdate.recovering
            ELSE Newest = Missing /\ NewestSlot = 0
<1>1. /\ 0 \in Slots /\ 1 \in Slots /\ rec[0] \in Records /\ rec[1] \in Records
      /\ rec[0].seq \in Nat /\ rec[1].seq \in Nat
  BY BoundsAssumption DEF TypeOK, Slots, Records
<1>2. ~Conflict
  BY <1>1 DEF SlotInv, Conflict
<1>3. /\ NewestSlot \in Slots
      /\ Valid(0) \/ Valid(1) => Valid(NewestSlot)
      /\ ~Valid(0) /\ ~Valid(1) => NewestSlot = 0
  BY <1>1 DEF NewestSlot
<1>4. CASE Valid(0) \/ Valid(1)
  <2>1. ActivationForUpdate = Current(rec[NewestSlot], NewestSlot, FALSE)
    BY <1>2, <1>4 DEF ActivationForUpdate
  <2>2. Newest = rec[NewestSlot]
    BY <1>4 DEF Newest
  <2>3. rec[NewestSlot] \in Records /\ rec[NewestSlot].seq >= 1
    BY <1>1, <1>3, <1>4 DEF SlotInv, Slots
  <2> QED BY <1>2, <1>3, <1>4, <2>1, <2>2, <2>3 DEF Current
<1>5. CASE ~(Valid(0) \/ Valid(1))
  <2>1. Newest = Missing
    BY <1>5 DEF Newest
  <2>2. [Missing EXCEPT !.seq = 0] = Missing
    BY DEF Missing
  <2>3. \/ ActivationForUpdate = Current(Missing, 0, FALSE)
        \/ ActivationForUpdate = Current(Missing, 0, TRUE)
        \/ ActivationForUpdate = NoCurrent
    BY <1>2, <1>5, <2>2 DEF ActivationForUpdate
  <2>4. ActivationForUpdate.act = Missing /\ ActivationForUpdate.slot = 0
    BY <2>3 DEF Current, NoCurrent
  <2> QED BY <1>2, <1>3, <1>5, <2>1, <2>4, RecordTypes
<1> QED BY <1>4, <1>5

LEMMA EffectiveFacts ==
  ASSUME TypeOK, GuiInv
  PROVE  /\ Effective \in Versions /\ Effective.soft \in Software
         /\ Effective # Root => Effective \in Ids
         /\ Effective # Root => Effective \in DOMAIN bank /\ Effective.full \in BOOLEAN
<1>1. Effective \in Versions /\ (Effective # Root => Effective \in DOMAIN bank)
  BY RootFacts DEF Effective, TypeOK, Programs, GuiInv
<1>2. Effective # Root => Effective \in Ids
  BY <1>1 DEF Versions
<1> QED BY <1>1, <1>2, RootFacts, IdFacts

(* What a delivery becomes *)
LEMMA SnapshotFacts ==
  ASSUME TypeOK, GuiInv, NEW p \in Packages
  PROVE  Snapshot(p) \in Ids /\ Snapshot(p).eng = Engine /\ Snapshot(p).inst = 0
<1> DEFINE base == IF p.full THEN Root ELSE Effective
           soft == [m \in Members |-> IF p.soft[m] # NoContent THEN p.soft[m] ELSE base.soft[m]]
           all == IF soft[Gui] = NoContent THEN [soft EXCEPT ![Gui] = RootGui] ELSE soft
           full == IF base = Root THEN p.full ELSE base.full
<1>1. Snapshot(p) = [full |-> full, eng |-> Engine, inst |-> 0, soft |-> all]
  BY DEF Snapshot
<1>2. p.full \in BOOLEAN /\ p.soft \in Software
  BY DeliveriesAssumption
<1>3. base.soft \in Software /\ (base # Root => base.full \in BOOLEAN)
  BY EffectiveFacts, RootFacts
<1>4. soft \in Software
  BY <1>2, <1>3 DEF Software
<1>5. all \in Software
  BY <1>4, RootFacts DEF Software
<1>6. full \in BOOLEAN
  BY <1>2, <1>3
<1>7. 0 \in 0..RepairBanks /\ Engine \in 1..Engine
  BY BoundsAssumption
<1> HIDE DEF base, soft, all, full
<1> QED BY <1>1, <1>5, <1>6, <1>7 DEF Ids

(* A set of numbers has a least one *)
LEMMA LeastElement ==
  ASSUME NEW S \in SUBSET Nat, S # {}
  PROVE  \E n \in S : \A k \in S : n <= k
<1> DEFINE less == {p \in Nat \X Nat : p[1] < p[2]}
<1>1. IsWellFoundedOn(less, Nat)
  BY NatLessThanWellFounded, Zenon DEF OpToRel
<1>2. \A k, n \in S : k < n => <<k, n>> \in less
  OBVIOUS
<1> HIDE DEF less
<1>3. PICK n \in S : \A k \in S : ~(<<k, n>> \in less)
  <2>1. S \subseteq Nat
    OBVIOUS
  <2> QED BY <1>1, <2>1, WFMin, Zenon
<1>4. \A k \in S : ~(k < n)
  BY <1>2, <1>3
<1>5. n \in Nat /\ \A k \in S : k \in Nat
  OBVIOUS
<1> QED BY <1>4, <1>5

(* Where it goes: the first repair instance that is complete, or free and  *)
(* protected by nobody.                                                    *)
LEMMA TargetFacts ==
  ASSUME TypeOK, GuiInv, NEW act, NEW full \in BOOLEAN,
         NEW snap \in Ids, snap.eng = Engine, snap.inst = 0,
         NEW t, t = SnapshotTarget(act, full, snap), t.result \in {"complete", "fresh"}
  PROVE  /\ t.id \in Ids
         /\ t.result = "complete" => Receipt(t.id)
         /\ t.result = "fresh" =>
              /\ t.id.eng = Engine /\ t.id = [snap EXCEPT !.inst = t.id.inst]
              /\ ~Receipt(t.id) /\ ~Protected(act, t.id)
              /\ \A k \in 0..RepairBanks : k < t.id.inst =>
                   Candidate(act, full, [snap EXCEPT !.inst = k]) = "refused"
              /\ full => ~Nonempty(t.id)
<1> DEFINE inst(k) == [snap EXCEPT !.inst = k]
           usable == {k \in 0..RepairBanks : Candidate(act, full, inst(k)) # "refused"}
<1>1. ASSUME NEW b
      PROVE  /\ Candidate(act, full, b) \in {"complete", "fresh", "refused"}
             /\ Candidate(act, full, b) = "complete" => Receipt(b)
             /\ Candidate(act, full, b) = "fresh" =>
                  ~Receipt(b) /\ ~Protected(act, b) /\ ~(full /\ Nonempty(b))
  BY DEF Candidate
<1>2. ASSUME NEW k \in 0..RepairBanks
      PROVE  inst(k) \in Ids /\ inst(k).eng = Engine /\ inst(k).inst = k
  BY DEF Ids
<1>3. CASE full /\ usable # {}
  <2>1. usable \in SUBSET Nat
    BY BoundsAssumption
  <2>2. PICK n \in usable : \A k \in usable : n <= k
    BY <1>3, <2>1, LeastElement, Zenon
  <2>3. Min(usable) \in usable /\ \A k \in usable : Min(usable) <= k
    BY <2>2 DEF Min
  <2> DEFINE low == Min(usable)
  <2>4. low \in 0..RepairBanks /\ Candidate(act, full, inst(low)) # "refused"
    BY <2>3
  <2>5. \A k \in 0..RepairBanks : k < low => Candidate(act, full, inst(k)) = "refused"
    <3> SUFFICES ASSUME NEW k \in 0..RepairBanks, k < low,
                        Candidate(act, full, inst(k)) # "refused"
                 PROVE  FALSE
      OBVIOUS
    <3>1. k \in usable
      OBVIOUS
    <3>2. low <= k
      BY <2>3, <3>1
    <3> HIDE DEF low
    <3> QED BY <2>4, <3>2, BoundsAssumption
  <2>6. t = Target(Candidate(act, full, inst(low)), inst(low))
    BY <1>3 DEF SnapshotTarget
  <2> HIDE DEF low
  <2>7. t.id = inst(low) /\ t.result = Candidate(act, full, t.id)
    BY <2>6 DEF Target
  <2>8. t.id \in Ids /\ t.id.eng = Engine /\ t.id.inst = low
    BY <1>2, <2>4, <2>7
  <2> QED BY <1>1, <1>3, <2>5, <2>7, <2>8
<1>4. CASE full /\ usable = {}
  <2>1. t = Target("limit", snap)
    BY <1>4 DEF SnapshotTarget
  <2> QED BY <2>1 DEF Target
<1>5. CASE ~full /\ Effective \notin {Root, snap} /\ Receipt(Effective)
           /\ SameSnapshot(snap, Effective)
  <2>1. t = Target(IF MembersOk(Effective) THEN "complete" ELSE "refused", Effective)
    BY <1>5 DEF SnapshotTarget
  <2>2. t.id = Effective /\ t.result # "fresh"
    BY <2>1 DEF Target
  <2> QED BY <1>5, <2>2, EffectiveFacts
<1>6. CASE ~full /\ ~(Effective \notin {Root, snap} /\ Receipt(Effective)
                      /\ SameSnapshot(snap, Effective))
  <2>1. t = Target(Candidate(act, full, snap), snap)
    BY <1>6 DEF SnapshotTarget
  <2>2. t.id = snap /\ t.result = Candidate(act, full, snap)
    BY <2>1 DEF Target
  <2>3. snap = [snap EXCEPT !.inst = snap.inst]
    BY DEF Ids
  <2>4. \A k \in 0..RepairBanks : ~(k < snap.inst)
    BY BoundsAssumption
  <2> QED BY <1>1, <1>6, <2>2, <2>3, <2>4
<1> QED BY <1>3, <1>4, <1>5, <1>6

-----------------------------------------------------------------------------
(* What a program start may become, and what every step keeps *)

(* A program that runs, starts or is off as GuiInv and OneVersionRuns ask *)
Proper(g) ==
  /\ g \in Programs
  /\ g.at = "boot" => g.code = IF g.ctx = NoHandoff THEN RootGui ELSE g.ctx.soft[Gui]
  /\ g.mode = "bank" => g.eff \in DOMAIN bank
  /\ g.at = "run" => /\ g.mode = "root" => g.code = RootGui
                     /\ g.mode = "bank" => g.code = g.eff.soft[Gui]

LEMMA ProperNow ==
  ASSUME IndInv PROVE Proper(gui)
BY DEF IndInv, TypeOK, Safe, GuiInv, OneVersionRuns, Proper

LEMMA ProperOff == Proper(Off) /\ Proper(RunningRoot)
BY FreshTypes DEF Proper

LEMMA ForcedBaseline ==
  ASSUME IndInv PROVE Proper(Baseline(TRUE)) /\ Proper(Blocked)
<1>1. gui \in Programs
  BY DEF IndInv, TypeOK
<1>2. Blocked \in Programs /\ Blocked.at = "run" /\ Blocked.mode = "block"
  BY <1>1, RootFacts, FreshTypes DEF Blocked, Programs
<1>3. /\ Chain(RootGui, NoHandoff) \in Programs /\ Chain(RootGui, NoHandoff).at = "boot"
      /\ Chain(RootGui, NoHandoff).mode = "block" /\ Chain(RootGui, NoHandoff).code = RootGui
      /\ Chain(RootGui, NoHandoff).ctx = NoHandoff
  BY RootFacts, FreshTypes DEF Chain, Programs
<1>4. Baseline(TRUE) \in {Blocked, Chain(RootGui, NoHandoff)}
  BY DEF Baseline
<1> QED BY <1>2, <1>3, <1>4 DEF Proper

LEMMA ResolveProper ==
  ASSUME IndInv, NEW force \in BOOLEAN, NEW header \in BOOLEAN,
         force \/ (gui.at = "boot" /\ gui.ctx # NoHandoff)
  PROVE  Proper(ReadSelected(force, header))
<1> DEFINE tried == {i \in Slots : Valid(i) /\ ~Conflict /\
                                   Attempt(rec[i], force, header) # "refused"}
           i == IF NewestSlot \in tried THEN NewestSlot ELSE 1 - NewestSlot
           r == rec[i]
           outcome == IF tried = {} THEN "baseline" ELSE Attempt(r, force, header)
           pinned == [gui EXCEPT !.at = "run", !.mode = "bank", !.eff = r.selected, !.ctx = NoHandoff]
           chained == Chain(r.selected.soft[Gui], [seq |-> r.seq, soft |-> r.selected.soft])
<1>1. ReadSelected(force, header) =
        CASE outcome = "baseline" -> Baseline(force \/ gui.ctx # NoHandoff)
          [] outcome = "pinned" -> pinned
          [] outcome = "chain" -> chained
  BY DEF ReadSelected
<1>2. TypeOK /\ gui \in Programs /\ GuiInv /\ RowInv /\ SlotInv
  BY DEF IndInv, Safe, TypeOK
<1>3. NewestSlot \in Slots
  BY <1>2, CurrentFacts
<1>4. tried # {} => i \in tried
  BY <1>3 DEF Slots
<1>5. i \in Slots /\ r \in Records
  BY <1>2, <1>3 DEF Slots, TypeOK
<1>6. r.seq \in 0..MaxSeq /\ r.selected \in Versions
  BY <1>5 DEF Records
<1>7. tried # {} => Attempt(r, force, header) # "refused"
  BY <1>4
<1> HIDE DEF tried, i, r
<1>8. /\ outcome \in {"baseline", "pinned", "chain"}
      /\ outcome \in {"pinned", "chain"} => r.selected # Root /\ Receipt(r.selected)
      /\ outcome = "pinned" => ~force /\ gui.ctx.soft = r.selected.soft
      /\ outcome = "chain" => bank[r.selected].mem[Gui] = "ok"
  BY <1>7 DEF Attempt, Adopts
<1>9. CASE outcome = "baseline"
  BY <1>1, <1>9, ForcedBaseline
<1>10. CASE outcome = "pinned"
  <2>1. r.selected \in DOMAIN bank /\ gui.code = r.selected.soft[Gui]
    BY <1>2, <1>8, <1>10 DEF Receipt, GuiInv
  <2>2. /\ pinned \in Programs /\ pinned.at = "run" /\ pinned.mode = "bank"
        /\ pinned.eff = r.selected /\ pinned.code = gui.code
    BY <1>2, <1>6, FreshTypes DEF Programs
  <2>3. ReadSelected(force, header) = pinned
    BY <1>1, <1>10
  <2> HIDE DEF pinned
  <2> QED BY <2>1, <2>2, <2>3 DEF Proper
<1>11. CASE outcome = "chain"
  <2>1. r.selected \in DOMAIN bank /\ r.selected \in Ids
    BY <1>2, <1>8, <1>11 DEF Receipt, TypeOK
  <2>2. Gui \in Members /\ bank[r.selected].mem[Gui] # "absent"
    BY <1>8, <1>11, RootFacts
  <2>3. r.selected.soft[Gui] # NoContent
    BY <1>2, <2>1, <2>2 DEF RowInv, Rows
  <2>4. r.selected.soft \in Software
    BY <2>1, IdFacts
  <2>5. r.selected.soft[Gui] \in Contents
    BY <2>3, <2>4, RootFacts DEF Software
  <2>6. /\ chained \in Programs /\ chained.at = "boot" /\ chained.mode = "block"
        /\ chained.code = r.selected.soft[Gui]
        /\ chained.ctx = [seq |-> r.seq, soft |-> r.selected.soft]
    BY <1>6, <2>4, <2>5, RootFacts DEF Programs, Chain
  <2>7. chained.ctx.soft = r.selected.soft
    BY <2>6
  <2>8. chained.ctx # NoHandoff
    <3>1. NoHandoff.soft[Gui] = NoContent
      BY RootFacts DEF NoHandoff, Root
    <3> QED BY <2>3, <2>7, <3>1
  <2>9. ReadSelected(force, header) = chained
    BY <1>1, <1>11
  <2> HIDE DEF chained
  <2> QED BY <2>6, <2>7, <2>8, <2>9 DEF Proper
<1> QED BY <1>8, <1>9, <1>10, <1>11

(* An idle worker makes no claim *)
LEMMA IdleInv ==
  ASSUME IndInv, op' = NoOp, DOMAIN bank \subseteq DOMAIN bank',
         Proper(gui') \/ UNCHANGED gui
  PROVE  OpInv' /\ GuiInv' /\ OneVersionRuns' /\ gui' \in Programs /\ op' \in Operations
<1>1. Proper(gui')
  BY ProperNow
<1>2. NoOp.stage = "idle" /\ NoOp.shown = NoOp.act /\ NoOp \in Operations
  BY FreshTypes
<1>3. OpInv'
  BY <1>2 DEF OpInv, Filling
<1>4. GuiInv'
  BY <1>1, <1>2 DEF GuiInv, Proper
<1>5. OneVersionRuns'
  BY <1>1 DEF OneVersionRuns, Proper
<1> QED BY <1>1, <1>2, <1>3, <1>4, <1>5 DEF Proper

(* CutShort ends the operation, whatever file it was at *)
LEMMA CutInv ==
  ASSUME IndInv, CutShort, DOMAIN bank \subseteq DOMAIN bank'
  PROVE  /\ OpInv' /\ GuiInv' /\ OneVersionRuns' /\ gui' \in Programs /\ op' \in Operations
         /\ review' \in Reviews /\ cuts' \in 0..MaxCuts
<1>1. op' = NoOp /\ review' = NoReview /\ (Proper(gui') \/ UNCHANGED gui)
  BY ProperOff DEF CutShort
<1>2. cuts' \in 0..MaxCuts
  BY BoundsAssumption DEF CutShort, IndInv, TypeOK
<1>3. review' \in Reviews
  BY <1>1, FreshTypes
<1> QED BY <1>1, <1>2, <1>3, IdleInv

(* The card *)
LEMMA CardFrame ==
  ASSUME IndInv, UNCHANGED <<rec, bank, rotten>>
  PROVE  SlotInv' /\ RowInv' /\ BankSound'
<1>1. SlotInv' /\ RowInv'
  BY DEF IndInv, Safe, SlotInv, RowInv, Valid
<1>2. BankSound'
  BY DEF IndInv, BankSound, Valid, Receipt, MembersOk
<1> QED BY <1>1, <1>2

-----------------------------------------------------------------------------
(* One lemma per action *)

(* Steps that only change the running program or what the user was shown *)
LEMMA ProgramStep ==
  ASSUME IndInv, op = NoOp, UNCHANGED <<rec, bank, rootOk, op, rotten, cuts, env>>,
         Proper(gui') \/ UNCHANGED gui, review' \in Reviews
  PROVE  IndInv'
<1>1. SlotInv' /\ RowInv' /\ BankSound'
  BY CardFrame
<1>2. OpInv' /\ GuiInv' /\ OneVersionRuns' /\ gui' \in Programs /\ op' \in Operations
  BY IdleInv
<1>3. TypeOK'
  BY <1>2 DEF IndInv, TypeOK
<1> QED BY <1>1, <1>2, <1>3 DEF IndInv, Safe

LEMMA ReviewStep == IndInv /\ Review => IndInv'
<1> SUFFICES ASSUME IndInv, Review PROVE IndInv'
  OBVIOUS
<1> DEFINE cur == ActivationForUpdate
<1>1. TypeOK /\ SlotInv
  BY DEF IndInv, Safe
<1>2. cur.act \in Records
  BY <1>1, CurrentFacts
<1>3. cur.act.previous \in Versions /\ Root \in Versions
  BY <1>2, RootFacts DEF Records
<1> HIDE DEF cur
<1>4. PICK r \in [kind : {"install"}, pkg : Packages, target : {Root}, act : {cur.act}] \cup
                 [kind : {"restore"}, pkg : {NoPackage}, target : {cur.act.previous, Root},
                  act : {cur.act}] :
        review' \in {r, NoReview}
  BY DEF Review, cur
<1>5. r \in Reviews
  BY <1>2, <1>3, <1>4 DEF Reviews
<1>6. review' \in Reviews
  BY <1>4, <1>5, FreshTypes
<1> QED BY <1>6, ProgramStep DEF Review, Idle

LEMMA BootSteps ==
  IndInv /\ (ColdBoot \/ PowerOff \/ Restart \/ BootStep \/ BaselineAsked \/ BootRefused) => IndInv'
<1> SUFFICES ASSUME IndInv,
                    ColdBoot \/ PowerOff \/ Restart \/ BootStep \/ BaselineAsked \/ BootRefused
             PROVE  IndInv'
  OBVIOUS
<1>1. review \in Reviews /\ NoReview \in Reviews
  BY FreshTypes DEF IndInv, TypeOK
<1>2. gui.at # "run" => op = NoOp
  BY DEF IndInv, Safe, GuiInv, OpInv
<1>3. CASE ColdBoot
  BY <1>1, <1>2, <1>3, ProgramStep, ProperOff DEF ColdBoot
<1>4. CASE PowerOff
  BY <1>1, <1>4, ProgramStep, ProperOff DEF PowerOff
<1>5. CASE Restart
  <2>1. Proper(gui')
    BY <1>5, ResolveProper DEF Restart
  <2> QED BY <1>1, <1>5, <2>1, ProgramStep DEF Restart, Idle
<1>6. CASE BootStep
  <2>1. Proper(gui')
    <3>1. CASE gui.ctx = NoHandoff
      <4>1. gui' = [gui EXCEPT !.at = "run", !.mode = "root"]
        BY <1>6, <3>1 DEF BootStep
      <4>2. gui \in Programs /\ gui.code = RootGui
        BY <1>6, <3>1 DEF BootStep, IndInv, TypeOK, Safe, GuiInv
      <4>3. gui' \in Programs /\ gui'.at = "run" /\ gui'.mode = "root" /\ gui'.code = RootGui
        BY <4>1, <4>2 DEF Programs
      <4> QED BY <4>3 DEF Proper
    <3>2. CASE gui.ctx # NoHandoff
      BY <1>6, <3>2, ResolveProper DEF BootStep
    <3> QED BY <3>1, <3>2
  <2> QED BY <1>1, <1>2, <1>6, <2>1, ProgramStep DEF BootStep
<1>7. CASE BaselineAsked
  BY <1>1, <1>2, <1>7, ProgramStep, ForcedBaseline DEF BaselineAsked
<1>8. CASE BootRefused
  BY <1>1, <1>2, <1>8, ProgramStep, ForcedBaseline DEF BootRefused
<1> QED BY <1>3, <1>4, <1>5, <1>6, <1>7, <1>8

(* A restore target that verifies is the root or has its receipt *)
LEMMA BeginSelectOp ==
  ASSUME IndInv, NEW cur, cur.act \in Records, cur.slot \in Slots, review.act = cur.act,
         BeginSelect(cur) # NoOp
  PROVE  /\ BeginSelect(cur) \in Operations /\ BeginSelect(cur).stage = "publish"
         /\ BeginSelect(cur).shown = BeginSelect(cur).act
         /\ BeginSelect(cur).id = Root \/ Receipt(BeginSelect(cur).id)
<1> DEFINE o == [stage |-> "publish", id |-> review.target, act |-> cur.act, slot |-> cur.slot,
                 todo |-> {}, shown |-> review.act]
<1>1. BeginSelect(cur) = o /\ TargetVerify(review.target)
  BY DEF BeginSelect
<1>2. review.target \in Versions /\ review.act \in Records
  BY RootFacts DEF IndInv, TypeOK, Reviews
<1>3. /\ o \in Operations /\ o.stage = "publish" /\ o.shown = o.act /\ o.id = review.target
  BY <1>2 DEF Operations
<1>4. review.target = Root \/ Receipt(review.target)
  BY <1>1 DEF TargetVerify, BankVerify
<1> HIDE DEF o
<1> QED BY <1>1, <1>3, <1>4

(* An installation starts to fill a bank nobody names, or goes straight to *)
(* the selection of a complete one                                         *)
LEMMA BeginInstallOp ==
  ASSUME IndInv, NEW cur, cur.act \in Records, cur.slot \in Slots, review.act = cur.act,
         review.kind = "install", review.pkg \in Packages,
         NEW o, o = BeginInstall(cur), o # NoOp,
         NEW t, t = SnapshotTarget(cur.act, review.pkg.full, Snapshot(review.pkg))
  PROVE  /\ o \in Operations /\ o.shown = o.act /\ o.id = t.id /\ o.id \in Ids
         /\ o.todo = Rows(o.id)
         /\ \/ o.stage = "publish" /\ t.result = "complete" /\ Receipt(o.id)
            \/ /\ o.stage = "directories" /\ t.result = "fresh"
               /\ o.id.eng = Engine /\ ~Receipt(o.id) /\ ~Referenced(o.id)
<1> DEFINE begin(stage) == [stage |-> stage, id |-> t.id, act |-> cur.act, slot |-> cur.slot,
                            todo |-> Rows(t.id), shown |-> review.act]
<1>1. \/ t.result = "complete" /\ o = begin("publish")
      \/ t.result = "fresh" /\ o = begin("directories")
  BY DEF BeginInstall
<1>2. TypeOK /\ GuiInv /\ review.act \in Records /\ review.pkg.full \in BOOLEAN
  BY DeliveriesAssumption DEF IndInv, TypeOK, Safe, Reviews
<1>3. /\ Snapshot(review.pkg) \in Ids /\ Snapshot(review.pkg).eng = Engine
      /\ Snapshot(review.pkg).inst = 0
  BY <1>2, SnapshotFacts
<1>4. /\ t.id \in Ids
      /\ t.result = "complete" => Receipt(t.id)
      /\ t.result = "fresh" => t.id.eng = Engine /\ ~Receipt(t.id) /\ ~Protected(cur.act, t.id)
  <2>1. t.result \in {"complete", "fresh"}
    BY <1>1
  <2> QED BY <1>2, <1>3, <2>1, TargetFacts
<1>5. t.result = "fresh" => ~Referenced(t.id)
  BY <1>4 DEF Protected, Referenced
<1>6. Rows(t.id) \in SUBSET Members /\ t.id \in Versions
  BY <1>4, IdFacts DEF Rows
<1>7. ASSUME NEW stage \in {"publish", "directories"}
      PROVE  /\ begin(stage) \in Operations /\ begin(stage).stage = stage
             /\ begin(stage).shown = begin(stage).act /\ begin(stage).id = t.id
             /\ begin(stage).todo = Rows(t.id)
  BY <1>2, <1>6 DEF Operations
<1> HIDE DEF begin
<1> QED BY <1>1, <1>4, <1>5, <1>7

LEMMA ConfirmStep == IndInv /\ Confirm => IndInv'
<1> SUFFICES ASSUME IndInv, Confirm PROVE IndInv'
  OBVIOUS
<1> DEFINE cur == ActivationForUpdate
<1>1. TypeOK /\ SlotInv /\ GuiInv /\ op = NoOp /\ gui.at = "run"
  BY DEF IndInv, Safe, Confirm, Idle
<1>2. cur.act \in Records /\ cur.slot \in Slots
  BY <1>1, CurrentFacts
<1>3. UNCHANGED <<rec, bank, rootOk, gui, rotten, cuts, env>> /\ review' \in Reviews
  BY FreshTypes DEF Confirm
<1>4. SlotInv' /\ RowInv' /\ BankSound'
  BY <1>3, CardFrame
<1>5. GuiInv' /\ OneVersionRuns'
  BY <1>1, <1>3 DEF GuiInv, OneVersionRuns, IndInv
<1>6. op' \in Operations /\ OpInv'
  <2>1. CASE op' = NoOp
    BY <1>3, <2>1, IdleInv
  <2>2. CASE op' # NoOp /\ review.kind = "install"
    <3>1. op' = BeginInstall(cur) /\ review.act = cur.act
      BY <2>2 DEF Confirm
    <3>2. review.pkg \in Packages
      BY <2>2 DEF IndInv, TypeOK, Reviews
    <3> QED BY <1>2, <1>3, <2>2, <3>1, <3>2, BeginInstallOp
              DEF OpInv, Filling, Receipt, Referenced, Effective, Valid
  <2>3. CASE op' # NoOp /\ review.kind # "install"
    <3>1. op' = BeginSelect(cur) /\ review.act = cur.act
      BY <2>3 DEF Confirm
    <3>2. /\ op' \in Operations /\ op'.stage = "publish" /\ op'.shown = op'.act
          /\ op'.id = Root \/ Receipt(op'.id)
      BY <1>2, <2>3, <3>1, BeginSelectOp
    <3> QED BY <1>3, <3>2 DEF OpInv, Filling, Receipt
  <2> QED BY <2>1, <2>2, <2>3
<1>7. TypeOK'
  BY <1>3, <1>6 DEF IndInv, TypeOK
<1> QED BY <1>4, <1>5, <1>6, <1>7 DEF IndInv, Safe

LEMMA CancelStep == IndInv /\ Cancel => IndInv'
<1> SUFFICES ASSUME IndInv, Cancel PROVE IndInv'
  OBVIOUS
<1>1. CutShort /\ UNCHANGED <<rec, bank, rootOk, rotten, env>>
  BY DEF Cancel
<1>2. SlotInv' /\ RowInv' /\ BankSound'
  BY <1>1, CardFrame
<1>3. /\ OpInv' /\ GuiInv' /\ OneVersionRuns' /\ gui' \in Programs /\ op' \in Operations
      /\ review' \in Reviews /\ cuts' \in 0..MaxCuts
  BY <1>1, CutInv
<1>4. TypeOK'
  BY <1>1, <1>3 DEF IndInv, TypeOK
<1> QED BY <1>2, <1>3, <1>4 DEF IndInv, Safe

(* The bank being filled may be written over: it is referenced by nobody,  *)
(* and its receipt is written only over complete members.                  *)
LEMMA FillCard ==
  ASSUME IndInv, Filling, NEW d \in Directories, PutDirectory(d),
         UNCHANGED <<rec, rootOk, rotten, env>>,
         \A m \in Members : d.mem[m] # "absent" => m \in Rows(op.id),
         d.rcpt = "ok" /\ op.id \notin rotten => \A m \in Rows(op.id) : d.mem[m] = "ok"
  PROVE  /\ DOMAIN bank' = DOMAIN bank \cup {op.id} /\ bank'[op.id] = d
         /\ \A b \in DOMAIN bank : b # op.id => bank'[b] = bank[b]
         /\ DOMAIN bank' \subseteq Ids /\ bank' \in [DOMAIN bank' -> Directories]
         /\ rotten' \subseteq DOMAIN bank'
         /\ SlotInv' /\ RowInv' /\ BankSound'
<1>1. /\ DOMAIN bank \subseteq Ids /\ bank \in [DOMAIN bank -> Directories]
      /\ rotten \subseteq DOMAIN bank
  BY DEF IndInv, TypeOK
<1>2. op.id \in Ids /\ ~Receipt(op.id) /\ ~Referenced(op.id)
  BY DEF IndInv, Safe, OpInv
<1>3. /\ DOMAIN bank' = DOMAIN bank \cup {op.id} /\ bank'[op.id] = d
      /\ \A b \in DOMAIN bank : b # op.id => bank'[b] = bank[b]
      /\ bank' \in [DOMAIN bank' -> Directories]
  BY <1>1 DEF PutDirectory
<1>4. SlotInv'
  BY DEF IndInv, Safe, SlotInv, Valid
<1>5. RowInv'
  <2> SUFFICES ASSUME NEW b \in DOMAIN bank', NEW m \in Members, bank'[b].mem[m] # "absent"
               PROVE  m \in Rows(b)
    BY DEF RowInv, Rows
  <2>1. CASE b = op.id
    BY <1>3, <2>1
  <2>2. CASE b # op.id
    BY <1>3, <2>2 DEF IndInv, Safe, RowInv
  <2> QED BY <2>1, <2>2
<1>6. ASSUME NEW b \in DOMAIN bank' \ rotten', Receipt(b)'
      PROVE  MembersOk(b)'
  <2>1. CASE b = op.id
    BY <1>3, <1>6, <2>1 DEF Receipt, MembersOk, Rows
  <2>2. CASE b # op.id
    BY <1>3, <1>6, <2>2 DEF Receipt, MembersOk, Rows, IndInv, BankSound
  <2> QED BY <2>1, <2>2
<1>7. ASSUME NEW i \in Slots, Valid(i)', NEW b \in Named(rec'[i]) \ ({Root} \cup rotten')
      PROVE  Receipt(b)'
  <2>1. Receipt(b) /\ b # op.id
    BY <1>2, <1>7 DEF IndInv, BankSound, Valid, Referenced
  <2> QED BY <1>3, <2>1 DEF Receipt
<1>8. BankSound'
  BY <1>6, <1>7 DEF BankSound
<1> QED BY <1>1, <1>2, <1>3, <1>4, <1>5, <1>8

(* The operation goes on, the program and its claims with it *)
LEMMA FillOn ==
  ASSUME IndInv, Filling, NEW stage \in {"clear", "members", "publish"},
         NEW todo \in SUBSET op.todo, Continue(stage, todo), UNCHANGED <<rec, rootOk, rotten, env>>,
         DOMAIN bank' = DOMAIN bank \cup {op.id}
  PROVE  /\ op' \in Operations /\ op'.stage = stage /\ op'.todo = todo /\ op'.id = op.id
         /\ op'.shown = op'.act /\ op.id \in Ids /\ op.id.eng = Engine
         /\ op'.todo \subseteq Rows(op.id) /\ Rows(op'.id) = Rows(op.id)
         /\ ~Referenced(op.id)' /\ op'.id \in DOMAIN bank'
         /\ GuiInv' /\ OneVersionRuns' /\ gui' \in Programs
         /\ review' \in Reviews /\ cuts' \in 0..MaxCuts
<1>1. op \in Operations /\ gui \in Programs /\ review \in Reviews /\ cuts \in 0..MaxCuts
  BY DEF IndInv, TypeOK
<1>2. /\ op' = [op EXCEPT !.stage = stage, !.todo = todo] /\ UNCHANGED <<gui, review, cuts>>
  BY DEF Continue
<1>3. /\ op.id \in Ids /\ op.id.eng = Engine /\ op.todo \subseteq Rows(op.id)
      /\ ~Referenced(op.id) /\ op.shown = op.act /\ gui.at = "run"
  BY DEF IndInv, Safe, OpInv, GuiInv, Filling
<1>4. /\ op' \in Operations /\ op'.stage = stage /\ op'.todo = todo /\ op'.id = op.id
      /\ op'.shown = op'.act
  BY <1>1, <1>2, <1>3 DEF Operations
<1>5. ~Referenced(op.id)'
  BY <1>2, <1>3 DEF Referenced, Effective, Valid
<1>6. GuiInv' /\ OneVersionRuns'
  BY <1>2, <1>3 DEF IndInv, Safe, GuiInv, OneVersionRuns
<1> QED BY <1>1, <1>2, <1>3, <1>4, <1>5, <1>6

LEMMA DirectoryFacts ==
  ASSUME IndInv, Filling
  PROVE  /\ Directory \in Directories /\ Directory.rcpt # "ok"
         /\ \A m \in Members : Directory.mem[m] # "absent" => m \in Rows(op.id)
         /\ op.id \in DOMAIN bank => Directory = bank[op.id]
<1>1. ~Receipt(op.id)
  BY DEF IndInv, Safe, OpInv
<1>2. /\ EmptyDirectory \in Directories /\ EmptyDirectory.rcpt = "absent"
      /\ \A m \in Members : EmptyDirectory.mem[m] = "absent"
  BY FreshTypes DEF EmptyDirectory
<1>3. CASE op.id \in DOMAIN bank
  <2>1. Directory = bank[op.id]
    BY <1>3 DEF Directory
  <2>2. bank[op.id] \in Directories /\ bank[op.id].rcpt # "ok"
    BY <1>1, <1>3 DEF Receipt, IndInv, TypeOK
  <2>3. \A m \in Members : bank[op.id].mem[m] # "absent" => m \in Rows(op.id)
    BY <1>3 DEF IndInv, Safe, RowInv
  <2> QED BY <2>1, <2>2, <2>3
<1>4. CASE op.id \notin DOMAIN bank
  <2>1. Directory = EmptyDirectory
    BY <1>4 DEF Directory
  <2> QED BY <1>2, <1>4, <2>1
<1> QED BY <1>3, <1>4

(* What the card's and the worker's part make together *)
LEMMA FillDone ==
  ASSUME IndInv, UNCHANGED <<rec, rootOk, rotten, env>>,
         DOMAIN bank' \subseteq Ids, bank' \in [DOMAIN bank' -> Directories],
         rotten' \subseteq DOMAIN bank', SlotInv', RowInv', BankSound',
         OpInv', GuiInv', OneVersionRuns', gui' \in Programs, op' \in Operations,
         review' \in Reviews, cuts' \in 0..MaxCuts
  PROVE  IndInv'
<1>1. TypeOK'
  BY DEF IndInv, TypeOK
<1> QED BY <1>1 DEF IndInv, Safe

(* A write that is the operation's last *)
LEMMA FillCut ==
  ASSUME IndInv, Filling, NEW d \in Directories, PutDirectory(d), CutShort,
         UNCHANGED <<rec, rootOk, rotten, env>>,
         \A m \in Members : d.mem[m] # "absent" => m \in Rows(op.id),
         d.rcpt = "ok" /\ op.id \notin rotten => \A m \in Rows(op.id) : d.mem[m] = "ok"
  PROVE  IndInv'
<1>1. /\ DOMAIN bank' = DOMAIN bank \cup {op.id}
      /\ DOMAIN bank' \subseteq Ids /\ bank' \in [DOMAIN bank' -> Directories]
      /\ rotten' \subseteq DOMAIN bank' /\ SlotInv' /\ RowInv' /\ BankSound'
  BY FillCard
<1>2. /\ OpInv' /\ GuiInv' /\ OneVersionRuns' /\ gui' \in Programs /\ op' \in Operations
      /\ review' \in Reviews /\ cuts' \in 0..MaxCuts
  BY <1>1, CutInv
<1> QED BY <1>1, <1>2, FillDone

(* A write the operation goes on after *)
LEMMA FillStep ==
  ASSUME IndInv, Filling, NEW d \in Directories, PutDirectory(d),
         NEW stage \in {"clear", "members", "publish"}, NEW todo \in SUBSET op.todo,
         Continue(stage, todo), UNCHANGED <<rec, rootOk, rotten, env>>,
         \A m \in Members : d.mem[m] # "absent" => m \in Rows(op.id),
         d.rcpt = "ok" /\ op.id \notin rotten => \A m \in Rows(op.id) : d.mem[m] = "ok",
         stage = "clear" => d.rcpt # "ok" /\ todo = Rows(op.id),
         stage = "members" =>
           /\ d.rcpt = "absent"
           /\ op.id \notin rotten => \A m \in Rows(op.id) \ todo : d.mem[m] = "ok",
         stage = "publish" => d.rcpt = "ok"
  PROVE  IndInv'
<1>1. /\ DOMAIN bank' = DOMAIN bank \cup {op.id} /\ bank'[op.id] = d
      /\ DOMAIN bank' \subseteq Ids /\ bank' \in [DOMAIN bank' -> Directories]
      /\ rotten' \subseteq DOMAIN bank' /\ SlotInv' /\ RowInv' /\ BankSound'
  BY FillCard
<1>2. /\ op' \in Operations /\ op'.stage = stage /\ op'.todo = todo /\ op'.id = op.id
      /\ op'.shown = op'.act /\ op.id \in Ids /\ op.id.eng = Engine
      /\ op'.todo \subseteq Rows(op.id) /\ Rows(op'.id) = Rows(op.id)
      /\ ~Referenced(op.id)' /\ op'.id \in DOMAIN bank'
      /\ GuiInv' /\ OneVersionRuns' /\ gui' \in Programs
      /\ review' \in Reviews /\ cuts' \in 0..MaxCuts
  BY <1>1, FillOn
<1>3. Receipt(op.id)' <=> d.rcpt = "ok"
  BY <1>1, <1>2 DEF Receipt
<1>4. OpInv'
  BY <1>1, <1>2, <1>3 DEF OpInv, Filling
<1> QED BY <1>1, <1>2, <1>4, FillDone

LEMMA MakeDirectoriesStep == IndInv /\ MakeDirectories => IndInv'
<1> SUFFICES ASSUME IndInv, MakeDirectories PROVE IndInv'
  OBVIOUS
<1>1. op.stage = "directories" /\ Filling /\ UNCHANGED <<rec, rootOk, rotten, env>>
  BY DEF MakeDirectories, Filling
<1> DEFINE d == [Directory EXCEPT !.sub = @ \/ Rows(op.id) # {Gui}]
<1>2. /\ Directory \in Directories /\ Directory.rcpt # "ok"
      /\ \A m \in Members : Directory.mem[m] # "absent" => m \in Rows(op.id)
  BY <1>1, DirectoryFacts
<1>3. d \in Directories /\ d.rcpt = Directory.rcpt /\ d.mem = Directory.mem
  BY <1>2 DEF Directories
<1>4. \/ PutDirectory(d) /\ Continue("clear", op.todo)
      \/ PutDirectory(d) /\ CutShort
      \/ PutDirectory(Directory) /\ CutShort
  BY DEF MakeDirectories
<1> HIDE DEF d
<1>5. CASE PutDirectory(d) /\ Continue("clear", op.todo)
  <2>1. op.todo = Rows(op.id)
    BY <1>1 DEF IndInv, Safe, OpInv, Filling
  <2> QED BY <1>1, <1>2, <1>3, <1>5, <2>1, FillStep
<1>6. CASE PutDirectory(d) /\ CutShort
  BY <1>1, <1>2, <1>3, <1>6, FillCut
<1>7. CASE PutDirectory(Directory) /\ CutShort
  BY <1>1, <1>2, <1>7, FillCut
<1> QED BY <1>4, <1>5, <1>6, <1>7

LEMMA ClearPartialStep == IndInv /\ ClearPartial => IndInv'
<1> SUFFICES ASSUME IndInv, ClearPartial PROVE IndInv'
  OBVIOUS
<1>1. op.stage = "clear" /\ Filling /\ UNCHANGED <<rec, rootOk, rotten, env>>
  BY DEF ClearPartial, Filling
<1>2. /\ Directory \in Directories /\ Directory.rcpt # "ok"
      /\ \A m \in Members : Directory.mem[m] # "absent" => m \in Rows(op.id)
  BY <1>1, DirectoryFacts
<1>3. CASE PutDirectory([EmptyDirectory EXCEPT !.sub = Directory.sub])
           /\ Continue("members", op.todo)
  <2> DEFINE d == [EmptyDirectory EXCEPT !.sub = Directory.sub]
  <2>1. /\ d \in Directories /\ d.rcpt = "absent" /\ \A m \in Members : d.mem[m] = "absent"
    BY <1>2 DEF Directories, EmptyDirectory, FileStates
  <2>2. op.todo = Rows(op.id)
    BY <1>1 DEF IndInv, Safe, OpInv, Filling
  <2> HIDE DEF d
  <2> QED BY <1>1, <1>3, <2>1, <2>2, FillStep DEF d
<1>4. CASE /\ \E cleared \in SUBSET Members :
                PutDirectory([Directory EXCEPT !.mem =
                  [m \in Members |-> IF m \in cleared THEN "absent" ELSE @[m]]])
           /\ CutShort
  <2>1. PICK cleared \in SUBSET Members :
          PutDirectory([Directory EXCEPT !.mem =
            [m \in Members |-> IF m \in cleared THEN "absent" ELSE @[m]]])
    BY <1>4
  <2> DEFINE d == [Directory EXCEPT !.mem =
                    [m \in Members |-> IF m \in cleared THEN "absent" ELSE @[m]]]
  <2>2. /\ d \in Directories /\ d.rcpt = Directory.rcpt
        /\ \A m \in Members : d.mem[m] # "absent" => Directory.mem[m] # "absent"
    BY <1>2 DEF Directories, FileStates
  <2>3. PutDirectory(d)
    BY <2>1
  <2> HIDE DEF d
  <2> QED BY <1>1, <1>2, <1>4, <2>2, <2>3, FillCut
<1> QED BY <1>3, <1>4 DEF ClearPartial

(* In the writing stage: no receipt yet, and what has been written is good *)
LEMMA WritingFacts ==
  ASSUME IndInv, op.stage = "members"
  PROVE  /\ Filling /\ Directory \in Directories /\ Directory.rcpt = "absent"
         /\ op.todo \subseteq Rows(op.id) /\ op.todo \subseteq Members
         /\ \A m \in Members : Directory.mem[m] # "absent" => m \in Rows(op.id)
         /\ op.id \notin rotten => \A m \in Rows(op.id) \ op.todo : Directory.mem[m] = "ok"
<1>1. Filling /\ op.id \in DOMAIN bank
  BY DEF Filling, IndInv, Safe, OpInv
<1>2. /\ op.todo \subseteq Rows(op.id) /\ bank[op.id].rcpt = "absent"
      /\ op.id \notin rotten => \A m \in Rows(op.id) \ op.todo : bank[op.id].mem[m] = "ok"
  BY <1>1 DEF IndInv, Safe, OpInv
<1>3. op.todo \subseteq Members
  BY <1>2 DEF Rows
<1> QED BY <1>1, <1>2, <1>3, DirectoryFacts

LEMMA WriteMemberStep == IndInv /\ WriteMember => IndInv'
<1> SUFFICES ASSUME IndInv, WriteMember PROVE IndInv'
  OBVIOUS
<1>1. op.stage = "members" /\ UNCHANGED <<rec, rootOk, rotten, env>>
  BY DEF WriteMember
<1>2. /\ Filling /\ Directory \in Directories /\ Directory.rcpt = "absent"
      /\ op.todo \subseteq Rows(op.id) /\ op.todo \subseteq Members
      /\ \A m \in Members : Directory.mem[m] # "absent" => m \in Rows(op.id)
      /\ op.id \notin rotten => \A m \in Rows(op.id) \ op.todo : Directory.mem[m] = "ok"
  BY <1>1, WritingFacts
<1>3. PICK m \in op.todo :
        \/ PutDirectory([Directory EXCEPT !.mem[m] = "ok"]) /\ Continue("members", op.todo \ {m})
        \/ \E left \in FileStates : PutDirectory([Directory EXCEPT !.mem[m] = left]) /\ CutShort
  BY DEF WriteMember
<1> DEFINE d(left) == [Directory EXCEPT !.mem[m] = left]
<1>4. ASSUME NEW left \in FileStates
      PROVE  /\ d(left) \in Directories /\ d(left).rcpt = "absent" /\ d(left).mem[m] = left
             /\ \A n \in Members : n # m => d(left).mem[n] = Directory.mem[n]
             /\ \A n \in Members : d(left).mem[n] # "absent" => n \in Rows(op.id)
  <2>1. /\ d(left) \in Directories /\ d(left).rcpt = "absent" /\ d(left).mem[m] = left
        /\ \A n \in Members : n # m => d(left).mem[n] = Directory.mem[n]
    BY <1>2, <1>3 DEF Directories
  <2> QED BY <1>2, <2>1
<1>5. "ok" \in FileStates
  BY DEF FileStates
<1> HIDE DEF d
<1>6. CASE PutDirectory(d("ok")) /\ Continue("members", op.todo \ {m})
  <2>1. op.id \notin rotten => \A n \in Rows(op.id) \ (op.todo \ {m}) : d("ok").mem[n] = "ok"
    BY <1>2, <1>4, <1>5 DEF Rows
  <2>2. op.todo \ {m} \in SUBSET op.todo
    OBVIOUS
  <2>3. /\ d("ok") \in Directories /\ d("ok").rcpt = "absent"
        /\ \A n \in Members : d("ok").mem[n] # "absent" => n \in Rows(op.id)
    BY <1>4, <1>5
  <2> QED BY <1>1, <1>2, <1>6, <2>1, <2>2, <2>3, FillStep
<1>7. CASE \E left \in FileStates : PutDirectory(d(left)) /\ CutShort
  <2>1. PICK left \in FileStates : PutDirectory(d(left)) /\ CutShort
    BY <1>7
  <2>2. /\ d(left) \in Directories /\ d(left).rcpt = "absent"
        /\ \A n \in Members : d(left).mem[n] # "absent" => n \in Rows(op.id)
    BY <1>4
  <2> QED BY <1>1, <1>2, <2>1, <2>2, FillCut
<1> QED BY <1>3, <1>6, <1>7 DEF d

LEMMA WriteReceiptStep == IndInv /\ WriteReceipt => IndInv'
<1> SUFFICES ASSUME IndInv, WriteReceipt PROVE IndInv'
  OBVIOUS
<1>1. op.stage = "members" /\ op.todo = {} /\ UNCHANGED <<rec, rootOk, rotten, env>>
  BY DEF WriteReceipt
<1>2. /\ Filling /\ Directory \in Directories
      /\ \A m \in Members : Directory.mem[m] # "absent" => m \in Rows(op.id)
      /\ op.id \notin rotten => \A m \in Rows(op.id) : Directory.mem[m] = "ok"
  BY <1>1, WritingFacts
<1> DEFINE d(left) == [Directory EXCEPT !.rcpt = left]
<1>3. ASSUME NEW left \in FileStates
      PROVE  d(left) \in Directories /\ d(left).rcpt = left /\ d(left).mem = Directory.mem
  BY <1>2 DEF Directories
<1>4. \/ PutDirectory(d("ok")) /\ Continue("publish", {})
      \/ \E left \in FileStates : PutDirectory(d(left)) /\ CutShort
  BY DEF WriteReceipt
<1>5. "ok" \in FileStates /\ {} \in SUBSET op.todo
  BY DEF FileStates
<1> HIDE DEF d
<1>6. CASE PutDirectory(d("ok")) /\ Continue("publish", {})
  <2>1. d("ok") \in Directories /\ d("ok").rcpt = "ok" /\ d("ok").mem = Directory.mem
    BY <1>3, <1>5
  <2> QED BY <1>1, <1>2, <1>5, <1>6, <2>1, FillStep
<1>7. CASE \E left \in FileStates : PutDirectory(d(left)) /\ CutShort
  <2>1. PICK left \in FileStates : PutDirectory(d(left)) /\ CutShort
    BY <1>7
  <2>2. d(left) \in Directories /\ d(left).mem = Directory.mem
    BY <1>3
  <2> QED BY <1>1, <1>2, <2>1, <2>2, FillCut
<1> QED BY <1>4, <1>6, <1>7

(* publish writes the next number into the slot of the older record, and   *)
(* only while the newest record is the one the user was shown.             *)
LEMMA PublishFacts ==
  ASSUME IndInv, Publish
  PROVE  \/ UNCHANGED rec /\ Done
         \/ /\ Done \/ CutShort
            /\ \E s \in Slots, left \in Records :
                 /\ rec' = [rec EXCEPT ![s] = left]
                 /\ s = IF Valid(0) \/ Valid(1) THEN 1 - NewestSlot ELSE 0
                 /\ Newest = op.act /\ Newest.seq \in 0..(MaxSeq - 1)
                 /\ \/ left = rec[s] \/ left.st # "ok"
                    \/ left = Record(Newest.seq + 1, op.id, Newest.selected)
<1> DEFINE cur == ActivationForUpdate
           s == PublishSlot(cur)
           next == Record(cur.act.seq + 1, op.id, cur.act.selected)
<1>1. SUFFICES ASSUME ~(UNCHANGED rec /\ Done)
               PROVE  /\ Done \/ CutShort
                      /\ \E left \in Records :
                           /\ rec' = [rec EXCEPT ![s] = left] /\ s \in Slots
                           /\ s = IF Valid(0) \/ Valid(1) THEN 1 - NewestSlot ELSE 0
                           /\ Newest = op.act /\ Newest.seq \in 0..(MaxSeq - 1)
                           /\ \/ left = rec[s] \/ left.st # "ok"
                              \/ left = Record(Newest.seq + 1, op.id, Newest.selected)
  OBVIOUS
<1>2. TypeOK /\ SlotInv
  BY DEF IndInv, Safe
<1>3. /\ cur.act = Newest /\ cur.slot = NewestSlot /\ Newest \in Records /\ NewestSlot \in Slots
      /\ Valid(0) \/ Valid(1) => Newest.seq >= 1
      /\ ~(Valid(0) \/ Valid(1)) => Newest = Missing
  BY <1>2, CurrentFacts
<1> HIDE DEF cur
<1>4. ~Stale(cur) /\ cur.act.seq # MaxSeq
  BY <1>1 DEF Publish, cur
<1>5. Newest = op.act /\ Newest.seq \in 0..(MaxSeq - 1) /\ Newest.selected \in Versions
  BY <1>3, <1>4, BoundsAssumption DEF Stale, Records
<1>6. s = (IF Valid(0) \/ Valid(1) THEN 1 - NewestSlot ELSE 0) /\ s \in Slots
  BY <1>3, <1>5, RecordTypes DEF PublishSlot, Slots
<1>7. next = Record(Newest.seq + 1, op.id, Newest.selected) /\ next \in Records
  <2>1. op.id \in Versions /\ Newest.seq + 1 \in 0..MaxSeq
    BY <1>2, <1>5, BoundsAssumption DEF TypeOK, Operations
  <2> QED BY <1>3, <1>5, <2>1, RecordTypes
<1>8. rec[s] \in Records
  BY <1>2, <1>6 DEF TypeOK
<1>9. \/ rec' = [rec EXCEPT ![s] = next] /\ Done
      \/ /\ \E left \in {rec[s], BadRecord, next} \cup (IF Valid(s) THEN {} ELSE {Missing}) :
              rec' = [rec EXCEPT ![s] = left]
         /\ CutShort
  BY <1>1 DEF Publish, cur
<1> HIDE DEF s, next
<1>10. /\ BadRecord \in Records /\ BadRecord.st # "ok"
       /\ Missing \in Records /\ Missing.st # "ok"
  BY RecordTypes
<1>11. PICK left \in {rec[s], BadRecord, next, Missing} : rec' = [rec EXCEPT ![s] = left]
  BY <1>9
<1>12. left \in Records /\ (left = rec[s] \/ left.st # "ok" \/ left = next)
  BY <1>7, <1>8, <1>10, <1>11
<1> QED BY <1>5, <1>6, <1>7, <1>9, <1>11, <1>12

LEMMA PublishStep == IndInv /\ Publish => IndInv'
<1> SUFFICES ASSUME IndInv, Publish PROVE IndInv'
  OBVIOUS
<1>1. /\ op.stage = "publish" /\ UNCHANGED <<bank, rootOk, rotten, env>>
      /\ Done \/ CutShort
  BY PublishFacts DEF Publish
<1>2. /\ OpInv' /\ GuiInv' /\ OneVersionRuns' /\ gui' \in Programs /\ op' \in Operations
      /\ review' \in Reviews /\ cuts' \in 0..MaxCuts
  <2>1. CASE Done
    BY <1>1, <2>1, IdleInv DEF Done, IndInv, TypeOK
  <2>2. CASE CutShort
    BY <1>1, <2>2, CutInv
  <2> QED BY <1>1, <2>1, <2>2
<1>3. TypeOK /\ SlotInv /\ BankSound /\ RowInv /\ rec \in [Slots -> Records]
  BY DEF IndInv, Safe, TypeOK
<1>4. rec' \in [Slots -> Records] /\ SlotInv' /\ BankSound'
  <2>1. CASE UNCHANGED rec
    BY <1>1, <1>3, <2>1, CardFrame
  <2>2. CASE \E s \in Slots, left \in Records :
                 /\ rec' = [rec EXCEPT ![s] = left]
                 /\ s = IF Valid(0) \/ Valid(1) THEN 1 - NewestSlot ELSE 0
                 /\ Newest = op.act /\ Newest.seq \in 0..(MaxSeq - 1)
                 /\ \/ left = rec[s] \/ left.st # "ok"
                    \/ left = Record(Newest.seq + 1, op.id, Newest.selected)
    <3> DEFINE next == Record(Newest.seq + 1, op.id, Newest.selected)
    <3>1. PICK s \in Slots, left \in Records :
                 /\ rec' = [rec EXCEPT ![s] = left]
                 /\ s = IF Valid(0) \/ Valid(1) THEN 1 - NewestSlot ELSE 0
                 /\ Newest.seq \in 0..(MaxSeq - 1)
                 /\ left = rec[s] \/ left.st # "ok" \/ left = next
      BY <2>2
    <3>2. /\ Newest \in Records /\ NewestSlot \in Slots
          /\ Valid(0) \/ Valid(1) => Newest = rec[NewestSlot] /\ Valid(NewestSlot)
          /\ ~(Valid(0) \/ Valid(1)) => Newest = Missing
      BY <1>3, CurrentFacts
    <3>3. /\ next \in Records /\ next.st = "ok" /\ next.seq = Newest.seq + 1
          /\ next.selected = op.id /\ next.previous = Newest.selected
      <4>1. Newest.seq + 1 \in 0..MaxSeq /\ op.id \in Versions /\ Newest.selected \in Versions
        BY <1>3, <3>1, <3>2, BoundsAssumption DEF TypeOK, Operations, Records
      <4> QED BY <4>1, RecordTypes
    <3>4. /\ rec' \in [Slots -> Records] /\ rec'[s] = left
          /\ \A i \in Slots : i # s => rec'[i] = rec[i]
      BY <1>3, <3>1
    <3>5. next.seq >= 1 /\ next.seq % 2 = 1 - s
      <4>1. CASE Valid(0) \/ Valid(1)
        <5>1. Newest.seq % 2 = 1 - NewestSlot
          BY <1>3, <3>2, <4>1 DEF SlotInv
        <5> QED BY <3>1, <3>2, <3>3, <4>1, <5>1 DEF Slots
      <4>2. CASE ~(Valid(0) \/ Valid(1))
        BY <3>1, <3>2, <3>3, <4>2, RecordTypes
      <4> QED BY <4>1, <4>2
    <3>6. \A b \in Named(next) \ ({Root} \cup rotten) : Receipt(b)
      <4>1. op.id = Root \/ op.id \in rotten \/ Receipt(op.id)
        BY <1>1 DEF IndInv, Safe, OpInv
      <4>2. Newest.selected \in {Root} \cup rotten \/ Receipt(Newest.selected)
        BY <1>3, <3>2, RecordTypes DEF BankSound, Named
      <4> QED BY <3>3, <4>1, <4>2 DEF Named
    <3> HIDE DEF next
    <3>7. SlotInv'
      BY <1>3, <3>1, <3>4, <3>5 DEF SlotInv, Valid
    <3>8. \A i \in Slots : Valid(i)' =>
            \A b \in Named(rec'[i]) \ ({Root} \cup rotten) : Receipt(b)
      BY <1>3, <3>1, <3>4, <3>6 DEF BankSound, Valid
    <3>9. \A b \in DOMAIN bank \ rotten : Receipt(b) => MembersOk(b)
      BY <1>3 DEF BankSound
    <3>10. BankSound'
      BY <1>1, <3>8, <3>9 DEF BankSound, Receipt, MembersOk
    <3> QED BY <3>4, <3>7, <3>10
  <2> QED BY <2>1, <2>2, PublishFacts
<1>5. RowInv'
  BY <1>1, <1>3 DEF RowInv
<1>6. TypeOK'
  BY <1>1, <1>2, <1>3, <1>4 DEF TypeOK
<1> QED BY <1>2, <1>4, <1>5, <1>6 DEF IndInv, Safe

LEMMA BootstrapStep == IndInv /\ BootstrapZip => IndInv'
<1> SUFFICES ASSUME IndInv, BootstrapZip PROVE IndInv'
  OBVIOUS
<1>1. /\ op = NoOp /\ rootOk' = TRUE /\ UNCHANGED <<bank, gui, review, op, rotten, cuts>>
      /\ env' \in 0..MaxEnv
  BY BoundsAssumption DEF BootstrapZip, Outside, IndInv, TypeOK
<1>2. OpInv' /\ GuiInv' /\ OneVersionRuns'
  BY <1>1, IdleInv
<1>3. PICK copied \in SUBSET Slots :
        rec' = [i \in Slots |-> IF i \in copied THEN Record(i + 1, Root, Root) ELSE rec[i]]
  BY DEF BootstrapZip
<1>4. TypeOK /\ SlotInv /\ BankSound /\ RowInv /\ rec \in [Slots -> Records]
  BY DEF IndInv, Safe, TypeOK
<1>5. ASSUME NEW i \in Slots, i \in copied
      PROVE  /\ rec'[i] \in Records /\ rec'[i].seq = i + 1
             /\ Named(rec'[i]) = {Root}
  <2>1. i + 1 \in 0..MaxSeq
    BY BoundsAssumption DEF Slots
  <2> QED BY <1>3, <1>5, <2>1, RecordTypes, RootFacts DEF Named
<1>6. \A i \in Slots : i \notin copied => rec'[i] = rec[i]
  BY <1>3
<1>7. SlotInv'
  BY <1>4, <1>5, <1>6 DEF SlotInv, Valid, Slots
<1>8. BankSound'
  BY <1>1, <1>4, <1>5, <1>6 DEF BankSound, Valid, Receipt, MembersOk
<1>9. RowInv'
  BY <1>1, <1>4 DEF RowInv
<1>10. rec' \in [Slots -> Records]
  BY <1>3, <1>4, <1>5, <1>6
<1>11. TypeOK'
  BY <1>1, <1>4, <1>10 DEF TypeOK
<1> QED BY <1>2, <1>7, <1>8, <1>9, <1>11 DEF IndInv, Safe

(* Decay spoils a file and says so in rotten; it never adds a claim *)
LEMMA RotStep == IndInv /\ Rot => IndInv'
<1> SUFFICES ASSUME IndInv, Rot PROVE IndInv'
  OBVIOUS
<1>1. UNCHANGED <<gui, review, op, cuts>> /\ env' \in 0..MaxEnv
  BY BoundsAssumption DEF Rot, Outside, IndInv, TypeOK
<1>2. /\ TypeOK /\ SlotInv /\ BankSound /\ RowInv /\ GuiInv /\ OpInv /\ OneVersionRuns
      /\ rec \in [Slots -> Records] /\ DOMAIN bank \subseteq Ids
      /\ bank \in [DOMAIN bank -> Directories] /\ rotten \subseteq DOMAIN bank
  BY DEF IndInv, Safe, TypeOK
<1>3. OneVersionRuns'
  BY <1>1, <1>2 DEF OneVersionRuns
<1>4. CASE \E i \in Slots : Valid(i) /\ rec' = [rec EXCEPT ![i] = BadRecord]
           /\ UNCHANGED <<bank, rootOk, rotten>>
  <2>1. PICK i \in Slots : rec' = [rec EXCEPT ![i] = BadRecord]
    BY <1>4
  <2>2. UNCHANGED <<bank, rootOk, rotten>>
    BY <1>4
  <2>3. /\ rec' \in [Slots -> Records] /\ rec'[i].st # "ok"
        /\ \A j \in Slots : j # i => rec'[j] = rec[j]
    BY <1>2, <2>1, RecordTypes
  <2>4. \A j \in Slots : Valid(j)' => Valid(j) /\ rec'[j] = rec[j]
    BY <2>3 DEF Valid
  <2>5. SlotInv'
    BY <1>2, <2>4 DEF SlotInv
  <2>6. BankSound'
    BY <1>2, <2>2, <2>4 DEF BankSound, Receipt, MembersOk
  <2>7. RowInv' /\ GuiInv'
    BY <1>1, <1>2, <2>2 DEF RowInv, GuiInv
  <2>8. ~Referenced(op.id) => ~Referenced(op.id)'
    BY <1>1, <2>4 DEF Referenced, Effective
  <2>9. OpInv'
    BY <1>1, <1>2, <2>2, <2>8 DEF OpInv, Filling, Receipt
  <2>10. TypeOK'
    BY <1>1, <1>2, <2>2, <2>3 DEF TypeOK
  <2> QED BY <1>3, <2>5, <2>6, <2>7, <2>9, <2>10 DEF IndInv, Safe
<1>5. CASE \E b \in DOMAIN bank :
             /\ rotten' = rotten \cup {b}
             /\ \/ bank[b].rcpt = "ok" /\ bank' = [bank EXCEPT ![b].rcpt = "bad"]
                \/ \E m \in Members :
                     bank[b].mem[m] = "ok" /\ bank' = [bank EXCEPT ![b].mem[m] = "bad"]
             /\ UNCHANGED <<rec, rootOk>>
  <2>1. PICK b \in DOMAIN bank :
             /\ rotten' = rotten \cup {b}
             /\ \/ bank[b].rcpt = "ok" /\ bank' = [bank EXCEPT ![b].rcpt = "bad"]
                \/ \E m \in Members :
                     bank[b].mem[m] = "ok" /\ bank' = [bank EXCEPT ![b].mem[m] = "bad"]
             /\ UNCHANGED <<rec, rootOk>>
    BY <1>5
  <2>2. bank[b] \in Directories
    BY <1>2
  <2>3. \E d \in Directories :
          /\ bank' = [bank EXCEPT ![b] = d]
          /\ d.rcpt = bank[b].rcpt \/ (bank[b].rcpt = "ok" /\ d.rcpt = "bad")
          /\ \A m \in Members : d.mem[m] # "absent" => bank[b].mem[m] # "absent"
    <3>1. CASE bank[b].rcpt = "ok" /\ bank' = [bank EXCEPT ![b].rcpt = "bad"]
      <4>1. [bank[b] EXCEPT !.rcpt = "bad"] \in Directories
        BY <2>2 DEF Directories, FileStates
      <4>2. bank' = [bank EXCEPT ![b] = [bank[b] EXCEPT !.rcpt = "bad"]]
        BY <3>1
      <4>3. /\ [bank[b] EXCEPT !.rcpt = "bad"].rcpt = "bad"
            /\ [bank[b] EXCEPT !.rcpt = "bad"].mem = bank[b].mem
        BY <2>2 DEF Directories
      <4> QED BY <3>1, <4>1, <4>2, <4>3
    <3>2. CASE \E m \in Members :
                 bank[b].mem[m] = "ok" /\ bank' = [bank EXCEPT ![b].mem[m] = "bad"]
      <4>1. PICK n \in Members :
                 bank[b].mem[n] = "ok" /\ bank' = [bank EXCEPT ![b].mem[n] = "bad"]
        BY <3>2
      <4> DEFINE d == [bank[b] EXCEPT !.mem[n] = "bad"]
      <4>2. /\ d \in Directories /\ d.rcpt = bank[b].rcpt /\ d.mem = [bank[b].mem EXCEPT ![n] = "bad"]
        BY <2>2 DEF Directories, FileStates
      <4>3. bank' = [bank EXCEPT ![b] = d]
        BY <4>1
      <4>4. \A m \in Members : d.mem[m] # "absent" => bank[b].mem[m] # "absent"
        BY <2>2, <4>1, <4>2 DEF Directories
      <4> HIDE DEF d
      <4> QED BY <4>2, <4>3, <4>4
    <3> QED BY <2>1, <3>1, <3>2
  <2>4. PICK d \in Directories :
          /\ bank' = [bank EXCEPT ![b] = d]
          /\ d.rcpt = bank[b].rcpt \/ (bank[b].rcpt = "ok" /\ d.rcpt = "bad")
          /\ \A m \in Members : d.mem[m] # "absent" => bank[b].mem[m] # "absent"
    BY <2>3
  <2>5. UNCHANGED <<rec, rootOk>> /\ rotten' = rotten \cup {b}
    BY <2>1
  <2>6. /\ DOMAIN bank' = DOMAIN bank /\ bank' \in [DOMAIN bank' -> Directories]
        /\ bank'[b] = d /\ \A c \in DOMAIN bank : c # b => bank'[c] = bank[c]
    BY <1>2, <2>4
  <2>7. RowInv'
    BY <1>2, <2>4, <2>6 DEF RowInv, Rows
  <2>8. SlotInv' /\ GuiInv'
    BY <1>1, <1>2, <2>5, <2>6 DEF SlotInv, Valid, GuiInv
  <2>9. \A c : c \notin rotten' => (Receipt(c) <=> Receipt(c)') /\ (Receipt(c) => bank'[c] = bank[c])
    BY <2>5, <2>6 DEF Receipt
  <2>10. BankSound'
    BY <1>2, <2>5, <2>6, <2>9 DEF BankSound, Valid, Receipt, MembersOk
  <2>11. ~Receipt(op.id) => ~Receipt(op.id)'
    BY <1>1, <2>4, <2>6 DEF Receipt
  <2>12. ~Referenced(op.id) => ~Referenced(op.id)'
    BY <1>1, <2>5 DEF Referenced, Effective, Valid
  <2>13. op.stage = "members" =>
           /\ op.id \in DOMAIN bank /\ bank'[op.id].rcpt = "absent"
           /\ op.id \notin rotten' => \A m \in Rows(op.id) \ op.todo : bank'[op.id].mem[m] = "ok"
    BY <1>2, <2>4, <2>5, <2>6 DEF OpInv, Filling
  <2>14. op.stage = "publish" => op.id = Root \/ op.id \in rotten' \/ Receipt(op.id)'
    BY <1>1, <1>2, <2>5, <2>9 DEF OpInv, Receipt
  <2>15. OpInv'
    BY <1>1, <1>2, <2>6, <2>11, <2>12, <2>13, <2>14 DEF OpInv, Filling
  <2>16. TypeOK'
    BY <1>1, <1>2, <2>5, <2>6 DEF TypeOK
  <2> QED BY <1>3, <2>7, <2>8, <2>10, <2>15, <2>16 DEF IndInv, Safe
<1>6. CASE rootOk /\ rootOk' = FALSE /\ UNCHANGED <<rec, bank, rotten>>
  <2>1. SlotInv' /\ RowInv' /\ BankSound'
    BY <1>6, CardFrame
  <2>2. GuiInv'
    BY <1>1, <1>2, <1>6 DEF GuiInv
  <2>3. OpInv'
    BY <1>1, <1>2, <1>6 DEF OpInv, Filling, Receipt, Referenced, Effective, Valid
  <2>4. TypeOK'
    BY <1>1, <1>2, <1>6 DEF TypeOK
  <2> QED BY <1>3, <2>1, <2>2, <2>3, <2>4 DEF IndInv, Safe
<1> QED BY <1>4, <1>5, <1>6 DEF Rot

LEMMA StutterStep == IndInv /\ UNCHANGED vars => IndInv'
<1> SUFFICES ASSUME IndInv, UNCHANGED vars PROVE IndInv'
  OBVIOUS
<1>1. SlotInv' /\ RowInv' /\ BankSound'
  BY CardFrame DEF vars
<1>2. GuiInv' /\ OneVersionRuns'
  BY DEF vars, IndInv, Safe, GuiInv, OneVersionRuns
<1>3. OpInv'
  BY DEF vars, IndInv, Safe, OpInv, Filling, Receipt, Referenced, Effective, Valid
<1>4. TypeOK'
  BY DEF vars, IndInv, TypeOK
<1> QED BY <1>1, <1>2, <1>3, <1>4 DEF IndInv, Safe

LEMMA StepInv == IndInv /\ [Next]_vars => IndInv'
BY ReviewStep, ConfirmStep, CancelStep, MakeDirectoriesStep, ClearPartialStep, WriteMemberStep,
   WriteReceiptStep, PublishStep, BootSteps, RotStep, BootstrapStep, StutterStep DEF Next

-----------------------------------------------------------------------------
(* The theorems *)

(* The invariant from which the others follow holds in every state of      *)
(* every installation, restart, cut and decay (update_file.c,              *)
(* update_boot.c).                                                         *)
THEOREM Invariance == Spec => []IndInv
<1>1. Init => IndInv
  BY InitInv
<1>2. IndInv /\ [Next]_vars => IndInv'
  BY StepInv
<1> QED BY <1>1, <1>2, PTL DEF Spec

(* Every variable keeps the type of update.h and update_boot.c; so the     *)
(* numbers of the activation records stay within their 64 bits.            *)
THEOREM TypeCorrect == Spec => []TypeOK
<1>1. IndInv => TypeOK
  BY DEF IndInv
<1> QED BY <1>1, Invariance, PTL

(* Whatever write of an installation is the last, a receipt stands over a  *)
(* complete bank and a readable record names only banks with a receipt,    *)
(* unless the medium itself damaged them (install_snapshot, publish).      *)
THEOREM BanksStaySound == Spec => []BankSound
<1>1. IndInv => BankSound
  BY DEF IndInv
<1> QED BY <1>1, Invariance, PTL

(* Modules are taken from the version the running GUI was itself taken     *)
(* from, through every restart, adoption and baseline (read_selected,      *)
(* adopt, baseline).                                                       *)
THEOREM VersionsNeverMix == Spec => []OneVersionRuns
<1>1. IndInv => OneVersionRuns
  BY DEF IndInv
<1> QED BY <1>1, Invariance, PTL

(* What every step but the outside's does to the banks and the records *)
LEMMA BankSteps ==
  ASSUME IndInv, Next, env' = env
  PROVE  \/ UNCHANGED bank
         \/ Filling /\ UNCHANGED rec /\ \E d : PutDirectory(d)
<1>1. env + 1 # env
  BY DEF IndInv, TypeOK
<1>2. ~Rot /\ ~BootstrapZip
  BY <1>1 DEF Rot, BootstrapZip, Outside
<1>3. \/ UNCHANGED bank
      \/ MakeDirectories \/ ClearPartial \/ WriteMember \/ WriteReceipt
  BY <1>2 DEF Next, Review, Confirm, Cancel, Publish, ColdBoot, PowerOff, Restart, BootStep,
              BaselineAsked, BootRefused
<1>4. CASE MakeDirectories
  BY <1>4 DEF MakeDirectories, Filling
<1>5. CASE ClearPartial
  BY <1>5 DEF ClearPartial, Filling
<1>6. CASE WriteMember
  BY <1>6 DEF WriteMember, Filling
<1>7. CASE WriteReceipt
  BY <1>7 DEF WriteReceipt, Filling
<1> QED BY <1>3, <1>4, <1>5, <1>6, <1>7

LEMMA ReferencedStep ==
  ASSUME IndInv, [Next]_vars, env' = env, NEW b \in DOMAIN bank, BankVerify(b) \/ Referenced(b)
  PROVE  b \in DOMAIN bank' /\ bank'[b] = bank[b]
<1>1. CASE UNCHANGED bank
  BY <1>1
<1>2. CASE Filling /\ \E d : PutDirectory(d)
  <2>1. ~Receipt(op.id) /\ ~Referenced(op.id)
    BY <1>2 DEF IndInv, Safe, OpInv
  <2>2. b # op.id
    BY <2>1 DEF BankVerify
  <2> QED BY <1>2, <2>2 DEF PutDirectory
<1> QED BY <1>1, <1>2, BankSteps DEF vars

(* No operation of the updater rewrites a complete bank, or one that a     *)
(* readable record or the running program uses, damaged as it may be       *)
(* (snapshot_target's choice of another identity).                         *)
THEOREM ReferencedBanksKept == Spec => ReferencedKept
<1>1. IndInv /\ [Next]_vars =>
        [env' = env => \A b \in DOMAIN bank :
           BankVerify(b) \/ Referenced(b) => b \in DOMAIN bank' /\ bank'[b] = bank[b]]_vars
  BY ReferencedStep
<1> QED BY <1>1, Invariance, PTL DEF Spec, ReferencedKept

LEMMA PublishedStep ==
  ASSUME IndInv, [Next]_vars, env' = env, Newest' # Newest
  PROVE  /\ op.stage = "publish" /\ Newest'.selected = op.id
         /\ Newest'.seq = op.shown.seq + 1 /\ Newest'.previous = op.shown.selected
         /\ Newest = op.shown
<1>1. rec' # rec
  <2>1. rec' = rec => Newest' = Newest
    BY DEF Newest, NewestSlot, Valid
  <2> QED BY <2>1
<1>2. env + 1 # env
  BY DEF IndInv, TypeOK
<1>3. ~Rot /\ ~BootstrapZip /\ ~UNCHANGED vars
  BY <1>1, <1>2 DEF Rot, BootstrapZip, Outside, vars
<1>4. Publish
  BY <1>1, <1>3 DEF Next, Review, Confirm, Cancel, MakeDirectories, ClearPartial, WriteMember,
     WriteReceipt, ColdBoot, PowerOff, Restart, BootStep, BaselineAsked, BootRefused
<1>5. PICK s \in Slots, left \in Records :
        /\ rec' = [rec EXCEPT ![s] = left]
        /\ s = IF Valid(0) \/ Valid(1) THEN 1 - NewestSlot ELSE 0
        /\ Newest = op.act /\ Newest.seq \in 0..(MaxSeq - 1)
        /\ \/ left = rec[s] \/ left.st # "ok"
           \/ left = Record(Newest.seq + 1, op.id, Newest.selected)
  BY <1>1, <1>4, PublishFacts
<1>6. TypeOK /\ SlotInv /\ op.shown = op.act /\ rec \in [Slots -> Records]
  BY DEF IndInv, Safe, OpInv, TypeOK
<1>7. /\ NewestSlot \in Slots /\ Newest \in Records
      /\ Valid(0) \/ Valid(1) => Valid(NewestSlot) /\ Newest = rec[NewestSlot]
      /\ ~(Valid(0) \/ Valid(1)) => Newest = Missing
  BY <1>6, CurrentFacts
<1>8. rec'[s] = left /\ rec'[1 - s] = rec[1 - s] /\ left # rec[s]
  BY <1>1, <1>5, <1>6 DEF Slots
<1>9. left.st = "ok"
  <2> SUFFICES ASSUME left.st # "ok" PROVE FALSE
    OBVIOUS
  <2>1. CASE Valid(0) \/ Valid(1)
    <3>1. NewestSlot = 1 - s /\ Valid(1 - s)
      BY <1>5, <1>7, <2>1 DEF Slots
    <3>2. Valid(1 - s)' /\ ~Valid(s)'
      BY <1>8, <3>1 DEF Valid
    <3>3. NewestSlot' = 1 - s
      BY <3>2 DEF NewestSlot, Slots
    <3>4. Newest' = rec'[1 - s]
      BY <3>2, <3>3 DEF Newest, Slots
    <3> QED BY <1>7, <1>8, <2>1, <3>1, <3>4
  <2>2. CASE ~(Valid(0) \/ Valid(1))
    <3>1. ~Valid(0)' /\ ~Valid(1)'
      BY <1>5, <1>8, <2>2 DEF Valid
    <3> QED BY <1>7, <2>2, <3>1 DEF Newest
  <2> QED BY <2>1, <2>2
<1>10. left = Record(Newest.seq + 1, op.id, Newest.selected)
  BY <1>5, <1>8, <1>9
<1>11. left.seq = Newest.seq + 1 /\ left.selected = op.id /\ left.previous = Newest.selected
  <2>1. Newest.seq + 1 \in 0..MaxSeq /\ op.id \in Versions /\ Newest.selected \in Versions
    BY <1>5, <1>6, <1>7, BoundsAssumption DEF TypeOK, Operations, Records
  <2> QED BY <1>10, <2>1, RecordTypes
<1>12. Newest' = left
  <2>1. Valid(s)'
    BY <1>8, <1>9 DEF Valid
  <2>2. Valid(1 - s)' => rec'[1 - s] = Newest
    BY <1>5, <1>7, <1>8 DEF Valid, Slots
  <2>3. Newest.seq < left.seq /\ Newest.seq \in Nat /\ left.seq \in Nat
    BY <1>5, <1>11
  <2>4. NewestSlot' = s
    BY <1>8, <2>1, <2>2, <2>3 DEF NewestSlot, Slots
  <2> QED BY <1>8, <2>1, <2>4 DEF Newest, Slots
<1> QED BY <1>4, <1>5, <1>6, <1>11, <1>12 DEF Publish

(* The newest selection changes only to what the user confirmed, by one in *)
(* sequence, and only from the selection that user was shown (update_work, *)
(* publish); the alternation of the two records is what makes a torn or a  *)
(* repeated write leave the former newest in charge.                       *)
THEOREM OnlyReviewedPublished == Spec => PublishesReviewed
<1>1. IndInv /\ [Next]_vars =>
        [Newest' # Newest /\ env' = env =>
           /\ op.stage = "publish" /\ Newest'.selected = op.id
           /\ Newest'.seq = op.shown.seq + 1 /\ Newest'.previous = op.shown.selected
           /\ Newest = op.shown \/ (Newest = Missing /\ op.shown.seq = 0)]_vars
  BY PublishedStep
<1> QED BY <1>1, Invariance, PTL DEF Spec, PublishesReviewed

-----------------------------------------------------------------------------
(* Directories of one version *)

LEMMA InstanceFacts ==
  ASSUME NEW b \in Ids, NEW c \in Ids, SameSnapshot(b, c)
  PROVE  /\ c = Instance(b, c.inst) /\ b.eng = c.eng
         /\ \A k : Instance(b, k) = Instance(c, k)
         /\ \A d : SameSnapshot(b, d) <=> SameSnapshot(c, d)
<1>1. \A d : SameSnapshot(b, d) <=> SameSnapshot(c, d)
  BY DEF SameSnapshot
<1>2. \A x \in Ids : \A k :
        Instance(x, k) = [full |-> x.full, eng |-> x.eng, soft |-> x.soft, inst |-> k]
  BY DEF Ids, Instance
<1>3. c = [full |-> c.full, eng |-> c.eng, soft |-> c.soft, inst |-> c.inst]
  BY DEF Ids
<1> QED BY <1>1, <1>2, <1>3 DEF SameSnapshot

(* A number of directories, now or of a subset of them *)
LEMMA InstancesFinite ==
  ASSUME IndInv, DirectoriesInv, NEW b
  PROVE  /\ IsFiniteSet(Instances(b)) /\ Cardinality(Instances(b)) \in Nat
         /\ cuts \in Nat /\ env \in Nat
<1>1. Instances(b) \subseteq DOMAIN bank /\ IsFiniteSet(DOMAIN bank)
  BY DEF Instances, DirectoriesInv
<1>2. IsFiniteSet(Instances(b))
  BY <1>1, FS_Subset
<1> QED BY <1>2, FS_CardinalityType, BoundsAssumption DEF IndInv, TypeOK

(* The directory an installation may add is the next of its version *)
LEMMA DirectoryAdded ==
  ASSUME IndInv, CountInv, Filling, DOMAIN bank' = DOMAIN bank \cup {op.id}
  PROVE  /\ IsFiniteSet(DOMAIN bank')
         /\ \A b \in DOMAIN bank' : b.eng = Engine =>
              \A k \in 0..b.inst : Instance(b, k) \in DOMAIN bank'
         /\ \A b \in DOMAIN bank' : Cardinality(Instances(b)') <= cuts + env + 1
         /\ \A b \in DOMAIN bank' : ~SameSnapshot(b, op.id) => Instances(b)' = Instances(b)
         /\ op.id \in DOMAIN bank => \A b : Instances(b)' = Instances(b)
<1>1. /\ op.id \in Ids /\ DOMAIN bank \subseteq Ids
      /\ op.id \notin DOMAIN bank => op.stage = "directories"
  BY DEF IndInv, Safe, OpInv, TypeOK, Filling
<1>2. DirectoriesInv /\ SpoiledInv /\ InstancesEarned
  BY DEF CountInv
<1>3. \A b : ~SameSnapshot(b, op.id) => Instances(b)' = Instances(b)
  BY DEF Instances
<1>4. CASE op.id \in DOMAIN bank
  <2>1. DOMAIN bank' = DOMAIN bank
    BY <1>4
  <2>2. \A b : Instances(b)' = Instances(b)
    BY <2>1 DEF Instances
  <2> QED BY <1>2, <1>3, <2>1, <2>2 DEF DirectoriesInv, InstancesEarned
<1>5. CASE op.id \notin DOMAIN bank
  <2>1. op.stage = "directories"
    BY <1>1, <1>5
  <2>2. IsFiniteSet(DOMAIN bank')
    BY <1>2, FS_AddElement DEF DirectoriesInv
  <2>3. ASSUME NEW b \in DOMAIN bank', b.eng = Engine, NEW k \in 0..b.inst
        PROVE  Instance(b, k) \in DOMAIN bank'
    <3>1. CASE b \in DOMAIN bank
      BY <1>2, <2>3, <3>1 DEF DirectoriesInv
    <3>2. CASE b = op.id /\ k = op.id.inst
      <4>1. Instance(op.id, op.id.inst) = op.id
        BY <1>1 DEF Instance, Ids
      <4> QED BY <3>2, <4>1
    <3>3. CASE b = op.id /\ k # op.id.inst
      <4>1. op.id.inst \in 0..RepairBanks
        BY <1>1, IdFacts
      <4>2. k \in 0..RepairBanks /\ k < op.id.inst
        BY <3>3, <4>1, BoundsAssumption
      <4> QED BY <1>2, <2>1, <3>3, <4>2 DEF DirectoriesInv
    <3> QED BY <3>1, <3>2, <3>3
  <2>4. ASSUME NEW b \in DOMAIN bank'
        PROVE  Cardinality(Instances(b)') <= cuts + env + 1
    <3>1. CASE ~SameSnapshot(b, op.id)
      <4>1. b # op.id
        BY <3>1 DEF SameSnapshot
      <4> QED BY <1>2, <1>3, <3>1, <4>1 DEF InstancesEarned
    <3>2. CASE SameSnapshot(b, op.id)
      <4>1. Instances(b)' = Instances(op.id) \cup {op.id} /\ op.id \notin Instances(op.id)
        BY <1>5, <3>2 DEF Instances, SameSnapshot
      <4>2. /\ IsFiniteSet(Instances(op.id)) /\ Cardinality(Instances(op.id)) \in Nat
            /\ cuts \in Nat /\ env \in Nat
        BY <1>2, InstancesFinite
      <4>3. Cardinality(Instances(b)') = Cardinality(Instances(op.id)) + 1
        BY <4>1, <4>2, FS_AddElement
      <4>4. Cardinality(Instances(op.id)) <= cuts + env
        BY <1>2, <1>5, <2>1 DEF SpoiledInv
      <4> QED BY <4>2, <4>3, <4>4
    <3> QED BY <3>1, <3>2
  <2> QED BY <1>3, <1>5, <2>2, <2>3, <2>4
<1> QED BY <1>4, <1>5

LEMMA EventPays ==
  ASSUME NEW c \in Nat, NEW e \in Nat, NEW c1 \in Nat, NEW e1 \in Nat, c1 + e1 = c + e + 1,
         NEW n \in Nat, n <= c + e
  PROVE  n <= c1 + e1
OBVIOUS

(* An event pays for every directory there is *)
LEMMA EventCount ==
  ASSUME IndInv, IndInv', cuts' + env' = cuts + env + 1, CountInv,
         IsFiniteSet(DOMAIN bank'), DOMAIN bank \subseteq DOMAIN bank',
         \A b \in DOMAIN bank' : b.eng = Engine =>
              \A k \in 0..b.inst : Instance(b, k) \in DOMAIN bank',
         \A b \in DOMAIN bank' : Cardinality(Instances(b)') <= cuts + env + 1,
         op' = NoOp \/ (UNCHANGED op /\ DOMAIN bank' = DOMAIN bank)
  PROVE  CountInv'
<1>1. \A b \in DOMAIN bank' : Cardinality(Instances(b)') <= cuts' + env'
  OBVIOUS
<1>2. DirectoriesInv /\ SpoiledInv
  BY DEF CountInv
<1>3. cuts \in Nat /\ env \in Nat /\ cuts' \in Nat /\ env' \in Nat
  BY BoundsAssumption DEF IndInv, TypeOK
<1>4. InstancesEarned'
  <2> SUFFICES ASSUME NEW b \in DOMAIN bank'
               PROVE  Cardinality(Instances(b)') <= cuts' + env' + 1
    BY DEF InstancesEarned
  <2>1. Cardinality(Instances(b)') \in Nat
    <3>1. Instances(b)' \subseteq DOMAIN bank'
      BY DEF Instances
    <3> QED BY <3>1, FS_Subset, FS_CardinalityType
  <2> QED BY <1>1, <1>3, <2>1
<1>5. CASE op' = NoOp
  <2>1. op'.stage = "idle"
    BY <1>5, FreshTypes
  <2>2. DirectoriesInv'
    BY <2>1 DEF DirectoriesInv
  <2>3. SpoiledInv'
    BY <1>1, <2>1 DEF SpoiledInv
  <2> QED BY <1>4, <2>2, <2>3 DEF CountInv
<1>6. CASE UNCHANGED op /\ DOMAIN bank' = DOMAIN bank
  <2>1. DirectoriesInv'
    BY <1>2, <1>6 DEF DirectoriesInv
  <2>2. op.stage = "directories" /\ op.id \notin DOMAIN bank =>
          Cardinality(Instances(op.id)') <= cuts' + env'
    <3>1. Cardinality(Instances(op.id)') = Cardinality(Instances(op.id))
      BY <1>6 DEF Instances
    <3>2. Cardinality(Instances(op.id)) \in Nat
      BY <1>2, InstancesFinite
    <3>3. op.stage = "directories" /\ op.id \notin DOMAIN bank =>
            Cardinality(Instances(op.id)) <= cuts + env
      BY <1>2 DEF SpoiledInv
    <3> QED BY <1>3, <3>1, <3>2, <3>3, EventPays
  <2>3. op.stage = "members" => Cardinality(Instances(op.id)') <= cuts' + env'
    <3>1. op.stage = "members" => op.id \in DOMAIN bank
      BY DEF IndInv, Safe, OpInv, Filling
    <3>2. op.id \in DOMAIN bank' => Cardinality(Instances(op.id)') <= cuts' + env'
      <4>1. \A b \in DOMAIN bank' : b = op.id => Instances(b)' = Instances(op.id)'
        BY <1>6 DEF Instances
      <4> QED BY <1>1, <4>1
    <3> QED BY <1>6, <3>1, <3>2
  <2>4. SpoiledInv'
    BY <1>1, <1>6, <2>2, <2>3 DEF SpoiledInv
  <2> QED BY <1>4, <2>1, <2>4 DEF CountInv
<1> QED BY <1>5, <1>6

(* A step that writes no bank and starts no installation *)
LEMMA QuietCount ==
  ASSUME CountInv, UNCHANGED <<bank, cuts, env>>,
         UNCHANGED op \/ op'.stage = "publish" \/ (op' = NoOp /\ op.stage \in {"idle", "publish"}),
         op'.stage = "publish" => op.stage \in {"idle", "publish"}
  PROVE  CountInv'
<1>1. DirectoriesInv /\ SpoiledInv /\ InstancesEarned /\ NoOp.stage = "idle"
  BY FreshTypes DEF CountInv
<1>2. \A b : Instances(b)' = Instances(b) /\ BankVerify(b)' = BankVerify(b)
  BY DEF Instances, BankVerify, Receipt, MembersOk
<1>3. InstancesEarned'
  BY <1>1, <1>2 DEF InstancesEarned
<1>4. DirectoriesInv'
  BY <1>1 DEF DirectoriesInv
<1>5. \A b : Good(b) => Good(b)'
  BY <1>1, <1>2 DEF Good
<1>6. \A b \in DOMAIN bank' :
        (\A c \in Instances(b)' : ~Good(c)') => Cardinality(Instances(b)') <= cuts' + env'
  BY <1>1, <1>2, <1>5 DEF SpoiledInv
<1>7. op'.stage \in {"directories", "members"} => UNCHANGED op
  BY <1>1
<1>8. UNCHANGED op => Instances(op.id)' = Instances(op.id)
  BY DEF Instances
<1>9. SpoiledInv'
  BY <1>1, <1>6, <1>7, <1>8 DEF SpoiledInv
<1> QED BY <1>3, <1>4, <1>9 DEF CountInv

(* An installation into a new directory starts only when no directory of   *)
(* the version is good: each was owed to an event.                         *)
LEMMA ConfirmCount == IndInv /\ CountInv /\ Confirm => CountInv'
<1> SUFFICES ASSUME IndInv, CountInv, Confirm PROVE CountInv'
  OBVIOUS
<1> DEFINE cur == ActivationForUpdate
           snap == Snapshot(review.pkg)
           t == SnapshotTarget(cur.act, review.pkg.full, snap)
<1>1. /\ op = NoOp /\ NoOp.stage = "idle" /\ UNCHANGED <<rec, bank, rootOk, gui, rotten, cuts, env>>
  BY FreshTypes DEF Confirm, Idle
<1>2. TypeOK /\ SlotInv /\ GuiInv /\ BankSound
  BY DEF IndInv, Safe
<1>3. cur.act = Newest /\ cur.act \in Records /\ cur.slot \in Slots
  BY <1>2, CurrentFacts
<1> HIDE DEF cur
<1>4. CASE op' = NoOp
  BY <1>1, <1>4, QuietCount
<1>5. CASE op' # NoOp /\ review.kind # "install"
  <2>1. op' = BeginSelect(cur) /\ review.act = cur.act
    BY <1>5 DEF Confirm, cur
  <2>2. op'.stage = "publish"
    BY <1>3, <1>5, <2>1, BeginSelectOp
  <2> QED BY <1>1, <2>2, QuietCount
<1>6. CASE op' # NoOp /\ review.kind = "install"
  <2>1. op' = BeginInstall(cur) /\ review.act = cur.act
    BY <1>6 DEF Confirm, cur
  <2>2. review.pkg \in Packages /\ review.pkg.full \in BOOLEAN
    BY <1>6, DeliveriesAssumption DEF IndInv, TypeOK, Reviews
  <2>3. /\ op' \in Operations /\ op'.id = t.id /\ op'.id \in Ids
        /\ \/ op'.stage = "publish"
           \/ op'.stage = "directories" /\ t.result = "fresh" /\ op'.id.eng = Engine
    BY <1>3, <1>6, <2>1, <2>2, BeginInstallOp
  <2>4. CASE op'.stage = "publish"
    BY <1>1, <2>4, QuietCount
  <2>5. CASE op'.stage = "directories" /\ t.result = "fresh"
    <3>1. snap \in Ids /\ snap.eng = Engine /\ snap.inst = 0
      BY <1>2, <2>2, SnapshotFacts
    <3> HIDE DEF snap
    <3>2. /\ t.id = Instance(snap, t.id.inst)
          /\ \A k \in 0..RepairBanks : k < t.id.inst =>
               Candidate(cur.act, review.pkg.full, Instance(snap, k)) = "refused"
      BY <1>2, <2>2, <2>5, <3>1, TargetFacts DEF Instance
    <3> HIDE DEF t
    <3>3. /\ SameSnapshot(snap, op'.id) /\ op'.id.inst \in 0..RepairBanks /\ op'.id.eng = Engine
          /\ \A k : Instance(op'.id, k) = Instance(snap, k)
      <4>1. SameSnapshot(snap, op'.id)
        BY <2>3, <3>1, <3>2 DEF Instance, SameSnapshot, Ids
      <4> QED BY <2>3, <2>5, <3>1, <4>1, InstanceFacts, IdFacts
    <3>4. ASSUME NEW k \in 0..RepairBanks, k < op'.id.inst
          PROVE  Instance(snap, k) \in DOMAIN bank /\ ~BankVerify(Instance(snap, k))
      <4> DEFINE b == Instance(snap, k)
      <4>1. Candidate(cur.act, review.pkg.full, b) = "refused"
        BY <2>3, <3>2, <3>4
      <4>2. b \in Ids /\ b # Root
        <5>1. b \in Ids
          BY <3>1 DEF Instance, Ids
        <5> QED BY <5>1, IdFacts
      <4> HIDE DEF b
      <4>3. ~BankVerify(b)
        BY <4>1 DEF Candidate, BankVerify
      <4>4. Receipt(b) \/ Nonempty(b) => b \in DOMAIN bank
        BY DEF Receipt, Nonempty
      <4>5. ASSUME NEW i \in Slots, Valid(i), b \in Named(rec[i])
            PROVE  b \in DOMAIN bank
        BY <1>2, <4>2, <4>5 DEF BankSound, Receipt, TypeOK
      <4>6. b \in Named(cur.act) => b \in DOMAIN bank
        <5>1. \/ cur.act = Missing
              \/ \E i \in Slots : Valid(i) /\ cur.act = rec[i]
          BY <1>2, <1>3, CurrentFacts
        <5>2. Named(Missing) = {Root}
          BY RecordTypes DEF Named
        <5> QED BY <4>2, <4>5, <5>1, <5>2
      <4>7. b = Effective => b \in DOMAIN bank
        BY <1>2, <4>2, EffectiveFacts
      <4>8. Receipt(b) \/ Nonempty(b) \/ Protected(cur.act, b)
        BY <4>1 DEF Candidate
      <4>9. b \in DOMAIN bank
        BY <4>4, <4>5, <4>6, <4>7, <4>8 DEF Protected
      <4> QED BY <4>3, <4>9 DEF b
    <3>5. DirectoriesInv /\ SpoiledInv /\ InstancesEarned
      BY DEF CountInv
    <3>6. DirectoriesInv'
      BY <1>1, <2>5, <3>3, <3>4, <3>5 DEF DirectoriesInv
    <3>7. InstancesEarned'
      BY <1>1, <3>5 DEF InstancesEarned, Instances
    <3>8. \A b : Good(b) <=> BankVerify(b)
      BY <1>1 DEF Good
    <3>9. \A b : Good(b)' <=> BankVerify(b)
      BY <1>1, <2>5 DEF Good, BankVerify, Receipt, MembersOk
    <3>10. \A b \in DOMAIN bank :
             (\A c \in Instances(b)' : ~Good(c)') => Cardinality(Instances(b)') <= cuts' + env'
      <4>1. \A b : Instances(b)' = Instances(b)
        BY <1>1 DEF Instances
      <4> QED BY <1>1, <3>5, <3>8, <3>9, <4>1 DEF SpoiledInv
    <3>11. op'.id \notin DOMAIN bank => Cardinality(Instances(snap)) <= cuts + env
      <4> SUFFICES ASSUME op'.id \notin DOMAIN bank
                   PROVE  Cardinality(Instances(snap)) <= cuts + env
        OBVIOUS
      <4>1. ASSUME NEW c \in Instances(snap)
            PROVE  ~BankVerify(c)
        <5>1. c \in DOMAIN bank /\ c \in Ids /\ SameSnapshot(snap, c)
          BY <1>2 DEF Instances, TypeOK
        <5>2. c = Instance(snap, c.inst) /\ c.eng = Engine /\ \A k : Instance(c, k) = Instance(snap, k)
          BY <3>1, <5>1, InstanceFacts
        <5>3. c.inst \in 0..RepairBanks
          BY <5>1, IdFacts
        <5>4. op'.id = Instance(snap, op'.id.inst)
          BY <2>3, <3>2
        <5>5. ~(op'.id.inst \in 0..c.inst)
          BY <3>5, <5>1, <5>2, <5>4 DEF DirectoriesInv
        <5>6. c.inst < op'.id.inst
          BY <3>3, <5>3, <5>5, BoundsAssumption
        <5> QED BY <3>4, <5>2, <5>3, <5>6
      <4>2. CASE Instances(snap) = {}
        BY <1>2, <4>2, FS_EmptySet, BoundsAssumption DEF TypeOK
      <4>3. CASE Instances(snap) # {}
        <5>1. PICK c \in Instances(snap) : TRUE
          BY <4>3
        <5>2. c \in DOMAIN bank /\ c \in Ids /\ SameSnapshot(snap, c)
          BY <1>2 DEF Instances, TypeOK
        <5>3. Instances(c) = Instances(snap)
          BY <3>1, <5>2, InstanceFacts DEF Instances
        <5> QED BY <3>5, <3>8, <4>1, <5>2, <5>3 DEF SpoiledInv
      <4> QED BY <4>2, <4>3
    <3>12. op'.id \notin DOMAIN bank => Cardinality(Instances(op.id)') <= cuts' + env'
      <4>1. Instances(op.id)' = Instances(snap)
        BY <1>1, <2>3, <3>1, <3>3, InstanceFacts DEF Instances
      <4> QED BY <1>1, <3>11, <4>1
    <3>13. SpoiledInv'
      BY <1>1, <2>5, <3>10, <3>12 DEF SpoiledInv
    <3> QED BY <3>6, <3>7, <3>13 DEF CountInv
  <2> QED BY <2>3, <2>4, <2>5
<1> QED BY <1>4, <1>5, <1>6

(* A write that is the operation's last is an event *)
LEMMA CutCount ==
  ASSUME IndInv, IndInv', CountInv, CutShort, UNCHANGED env,
         UNCHANGED bank \/ (Filling /\ \E d : PutDirectory(d))
  PROVE  CountInv'
<1>1. op' = NoOp /\ cuts' + env' = cuts + env + 1
  BY DEF CutShort, IndInv, TypeOK
<1>2. CASE UNCHANGED bank
  <2>1. \A b : Instances(b)' = Instances(b)
    BY <1>2 DEF Instances
  <2> QED BY <1>1, <1>2, <2>1, EventCount DEF CountInv, DirectoriesInv, InstancesEarned
<1>3. CASE Filling /\ \E d : PutDirectory(d)
  <2>1. DOMAIN bank' = DOMAIN bank \cup {op.id}
    BY <1>3 DEF PutDirectory
  <2>2. /\ IsFiniteSet(DOMAIN bank')
        /\ \A b \in DOMAIN bank' : b.eng = Engine =>
             \A k \in 0..b.inst : Instance(b, k) \in DOMAIN bank'
        /\ \A b \in DOMAIN bank' : Cardinality(Instances(b)') <= cuts + env + 1
    BY <1>3, <2>1, DirectoryAdded
  <2> QED BY <1>1, <2>1, <2>2, EventCount
<1> QED BY <1>2, <1>3

LEMMA OutsideCount ==
  ASSUME IndInv, IndInv', CountInv, Rot \/ BootstrapZip
  PROVE  CountInv'
<1>1. UNCHANGED <<op, cuts>> /\ cuts' + env' = cuts + env + 1
  BY DEF Rot, BootstrapZip, Outside, IndInv, TypeOK
<1>2. DOMAIN bank' = DOMAIN bank
  <2>1. bank \in [DOMAIN bank -> Directories]
    BY DEF IndInv, TypeOK
  <2> QED BY <2>1 DEF Rot, BootstrapZip
<1>3. \A b : Instances(b)' = Instances(b)
  BY <1>2 DEF Instances
<1> QED BY <1>1, <1>2, <1>3, EventCount DEF CountInv, DirectoriesInv, InstancesEarned

(* A write the operation goes on after: the bank being filled counts as    *)
(* good, and is complete when it gets its receipt.                         *)
LEMMA FillCount ==
  ASSUME IndInv, CountInv, Filling, NEW d, PutDirectory(d),
         NEW stage \in {"clear", "members", "publish"}, NEW todo, Continue(stage, todo),
         UNCHANGED env, stage # "clear" => op.stage \in {"clear", "members"},
         stage \in {"members", "publish"} =>
           \/ \A m \in Rows(op.id) \ todo : d.mem[m] = "ok"
           \/ Cardinality(Instances(op.id)) <= cuts + env,
         stage = "publish" => todo = {} /\ d.rcpt = "ok"
  PROVE  CountInv'
<1>1. /\ DOMAIN bank' = DOMAIN bank \cup {op.id} /\ bank'[op.id] = d
      /\ \A c \in DOMAIN bank : c # op.id => bank'[c] = bank[c]
      /\ op \in Operations /\ UNCHANGED <<cuts, env>>
      /\ op' = [op EXCEPT !.stage = stage, !.todo = todo]
  BY DEF PutDirectory, Continue, IndInv, TypeOK
<1>2. op'.id = op.id /\ op'.stage = stage /\ op'.todo = todo /\ op.id \in Ids
  BY <1>1 DEF Operations, IndInv, Safe, OpInv
<1>3. /\ IsFiniteSet(DOMAIN bank')
      /\ \A b \in DOMAIN bank' : b.eng = Engine =>
           \A k \in 0..b.inst : Instance(b, k) \in DOMAIN bank'
      /\ \A b \in DOMAIN bank' : Cardinality(Instances(b)') <= cuts + env + 1
      /\ \A b \in DOMAIN bank' : ~SameSnapshot(b, op.id) => Instances(b)' = Instances(b)
      /\ op.id \in DOMAIN bank => \A b : Instances(b)' = Instances(b)
  BY <1>1, DirectoryAdded
<1>4. DirectoriesInv'
  BY <1>2, <1>3 DEF DirectoriesInv
<1>5. InstancesEarned'
  BY <1>1, <1>3 DEF InstancesEarned
<1>6. stage # "clear" => op.id \in DOMAIN bank
  BY DEF IndInv, Safe, OpInv
<1>7. ASSUME NEW c \in DOMAIN bank, c # op.id
      PROVE  Good(c) => Good(c)'
  BY <1>1, <1>7 DEF Good, BankVerify, Receipt, MembersOk
<1>8. \/ Good(op.id)'
      \/ stage = "publish" /\ Cardinality(Instances(op.id)) <= cuts + env
  <2>1. CASE stage # "publish"
    BY <1>2, <2>1 DEF Good
  <2>2. CASE stage = "publish" /\ \A m \in Rows(op.id) \ todo : d.mem[m] = "ok"
    BY <1>1, <1>2, <2>2 DEF Good, BankVerify, Receipt, MembersOk
  <2> QED BY <2>1, <2>2
<1>9. ASSUME NEW b \in DOMAIN bank', \A c \in Instances(b)' : ~Good(c)'
      PROVE  Cardinality(Instances(b)') <= cuts' + env'
  <2>1. CASE SameSnapshot(b, op.id)
    <3>1. \A c : c = op.id => (c \in Instances(b)')
      BY <1>1, <2>1 DEF Instances
    <3>2. ~Good(op.id)'
      <4>1. \A c : c = op.id => ~Good(c)'
        BY <1>9, <3>1
      <4> QED BY <1>2, <4>1 DEF Good, BankVerify, Receipt, MembersOk
    <3>3. Cardinality(Instances(op.id)) <= cuts + env /\ op.id \in DOMAIN bank
      BY <1>6, <1>8, <3>2
    <3>4. Instances(b)' = Instances(op.id)
      <4>1. Instances(b)' = Instances(b)
        BY <1>3, <3>3
      <4>2. b \in Ids
        BY <1>1, <1>2 DEF IndInv, TypeOK
      <4> QED BY <1>2, <2>1, <4>1, <4>2, InstanceFacts DEF Instances
    <3> QED BY <1>1, <3>3, <3>4
  <2>2. CASE ~SameSnapshot(b, op.id)
    <3>1. b # op.id /\ b \in DOMAIN bank
      BY <1>1, <2>2 DEF SameSnapshot
    <3>2. Instances(b)' = Instances(b)
      BY <1>3, <2>2
    <3>3. \A c \in Instances(b) : c \in DOMAIN bank /\ c # op.id
      BY <2>2 DEF Instances
    <3>4. \A c \in Instances(b) : ~Good(c)
      BY <1>7, <1>9, <3>2, <3>3
    <3> QED BY <1>1, <3>1, <3>2, <3>4 DEF CountInv, SpoiledInv
  <2> QED BY <2>1, <2>2
<1>10. stage = "members" =>
         \/ \A m \in Rows(op.id) \ todo : d.mem[m] = "ok"
         \/ Cardinality(Instances(op.id)') <= cuts' + env'
  <2>1. stage = "members" => Instances(op.id)' = Instances(op.id)
    BY <1>1, <1>2, <1>6 DEF Instances
  <2> QED BY <1>1, <2>1
<1>11. SpoiledInv'
  BY <1>1, <1>2, <1>9, <1>10 DEF SpoiledInv
<1> QED BY <1>4, <1>5, <1>11 DEF CountInv

LEMMA InitCount == Init => CountInv
<1> SUFFICES ASSUME Init PROVE CountInv
  OBVIOUS
<1>1. op.stage = "idle" /\ cuts = 0 /\ env = 0
  BY FreshTypes DEF Init
<1>2. CASE DOMAIN bank = {}
  BY <1>1, <1>2, FS_EmptySet DEF CountInv, DirectoriesInv, SpoiledInv, InstancesEarned
<1>3. CASE /\ Legacy # Root
           /\ bank = [b \in {Legacy} |->
                [mem |-> [m \in Members |-> IF m \in Rows(b) THEN "ok" ELSE "absent"],
                 rcpt |-> "ok", sub |-> TRUE]]
  <2>1. Legacy \in Ids
    BY <1>3, DeliveriesAssumption
  <2>2. DOMAIN bank = {Legacy} /\ IsFiniteSet(DOMAIN bank) /\ Cardinality(DOMAIN bank) = 1
    BY <1>3, FS_Singleton
  <2>3. Instances(Legacy) = {Legacy}
    BY <2>2 DEF Instances, SameSnapshot
  <2>4. BankVerify(Legacy)
    BY <1>3 DEF BankVerify, Receipt, MembersOk, Rows
  <2>5. ASSUME Legacy.eng = Engine, NEW k \in 0..Legacy.inst
        PROVE  Instance(Legacy, k) = Legacy
    <3>1. Legacy.inst = 0 /\ k = 0
      BY <2>5, LegacyAssumption, BoundsAssumption
    <3> QED BY <2>1, <3>1 DEF Instance, Ids
  <2>6. DirectoriesInv
    BY <1>1, <2>2, <2>5 DEF DirectoriesInv
  <2>7. SpoiledInv
    BY <1>1, <2>2, <2>3, <2>4 DEF SpoiledInv, Good
  <2>8. InstancesEarned
    BY <1>1, <2>2, <2>3 DEF InstancesEarned
  <2> QED BY <2>6, <2>7, <2>8 DEF CountInv
<1> QED BY <1>2, <1>3 DEF Init

LEMMA FillsCount ==
  ASSUME IndInv, IndInv', CountInv,
         MakeDirectories \/ ClearPartial \/ WriteMember \/ WriteReceipt
  PROVE  CountInv'
<1>1. SpoiledInv /\ UNCHANGED env
  BY DEF CountInv, MakeDirectories, ClearPartial, WriteMember, WriteReceipt
<1>2. CASE CutShort
  <2>1. Filling /\ \E d : PutDirectory(d)
    BY DEF Filling, MakeDirectories, ClearPartial, WriteMember, WriteReceipt
  <2> QED BY <1>1, <1>2, <2>1, CutCount
<1>3. CASE MakeDirectories /\ ~CutShort
  <2>1. Filling /\ Continue("clear", op.todo) /\ \E d : PutDirectory(d)
    BY <1>3 DEF MakeDirectories, Filling
  <2> QED BY <1>1, <2>1, FillCount
<1>4. CASE ClearPartial /\ ~CutShort
  <2> DEFINE d == [EmptyDirectory EXCEPT !.sub = Directory.sub]
  <2>1. Filling /\ op.stage = "clear" /\ Continue("members", op.todo) /\ PutDirectory(d)
    BY <1>4 DEF ClearPartial, Filling
  <2>2. \A m \in Rows(op.id) \ op.todo : d.mem[m] = "ok"
    BY <2>1 DEF IndInv, Safe, OpInv, Filling
  <2> HIDE DEF d
  <2> QED BY <1>1, <2>1, <2>2, FillCount
<1>5. CASE WriteMember /\ ~CutShort
  <2>1. PICK m \in op.todo :
          PutDirectory([Directory EXCEPT !.mem[m] = "ok"]) /\ Continue("members", op.todo \ {m})
    BY <1>5 DEF WriteMember
  <2>2. op.stage = "members"
    BY <1>5 DEF WriteMember
  <2>3. Filling /\ Directory \in Directories /\ op.todo \subseteq Members /\ op.id \in DOMAIN bank
    BY <2>2, WritingFacts DEF IndInv, Safe, OpInv, Filling
  <2>4. Directory = bank[op.id]
    BY <2>3 DEF Directory
  <2> DEFINE d == [Directory EXCEPT !.mem[m] = "ok"]
  <2>5. d.mem[m] = "ok" /\ \A n \in Members : n # m => d.mem[n] = Directory.mem[n]
    BY <2>3 DEF Directories
  <2>6. PutDirectory(d) /\ Continue("members", op.todo \ {m})
    BY <2>1
  <2> HIDE DEF d
  <2>7. \/ \A n \in Rows(op.id) \ (op.todo \ {m}) : d.mem[n] = "ok"
        \/ Cardinality(Instances(op.id)) <= cuts + env
    BY <1>1, <2>2, <2>4, <2>5 DEF SpoiledInv, Rows
  <2> QED BY <1>1, <2>2, <2>3, <2>6, <2>7, FillCount
<1>6. CASE WriteReceipt /\ ~CutShort
  <2> DEFINE d == [Directory EXCEPT !.rcpt = "ok"]
  <2>1. op.stage = "members" /\ op.todo = {} /\ PutDirectory(d) /\ Continue("publish", {})
    BY <1>6 DEF WriteReceipt
  <2>2. Filling /\ Directory \in Directories /\ op.id \in DOMAIN bank
    BY <2>1, WritingFacts DEF IndInv, Safe, OpInv, Filling
  <2>3. Directory = bank[op.id]
    BY <2>2 DEF Directory
  <2>4. d.rcpt = "ok" /\ d.mem = Directory.mem
    BY <2>2 DEF Directories
  <2> HIDE DEF d
  <2>5. \/ \A n \in Rows(op.id) \ {} : d.mem[n] = "ok"
        \/ Cardinality(Instances(op.id)) <= cuts + env
    BY <1>1, <2>1, <2>3, <2>4 DEF SpoiledInv
  <2> QED BY <1>1, <2>1, <2>2, <2>4, <2>5, FillCount
<1> QED BY <1>2, <1>3, <1>4, <1>5, <1>6

LEMMA StepCount ==
  ASSUME IndInv, IndInv', CountInv, [Next]_vars
  PROVE  CountInv'
<1>1. op.stage = "idle" => op = NoOp
  BY DEF IndInv, Safe, OpInv
<1>2. CASE UNCHANGED vars \/ Review \/ ColdBoot \/ PowerOff \/ Restart \/ BootStep \/ BaselineAsked
           \/ BootRefused
  <2>1. UNCHANGED <<bank, cuts, env, op>>
    BY <1>2 DEF vars, Review, ColdBoot, PowerOff, Restart, BootStep, BaselineAsked, BootRefused
  <2> QED BY <2>1, QuietCount
<1>3. CASE Confirm
  BY <1>3, ConfirmCount
<1>4. CASE Cancel
  BY <1>4, CutCount DEF Cancel
<1>5. CASE MakeDirectories \/ ClearPartial \/ WriteMember \/ WriteReceipt
  BY <1>5, FillsCount
<1>6. CASE Publish
  <2>1. op.stage = "publish" /\ UNCHANGED <<bank, env>> /\ (Done \/ CutShort)
    BY <1>6, PublishFacts DEF Publish
  <2>2. CASE Done
    BY <2>1, <2>2, QuietCount, FreshTypes DEF Done
  <2>3. CASE CutShort
    BY <2>1, <2>3, CutCount
  <2> QED BY <2>1, <2>2, <2>3
<1>7. CASE Rot \/ BootstrapZip
  BY <1>7, OutsideCount
<1> QED BY <1>2, <1>3, <1>4, <1>5, <1>6, <1>7 DEF Next

(* Directories of one version do not pile up: each beyond the first is     *)
(* owed to an operation that ended early or to damage from outside, for    *)
(* every number of repair instances (snapshot_target).                     *)
THEOREM InstancesStayEarned == Spec => []InstancesEarned
<1>1. Init => CountInv
  BY InitCount
<1>2. IndInv /\ IndInv' /\ CountInv /\ [Next]_vars => CountInv'
  BY StepCount
<1>3. CountInv => InstancesEarned
  BY DEF CountInv
<1> QED BY <1>1, <1>2, <1>3, Invariance, PTL DEF Spec
=============================================================================

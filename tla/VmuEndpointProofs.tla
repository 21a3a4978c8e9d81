------------------------- MODULE VmuEndpointProofs -------------------------
(***************************************************************************)
(* Proofs about VmuEndpoint for every card, cache size, deadline, number   *)
(* of tickets and number of faults.                                        *)
(***************************************************************************)
EXTENDS VmuEndpoint, TLAPS

-----------------------------------------------------------------------------
(* The inductive invariant *)

(* The protocol engine and the game agree on the block being written: what *)
(* is staged is what the game was told had been received.                  *)
EngineInv ==
  /\ eng.attempted => eng.active /\ eng.phases = Phases
  /\ eng.active => /\ eng.block \in Blocks /\ guest.wblock = eng.block
                   /\ \A p \in eng.phases : guest.wrote[p] = eng.staged[p]
  /\ ~eng.active => guest.wblock = NoBlock

(* The job in the mailbox: a commit that was applied is on the card, one   *)
(* that is finished was applied, a finished read holds the block.          *)
QueueInv ==
  /\ q.op # "none" => q.block \in Blocks
  /\ q.state \in {"pending", "running", "done"} => q.op # "none"
  /\ q.op = "commit" =>
       /\ q.applied => card[q.block] = q.bytes
       /\ q.state \in {"idle", "done"} => q.applied
       /\ q.state = "pending" => ~q.applied
  /\ q.op = "read" /\ q.state = "done" => q.bytes = card[q.block]

(* While the provider runs and until its result is published the mailbox   *)
(* holds the claimed job, unless it has faulted.                           *)
WorkerInv ==
  /\ wk.pc \in {"io", "publish"} =>
       /\ q.state \in {"running", "fault"} /\ wk.op # "none"
       /\ wk.op = q.op /\ wk.block = q.block /\ wk.ticket = q.ticket
  /\ wk.pc = "io" /\ q.op = "commit" => ~q.applied
  /\ wk.pc = "publish" =>
       /\ wk.io = "busy" /\ q.op = "commit" => ~q.applied
       /\ wk.io = "ok" /\ q.op = "commit" => q.applied
       /\ wk.io = "ok" /\ q.op = "read" => q.bytes = card[q.block]
  /\ ~power => wk.pc = "idle"

(* The deadline stops the worker before the count runs out. *)
DeadlineInv ==
  /\ wk.pc # "idle" => ~rt.logged
  /\ ~rt.logged => rt.rounds < MaxRounds

(* A cached block lies in its own slot. *)
SlotInv == \A s \in 0..CacheSlots - 1 : rt.tag[s] # NoBlock => Slot(rt.tag[s]) = s

Safe == EngineInv /\ QueueInv /\ WorkerInv /\ DeadlineInv /\ SlotInv
IndInv == TypeOK /\ Safe /\ CommitOwned /\ CacheFresh /\ AckedDurable

-----------------------------------------------------------------------------
(* Constants *)
LEMMA DataTypes ==
  /\ SomeData \in Data /\ NoBlock \notin Blocks /\ 0 \in Phases
  /\ \A c \in [Blocks -> Data] :
       /\ FreshRuntime(c).crc = c /\ FreshGuest(c).acked = c
       /\ FreshGuest(c).wblock = NoBlock
       /\ FreshRuntime(c).rounds = 0 /\ ~FreshRuntime(c).logged
       /\ \A s \in 0..CacheSlots - 1 : FreshRuntime(c).tag[s] = NoBlock
<1>1. (CHOOSE v \in Values : TRUE) \in Values
  BY ValuesAssumption
<1> QED
  BY <1>1, BlocksAssumption, NumbersAssumption
  DEF SomeData, Data, NoBlock, Phases, FreshRuntime, FreshGuest

(* What the parts are when the game starts *)
LEMMA FreshTypes ==
  ASSUME NEW c \in [Blocks -> Data]
  PROVE  /\ FreshEngine \in Engines /\ FreshQueue \in Mailboxes /\ FreshWorker \in Workers
         /\ FreshRuntime(c) \in Runtimes /\ FreshGuest(c) \in Guests
BY DataTypes, NumbersAssumption
DEF FreshEngine, FreshQueue, FreshWorker, FreshRuntime, FreshGuest, MaybeBlock,
    Engines, Mailboxes, Workers, Runtimes, Guests

LEMMA InitInv == Init => IndInv
<1> SUFFICES ASSUME Init PROVE IndInv
  OBVIOUS
<1>1. card \in [Blocks -> Data]
  BY DataTypes DEF Init
<1>2. TypeOK
  <2>1. /\ FreshEngine \in Engines /\ FreshQueue \in Mailboxes /\ FreshWorker \in Workers
        /\ FreshRuntime(card) \in Runtimes /\ FreshGuest(card) \in Guests
    BY <1>1, FreshTypes
  <2>2. 0 \in 0..MaxFaults
    BY NumbersAssumption
  <2> QED BY <1>1, <2>1, <2>2, Zenon DEF Init, TypeOK, Requests
<1>3. Safe /\ CommitOwned /\ CacheFresh /\ AckedDurable
  BY <1>1, DataTypes, NumbersAssumption
  DEF Init, Safe, EngineInv, QueueInv, WorkerInv, DeadlineInv, SlotInv, CommitOwned,
      CacheFresh, AckedDurable, FreshEngine, FreshQueue, FreshWorker, FreshRuntime, FreshGuest
<1> QED BY <1>2, <1>3 DEF IndInv

-----------------------------------------------------------------------------
(* The four things a request may find: an idle mailbox, with a ticket left *)
(* or without, the finished job it asks for, or anything else.             *)
Submitted(op, b, data) ==
  [q EXCEPT !.state = "pending", !.op = op, !.block = b, !.ticket = @ + 1,
            !.bytes = IF op = "commit" THEN data ELSE @, !.applied = FALSE]
LEMMA RequestEffect ==
  ASSUME TypeOK, NEW op \in {"read", "commit"}, NEW b \in Blocks, NEW data \in Data
  PROVE  LET m == RequestQueue(op, b, data)
             res == RequestResult(op, b, data)
         IN  /\ m \in Mailboxes
             /\ \/ /\ q.state = "idle" /\ q.ticket < TicketMax /\ res = "busy"
                   /\ m = Submitted(op, b, data)
                \/ /\ q.state = "idle" /\ res = "error"
                   /\ m = [q EXCEPT !.state = "fault"]
                \/ /\ Ready(op, b, data) /\ res = "ok"
                   /\ m = [q EXCEPT !.state = "idle"]
                \/ /\ q.state # "idle" /\ res \in {"busy", "error"} /\ m = q
<1>1. CASE q.state = "idle" /\ q.ticket = TicketMax
  BY <1>1 DEF TypeOK, Mailboxes, RequestQueue, RequestResult, Submit, Faulted, Ready
<1>2. CASE q.state = "idle" /\ q.ticket # TicketMax
  <2>1. q.ticket < TicketMax /\ q.ticket + 1 \in 0..TicketMax
    BY <1>2, NumbersAssumption DEF TypeOK, Mailboxes
  <2>2. RequestQueue(op, b, data) = Submitted(op, b, data)
    BY <1>2 DEF RequestQueue, Submit, Submitted, Ready
  <2>3. Submitted(op, b, data) \in Mailboxes
    BY <2>1 DEF TypeOK, Mailboxes, MaybeBlock, Submitted
  <2>4. RequestResult(op, b, data) = "busy"
    BY <1>2 DEF RequestResult, Ready
  <2> QED BY <1>2, <2>1, <2>2, <2>3, <2>4
<1>3. CASE Ready(op, b, data)
  <2>1. q.state = "done"
    BY <1>3 DEF Ready
  <2> QED BY <1>3, <2>1 DEF TypeOK, Mailboxes, RequestQueue, RequestResult
<1>4. CASE ~Ready(op, b, data) /\ q.state # "idle"
  BY <1>4 DEF TypeOK, Mailboxes, RequestQueue, RequestResult
<1> QED BY <1>1, <1>2, <1>3, <1>4

(* Replies keep what the game has written and what it was told is safe. *)
LEMMA ToldType ==
  ASSUME TypeOK, NEW r \in {"none", "ok", "again", "error"}
  PROVE  /\ Told(r) \in Guests
         /\ Told(r).wblock = guest.wblock /\ Told(r).wrote = guest.wrote
         /\ Told(r).acked = guest.acked /\ Told(r).reply = r
BY DataTypes DEF TypeOK, Guests, Told, MaybeBlock

LEMMA ReplyToType ==
  ASSUME NEW result, NEW m PROVE ReplyTo(result, m) \in {"none", "again", "error"}
BY DEF ReplyTo

(* The engine after a write phase: unchanged, restarted with the first     *)
(* phase of a block, or one phase further; OK is what the game is told.    *)
LEMMA WriteEffect ==
  ASSUME TypeOK, NEW b \in Blocks, NEW p \in Phases, NEW v \in Values
  PROVE  LET e == [WriteEngine(b, p, v) EXCEPT !.read = NoBlock]
         IN  /\ e \in Engines /\ WriteReply(b, p, v) \in {"ok", "again", "error"}
             /\ \/ /\ e = [eng EXCEPT !.read = NoBlock]
                   /\ WriteReply(b, p, v) = "ok" =>
                        eng.block = b /\ eng.staged[p] = v /\ (eng.attempted \/ eng.active)
                \/ /\ ~eng.attempted /\ p = 0 /\ WriteReply(b, p, v) = "ok"
                   /\ e.block = b /\ e.active /\ e.phases = {0} /\ ~e.attempted
                   /\ e.staged[0] = v
                \/ /\ ~eng.attempted /\ WriteReply(b, p, v) = "ok"
                   /\ eng.active /\ eng.block = b /\ e.active /\ e.block = b /\ ~e.attempted
                   /\ e.phases = eng.phases \cup {p}
                   /\ e.staged = [eng.staged EXCEPT ![p] = v]
<1> DEFINE e == [WriteEngine(b, p, v) EXCEPT !.read = NoBlock]
<1>0. 0 \in Phases
  BY DataTypes
<1>1. CASE eng.attempted
  <2>1. WriteEngine(b, p, v) = eng
    BY <1>1 DEF WriteEngine
  <2> QED BY <1>1, <2>1 DEF WriteReply, TypeOK, Engines, MaybeBlock
<1>2. CASE ~eng.attempted /\ Restarts(b, p, v)
  <2>1. WriteEngine(b, p, v) = Restarted(b, v)
    BY <1>2 DEF WriteEngine
  <2>2. WriteReply(b, p, v) = "ok" /\ p = 0
    BY <1>2 DEF WriteReply, Restarts
  <2>3. [eng.staged EXCEPT ![0] = v] \in Data /\ {0} \in SUBSET Phases
    BY <1>0 DEF TypeOK, Engines, Data
  <2>4. e \in Engines
    BY <2>1, <2>3 DEF TypeOK, Engines, Restarted, MaybeBlock
  <2> QED BY <1>0, <1>2, <2>1, <2>2, <2>4 DEF Restarted, TypeOK, Engines, Data
<1>3. CASE ~eng.attempted /\ ~Restarts(b, p, v) /\ Follows(b, p)
  <2>1. WriteEngine(b, p, v) = [eng EXCEPT !.staged[p] = v, !.phases = @ \cup {p}]
    BY <1>3 DEF WriteEngine
  <2>2. WriteReply(b, p, v) = "ok"
    BY <1>3 DEF WriteReply
  <2>3. [eng.staged EXCEPT ![p] = v] \in Data /\ eng.phases \cup {p} \in SUBSET Phases
    BY DEF TypeOK, Engines, Data
  <2>4. e \in Engines
    BY <2>1, <2>3 DEF TypeOK, Engines, MaybeBlock
  <2> QED BY <1>3, <2>1, <2>2, <2>4 DEF TypeOK, Engines, Follows
<1>4. CASE ~eng.attempted /\ ~Restarts(b, p, v) /\ ~Follows(b, p)
  <2>1. WriteEngine(b, p, v) = eng
    BY <1>4 DEF WriteEngine
  <2> QED BY <1>4, <2>1 DEF WriteReply, Repeats, TypeOK, Engines, MaybeBlock
<1> QED BY <1>1, <1>2, <1>3, <1>4

-----------------------------------------------------------------------------
(* Each action preserves the invariant *)

LEMMA PowerOnStep == IndInv /\ PowerOn => IndInv'
<1> SUFFICES ASSUME IndInv, PowerOn PROVE IndInv'
  OBVIOUS
<1>1. card \in [Blocks -> Data] /\ card' = card /\ faults' \in 0..MaxFaults
  BY DEF IndInv, TypeOK, PowerOn
<1>2. TypeOK'
  <2>1. /\ FreshEngine \in Engines /\ FreshQueue \in Mailboxes /\ FreshWorker \in Workers
        /\ FreshRuntime(card) \in Runtimes /\ FreshGuest(card) \in Guests
    BY <1>1, FreshTypes
  <2> QED BY <1>1, <2>1, Zenon DEF PowerOn, TypeOK, Requests
<1>3. Safe' /\ CommitOwned' /\ CacheFresh' /\ AckedDurable'
  BY <1>1, DataTypes, NumbersAssumption
  DEF PowerOn, Safe, EngineInv, QueueInv, WorkerInv, DeadlineInv, SlotInv, CommitOwned,
      CacheFresh, AckedDurable, FreshEngine, FreshQueue, FreshWorker, FreshRuntime, FreshGuest
<1> QED BY <1>2, <1>3 DEF IndInv

(* A request that neither writes nor commits moves only the mailbox: what  *)
(* the invariant says of the other parts is untouched.                     *)
LEMMA ReadStep == ASSUME NEW b \in Blocks PROVE IndInv /\ Read(b) => IndInv'
<1> SUFFICES ASSUME IndInv, Read(b) PROVE IndInv'
  OBVIOUS
<1> DEFINE res == RequestResult("read", b, SomeData)
           m == RequestQueue("read", b, SomeData)
<1>0. TypeOK
  BY DEF IndInv
<1>1. /\ m \in Mailboxes
      /\ \/ /\ q.state = "idle" /\ q.ticket < TicketMax /\ res = "busy"
            /\ m = Submitted("read", b, SomeData)
         \/ q.state = "idle" /\ res = "error" /\ m = [q EXCEPT !.state = "fault"]
         \/ Ready("read", b, SomeData) /\ res = "ok" /\ m = [q EXCEPT !.state = "idle"]
         \/ q.state # "idle" /\ res \in {"busy", "error"} /\ m = q
  BY <1>0, DataTypes, RequestEffect
<1>2. q' = m /\ UNCHANGED <<card, power, wk, rt, faults>>
  BY DEF Read
<1> HIDE DEF res, m
<1>3. eng' \in Engines /\ eng' = [eng EXCEPT !.read = eng'.read]
  BY <1>0 DEF Read, TypeOK, Engines, MaybeBlock
<1>4. guest' \in Guests /\ guest'.wblock = guest.wblock /\ guest'.wrote = guest.wrote
      /\ guest'.acked = guest.acked
  <2>1. CASE res = "ok"
    <3>1. guest' = [guest EXCEPT !.reply = "data", !.block = b, !.data = q.bytes]
      BY <2>1 DEF Read, res
    <3> QED BY <1>0, <3>1 DEF TypeOK, Guests, Mailboxes, MaybeBlock
  <2>2. CASE res # "ok"
    <3>1. guest' = Told(ReplyTo(res, m))
      BY <2>2 DEF Read, res, m, Reply
    <3> QED BY <1>0, <3>1, ReplyToType, ToldType
  <2> QED BY <2>1, <2>2
<1>5. held' \in Requests
  BY DEF Read, Hold, Requests
<1>6. TypeOK'
  BY <1>0, <1>1, <1>2, <1>3, <1>4, <1>5 DEF TypeOK
<1>7. q.state = "idle" => wk.pc \notin {"io", "publish"}
  BY DEF IndInv, Safe, WorkerInv
<1>8. q' \in Mailboxes /\ q \in Mailboxes
  BY <1>0, <1>1, <1>2 DEF TypeOK
<1>9. EngineInv' /\ DeadlineInv' /\ SlotInv' /\ CacheFresh'
  BY <1>0, <1>2, <1>3, <1>4
  DEF IndInv, Safe, EngineInv, DeadlineInv, SlotInv, CacheFresh, TypeOK, Engines
<1>10. QueueInv' /\ WorkerInv'
  BY <1>0, <1>1, <1>2, <1>7
  DEF IndInv, Safe, QueueInv, WorkerInv, TypeOK, Mailboxes, Submitted, Ready
<1>11. CommitOwned'
  BY <1>0, <1>1, <1>2, <1>3 DEF IndInv, CommitOwned, TypeOK, Mailboxes, Engines, Submitted, Ready
<1>12. AckedDurable'
  BY <1>0, <1>1, <1>2, <1>4
  DEF IndInv, AckedDurable, InDoubt, TypeOK, Mailboxes, Submitted, Ready
<1> QED BY <1>6, <1>9, <1>10, <1>11, <1>12 DEF IndInv, Safe

(* Requests the adapter answers by itself *)
LEMMA QuietRequest ==
  ASSUME IndInv, UNCHANGED <<card, power, q, wk, rt, held, faults>>,
         eng' \in {eng, [eng EXCEPT !.read = NoBlock]},
         NEW r \in {"ok", "error"}, guest' = Told(r)
  PROVE  IndInv'
<1>0. TypeOK
  BY DEF IndInv
<1>1. /\ eng' \in Engines /\ eng'.active = eng.active /\ eng'.phases = eng.phases
      /\ eng'.block = eng.block /\ eng'.staged = eng.staged /\ eng'.attempted = eng.attempted
  BY <1>0 DEF TypeOK, Engines, MaybeBlock
<1>2. /\ guest' \in Guests /\ guest'.wblock = guest.wblock /\ guest'.wrote = guest.wrote
      /\ guest'.acked = guest.acked
  BY <1>0, ToldType
<1>3. TypeOK'
  BY <1>0, <1>1, <1>2 DEF TypeOK
<1>4. Safe'
  BY <1>1, <1>2 DEF IndInv, Safe, EngineInv, QueueInv, WorkerInv, DeadlineInv, SlotInv
<1>5. CommitOwned' /\ CacheFresh' /\ AckedDurable'
  BY <1>1, <1>2 DEF IndInv, CommitOwned, CacheFresh, AckedDurable, InDoubt
<1> QED BY <1>3, <1>4, <1>5 DEF IndInv

LEMMA ReadFinalStep == ASSUME NEW b \in Blocks PROVE IndInv /\ ReadFinal(b) => IndInv'
BY QuietRequest DEF ReadFinal, Reply

LEMMA MalformedStep == IndInv /\ Malformed => IndInv'
BY QuietRequest DEF Malformed, Reply

LEMMA WriteStep ==
  ASSUME NEW b \in Blocks, NEW p \in Phases, NEW v \in Values
  PROVE  IndInv /\ Write(b, p, v) => IndInv'
<1> SUFFICES ASSUME IndInv, Write(b, p, v) PROVE IndInv'
  OBVIOUS
<1> DEFINE e == [WriteEngine(b, p, v) EXCEPT !.read = NoBlock]
           w == WriteReply(b, p, v)
<1>0. TypeOK
  BY DEF IndInv
<1>1. /\ e \in Engines /\ w \in {"ok", "again", "error"}
      /\ \/ /\ e = [eng EXCEPT !.read = NoBlock]
            /\ w = "ok" => eng.block = b /\ eng.staged[p] = v /\ (eng.attempted \/ eng.active)
         \/ /\ ~eng.attempted /\ p = 0 /\ w = "ok"
            /\ e.block = b /\ e.active /\ e.phases = {0} /\ ~e.attempted
            /\ e.staged[0] = v
         \/ /\ ~eng.attempted /\ w = "ok"
            /\ eng.active /\ eng.block = b /\ e.active /\ e.block = b /\ ~e.attempted
            /\ e.phases = eng.phases \cup {p}
            /\ e.staged = [eng.staged EXCEPT ![p] = v]
  BY <1>0, WriteEffect
<1>2. /\ eng' = e /\ UNCHANGED <<card, power, q, wk, rt, held, faults>>
      /\ guest' = IF w = "ok" THEN [Told("ok") EXCEPT !.wblock = b, !.wrote[p] = v] ELSE Told(w)
  BY DEF Write
<1> HIDE DEF e, w
<1>3. /\ guest' \in Guests /\ guest'.acked = guest.acked
      /\ w # "ok" => guest'.wblock = guest.wblock /\ guest'.wrote = guest.wrote
      /\ w = "ok" => guest'.wblock = b /\ guest'.wrote = [guest.wrote EXCEPT ![p] = v]
  <2>1. CASE w = "ok"
    <3>1. /\ Told("ok") \in Guests /\ Told("ok").wrote = guest.wrote
          /\ Told("ok").acked = guest.acked
      BY <1>0, ToldType
    <3>2. [guest.wrote EXCEPT ![p] = v] \in Data
      BY <1>0 DEF TypeOK, Guests, Data
    <3>3. guest' = [Told("ok") EXCEPT !.wblock = b, !.wrote = [guest.wrote EXCEPT ![p] = v]]
      BY <1>2, <2>1, <3>1
    <3> QED BY <2>1, <3>1, <3>2, <3>3 DEF Guests, MaybeBlock
  <2>2. CASE w # "ok"
    BY <1>0, <1>1, <1>2, <2>2, ToldType
  <2> QED BY <2>1, <2>2
<1>4. TypeOK'
  BY <1>0, <1>1, <1>2, <1>3 DEF TypeOK
<1>5. eng \in Engines /\ guest \in Guests /\ eng.staged \in Data /\ guest.wrote \in Data
  BY <1>0 DEF TypeOK, Engines, Guests
<1>6. EngineInv'
  <2>1. CASE e = [eng EXCEPT !.read = NoBlock]
    <3>1. /\ e.active = eng.active /\ e.phases = eng.phases /\ e.block = eng.block
          /\ e.staged = eng.staged /\ e.attempted = eng.attempted
      BY <1>5, <2>1 DEF Engines
    <3>2. CASE w # "ok"
      BY <1>2, <1>3, <3>1, <3>2 DEF IndInv, Safe, EngineInv
    <3>3. CASE w = "ok"
      <4>1. eng.active /\ eng.block = b /\ guest.wblock = b
            /\ \A i \in eng.phases : guest.wrote[i] = eng.staged[i]
        BY <1>1, <3>1, <3>3 DEF IndInv, Safe, EngineInv, Engines
      <4>2. eng.staged[p] = v
        BY <1>1, <1>5, <2>1, <3>3, <4>1, <3>1 DEF Engines, Data
      <4>3. \A i \in eng.phases : guest'.wrote[i] = eng.staged[i]
        BY <1>3, <1>5, <3>3, <4>1, <4>2 DEF Data, Engines
      <4> QED BY <1>2, <1>3, <3>1, <3>3, <4>1, <4>3 DEF IndInv, Safe, EngineInv
    <3> QED BY <3>2, <3>3
  <2>2. CASE e.phases = {0} /\ e.staged[0] = v /\ p = 0 /\ w = "ok" /\ e.active
             /\ e.block = b /\ ~e.attempted
    BY <1>2, <1>3, <1>5, <2>2 DEF EngineInv, Data
  <2>3. CASE /\ e.phases = eng.phases \cup {p} /\ w = "ok" /\ e.active /\ e.block = b
             /\ e.staged = [eng.staged EXCEPT ![p] = v] /\ eng.active /\ ~e.attempted
    <3>1. \A i \in eng.phases : guest.wrote[i] = eng.staged[i] /\ i \in Phases
      BY <1>5, <2>3 DEF IndInv, Safe, EngineInv, Engines
    <3>2. \A i \in e.phases : guest'.wrote[i] = e.staged[i]
      BY <1>3, <1>5, <2>3, <3>1 DEF Data
    <3> QED BY <1>2, <1>3, <2>3, <3>2 DEF EngineInv
  <2> QED BY <1>1, <2>1, <2>2, <2>3
<1>7. Safe'
  BY <1>2, <1>6 DEF IndInv, Safe, QueueInv, WorkerInv, DeadlineInv, SlotInv
<1>8. CommitOwned'
  BY <1>1, <1>2, <1>5 DEF IndInv, CommitOwned, Engines
<1>9. CacheFresh' /\ AckedDurable'
  BY <1>2, <1>3 DEF IndInv, CacheFresh, AckedDurable, InDoubt
<1> QED BY <1>4, <1>7, <1>8, <1>9 DEF IndInv

(* A final SYNC: answered by the engine, or through the mailbox *)
LEMMA SyncOkEffect ==
  ASSUME TypeOK, NEW b \in Blocks
  PROVE  /\ SyncOk(b) \in Guests /\ SyncOk(b).wblock = NoBlock
         /\ SyncOk(b).acked = [guest.acked EXCEPT ![b] =
                                 IF guest.wblock = b THEN guest.wrote ELSE @]
<1>1. /\ Told("ok") \in Guests /\ Told("ok").acked = guest.acked
  BY ToldType
<1>2. guest.wrote \in Data /\ guest.acked \in [Blocks -> Data]
  BY DEF TypeOK, Guests
<1>3. [guest.acked EXCEPT ![b] = IF guest.wblock = b THEN guest.wrote ELSE @]
        \in [Blocks -> Data]
  BY <1>2
<1> QED BY <1>1, <1>2, <1>3, DataTypes DEF SyncOk, Guests, MaybeBlock

LEMMA SyncAnswered ==
  ASSUME IndInv, NEW b \in Blocks, Sync(b), ~CanCommit(b) PROVE IndInv'
<1>0. TypeOK
  BY DEF IndInv
<1>1. UNCHANGED <<card, power, q, wk, rt, held, faults>> /\ eng' = [eng EXCEPT !.read = NoBlock]
  BY DEF Sync
<1>2. CASE guest' = Told("error")
  BY <1>1, <1>2, QuietRequest
<1>3. CASE ~eng.active /\ guest' = SyncOk(b)
  <2>1. guest' \in Guests /\ guest'.wblock = NoBlock
    BY <1>0, <1>3, SyncOkEffect
  <2>2. guest'.acked = guest.acked
    <3>1. guest.wblock = NoBlock /\ guest.acked \in [Blocks -> Data]
      BY <1>0, <1>3 DEF IndInv, Safe, EngineInv, TypeOK, Guests
    <3> QED BY <1>0, <1>3, <3>1, SyncOkEffect, DataTypes
  <2>3. /\ eng' \in Engines /\ eng'.active = eng.active /\ eng'.phases = eng.phases
        /\ eng'.block = eng.block /\ eng'.staged = eng.staged
        /\ eng'.attempted = eng.attempted
    BY <1>0, <1>1 DEF TypeOK, Engines, MaybeBlock
  <2>4. TypeOK'
    BY <1>0, <1>1, <2>1, <2>3 DEF TypeOK
  <2>5. Safe'
    BY <1>1, <1>3, <2>1, <2>3
    DEF IndInv, Safe, EngineInv, QueueInv, WorkerInv, DeadlineInv, SlotInv
  <2>6. CommitOwned' /\ CacheFresh' /\ AckedDurable'
    BY <1>1, <2>2, <2>3 DEF IndInv, CommitOwned, CacheFresh, AckedDurable, InDoubt
  <2> QED BY <2>4, <2>5, <2>6 DEF IndInv
<1> QED BY <1>2, <1>3 DEF Sync, Reply

LEMMA SyncCommits ==
  ASSUME IndInv, NEW b \in Blocks, Sync(b), CanCommit(b) PROVE IndInv'
<1> DEFINE res == RequestResult("commit", b, eng.staged)
           m == RequestQueue("commit", b, eng.staged)
<1>0. TypeOK /\ eng.active /\ eng.block = b /\ eng.phases = Phases
  BY DEF IndInv, CanCommit
<1>1. /\ m \in Mailboxes
      /\ \/ /\ q.state = "idle" /\ q.ticket < TicketMax /\ res = "busy"
            /\ m = Submitted("commit", b, eng.staged)
         \/ q.state = "idle" /\ res = "error" /\ m = [q EXCEPT !.state = "fault"]
         \/ Ready("commit", b, eng.staged) /\ res = "ok" /\ m = [q EXCEPT !.state = "idle"]
         \/ q.state # "idle" /\ res \in {"busy", "error"} /\ m = q
  <2>1. eng.staged \in Data
    BY <1>0 DEF TypeOK, Engines
  <2> QED BY <1>0, <2>1, RequestEffect
<1>2. q' = m /\ UNCHANGED <<card, power, wk, rt, faults>>
  BY DEF Sync
<1>3. held' \in Requests
  BY DEF Sync, Hold, Requests
<1>4. res = "ok" => eng' = Committed(b) /\ guest' = SyncOk(b)
  BY DEF Sync
<1>5. res # "ok" => /\ eng' = [eng EXCEPT !.attempted = TRUE, !.read = NoBlock]
                    /\ guest' = Told(ReplyTo(res, m))
  BY DEF Sync, Reply
<1> HIDE DEF res, m
<1>6. DeadlineInv' /\ SlotInv' /\ CacheFresh'
  BY <1>2 DEF IndInv, Safe, DeadlineInv, SlotInv, CacheFresh
<1>7. q.state = "idle" => wk.pc \notin {"io", "publish"}
  BY DEF IndInv, Safe, WorkerInv
<1>8. QueueInv' /\ WorkerInv'
  BY <1>0, <1>1, <1>2, <1>7
  DEF IndInv, Safe, QueueInv, WorkerInv, TypeOK, Mailboxes, Submitted, Ready
<1>9. CASE res = "ok"
  <2>1. /\ q.state = "done" /\ q.op = "commit" /\ q.block = b /\ q.bytes = eng.staged
        /\ q' = [q EXCEPT !.state = "idle"]
    BY <1>1, <1>2, <1>9 DEF Ready
  <2>2. /\ guest' \in Guests /\ guest'.wblock = NoBlock
        /\ guest'.acked = [guest.acked EXCEPT ![b] = IF guest.wblock = b THEN guest.wrote ELSE @]
    BY <1>0, <1>4, <1>9, SyncOkEffect
  <2>3. eng' \in Engines /\ ~eng'.active /\ ~eng'.attempted
    BY <1>0, <1>4, <1>9 DEF Committed, TypeOK, Engines, MaybeBlock
  <2>4. guest.wblock = b /\ guest.wrote = eng.staged
    <3>1. guest.wblock = b /\ \A p \in Phases : guest.wrote[p] = eng.staged[p]
      BY <1>0 DEF IndInv, Safe, EngineInv
    <3> QED BY <1>0, <3>1 DEF TypeOK, Guests, Engines, Data
  <2>5. card[b] = eng.staged /\ \A x \in Blocks : x # b => card[x] = guest.acked[x]
    BY <2>1 DEF IndInv, Safe, QueueInv, AckedDurable, InDoubt
  <2>6. TypeOK'
    BY <1>0, <1>1, <1>2, <1>3, <2>2, <2>3 DEF TypeOK
  <2>7. guest.acked \in [Blocks -> Data]
    BY <1>0 DEF TypeOK, Guests
  <2>8. AckedDurable'
    BY <1>2, <2>2, <2>4, <2>5, <2>7 DEF AckedDurable
  <2>9. EngineInv' /\ CommitOwned'
    BY <1>0, <2>1, <2>2, <2>3 DEF EngineInv, CommitOwned, TypeOK, Mailboxes
  <2> QED BY <1>6, <1>8, <2>6, <2>8, <2>9 DEF IndInv, Safe
<1>10. CASE res # "ok"
  <2>1. /\ eng' \in Engines /\ eng'.active /\ eng'.phases = Phases /\ eng'.block = b
        /\ eng'.staged = eng.staged /\ eng'.attempted
    BY <1>0, <1>5, <1>10 DEF TypeOK, Engines, MaybeBlock
  <2>2. /\ guest' \in Guests /\ guest'.wblock = guest.wblock /\ guest'.wrote = guest.wrote
        /\ guest'.acked = guest.acked
    BY <1>0, <1>5, <1>10, ReplyToType, ToldType
  <2>3. TypeOK'
    BY <1>0, <1>1, <1>2, <1>3, <2>1, <2>2 DEF TypeOK
  <2>4. EngineInv'
    BY <1>0, <2>1, <2>2 DEF IndInv, Safe, EngineInv
  <2>5. CommitOwned'
    BY <1>0, <1>1, <1>2, <1>10, <2>1
    DEF IndInv, CommitOwned, TypeOK, Mailboxes, Submitted
  <2>6. AckedDurable'
    BY <1>0, <1>1, <1>2, <1>10, <2>2
    DEF IndInv, AckedDurable, InDoubt, TypeOK, Mailboxes, Submitted
  <2> QED BY <1>6, <1>8, <2>3, <2>4, <2>5, <2>6 DEF IndInv, Safe
<1> QED BY <1>9, <1>10

LEMMA SyncStep == ASSUME NEW b \in Blocks PROVE IndInv /\ Sync(b) => IndInv'
BY SyncAnswered, SyncCommits

LEMMA GiveUpStep == IndInv /\ GiveUp => IndInv'
<1> SUFFICES ASSUME IndInv, GiveUp PROVE IndInv'
  OBVIOUS
<1>1. TypeOK'
  BY NumbersAssumption DEF IndInv, TypeOK, GiveUp, Fault, Requests
<1>2. Safe' /\ CommitOwned' /\ CacheFresh' /\ AckedDurable'
  BY DEF GiveUp, IndInv, Safe, EngineInv, QueueInv, WorkerInv, DeadlineInv, SlotInv, CommitOwned,
         CacheFresh, AckedDurable, InDoubt
<1> QED BY <1>1, <1>2 DEF IndInv

-----------------------------------------------------------------------------
(* The worker *)
LEMMA WorkClaimStep == IndInv /\ WorkClaim => IndInv'
<1> SUFFICES ASSUME IndInv, WorkClaim PROVE IndInv'
  OBVIOUS
<1>1. TypeOK'
  BY DEF IndInv, TypeOK, WorkClaim, Mailboxes, Workers
<1>2. /\ q'.op = q.op /\ q'.block = q.block /\ q'.bytes = q.bytes /\ q'.applied = q.applied
      /\ q'.ticket = q.ticket /\ q'.state = "running" /\ q.state = "pending"
      /\ wk'.pc = "io" /\ wk'.ticket = q.ticket /\ wk'.op = q.op /\ wk'.block = q.block
  BY DEF IndInv, TypeOK, WorkClaim, Mailboxes, Workers
<1>3. UNCHANGED <<card, power, eng, rt, held, guest, faults>> /\ ~rt.logged /\ power
  BY DEF WorkClaim
<1>4. EngineInv' /\ DeadlineInv' /\ SlotInv' /\ CacheFresh'
  BY <1>2, <1>3 DEF IndInv, Safe, EngineInv, DeadlineInv, SlotInv, CacheFresh
<1>5. QueueInv' /\ WorkerInv'
  BY <1>2, <1>3 DEF IndInv, Safe, QueueInv, WorkerInv
<1>6. CommitOwned' /\ AckedDurable'
  BY <1>2, <1>3 DEF IndInv, CommitOwned, AckedDurable, InDoubt
<1> QED BY <1>1, <1>4, <1>5, <1>6 DEF IndInv, Safe

LEMMA WorkNothingStep == IndInv /\ WorkNothing => IndInv'
<1> SUFFICES ASSUME IndInv, WorkNothing PROVE IndInv'
  OBVIOUS
<1>0. \/ rt' = [rt EXCEPT !.rounds = 0, !.logged = TRUE]
      \/ rt' = [rt EXCEPT !.rounds = 0, !.logged = FALSE]
  <2>1. (q.state = "fault") \in {TRUE, FALSE}
    BY Zenon
  <2> QED BY <2>1, Zenon DEF WorkNothing
<1>1. /\ rt' \in Runtimes /\ rt'.rounds = 0 /\ rt'.tag = rt.tag /\ rt'.cache = rt.cache
      /\ rt'.crc = rt.crc /\ rt'.sdFaulted = rt.sdFaulted
  <2>1. rt \in Runtimes /\ 0 \in 0..MaxRounds
    BY NumbersAssumption DEF IndInv, TypeOK
  <2> QED BY <1>0, <2>1 DEF Runtimes
<1>2. UNCHANGED <<card, power, eng, q, wk, held, guest, faults>> /\ wk.pc = "idle"
  BY DEF WorkNothing
<1>3. TypeOK'
  BY <1>1, <1>2 DEF IndInv, TypeOK
<1>4. Safe' /\ CommitOwned' /\ CacheFresh' /\ AckedDurable'
  BY <1>1, <1>2, NumbersAssumption
  DEF IndInv, Safe, EngineInv, QueueInv, WorkerInv, DeadlineInv, SlotInv, CommitOwned,
      CacheFresh, AckedDurable, InDoubt
<1> QED BY <1>3, <1>4 DEF IndInv

(* A provider call that leaves the card alone: it ends busy or failed, or  *)
(* with the block that was read in the mailbox.                            *)
LEMMA ProviderEnds ==
  ASSUME IndInv, UNCHANGED <<card, power, eng, held, guest>>, wk.pc = "io", power,
         faults' \in 0..MaxFaults,
         NEW io \in {"ok", "busy", "error"}, wk' = [wk EXCEPT !.pc = "publish", !.io = io],
         \/ q' = q /\ io # "ok"
         \/ wk.op = "read" /\ q' = [q EXCEPT !.bytes = card[wk.block]],
         rt' \in Runtimes, CacheFresh', SlotInv',
         rt'.rounds = rt.rounds, rt'.logged = rt.logged
  PROVE  IndInv'
<1>0. TypeOK /\ q.state \in {"running", "fault"} /\ wk.op # "none" /\ wk.op = q.op
      /\ wk.block = q.block /\ wk.ticket = q.ticket /\ q.block \in Blocks
  BY DEF IndInv, Safe, WorkerInv, QueueInv
<1>1. card[wk.block] \in Data
  BY <1>0 DEF TypeOK
<1>2. wk' \in Workers /\ wk'.pc = "publish" /\ wk'.io = io /\ wk'.op = wk.op
      /\ wk'.block = wk.block /\ wk'.ticket = wk.ticket
  BY <1>0 DEF TypeOK, Workers
<1>3. /\ q' \in Mailboxes /\ q'.state = q.state /\ q'.op = q.op /\ q'.block = q.block
      /\ q'.applied = q.applied /\ q'.ticket = q.ticket
      /\ \/ q'.bytes = q.bytes /\ io # "ok"
         \/ q.op = "read" /\ q'.bytes = card[q.block]
  BY <1>0, <1>1 DEF TypeOK, Mailboxes
<1>4. TypeOK'
  BY <1>0, <1>2, <1>3 DEF TypeOK
<1>5. EngineInv' /\ DeadlineInv'
  BY <1>2 DEF IndInv, Safe, EngineInv, DeadlineInv
<1>6. QueueInv' /\ WorkerInv'
  BY <1>0, <1>2, <1>3 DEF IndInv, Safe, QueueInv, WorkerInv
<1>7. CommitOwned' /\ AckedDurable'
  BY <1>3 DEF IndInv, CommitOwned, AckedDurable, InDoubt
<1> QED BY <1>4, <1>5, <1>6, <1>7 DEF IndInv, Safe

LEMMA CachedReadStep == IndInv /\ CachedRead => IndInv'
<1> SUFFICES ASSUME IndInv, CachedRead PROVE IndInv'
  OBVIOUS
<1>0. TypeOK /\ UNCHANGED <<card, power, eng, held, guest, faults>> /\ wk.pc = "io" /\ power
      /\ wk.op = "read" /\ wk.block \in Blocks /\ faults' \in 0..MaxFaults
  BY DEF IndInv, CachedRead, InIo, Safe, WorkerInv, QueueInv, TypeOK
<1>1. CASE rt' = [rt EXCEPT !.faulted = TRUE] /\ Ended("error") /\ UNCHANGED q
  <2>1. /\ rt' \in Runtimes /\ rt'.rounds = rt.rounds /\ rt'.logged = rt.logged
        /\ rt'.tag = rt.tag /\ rt'.cache = rt.cache /\ rt'.crc = rt.crc
        /\ rt'.sdFaulted = rt.sdFaulted
    BY <1>0, <1>1 DEF TypeOK, Runtimes
  <2>2. CacheFresh' /\ SlotInv'
    BY <1>0, <2>1 DEF IndInv, Safe, CacheFresh, SlotInv
  <2> QED BY <1>0, <1>1, <2>1, <2>2, ProviderEnds DEF Ended
<1>2. CASE rt.cache[Slot(wk.block)] = rt.crc[wk.block]
           /\ q' = [q EXCEPT !.bytes = rt.cache[Slot(wk.block)]] /\ Ended("ok") /\ UNCHANGED rt
  <2>1. rt.cache[Slot(wk.block)] = card[wk.block]
    BY <1>0, <1>2 DEF IndInv, CacheFresh, CachedRead
  <2>2. rt' \in Runtimes /\ CacheFresh' /\ SlotInv'
    BY <1>0, <1>2 DEF IndInv, Safe, CacheFresh, SlotInv, TypeOK
  <2>3. q' = [q EXCEPT !.bytes = card[wk.block]]
    BY <1>2, <2>1
  <2> QED BY <1>0, <1>2, <2>2, <2>3, ProviderEnds DEF Ended
<1> QED BY <1>1, <1>2 DEF CachedRead

LEMMA ProviderBusyStep == IndInv /\ ProviderBusy => IndInv'
<1> SUFFICES ASSUME IndInv, ProviderBusy PROVE IndInv'
  OBVIOUS
<1>1. UNCHANGED <<card, power, eng, held, guest, faults, q, rt>> /\ wk.pc = "io" /\ power
      /\ wk' = [wk EXCEPT !.pc = "publish", !.io = "busy"]
  BY DEF ProviderBusy, Ended
<1>2. rt' \in Runtimes /\ CacheFresh' /\ SlotInv' /\ faults' \in 0..MaxFaults
  BY <1>1 DEF IndInv, Safe, CacheFresh, SlotInv, TypeOK
<1> QED BY <1>1, <1>2, ProviderEnds

LEMMA SlotType == \A b \in Blocks : Slot(b) \in 0..CacheSlots - 1
<1>1. \A b \in Nat, n \in Nat \ {0} : b % n \in 0..n - 1
  OBVIOUS
<1> QED BY <1>1, BlocksAssumption, NumbersAssumption DEF Slot

LEMMA SdReadStep == IndInv /\ SdRead => IndInv'
<1> SUFFICES ASSUME IndInv, SdRead PROVE IndInv'
  OBVIOUS
<1>0. TypeOK /\ UNCHANGED <<card, power, eng, held, guest, faults>> /\ wk.pc = "io" /\ power
      /\ wk.op = "read" /\ wk.block \in Blocks /\ faults' \in 0..MaxFaults
  BY DEF IndInv, SdRead, InIo, Safe, WorkerInv, QueueInv, TypeOK
<1>1. CASE rt' = [rt EXCEPT !.sdFaulted = TRUE] /\ Ended("error") /\ UNCHANGED q
  <2>1. /\ rt' \in Runtimes /\ rt'.rounds = rt.rounds /\ rt'.logged = rt.logged
        /\ rt'.tag = rt.tag /\ rt'.sdFaulted
    BY <1>0, <1>1 DEF TypeOK, Runtimes
  <2>2. CacheFresh' /\ SlotInv'
    BY <1>0, <2>1 DEF IndInv, Safe, CacheFresh, SlotInv
  <2> QED BY <1>0, <1>1, <2>1, <2>2, ProviderEnds DEF Ended
<1>2. CASE /\ q' = [q EXCEPT !.bytes = card[wk.block]]
           /\ rt' = [rt EXCEPT !.cache[Slot(wk.block)] = card[wk.block],
                              !.tag[Slot(wk.block)] = wk.block]
           /\ Ended("ok")
  <2>1. Slot(wk.block) \in 0..CacheSlots - 1 /\ card[wk.block] \in Data
    BY <1>0, SlotType DEF TypeOK
  <2>2. /\ rt' \in Runtimes /\ rt'.rounds = rt.rounds /\ rt'.logged = rt.logged
        /\ rt'.tag = [rt.tag EXCEPT ![Slot(wk.block)] = wk.block]
        /\ rt'.cache = [rt.cache EXCEPT ![Slot(wk.block)] = card[wk.block]]
        /\ rt'.crc = rt.crc /\ rt'.sdFaulted = rt.sdFaulted
    BY <1>0, <1>2, <2>1 DEF TypeOK, Runtimes, MaybeBlock
  <2>3. /\ rt.tag \in [0..CacheSlots - 1 -> MaybeBlock]
        /\ rt.cache \in [0..CacheSlots - 1 -> Data]
    BY <1>0 DEF TypeOK, Runtimes
  <2>4. CacheFresh' /\ SlotInv'
    BY <1>0, <2>1, <2>2, <2>3 DEF IndInv, Safe, CacheFresh, SlotInv
  <2> QED BY <1>0, <1>2, <2>2, <2>4, ProviderEnds DEF Ended
<1> QED BY <1>1, <1>2 DEF SdRead

(* A commit reaches the card: only its own block changes, to its bytes. *)
LEMMA Applies ==
  ASSUME IndInv, wk.pc = "io", wk.op = "commit",
         card' = [card EXCEPT ![wk.block] = q.bytes], q' = [q EXCEPT !.applied = TRUE]
  PROVE  /\ card' \in [Blocks -> Data] /\ q' \in Mailboxes
         /\ q.block \in Blocks /\ wk.block = q.block /\ q.op = "commit"
         /\ q.state \in {"running", "fault"} /\ ~q.applied
         /\ q'.state = q.state /\ q'.op = q.op /\ q'.block = q.block /\ q'.bytes = q.bytes
         /\ q'.ticket = q.ticket /\ q'.applied
         /\ card'[q.block] = q.bytes
         /\ \A b \in Blocks : b # q.block => card'[b] = card[b]
<1>1. q.block \in Blocks /\ wk.block = q.block /\ q.op = "commit" /\ ~q.applied
      /\ q.state \in {"running", "fault"}
  BY DEF IndInv, Safe, WorkerInv, QueueInv
<1> QED BY <1>1 DEF IndInv, TypeOK, Mailboxes

LEMMA SdCommitStep == IndInv /\ SdCommit => IndInv'
<1> SUFFICES ASSUME IndInv, SdCommit PROVE IndInv'
  OBVIOUS
<1>0. TypeOK /\ UNCHANGED <<power, eng, held, guest, faults>> /\ wk.pc = "io" /\ power
      /\ wk.op = "commit" /\ ~rt.sdFaulted /\ rt' = CommitView(rt, wk.block, q.bytes)
      /\ card' = [card EXCEPT ![wk.block] = q.bytes] /\ q' = [q EXCEPT !.applied = TRUE]
      /\ wk' = [wk EXCEPT !.pc = "publish", !.io = "ok"]
  BY DEF IndInv, SdCommit, InIo, Ended
<1>1. /\ card' \in [Blocks -> Data] /\ q' \in Mailboxes
      /\ q.block \in Blocks /\ wk.block = q.block /\ q.op = "commit"
      /\ q.state \in {"running", "fault"} /\ ~q.applied
      /\ q'.state = q.state /\ q'.op = q.op /\ q'.block = q.block /\ q'.bytes = q.bytes
      /\ q'.ticket = q.ticket /\ q'.applied
      /\ card'[q.block] = q.bytes
      /\ \A b \in Blocks : b # q.block => card'[b] = card[b]
  BY <1>0, Applies
<1>2. /\ wk' \in Workers /\ wk'.pc = "publish" /\ wk'.io = "ok" /\ wk'.op = wk.op
      /\ wk'.block = wk.block /\ wk'.ticket = wk.ticket
  BY <1>0 DEF TypeOK, Workers
<1>3. Slot(q.block) \in 0..CacheSlots - 1 /\ q.bytes \in Data
  BY <1>0, <1>1, SlotType DEF TypeOK, Mailboxes
<1>4. /\ rt' \in Runtimes /\ rt'.rounds = rt.rounds /\ rt'.logged = rt.logged
      /\ rt'.tag = [rt.tag EXCEPT ![Slot(q.block)] = NoBlock]
      /\ rt'.cache = rt.cache /\ rt'.crc = [rt.crc EXCEPT ![q.block] = q.bytes]
  BY <1>0, <1>1, <1>3 DEF CommitView, TypeOK, Runtimes, MaybeBlock
<1>5. /\ rt.tag \in [0..CacheSlots - 1 -> MaybeBlock] /\ rt.crc \in [Blocks -> Data]
      /\ rt'.tag \in [0..CacheSlots - 1 -> MaybeBlock]
      /\ rt.crc = card /\ \A s \in 0..CacheSlots - 1 :
                         rt.tag[s] # NoBlock => rt.cache[s] = card[rt.tag[s]] /\ Slot(rt.tag[s]) = s
  BY <1>0, <1>4 DEF IndInv, Safe, SlotInv, CacheFresh, TypeOK, Runtimes
<1>6. TypeOK'
  BY <1>0, <1>1, <1>2, <1>4 DEF TypeOK
<1>7. CacheFresh' /\ SlotInv'
  <2>1. SlotInv'
    BY <1>3, <1>4, <1>5 DEF SlotInv
  <2>2. rt'.crc = card'
    BY <1>0, <1>1, <1>4, <1>5
  <2>3. \A s \in 0..CacheSlots - 1 : rt'.tag[s] # NoBlock => rt'.cache[s] = card'[rt'.tag[s]]
    <3> SUFFICES ASSUME NEW s \in 0..CacheSlots - 1, rt'.tag[s] # NoBlock
                 PROVE  rt'.cache[s] = card'[rt'.tag[s]]
      OBVIOUS
    <3>1. s # Slot(q.block) /\ rt'.tag[s] = rt.tag[s]
      BY <1>3, <1>4, <1>5
    <3>2. rt.tag[s] \in Blocks /\ rt.tag[s] # q.block
      BY <1>5, <3>1 DEF MaybeBlock
    <3> QED BY <1>1, <1>4, <1>5, <3>1, <3>2
  <2> QED BY <1>5, <2>1, <2>2, <2>3 DEF CacheFresh
<1>8. EngineInv' /\ DeadlineInv'
  BY <1>0, <1>2, <1>4 DEF IndInv, Safe, EngineInv, DeadlineInv
<1>9. QueueInv' /\ WorkerInv'
  BY <1>0, <1>1, <1>2 DEF IndInv, Safe, QueueInv, WorkerInv
<1>10. CommitOwned' /\ AckedDurable'
  BY <1>0, <1>1 DEF IndInv, CommitOwned, AckedDurable, InDoubt
<1> QED BY <1>6, <1>7, <1>8, <1>9, <1>10 DEF IndInv, Safe

LEMMA ProviderFailsStep == IndInv /\ ProviderFails => IndInv'
<1> SUFFICES ASSUME IndInv, ProviderFails PROVE IndInv'
  OBVIOUS
<1>0. TypeOK /\ UNCHANGED <<power, eng, held, guest>> /\ wk.pc = "io" /\ power
      /\ rt' = [rt EXCEPT !.sdFaulted = TRUE] /\ wk' = [wk EXCEPT !.pc = "publish", !.io = "error"]
  BY DEF IndInv, ProviderFails, Ended
<1>1. faults' \in 0..MaxFaults
  BY NumbersAssumption DEF IndInv, TypeOK, ProviderFails, Fault
<1>2. /\ rt' \in Runtimes /\ rt'.rounds = rt.rounds /\ rt'.logged = rt.logged
      /\ rt'.tag = rt.tag /\ rt'.sdFaulted
  BY <1>0 DEF TypeOK, Runtimes
<1>3. CacheFresh' /\ SlotInv'
  BY <1>2 DEF IndInv, Safe, CacheFresh, SlotInv
<1>4. CASE UNCHANGED <<card, q>>
  BY <1>0, <1>1, <1>2, <1>3, <1>4, ProviderEnds
<1>5. CASE wk.op = "commit" /\ card' = [card EXCEPT ![wk.block] = q.bytes]
           /\ q' = [q EXCEPT !.applied = TRUE]
  <2>1. /\ card' \in [Blocks -> Data] /\ q' \in Mailboxes
        /\ q.block \in Blocks /\ wk.block = q.block /\ q.op = "commit"
        /\ q.state \in {"running", "fault"} /\ ~q.applied
        /\ q'.state = q.state /\ q'.op = q.op /\ q'.block = q.block /\ q'.bytes = q.bytes
        /\ q'.ticket = q.ticket /\ q'.applied
        /\ card'[q.block] = q.bytes
        /\ \A b \in Blocks : b # q.block => card'[b] = card[b]
    BY <1>0, <1>5, Applies
  <2>2. /\ wk' \in Workers /\ wk'.pc = "publish" /\ wk'.io = "error" /\ wk'.op = wk.op
        /\ wk'.block = wk.block /\ wk'.ticket = wk.ticket
    BY <1>0 DEF TypeOK, Workers
  <2>3. TypeOK'
    BY <1>0, <1>1, <1>2, <2>1, <2>2 DEF TypeOK
  <2>4. EngineInv' /\ DeadlineInv'
    BY <1>0, <1>2, <2>2 DEF IndInv, Safe, EngineInv, DeadlineInv
  <2>5. QueueInv' /\ WorkerInv'
    BY <1>0, <1>5, <2>1, <2>2 DEF IndInv, Safe, QueueInv, WorkerInv
  <2>6. CommitOwned' /\ AckedDurable'
    BY <1>0, <2>1 DEF IndInv, CommitOwned, AckedDurable, InDoubt
  <2> QED BY <1>3, <2>3, <2>4, <2>5, <2>6 DEF IndInv, Safe
<1> QED BY <1>4, <1>5 DEF ProviderFails

LEMMA PowerLossStep == IndInv /\ PowerLoss => IndInv'
<1> SUFFICES ASSUME IndInv, PowerLoss PROVE IndInv'
  OBVIOUS
<1>0. TypeOK /\ power' = FALSE /\ eng' = FreshEngine /\ wk' = FreshWorker /\ held' = NoReq
      /\ rt' = FreshRuntime(card') /\ guest' = [FreshGuest(card) EXCEPT !.acked = guest.acked]
  BY DEF IndInv, PowerLoss
<1>1. faults' \in 0..MaxFaults
  BY NumbersAssumption DEF IndInv, TypeOK, PowerLoss, Fault
<1>2. /\ card' \in [Blocks -> Data] /\ q' \in Mailboxes /\ QueueInv' /\ \A b \in Blocks :
           card'[b] = guest.acked[b] \/ InDoubt(b)'
  <2>1. CASE UNCHANGED <<card, q>>
    BY <1>0, <2>1 DEF IndInv, Safe, TypeOK, QueueInv, AckedDurable, InDoubt
  <2>2. CASE /\ InIo("commit") /\ card' = [card EXCEPT ![wk.block] = q.bytes]
             /\ q' = [q EXCEPT !.applied = TRUE]
    <3>1. /\ card' \in [Blocks -> Data] /\ q' \in Mailboxes
          /\ q.block \in Blocks /\ q.op = "commit"
          /\ q.state \in {"running", "fault"}
          /\ q'.state = q.state /\ q'.op = q.op /\ q'.block = q.block /\ q'.bytes = q.bytes
          /\ q'.applied /\ card'[q.block] = q.bytes
          /\ \A b \in Blocks : b # q.block => card'[b] = card[b]
      BY <2>2, Applies DEF InIo
    <3> QED BY <3>1 DEF IndInv, Safe, QueueInv, AckedDurable, InDoubt
  <2> QED BY <2>1, <2>2 DEF PowerLoss
<1>3. /\ guest' \in Guests /\ guest'.acked = guest.acked /\ guest'.wblock = NoBlock
  <2>1. FreshGuest(card) \in Guests /\ FreshGuest(card).wblock = NoBlock
    BY <1>0, FreshTypes, DataTypes DEF TypeOK
  <2> QED BY <1>0, <2>1 DEF TypeOK, Guests
<1>4. TypeOK'
  <2>1. /\ FreshEngine \in Engines /\ FreshWorker \in Workers /\ FreshRuntime(card') \in Runtimes
    BY <1>2, FreshTypes
  <2> QED BY <1>0, <1>1, <1>2, <1>3, <2>1, Zenon DEF TypeOK, Requests
<1>5. EngineInv' /\ WorkerInv' /\ DeadlineInv' /\ SlotInv'
  BY <1>0, <1>2, <1>3, DataTypes, NumbersAssumption
  DEF EngineInv, WorkerInv, DeadlineInv, SlotInv, FreshEngine, FreshWorker
<1>6. CommitOwned' /\ CacheFresh' /\ AckedDurable'
  BY <1>0, <1>2, <1>3 DEF CommitOwned, CacheFresh, AckedDurable
<1> QED BY <1>2, <1>4, <1>5, <1>6 DEF IndInv, Safe

LEMMA PublishStep == IndInv /\ Publish => IndInv'
<1> SUFFICES ASSUME IndInv, Publish PROVE IndInv'
  OBVIOUS
<1>0. TypeOK /\ UNCHANGED <<card, power, eng, rt, held, guest, faults>>
      /\ wk.pc = "publish" /\ power
  BY DEF IndInv, Publish
<1>1. PICK st \in {"pending", "done", "fault"}, r \in -2..1 :
        /\ q' = [q EXCEPT !.state = st] /\ wk' = [wk EXCEPT !.pc = "tail", !.result = r]
        /\ st # "fault" => q.state = "running"
        /\ st = "pending" => wk.io = "busy"
        /\ st = "done" => wk.io = "ok"
  BY DEF Publish, SameJob, Faulted
<1>2. /\ q' \in Mailboxes /\ q'.state = st /\ q'.op = q.op /\ q'.block = q.block
      /\ q'.bytes = q.bytes /\ q'.ticket = q.ticket /\ q'.applied = q.applied
  BY <1>0, <1>1 DEF TypeOK, Mailboxes
<1>3. wk' \in Workers /\ wk'.pc = "tail"
  BY <1>0, <1>1 DEF TypeOK, Workers
<1>4. TypeOK'
  BY <1>0, <1>2, <1>3 DEF TypeOK
<1>5. EngineInv' /\ DeadlineInv' /\ SlotInv' /\ CacheFresh'
  BY <1>0, <1>3 DEF IndInv, Safe, EngineInv, DeadlineInv, SlotInv, CacheFresh
<1>6. QueueInv' /\ WorkerInv'
  BY <1>0, <1>1, <1>2, <1>3 DEF IndInv, Safe, QueueInv, WorkerInv
<1>7. CommitOwned'
  BY <1>0, <1>1, <1>2 DEF IndInv, CommitOwned
<1>8. AckedDurable'
  BY <1>0, <1>1, <1>2 DEF IndInv, AckedDurable, InDoubt
<1> QED BY <1>4, <1>5, <1>6, <1>7, <1>8 DEF IndInv, Safe

LEMMA GuardLostStep == IndInv /\ GuardLost => IndInv'
<1> SUFFICES ASSUME IndInv, GuardLost PROVE IndInv'
  OBVIOUS
<1>1. UNCHANGED <<card, power, eng, q, rt, held, guest>> /\ wk' \in Workers /\ wk'.pc = "tail"
      /\ wk.pc = "publish" /\ power
  <2>1. wk \in Workers /\ -2 \in -2..1
    BY DEF IndInv, TypeOK
  <2> QED BY <2>1 DEF GuardLost, Workers
<1>2. faults' \in 0..MaxFaults
  BY NumbersAssumption DEF IndInv, TypeOK, GuardLost, Fault
<1>3. TypeOK'
  BY <1>1, <1>2 DEF IndInv, TypeOK
<1>4. Safe' /\ CommitOwned' /\ CacheFresh' /\ AckedDurable'
  BY <1>1 DEF IndInv, Safe, EngineInv, QueueInv, WorkerInv, DeadlineInv, SlotInv, CommitOwned,
    CacheFresh, AckedDurable, InDoubt
<1> QED BY <1>3, <1>4 DEF IndInv

(* A fault of the mailbox changes nothing else. *)
LEMMA FaultedQueue ==
  ASSUME IndInv, q' = Faulted(q), UNCHANGED <<card, eng, guest, power>>
  PROVE  /\ q' \in Mailboxes /\ QueueInv' /\ CommitOwned' /\ AckedDurable'
         /\ q'.state = "fault" /\ q'.op = q.op /\ q'.block = q.block
         /\ q'.bytes = q.bytes /\ q'.ticket = q.ticket /\ q'.applied = q.applied
<1>1. /\ q' \in Mailboxes /\ q'.state = "fault" /\ q'.op = q.op /\ q'.block = q.block
      /\ q'.bytes = q.bytes /\ q'.ticket = q.ticket /\ q'.applied = q.applied
  BY DEF IndInv, TypeOK, Mailboxes, Faulted
<1> QED BY <1>1 DEF IndInv, Safe, QueueInv, CommitOwned, AckedDurable, InDoubt

LEMMA PoisonStep == IndInv /\ Poison => IndInv'
<1> SUFFICES ASSUME IndInv, Poison PROVE IndInv'
  OBVIOUS
<1>1. UNCHANGED <<card, power, eng, wk, rt, held, guest>> /\ q' = Faulted(q)
  BY DEF Poison
<1>2. faults' \in 0..MaxFaults
  BY NumbersAssumption DEF IndInv, TypeOK, Poison, Fault
<1>3. /\ q' \in Mailboxes /\ QueueInv' /\ CommitOwned' /\ AckedDurable'
      /\ q'.state = "fault" /\ q'.op = q.op /\ q'.block = q.block
      /\ q'.bytes = q.bytes /\ q'.ticket = q.ticket /\ q'.applied = q.applied
  BY <1>1, FaultedQueue
<1>4. TypeOK'
  BY <1>1, <1>2, <1>3 DEF IndInv, TypeOK
<1>5. EngineInv' /\ WorkerInv' /\ DeadlineInv' /\ SlotInv' /\ CacheFresh'
  BY <1>1, <1>3 DEF IndInv, Safe, EngineInv, WorkerInv, DeadlineInv, SlotInv, CacheFresh
<1> QED BY <1>3, <1>4, <1>5 DEF IndInv, Safe

LEMMA WorkEndLostStep == IndInv /\ WorkEndLost => IndInv'
<1> SUFFICES ASSUME IndInv, WorkEndLost PROVE IndInv'
  OBVIOUS
<1>0. TypeOK /\ UNCHANGED <<card, power, eng, q, held, guest>> /\ wk' = FreshWorker
      /\ rt' = [rt EXCEPT !.logged = TRUE]
  BY DEF IndInv, WorkEndLost
<1>1. wk' \in Workers /\ wk'.pc = "idle"
  BY <1>0, FreshTypes DEF TypeOK, FreshWorker
<1>2. /\ rt' \in Runtimes /\ rt'.logged /\ rt'.tag = rt.tag /\ rt'.cache = rt.cache
      /\ rt'.crc = rt.crc /\ rt'.sdFaulted = rt.sdFaulted
  BY <1>0 DEF TypeOK, Runtimes
<1>3. faults' \in 0..MaxFaults
  BY NumbersAssumption DEF IndInv, TypeOK, WorkEndLost, Fault
<1>4. TypeOK'
  BY <1>0, <1>1, <1>2, <1>3 DEF TypeOK
<1>5. QueueInv' /\ CommitOwned' /\ AckedDurable'
  BY <1>0 DEF IndInv, Safe, QueueInv, CommitOwned, AckedDurable, InDoubt
<1>6. EngineInv' /\ WorkerInv' /\ DeadlineInv' /\ SlotInv' /\ CacheFresh'
  BY <1>0, <1>1, <1>2
  DEF IndInv, Safe, EngineInv, WorkerInv, DeadlineInv, SlotInv, CacheFresh
<1> QED BY <1>4, <1>5, <1>6 DEF IndInv, Safe

LEMMA WorkEndStep == IndInv /\ WorkEnd => IndInv'
<1> SUFFICES ASSUME IndInv, WorkEnd PROVE IndInv'
  OBVIOUS
<1>0. TypeOK /\ UNCHANGED <<card, power, eng, held, guest, faults>> /\ wk' = FreshWorker
      /\ wk.pc = "tail" /\ power /\ ~rt.logged /\ rt.rounds < MaxRounds
  BY DEF IndInv, WorkEnd, Safe, DeadlineInv
<1>1. wk' \in Workers /\ wk'.pc = "idle"
  BY <1>0, FreshTypes DEF TypeOK, FreshWorker
<1>2. PICK n \in {0, rt.rounds + 1} :
        \/ rt' = [rt EXCEPT !.rounds = n, !.logged = TRUE]
        \/ rt' = [rt EXCEPT !.rounds = n, !.logged = FALSE] /\ ~Overdue
  <2>1. (wk.result < 0 \/ Overdue) \in {TRUE, FALSE}
    BY Zenon
  <2> QED BY <2>1, Zenon DEF WorkEnd
<1>3. (wk.result = 0 /\ q.state = "pending") \/ rt'.rounds = 0
  BY <1>0 DEF WorkEnd, TypeOK, Runtimes
<1>4. rt.rounds \in Nat /\ n \in 0..MaxRounds
  BY <1>0, <1>2, NumbersAssumption DEF TypeOK, Runtimes
<1>5. /\ rt' \in Runtimes /\ rt'.rounds = n /\ rt'.tag = rt.tag /\ rt'.cache = rt.cache
      /\ rt'.crc = rt.crc /\ rt'.sdFaulted = rt.sdFaulted
  BY <1>0, <1>2, <1>4 DEF TypeOK, Runtimes
<1>6. ~rt'.logged => ~Overdue
  BY <1>0, <1>2 DEF TypeOK, Runtimes
<1>7. ~rt'.logged => n < MaxRounds
  BY <1>2, <1>3, <1>4, <1>5, <1>6, NumbersAssumption DEF Overdue
<1>8. /\ q' \in Mailboxes /\ QueueInv' /\ CommitOwned' /\ AckedDurable'
  <2>1. CASE q' = Faulted(q)
    BY <1>0, <2>1, FaultedQueue
  <2>2. CASE q' = q
    BY <1>0, <2>2 DEF IndInv, Safe, QueueInv, CommitOwned, AckedDurable, InDoubt, TypeOK
  <2> QED BY <2>1, <2>2 DEF WorkEnd
<1>9. TypeOK'
  BY <1>0, <1>1, <1>5, <1>8 DEF TypeOK
<1>10. EngineInv' /\ WorkerInv' /\ DeadlineInv' /\ SlotInv' /\ CacheFresh'
  BY <1>0, <1>1, <1>5, <1>7
  DEF IndInv, Safe, EngineInv, WorkerInv, DeadlineInv, SlotInv, CacheFresh
<1> QED BY <1>8, <1>9, <1>10 DEF IndInv, Safe

LEMMA StutterStep == IndInv /\ UNCHANGED vars => IndInv'
BY DEF vars, IndInv, TypeOK, Safe, EngineInv, QueueInv, WorkerInv, DeadlineInv, SlotInv,
       CommitOwned, CacheFresh, AckedDurable, InDoubt

-----------------------------------------------------------------------------
(* The inductive invariant holds of every reachable state, whatever fails. *)
THEOREM Invariance == Spec => []IndInv
<1>1. IndInv /\ [Next]_vars => IndInv'
  BY PowerOnStep, ReadStep, ReadFinalStep, MalformedStep, WriteStep, SyncStep, GiveUpStep,
     WorkClaimStep, WorkNothingStep, CachedReadStep, ProviderBusyStep, ProviderFailsStep,
     SdReadStep, SdCommitStep, PublishStep, GuardLostStep, WorkEndStep, WorkEndLostStep, PoisonStep,
     PowerLossStep, StutterStep
  DEF Next, Request, Work, WorkIo
<1> QED BY <1>1, InitInv, PTL DEF Spec

(* Every variable keeps the type its declaration in the C structures gives *)
(* it: tickets and BUSY rounds never pass their limits.                    *)
THEOREM TypeCorrect == Spec => []TypeOK
<1>1. IndInv => TypeOK
  BY DEF IndInv
<1> QED BY <1>1, Invariance, PTL

(* A final SYNC answered OK is on the card, phase for phase: mailbox,      *)
(* worker, deadline, poison and power loss included.                       *)
THEOREM AcknowledgedIsDurable == Spec => []AckedDurable
<1>1. IndInv => AckedDurable
  BY DEF IndInv
<1> QED BY <1>1, Invariance, PTL

(* The commit in the mailbox stays the engine's staged block, so the retry *)
(* that fetches its result can always be made.                             *)
THEOREM CommitStaysOwned == Spec => []CommitOwned
<1>1. IndInv => CommitOwned
  BY DEF IndInv
<1> QED BY <1>1, Invariance, PTL

(* The read cache and the CRC table never describe anything but the card.  *)
THEOREM CacheStaysFresh == Spec => []CacheFresh
<1>1. IndInv => CacheFresh
  BY DEF IndInv
<1> QED BY <1>1, Invariance, PTL

-----------------------------------------------------------------------------
(* A READ that is answered hands out the block as the card holds it: the   *)
(* mailbox's result cannot be older than the card.                         *)
THEOREM ReadsAreCurrent == Spec => ReadCurrent
<1>1. IndInv /\ [Next]_vars =>
        [guest'.reply = "data" /\ guest' # guest => guest'.data = card[guest'.block]]_vars
  <2> SUFFICES ASSUME IndInv, Next, guest'.reply = "data", guest' # guest
               PROVE  guest'.data = card[guest'.block]
    OBVIOUS
  <2>0. TypeOK
    BY DEF IndInv
  <2>1. CASE \E b \in Blocks : Read(b)
    <3>1. PICK b \in Blocks : Read(b)
      BY <2>1
    <3>2. CASE RequestResult("read", b, SomeData) = "ok"
      <4>1. guest' = [guest EXCEPT !.reply = "data", !.block = b, !.data = q.bytes]
        BY <3>1, <3>2 DEF Read
      <4>2. Ready("read", b, SomeData)
        BY <3>2 DEF RequestResult
      <4>3. q.bytes = card[b]
        BY <4>2 DEF Ready, IndInv, Safe, QueueInv
      <4> QED BY <2>0, <4>1, <4>3 DEF TypeOK, Guests
    <3>3. CASE RequestResult("read", b, SomeData) # "ok"
      <4>1. PICK r \in {"none", "again", "error"} : guest' = Told(r)
        BY <3>1, <3>3, ReplyToType DEF Read, Reply
      <4> QED BY <2>0, <4>1, ToldType
    <3> QED BY <3>2, <3>3
  <2>2. CASE \E b \in Blocks : ReadFinal(b)
    BY <2>0, <2>2, ToldType DEF ReadFinal, Reply
  <2>3. CASE Malformed
    BY <2>0, <2>3, ToldType DEF Malformed, Reply
  <2>4. CASE \E b \in Blocks : Sync(b)
    <3>1. PICK b \in Blocks : Sync(b)
      BY <2>4
    <3>2. SyncOk(b).reply = "ok"
      BY <2>0, ToldType DEF SyncOk, Guests
    <3>3. guest' = SyncOk(b) \/ \E r \in {"none", "again", "error"} : guest' = Told(r)
      BY <3>1, ReplyToType DEF Sync, Reply
    <3> QED BY <2>0, <3>2, <3>3, ToldType
  <2>5. CASE \E b \in Blocks, p \in Phases, v \in Values : Write(b, p, v)
    <3>1. PICK b \in Blocks, p \in Phases, v \in Values : Write(b, p, v)
      BY <2>5
    <3>2. WriteReply(b, p, v) \in {"ok", "again", "error"}
      BY <2>0, WriteEffect
    <3>3. [Told("ok") EXCEPT !.wblock = b, !.wrote[p] = v].reply = "ok"
      BY <2>0, ToldType DEF Guests
    <3> QED BY <2>0, <3>1, <3>2, <3>3, ToldType DEF Write
  <2>6. CASE PowerOn
    BY <2>6 DEF PowerOn, FreshGuest
  <2>7. CASE PowerLoss
    <3>1. [FreshGuest(card) EXCEPT !.acked = guest.acked].reply = "none"
      BY DEF FreshGuest
    <3> QED BY <2>7, <3>1 DEF PowerLoss
  <2>8. CASE GiveUp \/ Work \/ Poison
    BY <2>8 DEF GiveUp, Work, WorkClaim, WorkNothing, WorkIo, CachedRead, ProviderBusy,
       ProviderFails, SdRead, SdCommit, Publish, GuardLost, WorkEnd, WorkEndLost, Poison
  <2> QED BY <2>1, <2>2, <2>3, <2>4, <2>5, <2>6, <2>7, <2>8 DEF Next, Request
<1> QED BY <1>1, Invariance, PTL DEF Spec, ReadCurrent

-----------------------------------------------------------------------------
(* The refinement of VmuCard *)

NoWrite == [block |-> 0, data |-> 0]
Same == card' = card /\ PendingWrite' = PendingWrite
Effect == /\ PendingWrite # NoWrite /\ PendingWrite' = NoWrite
          /\ card' = [card EXCEPT ![PendingWrite.block] = PendingWrite.data]
Maps == Card!CardNext \/ UNCHANGED Card!cardVars

(* The abstract steps in terms of the mailbox *)
LEMMA CardSteps ==
  /\ Same /\ Usable' = Usable /\ Busy' = Busy => Maps
  /\ (Same \/ Effect) /\ Usable' = FALSE /\ Busy' = FALSE => Maps
  /\ Effect /\ Usable' = Usable /\ Busy' = Busy => Maps
  /\ Same /\ Usable' = Usable /\ Busy = TRUE /\ PendingWrite = NoWrite /\ Busy' = FALSE => Maps
  /\ (card' = card /\ Usable = FALSE /\ Usable' = TRUE /\ PendingWrite' = NoWrite
      /\ Busy' = Busy) => Maps
  /\ (card' = card /\ Usable = TRUE /\ Usable' = TRUE /\ Busy = FALSE /\ Busy' = TRUE
      /\ PendingWrite' \in [block : Blocks, data : Data]) => Maps
<1>1. Same /\ Usable' = Usable /\ Busy' = Busy => Maps
  BY Zenon DEF Same, Maps, Card!cardVars
<1>2. Same /\ Usable' = FALSE /\ Busy' = FALSE => Maps
  BY Zenon DEF Same, Maps, Card!CardNext, Card!CardFail
<1>3. Effect => Card!TakeEffect
  BY Zenon DEF Effect, Card!TakeEffect, Card!Applied, NoWrite, Card!None
<1>4. Effect /\ Usable' = FALSE /\ Busy' = FALSE => Maps
  BY <1>3, Zenon DEF Maps, Card!CardNext, Card!CardFail
<1>5. Effect /\ Usable' = Usable /\ Busy' = Busy => Maps
  BY <1>3, Zenon DEF Maps, Card!CardNext, Card!CardCommit
<1>6. Same /\ Usable' = Usable /\ Busy = TRUE /\ PendingWrite = NoWrite /\ Busy' = FALSE => Maps
  BY Zenon DEF Same, Maps, Card!CardNext, Card!CardReturn, NoWrite, Card!None
<1>7. (card' = card /\ Usable = FALSE /\ Usable' = TRUE /\ PendingWrite' = NoWrite
       /\ Busy' = Busy) => Maps
  BY Zenon DEF Maps, Card!CardNext, Card!CardOpen, NoWrite, Card!None
<1>8. (card' = card /\ Usable = TRUE /\ Usable' = TRUE /\ Busy = FALSE /\ Busy' = TRUE
       /\ PendingWrite' \in [block : Blocks, data : Data]) => Maps
  BY Zenon DEF Maps, Card!CardNext, Card!CardWrite, Card!Writes
<1> QED BY <1>1, <1>2, <1>4, <1>5, <1>6, <1>7, <1>8

(* A step that leaves the card, the mailbox's job and the power alone is   *)
(* invisible; one that only faults the mailbox is a failure of the card.   *)
LEMMA QuietMaps ==
  ASSUME card' = card, power' = power, q'.op = q.op, q'.block = q.block,
         q'.applied = q.applied, q.op = "commit" => q'.bytes = q.bytes,
         (q'.state = "fault") = (q.state = "fault"),
         (q'.state = "idle") = (q.state = "idle")
  PROVE  Maps
<1>1. Same
  BY DEF Same, PendingWrite, Outstanding
<1>2. Usable' = Usable
  BY Zenon DEF Usable
<1>3. Outstanding' = Outstanding
  BY Zenon DEF Outstanding
<1>4. Busy' = Busy
  BY <1>2, <1>3, Zenon DEF Busy
<1> QED BY <1>1, <1>2, <1>4, CardSteps

LEMMA FaultMaps ==
  ASSUME IndInv, card' = card, q' = Faulted(q) PROVE Maps
<1>1. /\ q'.state = "fault" /\ q'.op = q.op /\ q'.block = q.block
      /\ q'.bytes = q.bytes /\ q'.applied = q.applied
  BY DEF IndInv, TypeOK, Mailboxes, Faulted
<1>2. q.op = "commit" /\ q.state = "idle" => q.applied
  BY DEF IndInv, Safe, QueueInv
<1>3. Same
  BY <1>1, <1>2 DEF Same, PendingWrite, Outstanding
<1>4. Usable' = FALSE /\ Busy' = FALSE
  BY <1>1 DEF Usable, Busy
<1> QED BY <1>3, <1>4, CardSteps

(* The commit that reaches the card is the pending write. *)
LEMMA AppliesMaps ==
  ASSUME IndInv, wk.pc = "io", wk.op = "commit",
         card' = [card EXCEPT ![wk.block] = q.bytes], q' = [q EXCEPT !.applied = TRUE]
  PROVE  Effect /\ q'.state = q.state /\ q'.op = q.op
<1>1. /\ q.block \in Blocks /\ wk.block = q.block /\ q.op = "commit"
      /\ q.state \in {"running", "fault"} /\ ~q.applied
      /\ q'.state = q.state /\ q'.op = q.op /\ q'.applied
  BY Applies
<1>2. PendingWrite = [block |-> q.block, data |-> q.bytes] /\ PendingWrite' = NoWrite
  BY <1>1 DEF PendingWrite, Outstanding, NoWrite
<1>3. q.block # 0
  BY <1>1, DataTypes DEF NoBlock
<1>4. PendingWrite # NoWrite /\ PendingWrite.block = q.block /\ PendingWrite.data = q.bytes
  BY <1>2, <1>3 DEF NoWrite
<1> QED BY <1>1, <1>2, <1>4 DEF Effect

(* Every step of the endpoint is a step of the abstract card, or none *)
LEMMA StepMaps == IndInv /\ [Next]_vars => [Card!CardNext]_(Card!cardVars)
<1> SUFFICES ASSUME IndInv, [Next]_vars PROVE Maps
  BY Zenon DEF Maps
<1>0. TypeOK /\ q \in Mailboxes
  BY DEF IndInv, TypeOK
<1>1. CASE card' = card /\ power' = power /\ q' = q
  BY <1>1, QuietMaps
<1>2. CASE PowerOn
  <2>1. card' = card /\ power' = TRUE /\ power = FALSE /\ q'.op = "none" /\ q'.state = "idle"
    BY <1>0, <1>2 DEF PowerOn, FreshQueue, TypeOK
  <2>2. Usable = FALSE /\ Usable' = TRUE /\ PendingWrite' = NoWrite /\ Busy' = FALSE /\ Busy = FALSE
    BY <2>1 DEF Usable, Busy, PendingWrite, NoWrite, Outstanding
  <2> QED BY <2>1, <2>2, CardSteps
<1>3. ASSUME NEW b \in Blocks, Read(b) PROVE Maps
  <2>1. q' = RequestQueue("read", b, SomeData) /\ card' = card /\ power' = power
    BY <1>3 DEF Read
  <2>2. \/ q.state = "idle" /\ q' = Submitted("read", b, SomeData)
        \/ q' = [q EXCEPT !.state = "fault"]
        \/ Ready("read", b, SomeData) /\ q' = [q EXCEPT !.state = "idle"]
        \/ q' = q
    BY <1>0, <2>1, DataTypes, RequestEffect
  <2>3. CASE q.state = "idle" /\ q' = Submitted("read", b, SomeData)
    <3>1. q'.op = "read" /\ q'.state = "pending"
      BY <1>0, <2>3 DEF Submitted, Mailboxes
    <3>2. Same /\ Outstanding = FALSE /\ Outstanding' = FALSE
      BY <2>1, <2>3, <3>1 DEF Same, PendingWrite, Outstanding
    <3>3. Usable' = Usable
      BY <2>1, <2>3, <3>1 DEF Usable
    <3>4. Busy = FALSE /\ Busy' = FALSE
      BY <3>2 DEF Busy
    <3> QED BY <3>2, <3>3, <3>4, CardSteps
  <2>4. CASE q' = [q EXCEPT !.state = "fault"]
    BY <2>1, <2>4, FaultMaps DEF Faulted
  <2>5. CASE Ready("read", b, SomeData) /\ q' = [q EXCEPT !.state = "idle"]
    <3>1. q.op = "read" /\ q.state = "done" /\ q'.op = "read" /\ q'.state = "idle"
      BY <1>0, <2>5 DEF Ready, Mailboxes
    <3>2. Same /\ Outstanding = FALSE /\ Outstanding' = FALSE
      BY <2>1, <3>1 DEF Same, PendingWrite, Outstanding
    <3>3. Usable' = Usable
      BY <2>1, <3>1 DEF Usable
    <3>4. Busy = FALSE /\ Busy' = FALSE
      BY <3>2 DEF Busy
    <3> QED BY <3>2, <3>3, <3>4, CardSteps
  <2> QED BY <1>1, <2>1, <2>2, <2>3, <2>4, <2>5
<1>4. ASSUME NEW b \in Blocks, Sync(b) PROVE Maps
  <2>1. CASE ~CanCommit(b)
    BY <1>1, <1>4, <2>1 DEF Sync
  <2>2. CASE CanCommit(b)
    <3>1. q' = RequestQueue("commit", b, eng.staged) /\ card' = card /\ power' = power /\ power
      BY <1>4, <2>2 DEF Sync, Asks
    <3>2. eng.staged \in Data
      BY <1>0 DEF TypeOK, Engines
    <3>3. \/ q.state = "idle" /\ q' = Submitted("commit", b, eng.staged)
          \/ q' = [q EXCEPT !.state = "fault"]
          \/ Ready("commit", b, eng.staged) /\ q' = [q EXCEPT !.state = "idle"]
          \/ q' = q
      BY <1>0, <3>1, <3>2, RequestEffect
    <3>4. CASE q.state = "idle" /\ q' = Submitted("commit", b, eng.staged)
      <4>1. /\ q'.op = "commit" /\ q'.state = "pending" /\ q'.block = b
            /\ q'.bytes = eng.staged /\ ~q'.applied
        BY <1>0, <3>4 DEF Submitted, Mailboxes
      <4>2. PendingWrite' = [block |-> b, data |-> eng.staged]
        BY <4>1 DEF PendingWrite, Outstanding
      <4>3. Usable = TRUE /\ Usable' = TRUE /\ Busy = FALSE /\ Busy' = TRUE
        BY <3>1, <3>4, <4>1 DEF Usable, Busy, Outstanding
      <4>4. PendingWrite' \in [block : Blocks, data : Data]
        BY <3>2, <4>2
      <4> QED BY <3>1, <4>3, <4>4, CardSteps
    <3>5. CASE q' = [q EXCEPT !.state = "fault"]
      BY <3>1, <3>5, FaultMaps DEF Faulted
    <3>6. CASE Ready("commit", b, eng.staged) /\ q' = [q EXCEPT !.state = "idle"]
      <4>1. q.op = "commit" /\ q.state = "done" /\ q'.op = "commit" /\ q'.state = "idle"
        BY <1>0, <3>6 DEF Ready, Mailboxes
      <4>2. q.applied
        BY <4>1 DEF IndInv, Safe, QueueInv
      <4>3. PendingWrite = NoWrite /\ PendingWrite' = NoWrite
        BY <4>1, <4>2 DEF PendingWrite, Outstanding, NoWrite
      <4>4. Usable' = TRUE /\ Usable = TRUE /\ Busy = TRUE /\ Busy' = FALSE
        BY <3>1, <4>1 DEF Usable, Busy, Outstanding
      <4> QED BY <3>1, <4>3, <4>4, CardSteps DEF Same
    <3> QED BY <1>1, <3>1, <3>3, <3>4, <3>5, <3>6
  <2> QED BY <2>1, <2>2
<1>5. CASE \/ \E b \in Blocks : ReadFinal(b)
           \/ \E b \in Blocks, p \in Phases, v \in Values : Write(b, p, v)
           \/ Malformed \/ GiveUp \/ WorkNothing \/ ProviderBusy \/ GuardLost
           \/ WorkEndLost
  BY <1>1, <1>5 DEF ReadFinal, Write, Malformed, GiveUp, WorkNothing, ProviderBusy, GuardLost,
                    WorkEndLost
<1>6. CASE WorkClaim
  <2>1. /\ card' = card /\ power' = power /\ q.state = "pending" /\ q'.state = "running"
        /\ q'.op = q.op /\ q'.block = q.block /\ q'.applied = q.applied /\ q'.bytes = q.bytes
    BY <1>0, <1>6 DEF WorkClaim, Mailboxes
  <2> QED BY <2>1, QuietMaps
<1>7. CASE CachedRead \/ SdRead
  <2>1. card' = card /\ power' = power /\ wk.op = "read" /\ wk.pc = "io"
    BY <1>7 DEF CachedRead, SdRead, InIo
  <2>2. q.op = "read"
    BY <2>1 DEF IndInv, Safe, WorkerInv
  <2>3. q' = q \/ \E v : q' = [q EXCEPT !.bytes = v]
    BY <1>7 DEF CachedRead, SdRead
  <2>4. /\ q'.state = q.state /\ q'.op = q.op /\ q'.block = q.block
        /\ q'.applied = q.applied
    BY <1>0, <2>3 DEF Mailboxes
  <2> QED BY <2>1, <2>2, <2>4, QuietMaps
<1>8. CASE SdCommit \/ ProviderFails
  <2>1. power' = power /\ wk.pc = "io"
    BY <1>8 DEF SdCommit, ProviderFails, InIo
  <2>2. CASE card' = card /\ q' = q
    BY <1>1, <2>1, <2>2
  <2>3. CASE /\ wk.op = "commit" /\ card' = [card EXCEPT ![wk.block] = q.bytes]
             /\ q' = [q EXCEPT !.applied = TRUE]
    <3>1. Effect /\ q'.state = q.state /\ q'.op = q.op
      BY <2>1, <2>3, AppliesMaps
    <3>2. Usable' = Usable /\ Outstanding' = Outstanding
      BY <2>1, <3>1, Zenon DEF Usable, Outstanding
    <3>3. Busy' = Busy
      BY <3>2, Zenon DEF Busy
    <3> QED BY <3>1, <3>2, <3>3, CardSteps
  <2> QED BY <1>8, <2>2, <2>3 DEF SdCommit, ProviderFails, InIo
<1>9. CASE Publish
  <2>1. /\ card' = card /\ power' = power
        /\ \/ q' = Faulted(q)
           \/ \E st \in {"pending", "done"} : q.state = "running" /\ q' = [q EXCEPT !.state = st]
    BY <1>9 DEF Publish, SameJob
  <2>2. CASE q' = Faulted(q)
    BY <2>1, <2>2, FaultMaps
  <2>3. CASE \E st \in {"pending", "done"} : q.state = "running" /\ q' = [q EXCEPT !.state = st]
    <3>1. /\ q'.state \in {"pending", "done"} /\ q.state = "running" /\ q'.op = q.op
          /\ q'.block = q.block /\ q'.applied = q.applied /\ q'.bytes = q.bytes
      BY <1>0, <2>3 DEF Mailboxes
    <3> QED BY <2>1, <3>1, QuietMaps
  <2> QED BY <2>1, <2>2, <2>3
<1>10. CASE WorkEnd
  <2>1. card' = card /\ power' = power /\ (q' = q \/ q' = Faulted(q))
    BY <1>10 DEF WorkEnd
  <2> QED BY <1>1, <2>1, FaultMaps
<1>11. CASE Poison
  BY <1>11, FaultMaps DEF Poison
<1>12. CASE PowerLoss
  <2>1. power' = FALSE
    BY <1>12 DEF PowerLoss
  <2>2. Usable' = FALSE /\ Busy' = FALSE
    BY <2>1 DEF Usable, Busy
  <2>3. CASE UNCHANGED <<card, q>>
    <3>1. Same
      BY <2>3 DEF Same, PendingWrite, Outstanding
    <3> QED BY <2>2, <3>1, CardSteps
  <2>4. CASE /\ InIo("commit") /\ card' = [card EXCEPT ![wk.block] = q.bytes]
             /\ q' = [q EXCEPT !.applied = TRUE]
    <3>1. Effect
      BY <2>4, AppliesMaps DEF InIo
    <3> QED BY <2>2, <3>1, CardSteps
  <2> QED BY <1>12, <2>3, <2>4 DEF PowerLoss
<1>13. CASE UNCHANGED vars
  BY <1>1, <1>13 DEF vars
<1> QED
  BY <1>2, <1>3, <1>4, <1>5, <1>6, <1>7, <1>8, <1>9, <1>10, <1>11, <1>12, <1>13
  DEF Next, Request, Work, WorkIo

(* Seen by the game the endpoint is the abstract card: blocks change as a  *)
(* whole and only by a write it asked for, a SYNC answered OK has happened *)
(* for good, an interrupted one has happened or has not.                   *)
THEOREM Refinement == Spec => CardKept
<1>1. Init => Card!CardInit
  <2> SUFFICES ASSUME Init PROVE Card!CardInit
    OBVIOUS
  <2>1. card \in [Blocks -> Data] /\ power = FALSE /\ q.op = "none"
    BY DataTypes DEF Init, FreshQueue
  <2>2. PendingWrite = NoWrite /\ Usable = FALSE /\ Busy = FALSE
    BY <2>1 DEF PendingWrite, Outstanding, NoWrite, Usable, Busy
  <2> QED BY <2>1, <2>2, Zenon DEF Card!CardInit, Card!None, NoWrite
<1> QED
  BY <1>1, StepMaps, Invariance, PTL DEF Spec, CardKept, Card!CardSpec
=============================================================================

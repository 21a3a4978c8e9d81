------------------------------- MODULE KwLink -------------------------------
(***************************************************************************)
(* The Wi-Fi link of firmware/kui-wifi: the Dreamcast (host, SPI master)   *)
(* and the board (bridge, SPI slave) exchange one frame each in every      *)
(* transfer.  kwlink.c, compiled into both, numbers the payloads, keeps a  *)
(* window of two and goes back when an answer is overdue; kwhost.c and     *)
(* link_spi.c drive it.                                                    *)
(*                                                                         *)
(* host and bridge are the two struct kwl.  A payload is its length and a  *)
(* serial number; a frame whose magic, direction, length or CRC is wrong   *)
(* is "damaged" (the CRC detects every damage).  The bridge arms its frame *)
(* right after a transfer, so the frame may be older than the state both   *)
(* ends are in when it is clocked out: that is where restarts bite.        *)
(***************************************************************************)
EXTENDS Integers, Sequences, SequencesExt

CONSTANTS
  SeqCount,        \* sequence numbers (256)
  Poll,          \* KWL_POLL
  PayloadMax,    \* KWL_PAYLOAD_MAX
  Hints,         \* what io->pending may answer
  MaxHostPayloads, MaxBridgePayloads,   \* bounds: payloads each end has to send
  MaxFaults      \* bound: damaged frames, dead transfers, restarts

ASSUME SeqCountAssumption == SeqCount \in Nat /\ SeqCount >= 4 /\ SeqCount % 2 = 0
ASSUME SizesAssumption == /\ Poll \in Nat \ {0} /\ PayloadMax \in Nat
                          /\ Poll <= PayloadMax
ASSUME HintsAssumption == Hints # {} /\ Hints \subseteq Nat
ASSUME KwBoundsAssumption == {MaxHostPayloads, MaxBridgePayloads, MaxFaults} \subseteq Nat

Window == 2                 \* KWL_WINDOW
Overdue == 2                \* transfers after which an answer is late
Half == SeqCount \div 2       \* 0x80

VARIABLES
  host, bridge,      \* struct kwl of each end
  armed,             \* the bridge's frame, loaded for the next transfer
  sessions,          \* session numbers used so far (session_number is new each time)
  put,               \* payloads each end has filled in since its last restart
  got,               \* payloads each end has delivered since its last restart
  serial,            \* payloads each end has filled in altogether
  missed,            \* host frames in a row that the bridge did not get (2: more)
  faults

vars == <<host, bridge, armed, sessions, put, got, serial, missed, faults>>

-----------------------------------------------------------------------------
CapacityFor(w) == IF w < Poll THEN Poll ELSE IF w > PayloadMax THEN PayloadMax ELSE w

(* restart(): numbering starts again *)
Restart(l) ==
  [l EXCEPT !.next = 0, !.expect = 0, !.ackedAny = FALSE, !.out = <<>>,
            !.want = 0, !.current = 0]

(* kwl_init; promised, need and want are the host's, current the bridge's *)
Fresh(w) ==
  [session |-> 0, live |-> FALSE, next |-> 0, expect |-> 0, ackedAny |-> FALSE,
   out |-> <<>>, window |-> w, promised |-> <<Poll, Poll>>, need |-> Poll,
   want |-> 0, current |-> 0]

HostSync(l, s) == [Restart(l) EXCEPT !.session = s, !.live = FALSE, !.window = 0]
BridgeReset(l) == [Restart(l) EXCEPT !.session = 0, !.live = FALSE, !.window = Poll]

-----------------------------------------------------------------------------
(* choose() and kwl_build *)

TakenBack(o) == [o EXCEPT !.sent = FALSE, !.age = 0]

BadGoBack(out) == out    \* an overdue answer is never noticed

(* The oldest frame is overdue: it and every later one goes again *)
GoBack(out) ==
  IF out # <<>> /\ out[1].sent /\ out[1].age >= Overdue
  THEN [i \in DOMAIN out |-> TakenBack(out[i])] ELSE out
Unsent(out) == {i \in DOMAIN out : ~out[i].sent}

(* io->fill is asked only when nothing waits and the window has room *)
MayFill(l) == l.live /\ Unsent(GoBack(l.out)) = {} /\ Len(l.out) < Window

MaxPayloads(end) == IF end = "host" THEN MaxHostPayloads ELSE MaxBridgePayloads
NoPayload == [len |-> 0, id |-> 0]
Payloads(end, l, capacity) ==
  {NoPayload} \cup
  (IF MayFill(l) /\ serial[end] < MaxPayloads(end)
   THEN {[len |-> k, id |-> serial[end] + 1] : k \in 1..capacity} ELSE {})

(* The frame that goes next: its place in out (0: none) and out itself *)
Choice(l, p) ==
  LET out == GoBack(l.out)
  IN CASE ~l.live -> [at |-> 0, out |-> l.out]
       [] l.live /\ Unsent(out) # {} ->
            [at |-> CHOOSE i \in Unsent(out) : \A j \in Unsent(out) : i <= j, out |-> out]
       [] l.live /\ Unsent(out) = {} /\ p = NoPayload -> [at |-> 0, out |-> out]
       [] OTHER -> [at |-> Len(out) + 1,
                    out |-> Append(out, [seq |-> l.next, len |-> p.len, id |-> p.id,
                                         sent |-> FALSE, age |-> 0])]

Marked(out, i) ==
  IF i = 0 THEN out ELSE [out EXCEPT ![i] = [@ EXCEPT !.sent = TRUE, !.age = 0]]

FrameOf(l, c, w, sync, nosession, p) ==
  [data |-> c.at # 0, seq |-> IF c.at = 0 THEN 0 ELSE c.out[c.at].seq,
   len |-> IF c.at = 0 THEN 0 ELSE c.out[c.at].len,
   id |-> IF c.at = 0 THEN 0 ELSE c.out[c.at].id,
   isAck |-> l.ackedAny, ack |-> (l.expect - 1) % SeqCount, sync |-> sync,
   nosession |-> nosession, window |-> w, session |-> l.session,
   first |-> c.at # 0 /\ p # NoPayload]

(* a number is used up by every frame, retries too *)
BadAfter(l, c, p) ==
  [l EXCEPT !.out = Marked(c.out, c.at), !.current = c.at,
            !.next = IF c.at = 0 THEN @ ELSE (@ + 1) % SeqCount]
After(l, c, p) ==
  [l EXCEPT !.out = Marked(c.out, c.at), !.current = c.at,
            !.next = IF p = NoPayload THEN @ ELSE (@ + 1) % SeqCount]

BadNeed(promised) == promised[1]    \* only the newest promise
Need(promised) == IF promised[1] > promised[2] THEN promised[1] ELSE promised[2]

(* The host promises what the bridge last hinted at, and leaves room for    *)
(* what its previous two frames promised                                    *)
BuildHost(l, p) ==
  LET c == Choice(l, p)
      w == CapacityFor(l.window)
  IN [frame |-> FrameOf(l, c, w, ~l.live, FALSE, p),
      l |-> [After(l, c, p) EXCEPT !.need = Need(l.promised), !.promised = <<w, l.promised[1]>>]]

BuildBridge(l, p, hint) ==
  LET c == Choice(l, p)
  IN [frame |-> FrameOf(l, c, hint, FALSE, ~l.live, p), l |-> After(l, c, p)]

(* kwl_host_length, in payload bytes *)
Clocked(l, len) ==
  LET room == IF l.need > l.want THEN l.need ELSE l.want
      n == IF len > room THEN len ELSE room
  IN IF n > PayloadMax THEN PayloadMax ELSE n

-----------------------------------------------------------------------------
(* kwl_receive *)

(* ++clock; the bridge takes back a frame that was cut short, and those after it *)
Aged(o) == [o EXCEPT !.age = IF o.sent /\ @ < Overdue THEN @ + 1 ELSE @]
Tick(l, cut) ==
  [l EXCEPT !.current = 0,
            !.out = [i \in DOMAIN l.out |->
                       IF cut /\ l.current # 0 /\ i >= l.current
                       THEN TakenBack(l.out[i]) ELSE Aged(l.out[i])]]

(* comparison without wrap-around *)
BadAcknowledged(out, ack) ==
  {k \in 0..Len(out) : \A i \in 1..k : out[i].seq <= ack}

(* acknowledge(): frames up to ack leave the window *)
Acknowledged(out, ack) ==
  {k \in 0..Len(out) : \A i \in 1..k : (ack - out[i].seq) % SeqCount < Half}
Released(out, f) ==
  IF ~f.isAck THEN out
  ELSE LET ks == Acknowledged(out, f.ack)
       IN SubSeq(out, (CHOOSE k \in ks : \A j \in ks : j <= k) + 1, Len(out))

(* The part both ends share: window, acknowledgement, the expected payload *)
BadInOrderFrame(l, f) == f.data                         \* any number
BadWrapFrame(l, f) == f.data /\ f.seq >= l.expect       \* no wrap-around
InOrderFrame(l, f) == f.data /\ f.seq = l.expect
Accept(l, f) ==
  [l EXCEPT !.window = f.window, !.out = Released(l.out, f),
            !.expect = IF InOrderFrame(l, f) THEN (@ + 1) % SeqCount ELSE @,
            !.ackedAny = @ \/ InOrderFrame(l, f)]
Delivered(l, f) == IF InOrderFrame(l, f) THEN <<f.id>> ELSE <<>>

(* A valid frame at the host: [result, l, new payloads] *)
HostReceive(l0, f) ==
  LET l == [l0 EXCEPT !.want = 0]
      ours == ~f.nosession /\ f.session = l.session
      up == [Restart(l) EXCEPT !.live = TRUE]
  IN CASE l.live /\ ours -> [r |-> "ok", l |-> Accept(l, f), new |-> Delivered(l, f)]
       [] l.live /\ ~ours -> [r |-> "lost", l |-> [l EXCEPT !.live = FALSE], new |-> <<>>]
       [] ~l.live /\ ours -> [r |-> "synced", l |-> Accept(up, f), new |-> Delivered(up, f)]
       [] OTHER -> [r |-> "ignored", l |-> l, new |-> <<>>]

BadRepeatedSync(l, f) == FALSE    \* every SYNC restarts

(* A valid frame at the bridge; a repeated SYNC must not restart *)
RepeatedSync(l, f) == l.live /\ f.session = l.session
BridgeReceive(l, f) ==
  CASE f.sync /\ RepeatedSync(l, f) -> [r |-> "ok", l |-> l, new |-> <<>>]
    [] f.sync /\ ~RepeatedSync(l, f) ->
         [r |-> "synced", new |-> <<>>,
          l |-> [Restart(l) EXCEPT !.session = f.session, !.live = TRUE,
                                   !.window = CapacityFor(f.window)]]
    [] ~f.sync /\ (~l.live \/ f.session # l.session) ->
         [r |-> "ignored", l |-> l, new |-> <<>>]
    [] OTHER -> [r |-> "ok", l |-> Accept(l, f), new |-> Delivered(l, f)]

-----------------------------------------------------------------------------
(* The system: kwh_step on the host, one pass of link_task on the bridge *)

Ends == {"host", "bridge"}

Init ==
  /\ host = HostSync(Fresh(0), 1)
  /\ bridge = BridgeReset(Fresh(Poll))
  /\ \E hint \in Hints : armed = BuildBridge(bridge, NoPayload, hint).frame
  /\ sessions = 1
  /\ put = [e \in Ends |-> <<>>] /\ got = [e \in Ends |-> <<>>]
  /\ serial = [e \in Ends |-> 0]
  /\ missed = 0 /\ faults = 0

Filled(p) == IF p = NoPayload THEN <<>> ELSE <<p.id>>
Count(p) == IF p = NoPayload THEN 0 ELSE 1
Fault == faults < MaxFaults /\ faults' = faults + 1

(* What one transfer does to the host's frame and the bridge's count of     *)
(* bytes (lost, cut), and to the bridge's frame (bad)                       *)
Clean == [lost |-> FALSE, cut |-> FALSE, bad |-> FALSE]
Faulty == [lost : BOOLEAN, cut : BOOLEAN, bad : BOOLEAN] \ {Clean}

(* The host's link after a transfer of clk payload bytes.  A bad header may *)
(* claim any length.                                                        *)
HostEnd(h, clk, bad) ==
  LET t == Tick(h, FALSE)
      none(w) == [r |-> "nothing", l |-> [t EXCEPT !.want = w], new |-> <<>>]
  IN CASE bad -> {none(w) : w \in {h.want} \cup (clk + 1)..PayloadMax}
       [] ~bad /\ armed.len > clk -> {none(armed.len)}
       [] OTHER -> {HostReceive(t, armed)}

BridgeEnd(f, clk, io) ==
  LET t == Tick(bridge, io.cut \/ armed.len > clk)
  IN IF io.lost THEN [r |-> "nothing", l |-> t, new |-> <<>>] ELSE BridgeReceive(t, f)

(* kwh_step after kwl_receive: KWL_LOST begins a new session *)
HostTakes(h) ==
  /\ host' = IF h.r = "lost" THEN HostSync(h.l, sessions + 1) ELSE h.l
  /\ sessions' = IF h.r = "lost" THEN sessions + 1 ELSE sessions

(* begin() and forget(): nothing survives from the session before *)
Kept(end, s) == IF end.r \in {"lost", "synced"} THEN <<>> ELSE s

(* The bridge's receive, forget() when a session starts, and the next frame *)
Arm(l, q, hint) ==
  LET b == BuildBridge(l, q, hint) IN bridge' = b.l /\ armed' = b.frame

Transfer(io) ==
  \E p \in Payloads("host", host, PayloadMax) :
  \E built \in {BuildHost(host, p)} :
  \E clk \in {Clocked(built.l, built.frame.len)} :
  \E h \in HostEnd(built.l, clk, io.bad), br \in {BridgeEnd(built.frame, clk, io)} :
  \E q \in Payloads("bridge", br.l, CapacityFor(br.l.window)), hint \in Hints :
    /\ HostTakes(h)
    /\ Arm(br.l, q, hint)
    /\ put' = [host |-> Kept(h, put["host"] \o Filled(p)),
               bridge |-> Kept(br, put["bridge"]) \o Filled(q)]
    /\ got' = [host |-> Kept(h, got["host"]) \o h.new,
               bridge |-> Kept(br, got["bridge"]) \o br.new]
    /\ serial' = [host |-> serial["host"] + Count(p),
                  bridge |-> serial["bridge"] + Count(q)]
    /\ missed' = IF ~io.lost THEN 0 ELSE IF missed < 2 THEN missed + 1 ELSE 2

Exchange == Transfer(Clean) /\ UNCHANGED faults
Disturbed == Fault /\ \E io \in Faulty : Transfer(io)

(* bus->transfer fails before the bridge is clocked: kwl_receive(NULL) *)
BusFail ==
  /\ Fault
  /\ \E p \in Payloads("host", host, PayloadMax) :
       /\ host' = Tick(BuildHost(host, p).l, FALSE)
       /\ put' = [put EXCEPT !["host"] = @ \o Filled(p)]
       /\ serial' = [serial EXCEPT !["host"] = @ + Count(p)]
  /\ missed' = IF missed < 2 THEN missed + 1 ELSE 2
  /\ UNCHANGED <<bridge, armed, sessions, got>>

(* kwh_init, kwh_start: the Dreamcast program starts again *)
HostStart ==
  /\ Fault
  /\ host' = HostSync(Fresh(0), sessions + 1)
  /\ sessions' = sessions + 1
  /\ put' = [put EXCEPT !["host"] = <<>>] /\ got' = [got EXCEPT !["host"] = <<>>]
  /\ UNCHANGED <<bridge, armed, serial, missed>>

(* The board restarts: kwb_init, and link_task arms its first frame *)
BridgeReboot ==
  /\ Fault
  /\ \E hint \in Hints : Arm(BridgeReset(Fresh(Poll)), NoPayload, hint)
  /\ put' = [put EXCEPT !["bridge"] = <<>>] /\ got' = [got EXCEPT !["bridge"] = <<>>]
  /\ UNCHANGED <<host, sessions, serial, missed>>

(* The reset line: kwb_reset, with the armed frame left in the SPI slave *)
LineReset ==
  /\ Fault
  /\ bridge' = BridgeReset(bridge)
  /\ put' = [put EXCEPT !["bridge"] = <<>>] /\ got' = [got EXCEPT !["bridge"] = <<>>]
  /\ UNCHANGED <<host, armed, sessions, serial, missed>>

Next == Exchange \/ Disturbed \/ BusFail \/ HostStart \/ BridgeReboot

Spec == Init /\ [][Next]_vars

(* The same with the optional reset line wired and driven *)
WiredNext == Next \/ LineReset
WiredSpec == Init /\ [][WiredNext]_vars

(* kwh_step is called from every poll of the network session, so transfers  *)
(* go on; what disturbs them is bounded                                     *)
FairSpec == Spec /\ WF_vars(Exchange)

-----------------------------------------------------------------------------
(* Properties *)

Same == host.live /\ bridge.live /\ host.session = bridge.session
Peer(e) == IF e = "host" THEN "bridge" ELSE "host"
LinkOf(e) == IF e = "host" THEN host ELSE bridge

Numbers == 0..SeqCount-1
Entries == [seq : Numbers, len : 1..PayloadMax, id : Nat, sent : BOOLEAN, age : 0..Overdue]
Links ==
  [session : Nat, live : BOOLEAN, next : Numbers, expect : Numbers, ackedAny : BOOLEAN,
   out : Seq(Entries), window : Nat, promised : (Poll..PayloadMax) \X (Poll..PayloadMax),
   need : 0..PayloadMax, want : 0..PayloadMax, current : 0..Window]
Frames ==
  [data : BOOLEAN, seq : Numbers, len : 0..PayloadMax, id : Nat, isAck : BOOLEAN,
   ack : Numbers, sync : BOOLEAN, nosession : BOOLEAN, window : Nat, session : Nat,
   first : BOOLEAN]

(* Both ends keep at most KWL_WINDOW payloads, numbered one after another up *)
(* to next_seq (kwl_out, nth), and a slot that may be retried is in the ring *)
TypeOK ==
  /\ \A e \in Ends : LET l == LinkOf(e) IN
       /\ l \in Links /\ l.session <= sessions
       /\ Len(l.out) <= Window /\ l.current <= Len(l.out)
       /\ \A i \in DOMAIN l.out :
            l.out[i].seq = (l.next - (Len(l.out) + 1 - i)) % SeqCount
  /\ armed \in Frames /\ sessions \in Nat
  /\ put \in [Ends -> Seq(Nat)] /\ got \in [Ends -> Seq(Nat)]
  /\ serial \in [Ends -> Nat] /\ missed \in 0..2 /\ faults \in 0..MaxFaults

(* struct kwl_io: deliver gets "a new payload from the peer, in order,      *)
(* exactly once": within a session each end has received a prefix of what   *)
(* the other put in, across damage, retries and restarts of either end.     *)
InOrder == Same => \A e \in Ends : IsPrefix(got[e], put[Peer(e)])

(* acknowledge(): "the peer has everything up to `ack`": a payload leaves   *)
(* the window of its sender only after the peer delivered that payload, so  *)
(* none is lost to a wrapped, repeated or stale acknowledgement.            *)
AckedDelivered ==
  Same => \A e \in Ends :
    IsPrefix(SubSeq(put[e], 1, Len(put[e]) - Len(LinkOf(e).out)), got[Peer(e)])

(* kwl_build: the host leaves room for the promises of its last two frames, *)
(* so a frame the bridge sends for the first time is never cut by the       *)
(* clock length, unless the bridge missed two host frames in a row.         *)
FirstFits ==
  armed.first /\ armed.session = host.session /\ missed <= 1
    => armed.len <= Clocked(BuildHost(host, NoPayload).l, 0)

(* Once the faults are over, both ends agree on a session and every payload *)
(* put into it is delivered and acknowledged.                               *)
AllArrive == <>[](Same /\ host.out = <<>> /\ bridge.out = <<>>)

=============================================================================

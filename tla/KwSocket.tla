------------------------------ MODULE KwSocket ------------------------------
(***************************************************************************)
(* One TCP socket slot of the Wi-Fi link: the Dreamcast's half (kwhost.c), *)
(* the board's half (bridge.c), the messages between them, and the remote  *)
(* peer's connection behind the board's file descriptor.                   *)
(*                                                                         *)
(* The link below carries messages whole and in order until a session ends *)
(* (KwLink), so each direction is a queue.  A byte is the connection it    *)
(* belongs to and its place there.  A connection ("life") is counted       *)
(* without end; what a message carries is its generation, the count        *)
(* modulo GenCount, and only that is compared.  Nothing in the code keeps  *)
(* two connections of one generation apart: see Apart.                     *)
(***************************************************************************)
EXTENDS Integers, Sequences

CONSTANTS
  GenCount,    \* generations of a slot; 32 in the code
  RxMax,       \* KWH_RX
  CreditBatch, \* KWH_RX / 4
  RxCap, TxCap,   \* the board's rings for the slot
  QueueMax,    \* messages the host queue and the link hold
  UpMax,       \* messages from the board in flight
  MaxPeer,     \* bound: bytes the peer sends on a connection
  MaxPut,      \* bound: bytes the application sends on one
  MaxLives,    \* bound: connections
  MaxResets    \* bound: sessions lost

ASSUME SocketAssumption ==
  /\ {GenCount, RxMax, CreditBatch, RxCap, TxCap, QueueMax, UpMax} \subseteq Nat \ {0}
  /\ {MaxPeer, MaxPut, MaxLives, MaxResets} \subseteq Nat
  /\ GenCount > 1

VARIABLES
  host,     \* struct kwh_slot
  board,    \* struct kwb_slot
  peer,     \* the remote end of the board's connection
  down, up, \* messages to the board, messages to the host
  got,      \* what the application has read on this connection
  put,      \* how many bytes it has sent on it
  sync,     \* the link's session: live, or which end has yet to begin again
  resets    \* sessions lost so far

vars == <<host, board, peer, down, up, got, put, sync, resets>>

Gen(life) == life % GenCount
Streaming(state) == state \in {"established", "peer_closed"}
Bytes(life, from, n) == [i \in 1..n |-> [life |-> life, k |-> from + i]]
Parts(s, max) == {SubSeq(s, 1, n) : n \in 1..(IF Len(s) < max THEN Len(s) ELSE max)}
Rest(s, part) == SubSeq(s, Len(part) + 1, Len(s))

(* memset and slot_clear *)
FreshHost(life, state) ==
  [life |-> life, state |-> state, rx |-> <<>>, back |-> 0, credit |-> 0]
ClearBoard(life) ==
  [life |-> life, state |-> "closed", rx |-> <<>>, tx |-> <<>>, credit |-> 0, grant |-> 0,
   closing |-> FALSE, fin |-> FALSE, ended |-> FALSE, dirty |-> FALSE, shown |-> "closed",
   fd |-> FALSE]
NoPeer == [life |-> 0, up |-> FALSE, sent |-> 0, net |-> <<>>, fin |-> FALSE, got |-> <<>>]

Init ==
  /\ host = FreshHost(0, "closed") /\ board = ClearBoard(0) /\ peer = NoPeer
  /\ down = <<>> /\ up = <<>> /\ got = <<>> /\ put = 0 /\ sync = "live" /\ resets = 0

Message(type, life, state, n, body) ==
  [type |-> type, life |-> life, state |-> state, n |-> n, body |-> body]
Queue(m) == Len(down) < QueueMax /\ down' = Append(down, m)

-----------------------------------------------------------------------------
(* The application's calls *)

(* open_slot, whatever the slot was doing *)
Open ==
  LET life == host.life + 1 IN
  /\ life <= MaxLives
  /\ Queue(Message("open", life, "", RxMax, <<>>))
  /\ host' = FreshHost(life, "opening") /\ got' = <<>> /\ put' = 0
  /\ UNCHANGED <<board, peer, up, sync, resets>>

SlotClosed(h) == [h EXCEPT !.state = "closed", !.credit = 0]

(* kwh_close *)
CloseGraceful ==
  /\ Streaming(host.state)
  /\ Queue(Message("close", host.life, "graceful", 0, <<>>))
  /\ host' = [host EXCEPT !.state = "closing", !.credit = 0]
  /\ UNCHANGED <<board, peer, up, got, put, sync, resets>>

CloseNow ==
  /\ host.state # "closed" /\ host.life < MaxLives
  /\ Queue(Message("close", host.life, "now", 0, <<>>))
  /\ host' = FreshHost(host.life + 1, "closed") /\ got' = <<>> /\ put' = 0
  /\ UNCHANGED <<board, peer, up, sync, resets>>

(* kwh_send, within kwh_room *)
Send ==
  /\ sync # "host" /\ Streaming(host.state) /\ put < MaxPut
  /\ \E n \in 1..host.credit :
       /\ put + n <= MaxPut
       /\ Queue(Message("send", host.life, "", n, Bytes(host.life, put, n)))
       /\ host' = [host EXCEPT !.credit = @ - n] /\ put' = put + n
  /\ UNCHANGED <<board, peer, up, got, sync, resets>>

(* kwh_recv *)
Recv ==
  /\ host.rx # <<>>
  /\ \E part \in Parts(host.rx, Len(host.rx)) :
       /\ host' = [host EXCEPT !.rx = Rest(@, part), !.back = @ + Len(part)]
       /\ got' = got \o part
  /\ UNCHANGED <<board, peer, down, up, put, sync, resets>>

-----------------------------------------------------------------------------
(* kwh_step: credit first, then what the link hands over *)

(* Fault variants ("Bad...") stand before the definition they would replace *)
BadCreditDue(h) == h.back > CreditBatch
CreditDue(h) == h.back > 0 /\ (h.back >= CreditBatch \/ h.rx = <<>>)

(* credit_back: a full queue keeps the credit for the next step *)
CreditBack(h) ==
  IF ~CreditDue(h) THEN [h |-> h, msgs |-> <<>>]
  ELSE IF h.state = "closed" THEN [h |-> [h EXCEPT !.back = 0], msgs |-> <<>>]
  ELSE IF Len(down) < QueueMax
       THEN [h |-> [h EXCEPT !.back = 0],
             msgs |-> <<Message("credit", h.life, "", h.back, <<>>)>>]
       ELSE [h |-> h, msgs |-> <<>>]

StateReceived(h, m) ==
  CASE h.state = "closing" /\ Streaming(m.state) -> h
    [] m.state = "closed" -> SlotClosed(h)
    [] OTHER -> [h EXCEPT !.state = m.state]
TxCreditReceived(h, m) ==
  IF h.state \in {"closed", "closing"} THEN h ELSE [h EXCEPT !.credit = @ + m.n]
DataReceived(h, m) ==
  IF h.state = "closed" \/ RxMax - Len(h.rx) < Len(m.body) THEN h
  ELSE [h EXCEPT !.rx = @ \o m.body]

BadHostCurrent(h, m) == TRUE
HostCurrent(h, m) == Gen(m.life) = Gen(h.life)
HostDeliver(h, m) ==
  IF ~HostCurrent(h, m) THEN h
  ELSE CASE m.type = "state" -> StateReceived(h, m)
         [] m.type = "txcredit" -> TxCreditReceived(h, m)
         [] m.type = "data" -> DataReceived(h, m)

HostStep ==
  LET c == CreditBack(host) IN
  /\ c.msgs # <<>> \/ up # <<>>
  /\ down' = down \o c.msgs
  /\ host' = IF up = <<>> THEN c.h ELSE HostDeliver(c.h, Head(up))
  /\ up' = IF up = <<>> THEN up ELSE Tail(up)
  /\ UNCHANGED <<board, peer, got, put, sync, resets>>

-----------------------------------------------------------------------------
(* The board *)

(* finish: everything stops except handing over what was received *)
Finish(b) ==
  [b EXCEPT !.state = "closed", !.ended = TRUE, !.closing = FALSE, !.fin = FALSE,
            !.grant = 0, !.tx = <<>>, !.dirty = TRUE, !.fd = FALSE]

(* A close is shown only once all the data before it has gone to the host *)
Visible(b) ==
  IF b.rx # <<>> /\ b.state \in {"peer_closed", "closed"}
  THEN IF b.closing THEN "closing" ELSE "established"
  ELSE b.state

SockOpen(m) ==
  [ClearBoard(m.life) EXCEPT !.dirty = TRUE, !.credit = m.n, !.state = "opening", !.fd = TRUE]

SockClose(b, m) ==
  CASE m.state = "graceful" /\ Streaming(b.state) ->
         [b EXCEPT !.closing = TRUE, !.state = "closing", !.dirty = TRUE]
    [] (m.state = "now" \/ ~Streaming(b.state)) /\ (b.state # "closed" \/ b.rx # <<>>) ->
         [Finish(b) EXCEPT !.rx = <<>>]
    [] OTHER -> b

SockSend(b, m) ==
  IF b.closing \/ ~Streaming(b.state) THEN b
  ELSE LET room == TxCap - Len(b.tx)
       IN [b EXCEPT !.tx = @ \o SubSeq(m.body, 1, IF Len(m.body) < room THEN Len(m.body) ELSE room)]

BoardCurrent(m) == Gen(m.life) = Gen(board.life)

BadBoardHandle(m) ==
  IF m.type = "open" THEN SockOpen(m)
  ELSE IF ~BoardCurrent(m) THEN board
  ELSE CASE m.type = "close" -> SockClose(board, m)
         [] m.type = "send" -> SockSend(board, m)
         [] m.type = "credit" -> [board EXCEPT !.credit = m.n]

(* socket_message *)
BoardHandle(m) ==
  IF m.type = "open" THEN SockOpen(m)
  ELSE IF ~BoardCurrent(m) THEN board
  ELSE CASE m.type = "close" -> SockClose(board, m)
         [] m.type = "send" -> SockSend(board, m)
         [] m.type = "credit" -> [board EXCEPT !.credit = @ + m.n]

(* kwb_receive; a descriptor that is closed ends the peer's connection *)
BoardReceive ==
  /\ sync = "live" /\ down # <<>> /\ down' = Tail(down)
  /\ board' = BoardHandle(Head(down))
  /\ peer' = IF Head(down).type = "open" THEN [NoPeer EXCEPT !.life = Head(down).life]
             ELSE IF board'.fd THEN peer ELSE [peer EXCEPT !.up = FALSE]
  /\ UNCHANGED <<host, up, got, put, sync, resets>>

(* fill, one message at a time; which of them fit in a frame varies *)
BoardFill ==
  /\ sync = "live" /\ Len(up) < UpMax
  /\ \/ /\ board.dirty \/ Visible(board) # board.shown
        /\ up' = Append(up, Message("state", board.life, Visible(board), 0, <<>>))
        /\ board' = [board EXCEPT !.dirty = FALSE, !.shown = Visible(board)]
     \/ /\ board.grant > 0
        /\ up' = Append(up, Message("txcredit", board.life, "", board.grant, <<>>))
        /\ board' = [board EXCEPT !.grant = 0]
     \/ /\ board.credit > 0
        /\ \E part \in Parts(board.rx, board.credit) :
             /\ up' = Append(up, Message("data", board.life, "", Len(part), part))
             /\ board' = [board EXCEPT !.rx = Rest(@, part), !.credit = @ - Len(part)]
  /\ UNCHANGED <<host, peer, down, got, put, sync, resets>>

(* kwb_service *)

(* The connection comes up (connect or accept), or does not in time *)
Connected ==
  /\ board.state = "opening"
  /\ \/ /\ board' = [board EXCEPT !.state = "established", !.grant = TxCap, !.dirty = TRUE]
        /\ peer' = [peer EXCEPT !.up = TRUE]
     \/ board' = Finish(board) /\ peer' = peer
  /\ UNCHANGED <<host, down, up, got, put, sync, resets>>

(* write_tcp *)
WriteTcp ==
  /\ board.fd /\ board.state # "opening" /\ board.tx # <<>>
  /\ \/ /\ peer.up
        /\ \E part \in Parts(board.tx, TxCap) :
             /\ board' = [board EXCEPT !.tx = Rest(@, part), !.grant = @ + Len(part)]
             /\ peer' = [peer EXCEPT !.got = @ \o part]
     \/ ~peer.up /\ board' = Finish(board) /\ peer' = peer
  /\ UNCHANGED <<host, down, up, got, put, sync, resets>>

(* read_tcp: bytes, the peer's FIN, or an error *)
ReadTcp ==
  /\ board.fd /\ board.state # "opening" /\ ~board.ended /\ Len(board.rx) < RxCap
  /\ \/ \E part \in Parts(peer.net, RxCap - Len(board.rx)) :
          /\ board' = [board EXCEPT !.rx = @ \o part]
          /\ peer' = [peer EXCEPT !.net = Rest(@, part)]
     \/ /\ peer.up /\ peer.fin /\ peer.net = <<>>
        /\ board' = IF ~board.closing
                    THEN [board EXCEPT !.ended = TRUE, !.state = "peer_closed", !.dirty = TRUE]
                    ELSE IF board.fin THEN Finish(board) ELSE [board EXCEPT !.ended = TRUE]
        /\ peer' = [peer EXCEPT !.up = board'.fd]
     \/ ~peer.up /\ board' = Finish(board) /\ peer' = peer
  /\ UNCHANGED <<host, down, up, got, put, sync, resets>>

(* Orderly closes: FIN once the queued data has gone, then the peer's FIN  *)
(* or the deadline                                                         *)
OrderlyClose ==
  /\ board.closing /\ board.fd
  /\ \/ /\ ~board.fin /\ board.tx = <<>>
        /\ board' = IF board.ended THEN Finish(board) ELSE [board EXCEPT !.fin = TRUE]
     \/ board.fin /\ board' = Finish(board)
  /\ peer' = [peer EXCEPT !.up = @ /\ board'.fd]
  /\ UNCHANGED <<host, down, up, got, put, sync, resets>>

-----------------------------------------------------------------------------
(* The remote peer, and the end of a session *)
PeerSends ==
  /\ peer.up /\ ~peer.fin /\ peer.sent < MaxPeer
  /\ peer' = [peer EXCEPT !.sent = @ + 1, !.net = @ \o Bytes(peer.life, peer.sent, 1)]
  /\ UNCHANGED <<host, board, down, up, got, put, sync, resets>>

PeerEnds ==
  /\ peer.up
  /\ \/ ~peer.fin /\ peer' = [peer EXCEPT !.fin = TRUE]
     \/ peer' = [peer EXCEPT !.up = FALSE, !.net = <<>>]     \* reset
  /\ UNCHANGED <<host, board, down, up, got, put, sync, resets>>

(* begin *)
Begin ==
  /\ host' = FreshHost(host.life, "closed") /\ got' = <<>> /\ put' = 0 /\ down' = <<>>

(* The board restarts, or the host starts a new session (kwh_start) *)
SessionEnds ==
  /\ sync = "live" /\ resets < MaxResets /\ resets' = resets + 1 /\ up' = <<>>
  /\ \/ /\ sync' = "board" /\ board' = ClearBoard(0) /\ peer' = [peer EXCEPT !.up = FALSE]
        /\ UNCHANGED <<host, down, got, put>>
     \/ /\ sync' = "host" /\ Begin /\ UNCHANGED <<board, peer>>

(* KWL_LOST: the host starts again; KWL_SYNCED: the board forgets *)
HostLost ==
  /\ sync = "board" /\ sync' = "host" /\ Begin
  /\ UNCHANGED <<board, peer, up, resets>>
BoardSynced ==
  /\ sync = "host" /\ sync' = "live"
  /\ board' = ClearBoard(0) /\ peer' = [peer EXCEPT !.up = FALSE]
  /\ UNCHANGED <<host, down, up, got, put, resets>>

(* Every step but the two calls that take the next generation *)
SameLife ==
  \/ CloseGraceful \/ Send \/ Recv \/ HostStep
  \/ BoardReceive \/ BoardFill \/ Connected \/ WriteTcp \/ ReadTcp \/ OrderlyClose
  \/ PeerSends \/ PeerEnds \/ SessionEnds \/ HostLost \/ BoardSynced

Next == Open \/ CloseNow \/ SameLife

Spec == Init /\ [][Next]_vars

(* The code takes the next generation without looking whether the link or   *)
(* the board still has something of the connection GenCount before.  Where  *)
(* a property is about a program that leaves the link the time to carry its *)
(* closes first, this is what is assumed of its calls.                      *)
About ==
  (IF board = ClearBoard(0) THEN {} ELSE {board.life})
    \cup {down[i].life : i \in DOMAIN down} \cup {up[i].life : i \in DOMAIN up}
Apart == \A life \in About : host.life - life < GenCount
PromptNext == (Open /\ Apart') \/ (CloseNow /\ Apart') \/ SameLife
PromptSpec == Init /\ [][PromptNext]_vars

(* The host steps the link and reads, the board's loop receives, sends and  *)
(* polls its descriptors                                                    *)
FairSpec ==
  /\ PromptSpec /\ WF_vars(HostStep) /\ WF_vars(Recv) /\ WF_vars(BoardReceive)
  /\ WF_vars(BoardFill) /\ WF_vars(ReadTcp)

-----------------------------------------------------------------------------
(* Properties *)

(* What the messages of one type and connection in a queue carry, added up *)
(* message by message                                                      *)
Carries(m, type, life) == m.type = type /\ m.life = life
Totals(q, type, life) ==
  LET total[i \in 0..Len(q)] ==
        IF i = 0 THEN 0
        ELSE total[i - 1] + (IF Carries(q[i], type, life) THEN q[i].n ELSE 0)
  IN  total
Total(q, type, life) == Totals(q, type, life)[Len(q)]
InFlight(q, type) == Total(q, type, host.life)
SameConnection == host.life = board.life /\ host.state # "closed"

(* Credit is neither lost nor made up, in either direction: what the board *)
(* may still send, what is under way, what the application has not read    *)
(* and what has not been credited back fill the host's buffer exactly, and *)
(* the same for the board's.  So no data message finds the host's buffer   *)
(* full (data_r's failure) and no sent byte is dropped (dropped_sends),    *)
(* through full queues, batches, closes and slots reopened while their     *)
(* connections stay Apart.                                                 *)
CreditConserved ==
  SameConnection =>
    /\ board.credit + InFlight(up, "data") + Len(host.rx) + host.back
         + InFlight(down, "credit") = RxMax
    /\ (Streaming(board.state) /\ host.state # "closing") =>
         Len(board.tx) + board.grant + InFlight(up, "txcredit") + host.credit
           + InFlight(down, "send") = TxCap

(* The application reads exactly this connection's bytes, in order, and    *)
(* the peer gets exactly what was sent on its own, although a message says *)
(* only its generation (PROTOCOL.md: "nothing from an earlier connection   *)
(* on a slot can be mistaken for the new one"); and when the host sees the *)
(* peer's close, all the peer's data is here (visible,                     *)
(* KWH_EV_PEER_CLOSED).  It holds while connections stay Apart             *)
(* (PromptSpec), generations reused included, and not of Spec: open_slot   *)
(* and kwh_close may bring the generation round while something of the old *)
(* connection is under way.                                                *)
OwnStream ==
  /\ got \o host.rx = Bytes(host.life, 0, Len(got \o host.rx))
  /\ peer.got = Bytes(peer.life, 0, Len(peer.got))
  /\ host.state = "peer_closed" => Len(got \o host.rx) = peer.sent

(* Every byte the peer sends on a connection reaches the application, if   *)
(* it keeps reading and neither side ends the connection: no interleaving  *)
(* of data, batched credit and full queues stalls the stream (credit_back, *)
(* put_data; kwh_idle: "otherwise a drained receive window can stall the   *)
(* bridge").                                                               *)
Unread == host.life = peer.life /\ host.state # "closed" /\ peer.up /\ Len(got) < peer.sent
Arrives == Unread ~> ~Unread
=============================================================================

--------------------------- MODULE KwSocketProofs ---------------------------
(***************************************************************************)
(* Proofs about KwSocket, for every number of generations, size of buffer  *)
(* and of queue, and every number of connections and sessions lost, of the *)
(* behaviours in which the next generation is taken only when nothing of   *)
(* the connection GenCount before is about (PromptSpec): credit is         *)
(* conserved in both directions, and no byte of one connection is taken    *)
(* for another's, although only generations are compared.  Until the       *)
(* generations come round for the first time nothing has to be assumed     *)
(* (FirstGenerations).                                                     *)
(*                                                                         *)
(* The argument is about the one connection the two halves share, if they  *)
(* share one at all: what is queued behind it and in front of it, and      *)
(* where in the two streams each byte under way stands.                    *)
(***************************************************************************)
EXTENDS KwSocket, WellFoundedInduction, TLAPS

-----------------------------------------------------------------------------
(* The inductive invariant *)

States == {"closed", "opening", "established", "peer_closed", "closing"}
Byte == [life : Nat, k : Nat]
Hosts == [life : Nat, state : States, rx : Seq(Byte), back : Nat, credit : Nat]
Boards ==
  [life : Nat, state : States, rx : Seq(Byte), tx : Seq(Byte), credit : Nat, grant : Nat,
   closing : BOOLEAN, fin : BOOLEAN, ended : BOOLEAN, dirty : BOOLEAN, shown : States,
   fd : BOOLEAN]
Peers ==
  [life : Nat, up : BOOLEAN, sent : Nat, net : Seq(Byte), fin : BOOLEAN, got : Seq(Byte)]
ToBoard ==
  [type : {"open", "close", "send", "credit"}, life : Nat, state : {"", "graceful", "now"},
   n : Nat, body : Seq(Byte)]
ToHost ==
  [type : {"state"}, life : Nat, state : States, n : Nat, body : Seq(Byte)]
    \cup [type : {"txcredit", "data"}, life : Nat, state : {""}, n : Nat, body : Seq(Byte)]

(* The shape of the two halves, the peer, the queues and the streams       *)
TypeOK ==
  /\ host \in Hosts /\ board \in Boards /\ peer \in Peers
  /\ down \in Seq(ToBoard) /\ up \in Seq(ToHost)
  /\ got \in Seq(Byte) /\ put \in Nat
  /\ sync \in {"live", "board", "host"} /\ resets \in Nat

(* The board has the connection the host has *)
Joined == sync = "live" /\ board.life = host.life
(* and the host has not been told of its end *)
Talking == Joined /\ host.state # "closed"

(* Fewer than GenCount connections are about, and the board is never ahead *)
NearLives ==
  /\ board.life = 0 => board = ClearBoard(0)
  /\ board.life # 0 =>
       /\ board.life <= host.life /\ host.life - board.life < GenCount
       /\ peer.life = board.life
  /\ \A i \in DOMAIN up :
       /\ 1 <= up[i].life /\ up[i].life <= board.life
       /\ host.life - up[i].life < GenCount
  /\ up # <<>> => sync = "live"
  /\ sync = "board" => board.life = 0
  /\ host.state # "closed" => host.life # 0
  /\ (sync = "host" /\ host.state # "closed") => board.life # host.life

(* What a board does in one state it cannot be doing in another *)
BoardShape ==
  /\ board.state = "closing" => board.closing
  /\ board.closing => board.state = "closing"
  /\ board.fd => board.state # "closed"
  /\ ~board.fd => board.state = "closed" /\ board.tx = <<>> /\ board.grant = 0 /\ ~peer.up
  /\ board.state = "opening" =>
       /\ board.tx = <<>> /\ board.rx = <<>> /\ board.grant = 0
       /\ peer = [NoPeer EXCEPT !.life = board.life]
  /\ board.state = "peer_closed" => board.ended

(* The connection the board will have when it handles the queue *)
BoardLife == IF sync = "live" THEN board.life ELSE 0

(* The queue to the board: connection after connection, each opened before *)
(* anything is said on it, and only the board's own carries data           *)
DownInOrder ==
  sync # "board" =>
    /\ \A i \in DOMAIN down :
         /\ 1 <= down[i].life /\ BoardLife <= down[i].life /\ down[i].life <= host.life
         /\ host.life - down[i].life < GenCount
         /\ down[i].type = "open" =>
              /\ BoardLife < down[i].life /\ down[i].n = RxMax
              /\ down[i].life = host.life => host.state = "opening"
         /\ down[i].type \in {"send", "credit"} => down[i].life = BoardLife
         /\ (down[i].type = "close" /\ down[i].life = host.life) =>
              host.state \in {"closing", "closed"}
    /\ \A i, j \in DOMAIN down : i < j =>
         /\ down[i].life <= down[j].life
         /\ down[j].type = "open" => down[i].life < down[j].life
    /\ (sync = "live" /\ board.state = "opening") => \A i \in DOMAIN down : down[i].type # "send"

(* A host that does not share the board's connection has only asked for it *)
Untouched(state) ==
  host = FreshHost(host.life, state) /\ got = <<>> /\ put = 0
ApartUntouched ==
  (sync # "board" /\ ~Joined) => Untouched("closed") \/ Untouched("opening")

Shows(m, state) == m.type = "state" /\ m.state = state
Ended(b) == b.state = "closed" /\ b.rx = <<>> /\ b.grant = 0

(* "Opening" is the first the host hears of a connection, "closed" the last *)
OpeningFirst ==
  Joined =>
    /\ \A i \in DOMAIN up : (up[i].life = host.life /\ Shows(up[i], "opening")) =>
         /\ host.state = "opening"
         /\ \A j \in DOMAIN up : (j < i /\ up[j].life = host.life) => Shows(up[j], "opening")
    /\ board.state = "opening" =>
         /\ Untouched("opening")
         /\ \A i \in DOMAIN up : up[i].life = host.life => Shows(up[i], "opening")
ClosedLast ==
  Joined =>
    /\ \A i \in DOMAIN up : (up[i].life = host.life /\ Shows(up[i], "closed")) =>
         /\ Ended(board)
         /\ \A j \in DOMAIN up : (i < j /\ up[j].life = host.life) => Shows(up[j], "closed")
    /\ host.state = "closed" =>
         /\ Ended(board)
         /\ \A i \in DOMAIN up : up[i].life = host.life => Shows(up[i], "closed")

(* The credit of each side, as CreditConserved states it *)
HostCredit ==
  Talking =>
    board.credit + Total(up, "data", host.life) + Len(host.rx) + host.back
      + Total(down, "credit", host.life) = RxMax
BoardCredit ==
  (Talking /\ Streaming(board.state) /\ host.state # "closing") =>
    Len(board.tx) + board.grant + Total(up, "txcredit", host.life) + host.credit
      + Total(down, "send", host.life) = TxCap

(* The bodies of the messages of one type follow on each other from a      *)
(* place in the stream                                                     *)
Placed(q, type, life, from) ==
  \A i \in DOMAIN q : Carries(q[i], type, life) =>
    q[i].body = Bytes(life, from + Totals(q, type, life)[i - 1], q[i].n)

(* From the application to the peer *)
Sending ==
  /\ peer.got = Bytes(peer.life, 0, Len(peer.got))
  /\ board.tx = Bytes(peer.life, Len(peer.got), Len(board.tx))
  /\ (sync = "live" /\ Streaming(board.state)) =>
       /\ Len(board.tx) + Total(down, "send", board.life) <= TxCap
       /\ Placed(down, "send", board.life, Len(peer.got) + Len(board.tx))
       /\ Joined => Len(peer.got) + Len(board.tx) + Total(down, "send", board.life) = put

(* From the peer to the application *)
Handed == Len(got) + Len(host.rx)
Taken == Handed + Total(up, "data", host.life) + Len(board.rx)
Receiving ==
  /\ got \o host.rx = Bytes(host.life, 0, Handed)
  /\ Talking =>
       /\ Placed(up, "data", host.life, Handed)
       /\ board.rx = Bytes(host.life, Handed + Total(up, "data", host.life), Len(board.rx))
       /\ board.fd => peer.net = Bytes(host.life, Taken, Len(peer.net))
       /\ peer.up => Taken + Len(peer.net) = peer.sent

(* The peer's close, in the board, on its way and in the host: nothing     *)
(* comes after it                                                          *)
Drained(b) == b.rx = <<>> /\ (b.fd => b.ended)
PeerClosed ==
  /\ Talking =>
       /\ board.state = "peer_closed" => Taken = peer.sent /\ peer.fin
       /\ \A i \in DOMAIN up : (up[i].life = host.life /\ Shows(up[i], "peer_closed")) =>
            /\ Drained(board) /\ Taken = peer.sent /\ peer.fin
            /\ \A j \in DOMAIN up : i < j => ~Carries(up[j], "data", host.life)
       /\ host.state = "peer_closed" =>
            Drained(board) /\ \A i \in DOMAIN up : ~Carries(up[i], "data", host.life)
  /\ host.state = "peer_closed" => Handed = peer.sent /\ peer.fin

IInv ==
  /\ TypeOK /\ NearLives /\ BoardShape /\ DownInOrder /\ ApartUntouched
  /\ OpeningFirst /\ ClosedLast /\ HostCredit /\ BoardCredit
  /\ Sending /\ Receiving /\ PeerClosed

-----------------------------------------------------------------------------
(* Numbers *)

(* The constants, one by one *)
LEMMA Sizes ==
  /\ GenCount \in Nat \ {0} /\ RxMax \in Nat \ {0} /\ CreditBatch \in Nat \ {0}
  /\ RxCap \in Nat \ {0} /\ TxCap \in Nat \ {0} /\ GenCount > 1
BY SocketAssumption

(* Connections fewer than GenCount apart are told apart by generation *)
LEMMA GenerationTells ==
  ASSUME NEW a \in Nat, NEW b \in Nat, NEW top \in Nat, a <= top, b <= top,
         top - a < GenCount, top - b < GenCount
  PROVE  Gen(a) = Gen(b) <=> a = b
<1>1. GenCount \in Int /\ GenCount > 0
  BY Sizes
<1>2. ASSUME NEW c \in Nat
      PROVE  /\ c \div GenCount \in Int
             /\ c = GenCount * (c \div GenCount) + (c % GenCount)
  BY <1>1, SMT
<1>3. ASSUME Gen(a) = Gen(b) PROVE a = b
  <2> DEFINE i == a \div GenCount
             j == b \div GenCount
  <2>1. i \in Int /\ j \in Int /\ a - b = GenCount * (i - j)
    <3>1. a \in Int /\ b \in Int /\ a % GenCount = b % GenCount /\ a % GenCount \in Int
      BY <1>3, <1>1 DEF Gen
    <3>2. i \in Int /\ a = GenCount * i + (a % GenCount)
      BY <1>2
    <3>3. j \in Int /\ b = GenCount * j + (b % GenCount)
      BY <1>2
    <3> HIDE DEF i, j
    <3>4. a - b = GenCount * i - GenCount * j
      <4> DEFINE r == a % GenCount
                 p == GenCount * i
                 q == GenCount * j
      <4>1. p \in Int /\ q \in Int
        BY <1>1, <3>2, <3>3
      <4>2. a = p + r /\ b = q + r /\ r \in Int
        BY <3>1, <3>2, <3>3
      <4> HIDE DEF p, q, r
      <4>3. a - b = p - q
        BY <4>1, <4>2
      <4> QED BY <4>3 DEF p, q
    <3>5. GenCount * i - GenCount * j = GenCount * (i - j)
      BY <1>1, <3>2, <3>3, SMT
    <3> QED BY <3>2, <3>3, <3>4, <3>5
  <2> HIDE DEF i, j
  <2>2. i - j = 0
    <3>1. ASSUME i - j >= 1 PROVE GenCount * (i - j) >= GenCount
      BY <3>1, <1>1, <2>1, SMT
    <3>2. ASSUME i - j <= -1 PROVE GenCount * (i - j) <= -GenCount
      BY <3>2, <1>1, <2>1, SMT
    <3>3. a - b < GenCount /\ b - a < GenCount
      BY <1>1
    <3> QED BY <3>1, <3>2, <3>3, <2>1, <1>1
  <2>3. GenCount * 0 = 0
    BY <1>1
  <2> QED BY <2>1, <2>2, <2>3
<1> QED BY <1>3 DEF Gen

(* A set of numbers has a least one *)
LEMMA LeastElement ==
  ASSUME NEW S \in SUBSET Nat, S # {}
  PROVE  \E n \in S : \A k \in S : n <= k
<1> DEFINE less == {p \in Nat \X Nat : p[1] < p[2]}
<1>1. IsWellFoundedOn(less, Nat)
  BY NatLessThanWellFounded, Zenon DEF OpToRel
<1>2. \A k, n \in S : k < n => <<k, n>> \in less
  OBVIOUS
<1> HIDE DEF less
<1>3. PICK n \in S : \A k \in S : ~(<<k, n>> \in less)
  <2>1. S \subseteq Nat
    OBVIOUS
  <2> QED BY <1>1, <2>1, WFMin, Zenon
<1>4. \A k \in S : ~(k < n)
  BY <1>2, <1>3
<1>5. n \in Nat /\ \A k \in S : k \in Nat
  OBVIOUS
<1> QED BY <1>4, <1>5

-----------------------------------------------------------------------------
(* What the messages of a queue carry, message by message *)

Messages == ToBoard \cup ToHost
Weight(m, type, life) == IF Carries(m, type, life) THEN m.n ELSE 0
Weights(q, type, life) == [i \in 1..Len(q) |-> Weight(q[i], type, life)]

(* f is the running total of w *)
Adds(w, n, f) ==
  /\ f \in [0..n -> Nat] /\ f[0] = 0
  /\ \A i \in 1..n : f[i] = f[i - 1] + w[i]

(* There is a running total *)
LEMMA AddsExists ==
  ASSUME NEW n \in Nat, NEW w \in [1..n -> Nat]
  PROVE  \E f : Adds(w, n, f)
<1> DEFINE S == {m \in Nat : m <= n /\ ~ \E f : Adds(w, m, f)}
<1>1. CASE S = {}
  <2>1. n \notin S
    BY <1>1
  <2> QED BY <2>1
<1>2. CASE S # {}
  <2>1. PICK m \in S : \A k \in S : m <= k
    <3>1. S \in SUBSET Nat
      OBVIOUS
    <3> HIDE DEF S
    <3> QED BY <3>1, <1>2, LeastElement
  <2>2. m \in Nat /\ m <= n /\ ~ \E f : Adds(w, m, f)
    BY <2>1
  <2>3. m # 0
    <3>1. Adds(w, 0, [i \in 0..0 |-> 0])
      BY DEF Adds
    <3> QED BY <3>1, <2>2
  <2>4. m - 1 \in Nat /\ m - 1 <= n /\ m - 1 \notin S
    BY <2>1, <2>2, <2>3
  <2>5. PICK f : Adds(w, m - 1, f)
    BY <2>4
  <2> DEFINE g == [i \in 0..m |-> IF i < m THEN f[i] ELSE f[m - 1] + w[m]]
  <2>6. m \in 1..n /\ w[m] \in Nat
    BY <2>2, <2>3
  <2>7. Adds(w, m, g)
    <3>1. f \in [0..(m - 1) -> Nat] /\ f[0] = 0
          /\ \A i \in 1..(m - 1) : f[i] = f[i - 1] + w[i]
      BY <2>5 DEF Adds
    <3>2. g \in [0..m -> Nat]
      <4>1. \A i \in 0..m : (IF i < m THEN f[i] ELSE f[m - 1] + w[m]) \in Nat
        BY <3>1, <2>6
      <4> QED BY <4>1
    <3>3. g[0] = 0
      BY <3>1, <2>6
    <3>4. ASSUME NEW i \in 1..m PROVE g[i] = g[i - 1] + w[i]
      <4>1. i - 1 \in 0..m /\ i - 1 < m /\ i \in 0..m
        OBVIOUS
      <4>2. g[i - 1] = f[i - 1]
        BY <4>1
      <4>3. CASE i < m
        <5>1. g[i] = f[i] /\ i \in 1..(m - 1)
          BY <4>3, <4>1
        <5> QED BY <5>1, <4>2, <3>1
      <4>4. CASE i = m
        <5>1. g[i] = f[m - 1] + w[m]
          BY <4>4, <4>1
        <5> QED BY <5>1, <4>2, <4>4
      <4> QED BY <4>3, <4>4
    <3> HIDE DEF g
    <3> QED BY <3>2, <3>3, <3>4 DEF Adds
  <2> QED BY <2>2, <2>7
<1> QED BY <1>1, <1>2

(* and only one *)
LEMMA AddsUnique ==
  ASSUME NEW n \in Nat, NEW w, NEW f, NEW g, Adds(w, n, f), Adds(w, n, g)
  PROVE  f = g
<1> DEFINE S == {m \in 0..n : f[m] # g[m]}
<1>0. /\ f \in [0..n -> Nat] /\ g \in [0..n -> Nat] /\ f[0] = 0 /\ g[0] = 0
      /\ \A i \in 1..n : f[i] = f[i - 1] + w[i] /\ g[i] = g[i - 1] + w[i]
  BY DEF Adds
<1>1. CASE S = {}
  <2>1. \A i \in 0..n : f[i] = g[i]
    BY <1>1, Zenon
  <2> HIDE DEF S
  <2> QED BY <1>0, <2>1
<1>2. CASE S # {}
  <2>1. PICK m \in S : \A k \in S : m <= k
    <3>1. S \in SUBSET Nat
      OBVIOUS
    <3> HIDE DEF S
    <3> QED BY <3>1, <1>2, LeastElement
  <2>2. m \in 0..n /\ f[m] # g[m]
    BY <2>1
  <2>3. m \in 1..n
    BY <2>2, <1>0
  <2>4. m - 1 \in 0..n /\ ~(m <= m - 1)
    BY <2>3
  <2>5. f[m - 1] = g[m - 1]
    BY <2>4, <2>1
  <2> QED BY <2>2, <2>3, <2>5, <1>0
<1> QED BY <1>1, <1>2

(* Totals is it *)
LEMMA TotalsAdds ==
  ASSUME NEW q \in Seq(Messages), NEW type, NEW life
  PROVE  Adds(Weights(q, type, life), Len(q), Totals(q, type, life))
<1> DEFINE n == Len(q)
           w == Weights(q, type, life)
           Rec(f) == f = [i \in 0..n |-> IF i = 0 THEN 0
                            ELSE f[i - 1] + (IF Carries(q[i], type, life) THEN q[i].n ELSE 0)]
<1>1. n \in Nat /\ \A i \in 1..n : q[i] \in Messages
  OBVIOUS
<1>2. \A m \in Messages : m.n \in Nat
  BY DEF Messages, ToBoard, ToHost
<1>3. w \in [1..n -> Nat]
  BY <1>1, <1>2 DEF Weights, Weight
<1>4. \A i \in 1..n : w[i] = (IF Carries(q[i], type, life) THEN q[i].n ELSE 0)
  BY <1>1 DEF Weights, Weight
<1> HIDE DEF n, w
<1>5. ASSUME NEW f, Adds(w, n, f) PROVE Rec(f)
  <2>1. /\ f \in [0..n -> Nat] /\ f[0] = 0
        /\ \A i \in 1..n : f[i] = f[i - 1] + w[i]
    BY <1>5 DEF Adds
  <2>2. f = [i \in 0..n |-> f[i]]
    BY <2>1
  <2>3. \A i \in 0..n : f[i] = IF i = 0 THEN 0
            ELSE f[i - 1] + (IF Carries(q[i], type, life) THEN q[i].n ELSE 0)
    <3> TAKE i \in 0..n
    <3>1. CASE i = 0
      BY <3>1, <2>1
    <3>2. CASE i # 0
      <4>1. i \in 1..n
        BY <3>2, <1>1
      <4> QED BY <4>1, <3>2, <2>1, <1>4
    <3> QED BY <3>1, <3>2
  <2> QED BY <2>2, <2>3
<1>6. ASSUME NEW f, Rec(f) PROVE Adds(w, n, f)
  <2> DEFINE S == {m \in 0..n : f[m] \notin Nat}
  <2>1. /\ DOMAIN f = 0..n /\ f = [i \in 0..n |-> f[i]]
        /\ \A i \in 0..n : f[i] = IF i = 0 THEN 0
              ELSE f[i - 1] + (IF Carries(q[i], type, life) THEN q[i].n ELSE 0)
    BY <1>6
  <2>2. f[0] = 0
    BY <2>1, <1>1
  <2>3. \A i \in 1..n : f[i] = f[i - 1] + w[i]
    <3> TAKE i \in 1..n
    <3>1. i \in 0..n /\ i # 0
      BY <1>1
    <3>2. f[i] = f[i - 1] + (IF Carries(q[i], type, life) THEN q[i].n ELSE 0)
      BY <2>1, <3>1, Zenon
    <3> QED BY <3>2, <1>4
  <2>4. S = {}
    <3> SUFFICES ASSUME S # {} PROVE FALSE
      OBVIOUS
    <3>1. PICK m \in S : \A k \in S : m <= k
      <4>1. S \in SUBSET Nat
        OBVIOUS
      <4> HIDE DEF S
      <4> QED BY <4>1, LeastElement
    <3>2. m \in 1..n /\ f[m] \notin Nat
      BY <3>1, <2>2
    <3>3. m - 1 \in 0..n /\ ~(m <= m - 1)
      BY <3>2, <1>1
    <3>4. f[m - 1] \in Nat
      BY <3>3, <3>1
    <3> QED BY <3>2, <3>4, <2>3, <1>3
  <2>5. f \in [0..n -> Nat]
    BY <2>1, <2>4
  <2> QED BY <2>2, <2>3, <2>5 DEF Adds
<1>7. PICK f : Adds(w, n, f)
  BY <1>1, <1>3, AddsExists
<1>8. Totals(q, type, life) = CHOOSE g : Rec(g)
  BY DEF Totals, n
<1>9. Rec(CHOOSE g : Rec(g))
  <2>1. Rec(f)
    BY <1>7, <1>5
  <2> HIDE DEF Rec
  <2> QED BY <2>1
<1> HIDE DEF Rec
<1>10. Adds(w, n, Totals(q, type, life))
  BY <1>6, <1>8, <1>9
<1> QED BY <1>10 DEF w, n

(* The messages of either queue *)
LEMMA MessageFacts ==
  /\ \A m \in Messages : m.n \in Nat /\ m.life \in Nat /\ m.body \in Seq(Byte)
  /\ \A m \in Messages : \A type, life : Weight(m, type, life) \in Nat
  /\ Seq(ToBoard) \subseteq Seq(Messages) /\ Seq(ToHost) \subseteq Seq(Messages)
<1>1. \A m \in Messages : m.n \in Nat /\ m.life \in Nat /\ m.body \in Seq(Byte)
  BY DEF Messages, ToBoard, ToHost
<1>2. \A m \in Messages : \A type, life : Weight(m, type, life) \in Nat
  BY <1>1 DEF Weight
<1>3. ASSUME NEW q \in Seq(ToBoard) \cup Seq(ToHost) PROVE q \in Seq(Messages)
  <2>1. \A m \in ToBoard \cup ToHost : m \in Messages
    BY DEF Messages
  <2>2. Len(q) \in Nat /\ q \in [1..Len(q) -> Messages]
    BY <2>1
  <2> QED BY <2>2
<1> QED BY <1>1, <1>2, <1>3

(* The totals, one message after the other *)
LEMMA TotalsFacts ==
  ASSUME NEW q \in Seq(Messages), NEW type, NEW life
  PROVE  /\ Totals(q, type, life) \in [0..Len(q) -> Nat]
         /\ Totals(q, type, life)[0] = 0
         /\ \A i \in 1..Len(q) : Totals(q, type, life)[i] =
              Totals(q, type, life)[i - 1] + Weight(q[i], type, life)
         /\ Total(q, type, life) \in Nat
<1>1. Adds(Weights(q, type, life), Len(q), Totals(q, type, life))
  BY TotalsAdds
<1>2. \A i \in 1..Len(q) : Weights(q, type, life)[i] = Weight(q[i], type, life)
  BY DEF Weights
<1>3. Len(q) \in 0..Len(q)
  OBVIOUS
<1> QED BY <1>1, <1>2, <1>3 DEF Adds, Total

(* A queue whose running totals are known *)
LEMMA TotalsAre ==
  ASSUME NEW q \in Seq(Messages), NEW type, NEW life, NEW f,
         f \in [0..Len(q) -> Nat], f[0] = 0,
         \A i \in 1..Len(q) : f[i] = f[i - 1] + Weight(q[i], type, life)
  PROVE  Totals(q, type, life) = f
<1>1. Adds(Weights(q, type, life), Len(q), Totals(q, type, life))
  BY TotalsAdds
<1>2. \A i \in 1..Len(q) : Weights(q, type, life)[i] = Weight(q[i], type, life)
  BY DEF Weights
<1>3. Adds(Weights(q, type, life), Len(q), f)
  BY <1>2 DEF Adds
<1>4. Len(q) \in Nat
  OBVIOUS
<1> QED BY <1>1, <1>3, <1>4, AddsUnique

LEMMA TotalEmpty ==
  ASSUME NEW type, NEW life
  PROVE  Total(<<>>, type, life) = 0
<1>1. <<>> \in Seq(Messages) /\ Len(<<>>) = 0
  OBVIOUS
<1> QED BY <1>1, TotalsFacts DEF Total

(* One message more *)
LEMMA TotalAppend ==
  ASSUME NEW q \in Seq(Messages), NEW m \in Messages, NEW type, NEW life
  PROVE  /\ \A i \in 0..Len(q) : Totals(Append(q, m), type, life)[i] = Totals(q, type, life)[i]
         /\ Total(Append(q, m), type, life) = Total(q, type, life) + Weight(m, type, life)
<1> DEFINE n == Len(q)
           r == Append(q, m)
           T == Totals(r, type, life)
           f == [i \in 0..n |-> T[i]]
<1>1. r \in Seq(Messages) /\ Len(r) = n + 1 /\ n \in Nat /\ r[n + 1] = m
      /\ \A i \in 1..n : r[i] = q[i]
  OBVIOUS
<1> HIDE DEF r
<1>2. /\ T \in [0..Len(r) -> Nat] /\ T[0] = 0
      /\ \A i \in 1..Len(r) : T[i] = T[i - 1] + Weight(r[i], type, life)
  BY <1>1, TotalsFacts
<1> HIDE DEF T
<1>3. \A i \in 0..n : i \in 0..Len(r)
  BY <1>1
<1>4. f \in [0..n -> Nat] /\ f[0] = 0
  BY <1>1, <1>2, <1>3
<1>5. \A i \in 1..n : f[i] = f[i - 1] + Weight(q[i], type, life)
  <2> TAKE i \in 1..n
  <2>1. i \in 0..n /\ i - 1 \in 0..n /\ i \in 1..Len(r)
    BY <1>1
  <2>2. T[i] = T[i - 1] + Weight(r[i], type, life)
    BY <1>2, <2>1
  <2>3. f[i] = T[i] /\ f[i - 1] = T[i - 1] /\ r[i] = q[i]
    BY <2>1, <1>1
  <2> QED BY <2>2, <2>3
<1>6. Totals(q, type, life) = f
  <2> HIDE DEF f
  <2> QED BY <1>4, <1>5, TotalsAre DEF n
<1>7. T[n + 1] = T[n] + Weight(m, type, life)
  <2>1. n + 1 \in 1..Len(r) /\ n + 1 - 1 = n
    BY <1>1
  <2> QED BY <2>1, <1>2, <1>1
<1>8. n \in 0..n
  BY <1>1
<1>9. Total(r, type, life) = T[n + 1] /\ Total(q, type, life) = T[n]
  BY <1>1, <1>6, <1>8 DEF Total, T
<1> QED BY <1>6, <1>7, <1>9 DEF T, r

(* One message fewer *)
LEMMA TotalTail ==
  ASSUME NEW q \in Seq(Messages), q # <<>>, NEW type, NEW life
  PROVE  /\ \A i \in 0..(Len(q) - 1) : Totals(Tail(q), type, life)[i] =
              Totals(q, type, life)[i + 1] - Weight(Head(q), type, life)
         /\ Total(q, type, life) = Weight(Head(q), type, life) + Total(Tail(q), type, life)
<1> DEFINE n == Len(q) - 1
           r == Tail(q)
           h == Weight(Head(q), type, life)
           T == Totals(q, type, life)
           f == [i \in 0..n |-> T[i + 1] - h]
<1>1. /\ n \in Nat /\ Len(q) = n + 1 /\ q[1] = Head(q) /\ Head(q) \in Messages
      /\ r \in Seq(Messages) /\ Len(r) = n
      /\ \A i \in 1..n : r[i] = q[i + 1]
  OBVIOUS
<1>2. /\ T \in [0..(n + 1) -> Nat] /\ T[0] = 0
      /\ \A i \in 1..(n + 1) : T[i] = T[i - 1] + Weight(q[i], type, life)
  BY <1>1, TotalsFacts
<1>3. h \in Nat /\ \A i \in 1..(n + 1) : Weight(q[i], type, life) \in Nat
  <2>1. \A i \in 1..(n + 1) : q[i] \in Messages
    BY <1>1
  <2> QED BY <2>1, <1>1, MessageFacts
<1>4. Total(q, type, life) = T[n + 1]
  BY <1>1 DEF Total
<1> HIDE DEF n, r, h, T
<1>5. T[1] = h
  <2>1. 1 \in 1..(n + 1) /\ 1 - 1 = 0
    BY <1>1
  <2>2. T[1] = T[0] + Weight(q[1], type, life)
    BY <2>1, <1>2
  <2> QED BY <2>2, <1>1, <1>2, <1>3 DEF h
<1>6. f[0] = 0
  BY <1>1, <1>3, <1>5
<1>7. \A i \in 1..n : f[i] = f[i - 1] + Weight(r[i], type, life)
  <2> TAKE i \in 1..n
  <2>1. i + 1 \in 1..(n + 1) /\ i + 1 \in 0..(n + 1) /\ i \in 0..(n + 1) /\ (i + 1) - 1 = i
        /\ i \in 0..n /\ i - 1 \in 0..n /\ (i - 1) + 1 = i
    BY <1>1
  <2>2. T[i + 1] = T[i] + Weight(q[i + 1], type, life)
    BY <2>1, <1>2
  <2>3. f[i] = T[i + 1] - h /\ f[i - 1] = T[i] - h /\ r[i] = q[i + 1]
    BY <2>1, <1>1
  <2>4. T[i] \in Nat /\ Weight(q[i + 1], type, life) \in Nat
    BY <2>1, <1>2, <1>3
  <2> QED BY <2>2, <2>3, <2>4, <1>3
<1>8. \A i \in 0..n : f[i] \in Nat
  <2> DEFINE S == {i \in 0..n : f[i] \notin Nat}
  <2> SUFFICES ASSUME S # {} PROVE FALSE
    BY Zenon
  <2>1. PICK i \in S : \A k \in S : i <= k
    <3>1. S \in SUBSET Nat
      BY <1>1
    <3> HIDE DEF S
    <3> QED BY <3>1, LeastElement
  <2>2. i \in 0..n /\ f[i] \notin Nat
    BY <2>1, Zenon
  <2> HIDE DEF f
  <2>3. i \in 1..n
    BY <2>2, <1>6
  <2>4. i - 1 \in 0..n /\ ~(i <= i - 1)
    BY <2>3, <1>1
  <2>5. f[i - 1] \in Nat
    BY <2>4, <2>1
  <2>6. Weight(r[i], type, life) \in Nat
    <3>1. i + 1 \in 1..(n + 1) /\ r[i] = q[i + 1]
      BY <2>3, <1>1
    <3> QED BY <3>1, <1>3
  <2> QED BY <2>2, <2>3, <2>5, <2>6, <1>7
<1>9. f \in [0..n -> Nat]
  BY <1>8
<1>10. Totals(r, type, life) = f
  <2> HIDE DEF f
  <2>1. r \in Seq(Messages) /\ Len(r) = n
    BY <1>1
  <2> QED BY <1>6, <1>7, <1>9, <2>1, TotalsAre
<1>11. Total(r, type, life) = T[n + 1] - h
  <2>1. n \in 0..n
    BY <1>1
  <2> QED BY <2>1, <1>1, <1>10 DEF Total
<1>12. T[n + 1] \in Nat
  <2>1. n + 1 \in 0..(n + 1)
    BY <1>1
  <2> QED BY <2>1, <1>2
<1>13. Total(q, type, life) = h + Total(r, type, life)
  BY <1>4, <1>11, <1>12, <1>3
<1>14. \A i \in 0..n : Totals(r, type, life)[i] = T[i + 1] - h
  BY <1>10
<1> QED BY <1>13, <1>14 DEF n, r, h, T

(* No such message *)
LEMMA TotalNone ==
  ASSUME NEW q \in Seq(Messages), NEW type, NEW life,
         \A i \in DOMAIN q : ~Carries(q[i], type, life)
  PROVE  Total(q, type, life) = 0
<1> DEFINE f == [i \in 0..Len(q) |-> 0]
<1>1. f \in [0..Len(q) -> Nat] /\ f[0] = 0
      /\ \A i \in 1..Len(q) : f[i] = f[i - 1] + Weight(q[i], type, life)
  BY DEF Weight
<1>2. f[Len(q)] = 0
  OBVIOUS
<1> HIDE DEF f
<1> QED BY <1>1, <1>2, TotalsAre DEF Total

-----------------------------------------------------------------------------
(* Stretches of a stream *)

LEMMA Associative ==
  ASSUME NEW s \in Seq(Byte), NEW t \in Seq(Byte), NEW u \in Seq(Byte)
  PROVE  (s \o t) \o u = s \o (t \o u)
OBVIOUS

LEMMA LenJoin ==
  ASSUME NEW s \in Seq(Byte), NEW t \in Seq(Byte)
  PROVE  /\ s \o t \in Seq(Byte) /\ Len(s \o t) = Len(s) + Len(t)
         /\ Len(s) \in Nat /\ Len(t) \in Nat
         /\ \A i \in 1..Len(s) : (s \o t)[i] = s[i]
         /\ \A i \in 1..Len(t) : (s \o t)[Len(s) + i] = t[i]
OBVIOUS

(* Sequences of one length that agree everywhere *)
LEMMA SameBytes ==
  ASSUME NEW s \in Seq(Byte), NEW t \in Seq(Byte), Len(s) = Len(t),
         \A i \in 1..Len(s) : s[i] = t[i]
  PROVE  s = t
OBVIOUS

LEMMA BytesFacts ==
  ASSUME NEW life \in Nat, NEW from \in Nat, NEW n \in Nat
  PROVE  /\ Bytes(life, from, n) \in Seq(Byte) /\ Len(Bytes(life, from, n)) = n
         /\ \A i \in 1..n : Bytes(life, from, n)[i] = [life |-> life, k |-> from + i]
BY DEF Bytes, Byte

LEMMA NoBytes ==
  ASSUME NEW life, NEW from
  PROVE  Bytes(life, from, 0) = <<>>
BY DEF Bytes

(* One sequence after another *)
Follow(s, t, u) == s \o t = u

(* One stretch after the other *)
LEMMA BytesJoin ==
  ASSUME NEW life \in Nat, NEW from \in Nat, NEW n \in Nat, NEW m \in Nat,
         NEW mid, NEW all, mid = from + n, all = n + m,
         NEW s, NEW t, s = Bytes(life, from, n), t = Bytes(life, mid, m)
  PROVE  Follow(s, t, Bytes(life, from, all))
<1> DEFINE u == Bytes(life, from, all)
<1>0. mid \in Nat /\ all \in Nat
  OBVIOUS
<1>1. /\ s \in Seq(Byte) /\ Len(s) = n
      /\ \A i \in 1..n : s[i] = [life |-> life, k |-> from + i]
  BY BytesFacts
<1>2. /\ t \in Seq(Byte) /\ Len(t) = m
      /\ \A i \in 1..m : t[i] = [life |-> life, k |-> mid + i]
  <2>1. ASSUME NEW c \in Nat
        PROVE  /\ Bytes(life, c, m) \in Seq(Byte) /\ Len(Bytes(life, c, m)) = m
               /\ \A i \in 1..m : Bytes(life, c, m)[i] = [life |-> life, k |-> c + i]
    BY BytesFacts
  <2> QED BY <1>0, <2>1
<1>3. /\ u \in Seq(Byte) /\ Len(u) = all
      /\ \A i \in 1..all : u[i] = [life |-> life, k |-> from + i]
  BY <1>0, BytesFacts
<1> HIDE DEF u
<1>4. /\ s \o t \in Seq(Byte) /\ Len(s \o t) = all
      /\ \A i \in 1..n : (s \o t)[i] = s[i]
      /\ \A i \in 1..m : (s \o t)[n + i] = t[i]
  <2> DEFINE w == s \o t
  <2>1. /\ w \in Seq(Byte) /\ Len(w) = Len(s) + Len(t)
        /\ \A i \in 1..Len(s) : w[i] = s[i]
        /\ \A i \in 1..Len(t) : w[Len(s) + i] = t[i]
    BY <1>1, <1>2, LenJoin
  <2> HIDE DEF w
  <2>2. /\ w \in Seq(Byte) /\ Len(w) = all
        /\ \A i \in 1..n : w[i] = s[i]
        /\ \A i \in 1..m : w[n + i] = t[i]
    BY <1>1, <1>2, <2>1
  <2> QED BY <2>2 DEF w
<1>5. ASSUME NEW i \in 1..all PROVE (s \o t)[i] = u[i]
  <2>1. CASE i <= n
    <3>1. i \in 1..n
      BY <2>1, <1>0
    <3> QED BY <3>1, <1>1, <1>3, <1>4
  <2>2. CASE i > n
    <3>1. i - n \in 1..m /\ mid + (i - n) = from + i /\ n + (i - n) = i
      BY <2>2, <1>0
    <3>2. (s \o t)[i] = t[i - n]
      BY <3>1, <1>4
    <3> QED BY <3>1, <3>2, <1>2, <1>3
  <2>3. i <= n \/ i > n
    BY <1>0
  <2> QED BY <2>1, <2>2, <2>3
<1>6. s \o t = u
  BY <1>3, <1>4, <1>5, SameBytes
<1> QED BY <1>6 DEF Follow, u

(* What Parts and Rest take a sequence apart into *)
LEMMA PartFacts ==
  ASSUME NEW s \in Seq(Byte), NEW max \in Nat, NEW part \in Parts(s, max)
  PROVE  /\ part \in Seq(Byte) /\ Len(part) \in 1..Len(s) /\ Len(part) <= max
         /\ Len(part) \in Nat /\ Len(Rest(s, part)) \in Nat
         /\ \A i \in 1..Len(part) : part[i] = s[i]
         /\ Rest(s, part) \in Seq(Byte) /\ Len(Rest(s, part)) = Len(s) - Len(part)
         /\ \A i \in 1..(Len(s) - Len(part)) : Rest(s, part)[i] = s[Len(part) + i]
<1>1. PICK n \in 1..(IF Len(s) < max THEN Len(s) ELSE max) : part = SubSeq(s, 1, n)
  BY DEF Parts
<1>2. n \in 1..Len(s) /\ n <= max /\ Len(s) \in Nat /\ n \in Nat
  BY <1>1
<1>3. part \in Seq(Byte) /\ Len(part) = n /\ \A i \in 1..n : part[i] = s[i]
  BY <1>1, <1>2
<1> DEFINE r == SubSeq(s, n + 1, Len(s))
<1>4. r \in Seq(Byte) /\ Len(r) = Len(s) - n /\ \A i \in 1..(Len(s) - n) : r[i] = s[n + i]
  BY <1>2
<1>5. Rest(s, part) = r
  BY <1>3 DEF Rest
<1>6. Len(s) - n \in Nat
  <2> DEFINE L == Len(s)
  <2>1. L \in Nat /\ n \in 1..L
    BY <1>2
  <2> HIDE DEF L
  <2>2. L - n \in Nat
    BY <2>1
  <2> QED BY <2>2 DEF L
<1> HIDE DEF r
<1>7. Len(part) \in 1..Len(s) /\ Len(part) <= max /\ Len(part) \in Nat
  BY <1>2, <1>3
<1>8. Rest(s, part) \in Seq(Byte) /\ Len(Rest(s, part)) = Len(s) - Len(part)
      /\ Len(Rest(s, part)) \in Nat
  BY <1>3, <1>4, <1>5, <1>6
<1>9. \A i \in 1..(Len(s) - Len(part)) : Rest(s, part)[i] = s[Len(part) + i]
  BY <1>3, <1>4, <1>5
<1> QED BY <1>3, <1>7, <1>8, <1>9

(* The two together are the sequence again *)
LEMMA PartJoin ==
  ASSUME NEW s \in Seq(Byte), NEW max \in Nat, NEW part \in Parts(s, max)
  PROVE  part \o Rest(s, part) = s
<1> DEFINE r == Rest(s, part)
           n == Len(part)
<1>1. /\ part \in Seq(Byte) /\ n \in 1..Len(s) /\ \A i \in 1..n : part[i] = s[i]
      /\ r \in Seq(Byte) /\ Len(r) = Len(s) - n
      /\ \A i \in 1..(Len(s) - n) : r[i] = s[n + i]
  BY PartFacts
<1>2. Len(s) \in Nat /\ Len(part) = n
  OBVIOUS
<1> HIDE DEF r, n
<1>3. /\ part \o r \in Seq(Byte) /\ Len(part \o r) = Len(s)
      /\ \A i \in 1..n : (part \o r)[i] = part[i]
      /\ \A i \in 1..Len(r) : (part \o r)[n + i] = r[i]
  <2>1. n + (Len(s) - n) = Len(s)
    BY <1>1, <1>2
  <2> QED BY <2>1, <1>1, <1>2, LenJoin
<1>4. ASSUME NEW i \in 1..Len(s) PROVE (part \o r)[i] = s[i]
  <2>1. CASE i <= n
    <3>1. i \in 1..n
      BY <2>1, <1>1, <1>2
    <3> QED BY <3>1, <1>1, <1>3
  <2>2. CASE i > n
    <3>1. i - n \in 1..(Len(s) - n) /\ n + (i - n) = i
      BY <2>2, <1>1, <1>2
    <3>2. (part \o r)[i] = r[i - n]
      BY <3>1, <1>1, <1>3
    <3> QED BY <3>1, <3>2, <1>1
  <2>3. i <= n \/ i > n
    BY <1>1, <1>2
  <2> QED BY <2>1, <2>2, <2>3
<1>5. part \o r = s
  BY <1>3, <1>4, SameBytes
<1> QED BY <1>5 DEF r

(* A stretch taken apart gives two *)
LEMMA BytesPart ==
  ASSUME NEW life \in Nat, NEW from \in Nat, NEW s \in Seq(Byte), s = Bytes(life, from, Len(s)),
         NEW max \in Nat, NEW part \in Parts(s, max)
  PROVE  /\ part = Bytes(life, from, Len(part))
         /\ Rest(s, part) = Bytes(life, from + Len(part), Len(Rest(s, part)))
<1> DEFINE r == Rest(s, part)
           n == Len(part)
           a == Bytes(life, from, n)
           b == Bytes(life, from + n, Len(r))
<1>1. /\ part \in Seq(Byte) /\ n \in 1..Len(s) /\ \A i \in 1..n : part[i] = s[i]
      /\ r \in Seq(Byte) /\ Len(r) = Len(s) - n
      /\ \A i \in 1..(Len(s) - n) : r[i] = s[n + i]
  BY PartFacts
<1>2. Len(s) \in Nat /\ Len(part) = n /\ n \in Nat /\ Len(r) \in Nat /\ from + n \in Nat
  BY <1>1
<1>3. \A i \in 1..Len(s) : s[i] = [life |-> life, k |-> from + i]
  <2> DEFINE m == Len(s)
  <2>1. m \in Nat /\ s = Bytes(life, from, m)
    BY <1>2
  <2> HIDE DEF m
  <2>2. \A i \in 1..m : s[i] = [life |-> life, k |-> from + i]
    BY <2>1, BytesFacts
  <2> QED BY <2>2 DEF m
<1>4. a \in Seq(Byte) /\ Len(a) = n /\ \A i \in 1..n : a[i] = [life |-> life, k |-> from + i]
  BY <1>2, BytesFacts
<1>5. b \in Seq(Byte) /\ Len(b) = Len(r)
      /\ \A i \in 1..Len(r) : b[i] = [life |-> life, k |-> (from + n) + i]
  BY <1>2, BytesFacts
<1> HIDE DEF r, n, a, b
<1>6. part = a
  <2>1. \A i \in 1..n : part[i] = a[i]
    BY <1>1, <1>3, <1>4
  <2> QED BY <2>1, <1>1, <1>2, <1>4
<1>7. r = b
  <2>1. ASSUME NEW i \in 1..Len(r) PROVE r[i] = b[i]
    <3>1. n + i \in 1..Len(s) /\ from + (n + i) = (from + n) + i /\ i \in 1..(Len(s) - n)
      BY <1>1, <1>2
    <3> QED BY <3>1, <1>1, <1>3, <1>5
  <2> QED BY <2>1, <1>1, <1>5, SameBytes
<1> QED BY <1>6, <1>7 DEF r, n, a, b

-----------------------------------------------------------------------------
(* Bodies that follow on each other *)

LEMMA PlacedNone ==
  ASSUME NEW q, NEW type, NEW life, NEW from, \A i \in DOMAIN q : ~Carries(q[i], type, life)
  PROVE  Placed(q, type, life, from)
BY DEF Placed

(* One message more, where the last ended *)
LEMMA PlacedAppend ==
  ASSUME NEW q \in Seq(Messages), NEW m \in Messages, NEW type, NEW life, NEW from \in Nat,
         Placed(q, type, life, from),
         Carries(m, type, life) => m.body = Bytes(life, from + Total(q, type, life), m.n)
  PROVE  Placed(Append(q, m), type, life, from)
<1> DEFINE r == Append(q, m)
<1>1. r \in Seq(Messages) /\ Len(r) = Len(q) + 1 /\ Len(q) \in Nat /\ r[Len(q) + 1] = m
      /\ \A i \in 1..Len(q) : r[i] = q[i]
  OBVIOUS
<1>2. \A i \in 0..Len(q) : Totals(r, type, life)[i] = Totals(q, type, life)[i]
  BY TotalAppend
<1> HIDE DEF r
<1>3. ASSUME NEW i \in DOMAIN r, Carries(r[i], type, life)
      PROVE  r[i].body = Bytes(life, from + Totals(r, type, life)[i - 1], r[i].n)
  <2>1. i \in 1..(Len(q) + 1) /\ i - 1 \in 0..Len(q)
    BY <1>1
  <2>2. Totals(r, type, life)[i - 1] = Totals(q, type, life)[i - 1]
    BY <1>2, <2>1
  <2>3. CASE i <= Len(q)
    <3>1. i \in DOMAIN q /\ r[i] = q[i]
      BY <2>1, <2>3, <1>1
    <3> QED BY <3>1, <2>2, <1>3 DEF Placed
  <2>4. CASE i = Len(q) + 1
    <3>1. r[i] = m /\ i - 1 = Len(q)
      BY <2>4, <1>1
    <3> QED BY <3>1, <2>2, <1>3 DEF Total
  <2> QED BY <2>1, <2>3, <2>4
<1>4. Placed(r, type, life, from)
  BY <1>3 DEF Placed
<1> QED BY <1>4 DEF r

(* The first message, and those after it *)
LEMMA PlacedTail ==
  ASSUME NEW q \in Seq(Messages), q # <<>>, NEW type, NEW life, NEW from \in Nat,
         Placed(q, type, life, from)
  PROVE  /\ Carries(Head(q), type, life) => Head(q).body = Bytes(life, from, Head(q).n)
         /\ Placed(Tail(q), type, life, from + Weight(Head(q), type, life))
<1> DEFINE r == Tail(q)
           h == Weight(Head(q), type, life)
<1>1. /\ 1 \in DOMAIN q /\ q[1] = Head(q) /\ Head(q) \in Messages
      /\ r \in Seq(Messages) /\ Len(r) = Len(q) - 1
      /\ \A i \in DOMAIN r : i \in 1..Len(r) /\ i + 1 \in DOMAIN q /\ r[i] = q[i + 1]
  OBVIOUS
<1>2. \A i \in 0..(Len(q) - 1) : Totals(r, type, life)[i] = Totals(q, type, life)[i + 1] - h
  BY TotalTail
<1>3. Totals(q, type, life)[0] = 0 /\ Totals(q, type, life) \in [0..Len(q) -> Nat]
  BY TotalsFacts
<1>4. h \in Nat
  BY <1>1, MessageFacts
<1> HIDE DEF r, h
<1>5. ASSUME Carries(Head(q), type, life) PROVE Head(q).body = Bytes(life, from, Head(q).n)
  <2>1. Head(q).body = Bytes(life, from + Totals(q, type, life)[1 - 1], Head(q).n)
    BY <1>1, <1>5 DEF Placed
  <2>2. from + Totals(q, type, life)[1 - 1] = from
    BY <1>3
  <2> QED BY <2>1, <2>2
<1>6. ASSUME NEW i \in DOMAIN r, Carries(r[i], type, life)
      PROVE  r[i].body = Bytes(life, (from + h) + Totals(r, type, life)[i - 1], r[i].n)
  <2>1. i + 1 \in DOMAIN q /\ r[i] = q[i + 1]
    BY <1>1
  <2>2. r[i].body = Bytes(life, from + Totals(q, type, life)[(i + 1) - 1], r[i].n)
    BY <2>1, <1>6 DEF Placed
  <2>3. i - 1 \in 0..(Len(q) - 1) /\ (i + 1) - 1 = (i - 1) + 1 /\ i \in 0..Len(q) /\ i = (i - 1) + 1
    BY <1>1
  <2>4. Totals(r, type, life)[i - 1] = Totals(q, type, life)[i] - h
    BY <2>3, <1>2
  <2>5. Totals(q, type, life)[i] \in Nat
    BY <2>3, <1>3
  <2>6. from + Totals(q, type, life)[(i + 1) - 1] = (from + h) + Totals(r, type, life)[i - 1]
    BY <2>3, <2>4, <2>5, <1>4
  <2> QED BY <2>2, <2>6
<1>7. Placed(r, type, life, from + h)
  BY <1>6 DEF Placed
<1> QED BY <1>5, <1>7 DEF r, h

-----------------------------------------------------------------------------
(* The parts of the state *)

LEMMA Fields ==
  ASSUME TypeOK
  PROVE  /\ host.life \in Nat /\ host.state \in States /\ host.rx \in Seq(Byte)
         /\ host.back \in Nat /\ host.credit \in Nat /\ Len(host.rx) \in Nat
         /\ board.life \in Nat /\ board.state \in States /\ board.rx \in Seq(Byte)
         /\ board.tx \in Seq(Byte) /\ board.credit \in Nat /\ board.grant \in Nat
         /\ board.closing \in BOOLEAN /\ board.fin \in BOOLEAN /\ board.ended \in BOOLEAN
         /\ board.fd \in BOOLEAN /\ Len(board.rx) \in Nat /\ Len(board.tx) \in Nat
         /\ peer.life \in Nat /\ peer.up \in BOOLEAN /\ peer.sent \in Nat /\ peer.fin \in BOOLEAN
         /\ peer.net \in Seq(Byte) /\ peer.got \in Seq(Byte) /\ Len(peer.net) \in Nat
         /\ Len(peer.got) \in Nat /\ got \in Seq(Byte) /\ Len(got) \in Nat /\ put \in Nat
         /\ Handed \in Nat
BY DEF TypeOK, Hosts, Boards, Peers, Handed

LEMMA QueueFields ==
  ASSUME TypeOK
  PROVE  /\ \A i \in DOMAIN down : down[i] \in ToBoard /\ down[i].life \in Nat
         /\ \A i \in DOMAIN up : up[i] \in ToHost /\ up[i].life \in Nat
         /\ down \in Seq(Messages) /\ up \in Seq(Messages)
         /\ DOMAIN down \subseteq Nat /\ DOMAIN up \subseteq Nat
<1>1. down \in Seq(ToBoard) /\ up \in Seq(ToHost)
  BY DEF TypeOK
<1>2. /\ \A i \in DOMAIN down : down[i] \in ToBoard
      /\ \A i \in DOMAIN up : up[i] \in ToHost
  BY <1>1
<1>3. (\A m \in ToBoard : m.life \in Nat) /\ (\A m \in ToHost : m.life \in Nat)
  BY DEF ToBoard, ToHost
<1>4. DOMAIN down = 1..Len(down) /\ DOMAIN up = 1..Len(up)
  BY <1>1
<1> QED BY <1>1, <1>2, <1>3, <1>4, MessageFacts

LEMMA Counts ==
  ASSUME TypeOK, NEW type, NEW life
  PROVE  Total(up, type, life) \in Nat /\ Total(down, type, life) \in Nat
BY QueueFields, TotalsFacts

LEMMA Taking ==
  ASSUME TypeOK
  PROVE  Taken \in Nat
<1>1. Handed \in Nat /\ Len(board.rx) \in Nat /\ Total(up, "data", host.life) \in Nat
  BY Fields, Counts
<1> QED BY <1>1 DEF Taken

LEMMA NatSum ==
  ASSUME NEW a \in Nat, NEW b \in Nat
  PROVE  a + b \in Nat
OBVIOUS

LEMMA Giving ==
  ASSUME TypeOK
  PROVE  Len(peer.got) + Len(board.tx) \in Nat
<1>1. Len(peer.got) \in Nat /\ Len(board.tx) \in Nat
  BY Fields
<1> QED BY <1>1, NatSum

(* What a step of the board alone leaves as it was *)
Alone ==
  /\ UNCHANGED <<host, down, up, got, put, sync>>
  /\ board'.life = board.life /\ board.life # 0 /\ board'.credit = board.credit
  /\ peer'.life = peer.life
  /\ board'.state = "opening" => board.state = "opening"
  /\ Ended(board) => Ended(board')

(* Most of the invariant does not notice *)
LEMMA AloneStep ==
  ASSUME IInv, Alone
  PROVE  /\ NearLives' /\ DownInOrder' /\ ApartUntouched' /\ OpeningFirst' /\ ClosedLast'
         /\ HostCredit' /\ (Talking' <=> Talking)
<1> USE DEF Alone
<1>1. NearLives'
  BY DEF IInv, NearLives
<1>2. DownInOrder'
  BY DEF IInv, DownInOrder, BoardLife
<1>3. ApartUntouched' /\ (Joined' <=> Joined) /\ (Talking' <=> Talking)
  BY DEF IInv, ApartUntouched, Untouched, Joined, Talking
<1>4. OpeningFirst'
  BY <1>3 DEF IInv, OpeningFirst, Untouched
<1>5. ClosedLast'
  BY <1>3 DEF IInv, ClosedLast
<1>6. HostCredit'
  BY <1>3 DEF IInv, HostCredit
<1> QED BY <1>1, <1>2, <1>3, <1>4, <1>5, <1>6

-----------------------------------------------------------------------------
(* The board's connection: kwb_service, and the peer *)

LEMMA FinishFields ==
  ASSUME NEW b \in Boards
  PROVE  /\ Finish(b) \in Boards
         /\ Finish(b).life = b.life /\ Finish(b).state = "closed" /\ Finish(b).rx = b.rx
         /\ Finish(b).tx = <<>> /\ Finish(b).credit = b.credit /\ Finish(b).grant = 0
         /\ ~Finish(b).closing /\ ~Finish(b).fd /\ Finish(b).ended
<1>1. /\ Finish(b).life = b.life /\ Finish(b).state = "closed" /\ Finish(b).rx = b.rx
      /\ Finish(b).tx = <<>> /\ Finish(b).credit = b.credit /\ Finish(b).grant = 0
      /\ ~Finish(b).closing /\ ~Finish(b).fd /\ Finish(b).ended
  BY DEF Finish, Boards
<1>2. "closed" \in States /\ <<>> \in Seq(Byte) /\ 0 \in Nat
  BY DEF States
<1>3. Finish(b) \in Boards
  BY <1>2, Zenon DEF Finish, Boards
<1> QED BY <1>1, <1>3

LEMMA LiveBoard ==
  ASSUME IInv, board.fd
  PROVE  board.life # 0 /\ board.life \in Nat /\ peer.life = board.life
<1>1. ~ClearBoard(0).fd
  BY DEF ClearBoard
<1> QED BY <1>1, Fields DEF IInv, NearLives

(* A connection that stops *)
LEMMA FinishStep ==
  ASSUME IInv, board.fd, board' = Finish(board),
         peer' = peer \/ peer' = [peer EXCEPT !.up = FALSE], ~peer'.up,
         UNCHANGED <<host, down, up, got, put, sync, resets>>
  PROVE  IInv'
<1>0. TypeOK /\ board \in Boards /\ peer \in Peers
  BY DEF IInv, TypeOK
<1>1. /\ board' \in Boards /\ board'.life = board.life /\ board'.state = "closed"
      /\ board'.rx = board.rx /\ board'.tx = <<>> /\ board'.credit = board.credit
      /\ board'.grant = 0 /\ ~board'.closing /\ ~board'.fd /\ board'.ended
  BY <1>0, FinishFields
<1>2. /\ peer' \in Peers /\ peer'.life = peer.life /\ peer'.sent = peer.sent
      /\ peer'.fin = peer.fin /\ peer'.got = peer.got
  BY <1>0 DEF Peers
<1>3. Alone
  BY <1>1, <1>2, LiveBoard DEF Alone, Ended
<1>4. /\ NearLives' /\ DownInOrder' /\ ApartUntouched' /\ OpeningFirst' /\ ClosedLast'
      /\ HostCredit' /\ (Talking' <=> Talking)
  BY <1>3, AloneStep
<1>5. TypeOK'
  BY <1>0, <1>1, <1>2 DEF TypeOK
<1>6. BoardShape'
  BY <1>1 DEF BoardShape
<1>7. BoardCredit'
  BY <1>1 DEF BoardCredit, Streaming
<1>8. Sending'
  <2>1. board'.tx = Bytes(peer'.life, Len(peer'.got), Len(board'.tx))
    BY <1>1, NoBytes
  <2> QED BY <2>1, <1>1, <1>2 DEF IInv, Sending, Streaming
<1>9. Handed' = Handed /\ Taken' = Taken
  BY <1>1 DEF Handed, Taken
<1>10. Receiving'
  BY <1>1, <1>2, <1>4, <1>9 DEF IInv, Receiving
<1>11. PeerClosed'
  BY <1>1, <1>2, <1>4, <1>9 DEF IInv, PeerClosed, Drained
<1> QED BY <1>4, <1>5, <1>6, <1>7, <1>8, <1>10, <1>11 DEF IInv

(* The connection comes up, or does not *)
LEMMA ConnectedStep ==
  ASSUME IInv, Connected
  PROVE  IInv'
<1>0. TypeOK /\ board \in Boards /\ peer \in Peers
  BY DEF IInv, TypeOK
<1>1. /\ board.state = "opening" /\ board.fd /\ board.tx = <<>> /\ board.rx = <<>>
      /\ board.grant = 0 /\ peer = [NoPeer EXCEPT !.life = board.life] /\ ~board.closing
  BY DEF IInv, BoardShape, Connected
<1>2. ~peer.up /\ peer.sent = 0 /\ peer.net = <<>> /\ peer.got = <<>> /\ ~peer.fin
  BY <1>1 DEF NoPeer
<1>3. CASE board' = Finish(board) /\ peer' = peer
  BY <1>3, <1>1, <1>2, FinishStep DEF Connected
<1>4. CASE /\ board' = [board EXCEPT !.state = "established", !.grant = TxCap, !.dirty = TRUE]
           /\ peer' = [peer EXCEPT !.up = TRUE]
  <2>0. UNCHANGED <<host, down, up, got, put, sync, resets>>
    BY DEF Connected
  <2>1. /\ board'.life = board.life /\ board'.state = "established"
        /\ board'.rx = <<>> /\ board'.tx = <<>> /\ board'.credit = board.credit
        /\ board'.grant = TxCap /\ board'.closing = board.closing /\ board'.fd = board.fd
        /\ board'.ended = board.ended
    BY <1>0, <1>1, <1>4 DEF Boards
  <2>2. board' \in Boards
    <3>1. "established" \in States /\ TxCap \in Nat /\ TRUE \in BOOLEAN
      BY Sizes DEF States
    <3> QED BY <3>1, <1>0, <1>4, Zenon DEF Boards
  <2>3. /\ peer' \in Peers /\ peer'.life = peer.life /\ peer'.sent = 0 /\ peer'.net = <<>>
        /\ peer'.fin = peer.fin /\ peer'.got = <<>> /\ peer'.up
    BY <1>0, <1>2, <1>4 DEF Peers
  <2>4. Alone
    BY <1>1, <2>0, <2>1, <2>3, LiveBoard DEF Alone, Ended
  <2>5. /\ NearLives' /\ DownInOrder' /\ ApartUntouched' /\ OpeningFirst' /\ ClosedLast'
        /\ HostCredit' /\ (Talking' <=> Talking)
    BY <2>4, AloneStep
  <2>6. TypeOK'
    BY <2>0, <1>0, <2>2, <2>3 DEF TypeOK
  <2>7. BoardShape'
    BY <1>1, <2>1 DEF BoardShape
  <2>8. ASSUME Joined
        PROVE  /\ Untouched("opening") /\ Handed = 0 /\ put = 0 /\ host.credit = 0
               /\ \A i \in DOMAIN up : ~Carries(up[i], "data", host.life)
               /\ \A i \in DOMAIN up : ~Carries(up[i], "txcredit", host.life)
               /\ \A i \in DOMAIN up : up[i].life = host.life => ~Shows(up[i], "peer_closed")
    <3>1. /\ Untouched("opening")
          /\ \A i \in DOMAIN up : up[i].life = host.life => Shows(up[i], "opening")
      BY <2>8, <1>1 DEF IInv, OpeningFirst
    <3>2. host.rx = <<>> /\ host.credit = 0 /\ got = <<>> /\ put = 0
      BY <3>1 DEF Untouched, FreshHost
    <3>3. Handed = 0
      BY <3>2 DEF Handed
    <3> QED BY <3>1, <3>2, <3>3 DEF Carries, Shows
  <2>9. \A life : sync = "live" => /\ \A i \in DOMAIN down : ~Carries(down[i], "send", life)
                                   /\ Total(down, "send", life) = 0
    <3>1. sync = "live" => \A i \in DOMAIN down : down[i].type # "send"
      BY <1>1 DEF IInv, DownInOrder
    <3> QED BY <3>1, <1>0, QueueFields, TotalNone DEF Carries
  <2>10. Joined => Total(up, "data", host.life) = 0 /\ Total(up, "txcredit", host.life) = 0
    BY <2>8, <1>0, QueueFields, TotalNone
  <2>11. BoardCredit'
    <3>1. Len(board'.tx) = 0
      BY <2>1
    <3>2. ASSUME Talking PROVE sync = "live" /\ Joined
      BY <3>2 DEF Talking, Joined
    <3> QED BY <3>1, <3>2, <2>0, <2>1, <2>5, <2>8, <2>9, <2>10, Sizes DEF BoardCredit
  <2>12. Sending'
    <3>1. Len(board'.tx) = 0 /\ Len(peer'.got) = 0
      BY <2>1, <2>3
    <3>2. peer'.got = Bytes(peer'.life, 0, 0) /\ board'.tx = Bytes(peer'.life, 0, 0)
      BY <2>1, <2>3, NoBytes
    <3>3. ASSUME sync = "live"
          PROVE  /\ Total(down, "send", board.life) = 0
                 /\ Placed(down, "send", board.life, 0)
      BY <3>3, <2>9, PlacedNone
    <3>4. Joined' => Joined /\ sync = "live" /\ put = 0
      BY <2>0, <2>1, <2>8 DEF Joined
    <3>5. 0 + 0 = 0 /\ 0 + 0 + 0 = 0 /\ 0 + 0 <= TxCap
      BY Sizes
    <3> QED BY <3>1, <3>2, <3>3, <3>4, <3>5, <2>0, <2>1 DEF Sending
  <2>13. Receiving'
    <3>1. Handed' = Handed
      BY <2>0 DEF Handed
    <3>2. ASSUME Talking
          PROVE  Taken' = 0 /\ Handed = 0 /\ Total(up, "data", host.life) = 0
                 /\ Placed(up, "data", host.life, Handed)
      <4>1. Joined
        BY <3>2 DEF Talking
      <4>2. Len(board'.rx) = 0
        BY <2>1
      <4> QED BY <4>1, <4>2, <2>0, <2>8, <2>10, <3>1, PlacedNone DEF Taken
    <3>3. Len(board'.rx) = 0 /\ Len(peer'.net) = 0 /\ 0 + 0 = 0
      BY <2>1, <2>3
    <3> QED BY <3>1, <3>2, <3>3, <2>0, <2>1, <2>3, <2>5, NoBytes DEF IInv, Receiving
  <2>14. PeerClosed'
    <3>1. Handed' = Handed
      BY <2>0 DEF Handed
    <3>2. Talking => Joined /\ host.state = "opening"
      BY <2>8 DEF Talking, Untouched, FreshHost
    <3> QED BY <3>1, <3>2, <2>0, <2>1, <2>3, <2>5, <2>8, <1>2 DEF IInv, PeerClosed
  <2> QED BY <2>5, <2>6, <2>7, <2>11, <2>12, <2>13, <2>14 DEF IInv
<1> QED BY <1>3, <1>4 DEF Connected

(* A part moved from one sequence to the end of another *)
LEMMA MovedPart ==
  ASSUME NEW a \in Nat, NEW b \in Nat, NEW n \in 1..b, NEW c, NEW d, c = a + n, d = b - n
  PROVE  c + d = a + b /\ c \in Nat /\ d \in Nat /\ d <= b
OBVIOUS

(* Queued bytes go to the peer *)
LEMMA WriteTcpStep ==
  ASSUME IInv, WriteTcp
  PROVE  IInv'
<1>0. TypeOK /\ board \in Boards /\ peer \in Peers
  BY DEF IInv, TypeOK
<1>1. board.fd /\ board.state # "opening" /\ UNCHANGED <<host, down, up, got, put, sync, resets>>
  BY DEF WriteTcp
<1>2. CASE ~peer.up /\ board' = Finish(board) /\ peer' = peer
  BY <1>1, <1>2, FinishStep
<1>3. ASSUME peer.up, NEW part \in Parts(board.tx, TxCap),
             board' = [board EXCEPT !.tx = Rest(@, part), !.grant = @ + Len(part)],
             peer' = [peer EXCEPT !.got = @ \o part]
      PROVE  IInv'
  <2>1. /\ part \in Seq(Byte) /\ Len(part) \in 1..Len(board.tx) /\ Len(part) \in Nat
        /\ Rest(board.tx, part) \in Seq(Byte)
        /\ Len(Rest(board.tx, part)) = Len(board.tx) - Len(part)
    BY <1>0, Fields, Sizes, PartFacts
  <2>2. /\ board'.life = board.life /\ board'.state = board.state /\ board'.rx = board.rx
        /\ board'.tx = Rest(board.tx, part) /\ board'.credit = board.credit
        /\ board'.grant = board.grant + Len(part) /\ board'.closing = board.closing
        /\ board'.fd = board.fd /\ board'.ended = board.ended
    BY <1>0, <1>3 DEF Boards
  <2>3. board' \in Boards
    <3>1. board.grant + Len(part) \in Nat
      <4> DEFINE n == Len(part)
      <4>1. n \in Nat /\ board.grant \in Nat
        BY <1>0, <2>1, Fields
      <4> HIDE DEF n
      <4>2. board.grant + n \in Nat
        BY <4>1
      <4> QED BY <4>2 DEF n
    <3>2. board' = [board EXCEPT !.tx = Rest(board.tx, part), !.grant = board.grant + Len(part)]
      BY <1>3
    <3>3. ASSUME NEW t \in Seq(Byte), NEW g \in Nat
          PROVE  [board EXCEPT !.tx = t, !.grant = g] \in Boards
      BY <1>0, Zenon DEF Boards
    <3> QED BY <3>1, <3>2, <3>3, <2>1
  <2>4. /\ peer' \in Peers /\ peer'.life = peer.life /\ peer'.sent = peer.sent
        /\ peer'.net = peer.net /\ peer'.fin = peer.fin /\ peer'.got = peer.got \o part
        /\ peer'.up = peer.up
    <3>1. peer.got \o part \in Seq(Byte)
      BY <1>0, <2>1, Fields, LenJoin
    <3> QED BY <3>1, <1>0, <1>3 DEF Peers
  <2>5. Alone
    <3>1. board.state # "closed"
      BY <1>1 DEF IInv, BoardShape
    <3> QED BY <3>1, <1>1, <2>2, <2>4, LiveBoard DEF Alone, Ended
  <2>6. /\ NearLives' /\ DownInOrder' /\ ApartUntouched' /\ OpeningFirst' /\ ClosedLast'
        /\ HostCredit' /\ (Talking' <=> Talking)
    BY <2>5, AloneStep
  <2>7. TypeOK'
    BY <1>0, <1>1, <2>3, <2>4 DEF TypeOK
  <2>8. BoardShape'
    BY <1>1, <2>2 DEF IInv, BoardShape
  <2>9. Len(board'.tx) + board'.grant = Len(board.tx) + board.grant
    BY <1>0, <2>1, <2>2, Fields
  <2>10. BoardCredit'
    BY <1>1, <2>2, <2>6, <2>9 DEF IInv, BoardCredit
  <2>11. /\ Len(peer'.got) = Len(peer.got) + Len(part)
         /\ Len(peer'.got) + Len(board'.tx) = Len(peer.got) + Len(board.tx)
         /\ Len(board'.tx) \in Nat /\ Len(board'.tx) <= Len(board.tx)
    <3>1. Len(peer.got \o part) = Len(peer.got) + Len(part)
      BY <1>0, <2>1, Fields, LenJoin
    <3>2. Len(board.tx) \in Nat /\ Len(peer.got) \in Nat
      BY <1>0, Fields
    <3>3. Len(peer'.got) = Len(peer.got) + Len(part) /\ Len(board'.tx) = Len(board.tx) - Len(part)
      BY <3>1, <2>1, <2>2, <2>4
    <3>4. Len(part) \in 1..Len(board.tx)
      BY <2>1
    <3> DEFINE a == Len(peer.got)
               b == Len(board.tx)
               n == Len(part)
               c == Len(peer'.got)
               d == Len(board'.tx)
    <3>5. a \in Nat /\ b \in Nat /\ n \in 1..b /\ c = a + n /\ d = b - n
      BY <3>2, <3>3, <3>4
    <3> HIDE DEF a, b, c, d, n
    <3>6. c = a + n /\ c + d = a + b /\ d \in Nat /\ d <= b
      BY <3>5, MovedPart
    <3> QED BY <3>6 DEF a, b, c, d, n
  <2>12. Sending'
    <3>1. /\ part = Bytes(peer.life, Len(peer.got), Len(part))
          /\ Rest(board.tx, part) = Bytes(peer.life, Len(peer.got) + Len(part), Len(Rest(board.tx, part)))
      <4>1. /\ peer.life \in Nat /\ Len(peer.got) \in Nat /\ board.tx \in Seq(Byte) /\ TxCap \in Nat
            /\ board.tx = Bytes(peer.life, Len(peer.got), Len(board.tx))
        BY <1>0, Fields, Sizes DEF IInv, Sending
      <4> QED BY <4>1, <1>3, BytesPart
    <3>2. peer'.got = Bytes(peer'.life, 0, Len(peer'.got))
      <4>1. peer.got = Bytes(peer.life, 0, Len(peer.got))
        BY DEF IInv, Sending
      <4>2. peer.life \in Nat /\ 0 \in Nat /\ Len(peer.got) \in Nat /\ Len(part) \in Nat
        BY <1>0, <2>1, Fields
      <4>3. Len(peer.got) = 0 + Len(peer.got) /\ Len(peer'.got) = Len(peer.got) + Len(part)
        BY <4>2, <2>11
      <4>4. Follow(peer.got, part, Bytes(peer.life, 0, Len(peer'.got)))
        BY <4>1, <4>2, <4>3, <3>1, BytesJoin
      <4> QED BY <4>4, <2>4 DEF Follow
    <3>3. board'.tx = Bytes(peer'.life, Len(peer'.got), Len(board'.tx))
      BY <3>1, <2>2, <2>4, <2>11
    <3>4. ASSUME sync = "live", Streaming(board.state)
          PROVE  /\ Len(board'.tx) + Total(down, "send", board.life) <= TxCap
                 /\ Placed(down, "send", board.life, Len(peer'.got) + Len(board'.tx))
                 /\ Joined => Len(peer'.got) + Len(board'.tx) + Total(down, "send", board.life) = put
      <4>1. /\ Len(board.tx) + Total(down, "send", board.life) <= TxCap
            /\ Placed(down, "send", board.life, Len(peer.got) + Len(board.tx))
            /\ Joined => Len(peer.got) + Len(board.tx) + Total(down, "send", board.life) = put
        BY <3>4 DEF IInv, Sending
      <4>2. Len(board'.tx) + Total(down, "send", board.life) <= TxCap
        <5>1. Total(down, "send", board.life) \in Nat /\ Len(board.tx) \in Nat /\ TxCap \in Nat
          BY <1>0, Counts, Fields, Sizes
        <5> QED BY <5>1, <4>1, <2>11
      <4> QED BY <4>1, <4>2, <2>11
    <3>5. Joined' <=> Joined
      BY <1>1, <2>2 DEF Joined
    <3> QED BY <3>2, <3>3, <3>4, <3>5, <1>1, <2>2 DEF Sending
  <2>13. Handed' = Handed /\ Taken' = Taken
    BY <1>1, <2>2 DEF Handed, Taken
  <2>14. Receiving'
    BY <1>1, <2>2, <2>4, <2>6, <2>13 DEF IInv, Receiving
  <2>15. PeerClosed'
    BY <1>1, <2>2, <2>4, <2>6, <2>13 DEF IInv, PeerClosed, Drained
  <2> QED BY <2>6, <2>7, <2>8, <2>10, <2>12, <2>14, <2>15 DEF IInv
<1> QED BY <1>2, <1>3 DEF WriteTcp

(* The peer's bytes, its close or an error *)
LEMMA ReadTcpStep ==
  ASSUME IInv, ReadTcp
  PROVE  IInv'
<1>0. TypeOK /\ board \in Boards /\ peer \in Peers
  BY DEF IInv, TypeOK
<1>1. /\ board.fd /\ board.state # "opening" /\ ~board.ended /\ Len(board.rx) < RxCap
      /\ UNCHANGED <<host, down, up, got, put, sync, resets>>
  BY DEF ReadTcp
<1>2. board.state # "closed" /\ board.state # "peer_closed"
  BY <1>1 DEF IInv, BoardShape
<1>3. CASE ~peer.up /\ board' = Finish(board) /\ peer' = peer
  BY <1>1, <1>3, FinishStep
<1>4. ASSUME NEW part \in Parts(peer.net, RxCap - Len(board.rx)),
             board' = [board EXCEPT !.rx = @ \o part],
             peer' = [peer EXCEPT !.net = Rest(@, part)]
      PROVE  IInv'
  <2>0. RxCap - Len(board.rx) \in Nat
    BY <1>0, <1>1, Fields, Sizes
  <2>1. /\ part \in Seq(Byte) /\ Len(part) \in 1..Len(peer.net) /\ Len(part) \in Nat
        /\ Rest(peer.net, part) \in Seq(Byte)
        /\ Len(Rest(peer.net, part)) = Len(peer.net) - Len(part)
    BY <1>0, <2>0, Fields, PartFacts
  <2>2. board.rx \o part \in Seq(Byte) /\ Len(board.rx \o part) = Len(board.rx) + Len(part)
    BY <1>0, <2>1, Fields, LenJoin
  <2>3. /\ board' \in Boards
        /\ board'.life = board.life /\ board'.state = board.state /\ board'.rx = board.rx \o part
        /\ board'.tx = board.tx /\ board'.credit = board.credit
        /\ board'.grant = board.grant /\ board'.closing = board.closing
        /\ board'.fd = board.fd /\ board'.ended = board.ended
    BY <1>0, <1>4, <2>2 DEF Boards
  <2>4. /\ peer' \in Peers /\ peer'.life = peer.life /\ peer'.sent = peer.sent
        /\ peer'.net = Rest(peer.net, part) /\ peer'.fin = peer.fin /\ peer'.got = peer.got
        /\ peer'.up = peer.up
    BY <1>0, <1>4, <2>1 DEF Peers
  <2>5. Alone
    BY <1>1, <1>2, <2>3, <2>4, LiveBoard DEF Alone, Ended
  <2>6. /\ NearLives' /\ DownInOrder' /\ ApartUntouched' /\ OpeningFirst' /\ ClosedLast'
        /\ HostCredit' /\ (Talking' <=> Talking)
    BY <2>5, AloneStep
  <2>7. TypeOK'
    BY <1>0, <1>1, <2>3, <2>4 DEF TypeOK
  <2>8. BoardShape'
    BY <1>1, <2>3, <2>4 DEF IInv, BoardShape
  <2>9. BoardCredit'
    BY <1>1, <2>3, <2>6 DEF IInv, BoardCredit
  <2>10. Sending'
    <3>1. Joined' <=> Joined
      BY <1>1, <2>3 DEF Joined
    <3> QED BY <3>1, <1>1, <2>3, <2>4 DEF IInv, Sending
  <2>11. /\ Handed' = Handed /\ Taken' = Taken + Len(part)
         /\ Taken' + Len(peer'.net) = Taken + Len(peer.net)
    <3>1. Handed' = Handed
      BY <1>1 DEF Handed
    <3>2. /\ Handed \in Nat /\ Total(up, "data", host.life) \in Nat /\ Len(board.rx) \in Nat
          /\ Len(part) \in Nat /\ Taken \in Nat
      <4>1. Handed \in Nat /\ Len(board.rx) \in Nat
        BY <1>0, Fields
      <4> QED BY <4>1, <1>0, <2>1, Counts, Taking
    <3>3. Len(board'.rx) = Len(board.rx) + Len(part)
      BY <2>2, <2>3
    <3>4. Taken' = Handed + Total(up, "data", host.life) + Len(board'.rx)
      BY <1>1, <3>1 DEF Taken
    <3>5. Taken' = Taken + Len(part)
      BY <3>2, <3>3, <3>4 DEF Taken
    <3>6. Len(peer'.net) = Len(peer.net) - Len(part) /\ Len(peer.net) \in Nat
      BY <1>0, <2>1, <2>4, Fields
    <3>7. Len(part) \in 1..Len(peer.net)
      BY <2>1
    <3>8. Taken' + Len(peer'.net) = Taken + Len(peer.net)
      <4> DEFINE b == Len(peer.net)
                 n == Len(part)
                 c == Taken'
                 d == Len(peer'.net)
      <4>1. Taken \in Nat /\ b \in Nat /\ n \in 1..b /\ c = Taken + n /\ d = b - n
        BY <3>2, <3>5, <3>6, <3>7
      <4> HIDE DEF b, c, d, n
      <4>2. c + d = Taken + b
        BY <4>1, MovedPart
      <4> QED BY <4>2 DEF b, c, d, n
    <3> QED BY <3>1, <3>5, <3>8
  <2>12. Receiving'
    <3> DEFINE at == Handed + Total(up, "data", host.life)
    <3>0. at \in Nat /\ Taken = at + Len(board.rx)
      <4>1. Handed \in Nat /\ Total(up, "data", host.life) \in Nat
        BY <1>0, Fields, Counts
      <4> QED BY <4>1 DEF Taken
    <3> HIDE DEF at
    <3>1. ASSUME Talking
          PROVE  /\ board'.rx = Bytes(host.life, at, Len(board'.rx))
                 /\ peer'.net = Bytes(host.life, Taken', Len(peer'.net))
      <4>1. board.rx = Bytes(host.life, at, Len(board.rx))
            /\ peer.net = Bytes(host.life, Taken, Len(peer.net))
        BY <3>1, <1>1 DEF IInv, Receiving, at
      <4>2. /\ part = Bytes(host.life, Taken, Len(part))
            /\ Rest(peer.net, part) = Bytes(host.life, Taken + Len(part), Len(Rest(peer.net, part)))
        <5>1. host.life \in Nat /\ peer.net \in Seq(Byte) /\ Taken \in Nat
          BY <1>0, Fields, Taking
        <5> QED BY <5>1, <4>1, <2>0, BytesPart
      <4>3. Follow(board.rx, part, Bytes(host.life, at, Len(board'.rx)))
        <5>1. host.life \in Nat /\ Len(board.rx) \in Nat /\ Len(part) \in Nat /\ at \in Nat
          BY <1>0, <2>1, <3>0, Fields
        <5>2. Taken = at + Len(board.rx) /\ Len(board'.rx) = Len(board.rx) + Len(part)
          BY <3>0, <2>2, <2>3
        <5> QED BY <5>1, <5>2, <4>1, <4>2, BytesJoin
      <4>4. board'.rx = Bytes(host.life, at, Len(board'.rx))
        BY <4>3, <2>3 DEF Follow
      <4> QED BY <4>2, <4>4, <2>4, <2>11
    <3>2. at' = at
      BY <1>1, <2>11 DEF at
    <3>3. board'.fd = board.fd /\ peer'.sent = peer.sent /\ peer'.up = peer.up
      BY <2>3, <2>4
    <3> QED BY <3>1, <3>2, <3>3, <1>1, <2>6, <2>11 DEF IInv, Receiving, at
  <2>13. PeerClosed'
    <3>1. ASSUME Talking, NEW i \in DOMAIN up, up[i].life = host.life, Shows(up[i], "peer_closed")
          PROVE  FALSE
      BY <3>1, <1>1 DEF IInv, PeerClosed, Drained
    <3>2. Talking => host.state # "peer_closed"
      BY <1>1 DEF IInv, PeerClosed, Drained
    <3> QED BY <3>1, <3>2, <1>1, <1>2, <2>3, <2>4, <2>6, <2>11 DEF IInv, PeerClosed
  <2> QED BY <2>6, <2>7, <2>8, <2>9, <2>10, <2>12, <2>13 DEF IInv
<1>5. ASSUME peer.up, peer.fin, peer.net = <<>>,
             board' = IF ~board.closing
                      THEN [board EXCEPT !.ended = TRUE, !.state = "peer_closed", !.dirty = TRUE]
                      ELSE IF board.fin THEN Finish(board) ELSE [board EXCEPT !.ended = TRUE],
             peer' = [peer EXCEPT !.up = board'.fd]
      PROVE  IInv'
  <2>1. CASE board' = Finish(board)
    <3>1. ~board'.fd
      BY <2>1, <1>0, FinishFields
    <3>2. peer' = [peer EXCEPT !.up = FALSE]
      <4>1. board'.fd = FALSE
        BY <3>1, <2>1, <1>0, FinishFields DEF Boards
      <4> QED BY <4>1, <1>5
    <3>3. ~peer'.up
      BY <3>2, <1>0 DEF Peers
    <3> QED BY <3>2, <3>3, <2>1, <1>1, FinishStep
  <2>2. ASSUME \/ ~board.closing /\ board' = [board EXCEPT !.ended = TRUE, !.state = "peer_closed", !.dirty = TRUE]
               \/ board.closing /\ board' = [board EXCEPT !.ended = TRUE]
        PROVE  IInv'
    <3>1. /\ board'.life = board.life /\ board'.rx = board.rx
          /\ board'.tx = board.tx /\ board'.credit = board.credit
          /\ board'.grant = board.grant /\ board'.closing = board.closing
          /\ board'.fd = board.fd /\ board'.ended
          /\ \/ board'.state = "peer_closed" /\ ~board.closing
             \/ board'.state = board.state /\ board.closing
      BY <1>0, <2>2 DEF Boards
    <3>2. board' \in Boards
      <4>1. "peer_closed" \in States /\ TRUE \in BOOLEAN
        BY DEF States
      <4> QED BY <4>1, <1>0, <2>2, Zenon DEF Boards
    <3>3. peer' = peer
      <4>1. peer' = [peer EXCEPT !.up = TRUE]
        BY <3>1, <1>0, <1>1, <1>5, Fields
      <4> QED BY <4>1, <1>0, <1>5 DEF Peers
    <3>4. Alone
      BY <1>1, <1>2, <3>1, <3>3, LiveBoard DEF Alone, Ended
    <3>5. /\ NearLives' /\ DownInOrder' /\ ApartUntouched' /\ OpeningFirst' /\ ClosedLast'
          /\ HostCredit' /\ (Talking' <=> Talking)
      BY <3>4, AloneStep
    <3>6. TypeOK'
      BY <1>0, <1>1, <3>2, <3>3 DEF TypeOK
    <3>7. BoardShape'
      BY <1>1, <3>1, <3>3 DEF IInv, BoardShape
    <3>8. Streaming(board'.state) => Streaming(board.state)
      <4>1. board.state \in States
        BY <1>0, Fields
      <4> QED BY <4>1, <3>1, <1>1, <1>2 DEF Streaming, States, IInv, BoardShape
    <3>9. BoardCredit'
      BY <1>1, <3>1, <3>5, <3>8 DEF IInv, BoardCredit
    <3>10. Sending'
      <4>1. Joined' <=> Joined
        BY <1>1, <3>1 DEF Joined
      <4> QED BY <4>1, <1>1, <3>1, <3>3, <3>8 DEF IInv, Sending
    <3>11. Handed' = Handed /\ Taken' = Taken
      BY <1>1, <3>1 DEF Handed, Taken
    <3>12. Receiving'
      BY <1>1, <3>1, <3>3, <3>5, <3>11 DEF IInv, Receiving
    <3>13. Talking => Taken = peer.sent
      <4>1. Len(peer.net) = 0 /\ Taken \in Nat
        BY <1>0, <1>5, Taking
      <4>2. Talking => Taken + Len(peer.net) = peer.sent
        BY <1>5 DEF IInv, Receiving
      <4> QED BY <4>1, <4>2
    <3>14. PeerClosed'
      BY <1>1, <1>5, <3>1, <3>3, <3>5, <3>11, <3>13 DEF IInv, PeerClosed, Drained
    <3> QED BY <3>5, <3>6, <3>7, <3>9, <3>10, <3>12, <3>14 DEF IInv
  <2> QED BY <1>5, <2>1, <2>2
<1> QED BY <1>3, <1>4, <1>5 DEF ReadTcp

(* Our close, once the queued bytes have gone *)
LEMMA OrderlyCloseStep ==
  ASSUME IInv, OrderlyClose
  PROVE  IInv'
<1>0. TypeOK /\ board \in Boards /\ peer \in Peers /\ peer.up \in BOOLEAN
  BY Fields DEF IInv, TypeOK
<1>1. /\ board.closing /\ board.fd /\ board.state = "closing"
      /\ UNCHANGED <<host, down, up, got, put, sync, resets>>
      /\ peer' = [peer EXCEPT !.up = @ /\ board'.fd]
  BY DEF OrderlyClose, IInv, BoardShape
<1>2. CASE board' = Finish(board)
  <2>1. board'.fd = FALSE
    BY <1>2, <1>0, FinishFields DEF Boards
  <2>2. peer' = [peer EXCEPT !.up = FALSE]
    <3>1. (peer.up /\ board'.fd) = FALSE
      BY <2>1
    <3> QED BY <3>1, <1>1, Zenon
  <2>3. ~peer'.up
    BY <2>2, <1>0 DEF Peers
  <2> QED BY <1>1, <1>2, <2>2, <2>3, FinishStep
<1>3. CASE board' = [board EXCEPT !.fin = TRUE]
  <2>1. /\ board' \in Boards
        /\ board'.life = board.life /\ board'.state = board.state /\ board'.rx = board.rx
        /\ board'.tx = board.tx /\ board'.credit = board.credit
        /\ board'.grant = board.grant /\ board'.closing = board.closing
        /\ board'.fd = board.fd /\ board'.ended = board.ended
    BY <1>0, <1>3 DEF Boards
  <2>2. peer' = peer
    <3>1. (peer.up /\ board'.fd) = peer.up
      BY <2>1, <1>1, <1>0, Zenon
    <3>2. peer' = [peer EXCEPT !.up = peer.up]
      BY <3>1, <1>1, Zenon
    <3> QED BY <3>2, <1>0 DEF Peers
  <2>3. Alone
    BY <1>1, <2>1, <2>2, LiveBoard DEF Alone, Ended
  <2>4. /\ NearLives' /\ DownInOrder' /\ ApartUntouched' /\ OpeningFirst' /\ ClosedLast'
        /\ HostCredit' /\ (Talking' <=> Talking)
    BY <2>3, AloneStep
  <2>5. TypeOK'
    BY <1>0, <1>1, <2>1, <2>2 DEF TypeOK
  <2>6. BoardShape'
    BY <1>1, <2>1, <2>2 DEF IInv, BoardShape
  <2>7. BoardCredit' /\ Sending'
    BY <1>1, <2>1 DEF Streaming, BoardCredit, Sending, IInv
  <2>8. Handed' = Handed /\ Taken' = Taken
    BY <1>1, <2>1 DEF Handed, Taken
  <2>9. Receiving'
    BY <1>1, <2>1, <2>2, <2>4, <2>8 DEF IInv, Receiving
  <2>10. PeerClosed'
    BY <1>1, <2>1, <2>2, <2>4, <2>8 DEF IInv, PeerClosed, Drained
  <2> QED BY <2>4, <2>5, <2>6, <2>7, <2>9, <2>10 DEF IInv
<1> QED BY <1>2, <1>3 DEF OrderlyClose

(* What the remote end does *)
LEMMA PeerStep ==
  ASSUME IInv, PeerSends \/ PeerEnds
  PROVE  IInv'
<1>0. TypeOK /\ board \in Boards /\ peer \in Peers
  BY DEF IInv, TypeOK
<1>1. peer.up /\ UNCHANGED <<host, board, down, up, got, put, sync, resets>>
  BY DEF PeerSends, PeerEnds
<1>2. board.fd /\ board.state # "closed" /\ board.state # "opening"
  <2>1. board.state = "opening" => ~peer.up
    BY DEF IInv, BoardShape, NoPeer
  <2> QED BY <1>1, <2>1 DEF IInv, BoardShape
<1>3. /\ peer' \in Peers /\ peer'.life = peer.life /\ peer'.got = peer.got
      /\ peer.fin => peer'.fin /\ peer'.sent = peer.sent
  <2>1. CASE PeerSends
    <3>1. Bytes(peer.life, peer.sent, 1) \in Seq(Byte)
      BY <1>0, Fields, BytesFacts
    <3>2. peer.net \o Bytes(peer.life, peer.sent, 1) \in Seq(Byte) /\ peer.sent + 1 \in Nat
      BY <3>1, <1>0, Fields, LenJoin
    <3>3. peer' = [peer EXCEPT !.sent = peer.sent + 1, !.net = peer.net \o Bytes(peer.life, peer.sent, 1)]
      BY <2>1 DEF PeerSends
    <3> QED BY <3>2, <3>3, <1>0, <2>1 DEF Peers, PeerSends
  <2>2. CASE PeerEnds
    <3>1. \/ peer' = [peer EXCEPT !.fin = TRUE]
          \/ peer' = [peer EXCEPT !.up = FALSE, !.net = <<>>]
      BY <2>2 DEF PeerEnds
    <3>2. /\ peer'.life = peer.life /\ peer'.got = peer.got
          /\ peer.fin => peer'.fin /\ peer'.sent = peer.sent
      BY <3>1, <1>0 DEF Peers
    <3>3. TRUE \in BOOLEAN /\ FALSE \in BOOLEAN /\ <<>> \in Seq(Byte)
      OBVIOUS
    <3>4. peer' \in Peers
      BY <3>1, <3>3, <1>0, Zenon DEF Peers
    <3> QED BY <3>2, <3>4
  <2> QED BY <2>1, <2>2
<1>4. Alone
  BY <1>1, <1>2, <1>3, LiveBoard DEF Alone, Ended
<1>5. /\ NearLives' /\ DownInOrder' /\ ApartUntouched' /\ OpeningFirst' /\ ClosedLast'
      /\ HostCredit' /\ (Talking' <=> Talking)
  BY <1>4, AloneStep
<1>6. TypeOK'
  BY <1>0, <1>1, <1>3 DEF TypeOK
<1>7. BoardShape'
  BY <1>1, <1>2 DEF IInv, BoardShape
<1>8. BoardCredit'
  BY <1>1, <1>5 DEF IInv, BoardCredit
<1>9. Sending'
  <2>1. Joined' <=> Joined
    BY <1>1 DEF Joined
  <2> QED BY <2>1, <1>1, <1>3 DEF IInv, Sending
<1>10. Handed' = Handed /\ Taken' = Taken
  BY <1>1 DEF Handed, Taken
<1>11. ASSUME Talking
       PROVE  /\ peer'.net = Bytes(host.life, Taken, Len(peer'.net))
              /\ peer'.up => Taken + Len(peer'.net) = peer'.sent
  <2>1. peer.net = Bytes(host.life, Taken, Len(peer.net)) /\ Taken + Len(peer.net) = peer.sent
    BY <1>1, <1>2, <1>11 DEF IInv, Receiving
  <2>2. peer.life = host.life
    BY <1>2, <1>11, LiveBoard DEF Talking, Joined
  <2>3. host.life \in Nat /\ Taken \in Nat /\ Len(peer.net) \in Nat /\ peer.sent \in Nat
    BY <1>0, Fields, Taking
  <2>4. CASE PeerSends
    <3>1. peer' = [peer EXCEPT !.sent = peer.sent + 1, !.net = peer.net \o Bytes(peer.life, peer.sent, 1)]
      BY <2>4 DEF PeerSends
    <3>2. peer'.sent = peer.sent + 1 /\ peer'.net = peer.net \o Bytes(host.life, peer.sent, 1)
      BY <3>1, <1>0, <2>2 DEF Peers
    <3> DEFINE n == Len(peer.net)
    <3>3. n \in Nat /\ n + 1 \in Nat /\ peer.net = Bytes(host.life, Taken, n) /\ Taken + n = peer.sent
      BY <2>1, <2>3
    <3> HIDE DEF n
    <3>4. /\ host.life \in Nat /\ Taken \in Nat /\ n \in Nat /\ 1 \in Nat
          /\ peer.sent = Taken + n /\ peer.net = Bytes(host.life, Taken, n)
      BY <3>3, <2>3
    <3>5. peer'.net = Bytes(host.life, Taken, n + 1)
      <4> DEFINE all == n + 1
                 t == Bytes(host.life, peer.sent, 1)
      <4>1. all = n + 1 /\ t = Bytes(host.life, peer.sent, 1)
        OBVIOUS
      <4> HIDE DEF all, t
      <4>2. Follow(peer.net, t, Bytes(host.life, Taken, all))
        BY <3>4, <4>1, BytesJoin
      <4> QED BY <3>2, <4>2 DEF Follow, all, t
    <3>6. Len(peer'.net) = n + 1
      <4>1. host.life \in Nat /\ Taken \in Nat /\ n + 1 \in Nat
        BY <3>3, <2>3
      <4>2. Len(Bytes(host.life, Taken, n + 1)) = n + 1
        BY <4>1, BytesFacts
      <4> QED BY <4>2, <3>5
    <3>7. Taken + (n + 1) = peer.sent + 1
      BY <3>3, <2>3
    <3> QED BY <3>2, <3>5, <3>6, <3>7
  <2>5. CASE PeerEnds
    <3>1. \/ peer'.net = peer.net /\ peer'.sent = peer.sent
          \/ peer'.net = <<>> /\ ~peer'.up
      BY <2>5, <1>0 DEF PeerEnds, Peers
    <3>2. peer'.net = <<>> => peer'.net = Bytes(host.life, Taken, Len(peer'.net))
      BY NoBytes
    <3> QED BY <3>1, <3>2, <2>1
  <2> QED BY <2>4, <2>5
<1>12. Receiving'
  BY <1>1, <1>5, <1>10, <1>11 DEF IInv, Receiving
<1>13. PeerClosed'
  BY <1>1, <1>3, <1>5, <1>10 DEF IInv, PeerClosed
<1> QED BY <1>5, <1>6, <1>7, <1>8, <1>9, <1>12, <1>13 DEF IInv

-----------------------------------------------------------------------------
(* What the board sends *)

(* A queue with one message more, and one fewer *)
LEMMA Appended ==
  ASSUME NEW S, NEW q \in Seq(S), NEW m \in S
  PROVE  /\ Append(q, m) \in Seq(S) /\ Append(q, m) # <<>> /\ Len(q) \in Nat
         /\ \A i \in DOMAIN Append(q, m) : i \in DOMAIN q \/ i = Len(q) + 1
         /\ \A i \in DOMAIN q : /\ i \in DOMAIN Append(q, m) /\ Append(q, m)[i] = q[i]
                                /\ i < Len(q) + 1 /\ i \in Nat
         /\ Append(q, m)[Len(q) + 1] = m /\ Len(q) + 1 \in DOMAIN Append(q, m)
OBVIOUS

LEMMA Shortened ==
  ASSUME NEW S, NEW q \in Seq(S), q # <<>>
  PROVE  /\ Tail(q) \in Seq(S) /\ Head(q) \in S /\ 1 \in DOMAIN q /\ q[1] = Head(q)
         /\ \A i \in DOMAIN Tail(q) : /\ i \in Nat /\ i + 1 \in DOMAIN q
                                      /\ Tail(q)[i] = q[i + 1] /\ 1 < i + 1
         /\ \A i, j \in DOMAIN Tail(q) : i < j => i + 1 < j + 1
OBVIOUS

(* What every message the board sends leaves as it was *)
Sent(m) ==
  /\ sync = "live" /\ board.life # 0 /\ m \in ToHost /\ m.life = board.life
  /\ up' = Append(up, m) /\ UNCHANGED <<host, peer, down, got, put, sync, resets>>
  /\ board' \in Boards /\ board'.life = board.life /\ board'.state = board.state
  /\ board'.tx = board.tx /\ board'.closing = board.closing /\ board'.fd = board.fd
  /\ board'.ended = board.ended
  /\ board.rx = <<>> => board'.rx = <<>>
  /\ board.grant = 0 => board'.grant = 0
  /\ Shows(m, "opening") <=> board.state = "opening"
  /\ Shows(m, "closed") <=> Ended(board)
  /\ Shows(m, "peer_closed") => board.state = "peer_closed" /\ board.rx = <<>>
  /\ m.type = "data" => board.rx # <<>>
  /\ Talking => Taken' = Taken

(* Whatever is sent, this much is kept *)
LEMMA SentStep ==
  ASSUME IInv, NEW m, Sent(m)
  PROVE  /\ TypeOK' /\ NearLives' /\ BoardShape' /\ DownInOrder' /\ ApartUntouched'
         /\ OpeningFirst' /\ ClosedLast' /\ Sending' /\ PeerClosed'
         /\ (Talking' <=> Talking) /\ Handed' = Handed
<1>0. TypeOK /\ up \in Seq(ToHost) /\ m \in ToHost /\ up' = Append(up, m)
  BY DEF IInv, TypeOK, Sent
<1> DEFINE k == Len(up) + 1
<1>1. /\ up' \in Seq(ToHost) /\ up' # <<>>
      /\ \A i \in DOMAIN up' : i \in DOMAIN up \/ i = k
      /\ \A i \in DOMAIN up : i \in DOMAIN up' /\ up'[i] = up[i] /\ i < k /\ i \in Nat
      /\ up'[k] = m /\ k \in DOMAIN up' /\ k \in Nat
  BY <1>0, Appended
<1> HIDE DEF k
<1>2. /\ sync = "live" /\ board.life # 0 /\ m.life = board.life
      /\ UNCHANGED <<host, peer, down, got, put, sync, resets>>
      /\ board'.life = board.life /\ board'.state = board.state
      /\ board'.tx = board.tx /\ board'.closing = board.closing /\ board'.fd = board.fd
      /\ board'.ended = board.ended
  BY DEF Sent
<1>3. (Joined' <=> Joined) /\ (Talking' <=> Talking) /\ Handed' = Handed
  BY <1>2 DEF Joined, Talking, Handed
<1>4. TypeOK'
  BY <1>0, <1>1 DEF TypeOK, Sent
<1>5. NearLives'
  <2>1. /\ 1 <= board.life /\ board.life <= host.life /\ host.life - board.life < GenCount
        /\ peer.life = board.life
    BY <1>0, <1>2, Fields DEF IInv, NearLives
  <2>2. \A i \in DOMAIN up' : /\ 1 <= up'[i].life /\ up'[i].life <= board.life
                              /\ host.life - up'[i].life < GenCount
    <3> TAKE i \in DOMAIN up'
    <3>1. CASE i \in DOMAIN up
      <4>1. up'[i] = up[i]
        BY <3>1, <1>1
      <4>2. /\ 1 <= up[i].life /\ up[i].life <= board.life
            /\ host.life - up[i].life < GenCount
        BY <3>1 DEF IInv, NearLives
      <4> QED BY <4>1, <4>2
    <3>2. CASE i = k
      <4>1. up'[i].life = board.life
        BY <3>2, <1>1, <1>2
      <4>2. board.life <= board.life
        BY <1>0, Fields
      <4> QED BY <4>1, <4>2, <2>1
    <3> QED BY <3>1, <3>2, <1>1
  <2> QED BY <2>1, <2>2, <1>2 DEF IInv, NearLives
<1>6. BoardShape'
  BY <1>2 DEF IInv, BoardShape, Sent
<1>7. DownInOrder'
  BY <1>2 DEF IInv, DownInOrder, BoardLife
<1>8. ApartUntouched'
  BY <1>2, <1>3 DEF IInv, ApartUntouched, Untouched
<1>9. OpeningFirst'
  <2> SUFFICES ASSUME Joined PROVE OpeningFirst'
    BY <1>3 DEF OpeningFirst
  <2>1. ASSUME board.state = "opening"
        PROVE  \A i \in DOMAIN up' : up'[i].life = host.life => Shows(up'[i], "opening")
    BY <2>1, <1>1 DEF IInv, OpeningFirst, Sent
  <2>2. ASSUME board.state = "opening" PROVE Untouched("opening") /\ host.state = "opening"
    BY <2>2 DEF IInv, OpeningFirst, Untouched, FreshHost
  <2>3. ASSUME NEW i \in DOMAIN up', up'[i].life = host.life, Shows(up'[i], "opening")
        PROVE  /\ host.state = "opening"
               /\ \A j \in DOMAIN up' : (j < i /\ up'[j].life = host.life) => Shows(up'[j], "opening")
    <3>1. CASE i \in DOMAIN up
      <4>1. \A j \in DOMAIN up' : j < i => j \in DOMAIN up
        BY <3>1, <1>1
      <4> QED BY <3>1, <4>1, <2>3, <1>1 DEF IInv, OpeningFirst
    <3>2. CASE i = k
      <4>1. board.state = "opening"
        BY <3>2, <2>3, <1>1 DEF Sent
      <4> QED BY <4>1, <2>1, <2>2
    <3> QED BY <3>1, <3>2, <1>1
  <2>4. board'.state = board.state /\ host' = host /\ (Untouched("opening")' <=> Untouched("opening"))
    BY <1>2 DEF Untouched
  <2> QED BY <2>1, <2>2, <2>3, <2>4 DEF OpeningFirst
<1>10. ClosedLast'
  <2> SUFFICES ASSUME Joined PROVE ClosedLast'
    BY <1>3 DEF ClosedLast
  <2>1. Ended(board) => Ended(board') /\ Shows(m, "closed")
    BY DEF Sent, Ended
  <2>2. ASSUME host.state = "closed"
        PROVE  /\ Ended(board')
               /\ \A i \in DOMAIN up' : up'[i].life = host.life => Shows(up'[i], "closed")
    BY <2>1, <2>2, <1>1 DEF IInv, ClosedLast
  <2>3. ASSUME NEW i \in DOMAIN up', up'[i].life = host.life, Shows(up'[i], "closed")
        PROVE  /\ Ended(board')
               /\ \A j \in DOMAIN up' : (i < j /\ up'[j].life = host.life) => Shows(up'[j], "closed")
    <3>1. CASE i \in DOMAIN up
      <4>1. /\ Ended(board)
            /\ \A j \in DOMAIN up : (i < j /\ up[j].life = host.life) => Shows(up[j], "closed")
        BY <3>1, <2>3, <1>1 DEF IInv, ClosedLast
      <4> QED BY <4>1, <2>1, <1>1
    <3>2. CASE i = k
      <4>1. Ended(board)
        BY <3>2, <2>3, <1>1 DEF Sent
      <4>2. \A j \in DOMAIN up' : ~(k < j)
        BY <1>1
      <4> QED BY <3>2, <4>1, <4>2, <2>1
    <3> QED BY <3>1, <3>2, <1>1
  <2> QED BY <2>2, <2>3, <1>2 DEF ClosedLast
<1>11. Sending'
  BY <1>2, <1>3 DEF IInv, Sending
<1>12. PeerClosed'
  <2>1. host.state = "peer_closed" => Handed = peer.sent /\ peer.fin
    BY DEF IInv, PeerClosed
  <2>2. ASSUME Talking
        PROVE  /\ board.state = "peer_closed" => Taken = peer.sent /\ peer.fin /\ board.ended
               /\ Drained(board) => Drained(board') /\ ~Carries(m, "data", host.life)
    BY <2>2 DEF IInv, PeerClosed, BoardShape, Drained, Sent, Carries
  <2>3. ASSUME Talking, host.state = "peer_closed"
        PROVE  Drained(board') /\ \A i \in DOMAIN up' : ~Carries(up'[i], "data", host.life)
    BY <2>2, <2>3, <1>1 DEF IInv, PeerClosed
  <2>4. ASSUME Talking, NEW i \in DOMAIN up', up'[i].life = host.life, Shows(up'[i], "peer_closed")
        PROVE  /\ Drained(board') /\ Taken = peer.sent /\ peer.fin
               /\ \A j \in DOMAIN up' : i < j => ~Carries(up'[j], "data", host.life)
    <3>1. CASE i \in DOMAIN up
      <4>1. /\ Drained(board) /\ Taken = peer.sent /\ peer.fin
            /\ \A j \in DOMAIN up : i < j => ~Carries(up[j], "data", host.life)
        BY <3>1, <2>4, <1>1 DEF IInv, PeerClosed
      <4> QED BY <4>1, <2>2, <2>4, <1>1
    <3>2. CASE i = k
      <4>1. board.state = "peer_closed" /\ board.rx = <<>>
        BY <3>2, <2>4, <1>1 DEF Sent
      <4>2. Drained(board) /\ Taken = peer.sent /\ peer.fin
        BY <4>1, <2>2, <2>4 DEF Drained
      <4>3. \A j \in DOMAIN up' : ~(k < j)
        BY <1>1
      <4> QED BY <3>2, <4>2, <4>3, <2>2, <2>4
    <3> QED BY <3>1, <3>2, <1>1
  <2>5. Talking => Taken' = Taken
    BY DEF Sent
  <2> QED BY <2>1, <2>2, <2>3, <2>4, <2>5, <1>2, <1>3 DEF PeerClosed
<1> QED BY <1>3, <1>4, <1>5, <1>6, <1>7, <1>8, <1>9, <1>10, <1>11, <1>12

(* The counts of a queue with one message more *)
LEMMA UpTotals ==
  ASSUME TypeOK, NEW m \in ToHost, NEW type, NEW life
  PROVE  Total(Append(up, m), type, life) = Total(up, type, life) + Weight(m, type, life)
<1>1. m \in Messages /\ up \in Seq(Messages)
  BY QueueFields DEF Messages
<1> QED BY <1>1, TotalAppend

(* A state, credit or data *)
LEMMA BoardFillStep ==
  ASSUME IInv, BoardFill
  PROVE  IInv'
<1>0. TypeOK /\ board \in Boards /\ board.life \in Nat /\ board.state \in States
  BY Fields DEF IInv, TypeOK
<1>1. sync = "live" /\ UNCHANGED <<host, peer, down, got, put, sync, resets>>
  BY DEF BoardFill
<1>2. board.life = 0 => /\ ~board.dirty /\ Visible(board) = board.shown
                        /\ board.grant = 0 /\ board.credit = 0
  BY DEF IInv, NearLives, ClearBoard, Visible
<1>3. /\ Visible(board) \in States
      /\ Visible(board) = "opening" <=> board.state = "opening"
      /\ Visible(board) = "closed" => board.state = "closed" /\ board.rx = <<>>
      /\ (board.state = "closed" /\ board.rx = <<>>) => Visible(board) = "closed"
      /\ Visible(board) = "peer_closed" => board.state = "peer_closed" /\ board.rx = <<>>
  <2>1. board.state = "opening" => board.rx = <<>>
    BY DEF IInv, BoardShape
  <2> QED BY <1>0, <2>1 DEF Visible, States
<1>4. Ended(board) <=> (board.state = "closed" /\ board.rx = <<>>)
  BY <1>0, Fields DEF Ended, IInv, BoardShape
<1>5. ASSUME board.dirty \/ Visible(board) # board.shown,
             up' = Append(up, Message("state", board.life, Visible(board), 0, <<>>)),
             board' = [board EXCEPT !.dirty = FALSE, !.shown = Visible(board)]
      PROVE  IInv'
  <2> DEFINE m == Message("state", board.life, Visible(board), 0, <<>>)
  <2>1. m \in ToHost /\ m.type = "state" /\ m.life = board.life /\ m.state = Visible(board)
    BY <1>0, <1>3 DEF Message, ToHost
  <2> HIDE DEF m
  <2>2. /\ board'.life = board.life /\ board'.state = board.state /\ board'.rx = board.rx
        /\ board'.tx = board.tx /\ board'.credit = board.credit
        /\ board'.grant = board.grant /\ board'.closing = board.closing
        /\ board'.fd = board.fd /\ board'.ended = board.ended
    BY <1>0, <1>5 DEF Boards
  <2>3. board' \in Boards
    <3>1. FALSE \in BOOLEAN
      OBVIOUS
    <3> QED BY <3>1, <1>0, <1>3, <1>5, Zenon DEF Boards
  <2>4. up' = Append(up, m)
    BY <1>5 DEF m
  <2>5. \A type : type # "state" => Total(up', type, host.life) = Total(up, type, host.life)
    <3> SUFFICES ASSUME NEW type, type # "state"
                 PROVE  Total(up', type, host.life) = Total(up, type, host.life)
      OBVIOUS
    <3>1. Weight(m, type, host.life) = 0
      BY <2>1 DEF Weight, Carries
    <3>2. Total(up, type, host.life) \in Nat
      BY <1>0, Counts
    <3> QED BY <3>1, <3>2, <2>1, <2>4, <1>0, UpTotals
  <2>6. Taken' = Taken
    BY <1>1, <2>2, <2>5 DEF Taken, Handed
  <2>7. Sent(m)
    <3>1. (Shows(m, "opening") <=> board.state = "opening") /\ (Shows(m, "closed") <=> Ended(board))
          /\ (Shows(m, "peer_closed") => board.state = "peer_closed" /\ board.rx = <<>>)
      BY <1>3, <1>4, <2>1 DEF Shows
    <3>2. board.life # 0 /\ m.type # "data"
      BY <1>2, <1>5, <2>1
    <3> QED BY <3>1, <3>2, <1>1, <2>1, <2>2, <2>3, <2>4, <2>6 DEF Sent
  <2>8. /\ TypeOK' /\ NearLives' /\ BoardShape' /\ DownInOrder' /\ ApartUntouched'
        /\ OpeningFirst' /\ ClosedLast' /\ Sending' /\ PeerClosed'
        /\ (Talking' <=> Talking) /\ Handed' = Handed
    BY <2>7, SentStep
  <2>9. HostCredit'
    BY <1>1, <2>2, <2>5, <2>8 DEF IInv, HostCredit
  <2>10. BoardCredit'
    BY <1>1, <2>2, <2>5, <2>8 DEF IInv, BoardCredit
  <2>11. Receiving'
    <3>1. ASSUME Talking PROVE Placed(up', "data", host.life, Handed)
      <4>1. Placed(up, "data", host.life, Handed)
        BY <3>1 DEF IInv, Receiving
      <4>2. ~Carries(m, "data", host.life) /\ m \in Messages /\ up \in Seq(Messages) /\ Handed \in Nat
        BY <1>0, <2>1, QueueFields, Fields DEF Carries, Messages
      <4> QED BY <4>1, <4>2, <2>4, PlacedAppend
    <3> QED BY <3>1, <1>1, <2>2, <2>5, <2>6, <2>8 DEF IInv, Receiving
  <2> QED BY <2>8, <2>9, <2>10, <2>11 DEF IInv
<1>6. ASSUME board.grant > 0,
             up' = Append(up, Message("txcredit", board.life, "", board.grant, <<>>)),
             board' = [board EXCEPT !.grant = 0]
      PROVE  IInv'
  <2> DEFINE m == Message("txcredit", board.life, "", board.grant, <<>>)
  <2>1. m \in ToHost /\ m.type = "txcredit" /\ m.life = board.life /\ m.n = board.grant
    BY <1>0, Fields DEF Message, ToHost
  <2> HIDE DEF m
  <2>2. /\ board' \in Boards
        /\ board'.life = board.life /\ board'.state = board.state /\ board'.rx = board.rx
        /\ board'.tx = board.tx /\ board'.credit = board.credit
        /\ board'.grant = 0 /\ board'.closing = board.closing
        /\ board'.fd = board.fd /\ board'.ended = board.ended
    BY <1>0, <1>6 DEF Boards
  <2>3. up' = Append(up, m)
    BY <1>6 DEF m
  <2>4. Total(up', "data", host.life) = Total(up, "data", host.life)
    <3>1. Weight(m, "data", host.life) = 0
      BY <2>1 DEF Weight, Carries
    <3>2. Total(up, "data", host.life) \in Nat
      BY <1>0, Counts
    <3> QED BY <3>1, <3>2, <2>1, <2>3, <1>0, UpTotals
  <2>5. Taken' = Taken
    BY <1>1, <2>2, <2>4 DEF Taken, Handed
  <2>6. Sent(m)
    <3>1. board.life # 0 /\ m.type = "txcredit" /\ board.grant # 0
      <4>1. board.grant \in Nat /\ board.grant > 0
        BY <1>0, <1>6, Fields
      <4>2. board.grant # 0
        BY <4>1
      <4> QED BY <4>2, <1>2, <2>1, Zenon
    <3>2. board.state # "opening" /\ ~Ended(board)
      BY <3>1 DEF IInv, BoardShape, Ended
    <3> QED BY <3>1, <3>2, <1>1, <2>1, <2>2, <2>3, <2>5 DEF Sent, Shows
  <2>7. /\ TypeOK' /\ NearLives' /\ BoardShape' /\ DownInOrder' /\ ApartUntouched'
        /\ OpeningFirst' /\ ClosedLast' /\ Sending' /\ PeerClosed'
        /\ (Talking' <=> Talking) /\ Handed' = Handed
    BY <2>6, SentStep
  <2>8. HostCredit'
    BY <1>1, <2>2, <2>4, <2>7 DEF IInv, HostCredit
  <2>9. BoardCredit'
    <3> SUFFICES ASSUME Talking, Streaming(board.state), host.state # "closing"
                 PROVE  Len(board'.tx) + board'.grant + Total(up', "txcredit", host.life)
                          + host.credit + Total(down, "send", host.life) = TxCap
      BY <1>1, <2>2, <2>7 DEF BoardCredit
    <3>1. Len(board.tx) + board.grant + Total(up, "txcredit", host.life)
            + host.credit + Total(down, "send", host.life) = TxCap
      BY DEF IInv, BoardCredit
    <3>2. board.life = host.life
      BY DEF Talking, Joined
    <3>3. Weight(m, "txcredit", host.life) = board.grant
      BY <2>1, <3>2 DEF Weight, Carries
    <3>4. Total(up', "txcredit", host.life) = Total(up, "txcredit", host.life) + board.grant
      BY <3>3, <2>1, <2>3, <1>0, UpTotals
    <3> DEFINE t == Len(board.tx)
               u == Total(up, "txcredit", host.life)
               d == Total(down, "send", host.life)
    <3>5. t \in Nat /\ u \in Nat /\ d \in Nat /\ board.grant \in Nat /\ host.credit \in Nat
      BY <1>0, Fields, Counts
    <3>6. t + board.grant + u + host.credit + d = TxCap
      BY <3>1
    <3> HIDE DEF t, u, d
    <3>7. t + 0 + (u + board.grant) + host.credit + d = TxCap
      BY <3>5, <3>6
    <3> QED BY <3>4, <3>7, <2>2 DEF t, u, d
  <2>10. Receiving'
    <3>1. ASSUME Talking PROVE Placed(up', "data", host.life, Handed)
      <4>1. Placed(up, "data", host.life, Handed)
        BY <3>1 DEF IInv, Receiving
      <4>2. ~Carries(m, "data", host.life) /\ m \in Messages /\ up \in Seq(Messages) /\ Handed \in Nat
        BY <1>0, <2>1, QueueFields, Fields DEF Carries, Messages
      <4> QED BY <4>1, <4>2, <2>3, PlacedAppend
    <3> QED BY <3>1, <1>1, <2>2, <2>4, <2>5, <2>7 DEF IInv, Receiving
  <2> QED BY <2>7, <2>8, <2>9, <2>10 DEF IInv
<1>7. ASSUME board.credit > 0, NEW part \in Parts(board.rx, board.credit),
             up' = Append(up, Message("data", board.life, "", Len(part), part)),
             board' = [board EXCEPT !.rx = Rest(@, part), !.credit = @ - Len(part)]
      PROVE  IInv'
  <2> DEFINE m == Message("data", board.life, "", Len(part), part)
             n == Len(part)
             r == Rest(board.rx, part)
             L == Len(board.rx)
             at == Handed + Total(up, "data", host.life)
  <2>0. /\ part \in Seq(Byte) /\ n \in 1..L /\ n <= board.credit /\ n \in Nat /\ Len(part) = n
        /\ r \in Seq(Byte) /\ Len(r) = L - n
    BY <1>0, Fields, PartFacts
  <2>1. /\ m \in ToHost /\ m.type = "data" /\ m.life = board.life /\ m.n = n /\ m.body = part
    BY <1>0, <2>0 DEF Message, ToHost
  <2>2. up' = Append(up, m)
    BY <1>7
  <2>3. board' = [board EXCEPT !.rx = r, !.credit = board.credit - n]
    BY <1>7
  <2>4. L \in Nat /\ at \in Nat /\ Taken = at + L /\ board.credit \in Nat
    <3>1. Handed \in Nat /\ L \in Nat /\ board.credit \in Nat /\ Total(up, "data", host.life) \in Nat
      BY <1>0, Fields, Counts
    <3> QED BY <3>1 DEF Taken
  <2>5. board.rx # <<>>
    BY <2>0, <2>4
  <2> HIDE DEF m, n, r, L, at
  <2>6. board.credit - n \in Nat
    BY <2>0, <2>4
  <2>7. /\ board'.life = board.life /\ board'.state = board.state /\ board'.rx = r
        /\ board'.tx = board.tx /\ board'.credit = board.credit - n
        /\ board'.grant = board.grant /\ board'.closing = board.closing
        /\ board'.fd = board.fd /\ board'.ended = board.ended
    BY <1>0, <2>3 DEF Boards
  <2>8. board' \in Boards
    BY <1>0, <2>0, <2>3, <2>6, Zenon DEF Boards
  <2>9. /\ Weight(m, "txcredit", host.life) = 0
        /\ board.life = host.life => Weight(m, "data", host.life) = n
        /\ board.life # host.life => Weight(m, "data", host.life) = 0
    BY <2>1 DEF Weight, Carries
  <2>10. /\ Total(up', "txcredit", host.life) = Total(up, "txcredit", host.life)
         /\ Total(up', "data", host.life) = Total(up, "data", host.life) + Weight(m, "data", host.life)
    <3>1. Total(up, "txcredit", host.life) \in Nat
      BY <1>0, Counts
    <3> QED BY <3>1, <2>1, <2>2, <2>9, <1>0, UpTotals
  <2>11. Handed' = Handed
    BY <1>1 DEF Handed
  <2>12. ASSUME Talking
         PROVE  Taken' = Taken /\ Total(up', "data", host.life) = Total(up, "data", host.life) + n
                /\ Handed' + Total(up', "data", host.life) = at + n
    <3>1. Total(up', "data", host.life) = Total(up, "data", host.life) + n
      BY <2>9, <2>10, <2>12 DEF Talking, Joined
    <3>2. Handed \in Nat /\ Total(up, "data", host.life) \in Nat
      BY <1>0, Fields, Counts
    <3>3. Handed' + Total(up', "data", host.life) = at + n
      <4> DEFINE u == Total(up, "data", host.life)
      <4>1. u \in Nat
        BY <3>2
      <4> HIDE DEF u
      <4>2. Handed + (u + n) = (Handed + u) + n
        BY <3>2, <4>1, <2>0
      <4> QED BY <4>2, <3>1, <2>11 DEF at, u
    <3>4. Taken' = (at + n) + Len(r)
      BY <3>3, <1>1, <2>7 DEF Taken
    <3>5. (at + n) + (L - n) = at + L
      BY <2>0, <2>4
    <3> QED BY <3>1, <3>3, <3>4, <3>5, <2>0, <2>4
  <2>13. Sent(m)
    <3>1. board.life # 0
      <4>1. board.credit # 0
        <5>1. board.credit > 0
          BY <1>7, Zenon
        <5> QED BY <5>1
      <4> QED BY <4>1, <1>2, Zenon
    <3>2. board.state # "opening" /\ ~Ended(board)
      BY <2>5 DEF IInv, BoardShape, Ended
    <3> QED BY <3>1, <3>2, <1>1, <2>1, <2>2, <2>5, <2>7, <2>8, <2>12 DEF Sent, Shows
  <2>14. /\ TypeOK' /\ NearLives' /\ BoardShape' /\ DownInOrder' /\ ApartUntouched'
         /\ OpeningFirst' /\ ClosedLast' /\ Sending' /\ PeerClosed'
         /\ (Talking' <=> Talking) /\ Handed' = Handed
    BY <2>13, SentStep
  <2>15. HostCredit'
    <3> SUFFICES ASSUME Talking
                 PROVE  (board.credit - n) + Total(up', "data", host.life) + Len(host.rx) + host.back
                          + Total(down, "credit", host.life) = RxMax
      BY <1>1, <2>7, <2>14 DEF HostCredit
    <3> DEFINE u == Total(up, "data", host.life)
               h == Len(host.rx)
               d == Total(down, "credit", host.life)
    <3>1. board.credit + u + h + host.back + d = RxMax
      BY DEF IInv, HostCredit
    <3>2. Total(up', "data", host.life) = u + n
      BY <2>12
    <3>3. u \in Nat /\ h \in Nat /\ d \in Nat /\ host.back \in Nat
      BY <1>0, Fields, Counts
    <3> HIDE DEF u, h, d
    <3>4. (board.credit - n) + (u + n) + h + host.back + d = RxMax
      BY <3>1, <3>3, <2>0, <2>4
    <3> QED BY <3>2, <3>4 DEF h, d
  <2>16. BoardCredit'
    BY <1>1, <2>7, <2>10, <2>14 DEF IInv, BoardCredit
  <2>17. Receiving'
    <3>1. ASSUME Talking
          PROVE  /\ Placed(up', "data", host.life, Handed)
                 /\ r = Bytes(host.life, at + n, Len(r))
      <4>1. /\ Placed(up, "data", host.life, Handed)
            /\ board.rx = Bytes(host.life, at, Len(board.rx))
        BY <3>1 DEF IInv, Receiving, at
      <4>2. part = Bytes(host.life, at, n) /\ r = Bytes(host.life, at + n, Len(r))
        <5>1. host.life \in Nat /\ board.rx \in Seq(Byte) /\ board.credit \in Nat /\ at \in Nat
          BY <1>0, <2>4, Fields
        <5> QED BY <5>1, <4>1, <1>7, BytesPart DEF n, r
      <4>3. m.body = Bytes(host.life, Handed + Total(up, "data", host.life), m.n)
        BY <4>2, <2>1 DEF at
      <4>4. m \in Messages /\ up \in Seq(Messages) /\ Handed \in Nat
        BY <1>0, <2>1, QueueFields, Fields DEF Messages
      <4>5. Placed(up', "data", host.life, Handed)
        BY <4>1, <4>3, <4>4, <2>2, PlacedAppend
      <4> QED BY <4>2, <4>5
    <3> QED BY <3>1, <1>1, <2>7, <2>11, <2>12, <2>14 DEF IInv, Receiving
  <2> QED BY <2>14, <2>15, <2>16, <2>17 DEF IInv
<1> QED BY <1>5, <1>6, <1>7 DEF BoardFill

-----------------------------------------------------------------------------
(* What the board receives *)

(* What every message but an open leaves as it was *)
Handled(m) ==
  /\ sync = "live" /\ down # <<>> /\ m = Head(down) /\ m.type # "open" /\ down' = Tail(down)
  /\ UNCHANGED <<host, up, got, put, sync, resets>>
  /\ board' \in Boards /\ board'.life = board.life /\ (board.life = 0 => board' = board)
  /\ board'.state = "opening" => board.state = "opening"
  /\ Ended(board) => Ended(board')
  /\ peer' \in Peers /\ peer'.life = peer.life

(* Whatever is handled, this much is kept *)
LEMMA HandledStep ==
  ASSUME IInv, NEW m, Handled(m)
  PROVE  /\ TypeOK' /\ NearLives' /\ DownInOrder' /\ ApartUntouched'
         /\ OpeningFirst' /\ ClosedLast' /\ (Joined' <=> Joined) /\ (Talking' <=> Talking)
         /\ Handed' = Handed
<1>0. TypeOK /\ down \in Seq(ToBoard) /\ down # <<>>
  BY DEF IInv, TypeOK, Handled
<1>1. /\ sync = "live" /\ down' = Tail(down) /\ UNCHANGED <<host, up, got, put, sync, resets>>
      /\ board'.life = board.life
  BY DEF Handled
<1>2. /\ down' \in Seq(ToBoard)
      /\ \A i \in DOMAIN down' : /\ i \in Nat /\ i + 1 \in DOMAIN down
                                 /\ down'[i] = down[i + 1] /\ 1 < i + 1
      /\ \A i, j \in DOMAIN down' : i < j => i + 1 < j + 1
  BY <1>0, <1>1, Shortened
<1>3. (Joined' <=> Joined) /\ (Talking' <=> Talking) /\ Handed' = Handed
  BY <1>1 DEF Joined, Talking, Handed
<1>4. TypeOK'
  BY <1>0, <1>1, <1>2 DEF TypeOK, Handled
<1>5. NearLives'
  BY <1>1 DEF IInv, NearLives, Handled
<1>6. DownInOrder'
  <2>1. BoardLife' = BoardLife
    BY <1>1 DEF BoardLife
  <2>2. ASSUME NEW i \in DOMAIN down'
        PROVE  /\ 1 <= down'[i].life /\ BoardLife <= down'[i].life /\ down'[i].life <= host.life
               /\ host.life - down'[i].life < GenCount
               /\ down'[i].type = "open" =>
                    /\ BoardLife < down'[i].life /\ down'[i].n = RxMax
                    /\ down'[i].life = host.life => host.state = "opening"
               /\ down'[i].type \in {"send", "credit"} => down'[i].life = BoardLife
               /\ (down'[i].type = "close" /\ down'[i].life = host.life) =>
                    host.state \in {"closing", "closed"}
    <3>1. i + 1 \in DOMAIN down /\ down'[i] = down[i + 1]
      BY <1>2
    <3> QED BY <3>1, <1>1 DEF IInv, DownInOrder
  <2>3. ASSUME NEW i \in DOMAIN down', NEW j \in DOMAIN down', i < j
        PROVE  /\ down'[i].life <= down'[j].life
               /\ down'[j].type = "open" => down'[i].life < down'[j].life
    <3>1. /\ i + 1 \in DOMAIN down /\ j + 1 \in DOMAIN down /\ i + 1 < j + 1
          /\ down'[i] = down[i + 1] /\ down'[j] = down[j + 1]
      BY <2>3, <1>2
    <3> QED BY <3>1, <1>1 DEF IInv, DownInOrder
  <2>4. board'.state = "opening" => \A i \in DOMAIN down' : down'[i].type # "send"
    BY <1>1, <1>2 DEF IInv, DownInOrder, Handled
  <2> QED BY <2>1, <2>2, <2>3, <2>4, <1>1 DEF DownInOrder
<1>7. ApartUntouched'
  BY <1>1, <1>3 DEF IInv, ApartUntouched, Untouched
<1>8. OpeningFirst'
  BY <1>1, <1>3 DEF IInv, OpeningFirst, Untouched, Handled
<1>9. ClosedLast'
  BY <1>1, <1>3 DEF IInv, ClosedLast, Handled
<1> QED BY <1>3, <1>4, <1>5, <1>6, <1>7, <1>8, <1>9

(* The counts of what is left *)
LEMMA HandledTotals ==
  ASSUME TypeOK, down # <<>>, NEW type, NEW life
  PROVE  /\ Total(down, type, life) = Weight(Head(down), type, life) + Total(Tail(down), type, life)
         /\ Total(Tail(down), type, life) \in Nat /\ Weight(Head(down), type, life) \in Nat
         /\ Head(down) \in Messages /\ Tail(down) \in Seq(Messages)
<1>1. down \in Seq(Messages)
  BY QueueFields
<1>2. Head(down) \in Messages /\ Tail(down) \in Seq(Messages)
  BY <1>1, Shortened
<1> QED BY <1>1, <1>2, TotalTail, TotalsFacts, MessageFacts

(* A close: nothing, an orderly close begun, or the end *)
LEMMA SockCloseStep ==
  ASSUME IInv, NEW m, Handled(m), m.type = "close",
         \/ board' = board /\ peer' = peer
         \/ /\ board.life # 0 /\ m.life = board.life /\ Streaming(board.state)
            /\ board' = [board EXCEPT !.closing = TRUE, !.state = "closing", !.dirty = TRUE]
            /\ peer' = peer
         \/ /\ board.life # 0 /\ m.life = board.life
            /\ board' = [Finish(board) EXCEPT !.rx = <<>>]
            /\ peer' = [peer EXCEPT !.up = FALSE]
  PROVE  IInv'
<1>0. TypeOK /\ board \in Boards /\ peer \in Peers
  BY DEF IInv, TypeOK
<1>1. /\ sync = "live" /\ down # <<>> /\ m = Head(down) /\ down' = Tail(down)
      /\ UNCHANGED <<host, up, got, put, sync, resets>>
  BY DEF Handled
<1>2. /\ TypeOK' /\ NearLives' /\ DownInOrder' /\ ApartUntouched'
      /\ OpeningFirst' /\ ClosedLast' /\ (Joined' <=> Joined) /\ (Talking' <=> Talking)
      /\ Handed' = Handed
  BY HandledStep
<1>3. \A type, life : type # "close" => Total(down', type, life) = Total(down, type, life)
  <2> SUFFICES ASSUME NEW type, NEW life, type # "close"
               PROVE  Total(down', type, life) = Total(down, type, life)
    OBVIOUS
  <2>1. Weight(m, type, life) = 0
    BY DEF Weight, Carries
  <2> QED BY <2>1, <1>0, <1>1, HandledTotals
<1>4. ASSUME NEW life, NEW from \in Nat, Placed(down, "send", life, from)
      PROVE  Placed(down', "send", life, from)
  <2>1. Weight(m, "send", life) = 0
    BY DEF Weight, Carries
  <2>2. Placed(Tail(down), "send", life, from + Weight(Head(down), "send", life))
    BY <1>0, <1>1, <1>4, QueueFields, PlacedTail
  <2> QED BY <2>1, <2>2, <1>1
<1>5. CASE board' = board /\ peer' = peer
  <2>1. Taken' = Taken
    BY <1>1, <1>2, <1>5 DEF Taken
  <2>2. BoardShape'
    BY <1>5 DEF IInv, BoardShape
  <2>3. HostCredit' /\ BoardCredit'
    BY <1>1, <1>2, <1>3, <1>5 DEF IInv, HostCredit, BoardCredit
  <2>4. Sending'
    <3>1. Len(peer.got) + Len(board.tx) \in Nat
      BY <1>0, Giving
    <3>2. ASSUME Streaming(board.state)
          PROVE  /\ Placed(down', "send", board.life, Len(peer.got) + Len(board.tx))
                 /\ Total(down', "send", board.life) = Total(down, "send", board.life)
      <4>1. Placed(down, "send", board.life, Len(peer.got) + Len(board.tx))
        BY <3>2, <1>1 DEF IInv, Sending
      <4> QED BY <4>1, <3>1, <1>3, <1>4
    <3> QED BY <3>2, <1>1, <1>2, <1>5 DEF IInv, Sending
  <2>5. Receiving'
    BY <1>1, <1>2, <1>5, <2>1 DEF IInv, Receiving
  <2>6. PeerClosed'
    BY <1>1, <1>2, <1>5, <2>1 DEF IInv, PeerClosed
  <2> QED BY <1>2, <2>2, <2>3, <2>4, <2>5, <2>6 DEF IInv
<1>6. CASE /\ board.life # 0 /\ m.life = board.life /\ Streaming(board.state)
           /\ board' = [board EXCEPT !.closing = TRUE, !.state = "closing", !.dirty = TRUE]
           /\ peer' = peer
  <2>1. /\ board'.life = board.life /\ board'.state = "closing" /\ board'.rx = board.rx
        /\ board'.tx = board.tx /\ board'.credit = board.credit
        /\ board'.grant = board.grant /\ board'.closing
        /\ board'.fd = board.fd /\ board'.ended = board.ended
    BY <1>0, <1>6 DEF Boards
  <2>2. Taken' = Taken
    BY <1>1, <1>2, <2>1 DEF Taken
  <2>3. BoardShape'
    BY <1>6, <2>1 DEF IInv, BoardShape, Streaming
  <2>4. HostCredit'
    BY <1>1, <1>2, <1>3, <2>1 DEF IInv, HostCredit
  <2>5. BoardCredit' /\ Sending'
    BY <1>6, <2>1 DEF IInv, BoardCredit, Sending, Streaming
  <2>6. Receiving'
    BY <1>1, <1>2, <1>6, <2>1, <2>2 DEF IInv, Receiving
  <2>7. PeerClosed'
    BY <1>1, <1>2, <1>6, <2>1, <2>2 DEF IInv, PeerClosed, Drained
  <2> QED BY <1>2, <2>3, <2>4, <2>5, <2>6, <2>7 DEF IInv
<1>7. CASE /\ board.life # 0 /\ m.life = board.life
           /\ board' = [Finish(board) EXCEPT !.rx = <<>>]
           /\ peer' = [peer EXCEPT !.up = FALSE]
  <2> DEFINE f == Finish(board)
  <2>0. /\ f \in Boards /\ f.life = board.life /\ f.state = "closed" /\ f.tx = <<>>
        /\ f.credit = board.credit /\ f.grant = 0 /\ ~f.closing /\ ~f.fd /\ f.ended
    BY <1>0, FinishFields
  <2> HIDE DEF f
  <2>1. /\ board'.life = board.life /\ board'.state = "closed" /\ board'.rx = <<>>
        /\ board'.tx = <<>> /\ board'.credit = board.credit
        /\ board'.grant = 0 /\ ~board'.closing /\ ~board'.fd
    BY <1>7, <2>0 DEF Boards, f
  <2>2. /\ peer'.life = peer.life /\ peer'.sent = peer.sent /\ ~peer'.up
        /\ peer'.fin = peer.fin /\ peer'.got = peer.got
    BY <1>0, <1>7 DEF Peers
  <2>3. BoardShape'
    BY <2>1, <2>2 DEF BoardShape
  <2>4. HostCredit'
    BY <1>1, <1>2, <1>3, <2>1 DEF IInv, HostCredit
  <2>5. BoardCredit'
    BY <2>1 DEF BoardCredit, Streaming
  <2>6. Sending'
    <3>1. board'.tx = Bytes(peer'.life, Len(peer'.got), Len(board'.tx))
      BY <2>1, NoBytes
    <3> QED BY <3>1, <2>1, <2>2 DEF IInv, Sending, Streaming
  <2>7. Receiving'
    <3>1. \A from : board'.rx = Bytes(host.life, from, Len(board'.rx))
      BY <2>1, NoBytes
    <3> QED BY <3>1, <1>1, <1>2, <2>1, <2>2 DEF IInv, Receiving
  <2>8. Drained(board) => Taken' = Taken
    BY <1>1, <1>2, <2>1 DEF Taken, Drained
  <2>9. PeerClosed'
    BY <1>1, <1>2, <2>1, <2>2, <2>8 DEF IInv, PeerClosed, Drained
  <2> QED BY <1>2, <2>3, <2>4, <2>5, <2>6, <2>7, <2>9 DEF IInv
<1> QED BY <1>5, <1>6, <1>7

(* Bytes to send: the ring has room for all of them *)
LEMMA SockSendStep ==
  ASSUME IInv, NEW m, Handled(m), m.type = "send", m.life = board.life, board.life # 0,
         board' = SockSend(board, m), peer' = peer
  PROVE  IInv'
<1>0. TypeOK /\ board \in Boards /\ peer \in Peers
  BY DEF IInv, TypeOK
<1>1. /\ sync = "live" /\ down # <<>> /\ m = Head(down) /\ down' = Tail(down)
      /\ UNCHANGED <<host, up, got, put, sync, resets>>
  BY DEF Handled
<1>2. /\ TypeOK' /\ NearLives' /\ DownInOrder' /\ ApartUntouched'
      /\ OpeningFirst' /\ ClosedLast' /\ (Joined' <=> Joined) /\ (Talking' <=> Talking)
      /\ Handed' = Handed
  BY HandledStep
<1>3. Total(down', "credit", host.life) = Total(down, "credit", host.life)
  <2>1. Weight(m, "credit", host.life) = 0
    BY DEF Weight, Carries
  <2> QED BY <2>1, <1>0, <1>1, HandledTotals
<1>4. CASE board' = board /\ ~Streaming(board.state)
  <2>1. Taken' = Taken
    BY <1>1, <1>2, <1>4 DEF Taken
  <2>2. BoardShape'
    BY <1>4 DEF IInv, BoardShape
  <2>3. HostCredit' /\ BoardCredit'
    BY <1>1, <1>2, <1>3, <1>4 DEF IInv, HostCredit, BoardCredit
  <2>4. Sending'
    BY <1>4 DEF IInv, Sending
  <2>5. Receiving'
    BY <1>1, <1>2, <1>4, <2>1 DEF IInv, Receiving
  <2>6. PeerClosed'
    BY <1>1, <1>2, <1>4, <2>1 DEF IInv, PeerClosed
  <2> QED BY <1>2, <2>2, <2>3, <2>4, <2>5, <2>6 DEF IInv
<1>5. CASE Streaming(board.state) /\ ~board.closing
  <2> DEFINE t == Len(board.tx)
             g == Len(peer.got)
             d == Total(down, "send", board.life)
             e == Total(down', "send", board.life)
             n == m.n
  <2>1. t \in Nat /\ g \in Nat /\ t + d <= TxCap /\ Placed(down, "send", board.life, g + t)
        /\ (Joined => g + t + d = put) /\ g + t \in Nat
    BY <1>0, <1>1, <1>5, Fields, Giving DEF IInv, Sending
  <2>2. /\ Carries(m, "send", board.life) /\ Weight(m, "send", board.life) = n
        /\ d = n + e /\ e \in Nat /\ n \in Nat /\ d \in Nat /\ m \in Messages
    <3>1. Carries(m, "send", board.life) /\ Weight(m, "send", board.life) = n
      BY DEF Carries, Weight
    <3> QED BY <3>1, <1>0, <1>1, HandledTotals, Counts
  <2> HIDE DEF t, g, d, e
  <2>3. m.body = Bytes(board.life, g + t, n) /\ Placed(down', "send", board.life, (g + t) + n)
    <3> DEFINE from == g + t
    <3>1. /\ down \in Seq(Messages) /\ down # <<>> /\ from \in Nat
          /\ Placed(down, "send", board.life, from)
      BY <1>0, <1>1, <2>1, QueueFields
    <3> HIDE DEF from
    <3>2. /\ Carries(Head(down), "send", board.life) =>
               Head(down).body = Bytes(board.life, from, Head(down).n)
          /\ Placed(Tail(down), "send", board.life, from + Weight(Head(down), "send", board.life))
      BY <3>1, PlacedTail
    <3>3. m.body = Bytes(board.life, from, n) /\ Placed(down', "send", board.life, from + n)
      BY <3>2, <2>2, <1>1
    <3> QED BY <3>3 DEF from
  <2> HIDE DEF n
  <2>4. m.body \in Seq(Byte) /\ Len(m.body) = n
    <3>1. board.life \in Nat /\ g + t \in Nat /\ n \in Nat
      BY <1>0, <2>1, <2>2, Fields
    <3>2. Bytes(board.life, g + t, n) \in Seq(Byte) /\ Len(Bytes(board.life, g + t, n)) = n
      BY <3>1, BytesFacts
    <3> QED BY <3>2, <2>3
  <2>5. TxCap \in Nat /\ ~(TxCap - t < n)
    BY <2>1, <2>2, Sizes
  <2>6. board' = [board EXCEPT !.tx = board.tx \o m.body]
    <3>1. board' = [board EXCEPT !.tx = board.tx \o SubSeq(m.body, 1,
                      IF Len(m.body) < TxCap - Len(board.tx) THEN Len(m.body) ELSE TxCap - Len(board.tx))]
      BY <1>5 DEF SockSend
    <3> DEFINE c == IF Len(m.body) < TxCap - Len(board.tx) THEN Len(m.body) ELSE TxCap - Len(board.tx)
    <3>2. c = n
      BY <2>1, <2>2, <2>4, <2>5 DEF t
    <3>3. SubSeq(m.body, 1, n) = m.body
      BY <2>2, <2>4
    <3>4. board' = [board EXCEPT !.tx = board.tx \o SubSeq(m.body, 1, c)]
      BY <3>1
    <3> HIDE DEF c
    <3> QED BY <3>2, <3>3, <3>4
  <2>7. /\ board.tx \o m.body \in Seq(Byte) /\ Len(board.tx \o m.body) = t + n
    BY <1>0, <2>4, Fields, LenJoin DEF t
  <2>8. /\ board'.life = board.life /\ board'.state = board.state /\ board'.rx = board.rx
        /\ board'.tx = board.tx \o m.body /\ board'.credit = board.credit
        /\ board'.grant = board.grant /\ board'.closing = board.closing
        /\ board'.fd = board.fd /\ board'.ended = board.ended
    BY <1>0, <2>6 DEF Boards
  <2>9. Len(board'.tx) = t + n /\ (t + n) + e = t + d
    <3>1. (t + n) + e = t + d
      BY <2>1, <2>2
    <3> QED BY <3>1, <2>7, <2>8
  <2>10. Taken' = Taken
    BY <1>1, <1>2, <2>8 DEF Taken
  <2>11. BoardShape'
    BY <1>5, <2>8 DEF IInv, BoardShape, Streaming
  <2>12. HostCredit'
    BY <1>1, <1>2, <1>3, <2>8 DEF IInv, HostCredit
  <2>13. BoardCredit'
    <3> SUFFICES ASSUME Talking, host.state # "closing"
                 PROVE  Len(board'.tx) + board.grant + Total(up, "txcredit", host.life)
                          + host.credit + Total(down', "send", host.life) = TxCap
      BY <1>1, <1>2, <2>8 DEF BoardCredit
    <3> DEFINE u == Total(up, "txcredit", host.life)
    <3>1. board.life = host.life
      BY DEF Talking, Joined
    <3>2. t + board.grant + u + host.credit + d = TxCap
      BY <1>5, <3>1 DEF IInv, BoardCredit, t, d
    <3>3. u \in Nat /\ board.grant \in Nat /\ host.credit \in Nat
      BY <1>0, Fields, Counts
    <3> HIDE DEF u
    <3>4. (t + n) + board.grant + u + host.credit + e = TxCap
      BY <3>2, <3>3, <2>1, <2>2
    <3> QED BY <3>1, <3>4, <2>9 DEF u, e
  <2>14. Sending'
    <3>1. board'.tx = Bytes(peer.life, g, Len(board'.tx))
      <4>1. board.tx = Bytes(peer.life, g, t)
        BY DEF IInv, Sending, g, t
      <4>2. peer.life = board.life /\ peer.life \in Nat
        BY <1>0, Fields DEF IInv, NearLives
      <4>3. Follow(board.tx, m.body, Bytes(peer.life, g, Len(board'.tx)))
        <5> DEFINE mid == g + t
                   all == Len(board'.tx)
        <5>1. /\ peer.life \in Nat /\ g \in Nat /\ t \in Nat /\ n \in Nat
              /\ mid = g + t /\ all = t + n /\ m.body = Bytes(peer.life, mid, n)
          BY <4>2, <2>1, <2>2, <2>3, <2>9
        <5> HIDE DEF mid, all
        <5>2. Follow(board.tx, m.body, Bytes(peer.life, g, all))
          BY <5>1, <4>1, BytesJoin
        <5> QED BY <5>2 DEF all
      <4> QED BY <4>3, <2>8 DEF Follow
    <3>2. Len(board'.tx) + e <= TxCap
      BY <2>1, <2>9
    <3>3. /\ g + Len(board'.tx) = (g + t) + n
          /\ Joined => g + Len(board'.tx) + e = put
      <4>1. g + (t + n) = (g + t) + n /\ g + (t + n) + e = g + t + d
        BY <2>1, <2>2
      <4> QED BY <4>1, <2>1, <2>9
    <3> QED BY <3>1, <3>2, <3>3, <2>3, <2>8, <1>1, <1>2 DEF IInv, Sending, g, e
  <2>15. Receiving'
    BY <1>1, <1>2, <2>8, <2>10 DEF IInv, Receiving
  <2>16. PeerClosed'
    BY <1>1, <1>2, <2>8, <2>10 DEF IInv, PeerClosed, Drained
  <2> QED BY <1>2, <2>11, <2>12, <2>13, <2>14, <2>15, <2>16 DEF IInv
<1>6. board.closing => ~Streaming(board.state)
  BY DEF IInv, BoardShape, Streaming
<1> QED BY <1>4, <1>5, <1>6 DEF SockSend

(* Credit given back *)
LEMMA CreditStep ==
  ASSUME IInv, NEW m, Handled(m), m.type = "credit", m.life = board.life, board.life # 0,
         board' = [board EXCEPT !.credit = @ + m.n], peer' = peer
  PROVE  IInv'
<1>0. TypeOK /\ board \in Boards /\ peer \in Peers
  BY DEF IInv, TypeOK
<1>1. /\ sync = "live" /\ down # <<>> /\ m = Head(down) /\ down' = Tail(down)
      /\ UNCHANGED <<host, up, got, put, sync, resets>>
  BY DEF Handled
<1>2. /\ TypeOK' /\ NearLives' /\ DownInOrder' /\ ApartUntouched'
      /\ OpeningFirst' /\ ClosedLast' /\ (Joined' <=> Joined) /\ (Talking' <=> Talking)
      /\ Handed' = Handed
  BY HandledStep
<1>3. ASSUME NEW life
      PROVE  /\ Total(down', "send", life) = Total(down, "send", life)
             /\ \A from \in Nat : Placed(down, "send", life, from) => Placed(down', "send", life, from)
  <2>1. Weight(m, "send", life) = 0
    BY DEF Weight, Carries
  <2>2. ASSUME NEW from \in Nat, Placed(down, "send", life, from)
        PROVE  Placed(down', "send", life, from)
    <3>1. Placed(Tail(down), "send", life, from + Weight(Head(down), "send", life))
      BY <1>0, <1>1, <2>2, QueueFields, PlacedTail
    <3> QED BY <3>1, <2>1, <1>1
  <2> QED BY <2>1, <2>2, <1>0, <1>1, HandledTotals
<1>4. /\ board'.life = board.life /\ board'.state = board.state /\ board'.rx = board.rx
      /\ board'.tx = board.tx /\ board'.credit = board.credit + m.n
      /\ board'.grant = board.grant /\ board'.closing = board.closing
      /\ board'.fd = board.fd /\ board'.ended = board.ended
  BY <1>0 DEF Boards
<1>5. Taken' = Taken
  BY <1>1, <1>2, <1>4 DEF Taken
<1>6. BoardShape'
  BY <1>4 DEF IInv, BoardShape
<1>7. BoardCredit'
  BY <1>1, <1>2, <1>3, <1>4 DEF IInv, BoardCredit
<1>8. HostCredit'
  <2> SUFFICES ASSUME Talking
               PROVE  (board.credit + m.n) + Total(up, "data", host.life) + Len(host.rx) + host.back
                        + Total(down', "credit", host.life) = RxMax
    BY <1>1, <1>2, <1>4 DEF HostCredit
  <2> DEFINE u == Total(up, "data", host.life)
             h == Len(host.rx)
             d == Total(down, "credit", host.life)
             e == Total(down', "credit", host.life)
             n == m.n
  <2>1. board.credit + u + h + host.back + d = RxMax
    BY DEF IInv, HostCredit
  <2>2. Weight(m, "credit", host.life) = n
    BY DEF Talking, Joined, Weight, Carries
  <2>3. d = n + e /\ e \in Nat /\ n \in Nat
    BY <2>2, <1>0, <1>1, HandledTotals
  <2>4. u \in Nat /\ h \in Nat /\ host.back \in Nat /\ board.credit \in Nat
    BY <1>0, Fields, Counts
  <2> HIDE DEF u, h, d, e, n
  <2>5. (board.credit + n) + u + h + host.back + e = RxMax
    BY <2>1, <2>3, <2>4
  <2> QED BY <2>5 DEF u, h, e, n
<1>9. Sending'
  <2>1. ASSUME Streaming(board.state)
        PROVE  /\ Placed(down', "send", board.life, Len(peer.got) + Len(board.tx))
               /\ Total(down', "send", board.life) = Total(down, "send", board.life)
    <3>1. Placed(down, "send", board.life, Len(peer.got) + Len(board.tx))
      BY <2>1, <1>1 DEF IInv, Sending
    <3> QED BY <3>1, <1>0, <1>3, Giving
  <2> QED BY <2>1, <1>1, <1>2, <1>4 DEF IInv, Sending
<1>10. Receiving'
  BY <1>1, <1>2, <1>4, <1>5 DEF IInv, Receiving
<1>11. PeerClosed'
  BY <1>1, <1>2, <1>4, <1>5 DEF IInv, PeerClosed, Drained
<1> QED BY <1>2, <1>6, <1>7, <1>8, <1>9, <1>10, <1>11 DEF IInv

LEMMA OpenedBoard ==
  ASSUME NEW life \in Nat
  PROVE  [life |-> life, state |-> "opening", rx |-> <<>>, tx |-> <<>>, credit |-> RxMax,
          grant |-> 0, closing |-> FALSE, fin |-> FALSE, ended |-> FALSE, dirty |-> TRUE,
          shown |-> "closed", fd |-> TRUE] \in Boards
<1>1. RxMax \in Nat
  BY Sizes
<1> QED BY <1>1 DEF Boards, States

LEMMA OpenedPeer ==
  ASSUME NEW life \in Nat
  PROVE  [life |-> life, up |-> FALSE, sent |-> 0, net |-> <<>>, fin |-> FALSE, got |-> <<>>] \in Peers
BY DEF Peers

(* A new connection: the host has done nothing on it but ask for it *)
LEMMA SockOpenStep ==
  ASSUME IInv, sync = "live", down # <<>>, Head(down).type = "open", down' = Tail(down),
         board' = SockOpen(Head(down)), peer' = [NoPeer EXCEPT !.life = Head(down).life],
         UNCHANGED <<host, up, got, put, sync, resets>>
  PROVE  IInv'
<1> DEFINE m == Head(down)
           L == m.life
<1>0. TypeOK /\ down \in Seq(ToBoard)
  BY DEF IInv, TypeOK
<1>1. /\ down' \in Seq(ToBoard) /\ m \in ToBoard /\ 1 \in DOMAIN down /\ down[1] = m
      /\ \A i \in DOMAIN down' : /\ i \in Nat /\ i + 1 \in DOMAIN down
                                 /\ down'[i] = down[i + 1] /\ 1 < i + 1
      /\ \A i, j \in DOMAIN down' : i < j => i + 1 < j + 1
  BY <1>0, Shortened
<1>2. L \in Nat /\ board.life \in Nat /\ host.life \in Nat
  BY <1>0, <1>1, Fields DEF ToBoard
<1>3. /\ BoardLife = board.life
      /\ 1 <= L /\ board.life < L /\ L <= host.life /\ host.life - L < GenCount
      /\ m.n = RxMax /\ (L = host.life => host.state = "opening")
  BY <1>1 DEF IInv, DownInOrder, BoardLife
<1>4. /\ board' \in Boards /\ board'.life = L /\ board'.state = "opening" /\ board'.rx = <<>>
      /\ board'.tx = <<>> /\ board'.credit = RxMax /\ board'.grant = 0 /\ ~board'.closing
      /\ board'.fd
  <2>1. board' = [life |-> L, state |-> "opening", rx |-> <<>>, tx |-> <<>>, credit |-> RxMax,
                  grant |-> 0, closing |-> FALSE, fin |-> FALSE, ended |-> FALSE, dirty |-> TRUE,
                  shown |-> "closed", fd |-> TRUE]
    BY <1>3 DEF SockOpen, ClearBoard
  <2>2. RxMax \in Nat /\ {"opening", "closed"} \subseteq States /\ <<>> \in Seq(Byte)
    BY Sizes DEF States
  <2> HIDE DEF L, m
  <2>3. board' \in Boards
    BY <2>1, <1>2, OpenedBoard
  <2> QED BY <2>1, <2>3
<1>5. /\ peer' \in Peers /\ peer'.life = L /\ ~peer'.up /\ peer'.sent = 0 /\ peer'.net = <<>>
      /\ peer'.got = <<>> /\ peer' = [NoPeer EXCEPT !.life = board'.life]
  <2>1. peer' = [life |-> L, up |-> FALSE, sent |-> 0, net |-> <<>>, fin |-> FALSE, got |-> <<>>]
    BY DEF NoPeer
  <2>2. peer' = [NoPeer EXCEPT !.life = board'.life]
    BY <1>4
  <2> HIDE DEF L, m
  <2>3. peer' \in Peers
    BY <2>1, <1>2, OpenedPeer
  <2> QED BY <2>1, <2>2, <2>3
<1> HIDE DEF m, L
<1>6. ~Joined /\ (Untouched("closed") \/ Untouched("opening"))
  <2>1. ~Joined
    BY <1>2, <1>3 DEF Joined
  <2> QED BY <2>1 DEF IInv, ApartUntouched
<1>7. L = host.life => Untouched("opening")
  BY <1>3, <1>6 DEF Untouched, FreshHost
<1>8. \A i \in DOMAIN up : up[i].life < L /\ up[i].life \in Nat
  <2>1. \A i \in DOMAIN up : up[i].life <= board.life /\ up[i].life \in Nat
    BY <1>0, QueueFields DEF IInv, NearLives
  <2> QED BY <2>1, <1>2, <1>3
<1>9. ASSUME NEW i \in DOMAIN down'
      PROVE  /\ 1 <= down'[i].life /\ L <= down'[i].life /\ down'[i].life <= host.life
             /\ host.life - down'[i].life < GenCount
             /\ down'[i].type = "open" =>
                  /\ L < down'[i].life /\ down'[i].n = RxMax
                  /\ down'[i].life = host.life => host.state = "opening"
             /\ down'[i].type \notin {"send", "credit"}
             /\ (down'[i].type = "close" /\ down'[i].life = host.life) =>
                  host.state \in {"closing", "closed"}
  <2>1. i + 1 \in DOMAIN down /\ down'[i] = down[i + 1] /\ 1 < i + 1
    BY <1>1
  <2>2. /\ 1 <= down'[i].life /\ down'[i].life <= host.life
        /\ host.life - down'[i].life < GenCount
        /\ down'[i].type = "open" =>
             /\ down'[i].n = RxMax
             /\ down'[i].life = host.life => host.state = "opening"
        /\ down'[i].type \in {"send", "credit"} => down'[i].life = board.life
        /\ (down'[i].type = "close" /\ down'[i].life = host.life) =>
             host.state \in {"closing", "closed"}
    BY <2>1, <1>3 DEF IInv, DownInOrder
  <2>3. L <= down'[i].life /\ (down'[i].type = "open" => L < down'[i].life)
    BY <2>1, <1>1 DEF IInv, DownInOrder, L
  <2>4. down'[i].life # board.life
    BY <2>3, <1>2, <1>3
  <2> QED BY <2>2, <2>3, <2>4
<1>10. TypeOK'
  BY <1>0, <1>1, <1>4, <1>5 DEF TypeOK
<1>11. NearLives'
  <2>1. \A i \in DOMAIN up : /\ 1 <= up[i].life /\ up[i].life <= L
                             /\ host.life - up[i].life < GenCount
    BY <1>2, <1>8 DEF IInv, NearLives
  <2>2. up # <<>> => sync = "live"
    OBVIOUS
  <2>3. host.state # "closed" => host.life # 0
    BY DEF IInv, NearLives
  <2>4. L # 0
    BY <1>2, <1>3
  <2> QED BY <2>1, <2>2, <2>3, <2>4, <1>3, <1>4, <1>5 DEF NearLives
<1>12. BoardShape'
  BY <1>4, <1>5 DEF BoardShape
<1>13. DownInOrder'
  <2>1. BoardLife' = L
    BY <1>4 DEF BoardLife
  <2>2. ASSUME NEW i \in DOMAIN down', NEW j \in DOMAIN down', i < j
        PROVE  /\ down'[i].life <= down'[j].life
               /\ down'[j].type = "open" => down'[i].life < down'[j].life
    <3>1. /\ i + 1 \in DOMAIN down /\ j + 1 \in DOMAIN down /\ i + 1 < j + 1
          /\ down'[i] = down[i + 1] /\ down'[j] = down[j + 1]
      BY <2>2, <1>1
    <3> QED BY <3>1 DEF IInv, DownInOrder
  <2> QED BY <2>1, <2>2, <1>9 DEF DownInOrder
<1>14. ApartUntouched'
  BY <1>6 DEF ApartUntouched, Untouched
<1>15. Joined' => L = host.life /\ Untouched("opening")
  BY <1>4, <1>7 DEF Joined
<1>16. \A i \in DOMAIN up : L = host.life => up[i].life # host.life
  BY <1>2, <1>8
<1>17. OpeningFirst' /\ ClosedLast'
  <2>1. Untouched("opening") => host.state = "opening"
    BY DEF Untouched, FreshHost
  <2>2. Untouched("opening")' <=> Untouched("opening")
    BY DEF Untouched
  <2> QED BY <2>1, <2>2, <1>15, <1>16 DEF OpeningFirst, ClosedLast
<1>18. ASSUME Joined'
       PROVE  /\ host.rx = <<>> /\ host.back = 0 /\ host.credit = 0 /\ got = <<>> /\ put = 0
              /\ host.state = "opening" /\ Handed = 0
              /\ Total(up, "data", host.life) = 0 /\ Total(down', "credit", host.life) = 0
              /\ Placed(up, "data", host.life, Handed)
  <2>1. /\ host.rx = <<>> /\ host.back = 0 /\ host.credit = 0 /\ got = <<>> /\ put = 0
        /\ host.state = "opening"
    BY <1>15, <1>18 DEF Untouched, FreshHost
  <2>2. Handed = 0
    BY <2>1 DEF Handed
  <2>3. \A i \in DOMAIN up : ~Carries(up[i], "data", host.life)
    BY <1>15, <1>16, <1>18 DEF Carries
  <2>4. Total(up, "data", host.life) = 0
    BY <2>3, <1>0, QueueFields, TotalNone
  <2>5. \A i \in DOMAIN down' : ~Carries(down'[i], "credit", host.life)
    BY <1>9 DEF Carries
  <2>6. Total(down', "credit", host.life) = 0
    BY <2>5, <1>1, MessageFacts, TotalNone
  <2> QED BY <2>1, <2>2, <2>3, <2>4, <2>6, PlacedNone
<1>19. Talking' => Joined'
  BY DEF Talking
<1>20. HostCredit'
  <2>1. RxMax + 0 + 0 + 0 + 0 = RxMax /\ Len(<<>>) = 0
    BY Sizes
  <2> QED BY <2>1, <1>4, <1>18, <1>19 DEF HostCredit
<1>21. BoardCredit'
  BY <1>4 DEF BoardCredit, Streaming
<1>22. Sending'
  <2>1. Len(<<>>) = 0
    OBVIOUS
  <2> QED BY <2>1, <1>4, <1>5, NoBytes DEF Sending, Streaming
<1>23. Receiving'
  <2>1. Handed' = Handed /\ Len(<<>>) = 0
    BY DEF Handed
  <2>2. \A from : board'.rx = Bytes(host.life, from, Len(board'.rx))
                  /\ peer'.net = Bytes(host.life, from, Len(peer'.net))
    BY <2>1, <1>4, <1>5, NoBytes
  <2> QED BY <2>1, <2>2, <1>5, <1>18, <1>19 DEF IInv, Receiving
<1>24. PeerClosed'
  <2>1. host.state # "peer_closed"
    BY <1>6 DEF Untouched, FreshHost
  <2> QED BY <2>1, <1>4, <1>15, <1>16, <1>19 DEF PeerClosed
<1> QED BY <1>10, <1>11, <1>12, <1>13, <1>14, <1>17, <1>20, <1>21, <1>22, <1>23, <1>24 DEF IInv

(* The board acts on a message only if it is of its connection *)
LEMMA BoardReceiveStep ==
  ASSUME IInv, BoardReceive
  PROVE  IInv'
<1> DEFINE m == Head(down)
<1>0. TypeOK /\ board \in Boards /\ peer \in Peers /\ down \in Seq(ToBoard)
  BY DEF IInv, TypeOK
<1>1. /\ sync = "live" /\ down # <<>> /\ down' = Tail(down) /\ board' = BoardHandle(m)
      /\ UNCHANGED <<host, up, got, put, sync, resets>>
  BY DEF BoardReceive
<1>2. m \in ToBoard /\ 1 \in DOMAIN down /\ down[1] = m
  BY <1>0, <1>1, Shortened
<1>3. m.type \in {"open", "close", "send", "credit"} /\ m.life \in Nat /\ m.n \in Nat
  BY <1>2 DEF ToBoard
<1>4. /\ 1 <= m.life /\ m.life <= host.life /\ host.life - m.life < GenCount
      /\ m.type \in {"send", "credit"} => m.life = board.life
  BY <1>1, <1>2 DEF IInv, DownInOrder, BoardLife
<1>5. m.type # "open" => peer' = IF board'.fd THEN peer ELSE [peer EXCEPT !.up = FALSE]
  BY DEF BoardReceive
<1>6. ~board.fd => peer = [peer EXCEPT !.up = FALSE]
  <2>1. ~board.fd => ~peer.up
    BY DEF IInv, BoardShape
  <2> QED BY <2>1, <1>0 DEF Peers
<1>7. /\ [peer EXCEPT !.up = FALSE] \in Peers /\ [peer EXCEPT !.up = FALSE].life = peer.life
  BY <1>0 DEF Peers
<1> HIDE DEF m
<1>8. CASE m.type = "open"
  BY <1>1, <1>8, SockOpenStep DEF m, BoardHandle, BoardReceive
<1>9. CASE board' = board /\ m.type = "close"
  <2>1. peer' = peer
    BY <1>5, <1>6, <1>9
  <2>2. Handled(m)
    BY <2>1, <1>0, <1>1, <1>9 DEF Handled, m
  <2> QED BY <2>1, <2>2, <1>9, SockCloseStep
<1>10. CASE m.type = "close" /\ board' # board
  <2>1. BoardCurrent(m) /\ board' = SockClose(board, m)
    BY <1>1, <1>10 DEF BoardHandle
  <2>2. board.life # 0
    <3>1. SUFFICES ASSUME board = ClearBoard(0) PROVE FALSE
      BY DEF IInv, NearLives
    <3>2. board.state = "closed" /\ board.rx = <<>>
      BY <3>1 DEF ClearBoard
    <3> QED BY <3>2, <2>1, <1>10 DEF SockClose, Streaming
  <2>3. m.life = board.life
    <3>1. board.life \in Nat /\ host.life \in Nat /\ board.life <= host.life
          /\ host.life - board.life < GenCount
      BY <2>2, <1>0, Fields DEF IInv, NearLives
    <3> QED BY <3>1, <2>1, <1>3, <1>4, GenerationTells DEF BoardCurrent
  <2>4. CASE /\ Streaming(board.state)
             /\ board' = [board EXCEPT !.closing = TRUE, !.state = "closing", !.dirty = TRUE]
    <3>1. board'.fd = board.fd /\ board'.life = board.life /\ board'.state = "closing"
      BY <2>4, <1>0 DEF Boards
    <3>2. board.fd
      BY <2>4 DEF IInv, BoardShape, Streaming
    <3>3. peer' = peer
      BY <3>1, <3>2, <1>5, <1>10
    <3>4. board' \in Boards
      <4>1. "closing" \in States /\ TRUE \in BOOLEAN
        BY DEF States
      <4> QED BY <4>1, <2>4, <1>0, Zenon DEF Boards
    <3>5. Handled(m)
      BY <3>1, <3>3, <3>4, <2>2, <2>4, <1>0, <1>1, <1>10 DEF Handled, m, Ended, Streaming
    <3> QED BY <3>3, <3>5, <2>2, <2>3, <2>4, <1>10, SockCloseStep
  <2>5. CASE board' = [Finish(board) EXCEPT !.rx = <<>>]
    <3> DEFINE f == Finish(board)
    <3>0. f \in Boards /\ f.life = board.life /\ f.state = "closed" /\ f.grant = 0 /\ ~f.fd
      BY <1>0, FinishFields
    <3> HIDE DEF f
    <3>1. /\ board' \in Boards /\ board'.life = board.life /\ board'.state = "closed"
          /\ board'.rx = <<>> /\ board'.grant = 0 /\ ~board'.fd
      <4>1. board' = [f EXCEPT !.rx = <<>>] /\ <<>> \in Seq(Byte)
        BY <2>5 DEF f
      <4>2. board' \in Boards
        BY <4>1, <3>0, Zenon DEF Boards
      <4> QED BY <4>1, <4>2, <3>0 DEF Boards
    <3>2. peer' = [peer EXCEPT !.up = FALSE]
      BY <3>1, <1>5, <1>10
    <3>3. Handled(m)
      BY <3>1, <3>2, <2>2, <1>1, <1>7, <1>10 DEF Handled, m, Ended
    <3> QED BY <3>2, <3>3, <2>2, <2>3, <2>5, <1>10, SockCloseStep
  <2> QED BY <2>1, <2>4, <2>5, <1>10 DEF SockClose
<1>11. ASSUME m.type \in {"send", "credit"}
       PROVE  /\ m.life = board.life /\ board.life # 0 /\ BoardCurrent(m)
              /\ board.state = "closed" => ~board.fd
  <2>1. board.life \in Nat
    BY <1>0, Fields
  <2> QED BY <2>1, <1>3, <1>4, <1>11 DEF BoardCurrent, IInv, BoardShape
<1>12. CASE m.type = "send"
  <2>1. board' = SockSend(board, m)
    BY <1>1, <1>11, <1>12 DEF BoardHandle
  <2> DEFINE s == board.tx \o SubSeq(m.body, 1, IF Len(m.body) < TxCap - Len(board.tx)
                                                THEN Len(m.body) ELSE TxCap - Len(board.tx))
  <2>2. board' = board \/ board' = [board EXCEPT !.tx = s]
    BY <2>1 DEF SockSend
  <2>3. s \in Seq(Byte) \/ board' = board
    <3> DEFINE t == Len(board.tx)
               c == IF Len(m.body) < TxCap - t THEN Len(m.body) ELSE TxCap - t
    <3>1. CASE ~(board.closing \/ ~Streaming(board.state))
      <4>1. t \in Nat /\ t <= TxCap /\ TxCap \in Nat
        <5>1. t + Total(down, "send", board.life) <= TxCap
          BY <3>1, <1>1 DEF IInv, Sending
        <5>2. t \in Nat /\ Total(down, "send", board.life) \in Nat /\ TxCap \in Nat
          BY <1>0, Fields, Counts, Sizes
        <5> HIDE DEF t
        <5> QED BY <5>1, <5>2
      <4>2. m.body \in Seq(Byte) /\ Len(m.body) \in Nat
        <5>1. m.body \in Seq(Byte)
          BY <1>2 DEF ToBoard
        <5> QED BY <5>1
      <4> HIDE DEF t
      <4>3. c \in Nat /\ c <= Len(m.body)
        BY <4>1, <4>2
      <4> HIDE DEF c
      <4>4. SubSeq(m.body, 1, c) \in Seq(Byte)
        BY <4>2, <4>3
      <4>5. board.tx \o SubSeq(m.body, 1, c) \in Seq(Byte)
        BY <4>4, <1>0, Fields, LenJoin
      <4> QED BY <4>5 DEF c, t
    <3>2. CASE board.closing \/ ~Streaming(board.state)
      BY <3>2, <2>1 DEF SockSend
    <3> QED BY <3>1, <3>2
  <2> HIDE DEF s
  <2>4. board' \in Boards /\ board'.life = board.life /\ board'.state = board.state
        /\ board'.fd = board.fd /\ board'.rx = board.rx /\ board'.grant = board.grant
    BY <2>2, <2>3, <1>0 DEF Boards
  <2>5. peer' = peer
    BY <2>4, <1>5, <1>6, <1>12
  <2>6. Handled(m)
    BY <2>4, <2>5, <1>0, <1>1, <1>11, <1>12 DEF Handled, m, Ended
  <2> QED BY <2>1, <2>5, <2>6, <1>11, <1>12, SockSendStep
<1>13. CASE m.type = "credit"
  <2>1. board' = [board EXCEPT !.credit = board.credit + m.n]
    BY <1>1, <1>11, <1>13 DEF BoardHandle
  <2>2. board.credit + m.n \in Nat
    <3>1. board.credit \in Nat /\ m.n \in Nat
      BY <1>0, <1>3, Fields
    <3> QED BY <3>1, NatSum
  <2>3. board' \in Boards /\ board'.life = board.life /\ board'.state = board.state
        /\ board'.fd = board.fd /\ board'.rx = board.rx /\ board'.grant = board.grant
    BY <2>1, <2>2, <1>0 DEF Boards
  <2>4. peer' = peer
    BY <2>3, <1>5, <1>6, <1>13
  <2>5. Handled(m)
    BY <2>3, <2>4, <1>0, <1>1, <1>11, <1>13 DEF Handled, m, Ended
  <2> QED BY <2>1, <2>4, <2>5, <1>11, <1>13, CreditStep
<1> QED BY <1>3, <1>8, <1>9, <1>10, <1>12, <1>13

-----------------------------------------------------------------------------
(* The end of a session *)

LEMMA ClearFields ==
  /\ ClearBoard(0) \in Boards /\ ClearBoard(0).life = 0 /\ ClearBoard(0).state = "closed"
  /\ ClearBoard(0).rx = <<>> /\ ClearBoard(0).tx = <<>> /\ ClearBoard(0).grant = 0
  /\ ~ClearBoard(0).closing /\ ~ClearBoard(0).fd /\ ~ClearBoard(0).ended
BY DEF ClearBoard, Boards, States

LEMMA FreshFields ==
  ASSUME NEW life \in Nat, NEW state \in States
  PROVE  /\ FreshHost(life, state) \in Hosts /\ FreshHost(life, state).life = life
         /\ FreshHost(life, state).state = state /\ FreshHost(life, state).rx = <<>>
         /\ FreshHost(life, state).back = 0 /\ FreshHost(life, state).credit = 0
BY DEF FreshHost, Hosts

(* An untouched host has read nothing *)
LEMMA UntouchedFields ==
  ASSUME NEW state, Untouched(state)
  PROVE  /\ host.state = state /\ host.rx = <<>> /\ host.back = 0 /\ host.credit = 0
         /\ got = <<>> /\ put = 0 /\ Handed = 0
         /\ got \o host.rx = Bytes(host.life, 0, Handed)
<1>1. /\ host.state = state /\ host.rx = <<>> /\ host.back = 0 /\ host.credit = 0
      /\ got = <<>> /\ put = 0
  BY DEF Untouched, FreshHost
<1>2. Len(<<>>) = 0 /\ <<>> \o <<>> = <<>>
  OBVIOUS
<1>3. Handed = 0
  BY <1>1, <1>2 DEF Handed
<1> QED BY <1>1, <1>2, <1>3, NoBytes

(* The board starts again *)
LEMMA BoardCleared ==
  ASSUME IInv, board' = ClearBoard(0), peer' = [peer EXCEPT !.up = FALSE], up' = <<>>,
         UNCHANGED <<host, down, got, put>>, resets' \in Nat,
         \/ sync' = "board"
         \/ sync = "host" /\ sync' = "live"
  PROVE  IInv'
<1>0. TypeOK /\ peer \in Peers
  BY DEF IInv, TypeOK
<1>1. /\ board' \in Boards /\ board'.life = 0 /\ board'.state = "closed" /\ board'.rx = <<>>
      /\ board'.tx = <<>> /\ board'.grant = 0 /\ ~board'.closing /\ ~board'.fd
  BY ClearFields
<1>2. /\ peer' \in Peers /\ peer'.life = peer.life /\ ~peer'.up /\ peer'.sent = peer.sent
      /\ peer'.fin = peer.fin /\ peer'.got = peer.got
  BY <1>0 DEF Peers
<1>3. ~Talking' /\ (Joined' => host.state = "closed" /\ sync' = "live")
  BY <1>1 DEF Talking, Joined, IInv, NearLives
<1>4. DOMAIN up' = {} /\ up' \in Seq(ToHost) /\ up' = <<>>
  OBVIOUS
<1>5. TypeOK'
  BY <1>0, <1>1, <1>2, <1>4 DEF TypeOK
<1>6. NearLives'
  BY <1>1, <1>4 DEF IInv, NearLives
<1>7. BoardShape'
  BY <1>1, <1>2 DEF BoardShape
<1>8. DownInOrder'
  <2>1. sync' # "board" => sync = "host" /\ BoardLife = 0 /\ BoardLife' = 0
    BY <1>1 DEF BoardLife
  <2> QED BY <2>1, <1>1 DEF IInv, DownInOrder
<1>9. ApartUntouched'
  BY DEF IInv, ApartUntouched, Untouched, Joined
<1>10. OpeningFirst' /\ ClosedLast'
  BY <1>1, <1>4 DEF OpeningFirst, ClosedLast, Ended
<1>11. HostCredit' /\ BoardCredit'
  BY <1>3 DEF HostCredit, BoardCredit
<1>12. Sending'
  <2>1. board'.tx = Bytes(peer'.life, Len(peer'.got), Len(board'.tx))
    BY <1>1, NoBytes
  <2> QED BY <2>1, <1>1, <1>2 DEF IInv, Sending, Streaming
<1>13. Handed' = Handed
  BY DEF Handed
<1>14. Receiving' /\ PeerClosed'
  BY <1>2, <1>3, <1>13 DEF IInv, Receiving, PeerClosed
<1> QED BY <1>5, <1>6, <1>7, <1>8, <1>9, <1>10, <1>11, <1>12, <1>14 DEF IInv

(* The host starts again *)
LEMMA HostBegins ==
  ASSUME IInv, Begin, sync' = "host", up' = <<>>, UNCHANGED <<board, peer>>, resets' \in Nat
  PROVE  IInv'
<1>0. TypeOK /\ host.life \in Nat /\ "closed" \in States
  BY Fields DEF IInv, TypeOK, States
<1>1. /\ host' \in Hosts /\ host'.life = host.life /\ host'.state = "closed"
      /\ host' = FreshHost(host.life, "closed") /\ got' = <<>> /\ put' = 0 /\ down' = <<>>
  BY <1>0, FreshFields DEF Begin
<1>2. ~Talking' /\ ~Joined'
  BY DEF Talking, Joined
<1>3. DOMAIN up' = {} /\ DOMAIN down' = {} /\ up' \in Seq(ToHost) /\ down' \in Seq(ToBoard)
      /\ got' \in Seq(Byte)
  BY <1>1
<1>4. TypeOK'
  BY <1>0, <1>1, <1>3 DEF TypeOK
<1>5. NearLives'
  BY <1>1, <1>3 DEF IInv, NearLives
<1>6. BoardShape'
  BY DEF IInv, BoardShape
<1>7. DownInOrder'
  BY <1>3 DEF DownInOrder
<1>8. Untouched("closed")'
  BY <1>1 DEF Untouched
<1>9. ApartUntouched' /\ OpeningFirst' /\ ClosedLast' /\ HostCredit' /\ BoardCredit'
  BY <1>2, <1>8 DEF ApartUntouched, OpeningFirst, ClosedLast, HostCredit, BoardCredit
<1>10. Sending'
  BY DEF IInv, Sending
<1>11. got' \o host'.rx = Bytes(host'.life, 0, Handed')
  <2>1. host'.rx = <<>> /\ Len(<<>>) = 0 /\ <<>> \o <<>> = <<>>
    BY <1>1 DEF FreshHost
  <2>2. Handed' = 0
    BY <1>1, <2>1 DEF Handed
  <2> QED BY <1>1, <2>1, <2>2, NoBytes
<1>12. Receiving' /\ PeerClosed'
  BY <1>1, <1>2, <1>11 DEF Receiving, PeerClosed
<1> QED BY <1>4, <1>5, <1>6, <1>7, <1>9, <1>10, <1>12 DEF IInv

(* Either end begins again *)
LEMMA SessionStep ==
  ASSUME IInv, SessionEnds \/ HostLost \/ BoardSynced
  PROVE  IInv'
<1>1. resets \in Nat /\ (sync # "live" => up = <<>>)
  BY DEF IInv, TypeOK, NearLives
<1>2. CASE SessionEnds
  <2>1. up' = <<>> /\ resets' \in Nat
    BY <1>1, <1>2 DEF SessionEnds
  <2> QED BY <1>2, <2>1, BoardCleared, HostBegins DEF SessionEnds
<1>3. CASE HostLost
  BY <1>1, <1>3, HostBegins DEF HostLost
<1>4. CASE BoardSynced
  BY <1>1, <1>4, BoardCleared DEF BoardSynced
<1> QED BY <1>2, <1>3, <1>4

-----------------------------------------------------------------------------
(* The application's calls *)

(* Nothing the board still has is of a connection ahead of the host's, or  *)
(* GenCount behind the next                                                *)
LEMMA NextLife ==
  ASSUME IInv, NEW m \in ToBoard, down' = Append(down, m), host'.life = host.life + 1,
         UNCHANGED <<board, up>>, Apart'
  PROVE  /\ board.life < host.life + 1 /\ BoardLife <= host.life
         /\ board.life # 0 => (host.life + 1) - board.life < GenCount
         /\ \A i \in DOMAIN up :
              up[i].life < host.life + 1 /\ (host.life + 1) - up[i].life < GenCount
         /\ \A i \in DOMAIN down : (host.life + 1) - down[i].life < GenCount
<1>0. TypeOK /\ host.life \in Nat /\ board.life \in Nat
  BY Fields DEF IInv
<1>1. board.life <= host.life
  BY <1>0 DEF IInv, NearLives
<1>2. board.life # 0 => board # ClearBoard(0)
  BY ClearFields
<1>3. \A i \in DOMAIN down : i \in DOMAIN down' /\ down'[i] = down[i]
  <2>1. down \in Seq(ToBoard)
    BY <1>0 DEF TypeOK
  <2> QED BY <2>1, Appended
<1>4. /\ board.life # 0 => board.life \in About'
      /\ \A i \in DOMAIN up : up[i].life \in About'
      /\ \A i \in DOMAIN down : down[i].life \in About'
  BY <1>2, <1>3 DEF About
<1>5. /\ board.life # 0 => (host.life + 1) - board.life < GenCount
      /\ \A i \in DOMAIN up : (host.life + 1) - up[i].life < GenCount
      /\ \A i \in DOMAIN down : (host.life + 1) - down[i].life < GenCount
  BY <1>4 DEF Apart
<1>6. \A i \in DOMAIN up : up[i].life \in Nat /\ up[i].life <= board.life
  BY <1>0, QueueFields DEF IInv, NearLives
<1>7. \A i \in DOMAIN up : up[i].life < host.life + 1
  BY <1>0, <1>1, <1>6
<1>8. BoardLife <= host.life
  BY <1>0, <1>1 DEF BoardLife
<1> QED BY <1>0, <1>1, <1>5, <1>7, <1>8

(* What a message to the board that is not data leaves of the send totals *)
LEMMA DownTotals ==
  ASSUME TypeOK, NEW m \in ToBoard, NEW type, NEW life
  PROVE  /\ Total(Append(down, m), type, life) = Total(down, type, life) + Weight(m, type, life)
         /\ Total(down, type, life) \in Nat
         /\ m.type # type => Total(Append(down, m), type, life) = Total(down, type, life)
         /\ \A from \in Nat : (m.type # type /\ Placed(down, type, life, from)) =>
              Placed(Append(down, m), type, life, from)
<1>1. m \in Messages /\ down \in Seq(Messages)
  BY QueueFields DEF Messages
<1>2. Total(Append(down, m), type, life) = Total(down, type, life) + Weight(m, type, life)
      /\ Total(down, type, life) \in Nat
  BY <1>1, TotalAppend, TotalsFacts
<1>3. m.type # type => Weight(m, type, life) = 0 /\ ~Carries(m, type, life)
  BY DEF Weight, Carries
<1>4. ASSUME NEW from \in Nat, m.type # type, Placed(down, type, life, from)
      PROVE  Placed(Append(down, m), type, life, from)
  BY <1>1, <1>3, <1>4, PlacedAppend
<1> QED BY <1>2, <1>3, <1>4

(* The host leaves its connection for the next *)
LEMMA NewLifeStep ==
  ASSUME IInv, NEW m \in ToBoard, NEW state \in {"opening", "closed"}, Apart',
         \/ /\ m.type = "open" /\ m.life = host.life + 1 /\ m.n = RxMax /\ state = "opening"
         \/ /\ m.type = "close" /\ m.life = host.life /\ host.state # "closed"
            /\ state = "closed",
         down' = Append(down, m), host' = FreshHost(host.life + 1, state), got' = <<>>, put' = 0,
         UNCHANGED <<board, peer, up, sync, resets>>
  PROVE  IInv'
<1> DEFINE L == host.life + 1
<1>0. TypeOK /\ host.life \in Nat /\ board.life \in Nat /\ L \in Nat /\ GenCount \in Nat
      /\ GenCount > 1 /\ L > host.life /\ L # 0 /\ L - L = 0 /\ L - host.life = 1
      /\ m.life \in Nat /\ state \in States
  <2>1. TypeOK /\ host.life \in Nat /\ board.life \in Nat
    BY Fields DEF IInv
  <2>2. GenCount \in Nat /\ GenCount > 1
    BY Sizes
  <2>3. L \in Nat /\ L > host.life /\ L # 0 /\ L - L = 0 /\ L - host.life = 1
    BY <2>1
  <2>4. m.life \in Nat /\ state \in States
    BY DEF ToBoard, States
  <2> QED BY <2>1, <2>2, <2>3, <2>4
<1>1. /\ board.life < L /\ BoardLife <= host.life /\ (board.life # 0 => L - board.life < GenCount)
      /\ \A i \in DOMAIN up : up[i].life < L /\ L - up[i].life < GenCount
      /\ \A i \in DOMAIN down : L - down[i].life < GenCount
  <2>1. host'.life = host.life + 1
    BY <1>0, FreshFields
  <2> QED BY <2>1, NextLife
<1>2. /\ host' \in Hosts /\ host'.life = L /\ host'.state = state /\ host'.rx = <<>>
  BY <1>0, FreshFields
<1>3. Untouched(state)'
  BY <1>2 DEF Untouched
<1>4. m.life # 0 /\ 1 <= m.life /\ m.life <= L
  <2>1. host.state # "closed" => host.life # 0
    BY DEF IInv, NearLives
  <2>2. m.life = L \/ (m.life = host.life /\ host.life # 0)
    BY <2>1
  <2> HIDE DEF L
  <2> QED BY <2>2, <1>0
<1> HIDE DEF L
<1>5. ~Joined' /\ ~Talking'
  BY <1>0, <1>1, <1>2 DEF Joined, Talking
<1>6. TypeOK'
  <2>1. down' \in Seq(ToBoard) /\ got' \in Seq(Byte)
    BY <1>0, Appended DEF TypeOK
  <2> QED BY <2>1, <1>0, <1>2 DEF TypeOK
<1>7. NearLives'
  <2>1. board.life # 0 => board.life <= L /\ peer.life = board.life
    BY <1>0, <1>1 DEF IInv, NearLives
  <2>2. board'.life # host'.life /\ host'.life # 0
    BY <1>0, <1>1, <1>2
  <2>3. \A i \in DOMAIN up' : /\ 1 <= up'[i].life /\ up'[i].life <= board'.life
                              /\ host'.life - up'[i].life < GenCount
    BY <1>1, <1>2 DEF IInv, NearLives
  <2>4. board'.life # 0 => host'.life - board'.life < GenCount
    BY <1>1, <1>2
  <2> QED BY <2>1, <2>2, <2>3, <2>4, <1>2 DEF IInv, NearLives
<1>8. BoardShape'
  BY DEF IInv, BoardShape
<1>9. DownInOrder'
  <2> SUFFICES ASSUME sync # "board" PROVE DownInOrder'
    BY DEF DownInOrder
  <2> DEFINE k == Len(down) + 1
  <2>1. /\ \A i \in DOMAIN down' : i \in DOMAIN down \/ i = k
        /\ \A i \in DOMAIN down : i \in DOMAIN down' /\ down'[i] = down[i] /\ i < k /\ i \in Nat
        /\ down'[k] = m /\ k \in DOMAIN down' /\ k \in Nat
    <3>1. down \in Seq(ToBoard)
      BY <1>0 DEF TypeOK
    <3> QED BY <3>1, Appended
  <2> HIDE DEF k
  <2>2. BoardLife' = BoardLife /\ BoardLife \in Nat
    BY <1>0 DEF BoardLife
  <2>3. ASSUME NEW i \in DOMAIN down
        PROVE  /\ 1 <= down[i].life /\ BoardLife <= down[i].life /\ down[i].life <= host.life
               /\ down[i].life < L /\ down[i].life <= L /\ L - down[i].life < GenCount
               /\ down[i].type = "open" => BoardLife < down[i].life /\ down[i].n = RxMax
               /\ down[i].type \in {"send", "credit"} => down[i].life = BoardLife
               /\ down[i].life # L
    <3>1. /\ 1 <= down[i].life /\ BoardLife <= down[i].life /\ down[i].life <= host.life
          /\ down[i].type = "open" => BoardLife < down[i].life /\ down[i].n = RxMax
          /\ down[i].type \in {"send", "credit"} => down[i].life = BoardLife
      BY DEF IInv, DownInOrder
    <3>2. down[i].life \in Nat
      BY <1>0, QueueFields
    <3>3. down[i].life < L /\ down[i].life <= L /\ down[i].life # L
      BY <3>1, <3>2, <1>0
    <3> QED BY <3>1, <3>3, <1>1
  <2>4. /\ 1 <= m.life /\ BoardLife <= m.life /\ m.life <= L /\ L - m.life < GenCount
        /\ m.type = "open" => BoardLife < m.life /\ m.n = RxMax /\ state = "opening"
        /\ m.type \notin {"send", "credit"}
        /\ m.type = "close" => state = "closed"
    <3>1. m.life = L \/ m.life = host.life
      BY DEF L
    <3>2. BoardLife <= m.life /\ L - m.life < GenCount
      BY <3>1, <1>0, <1>1, <2>2
    <3>3. m.type = "open" => BoardLife < m.life
      BY <1>0, <1>1, <2>2 DEF L
    <3> QED BY <3>2, <3>3, <1>4
  <2>5. ASSUME NEW i \in DOMAIN down, NEW j \in DOMAIN down, i < j
        PROVE  /\ down[i].life <= down[j].life
               /\ down[j].type = "open" => down[i].life < down[j].life
    BY <2>5 DEF IInv, DownInOrder
  <2>6. ASSUME NEW i \in DOMAIN down
        PROVE  down[i].life <= m.life /\ (m.type = "open" => down[i].life < m.life)
    BY <2>3 DEF L
  <2>7. ASSUME NEW i \in DOMAIN down', NEW j \in DOMAIN down', i < j
        PROVE  /\ down'[i].life <= down'[j].life
               /\ down'[j].type = "open" => down'[i].life < down'[j].life
    <3>1. i \in DOMAIN down
      BY <2>1, <2>7
    <3> QED BY <3>1, <2>1, <2>5, <2>6, <2>7
  <2>8. ASSUME NEW i \in DOMAIN down'
        PROVE  /\ 1 <= down'[i].life /\ BoardLife <= down'[i].life /\ down'[i].life <= L
               /\ L - down'[i].life < GenCount
               /\ down'[i].type = "open" =>
                    /\ BoardLife < down'[i].life /\ down'[i].n = RxMax
                    /\ down'[i].life = L => state = "opening"
               /\ down'[i].type \in {"send", "credit"} => down'[i].life = BoardLife
               /\ (down'[i].type = "close" /\ down'[i].life = L) => state \in {"closing", "closed"}
    BY <2>1, <2>3, <2>4
  <2>9. (sync = "live" /\ board.state = "opening") => \A i \in DOMAIN down' : down'[i].type # "send"
    BY <2>1, <2>4 DEF IInv, DownInOrder
  <2> QED BY <1>2, <2>2, <2>7, <2>8, <2>9 DEF DownInOrder
<1>10. ApartUntouched' /\ OpeningFirst' /\ ClosedLast' /\ HostCredit' /\ BoardCredit'
  <2>1. Untouched("closed")' \/ Untouched("opening")'
    BY <1>3
  <2> QED BY <2>1, <1>5 DEF ApartUntouched, OpeningFirst, ClosedLast, HostCredit, BoardCredit
<1>11. Sending'
  <2>1. m.type # "send"
    OBVIOUS
  <2>2. Len(peer.got) + Len(board.tx) \in Nat
    BY <1>0, Giving
  <2>3. ASSUME sync = "live", Streaming(board.state)
        PROVE  /\ Placed(down', "send", board.life, Len(peer.got) + Len(board.tx))
               /\ Total(down', "send", board.life) = Total(down, "send", board.life)
    <3>1. Placed(down, "send", board.life, Len(peer.got) + Len(board.tx))
      BY <2>3 DEF IInv, Sending
    <3> QED BY <3>1, <2>1, <2>2, <1>0, DownTotals
  <2> QED BY <2>3, <1>5 DEF IInv, Sending
<1>12. got' \o host'.rx = Bytes(host'.life, 0, Handed')
  <2>1. Len(<<>>) = 0 /\ <<>> \o <<>> = <<>>
    OBVIOUS
  <2>2. Handed' = 0
    BY <1>2, <2>1 DEF Handed
  <2> QED BY <1>2, <2>1, <2>2, NoBytes
<1>13. Receiving' /\ PeerClosed'
  BY <1>2, <1>5, <1>12 DEF Receiving, PeerClosed
<1> QED BY <1>6, <1>7, <1>8, <1>9, <1>10, <1>11, <1>13 DEF IInv

(* A slot is opened, whatever it was doing, the connections staying apart *)
LEMMA OpenStep ==
  ASSUME IInv, Open, Apart'
  PROVE  IInv'
<1> DEFINE m == Message("open", host.life + 1, "", RxMax, <<>>)
<1>1. host.life + 1 \in Nat /\ RxMax \in Nat /\ <<>> \in Seq(Byte)
  BY Fields, Sizes DEF IInv
<1>2. m \in ToBoard /\ m.type = "open" /\ m.life = host.life + 1 /\ m.n = RxMax
  BY <1>1 DEF Message, ToBoard
<1>3. down' = Append(down, m)
  BY DEF Open, Queue
<1> HIDE DEF m
<1> QED BY <1>2, <1>3, NewLifeStep DEF Open

(* A slot is closed at once *)
LEMMA CloseNowStep ==
  ASSUME IInv, CloseNow, Apart'
  PROVE  IInv'
<1> DEFINE m == Message("close", host.life, "now", 0, <<>>)
<1>1. host.life \in Nat /\ <<>> \in Seq(Byte)
  BY Fields DEF IInv
<1>2. m \in ToBoard /\ m.type = "close" /\ m.life = host.life
  BY <1>1 DEF Message, ToBoard
<1>3. down' = Append(down, m)
  BY DEF CloseNow, Queue
<1> HIDE DEF m
<1> QED BY <1>2, <1>3, NewLifeStep DEF CloseNow

(* A host at work on a connection shares it with the board, unless the     *)
(* board has lost the session                                              *)
LEMMA AtWork ==
  ASSUME IInv, ~Untouched("closed"), ~Untouched("opening")
  PROVE  /\ sync = "board" \/ Joined
         /\ Joined => board.state # "opening"
BY DEF IInv, ApartUntouched, OpeningFirst

(* The queue to the board after a step of a host that shares the board's   *)
(* connection, with a message on it or without                             *)
LEMMA JoinedDown ==
  ASSUME IInv, Joined, host'.life = host.life, UNCHANGED <<board, sync>>,
         host.state \in {"closing", "closed"} => host'.state \in {"closing", "closed"},
         \/ down' = down
         \/ \E m \in ToBoard :
              /\ down' = Append(down, m) /\ m.life = host.life /\ host.life # 0
              /\ m.type \in {"close", "send", "credit"}
              /\ m.type = "close" => host'.state \in {"closing", "closed"}
              /\ m.type = "send" => board.state # "opening"
  PROVE  DownInOrder'
<1>0. TypeOK /\ host.life \in Nat /\ board.life \in Nat /\ GenCount \in Nat \ {0}
      /\ sync = "live" /\ BoardLife = host.life /\ BoardLife' = host.life
  BY Fields, Sizes DEF IInv, Joined, BoardLife
<1>1. ASSUME NEW i \in DOMAIN down
      PROVE  /\ 1 <= down[i].life /\ BoardLife <= down[i].life /\ down[i].life <= host.life
             /\ host.life - down[i].life < GenCount /\ down[i].type # "open"
             /\ down[i].type \in {"send", "credit"} => down[i].life = BoardLife
             /\ (down[i].type = "close" /\ down[i].life = host.life) =>
                  host'.state \in {"closing", "closed"}
  <2>1. /\ 1 <= down[i].life /\ BoardLife <= down[i].life /\ down[i].life <= host.life
        /\ host.life - down[i].life < GenCount
        /\ down[i].type = "open" => BoardLife < down[i].life
        /\ down[i].type \in {"send", "credit"} => down[i].life = BoardLife
        /\ (down[i].type = "close" /\ down[i].life = host.life) =>
             host.state \in {"closing", "closed"}
    BY <1>0 DEF IInv, DownInOrder
  <2>2. down[i].life \in Nat
    BY <1>0, QueueFields
  <2> QED BY <2>1, <2>2, <1>0
<1>2. /\ \A i, j \in DOMAIN down : i < j => down[i].life <= down[j].life
      /\ board.state = "opening" => \A i \in DOMAIN down : down[i].type # "send"
  BY <1>0 DEF IInv, DownInOrder
<1>3. CASE down' = down
  BY <1>0, <1>1, <1>2, <1>3 DEF DownInOrder
<1>4. ASSUME NEW m \in ToBoard, down' = Append(down, m), m.life = host.life, host.life # 0,
             m.type \in {"close", "send", "credit"},
             m.type = "close" => host'.state \in {"closing", "closed"},
             m.type = "send" => board.state # "opening"
      PROVE  DownInOrder'
  <2> DEFINE k == Len(down) + 1
  <2>1. /\ \A i \in DOMAIN down' : i \in DOMAIN down \/ i = k
        /\ \A i \in DOMAIN down : i \in DOMAIN down' /\ down'[i] = down[i] /\ i < k /\ i \in Nat
        /\ down'[k] = m /\ k \in DOMAIN down' /\ k \in Nat
    <3>1. down \in Seq(ToBoard)
      BY <1>0 DEF TypeOK
    <3> QED BY <3>1, <1>4, Appended
  <2> HIDE DEF k
  <2>2. 1 <= m.life /\ host.life <= m.life /\ m.life <= host.life /\ host.life - m.life < GenCount
    BY <1>0, <1>4
  <2>3. ASSUME NEW i \in DOMAIN down'
        PROVE  /\ 1 <= down'[i].life /\ host.life <= down'[i].life /\ down'[i].life <= host.life
               /\ host.life - down'[i].life < GenCount /\ down'[i].type # "open"
               /\ down'[i].type \in {"send", "credit"} => down'[i].life = host.life
               /\ (down'[i].type = "close" /\ down'[i].life = host.life) =>
                    host'.state \in {"closing", "closed"}
    BY <2>1, <2>2, <1>0, <1>1, <1>4
  <2>4. ASSUME NEW i \in DOMAIN down', NEW j \in DOMAIN down', i < j
        PROVE  down'[i].life <= down'[j].life
    <3>1. i \in DOMAIN down
      BY <2>1, <2>4
    <3> QED BY <3>1, <2>1, <2>4, <1>1, <1>2, <1>4
  <2>5. board.state = "opening" => \A i \in DOMAIN down' : down'[i].type # "send"
    BY <2>1, <1>2, <1>4
  <2> QED BY <2>3, <2>4, <2>5, <1>0 DEF DownInOrder
<1> QED BY <1>3, <1>4

(* A slot is closed in order *)
LEMMA CloseGracefulStep ==
  ASSUME IInv, CloseGraceful
  PROVE  IInv'
<1> DEFINE m == Message("close", host.life, "graceful", 0, <<>>)
<1>0. TypeOK /\ host \in Hosts /\ host.life \in Nat /\ <<>> \in Seq(Byte)
  BY Fields DEF IInv, TypeOK
<1>1. m \in ToBoard /\ m.type = "close" /\ m.life = host.life
  BY <1>0 DEF Message, ToBoard
<1>2. down' = Append(down, m) /\ UNCHANGED <<board, peer, up, got, put, sync, resets>>
      /\ host.state \in {"established", "peer_closed"}
  BY DEF CloseGraceful, Queue, Streaming
<1>3. /\ host' \in Hosts /\ host'.life = host.life /\ host'.state = "closing"
      /\ host'.rx = host.rx /\ host'.back = host.back
  BY <1>0 DEF CloseGraceful, Hosts, States
<1> HIDE DEF m
<1>4. ~Untouched("closed") /\ ~Untouched("opening")
  BY <1>2, UntouchedFields
<1>5. (sync = "board" \/ Joined) /\ (Joined => board.state # "opening")
  BY <1>4, AtWork
<1>6. (Joined' <=> Joined) /\ (Talking' <=> Talking) /\ Handed' = Handed /\ Taken' = Taken
  BY <1>2, <1>3 DEF Joined, Talking, Handed, Taken
<1>7. host.life # 0
  BY <1>2 DEF IInv, NearLives
<1>8. TypeOK'
  <2>1. down' \in Seq(ToBoard)
    BY <1>0, <1>1, <1>2, Appended DEF TypeOK
  <2> QED BY <2>1, <1>0, <1>2, <1>3 DEF TypeOK
<1>9. NearLives'
  BY <1>2, <1>3 DEF IInv, NearLives
<1>10. BoardShape'
  BY <1>2 DEF IInv, BoardShape
<1>11. DownInOrder'
  <2>1. CASE sync = "board"
    BY <2>1, <1>2 DEF DownInOrder
  <2>2. CASE Joined
    BY <2>2, <1>1, <1>2, <1>3, <1>7, JoinedDown
  <2> QED BY <2>1, <2>2, <1>5
<1>12. ApartUntouched'
  BY <1>2, <1>5, <1>6 DEF ApartUntouched
<1>13. OpeningFirst'
  BY <1>2, <1>3, <1>5, <1>6 DEF IInv, OpeningFirst
<1>14. ClosedLast'
  BY <1>2, <1>3, <1>6 DEF IInv, ClosedLast
<1>15. /\ Total(down', "credit", host.life) = Total(down, "credit", host.life)
       /\ \A life : Total(down', "send", life) = Total(down, "send", life)
       /\ \A life : \A from \in Nat :
            Placed(down, "send", life, from) => Placed(down', "send", life, from)
  BY <1>0, <1>1, <1>2, DownTotals
<1>16. HostCredit' /\ BoardCredit'
  BY <1>2, <1>3, <1>6, <1>15 DEF IInv, HostCredit, BoardCredit
<1>17. Sending'
  <2>1. Len(peer.got) + Len(board.tx) \in Nat
    BY <1>0, Giving
  <2> QED BY <2>1, <1>2, <1>6, <1>15 DEF IInv, Sending
<1>18. Receiving' /\ PeerClosed'
  BY <1>2, <1>3, <1>6 DEF IInv, Receiving, PeerClosed
<1> QED BY <1>8, <1>9, <1>10, <1>11, <1>12, <1>13, <1>14, <1>16, <1>17, <1>18 DEF IInv

(* A sum whose parts change and whose value does not *)
LEMMA SumSpent ==
  ASSUME NEW a \in Nat, NEW b \in Nat, NEW c \in Nat, NEW d \in Nat, NEW e \in Nat,
         NEW n \in Nat, NEW all, a + b + c + d + e = all
  PROVE  a + b + c + (d - n) + (e + n) = all
OBVIOUS

(* The application sends: the credit it spends is in the message *)
LEMMA SendStep ==
  ASSUME IInv, Send
  PROVE  IInv'
<1>0. TypeOK /\ host \in Hosts /\ host.life \in Nat /\ host.credit \in Nat /\ put \in Nat
  BY Fields DEF IInv, TypeOK
<1>1. PICK n \in 1..host.credit :
        /\ down' = Append(down, Message("send", host.life, "", n, Bytes(host.life, put, n)))
        /\ host' = [host EXCEPT !.credit = @ - n] /\ put' = put + n
  BY DEF Send, Queue
<1> DEFINE m == Message("send", host.life, "", n, Bytes(host.life, put, n))
<1>2. n \in Nat /\ n <= host.credit /\ host.credit - n \in Nat /\ put + n \in Nat
  BY <1>0
<1>3. m \in ToBoard /\ m.type = "send" /\ m.life = host.life /\ m.n = n
      /\ m.body = Bytes(host.life, put, n)
  <2>1. Bytes(host.life, put, n) \in Seq(Byte)
    BY <1>0, <1>2, BytesFacts
  <2> QED BY <2>1, <1>0, <1>2 DEF Message, ToBoard
<1>4. /\ down' = Append(down, m) /\ UNCHANGED <<board, peer, up, got, sync, resets>>
      /\ host.state \in {"established", "peer_closed"}
  BY <1>1 DEF Send, Streaming
<1>5. /\ host' \in Hosts /\ host'.life = host.life /\ host'.state = host.state
      /\ host'.rx = host.rx /\ host'.back = host.back /\ host'.credit = host.credit - n
  BY <1>0, <1>1, <1>2 DEF Hosts
<1> HIDE DEF m
<1>6. ~Untouched("closed") /\ ~Untouched("opening")
  BY <1>4, UntouchedFields
<1>7. (sync = "board" \/ Joined) /\ (Joined => board.state # "opening")
  BY <1>6, AtWork
<1>8. (Joined' <=> Joined) /\ (Talking' <=> Talking) /\ Handed' = Handed /\ Taken' = Taken
  BY <1>4, <1>5 DEF Joined, Talking, Handed, Taken
<1>9. host.life # 0
  BY <1>4 DEF IInv, NearLives
<1>10. TypeOK'
  <2>1. down' \in Seq(ToBoard)
    BY <1>0, <1>3, <1>4, Appended DEF TypeOK
  <2> QED BY <2>1, <1>0, <1>1, <1>2, <1>4, <1>5 DEF TypeOK
<1>11. NearLives'
  BY <1>4, <1>5 DEF IInv, NearLives
<1>12. BoardShape'
  BY <1>4 DEF IInv, BoardShape
<1>13. DownInOrder'
  <2>1. CASE sync = "board"
    BY <2>1, <1>4 DEF DownInOrder
  <2>2. CASE Joined
    BY <2>2, <1>3, <1>4, <1>5, <1>7, <1>9, JoinedDown
  <2> QED BY <2>1, <2>2, <1>7
<1>14. ApartUntouched'
  BY <1>4, <1>7, <1>8 DEF ApartUntouched
<1>15. OpeningFirst'
  BY <1>4, <1>5, <1>7, <1>8 DEF IInv, OpeningFirst
<1>16. ClosedLast'
  BY <1>4, <1>5, <1>8 DEF IInv, ClosedLast
<1>17. /\ Total(down', "credit", host.life) = Total(down, "credit", host.life)
       /\ Total(down', "send", host.life) = Total(down, "send", host.life) + n
       /\ Total(down, "send", host.life) \in Nat
  <2>1. Weight(m, "send", host.life) = n
    BY <1>3 DEF Weight, Carries
  <2> QED BY <2>1, <1>0, <1>3, <1>4, DownTotals
<1>18. HostCredit'
  BY <1>4, <1>5, <1>8, <1>17 DEF IInv, HostCredit
<1> DEFINE x == Len(board.tx)
           g == Len(peer.got)
           d == Total(down, "send", host.life)
           u == Total(up, "txcredit", host.life)
<1>19. x \in Nat /\ g \in Nat /\ d \in Nat /\ u \in Nat /\ board.grant \in Nat /\ TxCap \in Nat
  BY <1>0, <1>17, Fields, Counts, Sizes
<1>20. ASSUME Joined, Streaming(board.state)
       PROVE  /\ x + board.grant + u + host.credit + d = TxCap
              /\ g + x + d = put /\ Placed(down, "send", host.life, g + x)
  <2>1. Talking /\ host.state # "closing" /\ board.life = host.life /\ sync = "live"
    BY <1>4, <1>20 DEF Talking, Joined
  <2> QED BY <2>1, <1>20 DEF IInv, BoardCredit, Sending
<1> HIDE DEF x, g, d, u
<1>21. BoardCredit'
  <2> SUFFICES ASSUME Joined, Streaming(board.state)
               PROVE  x + board.grant + u + (host.credit - n) + (d + n) = TxCap
    BY <1>4, <1>5, <1>8, <1>17 DEF BoardCredit, Talking, x, d, u
  <2>1. x + board.grant + u + host.credit + d = TxCap
    BY <1>20
  <2> QED BY <2>1, <1>0, <1>2, <1>19, SumSpent
<1>22. Sending'
  <2>1. /\ peer.got = Bytes(peer.life, 0, Len(peer.got))
        /\ board.tx = Bytes(peer.life, Len(peer.got), Len(board.tx))
    BY DEF IInv, Sending
  <2>2. ASSUME sync = "live", Streaming(board.state)
        PROVE  /\ board.life = host.life
               /\ x + (d + n) <= TxCap /\ g + x + (d + n) = put + n
               /\ Placed(down', "send", host.life, g + x)
    <3>1. Joined /\ board.life = host.life
      BY <1>7, <2>2 DEF Joined
    <3>2. x + board.grant + u + host.credit + d = TxCap /\ g + x + d = put
      BY <3>1, <2>2, <1>20
    <3>3. x + (d + n) <= TxCap /\ (g + x) + (d + n) = put + n /\ (g + x) + d = put /\ g + x \in Nat
      BY <3>2, <1>0, <1>2, <1>19
    <3>4. m.body = Bytes(host.life, (g + x) + d, m.n)
      BY <3>3, <1>3
    <3>5. Placed(down, "send", host.life, g + x)
      BY <3>1, <2>2, <1>20
    <3>6. down \in Seq(Messages) /\ m \in Messages
      BY <1>0, <1>3, QueueFields DEF Messages
    <3>7. Placed(Append(down, m), "send", host.life, g + x)
      BY <3>3, <3>4, <3>5, <3>6, PlacedAppend DEF d
    <3> QED BY <3>1, <3>3, <3>7, <1>4
  <2> QED BY <2>1, <2>2, <1>1, <1>4, <1>17 DEF Sending, x, g, d
<1>23. Receiving' /\ PeerClosed'
  BY <1>4, <1>5, <1>8 DEF IInv, Receiving, PeerClosed
<1> QED BY <1>10, <1>11, <1>12, <1>13, <1>14, <1>15, <1>16, <1>18, <1>21, <1>22, <1>23 DEF IInv

(* The application reads: what it takes is owed back as credit *)
LEMMA RecvStep ==
  ASSUME IInv, Recv
  PROVE  IInv'
<1>0. TypeOK /\ host \in Hosts /\ host.life \in Nat /\ host.rx \in Seq(Byte) /\ got \in Seq(Byte)
      /\ host.back \in Nat /\ Len(host.rx) \in Nat /\ Len(got) \in Nat
  BY Fields DEF IInv, TypeOK
<1>1. PICK part \in Parts(host.rx, Len(host.rx)) :
        /\ host' = [host EXCEPT !.rx = Rest(@, part), !.back = @ + Len(part)]
        /\ got' = got \o part
  BY DEF Recv
<1> DEFINE r == Rest(host.rx, part)
           n == Len(part)
<1>2. /\ part \in Seq(Byte) /\ n \in Nat /\ r \in Seq(Byte) /\ Len(r) = Len(host.rx) - n
      /\ Len(r) \in Nat /\ part \o r = host.rx
  BY <1>0, PartFacts, PartJoin
<1>3. UNCHANGED <<board, peer, down, up, put, sync, resets>> /\ host.rx # <<>>
  BY DEF Recv
<1>4. /\ host' \in Hosts /\ host'.life = host.life /\ host'.state = host.state
      /\ host'.rx = r /\ host'.back = host.back + n /\ host'.credit = host.credit
  <2>1. host.back + n \in Nat
    BY <1>0, <1>2, NatSum
  <2> HIDE DEF r, n
  <2>2. host' = [host EXCEPT !.rx = r, !.back = host.back + n]
    BY <1>1 DEF r, n
  <2>3. host' \in Hosts
    BY <2>1, <2>2, <1>0, <1>2, Zenon DEF Hosts
  <2> QED BY <2>2, <2>3, <1>0 DEF Hosts
<1>5. got' \in Seq(Byte) /\ Len(got') = Len(got) + n /\ got' \o r = got \o host.rx
  <2>1. got' \in Seq(Byte) /\ Len(got') = Len(got) + n
    BY <1>0, <1>1, <1>2, LenJoin
  <2>2. (got \o part) \o r = got \o (part \o r)
    BY <1>0, <1>2, Associative
  <2> QED BY <2>1, <2>2, <1>1, <1>2
<1>6. Len(got') + Len(r) = Len(got) + Len(host.rx)
      /\ Len(r) + (host.back + n) = Len(host.rx) + host.back
  <2> DEFINE a == Len(got)
             b == Len(host.rx)
             c == Len(r)
             e == Len(got')
  <2>1. a \in Nat /\ b \in Nat /\ c \in Nat /\ n \in Nat /\ c = b - n /\ e = a + n
    BY <1>0, <1>2, <1>5
  <2> HIDE DEF a, b, c, e, n
  <2>2. e + c = a + b /\ c + (host.back + n) = b + host.back
    BY <2>1, <1>0
  <2> QED BY <2>2 DEF a, b, c, e
<1> HIDE DEF r, n
<1>7. ~Untouched("closed") /\ ~Untouched("opening")
  BY <1>3, UntouchedFields
<1>8. (sync = "board" \/ Joined) /\ (Joined => board.state # "opening")
  BY <1>7, AtWork
<1>9. (Joined' <=> Joined) /\ (Talking' <=> Talking) /\ Handed' = Handed /\ Taken' = Taken
  <2>1. (Joined' <=> Joined) /\ (Talking' <=> Talking)
    BY <1>3, <1>4 DEF Joined, Talking
  <2>2. Handed' = Handed
    BY <1>4, <1>6 DEF Handed
  <2> QED BY <2>1, <2>2, <1>3, <1>4 DEF Taken
<1>10. TypeOK'
  BY <1>0, <1>3, <1>4, <1>5 DEF TypeOK
<1>11. NearLives'
  BY <1>3, <1>4 DEF IInv, NearLives
<1>12. BoardShape'
  BY <1>3 DEF IInv, BoardShape
<1>13. DownInOrder'
  <2>1. BoardLife' = BoardLife
    BY <1>3 DEF BoardLife
  <2> QED BY <2>1, <1>3, <1>4 DEF IInv, DownInOrder
<1>14. ApartUntouched'
  BY <1>3, <1>8, <1>9 DEF ApartUntouched
<1>15. OpeningFirst'
  BY <1>3, <1>4, <1>8, <1>9 DEF IInv, OpeningFirst
<1>16. ClosedLast'
  BY <1>3, <1>4, <1>9 DEF IInv, ClosedLast
<1>17. HostCredit'
  <2> DEFINE a == Len(host.rx)
             c == Len(r)
             u == Total(up, "data", host.life)
             d == Total(down, "credit", host.life)
             v == board.credit
             w == host.back
  <2>1. a \in Nat /\ c \in Nat /\ u \in Nat /\ d \in Nat /\ v \in Nat
        /\ w \in Nat /\ n \in Nat /\ c + (w + n) = a + w
    BY <1>0, <1>2, <1>6, Fields, Counts DEF n, r
  <2>2. ASSUME Talking PROVE v + u + a + w + d = RxMax
    BY <2>2 DEF IInv, HostCredit
  <2>3. SUFFICES ASSUME Talking PROVE v + u + c + (w + n) + d = RxMax
    BY <1>3, <1>4, <1>9 DEF HostCredit
  <2>4. v + u + a + w + d = RxMax
    BY <2>2, <2>3
  <2> HIDE DEF a, c, u, d, v, w
  <2>5. v + u + c + (w + n) + d = v + u + a + w + d
    BY <2>1
  <2> QED BY <2>4, <2>5
<1>18. BoardCredit'
  BY <1>3, <1>4, <1>9 DEF IInv, BoardCredit
<1>19. Sending'
  BY <1>3, <1>9 DEF IInv, Sending
<1>20. Receiving'
  BY <1>3, <1>4, <1>5, <1>9 DEF IInv, Receiving
<1>21. PeerClosed'
  BY <1>3, <1>4, <1>9 DEF IInv, PeerClosed
<1> QED BY <1>10, <1>11, <1>12, <1>13, <1>14, <1>15, <1>16, <1>17, <1>18, <1>19, <1>20, <1>21
        DEF IInv

-----------------------------------------------------------------------------
(* kwh_step *)

(* The credit goes back in a message or stays; the rest of the slot is as  *)
(* it was                                                                  *)
LEMMA CreditBackFacts ==
  ASSUME TypeOK, NEW c, c = CreditBack(host)
  PROVE  /\ c.h \in Hosts /\ c.h.life = host.life /\ c.h.state = host.state
         /\ c.h.rx = host.rx /\ c.h.credit = host.credit
         /\ \/ c.h = host /\ c.msgs = <<>>
            \/ host.back # 0 /\ host.state = "closed" /\ c.msgs = <<>>
            \/ /\ host.back # 0 /\ host.state # "closed" /\ c.h.back = 0
               /\ c.msgs = <<Message("credit", host.life, "", host.back, <<>>)>>
<1>0. host \in Hosts /\ host.back \in Nat
  BY Fields DEF TypeOK
<1>1. CASE ~CreditDue(host)
  BY <1>0, <1>1 DEF CreditBack
<1>2. CASE CreditDue(host)
  <2>1. host.back # 0
    BY <1>0, <1>2 DEF CreditDue
  <2> DEFINE e == [host EXCEPT !.back = 0]
             q == <<Message("credit", host.life, "", host.back, <<>>)>>
  <2>2. e \in Hosts /\ e.life = host.life /\ e.state = host.state /\ e.rx = host.rx
        /\ e.credit = host.credit /\ e.back = 0
    BY <1>0 DEF Hosts
  <2>3. \/ host.state = "closed" /\ c = [h |-> e, msgs |-> <<>>]
        \/ /\ host.state # "closed"
           /\ c = [h |-> e, msgs |-> q]
        \/ host.state # "closed" /\ c = [h |-> host, msgs |-> <<>>]
    BY <1>2 DEF CreditBack
  <2> HIDE DEF e, q
  <2>4. CASE host.state = "closed" /\ c = [h |-> e, msgs |-> <<>>]
    <3>1. c.h = e /\ c.msgs = <<>>
      BY <2>4
    <3> QED BY <3>1, <2>1, <2>2, <2>4
  <2>5. CASE host.state # "closed" /\ c = [h |-> e, msgs |-> q]
    <3>1. c.h = e /\ c.msgs = q
      BY <2>5
    <3> QED BY <3>1, <2>1, <2>2, <2>5 DEF q
  <2>6. CASE host.state # "closed" /\ c = [h |-> host, msgs |-> <<>>]
    <3>1. c.h = host /\ c.msgs = <<>>
      BY <2>6
    <3> QED BY <3>1, <1>0
  <2> QED BY <2>3, <2>4, <2>5, <2>6
<1> QED BY <1>1, <1>2

(* What a message of its own connection does to a slot *)
LEMMA DeliverState ==
  ASSUME NEW h \in Hosts, NEW m \in ToHost, HostCurrent(h, m), m.type = "state",
         NEW d, d = HostDeliver(h, m)
  PROVE  /\ d \in Hosts /\ d.life = h.life /\ d.back = h.back /\ d.rx = h.rx
         /\ m.state \in States
         /\ h.state = "closing" => d.state \in {"closing", "closed", m.state}
         /\ (h.state = "closing" /\ m.state \in {"established", "peer_closed"}) => d.state = "closing"
         /\ ~(h.state = "closing" /\ m.state \in {"established", "peer_closed"}) => d.state = m.state
         /\ d.state # "closed" => d.credit = h.credit
         /\ (h.state = m.state /\ m.state # "closed") => d = h
<1>1. d = StateReceived(h, m)
  BY DEF HostDeliver
<1>2. m.state \in States /\ "closed" \in States /\ h.state \in States
  BY DEF ToHost, States, Hosts
<1>3. CASE h.state = "closing" /\ Streaming(m.state)
  <2>1. d = h
    BY <1>1, <1>3 DEF StateReceived, Streaming
  <2> QED BY <2>1, <1>2, <1>3 DEF Streaming
<1>4. CASE ~(h.state = "closing" /\ Streaming(m.state)) /\ m.state = "closed"
  <2>1. d = [h EXCEPT !.state = "closed", !.credit = 0]
    BY <1>1, <1>4 DEF StateReceived, SlotClosed, Streaming
  <2>2. d \in Hosts
    <3>1. 0 \in Nat
      OBVIOUS
    <3> QED BY <3>1, <2>1, <1>2, Zenon DEF Hosts
  <2>3. d.life = h.life /\ d.back = h.back /\ d.rx = h.rx /\ d.state = "closed"
    BY <2>1 DEF Hosts
  <2> QED BY <2>2, <2>3, <1>2, <1>4 DEF Streaming
<1>5. CASE ~(h.state = "closing" /\ Streaming(m.state)) /\ m.state # "closed"
  <2>1. d = [h EXCEPT !.state = m.state]
    BY <1>1, <1>5 DEF StateReceived
  <2>2. d \in Hosts /\ d.life = h.life /\ d.back = h.back /\ d.rx = h.rx /\ d.state = m.state
        /\ d.credit = h.credit
    BY <2>1, <1>2 DEF Hosts
  <2>3. h.state = m.state => d = h
    BY <2>1 DEF Hosts
  <2> QED BY <2>2, <2>3, <1>2, <1>5 DEF Streaming
<1> QED BY <1>3, <1>4, <1>5

LEMMA DeliverCredit ==
  ASSUME NEW h \in Hosts, NEW m \in ToHost, HostCurrent(h, m), m.type = "txcredit",
         NEW d, d = HostDeliver(h, m)
  PROVE  /\ d \in Hosts /\ d.life = h.life /\ d.back = h.back /\ d.rx = h.rx /\ d.state = h.state
         /\ h.state \notin {"closed", "closing"} => d.credit = h.credit + m.n
<1>1. d = TxCreditReceived(h, m)
  BY DEF HostDeliver
<1>2. h.credit \in Nat /\ m.n \in Nat
  BY DEF Hosts, ToHost
<1>3. h.credit + m.n \in Nat
  BY <1>2, NatSum
<1>4. CASE h.state \in {"closed", "closing"}
  BY <1>1, <1>4 DEF TxCreditReceived
<1>5. CASE h.state \notin {"closed", "closing"}
  <2>1. d = [h EXCEPT !.credit = h.credit + m.n]
    BY <1>1, <1>5 DEF TxCreditReceived
  <2> QED BY <2>1, <1>3, <1>5 DEF Hosts
<1> QED BY <1>4, <1>5

LEMMA DeliverData ==
  ASSUME NEW h \in Hosts, NEW m \in ToHost, HostCurrent(h, m), m.type = "data",
         NEW d, d = HostDeliver(h, m)
  PROVE  /\ d \in Hosts /\ d.life = h.life /\ d.back = h.back /\ d.state = h.state
         /\ d.credit = h.credit
         /\ h.state = "closed" => d.rx = h.rx
         /\ ~(h.state = "closed" \/ RxMax - Len(h.rx) < Len(m.body)) => d.rx = h.rx \o m.body
<1>1. d = DataReceived(h, m)
  BY DEF HostDeliver
<1>2. h.rx \in Seq(Byte) /\ m.body \in Seq(Byte)
  BY DEF Hosts, ToHost
<1>3. h.rx \o m.body \in Seq(Byte)
  BY <1>2, LenJoin
<1>4. CASE h.state = "closed" \/ RxMax - Len(h.rx) < Len(m.body)
  BY <1>1, <1>4 DEF DataReceived
<1>5. CASE ~(h.state = "closed" \/ RxMax - Len(h.rx) < Len(m.body))
  <2> DEFINE s == h.rx \o m.body
  <2>1. d = [h EXCEPT !.rx = s]
    BY <1>1, <1>5 DEF DataReceived
  <2>2. s \in Seq(Byte)
    BY <1>3
  <2> HIDE DEF s
  <2>3. d \in Hosts /\ d.life = h.life /\ d.back = h.back /\ d.state = h.state
        /\ d.credit = h.credit /\ d.rx = s
    BY <2>1, <2>2 DEF Hosts
  <2> QED BY <2>3, <1>5 DEF s
<1> QED BY <1>4, <1>5

(* The queue to the board after the credit went back or stayed; h is the   *)
(* slot then                                                               *)
CreditOut(h) ==
  /\ h \in Hosts /\ h.life = host.life /\ h.state = host.state /\ h.rx = host.rx
  /\ h.credit = host.credit /\ (host.back = 0 => h = host)
  /\ \/ down' = down /\ (h = host \/ host.state = "closed")
     \/ /\ host.back # 0 /\ host.state # "closed" /\ h.back = 0
        /\ down' = Append(down, Message("credit", host.life, "", host.back, <<>>))

LEMMA CreditOutFacts ==
  ASSUME IInv, NEW h, CreditOut(h)
  PROVE  /\ down' \in Seq(ToBoard)
         /\ host.state # "closed" =>
              h.back + Total(down', "credit", host.life) = host.back + Total(down, "credit", host.life)
         /\ \A life : Total(down', "send", life) = Total(down, "send", life)
         /\ \A life : \A from \in Nat :
              Placed(down, "send", life, from) => Placed(down', "send", life, from)
         /\ \/ down' = down
            \/ /\ host.state # "closed"
               /\ \E m \in ToBoard :
                    down' = Append(down, m) /\ m.life = host.life /\ m.type = "credit"
<1>0. TypeOK /\ down \in Seq(ToBoard) /\ host.back \in Nat /\ host.life \in Nat /\ <<>> \in Seq(Byte)
  BY Fields DEF IInv, TypeOK
<1>1. CASE down' = down /\ (h = host \/ host.state = "closed")
  BY <1>0, <1>1
<1>2. CASE /\ host.back # 0 /\ host.state # "closed" /\ h.back = 0
           /\ down' = Append(down, Message("credit", host.life, "", host.back, <<>>))
  <2> DEFINE m == Message("credit", host.life, "", host.back, <<>>)
  <2>1. m \in ToBoard /\ m.life = host.life /\ m.type = "credit" /\ m.n = host.back
    BY <1>0 DEF Message, ToBoard
  <2>2. down' = Append(down, m)
    BY <1>2
  <2> HIDE DEF m
  <2>3. down' \in Seq(ToBoard)
    BY <2>1, <2>2, <1>0, Appended
  <2>4. /\ \A life : Total(down', "send", life) = Total(down, "send", life)
        /\ \A life : \A from \in Nat :
             Placed(down, "send", life, from) => Placed(down', "send", life, from)
    BY <2>1, <2>2, <1>0, DownTotals
  <2>5. h.back + Total(down', "credit", host.life) = host.back + Total(down, "credit", host.life)
    <3> DEFINE t == Total(down, "credit", host.life)
               w == host.back
    <3>1. Weight(m, "credit", host.life) = w
      BY <2>1 DEF Weight, Carries
    <3>2. Total(down', "credit", host.life) = t + w /\ t \in Nat /\ w \in Nat
      BY <3>1, <2>1, <2>2, <1>0, DownTotals
    <3> HIDE DEF t, w
    <3>3. 0 + (t + w) = w + t
      BY <3>2
    <3> QED BY <3>2, <3>3, <1>2 DEF t, w
  <2> QED BY <2>1, <2>2, <2>3, <2>4, <2>5, <1>2
<1> QED BY <1>1, <1>2 DEF CreditOut

(* The parts of the invariant that do not count bytes, after a step of the *)
(* host: its state changes only to what the first message shows            *)
Heard(h) ==
  /\ CreditOut(h) /\ UNCHANGED <<board, peer, got, put, sync, resets>>
  /\ host' \in Hosts /\ host'.life = host.life
  /\ up' = up \/ (up # <<>> /\ up' = Tail(up))
  /\ host'.state # host.state =>
       /\ Joined /\ up # <<>> /\ up' = Tail(up)
       /\ Head(up).life = host.life /\ Shows(Head(up), host'.state)
  /\ host.state = "closing" => host'.state \in {"closing", "closed"}
  /\ host.state = "closed" => host'.state = "closed"
  /\ (sync # "board" /\ ~Joined) => host' = host /\ down' = down
  /\ (Joined /\ board.state = "opening") => host' = host

(* Whatever it hears, this much is kept *)
LEMMA HeardStep ==
  ASSUME IInv, NEW h, Heard(h)
  PROVE  /\ TypeOK' /\ NearLives' /\ BoardShape' /\ DownInOrder' /\ ApartUntouched'
         /\ OpeningFirst' /\ ClosedLast' /\ Sending' /\ (Joined' <=> Joined)
         /\ (Talking' => Talking)
<1>0. TypeOK /\ up \in Seq(ToHost)
  BY DEF IInv, TypeOK
<1>1. /\ UNCHANGED <<board, peer, got, put, sync, resets>> /\ CreditOut(h)
      /\ host' \in Hosts /\ host'.life = host.life
      /\ host.state = "closed" => host'.state = "closed"
  BY DEF Heard
<1>2. (Joined' <=> Joined) /\ (Talking' => Talking)
  BY <1>1 DEF Joined, Talking
<1>3. /\ up' \in Seq(ToHost) /\ (up' # <<>> => up # <<>>)
      /\ \/ up' = up
         \/ /\ 1 \in DOMAIN up /\ up[1] = Head(up)
            /\ \A i \in DOMAIN up' : /\ i \in Nat /\ i + 1 \in DOMAIN up
                                     /\ up'[i] = up[i + 1] /\ 1 < i + 1
            /\ \A i, j \in DOMAIN up' : i < j => i + 1 < j + 1
  <2>1. CASE up' = up
    BY <2>1, <1>0
  <2>2. CASE up # <<>> /\ up' = Tail(up)
    BY <2>2, <1>0, Shortened
  <2> QED BY <2>1, <2>2 DEF Heard
<1>4. host'.state # host.state =>
        /\ Joined /\ 1 \in DOMAIN up /\ up[1].life = host.life /\ Shows(up[1], host'.state)
        /\ \A i \in DOMAIN up' : /\ i \in Nat /\ i + 1 \in DOMAIN up
                                 /\ up'[i] = up[i + 1] /\ 1 < i + 1
  BY <1>0, Shortened DEF Heard
<1>5. TypeOK'
  BY <1>0, <1>1, <1>3, CreditOutFacts DEF TypeOK
<1>6. NearLives'
  <2>1. ASSUME NEW i \in DOMAIN up'
        PROVE  /\ 1 <= up'[i].life /\ up'[i].life <= board.life
               /\ host.life - up'[i].life < GenCount
    <3>1. PICK j \in DOMAIN up : up'[i] = up[j]
      BY <1>3
    <3> QED BY <3>1 DEF IInv, NearLives
  <2> QED BY <2>1, <1>1, <1>3 DEF IInv, NearLives
<1>7. BoardShape'
  BY <1>1 DEF IInv, BoardShape
<1>8. DownInOrder'
  <2>1. CASE sync = "board"
    BY <2>1, <1>1 DEF DownInOrder
  <2>2. CASE sync # "board" /\ ~Joined
    <3>1. host' = host /\ down' = down /\ BoardLife' = BoardLife
      BY <2>2, <1>1 DEF Heard, BoardLife
    <3> QED BY <3>1, <1>1 DEF IInv, DownInOrder
  <2>3. CASE Joined
    <3>1. host.state \in {"closing", "closed"} => host'.state \in {"closing", "closed"}
      BY DEF Heard
    <3>2. host.state # "closed" => host.life # 0
      BY DEF IInv, NearLives
    <3>3. \/ down' = down
          \/ \E m \in ToBoard :
              /\ down' = Append(down, m) /\ m.life = host.life /\ host.life # 0
              /\ m.type \in {"close", "send", "credit"}
              /\ m.type = "close" => host'.state \in {"closing", "closed"}
              /\ m.type = "send" => board.state # "opening"
      BY <3>2, <1>1, CreditOutFacts
    <3> QED BY <2>3, <3>1, <3>3, <1>1, JoinedDown
  <2> QED BY <2>1, <2>2, <2>3
<1>9. ApartUntouched'
  <2>1. (sync # "board" /\ ~Joined) => host' = host
    BY DEF Heard
  <2> QED BY <2>1, <1>1, <1>2 DEF IInv, ApartUntouched, Untouched
<1>10. OpeningFirst'
  <2> SUFFICES ASSUME Joined PROVE OpeningFirst'
    BY <1>2 DEF OpeningFirst
  <2>1. ASSUME NEW i \in DOMAIN up', up'[i].life = host.life, Shows(up'[i], "opening")
        PROVE  /\ host'.state = "opening"
               /\ \A j \in DOMAIN up' : (j < i /\ up'[j].life = host.life) => Shows(up'[j], "opening")
    <3>1. CASE up' = up
      <4>1. host.state = "opening"
            /\ \A j \in DOMAIN up : (j < i /\ up[j].life = host.life) => Shows(up[j], "opening")
        BY <2>1, <3>1 DEF IInv, OpeningFirst
      <4>2. host'.state = host.state
        <5>1. SUFFICES ASSUME host'.state # host.state PROVE FALSE
          OBVIOUS
        <5>2. i \in Nat /\ i + 1 \in DOMAIN up /\ Shows(up[i + 1], "opening") /\ 1 < i + 1
              /\ up[i + 1].life = host.life
          BY <5>1, <2>1, <1>4
        <5>3. Shows(up[1], "opening") /\ Shows(up[1], host'.state)
          BY <5>1, <5>2, <1>4 DEF IInv, OpeningFirst
        <5> QED BY <5>1, <5>3, <4>1 DEF Shows
      <4> QED BY <3>1, <4>1, <4>2
    <3>2. CASE /\ 1 \in DOMAIN up
               /\ \A k \in DOMAIN up' : /\ k \in Nat /\ k + 1 \in DOMAIN up
                                        /\ up'[k] = up[k + 1] /\ 1 < k + 1
               /\ \A k, j \in DOMAIN up' : k < j => k + 1 < j + 1
      <4>1. i + 1 \in DOMAIN up /\ up'[i] = up[i + 1] /\ 1 < i + 1
        BY <3>2
      <4>2. /\ host.state = "opening"
            /\ \A j \in DOMAIN up : (j < i + 1 /\ up[j].life = host.life) => Shows(up[j], "opening")
        BY <4>1, <2>1 DEF IInv, OpeningFirst
      <4>3. host'.state # host.state => Shows(up[1], "opening") /\ Shows(up[1], host'.state)
        BY <4>1, <4>2, <1>4
      <4>4. host'.state = "opening"
        BY <4>2, <4>3 DEF Shows
      <4>5. ASSUME NEW j \in DOMAIN up', j < i, up'[j].life = host.life
            PROVE  Shows(up'[j], "opening")
        BY <4>5, <4>2, <3>2
      <4> QED BY <4>4, <4>5
    <3> QED BY <3>1, <3>2, <1>3
  <2>2. ASSUME board.state = "opening"
        PROVE  /\ Untouched("opening")'
               /\ \A i \in DOMAIN up' : up'[i].life = host.life => Shows(up'[i], "opening")
    <3>1. host' = host
      BY <2>2 DEF Heard
    <3>2. /\ Untouched("opening")
          /\ \A i \in DOMAIN up : up[i].life = host.life => Shows(up[i], "opening")
      BY <2>2 DEF IInv, OpeningFirst
    <3> QED BY <3>1, <3>2, <1>1, <1>3 DEF Untouched
  <2> QED BY <2>1, <2>2, <1>1 DEF OpeningFirst
<1>11. ClosedLast'
  <2> SUFFICES ASSUME Joined PROVE ClosedLast'
    BY <1>2 DEF ClosedLast
  <2>1. ASSUME NEW i \in DOMAIN up', up'[i].life = host.life, Shows(up'[i], "closed")
        PROVE  /\ Ended(board)
               /\ \A j \in DOMAIN up' : (i < j /\ up'[j].life = host.life) => Shows(up'[j], "closed")
    <3>1. CASE up' = up
      BY <2>1, <3>1 DEF IInv, ClosedLast
    <3>2. CASE /\ \A k \in DOMAIN up' : k + 1 \in DOMAIN up /\ up'[k] = up[k + 1]
               /\ \A k, j \in DOMAIN up' : k < j => k + 1 < j + 1
      <4>1. i + 1 \in DOMAIN up /\ up'[i] = up[i + 1]
        BY <3>2
      <4>2. /\ Ended(board)
            /\ \A j \in DOMAIN up : (i + 1 < j /\ up[j].life = host.life) => Shows(up[j], "closed")
        BY <4>1, <2>1 DEF IInv, ClosedLast
      <4> QED BY <3>2, <4>2
    <3> QED BY <3>1, <3>2, <1>3
  <2>2. ASSUME host'.state = "closed"
        PROVE  /\ Ended(board)
               /\ \A i \in DOMAIN up' : up'[i].life = host.life => Shows(up'[i], "closed")
    <3>1. CASE host.state = "closed"
      <4>1. /\ Ended(board)
            /\ \A i \in DOMAIN up : up[i].life = host.life => Shows(up[i], "closed")
        BY <3>1 DEF IInv, ClosedLast
      <4> QED BY <4>1, <1>3
    <3>2. CASE host.state # "closed"
      <4>1. /\ Ended(board)
            /\ \A j \in DOMAIN up : (1 < j /\ up[j].life = host.life) => Shows(up[j], "closed")
        BY <3>2, <2>2, <1>4 DEF IInv, ClosedLast
      <4> QED BY <3>2, <4>1, <2>2, <1>4
    <3> QED BY <3>1, <3>2
  <2> QED BY <2>1, <2>2, <1>1 DEF ClosedLast
<1>12. Sending'
  <2>1. Len(peer.got) + Len(board.tx) \in Nat
    BY <1>0, Giving
  <2>2. /\ \A life : Total(down', "send", life) = Total(down, "send", life)
        /\ \A life : \A from \in Nat :
             Placed(down, "send", life, from) => Placed(down', "send", life, from)
    BY <1>1, CreditOutFacts
  <2> QED BY <2>1, <2>2, <1>1, <1>2 DEF IInv, Sending
<1> QED BY <1>2, <1>5, <1>6, <1>7, <1>8, <1>9, <1>10, <1>11, <1>12

(* The bytes and the credit of a step of the host: what leaves the queue   *)
(* comes into the slot                                                     *)
Flows(h) ==
  /\ host'.back = h.back
  /\ got' \o host'.rx = Bytes(host'.life, 0, Handed')
  /\ Handed' # Handed => Joined /\ up # <<>> /\ Carries(Head(up), "data", host.life)
  /\ Talking' =>
       /\ Len(host'.rx) + Total(up', "data", host.life) = Len(host.rx) + Total(up, "data", host.life)
       /\ Placed(up', "data", host.life, Handed')
       /\ host'.state # "closing" =>
            Total(up', "txcredit", host.life) + host'.credit =
              Total(up, "txcredit", host.life) + host.credit

(* and if the counts come out, all of it *)
LEMMA FlowStep ==
  ASSUME IInv, NEW h, Heard(h), Flows(h)
  PROVE  IInv'
<1>0. TypeOK /\ up \in Seq(ToHost)
  BY DEF IInv, TypeOK
<1>1. /\ UNCHANGED <<board, peer, got, put, sync, resets>> /\ CreditOut(h)
      /\ host' \in Hosts /\ host'.life = host.life
  BY DEF Heard
<1>2. /\ TypeOK' /\ NearLives' /\ BoardShape' /\ DownInOrder' /\ ApartUntouched'
      /\ OpeningFirst' /\ ClosedLast' /\ Sending' /\ (Joined' <=> Joined)
      /\ (Talking' => Talking)
  BY HeardStep
<1> DEFINE a == Len(host.rx)
           b == Len(host'.rx)
           u == Total(up, "data", host.life)
           v == Total(up', "data", host.life)
           g == Len(got)
           x == Len(board.rx)
<1>3. a \in Nat /\ b \in Nat /\ u \in Nat /\ v \in Nat /\ g \in Nat /\ x \in Nat
      /\ Handed = g + a /\ Handed' = g + b /\ Taken = Handed + u + x /\ Taken' = Handed' + v + x
  <2>1. a \in Nat /\ u \in Nat /\ g \in Nat /\ x \in Nat
    BY <1>0, Fields, Counts
  <2>2. b \in Nat
    <3>1. host'.rx \in Seq(Byte)
      BY <1>1 DEF Hosts
    <3> QED BY <3>1
  <2>3. v \in Nat
    <3>1. up' \in Seq(Messages)
      BY <1>2, MessageFacts DEF TypeOK
    <3> QED BY <3>1, TotalsFacts
  <2> QED BY <2>1, <2>2, <2>3, <1>1 DEF Handed, Taken
<1>4. Talking' => b + v = a + u
  BY DEF Flows
<1>5. Handed' # Handed => Joined /\ up # <<>> /\ Carries(Head(up), "data", host.life)
  BY DEF Flows
<1> HIDE DEF a, b, u, v, g, x
<1>6. Talking' => Taken' = Taken /\ Handed' + v = Handed + u
  BY <1>3, <1>4
<1>7. HostCredit'
  <2> SUFFICES ASSUME Talking' PROVE HostCredit'
    BY DEF HostCredit
  <2> DEFINE c == board.credit
             p == host.back
             q == h.back
             d == Total(down, "credit", host.life)
             e == Total(down', "credit", host.life)
  <2>1. host.state # "closed" /\ Talking
    BY <1>2 DEF Talking
  <2>2. q + e = p + d /\ host'.back = q
    BY <2>1, <1>1, CreditOutFacts DEF Flows
  <2>3. c + u + a + p + d = RxMax
    BY <2>1 DEF IInv, HostCredit, a, u
  <2>4. c \in Nat /\ p \in Nat /\ d \in Nat /\ q \in Nat /\ e \in Nat
    <3>1. h.back \in Nat
      BY <1>1 DEF CreditOut, Hosts
    <3>2. down' \in Seq(Messages)
      BY <1>2, MessageFacts DEF TypeOK
    <3> QED BY <3>1, <3>2, <1>0, Fields, Counts, TotalsFacts
  <2>5. c = board'.credit
    BY <1>1
  <2> HIDE DEF c, p, q, d, e
  <2>6. c + v + b + q + e = c + u + a + p + d
    BY <2>2, <2>4, <1>3, <1>4
  <2>7. c + v + b + q + e = RxMax
    BY <2>3, <2>6
  <2> QED BY <2>2, <2>5, <2>7, <1>1 DEF HostCredit, v, b, e
<1>8. BoardCredit'
  <2> SUFFICES ASSUME Talking', Streaming(board.state), host'.state # "closing" PROVE BoardCredit'
    BY <1>1 DEF BoardCredit
  <2> DEFINE t == Len(board.tx)
             r == board.grant
             c == host.credit
             e == host'.credit
             p == Total(up, "txcredit", host.life)
             q == Total(up', "txcredit", host.life)
             d == Total(down, "send", host.life)
  <2>1. q + e = p + c
    BY DEF Flows
  <2>2. Talking /\ host.state # "closing"
    BY <1>2 DEF Heard, Talking
  <2>3. t + r + p + c + d = TxCap
    BY <2>2 DEF IInv, BoardCredit
  <2>4. t \in Nat /\ r \in Nat /\ c \in Nat /\ e \in Nat /\ p \in Nat /\ q \in Nat /\ d \in Nat
    <3>1. host'.credit \in Nat
      BY <1>1 DEF Hosts
    <3>2. up' \in Seq(Messages)
      BY <1>2, MessageFacts DEF TypeOK
    <3> QED BY <3>1, <3>2, <1>0, Fields, Counts, TotalsFacts
  <2>5. Total(down', "send", host.life) = d
    BY <1>1, CreditOutFacts
  <2> HIDE DEF t, r, c, e, p, q, d
  <2>6. t + r + q + e + d = t + r + p + c + d
    BY <2>1, <2>4
  <2>7. t + r + q + e + d = TxCap
    BY <2>3, <2>6
  <2> QED BY <2>5, <2>7, <1>1 DEF BoardCredit, t, r, q, e
<1>9. Receiving'
  <2>1. got' \o host'.rx = Bytes(host'.life, 0, Handed')
    BY DEF Flows
  <2>2. ASSUME Talking'
        PROVE  /\ Placed(up', "data", host.life, Handed')
               /\ board.rx = Bytes(host.life, Handed' + v, Len(board.rx))
               /\ board.fd => peer.net = Bytes(host.life, Taken', Len(peer.net))
               /\ peer.up => Taken' + Len(peer.net) = peer.sent
    <3>1. Talking
      BY <2>2, <1>2
    <3>2. Placed(up', "data", host.life, Handed')
      BY <2>2 DEF Flows
    <3>3. /\ board.rx = Bytes(host.life, Handed + u, Len(board.rx))
          /\ board.fd => peer.net = Bytes(host.life, Taken, Len(peer.net))
          /\ peer.up => Taken + Len(peer.net) = peer.sent
      BY <3>1 DEF IInv, Receiving, u
    <3> QED BY <3>2, <3>3, <2>2, <1>6
  <2> QED BY <2>1, <2>2, <1>1 DEF Receiving, v
<1>10. PeerClosed'
  <2>1. /\ \A i \in DOMAIN up' : \E j \in DOMAIN up : up'[i] = up[j]
        /\ up # <<>> => 1 \in DOMAIN up /\ up[1] = Head(up)
        /\ \/ up' = up
           \/ /\ \A k \in DOMAIN up' : k + 1 \in DOMAIN up /\ up'[k] = up[k + 1]
              /\ \A k, j \in DOMAIN up' : k < j => k + 1 < j + 1
    <3>1. CASE up' = up
      BY <3>1, <1>0, Shortened
    <3>2. CASE up # <<>> /\ up' = Tail(up)
      <4>1. /\ \A k \in DOMAIN up' : k + 1 \in DOMAIN up /\ up'[k] = up[k + 1]
            /\ \A k, j \in DOMAIN up' : k < j => k + 1 < j + 1
        BY <3>2, <1>0, Shortened
      <4> QED BY <3>2, <4>1, <1>0, Shortened
    <3> QED BY <3>1, <3>2 DEF Heard
  <2>2. ASSUME host'.state # host.state, host'.state = "peer_closed"
        PROVE  /\ Talking /\ Drained(board) /\ Taken = peer.sent /\ peer.fin
               /\ \A i \in DOMAIN up : ~Carries(up[i], "data", host.life)
    <3>1. /\ Joined /\ host.state # "closed" /\ 1 \in DOMAIN up
          /\ up[1].life = host.life /\ Shows(up[1], "peer_closed")
      BY <2>1, <2>2 DEF Heard
    <3>2. Talking
      BY <3>1 DEF Talking
    <3>3. /\ Drained(board) /\ Taken = peer.sent /\ peer.fin
          /\ \A j \in DOMAIN up : 1 < j => ~Carries(up[j], "data", host.life)
      BY <3>1, <3>2 DEF IInv, PeerClosed
    <3>4. ~Carries(up[1], "data", host.life)
      BY <3>1 DEF Shows, Carries
    <3>5. \A j \in DOMAIN up : j = 1 \/ 1 < j
      BY <1>0
    <3> QED BY <3>2, <3>3, <3>4, <3>5
  <2>3. ASSUME host.state = "peer_closed", Talking
        PROVE  Drained(board) /\ \A i \in DOMAIN up : ~Carries(up[i], "data", host.life)
    BY <2>3 DEF IInv, PeerClosed
  <2>4. ASSUME host'.state = "peer_closed", Talking'
        PROVE  Drained(board) /\ \A i \in DOMAIN up' : ~Carries(up'[i], "data", host.life)
    BY <2>1, <2>2, <2>3, <2>4, <1>2
  <2>5. ASSUME host'.state = "peer_closed" PROVE Handed' = peer.sent /\ peer.fin
    <3>1. CASE host.state = "peer_closed"
      <4>1. Handed = peer.sent /\ peer.fin
        BY <3>1 DEF IInv, PeerClosed
      <4>2. Handed' = Handed
        <5>1. Joined => Talking
          BY <3>1 DEF Talking
        <5> QED BY <5>1, <3>1, <2>1, <2>3, <1>5
      <4> QED BY <4>1, <4>2
    <3>2. CASE host.state # "peer_closed"
      <4>1. /\ Drained(board) /\ Taken = peer.sent /\ peer.fin
            /\ \A i \in DOMAIN up : ~Carries(up[i], "data", host.life)
        BY <3>2, <2>2, <2>5
      <4>2. u = 0
        BY <4>1, <1>0, QueueFields, TotalNone DEF u
      <4>3. x = 0
        <5>1. Len(<<>>) = 0
          OBVIOUS
        <5> QED BY <5>1, <4>1 DEF Drained, x
      <4>4. Handed' = Handed
        BY <4>1, <2>1, <1>5
      <4>5. Handed = Taken
        BY <4>2, <4>3, <1>3
      <4> QED BY <4>1, <4>4, <4>5
    <3> QED BY <3>1, <3>2
  <2>6. ASSUME Talking'
        PROVE  /\ board.state = "peer_closed" => Taken' = peer.sent /\ peer.fin
               /\ \A i \in DOMAIN up' : (up'[i].life = host.life /\ Shows(up'[i], "peer_closed")) =>
                    /\ Drained(board) /\ Taken' = peer.sent /\ peer.fin
                    /\ \A j \in DOMAIN up' : i < j => ~Carries(up'[j], "data", host.life)
    <3>1. Talking /\ Taken' = Taken
      BY <2>6, <1>2, <1>6
    <3>2. /\ board.state = "peer_closed" => Taken = peer.sent /\ peer.fin
          /\ \A i \in DOMAIN up : (up[i].life = host.life /\ Shows(up[i], "peer_closed")) =>
               /\ Drained(board) /\ Taken = peer.sent /\ peer.fin
               /\ \A j \in DOMAIN up : i < j => ~Carries(up[j], "data", host.life)
      BY <3>1 DEF IInv, PeerClosed
    <3>3. ASSUME NEW i \in DOMAIN up', up'[i].life = host.life, Shows(up'[i], "peer_closed")
          PROVE  /\ Drained(board) /\ Taken = peer.sent /\ peer.fin
                 /\ \A j \in DOMAIN up' : i < j => ~Carries(up'[j], "data", host.life)
      <4>1. CASE up' = up
        BY <3>2, <3>3, <4>1
      <4>2. CASE /\ \A k \in DOMAIN up' : k + 1 \in DOMAIN up /\ up'[k] = up[k + 1]
                 /\ \A k, j \in DOMAIN up' : k < j => k + 1 < j + 1
        BY <3>2, <3>3, <4>2
      <4> QED BY <4>1, <4>2, <2>1
    <3> QED BY <3>1, <3>2, <3>3
  <2> QED BY <2>4, <2>5, <2>6, <1>1 DEF PeerClosed
<1> QED BY <1>2, <1>7, <1>8, <1>9, <1>10 DEF IInv

(* What the first message of the queue to the host held, and what is left  *)
LEMMA HeadUp ==
  ASSUME IInv, up # <<>>, NEW type
  PROVE  /\ Head(up) \in ToHost /\ Head(up) \in Messages /\ Tail(up) \in Seq(ToHost)
         /\ 1 \in DOMAIN up /\ up[1] = Head(up)
         /\ Total(up, type, host.life) =
              Weight(Head(up), type, host.life) + Total(Tail(up), type, host.life)
         /\ Total(Tail(up), type, host.life) \in Nat /\ Weight(Head(up), type, host.life) \in Nat
         /\ Placed(up, type, host.life, Handed) =>
              /\ Carries(Head(up), type, host.life) =>
                   Head(up).body = Bytes(host.life, Handed, Head(up).n)
              /\ Placed(Tail(up), type, host.life, Handed + Weight(Head(up), type, host.life))
<1>0. TypeOK /\ up \in Seq(ToHost) /\ up \in Seq(Messages) /\ Handed \in Nat
  BY Fields, QueueFields DEF IInv, TypeOK
<1>1. /\ Head(up) \in ToHost /\ Tail(up) \in Seq(ToHost) /\ 1 \in DOMAIN up /\ up[1] = Head(up)
  BY <1>0, Shortened
<1>2. Head(up) \in Messages /\ Tail(up) \in Seq(Messages)
  BY <1>0, Shortened
<1>3. /\ Total(up, type, host.life) =
           Weight(Head(up), type, host.life) + Total(Tail(up), type, host.life)
      /\ Total(Tail(up), type, host.life) \in Nat /\ Weight(Head(up), type, host.life) \in Nat
  <2>1. Total(up, type, host.life) =
          Weight(Head(up), type, host.life) + Total(Tail(up), type, host.life)
    BY <1>0, TotalTail
  <2>2. Total(Tail(up), type, host.life) \in Nat
    BY <1>2, TotalsFacts
  <2>3. Weight(Head(up), type, host.life) \in Nat
    BY <1>2, MessageFacts
  <2> QED BY <2>1, <2>2, <2>3
<1>4. ASSUME Placed(up, type, host.life, Handed)
      PROVE  /\ Carries(Head(up), type, host.life) =>
                  Head(up).body = Bytes(host.life, Handed, Head(up).n)
             /\ Placed(Tail(up), type, host.life, Handed + Weight(Head(up), type, host.life))
  BY <1>0, <1>4, PlacedTail
<1> QED BY <1>1, <1>2, <1>3, <1>4

(* Of a queue whose first message carries nothing of a type on this        *)
(* connection, the rest is as much                                         *)
LEMMA HeadNothing ==
  ASSUME IInv, up # <<>>, NEW type, ~Carries(Head(up), type, host.life)
  PROVE  /\ Total(Tail(up), type, host.life) = Total(up, type, host.life)
         /\ Placed(up, type, host.life, Handed) => Placed(Tail(up), type, host.life, Handed)
<1>1. Weight(Head(up), type, host.life) = 0
  BY DEF Weight
<1>2. Handed \in Nat /\ Handed + 0 = Handed
  BY Fields DEF IInv
<1>3. \A n \in Nat : 0 + n = n
  OBVIOUS
<1> QED BY <1>1, <1>2, <1>3, HeadUp

(* No message, or one of an earlier connection *)
LEMMA HostSilentStep ==
  ASSUME IInv, NEW h, CreditOut(h), host' = h,
         UNCHANGED <<board, peer, got, put, sync, resets>>,
         (sync # "board" /\ ~Joined) => host' = host /\ down' = down,
         \/ up' = up
         \/ up # <<>> /\ up' = Tail(up) /\ Head(up).life # host.life
  PROVE  IInv'
<1>1. /\ host' \in Hosts /\ host'.life = host.life /\ host'.state = host.state
      /\ host'.rx = host.rx /\ host'.credit = host.credit /\ (host.back = 0 => host' = host)
  BY DEF CreditOut
<1>2. Heard(h)
  <2>1. (Joined /\ board.state = "opening") => host.back = 0
    BY UntouchedFields DEF IInv, OpeningFirst
  <2> QED BY <2>1, <1>1 DEF Heard
<1>3. Handed' = Handed /\ (Talking' => Talking)
  BY <1>1 DEF Handed, Talking, Joined
<1>4. \A type : /\ Total(up', type, host.life) = Total(up, type, host.life)
                /\ Placed(up, type, host.life, Handed) => Placed(up', type, host.life, Handed)
  <2>1. CASE up' = up
    BY <2>1
  <2>2. CASE up # <<>> /\ up' = Tail(up) /\ Head(up).life # host.life
    <3>1. \A type : ~Carries(Head(up), type, host.life)
      BY <2>2 DEF Carries
    <3> QED BY <2>2, <3>1, HeadNothing
  <2> QED BY <2>1, <2>2
<1>5. Flows(h)
  <2>1. got' \o host'.rx = Bytes(host'.life, 0, Handed')
    BY <1>1, <1>3 DEF IInv, Receiving
  <2>2. Talking' => Placed(up', "data", host.life, Handed')
    BY <1>3, <1>4 DEF IInv, Receiving
  <2> QED BY <2>1, <2>2, <1>1, <1>3, <1>4 DEF Flows
<1> QED BY <1>2, <1>5, FlowStep

(* What the three messages of its own connection have in common *)
OwnMessage(h, m) ==
  /\ CreditOut(h) /\ Joined /\ up # <<>> /\ m = Head(up) /\ m \in ToHost /\ m.life = host.life
  /\ HostCurrent(h, m) /\ host' = HostDeliver(h, m) /\ up' = Tail(up)
  /\ UNCHANGED <<board, peer, got, put, sync, resets>>

LEMMA OwnMessageFacts ==
  ASSUME IInv, NEW h, NEW m, OwnMessage(h, m)
  PROVE  /\ h \in Hosts /\ h.life = host.life /\ h.state = host.state /\ h.rx = host.rx
         /\ h.credit = host.credit /\ (host.back = 0 => h = host)
         /\ board.state = "opening" => Shows(m, "opening") /\ h = host /\ host.state = "opening"
         /\ Shows(m, "opening") => host.state = "opening"
         /\ host.state = "closed" => Shows(m, "closed")
<1>1. /\ CreditOut(h) /\ Joined /\ 1 \in DOMAIN up /\ up[1] = m /\ m.life = host.life
  BY HeadUp DEF OwnMessage
<1>2. board.state = "opening" => Shows(m, "opening") /\ Untouched("opening")
  BY <1>1 DEF IInv, OpeningFirst
<1>3. board.state = "opening" => host.back = 0 /\ host.state = "opening"
  BY <1>2, UntouchedFields
<1>4. Shows(m, "opening") => host.state = "opening"
  BY <1>1 DEF IInv, OpeningFirst
<1>5. host.state = "closed" => Shows(m, "closed")
  BY <1>1 DEF IInv, ClosedLast
<1> QED BY <1>1, <1>2, <1>3, <1>4, <1>5 DEF CreditOut

(* The board's state: the peer's close comes after the peer's data *)
LEMMA HostStateStep ==
  ASSUME IInv, NEW h, NEW m, OwnMessage(h, m), m.type = "state"
  PROVE  IInv'
<1>1. /\ CreditOut(h) /\ Joined /\ up # <<>> /\ m = Head(up) /\ m \in ToHost /\ m.life = host.life
      /\ HostCurrent(h, m) /\ host' = HostDeliver(h, m) /\ up' = Tail(up)
      /\ UNCHANGED <<board, peer, got, put, sync, resets>>
  BY DEF OwnMessage
<1>2. /\ h \in Hosts /\ h.life = host.life /\ h.state = host.state /\ h.rx = host.rx
      /\ h.credit = host.credit
      /\ board.state = "opening" => Shows(m, "opening") /\ h = host /\ host.state = "opening"
      /\ Shows(m, "opening") => host.state = "opening"
      /\ host.state = "closed" => Shows(m, "closed")
  BY OwnMessageFacts
<1>3. /\ host' \in Hosts /\ host'.life = h.life /\ host'.back = h.back /\ host'.rx = h.rx
      /\ m.state \in States
      /\ (h.state = "closing" /\ m.state \in {"established", "peer_closed"}) => host'.state = "closing"
      /\ ~(h.state = "closing" /\ m.state \in {"established", "peer_closed"}) => host'.state = m.state
      /\ host'.state # "closed" => host'.credit = h.credit
      /\ (h.state = m.state /\ m.state # "closed") => host' = h
  BY <1>1, <1>2, DeliverState
<1>4. \A state : Shows(m, state) <=> m.state = state
  BY DEF Shows
<1>5. Heard(h)
  <2>1. host'.state # host.state => Shows(m, host'.state)
    BY <1>2, <1>3, <1>4
  <2>2. host.state = "closing" => host'.state \in {"closing", "closed"}
    BY <1>2, <1>3, <1>4 DEF States
  <2>3. host.state = "closed" => host'.state = "closed"
    BY <1>2, <1>3, <1>4
  <2>4. board.state = "opening" => host' = host
    BY <1>2, <1>3, <1>4
  <2> QED BY <2>1, <2>2, <2>3, <2>4, <1>1, <1>2, <1>3 DEF Heard
<1>6. Handed' = Handed /\ (Talking' => Talking /\ host'.state # "closed")
  BY <1>1, <1>2, <1>3, <1>4 DEF Handed, Talking, Joined
<1>7. Flows(h)
  <2>1. got' \o host'.rx = Bytes(host'.life, 0, Handed')
    BY <1>1, <1>2, <1>3, <1>6 DEF IInv, Receiving
  <2>2. ~Carries(Head(up), "data", host.life) /\ ~Carries(Head(up), "txcredit", host.life)
    BY <1>1 DEF Carries
  <2>3. /\ Total(up', "data", host.life) = Total(up, "data", host.life)
        /\ Total(up', "txcredit", host.life) = Total(up, "txcredit", host.life)
        /\ Placed(up, "data", host.life, Handed) => Placed(up', "data", host.life, Handed)
    BY <2>2, <1>1, HeadNothing
  <2>4. Talking' => Placed(up', "data", host.life, Handed')
    BY <2>3, <1>6 DEF IInv, Receiving
  <2> QED BY <2>1, <2>3, <2>4, <1>2, <1>3, <1>6 DEF Flows
<1> QED BY <1>5, <1>7, FlowStep

(* Credit to send *)
LEMMA HostTxCreditStep ==
  ASSUME IInv, NEW h, NEW m, OwnMessage(h, m), m.type = "txcredit"
  PROVE  IInv'
<1>1. /\ CreditOut(h) /\ Joined /\ up # <<>> /\ m = Head(up) /\ m \in ToHost /\ m.life = host.life
      /\ HostCurrent(h, m) /\ host' = HostDeliver(h, m) /\ up' = Tail(up)
      /\ UNCHANGED <<board, peer, got, put, sync, resets>>
  BY DEF OwnMessage
<1>2. /\ h \in Hosts /\ h.life = host.life /\ h.state = host.state /\ h.rx = host.rx
      /\ h.credit = host.credit /\ board.state # "opening"
  BY OwnMessageFacts DEF Shows
<1>3. /\ host' \in Hosts /\ host'.life = h.life /\ host'.back = h.back /\ host'.rx = h.rx
      /\ host'.state = h.state
      /\ h.state \notin {"closed", "closing"} => host'.credit = h.credit + m.n
  BY <1>1, <1>2, DeliverCredit
<1>4. Heard(h)
  BY <1>1, <1>2, <1>3 DEF Heard
<1>5. Handed' = Handed /\ (Talking' => Talking /\ host'.state # "closed")
  BY <1>1, <1>2, <1>3 DEF Handed, Talking, Joined
<1>6. Flows(h)
  <2>1. got' \o host'.rx = Bytes(host'.life, 0, Handed')
    BY <1>1, <1>2, <1>3, <1>5 DEF IInv, Receiving
  <2>2. ~Carries(Head(up), "data", host.life) /\ Carries(Head(up), "txcredit", host.life)
    BY <1>1 DEF Carries
  <2>3. /\ Total(up', "data", host.life) = Total(up, "data", host.life)
        /\ Placed(up, "data", host.life, Handed) => Placed(up', "data", host.life, Handed)
    BY <2>2, <1>1, HeadNothing
  <2>4. Talking' => Placed(up', "data", host.life, Handed')
    BY <2>3, <1>5 DEF IInv, Receiving
  <2>5. (host'.state \notin {"closed", "closing"}) =>
          Total(up', "txcredit", host.life) + host'.credit =
            Total(up, "txcredit", host.life) + host.credit
    <3> DEFINE t == Total(up', "txcredit", host.life)
               n == m.n
               c == host.credit
    <3>1. Weight(Head(up), "txcredit", host.life) = n
      BY <2>2, <1>1 DEF Weight
    <3>2. Total(up, "txcredit", host.life) = n + t /\ t \in Nat /\ n \in Nat
      BY <3>1, <1>1, HeadUp
    <3>3. c \in Nat
      BY Fields DEF IInv
    <3> HIDE DEF t, n, c
    <3>4. t + (c + n) = (n + t) + c
      BY <3>2, <3>3
    <3> QED BY <3>2, <3>4, <1>2, <1>3 DEF t, n, c
  <2> QED BY <2>1, <2>3, <2>4, <2>5, <1>2, <1>3, <1>5 DEF Flows
<1> QED BY <1>4, <1>6, FlowStep

(* Data: the buffer has room for all of it *)
LEMMA HostDataStep ==
  ASSUME IInv, NEW h, NEW m, OwnMessage(h, m), m.type = "data"
  PROVE  IInv'
<1>0. TypeOK /\ host.rx \in Seq(Byte) /\ got \in Seq(Byte) /\ host.life \in Nat
  BY Fields DEF IInv
<1>1. /\ CreditOut(h) /\ Joined /\ up # <<>> /\ m = Head(up) /\ m \in ToHost /\ m.life = host.life
      /\ HostCurrent(h, m) /\ host' = HostDeliver(h, m) /\ up' = Tail(up)
      /\ UNCHANGED <<board, peer, got, put, sync, resets>>
  BY DEF OwnMessage
<1>2. /\ h \in Hosts /\ h.life = host.life /\ h.state = host.state /\ h.rx = host.rx
      /\ h.credit = host.credit /\ board.state # "opening" /\ host.state # "closed"
  BY OwnMessageFacts DEF Shows
<1>3. /\ host' \in Hosts /\ host'.life = h.life /\ host'.back = h.back /\ host'.state = h.state
      /\ host'.credit = h.credit
      /\ ~(h.state = "closed" \/ RxMax - Len(h.rx) < Len(m.body)) => host'.rx = h.rx \o m.body
  BY <1>1, <1>2, DeliverData
<1>4. Heard(h)
  BY <1>1, <1>2, <1>3 DEF Heard
<1>5. Talking
  BY <1>1, <1>2 DEF Talking
<1>6. Carries(Head(up), "data", host.life) /\ ~Carries(Head(up), "txcredit", host.life)
  BY <1>1 DEF Carries
<1> DEFINE n == m.n
           a == Len(host.rx)
           g == Len(got)
           u == Total(up, "data", host.life)
           v == Total(up', "data", host.life)
<1>7. u = n + v /\ n \in Nat /\ v \in Nat /\ a \in Nat /\ g \in Nat /\ Handed = g + a
      /\ Handed \in Nat
  <2>1. Weight(Head(up), "data", host.life) = n
    BY <1>1, <1>6 DEF Weight
  <2> QED BY <2>1, <1>0, <1>1, HeadUp, Fields DEF Handed
<1>8. m.body = Bytes(host.life, Handed, n) /\ Placed(up', "data", host.life, Handed + n)
  <2>1. Placed(up, "data", host.life, Handed)
    BY <1>5 DEF IInv, Receiving
  <2>2. Weight(Head(up), "data", host.life) = n
    BY <1>1, <1>6 DEF Weight
  <2> QED BY <2>1, <2>2, <1>1, <1>6, HeadUp
<1>9. m.body \in Seq(Byte) /\ Len(m.body) = n
  <2> DEFINE s == Bytes(host.life, Handed, n)
  <2>1. Handed \in Nat /\ n \in Nat /\ m.body = s
    BY <1>7, <1>8
  <2> HIDE DEF n
  <2>2. s \in Seq(Byte) /\ Len(s) = n
    BY <2>1, <1>0, BytesFacts
  <2> HIDE DEF s
  <2> QED BY <2>1, <2>2
<1>10. ~(RxMax - a < n)
  <2> DEFINE c == board.credit
             w == host.back
             d == Total(down, "credit", host.life)
  <2>1. c + u + a + w + d = RxMax
    BY <1>5 DEF IInv, HostCredit
  <2>2. c \in Nat /\ w \in Nat /\ d \in Nat /\ RxMax \in Nat
    BY <1>0, Fields, Counts, Sizes
  <2> HIDE DEF c, w, d, u, v, a, n, g
  <2> QED BY <2>1, <2>2, <1>7
<1>11. host'.rx = host.rx \o m.body
  BY <1>2, <1>3, <1>9, <1>10
<1>12. Len(host'.rx) = a + n
  <2>1. Len(host.rx \o m.body) = Len(host.rx) + Len(m.body)
    BY <1>0, <1>9, LenJoin
  <2> QED BY <2>1, <1>9, <1>11
<1> HIDE DEF n, a, g, u, v
<1>13. Handed' = Handed + n /\ (a + n) + v = a + u
  <2>1. Handed' = g + (a + n)
    BY <1>1, <1>12 DEF Handed, g
  <2> QED BY <2>1, <1>7
<1>14. got' \o host'.rx = Bytes(host'.life, 0, Handed')
  <2> DEFINE s == got \o host.rx
  <2>1. got \o (host.rx \o m.body) = s \o m.body
    BY <1>0, <1>9, Associative
  <2>2. s = Bytes(host.life, 0, Handed)
    BY DEF IInv, Receiving
  <2> HIDE DEF s
  <2>3. Handed = 0 + Handed /\ Handed + n = Handed + n
    BY <1>7
  <2>4. Follow(s, m.body, Bytes(host.life, 0, Handed + n))
    BY <2>2, <2>3, <1>0, <1>7, <1>8, BytesJoin
  <2>5. s \o m.body = Bytes(host.life, 0, Handed + n)
    BY <2>4 DEF Follow
  <2> QED BY <2>1, <2>5, <1>1, <1>2, <1>3, <1>11, <1>13
<1>15. Total(up', "txcredit", host.life) = Total(up, "txcredit", host.life)
  BY <1>1, <1>6, HeadNothing
<1>16. Flows(h)
  <2>1. Len(host'.rx) + Total(up', "data", host.life) = Len(host.rx) + Total(up, "data", host.life)
    BY <1>12, <1>13 DEF a, u, v
  <2>2. Placed(up', "data", host.life, Handed')
    BY <1>8, <1>13
  <2> QED BY <2>1, <2>2, <1>1, <1>2, <1>3, <1>6, <1>14, <1>15 DEF Flows
<1> QED BY <1>4, <1>16, FlowStep

(* The host acts on a message only if it is of its connection *)
LEMMA HostStepStep ==
  ASSUME IInv, HostStep
  PROVE  IInv'
<1> DEFINE c == CreditBack(host)
           h == c.h
           m == Head(up)
<1>0. TypeOK /\ down \in Seq(ToBoard) /\ host.life \in Nat /\ board.life \in Nat
  BY Fields DEF IInv, TypeOK
<1>1. /\ h \in Hosts /\ h.life = host.life /\ h.state = host.state
      /\ h.rx = host.rx /\ h.credit = host.credit
      /\ \/ h = host /\ c.msgs = <<>>
         \/ host.back # 0 /\ host.state = "closed" /\ c.msgs = <<>>
         \/ /\ host.back # 0 /\ host.state # "closed" /\ h.back = 0
            /\ c.msgs = <<Message("credit", host.life, "", host.back, <<>>)>>
  BY <1>0, CreditBackFacts
<1>2. /\ down' = down \o c.msgs
      /\ host' = IF up = <<>> THEN h ELSE HostDeliver(h, m)
      /\ up' = IF up = <<>> THEN up ELSE Tail(up)
      /\ UNCHANGED <<board, peer, got, put, sync, resets>>
  BY DEF HostStep
<1> HIDE DEF c, h, m
<1>3. down \o <<>> = down
  BY <1>0
<1>4. CreditOut(h)
  <2>1. CASE c.msgs = <<>>
    <3>1. down' = down
      BY <2>1, <1>2, <1>3
    <3>2. <<Message("credit", host.life, "", host.back, <<>>)>> # <<>>
      OBVIOUS
    <3> QED BY <2>1, <3>1, <3>2, <1>1 DEF CreditOut
  <2>2. CASE /\ host.back # 0 /\ host.state # "closed" /\ h.back = 0
             /\ c.msgs = <<Message("credit", host.life, "", host.back, <<>>)>>
    <3> DEFINE q == Message("credit", host.life, "", host.back, <<>>)
    <3>1. down' = down \o <<q>>
      BY <2>2, <1>2
    <3> HIDE DEF q
    <3>2. down \o <<q>> = Append(down, q)
      BY <1>0
    <3> QED BY <3>1, <3>2, <2>2, <1>1 DEF CreditOut, q
  <2> QED BY <2>1, <2>2, <1>1
<1>5. (sync # "board" /\ ~Joined) => h = host /\ down' = down
  <2> SUFFICES ASSUME sync # "board", ~Joined PROVE h = host /\ down' = down
    OBVIOUS
  <2>1. host.back = 0
    BY UntouchedFields DEF IInv, ApartUntouched
  <2> QED BY <2>1, <1>4 DEF CreditOut
<1>6. CASE up = <<>>
  BY <1>2, <1>4, <1>5, <1>6, HostSilentStep
<1>7. CASE up # <<>>
  <2>1. /\ m \in ToHost /\ 1 \in DOMAIN up /\ up[1] = m /\ m.life \in Nat
    BY <1>7, HeadUp DEF m, ToHost
  <2>2. /\ sync = "live" /\ 1 <= m.life /\ m.life <= board.life /\ host.life - m.life < GenCount
    BY <2>1, <1>7 DEF IInv, NearLives
  <2>3. board.life # 0
    BY <2>1, <2>2, <1>0
  <2>4. board.life <= host.life
    BY <2>3 DEF IInv, NearLives
  <2>5. m.life <= host.life
    BY <2>1, <2>2, <2>4, <1>0
  <2>6. HostCurrent(h, m) <=> m.life = host.life
    <3>1. host.life <= host.life /\ host.life - host.life < GenCount
      BY <1>0, Sizes
    <3>2. Gen(m.life) = Gen(host.life) <=> m.life = host.life
      BY <3>1, <2>1, <2>2, <2>5, <1>0, GenerationTells
    <3> QED BY <3>2, <1>1 DEF HostCurrent
  <2>7. up' = Tail(up) /\ host' = HostDeliver(h, m)
    BY <1>2, <1>7
  <2>8. CASE m.life # host.life
    <3>1. host' = h
      BY <2>6, <2>7, <2>8 DEF HostDeliver
    <3>2. Head(up).life # host.life
      BY <2>8 DEF m
    <3> QED BY <3>1, <3>2, <2>7, <1>2, <1>4, <1>5, <1>7, HostSilentStep
  <2>9. CASE m.life = host.life
    <3>1. Joined
      BY <2>2, <2>4, <2>9, <1>0 DEF Joined
    <3>2. OwnMessage(h, m)
      BY <3>1, <2>1, <2>6, <2>7, <2>9, <1>2, <1>4, <1>7 DEF OwnMessage, m
    <3>3. m.type \in {"state", "txcredit", "data"}
      BY <2>1 DEF ToHost
    <3> QED BY <3>2, <3>3, HostStateStep, HostTxCreditStep, HostDataStep
  <2> QED BY <2>8, <2>9
<1> QED BY <1>6, <1>7

-----------------------------------------------------------------------------
(* The invariant, and what follows from it *)

(* It holds at the start *)
LEMMA InitInv ==
  ASSUME Init
  PROVE  IInv
<1>0. /\ host = FreshHost(0, "closed") /\ board = ClearBoard(0) /\ peer = NoPeer
      /\ down = <<>> /\ up = <<>> /\ got = <<>> /\ put = 0 /\ sync = "live" /\ resets = 0
  BY DEF Init
<1>1. /\ host \in Hosts /\ host.life = 0 /\ host.state = "closed" /\ host.rx = <<>>
  <2>1. 0 \in Nat /\ "closed" \in States
    BY DEF States
  <2> QED BY <2>1, <1>0, FreshFields
<1>2. /\ board \in Boards /\ board.life = 0 /\ board.state = "closed" /\ board.rx = <<>>
      /\ board.tx = <<>> /\ board.grant = 0 /\ ~board.closing /\ ~board.fd
  BY <1>0, ClearFields
<1>3. /\ peer \in Peers /\ peer.life = 0 /\ ~peer.up /\ peer.got = <<>>
  BY <1>0 DEF NoPeer, Peers
<1>4. DOMAIN up = {} /\ DOMAIN down = {} /\ up \in Seq(ToHost) /\ down \in Seq(ToBoard)
      /\ got \in Seq(Byte) /\ Len(<<>>) = 0
  BY <1>0
<1>5. TypeOK
  BY <1>0, <1>1, <1>2, <1>3, <1>4 DEF TypeOK
<1>6. NearLives /\ BoardShape /\ DownInOrder
  BY <1>0, <1>1, <1>2, <1>3, <1>4 DEF NearLives, BoardShape, DownInOrder
<1>7. Untouched("closed") /\ ~Talking
  BY <1>0, <1>1 DEF Untouched, Talking
<1>8. ApartUntouched /\ OpeningFirst /\ ClosedLast /\ HostCredit /\ BoardCredit
  BY <1>2, <1>4, <1>7 DEF ApartUntouched, OpeningFirst, ClosedLast, HostCredit, BoardCredit, Ended
<1>9. Sending
  BY <1>2, <1>3, <1>4, NoBytes DEF Sending, Streaming
<1>10. Receiving /\ PeerClosed
  BY <1>1, <1>7, UntouchedFields DEF Receiving, PeerClosed
<1> QED BY <1>5, <1>6, <1>8, <1>9, <1>10 DEF IInv

(* and every step keeps it, if the calls that take the next generation     *)
(* leave the connections apart                                             *)
LEMMA NextInv ==
  ASSUME IInv, [PromptNext]_vars
  PROVE  IInv'
<1>1. CASE PromptNext
  <2>1. CASE Open /\ Apart'
    BY <2>1, OpenStep
  <2>2. CASE CloseNow /\ Apart'
    BY <2>2, CloseNowStep
  <2>3. CASE SameLife
    BY <2>3, CloseGracefulStep, SendStep, RecvStep, HostStepStep, BoardReceiveStep,
       BoardFillStep, ConnectedStep, WriteTcpStep, ReadTcpStep, OrderlyCloseStep,
       PeerStep, SessionStep DEF SameLife
  <2> QED BY <1>1, <2>1, <2>2, <2>3 DEF PromptNext
<1>2. CASE UNCHANGED vars
  <2> USE <1>2 DEF vars
  <2>1. (Joined' <=> Joined) /\ (Talking' <=> Talking) /\ Handed' = Handed /\ Taken' = Taken
    BY DEF Joined, Talking, Handed, Taken
  <2>2. TypeOK' /\ NearLives' /\ BoardShape'
    BY DEF IInv, TypeOK, NearLives, BoardShape
  <2>3. DownInOrder'
    BY DEF IInv, DownInOrder, BoardLife
  <2>4. ApartUntouched' /\ OpeningFirst' /\ ClosedLast'
    BY <2>1 DEF IInv, ApartUntouched, Untouched, OpeningFirst, ClosedLast
  <2>5. HostCredit' /\ BoardCredit' /\ Sending'
    BY <2>1 DEF IInv, HostCredit, BoardCredit, Sending
  <2>6. Receiving' /\ PeerClosed'
    BY <2>1 DEF IInv, Receiving, PeerClosed
  <2> QED BY <2>2, <2>3, <2>4, <2>5, <2>6 DEF IInv
<1> QED BY <1>1, <1>2

(* The invariant of the two halves, the queues and the streams holds in    *)
(* every behaviour of the slot (kwhost.c and bridge.c together) in which   *)
(* nothing of a connection is about when the calls come to its generation  *)
(* again                                                                   *)
THEOREM Invariance == PromptSpec => []IInv
<1>1. Init => IInv
  BY InitInv
<1>2. IInv /\ [PromptNext]_vars => IInv'
  BY NextInv
<1> QED BY <1>1, <1>2, PTL DEF PromptSpec

(* The invariant gives the conservation of credit *)
LEMMA CreditHolds == IInv => CreditConserved
<1> SUFFICES ASSUME IInv, SameConnection PROVE CreditConserved
  BY DEF CreditConserved
<1>1. host.life = board.life /\ host.state # "closed"
  BY DEF SameConnection
<1>2. sync \in {"live", "board", "host"}
  BY DEF IInv, TypeOK
<1>3. sync # "board" /\ sync # "host"
  BY <1>1 DEF IInv, NearLives
<1>4. Talking
  BY <1>1, <1>2, <1>3 DEF Talking, Joined
<1>5. board.credit + InFlight(up, "data") + Len(host.rx) + host.back
        + InFlight(down, "credit") = RxMax
  BY <1>4 DEF IInv, HostCredit, InFlight
<1>6. (Streaming(board.state) /\ host.state # "closing") =>
        Len(board.tx) + board.grant + InFlight(up, "txcredit") + host.credit
          + InFlight(down, "send") = TxCap
  BY <1>4 DEF IInv, BoardCredit, InFlight
<1> QED BY <1>5, <1>6 DEF CreditConserved

(* Credit is never lost and never made up, in either direction, whatever   *)
(* the sizes of the buffers and queues and however often a slot is closed, *)
(* reopened or reset (kwhost.c's credit_back, kwh_send and data_r,         *)
(* bridge.c's put_data, write_tcp and sock_send), as long as nothing of a  *)
(* connection is still about when the calls reach its generation again     *)
THEOREM CreditNeverLost == PromptSpec => []CreditConserved
BY CreditHolds, Invariance, PTL

(* The invariant gives the property of the streams *)
LEMMA StreamsHold == IInv => OwnStream
<1> SUFFICES ASSUME IInv PROVE OwnStream
  OBVIOUS
<1>1. got \in Seq(Byte) /\ host.rx \in Seq(Byte)
  BY Fields DEF IInv
<1>2. Len(got \o host.rx) = Handed
  BY <1>1, LenJoin DEF Handed
<1>3. got \o host.rx = Bytes(host.life, 0, Handed)
  BY DEF IInv, Receiving
<1>4. peer.got = Bytes(peer.life, 0, Len(peer.got))
  BY DEF IInv, Sending
<1>5. host.state = "peer_closed" => Handed = peer.sent
  BY DEF IInv, PeerClosed
<1> QED BY <1>2, <1>3, <1>4, <1>5 DEF OwnStream

(* The application reads its own connection's bytes in order, the peer     *)
(* gets exactly what was sent on its own, and a close the host is shown    *)
(* comes after all the peer's data (HostCurrent, BoardCurrent, Visible),   *)
(* generations reused included: what is asked is that nothing of the       *)
(* connection GenCount before is still queued or held by the board when a  *)
(* call takes the next generation.  Without that the code breaks it.       *)
THEOREM StreamsNeverMix == PromptSpec => []OwnStream
BY StreamsHold, Invariance, PTL

(* The number of its connection is what a step other than the two calls    *)
(* leaves alone                                                            *)
LEMMA LifeKept ==
  ASSUME IInv, SameLife
  PROVE  host'.life = host.life
<1>1. TypeOK /\ host \in Hosts
  BY DEF IInv, TypeOK
<1>2. CASE CloseGraceful
  BY <1>1, <1>2 DEF CloseGraceful, Hosts
<1>3. CASE Send
  BY <1>1, <1>3 DEF Send, Hosts
<1>4. CASE Recv
  BY <1>1, <1>4 DEF Recv, Hosts
<1>5. CASE HostStep
  <2> DEFINE c == CreditBack(host)
  <2>1. c.h \in Hosts /\ c.h.life = host.life
    BY <1>1, CreditBackFacts
  <2>2. host' = c.h \/ (up # <<>> /\ host' = HostDeliver(c.h, Head(up)))
    BY <1>5 DEF HostStep
  <2> HIDE DEF c
  <2>3. CASE host' = c.h
    BY <2>1, <2>3
  <2>4. CASE up # <<>> /\ host' = HostDeliver(c.h, Head(up))
    <3>1. Head(up) \in ToHost
      <4>1. up \in Seq(ToHost)
        BY <1>1 DEF TypeOK
      <4> QED BY <4>1, <2>4, Shortened
    <3> DEFINE d == HostDeliver(c.h, Head(up))
    <3>2. Head(up).type \in {"state", "txcredit", "data"}
      BY <3>1 DEF ToHost
    <3>3. CASE ~HostCurrent(c.h, Head(up))
      BY <2>1, <2>4, <3>3 DEF HostDeliver
    <3>4. ASSUME HostCurrent(c.h, Head(up))
          PROVE  d.life = c.h.life
      <4>1. CASE Head(up).type = "state"
        BY <2>1, <3>1, <3>4, <4>1, DeliverState
      <4>2. CASE Head(up).type = "txcredit"
        BY <2>1, <3>1, <3>4, <4>2, DeliverCredit
      <4>3. CASE Head(up).type = "data"
        BY <2>1, <3>1, <3>4, <4>3, DeliverData
      <4> QED BY <3>2, <4>1, <4>2, <4>3
    <3> QED BY <2>1, <2>4, <3>3, <3>4
  <2> QED BY <2>2, <2>3, <2>4
<1>6. CASE SessionEnds \/ HostLost
  <2>1. host' = host \/ host' = FreshHost(host.life, "closed")
    BY <1>6 DEF SessionEnds, HostLost, Begin
  <2> QED BY <2>1 DEF FreshHost
<1>7. CASE BoardReceive \/ BoardFill \/ Connected \/ WriteTcp \/ ReadTcp \/ OrderlyClose
  BY <1>7 DEF BoardReceive, BoardFill, Connected, WriteTcp, ReadTcp, OrderlyClose
<1>8. CASE PeerSends \/ PeerEnds \/ BoardSynced
  BY <1>8 DEF PeerSends, PeerEnds, BoardSynced
<1> QED BY <1>2, <1>3, <1>4, <1>5, <1>6, <1>7, <1>8 DEF SameLife

(* With fewer connections than generations the calls leave them apart      *)
LEMMA EarlyApart ==
  ASSUME IInv, MaxLives < GenCount, host.life <= MaxLives, [Next]_vars
  PROVE  host'.life <= MaxLives /\ [PromptNext]_vars
<1>0. /\ TypeOK /\ host.life \in Nat /\ board.life \in Nat /\ GenCount \in Nat /\ MaxLives \in Nat
      /\ \A i \in DOMAIN up : up[i].life \in Nat
      /\ down \in Seq(ToBoard)
  BY Fields, QueueFields, SocketAssumption DEF IInv, TypeOK
<1>1. CASE Open \/ CloseNow
  <2>1. PICK m \in ToBoard : down' = Append(down, m)
    <3>1. \A life \in Nat : Message("open", life, "", RxMax, <<>>) \in ToBoard
      BY Sizes DEF Message, ToBoard
    <3>2. Message("close", host.life, "now", 0, <<>>) \in ToBoard
      <4>1. <<>> \in Seq(Byte) /\ 0 \in Nat
        OBVIOUS
      <4> QED BY <1>0, <4>1 DEF Message, ToBoard
    <3>3. host.life + 1 \in Nat
      BY <1>0
    <3> QED BY <1>1, <3>1, <3>2, <3>3 DEF Open, CloseNow, Queue
  <2>2. host'.life = host.life + 1 /\ UNCHANGED <<board, up>> /\ host.life + 1 <= MaxLives
    <3>1. \A life \in Nat, state \in {"opening", "closed"} : FreshHost(life, state).life = life
      BY DEF FreshHost
    <3>2. host.life + 1 \in Nat
      BY <1>0
    <3>3. CASE Open
      BY <3>1, <3>2, <3>3 DEF Open
    <3>4. CASE CloseNow
      BY <1>0, <3>1, <3>2, <3>4 DEF CloseNow
    <3> QED BY <1>1, <3>3, <3>4
  <2>3. down' \in Seq(ToBoard)
    BY <1>0, <2>1, Appended
  <2>4. \A life \in About' : life \in Nat
    <3>1. \A i \in DOMAIN down' : down'[i].life \in Nat
      <4>1. \A i \in DOMAIN down' : down'[i] \in ToBoard
        BY <2>3
      <4> QED BY <4>1 DEF ToBoard
    <3> QED BY <1>0, <2>2, <3>1 DEF About
  <2>5. \A life \in About' : host'.life - life < GenCount
    BY <1>0, <2>2, <2>4
  <2> QED BY <1>1, <2>2, <2>5 DEF Apart, PromptNext
<1>2. CASE SameLife
  BY <1>2, LifeKept DEF PromptNext
<1>3. CASE UNCHANGED vars
  BY <1>3 DEF vars
<1> QED BY <1>1, <1>2, <1>3 DEF Next

(* Until the generations of a slot come round for the first time nothing   *)
(* has to be assumed of the program: credit and the streams are kept       *)
(* whatever it calls (open_slot and kwh_close as they are)                 *)
THEOREM FirstGenerations ==
  ASSUME MaxLives < GenCount
  PROVE  Spec => [](CreditConserved /\ OwnStream)
<1> DEFINE Early == IInv /\ host.life <= MaxLives
<1>1. Init => Early
  <2>1. Init => host.life = 0
    BY DEF Init, FreshHost
  <2> QED BY <2>1, InitInv, SocketAssumption
<1>2. Early /\ [Next]_vars => Early'
  BY EarlyApart, NextInv
<1>3. Early => CreditConserved /\ OwnStream
  BY CreditHolds, StreamsHold
<1> QED BY <1>1, <1>2, <1>3, PTL DEF Spec

(* No byte is ever turned away: a data message of the host's own           *)
(* connection fits its buffer (data_r), and a send message of the board's  *)
(* fits its ring (dropped_sends), at the moment each is handled            *)
NothingTurnedAway ==
  /\ (up # <<>> /\ Carries(Head(up), "data", host.life) /\ host.state # "closed") =>
       Len(host.rx) + Len(Head(up).body) <= RxMax
  /\ (sync = "live" /\ down # <<>> /\ Carries(Head(down), "send", board.life)
        /\ Streaming(board.state)) =>
       Len(board.tx) + Len(Head(down).body) <= TxCap

(* Neither half ever has to turn a byte of its connection away while the   *)
(* connections stay apart: kwhost.c's data_r and bridge.c's sock_send      *)
THEOREM NeverTurnedAway == PromptSpec => []NothingTurnedAway
<1>1. IInv => NothingTurnedAway
  <2> SUFFICES ASSUME IInv PROVE NothingTurnedAway
    OBVIOUS
  <2>0. TypeOK /\ host.life \in Nat /\ board.life \in Nat /\ Handed \in Nat
    BY Fields DEF IInv
  <2>1. ASSUME up # <<>>, Carries(Head(up), "data", host.life), host.state # "closed"
        PROVE  Len(host.rx) + Len(Head(up).body) <= RxMax
    <3> DEFINE n == Head(up).n
               s == Bytes(host.life, Handed, n)
               a == Len(host.rx)
               v == Total(Tail(up), "data", host.life)
    <3>1. Head(up).life = host.life /\ Weight(Head(up), "data", host.life) = n
      BY <2>1 DEF Carries, Weight
    <3>2. /\ 1 \in DOMAIN up /\ up[1] = Head(up)
          /\ Total(up, "data", host.life) = n + v /\ v \in Nat /\ n \in Nat
      BY <3>1, <2>1, HeadUp
    <3>3. sync = "live" /\ 1 <= host.life /\ host.life <= board.life
      BY <3>1, <3>2, <2>1 DEF IInv, NearLives
    <3>4. board.life <= host.life
      BY <3>3, <2>0 DEF IInv, NearLives
    <3>5. Talking
      BY <3>3, <3>4, <2>0, <2>1 DEF Talking, Joined
    <3>6. Head(up).body = s
      <4>1. Placed(up, "data", host.life, Handed)
        BY <3>5 DEF IInv, Receiving
      <4> QED BY <4>1, <2>1, HeadUp
    <3>7. Len(s) = n
      <4> HIDE DEF n
      <4> QED BY <3>2, <2>0, BytesFacts
    <3> HIDE DEF s, n, a, v
    <3>8. a + n <= RxMax
      <4> DEFINE c == board.credit
                 w == host.back
                 d == Total(down, "credit", host.life)
      <4>1. c + (n + v) + a + w + d = RxMax
        BY <3>2, <3>5 DEF IInv, HostCredit, a
      <4>2. a \in Nat /\ c \in Nat /\ w \in Nat /\ d \in Nat /\ RxMax \in Nat
        BY <2>0, Fields, Counts, Sizes DEF a
      <4> HIDE DEF c, w, d
      <4> QED BY <4>1, <4>2, <3>2
    <3> QED BY <3>6, <3>7, <3>8 DEF a
  <2>2. ASSUME sync = "live", down # <<>>, Carries(Head(down), "send", board.life),
               Streaming(board.state)
        PROVE  Len(board.tx) + Len(Head(down).body) <= TxCap
    <3> DEFINE n == Head(down).n
               f == Len(peer.got) + Len(board.tx)
               s == Bytes(board.life, f, n)
               a == Len(board.tx)
               v == Total(Tail(down), "send", board.life)
    <3>1. Weight(Head(down), "send", board.life) = n
      BY <2>2 DEF Weight
    <3>2. Total(down, "send", board.life) = n + v /\ v \in Nat /\ n \in Nat
      BY <3>1, <2>0, <2>2, HandledTotals
    <3>3. Placed(down, "send", board.life, f) /\ a + Total(down, "send", board.life) <= TxCap
      BY <2>2 DEF IInv, Sending
    <3>4. f \in Nat /\ a \in Nat /\ TxCap \in Nat /\ down \in Seq(Messages)
      BY <2>0, Giving, Fields, Sizes, QueueFields
    <3> HIDE DEF f
    <3>5. Head(down).body = s
      BY <3>3, <3>4, <2>2, PlacedTail
    <3>6. Len(s) = n
      <4> HIDE DEF n
      <4> QED BY <3>2, <3>4, <2>0, BytesFacts
    <3> HIDE DEF s, n, a, v
    <3>7. a + n <= TxCap
      BY <3>2, <3>3, <3>4
    <3> QED BY <3>5, <3>6, <3>7 DEF a
  <2> QED BY <2>1, <2>2 DEF NothingTurnedAway
<1> QED BY <1>1, Invariance, PTL
=============================================================================

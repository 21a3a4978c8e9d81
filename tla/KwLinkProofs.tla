---------------------------- MODULE KwLinkProofs ----------------------------
(***************************************************************************)
(* Proofs about KwLink for every even number of sequence numbers from four *)
(* up, every size of payloads and polls, and any number of payloads and    *)
(* faults.                                                                 *)
(***************************************************************************)
EXTENDS KwLink, SequenceTheorems, TLAPS

-----------------------------------------------------------------------------
(* The inductive invariant *)

(* One end that has put P and got G since its last restart: its numbers    *)
(* are those lengths, and its window holds the last payloads of P.  An end *)
(* without a session has put and got nothing.                              *)
Base(l, P) == Len(P) - Len(l.out)
Numbered(l, P, G) ==
  /\ l \in Links /\ P \in Seq(Nat) /\ G \in Seq(Nat)
  /\ Len(l.out) <= Window /\ Len(l.out) <= Len(P) /\ l.current <= Len(l.out)
  /\ l.next = Len(P) % SeqCount /\ l.expect = Len(G) % SeqCount
  /\ l.ackedAny = (Len(G) > 0)
  /\ \A i \in 1..Len(l.out) : /\ l.out[i].seq = (Base(l, P) + i - 1) % SeqCount
                              /\ l.out[i].id = P[Base(l, P) + i]
  /\ ~l.live => Len(P) = 0 /\ Len(G) = 0

(* The host's session is the newest; the bridge's may be any earlier one *)
SessionInv ==
  /\ host.session = sessions /\ bridge.session <= sessions
  /\ ~host.live => host.window = 0

(* A frame that was just built says where its sender stands *)
Mirrors(f, l) ==
  /\ f \in Frames /\ f.session = l.session
  /\ f.isAck = l.ackedAny /\ f.ack = (l.expect - 1) % SeqCount
  /\ f.data = (l.current # 0)
  /\ f.data => LET o == l.out[l.current] IN
       f.seq = o.seq /\ f.id = o.id /\ f.len = o.len

(* The armed frame says where the bridge stands: nothing happens to the    *)
(* bridge between two transfers that does not arm a new one.               *)
ArmedInv ==
  /\ Mirrors(armed, bridge) /\ armed.nosession = ~bridge.live
  /\ armed.first => bridge.live /\ armed.len <= CapacityFor(bridge.window)

(* G is the beginning of P *)
Begins(G, P) == Len(G) <= Len(P) /\ \A i \in 1..Len(G) : G[i] = P[i]

(* What one end got is the beginning of what the other put, and the        *)
(* sender's window begins no later than the receiver's next payload.       *)
Leads(l, P, G) == Base(l, P) <= Len(G) /\ Begins(G, P)
JoinedTo(s) == bridge.live /\ bridge.session = s
Joined == JoinedTo(host.session)

(* What holds between a host l that has put P and got G and the bridge     *)
(* that has put PP and got GG.  A bridge that has joined while the host    *)
(* does not know it yet has got nothing and had nothing acknowledged.      *)
Between(l, P, G, PP, GG) ==
  /\ Numbered(l, P, G) /\ Numbered(bridge, PP, GG)
  /\ JoinedTo(l.session) /\ l.live => Leads(l, P, GG) /\ Leads(bridge, PP, G)
  /\ JoinedTo(l.session) /\ ~l.live => GG = <<>> /\ Base(bridge, PP) = 0
EndsInv == Between(host, put["host"], got["host"], put["bridge"], got["bridge"])

JoiningInv == Joined /\ ~host.live => CapacityFor(bridge.window) = Poll

(* The bridge's capacity is a plain poll or what the host promised in the  *)
(* last frame the bridge got                                               *)
FitInv ==
  Joined => LET c == CapacityFor(bridge.window) IN
    \/ c = Poll
    \/ missed = 0 /\ c <= host.promised[1]
    \/ missed = 1 /\ c <= host.promised[2]
    \/ missed = 2

IndInv ==
  /\ sessions \in Nat /\ put \in [Ends -> Seq(Nat)] /\ got \in [Ends -> Seq(Nat)]
  /\ serial \in [Ends -> Nat] /\ missed \in 0..2 /\ faults \in 0..MaxFaults
  /\ EndsInv /\ SessionInv /\ ArmedInv /\ JoiningInv /\ FitInv

-----------------------------------------------------------------------------
(* Numbers modulo SeqCount *)

(* Division by SeqCount *)
LEMMA DivMod ==
  ASSUME NEW a \in Int
  PROVE  /\ a % SeqCount \in 0..(SeqCount-1)
         /\ a \div SeqCount \in Int
         /\ a = SeqCount * (a \div SeqCount) + (a % SeqCount)
<1>0. SeqCount \in Int /\ SeqCount > 0
  BY SeqCountAssumption
<1>1. a % SeqCount \in 0..(SeqCount-1)
  BY <1>0, SMT
<1>2. a \div SeqCount \in Int
  BY <1>0, SMT
<1>3. a = SeqCount * (a \div SeqCount) + (a % SeqCount)
  BY <1>0, SMT
<1> QED BY <1>1, <1>2, <1>3

LEMMA Small ==
  ASSUME NEW k \in Int, NEW n \in Nat, n > 0, n * k < n, n * k > -n
  PROVE k = 0
OBVIOUS

LEMMA Unique ==
  ASSUME NEW q \in Int, NEW r \in 0..(SeqCount-1), NEW a \in Int, a = SeqCount * q + r
  PROVE a % SeqCount = r
<1>1. /\ a % SeqCount \in 0..(SeqCount-1) /\ a \div SeqCount \in Int /\ a = SeqCount * (a \div SeqCount) + (a % SeqCount)
  BY DivMod
<1> DEFINE k == q - (a \div SeqCount)
<1>2. k \in Int
  BY <1>1
<1>3. SeqCount * k = (a % SeqCount) - r
  BY <1>1, SeqCountAssumption
<1>4. SeqCount * k < SeqCount /\ SeqCount * k > -SeqCount
  BY <1>1, <1>3, SeqCountAssumption
<1>5. k = 0
  BY <1>2, <1>4, SeqCountAssumption, Small
<1> QED BY <1>1, <1>3, <1>5, SeqCountAssumption

LEMMA SameRemainder ==
  ASSUME NEW a \in Int, NEW b \in Int, NEW k \in Int, a = b + SeqCount * k
  PROVE  a % SeqCount = b % SeqCount
<1>1. /\ b % SeqCount \in 0..(SeqCount-1) /\ b \div SeqCount \in Int /\ b = SeqCount * (b \div SeqCount) + (b % SeqCount)
  BY DivMod
<1>2. a = SeqCount * ((b \div SeqCount) + k) + (b % SeqCount) /\ (b \div SeqCount) + k \in Int
  BY <1>1, SeqCountAssumption
<1> QED BY <1>1, <1>2, Unique

LEMMA RemainderOfSum ==
  ASSUME NEW a \in Int, NEW d \in Int
  PROVE  ((a % SeqCount) + d) % SeqCount = (a + d) % SeqCount
<1>1. /\ a % SeqCount \in 0..(SeqCount-1) /\ a \div SeqCount \in Int /\ a = SeqCount * (a \div SeqCount) + (a % SeqCount)
  BY DivMod
<1>2. a + d = ((a % SeqCount) + d) + SeqCount * (a \div SeqCount)
  BY <1>1, SeqCountAssumption
<1>3. (a % SeqCount) + d \in Int /\ a + d \in Int
  BY <1>1, SeqCountAssumption
<1> QED BY <1>1, <1>2, <1>3, SameRemainder

LEMMA RemainderOfDifference ==
  ASSUME NEW a \in Int, NEW b \in Int
  PROVE  ((a % SeqCount) - (b % SeqCount)) % SeqCount = (a - b) % SeqCount
<1>1. /\ a % SeqCount \in 0..(SeqCount-1) /\ a \div SeqCount \in Int /\ a = SeqCount * (a \div SeqCount) + (a % SeqCount)
  BY DivMod
<1>2. /\ b % SeqCount \in 0..(SeqCount-1) /\ b \div SeqCount \in Int /\ b = SeqCount * (b \div SeqCount) + (b % SeqCount)
  BY DivMod
<1> DEFINE k == (a \div SeqCount) - (b \div SeqCount)
<1>3. a - b = ((a % SeqCount) - (b % SeqCount)) + SeqCount * k
  BY <1>1, <1>2, SeqCountAssumption
<1>4. (a % SeqCount) - (b % SeqCount) \in Int /\ a - b \in Int /\ k \in Int
  BY <1>1, <1>2, SeqCountAssumption
<1> HIDE DEF k
<1> QED BY <1>3, <1>4, SameRemainder

LEMMA SmallRemainder ==
  ASSUME NEW d \in Int, d < SeqCount, d >= -SeqCount
  PROVE  d % SeqCount = IF d >= 0 THEN d ELSE d + SeqCount
<1>1. CASE d >= 0
  <2>1. d = SeqCount * 0 + d /\ d \in 0..(SeqCount-1)
    BY <1>1, SeqCountAssumption
  <2> QED BY <1>1, <2>1, Unique
<1>2. CASE d < 0
  <2>1. d = SeqCount * (-1) + (d + SeqCount) /\ d + SeqCount \in 0..(SeqCount-1)
    BY <1>2, SeqCountAssumption
  <2> QED BY <1>2, <2>1, Unique
<1> QED BY <1>1, <1>2

LEMMA HalfFacts == Half \in Nat /\ 2 * Half = SeqCount /\ Half >= 2
BY SeqCountAssumption DEF Half

-----------------------------------------------------------------------------
(* The window *)

LEMMA SeqOfFunction ==
  ASSUME NEW S, NEW n \in Nat, NEW f \in [1..n -> S]
  PROVE  f \in Seq(S) /\ Len(f) = n
<1>1. f \in Seq(S)
  BY SeqDef
<1>2. Len(f) \in Nat /\ DOMAIN f = 1..Len(f)
  BY <1>1, LenProperties
<1>3. 1..Len(f) = 1..n
  BY <1>2
<1> QED BY <1>1, <1>2, <1>3

(* Sending, ageing and taking back change no number and no payload *)
SameEntries(a, b) ==
  /\ a \in Seq(Entries) /\ Len(a) = Len(b)
  /\ \A i \in 1..Len(b) : a[i].seq = b[i].seq /\ a[i].len = b[i].len /\ a[i].id = b[i].id

LEMMA EntryFacts ==
  ASSUME NEW o \in Entries
  PROVE  /\ TakenBack(o) \in Entries /\ Aged(o) \in Entries
         /\ [o EXCEPT !.sent = TRUE, !.age = 0] \in Entries
         /\ TakenBack(o).seq = o.seq /\ TakenBack(o).len = o.len /\ TakenBack(o).id = o.id
         /\ Aged(o).seq = o.seq /\ Aged(o).len = o.len /\ Aged(o).id = o.id
<1>1. o.age \in 0..2 /\ o.sent \in BOOLEAN
  BY DEF Entries, Overdue
<1>2. 0 \in 0..Overdue /\ TRUE \in BOOLEAN /\ FALSE \in BOOLEAN
  BY DEF Overdue
<1>3. TakenBack(o) \in Entries /\ [o EXCEPT !.sent = TRUE, !.age = 0] \in Entries
  BY <1>2, Zenon DEF Entries, TakenBack
<1>6. TakenBack(o).seq = o.seq /\ TakenBack(o).len = o.len /\ TakenBack(o).id = o.id
  BY DEF Entries, TakenBack
<1>4. \E a \in 0..2 : Aged(o) = [o EXCEPT !.age = a]
  BY <1>1 DEF Aged, Overdue
<1>5. /\ Aged(o) \in Entries
      /\ Aged(o).seq = o.seq /\ Aged(o).len = o.len /\ Aged(o).id = o.id
  BY <1>4 DEF Entries, Overdue
<1> QED BY <1>3, <1>5, <1>6

LEMMA MapEntries ==
  ASSUME NEW out \in Seq(Entries), NEW f, f = [i \in DOMAIN out |-> f[i]],
         \A i \in 1..Len(out) : /\ f[i] \in Entries /\ f[i].seq = out[i].seq
                                /\ f[i].len = out[i].len /\ f[i].id = out[i].id
  PROVE  SameEntries(f, out)
<1>1. Len(out) \in Nat /\ DOMAIN out = 1..Len(out)
  BY LenProperties
<1>2. f \in [1..Len(out) -> Entries]
  BY <1>1
<1>3. f \in Seq(Entries) /\ Len(f) = Len(out)
  BY <1>1, <1>2, SeqOfFunction
<1> QED BY <1>3 DEF SameEntries

LEMMA GoBackFacts ==
  ASSUME NEW out \in Seq(Entries)
  PROVE  SameEntries(GoBack(out), out)
<1>1. Len(out) \in Nat /\ DOMAIN out = 1..Len(out) /\ \A i \in 1..Len(out) : out[i] \in Entries
  BY LenProperties, ElementOfSeq
<1> DEFINE back == [i \in DOMAIN out |-> TakenBack(out[i])]
<1>2. \A i \in 1..Len(out) : /\ back[i] \in Entries /\ back[i].seq = out[i].seq
                             /\ back[i].len = out[i].len /\ back[i].id = out[i].id
  BY <1>1, EntryFacts
<1>3. back = [i \in DOMAIN out |-> back[i]]
  OBVIOUS
<1>4. GoBack(out) \in {back, out}
  BY DEF GoBack
<1> HIDE DEF back
<1>5. SameEntries(back, out)
  BY <1>2, <1>3, MapEntries
<1> QED BY <1>4, <1>5 DEF SameEntries

LEMMA MarkedFacts ==
  ASSUME NEW out \in Seq(Entries), NEW k \in 0..Len(out)
  PROVE  SameEntries(Marked(out, k), out)
<1>1. Len(out) \in Nat /\ DOMAIN out = 1..Len(out) /\ \A i \in 1..Len(out) : out[i] \in Entries
  BY LenProperties, ElementOfSeq
<1>2. CASE k = 0
  BY <1>2 DEF Marked, SameEntries
<1>3. CASE k # 0
  <2> DEFINE o == [out[k] EXCEPT !.sent = TRUE, !.age = 0]
  <2>1. k \in 1..Len(out)
    BY <1>1, <1>3
  <2>2. o \in Entries /\ o.seq = out[k].seq /\ o.len = out[k].len /\ o.id = out[k].id
    <3>1. out[k] \in Entries
      BY <1>1, <2>1
    <3>2. o.seq = out[k].seq /\ o.len = out[k].len /\ o.id = out[k].id
      BY <3>1 DEF Entries
    <3> QED BY <3>1, <3>2, EntryFacts
  <2>3. Marked(out, k) = [out EXCEPT ![k] = o]
    BY <1>3 DEF Marked
  <2> HIDE DEF o
  <2>4. /\ [out EXCEPT ![k] = o] \in Seq(Entries) /\ Len([out EXCEPT ![k] = o]) = Len(out)
        /\ \A j \in 1..Len(out) : [out EXCEPT ![k] = o][j] = IF j = k THEN o ELSE out[j]
    BY <2>1, <2>2, ExceptSeq
  <2> QED BY <2>2, <2>3, <2>4 DEF SameEntries
<1> QED BY <1>2, <1>3

LEMMA LinkFacts ==
  ASSUME NEW l \in Links
  PROVE  /\ l.out \in Seq(Entries) /\ Len(l.out) \in Nat /\ DOMAIN l.out = 1..Len(l.out)
         /\ l.session \in Nat /\ l.live \in BOOLEAN /\ l.next \in Numbers /\ l.expect \in Numbers
         /\ l.ackedAny \in BOOLEAN /\ l.window \in Nat /\ l.need \in 0..PayloadMax
         /\ l.want \in 0..PayloadMax /\ l.current \in 0..Window
         /\ l.promised \in (Poll..PayloadMax) \X (Poll..PayloadMax)
BY LenProperties DEF Links

(* The window is empty, half full or full *)
LEMMA UpToTwo ==
  ASSUME NEW n \in Nat, n <= Window
  PROVE  n \in 0..2 /\ 1..n \subseteq {1, 2} /\ (n < Window => n \in 0..1)
BY DEF Window

LEMMA RoomFacts ==
  ASSUME NEW l \in Links, Len(l.out) <= Window
  PROVE  /\ Len(l.out) \in 0..2 /\ 1..Len(l.out) \subseteq {1, 2}
         /\ Len(l.out) < Window => Len(l.out) \in 0..1
<1>1. Len(l.out) \in Nat
  BY LinkFacts
<1> QED BY <1>1, UpToTwo

LEMMA Distance ==
  ASSUME NEW x \in Nat, NEW y \in Nat, x <= y
  PROVE  /\ (y + 1) - (x + 1) = y - x /\ y - x \in Nat
         /\ (y - x) + (x + 1) - 1 = y /\ (y - x) + (x + 1) = y + 1
OBVIOUS

LEMMA NumberedSame ==
  ASSUME NEW l, NEW P, NEW G, Numbered(l, P, G), NEW k \in Links, SameEntries(k.out, l.out),
         k.next = l.next, k.expect = l.expect, k.ackedAny = l.ackedAny, k.live = l.live,
         k.current <= Len(l.out)
  PROVE  Numbered(k, P, G) /\ Base(k, P) = Base(l, P)
BY DEF Numbered, Base, SameEntries

LEMMA TickFacts ==
  ASSUME NEW l, NEW P, NEW G, Numbered(l, P, G), NEW cut \in BOOLEAN,
         NEW t, t = Tick(l, cut)
  PROVE  /\ Numbered(t, P, G) /\ Base(t, P) = Base(l, P) /\ t.live = l.live
         /\ t.session = l.session /\ t.window = l.window /\ t.promised = l.promised
         /\ t.want = l.want /\ t.need = l.need /\ t.current = 0
         /\ SameEntries(t.out, l.out)
<1> DEFINE f == [i \in DOMAIN l.out |-> IF cut /\ l.current # 0 /\ i >= l.current
                                        THEN TakenBack(l.out[i]) ELSE Aged(l.out[i])]
<1>1. l \in Links /\ l.out \in Seq(Entries) /\ Len(l.out) \in Nat /\ DOMAIN l.out = 1..Len(l.out)
  BY LinkFacts DEF Numbered
<1>2. \A i \in 1..Len(l.out) : /\ f[i] \in Entries /\ f[i].seq = l.out[i].seq
                               /\ f[i].len = l.out[i].len /\ f[i].id = l.out[i].id
  BY <1>1, ElementOfSeq, EntryFacts
<1>3. f = [i \in DOMAIN l.out |-> f[i]]
  OBVIOUS
<1>4. t = [l EXCEPT !.current = 0, !.out = f]
  BY DEF Tick
<1> HIDE DEF f
<1>5. SameEntries(f, l.out)
  BY <1>1, <1>2, <1>3, MapEntries
<1>6. /\ t \in Links /\ t.out = f /\ t.current = 0 /\ t.next = l.next /\ t.expect = l.expect
      /\ t.ackedAny = l.ackedAny /\ t.live = l.live /\ t.session = l.session
      /\ t.window = l.window /\ t.promised = l.promised /\ t.want = l.want /\ t.need = l.need
  <2>1. f \in Seq(Entries) /\ 0 \in 0..Window
    BY <1>5 DEF SameEntries, Window
  <2> QED BY <1>1, <1>4, <2>1 DEF Links
<1> QED BY <1>1, <1>5, <1>6, NumberedSame

(* ++clock changes nothing that is numbered *)
Ticked(l, P, G, t) ==
  /\ Numbered(t, P, G) /\ Base(t, P) = Base(l, P) /\ t.live = l.live
  /\ t.session = l.session /\ t.window = l.window /\ t.promised = l.promised
  /\ t.current = 0

LEMMA TickedFacts ==
  ASSUME NEW l, NEW P, NEW G, Numbered(l, P, G), NEW cut \in BOOLEAN
  PROVE  Ticked(l, P, G, Tick(l, cut))
BY TickFacts DEF Ticked

-----------------------------------------------------------------------------
(* Building a frame *)

LEMMA SizeFacts == /\ Poll \in Nat /\ PayloadMax \in Nat /\ 1 <= Poll /\ Poll <= PayloadMax
                   /\ \A w \in Nat : CapacityFor(w) \in Poll..PayloadMax
                   /\ \A w \in Poll..PayloadMax : CapacityFor(w) = w
                   /\ CapacityFor(0) = Poll
BY SizesAssumption DEF CapacityFor

NewPayloads == [len : 1..PayloadMax, id : Nat]
Fillable(l, p) == p = NoPayload \/ (MayFill(l) /\ p \in NewPayloads)

LEMMA FilledFacts ==
  /\ \A p \in NewPayloads : p # NoPayload /\ Filled(p) = <<p.id>> /\ p.id \in Nat
  /\ Filled(NoPayload) = <<>>
BY DEF NewPayloads, NoPayload, Filled

(* With nothing new to send: a retry, or no payload at all *)
LEMMA RetryChoice ==
  ASSUME NEW l \in Links, Len(l.out) <= Window, NEW c, c = Choice(l, NoPayload)
  PROVE  /\ SameEntries(c.out, l.out) /\ c.at \in 0..Len(l.out) /\ (c.at # 0 => l.live)
<1> DEFINE gb == GoBack(l.out)
<1>1. l.out \in Seq(Entries) /\ l.live \in BOOLEAN
  BY LinkFacts
<1>7. Len(l.out) \in 0..2
  BY RoomFacts
<1>2. SameEntries(gb, l.out)
  BY <1>1, GoBackFacts
<1> HIDE DEF gb
<1>3. gb \in Seq(Entries) /\ Len(gb) = Len(l.out) /\ DOMAIN gb = 1..Len(l.out)
  BY <1>2, LenProperties DEF SameEntries
<1>4. CASE ~l.live
  <2>1. c = [at |-> 0, out |-> l.out]
    BY <1>4 DEF Choice
  <2> QED BY <1>1, <1>7, <2>1 DEF SameEntries
<1>5. CASE l.live /\ Unsent(gb) # {}
  <2> DEFINE k == CHOOSE i \in Unsent(gb) : \A j \in Unsent(gb) : i <= j
  <2>1. c = [at |-> k, out |-> gb]
    BY <1>5 DEF Choice, gb
  <2>2. Unsent(gb) \subseteq 1..Len(l.out)
    BY <1>3 DEF Unsent
  <2>3. \E i \in Unsent(gb) : \A j \in Unsent(gb) : i <= j
    <3>1. Unsent(gb) \subseteq {1, 2}
      <4>1. 1..Len(l.out) \subseteq {1, 2}
        BY RoomFacts
      <4> QED BY <2>2, <4>1
    <3>2. CASE 1 \in Unsent(gb)
      BY <3>1, <3>2
    <3>3. CASE 1 \notin Unsent(gb)
      <4>1. Unsent(gb) = {2}
        BY <1>5, <3>1, <3>3
      <4> QED BY <4>1
    <3> QED BY <3>2, <3>3
  <2>4. k \in Unsent(gb)
    BY <2>3
  <2> HIDE DEF k
  <2>5. k \in 0..Len(l.out)
    BY <1>7, <2>2, <2>4
  <2> QED BY <1>2, <1>5, <2>1, <2>5
<1>6. CASE l.live /\ Unsent(gb) = {}
  <2>1. c = [at |-> 0, out |-> gb]
    BY <1>6 DEF Choice, gb
  <2> QED BY <1>2, <1>7, <2>1
<1> QED BY <1>1, <1>4, <1>5, <1>6

(* What kwl_build leaves behind: the numbers are right for what has now    *)
(* been put, and the frame is an entry of the window.                      *)
LEMMA AfterFacts ==
  ASSUME NEW l, NEW P, NEW G, Numbered(l, P, G), NEW p, Fillable(l, p),
         NEW c, c = Choice(l, p), NEW a, a = After(l, c, p)
  PROVE  /\ Numbered(a, P \o Filled(p), G) /\ Base(a, P \o Filled(p)) = Base(l, P)
         /\ a.live = l.live /\ a.session = l.session /\ a.window = l.window
         /\ a.promised = l.promised /\ a.want = l.want /\ a.need = l.need
         /\ a.expect = l.expect /\ a.ackedAny = l.ackedAny /\ a.current = c.at
         /\ c.at \in 0..Len(a.out) /\ SameEntries(a.out, c.out)
         /\ c.at # 0 => l.live
         /\ p # NoPayload => c.at # 0 /\ c.out[c.at].len = p.len
<1>1. /\ l \in Links /\ P \in Seq(Nat) /\ G \in Seq(Nat) /\ Len(P) \in Nat /\ Len(G) \in Nat
      /\ Len(l.out) \in 0..2 /\ Len(l.out) <= Len(P) /\ l.out \in Seq(Entries)
      /\ l.next = Len(P) % SeqCount /\ l.next \in Numbers
  <2>1. l \in Links /\ P \in Seq(Nat) /\ G \in Seq(Nat) /\ Len(l.out) <= Window
    BY DEF Numbered
  <2>2. Len(P) \in Nat /\ Len(G) \in Nat
    BY <2>1, LenProperties
  <2>3. Len(l.out) \in 0..2 /\ l.out \in Seq(Entries) /\ l.next \in Numbers
    BY <2>1, LinkFacts, RoomFacts
  <2> QED BY <2>1, <2>2, <2>3 DEF Numbered
<1>2. CASE p = NoPayload
  <2>1. SameEntries(c.out, l.out) /\ c.at \in 0..Len(l.out) /\ (c.at # 0 => l.live)
    BY <1>1, <1>2, RetryChoice DEF Numbered
  <2> DEFINE m == Marked(c.out, c.at)
  <2>2. SameEntries(m, c.out)
    BY <2>1, MarkedFacts DEF SameEntries
  <2>3. SameEntries(m, l.out)
    BY <1>1, <2>1, <2>2 DEF SameEntries
  <2>4. a = [l EXCEPT !.out = m, !.current = c.at, !.next = l.next]
    BY <1>2 DEF After
  <2> HIDE DEF m
  <2>5. /\ a \in Links /\ a.out = m /\ a.current = c.at /\ a.next = l.next /\ a.live = l.live
        /\ a.session = l.session /\ a.window = l.window /\ a.promised = l.promised
        /\ a.want = l.want /\ a.need = l.need /\ a.expect = l.expect /\ a.ackedAny = l.ackedAny
    <3>1. m \in Seq(Entries) /\ c.at \in 0..Window
      BY <1>1, <2>1, <2>3 DEF SameEntries, Window
    <3> QED BY <1>1, <2>4, <3>1 DEF Links
  <2>6. Numbered(a, P, G) /\ Base(a, P) = Base(l, P)
    <3>1. a.current <= Len(l.out)
      BY <1>1, <2>1, <2>5
    <3> QED BY <2>3, <2>5, <3>1, NumberedSame
  <2>7. P \o Filled(p) = P
    BY <1>1, <1>2, FilledFacts, ConcatEmptySeq
  <2>8. Len(a.out) = Len(l.out)
    BY <2>3, <2>5 DEF SameEntries
  <2> QED BY <1>2, <2>1, <2>2, <2>5, <2>6, <2>7, <2>8
<1>3. CASE p # NoPayload
  <2> DEFINE gb == GoBack(l.out)
             o == [seq |-> l.next, len |-> p.len, id |-> p.id, sent |-> FALSE, age |-> 0]
             Q == P \o Filled(p)
             n == Len(l.out) + 1
  <2>1. MayFill(l) /\ p \in NewPayloads
    BY <1>3 DEF Fillable
  <2>2. l.live /\ Unsent(gb) = {} /\ Len(l.out) < Window
    BY <2>1 DEF MayFill
  <2>17. Len(l.out) \in 0..1
    BY <1>1, <2>2, RoomFacts DEF Numbered
  <2>3. SameEntries(gb, l.out)
    BY <1>1, GoBackFacts
  <2>4. c = [at |-> n, out |-> Append(gb, o)]
    <3>1. Len(gb) = Len(l.out)
      BY <2>3 DEF SameEntries
    <3> QED BY <1>3, <2>2, <3>1 DEF Choice
  <2>5. o \in Entries /\ o.seq = l.next /\ o.id = p.id /\ o.len = p.len
    BY <1>1, <2>1 DEF Entries, NewPayloads, Overdue
  <2> HIDE DEF gb, o
  <2>6. /\ Append(gb, o) \in Seq(Entries) /\ Len(Append(gb, o)) = n
        /\ \A i \in 1..Len(l.out) : Append(gb, o)[i] = gb[i]
        /\ Append(gb, o)[n] = o
    BY <1>1, <2>3, <2>5, AppendProperties DEF SameEntries
  <2> DEFINE m == Marked(c.out, c.at)
  <2>7. c.at = n /\ c.out = Append(gb, o) /\ n \in 0..Len(c.out) /\ n \in 0..2 /\ n # 0
    BY <2>4, <2>6, <2>17
  <2>8. SameEntries(m, c.out)
    BY <2>6, <2>7, MarkedFacts
  <2> HIDE DEF m
  <2>9. /\ Q \in Seq(Nat) /\ Len(Q) = Len(P) + 1 /\ Q[Len(P) + 1] = p.id
        /\ \A i \in 1..Len(P) : Q[i] = P[i]
    <3>1. Filled(p) = <<p.id>> /\ p.id \in Nat
      BY <2>1, FilledFacts
    <3>2. <<p.id>> \in Seq(Nat) /\ Len(<<p.id>>) = 1 /\ <<p.id>>[1] = p.id
      BY <3>1
    <3> QED BY <1>1, <3>1, <3>2, ConcatProperties
  <2> HIDE DEF Q
  <2>10. (l.next + 1) % SeqCount = Len(Q) % SeqCount /\ (l.next + 1) % SeqCount \in Numbers
    <3>1. (l.next + 1) % SeqCount = (Len(P) + 1) % SeqCount
      BY <1>1, RemainderOfSum
    <3>3. Len(P) + 1 \in Int
      BY <1>1
    <3>2. (Len(P) + 1) % SeqCount \in 0..(SeqCount-1)
      BY <3>3, DivMod
    <3> QED BY <2>9, <3>1, <3>2 DEF Numbers
  <2>11. a = [l EXCEPT !.out = m, !.current = n, !.next = (l.next + 1) % SeqCount]
    BY <1>3, <2>7 DEF After, m
  <2>12. /\ a \in Links /\ a.out = m /\ a.current = n /\ a.next = (l.next + 1) % SeqCount
         /\ a.live = l.live /\ a.session = l.session /\ a.window = l.window
         /\ a.promised = l.promised /\ a.want = l.want /\ a.need = l.need
         /\ a.expect = l.expect /\ a.ackedAny = l.ackedAny
    <3>1. m \in Seq(Entries) /\ n \in 0..Window
      BY <2>7, <2>8 DEF SameEntries, Window
    <3> QED BY <1>1, <2>10, <2>11, <3>1 DEF Links
  <2>13. Len(a.out) = n /\ Base(a, Q) = Base(l, P) /\ Base(l, P) \in Nat
    <3>1. Len(a.out) = n
      BY <2>6, <2>7, <2>8, <2>12 DEF SameEntries
    <3>3. Len(l.out) \in Nat
      BY <1>1
    <3> QED BY <1>1, <2>9, <3>1, <3>3, Distance DEF Base
  <2>14. ASSUME NEW i \in 1..n
         PROVE  a.out[i].seq = (Base(l, P) + i - 1) % SeqCount /\ a.out[i].id = Q[Base(l, P) + i]
    <3>1. a.out[i].seq = c.out[i].seq /\ a.out[i].id = c.out[i].id
      BY <2>6, <2>7, <2>8, <2>12 DEF SameEntries
    <3>2. CASE i = n
      <4>1. Base(l, P) + i - 1 = Len(P) /\ Base(l, P) + i = Len(P) + 1
        <5>1. Len(l.out) \in Nat
          BY <1>1
        <5> QED BY <1>1, <3>2, <5>1, Distance DEF Base
      <4> QED BY <1>1, <2>5, <2>6, <2>7, <2>9, <3>1, <3>2, <4>1
    <3>3. CASE i # n
      <4>1. i \in 1..Len(l.out)
        BY <1>1, <3>3
      <4>2. l.out[i].seq = (Base(l, P) + i - 1) % SeqCount /\ l.out[i].id = P[Base(l, P) + i]
        BY <4>1 DEF Numbered
      <4>3. Base(l, P) + i \in 1..Len(P)
        BY <1>1, <4>1 DEF Base
      <4> QED BY <2>3, <2>6, <2>7, <2>9, <3>1, <4>1, <4>2, <4>3 DEF SameEntries
    <3> QED BY <3>2, <3>3
  <2>15. Numbered(a, Q, G)
    <3>1. n <= Window /\ n <= Len(Q)
      BY <1>1, <2>7, <2>9, SMTT(30) DEF Window
    <3>2. /\ a.expect = Len(G) % SeqCount /\ a.ackedAny = (Len(G) > 0) /\ a.live
      BY <2>2, <2>12 DEF Numbered
    <3> QED BY <1>1, <2>9, <2>10, <2>12, <2>13, <2>14, <3>1, <3>2 DEF Numbered
  <2>16. c.out[c.at].len = p.len
    BY <2>5, <2>6, <2>7
  <2> QED BY <2>2, <2>7, <2>8, <2>12, <2>13, <2>15, <2>16 DEF Q
<1> QED BY <1>2, <1>3

LEMMA FrameFacts ==
  ASSUME NEW l, NEW P, NEW G, Numbered(l, P, G), NEW p, Fillable(l, p),
         NEW c, c = Choice(l, p), NEW a, a = After(l, c, p),
         NEW w \in Nat, NEW sync \in BOOLEAN, NEW nosession \in BOOLEAN,
         NEW f, f = FrameOf(l, c, w, sync, nosession, p)
  PROVE  /\ Mirrors(f, a) /\ f.sync = sync /\ f.nosession = nosession /\ f.window = w
         /\ f.first => p # NoPayload /\ f.len = p.len
<1>1. /\ Numbered(a, P \o Filled(p), G)
      /\ a.session = l.session /\ a.expect = l.expect /\ a.ackedAny = l.ackedAny
      /\ a.current = c.at /\ c.at \in 0..Len(a.out) /\ SameEntries(a.out, c.out)
      /\ (p # NoPayload => c.at # 0 /\ c.out[c.at].len = p.len)
  BY AfterFacts
<1>2. l \in Links /\ a \in Links
  BY <1>1 DEF Numbered
<1>3. l.session \in Nat /\ l.expect \in Int /\ l.ackedAny \in BOOLEAN
  <2>1. l.expect \in 0..(SeqCount-1)
    BY <1>2, LinkFacts DEF Numbers
  <2>2. l.expect \in Int
    BY <2>1, SeqCountAssumption
  <2> QED BY <1>2, <2>2, LinkFacts
<1>4. (l.expect - 1) % SeqCount \in Numbers /\ 0 \in Numbers
  <2>1. l.expect - 1 \in Int
    BY <1>3
  <2> QED BY <2>1, DivMod, SeqCountAssumption DEF Numbers
<1>5. Len(a.out) \in Nat /\ a.out \in Seq(Entries)
  BY <1>2, LinkFacts
<1>6. Len(c.out) = Len(a.out)
  BY <1>1 DEF SameEntries
<1>7. /\ f.data = (c.at # 0) /\ f.seq = (IF c.at = 0 THEN 0 ELSE c.out[c.at].seq)
      /\ f.len = (IF c.at = 0 THEN 0 ELSE c.out[c.at].len)
      /\ f.id = (IF c.at = 0 THEN 0 ELSE c.out[c.at].id)
      /\ f.isAck = l.ackedAny /\ f.ack = (l.expect - 1) % SeqCount /\ f.sync = sync
      /\ f.nosession = nosession /\ f.window = w /\ f.session = l.session
      /\ f.first = (c.at # 0 /\ p # NoPayload)
  BY DEF FrameOf
<1>8. c.at # 0 => /\ a.out[c.at] \in Entries /\ c.out[c.at].seq = a.out[c.at].seq
                  /\ c.out[c.at].len = a.out[c.at].len /\ c.out[c.at].id = a.out[c.at].id
  <2>1. SUFFICES ASSUME c.at # 0
                 PROVE  /\ a.out[c.at] \in Entries /\ c.out[c.at].seq = a.out[c.at].seq
                        /\ c.out[c.at].len = a.out[c.at].len /\ c.out[c.at].id = a.out[c.at].id
    OBVIOUS
  <2>2. c.at \in 1..Len(a.out)
    BY <1>1, <1>5, <2>1
  <2>3. a.out[c.at] \in Entries
    BY <1>5, <2>2, ElementOfSeq
  <2> QED BY <1>1, <1>6, <2>2, <2>3 DEF SameEntries
<1>9. f.seq \in Numbers /\ f.len \in 0..PayloadMax /\ f.id \in Nat
  <2>1. CASE c.at = 0
    BY <1>4, <1>7, <2>1, SizesAssumption
  <2>2. CASE c.at # 0
    <3>1. /\ a.out[c.at].seq \in Numbers /\ a.out[c.at].len \in 1..PayloadMax
          /\ a.out[c.at].id \in Nat
      BY <1>8, <2>2 DEF Entries
    <3> QED BY <1>7, <1>8, <2>2, <3>1, SizesAssumption
  <2> QED BY <2>1, <2>2
<1>10. f \in Frames
  <2>1. f = [data |-> f.data, seq |-> f.seq, len |-> f.len, id |-> f.id, isAck |-> f.isAck,
             ack |-> f.ack, sync |-> f.sync, nosession |-> f.nosession, window |-> f.window,
             session |-> f.session, first |-> f.first]
    BY DEF FrameOf
  <2>2. f.data \in BOOLEAN /\ f.isAck \in BOOLEAN /\ f.sync \in BOOLEAN
        /\ f.nosession \in BOOLEAN /\ f.first \in BOOLEAN
    BY <1>3, <1>7, Zenon
  <2>3. f.ack \in Numbers /\ f.window \in Nat /\ f.session \in Nat
    BY <1>3, <1>4, <1>7, Zenon
  <2> QED BY <1>9, <2>1, <2>2, <2>3, Zenon DEF Frames
<1>11. Mirrors(f, a)
  BY <1>1, <1>7, <1>8, <1>10 DEF Mirrors
<1> QED BY <1>1, <1>7, <1>11

LEMMA BuildBridgeFacts ==
  ASSUME NEW l, NEW P, NEW G, Numbered(l, P, G), NEW p, Fillable(l, p),
         NEW hint \in Nat, NEW b, b = BuildBridge(l, p, hint)
  PROVE  /\ Numbered(b.l, P \o Filled(p), G) /\ Base(b.l, P \o Filled(p)) = Base(l, P)
         /\ b.l.live = l.live /\ b.l.session = l.session /\ b.l.window = l.window
         /\ Mirrors(b.frame, b.l) /\ b.frame.nosession = ~l.live
         /\ b.frame.first => l.live /\ b.frame.len = p.len /\ p # NoPayload
<1> DEFINE c == Choice(l, p)
           a == After(l, c, p)
           no == ~l.live
           off == FALSE
           f == FrameOf(l, c, hint, off, no, p)
<1>1. b = [frame |-> f, l |-> a]
  BY DEF BuildBridge
<1>2. no \in BOOLEAN /\ off \in BOOLEAN
  BY Zenon
<1> HIDE DEF c, a, f, no, off
<1>3. /\ Numbered(a, P \o Filled(p), G) /\ Base(a, P \o Filled(p)) = Base(l, P)
      /\ a.live = l.live /\ a.session = l.session /\ a.window = l.window
      /\ (c.at # 0 => l.live) /\ (p # NoPayload => c.at # 0)
  BY AfterFacts DEF c, a
<1>4. c = Choice(l, p) /\ a = After(l, c, p) /\ f = FrameOf(l, c, hint, off, no, p)
  BY DEF c, a, f
<1>5. /\ Mirrors(f, a) /\ f.nosession = no /\ (f.first => p # NoPayload /\ f.len = p.len)
  BY <1>2, <1>4, FrameFacts, SMTT(30)
<1> QED BY <1>1, <1>3, <1>5 DEF no

LEMMA BuildHostFacts ==
  ASSUME NEW l, NEW P, NEW G, Numbered(l, P, G), NEW p, Fillable(l, p),
         NEW b, b = BuildHost(l, p)
  PROVE  /\ Numbered(b.l, P \o Filled(p), G) /\ Base(b.l, P \o Filled(p)) = Base(l, P)
         /\ b.l.live = l.live /\ b.l.session = l.session /\ b.l.window = l.window
         /\ b.l.promised = <<CapacityFor(l.window), l.promised[1]>>
         /\ b.l.need = Need(l.promised)
         /\ Mirrors(b.frame, b.l) /\ b.frame.sync = ~l.live
         /\ b.frame.window = CapacityFor(l.window)
         /\ p # NoPayload => l.live
<1> DEFINE c == Choice(l, p)
           a == After(l, c, p)
           w == CapacityFor(l.window)
           no == ~l.live
           off == FALSE
           f == FrameOf(l, c, w, no, off, p)
           n == Need(l.promised)
           s == <<w, l.promised[1]>>
<1>1. b = [frame |-> f, l |-> [a EXCEPT !.need = n, !.promised = s]]
  BY DEF BuildHost
<1>2. no \in BOOLEAN /\ off \in BOOLEAN
  BY Zenon
<1>3. w \in Poll..PayloadMax /\ w \in Nat
  <2>1. l.window \in Nat
    BY LinkFacts DEF Numbered
  <2> QED BY <2>1, SizeFacts
<1>4. n \in 0..PayloadMax /\ s \in (Poll..PayloadMax) \X (Poll..PayloadMax)
  <2>1. l.promised \in (Poll..PayloadMax) \X (Poll..PayloadMax)
    BY LinkFacts DEF Numbered
  <2>2. l.promised[1] \in Poll..PayloadMax /\ l.promised[2] \in Poll..PayloadMax
    BY <2>1
  <2>3. n \in {l.promised[1], l.promised[2]}
    BY DEF Need
  <2>4. n \in 0..PayloadMax
    BY <2>2, <2>3, SizesAssumption
  <2> QED BY <1>3, <2>2, <2>4
<1> HIDE DEF c, a, f, n, s, w, no, off
<1>5. /\ Numbered(a, P \o Filled(p), G) /\ Base(a, P \o Filled(p)) = Base(l, P)
      /\ a.live = l.live /\ a.session = l.session /\ a.window = l.window
      /\ (c.at # 0 => l.live) /\ (p # NoPayload => c.at # 0)
  BY AfterFacts DEF c, a
<1>11. c = Choice(l, p) /\ a = After(l, c, p) /\ f = FrameOf(l, c, w, no, off, p)
  BY DEF c, a, f
<1>6. /\ Mirrors(f, a) /\ f.sync = no /\ f.window = w
  BY <1>2, <1>3, <1>11, FrameFacts, SMTT(30)
<1> DEFINE k == [a EXCEPT !.need = n, !.promised = s]
<1>7. /\ k.out = a.out /\ k.next = a.next /\ k.expect = a.expect /\ k.ackedAny = a.ackedAny
      /\ k.live = a.live /\ k.session = a.session /\ k.window = a.window
      /\ k.current = a.current /\ k.need = n /\ k.promised = s /\ k \in Links
  BY <1>4, <1>5 DEF Numbered, Links
<1> HIDE DEF k
<1>8. Numbered(k, P \o Filled(p), G) /\ Base(k, P \o Filled(p)) = Base(a, P \o Filled(p))
  BY <1>5, <1>7, ZenonT(30) DEF Numbered, Base
<1>9. Mirrors(f, k)
  BY <1>6, <1>7 DEF Mirrors
<1>10. b.l = k /\ b.frame = f
  BY <1>1 DEF k
<1> QED BY <1>5, <1>6, <1>7, <1>8, <1>9, <1>10 DEF n, s, w, no

-----------------------------------------------------------------------------
(* Receiving a frame *)

(* An acknowledgement of everything the peer got covers exactly the        *)
(* entries of the window up to there                                       *)
LEMMA CoveredNumbers ==
  ASSUME NEW b \in Nat, NEW g \in Nat, NEW i \in 1..2, b <= g, g <= b + 2
  PROVE  (((g - 1) % SeqCount) - ((b + i - 1) % SeqCount)) % SeqCount < Half <=> i <= g - b
<1> DEFINE d == g - b - i
<1>1. d \in -2..1 /\ d \in Int /\ g - 1 \in Int /\ b + i - 1 \in Int
  OBVIOUS
<1>2. d = (g - 1) - (b + i - 1) /\ (i <= g - b <=> d >= 0)
  OBVIOUS
<1> HIDE DEF d
<1>3. (((g - 1) % SeqCount) - ((b + i - 1) % SeqCount)) % SeqCount = d % SeqCount
  BY <1>1, <1>2, RemainderOfDifference
<1>4. d % SeqCount = IF d >= 0 THEN d ELSE d + SeqCount
  <2>1. d < SeqCount /\ d >= -SeqCount
    BY <1>1, SeqCountAssumption
  <2> QED BY <1>1, <2>1, SmallRemainder
<1>5. d % SeqCount < Half <=> d >= 0
  BY <1>1, <1>4, HalfFacts, SeqCountAssumption
<1> QED BY <1>2, <1>3, <1>5

(* Two places that are near and have the same number are the same *)
LEMMA SameNumber ==
  ASSUME NEW a \in Int, NEW b \in Int, a - b \in -2..2, a % SeqCount = b % SeqCount
  PROVE  a = b
<1>0. a % SeqCount \in Int /\ a - b \in Int
  BY DivMod, SeqCountAssumption
<1>1. (a - b) % SeqCount = 0 % SeqCount
  <2>1. (a % SeqCount) - (b % SeqCount) = 0
    BY <1>0
  <2> QED BY <2>1, RemainderOfDifference
<1>2. 0 % SeqCount = 0
  BY SmallRemainder, SeqCountAssumption
<1>3. (a - b) % SeqCount = IF a - b >= 0 THEN a - b ELSE a - b + SeqCount
  <2>1. a - b < SeqCount /\ a - b >= -SeqCount
    BY SeqCountAssumption
  <2> QED BY <1>0, <2>1, SmallRemainder
<1> QED BY <1>0, <1>1, <1>2, <1>3, SeqCountAssumption

(* What a frame says about its sender, who put P from place B on and got G *)
Says(f, B, P, G) ==
  /\ f \in Frames /\ B \in Nat /\ P \in Seq(Nat) /\ G \in Seq(Nat) /\ Len(P) <= B + 2
  /\ f.isAck = (Len(G) > 0) /\ f.ack = (Len(G) - 1) % SeqCount
  /\ f.data => \E j \in 1..Len(P) : B < j /\ f.seq = (j - 1) % SeqCount /\ f.id = P[j]

LEMMA Distance2 ==
  ASSUME NEW x \in 0..2, NEW y \in Nat, x <= y
  PROVE  y - x \in Nat /\ y = (y - x) + x /\ y <= (y - x) + 2
OBVIOUS

LEMMA NumberedFacts ==
  ASSUME NEW l, NEW P, NEW G, Numbered(l, P, G)
  PROVE  /\ l \in Links /\ P \in Seq(Nat) /\ G \in Seq(Nat) /\ Len(P) \in Nat /\ Len(G) \in Nat
         /\ Len(l.out) \in 0..2 /\ l.out \in Seq(Entries) /\ Len(l.out) \in Nat
         /\ Base(l, P) \in Nat /\ Len(P) = Base(l, P) + Len(l.out) /\ Len(P) <= Base(l, P) + 2
         /\ l.live \in BOOLEAN /\ l.session \in Nat /\ l.window \in Nat
<1>1. l \in Links /\ P \in Seq(Nat) /\ G \in Seq(Nat) /\ Len(l.out) <= Window
  BY DEF Numbered
<1>2. Len(P) \in Nat /\ Len(G) \in Nat
  BY <1>1, LenProperties
<1>3. Len(l.out) \in 0..2 /\ l.out \in Seq(Entries) /\ Len(l.out) \in Nat
  BY <1>1, LinkFacts, RoomFacts
<1>4. Len(l.out) <= Len(P)
  BY DEF Numbered
<1>6. Base(l, P) \in Nat /\ Len(P) = Base(l, P) + Len(l.out) /\ Len(P) <= Base(l, P) + 2
  BY <1>2, <1>3, <1>4, Distance2 DEF Base
<1> QED BY <1>1, <1>2, <1>3, <1>6, LinkFacts

LEMMA MirrorsSays ==
  ASSUME NEW l, NEW P, NEW G, Numbered(l, P, G), NEW f, Mirrors(f, l)
  PROVE  Says(f, Base(l, P), P, G)
<1>1. /\ l \in Links /\ P \in Seq(Nat) /\ G \in Seq(Nat) /\ Len(P) \in Nat /\ Len(G) \in Nat
      /\ Len(l.out) \in 0..2 /\ Base(l, P) \in Nat /\ Len(P) = Base(l, P) + Len(l.out)
  BY NumberedFacts
<1>2. f.ack = (Len(G) - 1) % SeqCount
  <2>1. ((Len(G) % SeqCount) + (-1)) % SeqCount = (Len(G) + (-1)) % SeqCount
    BY <1>1, RemainderOfSum
  <2>2. Len(G) % SeqCount \in Int
    BY <1>1, DivMod, SeqCountAssumption
  <2>3. f.ack = ((Len(G) % SeqCount) - 1) % SeqCount
    BY DEF Mirrors, Numbered
  <2> QED BY <1>1, <2>1, <2>2, <2>3
<1>3. ASSUME f.data
      PROVE  \E j \in 1..Len(P) : Base(l, P) < j /\ f.seq = (j - 1) % SeqCount /\ f.id = P[j]
  <2> DEFINE i == l.current
  <2>1. i # 0 /\ f.seq = l.out[i].seq /\ f.id = l.out[i].id
    BY <1>3 DEF Mirrors
  <2>2. i \in 1..Len(l.out)
    <3>1. i \in 0..2 /\ i <= Len(l.out)
      BY <1>1, LinkFacts DEF Numbered, Window
    <3> QED BY <1>1, <2>1, <3>1
  <2>3. /\ l.out[i].seq = (Base(l, P) + i - 1) % SeqCount
        /\ l.out[i].id = P[Base(l, P) + i]
    BY <2>2 DEF Numbered
  <2> HIDE DEF i
  <2> DEFINE j == Base(l, P) + i
  <2>4. j \in 1..Len(P) /\ Base(l, P) < j
    BY <1>1, <2>2, SMTT(30)
  <2>6. Base(l, P) + i - 1 = j - 1
    BY <1>1, <2>2
  <2>5. f.seq = (j - 1) % SeqCount /\ f.id = P[j]
    BY <2>1, <2>3, <2>6, Zenon
  <2> HIDE DEF j
  <2> QED BY <2>4, <2>5
<1>4. f.isAck = (Len(G) > 0) /\ f \in Frames
  BY DEF Mirrors, Numbered
<1>5. Len(P) <= Base(l, P) + 2
  BY NumberedFacts
<1>6. P \in Seq(Nat) /\ G \in Seq(Nat) /\ Base(l, P) \in Nat
  BY <1>1
<1> QED BY <1>2, <1>3, <1>4, <1>5, <1>6, Zenon DEF Says

(* acknowledge() releases what the peer got and nothing else *)
LEMMA ReleasedFacts ==
  ASSUME NEW l, NEW P, NEW G, Numbered(l, P, G), NEW GG \in Seq(Nat),
         Base(l, P) <= Len(GG), Len(GG) <= Len(P),
         NEW f, f.isAck = (Len(GG) > 0), f.ack = (Len(GG) - 1) % SeqCount,
         NEW r, r = Released(l.out, f), NEW d, d = Len(GG) - Base(l, P)
  PROVE  /\ d \in 0..Len(l.out) /\ r \in Seq(Entries) /\ Len(r) = Len(l.out) - d
         /\ \A i \in 1..Len(r) : r[i] = l.out[d + i]
<1>1. /\ l \in Links /\ Len(P) \in Nat /\ Len(l.out) \in 0..2 /\ l.out \in Seq(Entries)
      /\ Base(l, P) \in Nat /\ Len(P) = Base(l, P) + Len(l.out) /\ Len(P) <= Base(l, P) + 2
  BY NumberedFacts
<1>2. Len(GG) \in Nat
  BY LenProperties
<1> DEFINE n == Len(l.out)
           b == Base(l, P)
           g == Len(GG)
<1>3. /\ n \in 0..2 /\ b \in Nat /\ g \in Nat /\ b <= g /\ g <= b + n /\ g <= b + 2
      /\ d = g - b
  BY <1>1, <1>2
<1>4. \A i \in 1..n : l.out[i].seq = (b + i - 1) % SeqCount
  BY DEF Numbered
<1>5. /\ ~f.isAck => r = l.out
      /\ f.isAck => r = SubSeq(l.out, (CHOOSE k \in Acknowledged(l.out, f.ack) :
                                \A j \in Acknowledged(l.out, f.ack) : j <= k) + 1, n)
  BY Zenon DEF Released
<1>16. f.isAck <=> g > 0
  OBVIOUS
<1>6. Acknowledged(l.out, f.ack)
        = {k \in 0..n : \A i \in 1..k : (f.ack - l.out[i].seq) % SeqCount < Half}
  BY DEF Acknowledged
<1>12. \A i \in 1..n : l.out[i] \in Entries
  BY <1>1, ElementOfSeq
<1>13. SubSeq(l.out, 1, n) = l.out
  BY <1>1, SubSeqFull
<1>14. f.ack = (g - 1) % SeqCount
  OBVIOUS
<1> HIDE DEF n, b, g
<1>7. d \in 0..n /\ d \in Int
  BY <1>3
<1>8. ASSUME NEW i \in 1..n
      PROVE  (f.ack - l.out[i].seq) % SeqCount < Half <=> i <= d
  <2>1. i \in 1..2
    BY <1>3
  <2> QED BY <1>3, <1>4, <1>14, <2>1, CoveredNumbers
<1>9. r = SubSeq(l.out, d + 1, n)
  <2>1. CASE g > 0
    <3> DEFINE ks == Acknowledged(l.out, f.ack)
    <3>1. d \in ks
      <4>1. \A i \in 1..d : i \in 1..n /\ i <= d
        BY <1>3, <1>7
      <4> QED BY <1>6, <1>7, <1>8, <4>1
    <3>2. \A k \in ks : k <= d
      <4>1. SUFFICES ASSUME NEW k \in ks PROVE k <= d
        OBVIOUS
      <4>2. k \in 0..n /\ \A i \in 1..k : (f.ack - l.out[i].seq) % SeqCount < Half
        BY <1>6
      <4>3. CASE k = 0
        BY <1>7, <4>3
      <4>4. CASE k # 0
        <5>1. k \in 1..k /\ k \in 1..n
          BY <1>3, <4>2, <4>4
        <5> QED BY <1>8, <4>2, <5>1
      <4> QED BY <4>3, <4>4
    <3>3. ks \subseteq Int
      BY <1>3, <1>6
    <3> HIDE DEF ks
    <3> DEFINE top == CHOOSE k \in ks : \A j \in ks : j <= k
    <3>4. top \in ks /\ \A j \in ks : j <= top
      BY <3>1, <3>2
    <3>5. top = d
      <4> HIDE DEF top
      <4>1. top \in Int /\ top <= d /\ d <= top
        BY <3>1, <3>2, <3>3, <3>4
      <4> QED BY <1>7, <4>1
    <3>6. r = SubSeq(l.out, top + 1, n)
      BY <1>5, <1>16, <2>1 DEF ks
    <3> HIDE DEF top
    <3> QED BY <3>5, <3>6
  <2>2. CASE ~(g > 0)
    <3>1. d + 1 = 1
      BY <1>3, <2>2
    <3>2. r = l.out
      BY <1>5, <1>16, <2>2
    <3> QED BY <1>13, <3>1, <3>2
  <2> QED BY <2>1, <2>2
<1>10. /\ SubSeq(l.out, d + 1, n) \in Seq(Entries)
       /\ Len(SubSeq(l.out, d + 1, n)) = IF d + 1 <= n THEN n - (d + 1) + 1 ELSE 0
       /\ \A i \in 1..(n - (d + 1) + 1) : SubSeq(l.out, d + 1, n)[i] = l.out[(d + 1) + i - 1]
  <2>1. d + 1 \in Int /\ n \in Int
    BY <1>3, <1>7
  <2>2. \A i \in (d + 1)..n : i \in 1..n
    BY <1>3, <1>7
  <2>3. \A i \in (d + 1)..n : l.out[i] \in Entries
    BY <1>12, <2>2
  <2> QED BY <2>1, <2>3, SubSeqProperties
<1>11. Len(r) = n - d /\ r \in Seq(Entries)
  <2>1. (IF d + 1 <= n THEN n - (d + 1) + 1 ELSE 0) = n - d
    BY <1>3, <1>7
  <2> QED BY <1>9, <1>10, <2>1, Zenon
<1>15. ASSUME NEW i \in 1..Len(r)
       PROVE  r[i] = l.out[d + i]
  <2>1. i \in 1..(n - (d + 1) + 1) /\ (d + 1) + i - 1 = d + i
    BY <1>3, <1>7, <1>11
  <2> QED BY <1>9, <1>10, <2>1
<1> QED BY <1>7, <1>11, <1>15 DEF n

(* deliver() gets the payload after the last one, or nothing *)
LEMMA DeliveredFacts ==
  ASSUME NEW l, NEW P, NEW G, Numbered(l, P, G),
         NEW f, NEW B, NEW PP, NEW GG, Says(f, B, PP, GG), B <= Len(G), Begins(G, PP),
         NEW new, new = Delivered(l, f)
  PROVE  /\ G \o new \in Seq(Nat) /\ Begins(G \o new, PP) /\ Len(G) <= Len(G \o new)
         /\ Len(G \o new) % SeqCount = (IF InOrderFrame(l, f) THEN (l.expect + 1) % SeqCount
                                                             ELSE l.expect)
         /\ Len(G \o new) > 0 <=> Len(G) > 0 \/ InOrderFrame(l, f)
<1>1. G \in Seq(Nat) /\ Len(G) \in Nat /\ l.expect = Len(G) % SeqCount
  BY NumberedFacts DEF Numbered
<1>2. PP \in Seq(Nat) /\ Len(PP) \in Nat /\ B \in Nat /\ Len(PP) <= B + 2
  BY LenProperties DEF Says
<1>3. CASE ~InOrderFrame(l, f)
  <2>1. G \o new = G
    BY <1>1, <1>3, ConcatEmptySeq DEF Delivered
  <2> QED BY <1>1, <1>3, <2>1
<1>4. CASE InOrderFrame(l, f)
  <2>1. f.data /\ f.seq = l.expect /\ new = <<f.id>>
    BY <1>4 DEF InOrderFrame, Delivered
  <2>2. PICK j \in 1..Len(PP) : B < j /\ f.seq = (j - 1) % SeqCount /\ f.id = PP[j]
    BY <2>1, Zenon DEF Says
  <2> DEFINE g == Len(G)
             m == Len(PP)
  <2>3. g \in Nat /\ m \in Nat /\ B <= g /\ g <= m /\ j \in 1..m /\ m <= B + 2
    BY <1>1, <1>2 DEF Begins
  <2>4. g % SeqCount = (j - 1) % SeqCount
    BY <1>1, <2>1, <2>2
  <2> HIDE DEF g, m
  <2>5. g = j - 1
    <3>1. g - (j - 1) \in -2..2 /\ g \in Int /\ j - 1 \in Int
      BY <1>2, <2>2, <2>3
    <3> QED BY <2>4, <3>1, SameNumber
  <2>6. j = g + 1 /\ g + 1 <= m
    BY <2>3, <2>5
  <2>7. f.id \in Nat /\ f.id = PP[g + 1]
    <3>1. PP[j] \in Nat
      BY <1>2, ElementOfSeq
    <3> QED BY <2>2, <2>6, <3>1
  <2>8. <<f.id>> \in Seq(Nat) /\ Len(<<f.id>>) = 1 /\ <<f.id>>[1] = f.id
    BY <2>7
  <2>9. /\ G \o new \in Seq(Nat) /\ Len(G \o new) = g + 1
        /\ \A i \in 1..(g + 1) : (G \o new)[i] = IF i <= g THEN G[i] ELSE <<f.id>>[i - g]
    BY <1>1, <2>1, <2>8, ConcatProperties DEF g
  <2>10. ASSUME NEW i \in 1..(g + 1)
         PROVE  (G \o new)[i] = PP[i]
    <3>1. CASE i <= g
      <4>1. i \in 1..g
        BY <2>3, <3>1
      <4>2. G[i] = PP[i]
        BY <4>1 DEF Begins, g
      <4> QED BY <2>9, <3>1, <4>2
    <3>2. CASE ~(i <= g)
      <4>1. i = g + 1 /\ i - g = 1
        BY <2>3, <3>2
      <4> QED BY <2>7, <2>8, <2>9, <3>2, <4>1
    <3> QED BY <3>1, <3>2
  <2>11. Begins(G \o new, PP)
    BY <2>6, <2>9, <2>10 DEF Begins, m
  <2>12. (g + 1) % SeqCount = (l.expect + 1) % SeqCount
    BY <1>1, RemainderOfSum DEF g
  <2>13. g <= g + 1 /\ g + 1 > 0
    BY <2>3
  <2> QED BY <1>4, <2>9, <2>11, <2>12, <2>13 DEF g
<1> QED BY <1>3, <1>4

LEMMA Shifted ==
  ASSUME NEW b \in Nat, NEW g \in Nat, NEW i \in Int
  PROVE  b + ((g - b) + i) - 1 = g + i - 1 /\ b + ((g - b) + i) = g + i
OBVIOUS

(* The frame f of the peer, who put PP from B on and got GG, reaches l, who *)
(* put P and got G, and what that makes of l                                *)
MayAccept(l, P, G, f, B, PP, GG) ==
  /\ Numbered(l, P, G) /\ l.live /\ l.current = 0 /\ Says(f, B, PP, GG)
  /\ Base(l, P) <= Len(GG) /\ Len(GG) <= Len(P) /\ B <= Len(G) /\ Begins(G, PP)
Accepted(l, P, G, f, PP, GG, a, G2) ==
  /\ Numbered(a, P, G2) /\ Base(a, P) = Len(GG) /\ Begins(G2, PP) /\ Len(G) <= Len(G2)
  /\ a.live = l.live /\ a.session = l.session /\ a.promised = l.promised
  /\ a.window = f.window

LEMMA AcceptFacts ==
  ASSUME NEW l, NEW P, NEW G, NEW f, NEW B, NEW PP, NEW GG,
         MayAccept(l, P, G, f, B, PP, GG)
  PROVE  Accepted(l, P, G, f, PP, GG, Accept(l, f), G \o Delivered(l, f))
<1> DEFINE a == Accept(l, f)
           new == Delivered(l, f)
<1>0. /\ Numbered(l, P, G) /\ l.live /\ l.current = 0 /\ Says(f, B, PP, GG)
      /\ Base(l, P) <= Len(GG) /\ Len(GG) <= Len(P) /\ B <= Len(G) /\ Begins(G, PP)
  BY DEF MayAccept
<1> USE <1>0
<1>20. a = Accept(l, f) /\ new = Delivered(l, f)
  OBVIOUS
<1> HIDE DEF a, new
<1> DEFINE r == Released(l.out, f)
           d == Len(GG) - Base(l, P)
           G2 == G \o new
           x == IF InOrderFrame(l, f) THEN (l.expect + 1) % SeqCount ELSE l.expect
           y == l.ackedAny \/ InOrderFrame(l, f)
<1>1. /\ G2 \in Seq(Nat) /\ Begins(G2, PP) /\ Len(G) <= Len(G2)
      /\ Len(G2) % SeqCount = x /\ (Len(G2) > 0 <=> Len(G) > 0 \/ InOrderFrame(l, f))
  BY <1>20, DeliveredFacts
<1>2. /\ f \in Frames /\ GG \in Seq(Nat)
      /\ f.isAck = (Len(GG) > 0) /\ f.ack = (Len(GG) - 1) % SeqCount
  BY Zenon DEF Says
<1>3. /\ d \in 0..Len(l.out) /\ r \in Seq(Entries) /\ Len(r) = Len(l.out) - d
      /\ \A i \in 1..Len(r) : r[i] = l.out[d + i]
  BY <1>2, ReleasedFacts
<1>4. a = [l EXCEPT !.window = f.window, !.out = r, !.expect = x, !.ackedAny = y]
  BY <1>20 DEF Accept
<1>5. x \in Numbers
  <2>1. l.expect \in Numbers /\ l.expect \in Int
    BY LinkFacts, SeqCountAssumption DEF Numbered, Numbers
  <2>2. (l.expect + 1) % SeqCount \in Numbers
    <3>1. l.expect + 1 \in Int
      BY <2>1
    <3> QED BY <3>1, DivMod DEF Numbers
  <2> QED BY <2>1, <2>2
<1>6. f.window \in Nat
  BY <1>2 DEF Frames
<1>7. y \in BOOLEAN /\ (y <=> Len(G2) > 0)
  <2>1. l.ackedAny <=> Len(G) > 0
    BY DEF Numbered
  <2> QED BY <1>1, <2>1
<1>8. /\ l \in Links /\ P \in Seq(Nat) /\ Len(P) \in Nat /\ Len(l.out) \in 0..2
      /\ Base(l, P) \in Nat /\ Len(P) = Base(l, P) + Len(l.out) /\ Len(l.out) \in Nat
  BY NumberedFacts
<1> HIDE DEF r, d, G2, x, y
<1>9. /\ a.window = f.window /\ a.out = r /\ a.expect = x /\ a.ackedAny = y
      /\ a.next = l.next /\ a.live = l.live /\ a.session = l.session
      /\ a.promised = l.promised /\ a.current = l.current /\ a.need = l.need /\ a.want = l.want
  BY <1>4, <1>8 DEF Links
<1>10. a \in Links
  BY <1>3, <1>4, <1>5, <1>6, <1>7, <1>8, Zenon DEF Links
<1>11. Len(r) \in Nat /\ Base(a, P) = Len(GG) /\ Len(r) <= Window /\ Len(r) <= Len(P)
  <2> DEFINE n == Len(l.out)
             m == Len(r)
             p == Len(P)
             b == Base(l, P)
             g == Len(GG)
  <2>1. /\ n \in 0..2 /\ p \in Nat /\ b \in Nat /\ g \in Nat /\ p = b + n /\ d = g - b
        /\ d \in 0..n /\ m = n - d
    BY <1>2, <1>3, <1>8, LenProperties DEF d
  <2>2. Base(a, P) = p - m
    BY <1>9 DEF Base
  <2> HIDE DEF n, m, p, b, g
  <2>3. m \in Nat /\ p - m = g /\ m <= 2 /\ m <= p
    BY <2>1
  <2> QED BY <2>2, <2>3 DEF m, p, g, Window
<1>12. ASSUME NEW i \in 1..Len(r)
       PROVE  /\ r[i].seq = (Base(a, P) + i - 1) % SeqCount /\ r[i].id = P[Base(a, P) + i]
  <2>1. r[i] = l.out[d + i]
    BY <1>3
  <2>2. d + i \in 1..Len(l.out)
    BY <1>3, <1>8, <1>11
  <2>3. /\ l.out[d + i].seq = (Base(l, P) + (d + i) - 1) % SeqCount
        /\ l.out[d + i].id = P[Base(l, P) + (d + i)]
    BY <2>2 DEF Numbered
  <2>4. /\ Base(l, P) + (d + i) - 1 = Base(a, P) + i - 1
        /\ Base(l, P) + (d + i) = Base(a, P) + i
    <3>1. Len(GG) \in Nat
      BY <1>2, LenProperties
    <3>2. i \in Int
      BY <1>11
    <3>3. /\ Base(l, P) + ((Len(GG) - Base(l, P)) + i) - 1 = Len(GG) + i - 1
          /\ Base(l, P) + ((Len(GG) - Base(l, P)) + i) = Len(GG) + i
      BY <1>8, <3>1, <3>2, Shifted
    <3> QED BY <1>11, <3>3, Zenon DEF d
  <2> QED BY <2>1, <2>3, <2>4
<1>13. /\ a.current <= Len(r) /\ l.next = Len(P) % SeqCount
  BY <1>9, <1>11 DEF Numbered
<1>14. Numbered(a, P, G2)
  <2>1. a.ackedAny = (Len(G2) > 0)
    BY <1>7, <1>9
  <2> QED BY <1>1, <1>8, <1>9, <1>10, <1>11, <1>12, <1>13, <2>1 DEF Numbered
<1>15. Accepted(l, P, G, f, PP, GG, a, G \o new)
  BY <1>1, <1>9, <1>11, <1>14 DEF G2, Accepted
<1> QED BY <1>15, <1>20

-----------------------------------------------------------------------------
(* The two halves of a transfer *)

Restarted(l, s, v, w) == [Restart(l) EXCEPT !.session = s, !.live = v, !.window = w]

LEMMA RestartFacts ==
  ASSUME NEW l \in Links, NEW s \in Nat, NEW v \in BOOLEAN, NEW w \in Nat,
         NEW k, k = Restarted(l, s, v, w)
  PROVE  /\ Numbered(k, <<>>, <<>>) /\ Base(k, <<>>) = 0 /\ k.session = s /\ k.live = v
         /\ k.window = w /\ k.promised = l.promised /\ k.current = 0
<1>1. k = [l EXCEPT !.next = 0, !.expect = 0, !.ackedAny = FALSE, !.out = <<>>, !.want = 0,
                    !.current = 0, !.session = s, !.live = v, !.window = w]
  BY DEF Restarted, Restart, Links
<1>2. /\ k.session = s /\ k.live = v /\ k.window = w /\ k.promised = l.promised
      /\ k.current = 0 /\ k.next = 0 /\ k.expect = 0 /\ k.ackedAny = FALSE /\ k.out = <<>>
  BY <1>1 DEF Links
<1>3. 0 \in Numbers /\ <<>> \in Seq(Entries) /\ 0 \in 0..PayloadMax /\ 0 \in 0..Window
  BY SeqCountAssumption, SizesAssumption DEF Numbers, Window
<1>4. k \in Links
  BY <1>1, <1>3, ZenonT(30) DEF Links
<1>5. <<>> \in Seq(Nat) /\ Len(<<>>) = 0 /\ 0 % SeqCount = 0
  BY SmallRemainder, SeqCountAssumption
<1>6. Base(k, <<>>) = 0
  BY <1>2, <1>5 DEF Base
<1>7. Numbered(k, <<>>, <<>>)
  <2>1. Len(k.out) = 0 /\ \A i \in 1..Len(k.out) : FALSE
    BY <1>2, <1>5
  <2>2. k.ackedAny = (Len(<<>>) > 0)
    <3>1. (Len(<<>>) > 0) = FALSE
      BY <1>5
    <3> QED BY <1>2, <3>1, Zenon
  <2>3. /\ Len(k.out) <= Window /\ Len(k.out) <= Len(<<>>) /\ k.current <= Len(k.out)
        /\ k.next = Len(<<>>) % SeqCount /\ k.expect = Len(<<>>) % SeqCount
    BY <1>2, <1>5, <2>1 DEF Window
  <2> QED BY <1>4, <1>5, <2>1, <2>2, <2>3, Zenon DEF Numbered
<1> QED BY <1>2, <1>6, <1>7

Anew(l, s, v, w, k) ==
  /\ Numbered(k, <<>>, <<>>) /\ Base(k, <<>>) = 0 /\ k.session = s /\ k.live = v
  /\ k.window = w /\ k.promised = l.promised /\ k.current = 0

LEMMA RestartedFacts ==
  ASSUME NEW l \in Links, NEW s \in Nat, NEW v \in BOOLEAN, NEW w \in Nat
  PROVE  Anew(l, s, v, w, Restarted(l, s, v, w))
BY RestartFacts DEF Anew

(* An end without a session has put and got nothing *)
LEMMA NothingPut ==
  ASSUME NEW l, NEW P, NEW G, Numbered(l, P, G), ~l.live
  PROVE  P = <<>> /\ G = <<>>
BY EmptySeq DEF Numbered

LEMMA WantFacts ==
  ASSUME NEW l, NEW P, NEW G, Numbered(l, P, G), NEW w \in 0..PayloadMax,
         NEW k, k = [l EXCEPT !.want = w]
  PROVE  /\ Numbered(k, P, G) /\ Base(k, P) = Base(l, P) /\ k.live = l.live
         /\ k.session = l.session /\ k.window = l.window /\ k.promised = l.promised
         /\ k.current = l.current
<1>1. l \in Links /\ l.out \in Seq(Entries) /\ Len(l.out) \in Nat
  BY LinkFacts DEF Numbered
<1>2. /\ k \in Links /\ k.out = l.out /\ k.next = l.next /\ k.expect = l.expect
      /\ k.ackedAny = l.ackedAny /\ k.live = l.live /\ k.session = l.session
      /\ k.window = l.window /\ k.promised = l.promised /\ k.current = l.current
  BY <1>1 DEF Links
<1>3. SameEntries(k.out, l.out) /\ k.current <= Len(l.out)
  BY <1>1, <1>2 DEF SameEntries, Numbered
<1> QED BY <1>2, <1>3, NumberedSame

(* How the host may come out of a transfer: with k, having put P2 and got  *)
(* G2, where it went in with l                                             *)
HostOut(l, P, G, PP, GG, k, P2, G2) ==
  /\ Numbered(k, P2, G2) /\ k.promised = l.promised /\ k.session = l.session
  /\ ~k.live => ~l.live /\ k.window = l.window
  /\ l.live => P2 = P /\ Len(G) <= Len(G2)
  /\ ~l.live /\ k.live => JoinedTo(l.session)
  /\ JoinedTo(l.session) /\ k.live => Leads(k, P2, GG) /\ Leads(bridge, PP, G2)

LEMMA HostKeeps ==
  ASSUME NEW l, NEW P, NEW G, NEW PP, NEW GG, Between(l, P, G, PP, GG),
         NEW k, Numbered(k, P, G), Base(k, P) = Base(l, P), k.promised = l.promised,
         k.session = l.session, k.live = l.live, k.window = l.window
  PROVE  HostOut(l, P, G, PP, GG, k, P, G \o <<>>)
<1>1. G \o <<>> = G /\ Len(G) \in Nat
  BY NumberedFacts, ConcatEmptySeq DEF Between
<1> QED BY <1>1 DEF HostOut, Between, Leads

LEMMA HostReceiveFacts ==
  ASSUME NEW l, NEW P, NEW G, NEW PP, NEW GG, Between(l, P, G, PP, GG), l.current = 0,
         Mirrors(armed, bridge), armed.nosession = ~bridge.live,
         NEW h, h = HostReceive(l, armed)
  PROVE  \/ /\ h.r = "lost" /\ h.new = <<>> /\ h.l \in Links /\ h.l.promised = l.promised
            /\ l.live /\ ~JoinedTo(l.session)
         \/ /\ h.r \in {"ok", "synced", "ignored"}
            /\ HostOut(l, P, G, PP, GG, h.l, Kept(h, P), Kept(h, G) \o h.new)
<1> DEFINE m == [l EXCEPT !.want = 0]
           up == [Restart(m) EXCEPT !.live = TRUE]
           ours == ~armed.nosession /\ armed.session = m.session
<1>0. Numbered(l, P, G) /\ Numbered(bridge, PP, GG)
  BY DEF Between
<1>1. /\ Numbered(m, P, G) /\ Base(m, P) = Base(l, P) /\ m.live = l.live
      /\ m.session = l.session /\ m.window = l.window /\ m.promised = l.promised
      /\ m.current = 0
  <2>1. 0 \in 0..PayloadMax
    BY SizesAssumption
  <2> QED BY <1>0, <2>1, WantFacts
<1>2. ours <=> JoinedTo(l.session)
  BY <1>1 DEF Mirrors, JoinedTo
<1>3. Says(armed, Base(bridge, PP), PP, GG)
  BY <1>0, MirrorsSays
<1>4. /\ m.live /\ ours => h = [r |-> "ok", l |-> Accept(m, armed), new |-> Delivered(m, armed)]
      /\ m.live /\ ~ours => h = [r |-> "lost", l |-> [m EXCEPT !.live = FALSE], new |-> <<>>]
      /\ ~m.live /\ ours => h = [r |-> "synced", l |-> Accept(up, armed), new |-> Delivered(up, armed)]
      /\ ~m.live /\ ~ours => h = [r |-> "ignored", l |-> m, new |-> <<>>]
  BY Zenon DEF HostReceive
<1> HIDE DEF m, ours
<1>5. CASE m.live /\ ours
  <2> DEFINE a == Accept(m, armed)
             new == Delivered(m, armed)
  <2>1. h = [r |-> "ok", l |-> a, new |-> new]
    BY <1>4, <1>5
  <2>2. Leads(l, P, GG) /\ Leads(bridge, PP, G)
    BY <1>1, <1>2, <1>5 DEF Between
  <2> HIDE DEF a, new
  <2>3. /\ Numbered(a, P, G \o new) /\ Base(a, P) = Len(GG)
        /\ Begins(G \o new, PP) /\ Len(G) <= Len(G \o new)
        /\ a.live = m.live /\ a.session = m.session /\ a.promised = m.promised
    <3>1. MayAccept(m, P, G, armed, Base(bridge, PP), PP, GG)
      BY <1>1, <1>3, <1>5, <2>2 DEF Leads, Begins, MayAccept
    <3>2. Accepted(m, P, G, armed, PP, GG, a, G \o new)
      BY <3>1, AcceptFacts DEF a, new
    <3> QED BY <3>2 DEF Accepted
  <2>4. Base(bridge, PP) <= Len(G \o new)
    <3>1. /\ Base(bridge, PP) \in Nat /\ Len(G) \in Nat /\ Len(G \o new) \in Nat
      BY <1>0, <2>3, NumberedFacts
    <3> QED BY <2>2, <2>3, <3>1 DEF Leads
  <2>5. Leads(a, P, GG) /\ Leads(bridge, PP, G \o new)
    <3>1. Len(GG) \in Nat
      BY <1>0, NumberedFacts
    <3> QED BY <2>2, <2>3, <2>4, <3>1 DEF Leads
  <2>6. HostOut(l, P, G, PP, GG, a, P, G \o new)
    BY <1>1, <1>5, <2>3, <2>5 DEF HostOut
  <2>7. h.r = "ok" /\ h.l = a /\ h.new = new
    BY <2>1
  <2> QED BY <2>6, <2>7 DEF Kept
<1>6. CASE m.live /\ ~ours
  <2>1. h = [r |-> "lost", l |-> [m EXCEPT !.live = FALSE], new |-> <<>>]
    BY <1>4, <1>6
  <2>2. m \in Links
    BY <1>1 DEF Numbered
  <2>3. [m EXCEPT !.live = FALSE] \in Links
    BY <2>2, Zenon DEF Links
  <2>4. [m EXCEPT !.live = FALSE].promised = m.promised
    BY <2>2 DEF Links
  <2>5. h.r = "lost" /\ h.new = <<>> /\ h.l = [m EXCEPT !.live = FALSE]
    BY <2>1
  <2>6. h.l \in Links /\ h.l.promised = l.promised
    BY <1>1, <2>3, <2>4, <2>5
  <2> QED BY <1>1, <1>2, <1>6, <2>5, <2>6
<1>7. CASE ~m.live /\ ours
  <2> DEFINE a == Accept(up, armed)
             new == Delivered(up, armed)
  <2>1. h = [r |-> "synced", l |-> a, new |-> new]
    BY <1>4, <1>7
  <2>2. GG = <<>> /\ Base(bridge, PP) = 0
    BY <1>1, <1>2, <1>7 DEF Between
  <2>3. /\ Numbered(up, <<>>, <<>>) /\ Base(up, <<>>) = 0 /\ up.live /\ up.current = 0
        /\ up.session = l.session /\ up.promised = l.promised
    <3> DEFINE on == TRUE
    <3>1. m \in Links /\ m.session \in Nat /\ m.window \in Nat
      BY <1>1, LinkFacts DEF Numbered
    <3>2. up = Restarted(m, m.session, on, m.window)
      BY <3>1 DEF Restarted, Restart, Links
    <3>3. on \in BOOLEAN
      BY Zenon
    <3> HIDE DEF up, on
    <3>4. /\ Numbered(up, <<>>, <<>>) /\ Base(up, <<>>) = 0 /\ up.live = on /\ up.current = 0
          /\ up.session = m.session /\ up.promised = m.promised
      BY <3>1, <3>2, <3>3, RestartFacts
    <3> QED BY <1>1, <3>4 DEF on
  <2> HIDE DEF a, new, up
  <2>4. Len(<<>>) = 0 /\ Len(PP) \in Nat /\ Begins(<<>>, PP)
    <3>1. Len(PP) \in Nat
      BY <1>0, NumberedFacts
    <3> QED BY <3>1 DEF Begins
  <2>5. /\ Numbered(a, <<>>, <<>> \o new) /\ Base(a, <<>>) = Len(GG)
        /\ Begins(<<>> \o new, PP) /\ Len(<<>>) <= Len(<<>> \o new)
        /\ a.live = up.live /\ a.session = up.session /\ a.promised = up.promised
    <3>1. Base(up, <<>>) <= Len(GG) /\ Len(GG) <= Len(<<>>) /\ Base(bridge, PP) <= Len(<<>>)
      BY <2>2, <2>3, <2>4
    <3>2. MayAccept(up, <<>>, <<>>, armed, Base(bridge, PP), PP, GG)
      BY <1>3, <2>3, <2>4, <3>1 DEF MayAccept
    <3>3. Accepted(up, <<>>, <<>>, armed, PP, GG, a, <<>> \o new)
      BY <3>2, AcceptFacts DEF a, new
    <3> QED BY <3>3 DEF Accepted
  <2>6. Leads(a, <<>>, GG) /\ Leads(bridge, PP, <<>> \o new)
    <3>1. Base(a, <<>>) <= Len(GG) /\ Begins(GG, <<>>)
      BY <2>2, <2>4, <2>5 DEF Begins
    <3>2. Base(bridge, PP) <= Len(<<>> \o new)
      BY <2>2, <2>4, <2>5
    <3> QED BY <2>5, <3>1, <3>2 DEF Leads
  <2>7. HostOut(l, P, G, PP, GG, a, <<>>, <<>> \o new)
    BY <1>1, <1>2, <1>7, <2>3, <2>5, <2>6 DEF HostOut
  <2>8. h.r = "synced" /\ h.l = a /\ h.new = new
    BY <2>1
  <2> QED BY <2>7, <2>8 DEF Kept
<1>8. CASE ~m.live /\ ~ours
  <2>1. h = [r |-> "ignored", l |-> m, new |-> <<>>]
    BY <1>4, <1>8
  <2>2. HostOut(l, P, G, PP, GG, m, P, G \o <<>>)
    BY <1>1, HostKeeps
  <2> QED BY <2>1, <2>2 DEF Kept
<1> QED BY <1>5, <1>6, <1>7, <1>8

(* The host gives up its session *)
HostLost(l, h) ==
  /\ h.r = "lost" /\ h.new = <<>> /\ h.l \in Links /\ h.l.promised = l.promised
  /\ l.live /\ ~JoinedTo(l.session)

LEMMA HostEndFacts ==
  ASSUME NEW l, NEW P, NEW G, NEW PP, NEW GG, Between(l, P, G, PP, GG),
         Mirrors(armed, bridge), armed.nosession = ~bridge.live,
         NEW clk \in Nat, NEW bad \in BOOLEAN, NEW h \in HostEnd(l, clk, bad)
  PROVE  \/ HostLost(l, h)
         \/ /\ h.r # "lost"
            /\ HostOut(l, P, G, PP, GG, h.l, Kept(h, P), Kept(h, G) \o h.new)
<1> DEFINE t == Tick(l, FALSE)
           none(w) == [r |-> "nothing", l |-> [t EXCEPT !.want = w], new |-> <<>>]
           cut == FALSE
<1>1. /\ Numbered(t, P, G) /\ Base(t, P) = Base(l, P) /\ t.live = l.live
      /\ t.session = l.session /\ t.window = l.window /\ t.promised = l.promised
      /\ t.current = 0
  <2>1. cut \in BOOLEAN /\ t = Tick(l, cut) /\ Numbered(l, P, G)
    BY Zenon DEF Between
  <2> HIDE DEF cut, t
  <2> QED BY <2>1, TickFacts
<1>2. l.want \in 0..PayloadMax /\ armed.len \in 0..PayloadMax
  BY LinkFacts DEF Between, Numbered, Mirrors, Frames
<1>3. \/ \E w \in 0..PayloadMax : h = none(w)
      \/ h = HostReceive(t, armed)
  <2>1. CASE bad
    <3>1. HostEnd(l, clk, bad) = {none(w) : w \in {l.want} \cup (clk + 1)..PayloadMax}
      BY <2>1, Zenon DEF HostEnd
    <3>2. PICK w \in {l.want} \cup (clk + 1)..PayloadMax : h = none(w)
      BY <3>1, Zenon
    <3>3. w \in 0..PayloadMax
      BY <1>2, SizesAssumption
    <3> QED BY <3>2, <3>3, Zenon
  <2>2. CASE ~bad /\ armed.len > clk
    <3>1. HostEnd(l, clk, bad) = {none(armed.len)}
      BY <2>2, Zenon DEF HostEnd
    <3> QED BY <1>2, <3>1, Zenon
  <2>3. CASE ~bad /\ ~(armed.len > clk)
    <3>1. HostEnd(l, clk, bad) = {HostReceive(t, armed)}
      BY <2>3, Zenon DEF HostEnd
    <3> QED BY <3>1, Zenon
  <2> QED BY <2>1, <2>2, <2>3
<1> HIDE DEF t
<1>4. ASSUME NEW w \in 0..PayloadMax, h = none(w)
      PROVE  h.r # "lost" /\ HostOut(l, P, G, PP, GG, h.l, Kept(h, P), Kept(h, G) \o h.new)
  <2> DEFINE k == [t EXCEPT !.want = w]
  <2>1. /\ Numbered(k, P, G) /\ Base(k, P) = Base(t, P) /\ k.live = t.live
        /\ k.session = t.session /\ k.window = t.window /\ k.promised = t.promised
    BY <1>1, WantFacts
  <2>2. h.r = "nothing" /\ h.l = k /\ h.new = <<>>
    BY <1>4
  <2> HIDE DEF k
  <2>3. HostOut(l, P, G, PP, GG, k, P, G \o <<>>)
    BY <1>1, <2>1, HostKeeps
  <2> QED BY <2>2, <2>3 DEF Kept
<1>5. ASSUME h = HostReceive(t, armed)
      PROVE  \/ HostLost(l, h)
             \/ /\ h.r # "lost"
                /\ HostOut(l, P, G, PP, GG, h.l, Kept(h, P), Kept(h, G) \o h.new)
  <2>1. Between(t, P, G, PP, GG)
    BY <1>1 DEF Between, Leads
  <2>2. \/ /\ h.r = "lost" /\ h.new = <<>> /\ h.l \in Links /\ h.l.promised = t.promised
           /\ t.live /\ ~JoinedTo(t.session)
        \/ /\ h.r \in {"ok", "synced", "ignored"}
           /\ HostOut(t, P, G, PP, GG, h.l, Kept(h, P), Kept(h, G) \o h.new)
    BY <1>1, <1>5, <2>1, HostReceiveFacts
  <2>3. ASSUME NEW k, NEW P2, NEW G2, HostOut(t, P, G, PP, GG, k, P2, G2)
        PROVE  HostOut(l, P, G, PP, GG, k, P2, G2)
    BY <1>1, <2>3 DEF HostOut
  <2>4. CASE /\ h.r = "lost" /\ h.new = <<>> /\ h.l \in Links /\ h.l.promised = t.promised
             /\ t.live /\ ~JoinedTo(t.session)
    BY <1>1, <2>4 DEF HostLost
  <2>5. CASE /\ h.r \in {"ok", "synced", "ignored"}
             /\ HostOut(t, P, G, PP, GG, h.l, Kept(h, P), Kept(h, G) \o h.new)
    BY <2>3, <2>5
  <2> QED BY <2>2, <2>4, <2>5
<1> QED BY <1>3, <1>4, <1>5

(* How the bridge may come out of a transfer: with k, having put P2 and got *)
(* G2, where the host went in with l and sent it f                          *)
BridgeKept(l, P, G, f, PP, GG, lost, k, P2, G2) ==
  /\ Numbered(k, P2, G2) /\ k.live = bridge.live /\ k.session = bridge.session /\ P2 = PP
  /\ JoinedTo(l.session) /\ l.live =>
       /\ Base(k, PP) <= Len(G) /\ Leads(l, P, G2) /\ Len(GG) <= Len(G2)
       /\ k.window = IF lost THEN bridge.window ELSE f.window
  /\ JoinedTo(l.session) /\ ~l.live =>
       G2 = GG /\ Base(k, PP) = Base(bridge, PP) /\ k.window = bridge.window

(* A session starts at the bridge *)
BridgeJoins(l, f, k, P2, G2) ==
  /\ ~l.live /\ ~JoinedTo(l.session) /\ Numbered(k, P2, G2) /\ P2 = <<>> /\ G2 = <<>>
  /\ k.live /\ k.session = l.session /\ k.window = CapacityFor(f.window)

LEMMA BridgeEndFacts ==
  ASSUME NEW l, NEW P, NEW G, NEW PP, NEW GG, Between(l, P, G, PP, GG),
         NEW f, Mirrors(f, l), f.sync = ~l.live,
         NEW clk \in Nat, NEW io \in [lost : BOOLEAN, cut : BOOLEAN, bad : BOOLEAN],
         armed.len \in 0..PayloadMax, NEW br, br = BridgeEnd(f, clk, io),
         NEW P2, P2 = Kept(br, PP), NEW G2, G2 = Kept(br, GG) \o br.new
  PROVE  \/ BridgeKept(l, P, G, f, PP, GG, io.lost, br.l, P2, G2)
         \/ BridgeJoins(l, f, br.l, P2, G2)
<1> DEFINE cut == io.cut \/ armed.len > clk
           t == Tick(bridge, cut)
<1>1. Numbered(l, P, G) /\ Numbered(bridge, PP, GG)
  BY DEF Between
<1>2. br = IF io.lost THEN [r |-> "nothing", l |-> t, new |-> <<>>] ELSE BridgeReceive(t, f)
  BY Zenon DEF BridgeEnd
<1>3. cut \in BOOLEAN
  BY Zenon
<1> HIDE DEF cut
<1>4. t = Tick(bridge, cut)
  OBVIOUS
<1> HIDE DEF t
<1>5. /\ Numbered(t, PP, GG) /\ Base(t, PP) = Base(bridge, PP) /\ t.live = bridge.live
      /\ t.session = bridge.session /\ t.window = bridge.window /\ t.current = 0
  <2>1. Ticked(bridge, PP, GG, t)
    BY <1>1, <1>3, <1>4, TickedFacts
  <2> QED BY <2>1 DEF Ticked
<1>6. /\ Len(G) \in Nat /\ Len(GG) \in Nat /\ GG \o <<>> = GG /\ l \in Links /\ t \in Links
      /\ l.session \in Nat /\ l.live \in BOOLEAN /\ t.live \in BOOLEAN
  BY <1>1, <1>5, NumberedFacts, ConcatEmptySeq
<1>7. f \in Frames /\ f.session = l.session /\ f.window \in Nat /\ (f.sync <=> ~l.live)
  BY DEF Mirrors, Frames
<1>8. (t.live /\ f.session = t.session) <=> JoinedTo(l.session)
  BY <1>5, <1>7 DEF JoinedTo
(* Nothing received, or nothing to receive *)
<1>9. ASSUME br.l = t, br.new = <<>>, br.r \in {"nothing", "ok", "ignored"},
             JoinedTo(l.session) /\ l.live => io.lost
      PROVE  BridgeKept(l, P, G, f, PP, GG, io.lost, br.l, P2, G2)
  <2>1. P2 = PP /\ G2 = GG
    BY <1>6, <1>9 DEF Kept
  <2>2. Numbered(t, PP, GG) /\ t.live = bridge.live /\ t.session = bridge.session
    BY <1>5
  <2>3. ASSUME JoinedTo(l.session), l.live
        PROVE  /\ Base(t, PP) <= Len(G) /\ Leads(l, P, GG) /\ Len(GG) <= Len(GG)
               /\ t.window = IF io.lost THEN bridge.window ELSE f.window
    <3>1. Leads(l, P, GG) /\ Leads(bridge, PP, G)
      BY <2>3 DEF Between
    <3> QED BY <1>5, <1>6, <1>9, <2>3, <3>1 DEF Leads
  <2> QED BY <1>5, <1>9, <2>1, <2>2, <2>3 DEF BridgeKept
<1>10. CASE io.lost
  <2>1. br = [r |-> "nothing", l |-> t, new |-> <<>>]
    BY <1>2, <1>10
  <2>2. br.r = "nothing" /\ br.l = t /\ br.new = <<>>
    BY <2>1
  <2> QED BY <1>9, <1>10, <2>2
<1>11. CASE ~io.lost
  <2>0. br = BridgeReceive(t, f)
    BY <1>2, <1>11
  <2> DEFINE k0 == [Restart(t) EXCEPT !.session = f.session, !.live = TRUE,
                                      !.window = CapacityFor(f.window)]
  <2>1. RepeatedSync(t, f) <=> JoinedTo(l.session)
    BY <1>8 DEF RepeatedSync
  <2>2. /\ f.sync /\ RepeatedSync(t, f) => br = [r |-> "ok", l |-> t, new |-> <<>>]
        /\ f.sync /\ ~RepeatedSync(t, f) => br = [r |-> "synced", new |-> <<>>, l |-> k0]
        /\ ~f.sync /\ ~(t.live /\ f.session = t.session)
             => br = [r |-> "ignored", l |-> t, new |-> <<>>]
        /\ ~f.sync /\ (t.live /\ f.session = t.session)
             => br = [r |-> "ok", l |-> Accept(t, f), new |-> Delivered(t, f)]
    BY <2>0, Zenon DEF BridgeReceive
  <2>3. CASE ~l.live /\ JoinedTo(l.session)
    <3>1. br = [r |-> "ok", l |-> t, new |-> <<>>]
      BY <1>7, <2>1, <2>2, <2>3
    <3>2. br.r = "ok" /\ br.l = t /\ br.new = <<>>
      BY <3>1
    <3> QED BY <1>9, <2>3, <3>2
  <2>4. CASE l.live /\ ~JoinedTo(l.session)
    <3>1. br = [r |-> "ignored", l |-> t, new |-> <<>>]
      BY <1>7, <1>8, <2>2, <2>4
    <3>2. br.r = "ignored" /\ br.l = t /\ br.new = <<>>
      BY <3>1
    <3> QED BY <1>9, <2>4, <3>2
  <2>5. CASE ~l.live /\ ~JoinedTo(l.session)
    <3> DEFINE on == TRUE
               w == CapacityFor(f.window)
    <3>1. k0 = Restarted(t, l.session, on, w)
      BY <1>7, Zenon DEF Restarted
    <3>2. br = [r |-> "synced", new |-> <<>>, l |-> k0]
      BY <1>7, <2>1, <2>2, <2>5
    <3>3. br.r = "synced" /\ br.l = k0 /\ br.new = <<>>
      BY <3>2
    <3>4. on \in BOOLEAN
      BY Zenon
    <3>5. w \in Nat
      BY <1>7, SizeFacts
    <3> HIDE DEF on, w, k0
    <3>6. /\ Numbered(k0, <<>>, <<>>) /\ k0.session = l.session /\ k0.live = on
          /\ k0.window = w
      <4>1. Anew(t, l.session, on, w, k0)
        BY <1>6, <3>1, <3>4, <3>5, RestartedFacts
      <4> QED BY <4>1 DEF Anew
    <3>7. P2 = <<>> /\ G2 = <<>>
      BY <3>3 DEF Kept
    <3> QED BY <2>5, <3>3, <3>6, <3>7 DEF BridgeJoins, on, w
  <2>6. CASE l.live /\ JoinedTo(l.session)
    <3> DEFINE a == Accept(t, f)
               new == Delivered(t, f)
    <3>1. br = [r |-> "ok", l |-> a, new |-> new]
      BY <1>7, <1>8, <2>2, <2>6
    <3>2. br.r = "ok" /\ br.l = a /\ br.new = new
      BY <3>1
    <3>3. Leads(l, P, GG) /\ Leads(bridge, PP, G)
      BY <2>6 DEF Between
    <3>4. Says(f, Base(l, P), P, G)
      BY <1>1, MirrorsSays
    <3>5. t.live
      BY <1>5, <2>6 DEF JoinedTo
    <3>6. MayAccept(t, PP, GG, f, Base(l, P), P, G)
      BY <1>5, <3>3, <3>4, <3>5 DEF Leads, Begins, MayAccept
    <3> HIDE DEF a, new
    <3>7. Accepted(t, PP, GG, f, P, G, a, GG \o new)
      BY <3>6, AcceptFacts DEF a, new
    <3>8. P2 = PP /\ G2 = GG \o new
      BY <3>2 DEF Kept
    <3>9. /\ Numbered(a, PP, G2) /\ Base(a, PP) = Len(G) /\ Begins(G2, P) /\ Len(GG) <= Len(G2)
          /\ a.live = t.live /\ a.session = t.session /\ a.window = f.window
      BY <3>7, <3>8 DEF Accepted
    <3>10. Base(l, P) <= Len(G2)
      <4>1. Base(l, P) \in Nat /\ Len(G2) \in Nat
        BY <1>1, <3>9, NumberedFacts
      <4> QED BY <1>6, <3>3, <3>9, <4>1 DEF Leads
    <3>11. Leads(l, P, G2) /\ Base(a, PP) <= Len(G)
      BY <1>6, <3>9, <3>10 DEF Leads
    <3>12. BridgeKept(l, P, G, f, PP, GG, io.lost, a, P2, G2)
      BY <1>5, <1>11, <2>6, <3>8, <3>9, <3>11 DEF BridgeKept
    <3> QED BY <3>2, <3>12
  <2> QED BY <2>3, <2>4, <2>5, <2>6
<1> QED BY <1>10, <1>11

LEMMA LeadsMore ==
  ASSUME NEW l, NEW P, NEW G, NEW F, P \in Seq(Nat), F \in Seq(Nat), G \in Seq(Nat),
         Leads(l, P, G), NEW k, Base(k, P \o F) = Base(l, P)
  PROVE  Leads(k, P \o F, G)
<1>1. /\ Len(P \o F) = Len(P) + Len(F)
      /\ \A i \in 1..(Len(P) + Len(F)) : (P \o F)[i] = IF i <= Len(P) THEN P[i] ELSE F[i - Len(P)]
  BY ConcatProperties
<1>2. Len(P) \in Nat /\ Len(F) \in Nat /\ Len(G) \in Nat
  BY LenProperties
<1>3. Len(G) <= Len(P) /\ \A i \in 1..Len(G) : G[i] = P[i]
  BY DEF Leads, Begins
<1> DEFINE p == Len(P)
           n == Len(F)
           g == Len(G)
<1>4. p \in Nat /\ n \in Nat /\ g \in Nat /\ g <= p
  BY <1>2, <1>3
<1> HIDE DEF p, n, g
<1>5. g <= p + n /\ \A i \in 1..g : i \in 1..(p + n) /\ i <= p
  BY <1>4
<1>6. \A i \in 1..g : (P \o F)[i] = P[i]
  BY <1>1, <1>5 DEF p, n
<1>7. Begins(G, P \o F)
  BY <1>1, <1>3, <1>5, <1>6 DEF Begins, p, n, g
<1> QED BY <1>7 DEF Leads

LEMMA PayloadFacts ==
  ASSUME serial \in [Ends -> Nat], NEW e \in Ends, NEW l, NEW c \in 0..PayloadMax,
         NEW p \in Payloads(e, l, c)
  PROVE  /\ Fillable(l, p) /\ (p # NoPayload => p.len <= c)
         /\ Count(p) \in Nat /\ Filled(p) \in Seq(Nat)
<1>1. serial[e] + 1 \in Nat
  OBVIOUS
<1>2. CASE p = NoPayload
  <2>1. Fillable(l, p) /\ Filled(p) = <<>> /\ Count(p) = 0
    BY <1>2, FilledFacts DEF Fillable, Count
  <2> QED BY <1>2, <2>1
<1>3. CASE p # NoPayload
  <2>1. MayFill(l) /\ \E n \in 1..c : p = [len |-> n, id |-> serial[e] + 1]
    BY <1>3 DEF Payloads
  <2>2. PICK n \in 1..c : p = [len |-> n, id |-> serial[e] + 1]
    BY <2>1
  <2>3. n \in 1..PayloadMax /\ n <= c
    BY SizesAssumption
  <2>4. p \in NewPayloads /\ p.len = n
    BY <1>1, <2>2, <2>3 DEF NewPayloads
  <2>5. Filled(p) \in Seq(Nat) /\ Count(p) = 1
    <3>1. Filled(p) = <<p.id>> /\ p.id \in Nat
      BY <2>4, FilledFacts
    <3> QED BY <1>3, <3>1 DEF Count
  <2> QED BY <2>1, <2>3, <2>4, <2>5 DEF Fillable
<1> QED BY <1>2, <1>3

(* The host's half and the bridge's half fit together *)
Agree(k, P2, G2, b, PP2, GG2) ==
  b.live /\ b.session = k.session =>
    /\ k.live => Leads(k, P2, GG2) /\ Leads(b, PP2, G2)
    /\ ~k.live => GG2 = <<>> /\ Base(b, PP2) = 0

LEMMA Combined ==
  ASSUME NEW l, NEW P, NEW G, NEW PP, NEW GG, Between(l, P, G, PP, GG), NEW f, NEW lost,
         NEW k, NEW P2, NEW G2, HostOut(l, P, G, PP, GG, k, P2, G2),
         NEW b, NEW PP2, NEW GG2,
         \/ BridgeKept(l, P, G, f, PP, GG, lost, b, PP2, GG2)
         \/ BridgeJoins(l, f, b, PP2, GG2)
  PROVE  Agree(k, P2, G2, b, PP2, GG2)
<1>1. Numbered(k, P2, G2) /\ Numbered(b, PP2, GG2) /\ Numbered(l, P, G) /\ Numbered(bridge, PP, GG)
  BY DEF HostOut, BridgeKept, BridgeJoins, Between
<1>2. /\ Base(k, P2) \in Nat /\ Len(GG) \in Nat /\ Len(GG2) \in Nat /\ Len(G) \in Nat
      /\ Len(G2) \in Nat /\ Base(b, PP2) \in Nat /\ k.session = l.session
  BY <1>1, NumberedFacts DEF HostOut
<1>3. CASE BridgeJoins(l, f, b, PP2, GG2)
  <2>1. ~l.live /\ ~JoinedTo(l.session) /\ PP2 = <<>> /\ GG2 = <<>>
    BY <1>3 DEF BridgeJoins
  <2>2. ~k.live
    BY <2>1 DEF HostOut
  <2>3. Base(b, <<>>) = 0
    <3>1. Len(<<>>) = Base(b, <<>>) + Len(b.out) /\ Len(b.out) \in Nat /\ Base(b, <<>>) \in Nat
      BY <1>1, <2>1, NumberedFacts
    <3>2. Len(<<>>) = 0
      OBVIOUS
    <3> QED BY <3>1, <3>2
  <2> QED BY <2>1, <2>2, <2>3 DEF Agree
<1>4. CASE BridgeKept(l, P, G, f, PP, GG, lost, b, PP2, GG2)
  <2>1. SUFFICES ASSUME b.live, b.session = k.session
                 PROVE  /\ k.live => Leads(k, P2, GG2) /\ Leads(b, PP2, G2)
                        /\ ~k.live => GG2 = <<>> /\ Base(b, PP2) = 0
    BY DEF Agree
  <2>2. JoinedTo(l.session) /\ PP2 = PP
    BY <1>2, <1>4, <2>1 DEF BridgeKept, JoinedTo
  <2>3. CASE ~l.live
    <3>1. GG2 = GG /\ Base(b, PP) = Base(bridge, PP) /\ GG = <<>> /\ Base(bridge, PP) = 0
      BY <1>4, <2>2, <2>3 DEF BridgeKept, Between
    <3>2. k.live => Leads(k, P2, GG) /\ Leads(bridge, PP, G2)
      BY <2>2 DEF HostOut
    <3> QED BY <2>2, <3>1, <3>2 DEF Leads
  <2>4. CASE l.live
    <3>1. Base(b, PP) <= Len(G) /\ Leads(l, P, GG2) /\ Len(GG) <= Len(GG2)
      BY <1>4, <2>2, <2>4 DEF BridgeKept
    <3>2. k.live /\ P2 = P /\ Len(G) <= Len(G2) /\ Leads(k, P2, GG) /\ Leads(bridge, PP, G2)
      BY <2>2, <2>4 DEF HostOut
    <3>3. Begins(GG2, P2) /\ Begins(G2, PP2) /\ Base(k, P2) <= Len(GG)
      BY <2>2, <3>1, <3>2 DEF Leads
    <3>4. Base(b, PP2) <= Len(G2) /\ Base(k, P2) <= Len(GG2)
      BY <1>2, <2>2, <3>1, <3>2, <3>3
    <3> QED BY <3>2, <3>3, <3>4 DEF Leads
  <2> QED BY <2>3, <2>4
<1> QED BY <1>3, <1>4

-----------------------------------------------------------------------------
(* The steps *)

Disturbances == [lost : BOOLEAN, cut : BOOLEAN, bad : BOOLEAN]

(* A transfer whose two halves were h and br, with payloads p and q *)
Exchanged(io, p, h, br, q, hint) ==
  /\ HostTakes(h)
  /\ Arm(br.l, q, hint)
  /\ put' = [host |-> Kept(h, put["host"] \o Filled(p)),
             bridge |-> Kept(br, put["bridge"]) \o Filled(q)]
  /\ got' = [host |-> Kept(h, got["host"]) \o h.new,
             bridge |-> Kept(br, got["bridge"]) \o br.new]
  /\ serial' = [host |-> serial["host"] + Count(p),
                bridge |-> serial["bridge"] + Count(q)]
  /\ missed' = IF ~io.lost THEN 0 ELSE IF missed < 2 THEN missed + 1 ELSE 2

LEMMA HostSyncFacts ==
  ASSUME NEW l \in Links, NEW s \in Nat
  PROVE  Anew(l, s, FALSE, 0, HostSync(l, s))
<1> DEFINE off == FALSE
<1>1. HostSync(l, s) = Restarted(l, s, off, 0) /\ off \in BOOLEAN /\ 0 \in Nat
  BY Zenon DEF HostSync, Restarted
<1> HIDE DEF off
<1>2. Anew(l, s, off, 0, HostSync(l, s))
  BY <1>1, RestartedFacts
<1> QED BY <1>2 DEF off

LEMMA ClockedFacts ==
  ASSUME NEW l \in Links, NEW n \in 0..PayloadMax
  PROVE  Clocked(l, n) \in Nat
<1>1. l.need \in 0..PayloadMax /\ l.want \in 0..PayloadMax
  BY LinkFacts
<1> QED BY <1>1, SizesAssumption DEF Clocked

(* Two-field records and functions on the two ends *)
LEMMA EndsFacts ==
  ASSUME NEW S, NEW x \in S, NEW y \in S
  PROVE  /\ [host |-> x, bridge |-> y] \in [Ends -> S]
         /\ [host |-> x, bridge |-> y]["host"] = x /\ [host |-> x, bridge |-> y]["bridge"] = y
BY DEF Ends

(* Both ends as the transfer finds them once the host has built its frame *)
LEMMA HostBuilt ==
  ASSUME IndInv, NEW p, Fillable(host, p), Filled(p) \in Seq(Nat)
  PROVE  LET l == BuildHost(host, p).l
             f == BuildHost(host, p).frame
         IN /\ Between(l, put["host"] \o Filled(p), got["host"], put["bridge"], got["bridge"])
            /\ l.live = host.live /\ l.session = host.session /\ l.window = host.window
            /\ l.promised = <<CapacityFor(host.window), host.promised[1]>>
            /\ l.need = Need(host.promised)
            /\ Mirrors(f, l) /\ f.sync = ~l.live /\ f.window = CapacityFor(host.window)
<1> DEFINE b == BuildHost(host, p)
           P == put["host"]
           G == got["host"]
           PP == put["bridge"]
           GG == got["bridge"]
<1>1. Between(host, P, G, PP, GG)
  BY DEF IndInv, EndsInv
<1>2. Numbered(host, P, G) /\ Numbered(bridge, PP, GG)
  BY <1>1 DEF Between
<1> HIDE DEF b, P, G, PP, GG
<1>3. /\ Numbered(b.l, P \o Filled(p), G) /\ Base(b.l, P \o Filled(p)) = Base(host, P)
      /\ b.l.live = host.live /\ b.l.session = host.session /\ b.l.window = host.window
      /\ b.l.promised = <<CapacityFor(host.window), host.promised[1]>>
      /\ b.l.need = Need(host.promised)
      /\ Mirrors(b.frame, b.l) /\ b.frame.sync = ~host.live
      /\ b.frame.window = CapacityFor(host.window)
      /\ (p # NoPayload => host.live)
  BY <1>2, BuildHostFacts DEF b
<1>4. P \in Seq(Nat) /\ GG \in Seq(Nat)
  BY <1>2, NumberedFacts
<1>5. JoinedTo(b.l.session) /\ b.l.live =>
        Leads(b.l, P \o Filled(p), GG) /\ Leads(bridge, PP, G)
  <2>1. SUFFICES ASSUME JoinedTo(host.session), host.live
                 PROVE  Leads(b.l, P \o Filled(p), GG) /\ Leads(bridge, PP, G)
    BY <1>3
  <2>2. Leads(host, P, GG) /\ Leads(bridge, PP, G)
    BY <1>1, <2>1 DEF Between
  <2> QED BY <1>3, <1>4, <2>2, LeadsMore
<1>6. JoinedTo(b.l.session) /\ ~b.l.live => GG = <<>> /\ Base(bridge, PP) = 0
  BY <1>1, <1>3 DEF Between
<1>7. Between(b.l, P \o Filled(p), G, PP, GG)
  BY <1>2, <1>3, <1>5, <1>6 DEF Between
<1> QED BY <1>3, <1>7 DEF b, P, G, PP, GG

(* The bridge's half up to the next frame: what it arms and what it keeps *)
LEMMA BridgeArms ==
  ASSUME NEW k, NEW P, NEW G, Numbered(k, P, G), NEW q, Fillable(k, q), NEW hint \in Hints,
         q # NoPayload => q.len <= CapacityFor(k.window), Arm(k, q, hint)
  PROVE  /\ Numbered(bridge', P \o Filled(q), G)
         /\ Base(bridge', P \o Filled(q)) = Base(k, P)
         /\ bridge'.live = k.live /\ bridge'.session = k.session /\ bridge'.window = k.window
         /\ ArmedInv'
<1> DEFINE b == BuildBridge(k, q, hint)
<1>1. bridge' = b.l /\ armed' = b.frame
  BY DEF Arm
<1>2. hint \in Nat
  BY HintsAssumption
<1> HIDE DEF b
<1>3. /\ Numbered(b.l, P \o Filled(q), G) /\ Base(b.l, P \o Filled(q)) = Base(k, P)
      /\ b.l.live = k.live /\ b.l.session = k.session /\ b.l.window = k.window
      /\ Mirrors(b.frame, b.l) /\ b.frame.nosession = ~k.live
      /\ (b.frame.first => k.live /\ b.frame.len = q.len /\ q # NoPayload)
  BY <1>2, BuildBridgeFacts DEF b
<1>4. Mirrors(armed', bridge') /\ armed'.nosession = ~bridge'.live
  BY <1>1, <1>3
<1>5. armed'.first => bridge'.live /\ armed'.len <= CapacityFor(bridge'.window)
  BY <1>1, <1>3
<1> QED BY <1>1, <1>3, <1>4, <1>5 DEF ArmedInv

(* What the parts about both ends need of a step *)
LEMMA TogetherAgain ==
  ASSUME NEW P, NEW G, NEW PP, NEW GG,
         put'["host"] = P, got'["host"] = G, put'["bridge"] = PP, got'["bridge"] = GG,
         Numbered(host', P, G), Numbered(bridge', PP, GG),
         bridge'.live /\ bridge'.session = host'.session /\ host'.live =>
           Leads(host', P, GG) /\ Leads(bridge', PP, G),
         bridge'.live /\ bridge'.session = host'.session /\ ~host'.live =>
           GG = <<>> /\ Base(bridge', PP) = 0
  PROVE  EndsInv'
<1>1. Between(host, P, G, PP, GG)'
  BY DEF Between, JoinedTo
<1> QED BY <1>1 DEF EndsInv

LEMMA TransferStep ==
  ASSUME IndInv, NEW io \in Disturbances, NEW p \in Payloads("host", host, PayloadMax),
         NEW l, l = BuildHost(host, p).l, NEW f, f = BuildHost(host, p).frame,
         NEW clk, clk = Clocked(l, f.len), NEW h \in HostEnd(l, clk, io.bad),
         NEW br, br = BridgeEnd(f, clk, io),
         NEW q \in Payloads("bridge", br.l, CapacityFor(br.l.window)), NEW hint \in Hints,
         Exchanged(io, p, h, br, q, hint), faults' \in 0..MaxFaults
  PROVE  IndInv'
<1> DEFINE P == put["host"] \o Filled(p)
           G == got["host"]
           PP == put["bridge"]
           GG == got["bridge"]
           P2 == Kept(h, P)
           G2 == Kept(h, G) \o h.new
           PP1 == Kept(br, PP)
           PP2 == PP1 \o Filled(q)
           GG2 == Kept(br, GG) \o br.new
<1>1. /\ sessions \in Nat /\ serial \in [Ends -> Nat] /\ missed \in 0..2
      /\ host.session = sessions /\ bridge.session <= sessions
      /\ (~host.live => host.window = 0)
      /\ Mirrors(armed, bridge) /\ armed.nosession = ~bridge.live
  BY DEF IndInv, SessionInv, ArmedInv
<1>2. Fillable(host, p) /\ Filled(p) \in Seq(Nat) /\ Count(p) \in Nat
  <2>1. "host" \in Ends /\ PayloadMax \in 0..PayloadMax
    BY SizesAssumption DEF Ends
  <2> QED BY <1>1, <2>1, PayloadFacts
<1>3. /\ Between(l, P, G, PP, GG)
      /\ l.live = host.live /\ l.session = host.session /\ l.window = host.window
      /\ l.promised = <<CapacityFor(host.window), host.promised[1]>>
      /\ Mirrors(f, l) /\ f.sync = ~l.live /\ f.window = CapacityFor(host.window)
  BY <1>2, HostBuilt
<1>4. clk \in Nat
  <2>1. l \in Links /\ f.len \in 0..PayloadMax
    BY <1>3, SMTT(30) DEF Between, Numbered, Mirrors, Frames
  <2> QED BY <2>1, ClockedFacts
<1>5. /\ put'["host"] = P2 /\ put'["bridge"] = PP2 /\ got'["host"] = G2 /\ got'["bridge"] = GG2
  BY DEF Exchanged
<1>6. /\ put' = [host |-> P2, bridge |-> PP2] /\ got' = [host |-> G2, bridge |-> GG2]
  BY DEF Exchanged
<1> HIDE DEF P, G, PP, GG, P2, G2, PP1, PP2, GG2
<1>7. \/ HostLost(l, h)
      \/ h.r # "lost" /\ HostOut(l, P, G, PP, GG, h.l, P2, G2)
  <2>1. io.bad \in BOOLEAN
    BY DEF Disturbances
  <2> QED BY <1>1, <1>3, <1>4, <2>1, HostEndFacts DEF P2, G2
<1>8. \/ BridgeKept(l, P, G, f, PP, GG, io.lost, br.l, PP1, GG2)
      \/ BridgeJoins(l, f, br.l, PP1, GG2)
  <2>1. armed.len \in 0..PayloadMax /\ io \in [lost : BOOLEAN, cut : BOOLEAN, bad : BOOLEAN]
    BY <1>1 DEF Mirrors, Frames, Disturbances
  <2> QED BY <1>3, <1>4, <2>1, BridgeEndFacts DEF PP1, GG2
<1>9. Numbered(br.l, PP1, GG2)
  BY <1>8 DEF BridgeKept, BridgeJoins
<1>10. /\ br.l.window \in Nat /\ CapacityFor(br.l.window) \in Poll..PayloadMax
       /\ CapacityFor(br.l.window) \in 0..PayloadMax /\ PP1 \in Seq(Nat)
  <2>1. br.l.window \in Nat /\ PP1 \in Seq(Nat)
    BY <1>9, NumberedFacts
  <2>2. CapacityFor(br.l.window) \in Poll..PayloadMax
    BY <2>1, SizeFacts
  <2> QED BY <2>1, <2>2, SizesAssumption
<1>11. /\ Fillable(br.l, q) /\ (q # NoPayload => q.len <= CapacityFor(br.l.window))
       /\ Filled(q) \in Seq(Nat) /\ Count(q) \in Nat
  <2>1. "bridge" \in Ends
    BY DEF Ends
  <2> QED BY <1>1, <1>10, <2>1, PayloadFacts
<1>12. /\ Numbered(bridge', PP2, GG2) /\ Base(bridge', PP2) = Base(br.l, PP1)
       /\ bridge'.live = br.l.live /\ bridge'.session = br.l.session
       /\ bridge'.window = br.l.window /\ ArmedInv'
  <2>1. Arm(br.l, q, hint)
    BY DEF Exchanged
  <2> QED BY <1>9, <1>11, <2>1, BridgeArms DEF PP2
<1>13. Numbered(host', P2, G2) /\ host'.promised = l.promised /\ (~host'.live => host'.window = 0)
       /\ host'.session = sessions' /\ sessions' \in Nat /\ br.l.session <= sessions'
       /\ (h.r = "lost" => br.l.session # host'.session)
       /\ (h.r # "lost" => host' = h.l)
  <2>1. br.l.session \in Nat /\ br.l.session <= sessions
    <3>1. br.l.session \in {bridge.session, l.session}
      BY <1>8 DEF BridgeKept, BridgeJoins
    <3>2. br.l.session \in Nat
      BY <1>9, NumberedFacts
    <3> QED BY <1>1, <1>3, <3>1, <3>2
  <2>2. CASE HostLost(l, h)
    <3>1. h.r = "lost" /\ h.new = <<>> /\ h.l \in Links /\ h.l.promised = l.promised
      BY <2>2 DEF HostLost
    <3>2. host' = HostSync(h.l, sessions + 1) /\ sessions' = sessions + 1
      BY <3>1 DEF Exchanged, HostTakes
    <3>3. sessions + 1 \in Nat
      BY <1>1
    <3>4. Anew(h.l, sessions + 1, FALSE, 0, host')
      BY <3>1, <3>2, <3>3, HostSyncFacts
    <3>5. /\ Numbered(host', <<>>, <<>>) /\ host'.session = sessions + 1
          /\ host'.window = 0 /\ host'.promised = h.l.promised
      BY <3>4 DEF Anew
    <3>6. P2 = <<>> /\ G2 = <<>>
      BY <3>1 DEF P2, G2, Kept
    <3>7. br.l.session <= sessions + 1 /\ br.l.session # sessions + 1
      BY <1>1, <2>1
    <3> QED BY <3>1, <3>2, <3>3, <3>5, <3>6, <3>7
  <2>3. CASE h.r # "lost" /\ HostOut(l, P, G, PP, GG, h.l, P2, G2)
    <3>1. host' = h.l /\ sessions' = sessions
      BY <2>3 DEF Exchanged, HostTakes
    <3> QED BY <1>1, <1>3, <2>1, <2>3, <3>1 DEF HostOut
  <2> QED BY <1>7, <2>2, <2>3
<1>14. SessionInv'
  BY <1>12, <1>13 DEF SessionInv
(* Joined after the step: what the bridge's capacity is *)
<1>15. ASSUME bridge'.live, bridge'.session = host'.session
       PROVE  /\ h.r # "lost" /\ HostOut(l, P, G, PP, GG, h.l, P2, G2) /\ host' = h.l
              /\ \/ BridgeJoins(l, f, br.l, PP1, GG2)
                 \/ JoinedTo(l.session) /\ BridgeKept(l, P, G, f, PP, GG, io.lost, br.l, PP1, GG2)
  <2>1. h.r # "lost"
    BY <1>12, <1>13, <1>15
  <2>2. HostOut(l, P, G, PP, GG, h.l, P2, G2)
    BY <1>7, <2>1 DEF HostLost
  <2>3. BridgeKept(l, P, G, f, PP, GG, io.lost, br.l, PP1, GG2) => JoinedTo(l.session)
    BY <1>12, <1>13, <1>15, <2>1, <2>2, ZenonT(30) DEF BridgeKept, JoinedTo, HostOut
  <2> QED BY <1>8, <1>13, <2>1, <2>2, <2>3
<1>16. EndsInv'
  <2>1. ASSUME bridge'.live, bridge'.session = host'.session
        PROVE  /\ host'.live => Leads(host', P2, GG2) /\ Leads(bridge', PP2, G2)
               /\ ~host'.live => GG2 = <<>> /\ Base(bridge', PP2) = 0
    <3>1. HostOut(l, P, G, PP, GG, h.l, P2, G2) /\ host' = h.l
      BY <1>15, <2>1
    <3>3. br.l.live /\ br.l.session = h.l.session
      BY <1>12, <2>1, <3>1
    <3>4. /\ (h.l.live => Leads(h.l, P2, GG2) /\ Leads(br.l, PP1, G2))
          /\ (~h.l.live => GG2 = <<>> /\ Base(br.l, PP1) = 0)
      <4>1. Agree(h.l, P2, G2, br.l, PP1, GG2)
        BY <1>3, <1>8, <3>1, Combined
      <4> QED BY <3>3, <4>1 DEF Agree
    <3>5. ASSUME Leads(br.l, PP1, G2)
          PROVE  Leads(bridge', PP2, G2)
      <4>1. G2 \in Seq(Nat)
        BY <1>13, NumberedFacts
      <4> QED BY <1>10, <1>11, <1>12, <3>5, <4>1, LeadsMore DEF PP2
    <3> QED BY <1>12, <3>1, <3>4, <3>5
  <2> QED BY <1>5, <1>12, <1>13, <2>1, TogetherAgain
<1>17. JoiningInv' /\ FitInv'
  <2>1. SUFFICES ASSUME bridge'.live, bridge'.session = host'.session
                 PROVE  LET c == CapacityFor(bridge'.window) IN
                          /\ ~host'.live => c = Poll
                          /\ \/ c = Poll
                             \/ missed' = 0 /\ c <= host'.promised[1]
                             \/ missed' = 1 /\ c <= host'.promised[2]
                             \/ missed' = 2
    BY DEF JoiningInv, FitInv, Joined, JoinedTo
  <2>2. HostOut(l, P, G, PP, GG, h.l, P2, G2) /\ host' = h.l
    BY <1>15, <2>1
  <2>3. CASE l.live
    <3>1. host'.live
      BY <2>2, <2>3 DEF HostOut
    <3>2. /\ JoinedTo(l.session)
          /\ br.l.window = IF io.lost THEN bridge.window ELSE f.window
      BY <1>15, <2>1, <2>3 DEF BridgeKept, BridgeJoins
    <3>3. /\ host'.promised[1] = CapacityFor(host.window)
          /\ host'.promised[2] = host.promised[1]
      BY <1>3, <1>13
    <3>4. CASE ~io.lost
      <4>1. bridge'.window = CapacityFor(host.window) /\ missed' = 0
        BY <1>3, <1>12, <3>2, <3>4 DEF Exchanged
      <4>2. CapacityFor(host.window) \in Poll..PayloadMax
        <5>1. host.window \in Nat
          BY NumberedFacts DEF IndInv, EndsInv, Between
        <5> QED BY <5>1, SizeFacts
      <4>3. CapacityFor(bridge'.window) = CapacityFor(host.window)
        BY <4>1, <4>2, SizeFacts
      <4>4. CapacityFor(host.window) <= CapacityFor(host.window)
        BY <4>2, SizesAssumption
      <4> QED BY <3>1, <3>3, <4>1, <4>3, <4>4, SMTT(30)
    <3>5. CASE io.lost
      <4>1. bridge'.window = bridge.window /\ missed' = IF missed < 2 THEN missed + 1 ELSE 2
        BY <1>12, <3>2, <3>5 DEF Exchanged
      <4>2. LET c == CapacityFor(bridge.window) IN
              \/ c = Poll
              \/ missed = 0 /\ c <= host.promised[1]
              \/ missed = 1 /\ c <= host.promised[2]
              \/ missed = 2
        BY <1>3, <3>2 DEF IndInv, FitInv, Joined
      <4>3. /\ missed = 0 => missed' = 1
            /\ missed \in {1, 2} => missed' = 2
        BY <4>1
      <4> QED BY <3>1, <3>3, <4>1, <4>2, <4>3
    <3> QED BY <3>4, <3>5
  <2>4. CASE ~l.live
    <3>1. CASE BridgeJoins(l, f, br.l, PP1, GG2)
      <4>1. host.window = 0 /\ CapacityFor(0) = Poll
        BY <1>1, <1>3, <2>4, SizeFacts
      <4>2. CapacityFor(Poll) = Poll
        BY SizeFacts
      <4>3. bridge'.window = Poll
        BY <1>3, <1>12, <3>1, <4>1, <4>2 DEF BridgeJoins
      <4> QED BY <4>2, <4>3
    <3>2. CASE JoinedTo(l.session) /\ BridgeKept(l, P, G, f, PP, GG, io.lost, br.l, PP1, GG2)
      <4>1. bridge'.window = bridge.window
        BY <1>12, <2>4, <3>2 DEF BridgeKept
      <4>2. CapacityFor(bridge.window) = Poll
        BY <1>3, <2>4, <3>2 DEF IndInv, JoiningInv, Joined
      <4> QED BY <4>1, <4>2
    <3> QED BY <1>15, <2>1, <3>1, <3>2
  <2> QED BY <2>3, <2>4
<1>18. /\ put' \in [Ends -> Seq(Nat)] /\ got' \in [Ends -> Seq(Nat)]
       /\ serial' \in [Ends -> Nat] /\ missed' \in 0..2
  <2>1. P2 \in Seq(Nat) /\ G2 \in Seq(Nat) /\ PP2 \in Seq(Nat) /\ GG2 \in Seq(Nat)
    BY <1>12, <1>13, NumberedFacts
  <2>2. put' \in [Ends -> Seq(Nat)] /\ got' \in [Ends -> Seq(Nat)]
    BY <1>6, <2>1, EndsFacts
  <2>3. serial' \in [Ends -> Nat]
    <3>1. serial["host"] \in Nat /\ serial["bridge"] \in Nat
      BY <1>1 DEF Ends
    <3>2. serial["host"] + Count(p) \in Nat /\ serial["bridge"] + Count(q) \in Nat
      BY <1>2, <1>11, <3>1
    <3>3. serial' = [host |-> serial["host"] + Count(p), bridge |-> serial["bridge"] + Count(q)]
      BY DEF Exchanged
    <3> QED BY <3>2, <3>3, EndsFacts
  <2>4. missed' \in 0..2
    BY <1>1 DEF Exchanged
  <2> QED BY <2>2, <2>3, <2>4
<1> QED BY <1>12, <1>13, <1>14, <1>16, <1>17, <1>18 DEF IndInv

LEMMA AnyTransfer ==
  ASSUME IndInv, NEW io \in Disturbances, Transfer(io), faults' \in 0..MaxFaults
  PROVE  IndInv'
<1>1. PICK p \in Payloads("host", host, PayloadMax) :
        \E built \in {BuildHost(host, p)} :
        \E clk \in {Clocked(built.l, built.frame.len)} :
        \E h \in HostEnd(built.l, clk, io.bad), br \in {BridgeEnd(built.frame, clk, io)} :
        \E q \in Payloads("bridge", br.l, CapacityFor(br.l.window)), hint \in Hints :
          Exchanged(io, p, h, br, q, hint)
  BY Zenon DEF Transfer, Exchanged
<1> DEFINE l == BuildHost(host, p).l
           f == BuildHost(host, p).frame
           clk == Clocked(l, f.len)
           br == BridgeEnd(f, clk, io)
<1>2. PICK h \in HostEnd(l, clk, io.bad) :
        \E q \in Payloads("bridge", br.l, CapacityFor(br.l.window)), hint \in Hints :
          Exchanged(io, p, h, br, q, hint)
  BY <1>1, Zenon
<1>3. PICK q \in Payloads("bridge", br.l, CapacityFor(br.l.window)), hint \in Hints :
        Exchanged(io, p, h, br, q, hint)
  BY <1>2, Zenon
<1> HIDE DEF l, f, clk, br
<1>4. /\ l = BuildHost(host, p).l /\ f = BuildHost(host, p).frame
      /\ clk = Clocked(l, f.len) /\ br = BridgeEnd(f, clk, io)
  BY DEF l, f, clk, br
<1> QED BY <1>3, <1>4, TransferStep

LEMMA FreshFacts ==
  ASSUME NEW w \in Nat
  PROVE  Fresh(w) \in Links
<1>1. /\ 0 \in Numbers /\ <<>> \in Seq(Entries) /\ 0 \in 0..PayloadMax /\ 0 \in 0..Window
      /\ Poll \in 0..PayloadMax
  BY SeqCountAssumption, SizesAssumption DEF Numbers, Window
<1>2. <<Poll, Poll>> \in (Poll..PayloadMax) \X (Poll..PayloadMax)
  BY SizesAssumption
<1>3. 0 \in Nat /\ FALSE \in BOOLEAN
  OBVIOUS
<1> QED BY <1>1, <1>2, <1>3, Zenon DEF Fresh, Links

LEMMA BridgeResetFacts ==
  ASSUME NEW k, k = BridgeReset(Fresh(Poll))
  PROVE  /\ Numbered(k, <<>>, <<>>) /\ Base(k, <<>>) = 0 /\ k.session = 0 /\ ~k.live
         /\ k.current = 0
<1> DEFINE off == FALSE
<1>1. Fresh(Poll) \in Links /\ Poll \in Nat
  BY FreshFacts, SizesAssumption
<1>2. k = Restarted(Fresh(Poll), 0, off, Poll) /\ off \in BOOLEAN /\ 0 \in Nat
  BY Zenon DEF BridgeReset, Restarted
<1> HIDE DEF off
<1>3. Anew(Fresh(Poll), 0, off, Poll, k)
  BY <1>1, <1>2, RestartedFacts
<1> QED BY <1>3 DEF Anew, off

(* Faults are counted up to their bound *)
LEMMA FaultFacts ==
  ASSUME faults \in 0..MaxFaults, Fault
  PROVE  faults' \in 0..MaxFaults
BY KwBoundsAssumption DEF Fault

LEMMA BusFailStep ==
  ASSUME IndInv, BusFail
  PROVE  IndInv'
<1> DEFINE P0 == put["host"]
           G == got["host"]
           PP == put["bridge"]
           GG == got["bridge"]
<1>1. PICK p \in Payloads("host", host, PayloadMax) :
        /\ host' = Tick(BuildHost(host, p).l, FALSE)
        /\ put' = [put EXCEPT !["host"] = @ \o Filled(p)]
        /\ serial' = [serial EXCEPT !["host"] = @ + Count(p)]
  BY DEF BusFail
<1>2. /\ sessions \in Nat /\ serial \in [Ends -> Nat] /\ missed \in 0..2
      /\ put \in [Ends -> Seq(Nat)] /\ got \in [Ends -> Seq(Nat)] /\ faults \in 0..MaxFaults
      /\ host.session = sessions /\ bridge.session <= sessions
      /\ (~host.live => host.window = 0)
  BY DEF IndInv, SessionInv
<1>3. Fillable(host, p) /\ Filled(p) \in Seq(Nat) /\ Count(p) \in Nat
  <2>1. "host" \in Ends /\ PayloadMax \in 0..PayloadMax
    BY SizesAssumption DEF Ends
  <2> QED BY <1>2, <2>1, PayloadFacts
<1> DEFINE l == BuildHost(host, p).l
           P == P0 \o Filled(p)
<1>4. /\ Between(l, P, G, PP, GG)
      /\ l.live = host.live /\ l.session = host.session /\ l.window = host.window
      /\ l.promised = <<CapacityFor(host.window), host.promised[1]>>
  BY <1>3, HostBuilt
<1>5. /\ put'["host"] = P /\ put'["bridge"] = PP /\ got'["host"] = G /\ got'["bridge"] = GG
      /\ bridge' = bridge /\ armed' = armed /\ sessions' = sessions /\ got' = got
      /\ missed' = IF missed < 2 THEN missed + 1 ELSE 2
  BY <1>1, <1>2 DEF BusFail, Ends
<1>6. host' = Tick(l, FALSE)
  BY <1>1
<1> HIDE DEF P0, G, PP, GG, l, P
<1>7. /\ Numbered(host', P, G) /\ Base(host', P) = Base(l, P) /\ host'.live = host.live
      /\ host'.session = host.session /\ host'.window = host.window
      /\ host'.promised = l.promised
  <2> DEFINE cut == FALSE
  <2>1. cut \in BOOLEAN /\ host' = Tick(l, cut) /\ Numbered(l, P, G)
    BY <1>4, <1>6, Zenon DEF Between
  <2> HIDE DEF cut
  <2>2. Ticked(l, P, G, host')
    BY <2>1, TickedFacts
  <2> QED BY <1>4, <2>2 DEF Ticked
<1>8. EndsInv'
  <2>1. Numbered(bridge', PP, GG)
    BY <1>4, <1>5 DEF Between
  <2>2. bridge'.live /\ bridge'.session = host'.session /\ host'.live =>
           Leads(host', P, GG) /\ Leads(bridge', PP, G)
    BY <1>4, <1>5, <1>7 DEF Between, Leads, JoinedTo
  <2>3. bridge'.live /\ bridge'.session = host'.session /\ ~host'.live =>
           GG = <<>> /\ Base(bridge', PP) = 0
    BY <1>4, <1>5, <1>7 DEF Between, JoinedTo
  <2> QED BY <1>5, <1>7, <2>1, <2>2, <2>3, TogetherAgain
<1>9. SessionInv'
  BY <1>2, <1>5, <1>7 DEF SessionInv
<1>10. ArmedInv'
  BY <1>5 DEF IndInv, ArmedInv, Mirrors
<1>11. JoiningInv'
  BY <1>5, <1>7 DEF IndInv, JoiningInv, Joined, JoinedTo
<1>12. FitInv'
  <2>1. SUFFICES ASSUME Joined
                 PROVE  LET c == CapacityFor(bridge.window) IN
                             \/ c = Poll
                             \/ missed' = 0 /\ c <= host'.promised[1]
                             \/ missed' = 1 /\ c <= host'.promised[2]
                             \/ missed' = 2
    BY <1>5, <1>7 DEF FitInv, Joined, JoinedTo
  <2>2. host'.promised[2] = host.promised[1]
    BY <1>4, <1>7
  <2>3. LET c == CapacityFor(bridge.window) IN
              \/ c = Poll
              \/ missed = 0 /\ c <= host.promised[1]
              \/ missed = 1 /\ c <= host.promised[2]
              \/ missed = 2
    BY <2>1 DEF IndInv, FitInv
  <2>4. /\ missed = 0 => missed' = 1
        /\ missed \in {1, 2} => missed' = 2
    BY <1>5
  <2> QED BY <2>2, <2>3, <2>4
<1>13. /\ put' \in [Ends -> Seq(Nat)] /\ got' \in [Ends -> Seq(Nat)]
       /\ serial' \in [Ends -> Nat] /\ missed' \in 0..2 /\ sessions' \in Nat
  <2>1. P \in Seq(Nat)
    BY <1>7, NumberedFacts
  <2>2. put' \in [Ends -> Seq(Nat)]
    BY <1>1, <1>2, <2>1 DEF P, P0
  <2>3. serial' \in [Ends -> Nat]
    <3>1. serial["host"] + Count(p) \in Nat
      <4>1. serial["host"] \in Nat
        BY <1>2 DEF Ends
      <4> QED BY <1>3, <4>1
    <3> QED BY <1>1, <1>2, <3>1
  <2>4. missed' \in 0..2
    BY <1>2, <1>5
  <2> QED BY <1>2, <1>5, <2>2, <2>3, <2>4
<1>14. faults' \in 0..MaxFaults
  BY <1>2, FaultFacts DEF BusFail
<1> QED BY <1>8, <1>9, <1>10, <1>11, <1>12, <1>13, <1>14 DEF IndInv

LEMMA HostStartStep ==
  ASSUME IndInv, HostStart
  PROVE  IndInv'
<1> DEFINE PP == put["bridge"]
           GG == got["bridge"]
<1>1. /\ sessions \in Nat /\ serial \in [Ends -> Nat] /\ missed \in 0..2
      /\ put \in [Ends -> Seq(Nat)] /\ got \in [Ends -> Seq(Nat)] /\ faults \in 0..MaxFaults
      /\ bridge.session <= sessions
  BY DEF IndInv, SessionInv
<1>2. /\ put' = [put EXCEPT !["host"] = <<>>] /\ got' = [got EXCEPT !["host"] = <<>>]
      /\ host' = HostSync(Fresh(0), sessions + 1) /\ sessions' = sessions + 1
      /\ bridge' = bridge /\ armed' = armed /\ serial' = serial /\ missed' = missed
  BY DEF HostStart
<1>3. /\ put'["host"] = <<>> /\ put'["bridge"] = PP /\ got'["host"] = <<>>
      /\ got'["bridge"] = GG /\ put' \in [Ends -> Seq(Nat)] /\ got' \in [Ends -> Seq(Nat)]
  BY <1>1, <1>2 DEF Ends
<1> HIDE DEF PP, GG
<1>4. Numbered(host', <<>>, <<>>) /\ host'.session = sessions + 1 /\ host'.window = 0
  <2>1. Fresh(0) \in Links /\ sessions + 1 \in Nat
    BY <1>1, FreshFacts
  <2>2. Anew(Fresh(0), sessions + 1, FALSE, 0, host')
    BY <1>2, <2>1, HostSyncFacts
  <2> QED BY <2>2 DEF Anew
<1>5. Numbered(bridge', PP, GG)
  BY <1>2 DEF IndInv, EndsInv, Between, PP, GG
<1>6. bridge'.session \in Nat
  BY <1>5, NumberedFacts
<1>7. bridge'.session # host'.session /\ bridge'.session <= sessions' /\ sessions' \in Nat
  BY <1>1, <1>2, <1>4, <1>6
<1>8. EndsInv'
  BY <1>3, <1>4, <1>5, <1>7, TogetherAgain
<1>9. SessionInv'
  BY <1>2, <1>4, <1>7 DEF SessionInv
<1>10. ArmedInv'
  BY <1>2 DEF IndInv, ArmedInv, Mirrors
<1>11. JoiningInv' /\ FitInv'
  BY <1>7 DEF JoiningInv, FitInv, Joined, JoinedTo
<1>12. faults' \in 0..MaxFaults
  BY <1>1, FaultFacts DEF HostStart
<1> QED BY <1>1, <1>2, <1>3, <1>7, <1>8, <1>9, <1>10, <1>11, <1>12 DEF IndInv

LEMMA BridgeRebootStep ==
  ASSUME IndInv, BridgeReboot
  PROVE  IndInv'
<1> DEFINE P == put["host"]
           G == got["host"]
           k == BridgeReset(Fresh(Poll))
<1>1. /\ sessions \in Nat /\ serial \in [Ends -> Nat] /\ missed \in 0..2
      /\ put \in [Ends -> Seq(Nat)] /\ got \in [Ends -> Seq(Nat)] /\ faults \in 0..MaxFaults
      /\ host.session = sessions /\ (~host.live => host.window = 0)
  BY DEF IndInv, SessionInv
<1>2. /\ put' = [put EXCEPT !["bridge"] = <<>>] /\ got' = [got EXCEPT !["bridge"] = <<>>]
      /\ host' = host /\ sessions' = sessions /\ serial' = serial /\ missed' = missed
  BY DEF BridgeReboot
<1>3. /\ put'["host"] = P /\ put'["bridge"] = <<>> /\ got'["host"] = G
      /\ got'["bridge"] = <<>> /\ put' \in [Ends -> Seq(Nat)] /\ got' \in [Ends -> Seq(Nat)]
  BY <1>1, <1>2 DEF Ends
<1>4. PICK hint \in Hints : Arm(k, NoPayload, hint)
  BY DEF BridgeReboot
<1> HIDE DEF P, G
<1>5. /\ Numbered(k, <<>>, <<>>) /\ k.session = 0 /\ ~k.live
  BY BridgeResetFacts
<1> HIDE DEF k
<1>6. Fillable(k, NoPayload) /\ <<>> \o Filled(NoPayload) = <<>>
  BY FilledFacts DEF Fillable
<1>7. /\ Numbered(bridge', <<>> \o Filled(NoPayload), <<>>)
      /\ bridge'.live = k.live /\ bridge'.session = k.session /\ ArmedInv'
  BY <1>4, <1>5, <1>6, BridgeArms
<1>8. Numbered(bridge', <<>>, <<>>) /\ ~bridge'.live /\ bridge'.session = 0
  BY <1>5, <1>6, <1>7
<1>9. Numbered(host', P, G)
  BY <1>2 DEF IndInv, EndsInv, Between, P, G
<1>10. EndsInv'
  BY <1>3, <1>8, <1>9, TogetherAgain
<1>11. SessionInv' /\ JoiningInv' /\ FitInv'
  BY <1>1, <1>2, <1>8 DEF SessionInv, JoiningInv, FitInv, Joined, JoinedTo
<1>12. faults' \in 0..MaxFaults
  BY <1>1, FaultFacts DEF BridgeReboot
<1> QED BY <1>1, <1>2, <1>3, <1>7, <1>10, <1>11, <1>12 DEF IndInv

(* A frame of an idle bridge changes nothing in it *)
LEMMA IdleBuild ==
  ASSUME NEW l \in Links, ~l.live, l.current = 0, NEW hint
  PROVE  BuildBridge(l, NoPayload, hint).l = l
<1>1. Choice(l, NoPayload) = [at |-> 0, out |-> l.out]
  BY DEF Choice
<1>2. BuildBridge(l, NoPayload, hint).l = After(l, [at |-> 0, out |-> l.out], NoPayload)
  BY <1>1 DEF BuildBridge
<1>3. After(l, [at |-> 0, out |-> l.out], NoPayload)
        = [l EXCEPT !.out = l.out, !.current = 0, !.next = l.next]
  BY DEF After, Marked
<1>4. [l EXCEPT !.out = l.out, !.current = 0, !.next = l.next] = l
  BY DEF Links
<1> QED BY <1>2, <1>3, <1>4

LEMMA InitInv ==
  ASSUME Init
  PROVE  IndInv
<1>1. /\ put["host"] = <<>> /\ put["bridge"] = <<>> /\ got["host"] = <<>> /\ got["bridge"] = <<>>
      /\ put \in [Ends -> Seq(Nat)] /\ got \in [Ends -> Seq(Nat)] /\ serial \in [Ends -> Nat]
      /\ missed \in 0..2 /\ faults \in 0..MaxFaults /\ sessions = 1
  BY KwBoundsAssumption DEF Init, Ends
<1>2. Numbered(host, <<>>, <<>>) /\ host.session = 1 /\ host.window = 0
  <2>1. Fresh(0) \in Links /\ host = HostSync(Fresh(0), 1)
    BY FreshFacts DEF Init
  <2>2. Anew(Fresh(0), 1, FALSE, 0, host)
    BY <2>1, HostSyncFacts
  <2> QED BY <2>2 DEF Anew
<1>3. /\ Numbered(bridge, <<>>, <<>>) /\ bridge.session = 0 /\ ~bridge.live /\ bridge.current = 0
  BY BridgeResetFacts DEF Init
<1>4. PICK hint \in Hints : armed = BuildBridge(bridge, NoPayload, hint).frame
  BY DEF Init
<1> DEFINE b == BuildBridge(bridge, NoPayload, hint)
<1>5. hint \in Nat /\ Fillable(bridge, NoPayload)
  BY HintsAssumption DEF Fillable
<1>6. b.l = bridge
  BY <1>3, IdleBuild DEF Numbered
<1> HIDE DEF b
<1>7. /\ Mirrors(b.frame, b.l) /\ b.frame.nosession = ~bridge.live
      /\ b.frame.first => NoPayload # NoPayload
  BY <1>3, <1>5, BuildBridgeFacts DEF b
<1>8. ArmedInv
  BY <1>4, <1>6, <1>7 DEF ArmedInv, b
<1>9. EndsInv
  BY <1>1, <1>2, <1>3 DEF EndsInv, Between, JoinedTo
<1>10. SessionInv /\ JoiningInv /\ FitInv
  BY <1>1, <1>2, <1>3 DEF SessionInv, JoiningInv, FitInv, Joined, JoinedTo
<1> QED BY <1>1, <1>8, <1>9, <1>10 DEF IndInv

LEMMA StepInv ==
  ASSUME IndInv, [Next]_vars
  PROVE  IndInv'
<1>1. faults \in 0..MaxFaults
  BY DEF IndInv
<1>2. CASE Exchange
  <2>1. Transfer(Clean) /\ faults' = faults /\ Clean \in Disturbances
    BY <1>2 DEF Exchange, Clean, Disturbances
  <2> QED BY <1>1, <2>1, AnyTransfer
<1>3. CASE Disturbed
  <2>1. PICK io \in Faulty : Transfer(io)
    BY <1>3 DEF Disturbed
  <2>2. io \in Disturbances /\ faults' \in 0..MaxFaults
    BY <1>1, <1>3, FaultFacts DEF Faulty, Disturbances, Disturbed
  <2> QED BY <2>1, <2>2, AnyTransfer
<1>4. CASE BusFail
  BY <1>4, BusFailStep
<1>5. CASE HostStart
  BY <1>5, HostStartStep
<1>6. CASE BridgeReboot
  BY <1>6, BridgeRebootStep
<1>7. CASE UNCHANGED vars
  BY <1>7 DEF vars, IndInv, EndsInv, Between, SessionInv, ArmedInv, JoiningInv, FitInv, Joined,
              JoinedTo, Mirrors, Numbered, Leads, Begins, Base
<1> QED BY <1>2, <1>3, <1>4, <1>5, <1>6, <1>7 DEF Next

-----------------------------------------------------------------------------
(* The theorems *)

(* The inductive invariant holds of every behaviour of the link.            *)
THEOREM Invariance == Spec => []IndInv
<1>1. Init => IndInv
  BY InitInv
<1>2. IndInv /\ [Next]_vars => IndInv'
  BY StepInv
<1> QED BY <1>1, <1>2, PTL DEF Spec

LEMMA CountedBack ==
  ASSUME NEW p \in Nat, NEW n \in Nat, NEW b \in Nat, p = b + n, NEW i \in 1..n
  PROVE  ((p % SeqCount) - (n + 1 - i)) % SeqCount = (b + i - 1) % SeqCount
<1>1. ((p % SeqCount) + (-(n + 1 - i))) % SeqCount = (p + (-(n + 1 - i))) % SeqCount
  <2>1. -(n + 1 - i) \in Int
    OBVIOUS
  <2> QED BY <2>1, RemainderOfSum
<1>2. p + (-(n + 1 - i)) = b + i - 1
  OBVIOUS
<1>3. p % SeqCount \in Int
  BY DivMod, SeqCountAssumption
<1>4. (p % SeqCount) + (-(n + 1 - i)) = (p % SeqCount) - (n + 1 - i)
  BY <1>3
<1> QED BY <1>1, <1>2, <1>4

(* Both struct kwl and the armed frame always have the shape TypeOK gives:  *)
(* a window of at most two payloads, numbered one after another up to       *)
(* next_seq across the wrap of the sequence number.                         *)
THEOREM TypeCorrect == Spec => []TypeOK
<1>1. IndInv => TypeOK
  <2>1. SUFFICES ASSUME IndInv PROVE TypeOK
    OBVIOUS
  <2>2. ASSUME NEW l, NEW P, NEW G, Numbered(l, P, G)
        PROVE  /\ l \in Links /\ Len(l.out) <= Window /\ l.current <= Len(l.out)
               /\ \A i \in DOMAIN l.out :
                    l.out[i].seq = (l.next - (Len(l.out) + 1 - i)) % SeqCount
    <3>1. /\ l \in Links /\ Len(l.out) <= Window /\ l.current <= Len(l.out)
          /\ l.next = Len(P) % SeqCount
      BY <2>2 DEF Numbered
    <3>2. /\ Len(P) \in Nat /\ Len(l.out) \in Nat /\ Base(l, P) \in Nat
          /\ Len(P) = Base(l, P) + Len(l.out) /\ DOMAIN l.out = 1..Len(l.out)
      BY <2>2, <3>1, NumberedFacts, LinkFacts
    <3>3. ASSUME NEW i \in 1..Len(l.out)
          PROVE  l.out[i].seq = (l.next - (Len(l.out) + 1 - i)) % SeqCount
      <4>1. l.out[i].seq = (Base(l, P) + i - 1) % SeqCount
        BY <2>2 DEF Numbered
      <4>2. ((Len(P) % SeqCount) - (Len(l.out) + 1 - i)) % SeqCount
              = (Base(l, P) + i - 1) % SeqCount
        BY <3>2, CountedBack
      <4> QED BY <3>1, <4>1, <4>2
    <3> QED BY <3>1, <3>2, <3>3
  <2>3. Numbered(host, put["host"], got["host"]) /\ Numbered(bridge, put["bridge"], got["bridge"])
    BY <2>1 DEF IndInv, EndsInv, Between
  <2>4. host.session <= sessions /\ bridge.session <= sessions
    BY <2>1 DEF IndInv, SessionInv
  <2>5. armed \in Frames
    BY <2>1 DEF IndInv, ArmedInv, Mirrors
  <2> QED BY <2>1, <2>2, <2>3, <2>4, <2>5 DEF TypeOK, LinkOf, Ends, IndInv
<1> QED BY <1>1, Invariance, PTL

LEMMA BeginsPrefix ==
  ASSUME NEW G \in Seq(Nat), NEW P \in Seq(Nat), Begins(G, P)
  PROVE  IsPrefix(G, P)
<1>1. Len(G) \in Nat /\ Len(P) \in Nat /\ Len(G) <= Len(P)
  BY LenProperties DEF Begins
<1>2. \A i \in 1..Len(G) : G[i] \in Nat /\ P[i] = G[i]
  BY ElementOfSeq DEF Begins
<1>3. SubSeq(G, 1, Len(G)) = SubSeq(P, 1, Len(G))
  BY <1>1, <1>2
<1> QED BY <1>1, <1>3 DEF IsPrefix

(* kwl_io's promise about deliver, "in order, exactly once": whatever is    *)
(* damaged, cut, repeated or restarted, an end has received a prefix of     *)
(* what its peer put into the session.                                      *)
THEOREM DeliveredInOrder == Spec => []InOrder
<1>1. IndInv => InOrder
  <2>1. SUFFICES ASSUME IndInv, Same
                 PROVE  \A e \in Ends : IsPrefix(got[e], put[Peer(e)])
    BY DEF InOrder
  <2>2. /\ Begins(got["bridge"], put["host"]) /\ Begins(got["host"], put["bridge"])
    BY <2>1 DEF IndInv, EndsInv, Between, Same, JoinedTo, Leads
  <2>3. /\ put["host"] \in Seq(Nat) /\ put["bridge"] \in Seq(Nat)
        /\ got["host"] \in Seq(Nat) /\ got["bridge"] \in Seq(Nat)
    BY <2>1 DEF IndInv, Ends
  <2>4. IsPrefix(got["bridge"], put["host"]) /\ IsPrefix(got["host"], put["bridge"])
    BY <2>2, <2>3, BeginsPrefix
  <2> QED BY <2>4 DEF Ends, Peer
<1> QED BY <1>1, Invariance, PTL

LEMMA BaseDelivered ==
  ASSUME NEW P \in Seq(Nat), NEW G \in Seq(Nat), NEW b \in Nat, b <= Len(G), Begins(G, P)
  PROVE  IsPrefix(SubSeq(P, 1, b), G)
<1> DEFINE s == SubSeq(P, 1, b)
<1>1. Len(G) \in Nat /\ Len(P) \in Nat /\ Len(G) <= Len(P) /\ \A i \in 1..Len(G) : G[i] = P[i]
  BY LenProperties DEF Begins
<1>2. b <= Len(P) /\ \A i \in 1..b : i \in 1..Len(P) /\ i \in 1..Len(G)
  <2>1. ASSUME NEW g \in Nat, NEW p \in Nat, b <= g, g <= p
        PROVE  b <= p /\ \A i \in 1..b : i \in 1..p /\ i \in 1..g
    BY <2>1
  <2> QED BY <1>1, <2>1
<1>3. \A i \in 1..b : P[i] \in Nat
  BY <1>2, ElementOfSeq
<1>4. /\ s \in Seq(Nat) /\ Len(s) = IF 1 <= b THEN b - 1 + 1 ELSE 0
      /\ \A i \in 1..(b - 1 + 1) : s[i] = P[1 + i - 1]
  BY <1>3, SubSeqProperties
<1> HIDE DEF s
<1>5. (IF 1 <= b THEN b - 1 + 1 ELSE 0) = b /\ b - 1 + 1 = b
  OBVIOUS
<1>6. Len(s) = b
  BY <1>4, <1>5, Zenon
<1>7. ASSUME NEW i \in 1..b
      PROVE  s[i] = G[i]
  <2>1. 1 + i - 1 = i
    OBVIOUS
  <2> QED BY <1>1, <1>2, <1>4, <1>5, <2>1
<1>8. Begins(s, G)
  BY <1>6, <1>7 DEF Begins
<1> QED BY <1>4, <1>8, BeginsPrefix DEF s

(* acknowledge(): a payload leaves its sender's window only once the peer   *)
(* has delivered it, for every number of sequence numbers and however often *)
(* they wrap.                                                               *)
THEOREM NothingLost == Spec => []AckedDelivered
<1>1. IndInv => AckedDelivered
  <2>1. SUFFICES ASSUME IndInv, Same
                 PROVE  \A e \in Ends :
                   IsPrefix(SubSeq(put[e], 1, Len(put[e]) - Len(LinkOf(e).out)), got[Peer(e)])
    BY DEF AckedDelivered
  <2>2. ASSUME NEW l, NEW P, NEW G, NEW GG, Numbered(l, P, G), Leads(l, P, GG), GG \in Seq(Nat)
        PROVE  IsPrefix(SubSeq(P, 1, Len(P) - Len(l.out)), GG)
    <3>1. P \in Seq(Nat) /\ Base(l, P) \in Nat /\ Base(l, P) <= Len(GG) /\ Begins(GG, P)
      BY <2>2, NumberedFacts DEF Leads
    <3>2. IsPrefix(SubSeq(P, 1, Base(l, P)), GG)
      BY <2>2, <3>1, BaseDelivered
    <3> QED BY <3>2 DEF Base
  <2>3. /\ Numbered(host, put["host"], got["host"])
        /\ Numbered(bridge, put["bridge"], got["bridge"])
        /\ Leads(host, put["host"], got["bridge"]) /\ Leads(bridge, put["bridge"], got["host"])
    BY <2>1 DEF IndInv, EndsInv, Between, Same, JoinedTo
  <2>4. got["host"] \in Seq(Nat) /\ got["bridge"] \in Seq(Nat)
    BY <2>1 DEF IndInv, Ends
  <2>5. /\ IsPrefix(SubSeq(put["host"], 1, Len(put["host"]) - Len(host.out)), got["bridge"])
        /\ IsPrefix(SubSeq(put["bridge"], 1, Len(put["bridge"]) - Len(bridge.out)), got["host"])
    BY <2>2, <2>3, <2>4
  <2> QED BY <2>5 DEF Ends, Peer, LinkOf
<1> QED BY <1>1, Invariance, PTL

(* kwl_build's promises: for every poll and payload size, the host clocks   *)
(* far enough for a payload the bridge sends for the first time, unless the *)
(* bridge missed two host frames in a row.                                  *)
THEOREM FirstFrameFits == Spec => []FirstFits
<1>1. IndInv => FirstFits
  <2>1. SUFFICES ASSUME IndInv, armed.first, armed.session = host.session, missed <= 1
                 PROVE  armed.len <= Clocked(BuildHost(host, NoPayload).l, 0)
    BY DEF FirstFits
  <2> DEFINE l == BuildHost(host, NoPayload).l
             c == CapacityFor(bridge.window)
             a == host.promised[1]
             b == host.promised[2]
  <2>2. /\ Numbered(host, put["host"], got["host"])
        /\ Numbered(bridge, put["bridge"], got["bridge"]) /\ missed \in 0..2
    BY <2>1 DEF IndInv, EndsInv, Between
  <2>3. bridge.live /\ armed.len <= c /\ armed.session = bridge.session /\ armed.len \in Nat
    BY <2>1, SizesAssumption DEF IndInv, ArmedInv, Mirrors, Frames
  <2>4. c = Poll \/ (missed = 0 /\ c <= a) \/ (missed = 1 /\ c <= b)
    <3>1. Joined
      BY <2>1, <2>3 DEF Joined, JoinedTo
    <3>2. c = Poll \/ (missed = 0 /\ c <= a) \/ (missed = 1 /\ c <= b) \/ missed = 2
      BY <2>1, <3>1 DEF IndInv, FitInv
    <3> QED BY <2>1, <3>2
  <2>5. c \in Poll..PayloadMax
    <3>1. bridge.window \in Nat
      BY <2>2, NumberedFacts
    <3> QED BY <3>1, SizeFacts
  <2>6. a \in Poll..PayloadMax /\ b \in Poll..PayloadMax
    <3>1. host.promised \in (Poll..PayloadMax) \X (Poll..PayloadMax)
      BY <2>2, LinkFacts DEF Numbered
    <3> QED BY <3>1
  <2>7. l.need = IF a > b THEN a ELSE b
    <3>1. Fillable(host, NoPayload)
      BY DEF Fillable
    <3>2. l.need = Need(host.promised)
      BY <2>2, <3>1, BuildHostFacts
    <3> QED BY <3>2 DEF Need
  <2>8. l.want \in 0..PayloadMax
    <3>1. Fillable(host, NoPayload)
      BY DEF Fillable
    <3>2. l \in Links
      BY <2>2, <3>1, BuildHostFacts DEF Numbered
    <3> QED BY <3>2, LinkFacts
  <2>9. Clocked(l, 0) = LET room == IF l.need > l.want THEN l.need ELSE l.want
                            n == IF 0 > room THEN 0 ELSE room
                        IN IF n > PayloadMax THEN PayloadMax ELSE n
    BY DEF Clocked
  <2> HIDE DEF l, a, b, c
  <2>10. c <= l.need /\ l.need \in Poll..PayloadMax
    BY <2>4, <2>5, <2>6, <2>7, SizesAssumption
  <2>11. c <= Clocked(l, 0) /\ Clocked(l, 0) \in Int /\ c \in Int
    BY <2>5, <2>8, <2>9, <2>10, SizesAssumption
  <2>12. armed.len <= Clocked(l, 0)
    BY <2>3, <2>11
  <2> QED BY <2>12 DEF l
<1> QED BY <1>1, Invariance, PTL
=============================================================================

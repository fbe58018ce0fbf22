--------------------------- MODULE TcpSendProofs ---------------------------
(***************************************************************************)
(* The send side of net.c: from the bytes queued for a connection, through *)
(* the send ring, the segments and their resends, to what the client at    *)
(* the other end takes, for every number of slots, ring size, segment size *)
(* and set of clients.                                                     *)
(***************************************************************************)
EXTENDS TcpFlowProofs

(* Connection n was offered to client x.                                   *)
Opened(x, n, sent) == \E t \in sent : t.flags = {"SYN", "ACK"} /\ t.dst = x /\ t.id = n

(* What was sent: the SYN|ACK carries the initial sequence number, data    *)
(* is a stretch of the bytes queued.                                       *)
Honest(s, sent, n, lg) ==
  /\ s.data # <<>> => s.id \in 1..n /\ Opened(s.dst, s.id, sent) /\ Stretch(s, lg[s.id])
  /\ s.flags = {"SYN", "ACK"} => s.id \in 1..n /\ s.seq = ISS[s.id]

(* Client x against its connection.                                        *)
Agrees(x, p, sent, n, lg) ==
  /\ p.st \in {"closed", "synsent"} => p.id = 0
  /\ p.st \in {"estab", "finished"} => p.id # 0
  /\ p.id = 0 => p.acks = {} /\ p.got = <<>>
  /\ p.id # 0 => p.id \in 1..n /\ Opened(x, p.id, sent) /\ Took(p, lg[p.id])

Placed(c, sent, n) == c.id \in 1..n /\ c.peer \in Clients /\ Opened(c.peer, c.id, sent)

(* No connection has two slots.                                            *)
Owners(cs) ==
  \A i, j \in Slots : Live(cs[i]) /\ Live(cs[j]) /\ cs[i].id = cs[j].id => i = j

Slotted(cs, sent, n, lg, cl) ==
  /\ Owners(cs)
  /\ \A i \in Slots : Live(cs[i]) => /\ Placed(cs[i], sent, n)
                                     /\ Flow(cs[i], lg[cs[i].id], cl[cs[i].peer])
Wired(sent, n, lg) == \A s \in sent : Honest(s, sent, n, lg)
Heard(sent, n, lg, cl) == \A x \in Clients : Agrees(x, cl[x], sent, n, lg)
Queued(n, lg, put) == \A k \in Ids : /\ k > n => lg[k] = <<>>
                                     /\ Len(lg[k]) <= put

Send == /\ Slotted(conns, toClient, nsyn, log, clients) /\ Wired(toClient, nsyn, log)
        /\ Heard(toClient, nsyn, log, clients) /\ Queued(nsyn, log, nput)

(* The hypothesis: an endpoint that is answered twice is given initial     *)
(* sequence numbers that lie further apart than the bytes of a session.    *)
ReopenedApart ==
  \A x \in Clients : \A m, n \in Ids :
    Opened(x, m, toClient) /\ Opened(x, n, toClient) /\ m # n
      => Sub(ISS[m], ISS[n], SEQ) > MaxPut + 1

SendInv == SlotInv /\ Send

---------------------------------------------------------------------------
(* The whole system: more may be sent and more connections opened.         *)

LEMMA OpenedMore ==
  ASSUME NEW x, NEW n, NEW sent, NEW all, sent \subseteq all, Opened(x, n, sent)
  PROVE  Opened(x, n, all)
BY Zenon DEF Opened

LEMMA HonestMore ==
  ASSUME NEW s, NEW sent, NEW all, sent \subseteq all, NEW n, NEW l, 1..n \subseteq 1..l,
         NEW lg, Honest(s, sent, n, lg)
  PROVE  Honest(s, all, l, lg)
BY OpenedMore, Zenon DEF Honest

LEMMA HeardMore ==
  ASSUME NEW sent, NEW all, sent \subseteq all, NEW n, NEW l, 1..n \subseteq 1..l,
         NEW lg, NEW cl, Heard(sent, n, lg, cl)
  PROVE  Heard(all, l, lg, cl)
BY OpenedMore, Zenon DEF Heard, Agrees

LEMMA SlottedMore ==
  ASSUME NEW cs, NEW sent, NEW all, sent \subseteq all, NEW n, NEW l, 1..n \subseteq 1..l,
         NEW lg, NEW cl, Slotted(cs, sent, n, lg, cl)
  PROVE  Slotted(cs, all, l, lg, cl)
BY OpenedMore, Zenon DEF Slotted, Placed

(* Slots that stay with their connection, or are given up.                 *)
Heirs(cs, ds) == \A i \in Slots : Live(ds[i]) => Live(cs[i]) /\ ds[i].id = cs[i].id

LEMMA OwnersKept ==
  ASSUME NEW cs, NEW ds, Owners(cs), Heirs(cs, ds)
  PROVE  Owners(ds)
BY Zenon DEF Owners, Heirs

LEMMA WiredMore ==
  ASSUME NEW sent, NEW more, NEW n, NEW l, 1..n \subseteq 1..l, NEW lg,
         Wired(sent, n, lg), \A s \in more : Honest(s, sent \cup more, l, lg)
  PROVE  Wired(sent \cup more, l, lg)
<1> SUFFICES ASSUME NEW s \in sent \cup more PROVE Honest(s, sent \cup more, l, lg)
  BY DEF Wired
<1>1. sent \subseteq sent \cup more
  OBVIOUS
<1> DEFINE all == sent \cup more
<1> HIDE DEF all
<1>2. CASE s \in sent
  <2>1. Honest(s, sent, n, lg) /\ sent \subseteq all
    BY <1>1, <1>2 DEF Wired, all
  <2>2. Honest(s, all, l, lg)
    BY <2>1, HonestMore, Zenon
  <2> QED BY <2>2 DEF all
<1> QED BY <1>2

(* The types the lemmas below are about.                                   *)
Typical(n, lg, cl) ==
  /\ n \in 0..Len(ISS) /\ lg \in [Ids -> Seq(Byte)] /\ cl \in [Clients -> Client]
  /\ \A k \in Ids : Len(lg[k]) <= MaxPut

LEMMA SlotFacts ==
  ASSUME NEW cs, Table(cs), NEW sent, NEW n, NEW lg, NEW cl,
         Slotted(cs, sent, n, lg, cl), Typical(n, lg, cl), NEW i \in Slots, Live(cs[i])
  PROVE  /\ Good(cs[i]) /\ cs[i] \in Conn /\ SlotRing(cs[i])
         /\ Placed(cs[i], sent, n) /\ cs[i].id \in 1..n /\ cs[i].id \in 1..Len(ISS)
         /\ Flow(cs[i], lg[cs[i].id], cl[cs[i].peer])
         /\ lg[cs[i].id] \in Seq(Byte) /\ Len(lg[cs[i].id]) <= MaxPut
<1>1. Good(cs[i]) /\ cs[i] \in Conn /\ SlotRing(cs[i])
  BY TableGood DEF Good
<1>2. Placed(cs[i], sent, n) /\ cs[i].id \in 1..n /\ Flow(cs[i], lg[cs[i].id], cl[cs[i].peer])
  BY Zenon DEF Slotted, Placed
<1>3. cs[i].id \in Ids
  BY <1>1, Zenon DEF Conn
<1>4. cs[i].id \in 1..Len(ISS)
  BY <1>2, EndpointAssumption DEF Typical
<1> QED BY <1>1, <1>2, <1>3, <1>4 DEF Typical

LEMMA OutputSlotted ==
  ASSUME NEW cs, Table(cs), NEW sent, NEW n, NEW lg, NEW cl,
         Slotted(cs, sent, n, lg, cl), Typical(n, lg, cl)
  PROVE  /\ Slotted(Output(cs), sent, n, lg, cl)
         /\ \A s \in AllOutputSegs(cs) : Honest(s, sent, n, lg)
<1>1. ASSUME NEW i \in Slots, Live(Output(cs)[i])
      PROVE  /\ Placed(Output(cs)[i], sent, n)
             /\ Flow(Output(cs)[i], lg[Output(cs)[i].id], cl[Output(cs)[i].peer])
             /\ Live(cs[i]) /\ Output(cs)[i].id = cs[i].id
  <2> DEFINE c == cs[i]
             d == tcp_output(c)
  <2>1. Output(cs)[i] = d
    BY DEF Output
  <2>2. c \in Conn
    BY TableGood DEF Good
  <2>3. d.tstate = c.tstate /\ d.id = c.id /\ d.peer = c.peer
    BY <2>2, Zenon DEF tcp_output, Conn
  <2>4. Live(c)
    BY <1>1, <2>1, <2>3 DEF Live
  <2>5. Placed(c, sent, n) /\ Flow(c, lg[c.id], cl[c.peer])
    BY <2>4, SlotFacts
  <2>6. Flow(d, lg[c.id], cl[c.peer])
    BY <2>2, <2>5, OutputFlow
  <2> HIDE DEF c, d
  <2>7. Placed(d, sent, n) /\ Flow(d, lg[d.id], cl[d.peer])
    BY <2>3, <2>5, <2>6, Zenon DEF Placed
  <2> QED BY <2>1, <2>3, <2>4, <2>7, Zenon DEF c
<1>2. ASSUME NEW s \in AllOutputSegs(cs) PROVE Honest(s, sent, n, lg)
  <2>1. PICK i \in Slots : s \in OutputSegs(cs[i])
    BY DEF AllOutputSegs
  <2> DEFINE c == cs[i]
  <2>2. Live(c)
    BY <2>1 DEF OutputSegs, Live
  <2>3. /\ c \in Conn /\ SlotRing(c) /\ Placed(c, sent, n) /\ c.id \in 1..n
        /\ c.id \in 1..Len(ISS) /\ Flow(c, lg[c.id], cl[c.peer])
        /\ lg[c.id] \in Seq(Byte) /\ Len(lg[c.id]) <= MaxPut
    BY <2>2, SlotFacts
  <2>4. s \in OutputSegs(c)
    BY <2>1
  <2> HIDE DEF c
  <2>5. /\ s.id = c.id /\ s.dst = c.peer /\ s.flags = {"PSH", "ACK"}
        /\ Stretch(s, lg[c.id])
    BY <2>3, <2>4, OutputStretch
  <2>6. s.flags # {"SYN", "ACK"}
    BY <2>5
  <2> QED BY <2>3, <2>5, <2>6, Zenon DEF Honest, Placed
<1>3. Owners(Output(cs))
  <2>1. Heirs(cs, Output(cs)) /\ Owners(cs)
    BY <1>1, Zenon DEF Heirs, Slotted
  <2> QED BY <2>1, OwnersKept, Zenon
<1> QED BY <1>1, <1>2, <1>3, Zenon DEF Slotted

LEMMA TimersSlotted ==
  ASSUME Table(conns), NEW e \in Nat, NEW sent, NEW n, NEW lg, NEW cl,
         Slotted(conns, sent, n, lg, cl), Typical(n, lg, cl)
  PROVE  /\ Slotted(AfterTimers(e), sent, n, lg, cl)
         /\ \A s \in UNION {TimerSegs(Clock(conns[i], e)) : i \in Slots} :
              Honest(s, sent, n, lg)
<1> DEFINE t == AfterTimers(e)
<1>1. ASSUME NEW i \in Slots, Live(t[i])
      PROVE  /\ Placed(t[i], sent, n) /\ Flow(t[i], lg[t[i].id], cl[t[i].peer])
             /\ Live(conns[i]) /\ t[i].id = conns[i].id
  <2> DEFINE c == conns[i]
             d == tcp_timer(Clock(c, e))
  <2>1. t[i] = d
    BY DEF AfterTimers
  <2>2. c \in Conn /\ Live(d) /\ Good(c)
    BY <1>1, <2>1, TableGood DEF Good
  <2>3. Live(c)
    BY <2>2, KeepsTimer DEF Keeps
  <2>4. Placed(c, sent, n) /\ Flow(c, lg[c.id], cl[c.peer])
    BY <2>3, SlotFacts
  <2>5. Flow(d, lg[c.id], cl[c.peer]) /\ d.id = c.id /\ d.peer = c.peer
    BY <2>2, <2>4, TimerFlow
  <2> HIDE DEF c, d
  <2>6. Placed(d, sent, n) /\ Flow(d, lg[d.id], cl[d.peer])
    BY <2>4, <2>5, Zenon DEF Placed
  <2> QED BY <2>1, <2>3, <2>5, <2>6, Zenon DEF c
<1>2. ASSUME NEW s \in UNION {TimerSegs(Clock(conns[i], e)) : i \in Slots}
      PROVE  Honest(s, sent, n, lg)
  <2>1. PICK i \in Slots : s \in TimerSegs(Clock(conns[i], e))
    OBVIOUS
  <2> DEFINE c == conns[i]
             b == Clock(c, e)
  <2>2. c \in Conn
    BY TableGood DEF Good
  <2>3. b.tstate = c.tstate /\ b.id = c.id /\ b.snd_una = c.snd_una /\ b.peer = c.peer
    BY <2>2, Zenon DEF Clock, Conn
  <2>4. s \in TimerSegs(b)
    BY <2>1
  <2> HIDE DEF b
  <2>5. s = tcp_send_seg(b, {"SYN", "ACK"}, b.snd_una, 0, 0) /\ b.tstate = "SYNRCVD"
    BY <2>4 DEF TimerSegs
  <2>6. s.id = c.id /\ s.seq = c.snd_una /\ s.data = <<>>
    BY <2>3, <2>5, NoData
  <2>7. Live(c) /\ c.tstate = "SYNRCVD"
    BY <2>3, <2>5 DEF Live
  <2>8. c.id \in 1..n /\ Flow(c, lg[c.id], cl[c.peer])
    BY <2>7, SlotFacts
  <2>9. c.snd_una = ISS[c.id]
    BY <2>7, <2>8 DEF Flow
  <2> QED BY <2>6, <2>8, <2>9, Zenon DEF Honest
<1> HIDE DEF t
<1>3. Owners(t)
  <2>1. Heirs(conns, t) /\ Owners(conns)
    BY <1>1, Zenon DEF Heirs, Slotted
  <2> QED BY <2>1, OwnersKept, Zenon
<1>4. Slotted(t, sent, n, lg, cl)
  BY <1>1, <1>3, Zenon DEF Slotted
<1> QED BY <1>2, <1>4, Zenon DEF t

(* One slot is replaced, by one of the same connection or of a new one.    *)
Fits(cs, k, d) == \/ Live(cs[k]) /\ d.id = cs[k].id
                  \/ \A i \in Slots : Live(cs[i]) => cs[i].id # d.id

LEMMA SlottedOne ==
  ASSUME NEW cs \in [Slots -> Conn], NEW k \in Slots, NEW d, NEW sent, NEW n, NEW lg, NEW cl,
         Slotted(cs, sent, n, lg, cl),
         Live(d) => Placed(d, sent, n) /\ Flow(d, lg[d.id], cl[d.peer]) /\ Fits(cs, k, d)
  PROVE  Slotted([cs EXCEPT ![k] = d], sent, n, lg, cl)
<1> DEFINE ds == [cs EXCEPT ![k] = d]
<1>1. \A i \in Slots : ds[i] = IF i = k THEN d ELSE cs[i]
  BY Zenon
<1> HIDE DEF ds
<1>2. Owners(ds)
  <2> SUFFICES ASSUME NEW i \in Slots, NEW j \in Slots, Live(ds[i]), Live(ds[j]),
                      ds[i].id = ds[j].id
               PROVE  i = j
    BY Zenon DEF Owners
  <2>1. Owners(cs)
    BY Zenon DEF Slotted
  <2>2. CASE i # k /\ j # k
    BY <1>1, <2>1, <2>2, Zenon DEF Owners
  <2>3. CASE i = k /\ j # k
    BY <1>1, <2>1, <2>3, Zenon DEF Owners, Fits
  <2>4. CASE i # k /\ j = k
    BY <1>1, <2>1, <2>4, Zenon DEF Owners, Fits
  <2> QED BY <2>2, <2>3, <2>4
<1>3. Slotted(ds, sent, n, lg, cl)
  BY <1>1, <1>2, Zenon DEF Slotted
<1> QED BY <1>3 DEF ds

(* A frame of a client that has taken a SYN|ACK carries one of its ACKs.   *)
LEMMA SegmentsAck ==
  ASSUME TypeOK, NEW x \in Clients, NEW m \in Segments(x)
  PROVE  /\ m.src = x
         /\ "SYN" \notin m.flags /\ "RST" \notin m.flags => m.ack \in clients[x].acks
<1> DEFINE n == clients[x].typed
           acks == clients[x].acks
<1>1. \/ m = Seg(x, {"SYN"}, CISS, 0, <<>>)
      \/ \E a, b \in 0..n, k \in acks : m = Seg(x, {"ACK"}, KeySeq(a), k, KeysFrom(a, b))
      \/ \E a \in 0..n, k \in acks : m = Seg(x, {"ACK", "FIN"}, KeySeq(a), k, KeysFrom(a, n))
      \/ m = Seg(x, {"RST"}, 0, 0, <<>>)
  BY DEF Segments
<1> HIDE DEF n, acks
<1>2. CASE m = Seg(x, {"SYN"}, CISS, 0, <<>>) \/ m = Seg(x, {"RST"}, 0, 0, <<>>)
  BY <1>2 DEF Seg
<1>3. CASE \E a, b \in 0..n, k \in acks : m = Seg(x, {"ACK"}, KeySeq(a), k, KeysFrom(a, b))
  <2>1. PICK a \in 0..n, b \in 0..n, k \in acks :
          m = Seg(x, {"ACK"}, KeySeq(a), k, KeysFrom(a, b))
    BY <1>3, Zenon
  <2> QED BY <2>1 DEF Seg, acks
<1>4. CASE \E a \in 0..n, k \in acks : m = Seg(x, {"ACK", "FIN"}, KeySeq(a), k, KeysFrom(a, n))
  <2>1. PICK a \in 0..n, k \in acks :
          m = Seg(x, {"ACK", "FIN"}, KeySeq(a), k, KeysFrom(a, n))
    BY <1>4, Zenon
  <2> QED BY <2>1 DEF Seg, acks
<1> QED BY <1>1, <1>2, <1>3, <1>4

(* A client that acknowledges anything is the client of its connection.    *)
LEMMA ClientKnows ==
  ASSUME ReopenedApart, NEW x \in Clients, NEW n, NEW lg, NEW cl, Typical(n, lg, cl),
         Heard(toClient, n, lg, cl), cl[x].acks # {},
         NEW k \in 1..n, Opened(x, k, toClient)
  PROVE  Knows(cl[x], k)
<1> DEFINE p == cl[x]
<1>1. p \in Client /\ Agrees(x, p, toClient, n, lg)
  BY DEF Typical, Heard
<1> HIDE DEF p
<1>2. p.id # 0
  BY <1>1 DEF Agrees, p
<1>3. p.id \in 1..n /\ Opened(x, p.id, toClient) /\ Took(p, lg[p.id])
  BY <1>1, <1>2, Zenon DEF Agrees
<1>4. n \in 0..Len(ISS) /\ Len(ISS) \in Nat
  BY EndpointAssumption DEF Typical
<1>5. p.id \in 1..Len(ISS) /\ p.id \in Ids /\ k \in Ids
  BY <1>3, <1>4 DEF Ids
<1>6. Len(p.got) <= Len(lg[p.id]) /\ p.got \in Seq(Byte) /\ Len(lg[p.id]) <= MaxPut
      /\ lg[p.id] \in Seq(Byte)
  BY <1>1, <1>3, <1>5 DEF Took, Client, Typical
<1>7. Len(p.got) \in 0..MaxPut
  BY <1>6, BytesFit
<1>8. p.id # k => Apart(p.id, k)
  BY <1>3, <1>5, Zenon DEF ReopenedApart, Apart
<1>9. \A a \in p.acks : \E j \in 0..Len(p.got) : a = ByteSeq(p.id, j)
  BY <1>3, Zenon DEF Took
<1>10. Knows(p, k)
  BY <1>5, <1>7, <1>8, <1>9, Zenon DEF Knows
<1> QED BY <1>10 DEF p

LEMMA FrameSlotted ==
  ASSUME ReopenedApart, NEW cs, Table(cs), NEW m \in Frame, NEW n, NEW lg, NEW cl,
         Slotted(cs, toClient, n, lg, cl), Typical(n, lg, cl), Heard(toClient, n, lg, cl),
         "SYN" \notin m.flags /\ "RST" \notin m.flags => m.ack \in cl[m.src].acks,
         Opens(cs, m) => n + 1 \in 1..Len(ISS) /\ lg[n + 1] = <<>>
  PROVE  LET ans == InSegs(cs, m, n + 1)
             l == IF Opens(cs, m) THEN n + 1 ELSE n
         IN  /\ Slotted(tcp_in(cs, m, n + 1), toClient \cup ans, l, lg, cl)
             /\ \A s \in ans : Honest(s, toClient \cup ans, l, lg)
<1> DEFINE r == tcp_in(cs, m, n + 1)
           ans == InSegs(cs, m, n + 1)
           l == IF Opens(cs, m) THEN n + 1 ELSE n
           all == toClient \cup ans
           owner == find_conn(cs, m.src)
           k == First(owner)
           a == First(alloc_conn(cs, m.src))
<1> HIDE DEF r, ans, l, all, owner, k, a
<1>0. n \in Nat
  BY EndpointAssumption DEF Typical
<1>1. cs \in [Slots -> Conn] /\ n \in Nat /\ toClient \subseteq all
  BY <1>0, Zenon DEF Table, all
<1>2. 1..n \subseteq 1..l
  <2>1. l = n \/ l = n + 1
    BY Zenon DEF l
  <2> QED BY <1>0, <2>1
<1>3. Slotted(cs, all, l, lg, cl)
  BY <1>1, <1>2, SlottedMore, Zenon
<1>4. CASE "RST" \in m.flags \/ ("SYN" \notin m.flags /\ owner = {})
  <2>1. ans = {} /\ l = n
    BY <1>4, Zenon DEF InSegs, Opens, ans, l, owner
  <2>2. CASE owner = {}
    <3>1. r = cs
      BY <1>4, <2>2, Zenon DEF tcp_in, r, owner
    <3> QED BY <1>3, <2>1, <3>1 DEF r, ans, l, all
  <2>3. CASE owner # {}
    <3>1. k \in Slots /\ cs[k] \in Conn
      BY <1>1, <2>3, OwnerIn DEF k, owner
    <3>2. r = [cs EXCEPT ![k] = tcp_reset_listen(cs[k])]
      BY <1>4, <2>3, Zenon DEF tcp_in, r, k, owner
    <3>3. ~Live(tcp_reset_listen(cs[k]))
      BY <3>1, ResetListens
    <3>4. Slotted(r, all, l, lg, cl)
      BY <1>1, <1>3, <3>1, <3>2, <3>3, SlottedOne, Zenon
    <3> QED BY <2>1, <3>4 DEF r, ans, all, l
  <2> QED BY <2>2, <2>3
<1>5. CASE "RST" \notin m.flags /\ "SYN" \in m.flags /\ ~Opens(cs, m)
  <2>1. r = cs /\ ans = (IF owner = {} THEN {send_rst(m)} ELSE {})
    BY <1>5, Zenon DEF tcp_in, InSegs, r, ans, owner
  <2>2. Honest(send_rst(m), all, l, lg)
    BY DEF Honest, send_rst
  <2>3. \A s \in ans : Honest(s, all, l, lg)
    BY <2>1, <2>2
  <2> QED BY <1>3, <2>1, <2>3 DEF r, ans, all, l
<1>6. CASE "RST" \notin m.flags /\ "SYN" \in m.flags /\ Opens(cs, m)
  <2> DEFINE d == SynIn(cs[a], m, n + 1)
             s == tcp_send_seg(d, {"SYN", "ACK"}, ISS[n + 1], 0, 0)
  <2>1. r = [cs EXCEPT ![a] = d] /\ ans = {s} /\ l = n + 1
    BY <1>6, Zenon DEF tcp_in, InSegs, r, ans, l, a
  <2>2. a \in Slots
    BY <1>6, AllocIn DEF Opens, a
  <2>3. cs[a] \in Conn /\ n + 1 \in 1..Len(ISS) /\ lg[n + 1] = <<>>
    BY <1>1, <1>6, <2>2
  <2>4. Flow(d, <<>>, cl[m.src]) /\ d.id = n + 1 /\ d.peer = m.src
    BY <2>3, SynFlow
  <2>5. s.dst = d.peer /\ s.id = d.id /\ s.flags = {"SYN", "ACK"} /\ s.seq = ISS[n + 1]
        /\ s.data = <<>>
    BY NoData
  <2>6. n + 1 \in 1..l /\ s \in all
    BY <1>1, <2>1 DEF all
  <2>7. m.src \in Clients
    BY FrameFields
  <2> HIDE DEF d, s
  <2>8. Opened(d.peer, d.id, all)
    BY <2>5, <2>6, Zenon DEF Opened
  <2>9. Placed(d, all, l) /\ Flow(d, lg[d.id], cl[d.peer])
    BY <2>3, <2>4, <2>6, <2>7, <2>8 DEF Placed
  <2>10. Slotted(r, all, l, lg, cl)
    <3>1. \A i \in Slots : Live(cs[i]) => cs[i].id \in 1..n
      BY Zenon DEF Slotted, Placed
    <3>2. n + 1 \notin 1..n
      BY <1>0
    <3>3. Fits(cs, a, d)
      BY <2>4, <3>1, <3>2, Zenon DEF Fits
    <3> QED BY <1>1, <1>3, <2>1, <2>2, <2>9, <3>3, SlottedOne, Zenon
  <2>11. Honest(s, all, l, lg)
    BY <2>4, <2>5, <2>6 DEF Honest
  <2>12. \A t \in ans : Honest(t, all, l, lg)
    BY <2>1, <2>11
  <2> QED BY <2>10, <2>12 DEF r, ans, all, l
<1>7. CASE "RST" \notin m.flags /\ "SYN" \notin m.flags /\ owner # {}
  <2> DEFINE c == cs[k]
             d == SegIn(c, m)
  <2>1. k \in Slots /\ Live(c) /\ k \in owner
    <3>1. owner \in SUBSET Slots
      BY DEF find_conn, owner
    <3>2. k \in owner
      BY <1>7, <3>1, FirstIn DEF k
    <3> QED BY <1>7, <3>2, OwnerIn DEF k, owner
  <2>2. r = [cs EXCEPT ![k] = d] /\ l = n /\ ans = SegInSegs(c, m)
    BY <1>7, Zenon DEF tcp_in, InSegs, Opens, r, l, ans, k, owner
  <2>3. c.peer = m.src
    BY <2>1 DEF find_conn, owner
  <2>4. /\ Good(c) /\ Placed(c, toClient, n) /\ c.id \in 1..n /\ c.id \in 1..Len(ISS)
        /\ Flow(c, lg[c.id], cl[c.peer]) /\ lg[c.id] \in Seq(Byte) /\ Len(lg[c.id]) <= MaxPut
    BY <2>1, SlotFacts
  <2>5. Opened(m.src, c.id, toClient) /\ m.src \in Clients /\ m.ack \in cl[m.src].acks
    BY <1>7, <2>3, <2>4, FrameFields DEF Placed
  <2>6. Knows(cl[m.src], c.id)
    BY <2>4, <2>5, ClientKnows
  <2> HIDE DEF c
  <2>7. ASSUME Live(d)
        PROVE  Placed(d, all, l) /\ Flow(d, lg[d.id], cl[d.peer]) /\ Fits(cs, k, d)
    <3>1. Flow(d, lg[c.id], cl[c.peer]) /\ d.id = c.id /\ d.peer = c.peer
      BY <2>1, <2>3, <2>4, <2>5, <2>6, <2>7, SegFlow
    <3>2. Opened(c.peer, c.id, all)
      BY <1>1, <2>3, <2>5, OpenedMore
    <3> HIDE DEF d
    <3>3. Fits(cs, k, d)
      BY <2>1, <3>1, Zenon DEF Fits, c
    <3> QED BY <2>2, <2>3, <2>4, <2>5, <3>1, <3>2, <3>3 DEF Placed
  <2>8. ASSUME NEW s \in ans PROVE Honest(s, all, l, lg)
    <3> DEFINE b == DataIn(AckIn(EstabIn(c, m), m), m)
    <3>1. s = AckSeg(b) \/ s = AckSeg([b EXCEPT !.rcv_nxt = Add(@, 1, SEQ)])
      BY <2>2, <2>8 DEF SegInSegs
    <3>2. s.flags = {"ACK"} /\ s.data = <<>>
      BY <3>1, NoData DEF AckSeg
    <3>3. s.flags # {"SYN", "ACK"}
      BY <3>2
    <3> QED BY <3>2, <3>3, Zenon DEF Honest
  <2> HIDE DEF d
  <2>9. Slotted(r, all, l, lg, cl)
    BY <1>1, <1>3, <2>1, <2>2, <2>7, SlottedOne, Zenon
  <2> QED BY <2>8, <2>9 DEF r, all, l, ans
<1> QED BY <1>4, <1>5, <1>6, <1>7, Zenon

LEMMA SendTypes ==
  ASSUME SendInv
  PROVE  /\ SlotInv /\ TypeOK /\ Table(conns) /\ conns \in [Slots -> Conn]
         /\ Typical(nsyn, log, clients) /\ nput \in 0..MaxPut
         /\ nsyn \in Nat /\ \A k \in Ids : Len(log[k]) \in Nat
<1>1. SlotInv /\ TypeOK
  BY DEF SendInv, SlotInv
<1>2. Table(conns)
  BY <1>1, InvTable
<1>3. conns \in [Slots -> Conn]
  BY <1>2 DEF Table
<1>4. /\ log \in [Ids -> Seq(Byte)] /\ clients \in [Clients -> Client]
      /\ nsyn \in 0..Len(ISS) /\ nput \in 0..MaxPut
  BY <1>1 DEF TypeOK, Ids, Byte
<1>5. \A k \in Ids : Len(log[k]) \in Nat
  BY <1>4
<1>6. \A k \in Ids : Len(log[k]) <= nput
  BY DEF SendInv, Send, Queued
<1>7. \A k \in Ids : Len(log[k]) <= MaxPut
  BY <1>4, <1>5, <1>6, BytesFit
<1>8. nsyn \in Nat
  BY <1>4, EndpointAssumption
<1> QED BY <1>1, <1>2, <1>3, <1>4, <1>5, <1>7, <1>8 DEF Typical

LEMMA PollSend == ASSUME SendInv, ReopenedApart, Poll PROVE Send'
<1>1. PICK e \in 1..REXMIT_TICKS :
        \/ PollIdle(e)
        \/ \E x \in Clients : \E m \in Segments(x) : PollFrame(e, m)
  BY Zenon DEF Poll
<1>2. e \in Nat
  BY <1>1, SizesAssumption
<1>3. TypeOK /\ Table(conns) /\ Typical(nsyn, log, clients) /\ nsyn \in Nat
  BY SendTypes
<1>4. /\ Slotted(conns, toClient, nsyn, log, clients) /\ Wired(toClient, nsyn, log)
      /\ Heard(toClient, nsyn, log, clients) /\ Queued(nsyn, log, nput)
  BY DEF SendInv, Send
<1> DEFINE t == AfterTimers(e)
           tm == UNION {TimerSegs(Clock(conns[i], e)) : i \in Slots}
<1>5. Slotted(t, toClient, nsyn, log, clients) /\ \A s \in tm : Honest(s, toClient, nsyn, log)
  BY <1>2, <1>3, <1>4, TimersSlotted
<1>6. Table(t)
  BY <1>2, <1>3, TimersTable
<1>7. CASE PollIdle(e)
  <2> DEFINE out == AllOutputSegs(t)
             more == out \cup tm
             all == toClient \cup more
  <2>1. /\ conns' = Output(t) /\ toClient' = toClient \cup out \cup tm
        /\ clients' = clients /\ nsyn' = nsyn /\ nput' = nput /\ log' = log
    BY <1>7 DEF PollIdle
  <2> HIDE DEF t, tm
  <2>2. /\ Slotted(Output(t), toClient, nsyn, log, clients)
        /\ \A s \in out : Honest(s, toClient, nsyn, log)
    BY <1>3, <1>5, <1>6, OutputSlotted
  <2> HIDE DEF out
  <2>3. toClient' = all /\ toClient \subseteq all /\ 1..nsyn \subseteq 1..nsyn
    BY <2>1
  <2>4. \A s \in more : Honest(s, toClient, nsyn, log)
    BY <1>5, <2>2
  <2> HIDE DEF more
  <2>5. \A s \in more : Honest(s, all, nsyn, log)
    BY <2>3, <2>4, HonestMore, Zenon
  <2>6. Wired(all, nsyn, log)
    BY <1>4, <2>3, <2>5, WiredMore, Zenon
  <2>7. Heard(all, nsyn, log, clients)
    BY <1>4, <2>3, HeardMore, Zenon
  <2>8. Slotted(Output(t), all, nsyn, log, clients)
    BY <2>2, <2>3, SlottedMore, Zenon
  <2> QED BY <1>4, <2>1, <2>3, <2>6, <2>7, <2>8, Zenon DEF Send
<1>8. CASE \E x \in Clients : \E m \in Segments(x) : PollFrame(e, m)
  <2>1. PICK x \in Clients : \E m \in Segments(x) : PollFrame(e, m)
    BY <1>8
  <2>2. PICK m \in Segments(x) : PollFrame(e, m)
    BY <2>1
  <2>3. m \in Frame
    BY <1>3, SegmentsType
  <2>4. m.src = x /\ ("SYN" \notin m.flags /\ "RST" \notin m.flags => m.ack \in clients[x].acks)
    BY <1>3, SegmentsAck
  <2> DEFINE r == tcp_in(t, m, nsyn + 1)
             l == IF Opens(t, m) THEN nsyn + 1 ELSE nsyn
             ans == InSegs(t, m, nsyn + 1)
             out == AllOutputSegs(r)
             mid == toClient \cup ans
             more == ans \cup (out \cup tm)
             all == toClient \cup more
  <2>5. /\ Opens(t, m) => nsyn + 1 <= Len(ISS)
        /\ conns' = Output(r) /\ toClient' = toClient \cup ans \cup out \cup tm
        /\ clients' = clients /\ nsyn' = l /\ nput' = nput /\ log' = log
    BY <2>2 DEF PollFrame
  <2>6. Opens(t, m) => nsyn + 1 \in 1..Len(ISS) /\ nsyn + 1 \in Ids /\ nsyn + 1 > nsyn
    BY <1>3, <2>5, EndpointAssumption DEF Ids
  <2>7. Opens(t, m) => log[nsyn + 1] = <<>>
    BY <1>4, <2>6 DEF Queued
  <2>8. l \in 0..Len(ISS) /\ 1..nsyn \subseteq 1..l
    BY <1>3, <2>6, EndpointAssumption DEF Typical
  <2>9. Typical(l, log, clients)
    BY <1>3, <2>8 DEF Typical
  <2>10. Queued(l, log, nput)
    <3>1. l \in Nat /\ l >= nsyn
      BY <1>3, <2>8
    <3>2. \A j \in Ids : j > l => j > nsyn
      BY <1>3, <3>1, EndpointAssumption DEF Ids
    <3> HIDE DEF l
    <3> QED BY <1>4, <3>2, Zenon DEF Queued
  <2> HIDE DEF t, tm
  <2>11. Slotted(r, mid, l, log, clients) /\ \A s \in ans : Honest(s, mid, l, log)
    BY <1>3, <1>4, <1>5, <1>6, <2>3, <2>4, <2>6, <2>7, FrameSlotted
  <2>12. Table(r)
    BY <1>6, <2>3, <2>6, InTable
  <2> HIDE DEF r, l, ans
  <2>13. /\ Slotted(Output(r), mid, l, log, clients)
         /\ \A s \in out : Honest(s, mid, l, log)
    BY <2>9, <2>11, <2>12, OutputSlotted
  <2> HIDE DEF out
  <2>14. toClient' = all /\ toClient \subseteq all /\ mid \subseteq all /\ 1..l \subseteq 1..l
    BY <2>5
  <2> HIDE DEF mid
  <2>15. \A s \in ans \cup out : Honest(s, all, l, log)
    BY <2>11, <2>13, <2>14, HonestMore, Zenon
  <2>16. \A s \in tm : Honest(s, all, l, log)
    BY <1>5, <2>8, <2>14, HonestMore, Zenon
  <2>17. \A s \in more : Honest(s, all, l, log)
    BY <2>15, <2>16
  <2> HIDE DEF more
  <2>18. Wired(all, l, log)
    BY <1>4, <2>8, <2>17, WiredMore, Zenon
  <2>19. Heard(all, l, log, clients)
    BY <1>4, <2>8, <2>14, HeardMore, Zenon
  <2>20. Slotted(Output(r), all, l, log, clients)
    BY <2>13, <2>14, SlottedMore, Zenon
  <2> QED BY <2>5, <2>10, <2>14, <2>18, <2>19, <2>20, Zenon DEF Send
<1> QED BY <1>1, <1>7, <1>8

---------------------------------------------------------------------------
(* The calls of the framing code.                                          *)

(* Calls that leave the send side of their slot alone.                     *)
StreamKept == /\ toClient' = toClient /\ clients' = clients /\ nsyn' = nsyn
              /\ nput' = nput /\ log' = log

LEMMA OneSend ==
  ASSUME SendInv, StreamKept, NEW k \in Slots, NEW d, conns' = [conns EXCEPT ![k] = d],
         Live(d) => /\ d.tstate = conns[k].tstate /\ d.id = conns[k].id
                    /\ d.peer = conns[k].peer /\ d.snd_una = conns[k].snd_una
                    /\ d.snd_nxt = conns[k].snd_nxt /\ d.s_una = conns[k].s_una
                    /\ d.s_end = conns[k].s_end /\ d.sbuf = conns[k].sbuf
  PROVE  Send'
<1> DEFINE c == conns[k]
<1>1. conns \in [Slots -> Conn]
  BY SendTypes
<1>2. /\ Slotted(conns, toClient, nsyn, log, clients) /\ Wired(toClient, nsyn, log)
      /\ Heard(toClient, nsyn, log, clients) /\ Queued(nsyn, log, nput)
  BY DEF SendInv, Send
<1>3. ASSUME Live(d)
      PROVE  /\ Placed(d, toClient, nsyn) /\ Flow(d, log[d.id], clients[d.peer])
             /\ Fits(conns, k, d)
  <2>1. Live(c)
    BY <1>3 DEF Live
  <2>2. Placed(c, toClient, nsyn) /\ Flow(c, log[c.id], clients[c.peer])
    BY <1>2, <2>1, Zenon DEF Slotted
  <2>3. Flow(d, log[c.id], clients[c.peer])
    BY <1>3, <2>2, SameFlow, Zenon
  <2> QED BY <1>3, <2>1, <2>2, <2>3, Zenon DEF Placed, Fits
<1>4. Slotted([conns EXCEPT ![k] = d], toClient, nsyn, log, clients)
  BY <1>1, <1>2, <1>3, SlottedOne, Zenon
<1> QED BY <1>2, <1>4, Zenon DEF Send, StreamKept

LEMMA TakeNewSend == ASSUME SendInv, net_take_new_slot PROVE Send'
<1> DEFINE k == First({i \in Slots : conns[i].just_estab})
           c == conns[k]
           d == [c EXCEPT !.just_estab = FALSE]
<1>1. k \in Slots
  <2>1. k \in {i \in Slots : conns[i].just_estab}
    BY FirstIn DEF net_take_new_slot
  <2> QED BY <2>1
<1>2. conns' = [conns EXCEPT ![k] = d] /\ StreamKept
  BY Zenon DEF net_take_new_slot, StreamKept
<1> HIDE DEF k
<1>3. c \in Conn
  BY <1>1, SendTypes
<1>4. /\ d.tstate = c.tstate /\ d.id = c.id /\ d.peer = c.peer /\ d.snd_una = c.snd_una
      /\ d.snd_nxt = c.snd_nxt /\ d.s_una = c.s_una /\ d.s_end = c.s_end /\ d.sbuf = c.sbuf
  BY <1>3, Zenon DEF Conn
<1> HIDE DEF d
<1> QED BY <1>1, <1>2, <1>4, OneSend, Zenon

LEMMA ReadySend == ASSUME SendInv, NEW k \in Slots, net_slot_ready(k) PROVE Send'
<1> DEFINE c == conns[k]
           d == [c EXCEPT !.ready = TRUE]
<1>1. conns' = [conns EXCEPT ![k] = d] /\ StreamKept
  BY Zenon DEF net_slot_ready, StreamKept
<1>2. c \in Conn
  BY SendTypes
<1>3. /\ d.tstate = c.tstate /\ d.id = c.id /\ d.peer = c.peer /\ d.snd_una = c.snd_una
      /\ d.snd_nxt = c.snd_nxt /\ d.s_una = c.s_una /\ d.s_end = c.s_end /\ d.sbuf = c.sbuf
  BY <1>2, Zenon DEF Conn
<1> HIDE DEF d
<1> QED BY <1>1, <1>3, OneSend, Zenon

LEMMA GetcSend == ASSUME SendInv, NEW k \in Slots, net_rx_getc(k) PROVE Send'
<1> DEFINE c == conns[k]
           d == [c EXCEPT !.r_tail = Add(@, 1, RCV_SZ)]
<1>1. conns' = [conns EXCEPT ![k] = d] /\ StreamKept
  BY Zenon DEF net_rx_getc, StreamKept
<1>2. c \in Conn
  BY SendTypes
<1>3. /\ d.tstate = c.tstate /\ d.id = c.id /\ d.peer = c.peer /\ d.snd_una = c.snd_una
      /\ d.snd_nxt = c.snd_nxt /\ d.s_una = c.s_una /\ d.s_end = c.s_end /\ d.sbuf = c.sbuf
  BY <1>2, Zenon DEF Conn
<1> HIDE DEF d
<1> QED BY <1>1, <1>3, OneSend, Zenon

LEMMA DropSend == ASSUME SendInv, NEW k \in Slots, net_slot_drop(k) PROVE Send'
<1> DEFINE c == conns[k]
           d == tcp_reset_listen(c)
           s == tcp_send_seg(c, {"RST", "ACK"}, c.snd_nxt, 0, 0)
           more == IF c.tstate = "ESTAB" THEN {s} ELSE {}
           all == toClient \cup more
<1>1. conns \in [Slots -> Conn] /\ c \in Conn
  BY SendTypes
<1>2. /\ Slotted(conns, toClient, nsyn, log, clients) /\ Wired(toClient, nsyn, log)
      /\ Heard(toClient, nsyn, log, clients) /\ Queued(nsyn, log, nput)
  BY DEF SendInv, Send
<1>3. /\ conns' = [conns EXCEPT ![k] = d] /\ toClient' = all
      /\ clients' = clients /\ nsyn' = nsyn /\ nput' = nput /\ log' = log
  BY DEF net_slot_drop
<1>4. s.flags = {"RST", "ACK"} /\ s.data = <<>>
  BY NoData
<1>5. s.flags # {"SYN", "ACK"}
  BY <1>4
<1>6. ~Live(d)
  BY <1>1, ResetListens
<1> HIDE DEF c, d, s
<1>7. \A r \in more : Honest(r, all, nsyn, log)
  <2> SUFFICES ASSUME NEW r \in more PROVE Honest(r, all, nsyn, log)
    OBVIOUS
  <2>1. r = s
    OBVIOUS
  <2> QED BY <1>4, <1>5, <2>1, Zenon DEF Honest
<1>8. toClient \subseteq all /\ 1..nsyn \subseteq 1..nsyn
  OBVIOUS
<1> HIDE DEF more
<1>9. Wired(all, nsyn, log)
  BY <1>2, <1>7, <1>8, WiredMore, Zenon
<1>10. Heard(all, nsyn, log, clients)
  BY <1>2, <1>8, HeardMore, Zenon
<1>11. Slotted(conns, all, nsyn, log, clients)
  BY <1>2, <1>8, SlottedMore, Zenon
<1>12. Slotted([conns EXCEPT ![k] = d], all, nsyn, log, clients)
  BY <1>1, <1>6, <1>11, SlottedOne, Zenon
<1> QED BY <1>2, <1>3, <1>9, <1>10, <1>12, Zenon DEF Send

LEMMA FlushSend == ASSUME SendInv, net_tx_flush PROVE Send'
<1> DEFINE out == AllOutputSegs(conns)
           all == toClient \cup out
<1>1. Table(conns) /\ Typical(nsyn, log, clients)
  BY SendTypes
<1>2. /\ Slotted(conns, toClient, nsyn, log, clients) /\ Wired(toClient, nsyn, log)
      /\ Heard(toClient, nsyn, log, clients) /\ Queued(nsyn, log, nput)
  BY DEF SendInv, Send
<1>3. /\ conns' = Output(conns) /\ toClient' = all
      /\ clients' = clients /\ nsyn' = nsyn /\ nput' = nput /\ log' = log
  BY DEF net_tx_flush
<1>4. /\ Slotted(Output(conns), toClient, nsyn, log, clients)
      /\ \A s \in out : Honest(s, toClient, nsyn, log)
  BY <1>1, <1>2, OutputSlotted
<1>5. toClient \subseteq all /\ 1..nsyn \subseteq 1..nsyn
  OBVIOUS
<1> HIDE DEF out
<1>6. \A s \in out : Honest(s, all, nsyn, log)
  BY <1>4, <1>5, HonestMore, Zenon
<1>7. Wired(all, nsyn, log)
  BY <1>2, <1>5, <1>6, WiredMore, Zenon
<1>8. Heard(all, nsyn, log, clients)
  BY <1>2, <1>5, HeardMore, Zenon
<1>9. Slotted(Output(conns), all, nsyn, log, clients)
  BY <1>4, <1>5, SlottedMore, Zenon
<1> QED BY <1>2, <1>3, <1>7, <1>8, <1>9, Zenon DEF Send

LEMMA LoggedGrows ==
  ASSUME TypeOK, nput < MaxPut, NEW N, NEW n \in Ids, Len(log[n]) <= nput
  PROVE  /\ log[n] \in Seq(Byte) /\ Logged(N)[n] \in Seq(Byte)
         /\ Grows(log[n], Logged(N)[n]) /\ Len(Logged(N)[n]) <= nput + 1
<1> DEFINE L == log[n]
           M == Append(L, nput + 1)
<1>1. nput + 1 \in Byte /\ nput \in Nat /\ Logged(N) \in [Ids -> Seq(Byte)]
  BY LoggedType DEF TypeOK, Byte
<1>2. L \in Seq(Byte) /\ Logged(N)[n] \in Seq(Byte)
  BY <1>1, Zenon DEF TypeOK
<1>3. Logged(N)[n] = M \/ Logged(N)[n] = L
  BY Zenon DEF Logged
<1> HIDE DEF L
<1>4. /\ M \in Seq(Byte) /\ Len(M) = Len(L) + 1 /\ Len(L) \in Nat
      /\ \A k \in 1..Len(L) : M[k] = L[k]
  BY <1>1, <1>2
<1>5. Len(L) <= nput
  BY DEF L
<1> HIDE DEF M
<1>6. Grows(L, M) /\ Grows(L, L) /\ Len(M) <= nput + 1 /\ Len(L) <= nput + 1
  BY <1>1, <1>4, <1>5 DEF Grows
<1>7. Grows(L, Logged(N)[n]) /\ Len(Logged(N)[n]) <= nput + 1
  BY <1>3, <1>6, Zenon
<1> QED BY <1>2, <1>7 DEF L

(* One byte is queued for the slots of S and recorded for their            *)
(* connections and, if it is broadcast, under 0; any other slot may be     *)
(* dropped.                                                                *)
Queueing(S, N) ==
  /\ N = IdsOf(S) \/ N = {0} \cup IdsOf(S)
  /\ S \subseteq Slots /\ nput < MaxPut /\ nput' = nput + 1 /\ log' = Logged(N)
  /\ \A i \in S : Live(conns[i]) /\ ~SndFull(conns[i])
  /\ \A i \in Slots : Live(conns'[i])
       => /\ Live(conns[i])
          /\ conns'[i] = IF i \in S THEN Append1(conns[i], nput + 1) ELSE conns[i]
  /\ toClient' = toClient /\ clients' = clients /\ nsyn' = nsyn

LEMMA PutWired ==
  ASSUME SendInv, NEW S, NEW N, Queueing(S, N)
  PROVE  Wired(toClient, nsyn, Logged(N)) /\ Heard(toClient, nsyn, Logged(N), clients)
         /\ Queued(nsyn, Logged(N), nput + 1)
<1>1. /\ TypeOK /\ nsyn \in Nat /\ 1..nsyn \subseteq Ids /\ nput < MaxPut
      /\ clients \in [Clients -> Client]
  BY SendTypes DEF Typical, Ids, Queueing
<1>2. /\ Slotted(conns, toClient, nsyn, log, clients) /\ Wired(toClient, nsyn, log)
      /\ Heard(toClient, nsyn, log, clients) /\ Queued(nsyn, log, nput)
  BY DEF SendInv, Send
<1>3. \A n \in Ids : /\ log[n] \in Seq(Byte) /\ Logged(N)[n] \in Seq(Byte)
                     /\ Grows(log[n], Logged(N)[n]) /\ Len(Logged(N)[n]) <= nput + 1
  BY <1>1, <1>2, LoggedGrows, Zenon DEF Queued
<1>4. Wired(toClient, nsyn, Logged(N))
  <2> SUFFICES ASSUME NEW s \in toClient PROVE Honest(s, toClient, nsyn, Logged(N))
    BY DEF Wired
  <2>1. Honest(s, toClient, nsyn, log) /\ s.data \in Seq(Byte)
    BY <1>1, <1>2, Zenon DEF Wired, TypeOK, SegOut
  <2>2. ASSUME s.data # <<>> PROVE Stretch(s, Logged(N)[s.id])
    <3>1. s.id \in Ids /\ Stretch(s, log[s.id])
      BY <1>1, <2>1, <2>2, Zenon DEF Honest
    <3> QED BY <1>3, <2>1, <3>1, StretchGrows, Zenon
  <2> QED BY <2>1, <2>2, Zenon DEF Honest
<1>5. Heard(toClient, nsyn, Logged(N), clients)
  <2> SUFFICES ASSUME NEW x \in Clients
               PROVE  Agrees(x, clients[x], toClient, nsyn, Logged(N))
    BY DEF Heard
  <2> DEFINE p == clients[x]
  <2>1. Agrees(x, p, toClient, nsyn, log) /\ p.got \in Seq(Byte)
    BY <1>1, <1>2, Zenon DEF Heard, Client
  <2>2. ASSUME p.id # 0 PROVE Took(p, Logged(N)[p.id])
    <3>1. p.id \in Ids /\ Took(p, log[p.id])
      BY <1>1, <2>1, <2>2, Zenon DEF Agrees
    <3> QED BY <1>3, <2>1, <3>1, TookGrows, Zenon
  <2> QED BY <2>1, <2>2, Zenon DEF Agrees
<1>6. Queued(nsyn, Logged(N), nput + 1)
  <2> SUFFICES ASSUME NEW k \in Ids PROVE k > nsyn => Logged(N)[k] = <<>>
    BY <1>3 DEF Queued
  <2>1. ASSUME k > nsyn, NEW i \in S PROVE conns[i].id # k
    <3>1. conns[i].id \in 1..nsyn
      BY <1>2, Zenon DEF Queueing, Slotted, Placed
    <3> QED BY <1>1, <2>1, <3>1
  <2>2. k > nsyn => k # 0
    BY <1>1
  <2>3. k > nsyn => Logged(N)[k] = log[k]
    BY <2>1, <2>2, Zenon DEF Logged, IdsOf, Queueing
  <2> QED BY <1>2, <2>3, Zenon DEF Queued
<1> QED BY <1>4, <1>5, <1>6

LEMMA PutSend == ASSUME SendInv, NEW S, NEW N, Queueing(S, N) PROVE Send'
<1> DEFINE b == nput + 1
<1>1. TypeOK /\ Table(conns) /\ conns \in [Slots -> Conn] /\ Typical(nsyn, log, clients)
  BY SendTypes
<1>2. Slotted(conns, toClient, nsyn, log, clients)
  BY DEF SendInv, Send
<1>3. b \in Byte
  BY <1>1, LoggedType DEF Queueing
<1> HIDE DEF b
<1>4. ASSUME NEW i \in Slots, Live(conns'[i])
      PROVE  /\ Placed(conns'[i], toClient, nsyn)
             /\ Flow(conns'[i], Logged(N)[conns'[i].id], clients[conns'[i].peer])
             /\ Live(conns[i]) /\ conns'[i].id = conns[i].id
  <2> DEFINE c == conns[i]
             L == log[c.id]
             p == clients[c.peer]
  <2>1. Live(c) /\ conns'[i] = IF i \in S THEN Append1(c, b) ELSE c
    BY <1>4, Zenon DEF Queueing, b
  <2>2. c \in Conn /\ Placed(c, toClient, nsyn) /\ Flow(c, L, p) /\ L \in Seq(Byte)
    BY <1>1, <1>2, <2>1, SlotFacts
  <2>3. c.id \in Ids
    BY <2>2, Zenon DEF Conn
  <2>4. CASE i \in S
    <3>1. Logged(N)[c.id] = Append(L, b)
      <4>1. c.id \in N
        BY <2>4, Zenon DEF Queueing, IdsOf
      <4> QED BY <2>3, <4>1, Zenon DEF Logged, b
    <3>2. ~SndFull(c)
      BY <2>4, Zenon DEF Queueing
    <3> HIDE DEF c, L, p
    <3>3. /\ Flow(Append1(c, b), Append(L, b), p)
          /\ Append1(c, b).id = c.id /\ Append1(c, b).peer = c.peer
      BY <1>3, <2>2, <3>2, AppendFlow
    <3>4. conns'[i] = Append1(c, b)
      BY <2>1, <2>4
    <3> QED BY <2>1, <2>2, <3>1, <3>3, <3>4, Zenon DEF Placed, c, L, p
  <2>5. CASE i \notin S
    <3>1. ASSUME NEW j \in S PROVE conns[j].id # c.id
      <4>1. \A h, j2 \in Slots : Live(conns[h]) /\ Live(conns[j2]) /\ conns[h].id = conns[j2].id
              => h = j2
        BY <1>2, Zenon DEF Slotted, Owners
      <4>2. j \in Slots /\ Live(conns[j]) /\ j # i
        BY <2>5, <3>1, Zenon DEF Queueing
      <4> QED BY <2>1, <4>1, <4>2, Zenon
    <3>2. Logged(N)[c.id] = L
      <4>1. c.id \in 1..nsyn
        BY <2>2, Zenon DEF Placed
      <4>2. c.id # 0
        BY <4>1
      <4>3. c.id \notin N
        BY <3>1, <4>2, Zenon DEF Queueing, IdsOf
      <4> QED BY <2>3, <4>3, Zenon DEF Logged
    <3>3. conns'[i] = c
      BY <2>1, <2>5, Zenon
    <3> QED BY <2>1, <2>2, <3>2, <3>3, Zenon
  <2> QED BY <2>4, <2>5
<1>5. Slotted(conns', toClient, nsyn, Logged(N), clients)
  <2>1. Heirs(conns, conns') /\ Owners(conns)
    BY <1>2, <1>4, Zenon DEF Heirs, Slotted
  <2>2. Owners(conns')
    BY <2>1, OwnersKept, Zenon
  <2> QED BY <1>4, <2>2, Zenon DEF Slotted
<1>6. /\ Wired(toClient, nsyn, Logged(N)) /\ Heard(toClient, nsyn, Logged(N), clients)
      /\ Queued(nsyn, Logged(N), nput + 1)
  BY PutWired
<1> QED BY <1>5, <1>6, Zenon DEF Send, Queueing

LEMMA PutcSlotSend == ASSUME SendInv, NEW k \in Slots, net_tx_putc_slot(k) PROVE Send'
<1> DEFINE S == {k} \ {j \in Slots : conns[j].tstate = "LISTEN"}
           d == Append1(conns[k], nput + 1)
<1>1. /\ conns' = [conns EXCEPT ![k] = d] /\ ~SndFull(conns[k]) /\ nput < MaxPut
      /\ nput' = nput + 1 /\ log' = Logged(IdsOf(S))
      /\ toClient' = toClient /\ clients' = clients /\ nsyn' = nsyn
  BY DEF net_tx_putc_slot, MorePut
<1>2. conns \in [Slots -> Conn]
  BY SendTypes
<1>3. d.tstate = conns[k].tstate
  BY <1>2, Zenon DEF Append1, Conn
<1>4. \A i \in Slots : conns'[i] = IF i = k THEN d ELSE conns[i]
  BY <1>1, <1>2, Zenon
<1>5. S \subseteq Slots /\ \A i \in Slots : i \in S <=> i = k /\ Live(conns[i])
  BY DEF Live
<1> HIDE DEF S
<1>6. \A i \in S : Live(conns[i]) /\ ~SndFull(conns[i])
  BY <1>1, <1>5, Zenon
<1>7. ASSUME NEW i \in Slots, Live(conns'[i])
      PROVE  /\ Live(conns[i])
             /\ conns'[i] = IF i \in S THEN Append1(conns[i], nput + 1) ELSE conns[i]
  <2>1. CASE i = k
    <3>1. Live(conns[i])
      BY <1>3, <1>4, <1>7, <2>1, Zenon DEF Live
    <3> QED BY <1>4, <1>5, <2>1, <3>1, Zenon
  <2>2. CASE i # k
    BY <1>4, <1>5, <1>7, <2>2, Zenon
  <2> QED BY <2>1, <2>2
<1> HIDE DEF d
<1>8. Queueing(S, IdsOf(S))
  BY <1>1, <1>5, <1>6, <1>7, Zenon DEF Queueing
<1> QED BY <1>8, PutSend

LEMMA PutcSend == ASSUME SendInv, net_tx_putc PROVE Send'
<1>1. /\ conns \in [Slots -> Conn] /\ TypeOK /\ nput < MaxPut
      /\ Slotted(conns, toClient, nsyn, log, clients)
      /\ toClient' = toClient /\ clients' = clients /\ nsyn' = nsyn
  BY SendTypes DEF SendInv, Send, net_tx_putc, MorePut
<1>2. \A i \in Slots : Culled[i] = IF i \in Dead THEN tcp_reset_listen(conns[i]) ELSE conns[i]
  BY Zenon DEF Culled
<1>3. ASSUME NEW i \in Slots, Live(Culled[i]) PROVE i \notin Dead /\ Culled[i] = conns[i]
  <2>1. ~Live(tcp_reset_listen(conns[i]))
    BY <1>1, ResetListens
  <2> QED BY <1>2, <1>3, <2>1, Zenon
<1>4. CASE Slow # {}
  <2>1. conns' = Culled /\ nput' = nput /\ log' = log
    BY <1>4 DEF net_tx_putc
  <2>2. Slotted(Culled, toClient, nsyn, log, clients)
    <3>1. Heirs(conns, Culled) /\ Owners(conns)
      BY <1>1, <1>3, Zenon DEF Heirs, Slotted
    <3>2. Owners(Culled)
      BY <3>1, OwnersKept, Zenon
    <3> QED BY <1>1, <1>3, <3>2, Zenon DEF Slotted
  <2> QED BY <1>1, <2>1, <2>2, Zenon DEF Send, SendInv
<1>5. CASE Slow = {}
  <2> DEFINE S == Audience(Culled)
             ds == [i \in Slots |-> IF i \in S THEN Append1(Culled[i], nput + 1) ELSE Culled[i]]
  <2>1. conns' = ds /\ nput' = nput + 1 /\ log' = Logged({0} \cup IdsOf(S))
    BY <1>5, Zenon DEF net_tx_putc
  <2>2. \A i \in Slots : conns'[i] = IF i \in S THEN Append1(Culled[i], nput + 1) ELSE Culled[i]
    BY <2>1, Zenon
  <2> HIDE DEF ds
  <2>3. ASSUME NEW i \in S
        PROVE  i \in Slots /\ Live(conns[i]) /\ ~SndFull(conns[i]) /\ Culled[i] = conns[i]
    <3>1. i \in Slots /\ Culled[i].tstate = "ESTAB" /\ Culled[i].ready
      BY <2>3, Zenon DEF Audience
    <3>2. Live(Culled[i])
      BY <3>1 DEF Live
    <3>3. Culled[i] = conns[i] /\ i \notin Dead
      BY <1>3, <3>1, <3>2, Zenon
    <3>4. i \in Audience(conns)
      BY <3>1, <3>3, Zenon DEF Audience
    <3>5. conns[i].rexmit_count \in 0..MAX_REXMIT
      BY <1>1, <3>1, Zenon DEF Conn
    <3>6. conns[i].rexmit_count = 0 \/ conns[i].rexmit_count > 0
      BY <3>5, SizesAssumption
    <3>7. ~SndFull(conns[i])
      BY <1>5, <3>3, <3>4, <3>6, Zenon DEF Slow, Dead
    <3> QED BY <3>1, <3>2, <3>3, <3>7, Zenon
  <2>4. ASSUME NEW i \in Slots, Live(conns'[i])
        PROVE  /\ Live(conns[i])
               /\ conns'[i] = IF i \in S THEN Append1(conns[i], nput + 1) ELSE conns[i]
    <3>1. CASE i \in S
      BY <2>2, <2>3, <3>1, Zenon
    <3>2. CASE i \notin S
      BY <1>3, <2>2, <2>4, <3>2, Zenon
    <3> QED BY <3>1, <3>2
  <2>5. S \subseteq Slots
    BY <2>3, Zenon
  <2> HIDE DEF S
  <2>6. \A i \in S : Live(conns[i]) /\ ~SndFull(conns[i])
    BY <2>3, Zenon
  <2>7. Queueing(S, {0} \cup IdsOf(S))
    BY <1>1, <2>1, <2>4, <2>5, <2>6, Zenon DEF Queueing
  <2> QED BY <2>7, PutSend
<1> QED BY <1>4, <1>5

---------------------------------------------------------------------------
(* The clients.                                                            *)

(* One client changes: what it had received it still has.                  *)
Client1(x, q) ==
  /\ clients' = [clients EXCEPT ![x] = q]
  /\ conns' = conns /\ toClient' = toClient /\ nsyn' = nsyn /\ nput' = nput /\ log' = log
  /\ Agrees(x, q, toClient, nsyn, log)
  /\ clients[x].id # 0 => q.id = clients[x].id /\ Len(clients[x].got) <= Len(q.got)

LEMMA ClientSend ==
  ASSUME SendInv, NEW x \in Clients, NEW q \in Client, Client1(x, q)
  PROVE  Send'
<1> DEFINE cl == [clients EXCEPT ![x] = q]
           p == clients[x]
<1>1. clients \in [Clients -> Client] /\ p \in Client
  BY SendTypes DEF Typical
<1>2. /\ Slotted(conns, toClient, nsyn, log, clients) /\ Wired(toClient, nsyn, log)
      /\ Heard(toClient, nsyn, log, clients) /\ Queued(nsyn, log, nput)
  BY DEF SendInv, Send
<1>3. \A y \in Clients : cl[y] = IF y = x THEN q ELSE clients[y]
  BY <1>1, Zenon
<1> HIDE DEF cl
<1>4. Heard(toClient, nsyn, log, cl)
  BY <1>2, <1>3, Zenon DEF Heard, Client1
<1>5. ASSUME NEW i \in Slots, Live(conns[i])
      PROVE  /\ Placed(conns[i], toClient, nsyn)
             /\ Flow(conns[i], log[conns[i].id], cl[conns[i].peer])
  <2> DEFINE c == conns[i]
             L == log[c.id]
  <2>1. Placed(c, toClient, nsyn) /\ Flow(c, L, clients[c.peer])
    BY <1>2, <1>5, Zenon DEF Slotted
  <2>2. CASE c.peer # x
    BY <1>3, <2>1, <2>2, Zenon DEF Placed
  <2>3. CASE c.peer = x
    <3>1. cl[c.peer] = q /\ Flow(c, L, p)
      BY <1>3, <2>1, <2>3, Zenon
    <3>2. ASSUME c.tstate = "ESTAB" PROVE q.id = c.id /\ Freed(c, L) <= Len(q.got)
      <4>1. p.id = c.id /\ Freed(c, L) <= Len(p.got) /\ c.id # 0
        <5>1. c.id \in 1..nsyn
          BY <2>1, Zenon DEF Placed
        <5>2. c.id # 0
          BY <5>1
        <5> QED BY <3>1, <3>2, <5>2, Zenon DEF Flow
      <4>2. q.id = p.id /\ Len(p.got) <= Len(q.got)
        BY <4>1, Zenon DEF Client1
      <4>3. p.got \in Seq(Byte) /\ q.got \in Seq(Byte)
        BY <1>1, Zenon DEF Client
      <4>4. Len(p.got) \in Nat /\ Len(q.got) \in Nat
        BY <4>3
      <4>5. Freed(c, L) \in Int
        <5>1. /\ Table(conns) /\ Typical(nsyn, log, clients)
          BY SendTypes
        <5>2. Good(c) /\ L \in Seq(Byte) /\ c \in Conn
          BY <1>2, <1>5, <5>1, SlotFacts
        <5>3. Used(c) \in Int
          BY <5>2, Derived, Integral, Zenon
        <5> QED BY <5>2, <5>3 DEF Freed
      <4> HIDE DEF c, L, p
      <4> QED BY <4>1, <4>2, <4>4, <4>5
    <3>3. Flow(c, L, q)
      BY <3>1, <3>2, Zenon DEF Flow
    <3> QED BY <2>1, <3>1, <3>3, Zenon
  <2> QED BY <2>2, <2>3
<1>6. Slotted(conns, toClient, nsyn, log, cl)
  BY <1>2, <1>5, Zenon DEF Slotted
<1> QED BY <1>2, <1>4, <1>6, Zenon DEF Send, Client1, cl

(* The client changes nothing but its state and the keys it typed.         *)
LEMMA QuietClient ==
  ASSUME SendInv, NEW x \in Clients, NEW q \in Client,
         clients' = [clients EXCEPT ![x] = q],
         conns' = conns, toClient' = toClient, nsyn' = nsyn, nput' = nput, log' = log,
         q.id = clients[x].id, q.rcv_nxt = clients[x].rcv_nxt, q.acks = clients[x].acks,
         q.got = clients[x].got,
         q.st \in {"closed", "synsent"} => clients[x].id = 0,
         q.st \in {"estab", "finished"} => clients[x].id # 0
  PROVE  Send'
<1> DEFINE p == clients[x]
<1>1. Agrees(x, p, toClient, nsyn, log)
  BY Zenon DEF SendInv, Send, Heard
<1>2. p.id # 0 => Took(q, log[q.id])
  BY <1>1, Zenon DEF Agrees, Took
<1>3. Agrees(x, q, toClient, nsyn, log)
  BY <1>1, <1>2, Zenon DEF Agrees
<1>4. p \in Client
  BY SendTypes DEF Typical
<1>5. p.got \in Seq(Byte)
  BY <1>4, Zenon DEF Client
<1>6. Len(p.got) <= Len(q.got)
  <2>1. Len(p.got) \in Nat
    BY <1>5
  <2>2. Len(p.got) <= Len(p.got)
    BY <2>1
  <2> QED BY <2>2, Zenon
<1>7. Client1(x, q)
  BY <1>3, <1>6, Zenon DEF Client1
<1> QED BY <1>7, ClientSend

(* The client takes the SYN|ACK: it has none of the bytes yet.             *)
SynAckTaken(x, p, q, s) ==
  /\ p.st = "synsent" /\ s.dst = x /\ s.flags = {"SYN", "ACK"}
  /\ q.st = "estab" /\ q.id = s.id /\ q.rcv_nxt = Add(s.seq, 1, SEQ)
  /\ q.acks = {Add(s.seq, 1, SEQ)} /\ q.got = p.got

LEMMA SynAckSend ==
  ASSUME SendInv, NEW x \in Clients, NEW q \in Client, NEW s \in toClient,
         clients' = [clients EXCEPT ![x] = q],
         conns' = conns, toClient' = toClient, nsyn' = nsyn, nput' = nput, log' = log,
         SynAckTaken(x, clients[x], q, s)
  PROVE  Send'
<1> USE DEF SynAckTaken
<1> DEFINE p == clients[x]
<1>1. p.id = 0 /\ p.got = <<>>
  <2>1. Agrees(x, p, toClient, nsyn, log)
    BY Zenon DEF SendInv, Send, Heard
  <2> QED BY <2>1, Zenon DEF Agrees
<1>2. s.id \in 1..nsyn /\ s.seq = ISS[s.id]
  BY Zenon DEF SendInv, Send, Wired, Honest
<1>3. Opened(x, s.id, toClient)
  BY Zenon DEF Opened
<1>4. Len(q.got) = 0
  BY <1>1
<1>5. 1 + 0 = 1 /\ 0 \in 0..0
  OBVIOUS
<1>6. q.rcv_nxt = ByteSeq(q.id, 0) /\ q.acks = {ByteSeq(q.id, 0)}
  BY <1>2, <1>5, Zenon DEF ByteSeq
<1>7. log[s.id] \in Seq(Byte) /\ nsyn \in Nat /\ s.id # 0
  <2>1. Typical(nsyn, log, clients) /\ nsyn \in Nat
    BY SendTypes
  <2>2. s.id \in Ids /\ s.id # 0
    BY <1>2, <2>1 DEF Typical, Ids
  <2> QED BY <2>1, <2>2, Zenon DEF Typical
<1>8. Took(q, log[q.id])
  <2>1. Len(q.got) <= Len(log[q.id])
    BY <1>4, <1>7
  <2>2. \A k \in 1..Len(q.got) : q.got[k] = log[q.id][k]
    BY <1>4
  <2>3. \A a \in q.acks : \E j \in 0..Len(q.got) : a = ByteSeq(q.id, j)
    BY <1>4, <1>5, <1>6, Zenon
  <2> QED BY <1>4, <1>6, <2>1, <2>2, <2>3, Zenon DEF Took
<1>9. Agrees(x, q, toClient, nsyn, log)
  <2>1. q.st \notin {"closed", "synsent"} /\ q.id # 0
    BY <1>7
  <2> QED BY <1>2, <1>3, <1>8, <2>1, Zenon DEF Agrees
<1>10. Client1(x, q)
  BY <1>1, <1>9, Zenon DEF Client1
<1> QED BY <1>10, ClientSend

DataTaken(x, p, q, s, h) ==
  /\ s.dst = x /\ p.st \in {"estab", "finished"}
  /\ h = Sub(p.rcv_nxt, s.seq, SEQ) /\ h < Len(s.data)
  /\ q.st = p.st /\ q.id = p.id
  /\ q.rcv_nxt = Add(s.seq, Len(s.data), SEQ)
  /\ q.acks = p.acks \cup {Add(s.seq, Len(s.data), SEQ)}
  /\ q.got = p.got \o SubSeq(s.data, h + 1, Len(s.data))

LEMMA DataSend ==
  ASSUME SendInv, ReopenedApart, NEW x \in Clients, NEW q \in Client, NEW s \in toClient,
         clients' = [clients EXCEPT ![x] = q],
         conns' = conns, toClient' = toClient, nsyn' = nsyn, nput' = nput, log' = log,
         NEW h, DataTaken(x, clients[x], q, s, h)
  PROVE  Send'
<1> DEFINE p == clients[x]
           L == log[s.id]
<1>0. /\ s.dst = x /\ p.st \in {"estab", "finished"}
      /\ h = Sub(p.rcv_nxt, s.seq, SEQ) /\ h < Len(s.data)
  BY Zenon DEF DataTaken
<1>1. Typical(nsyn, log, clients) /\ TypeOK /\ nsyn \in Nat
  BY SendTypes
<1>2. p \in Client /\ p.got \in Seq(Byte) /\ s.data \in Seq(Byte) /\ p.rcv_nxt \in SeqNum
  BY <1>1, Zenon DEF Typical, TypeOK, Client, SegOut
<1>3. Agrees(x, p, toClient, nsyn, log) /\ p.id # 0
  BY <1>0, Zenon DEF SendInv, Send, Heard, Agrees
<1>4. p.id \in 1..nsyn /\ Opened(x, p.id, toClient) /\ Took(p, log[p.id])
  BY <1>3, Zenon DEF Agrees
<1>5. s.seq \in SeqNum /\ h \in SeqNum
  <2>1. s.seq \in SeqNum
    BY <1>1, Zenon DEF TypeOK, SegOut
  <2> QED BY <1>0, <1>2, <2>1, SeqRange, Integral, Zenon
<1>6. h \in Nat /\ Len(s.data) \in Nat /\ h < Len(s.data)
  BY <1>0, <1>2, <1>5, BytesFit DEF SeqNum
<1>7. s.data # <<>>
  BY <1>6
<1>8. s.id \in 1..nsyn /\ Opened(x, s.id, toClient) /\ Stretch(s, L)
  BY <1>0, <1>7, Zenon DEF SendInv, Send, Wired, Honest
<1>9. PICK o \in 0..Len(L) : /\ s.seq = ByteSeq(s.id, o) /\ o + Len(s.data) <= Len(L)
                             /\ \A k \in 1..Len(s.data) : s.data[k] = L[o + k]
  BY <1>8, Zenon DEF Stretch
<1>10. \A n \in 1..nsyn : n \in 1..Len(ISS) /\ n \in Ids
  BY <1>1 DEF Typical, Ids
<1>11. /\ p.id \in 1..Len(ISS) /\ s.id \in 1..Len(ISS) /\ p.id \in Ids /\ s.id \in Ids
       /\ L \in Seq(Byte) /\ Len(L) <= MaxPut
       /\ log[p.id] \in Seq(Byte) /\ Len(log[p.id]) <= MaxPut
  BY <1>1, <1>4, <1>8, <1>10, Zenon DEF Typical
<1>12. s.id # p.id => Apart(s.id, p.id)
  BY <1>4, <1>8, <1>11, Zenon DEF ReopenedApart, Apart
<1>13. Len(p.got) <= Len(log[p.id]) /\ p.rcv_nxt = ByteSeq(p.id, Len(p.got))
  BY <1>4, Zenon DEF Took
<1>14. Len(p.got) \in 0..MaxPut /\ o \in 0..MaxPut /\ o + Len(s.data) <= MaxPut
  <2> DEFINE M == log[p.id]
             g == Len(p.got)
             d == Len(s.data)
             a == Len(L)
             b == Len(M)
  <2>1. M \in Seq(Byte) /\ b <= MaxPut /\ g <= b /\ a <= MaxPut /\ o \in 0..a /\ o + d <= a
    BY <1>9, <1>11, <1>13, Zenon
  <2> HIDE DEF M, L, p
  <2>2. g \in Nat
    BY <1>2
  <2>3. a \in Nat
    BY <1>11
  <2>4. b \in Nat
    BY <2>1
  <2>5. d \in Nat /\ MaxPut \in Nat
    BY <1>6, BytesFit
  <2> HIDE DEF g, d, a, b
  <2>6. g \in 0..MaxPut /\ o \in 0..MaxPut /\ o + d <= MaxPut
    BY <2>1, <2>2, <2>3, <2>4, <2>5
  <2> QED BY <2>6 DEF g, d
<1>15. h = Sub(ByteSeq(p.id, Len(p.got)), ByteSeq(s.id, o), SEQ)
  BY <1>0, <1>9, <1>13, Zenon
<1> HIDE DEF p, L
<1>16. s.id = p.id /\ o <= Len(p.got) /\ h = Len(p.got) - o
  <2> DEFINE n == p.id
             l == s.id
             g == Len(p.got)
             d == Len(s.data)
  <2>1. /\ n \in 1..Len(ISS) /\ l \in 1..Len(ISS) /\ (l # n => Apart(l, n))
        /\ g \in 0..MaxPut /\ o \in 0..MaxPut /\ d \in Nat /\ o + d <= MaxPut
        /\ Sub(ByteSeq(n, g), ByteSeq(l, o), SEQ) < d
        /\ h = Sub(ByteSeq(n, g), ByteSeq(l, o), SEQ)
    BY <1>6, <1>11, <1>12, <1>14, <1>15, Zenon
  <2> HIDE DEF n, l, g, d
  <2>2. l = n /\ o <= g /\ Sub(ByteSeq(n, g), ByteSeq(l, o), SEQ) = g - o
    BY <2>1, NewPlace
  <2> QED BY <2>1, <2>2, Zenon DEF n, l, g
<1>17. o + h = Len(p.got)
  BY <1>14, <1>16
<1>18. s.seq = ByteSeq(p.id, o) /\ L = log[p.id] /\ Took(p, L)
  BY <1>4, <1>9, <1>16, Zenon DEF L
<1>19. /\ q.id = p.id /\ q.rcv_nxt = Add(s.seq, Len(s.data), SEQ)
       /\ q.acks = p.acks \cup {Add(s.seq, Len(s.data), SEQ)}
       /\ q.got = p.got \o SubSeq(s.data, h + 1, Len(s.data)) /\ q.st = p.st
  BY Zenon DEF p, DataTaken
<1>20. Took(q, L) /\ Len(p.got) <= Len(q.got)
  BY <1>2, <1>6, <1>9, <1>11, <1>17, <1>18, <1>19, TookMore, Zenon
<1>21. Agrees(x, q, toClient, nsyn, log)
  BY <1>3, <1>4, <1>18, <1>19, <1>20, Zenon DEF Agrees
<1>22. Client1(x, q)
  BY <1>19, <1>20, <1>21, Zenon DEF Client1, p
<1> QED BY <1>22, ClientSend

LEMMA RecvSend ==
  ASSUME SendInv, ReopenedApart, NEW x \in Clients, NEW s \in toClient, ClientRecv(x, s),
         clients' \in [Clients -> Client]
  PROVE  Send'
<1> DEFINE p == clients[x]
           h == Sub(p.rcv_nxt, s.seq, SEQ)
<1>1. clients \in [Clients -> Client] /\ p \in Client
  BY SendTypes DEF Typical
<1>2. /\ conns' = conns /\ toClient' = toClient /\ nsyn' = nsyn /\ nput' = nput /\ log' = log
      /\ s.dst = x
  BY DEF ClientRecv
<1>3. CASE /\ p.st = "synsent" /\ s.flags = {"SYN", "ACK"}
           /\ clients' = [clients EXCEPT ![x].st = "estab", ![x].id = s.id,
                                         ![x].rcv_nxt = Add(s.seq, 1, SEQ),
                                         ![x].acks = {Add(s.seq, 1, SEQ)}]
  <2> DEFINE q == [p EXCEPT !.st = "estab", !.id = s.id, !.rcv_nxt = Add(s.seq, 1, SEQ),
                            !.acks = {Add(s.seq, 1, SEQ)}]
  <2>1. clients' = [clients EXCEPT ![x] = q]
    BY <1>1, <1>3
  <2>2. /\ q.st = "estab" /\ q.id = s.id /\ q.rcv_nxt = Add(s.seq, 1, SEQ)
        /\ q.acks = {Add(s.seq, 1, SEQ)} /\ q.got = p.got
    BY <1>1, Zenon DEF Client
  <2> HIDE DEF q
  <2>3. q \in Client
    BY <1>1, <2>1, Zenon
  <2>4. SynAckTaken(x, p, q, s)
    BY <1>2, <1>3, <2>2, Zenon DEF SynAckTaken
  <2> QED BY <1>2, <2>1, <2>3, <2>4, SynAckSend, Zenon
<1>4. CASE /\ p.st \in {"estab", "finished"} /\ h < Len(s.data)
           /\ clients' = [clients EXCEPT
                 ![x].rcv_nxt = Add(s.seq, Len(s.data), SEQ),
                 ![x].acks = @ \cup {Add(s.seq, Len(s.data), SEQ)},
                 ![x].got = @ \o SubSeq(s.data, h + 1, Len(s.data))]
  <2> DEFINE q == [p EXCEPT !.rcv_nxt = Add(s.seq, Len(s.data), SEQ),
                            !.acks = @ \cup {Add(s.seq, Len(s.data), SEQ)},
                            !.got = @ \o SubSeq(s.data, h + 1, Len(s.data))]
  <2>1. clients' = [clients EXCEPT ![x] = q]
    BY <1>1, <1>4
  <2>2. /\ q.st = p.st /\ q.id = p.id
        /\ q.rcv_nxt = Add(s.seq, Len(s.data), SEQ)
        /\ q.acks = p.acks \cup {Add(s.seq, Len(s.data), SEQ)}
        /\ q.got = p.got \o SubSeq(s.data, h + 1, Len(s.data))
    BY <1>1, Zenon DEF Client
  <2> HIDE DEF q
  <2>3. q \in Client
    BY <1>1, <2>1, Zenon
  <2>4. DataTaken(x, p, q, s, h)
    BY <1>2, <1>4, <2>2, Zenon DEF DataTaken
  <2> HIDE DEF h
  <2> QED BY <1>2, <2>1, <2>3, <2>4, DataSend, Zenon
<1>5. CASE clients' = [clients EXCEPT ![x].st = "gone"]
  <2> DEFINE q == [p EXCEPT !.st = "gone"]
  <2>1. clients' = [clients EXCEPT ![x] = q]
    BY <1>1, <1>5
  <2>2. /\ q.st = "gone" /\ q.id = p.id /\ q.rcv_nxt = p.rcv_nxt
        /\ q.acks = p.acks /\ q.got = p.got
    BY <1>1, Zenon DEF Client
  <2> HIDE DEF q
  <2>3. q \in Client
    BY <1>1, <2>1, Zenon
  <2>4. q.st \notin {"closed", "synsent"} /\ q.st \notin {"estab", "finished"}
    BY <2>2
  <2> QED BY <1>2, <2>1, <2>2, <2>3, <2>4, QuietClient, Zenon
<1> QED BY <1>3, <1>4, <1>5, Zenon DEF ClientRecv

LEMMA PeersSend == ASSUME SendInv, ReopenedApart, Peers PROVE Send'
<1>1. PICK x \in Clients :
        \/ Connect(x) \/ Type(x) \/ \E s \in toClient : ClientRecv(x, s)
        \/ \E how \in Endings : Leave(x, how)
  BY Zenon DEF Peers
<1> DEFINE p == clients[x]
<1>2. clients \in [Clients -> Client] /\ p \in Client /\ clients' \in [Clients -> Client]
  BY SendTypes, PeersType DEF Typical
<1>3. conns' = conns /\ toClient' = toClient /\ nsyn' = nsyn /\ nput' = nput /\ log' = log
  BY PeersFrame
<1>4. Agrees(x, p, toClient, nsyn, log)
  BY Zenon DEF SendInv, Send, Heard
<1>5. ASSUME NEW st, clients' = [clients EXCEPT ![x].st = st],
             st \in {"closed", "synsent"} => p.id = 0,
             st \in {"estab", "finished"} => p.id # 0
      PROVE  Send'
  <2> DEFINE q == [p EXCEPT !.st = st]
  <2>1. clients' = [clients EXCEPT ![x] = q]
    BY <1>2, <1>5
  <2>2. /\ q.st = st /\ q.id = p.id /\ q.rcv_nxt = p.rcv_nxt
        /\ q.acks = p.acks /\ q.got = p.got
    BY <1>2, Zenon DEF Client
  <2> HIDE DEF q
  <2>3. q \in Client
    BY <1>2, <2>1, Zenon
  <2> QED BY <1>3, <1>5, <2>1, <2>2, <2>3, QuietClient, Zenon
<1>6. CASE Connect(x)
  <2>1. p.id = 0 /\ clients' = [clients EXCEPT ![x].st = "synsent"]
    BY <1>4, <1>6 DEF Connect, Agrees
  <2> QED BY <1>5, <2>1
<1>7. CASE Type(x)
  <2> DEFINE q == [p EXCEPT !.typed = @ + 1]
  <2>1. clients' = [clients EXCEPT ![x] = q]
    BY <1>2, <1>7 DEF Type
  <2>2. /\ q.st = p.st /\ q.id = p.id /\ q.rcv_nxt = p.rcv_nxt
        /\ q.acks = p.acks /\ q.got = p.got
    BY <1>2, Zenon DEF Client
  <2> HIDE DEF q
  <2>3. q \in Client
    BY <1>2, <2>1, Zenon
  <2>4. /\ q.st \in {"closed", "synsent"} => p.id = 0
        /\ q.st \in {"estab", "finished"} => p.id # 0
    BY <1>4, <2>2, Zenon DEF Agrees
  <2> QED BY <1>3, <2>1, <2>2, <2>3, <2>4, QuietClient, Zenon
<1>8. CASE \E s \in toClient : ClientRecv(x, s)
  BY <1>2, <1>8, RecvSend, Zenon
<1>9. CASE \E how \in Endings : Leave(x, how)
  <2>1. PICK how \in Endings : Leave(x, how)
    BY <1>9
  <2>2. /\ clients' = [clients EXCEPT ![x].st = how]
        /\ how # "aborted" => p.st = "estab"
    BY <2>1 DEF Leave
  <2>3. how \in {"finished", "aborted", "gone"}
    BY EndpointAssumption
  <2>4. how \notin {"closed", "synsent"} /\ (how \in {"estab", "finished"} => p.id # 0)
    BY <1>4, <2>2, <2>3 DEF Agrees
  <2> QED BY <1>5, <2>2, <2>4
<1> QED BY <1>1, <1>6, <1>7, <1>8, <1>9

---------------------------------------------------------------------------
(* The invariant and the theorems.                                         *)

LEMMA SendStep == ASSUME SendInv, ReopenedApart, [Next]_vars PROVE SendInv'
<1>1. SlotInv'
  BY NextInv DEF SendInv
<1> SUFFICES Send'
  BY <1>1 DEF SendInv
<1>2. CASE Poll
  BY <1>2, PollSend
<1>3. CASE FramingCode
  BY <1>3, TakeNewSend, PutcSend, FlushSend, DropSend, ReadySend, PutcSlotSend, GetcSend,
     Zenon DEF FramingCode
<1>4. CASE Peers
  BY <1>4, PeersSend
<1>5. CASE UNCHANGED vars
  <2>1. /\ conns' = conns /\ toClient' = toClient /\ clients' = clients /\ nsyn' = nsyn
        /\ nput' = nput /\ log' = log
    BY <1>5 DEF vars
  <2> QED BY <2>1, Zenon DEF Send, SendInv
<1> QED BY <1>2, <1>3, <1>4, <1>5, Zenon DEF Next

LEMMA SendInit == Init => SendInv
<1> SUFFICES ASSUME Init PROVE SendInv
  OBVIOUS
<1>1. \A i \in Slots : ~Live(conns[i])
  BY Zenon DEF Init, NewConn, Live
<1>2. toClient = {} /\ nput = 0 /\ \A k \in Ids : log[k] = <<>>
  BY Zenon DEF Init
<1>3. \A x \in Clients : /\ clients[x].st = "closed" /\ clients[x].id = 0
                         /\ clients[x].acks = {} /\ clients[x].got = <<>>
  BY Zenon DEF Init
<1>4. Slotted(conns, toClient, nsyn, log, clients)
  BY <1>1, Zenon DEF Slotted, Owners
<1>5. Wired(toClient, nsyn, log)
  BY <1>2 DEF Wired
<1>6. Heard(toClient, nsyn, log, clients)
  BY <1>3 DEF Heard, Agrees
<1>7. Queued(nsyn, log, nput)
  BY <1>2 DEF Queued
<1> QED BY <1>4, <1>5, <1>6, <1>7, InitInv DEF SendInv, Send

LEMMA SendInvariance == Spec /\ []ReopenedApart => []SendInv
<1>1. SendInv /\ ReopenedApart /\ [Next]_vars => SendInv'
  BY SendStep
<1> QED BY <1>1, SendInit, PTL DEF Spec

LEMMA TookPrefix ==
  ASSUME NEW got \in Seq(Byte), NEW L \in Seq(Byte), Len(got) <= Len(L),
         \A k \in 1..Len(got) : got[k] = L[k]
  PROVE  got = SubSeq(L, 1, Len(got))
<1> DEFINE n == Len(got)
           t == SubSeq(L, 1, n)
<1>1. n \in Nat /\ Len(L) \in Nat /\ n <= Len(L)
  OBVIOUS
<1>2. t \in Seq(Byte) /\ Len(t) = n /\ \A k \in 1..n : t[k] = L[k]
  <2>1. n \in 0..Len(L)
    BY <1>1
  <2> QED BY <2>1, PrefixSeq
<1> HIDE DEF t
<1>3. \A k \in 1..n : got[k] = t[k]
  BY <1>2, Zenon
<1>4. got = t
  BY <1>2, <1>3, SameSeq
<1> QED BY <1>4 DEF t

(* A client receives the bytes queued for its connection in order, without *)
(* loss, repetition or invention: however the network loses, repeats and   *)
(* reorders the segments of tcp_output, however tcp_timer goes back to     *)
(* s_una and cuts the bytes anew, wherever the ring and the sequence       *)
(* numbers wrap.  It holds as long as tcp_in answers an endpoint it        *)
(* answered before with an initial sequence number far enough away.        *)
THEOREM BytesInOrder == Spec /\ []ReopenedApart => []InOrder
<1>1. SendInv => InOrder
  <2> SUFFICES ASSUME SendInv, NEW x \in Clients
               PROVE  LET got == clients[x].got
                          all == log[clients[x].id]
                      IN  Len(got) <= Len(all) /\ got = SubSeq(all, 1, Len(got))
    BY DEF InOrder
  <2> DEFINE p == clients[x]
             L == log[p.id]
  <2>1. p \in Client /\ log \in [Ids -> Seq(Byte)]
    BY SendTypes DEF Typical
  <2>2. p.got \in Seq(Byte) /\ p.id \in Ids
    BY <2>1, Zenon DEF Client
  <2>3. L \in Seq(Byte)
    BY <2>1, <2>2, Zenon
  <2>4. Agrees(x, p, toClient, nsyn, log)
    BY Zenon DEF SendInv, Send, Heard
  <2>5. Len(p.got) <= Len(L) /\ \A k \in 1..Len(p.got) : p.got[k] = L[k]
    <3>1. CASE p.id = 0
      <4>1. Len(p.got) = 0
        BY <2>4, <3>1 DEF Agrees
      <4>2. Len(L) \in Nat
        BY <2>3
      <4> QED BY <4>1, <4>2
    <3>2. CASE p.id # 0
      BY <2>4, <3>2, Zenon DEF Agrees, Took
    <3> QED BY <3>1, <3>2
  <2> HIDE DEF L, p
  <2>6. p.got = SubSeq(L, 1, Len(p.got))
    BY <2>2, <2>3, <2>5, TookPrefix
  <2> QED BY <2>5, <2>6 DEF L, p
<1> QED BY <1>1, SendInvariance, PTL

(* A byte leaves the send ring only once the client of this very           *)
(* connection has it: an established slot talks to the client that         *)
(* completed its handshake, and no stale, repeated or later ACK makes      *)
(* tcp_in free a byte that client does not have.                           *)
THEOREM FreedAfterReceipt == Spec /\ []ReopenedApart => []FreedOnlyIfReceived
<1>1. SendInv => FreedOnlyIfReceived
  <2> SUFFICES ASSUME SendInv, NEW i \in Slots, conns[i].tstate = "ESTAB"
               PROVE  /\ clients[conns[i].peer].id = conns[i].id
                      /\ Len(log[conns[i].id]) - Used(conns[i])
                           <= Len(clients[conns[i].peer].got)
    BY DEF FreedOnlyIfReceived
  <2>1. Live(conns[i])
    BY DEF Live
  <2>2. Flow(conns[i], log[conns[i].id], clients[conns[i].peer])
    BY <2>1, Zenon DEF SendInv, Send, Slotted
  <2> QED BY <2>2, Zenon DEF Flow, Freed
<1> QED BY <1>1, SendInvariance, PTL
=============================================================================

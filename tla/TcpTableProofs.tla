--------------------------- MODULE TcpTableProofs ---------------------------
(***************************************************************************)
(* net.c implements the slot table its framing code relies on, for every   *)
(* number of slots, ring size, sequence space and set of clients.          *)
(***************************************************************************)
EXTENDS TcpTable, TcpRecvProofs

LEMMA TInit == Init => T!Init
<1> SUFFICES ASSUME Init PROVE T!Init
  OBVIOUS
<1>1. AbstractSlot(NewConn) = T!NewSlot
  <2>1. NewConn.r_head = 0 /\ NewConn.r_tail = 0
    BY Zenon DEF NewConn
  <2>2. RcvUsed(NewConn) = 0
    BY <2>1, Zeroes, RcvSub DEF RcvUsed
  <2>3. Waiting(NewConn) = <<>>
    BY <2>2 DEF Waiting
  <2> QED BY <2>3, Zenon DEF AbstractSlot, StOf, HostOf, NewConn, T!NewSlot
<1> QED BY <1>1 DEF T!Init, AbstractTable, Init, Slots, T!Slot

---------------------------------------------------------------------------
(* The operations on one slot, as the framing code sees them.              *)

LEMMA SameView ==
  ASSUME NEW c, NEW d, d.tstate = c.tstate, d.peer = c.peer, d.id = c.id,
         d.just_estab = c.just_estab, d.ready = c.ready,
         d.r_head = c.r_head, d.r_tail = c.r_tail, d.rbuf = c.rbuf
  PROVE  AbstractSlot(d) = AbstractSlot(c)
<1>1. RcvUsed(d) = RcvUsed(c)
  BY DEF RcvUsed
<1>2. Waiting(d) = Waiting(c)
  BY <1>1 DEF Waiting
<1> QED BY <1>2 DEF AbstractSlot, StOf, HostOf

SlotView == [st: {"free", "half", "open"}, host: {IpOf[x] : x \in Clients} \cup {NoPeer},
             conn: Ids, fresh: BOOLEAN, ready: BOOLEAN, inq: Seq(Keys)]

LEMMA ViewIs ==
  ASSUME NEW c \in Conn
  PROVE  /\ c.tstate = "LISTEN" => StOf(c) = "free"
         /\ c.tstate = "SYNRCVD" => StOf(c) = "half"
         /\ c.tstate = "ESTAB" => StOf(c) = "open"
         /\ c.peer # NoPeer => HostOf(c) = IpOf[c.peer]
         /\ AbstractSlot(c) \in SlotView
<1>2. /\ c.tstate = "LISTEN" => StOf(c) = "free"
      /\ c.tstate = "SYNRCVD" => StOf(c) = "half"
      /\ c.tstate = "ESTAB" => StOf(c) = "open"
  BY DEF StOf
<1>3. HostOf(c) = IF c.peer = NoPeer THEN NoPeer ELSE IpOf[c.peer]
  BY DEF HostOf
<1>4. /\ c.tstate \in {"LISTEN", "SYNRCVD", "ESTAB"} /\ c.peer \in Clients \cup {NoPeer}
      /\ c.id \in Ids /\ c.just_estab \in BOOLEAN /\ c.ready \in BOOLEAN
  BY Zenon DEF Conn
<1>5. StOf(c) \in {"free", "half", "open"}
  BY <1>2, <1>4
<1>6. HostOf(c) \in {IpOf[x] : x \in Clients} \cup {NoPeer}
  BY <1>3, <1>4
<1>7. AbstractSlot(c) \in SlotView
  BY <1>4, <1>5, <1>6, WaitingSeq, Zenon DEF SlotView, AbstractSlot
<1> QED BY <1>2, <1>3, <1>7

LEMMA ViewFields ==
  ASSUME NEW c
  PROVE  /\ AbstractSlot(c).st = StOf(c) /\ AbstractSlot(c).host = HostOf(c)
         /\ AbstractSlot(c).conn = c.id /\ AbstractSlot(c).fresh = c.just_estab
         /\ AbstractSlot(c).ready = c.ready /\ AbstractSlot(c).inq = Waiting(c)
BY Zenon DEF AbstractSlot

LEMMA SameHostOf == ASSUME NEW c, NEW d, d.peer = c.peer PROVE HostOf(d) = HostOf(c)
BY DEF HostOf

LEMMA RecordIs ==
  ASSUME NEW A, NEW B, NEW C, NEW D, NEW E, NEW F,
         NEW s \in [st: A, host: B, conn: C, fresh: D, ready: E, inq: F]
  PROVE  s = [st |-> s.st, host |-> s.host, conn |-> s.conn,
              fresh |-> s.fresh, ready |-> s.ready, inq |-> s.inq]
OBVIOUS

LEMMA SlotIs ==
  ASSUME NEW s \in SlotView
  PROVE  s = [st |-> s.st, host |-> s.host, conn |-> s.conn,
              fresh |-> s.fresh, ready |-> s.ready, inq |-> s.inq]
BY RecordIs, Zenon DEF SlotView

LEMMA EmptyQueue == <<>> \in Seq(Keys)
OBVIOUS

LEMMA TReset ==
  ASSUME NEW s \in SlotView
  PROVE  /\ T!Reset(s) \in SlotView
         /\ T!Reset(s) = [st |-> "free", host |-> s.host, conn |-> s.conn,
              fresh |-> s.fresh, ready |-> FALSE, inq |-> <<>>]
<1> DEFINE t == T!Reset(s)
<1>1. t \in SlotView
  BY EmptyQueue, Zenon DEF T!Reset, SlotView
<1>2. /\ t.st = "free" /\ t.host = s.host /\ t.conn = s.conn
      /\ t.fresh = s.fresh /\ t.ready = FALSE /\ t.inq = <<>>
  BY Zenon DEF T!Reset, SlotView
<1> HIDE DEF t
<1>3. t = [st |-> "free", host |-> s.host, conn |-> s.conn,
           fresh |-> s.fresh, ready |-> FALSE, inq |-> <<>>]
  BY <1>1, <1>2, SlotIs
<1> QED BY <1>1, <1>3 DEF t

LEMMA TTaken ==
  ASSUME NEW s \in SlotView, NEW x \in Clients, NEW n \in Ids
  PROVE  /\ T!Taken(s, IpOf[x], n) \in SlotView
         /\ T!Taken(s, IpOf[x], n) = [st |-> "half", host |-> IpOf[x], conn |-> n,
              fresh |-> s.fresh, ready |-> s.ready, inq |-> <<>>]
<1> DEFINE t == T!Taken(s, IpOf[x], n)
<1>1. t \in SlotView
  BY EmptyQueue, Zenon DEF T!Taken, SlotView
<1>2. /\ t.st = "half" /\ t.host = IpOf[x] /\ t.conn = n
      /\ t.fresh = s.fresh /\ t.ready = s.ready /\ t.inq = <<>>
  BY Zenon DEF T!Taken, SlotView
<1> HIDE DEF t
<1>3. t = [st |-> "half", host |-> IpOf[x], conn |-> n,
           fresh |-> s.fresh, ready |-> s.ready, inq |-> <<>>]
  BY <1>1, <1>2, SlotIs
<1> QED BY <1>1, <1>3 DEF t

LEMMA TOpened ==
  ASSUME NEW s \in SlotView
  PROVE  /\ T!Opened(s) \in SlotView
         /\ T!Opened(s) = [st |-> "open", host |-> s.host, conn |-> s.conn,
              fresh |-> TRUE, ready |-> s.ready, inq |-> s.inq]
<1> DEFINE t == T!Opened(s)
<1>1. t \in SlotView
  BY EmptyQueue, Zenon DEF T!Opened, SlotView
<1>2. /\ t.st = "open" /\ t.host = s.host /\ t.conn = s.conn
      /\ t.fresh = TRUE /\ t.ready = s.ready /\ t.inq = s.inq
  BY Zenon DEF T!Opened, SlotView
<1> HIDE DEF t
<1>3. t = [st |-> "open", host |-> s.host, conn |-> s.conn,
           fresh |-> TRUE, ready |-> s.ready, inq |-> s.inq]
  BY <1>1, <1>2, SlotIs
<1> QED BY <1>1, <1>3 DEF t

LEMMA ResetView ==
  ASSUME NEW c \in Conn
  PROVE  AbstractSlot(tcp_reset_listen(c)) = T!Reset(AbstractSlot(c))
<1> DEFINE d == tcp_reset_listen(c)
<1>1. /\ d.tstate = "LISTEN" /\ d.peer = c.peer /\ d.id = c.id
      /\ d.just_estab = c.just_estab /\ d.ready = FALSE
      /\ d.r_head = 0 /\ d.r_tail = 0
  BY Zenon DEF tcp_reset_listen, Conn
<1> HIDE DEF d
<1>2. RcvUsed(d) = 0
  BY <1>1, Zeroes, RcvSub DEF RcvUsed
<1>3. Waiting(d) = <<>>
  BY <1>2 DEF Waiting
<1>4. AbstractSlot(d) = T!Reset(AbstractSlot(c))
  <2>1. HostOf(d) = HostOf(c) /\ StOf(d) = "free"
    BY <1>1, SameHostOf DEF StOf
  <2>2. AbstractSlot(d) = [st |-> "free", host |-> HostOf(c), conn |-> c.id,
          fresh |-> c.just_estab, ready |-> FALSE, inq |-> <<>>]
    BY <1>1, <1>3, <2>1, Zenon DEF AbstractSlot
  <2> QED BY <2>2, ViewIs, TReset, Zenon DEF AbstractSlot
<1> QED BY <1>4 DEF d

LEMMA OutputView == ASSUME NEW c \in Conn PROVE AbstractSlot(tcp_output(c)) = AbstractSlot(c)
<1> DEFINE d == tcp_output(c)
<1>1. /\ d.tstate = c.tstate /\ d.peer = c.peer /\ d.id = c.id
      /\ d.just_estab = c.just_estab /\ d.ready = c.ready
      /\ d.r_head = c.r_head /\ d.r_tail = c.r_tail /\ d.rbuf = c.rbuf
  BY Zenon DEF tcp_output, Conn
<1> QED BY <1>1, SameView, Zenon

LEMMA TimerView ==
  ASSUME NEW c \in Conn, NEW e \in Nat
  PROVE  LET d == tcp_timer(Clock(c, e))
         IN  \/ AbstractSlot(d) = AbstractSlot(c)
             \/ Live(c) /\ AbstractSlot(d) = T!Reset(AbstractSlot(c))
<1> DEFINE k == Clock(c, e)
           d == tcp_timer(k)
<1>1. k \in Conn
  BY ClockType
<1>2. /\ k.tstate = c.tstate /\ k.peer = c.peer /\ k.id = c.id
      /\ k.just_estab = c.just_estab /\ k.ready = c.ready
      /\ k.r_head = c.r_head /\ k.r_tail = c.r_tail /\ k.rbuf = c.rbuf
  BY Zenon DEF Clock, Conn
<1> HIDE DEF k
<1>3. AbstractSlot(k) = AbstractSlot(c)
  BY <1>2, SameView, Zenon
<1>4. CASE Expired(k) /\ k.rexmit_count + 1 > MAX_REXMIT
  <2>1. d = tcp_reset_listen(k) /\ Live(c)
    BY <1>2, <1>4, Zenon DEF tcp_timer, Expired, Live
  <2>2. AbstractSlot(d) = T!Reset(AbstractSlot(c))
    BY <1>1, <1>3, <2>1, ResetView, Zenon
  <2> QED BY <2>1, <2>2 DEF d, k
<1>5. CASE ~(Expired(k) /\ k.rexmit_count + 1 > MAX_REXMIT)
  <2>1. /\ d.tstate = k.tstate /\ d.peer = k.peer /\ d.id = k.id
        /\ d.just_estab = k.just_estab /\ d.ready = k.ready
        /\ d.r_head = k.r_head /\ d.r_tail = k.r_tail /\ d.rbuf = k.rbuf
    BY <1>1, <1>5, Zenon DEF tcp_timer, Conn
  <2>2. AbstractSlot(d) = AbstractSlot(c)
    BY <1>3, <2>1, SameView, Zenon
  <2> QED BY <2>2 DEF d, k
<1> QED BY <1>4, <1>5

LEMMA SynView ==
  ASSUME NEW c \in Conn, NEW m \in Frame, NEW n \in 1..Len(ISS)
  PROVE  AbstractSlot(SynIn(c, m, n)) = T!Taken(AbstractSlot(c), IpOf[m.src], n)
<1> DEFINE d == SynIn(c, m, n)
<1>1. /\ d.tstate = "SYNRCVD" /\ d.peer = m.src /\ d.id = n
      /\ d.just_estab = c.just_estab /\ d.ready = c.ready
      /\ d.r_head = 0 /\ d.r_tail = 0
  BY Zenon DEF SynIn, Conn
<1> HIDE DEF d
<1>2. RcvUsed(d) = 0
  BY <1>1, Zeroes, RcvSub DEF RcvUsed
<1>3. Waiting(d) = <<>>
  BY <1>2 DEF Waiting
<1>4. m.src # NoPeer
  BY FrameFields, EndpointAssumption
<1>5. AbstractSlot(d) = T!Taken(AbstractSlot(c), IpOf[m.src], n)
  <2>1. HostOf(d) = IpOf[m.src] /\ StOf(d) = "half"
    BY <1>1, <1>4 DEF StOf, HostOf
  <2>2. AbstractSlot(d) = [st |-> "half", host |-> IpOf[m.src], conn |-> n,
          fresh |-> c.just_estab, ready |-> c.ready, inq |-> <<>>]
    BY <1>1, <1>3, <2>1, Zenon DEF AbstractSlot
  <2>3. m.src \in Clients /\ n \in Ids
    BY FrameFields, EndpointAssumption DEF Ids
  <2> QED BY <2>2, <2>3, ViewIs, TTaken, Zenon DEF AbstractSlot
<1> QED BY <1>5 DEF d

LEMMA EstabView ==
  ASSUME NEW c \in Conn, NEW m \in Frame, EstabIn(c, m).tstate = "ESTAB"
  PROVE  /\ c.tstate = "SYNRCVD" => AbstractSlot(EstabIn(c, m)) = T!Opened(AbstractSlot(c))
         /\ c.tstate # "SYNRCVD" => EstabIn(c, m) = c
         /\ c.tstate # "LISTEN"
<1> DEFINE d == EstabIn(c, m)
<1>1. CASE c.tstate = "SYNRCVD"
  <2>1. /\ d.tstate = "ESTAB" /\ d.peer = c.peer /\ d.id = c.id
        /\ d.just_estab = TRUE /\ d.ready = c.ready
        /\ d.r_head = c.r_head /\ d.r_tail = c.r_tail /\ d.rbuf = c.rbuf
    BY <1>1, Zenon DEF EstabIn, Conn
  <2> HIDE DEF d
  <2>2. Waiting(d) = Waiting(c)
    BY <2>1 DEF Waiting, RcvUsed
  <2>3. AbstractSlot(d) = T!Opened(AbstractSlot(c))
    <3>1. HostOf(d) = HostOf(c) /\ StOf(d) = "open"
      BY <2>1, SameHostOf DEF StOf
    <3>2. AbstractSlot(d) = [st |-> "open", host |-> HostOf(c), conn |-> c.id,
            fresh |-> TRUE, ready |-> c.ready, inq |-> Waiting(c)]
      BY <2>1, <2>2, <3>1, Zenon DEF AbstractSlot
    <3>3. LET s == AbstractSlot(c)
          IN  /\ s.host = HostOf(c) /\ s.conn = c.id /\ s.ready = c.ready
              /\ s.inq = Waiting(c) /\ s \in SlotView
      BY ViewIs, Zenon DEF AbstractSlot
    <3> QED BY <3>2, <3>3, TOpened, Zenon
  <2> QED BY <1>1, <2>3 DEF d
<1>2. CASE c.tstate # "SYNRCVD"
  <2>1. d = c
    BY <1>2, Zenon DEF EstabIn
  <2> QED BY <1>2, <2>1
<1> QED BY <1>1, <1>2

LEMMA AckView ==
  ASSUME NEW c \in Conn, NEW m \in Frame
  PROVE  AbstractSlot(AckIn(c, m)) = AbstractSlot(c)
<1> DEFINE d == AckIn(c, m)
<1>1. /\ d.tstate = c.tstate /\ d.peer = c.peer /\ d.id = c.id
      /\ d.just_estab = c.just_estab /\ d.ready = c.ready
      /\ d.r_head = c.r_head /\ d.r_tail = c.r_tail /\ d.rbuf = c.rbuf
  BY Zenon DEF AckIn, Conn
<1> QED BY <1>1, SameView, Zenon

---------------------------------------------------------------------------
(* A segment on its slot: it may complete the handshake, add a burst to    *)
(* the queue, and close.                                                   *)

LEMMA TReady ==
  ASSUME NEW s \in SlotView
  PROVE  [s EXCEPT !.ready = TRUE] = [st |-> s.st, host |-> s.host, conn |-> s.conn,
              fresh |-> s.fresh, ready |-> TRUE, inq |-> s.inq]
<1> DEFINE t == [s EXCEPT !.ready = TRUE]
<1>1. t \in SlotView
  BY Zenon DEF SlotView
<1>2. /\ t.st = s.st /\ t.host = s.host /\ t.conn = s.conn
      /\ t.fresh = s.fresh /\ t.ready = TRUE /\ t.inq = s.inq
  BY Zenon DEF SlotView
<1> HIDE DEF t
<1>3. t = [st |-> s.st, host |-> s.host, conn |-> s.conn,
           fresh |-> s.fresh, ready |-> TRUE, inq |-> s.inq]
  BY <1>1, <1>2, SlotIs
<1> QED BY <1>3 DEF t

LEMMA TStale ==
  ASSUME NEW s \in SlotView
  PROVE  [s EXCEPT !.fresh = FALSE] = [st |-> s.st, host |-> s.host, conn |-> s.conn,
              fresh |-> FALSE, ready |-> s.ready, inq |-> s.inq]
<1> DEFINE t == [s EXCEPT !.fresh = FALSE]
<1>1. t \in SlotView
  BY Zenon DEF SlotView
<1>2. /\ t.st = s.st /\ t.host = s.host /\ t.conn = s.conn
      /\ t.fresh = FALSE /\ t.ready = s.ready /\ t.inq = s.inq
  BY Zenon DEF SlotView
<1> HIDE DEF t
<1>3. t = [st |-> s.st, host |-> s.host, conn |-> s.conn,
           fresh |-> FALSE, ready |-> s.ready, inq |-> s.inq]
  BY <1>1, <1>2, SlotIs
<1> QED BY <1>3 DEF t

LEMMA TQueued ==
  ASSUME NEW s \in SlotView, NEW q \in Seq(Keys)
  PROVE  /\ [s EXCEPT !.inq = q] \in SlotView
         /\ [s EXCEPT !.inq = q] = [st |-> s.st, host |-> s.host, conn |-> s.conn,
              fresh |-> s.fresh, ready |-> s.ready, inq |-> q]
<1> DEFINE t == [s EXCEPT !.inq = q]
<1>1. t \in SlotView
  BY Zenon DEF SlotView
<1>2. /\ t.st = s.st /\ t.host = s.host /\ t.conn = s.conn
      /\ t.fresh = s.fresh /\ t.ready = s.ready /\ t.inq = q
  BY Zenon DEF SlotView
<1> HIDE DEF t
<1>3. t = [st |-> s.st, host |-> s.host, conn |-> s.conn,
           fresh |-> s.fresh, ready |-> s.ready, inq |-> q]
  BY <1>1, <1>2, SlotIs
<1> QED BY <1>1, <1>3 DEF t

Arrived(s, opens, ks, fin, t) ==
  LET o == IF opens THEN T!Opened(s) ELSE s
  IN  /\ opens <=> s.st = "half"
      /\ o.st = "open"
      /\ t = IF fin THEN T!Reset(o) ELSE [o EXCEPT !.inq = @ \o ks]

LEMMA DataView ==
  ASSUME NEW c \in Conn, NEW m \in Frame
  PROVE  LET s == AbstractSlot(c)
         IN  /\ AbstractSlot(DataIn(c, m)) = [s EXCEPT !.inq = @ \o SubSeq(m.data, 1, Stored(c, m))]
             /\ T!Reset(AbstractSlot(DataIn(c, m))) = T!Reset(s)
<1> DEFINE s == AbstractSlot(c)
           d == DataIn(c, m)
           q == Waiting(c) \o SubSeq(m.data, 1, Stored(c, m))
<1>1. /\ d.tstate = c.tstate /\ d.peer = c.peer /\ d.id = c.id
      /\ d.just_estab = c.just_estab /\ d.ready = c.ready /\ Waiting(d) = q
  BY DataEffect
<1>2. d \in Conn
  BY DataType
<1>3. s \in SlotView /\ AbstractSlot(d) \in SlotView
  BY <1>2, ViewIs
<1>4. /\ s.st = StOf(c) /\ s.host = HostOf(c) /\ s.conn = c.id
      /\ s.fresh = c.just_estab /\ s.ready = c.ready /\ s.inq = Waiting(c)
  BY Zenon DEF AbstractSlot
<1> HIDE DEF d, q, s
<1>5. StOf(d) = StOf(c) /\ HostOf(d) = HostOf(c)
  BY <1>1, SameHostOf DEF StOf
<1>6. q \in Seq(Keys)
  BY <1>1, <1>2, WaitingSeq
<1>7. /\ AbstractSlot(d).st = s.st /\ AbstractSlot(d).host = s.host
      /\ AbstractSlot(d).conn = s.conn /\ AbstractSlot(d).fresh = s.fresh
      /\ AbstractSlot(d).ready = s.ready /\ AbstractSlot(d).inq = q
  BY <1>1, <1>4, <1>5, Zenon DEF AbstractSlot
<1>8. AbstractSlot(d) = [s EXCEPT !.inq = q]
  <2>1. AbstractSlot(d) = [st |-> s.st, host |-> s.host, conn |-> s.conn,
                           fresh |-> s.fresh, ready |-> s.ready, inq |-> q]
    BY <1>3, <1>7, SlotIs
  <2> QED BY <1>3, <1>6, <2>1, TQueued, Zenon
<1>9. T!Reset(AbstractSlot(d)) = T!Reset(s)
  BY <1>3, <1>7, TReset, Zenon
<1>10. q = s.inq \o SubSeq(m.data, 1, Stored(c, m))
  BY <1>4 DEF q
<1> QED BY <1>8, <1>9, <1>10 DEF s, d

LEMMA SegView ==
  ASSUME NEW c \in Conn, Live(c), NEW m \in Frame, m.data \in Bursts
  PROVE  \/ AbstractSlot(SegIn(c, m)) = AbstractSlot(c)
         \/ \E opens, fin \in BOOLEAN, ks \in Bursts :
              Arrived(AbstractSlot(c), opens, ks, fin, AbstractSlot(SegIn(c, m)))
<1> DEFINE e == EstabIn(c, m)
           a == AckIn(e, m)
           d == DataIn(a, m)
           f == [d EXCEPT !.rcv_nxt = Add(d.rcv_nxt, 1, SEQ)]
           opens == c.tstate = "SYNRCVD"
           s == AbstractSlot(c)
           o == IF opens THEN T!Opened(s) ELSE s
           ks == SubSeq(m.data, 1, Stored(a, m))
<1>1. e \in Conn
  BY EstabType
<1>2. CASE e.tstate # "ESTAB"
  BY <1>2 DEF SegIn
<1>3. CASE e.tstate = "ESTAB"
  <2>1. AbstractSlot(e) = o /\ c.tstate # "LISTEN"
    BY <1>3, EstabView, Zenon
  <2>2. opens <=> s.st = "half"
    <3>1. s.st = StOf(c) /\ c.tstate \in {"LISTEN", "SYNRCVD", "ESTAB"}
      BY Zenon DEF AbstractSlot, Conn
    <3> QED BY <3>1 DEF StOf
  <2>3. o.st = "open"
    <3>1. AbstractSlot(e).st = StOf(e)
      BY Zenon DEF AbstractSlot
    <3> QED BY <1>3, <2>1, <3>1 DEF StOf
  <2> HIDE DEF e
  <2>4. a \in Conn /\ AbstractSlot(a) = o
    BY <1>1, <2>1, AckType, AckView
  <2> HIDE DEF a, o, opens
  <2>5. d \in Conn /\ AbstractSlot(d) = [o EXCEPT !.inq = @ \o ks]
        /\ T!Reset(AbstractSlot(d)) = T!Reset(o)
    BY <2>4, DataType, DataView, Zenon
  <2>6. ks \in Bursts
    BY <2>4, StoredRange, PrefixBurst
  <2>7. SegIn(c, m) = IF "FIN" \in m.flags THEN tcp_reset_listen(f) ELSE d
    BY <1>3, Zenon DEF SegIn, e, a
  <2> HIDE DEF d
  <2>8. f \in Conn /\ AbstractSlot(f) = AbstractSlot(d)
    <3>1. d.rcv_nxt \in SeqNum
      BY <2>5, Fields, Zenon
    <3>2. 1 \in Int
      OBVIOUS
    <3>3. Add(d.rcv_nxt, 1, SEQ) \in SeqNum
      BY <3>1, <3>2, SeqRange, Integral, Zenon
    <3>4. f \in Conn
      BY <2>5, <3>3, Zenon DEF Conn
    <3>5. /\ f.tstate = d.tstate /\ f.peer = d.peer /\ f.id = d.id
          /\ f.just_estab = d.just_estab /\ f.ready = d.ready
          /\ f.r_head = d.r_head /\ f.r_tail = d.r_tail /\ f.rbuf = d.rbuf
      BY <2>5, Zenon DEF Conn
    <3> HIDE DEF f
    <3> QED BY <3>4, <3>5, SameView, Zenon
  <2> HIDE DEF f, ks
  <2>9. AbstractSlot(tcp_reset_listen(f)) = T!Reset(o)
    BY <2>5, <2>8, ResetView, Zenon
  <2> DEFINE fin == "FIN" \in m.flags
  <2>10. AbstractSlot(SegIn(c, m)) = IF fin THEN T!Reset(o) ELSE [o EXCEPT !.inq = @ \o ks]
    BY <2>5, <2>7, <2>9, Zenon
  <2>11. opens \in BOOLEAN /\ fin \in BOOLEAN
    BY DEF opens
  <2> HIDE DEF fin, s
  <2>12. Arrived(s, opens, ks, fin, AbstractSlot(SegIn(c, m)))
    BY <2>2, <2>3, <2>10 DEF Arrived, o
  <2> QED BY <2>6, <2>11, <2>12, Zenon DEF s
<1> QED BY <1>2, <1>3

---------------------------------------------------------------------------
(* The table, slot by slot.                                                *)

LEMMA ViewAt == \A cs : \A i \in Slots : AbstractTable(cs)[i] = AbstractSlot(cs[i])
BY DEF AbstractTable

LEMMA ViewOne ==
  ASSUME NEW cs \in [Slots -> Conn], NEW k \in Slots, NEW d
  PROVE  AbstractTable([cs EXCEPT ![k] = d]) = [AbstractTable(cs) EXCEPT ![k] = AbstractSlot(d)]
BY Zenon DEF AbstractTable

LEMMA OutputTableView ==
  ASSUME NEW cs \in [Slots -> Conn]
  PROVE  AbstractTable(Output(cs)) = AbstractTable(cs)
<1>1. \A i \in Slots : Output(cs)[i] = tcp_output(cs[i])
  BY Zenon DEF Output
<1>2. \A i \in Slots : AbstractSlot(Output(cs)[i]) = AbstractSlot(cs[i])
  BY <1>1, OutputView, Zenon
<1> QED BY <1>2, Zenon DEF AbstractTable

(* The slots the timers give up                                            *)
LEMMA TimersView ==
  ASSUME conns \in [Slots -> Conn], NEW e \in Nat
  PROVE  \E D \in SUBSET {i \in Slots : Live(conns[i])} :
           AbstractTable(AfterTimers(e)) = T!GivenUp(D)
<1> DEFINE t(i) == tcp_timer(Clock(conns[i], e))
           D == {i \in Slots : Live(conns[i])
                   /\ AbstractSlot(t(i)) = T!Reset(AbstractSlot(conns[i]))}
<1>1. \A i \in Slots : AbstractSlot(t(i)) =
        IF i \in D THEN T!Reset(AbstractSlot(conns[i])) ELSE AbstractSlot(conns[i])
  <2> TAKE i \in Slots
  <2>1. \/ AbstractSlot(t(i)) = AbstractSlot(conns[i])
        \/ Live(conns[i]) /\ AbstractSlot(t(i)) = T!Reset(AbstractSlot(conns[i]))
    BY TimerView, Zenon
  <2> HIDE DEF t
  <2> QED BY <2>1
<1> HIDE DEF t
<1>2. AfterTimers(e) = [i \in Slots |-> t(i)]
  BY DEF AfterTimers, t
<1>3. AbstractTable(AfterTimers(e)) = [i \in Slots |-> AbstractSlot(t(i))]
  BY <1>2, Zenon DEF AbstractTable
<1>4. T!Slot = Slots
  BY DEF T!Slot, Slots
<1>5. D \in SUBSET {i \in Slots : Live(conns[i])}
  BY DEF D
<1> HIDE DEF D
<1>6. T!GivenUp(D) = [i \in Slots |-> IF i \in D THEN T!Reset(AbstractSlot(conns[i]))
                                      ELSE AbstractSlot(conns[i])]
  BY <1>4, ViewAt, Zenon DEF T!GivenUp
<1>7. AbstractTable(AfterTimers(e)) = T!GivenUp(D)
  BY <1>1, <1>3, <1>6, Zenon
<1> QED BY <1>5, <1>7

LEMMA LiveView ==
  ASSUME NEW c \in Conn
  PROVE  T!Live(AbstractSlot(c)) <=> Live(c)
<1>1. AbstractSlot(c).st = StOf(c) /\ c.tstate \in {"LISTEN", "SYNRCVD", "ESTAB"}
  BY Zenon DEF AbstractSlot, Conn
<1> QED BY <1>1 DEF T!Live, Live, StOf

---------------------------------------------------------------------------
(* Each step of net.c is a step of the slot table.                         *)

LEMMA SlotsAre == T!Slot = Slots
BY DEF T!Slot, Slots

(* A poll: the timers give up the slots of D and leave G, and the frame    *)
(* takes the table from there.                                             *)
LEMMA FrameView ==
  ASSUME NEW t, Table(t), NEW m \in Frame, m.data \in Bursts, nsyn \in Nat,
         NEW D, AbstractTable(t) = T!GivenUp(D),
         Opens(t, m) => nsyn + 1 <= Len(ISS),
         nsyn' = IF Opens(t, m) THEN nsyn + 1 ELSE nsyn,
         AbstractTable(conns') = AbstractTable(tcp_in(t, m, nsyn + 1))
  PROVE  \/ T!Silent(D)
         \/ \E i \in Slots :
              \/ \E h \in {IpOf[x] : x \in Clients} : T!Syn(D, i, h)
              \/ T!Rst(D, i)
              \/ \E opens, fin \in BOOLEAN, ks \in Bursts : T!Segment(D, i, opens, ks, fin)
<1> DEFINE n == nsyn + 1
           owner == find_conn(t, m.src)
           k == First(owner)
           a == First(alloc_conn(t, m.src))
           G == T!GivenUp(D)
<1>1. t \in [Slots -> Conn]
  BY DEF Table
<1>2. \A i \in Slots : G[i] = AbstractSlot(t[i])
  BY ViewAt, Zenon
<1>3. CASE "RST" \in m.flags /\ owner # {}
  <2>1. k \in Slots /\ Live(t[k])
    BY <1>3, OwnerIn
  <2>2. ~Opens(t, m)
    BY <1>3 DEF Opens
  <2>3. tcp_in(t, m, n) = [t EXCEPT ![k] = tcp_reset_listen(t[k])]
    BY <1>3 DEF tcp_in
  <2> HIDE DEF k, n
  <2>4. AbstractTable(conns') = [AbstractTable(t) EXCEPT ![k] = T!Reset(AbstractSlot(t[k]))]
    <3>1. t[k] \in Conn
      BY <1>1, <2>1
    <3>2. AbstractTable([t EXCEPT ![k] = tcp_reset_listen(t[k])]) =
            [AbstractTable(t) EXCEPT ![k] = AbstractSlot(tcp_reset_listen(t[k]))]
      BY <1>1, <2>1, ViewOne, Zenon
    <3> QED BY <2>3, <3>1, <3>2, ResetView DEF n
  <2>5. AbstractTable(conns') = [G EXCEPT ![k] = T!Reset(G[k])]
    BY <1>2, <2>1, <2>4, Zenon
  <2>6. T!Live(G[k])
    BY <1>1, <1>2, <2>1, LiveView, Zenon
  <2>7. T!Rst(D, k)
    BY <2>2, <2>5, <2>6 DEF T!Rst, AbstractTable
  <2> QED BY <2>1, <2>7
<1>4. CASE "RST" \notin m.flags /\ "SYN" \in m.flags /\ Opens(t, m)
  <2>1. a \in Slots /\ a \in alloc_conn(t, m.src)
    <3>1. alloc_conn(t, m.src) # {}
      BY <1>4, Zenon DEF Opens
    <3>2. alloc_conn(t, m.src) \in SUBSET Slots
      BY Zenon DEF alloc_conn
    <3> QED BY <3>1, <3>2, FirstIn
  <2>2. n \in 1..Len(ISS) /\ nsyn < Len(ISS) /\ nsyn' = n
    BY <1>4, EndpointAssumption
  <2>3. tcp_in(t, m, n) = [t EXCEPT ![a] = SynIn(t[a], m, n)]
    BY <1>4, Zenon DEF tcp_in
  <2>4. m.src \in Clients
    BY FrameFields
  <2>5. ~Live(t[a]) \/ SameHost(t[a], m.src)
    BY <2>1, Zenon DEF alloc_conn, Live
  <2> HIDE DEF a, n
  <2>6. t[a] \in Conn
    BY <1>1, <2>1
  <2>7. AbstractTable(conns') = [AbstractTable(t) EXCEPT ![a] = T!Taken(AbstractSlot(t[a]), IpOf[m.src], n)]
    <3>1. AbstractTable([t EXCEPT ![a] = SynIn(t[a], m, n)]) =
            [AbstractTable(t) EXCEPT ![a] = AbstractSlot(SynIn(t[a], m, n))]
      BY <1>1, <2>1, ViewOne, Zenon
    <3>2. AbstractSlot(SynIn(t[a], m, n)) = T!Taken(AbstractSlot(t[a]), IpOf[m.src], n)
      BY <2>2, <2>6, SynView
    <3> QED BY <2>3, <3>1, <3>2 DEF n
  <2>8. AbstractTable(conns') = [G EXCEPT ![a] = T!Taken(G[a], IpOf[m.src], n)]
    BY <1>2, <2>1, <2>7, Zenon
  <2>9. ~T!Live(G[a]) \/ G[a].host = IpOf[m.src]
    <3>1. AbstractSlot(t[a]).host = HostOf(t[a])
      BY Zenon DEF AbstractSlot
    <3>2. SameHost(t[a], m.src) => HostOf(t[a]) = IpOf[m.src]
      BY DEF SameHost, HostOf
    <3> QED BY <1>2, <2>1, <2>5, <2>6, <3>1, <3>2, LiveView, Zenon
  <2>10. T!Syn(D, a, IpOf[m.src])
    BY <2>2, <2>8, <2>9 DEF T!Syn, AbstractTable, n
  <2> QED BY <2>1, <2>4, <2>10
<1>5. CASE "RST" \notin m.flags /\ "SYN" \notin m.flags /\ owner # {}
  <2>1. k \in Slots /\ Live(t[k])
    BY <1>5, OwnerIn
  <2>2. ~Opens(t, m)
    BY <1>5 DEF Opens
  <2>3. tcp_in(t, m, n) = [t EXCEPT ![k] = SegIn(t[k], m)]
    BY <1>5, Zenon DEF tcp_in
  <2> DEFINE v == AbstractSlot(SegIn(t[k], m))
             s == AbstractSlot(t[k])
  <2> HIDE DEF k, n
  <2>4. t[k] \in Conn
    BY <1>1, <2>1
  <2>5. \/ v = s
        \/ \E opens, fin \in BOOLEAN, ks \in Bursts : Arrived(s, opens, ks, fin, v)
    BY <2>1, <2>4, SegView, Zenon
  <2>6. AbstractTable(conns') = [AbstractTable(t) EXCEPT ![k] = v] /\ G[k] = s
    <3>1. AbstractTable([t EXCEPT ![k] = SegIn(t[k], m)]) = [AbstractTable(t) EXCEPT ![k] = v]
      BY <1>1, <2>1, ViewOne, Zenon
    <3>2. G[k] = s
      BY <1>2, <2>1
    <3> QED BY <2>3, <3>1, <3>2 DEF n
  <2> HIDE DEF v, s
  <2>7. CASE v = s
    <3>1. AbstractTable(conns') = AbstractTable(t)
      BY <2>1, <2>6, <2>7, Zenon DEF AbstractTable
    <3> QED BY <2>2, <3>1 DEF T!Silent, AbstractTable
  <2>8. ASSUME NEW opens \in BOOLEAN, NEW fin \in BOOLEAN, NEW ks \in Bursts,
               Arrived(s, opens, ks, fin, v)
        PROVE  T!Segment(D, k, opens, ks, fin)
    <3>1. AbstractTable(conns') = [G EXCEPT ![k] = v]
      BY <2>6
    <3> QED BY <2>2, <2>6, <2>8, <3>1 DEF T!Segment, Arrived, AbstractTable
  <2> QED BY <2>1, <2>5, <2>7, <2>8
<1>6. CASE tcp_in(t, m, n) = t /\ ~Opens(t, m)
  BY <1>6 DEF T!Silent, AbstractTable
<1>7. Opens(t, m) => "RST" \notin m.flags /\ "SYN" \in m.flags
  BY DEF Opens
<1> QED BY <1>3, <1>4, <1>5, <1>6, <1>7, Zenon DEF tcp_in

LEMMA PollView == ASSUME SlotInv, Poll PROVE T!Next
<1>1. PICK e \in 1..REXMIT_TICKS :
        \/ PollIdle(e)
        \/ \E x \in Clients : \E m \in Segments(x) : PollFrame(e, m)
  BY Zenon DEF Poll
<1>2. e \in Nat
  BY <1>1, SizesAssumption
<1> DEFINE t == AfterTimers(e)
<1>3. Table(conns) /\ Table(t) /\ TypeOK
  BY <1>2, InvTable, TimersTable DEF SlotInv
<1>4. conns \in [Slots -> Conn] /\ t \in [Slots -> Conn]
  BY <1>3 DEF Table
<1>5. PICK D \in SUBSET {i \in Slots : Live(conns[i])} : AbstractTable(t) = T!GivenUp(D)
  BY <1>2, <1>4, TimersView
<1>6. D \in SUBSET {i \in T!Slot : T!Live(AbstractTable(conns)[i])}
  <2>1. ASSUME NEW i \in D PROVE i \in T!Slot /\ T!Live(AbstractTable(conns)[i])
    <3>1. i \in Slots /\ Live(conns[i]) /\ conns[i] \in Conn
      BY <1>4, <1>5
    <3> QED BY <3>1, LiveView, ViewAt, SlotsAre
  <2> QED BY <2>1
<1> HIDE DEF t
<1>7. CASE PollIdle(e)
  <2>1. conns' = Output(t) /\ nsyn' = nsyn
    BY <1>7 DEF PollIdle, t
  <2>2. AbstractTable(conns') = T!GivenUp(D)
    BY <1>4, <1>5, <2>1, OutputTableView, Zenon
  <2>3. T!Silent(D)
    BY <2>1, <2>2 DEF T!Silent, AbstractTable
  <2>4. T!Poll
    BY <1>6, <2>3 DEF T!Poll
  <2> QED BY <2>4 DEF T!Next
<1>8. CASE \E x \in Clients : \E m \in Segments(x) : PollFrame(e, m)
  <2>1. PICK x \in Clients : \E m \in Segments(x) : PollFrame(e, m)
    BY <1>8
  <2>2. PICK m \in Segments(x) : PollFrame(e, m)
    BY <2>1
  <2>3. m \in Frame /\ m.data \in Bursts
    BY <1>3, SegmentsType, SegmentsBurst
  <2> DEFINE n == nsyn + 1
             r == tcp_in(t, m, n)
  <2>4. nsyn \in Nat /\ nsyn \in Ids
    BY <1>3, EndpointAssumption DEF TypeOK, Ids
  <2>5. /\ Opens(t, m) => n <= Len(ISS)
        /\ nsyn' = IF Opens(t, m) THEN n ELSE nsyn
        /\ conns' = Output(r)
    BY <2>2 DEF PollFrame, t
  <2>6. Opens(t, m) => n \in 1..Len(ISS)
    BY <2>4, <2>5, EndpointAssumption
  <2> HIDE DEF n
  <2>7. r \in [Slots -> Conn]
    BY <1>3, <2>3, <2>6, InTable DEF Table
  <2>8. AbstractTable(conns') = AbstractTable(r)
    BY <2>5, <2>7, OutputTableView
  <2>9. \/ T!Silent(D)
        \/ \E i \in Slots :
             \/ \E h \in {IpOf[y] : y \in Clients} : T!Syn(D, i, h)
             \/ T!Rst(D, i)
             \/ \E opens, fin \in BOOLEAN, ks \in Bursts : T!Segment(D, i, opens, ks, fin)
    BY <1>3, <1>5, <2>3, <2>4, <2>5, <2>8, FrameView DEF n
  <2>10. T!Poll
    <3>1. CASE T!Silent(D)
      BY <1>6, <3>1 DEF T!Poll
    <3>2. ASSUME NEW i \in T!Slot,
                 \/ \E h \in {IpOf[y] : y \in Clients} : T!Syn(D, i, h)
                 \/ T!Rst(D, i)
                 \/ \E opens, fin \in BOOLEAN, ks \in {KeysFrom(a, b) : a \in Keys, b \in Keys} :
                      T!Segment(D, i, opens, ks, fin)
          PROVE  T!Poll
      BY <1>6, <3>2, SMTT(30) DEF T!Poll
    <3> QED BY <2>9, <3>1, <3>2, SlotsAre DEF Bursts
  <2> QED BY <2>10 DEF T!Next
<1> QED BY <1>1, <1>7, <1>8

(* A call that changes one slot.                                           *)
LEMMA OneView ==
  ASSUME conns \in [Slots -> Conn], NEW i \in Slots, NEW d, NEW v,
         conns' = [conns EXCEPT ![i] = d], AbstractSlot(d) = v
  PROVE  AbstractTable(conns') = [AbstractTable(conns) EXCEPT ![i] = v]
<1>1. AbstractTable([conns EXCEPT ![i] = d]) = [AbstractTable(conns) EXCEPT ![i] = AbstractSlot(d)]
  BY ViewOne
<1> QED BY <1>1

LEMMA DropView ==
  ASSUME SlotInv, NEW i \in Slots, net_slot_drop(i)
  PROVE  T!Next
<1>1. conns \in [Slots -> Conn] /\ conns[i] \in Conn
  BY DEF SlotInv, TypeOK
<1>2. conns' = [conns EXCEPT ![i] = tcp_reset_listen(conns[i])] /\ nsyn' = nsyn
  BY DEF net_slot_drop
<1>3. AbstractSlot(tcp_reset_listen(conns[i])) = T!Reset(AbstractTable(conns)[i])
  BY <1>1, ResetView, ViewAt
<1>4. AbstractTable(conns') = [AbstractTable(conns) EXCEPT ![i] = T!Reset(AbstractTable(conns)[i])]
  BY <1>1, <1>2, <1>3, OneView
<1>5. T!Drop(i)
  BY <1>2, <1>4 DEF T!Drop, AbstractTable
<1> QED BY <1>5, SlotsAre DEF T!Next

LEMMA ReadyView ==
  ASSUME SlotInv, NEW i \in Slots, net_slot_ready(i)
  PROVE  T!Next
<1> DEFINE c == conns[i]
           d == [c EXCEPT !.ready = TRUE]
           s == AbstractSlot(c)
<1>1. conns \in [Slots -> Conn] /\ c \in Conn
  BY DEF SlotInv, TypeOK
<1>2. conns' = [conns EXCEPT ![i] = d] /\ nsyn' = nsyn
  BY <1>1, Zenon DEF net_slot_ready
<1>3. d \in Conn /\ d.tstate = c.tstate /\ d.peer = c.peer /\ d.id = c.id
      /\ d.just_estab = c.just_estab /\ d.ready = TRUE
      /\ d.r_head = c.r_head /\ d.r_tail = c.r_tail /\ d.rbuf = c.rbuf
  BY <1>1, Zenon DEF Conn
<1>4. s \in SlotView /\ s = AbstractTable(conns)[i]
  BY <1>1, ViewIs, ViewAt
<1>5. AbstractSlot(d) = [s EXCEPT !.ready = TRUE]
  <2> HIDE DEF c, d
  <2>1. StOf(d) = StOf(c) /\ HostOf(d) = HostOf(c)
    BY <1>3 DEF StOf, HostOf
  <2>2. Waiting(d) = Waiting(c)
    BY <1>3 DEF Waiting, RcvUsed
  <2>3. AbstractSlot(d) = [st |-> s.st, host |-> s.host, conn |-> s.conn,
                           fresh |-> s.fresh, ready |-> TRUE, inq |-> s.inq]
    <3>1. AbstractSlot(d) = [st |-> StOf(c), host |-> HostOf(c), conn |-> c.id,
             fresh |-> c.just_estab, ready |-> TRUE, inq |-> Waiting(c)]
      BY <1>3, <2>1, <2>2, Zenon DEF AbstractSlot
    <3> QED BY <3>1, ViewFields
  <2> HIDE DEF s
  <2> QED BY <1>4, <2>3, TReady, Zenon
<1> HIDE DEF c, d, s
<1>6. AbstractTable(conns') = [AbstractTable(conns) EXCEPT ![i] = [s EXCEPT !.ready = TRUE]]
  BY <1>1, <1>2, <1>5, OneView
<1>7. T!SetReady(i)
  BY <1>2, <1>4, <1>6 DEF T!SetReady, AbstractTable
<1> QED BY <1>7, SlotsAre DEF T!Next

LEMMA TakeNewView == ASSUME SlotInv, net_take_new_slot PROVE T!Next
<1> DEFINE new == {j \in Slots : conns[j].just_estab}
           i == First(new)
           c == conns[i]
           d == [c EXCEPT !.just_estab = FALSE]
           s == AbstractSlot(c)
<1>1. new # {} /\ nsyn' = nsyn /\ conns' = [conns EXCEPT ![i].just_estab = FALSE]
  BY DEF net_take_new_slot
<1>2. i \in new /\ \A j \in new : i <= j
  BY <1>1, FirstIn
<1>3. i \in Slots
  BY <1>2
<1>4. conns \in [Slots -> Conn] /\ c \in Conn
  BY <1>3 DEF SlotInv, TypeOK
<1>5. conns' = [conns EXCEPT ![i] = d]
  BY <1>1, <1>3, <1>4, Zenon
<1>6. d \in Conn /\ d.tstate = c.tstate /\ d.peer = c.peer /\ d.id = c.id
      /\ d.just_estab = FALSE /\ d.ready = c.ready
      /\ d.r_head = c.r_head /\ d.r_tail = c.r_tail /\ d.rbuf = c.rbuf
  BY <1>4, Zenon DEF Conn
<1>7. s \in SlotView /\ s = AbstractTable(conns)[i]
  BY <1>3, <1>4, ViewIs, ViewAt
<1>8. \A j \in Slots : AbstractTable(conns)[j].fresh = conns[j].just_estab
  BY ViewAt, ViewFields
<1>9. AbstractTable(conns)[i].fresh
      /\ \A j \in Slots : AbstractTable(conns)[j].fresh => i <= j
  BY <1>2, <1>3, <1>8
<1> HIDE DEF i
<1>10. AbstractSlot(d) = [s EXCEPT !.fresh = FALSE]
  <2> HIDE DEF c, d
  <2>1. StOf(d) = StOf(c) /\ HostOf(d) = HostOf(c)
    BY <1>6 DEF StOf, HostOf
  <2>2. Waiting(d) = Waiting(c)
    BY <1>6 DEF Waiting, RcvUsed
  <2>3. AbstractSlot(d) = [st |-> s.st, host |-> s.host, conn |-> s.conn,
                           fresh |-> FALSE, ready |-> s.ready, inq |-> s.inq]
    <3>1. AbstractSlot(d) = [st |-> StOf(c), host |-> HostOf(c), conn |-> c.id,
             fresh |-> FALSE, ready |-> c.ready, inq |-> Waiting(c)]
      BY <1>6, <2>1, <2>2, Zenon DEF AbstractSlot
    <3> QED BY <3>1, ViewFields
  <2> HIDE DEF s
  <2> QED BY <1>7, <2>3, TStale, Zenon
<1> HIDE DEF c, d, s
<1>11. AbstractTable(conns') = [AbstractTable(conns) EXCEPT ![i] = [s EXCEPT !.fresh = FALSE]]
  BY <1>3, <1>4, <1>5, <1>10, OneView
<1>12. T!TakeNew(i)
  BY <1>1, <1>7, <1>9, <1>11, SlotsAre DEF T!TakeNew, AbstractTable
<1> QED BY <1>3, <1>12, SlotsAre DEF T!Next

LEMMA GetcView ==
  ASSUME SlotInv, NEW i \in Slots, net_rx_getc(i)
  PROVE  T!Next
<1> DEFINE c == conns[i]
           d == [c EXCEPT !.r_tail = Add(@, 1, RCV_SZ)]
           s == AbstractSlot(c)
<1>1. conns \in [Slots -> Conn] /\ c \in Conn
  BY DEF SlotInv, TypeOK
<1>2. conns' = [conns EXCEPT ![i] = d] /\ nsyn' = nsyn /\ c.r_tail # c.r_head
  BY <1>1, Zenon DEF net_rx_getc
<1> HIDE DEF c
<1>3. /\ d \in Conn /\ d.tstate = c.tstate /\ d.peer = c.peer /\ d.id = c.id
      /\ d.just_estab = c.just_estab /\ d.ready = c.ready
      /\ Waiting(c) # <<>> /\ Waiting(d) = Tail(Waiting(c))
  BY <1>1, <1>2, TakeEffect
<1>4. s \in SlotView /\ s = AbstractTable(conns)[i] /\ s.inq = Waiting(c)
  BY <1>1, ViewIs, ViewAt, ViewFields DEF c
<1> HIDE DEF d
<1>5. AbstractSlot(d) = [s EXCEPT !.inq = Tail(s.inq)]
  <2>1. StOf(d) = StOf(c) /\ HostOf(d) = HostOf(c)
    BY <1>3 DEF StOf, HostOf
  <2>2. AbstractSlot(d) = [st |-> s.st, host |-> s.host, conn |-> s.conn,
                           fresh |-> s.fresh, ready |-> s.ready, inq |-> Tail(s.inq)]
    <3>1. AbstractSlot(d) = [st |-> StOf(c), host |-> HostOf(c), conn |-> c.id,
             fresh |-> c.just_estab, ready |-> c.ready, inq |-> Tail(Waiting(c))]
      BY <1>3, <2>1, Zenon DEF AbstractSlot
    <3> QED BY <3>1, ViewFields
  <2>3. Tail(s.inq) \in Seq(Keys)
    BY <1>3, <1>4, WaitingSeq
  <2> HIDE DEF s
  <2> QED BY <1>4, <2>2, <2>3, TQueued, Zenon
<1> HIDE DEF s
<1>6. AbstractTable(conns') = [AbstractTable(conns) EXCEPT ![i] = [s EXCEPT !.inq = Tail(s.inq)]]
  BY <1>1, <1>2, <1>5, OneView
<1>7. AbstractTable(conns)[i].inq # <<>>
  BY <1>3, <1>4
<1>8. T!Getc(i)
  BY <1>2, <1>4, <1>6, <1>7 DEF T!Getc, AbstractTable
<1> QED BY <1>8, SlotsAre DEF T!Next

LEMMA AppendView ==
  ASSUME NEW c \in Conn, NEW b
  PROVE  AbstractSlot(Append1(c, b)) = AbstractSlot(c)
<1> DEFINE d == Append1(c, b)
<1>1. /\ d.tstate = c.tstate /\ d.peer = c.peer /\ d.id = c.id
      /\ d.just_estab = c.just_estab /\ d.ready = c.ready
      /\ d.r_head = c.r_head /\ d.r_tail = c.r_tail /\ d.rbuf = c.rbuf
  BY Zenon DEF Append1, Conn
<1> QED BY <1>1, SameView, Zenon

(* net_tx_putc culls the dead slots, whether it then stops at a slow one   *)
(* or queues its byte.                                                     *)
LEMMA PutcView == ASSUME SlotInv, net_tx_putc PROVE T!Next
<1>1. conns \in [Slots -> Conn]
  BY DEF SlotInv, TypeOK
<1>2. \A i \in Slots : Culled[i] = IF i \in Dead THEN tcp_reset_listen(conns[i]) ELSE conns[i]
  BY Zenon DEF Culled
<1>3. \A i \in Slots : conns'[i] = Culled[i] \/ conns'[i] = Append1(Culled[i], nput + 1)
  BY Zenon DEF net_tx_putc, Culled
<1>4. nsyn' = nsyn
  BY DEF net_tx_putc
<1>5. \A i \in Slots : AbstractSlot(conns'[i]) =
        IF i \in Dead THEN T!Reset(AbstractSlot(conns[i])) ELSE AbstractSlot(conns[i])
  <2> TAKE i \in Slots
  <2>1. conns[i] \in Conn
    BY <1>1
  <2>2. Culled[i] \in Conn
    BY <1>2, <2>1, ResetType, Zenon
  <2>3. AbstractSlot(conns'[i]) = AbstractSlot(Culled[i])
    BY <1>3, <2>2, AppendView, Zenon
  <2>4. AbstractSlot(tcp_reset_listen(conns[i])) = T!Reset(AbstractSlot(conns[i]))
    BY <2>1, ResetView
  <2> QED BY <1>2, <2>3, <2>4, Zenon
<1>6. T!GivenUp(Dead) = [i \in Slots |-> IF i \in Dead THEN T!Reset(AbstractSlot(conns[i]))
                                         ELSE AbstractSlot(conns[i])]
  BY SlotsAre, ViewAt, Zenon DEF T!GivenUp
<1>7. AbstractTable(conns') = [i \in Slots |-> AbstractSlot(conns'[i])]
  BY Zenon DEF AbstractTable
<1>8. AbstractTable(conns') = T!GivenUp(Dead)
  BY <1>5, <1>6, <1>7, Zenon
<1>9. Dead \subseteq T!Audience
  <2>1. ASSUME NEW i \in Dead PROVE i \in T!Audience
    <3>1. i \in Slots /\ conns[i].tstate = "ESTAB" /\ conns[i].ready
      BY Zenon DEF Dead, Audience
    <3>2. AbstractTable(conns)[i].st = "open" /\ AbstractTable(conns)[i].ready
      <4>1. StOf(conns[i]) = "open"
        BY <3>1 DEF StOf
      <4> QED BY <3>1, <4>1, ViewAt, ViewFields
    <3> QED BY <3>1, <3>2, SlotsAre DEF T!Audience
  <2> QED BY <2>1
<1>10. T!Cull(Dead)
  BY <1>4, <1>8, <1>9 DEF T!Cull, AbstractTable
<1>11. Dead \in SUBSET T!Slot
  BY SlotsAre DEF Dead, Audience
<1> QED BY <1>10, <1>11 DEF T!Next

(* The rest of the calls, and the peers, change nothing that can be seen.  *)
Unseen == UNCHANGED <<AbstractTable(conns), nsyn>>

LEMMA PutcSlotView ==
  ASSUME SlotInv, NEW i \in Slots, net_tx_putc_slot(i)
  PROVE  Unseen
<1>1. conns \in [Slots -> Conn] /\ conns[i] \in Conn
  BY DEF SlotInv, TypeOK
<1>2. conns' = [conns EXCEPT ![i] = Append1(conns[i], nput + 1)] /\ nsyn' = nsyn
  BY DEF net_tx_putc_slot
<1>3. AbstractSlot(Append1(conns[i], nput + 1)) = AbstractTable(conns)[i]
  BY <1>1, AppendView, ViewAt
<1>4. AbstractTable(conns') = [AbstractTable(conns) EXCEPT ![i] = AbstractTable(conns)[i]]
  BY <1>1, <1>2, <1>3, OneView
<1>5. AbstractTable(conns') = AbstractTable(conns)
  BY <1>4, Zenon DEF AbstractTable
<1> QED BY <1>2, <1>5 DEF Unseen, AbstractTable

LEMMA FlushView == ASSUME SlotInv, net_tx_flush PROVE Unseen
<1>1. conns \in [Slots -> Conn]
  BY DEF SlotInv, TypeOK
<1>2. conns' = Output(conns) /\ nsyn' = nsyn
  BY DEF net_tx_flush
<1>3. AbstractTable(conns') = AbstractTable(conns)
  BY <1>1, <1>2, OutputTableView
<1> QED BY <1>2, <1>3 DEF Unseen, AbstractTable

LEMMA StutterView == ASSUME conns' = conns, nsyn' = nsyn PROVE Unseen
BY DEF Unseen, AbstractTable

LEMMA StepView == ASSUME SlotInv, [Next]_vars PROVE T!Next \/ Unseen
<1>1. CASE Poll
  BY <1>1, PollView
<1>2. CASE FramingCode
  BY <1>2, TakeNewView, PutcView, FlushView, DropView, ReadyView, PutcSlotView, GetcView
     DEF FramingCode
<1>3. CASE Peers
  <2>1. conns' = conns /\ nsyn' = nsyn
    BY <1>3, PeersFrame
  <2> QED BY <2>1, StutterView
<1>4. CASE UNCHANGED vars
  BY <1>4, StutterView DEF vars
<1> QED BY <1>1, <1>2, <1>3, <1>4 DEF Next

---------------------------------------------------------------------------
(* net.c implements the slot table: every step of net_poll and of the net_ *)
(* calls is a step of SlotTable or leaves what the framing code can see as *)
(* it was, whatever arrives and whatever the sizes.  A slot opens only     *)
(* through the handshake, is taken over only when free or by its own host, *)
(* and loses ready and its received bytes only by being reset.             *)
THEOREM SlotTableImplemented == Spec => ImplementsSlotTable
<1>1. Init => T!Init
  BY TInit
<1>2. SlotInv /\ [Next]_vars => [T!Next]_<<AbstractTable(conns), nsyn>>
  BY StepView DEF Unseen
<1>3. Spec => []SlotInv
  BY Invariance
<1> QED BY <1>1, <1>2, <1>3, PTL DEF Spec, ImplementsSlotTable, T!Spec

---------------------------------------------------------------------------
(* The clients of the broadcast share one stream.  What is needed of the   *)
(* slots is seen in the slot table: a slot that is live after a step was   *)
(* live before it, with the same connection and admitted if it was, or     *)
(* holds the connection just opened.                                       *)

Heir(s, t, n) ==
  t.st # "free" => \/ /\ s.st # "free" /\ t.conn = s.conn
                      /\ s.st = "open" /\ s.ready => t.st = "open" /\ t.ready
                   \/ t.conn = n

LEMMA HeirChange ==
  ASSUME NEW s \in SlotView, NEW n
  PROVE  /\ Heir(s, s, n) /\ Heir(s, T!Reset(s), n)
         /\ Heir(s, [s EXCEPT !.ready = TRUE], n) /\ Heir(s, [s EXCEPT !.fresh = FALSE], n)
<1>1. T!Reset(s).st = "free"
  BY Zenon DEF T!Reset, SlotView
<1> DEFINE r == [s EXCEPT !.ready = TRUE]
           f == [s EXCEPT !.fresh = FALSE]
<1>2. r.st = s.st /\ r.conn = s.conn /\ r.ready = TRUE
  BY Zenon DEF SlotView
<1>3. f.st = s.st /\ f.conn = s.conn /\ f.ready = s.ready
  BY Zenon DEF SlotView
<1> HIDE DEF r, f
<1>4. Heir(s, r, n) /\ Heir(s, f, n)
  BY <1>2, <1>3, Zenon DEF Heir
<1>5. Heir(s, s, n) /\ Heir(s, T!Reset(s), n)
  BY <1>1, Zenon DEF Heir
<1> QED BY <1>4, <1>5 DEF r, f

LEMMA HeirQueue ==
  ASSUME NEW s \in SlotView, NEW n, NEW q
  PROVE  Heir(s, [s EXCEPT !.inq = q], n)
<1> DEFINE t == [s EXCEPT !.inq = q]
<1>1. t.st = s.st /\ t.conn = s.conn /\ t.ready = s.ready
  BY Zenon DEF SlotView
<1> HIDE DEF t
<1>2. Heir(s, t, n)
  BY <1>1, Zenon DEF Heir
<1> QED BY <1>2 DEF t

LEMMA HeirTaken ==
  ASSUME NEW s \in SlotView, NEW h, NEW n
  PROVE  Heir(s, T!Taken(s, h, n), n)
<1>1. T!Taken(s, h, n).conn = n
  BY Zenon DEF T!Taken, SlotView
<1> QED BY <1>1, Zenon DEF Heir

(* a segment: its slot is half open and opens, or is open already          *)
LEMMA HeirArrived ==
  ASSUME NEW s \in SlotView, NEW n, NEW opens, NEW fin, NEW q,
         opens => s.st = "half", ~opens => s.st # "half",
         NEW o, o = (IF opens THEN T!Opened(s) ELSE s), o.st = "open"
  PROVE  /\ Heir(s, T!Reset(o), n) /\ Heir(s, [o EXCEPT !.inq = q], n)
<1>1. o \in SlotView /\ o.conn = s.conn /\ o.ready = s.ready
  <2>1. T!Opened(s) \in SlotView
    BY TOpened
  <2>2. T!Opened(s).conn = s.conn /\ T!Opened(s).ready = s.ready
    BY Zenon DEF T!Opened, SlotView
  <2> QED BY <2>1, <2>2, Zenon
<1>2. s.st # "free"
  BY Zenon
<1> DEFINE t == [o EXCEPT !.inq = q]
<1>3. t.st = o.st /\ t.conn = o.conn /\ t.ready = o.ready
  BY <1>1, Zenon DEF SlotView
<1>4. T!Reset(o).st = "free"
  BY <1>1, Zenon DEF T!Reset, SlotView
<1> HIDE DEF t
<1>5. Heir(s, t, n) /\ Heir(s, T!Reset(o), n)
  BY <1>1, <1>2, <1>3, <1>4, Zenon DEF Heir
<1> QED BY <1>5 DEF t

(* The table after the timers have given up the slots of D, slot by slot.  *)
LEMMA GivenUpAt ==
  ASSUME \A i \in Slots : AbstractTable(conns)[i] \in SlotView, NEW D, NEW i \in Slots
  PROVE  /\ T!GivenUp(D)[i] \in SlotView
         /\ T!GivenUp(D)[i].st # "free" => T!GivenUp(D)[i] = AbstractTable(conns)[i]
         /\ \A n : Heir(AbstractTable(conns)[i], T!GivenUp(D)[i], n)
<1> DEFINE s == AbstractTable(conns)[i]
           g == T!GivenUp(D)[i]
<1>1. s \in SlotView
  OBVIOUS
<1>2. g = IF i \in D THEN T!Reset(s) ELSE s
  BY SlotsAre, Zenon DEF T!GivenUp
<1>3. T!Reset(s) \in SlotView /\ T!Reset(s).st = "free"
  <2>1. T!Reset(s).st = "free"
    BY <1>1, Zenon DEF T!Reset, SlotView
  <2> QED BY <1>1, <2>1, TReset, Zenon
<1> HIDE DEF s, g
<1>4. \A n : Heir(s, s, n) /\ Heir(s, T!Reset(s), n)
  BY <1>1, HeirChange, Zenon
<1>5. g \in SlotView /\ (g.st # "free" => g = s) /\ \A n : Heir(s, g, n)
  BY <1>1, <1>2, <1>3, <1>4, Zenon
<1> QED BY <1>5 DEF s, g

(* One slot of that table changes: it is heir to what it was before.       *)
LEMMA GivenUpOne ==
  ASSUME \A i \in Slots : AbstractTable(conns)[i] \in SlotView, NEW D, NEW k \in Slots,
         NEW v, NEW n, Heir(T!GivenUp(D)[k], v, n), NEW i \in Slots
  PROVE  Heir(AbstractTable(conns)[i], [T!GivenUp(D) EXCEPT ![k] = v][i], n)
<1> DEFINE s == AbstractTable(conns)[i]
           G == T!GivenUp(D)
           t == [G EXCEPT ![k] = v][i]
<1> SUFFICES Heir(s, t, n)
  OBVIOUS
<1>1. Heir(s, G[i], n) /\ (G[i].st # "free" => G[i] = s)
  BY GivenUpAt, Zenon
<1>2. G = [j \in Slots |-> G[j]]
  BY SlotsAre, Zenon DEF T!GivenUp
<1>3. Heir(G[k], v, n)
  OBVIOUS
<1> HIDE DEF s, G
<1>4. t = IF i = k THEN v ELSE G[i]
  BY <1>2
<1> HIDE DEF t
<1>5. CASE i = k
  BY <1>1, <1>3, <1>4, <1>5, Zenon DEF Heir
<1>6. CASE i # k
  BY <1>1, <1>4, <1>6, Zenon
<1> QED BY <1>5, <1>6

Inherits(n) == \A i \in Slots : Heir(AbstractTable(conns)[i], AbstractTable(conns)'[i], n)

LEMMA PollInherits ==
  ASSUME \A i \in Slots : AbstractTable(conns)[i] \in SlotView, T!Poll
  PROVE  \/ Inherits(nsyn + 1) /\ nsyn' = nsyn + 1
         \/ (\A n : Inherits(n)) /\ nsyn' = nsyn
<1>1. PICK D \in SUBSET {i \in Slots : T!Live(AbstractTable(conns)[i])} :
        \/ T!Silent(D)
        \/ \E k \in Slots :
             \/ \E h \in {IpOf[x] : x \in Clients} : T!Syn(D, k, h)
             \/ T!Rst(D, k)
             \/ \E opens, fin \in BOOLEAN, ks \in {KeysFrom(a, b) : a \in Keys, b \in Keys} :
                  T!Segment(D, k, opens, ks, fin)
  BY SlotsAre DEF T!Poll
<1> DEFINE G == T!GivenUp(D)
<1>2. ASSUME T!Silent(D) PROVE (\A n : Inherits(n)) /\ nsyn' = nsyn
  BY <1>2, GivenUpAt, Zenon DEF T!Silent, Inherits
<1>3. ASSUME NEW k \in Slots, NEW h, T!Syn(D, k, h)
      PROVE  Inherits(nsyn + 1) /\ nsyn' = nsyn + 1
  <2>1. /\ AbstractTable(conns)' = [G EXCEPT ![k] = T!Taken(G[k], h, nsyn + 1)]
        /\ nsyn' = nsyn + 1
    BY <1>3, Zenon DEF T!Syn
  <2>2. Heir(G[k], T!Taken(G[k], h, nsyn + 1), nsyn + 1)
    BY GivenUpAt, HeirTaken, Zenon
  <2> HIDE DEF G
  <2> QED BY <2>1, <2>2, GivenUpOne, Zenon DEF Inherits, G
<1>4. ASSUME NEW k \in Slots, T!Rst(D, k) PROVE (\A n : Inherits(n)) /\ nsyn' = nsyn
  <2>1. AbstractTable(conns)' = [G EXCEPT ![k] = T!Reset(G[k])] /\ nsyn' = nsyn
    BY <1>4, Zenon DEF T!Rst
  <2>2. \A n : Heir(G[k], T!Reset(G[k]), n)
    BY GivenUpAt, HeirChange, Zenon
  <2> QED BY <2>1, <2>2, GivenUpOne, Zenon DEF Inherits
<1>5. ASSUME NEW k \in Slots, NEW opens \in BOOLEAN, NEW fin \in BOOLEAN, NEW ks,
             T!Segment(D, k, opens, ks, fin)
      PROVE  (\A n : Inherits(n)) /\ nsyn' = nsyn
  <2> DEFINE s == G[k]
             o == IF opens THEN T!Opened(s) ELSE s
             v == IF fin THEN T!Reset(o) ELSE [o EXCEPT !.inq = @ \o ks]
  <2>1. /\ AbstractTable(conns)' = [G EXCEPT ![k] = v] /\ nsyn' = nsyn
        /\ opens <=> s.st = "half"
        /\ o.st = "open"
    BY <1>5, Zenon DEF T!Segment
  <2>2. s \in SlotView
    BY GivenUpAt, Zenon
  <2>3. \A n : Heir(s, v, n)
    <3>1. (opens => s.st = "half") /\ (~opens => s.st # "half")
      BY <2>1, Zenon
    <3> HIDE DEF s, G
    <3> QED BY <2>1, <2>2, <3>1, HeirArrived, Zenon
  <2> HIDE DEF o, v
  <2> QED BY <2>1, <2>3, GivenUpOne, Zenon DEF Inherits
<1> QED BY <1>1, <1>2, <1>3, <1>4, <1>5

(* A call changes one slot of the table.                                   *)
LEMMA OneInherits ==
  ASSUME NEW k \in Slots, NEW v, NEW n,
         Heir(AbstractTable(conns)[k], v, n), \A i \in Slots : AbstractTable(conns)[i] \in SlotView,
         AbstractTable(conns)' = [AbstractTable(conns) EXCEPT ![k] = v]
  PROVE  Inherits(n)
<1> SUFFICES ASSUME NEW i \in Slots
             PROVE  Heir(AbstractTable(conns)[i], AbstractTable(conns)'[i], n)
  BY DEF Inherits
<1> DEFINE V == AbstractTable(conns)
<1>1. V = [j \in Slots |-> V[j]]
  BY Zenon DEF AbstractTable
<1>2. Heir(V[i], V[i], n)
  BY HeirChange, Zenon
<1> HIDE DEF V
<1>3. [V EXCEPT ![k] = v][i] = IF i = k THEN v ELSE V[i]
  BY <1>1
<1> QED BY <1>2, <1>3, Zenon DEF V

LEMMA StepInherits ==
  ASSUME \A i \in Slots : AbstractTable(conns)[i] \in SlotView, T!Next \/ Unseen
  PROVE  \/ Inherits(nsyn + 1) /\ nsyn' = nsyn + 1
         \/ (\A n : Inherits(n)) /\ nsyn' = nsyn
<1> DEFINE V == AbstractTable(conns)
<1>1. CASE Unseen
  <2>1. V' = V /\ nsyn' = nsyn
    BY <1>1 DEF Unseen
  <2> QED BY <2>1, HeirChange, Zenon DEF Inherits
<1>2. CASE T!Poll
  BY <1>2, PollInherits
<1>3. ASSUME NEW k \in Slots, T!TakeNew(k) \/ T!Getc(k) \/ T!SetReady(k) \/ T!Drop(k)
      PROVE  (\A n : Inherits(n)) /\ nsyn' = nsyn
  <2>1. \/ V' = [V EXCEPT ![k] = [V[k] EXCEPT !.fresh = FALSE]]
        \/ V' = [V EXCEPT ![k] = [V[k] EXCEPT !.inq = Tail(V[k].inq)]]
        \/ V' = [V EXCEPT ![k] = [V[k] EXCEPT !.ready = TRUE]]
        \/ V' = [V EXCEPT ![k] = T!Reset(V[k])]
    BY <1>3, Zenon DEF T!TakeNew, T!Getc, T!SetReady, T!Drop
  <2>2. nsyn' = nsyn
    BY <1>3, Zenon DEF T!TakeNew, T!Getc, T!SetReady, T!Drop
  <2>3. ASSUME NEW n
        PROVE  /\ Heir(V[k], [V[k] EXCEPT !.fresh = FALSE], n)
               /\ Heir(V[k], [V[k] EXCEPT !.inq = Tail(V[k].inq)], n)
               /\ Heir(V[k], [V[k] EXCEPT !.ready = TRUE], n)
               /\ Heir(V[k], T!Reset(V[k]), n)
    BY HeirChange, HeirQueue, Zenon
  <2> QED BY <2>1, <2>2, <2>3, OneInherits, Zenon
<1>4. ASSUME NEW D, T!Cull(D) PROVE (\A n : Inherits(n)) /\ nsyn' = nsyn
  BY <1>4, GivenUpAt, Zenon DEF T!Cull, Inherits
<1> QED BY <1>1, <1>2, <1>3, <1>4, SlotsAre DEF T!Next

(* The same in terms of struct conn.                                       *)
Stays(i) ==
  /\ Live(conns[i]) /\ conns'[i].id = conns[i].id
  /\ i \in Audience(conns) => i \in Audience(conns')

LEMMA StepSlots ==
  ASSUME SlotInv, SlotInv', [Next]_vars
  PROVE  /\ \A i \in Slots : Live(conns'[i]) =>
              Stays(i) \/ (conns'[i].id = nsyn + 1 /\ nsyn' = nsyn + 1)
         /\ nsyn' = nsyn \/ nsyn' = nsyn + 1
<1>1. conns \in [Slots -> Conn] /\ conns' \in [Slots -> Conn]
  BY DEF SlotInv, TypeOK
<1>2. \A i \in Slots : AbstractTable(conns)[i] \in SlotView
  <2> TAKE i \in Slots
  <2>1. conns[i] \in Conn
    BY <1>1
  <2>2. AbstractSlot(conns[i]) \in SlotView
    BY <2>1, ViewIs
  <2> QED BY <2>2, ViewAt, Zenon
<1>3. \/ Inherits(nsyn + 1) /\ nsyn' = nsyn + 1
      \/ (\A n : Inherits(n)) /\ nsyn' = nsyn
  BY <1>2, StepView, StepInherits, Zenon
<1>4. ASSUME NEW i \in Slots, NEW n, Live(conns'[i]), Inherits(n)
      PROVE  Stays(i) \/ conns'[i].id = n
  <2> DEFINE c == conns[i]
             d == conns'[i]
  <2>1. c \in Conn /\ d \in Conn
    BY <1>1, Zenon
  <2>2. Heir(AbstractSlot(c), AbstractSlot(d), n)
    <3>1. AbstractTable(conns)' = AbstractTable(conns')
      BY DEF AbstractTable
    <3> QED BY <1>4, <3>1, ViewAt, Zenon DEF Inherits
  <2> HIDE DEF c, d
  <2>3. /\ AbstractSlot(c).conn = c.id /\ AbstractSlot(d).conn = d.id
        /\ AbstractSlot(c).ready = c.ready /\ AbstractSlot(d).ready = d.ready
        /\ AbstractSlot(c).st = StOf(c) /\ AbstractSlot(d).st = StOf(d)
    BY ViewFields, Zenon
  <2>4. /\ (StOf(c) # "free" <=> Live(c)) /\ (StOf(d) # "free" <=> Live(d))
        /\ (StOf(c) = "open" <=> c.tstate = "ESTAB") /\ (StOf(d) = "open" <=> d.tstate = "ESTAB")
    <3>1. /\ c.tstate \in {"LISTEN", "SYNRCVD", "ESTAB"} /\ d.tstate \in {"LISTEN", "SYNRCVD", "ESTAB"}
      BY <2>1, Zenon DEF Conn
    <3> QED BY <3>1 DEF StOf, Live
  <2>5. \/ /\ Live(c) /\ d.id = c.id
           /\ c.tstate = "ESTAB" /\ c.ready => d.tstate = "ESTAB" /\ d.ready
        \/ d.id = n
    BY <1>4, <2>2, <2>3, <2>4, Zenon DEF Heir, d
  <2> QED BY <2>5, Zenon DEF Stays, Audience, c, d
<1>5. ASSUME NEW i \in Slots, Live(conns'[i]), \A n : Inherits(n) PROVE Stays(i)
  <2>1. /\ Stays(i) \/ conns'[i].id = 0
        /\ Stays(i) \/ conns'[i].id = 1
    BY <1>4, <1>5, Zenon
  <2> QED BY <2>1
<1> QED BY <1>3, <1>4, <1>5, Zenon

LEMMA RisingAppend ==
  ASSUME NEW s \in Seq(Byte), NEW b \in Byte, \A k \in DOMAIN s : s[k] < b, Rising(s)
  PROVE  /\ Rising(Append(s, b))
         /\ {Append(s, b)[k] : k \in DOMAIN Append(s, b)} = {s[k] : k \in DOMAIN s} \cup {b}
<1> DEFINE t == Append(s, b)
<1>1. /\ DOMAIN s = 1..Len(s) /\ DOMAIN t = 1..(Len(s) + 1) /\ Len(s) \in Nat
      /\ \A k \in 1..Len(s) : t[k] = s[k]
      /\ t[Len(s) + 1] = b
  OBVIOUS
<1>2. \A k \in 1..Len(s) : s[k] \in Byte
  OBVIOUS
<1> HIDE DEF t
<1>3. Rising(t)
  BY <1>1, <1>2 DEF Rising
<1>4. {t[k] : k \in DOMAIN t} = {s[k] : k \in DOMAIN s} \cup {b}
  BY <1>1
<1> QED BY <1>3, <1>4 DEF t

(* The bytes of a connection are numbered in the order they were queued,   *)
(* none above nput; a connection not yet opened has none.                  *)
Numbered ==
  \A n \in Ids : /\ Rising(log[n])
                 /\ n > nsyn => log[n] = <<>>
                 /\ \A b \in Given(n) : b <= nput

(* An admitted slot keeps up with the broadcast, any other has had nothing *)
(* of it.                                                                  *)
Apart(n) == Given(n) \cap Given(0) = {}
Tuned(i) == IF i \in Audience(conns) THEN KeepsUp(conns[i].id) ELSE Apart(conns[i].id)
Streams == Numbered /\ \A i \in Slots : Live(conns[i]) => Tuned(i)
StreamInv == RecvInv /\ Streams

LEMMA GivenBytes == ASSUME TypeOK, NEW n \in Ids PROVE Given(n) \subseteq Byte
<1>1. log[n] \in Seq(Byte)
  BY Zenon DEF TypeOK
<1> QED BY <1>1 DEF Given

LEMMA TunedKeepsUp == ASSUME NEW i, Tuned(i) PROVE KeepsUp(conns[i].id)
BY Zenon DEF Tuned, Apart, KeepsUp

LEMMA LoggedGiven ==
  ASSUME TypeOK, Numbered, nput < MaxPut, NEW N, log' = Logged(N), NEW n \in Ids
  PROVE  /\ Given(n)' = IF n \in N THEN Given(n) \cup {nput + 1} ELSE Given(n)
         /\ Rising(log'[n])
<1>1. /\ log[n] \in Seq(Byte) /\ Rising(log[n]) /\ nput + 1 \in Byte /\ nput \in Nat
      /\ \A b \in Given(n) : b <= nput
  BY LoggedType DEF TypeOK, Numbered, Byte
<1>2. \A k \in DOMAIN log[n] : log[n][k] < nput + 1
  <2> TAKE k \in DOMAIN log[n]
  <2>1. log[n][k] \in Given(n)
    BY DEF Given
  <2>2. log[n][k] \in Byte
    BY <2>1, GivenBytes
  <2> QED BY <1>1, <2>1, <2>2 DEF Byte
<1>3. log'[n] = IF n \in N THEN Append(log[n], nput + 1) ELSE log[n]
  BY Zenon DEF Logged
<1>4. /\ Rising(Append(log[n], nput + 1))
      /\ {Append(log[n], nput + 1)[k] : k \in DOMAIN Append(log[n], nput + 1)} = Given(n) \cup {nput + 1}
  BY <1>1, <1>2, RisingAppend DEF Given
<1>5. Given(n)' = {log'[n][k] : k \in DOMAIN log'[n]}
  BY DEF Given
<1> QED BY <1>1, <1>3, <1>4, <1>5, Zenon DEF Given

(* The two ways a step writes the log: to every admitted slot, or to one.  *)
Broadcast(S) == /\ log' = Logged({0} \cup IdsOf(S))
                /\ \A i \in Slots : i \in Audience(conns') <=> i \in S
Unicast(S) == log' = Logged(IdsOf(S))
Queued == /\ nput < MaxPut /\ nput' = nput + 1 /\ nsyn' = nsyn
          /\ \E S \in SUBSET {i \in Slots : Live(conns[i])} : Broadcast(S) \/ Unicast(S)

LEMMA PutcQueued == ASSUME SlotInv, net_tx_putc, Slow = {} PROVE Queued
<1> DEFINE S == Audience(Culled)
<1>1. conns \in [Slots -> Conn] /\ nput < MaxPut /\ nput' = nput + 1 /\ nsyn' = nsyn
  BY DEF SlotInv, TypeOK, net_tx_putc, MorePut
<1>2. \A i \in Slots : Culled[i] = IF i \in Dead THEN tcp_reset_listen(conns[i])
                                   ELSE conns[i]
  BY Zenon DEF Culled
<1>3. \A i \in Slots : tcp_reset_listen(conns[i]).tstate = "LISTEN" /\ conns[i] \in Conn
  BY <1>1, Zenon DEF tcp_reset_listen, Conn
<1>4. S \in SUBSET {i \in Slots : Live(conns[i])}
  BY <1>2, <1>3 DEF Audience, Live
<1>5. \A i \in Slots : conns'[i] = IF i \in S THEN Append1(Culled[i], nput + 1) ELSE Culled[i]
  BY Zenon DEF net_tx_putc
<1>6. ASSUME NEW i \in Slots, i \in S PROVE i \in Audience(conns')
  <2>1. Culled[i].tstate = "ESTAB" /\ Culled[i].ready /\ Culled[i] \in Conn
    BY <1>2, <1>3, <1>6 DEF Audience
  <2>2. LET c == Append1(Culled[i], nput + 1) IN c.tstate = Culled[i].tstate /\ c.ready = Culled[i].ready
    BY <2>1, Zenon DEF Append1, Conn
  <2> QED BY <1>5, <1>6, <2>1, <2>2, Zenon DEF Audience
<1>7. ASSUME NEW i \in Slots, i \notin S PROVE i \notin Audience(conns')
  BY <1>5, <1>7, Zenon DEF Audience
<1>8. Broadcast(S)
  BY <1>6, <1>7, Zenon DEF Broadcast, net_tx_putc
<1> HIDE DEF S
<1> QED BY <1>1, <1>4, <1>8, Zenon DEF Queued

LEMMA PutcSlotQueued ==
  ASSUME NEW i \in Slots, net_tx_putc_slot(i) PROVE Queued
<1> DEFINE S == {i} \ {j \in Slots : conns[j].tstate = "LISTEN"}
<1>1. nput < MaxPut /\ nput' = nput + 1 /\ nsyn' = nsyn /\ Unicast(S)
  BY Zenon DEF net_tx_putc_slot, MorePut, Unicast
<1>2. S \in SUBSET {j \in Slots : Live(conns[j])}
  BY Zenon DEF Live
<1> HIDE DEF S
<1> QED BY <1>1, <1>2, Zenon DEF Queued

LEMMA LogSteps ==
  ASSUME SlotInv, [Next]_vars PROVE UNCHANGED <<log, nput>> \/ Queued
<1>1. CASE Poll
  BY <1>1, Zenon DEF Poll, PollIdle, PollFrame
<1>2. CASE net_tx_putc
  <2>1. CASE Slow # {}
    BY <1>2, <2>1, Zenon DEF net_tx_putc
  <2> QED BY <1>2, <2>1, PutcQueued
<1>3. ASSUME NEW i \in Slots, net_slot_drop(i) \/ net_slot_ready(i) \/ net_tx_putc_slot(i) \/ net_rx_getc(i)
      PROVE UNCHANGED <<log, nput>> \/ Queued
  BY <1>3, PutcSlotQueued, Zenon DEF net_slot_drop, net_slot_ready, net_rx_getc
<1>4. CASE net_take_new_slot \/ net_tx_flush
  BY <1>4, Zenon DEF net_take_new_slot, net_tx_flush
<1>5. CASE Peers
  BY <1>5, Zenon DEF Peers, Connect, Type, ClientRecv, Leave
<1>6. CASE UNCHANGED vars
  BY <1>6, Zenon DEF vars
<1> QED BY <1>1, <1>2, <1>3, <1>4, <1>5, <1>6, Zenon DEF Next, FramingCode

LEMMA RecvIds ==
  ASSUME RecvInv
  PROVE  /\ nsyn \in Nat /\ nput \in Nat /\ 0 \in Ids /\ nsyn \in Ids
         /\ \A i \in Slots : Live(conns[i]) => conns[i].id \in 1..nsyn /\ conns[i].id \in Ids
         /\ \A i, j \in Slots : Live(conns[i]) /\ Live(conns[j]) /\ conns[i].id = conns[j].id => i = j
<1>1. /\ nsyn \in Ids /\ nput \in Byte /\ Len(ISS) \in Nat
      /\ \A i \in Slots : Live(conns[i]) => conns[i].id \in 1..nsyn
      /\ \A i, j \in Slots : Live(conns[i]) /\ Live(conns[j]) /\ conns[i].id = conns[j].id => i = j
  BY EndpointAssumption DEF RecvInv, SlotInv, TypeOK, Recv
<1>2. nsyn \in 0..Len(ISS) /\ nput \in Nat
  BY <1>1 DEF Ids, Byte
<1> QED BY <1>1, <1>2 DEF Ids

(* A byte logged keeps the logs numbered and the slots tuned.              *)
LEMMA NumberedLogged ==
  ASSUME RecvInv, Numbered, nput < MaxPut, NEW N, log' = Logged(N),
         \A n \in N : n <= nsyn, nput' = nput + 1, nsyn' = nsyn
  PROVE  Numbered'
<1> SUFFICES ASSUME NEW n \in Ids
             PROVE  /\ Rising(log'[n])
                    /\ n > nsyn => log'[n] = <<>>
                    /\ \A b \in Given(n)' : b <= nput + 1
  BY DEF Numbered
<1>1. TypeOK /\ nput \in Nat /\ nsyn \in Nat
  BY RecvIds DEF RecvInv, SlotInv
<1>2. /\ Given(n)' = IF n \in N THEN Given(n) \cup {nput + 1} ELSE Given(n)
      /\ Rising(log'[n])
  BY <1>1, LoggedGiven
<1>3. \A b \in Given(n) : b \in Nat /\ b <= nput
  BY <1>1, GivenBytes DEF Numbered, Byte
<1>4. ASSUME n > nsyn PROVE log'[n] = <<>>
  <2>1. n \notin N
    BY <1>1, <1>4 DEF Ids
  <2>2. log'[n] = log[n]
    BY <2>1, Zenon DEF Logged
  <2> QED BY <1>4, <2>2 DEF Numbered
<1>5. \A b \in Given(n)' : b <= nput + 1
  BY <1>1, <1>2, <1>3
<1> QED BY <1>2, <1>4, <1>5

(* The sets of bytes alone: b is above every byte of G and A.              *)
LEMMA TunedGrows ==
  ASSUME NEW G \in SUBSET Nat, NEW A \in SUBSET Nat, NEW b \in Nat,
         \A x \in G \cup A : x < b,
         \A x \in G \cap A, y \in A : x < y => y \in G
  PROVE  /\ \A x \in (G \cup {b}) \cap (A \cup {b}), y \in A \cup {b} : x < y => y \in G \cup {b}
         /\ \A x \in (G \cup {b}) \cap A, y \in A : x < y => y \in G \cup {b}
         /\ G \cap A = {} => G \cap (A \cup {b}) = {} /\ (G \cup {b}) \cap A = {}
<1>1. b \notin G /\ b \notin A
  OBVIOUS
<1>2. ASSUME NEW y \in A, b < y PROVE FALSE
  BY <1>2
<1> QED BY <1>1, <1>2

LEMMA QueuedTuned ==
  ASSUME StreamInv, Queued, \A j \in Slots : Live(conns'[j]) => Stays(j),
         NEW i \in Slots, Live(conns'[i])
  PROVE  Tuned(i)'
<1>1. PICK S \in SUBSET {j \in Slots : Live(conns[j])} : Broadcast(S) \/ Unicast(S)
  BY DEF Queued
<1>2. /\ Live(conns[i]) /\ conns'[i].id = conns[i].id /\ Tuned(i)
      /\ i \in Audience(conns) => i \in Audience(conns')
  BY Zenon DEF Stays, StreamInv, Streams
<1>3. conns[i].id \in Ids /\ conns[i].id # 0 /\ 0 \in Ids /\ nput \in Nat /\ nput + 1 \in Nat
  BY <1>2, RecvIds DEF StreamInv
<1>4. PICK n \in Ids : n = conns[i].id
  BY <1>3
<1>5. /\ Tuned(i) <=> IF i \in Audience(conns) THEN KeepsUp(n) ELSE Apart(n)
      /\ Tuned(i)' <=> IF i \in Audience(conns') THEN KeepsUp(n)' ELSE Apart(n)'
  <2>1. n = conns[i].id /\ n = conns[i].id'
    BY <1>2, <1>4
  <2> QED BY <2>1, Zenon DEF Tuned
<1> DEFINE G == Given(n)
           A == Given(0)
           b == nput + 1
<1>6. n \in IdsOf(S) <=> i \in S
  BY <1>1, <1>2, <1>4, RecvIds, Zenon DEF StreamInv, IdsOf
<1>7. 0 \notin IdsOf(S) /\ n # 0
  BY <1>1, <1>3, <1>4, RecvIds DEF StreamInv, IdsOf
<1>8. TypeOK /\ Numbered /\ nput < MaxPut
  BY DEF StreamInv, RecvInv, SlotInv, Streams, Queued
<1>9. G \in SUBSET Nat /\ A \in SUBSET Nat /\ b \in Nat /\ \A x \in G \cup A : x < b
  BY <1>3, <1>8, GivenBytes DEF Byte, Numbered
<1>10. \A x \in G \cap A, y \in A : x < y => y \in G
  BY <1>2, <1>4, TunedKeepsUp, Zenon DEF KeepsUp
<1>11. /\ Broadcast(S) => Given(n)' = (IF i \in S THEN G \cup {b} ELSE G) /\ Given(0)' = A \cup {b}
       /\ Unicast(S) => Given(n)' = (IF i \in S THEN G \cup {b} ELSE G) /\ Given(0)' = A
  <2>1. ASSUME NEW N, log' = Logged(N), NEW m \in Ids
        PROVE  Given(m)' = IF m \in N THEN Given(m) \cup {b} ELSE Given(m)
    BY <1>8, <2>1, LoggedGiven
  <2>2. /\ n \in {0} \cup IdsOf(S) <=> i \in S
        /\ 0 \in {0} \cup IdsOf(S)
    BY <1>6, <1>7
  <2>3. ASSUME Broadcast(S)
        PROVE  Given(n)' = (IF i \in S THEN G \cup {b} ELSE G) /\ Given(0)' = A \cup {b}
    <3>1. log' = Logged({0} \cup IdsOf(S))
      BY <2>3 DEF Broadcast
    <3> QED BY <1>3, <2>1, <2>2, <3>1, Zenon
  <2>4. ASSUME Unicast(S)
        PROVE  Given(n)' = (IF i \in S THEN G \cup {b} ELSE G) /\ Given(0)' = A
    <3>1. log' = Logged(IdsOf(S))
      BY <2>4 DEF Unicast
    <3> QED BY <1>3, <1>6, <1>7, <2>1, <3>1, Zenon
  <2> QED BY <2>3, <2>4
<1>12. /\ KeepsUp(n)' <=> \A x \in Given(n)' \cap Given(0)', y \in Given(0)' : x < y => y \in Given(n)'
       /\ Apart(n)' <=> Given(n)' \cap Given(0)' = {}
       /\ Apart(n) <=> G \cap A = {}
  BY Zenon DEF KeepsUp, Apart
<1> HIDE DEF G, A, b
<1>13. /\ \A x \in (G \cup {b}) \cap (A \cup {b}), y \in A \cup {b} : x < y => y \in G \cup {b}
       /\ \A x \in (G \cup {b}) \cap A, y \in A : x < y => y \in G \cup {b}
       /\ G \cap A = {} => G \cap (A \cup {b}) = {} /\ (G \cup {b}) \cap A = {}
  BY <1>9, <1>10, TunedGrows
<1>14. CASE i \in Audience(conns')
  <2>1. Broadcast(S) => i \in S
    BY <1>14 DEF Broadcast
  <2> QED BY <1>1, <1>5, <1>10, <1>11, <1>12, <1>13, <1>14, <2>1, Zenon
<1>15. CASE i \notin Audience(conns')
  <2>1. Broadcast(S) => i \notin S
    BY <1>15 DEF Broadcast
  <2>2. Apart(n)
    BY <1>2, <1>5, <1>15
  <2> QED BY <1>1, <1>5, <1>11, <1>12, <1>13, <1>15, <2>1, <2>2, Zenon
<1> QED BY <1>14, <1>15

(* A connection opened by the step has had nothing.                        *)
LEMMA NewTuned ==
  ASSUME StreamInv, NEW i \in Slots, Live(conns'[i]), conns'[i].id = nsyn + 1,
         nsyn + 1 \in Ids, UNCHANGED <<log, nput>>
  PROVE  Tuned(i)'
<1>1. nsyn \in Nat
  BY RecvIds DEF StreamInv
<1>2. log[nsyn + 1] = <<>>
  BY <1>1 DEF StreamInv, Streams, Numbered
<1>3. PICK n \in Ids : n = conns'[i].id
  OBVIOUS
<1>4. Given(n)' = {}
  BY <1>2, <1>3 DEF Given
<1>5. Apart(n)' /\ KeepsUp(n)'
  BY <1>4 DEF Apart, KeepsUp
<1>6. Tuned(i)' <=> IF i \in Audience(conns') THEN KeepsUp(n)' ELSE Apart(n)'
  BY <1>3, Zenon DEF Tuned
<1> QED BY <1>5, <1>6

LEMMA KeptTuned ==
  ASSUME StreamInv, NEW i \in Slots, Stays(i), UNCHANGED <<log, nput>>
  PROVE  Tuned(i)'
<1>1. /\ conns'[i].id = conns[i].id /\ Tuned(i)
      /\ i \in Audience(conns) => i \in Audience(conns')
  BY Zenon DEF Stays, StreamInv, Streams
<1>2. PICK n : n = conns[i].id
  OBVIOUS
<1>3. /\ Tuned(i) <=> IF i \in Audience(conns) THEN KeepsUp(n) ELSE Apart(n)
      /\ Tuned(i)' <=> IF i \in Audience(conns') THEN KeepsUp(n)' ELSE Apart(n)'
  <2>1. n = conns[i].id /\ n = conns[i].id'
    BY <1>1, <1>2
  <2> QED BY <2>1, Zenon DEF Tuned
<1>4. KeepsUp(n)' = KeepsUp(n) /\ Apart(n)' = Apart(n)
  BY DEF KeepsUp, Apart, Given
<1>5. KeepsUp(n)
  BY <1>1, <1>2, TunedKeepsUp, Zenon
<1> QED BY <1>1, <1>3, <1>4, <1>5

LEMMA StreamStep == ASSUME StreamInv, [Next]_vars PROVE StreamInv'
<1>1. RecvInv /\ RecvInv' /\ SlotInv /\ SlotInv'
  BY RecvStep DEF StreamInv, RecvInv
<1>2. /\ \A i \in Slots : Live(conns'[i]) => Stays(i) \/ (conns'[i].id = nsyn + 1 /\ nsyn' = nsyn + 1)
      /\ nsyn' = nsyn \/ nsyn' = nsyn + 1
  BY <1>1, StepSlots
<1>3. nsyn \in Nat /\ nsyn' \in Ids /\ Numbered
  BY <1>1, RecvIds DEF StreamInv, Streams, SlotInv, TypeOK
<1>4. CASE UNCHANGED <<log, nput>>
  <2>1. Numbered'
    <3> SUFFICES ASSUME NEW n \in Ids
                 PROVE  /\ Rising(log[n])
                        /\ n > nsyn' => log[n] = <<>>
                        /\ \A b \in Given(n) : b <= nput
      BY <1>4 DEF Numbered, Given
    <3>1. n \in Nat /\ (n > nsyn' => n > nsyn)
      BY <1>2, <1>3 DEF Ids
    <3> QED BY <1>3, <3>1 DEF Numbered
  <2>2. \A i \in Slots : Live(conns'[i]) => Tuned(i)'
    BY <1>2, <1>3, <1>4, NewTuned, KeptTuned, Zenon
  <2> QED BY <1>1, <2>1, <2>2, Zenon DEF StreamInv, Streams
<1>5. CASE Queued
  <2>1. nsyn' = nsyn /\ nput' = nput + 1 /\ nput < MaxPut
    BY <1>5 DEF Queued
  <2>2. PICK S \in SUBSET {j \in Slots : Live(conns[j])} : Broadcast(S) \/ Unicast(S)
    BY <1>5 DEF Queued
  <2>3. \A n \in {0} \cup IdsOf(S) : n <= nsyn
    BY <1>1, <1>3, <2>2, RecvIds DEF IdsOf
  <2>4. Numbered'
    <3>1. log' = Logged({0} \cup IdsOf(S)) \/ log' = Logged(IdsOf(S))
      BY <2>2 DEF Broadcast, Unicast
    <3>2. \A n \in IdsOf(S) : n <= nsyn
      BY <2>3, Zenon
    <3> QED BY <1>1, <1>3, <2>1, <2>3, <3>1, <3>2, NumberedLogged
  <2>5. \A i \in Slots : Live(conns'[i]) => Stays(i)
    <3>1. nsyn' # nsyn + 1
      BY <1>3, <2>1
    <3> QED BY <1>2, <3>1, Zenon
  <2>6. \A i \in Slots : Live(conns'[i]) => Tuned(i)'
    BY <1>5, <2>5, QueuedTuned, Zenon
  <2> QED BY <1>1, <2>4, <2>6, Zenon DEF StreamInv, Streams
<1> QED BY <1>1, <1>4, <1>5, LogSteps

LEMMA StreamInit == Init => StreamInv
<1> SUFFICES ASSUME Init PROVE StreamInv
  OBVIOUS
<1>1. \A i \in Slots : ~Live(conns[i])
  BY Zenon DEF Init, NewConn, Live
<1>2. \A n \in Ids : log[n] = <<>>
  BY Zenon DEF Init
<1>3. Numbered
  BY <1>2 DEF Numbered, Rising, Given
<1> QED BY <1>1, <1>3, RecvInit, Zenon DEF StreamInv, Streams

(* Every admitted client sees the same broadcast (net.c:598-601): from the *)
(* first broadcast byte it is given it is given every later one, in the    *)
(* order they were queued, with only bytes of its own between, however     *)
(* slots fill up, are dropped, reused or admitted on the way and for every *)
(* ring size, number of slots and number of connections.                   *)
THEOREM StreamsShared == Spec => []StreamShared
<1>1. StreamInv /\ [Next]_vars => StreamInv'
  BY StreamStep
<1>2. StreamInv => StreamShared
  <2> SUFFICES ASSUME StreamInv, NEW i \in Audience(conns)
               PROVE  Rising(log[conns[i].id]) /\ KeepsUp(conns[i].id)
    BY Zenon DEF StreamShared
  <2>1. i \in Slots /\ Live(conns[i]) /\ conns[i].id \in Ids
    BY RecvIds DEF Audience, Live, StreamInv
  <2> QED BY <2>1, TunedKeepsUp, Zenon DEF StreamInv, Streams, Numbered
<1> QED BY <1>1, <1>2, StreamInit, PTL DEF Spec
=============================================================================

--------------------------- MODULE TcpFlowProofs ---------------------------
(***************************************************************************)
(* What the functions of net.c do to the bytes of one slot on their way    *)
(* out: the send ring against the bytes queued, the sequence numbers       *)
(* against their places, the segments against both.                        *)
(***************************************************************************)
EXTENDS TcpProofs

(* The sequence number of the byte after the first o of connection n.      *)
ByteSeq(n, o) == Add(ISS[n], 1 + o, SEQ)

(* The bytes of L that have left the send ring of slot c.                  *)
Freed(c, L) == Len(L) - Used(c)

(* Slot c against L, the bytes queued for its connection, and p, the       *)
(* client it talks to: the ring holds the end of L, and an established     *)
(* slot has freed no more than its own client has received.                *)
Flow(c, L, p) ==
  /\ Used(c) <= Len(L)
  /\ \A k \in 1..Used(c) : c.sbuf[Add(c.s_una, k - 1, SND_SZ)] = L[Freed(c, L) + k]
  /\ c.tstate = "SYNRCVD" => /\ Freed(c, L) = 0
                             /\ c.snd_una = ISS[c.id]
                             /\ c.snd_nxt \in {ISS[c.id], ByteSeq(c.id, 0)}
  /\ c.tstate = "ESTAB" => /\ c.snd_una = ByteSeq(c.id, Freed(c, L))
                           /\ p.id = c.id /\ Freed(c, L) <= Len(p.got)

(* What client p took, against the bytes L queued for its connection.      *)
Took(p, L) ==
  /\ Len(p.got) <= Len(L)
  /\ \A k \in 1..Len(p.got) : p.got[k] = L[k]
  /\ p.rcv_nxt = ByteSeq(p.id, Len(p.got))
  /\ \A a \in p.acks : \E j \in 0..Len(p.got) : a = ByteSeq(p.id, j)

(* Segment s carries a stretch of L under the numbers of that stretch.     *)
Stretch(s, L) ==
  \E o \in 0..Len(L) : /\ s.seq = ByteSeq(s.id, o) /\ o + Len(s.data) <= Len(L)
                       /\ \A k \in 1..Len(s.data) : s.data[k] = L[o + k]

---------------------------------------------------------------------------
(* Sequence numbers of one connection and of two.                          *)

LEMMA BytesFit ==
  /\ MaxPut \in Nat /\ HALF \in Nat /\ MaxPut + 1 <= HALF /\ SEQ = 2 * HALF
  /\ SEQ \in Nat \ {0} /\ SND_SZ \in Nat \ {0} /\ SND_SZ <= HALF
BY SizesAssumption, SessionAssumption, ModuliPositive DEF SEQ

LEMMA ByteCases ==
  ASSUME NEW n \in 1..Len(ISS), NEW o \in 0..MaxPut
  PROVE  /\ ByteSeq(n, o) \in SeqNum /\ ISS[n] \in 0..(SEQ - 1)
         /\ ByteSeq(n, o) = IF ISS[n] + 1 + o < SEQ THEN ISS[n] + 1 + o
                            ELSE ISS[n] + 1 + o - SEQ
<1> DEFINE m == SEQ
           i == ISS[n]
<1>1. i \in SeqNum
  BY EndpointAssumption
<1>2. i \in 0..(m - 1) /\ 1 + o \in 0..(m - 1) /\ m \in Nat \ {0}
  BY <1>1, BytesFit DEF SeqNum
<1>3. ByteSeq(n, o) = Add(i, 1 + o, m)
  BY DEF ByteSeq
<1> HIDE DEF m, i
<1>4. Add(i, 1 + o, m) = IF i + (1 + o) < m THEN i + (1 + o) ELSE i + (1 + o) - m
  BY <1>2, AddCases
<1>5. Add(i, 1 + o, m) \in 0..(m - 1) /\ i + (1 + o) = i + 1 + o
  BY <1>2, <1>4
<1> QED BY <1>2, <1>3, <1>4, <1>5 DEF SeqNum, m, i

(* Two places of one connection.                                           *)
LEMMA BytesApart ==
  ASSUME NEW n \in 1..Len(ISS), NEW o \in 0..MaxPut, NEW j \in 0..MaxPut
  PROVE  /\ Sub(ByteSeq(n, j), ByteSeq(n, o), SEQ) = IF j >= o THEN j - o ELSE j - o + SEQ
         /\ ByteSeq(n, j) # ISS[n]
<1> DEFINE x == ByteSeq(n, j)
           y == ByteSeq(n, o)
           i == ISS[n]
           m == SEQ
<1>1. /\ x \in SeqNum /\ y \in SeqNum /\ i \in 0..(m - 1)
      /\ x = IF i + 1 + j < m THEN i + 1 + j ELSE i + 1 + j - m
      /\ y = IF i + 1 + o < m THEN i + 1 + o ELSE i + 1 + o - m
  BY ByteCases
<1> HIDE DEF x, y
<1>2. Sub(x, y, m) = IF x >= y THEN x - y ELSE x - y + m
  BY <1>1, SeqSub
<1>3. m \in Nat /\ MaxPut \in Nat /\ 2 * (MaxPut + 1) <= m
  BY BytesFit
<1> HIDE DEF m, i
<1>4. Sub(x, y, m) = (IF j >= o THEN j - o ELSE j - o + m) /\ x # i
  BY <1>1, <1>2, <1>3
<1> QED BY <1>4 DEF x, y, m, i

(* The place k bytes further on.                                           *)
LEMMA BytesOn ==
  ASSUME NEW n \in 1..Len(ISS), NEW o \in 0..MaxPut, NEW k \in Nat, o + k <= MaxPut
  PROVE  Add(ByteSeq(n, o), k, SEQ) = ByteSeq(n, o + k)
<1> DEFINE x == ByteSeq(n, o)
           y == ByteSeq(n, o + k)
           i == ISS[n]
           m == SEQ
<1>1. o + k \in 0..MaxPut
  OBVIOUS
<1>2. /\ x \in SeqNum /\ i \in 0..(m - 1)
      /\ x = IF i + 1 + o < m THEN i + 1 + o ELSE i + 1 + o - m
      /\ y = IF i + 1 + (o + k) < m THEN i + 1 + (o + k) ELSE i + 1 + (o + k) - m
  BY <1>1, ByteCases
<1> HIDE DEF x, y
<1>3. m \in Nat /\ MaxPut \in Nat /\ 2 * (MaxPut + 1) <= m
  BY BytesFit
<1>4. k \in SeqNum
  BY <1>3 DEF SeqNum
<1>5. Add(x, k, m) = IF x + k < m THEN x + k ELSE x + k - m
  BY <1>2, <1>4, SeqSub
<1> HIDE DEF m, i
<1>6. Add(x, k, m) = y
  BY <1>2, <1>3, <1>5
<1> QED BY <1>6 DEF x, y, m, i

(* Places of two connections whose initial numbers lie far enough apart.   *)
LEMMA OthersApart ==
  ASSUME NEW n \in 1..Len(ISS), NEW l \in 1..Len(ISS),
         NEW o \in 0..MaxPut, NEW j \in 0..MaxPut,
         Sub(ISS[n], ISS[l], SEQ) > MaxPut + 1, Sub(ISS[l], ISS[n], SEQ) > MaxPut + 1
  PROVE  /\ Sub(ByteSeq(n, j), ByteSeq(l, o), SEQ) + o > MaxPut
         /\ ByteSeq(l, j) # ISS[n] /\ ByteSeq(l, j) # ByteSeq(n, 0)
<1> DEFINE x == ByteSeq(n, j)
           y == ByteSeq(l, o)
           z == ByteSeq(l, j)
           w == ByteSeq(n, 0)
           a == ISS[n]
           b == ISS[l]
           m == SEQ
<1>1. m \in Nat /\ MaxPut \in Nat /\ 2 * (MaxPut + 1) <= m /\ 0 \in 0..MaxPut
  BY BytesFit
<1>2. /\ x \in SeqNum /\ y \in SeqNum /\ a \in 0..(m - 1) /\ b \in 0..(m - 1)
      /\ x = IF a + 1 + j < m THEN a + 1 + j ELSE a + 1 + j - m
      /\ y = IF b + 1 + o < m THEN b + 1 + o ELSE b + 1 + o - m
      /\ z = IF b + 1 + j < m THEN b + 1 + j ELSE b + 1 + j - m
      /\ w = IF a + 1 + 0 < m THEN a + 1 + 0 ELSE a + 1 + 0 - m
  BY <1>1, ByteCases
<1>3. a \in SeqNum /\ b \in SeqNum
  BY EndpointAssumption
<1> HIDE DEF x, y, z, w
<1>4. /\ Sub(x, y, m) = IF x >= y THEN x - y ELSE x - y + m
      /\ Sub(a, b, m) = IF a >= b THEN a - b ELSE a - b + m
      /\ Sub(b, a, m) = IF b >= a THEN b - a ELSE b - a + m
  <2>1. x \in SeqNum /\ y \in SeqNum
    BY <1>2
  <2> HIDE DEF a, b
  <2> QED BY <1>3, <2>1, SeqSub
<1> HIDE DEF m, a, b
<1>5. (IF a >= b THEN a - b ELSE a - b + m) > MaxPut + 1
      /\ (IF b >= a THEN b - a ELSE b - a + m) > MaxPut + 1
  BY <1>4 DEF m, a, b
<1>6. z # a /\ z # w
  BY <1>1, <1>2, <1>5
<1>7. Sub(x, y, m) + o > MaxPut
  <2>1. o \in Int /\ j \in Int /\ 0 <= o /\ o <= MaxPut /\ 0 <= j /\ j <= MaxPut
    BY <1>1
  <2>2. CASE x >= y
    BY <1>1, <1>2, <1>4, <1>5, <2>1, <2>2
  <2>3. CASE x < y
    BY <1>1, <1>2, <1>4, <1>5, <2>1, <2>3
  <2>4. x >= y \/ x < y
    BY <1>1, <1>2, <2>1
  <2> QED BY <2>2, <2>3, <2>4
<1> QED BY <1>6, <1>7 DEF x, y, z, w, m, a, b

---------------------------------------------------------------------------
(* The operations on one slot.                                             *)

(* Flow looks at these fields only.                                        *)
LEMMA SameFlow ==
  ASSUME NEW c, NEW d, NEW L, NEW p, Flow(c, L, p),
         d.tstate = c.tstate, d.id = c.id, d.snd_una = c.snd_una,
         c.tstate = "SYNRCVD" => d.snd_nxt = c.snd_nxt,
         d.s_una = c.s_una, d.s_end = c.s_end, d.sbuf = c.sbuf
  PROVE  Flow(d, L, p)
<1>1. Used(d) = Used(c) /\ Freed(d, L) = Freed(c, L)
  BY Zenon DEF Used, Freed
<1> QED BY <1>1, Zenon DEF Flow

LEMMA OutputFlow ==
  ASSUME NEW c \in Conn, NEW L, NEW p, Flow(c, L, p)
  PROVE  Flow(tcp_output(c), L, p)
<1> DEFINE d == tcp_output(c)
<1>1. CASE c.tstate # "ESTAB" \/ Unsent(c) = 0
  BY <1>1 DEF tcp_output
<1>2. CASE ~(c.tstate # "ESTAB" \/ Unsent(c) = 0)
  <2>1. /\ d.tstate = c.tstate /\ d.id = c.id /\ d.snd_una = c.snd_una
        /\ d.s_una = c.s_una /\ d.s_end = c.s_end /\ d.sbuf = c.sbuf
    BY <1>2, Zenon DEF tcp_output, Conn
  <2>2. c.tstate # "SYNRCVD"
    BY <1>2
  <2> HIDE DEF d
  <2>3. Flow(d, L, p)
    BY <2>1, <2>2, SameFlow, Zenon
  <2> QED BY <2>3 DEF d
<1> QED BY <1>1, <1>2

LEMMA ResetListens == ASSUME NEW c \in Conn PROVE ~Live(tcp_reset_listen(c))
<1>1. tcp_reset_listen(c).tstate = "LISTEN"
  BY Zenon DEF tcp_reset_listen, Conn
<1> QED BY <1>1 DEF Live

LEMMA ClockFlow ==
  ASSUME NEW c \in Conn, NEW e \in Nat, NEW L, NEW p, Flow(c, L, p)
  PROVE  Flow(Clock(c, e), L, p)
<1> DEFINE d == Clock(c, e)
<1>1. /\ d.tstate = c.tstate /\ d.id = c.id /\ d.snd_una = c.snd_una /\ d.snd_nxt = c.snd_nxt
      /\ d.s_una = c.s_una /\ d.s_end = c.s_end /\ d.sbuf = c.sbuf
  BY Zenon DEF Clock, Conn
<1> HIDE DEF d
<1>2. Flow(d, L, p)
  BY <1>1, SameFlow, Zenon
<1> QED BY <1>2 DEF d

LEMMA TimerFlow ==
  ASSUME NEW c \in Conn, NEW e \in Nat, NEW L, NEW p,
         Flow(c, L, p), Live(tcp_timer(Clock(c, e)))
  PROVE  /\ Flow(tcp_timer(Clock(c, e)), L, p)
         /\ tcp_timer(Clock(c, e)).id = c.id /\ tcp_timer(Clock(c, e)).peer = c.peer
         /\ Live(c)
<1> DEFINE b == Clock(c, e)
           d == tcp_timer(b)
<1>1. b \in Conn /\ b.tstate = c.tstate /\ b.id = c.id /\ b.peer = c.peer /\ Flow(b, L, p)
  <2>1. b.tstate = c.tstate /\ b.id = c.id /\ b.peer = c.peer
    BY Zenon DEF Clock, Conn
  <2> QED BY <2>1, ClockType, ClockFlow
<1> HIDE DEF b
<1>2. CASE ~Expired(b)
  BY <1>1, <1>2 DEF tcp_timer, Live, b
<1>3. CASE Expired(b) /\ b.rexmit_count + 1 > MAX_REXMIT
  <2>1. d = tcp_reset_listen(b)
    BY <1>3 DEF tcp_timer
  <2> QED BY <1>1, <2>1, ResetListens DEF b
<1>4. CASE Expired(b) /\ ~(b.rexmit_count + 1 > MAX_REXMIT)
  <2>1. /\ d.tstate = b.tstate /\ d.id = b.id /\ d.peer = b.peer /\ d.snd_una = b.snd_una
        /\ d.snd_nxt = b.snd_una
        /\ d.s_una = b.s_una /\ d.s_end = b.s_end /\ d.sbuf = b.sbuf
    BY <1>1, <1>4, Zenon DEF tcp_timer, Conn
  <2>2. Live(c)
    BY <1>1, <1>4 DEF Expired, Live
  <2> HIDE DEF d
  <2>3. Used(d) = Used(b) /\ Freed(d, L) = Freed(b, L)
    BY <2>1, Zenon DEF Used, Freed
  <2>4. Flow(d, L, p)
    BY <1>1, <2>1, <2>3, Zenon DEF Flow
  <2> QED BY <1>1, <2>1, <2>2, <2>4 DEF d, b
<1> QED BY <1>2, <1>3, <1>4

LEMMA DataFlow ==
  ASSUME NEW c \in Conn, NEW m \in Frame, NEW L, NEW p, Flow(c, L, p)
  PROVE  Flow(DataIn(c, m), L, p)
<1> DEFINE d == DataIn(c, m)
<1>1. /\ d.tstate = c.tstate /\ d.id = c.id /\ d.snd_una = c.snd_una /\ d.snd_nxt = c.snd_nxt
      /\ d.s_una = c.s_una /\ d.s_end = c.s_end /\ d.sbuf = c.sbuf
  BY Zenon DEF DataIn, Conn
<1> HIDE DEF d
<1>2. Flow(d, L, p)
  BY <1>1, SameFlow, Zenon
<1> QED BY <1>2 DEF d

(* A new connection: nothing queued, nothing sent.                         *)
LEMMA SynFlow ==
  ASSUME NEW c \in Conn, NEW m \in Frame, NEW n \in 1..Len(ISS), NEW p
  PROVE  /\ Flow(SynIn(c, m, n), <<>>, p)
         /\ SynIn(c, m, n).id = n /\ SynIn(c, m, n).peer = m.src
<1> DEFINE d == SynIn(c, m, n)
<1>1. /\ d.id = n /\ d.peer = m.src /\ d.tstate = "SYNRCVD" /\ d.snd_una = ISS[n]
      /\ d.snd_nxt = Add(ISS[n], 1, SEQ) /\ d.s_una = 0 /\ d.s_end = 0
  BY Zenon DEF SynIn, Conn
<1> HIDE DEF d
<1>2. Used(d) = 0
  BY <1>1, Empty, Zeroes DEF Used
<1>3. d.snd_nxt = ByteSeq(n, 0)
  BY <1>1 DEF ByteSeq
<1>4. Freed(d, <<>>) = 0
  BY <1>2 DEF Freed
<1>5. Flow(d, <<>>, p)
  BY <1>1, <1>2, <1>3, <1>4 DEF Flow
<1> QED BY <1>1, <1>5 DEF d

(* The ring after its first f bytes are taken off.                         *)
LEMMA ShiftArith ==
  ASSUME NEW su \in SndIdx, NEW se \in SndIdx, NEW f \in SndIdx,
         f <= Sub(se, su, SND_SZ)
  PROVE  /\ Sub(se, Add(su, f, SND_SZ), SND_SZ) = Sub(se, su, SND_SZ) - f
         /\ \A k \in SndIdx : f + k < SND_SZ
              => Add(Add(su, f, SND_SZ), k, SND_SZ) = Add(su, f + k, SND_SZ)
<1> DEFINE su2 == Add(su, f, SND_SZ)
           m == SND_SZ
<1>1. /\ su2 \in SndIdx /\ su2 = IF su + f < m THEN su + f ELSE su + f - m
      /\ Sub(se, su, m) = IF se >= su THEN se - su ELSE se - su + m
  BY SndSub, SndRange, Integral
<1> HIDE DEF su2
<1>2. Sub(se, su2, m) = IF se >= su2 THEN se - su2 ELSE se - su2 + m
  BY <1>1, SndSub
<1>3. m \in Nat \ {0} /\ su \in 0..(m - 1) /\ se \in 0..(m - 1) /\ f \in 0..(m - 1)
      /\ su2 \in 0..(m - 1) /\ f <= Sub(se, su, m)
  BY <1>1, ModuliPositive DEF SndIdx
<1>4. ASSUME NEW k \in SndIdx, f + k < m
      PROVE  Add(su2, k, m) = Add(su, f + k, m)
  <2>1. k \in 0..(m - 1) /\ f + k \in SndIdx
    BY <1>3, <1>4 DEF SndIdx
  <2>2. Add(su2, k, m) = IF su2 + k < m THEN su2 + k ELSE su2 + k - m
    BY <1>1, SndSub
  <2>3. Add(su, f + k, m) = IF su + (f + k) < m THEN su + (f + k) ELSE su + (f + k) - m
    BY <2>1, SndSub
  <2> HIDE DEF m
  <2> QED BY <1>1, <1>3, <1>4, <2>1, <2>2, <2>3
<1> HIDE DEF m
<1>5. Sub(se, su2, m) = Sub(se, su, m) - f
  BY <1>1, <1>2, <1>3
<1> QED BY <1>4, <1>5 DEF su2, m

(* The part of the ring behind the cursor su + f.                          *)
LEMMA CursorArith ==
  ASSUME NEW su \in SndIdx, NEW sn \in SndIdx, NEW se \in SndIdx,
         Sub(sn, su, SND_SZ) <= Sub(se, su, SND_SZ)
  PROVE  /\ Sub(se, sn, SND_SZ) = Sub(se, su, SND_SZ) - Sub(sn, su, SND_SZ)
         /\ \A o, k \in SndIdx : Sub(sn, su, SND_SZ) + o + k < SND_SZ
              => Add(Add(sn, o, SND_SZ), k, SND_SZ) = Add(su, Sub(sn, su, SND_SZ) + o + k, SND_SZ)
<1> DEFINE m == SND_SZ
           f == Sub(sn, su, m)
<1>1. /\ f = IF sn >= su THEN sn - su ELSE sn - su + m
      /\ Sub(se, su, m) = IF se >= su THEN se - su ELSE se - su + m
      /\ Sub(se, sn, m) = IF se >= sn THEN se - sn ELSE se - sn + m
      /\ f \in SndIdx
  BY SndSub, SndRange, Integral
<1>2. m \in Nat \ {0} /\ su \in 0..(m - 1) /\ sn \in 0..(m - 1) /\ se \in 0..(m - 1)
      /\ f \in 0..(m - 1) /\ f <= Sub(se, su, m)
  BY <1>1, ModuliPositive DEF SndIdx
<1> HIDE DEF f
<1>3. ASSUME NEW o \in SndIdx, NEW k \in SndIdx, f + o + k < m
      PROVE  Add(Add(sn, o, m), k, m) = Add(su, f + o + k, m)
  <2> DEFINE a == Add(sn, o, m)
  <2>1. o \in 0..(m - 1) /\ k \in 0..(m - 1) /\ f + o + k \in SndIdx
    BY <1>2, <1>3 DEF SndIdx
  <2>2. a \in SndIdx /\ a = IF sn + o < m THEN sn + o ELSE sn + o - m
    BY SndSub, SndRange, Integral
  <2> HIDE DEF a
  <2>3. Add(a, k, m) = IF a + k < m THEN a + k ELSE a + k - m
    BY <2>2, SndSub
  <2>4. Add(su, f + o + k, m) = IF su + (f + o + k) < m THEN su + (f + o + k)
                                ELSE su + (f + o + k) - m
    BY <2>1, SndSub
  <2> HIDE DEF m
  <2>5. Add(a, k, m) = Add(su, f + o + k, m)
    BY <1>1, <1>2, <1>3, <2>1, <2>2, <2>3, <2>4
  <2> QED BY <2>5 DEF a
<1> HIDE DEF m
<1>4. Sub(se, sn, m) = Sub(se, su, m) - f
  BY <1>1, <1>2
<1> QED BY <1>3, <1>4 DEF f, m

(* An accepted ACK covers no more than what is in flight.                  *)
LEMMA AckCovers ==
  ASSUME NEW una \in SeqNum, NEW nxt \in SeqNum, NEW ack \in SeqNum,
         Sub(nxt, una, SEQ) \in SndIdx,
         Positive(Sub(ack, una, SEQ)), ~Positive(Sub(ack, nxt, SEQ))
  PROVE  Sub(ack, una, SEQ) <= Sub(nxt, una, SEQ) /\ Sub(ack, una, SEQ) \in SndIdx
<1>1. /\ Sub(ack, una, SEQ) = IF ack >= una THEN ack - una ELSE ack - una + SEQ
      /\ Sub(nxt, una, SEQ) = IF nxt >= una THEN nxt - una ELSE nxt - una + SEQ
      /\ Sub(ack, nxt, SEQ) = IF ack >= nxt THEN ack - nxt ELSE ack - nxt + SEQ
  BY SeqSub
<1>2. Sub(ack, una, SEQ) <= Sub(nxt, una, SEQ)
  BY <1>1, SizesAssumption DEF Positive, SeqNum, SndIdx, SEQ
<1>3. Sub(ack, una, SEQ) \in Nat
  BY <1>1, BytesFit DEF SeqNum
<1> QED BY <1>2, <1>3, BytesFit DEF SndIdx

(* What is known of the client behind a slot when its segment arrives.     *)
Apart(m, n) == Sub(ISS[m], ISS[n], SEQ) > MaxPut + 1 /\ Sub(ISS[n], ISS[m], SEQ) > MaxPut + 1
Knows(p, n) ==
  /\ p.id \in 1..Len(ISS) /\ Len(p.got) \in 0..MaxPut
  /\ \A a \in p.acks : \E j \in 0..Len(p.got) : a = ByteSeq(p.id, j)
  /\ p.id # n => Apart(p.id, n)

(* Only the client of this very connection completes its handshake.        *)
LEMMA EstabFlow ==
  ASSUME NEW c \in Conn, NEW m \in Frame, NEW L \in Seq(Byte), NEW p,
         c.id \in 1..Len(ISS), Flow(c, L, p), Knows(p, c.id), m.ack \in p.acks
  PROVE  Flow(EstabIn(c, m), L, p)
<1> DEFINE d == EstabIn(c, m)
<1>1. CASE ~(c.tstate = "SYNRCVD" /\ "ACK" \in m.flags /\ m.ack = c.snd_nxt)
  BY <1>1 DEF EstabIn
<1>2. CASE c.tstate = "SYNRCVD" /\ "ACK" \in m.flags /\ m.ack = c.snd_nxt
  <2>1. PICK j \in 0..Len(p.got) : m.ack = ByteSeq(p.id, j)
    BY DEF Knows
  <2>2. j \in 0..MaxPut /\ 0 \in 0..MaxPut
    BY <2>1, BytesFit DEF Knows
  <2>3. c.snd_nxt \in {ISS[c.id], ByteSeq(c.id, 0)} /\ Freed(c, L) = 0
    BY <1>2 DEF Flow
  <2>4. p.id = c.id
    <3> SUFFICES ASSUME p.id # c.id PROVE FALSE
      OBVIOUS
    <3>1. Apart(p.id, c.id) /\ p.id \in 1..Len(ISS)
      BY DEF Knows
    <3>2. ByteSeq(p.id, j) # ISS[c.id] /\ ByteSeq(p.id, j) # ByteSeq(c.id, 0)
      BY <2>2, <3>1, OthersApart DEF Apart
    <3> QED BY <1>2, <2>1, <2>3, <3>2
  <2>5. ByteSeq(c.id, j) # ISS[c.id]
    BY <2>2, BytesApart
  <2>6. c.snd_nxt = ByteSeq(c.id, 0)
    BY <1>2, <2>1, <2>3, <2>4, <2>5
  <2>7. /\ d.tstate = "ESTAB" /\ d.id = c.id /\ d.snd_una = m.ack
        /\ d.s_una = c.s_una /\ d.s_end = c.s_end /\ d.sbuf = c.sbuf
    BY <1>2, Zenon DEF EstabIn, Conn
  <2> HIDE DEF d
  <2>8. Used(d) = Used(c) /\ Freed(d, L) = Freed(c, L)
    BY <2>7, Zenon DEF Used, Freed
  <2>9. Freed(d, L) <= Len(p.got)
    BY <2>3, <2>8 DEF Knows
  <2>10. d.snd_una = ByteSeq(d.id, Freed(d, L))
    BY <1>2, <2>3, <2>6, <2>7, <2>8
  <2>11. Flow(d, L, p)
    BY <2>4, <2>7, <2>8, <2>9, <2>10 DEF Flow
  <2> QED BY <2>11 DEF d
<1> QED BY <1>1, <1>2

(* An ACK frees the bytes its client has, and no others.                   *)
LEMMA AckFlow ==
  ASSUME NEW c \in Conn, NEW m \in Frame, NEW L \in Seq(Byte), NEW p,
         SlotRing(c), c.tstate = "ESTAB", Len(L) <= MaxPut,
         c.id \in 1..Len(ISS), Flow(c, L, p), Knows(p, c.id), m.ack \in p.acks
  PROVE  Flow(AckIn(c, m), L, p)
<1> DEFINE d == AckIn(c, m)
           f == Sub(m.ack, c.snd_una, SEQ)
           ok == "ACK" \in m.flags /\ Positive(f) /\ ~Positive(Sub(m.ack, c.snd_nxt, SEQ))
           u == Freed(c, L)
<1>1. CASE ~ok
  BY <1>1 DEF AckIn
<1>2. CASE ok
  <2>1. PICK j \in 0..Len(p.got) : m.ack = ByteSeq(p.id, j)
    BY DEF Knows
  <2>2. /\ p.id = c.id /\ c.snd_una = ByteSeq(c.id, u) /\ u = Len(L) - Used(c)
        /\ Used(c) <= Len(L)
    BY DEF Flow, Freed
  <2>3. Used(c) \in SndIdx /\ InFlight(c) \in SeqNum /\ Used(c) \in Nat
    BY Derived, BytesFit DEF SndIdx
  <2>4. j \in 0..MaxPut /\ u \in 0..MaxPut /\ j \in Int
    BY <2>1, <2>2, <2>3, BytesFit DEF Knows
  <2> HIDE DEF u
  <2>5. f = IF j >= u THEN j - u ELSE j - u + SEQ
    BY <2>1, <2>2, <2>4, BytesApart
  <2>6. InFlight(c) = Sub(c.s_nxt, c.s_una, SND_SZ) /\ InFlight(c) <= Used(c)
    BY DEF SlotRing
  <2>7. InFlight(c) \in SndIdx
    BY <2>6, SndRange, Fields, Integral
  <2>8. f <= InFlight(c) /\ f \in SndIdx
    BY <1>2, <2>7, AckCovers, Fields, FrameFields DEF InFlight
  <2>9. f = j - u
    BY <1>2, <2>4, <2>5, BytesFit DEF Positive
  <2> HIDE DEF f
  <2>10. /\ d.tstate = "ESTAB" /\ d.id = c.id /\ d.snd_una = m.ack
         /\ d.s_una = Add(c.s_una, f, SND_SZ)
         /\ d.s_end = c.s_end /\ d.sbuf = c.sbuf
    BY <1>2, Zenon DEF AckIn, Conn, f
  <2> HIDE DEF d
  <2>11. f \in Nat /\ f <= Used(c) /\ SND_SZ \in Nat /\ Used(c) < SND_SZ
    BY <2>3, <2>6, <2>7, <2>8, BytesFit DEF SndIdx
  <2>12. /\ Used(d) = Used(c) - f
         /\ \A k \in SndIdx : f + k < SND_SZ
              => Add(d.s_una, k, SND_SZ) = Add(c.s_una, f + k, SND_SZ)
    <3>1. c.s_una \in SndIdx /\ c.s_end \in SndIdx
      BY Fields
    <3>2. f <= Sub(c.s_end, c.s_una, SND_SZ)
      BY <2>11 DEF Used
    <3>3. /\ Sub(c.s_end, Add(c.s_una, f, SND_SZ), SND_SZ) = Sub(c.s_end, c.s_una, SND_SZ) - f
          /\ \A k \in SndIdx : f + k < SND_SZ
               => Add(Add(c.s_una, f, SND_SZ), k, SND_SZ) = Add(c.s_una, f + k, SND_SZ)
      BY <2>8, <3>1, <3>2, ShiftArith
    <3>4. d.s_una = Add(c.s_una, f, SND_SZ) /\ d.s_end = c.s_end
      BY <2>10
    <3>5. Used(d) = Sub(c.s_end, Add(c.s_una, f, SND_SZ), SND_SZ)
      BY <3>4, Zenon DEF Used
    <3>6. Used(d) = Used(c) - f
      BY <3>3, <3>5, Zenon DEF Used
    <3> QED BY <3>3, <3>4, <3>6, Zenon
  <2>13. Freed(d, L) = j
    <3> DEFINE l == Len(L)
               e == Used(d)
               v == Used(c)
    <3>1. /\ l \in Nat /\ v \in Nat /\ u \in Int /\ j \in Int /\ f \in Nat
          /\ u = l - v /\ e = v - f /\ f = j - u
      BY <2>2, <2>3, <2>4, <2>9, <2>11, <2>12
    <3> HIDE DEF l, e, v
    <3>2. l - e = j
      BY <3>1
    <3> QED BY <3>2, Zenon DEF Freed, l, e
  <2>14. Used(d) <= Len(L)
    BY <2>2, <2>3, <2>11, <2>12
  <2>15. ASSUME NEW k \in 1..Used(d)
         PROVE  d.sbuf[Add(d.s_una, k - 1, SND_SZ)] = L[Freed(d, L) + k]
    <3>1. k \in Nat /\ k >= 1 /\ k <= Used(c) - f
      BY <2>3, <2>11, <2>12
    <3>2. k - 1 \in SndIdx /\ f + (k - 1) < SND_SZ
      BY <2>3, <2>11, <3>1 DEF SndIdx
    <3>3. f + k \in 1..Used(c) /\ (f + k) - 1 = f + (k - 1)
      BY <2>3, <2>11, <3>1
    <3>4. u + (f + k) = j + k
      BY <2>4, <2>9, <3>1
    <3>5. Add(d.s_una, k - 1, SND_SZ) = Add(c.s_una, f + (k - 1), SND_SZ)
      BY <2>12, <3>2
    <3>6. c.sbuf[Add(c.s_una, (f + k) - 1, SND_SZ)] = L[u + (f + k)]
      BY <3>3, Zenon DEF Flow, u
    <3> QED BY <2>10, <2>13, <3>3, <3>4, <3>5, <3>6
  <2>16. d.snd_una = ByteSeq(d.id, Freed(d, L)) /\ p.id = d.id
    BY <2>1, <2>2, <2>10, <2>13
  <2>17. Freed(d, L) <= Len(p.got)
    BY <2>1, <2>13
  <2>18. Flow(d, L, p)
    BY <2>10, <2>14, <2>15, <2>16, <2>17 DEF Flow
  <2> QED BY <2>18 DEF d
<1> QED BY <1>1, <1>2

LEMMA SegFlow ==
  ASSUME NEW c, Good(c), Live(c), NEW m \in Frame, NEW L \in Seq(Byte), NEW p,
         Len(L) <= MaxPut, c.id \in 1..Len(ISS), Flow(c, L, p),
         Knows(p, c.id), m.ack \in p.acks, Live(SegIn(c, m))
  PROVE  /\ Flow(SegIn(c, m), L, p)
         /\ SegIn(c, m).id = c.id /\ SegIn(c, m).peer = c.peer
<1> DEFINE e == EstabIn(c, m)
           a == AckIn(e, m)
           d == DataIn(a, m)
<1>1. c \in Conn /\ SlotRing(c)
  BY DEF Good
<1>2. e \in Conn /\ SlotRing(e) /\ Flow(e, L, p)
  BY <1>1, EstabType, EstabRing, EstabFlow
<1>3. e.id = c.id /\ e.peer = c.peer
  BY <1>1, Zenon DEF EstabIn, Conn
<1>4. CASE e.tstate # "ESTAB"
  BY <1>4 DEF SegIn
<1>5. CASE e.tstate = "ESTAB"
  <2> HIDE DEF e
  <2>1. a \in Conn /\ Flow(a, L, p)
    BY <1>2, <1>3, <1>5, AckType, AckFlow
  <2>2. a.id = e.id /\ a.peer = e.peer
    BY <1>2, Zenon DEF AckIn, Conn
  <2> HIDE DEF a
  <2>3. d \in Conn /\ Flow(d, L, p)
    BY <2>1, DataType, DataFlow
  <2>4. d.id = a.id /\ d.peer = a.peer
    BY <2>1, Zenon DEF DataIn, Conn
  <2> HIDE DEF d
  <2>5. "FIN" \notin m.flags
    <3> SUFFICES ASSUME "FIN" \in m.flags PROVE FALSE
      OBVIOUS
    <3>1. SegIn(c, m) = tcp_reset_listen([d EXCEPT !.rcv_nxt = Add(@, 1, SEQ)])
      BY <1>5 DEF SegIn, e, a, d
    <3>2. tcp_reset_listen([d EXCEPT !.rcv_nxt = Add(@, 1, SEQ)]).tstate = "LISTEN"
      BY <2>3, Zenon DEF tcp_reset_listen, Conn
    <3> QED BY <3>1, <3>2 DEF Live
  <2>6. SegIn(c, m) = d
    BY <1>5, <2>5 DEF SegIn, e, a, d
  <2> QED BY <1>3, <2>2, <2>3, <2>4, <2>6
<1> QED BY <1>4, <1>5

LEMMA EndArith ==
  ASSUME NEW su \in SndIdx, NEW se \in SndIdx
  PROVE  /\ Add(su, Sub(se, su, SND_SZ), SND_SZ) = se
         /\ \A k \in SndIdx : k < Sub(se, su, SND_SZ) => Add(su, k, SND_SZ) # se
<1> DEFINE m == SND_SZ
           used == Sub(se, su, m)
<1>1. used \in SndIdx /\ used = IF se >= su THEN se - su ELSE se - su + m
  BY SndSub, SndRange, Integral
<1> HIDE DEF used
<1>2. Add(su, used, m) = IF su + used < m THEN su + used ELSE su + used - m
  BY <1>1, SndSub
<1>3. m \in Nat \ {0} /\ su \in 0..(m - 1) /\ se \in 0..(m - 1) /\ used \in 0..(m - 1)
  BY <1>1, ModuliPositive DEF SndIdx
<1>4. ASSUME NEW k \in SndIdx, k < used PROVE Add(su, k, m) # se
  <2>1. Add(su, k, m) = IF su + k < m THEN su + k ELSE su + k - m
    BY SndSub
  <2>2. k \in 0..(m - 1)
    BY DEF SndIdx
  <2> HIDE DEF m
  <2> QED BY <1>1, <1>3, <1>4, <2>1, <2>2
<1> HIDE DEF m
<1>5. Add(su, used, m) = se
  BY <1>1, <1>2, <1>3
<1> QED BY <1>4, <1>5 DEF used, m

(* A byte queued is the last of the ring and of the log.                   *)
LEMMA AppendFlow ==
  ASSUME NEW c \in Conn, NEW b \in Byte, NEW L \in Seq(Byte), NEW p,
         ~SndFull(c), Flow(c, L, p)
  PROVE  /\ Flow(Append1(c, b), Append(L, b), p)
         /\ Append1(c, b).id = c.id /\ Append1(c, b).peer = c.peer
         /\ Append1(c, b).tstate = c.tstate
<1> DEFINE d == Append1(c, b)
           M == Append(L, b)
           used == Used(c)
           u == Freed(c, L)
<1>1. /\ d.tstate = c.tstate /\ d.id = c.id /\ d.peer = c.peer
      /\ d.snd_una = c.snd_una /\ d.snd_nxt = c.snd_nxt /\ d.s_una = c.s_una
      /\ d.s_end = Add(c.s_end, 1, SND_SZ) /\ d.sbuf = [c.sbuf EXCEPT ![c.s_end] = b]
  BY Zenon DEF Append1, Conn
<1>2. c.sbuf \in [SndIdx -> Byte] /\ c.s_una \in SndIdx /\ c.s_end \in SndIdx
  BY Zenon DEF Conn
<1>3. \A i \in SndIdx : d.sbuf[i] = IF i = c.s_end THEN b ELSE c.sbuf[i]
  BY <1>1, <1>2, Zenon
<1> HIDE DEF d
<1>4. Used(d) = used + 1
  BY <1>1, <1>2, PutArith DEF SndFull, Used
<1>5. M \in Seq(Byte) /\ Len(M) = Len(L) + 1 /\ Len(L) \in Nat
  OBVIOUS
<1>6. M[Len(L) + 1] = b /\ \A k \in 1..Len(L) : M[k] = L[k]
  OBVIOUS
<1> HIDE DEF M
<1>7. used \in SndIdx /\ used \in Nat /\ used + 1 < SND_SZ /\ SND_SZ \in Nat
  BY Derived, BytesFit DEF SndFull, SndIdx
<1>8. used <= Len(L) /\ u = Len(L) - used
  BY DEF Flow, Freed
<1>9. Freed(d, M) = u
  BY <1>4, <1>5, <1>7, <1>8 DEF Freed
<1>10. ASSUME NEW k \in 1..Used(d)
       PROVE  d.sbuf[Add(d.s_una, k - 1, SND_SZ)] = M[Freed(d, M) + k]
  <2>1. k \in Nat /\ k >= 1 /\ k <= used + 1 /\ k - 1 \in SndIdx
    BY <1>4, <1>7 DEF SndIdx
  <2>2. Add(c.s_una, k - 1, SND_SZ) \in SndIdx
    BY <1>2, <2>1, SndRange, Integral
  <2>3. CASE k <= used
    <3>1. Add(c.s_una, k - 1, SND_SZ) # c.s_end
      <4>1. k - 1 < Sub(c.s_end, c.s_una, SND_SZ)
        BY <1>7, <2>1, <2>3 DEF Used
      <4> QED BY <1>2, <2>1, <4>1, EndArith
    <3>2. d.sbuf[Add(d.s_una, k - 1, SND_SZ)] = c.sbuf[Add(c.s_una, k - 1, SND_SZ)]
      BY <1>1, <1>3, <2>2, <3>1, Zenon
    <3>3. k \in 1..used /\ u + k \in 1..Len(L)
      BY <1>5, <1>7, <1>8, <2>1, <2>3
    <3>4. c.sbuf[Add(c.s_una, k - 1, SND_SZ)] = L[u + k]
      BY <3>3, Zenon DEF Flow, u, used
    <3> HIDE DEF u, used
    <3> QED BY <1>6, <1>9, <3>2, <3>3, <3>4, Zenon
  <2>4. CASE ~(k <= used)
    <3>1. k - 1 = used /\ u + k = Len(L) + 1
      BY <1>5, <1>7, <1>8, <2>1, <2>4
    <3>2. Add(c.s_una, used, SND_SZ) = c.s_end
      BY <1>2, EndArith DEF Used
    <3>3. d.sbuf[c.s_end] = b
      BY <1>2, <1>3, Zenon
    <3> HIDE DEF u, used
    <3> QED BY <1>1, <1>6, <1>9, <3>1, <3>2, <3>3
  <2> QED BY <2>3, <2>4
<1>11. Used(d) <= Len(M)
  BY <1>4, <1>5, <1>7, <1>8
<1> HIDE DEF u, used
<1>12. Flow(d, M, p)
  BY <1>1, <1>9, <1>10, <1>11, Zenon DEF Flow, u
<1> QED BY <1>1, <1>12 DEF d, M

---------------------------------------------------------------------------
(* What a slot sends.                                                      *)

LEMMA SegFields ==
  ASSUME NEW c, NEW flags, NEW seq, NEW doff, NEW dlen
  PROVE  LET s == tcp_send_seg(c, flags, seq, doff, dlen)
         IN  /\ s.dst = c.peer /\ s.id = c.id /\ s.flags = flags /\ s.seq = seq
             /\ s.data = [k \in 1..dlen |-> c.sbuf[Add(doff, k - 1, SND_SZ)]]
BY DEF tcp_send_seg

(* First sends and resends alike carry a stretch of the log under its own  *)
(* sequence numbers, wherever go-back-N cuts it.                           *)
LEMMA OutputStretch ==
  ASSUME NEW c \in Conn, SlotRing(c), NEW L \in Seq(Byte), NEW p, Flow(c, L, p),
         Len(L) <= MaxPut, c.id \in 1..Len(ISS), NEW s \in OutputSegs(c)
  PROVE  /\ s.id = c.id /\ s.dst = c.peer /\ s.flags = {"PSH", "ACK"}
         /\ Stretch(s, L)
<1> DEFINE all == Unsent(c)
           f == InFlight(c)
           u == Freed(c, L)
<1>1. c.tstate = "ESTAB"
  BY DEF OutputSegs
<1>2. PICK off \in 0..(all - 1) :
        s = tcp_send_seg(c, {"PSH", "ACK"}, Add(c.snd_nxt, off, SEQ),
                         Add(c.s_nxt, off, SND_SZ), Lesser(MSS_TX, all - off))
  BY <1>1 DEF OutputSegs
<1> DEFINE dlen == Lesser(MSS_TX, all - off)
           doff == Add(c.s_nxt, off, SND_SZ)
           o == u + (f + off)
<1>3. /\ s.id = c.id /\ s.dst = c.peer /\ s.flags = {"PSH", "ACK"}
      /\ s.seq = Add(c.snd_nxt, off, SEQ)
      /\ s.data = [k \in 1..dlen |-> c.sbuf[Add(doff, k - 1, SND_SZ)]]
  BY <1>2, SegFields
<1>4. f = Sub(c.s_nxt, c.s_una, SND_SZ) /\ f <= Used(c)
  BY <1>1 DEF SlotRing
<1>5. c.s_una \in SndIdx /\ c.s_nxt \in SndIdx /\ c.s_end \in SndIdx
      /\ c.snd_una \in SeqNum /\ c.snd_nxt \in SeqNum
  BY Fields
<1>6. f \in SndIdx
  BY <1>4, <1>5, SndRange, Integral
<1>7. /\ all = Used(c) - f
      /\ \A i, k \in SndIdx : f + i + k < SND_SZ
           => Add(Add(c.s_nxt, i, SND_SZ), k, SND_SZ) = Add(c.s_una, f + i + k, SND_SZ)
  BY <1>4, <1>5, CursorArith DEF Used, Unsent
<1>8. /\ Used(c) \in Nat /\ Used(c) < SND_SZ /\ f \in Nat /\ SND_SZ \in Nat /\ MSS_TX \in Nat \ {0}
      /\ Len(L) \in Nat
  BY <1>6, Derived, BytesFit, SizesAssumption DEF SndIdx
<1>9. /\ c.snd_una = ByteSeq(c.id, u) /\ u = Len(L) - Used(c) /\ Used(c) <= Len(L)
  BY <1>1 DEF Flow, Freed
<1> HIDE DEF all, f, u
<1>10. all = Used(c) - f
  BY <1>7
<1>11. u \in Nat /\ all \in Nat /\ off \in Nat /\ off < all
  <2>1. u \in Nat
    BY <1>8, <1>9
  <2>2. all \in Nat
    BY <1>4, <1>8, <1>10
  <2>3. off \in Nat /\ off < all
    BY <2>2
  <2> QED BY <2>1, <2>2, <2>3
<1>12. dlen \in Nat /\ dlen >= 1 /\ off + dlen <= all
  BY <1>8, <1>11 DEF Lesser
<1>13. o \in 0..Len(L) /\ o + dlen <= Len(L)
  <2>1. u + Used(c) = Len(L) /\ f + all = Used(c)
    <3>1. u + Used(c) = Len(L)
      BY <1>8, <1>9
    <3>2. f + all = Used(c)
      BY <1>8, <1>10
    <3> QED BY <3>1, <3>2
  <2>2. o \in Nat /\ o + dlen <= Len(L)
    BY <1>8, <1>11, <1>12, <2>1
  <2> QED BY <1>8, <1>12, <2>2
<1>14. s.seq = ByteSeq(c.id, o)
  <2>1. Add(c.snd_una, f, SEQ) = c.snd_nxt
    <3>1. Sub(c.snd_nxt, c.snd_una, SEQ) = f
      BY DEF f, InFlight
    <3>2. f \in SeqNum
      BY <1>6, SndIsSeq
    <3>3. /\ f = IF c.snd_nxt >= c.snd_una THEN c.snd_nxt - c.snd_una
                 ELSE c.snd_nxt - c.snd_una + SEQ
          /\ Add(c.snd_una, f, SEQ) = IF c.snd_una + f < SEQ THEN c.snd_una + f
                                      ELSE c.snd_una + f - SEQ
      BY <1>5, <3>1, <3>2, SeqSub
    <3> QED BY <1>5, <3>2, <3>3, BytesFit DEF SeqNum
  <2>2. u \in 0..MaxPut /\ f + u <= MaxPut /\ u + f \in 0..MaxPut /\ (u + f) + off <= MaxPut
        /\ u + f <= MaxPut /\ o = (u + f) + off
    <3>1. f \in Nat /\ MaxPut \in Nat /\ o <= MaxPut
      BY <1>8, <1>13, BytesFit
    <3>2. o = (u + f) + off
      BY <1>11, <3>1
    <3> QED BY <1>11, <3>1, <3>2
  <2>3. c.snd_nxt = ByteSeq(c.id, u + f)
    BY <1>8, <1>9, <2>1, <2>2, BytesOn
  <2>4. Add(c.snd_nxt, off, SEQ) = ByteSeq(c.id, (u + f) + off)
    BY <1>11, <2>2, <2>3, BytesOn
  <2> QED BY <1>3, <2>2, <2>4
<1> HIDE DEF dlen
<1>15. Len(s.data) = dlen /\ \A k \in 1..dlen : s.data[k] = c.sbuf[Add(doff, k - 1, SND_SZ)]
  BY <1>3, <1>12
<1>16. ASSUME NEW k \in 1..Len(s.data) PROVE s.data[k] = L[o + k]
  <2>1. k \in Nat /\ k >= 1 /\ k <= dlen
    BY <1>12, <1>15
  <2>2. k - 1 \in SndIdx /\ off \in SndIdx /\ f + off + (k - 1) < SND_SZ
    BY <1>8, <1>11, <1>12, <1>10, <2>1 DEF SndIdx
  <2>3. Add(doff, k - 1, SND_SZ) = Add(c.s_una, f + off + (k - 1), SND_SZ)
    BY <1>7, <2>2
  <2>4. f + off + k \in 1..Used(c) /\ (f + off + k) - 1 = f + off + (k - 1)
        /\ u + (f + off + k) = o + k
    BY <1>8, <1>11, <1>12, <1>10, <2>1
  <2>5. c.sbuf[Add(c.s_una, (f + off + k) - 1, SND_SZ)] = L[u + (f + off + k)]
    BY <2>4, Zenon DEF Flow, u
  <2> QED BY <1>15, <2>3, <2>4, <2>5
<1> HIDE DEF o
<1>17. Stretch(s, L)
  BY <1>3, <1>13, <1>14, <1>15, <1>16, Zenon DEF Stretch
<1> QED BY <1>3, <1>17

LEMMA NoData ==
  ASSUME NEW c, NEW flags, NEW seq, NEW doff
  PROVE  LET s == tcp_send_seg(c, flags, seq, doff, 0)
         IN  /\ s.dst = c.peer /\ s.id = c.id /\ s.flags = flags /\ s.seq = seq
             /\ s.data = <<>>
<1> DEFINE s == tcp_send_seg(c, flags, seq, doff, 0)
           g == [k \in 1..0 |-> c.sbuf[Add(doff, k - 1, SND_SZ)]]
<1>1. /\ s.dst = c.peer /\ s.id = c.id /\ s.flags = flags /\ s.seq = seq /\ s.data = g
  BY DEF tcp_send_seg
<1>2. g = <<>>
  OBVIOUS
<1> QED BY <1>1, <1>2

---------------------------------------------------------------------------
(* The bytes at the client, and what it takes from a segment.              *)

(* More bytes queued for a connection: what was sent and taken stands.     *)
Grows(L, M) == Len(L) <= Len(M) /\ \A k \in 1..Len(L) : M[k] = L[k]

LEMMA StretchGrows ==
  ASSUME NEW L \in Seq(Byte), NEW M \in Seq(Byte), Grows(L, M), NEW s, Stretch(s, L),
         s.data \in Seq(Byte)
  PROVE  Stretch(s, M)
<1>1. PICK o \in 0..Len(L) : /\ s.seq = ByteSeq(s.id, o) /\ o + Len(s.data) <= Len(L)
                             /\ \A k \in 1..Len(s.data) : s.data[k] = L[o + k]
  BY DEF Stretch
<1>2. Len(L) \in Nat /\ Len(M) \in Nat /\ Len(s.data) \in Nat /\ Len(L) <= Len(M)
  BY DEF Grows
<1>3. o \in 0..Len(M) /\ o + Len(s.data) <= Len(M)
  BY <1>1, <1>2
<1>4. ASSUME NEW k \in 1..Len(s.data) PROVE s.data[k] = M[o + k]
  <2>1. o + k \in 1..Len(L)
    BY <1>1, <1>2
  <2>2. M[o + k] = L[o + k]
    BY <2>1, Zenon DEF Grows
  <2> QED BY <1>1, <2>2, Zenon
<1> QED BY <1>1, <1>3, <1>4, Zenon DEF Stretch

LEMMA TookGrows ==
  ASSUME NEW L \in Seq(Byte), NEW M \in Seq(Byte), Grows(L, M), NEW p, Took(p, L),
         p.got \in Seq(Byte)
  PROVE  Took(p, M)
<1>1. Len(L) \in Nat /\ Len(M) \in Nat /\ Len(p.got) \in Nat /\ Len(L) <= Len(M)
      /\ Len(p.got) <= Len(L)
  BY DEF Grows, Took
<1>2. Len(p.got) <= Len(M)
  BY <1>1
<1>3. ASSUME NEW k \in 1..Len(p.got) PROVE p.got[k] = M[k]
  <2>1. k \in 1..Len(L)
    BY <1>1
  <2> QED BY <1>3, <2>1, Zenon DEF Grows, Took
<1> QED BY <1>2, <1>3, Zenon DEF Took

LEMMA JoinedFields ==
  ASSUME NEW q \in Seq(Byte), NEW t \in Seq(Byte)
  PROVE  /\ q \o t \in Seq(Byte) /\ Len(q \o t) = Len(q) + Len(t)
         /\ \A k \in 1..Len(q) : (q \o t)[k] = q[k]
         /\ \A k \in 1..Len(t) : (q \o t)[Len(q) + k] = t[k]
<1>1. Len(q) \in Nat /\ Len(t) \in Nat
  OBVIOUS
<1>2. q \o t \in Seq(Byte) /\ Len(q \o t) = Len(q) + Len(t)
  OBVIOUS
<1>3. \A k \in 1..(Len(q) + Len(t)) : (q \o t)[k] = IF k <= Len(q) THEN q[k] ELSE t[k - Len(q)]
  OBVIOUS
<1>4. ASSUME NEW k \in 1..Len(q) PROVE (q \o t)[k] = q[k]
  <2>1. k \in 1..(Len(q) + Len(t)) /\ k <= Len(q)
    BY <1>1
  <2> QED BY <1>3, <2>1, Zenon
<1>5. ASSUME NEW k \in 1..Len(t) PROVE (q \o t)[Len(q) + k] = t[k]
  <2> DEFINE j == Len(q) + k
  <2>1. j \in 1..(Len(q) + Len(t)) /\ ~(j <= Len(q)) /\ j - Len(q) = k
    BY <1>1
  <2> HIDE DEF j
  <2>2. (q \o t)[j] = t[k]
    BY <1>3, <2>1, Zenon
  <2> QED BY <2>2 DEF j
<1> QED BY <1>2, <1>4, <1>5, Zenon

(* The part of a data segment that is new.                                 *)
Follows(got, data, h, r) ==
  /\ got \in Seq(Byte) /\ data \in Seq(Byte) /\ h \in Nat /\ h < Len(data)
  /\ r = got \o SubSeq(data, h + 1, Len(data))

Continues(got, data, h, r) ==
  /\ Len(r) = Len(got) + (Len(data) - h)
  /\ \A k \in 1..Len(got) : r[k] = got[k]
  /\ \A k \in 1..(Len(data) - h) : r[Len(got) + k] = data[h + k]

LEMMA TakeMore ==
  ASSUME NEW got, NEW data, NEW h, NEW r, Follows(got, data, h, r)
  PROVE  Continues(got, data, h, r)
<1> DEFINE t == SubSeq(data, h + 1, Len(data))
           n == Len(data)
<1>0. got \in Seq(Byte) /\ data \in Seq(Byte) /\ h \in Nat /\ h < n /\ r = got \o t
  BY Zenon DEF Follows
<1>1. n \in Nat /\ Len(got) \in Nat /\ h + 1 \in 1..n /\ n \in 1..n
  BY <1>0
<1>2. t \in Seq(Byte) /\ Len(t) = n - h /\ \A k \in 1..(n - h) : t[k] = data[h + k]
  <2>1. /\ t = [k \in 1..(n - (h + 1) + 1) |-> data[(h + 1) + k - 1]]
    BY <1>0, <1>1
  <2>2. n - (h + 1) + 1 = n - h
    BY <1>0, <1>1
  <2>3. t = [k \in 1..(n - h) |-> data[(h + 1) + k - 1]]
    BY <2>1, <2>2
  <2>4. \A k \in 1..(n - h) : t[k] = data[(h + 1) + k - 1] /\ (h + 1) + k - 1 = h + k
                              /\ h + k \in 1..n
    BY <1>0, <1>1, <2>3
  <2>5. t \in Seq(Byte) /\ Len(t) = n - h
    BY <1>0, <1>1
  <2> QED BY <2>4, <2>5
<1> HIDE DEF t, n
<1>3. /\ got \o t \in Seq(Byte) /\ Len(got \o t) = Len(got) + Len(t)
      /\ \A k \in 1..Len(got) : (got \o t)[k] = got[k]
      /\ \A k \in 1..Len(t) : (got \o t)[Len(got) + k] = t[k]
  BY <1>0, <1>2, JoinedFields, Zenon
<1>4. /\ got \o t \in Seq(Byte) /\ Len(got \o t) = Len(got) + (n - h)
      /\ \A k \in 1..Len(got) : (got \o t)[k] = got[k]
      /\ \A k \in 1..(n - h) : (got \o t)[Len(got) + k] = data[h + k]
  BY <1>2, <1>3
<1> QED BY <1>0, <1>4, Zenon DEF n, Continues

(* Where a data segment lies against what the client has: the bytes it     *)
(* may take belong to its own connection and follow the ones it took.      *)
LEMMA NewPlace ==
  ASSUME NEW n \in 1..Len(ISS), NEW l \in 1..Len(ISS), l # n => Apart(l, n),
         NEW g \in 0..MaxPut, NEW o \in 0..MaxPut, NEW d \in Nat, o + d <= MaxPut,
         Sub(ByteSeq(n, g), ByteSeq(l, o), SEQ) < d
  PROVE  l = n /\ o <= g /\ g < o + d /\ Sub(ByteSeq(n, g), ByteSeq(l, o), SEQ) = g - o
<1> DEFINE have == Sub(ByteSeq(n, g), ByteSeq(l, o), SEQ)
<1>1. have \in Nat
  <2>1. ByteSeq(n, g) \in Int /\ ByteSeq(l, o) \in Int
    BY ByteCases, Integral
  <2>2. have \in SeqNum
    BY <2>1, SeqRange
  <2> QED BY <2>2, BytesFit DEF SeqNum
<1>2. l = n
  <2> SUFFICES ASSUME l # n PROVE FALSE
    OBVIOUS
  <2>1. Sub(ISS[n], ISS[l], SEQ) > MaxPut + 1 /\ Sub(ISS[l], ISS[n], SEQ) > MaxPut + 1
    BY Zenon DEF Apart
  <2>2. have + o > MaxPut
    BY <2>1, OthersApart
  <2> HIDE DEF have
  <2>3. have < d
    BY DEF have
  <2> QED BY <1>1, <2>2, <2>3, BytesFit
<1>3. have = IF g >= o THEN g - o ELSE g - o + SEQ
  BY <1>2, BytesApart
<1>4. have < d
  OBVIOUS
<1> HIDE DEF have
<1>5. g >= o /\ have = g - o
  BY <1>1, <1>3, <1>4, BytesFit
<1> QED BY <1>2, <1>4, <1>5 DEF have

LEMMA TookMore ==
  ASSUME NEW p \in Client, NEW q \in Client, NEW s, s.data \in Seq(Byte),
         NEW L \in Seq(Byte), Len(L) <= MaxPut, p.id \in 1..Len(ISS), Took(p, L),
         NEW o \in 0..Len(L), s.seq = ByteSeq(p.id, o), o + Len(s.data) <= Len(L),
         \A k \in 1..Len(s.data) : s.data[k] = L[o + k],
         NEW h \in Nat, h < Len(s.data), o + h = Len(p.got),
         q.id = p.id, q.rcv_nxt = Add(s.seq, Len(s.data), SEQ),
         q.acks = p.acks \cup {Add(s.seq, Len(s.data), SEQ)},
         q.got = p.got \o SubSeq(s.data, h + 1, Len(s.data))
  PROVE  Took(q, L) /\ Len(p.got) <= Len(q.got)
<1> DEFINE g == Len(p.got)
           d == Len(s.data)
           m == Len(q.got)
<1>1. p.got \in Seq(Byte)
  BY Zenon DEF Client
<1>2. g \in Nat /\ d \in Nat /\ Len(L) \in Nat /\ MaxPut \in Nat
  BY <1>1, BytesFit
<1>3. /\ m = g + (d - h)
      /\ \A k \in 1..g : q.got[k] = p.got[k]
      /\ \A k \in 1..(d - h) : q.got[g + k] = s.data[h + k]
  <2> DEFINE x == p.got
             y == s.data
             z == q.got
  <2>1. /\ x \in Seq(Byte) /\ h \in Nat /\ h < Len(y) /\ y \in Seq(Byte)
        /\ z = x \o SubSeq(y, h + 1, Len(y))
    BY <1>1
  <2> HIDE DEF x, y, z
  <2>2. /\ Len(z) = Len(x) + (Len(y) - h)
        /\ \A k \in 1..Len(x) : z[k] = x[k]
        /\ \A k \in 1..(Len(y) - h) : z[Len(x) + k] = y[h + k]
    <3>1. Follows(x, y, h, z)
      BY <2>1, Zenon DEF Follows
    <3>2. Continues(x, y, h, z)
      BY <3>1, TakeMore, Zenon
    <3> QED BY <3>2, Zenon DEF Continues
  <2> QED BY <2>2, Zenon DEF g, d, m, x, y, z
<1>4. Add(s.seq, d, SEQ) = ByteSeq(p.id, o + d)
  <2>1. o \in 0..MaxPut /\ o + d <= MaxPut
    BY <1>2
  <2> QED BY <1>2, <2>1, BytesOn
<1>5. Took(p, L)
  OBVIOUS
<1>6. \A k \in 1..g : p.got[k] = L[k]
  BY <1>5, Zenon DEF Took
<1> HIDE DEF g, d, m
<1>7. h < d /\ o + h = g /\ o + d <= Len(L) /\ o \in Nat
  BY <1>2 DEF g, d
<1>8. m = o + d /\ g <= m /\ m <= Len(L) /\ m \in Nat /\ 0..g \subseteq 0..m /\ m \in 0..m
  BY <1>2, <1>3, <1>7
<1>9. ASSUME NEW k \in 1..m PROVE q.got[k] = L[k]
  <2>1. CASE k <= g
    <3>1. k \in 1..g
      BY <1>2, <1>8, <2>1
    <3> QED BY <1>3, <1>6, <3>1, Zenon
  <2>2. CASE k > g
    <3> DEFINE j == k - g
    <3>1. j \in 1..(d - h) /\ g + j = k /\ h + j \in 1..d /\ o + (h + j) = k
      BY <1>2, <1>7, <1>8, <2>2
    <3> HIDE DEF j
    <3>2. q.got[k] = s.data[h + j]
      BY <1>3, <3>1, Zenon
    <3>3. s.data[h + j] = L[o + (h + j)]
      BY <3>1, Zenon DEF d
    <3> QED BY <3>1, <3>2, <3>3, Zenon
  <2>3. k <= g \/ k > g
    BY <1>2, <1>8
  <2> QED BY <2>1, <2>2, <2>3
<1>10. q.rcv_nxt = ByteSeq(q.id, m)
  BY <1>4, <1>8, Zenon DEF d
<1>11. ASSUME NEW a \in q.acks PROVE \E j \in 0..m : a = ByteSeq(q.id, j)
  <2>1. CASE a \in p.acks
    <3>1. PICK j \in 0..g : a = ByteSeq(p.id, j)
      BY <1>5, <2>1, Zenon DEF Took, g
    <3>2. j \in 0..m
      BY <1>8, <3>1
    <3> QED BY <3>1, <3>2, Zenon
  <2>2. CASE a = Add(s.seq, d, SEQ)
    BY <1>4, <1>8, <2>2, Zenon
  <2>3. a \in p.acks \/ a = Add(s.seq, d, SEQ)
    BY <1>11 DEF d
  <2> QED BY <2>1, <2>2, <2>3, Zenon
<1>12. Took(q, L)
  BY <1>8, <1>9, <1>10, <1>11, Zenon DEF Took, m
<1> QED BY <1>8, <1>12 DEF g, m
=============================================================================

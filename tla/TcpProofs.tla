----------------------------- MODULE TcpProofs -----------------------------
(***************************************************************************)
(* Type correctness of the slot table and the two invariants of net.c that *)
(* do not depend on how the peers behave, for every number of slots, ring  *)
(* size, sequence space and set of clients.                                *)
(***************************************************************************)
EXTENDS Tcp, TLAPS, WellFoundedInduction, NaturalsInduction

(* Unsigned addition and subtraction under a mask, as case distinctions.   *)
LEMMA AddCases ==
  ASSUME NEW m \in Nat \ {0}, NEW a \in 0..(m - 1), NEW b \in 0..(m - 1)
  PROVE  Add(a, b, m) = IF a + b < m THEN a + b ELSE a + b - m
BY DEF Add

LEMMA SubCases ==
  ASSUME NEW m \in Nat \ {0}, NEW a \in 0..(m - 1), NEW b \in 0..(m - 1)
  PROVE  Sub(a, b, m) = IF a >= b THEN a - b ELSE a - b + m
BY DEF Sub

LEMMA ModuliPositive ==
  SND_SZ \in Nat \ {0} /\ RCV_SZ \in Nat \ {0} /\ SEQ \in Nat \ {0}
BY SizesAssumption DEF SEQ

(* Results stay inside the mask, whatever is added or subtracted.          *)
LEMMA SndRange == \A a, b \in Int : Add(a, b, SND_SZ) \in SndIdx /\ Sub(a, b, SND_SZ) \in SndIdx
BY ModuliPositive DEF Add, Sub, SndIdx

LEMMA RcvRange == \A a, b \in Int : Add(a, b, RCV_SZ) \in RcvIdx /\ Sub(a, b, RCV_SZ) \in RcvIdx
BY ModuliPositive DEF Add, Sub, RcvIdx

LEMMA SeqRange == \A a, b \in Int : Add(a, b, SEQ) \in SeqNum /\ Sub(a, b, SEQ) \in SeqNum
BY ModuliPositive DEF Add, Sub, SeqNum

LEMMA Integral == SndIdx \subseteq Int /\ RcvIdx \subseteq Int /\ SeqNum \subseteq Int
BY ModuliPositive DEF SndIdx, RcvIdx, SeqNum

(* The fields of a slot, for use where the record itself is not opened.    *)
LEMMA Fields ==
  ASSUME NEW c \in Conn
  PROVE  /\ c.snd_una \in SeqNum /\ c.snd_nxt \in SeqNum /\ c.rcv_nxt \in SeqNum
         /\ c.s_una \in SndIdx /\ c.s_nxt \in SndIdx /\ c.s_end \in SndIdx
         /\ c.r_head \in RcvIdx /\ c.r_tail \in RcvIdx
         /\ c.rexmit_at \in 0..REXMIT_TICKS /\ c.rexmit_count \in 0..MAX_REXMIT
BY Zenon DEF Conn

LEMMA Zeroes ==
  /\ 0 \in SndIdx /\ 0 \in RcvIdx /\ 0 \in SeqNum /\ 0 \in 0..MAX_REXMIT
  /\ REXMIT_TICKS \in 0..REXMIT_TICKS
BY SizesAssumption DEF SndIdx, RcvIdx, SeqNum, SEQ

LEMMA FrameFields ==
  ASSUME NEW m \in Frame
  PROVE  m.seq \in SeqNum /\ m.ack \in SeqNum /\ m.src \in Clients /\ m.data \in Seq(Keys)
BY Zenon DEF Frame

(* Two sequences with the same elements are one.                           *)
LEMMA SameSeq ==
  ASSUME NEW S, NEW s \in Seq(S), NEW t \in Seq(S), Len(s) = Len(t),
         \A k \in 1..Len(s) : s[k] = t[k]
  PROVE  s = t
OBVIOUS

LEMMA PrefixSeq ==
  ASSUME NEW S, NEW q \in Seq(S), NEW n \in 0..Len(q)
  PROVE  /\ SubSeq(q, 1, n) \in Seq(S) /\ Len(SubSeq(q, 1, n)) = n
         /\ \A k \in 1..n : SubSeq(q, 1, n)[k] = q[k]
OBVIOUS

LEMMA Derived ==
  ASSUME NEW c \in Conn
  PROVE  /\ Unsent(c) \in SndIdx /\ Used(c) \in SndIdx
         /\ InFlight(c) \in SeqNum /\ RcvUsed(c) \in RcvIdx
         /\ RcvFree(c) \in RcvIdx
<1>1. RcvUsed(c) \in RcvIdx
  BY RcvRange, Integral, Fields DEF RcvUsed
<1>2. RcvFree(c) \in RcvIdx
  BY <1>1, ModuliPositive DEF RcvFree, RcvIdx
<1> QED BY <1>1, <1>2, SndRange, SeqRange, Integral, Fields DEF Unsent, Used, InFlight

(* The operations on one slot keep it a struct conn.                       *)
LEMMA ResetType == ASSUME NEW c \in Conn PROVE tcp_reset_listen(c) \in Conn
BY Zeroes, Zenon DEF tcp_reset_listen, Conn

LEMMA OutputType == ASSUME NEW c \in Conn PROVE tcp_output(c) \in Conn
<1>1. Add(c.snd_nxt, Unsent(c), SEQ) \in SeqNum
  BY Derived, Fields, SeqRange, Integral
<1> QED BY <1>1, Zeroes, Zenon DEF tcp_output, Conn

LEMMA ClockType ==
  ASSUME NEW c \in Conn, NEW e \in Nat
  PROVE  Clock(c, e) \in Conn
<1>1. (IF c.rexmit_at > e THEN c.rexmit_at - e ELSE 0) \in 0..REXMIT_TICKS
  BY Fields, SizesAssumption
<1> QED BY <1>1, Zenon DEF Clock, Conn

LEMMA TimerType == ASSUME NEW c \in Conn PROVE tcp_timer(c) \in Conn
<1>1. CASE c.rexmit_count + 1 > MAX_REXMIT
  BY <1>1, ResetType DEF tcp_timer
<1>2. CASE ~(c.rexmit_count + 1 > MAX_REXMIT)
  <2>1. c.rexmit_count + 1 \in 0..MAX_REXMIT
    BY <1>2, Fields, SizesAssumption
  <2> QED BY <1>2, <2>1, Zeroes, Zenon DEF tcp_timer, Conn
<1> QED BY <1>1, <1>2

LEMMA SynType ==
  ASSUME NEW c \in Conn, NEW m \in Frame, NEW n \in 1..Len(ISS)
  PROVE  SynIn(c, m, n) \in Conn
<1>1. ISS[n] \in SeqNum /\ n \in Ids
  BY EndpointAssumption DEF Ids
<1>2. 1 \in Int
  OBVIOUS
<1>3. Add(ISS[n], 1, SEQ) \in SeqNum /\ Add(m.seq, 1, SEQ) \in SeqNum
  BY <1>1, <1>2, FrameFields, SeqRange, Integral, Zenon
<1> QED BY <1>1, <1>3, Zeroes, FrameFields, Zenon DEF SynIn, Conn

LEMMA EstabType ==
  ASSUME NEW c \in Conn, NEW m \in Frame
  PROVE  EstabIn(c, m) \in Conn
BY Zeroes, FrameFields, Zenon DEF EstabIn, Conn

LEMMA AckType ==
  ASSUME NEW c \in Conn, NEW m \in Frame
  PROVE  AckIn(c, m) \in Conn
<1> DEFINE freed == Sub(m.ack, c.snd_una, SEQ)
<1>1. freed \in SeqNum
  BY Fields, FrameFields, SeqRange, Integral
<1>2. Add(c.s_una, freed, SND_SZ) \in SndIdx
  BY <1>1, Fields, SndRange, Integral
<1> QED BY <1>2, Zeroes, FrameFields, Zenon DEF AckIn, Conn

LEMMA DataType ==
  ASSUME NEW c \in Conn, NEW m \in Frame
  PROVE  DataIn(c, m) \in Conn
<1> DEFINE stored == Lesser(Len(m.data), RcvFree(c))
           k(j) == Sub(j, c.r_head, RCV_SZ)
           new == [j \in RcvIdx |-> IF k(j) < stored THEN m.data[k(j) + 1]
                                    ELSE c.rbuf[j]]
<1>1. c.r_head \in RcvIdx /\ c.rcv_nxt \in SeqNum
  BY Fields
<1>2. c.rbuf \in [RcvIdx -> Keys] /\ m.data \in Seq(Keys)
  BY FrameFields, Zenon DEF Conn
<1>3. Len(m.data) \in Nat
  BY <1>2
<1>4. stored \in Nat /\ stored \in Int /\ stored <= Len(m.data)
  BY <1>3, Derived DEF Lesser, RcvIdx
<1> HIDE DEF stored, new
<1>5. Add(c.r_head, stored, RCV_SZ) \in RcvIdx
  BY <1>1, <1>4, RcvRange, Integral, Zenon
<1>6. Add(c.rcv_nxt, stored, SEQ) \in SeqNum
  BY <1>1, <1>4, SeqRange, Integral, Zenon
<1>7. ASSUME NEW j \in RcvIdx PROVE k(j) \in RcvIdx
  BY <1>1, RcvRange, Integral
<1> HIDE DEF k
<1>8. ASSUME NEW j \in RcvIdx, k(j) < stored PROVE m.data[k(j) + 1] \in Keys
  <2>1. k(j) + 1 \in 1..Len(m.data)
    BY <1>3, <1>4, <1>7, <1>8, SizesAssumption DEF RcvIdx
  <2> QED BY <2>1, <1>2
<1>9. new \in [RcvIdx -> Keys]
  BY <1>2, <1>8 DEF new
<1>10. DataIn(c, m) = IF m.seq = c.rcv_nxt
                      THEN [c EXCEPT !.rbuf = new,
                                     !.r_head = Add(c.r_head, stored, RCV_SZ),
                                     !.rcv_nxt = Add(c.rcv_nxt, stored, SEQ)]
                      ELSE c
  BY DEF DataIn, stored, k, new
<1>11. [c EXCEPT !.rbuf = new, !.r_head = Add(c.r_head, stored, RCV_SZ),
                 !.rcv_nxt = Add(c.rcv_nxt, stored, SEQ)] \in Conn
  BY <1>5, <1>6, <1>9, Zenon DEF Conn
<1> QED BY <1>10, <1>11, Zenon

---------------------------------------------------------------------------
(* The arithmetic of the send ring, on bare numbers.  S is SND_SZ, una and *)
(* nxt are sequence numbers, su, sn and se the matching ring indexes.      *)

LEMMA SeqSub ==
  ASSUME NEW a \in SeqNum, NEW b \in SeqNum
  PROVE  /\ Sub(a, b, SEQ) = IF a >= b THEN a - b ELSE a - b + SEQ
         /\ Add(a, b, SEQ) = IF a + b < SEQ THEN a + b ELSE a + b - SEQ
BY ModuliPositive, SubCases, AddCases DEF SeqNum

LEMMA SndSub ==
  ASSUME NEW a \in SndIdx, NEW b \in SndIdx
  PROVE  /\ Sub(a, b, SND_SZ) = IF a >= b THEN a - b ELSE a - b + SND_SZ
         /\ Add(a, b, SND_SZ) = IF a + b < SND_SZ THEN a + b ELSE a + b - SND_SZ
BY ModuliPositive, SubCases, AddCases DEF SndIdx

LEMMA SndIsSeq == SndIdx \subseteq SeqNum /\ 1 \in SndIdx /\ 1 \in SeqNum
BY SizesAssumption DEF SndIdx, SeqNum, SEQ

(* Sending everything unsent moves both cursors to the end of the ring.    *)
LEMMA OutputArith ==
  ASSUME NEW una \in SeqNum, NEW nxt \in SeqNum,
         NEW su \in SndIdx, NEW sn \in SndIdx, NEW se \in SndIdx,
         Sub(nxt, una, SEQ) = Sub(sn, su, SND_SZ),
         Sub(nxt, una, SEQ) <= Sub(se, su, SND_SZ)
  PROVE  Sub(Add(nxt, Sub(se, sn, SND_SZ), SEQ), una, SEQ) = Sub(se, su, SND_SZ)
<1> DEFINE u == Sub(se, sn, SND_SZ)
           n2 == Add(nxt, u, SEQ)
<1>1. u \in SndIdx /\ u \in SeqNum /\ u = IF se >= sn THEN se - sn ELSE se - sn + SND_SZ
  BY SndSub, SndRange, Integral, SndIsSeq
<1>2. /\ Sub(se, su, SND_SZ) = IF se >= su THEN se - su ELSE se - su + SND_SZ
      /\ Sub(sn, su, SND_SZ) = IF sn >= su THEN sn - su ELSE sn - su + SND_SZ
  BY SndSub
<1>3. Sub(nxt, una, SEQ) = IF nxt >= una THEN nxt - una ELSE nxt - una + SEQ
  BY SeqSub
<1> HIDE DEF u
<1>4. n2 \in SeqNum /\ n2 = IF nxt + u < SEQ THEN nxt + u ELSE nxt + u - SEQ
  BY <1>1, SeqSub, SeqRange, Integral
<1> HIDE DEF n2
<1>5. Sub(n2, una, SEQ) = IF n2 >= una THEN n2 - una ELSE n2 - una + SEQ
  BY <1>4, SeqSub
<1>6. Sub(n2, una, SEQ) = Sub(se, su, SND_SZ)
  BY <1>1, <1>2, <1>3, <1>4, <1>5, SizesAssumption DEF SeqNum, SndIdx, SEQ
<1> QED BY <1>6 DEF n2, u

(* An ACK inside (snd_una, snd_nxt] covers no more than what is in flight, *)
(* and moves both tails by the same number of bytes.                       *)
LEMMA AckArith ==
  ASSUME NEW una \in SeqNum, NEW nxt \in SeqNum, NEW ack \in SeqNum,
         NEW su \in SndIdx, NEW sn \in SndIdx, NEW se \in SndIdx,
         Sub(nxt, una, SEQ) = Sub(sn, su, SND_SZ),
         Sub(nxt, una, SEQ) <= Sub(se, su, SND_SZ),
         Positive(Sub(ack, una, SEQ)), ~Positive(Sub(ack, nxt, SEQ))
  PROVE  LET su2 == Add(su, Sub(ack, una, SEQ), SND_SZ)
         IN  /\ Sub(nxt, ack, SEQ) = Sub(sn, su2, SND_SZ)
             /\ Sub(nxt, ack, SEQ) <= Sub(se, su2, SND_SZ)
<1> DEFINE f == Sub(ack, una, SEQ)
           su2 == Add(su, f, SND_SZ)
<1>1. /\ f = IF ack >= una THEN ack - una ELSE ack - una + SEQ
      /\ Sub(nxt, una, SEQ) = IF nxt >= una THEN nxt - una ELSE nxt - una + SEQ
      /\ Sub(ack, nxt, SEQ) = IF ack >= nxt THEN ack - nxt ELSE ack - nxt + SEQ
      /\ Sub(nxt, ack, SEQ) = IF nxt >= ack THEN nxt - ack ELSE nxt - ack + SEQ
  BY SeqSub
<1>2. /\ Sub(se, su, SND_SZ) = IF se >= su THEN se - su ELSE se - su + SND_SZ
      /\ Sub(sn, su, SND_SZ) = IF sn >= su THEN sn - su ELSE sn - su + SND_SZ
  BY SndSub
<1>3. f <= Sub(nxt, una, SEQ) /\ f > 0
  BY <1>1, <1>2, SizesAssumption DEF Positive, SeqNum, SndIdx, SEQ
<1>4. f \in SndIdx
  BY <1>1, <1>2, <1>3, SizesAssumption DEF SeqNum, SndIdx, SEQ
<1> HIDE DEF f
<1>5. su2 \in SndIdx /\ su2 = IF su + f < SND_SZ THEN su + f ELSE su + f - SND_SZ
  BY <1>4, SndSub, SndRange, Integral
<1> HIDE DEF su2
<1>6. /\ Sub(se, su2, SND_SZ) = IF se >= su2 THEN se - su2 ELSE se - su2 + SND_SZ
      /\ Sub(sn, su2, SND_SZ) = IF sn >= su2 THEN sn - su2 ELSE sn - su2 + SND_SZ
  BY <1>5, SndSub
<1>7. /\ Sub(nxt, ack, SEQ) = Sub(sn, su2, SND_SZ)
      /\ Sub(nxt, ack, SEQ) <= Sub(se, su2, SND_SZ)
  BY <1>1, <1>2, <1>3, <1>4, <1>5, <1>6, SizesAssumption DEF SeqNum, SndIdx, SEQ
<1> QED BY <1>7 DEF su2, f

(* A ring that is not full has room for one more byte without s_end        *)
(* running into s_una.                                                     *)
LEMMA PutArith ==
  ASSUME NEW su \in SndIdx, NEW se \in SndIdx, ~(Sub(se, su, SND_SZ) >= SND_SZ - 1)
  PROVE  Sub(Add(se, 1, SND_SZ), su, SND_SZ) = Sub(se, su, SND_SZ) + 1
<1> DEFINE se2 == Add(se, 1, SND_SZ)
<1>1. se2 \in SndIdx /\ se2 = IF se + 1 < SND_SZ THEN se + 1 ELSE se + 1 - SND_SZ
  BY SndIsSeq, SndSub, SndRange, Integral
<1> HIDE DEF se2
<1>2. Sub(se2, su, SND_SZ) = IF se2 >= su THEN se2 - su ELSE se2 - su + SND_SZ
  BY <1>1, SndSub
<1>3. Sub(se, su, SND_SZ) = IF se >= su THEN se - su ELSE se - su + SND_SZ
  BY SndSub
<1>4. Sub(se2, su, SND_SZ) = Sub(se, su, SND_SZ) + 1
  BY <1>1, <1>2, <1>3, SizesAssumption DEF SndIdx
<1> QED BY <1>4 DEF se2

LEMMA Empty ==
  /\ \A a \in SndIdx : Sub(a, a, SND_SZ) = 0
  /\ \A a \in SeqNum : Sub(a, a, SEQ) = 0
BY SndSub, SeqSub, Integral DEF SndIdx, SeqNum

---------------------------------------------------------------------------
(* Each operation on a slot keeps its ring and its sequence space agreed.  *)

LEMMA ResetRing == ASSUME NEW c \in Conn PROVE SlotRing(tcp_reset_listen(c))
<1>1. tcp_reset_listen(c).tstate = "LISTEN"
  BY Zenon DEF tcp_reset_listen, Conn
<1> QED BY <1>1 DEF SlotRing

(* SlotRing looks at these fields only.                                    *)
LEMMA SameRing ==
  ASSUME NEW c, NEW d, SlotRing(c), d.tstate = c.tstate,
         d.snd_una = c.snd_una, d.snd_nxt = c.snd_nxt,
         d.s_una = c.s_una, d.s_nxt = c.s_nxt, d.s_end = c.s_end
  PROVE  SlotRing(d)
BY Zenon DEF SlotRing, InFlight, Used

LEMMA ClockRing ==
  ASSUME NEW c \in Conn, NEW e \in Nat, SlotRing(c)
  PROVE  SlotRing(Clock(c, e))
<1> DEFINE d == Clock(c, e)
<1>1. /\ d.tstate = c.tstate /\ d.snd_una = c.snd_una /\ d.snd_nxt = c.snd_nxt
      /\ d.s_una = c.s_una /\ d.s_nxt = c.s_nxt /\ d.s_end = c.s_end
  BY Zenon DEF Clock, Conn
<1> QED BY <1>1, SameRing, Zenon

LEMMA TimerRing ==
  ASSUME NEW c \in Conn, SlotRing(c)
  PROVE  SlotRing(tcp_timer(c))
<1> DEFINE d == tcp_timer(c)
<1>1. CASE ~Expired(c)
  BY <1>1 DEF tcp_timer
<1>2. CASE Expired(c) /\ c.rexmit_count + 1 > MAX_REXMIT
  BY <1>2, ResetRing DEF tcp_timer
<1>3. CASE Expired(c) /\ ~(c.rexmit_count + 1 > MAX_REXMIT)
  <2>1. /\ d.tstate = c.tstate /\ d.snd_una = c.snd_una /\ d.snd_nxt = c.snd_una
        /\ d.s_una = c.s_una /\ d.s_nxt = c.s_una /\ d.s_end = c.s_end
    BY <1>3, Zenon DEF tcp_timer, Conn
  <2> HIDE DEF d
  <2>2. InFlight(d) = 0 /\ Sub(d.s_nxt, d.s_una, SND_SZ) = 0
    BY <2>1, Empty, Fields DEF InFlight
  <2>3. Used(d) = Used(c) /\ Used(c) \in SndIdx
    BY <2>1, Derived DEF Used
  <2>4. InFlight(d) <= Used(d)
    BY <2>2, <2>3, ModuliPositive DEF SndIdx
  <2>5. SlotRing(d)
    BY <2>1, <2>2, <2>4 DEF SlotRing
  <2> QED BY <2>5 DEF d
<1> QED BY <1>1, <1>2, <1>3

LEMMA OutputRing ==
  ASSUME NEW c \in Conn, SlotRing(c)
  PROVE  SlotRing(tcp_output(c))
<1> DEFINE d == tcp_output(c)
<1>1. CASE c.tstate # "ESTAB" \/ Unsent(c) = 0
  BY <1>1 DEF tcp_output
<1>2. CASE ~(c.tstate # "ESTAB" \/ Unsent(c) = 0)
  <2>1. /\ d.tstate = "ESTAB" /\ d.snd_una = c.snd_una /\ d.s_una = c.s_una
        /\ d.s_nxt = c.s_end /\ d.s_end = c.s_end
        /\ d.snd_nxt = Add(c.snd_nxt, Sub(c.s_end, c.s_nxt, SND_SZ), SEQ)
    BY <1>2, Zenon DEF tcp_output, Conn, Unsent
  <2> HIDE DEF d
  <2>2. /\ Sub(c.snd_nxt, c.snd_una, SEQ) = Sub(c.s_nxt, c.s_una, SND_SZ)
        /\ Sub(c.snd_nxt, c.snd_una, SEQ) <= Sub(c.s_end, c.s_una, SND_SZ)
    BY <1>2 DEF SlotRing, InFlight, Used
  <2>3. Sub(d.snd_nxt, d.snd_una, SEQ) = Sub(d.s_end, d.s_una, SND_SZ)
    BY <2>1, <2>2, OutputArith, Fields
  <2>4. Used(c) \in SndIdx /\ Used(d) = Used(c)
    BY <2>1, Derived DEF Used
  <2>5. InFlight(d) = Used(d) /\ InFlight(d) = Sub(d.s_nxt, d.s_una, SND_SZ)
    BY <2>1, <2>3 DEF InFlight, Used
  <2>6. InFlight(d) <= Used(d)
    BY <2>4, <2>5, ModuliPositive DEF SndIdx
  <2>7. SlotRing(d)
    BY <2>1, <2>5, <2>6 DEF SlotRing
  <2> QED BY <2>7 DEF d
<1> QED BY <1>1, <1>2

LEMMA SynRing ==
  ASSUME NEW c \in Conn, NEW m \in Frame, NEW n
  PROVE  SlotRing(SynIn(c, m, n))
<1>1. /\ SynIn(c, m, n).tstate = "SYNRCVD"
      /\ SynIn(c, m, n).s_una = 0 /\ SynIn(c, m, n).s_nxt = 0
  BY Zenon DEF SynIn, Conn
<1> QED BY <1>1 DEF SlotRing

LEMMA EstabRing ==
  ASSUME NEW c \in Conn, NEW m \in Frame, SlotRing(c)
  PROVE  SlotRing(EstabIn(c, m))
<1> DEFINE d == EstabIn(c, m)
<1>1. CASE ~(c.tstate = "SYNRCVD" /\ "ACK" \in m.flags /\ m.ack = c.snd_nxt)
  BY <1>1 DEF EstabIn
<1>2. CASE c.tstate = "SYNRCVD" /\ "ACK" \in m.flags /\ m.ack = c.snd_nxt
  <2>1. /\ d.tstate = "ESTAB" /\ d.snd_una = c.snd_nxt /\ d.snd_nxt = c.snd_nxt
        /\ d.s_una = c.s_una /\ d.s_nxt = c.s_nxt /\ d.s_end = c.s_end
    BY <1>2, Zenon DEF EstabIn, Conn
  <2>2. c.s_una = 0 /\ c.s_nxt = 0
    BY <1>2 DEF SlotRing
  <2> HIDE DEF d
  <2>3. InFlight(d) = 0 /\ Sub(d.s_nxt, d.s_una, SND_SZ) = 0
    BY <2>1, <2>2, Empty, Zeroes, Fields DEF InFlight
  <2>4. Used(d) = Used(c) /\ Used(c) \in SndIdx
    BY <2>1, Derived DEF Used
  <2>5. InFlight(d) <= Used(d)
    BY <2>3, <2>4, ModuliPositive DEF SndIdx
  <2>6. SlotRing(d)
    BY <2>1, <2>3, <2>5 DEF SlotRing
  <2> QED BY <2>6 DEF d
<1> QED BY <1>1, <1>2

LEMMA AckRing ==
  ASSUME NEW c \in Conn, NEW m \in Frame, SlotRing(c), c.tstate = "ESTAB"
  PROVE  SlotRing(AckIn(c, m)) /\ AckIn(c, m).tstate = "ESTAB"
<1> DEFINE d == AckIn(c, m)
           ok == /\ "ACK" \in m.flags /\ Positive(Sub(m.ack, c.snd_una, SEQ))
                 /\ ~Positive(Sub(m.ack, c.snd_nxt, SEQ))
<1>1. CASE ~ok
  BY <1>1 DEF AckIn
<1>2. CASE ok
  <2>1. /\ d.tstate = "ESTAB" /\ d.snd_una = m.ack /\ d.snd_nxt = c.snd_nxt
        /\ d.s_una = Add(c.s_una, Sub(m.ack, c.snd_una, SEQ), SND_SZ)
        /\ d.s_nxt = c.s_nxt /\ d.s_end = c.s_end
    BY <1>2, Zenon DEF AckIn, Conn
  <2> HIDE DEF d
  <2>2. /\ Sub(c.snd_nxt, c.snd_una, SEQ) = Sub(c.s_nxt, c.s_una, SND_SZ)
        /\ Sub(c.snd_nxt, c.snd_una, SEQ) <= Sub(c.s_end, c.s_una, SND_SZ)
    BY DEF SlotRing, InFlight, Used
  <2>3. /\ Sub(d.snd_nxt, d.snd_una, SEQ) = Sub(d.s_nxt, d.s_una, SND_SZ)
        /\ Sub(d.snd_nxt, d.snd_una, SEQ) <= Sub(d.s_end, d.s_una, SND_SZ)
    BY <1>2, <2>1, <2>2, AckArith, Fields, FrameFields
  <2>4. SlotRing(d)
    BY <2>1, <2>3 DEF SlotRing, InFlight, Used
  <2> QED BY <2>1, <2>4 DEF d
<1> QED BY <1>1, <1>2

LEMMA DataRing ==
  ASSUME NEW c \in Conn, NEW m \in Frame, SlotRing(c)
  PROVE  SlotRing(DataIn(c, m)) /\ DataIn(c, m).tstate = c.tstate
<1> DEFINE d == DataIn(c, m)
<1>1. /\ d.tstate = c.tstate /\ d.snd_una = c.snd_una /\ d.snd_nxt = c.snd_nxt
      /\ d.s_una = c.s_una /\ d.s_nxt = c.s_nxt /\ d.s_end = c.s_end
  BY Zenon DEF DataIn, Conn
<1> QED BY <1>1, SameRing, Zenon

---------------------------------------------------------------------------
(* The slot table.  An operation on one slot keeps it when the slot stays  *)
(* well formed and does not come to life or change its peer.               *)

Good(c) == c \in Conn /\ SlotRing(c)
Keeps(c, d) == Good(d) /\ (Live(d) => Live(c) /\ d.peer = c.peer)
Table(cs) == /\ cs \in [Slots -> Conn]
             /\ \A i \in Slots : SlotRing(cs[i])
             /\ TwinFree(cs)

LEMMA KeepsTrans ==
  ASSUME NEW c, NEW d, NEW e, Keeps(c, d), Keeps(d, e)
  PROVE  Keeps(c, e)
BY DEF Keeps

LEMMA KeepsTable ==
  ASSUME NEW cs, NEW ds, Table(cs), ds = [i \in Slots |-> ds[i]],
         \A i \in Slots : Keeps(cs[i], ds[i])
  PROVE  Table(ds)
<1>1. \A i \in Slots : ds[i] \in Conn /\ SlotRing(ds[i])
  BY DEF Keeps, Good
<1>2. ds \in [Slots -> Conn]
  BY <1>1, Zenon
<1>3. TwinFree(ds)
  BY Zenon DEF Keeps, Table, TwinFree
<1> QED BY <1>1, <1>2, <1>3 DEF Table

LEMMA KeepsOne ==
  ASSUME NEW cs, NEW d, NEW k \in Slots, Table(cs), Keeps(cs[k], d)
  PROVE  Table([cs EXCEPT ![k] = d])
<1> DEFINE ds == [cs EXCEPT ![k] = d]
<1>1. cs \in [Slots -> Conn] /\ \A i \in Slots : SlotRing(cs[i])
  BY DEF Table
<1>2. \A i \in Slots : ds[i] = IF i = k THEN d ELSE cs[i]
  BY <1>1, Zenon
<1>3. ds = [i \in Slots |-> ds[i]]
  BY <1>1, Zenon
<1> HIDE DEF ds
<1>4. ASSUME NEW i \in Slots PROVE Keeps(cs[i], ds[i])
  <2>1. CASE i = k
    BY <2>1, <1>2
  <2>2. CASE i # k
    <3>1. ds[i] = cs[i] /\ cs[i] \in Conn /\ SlotRing(cs[i])
      BY <2>2, <1>1, <1>2, Zenon
    <3> QED BY <3>1, Zenon DEF Keeps, Good
  <2> QED BY <2>1, <2>2
<1>5. Table(ds)
  BY <1>3, <1>4, KeepsTable
<1> QED BY <1>5 DEF ds

(* The first slot of a non-empty set of slots is the least of them.        *)
LEMMA FirstIn ==
  ASSUME NEW S \in SUBSET Slots, S # {}
  PROVE  First(S) \in S /\ \A j \in S : First(S) <= j
<1>1. S \subseteq Nat
  BY SizesAssumption DEF Slots
<1>2. PICK x \in S : \A y \in S : ~(<<y, x>> \in OpToRel(<, Nat))
  BY <1>1, NatLessThanWellFounded, WFMin, Zenon
<1>3. ASSUME NEW a \in Nat, NEW b \in Nat, a < b
      PROVE  <<a, b>> \in OpToRel(<, Nat)
  BY <1>3, Zenon DEF OpToRel
<1>4. \A y \in S : ~(y < x)
  BY <1>1, <1>2, <1>3, Zenon
<1>5. \A y \in S : x <= y
  BY <1>1, <1>4
<1> QED BY <1>5, Zenon DEF First

---------------------------------------------------------------------------
(* The operations on one slot keep it.                                     *)

LEMMA Lives == ASSUME NEW c, NEW d, d.tstate = c.tstate PROVE Live(d) = Live(c)
BY DEF Live

LEMMA KeepsReset == ASSUME NEW c \in Conn PROVE Keeps(c, tcp_reset_listen(c))
<1>1. tcp_reset_listen(c).tstate = "LISTEN"
  BY Zenon DEF tcp_reset_listen, Conn
<1> QED BY <1>1, ResetType, ResetRing DEF Keeps, Good, Live

LEMMA KeepsOutput == ASSUME NEW c, Good(c) PROVE Keeps(c, tcp_output(c))
<1> DEFINE d == tcp_output(c)
<1>1. d.tstate = c.tstate /\ d.peer = c.peer
  BY Zenon DEF tcp_output, Conn, Good
<1>2. Good(d)
  BY OutputType, OutputRing DEF Good
<1> QED BY <1>1, <1>2, Lives DEF Keeps

LEMMA KeepsTimer ==
  ASSUME NEW c, NEW e \in Nat, Good(c)
  PROVE  Keeps(c, tcp_timer(Clock(c, e)))
<1> DEFINE k == Clock(c, e)
           d == tcp_timer(k)
<1>1. k.tstate = c.tstate /\ k.peer = c.peer
  BY Zenon DEF Clock, Conn, Good
<1>2. Good(k)
  BY ClockType, ClockRing DEF Good
<1> HIDE DEF k
<1>3. Good(d)
  BY <1>2, TimerType, TimerRing DEF Good
<1>4. d.tstate = "LISTEN" \/ (d.tstate = k.tstate /\ d.peer = k.peer)
  BY <1>2, Zenon DEF tcp_timer, tcp_reset_listen, Conn, Good
<1>5. Keeps(c, d)
  BY <1>1, <1>3, <1>4 DEF Keeps, Live
<1> QED BY <1>5 DEF k

LEMMA KeepsSeg ==
  ASSUME NEW c, Good(c), Live(c), NEW m \in Frame
  PROVE  Keeps(c, SegIn(c, m))
<1> DEFINE e == EstabIn(c, m)
           a == AckIn(e, m)
           d == DataIn(a, m)
           f == [d EXCEPT !.rcv_nxt = Add(d.rcv_nxt, 1, SEQ)]
<1>1. Good(e) /\ e.peer = c.peer
  <2>1. e.peer = c.peer
    BY Zenon DEF EstabIn, Conn, Good
  <2> QED BY <2>1, EstabType, EstabRing DEF Good
<1> HIDE DEF e
<1>2. CASE e.tstate # "ESTAB"
  BY <1>2 DEF SegIn, Keeps, e
<1>3. CASE e.tstate = "ESTAB"
  <2>1. Good(a) /\ a.peer = c.peer
    <3>1. a.peer = e.peer
      BY <1>1, Zenon DEF AckIn, Conn, Good
    <3> QED BY <3>1, <1>1, <1>3, AckType, AckRing DEF Good
  <2> HIDE DEF a
  <2>2. Good(d) /\ d.peer = c.peer
    <3>1. d.peer = a.peer
      BY <2>1, Zenon DEF DataIn, Conn, Good
    <3> QED BY <3>1, <2>1, DataType, DataRing DEF Good
  <2> HIDE DEF d
  <2>3. f \in Conn
    <3>1. d.rcv_nxt \in SeqNum
      BY <2>2, Fields, Zenon DEF Good
    <3>2. 1 \in Int
      OBVIOUS
    <3>3. Add(d.rcv_nxt, 1, SEQ) \in SeqNum
      BY <3>1, <3>2, SeqRange, Integral, Zenon
    <3> QED BY <2>2, <3>3, Zenon DEF Conn, Good
  <2>4. SegIn(c, m) = IF "FIN" \in m.flags THEN tcp_reset_listen(f) ELSE d
    BY <1>3, Zenon DEF SegIn, e, a, d
  <2> HIDE DEF f
  <2>5. Keeps(f, tcp_reset_listen(f)) /\ ~Live(tcp_reset_listen(f))
    <3>1. tcp_reset_listen(f).tstate = "LISTEN"
      BY <2>3, Zenon DEF tcp_reset_listen, Conn
    <3> QED BY <3>1, <2>3, KeepsReset DEF Live
  <2> QED BY <2>2, <2>4, <2>5 DEF Keeps
<1> QED BY <1>2, <1>3

---------------------------------------------------------------------------
(* The operations on the table.                                            *)

LEMMA TableGood == ASSUME NEW cs, Table(cs), NEW i \in Slots PROVE Good(cs[i])
BY Zenon DEF Table, Good

LEMMA OutputTable == ASSUME NEW cs, Table(cs) PROVE Table(Output(cs))
<1>1. \A i \in Slots : Output(cs)[i] = tcp_output(cs[i])
  BY Zenon DEF Output
<1>2. Output(cs) = [i \in Slots |-> Output(cs)[i]]
  BY <1>1, Zenon DEF Output
<1>3. \A i \in Slots : Keeps(cs[i], Output(cs)[i])
  BY <1>1, TableGood, KeepsOutput, Zenon
<1> QED BY <1>2, <1>3, KeepsTable, Zenon

LEMMA TimersTable ==
  ASSUME Table(conns), NEW e \in Nat
  PROVE  Table(AfterTimers(e))
<1>1. \A i \in Slots : AfterTimers(e)[i] = tcp_timer(Clock(conns[i], e))
  BY Zenon DEF AfterTimers
<1>2. AfterTimers(e) = [i \in Slots |-> AfterTimers(e)[i]]
  BY <1>1, Zenon DEF AfterTimers
<1>3. \A i \in Slots : Keeps(conns[i], AfterTimers(e)[i])
  BY <1>1, TableGood, KeepsTimer, Zenon
<1> QED BY <1>2, <1>3, KeepsTable, Zenon

LEMMA OwnerIn ==
  ASSUME NEW cs, NEW x, find_conn(cs, x) # {}
  PROVE  /\ First(find_conn(cs, x)) \in Slots
         /\ Live(cs[First(find_conn(cs, x))])
<1>1. First(find_conn(cs, x)) \in find_conn(cs, x)
  BY FirstIn DEF find_conn
<1> QED BY <1>1, Zenon DEF find_conn, Live

LEMMA AllocIn ==
  ASSUME NEW cs, NEW x, alloc_conn(cs, x) # {}
  PROVE  First(alloc_conn(cs, x)) \in Slots
<1>1. alloc_conn(cs, x) \in SUBSET Slots
  BY Zenon DEF alloc_conn
<1> QED BY <1>1, FirstIn

(* A SYN gives a slot to a peer that has none.                             *)
LEMMA SynTable ==
  ASSUME NEW cs, Table(cs), NEW m \in Frame, NEW n \in 1..Len(ISS),
         NEW k \in Slots, find_conn(cs, m.src) = {}
  PROVE  Table([cs EXCEPT ![k] = SynIn(cs[k], m, n)])
<1> DEFINE d == SynIn(cs[k], m, n)
           ds == [cs EXCEPT ![k] = d]
<1>1. cs \in [Slots -> Conn] /\ (\A i \in Slots : SlotRing(cs[i])) /\ TwinFree(cs)
  BY DEF Table
<1>2. cs[k] \in Conn
  BY <1>1
<1>3. d \in Conn /\ SlotRing(d)
  BY <1>2, SynType, SynRing
<1>4. d.peer = m.src
  BY <1>2, Zenon DEF SynIn, Conn
<1> HIDE DEF d
<1>5. \A i \in Slots : ds[i] = IF i = k THEN d ELSE cs[i]
  BY <1>1, Zenon
<1>6. ds \in [Slots -> Conn]
  BY <1>1, <1>3, Zenon
<1> HIDE DEF ds
<1>7. \A i \in Slots : Live(cs[i]) => cs[i].peer # m.src
  BY Zenon DEF find_conn, Live
<1>8. TwinFree(ds)
  BY <1>1, <1>4, <1>5, <1>7, Zenon DEF TwinFree
<1>9. \A i \in Slots : SlotRing(ds[i])
  BY <1>1, <1>3, <1>5, Zenon
<1>10. Table(ds)
  BY <1>6, <1>8, <1>9 DEF Table
<1> QED BY <1>10 DEF ds, d

LEMMA InTable ==
  ASSUME NEW cs, Table(cs), NEW m \in Frame, NEW n,
         Opens(cs, m) => n \in 1..Len(ISS)
  PROVE  Table(tcp_in(cs, m, n))
<1> DEFINE owner == find_conn(cs, m.src)
           i == First(owner)
           a == First(alloc_conn(cs, m.src))
<1>1. CASE "RST" \in m.flags /\ owner # {}
  <2>1. i \in Slots
    BY <1>1, OwnerIn
  <2>2. Keeps(cs[i], tcp_reset_listen(cs[i]))
    BY <2>1, TableGood, KeepsReset DEF Good
  <2>3. tcp_in(cs, m, n) = [cs EXCEPT ![i] = tcp_reset_listen(cs[i])]
    BY <1>1 DEF tcp_in
  <2>4. Table([cs EXCEPT ![i] = tcp_reset_listen(cs[i])])
    BY <2>1, <2>2, KeepsOne, Zenon
  <2> QED BY <2>3, <2>4, Zenon
<1>2. CASE "RST" \notin m.flags /\ "SYN" \in m.flags /\ Opens(cs, m)
  <2>1. a \in Slots /\ n \in 1..Len(ISS) /\ owner = {}
    BY <1>2, AllocIn DEF Opens
  <2>2. tcp_in(cs, m, n) = [cs EXCEPT ![a] = SynIn(cs[a], m, n)]
    BY <1>2, Zenon DEF tcp_in
  <2>3. Table([cs EXCEPT ![a] = SynIn(cs[a], m, n)])
    BY <2>1, SynTable, Zenon
  <2> QED BY <2>2, <2>3, Zenon
<1>3. CASE "RST" \notin m.flags /\ "SYN" \notin m.flags /\ owner # {}
  <2>1. i \in Slots /\ Live(cs[i])
    BY <1>3, OwnerIn
  <2>2. tcp_in(cs, m, n) = [cs EXCEPT ![i] = SegIn(cs[i], m)]
    BY <1>3, Zenon DEF tcp_in
  <2>3. Keeps(cs[i], SegIn(cs[i], m))
    BY <2>1, TableGood, KeepsSeg, Zenon
  <2>4. Table([cs EXCEPT ![i] = SegIn(cs[i], m)])
    BY <2>1, <2>3, KeepsOne, Zenon
  <2> QED BY <2>2, <2>4, Zenon
<1>4. CASE tcp_in(cs, m, n) = cs
  BY <1>4
<1> QED BY <1>1, <1>2, <1>3, <1>4, Zenon DEF tcp_in

---------------------------------------------------------------------------
(* Every segment sent is well formed.                                      *)

LEMMA SegType ==
  ASSUME NEW c \in Conn, NEW flags \in SUBSET Flags, NEW seq \in SeqNum,
         NEW doff \in Int, NEW dlen \in Nat
  PROVE  tcp_send_seg(c, flags, seq, doff, dlen) \in SegOut
<1> DEFINE data == [k \in 1..dlen |-> c.sbuf[Add(doff, k - 1, SND_SZ)]]
<1>1. c.sbuf \in [SndIdx -> Byte]
  BY Zenon DEF Conn
<1>2. ASSUME NEW k \in 1..dlen PROVE Add(doff, k - 1, SND_SZ) \in SndIdx
  <2>1. k - 1 \in Int
    OBVIOUS
  <2> QED BY <2>1, SndRange, Zenon
<1>3. ASSUME NEW k \in 1..dlen PROVE c.sbuf[Add(doff, k - 1, SND_SZ)] \in Byte
  BY <1>1, <1>2, Zenon
<1>4. data \in [1..dlen -> Byte]
  BY <1>3, Zenon
<1> HIDE DEF data
<1>5. data \in Seq(Byte)
  BY <1>4
<1>6. RcvFree(c) \in RcvIdx
  BY Derived
<1>7. tcp_send_seg(c, flags, seq, doff, dlen) =
        [dst |-> c.peer, id |-> c.id, flags |-> flags, seq |-> seq,
         ack |-> c.rcv_nxt, wnd |-> RcvFree(c), data |-> data]
  BY Zenon DEF tcp_send_seg, data
<1>8. c.peer \in Clients \cup {NoPeer} /\ c.id \in Ids /\ c.rcv_nxt \in SeqNum
  BY Zenon DEF Conn
<1>9. [dst |-> c.peer, id |-> c.id, flags |-> flags, seq |-> seq,
        ack |-> c.rcv_nxt, wnd |-> RcvFree(c), data |-> data] \in SegOut
  BY <1>5, <1>6, <1>8, Zenon DEF SegOut
<1> QED BY <1>7, <1>9, Zenon

LEMMA FlagSets ==
  /\ {"PSH", "ACK"} \in SUBSET Flags /\ {"SYN", "ACK"} \in SUBSET Flags
  /\ {"RST", "ACK"} \in SUBSET Flags /\ {"ACK"} \in SUBSET Flags
  /\ 0 \in Int /\ 0 \in Nat
BY DEF Flags

LEMMA OutputSegsType == ASSUME NEW c \in Conn PROVE OutputSegs(c) \subseteq SegOut
<1> SUFFICES ASSUME NEW off \in 0..(Unsent(c) - 1)
             PROVE  tcp_send_seg(c, {"PSH", "ACK"}, Add(c.snd_nxt, off, SEQ),
                       Add(c.s_nxt, off, SND_SZ),
                       Lesser(MSS_TX, Unsent(c) - off)) \in SegOut
  BY Zenon DEF OutputSegs
<1>1. c.snd_nxt \in SeqNum /\ c.s_nxt \in SndIdx /\ Unsent(c) \in SndIdx
  BY Fields, Derived
<1>2. off \in Int /\ Lesser(MSS_TX, Unsent(c) - off) \in Nat
  BY <1>1, SizesAssumption DEF Lesser, SndIdx
<1>3. Add(c.snd_nxt, off, SEQ) \in SeqNum /\ Add(c.s_nxt, off, SND_SZ) \in Int
  BY <1>1, <1>2, SeqRange, SndRange, Integral, Zenon
<1> QED BY <1>2, <1>3, FlagSets, SegType, Zenon

LEMMA TimerSegsType == ASSUME NEW c \in Conn PROVE TimerSegs(c) \subseteq SegOut
<1>1. c.snd_una \in SeqNum
  BY Fields
<1> QED BY <1>1, FlagSets, SegType, Zenon DEF TimerSegs

LEMMA AckSegType == ASSUME NEW c \in Conn PROVE AckSeg(c) \in SegOut
<1>1. c.snd_nxt \in SeqNum
  BY Fields
<1> QED BY <1>1, FlagSets, SegType, Zenon DEF AckSeg

LEMMA SegInSegsType ==
  ASSUME NEW c \in Conn, NEW m \in Frame
  PROVE  SegInSegs(c, m) \subseteq SegOut
<1> DEFINE e == EstabIn(c, m)
           d == DataIn(AckIn(e, m), m)
           f == [d EXCEPT !.rcv_nxt = Add(d.rcv_nxt, 1, SEQ)]
<1>1. d \in Conn
  BY EstabType, AckType, DataType
<1>2. SegInSegs(c, m) \subseteq {AckSeg(d), AckSeg(f)}
  BY Zenon DEF SegInSegs
<1> HIDE DEF d
<1>3. d.rcv_nxt \in SeqNum
  BY <1>1, Fields
<1>4. 1 \in Int
  OBVIOUS
<1>5. Add(d.rcv_nxt, 1, SEQ) \in SeqNum
  BY <1>3, <1>4, SeqRange, Integral, Zenon
<1>6. f \in Conn
  BY <1>1, <1>5, Zenon DEF Conn
<1> QED BY <1>1, <1>2, <1>6, AckSegType, Zenon

LEMMA InSegsType ==
  ASSUME NEW cs, Table(cs), NEW m \in Frame, NEW n,
         Opens(cs, m) => n \in 1..Len(ISS)
  PROVE  InSegs(cs, m, n) \subseteq SegOut
<1> DEFINE owner == find_conn(cs, m.src)
           a == First(alloc_conn(cs, m.src))
<1>1. cs \in [Slots -> Conn]
  BY DEF Table
<1>2. CASE Opens(cs, m)
  <2>1. a \in Slots /\ n \in 1..Len(ISS)
    BY <1>2, AllocIn DEF Opens
  <2>2. SynIn(cs[a], m, n) \in Conn /\ ISS[n] \in SeqNum
    BY <1>1, <2>1, SynType, EndpointAssumption
  <2>3. tcp_send_seg(SynIn(cs[a], m, n), {"SYN", "ACK"}, ISS[n], 0, 0) \in SegOut
    BY <2>2, FlagSets, SegType, Zenon
  <2> QED BY <1>2, <2>3, Zenon DEF InSegs, Opens
<1>3. CASE ~Opens(cs, m) /\ "SYN" \in m.flags
  <2>1. 1 \in Int
    OBVIOUS
  <2>2. Add(m.seq, 1, SEQ) \in SeqNum
    BY <2>1, FrameFields, SeqRange, Integral, Zenon
  <2>3. 0 \in Ids
    BY EndpointAssumption DEF Ids
  <2>4. <<>> \in Seq(Byte)
    OBVIOUS
  <2>5. send_rst(m) \in SegOut
    BY <2>2, <2>3, <2>4, FrameFields, FlagSets, Zeroes, Zenon DEF send_rst, SegOut
  <2> QED BY <1>3, <2>5, Zenon DEF InSegs
<1>4. CASE "SYN" \notin m.flags /\ owner # {}
  <2>1. cs[First(owner)] \in Conn
    BY <1>1, <1>4, OwnerIn
  <2>2. SegInSegs(cs[First(owner)], m) \subseteq SegOut
    BY <2>1, SegInSegsType, Zenon
  <2> QED BY <1>4, <2>2, Zenon DEF InSegs
<1>5. CASE "SYN" \notin m.flags /\ owner = {}
  BY <1>5, Zenon DEF InSegs
<1> QED BY <1>2, <1>3, <1>4, <1>5, Zenon

LEMMA AllOutputType ==
  ASSUME NEW cs, Table(cs)
  PROVE  AllOutputSegs(cs) \subseteq SegOut
<1>1. \A i \in Slots : OutputSegs(cs[i]) \subseteq SegOut
  BY OutputSegsType, Zenon DEF Table
<1> QED BY <1>1, Zenon DEF AllOutputSegs

(* What a client may have in flight is a well formed frame.                *)
LEMMA SegmentsType ==
  ASSUME TypeOK, NEW x \in Clients, NEW s \in Segments(x)
  PROVE  s \in Frame
<1> DEFINE n == clients[x].typed
           acks == clients[x].acks
<1>1. n \in Keys /\ acks \subseteq SeqNum
  BY Zenon DEF TypeOK, Client
<1>2. ASSUME NEW a \in 0..n, NEW b \in 0..n
      PROVE  KeysFrom(a, b) \in Seq(Keys)
  <2> DEFINE l == IF a < b THEN b - a ELSE 0
  <2>1. l \in Nat
    BY <1>1 DEF Keys
  <2>2. \A k \in 1..l : a + k \in Keys
    BY <1>1, SizesAssumption DEF Keys
  <2> HIDE DEF l
  <2>3. [k \in 1..l |-> a + k] \in Seq(Keys)
    BY <2>1, <2>2
  <2> QED BY <2>3 DEF l, KeysFrom
<1>3. ASSUME NEW a \in 0..n PROVE KeySeq(a) \in SeqNum
  <2>1. 1 + a \in Int /\ CISS \in Int
    BY <1>1, EndpointAssumption, Integral DEF Keys
  <2> QED BY <2>1, SeqRange, Zenon DEF KeySeq
<1>4. /\ {"SYN"} \in SUBSET Flags /\ {"ACK"} \in SUBSET Flags
      /\ {"ACK", "FIN"} \in SUBSET Flags /\ {"RST"} \in SUBSET Flags
      /\ <<>> \in Seq(Keys) /\ CISS \in SeqNum
  BY EndpointAssumption DEF Flags
<1>5. n \in 0..n
  BY <1>1, SizesAssumption DEF Keys
<1>6. \/ s = Seg(x, {"SYN"}, CISS, 0, <<>>)
      \/ \E a, b \in 0..n, k \in acks : s = Seg(x, {"ACK"}, KeySeq(a), k, KeysFrom(a, b))
      \/ \E a \in 0..n, k \in acks : s = Seg(x, {"ACK", "FIN"}, KeySeq(a), k, KeysFrom(a, n))
      \/ s = Seg(x, {"RST"}, 0, 0, <<>>)
  BY DEF Segments
<1>7. ASSUME NEW fl \in SUBSET Flags, NEW q \in SeqNum, NEW k \in SeqNum,
             NEW d \in Seq(Keys)
      PROVE  Seg(x, fl, q, k, d) \in Frame
  BY Zenon DEF Seg, Frame
<1> HIDE DEF n, acks
<1>8. ASSUME NEW a \in 0..n, NEW b \in 0..n, NEW k \in acks
      PROVE  Seg(x, {"ACK"}, KeySeq(a), k, KeysFrom(a, b)) \in Frame
  BY <1>1, <1>2, <1>3, <1>4, <1>7, Zenon
<1>9. ASSUME NEW a \in 0..n, NEW k \in acks
      PROVE  Seg(x, {"ACK", "FIN"}, KeySeq(a), k, KeysFrom(a, n)) \in Frame
  BY <1>1, <1>2, <1>3, <1>4, <1>5, <1>7, Zenon
<1>10. Seg(x, {"SYN"}, CISS, 0, <<>>) \in Frame /\ Seg(x, {"RST"}, 0, 0, <<>>) \in Frame
  BY <1>4, <1>7, Zeroes, Zenon
<1> QED BY <1>6, <1>8, <1>9, <1>10, Zenon

---------------------------------------------------------------------------
(* The inductive invariant.  Type correctness carries itself; that the     *)
(* cursors of a ring agree with the sequence numbers, and that no peer has *)
(* two slots, are each preserved only by well-typed slots.                 *)
SlotInv == TypeOK /\ RingAgrees /\ NoTwinSlots

LEMMA InvTable == ASSUME SlotInv PROVE Table(conns)
BY DEF SlotInv, TypeOK, RingAgrees, NoTwinSlots, Table

LEMMA TableInv ==
  ASSUME Table(conns'), toClient' \subseteq SegOut, clients' \in [Clients -> Client],
         nsyn' \in Ids, nput' \in Byte, log' \in [Ids -> Seq(Byte)],
         rx' \in [Ids -> Seq(Keys)]
  PROVE  SlotInv'
BY DEF SlotInv, TypeOK, RingAgrees, NoTwinSlots, Table, TwinFree

LEMMA InitInv == Init => SlotInv
<1> SUFFICES ASSUME Init PROVE SlotInv
  OBVIOUS
<1>1. 0 \in Byte /\ 0 \in Keys /\ 0 \in Ids /\ 0 \in 0..REXMIT_TICKS
  BY SizesAssumption, EndpointAssumption DEF Byte, Keys, Ids
<1>2. NewConn \in Conn
  BY <1>1, Zeroes, Zenon DEF NewConn, Conn
<1>3. NewConn.tstate = "LISTEN"
  BY Zenon DEF NewConn
<1>4. \A i \in Slots : conns[i] = NewConn
  BY Zenon DEF Init
<1>5. conns \in [Slots -> Conn]
  BY <1>2, Zenon DEF Init
<1>6. RingAgrees /\ NoTwinSlots
  BY <1>3, <1>4 DEF RingAgrees, SlotRing, NoTwinSlots, TwinFree, Live
<1>7. <<>> \in Seq(Byte) /\ <<>> \in Seq(Keys)
  OBVIOUS
<1>8. clients \in [Clients -> Client]
  <2>1. [st |-> "closed", id |-> 0, rcv_nxt |-> 0,
         acks |-> {}, got |-> <<>>, typed |-> 0] \in Client
    BY <1>1, <1>7, Zeroes, Zenon DEF Client
  <2> QED BY <2>1, Zenon DEF Init
<1>9. log \in [Ids -> Seq(Byte)] /\ rx \in [Ids -> Seq(Keys)]
  BY <1>7, Zenon DEF Init
<1>10. toClient \subseteq SegOut /\ nsyn \in Ids /\ nput \in Byte
  BY <1>1 DEF Init
<1> QED BY <1>5, <1>6, <1>8, <1>9, <1>10 DEF SlotInv, TypeOK

LEMMA TimerSegsOut ==
  ASSUME Table(conns), NEW e \in Nat
  PROVE  UNION {TimerSegs(Clock(conns[i], e)) : i \in Slots} \subseteq SegOut
<1>1. \A i \in Slots : Clock(conns[i], e) \in Conn
  BY ClockType, Zenon DEF Table
<1>2. \A i \in Slots : TimerSegs(Clock(conns[i], e)) \subseteq SegOut
  BY <1>1, TimerSegsType, Zenon
<1> QED BY <1>2, Zenon

LEMMA PollInv == ASSUME SlotInv, Poll PROVE SlotInv'
<1>1. PICK e \in 1..REXMIT_TICKS :
        \/ PollIdle(e)
        \/ \E x \in Clients : \E m \in Segments(x) : PollFrame(e, m)
  BY Zenon DEF Poll
<1>2. e \in Nat
  BY <1>1, SizesAssumption
<1> DEFINE t == AfterTimers(e)
<1>3. Table(conns) /\ Table(t) /\ TypeOK
  BY <1>2, InvTable, TimersTable DEF SlotInv
<1>4. UNION {TimerSegs(Clock(conns[i], e)) : i \in Slots} \subseteq SegOut
  BY <1>2, <1>3, TimerSegsOut
<1> HIDE DEF t
<1>5. CASE PollIdle(e)
  <2>1. conns' = Output(t)
    BY <1>5 DEF PollIdle, t
  <2>2. Table(conns')
    BY <1>3, <2>1, OutputTable, Zenon
  <2>3. AllOutputSegs(t) \subseteq SegOut
    BY <1>3, AllOutputType
  <2>4. toClient' \subseteq SegOut
    BY <1>3, <1>4, <1>5, <2>3, Zenon DEF PollIdle, TypeOK, t
  <2> QED BY <1>3, <1>5, <2>2, <2>4, TableInv DEF PollIdle, TypeOK
<1>6. CASE \E x \in Clients : \E m \in Segments(x) : PollFrame(e, m)
  <2>1. PICK x \in Clients : \E m \in Segments(x) : PollFrame(e, m)
    BY <1>6
  <2>2. PICK m \in Segments(x) : PollFrame(e, m)
    BY <2>1
  <2>3. m \in Frame
    BY <1>3, SegmentsType
  <2> DEFINE n == nsyn + 1
             r == tcp_in(t, m, n)
  <2>4. nsyn \in Ids /\ (Opens(t, m) => n <= Len(ISS))
    BY <1>3, <2>2 DEF TypeOK, PollFrame, t
  <2>5. Opens(t, m) => n \in 1..Len(ISS) /\ n \in Ids
    BY <2>4, EndpointAssumption DEF Ids
  <2>6. nsyn' \in Ids
    <3>1. nsyn' = IF Opens(t, m) THEN n ELSE nsyn
      BY <2>2 DEF PollFrame, t
    <3> QED BY <2>4, <2>5, <3>1
  <2> HIDE DEF n
  <2>7. Table(r) /\ InSegs(t, m, n) \subseteq SegOut
    BY <1>3, <2>3, <2>5, InTable, InSegsType
  <2> HIDE DEF r
  <2>8. AllOutputSegs(r) \subseteq SegOut
    BY <2>7, AllOutputType
  <2>9. /\ conns' = Output(r)
        /\ toClient' = toClient \cup InSegs(t, m, n) \cup AllOutputSegs(r)
                       \cup UNION {TimerSegs(Clock(conns[i], e)) : i \in Slots}
    BY <2>2, Zenon DEF PollFrame, t, r, n
  <2>10. Table(conns')
    BY <2>7, <2>9, OutputTable, Zenon
  <2>11. toClient' \subseteq SegOut
    BY <1>3, <1>4, <2>7, <2>8, <2>9, Zenon DEF TypeOK
  <2> QED BY <1>3, <2>2, <2>6, <2>10, <2>11, TableInv DEF PollFrame, TypeOK
<1> QED BY <1>1, <1>5, <1>6

---------------------------------------------------------------------------
(* The calls of the framing code.                                          *)

LEMMA KeepsAppend ==
  ASSUME NEW c, Good(c), NEW b \in Byte, ~SndFull(c)
  PROVE  Keeps(c, Append1(c, b))
<1> DEFINE d == Append1(c, b)
<1>1. c \in Conn /\ SlotRing(c)
  BY DEF Good
<1>2. c.sbuf \in [SndIdx -> Byte] /\ c.s_end \in SndIdx /\ c.s_una \in SndIdx
  BY <1>1, Zenon DEF Conn
<1>3. 1 \in Int
  OBVIOUS
<1>4. Add(c.s_end, 1, SND_SZ) \in SndIdx
  BY <1>2, <1>3, SndRange, Integral, Zenon
<1>5. [c.sbuf EXCEPT ![c.s_end] = b] \in [SndIdx -> Byte]
  BY <1>2, Zenon
<1>6. d \in Conn
  BY <1>1, <1>4, <1>5, Zenon DEF Append1, Conn
<1>7. /\ d.tstate = c.tstate /\ d.peer = c.peer
      /\ d.snd_una = c.snd_una /\ d.snd_nxt = c.snd_nxt
      /\ d.s_una = c.s_una /\ d.s_nxt = c.s_nxt
      /\ d.s_end = Add(c.s_end, 1, SND_SZ)
  BY <1>1, Zenon DEF Append1, Conn
<1> HIDE DEF d
<1>8. Used(d) = Used(c) + 1
  BY <1>2, <1>7, PutArith DEF Used, SndFull
<1>9. InFlight(d) = InFlight(c) /\ InFlight(c) \in Int /\ Used(c) \in Int
  BY <1>1, <1>7, Derived, Integral DEF InFlight
<1>10. SlotRing(d)
  BY <1>1, <1>7, <1>8, <1>9 DEF SlotRing
<1>11. Keeps(c, d)
  BY <1>6, <1>7, <1>10, Lives DEF Keeps, Good
<1> QED BY <1>11 DEF d

LEMMA TakeNewInv == ASSUME SlotInv, net_take_new_slot PROVE SlotInv'
<1> DEFINE k == First({i \in Slots : conns[i].just_estab})
           d == [conns[k] EXCEPT !.just_estab = FALSE]
<1>1. k \in Slots
  <2>1. k \in {i \in Slots : conns[i].just_estab}
    BY FirstIn DEF net_take_new_slot
  <2> QED BY <2>1
<1>2. conns' = [conns EXCEPT ![k] = d]
  BY Zenon DEF net_take_new_slot
<1> HIDE DEF k
<1>3. Table(conns) /\ Good(conns[k])
  BY <1>1, InvTable, TableGood
<1>4. /\ d \in Conn /\ d.tstate = conns[k].tstate /\ d.peer = conns[k].peer
      /\ d.snd_una = conns[k].snd_una /\ d.snd_nxt = conns[k].snd_nxt
      /\ d.s_una = conns[k].s_una /\ d.s_nxt = conns[k].s_nxt
      /\ d.s_end = conns[k].s_end
  BY <1>3, Zenon DEF Good, Conn
<1> HIDE DEF d
<1>5. Keeps(conns[k], d)
  BY <1>3, <1>4, SameRing, Lives DEF Keeps, Good
<1>6. Table(conns')
  BY <1>1, <1>2, <1>3, <1>5, KeepsOne
<1> QED BY <1>6, TableInv DEF net_take_new_slot, SlotInv, TypeOK

LEMMA ReadyInv ==
  ASSUME SlotInv, NEW k \in Slots, net_slot_ready(k)
  PROVE  SlotInv'
<1> DEFINE d == [conns[k] EXCEPT !.ready = TRUE]
<1>1. conns' = [conns EXCEPT ![k] = d]
  BY Zenon DEF net_slot_ready
<1>2. Table(conns) /\ Good(conns[k])
  BY InvTable, TableGood
<1>3. /\ d \in Conn /\ d.tstate = conns[k].tstate /\ d.peer = conns[k].peer
      /\ d.snd_una = conns[k].snd_una /\ d.snd_nxt = conns[k].snd_nxt
      /\ d.s_una = conns[k].s_una /\ d.s_nxt = conns[k].s_nxt
      /\ d.s_end = conns[k].s_end
  BY <1>2, Zenon DEF Good, Conn
<1> HIDE DEF d
<1>4. Keeps(conns[k], d)
  BY <1>2, <1>3, SameRing, Lives DEF Keeps, Good
<1>5. Table(conns')
  BY <1>1, <1>2, <1>4, KeepsOne
<1> QED BY <1>5, TableInv DEF net_slot_ready, SlotInv, TypeOK

LEMMA DropInv ==
  ASSUME SlotInv, NEW k \in Slots, net_slot_drop(k)
  PROVE  SlotInv'
<1>1. Table(conns) /\ Good(conns[k])
  BY InvTable, TableGood
<1>2. conns' = [conns EXCEPT ![k] = tcp_reset_listen(conns[k])]
  BY Zenon DEF net_slot_drop
<1>3. Keeps(conns[k], tcp_reset_listen(conns[k]))
  BY <1>1, KeepsReset DEF Good
<1>4. Table(conns')
  BY <1>1, <1>2, <1>3, KeepsOne, Zenon
<1>5. conns[k].snd_nxt \in SeqNum /\ conns[k] \in Conn
  BY <1>1, Fields DEF Good
<1>6. tcp_send_seg(conns[k], {"RST", "ACK"}, conns[k].snd_nxt, 0, 0) \in SegOut
  BY <1>5, FlagSets, SegType, Zenon
<1>7. toClient' \subseteq SegOut
  BY <1>6, Zenon DEF net_slot_drop, SlotInv, TypeOK
<1> QED BY <1>4, <1>7, TableInv DEF net_slot_drop, SlotInv, TypeOK

LEMMA LoggedType ==
  ASSUME TypeOK, nput < MaxPut, NEW N
  PROVE  Logged(N) \in [Ids -> Seq(Byte)] /\ nput + 1 \in Byte
<1>1. nput + 1 \in Byte
  BY SizesAssumption DEF TypeOK, Byte
<1>2. \A n \in Ids : log[n] \in Seq(Byte)
  BY Zenon DEF TypeOK
<1>3. \A n \in Ids : Append(log[n], nput + 1) \in Seq(Byte)
  BY <1>1, <1>2
<1> QED BY <1>1, <1>2, <1>3, Zenon DEF Logged

LEMMA PutcInv == ASSUME SlotInv, net_tx_putc PROVE SlotInv'
<1>1. Table(conns) /\ TypeOK /\ nput < MaxPut
  BY InvTable DEF SlotInv, net_tx_putc, MorePut
<1>2. nput + 1 \in Byte
  BY <1>1, LoggedType
<1>3. \A i \in Slots : Culled[i] = IF i \in Dead THEN tcp_reset_listen(conns[i])
                                   ELSE conns[i]
  BY Zenon DEF Culled
<1>4. Culled = [i \in Slots |-> Culled[i]]
  BY <1>3, Zenon DEF Culled
<1>5. \A i \in Slots : Keeps(conns[i], Culled[i])
  <2> TAKE i \in Slots
  <2>1. Good(conns[i]) /\ Keeps(conns[i], tcp_reset_listen(conns[i]))
    BY <1>1, TableGood, KeepsReset DEF Good
  <2>2. Keeps(conns[i], conns[i])
    BY <2>1 DEF Keeps
  <2> QED BY <1>3, <2>1, <2>2, Zenon
<1>6. CASE Slow # {}
  <2>1. conns' = Culled
    BY <1>6 DEF net_tx_putc
  <2>2. Table(Culled)
    BY <1>1, <1>4, <1>5, KeepsTable, Zenon
  <2>3. Table(conns')
    BY <2>1, <2>2, Zenon
  <2> QED BY <1>1, <1>6, <2>3, TableInv DEF net_tx_putc, TypeOK
<1>7. CASE Slow = {}
  <2> DEFINE ds == [i \in Slots |-> IF i \in Audience(Culled)
                                    THEN Append1(Culled[i], nput + 1)
                                    ELSE Culled[i]]
  <2>1. /\ conns' = ds /\ nput' = nput + 1
        /\ log' = Logged({0} \cup IdsOf(Audience(Culled)))
    BY <1>7, Zenon DEF net_tx_putc
  <2>2. \A i \in Slots : ds[i] = IF i \in Audience(Culled)
                                 THEN Append1(Culled[i], nput + 1) ELSE Culled[i]
    BY Zenon
  <2>3. ds = [i \in Slots |-> ds[i]]
    BY Zenon
  <2> HIDE DEF ds
  <2>4. ASSUME NEW i \in Slots, i \in Audience(Culled)
        PROVE  ~SndFull(Culled[i])
    <3>1. Culled[i].tstate = "ESTAB" /\ Culled[i].ready
      BY <2>4, Zenon DEF Audience
    <3>2. i \notin Dead
      <4>1. tcp_reset_listen(conns[i]).tstate = "LISTEN"
        BY <1>1, Zenon DEF tcp_reset_listen, Conn, Table
      <4> QED BY <1>3, <3>1, <4>1
    <3>3. Culled[i] = conns[i]
      BY <1>3, <3>2, Zenon
    <3>4. i \in Audience(conns)
      BY <3>1, <3>3, Zenon DEF Audience
    <3>5. conns[i].rexmit_count \in 0..MAX_REXMIT
      BY <1>1, TableGood, Fields DEF Good
    <3>6. conns[i].rexmit_count = 0 \/ conns[i].rexmit_count > 0
      BY <3>5, SizesAssumption
    <3> QED BY <1>7, <3>2, <3>3, <3>4, <3>6, Zenon DEF Slow, Dead
  <2>5. \A i \in Slots : Keeps(conns[i], ds[i])
    <3> TAKE i \in Slots
    <3>1. Keeps(conns[i], Culled[i]) /\ Good(Culled[i])
      BY <1>5 DEF Keeps
    <3>2. CASE i \in Audience(Culled)
      <4>1. Keeps(Culled[i], Append1(Culled[i], nput + 1))
        BY <1>2, <2>4, <3>1, <3>2, KeepsAppend, Zenon
      <4> QED BY <2>2, <3>1, <3>2, <4>1, KeepsTrans, Zenon
    <3>3. CASE i \notin Audience(Culled)
      BY <2>2, <3>1, <3>3, Zenon
    <3> QED BY <3>2, <3>3
  <2>6. Table(ds)
    BY <1>1, <2>3, <2>5, KeepsTable, Zenon
  <2>7. Table(conns')
    BY <2>1, <2>6, Zenon
  <2>8. Logged({0} \cup IdsOf(Audience(Culled))) \in [Ids -> Seq(Byte)]
    BY <1>1, LoggedType
  <2> QED BY <1>1, <1>2, <2>1, <2>7, <2>8, TableInv DEF net_tx_putc, TypeOK
<1> QED BY <1>6, <1>7

LEMMA PutcSlotInv ==
  ASSUME SlotInv, NEW k \in Slots, net_tx_putc_slot(k)
  PROVE  SlotInv'
<1>1. Table(conns) /\ Good(conns[k]) /\ TypeOK /\ nput < MaxPut
  BY InvTable, TableGood DEF SlotInv, net_tx_putc_slot, MorePut
<1>2. nput + 1 \in Byte
  BY <1>1, LoggedType
<1>3. conns' = [conns EXCEPT ![k] = Append1(conns[k], nput + 1)] /\ ~SndFull(conns[k])
  BY Zenon DEF net_tx_putc_slot
<1>4. Keeps(conns[k], Append1(conns[k], nput + 1))
  BY <1>1, <1>2, <1>3, KeepsAppend, Zenon
<1>5. Table(conns')
  BY <1>1, <1>3, <1>4, KeepsOne, Zenon
<1>6. log' \in [Ids -> Seq(Byte)]
  BY <1>1, LoggedType DEF net_tx_putc_slot
<1> QED BY <1>1, <1>2, <1>5, <1>6, TableInv DEF net_tx_putc_slot, TypeOK

LEMMA FlushInv == ASSUME SlotInv, net_tx_flush PROVE SlotInv'
<1>1. Table(conns) /\ TypeOK
  BY InvTable DEF SlotInv
<1>2. Table(conns')
  BY <1>1, OutputTable, Zenon DEF net_tx_flush
<1>3. toClient' \subseteq SegOut
  BY <1>1, AllOutputType, Zenon DEF net_tx_flush, TypeOK
<1> QED BY <1>1, <1>2, <1>3, TableInv DEF net_tx_flush, TypeOK

LEMMA GetcInv ==
  ASSUME SlotInv, NEW k \in Slots, net_rx_getc(k)
  PROVE  SlotInv'
<1> DEFINE c == conns[k]
           d == [c EXCEPT !.r_tail = Add(c.r_tail, 1, RCV_SZ)]
<1>1. Table(conns) /\ Good(c) /\ TypeOK
  BY InvTable, TableGood DEF SlotInv
<1>2. conns' = [conns EXCEPT ![k] = d]
  BY Zenon DEF net_rx_getc
<1>3. c.rbuf \in [RcvIdx -> Keys] /\ c.r_tail \in RcvIdx /\ c.id \in Ids
  BY <1>1, Zenon DEF Good, Conn
<1>4. 1 \in Int
  OBVIOUS
<1>5. Add(c.r_tail, 1, RCV_SZ) \in RcvIdx
  BY <1>3, <1>4, RcvRange, Integral, Zenon
<1>6. /\ d \in Conn /\ d.tstate = c.tstate /\ d.peer = c.peer
      /\ d.snd_una = c.snd_una /\ d.snd_nxt = c.snd_nxt
      /\ d.s_una = c.s_una /\ d.s_nxt = c.s_nxt /\ d.s_end = c.s_end
  BY <1>1, <1>5, Zenon DEF Good, Conn
<1>7. rx' = [rx EXCEPT ![c.id] = Append(rx[c.id], c.rbuf[c.r_tail])]
  BY Zenon DEF net_rx_getc
<1>8. rx[c.id] \in Seq(Keys) /\ c.rbuf[c.r_tail] \in Keys
  BY <1>1, <1>3, Zenon DEF TypeOK
<1> HIDE DEF d
<1>9. Keeps(c, d)
  BY <1>1, <1>6, SameRing, Lives DEF Keeps, Good
<1>10. Table(conns')
  BY <1>1, <1>2, <1>9, KeepsOne
<1> HIDE DEF c
<1>11. Append(rx[c.id], c.rbuf[c.r_tail]) \in Seq(Keys)
  BY <1>8
<1>12. rx' \in [Ids -> Seq(Keys)]
  BY <1>1, <1>7, <1>11, Zenon DEF TypeOK
<1> QED BY <1>1, <1>10, <1>12, TableInv DEF net_rx_getc, TypeOK

---------------------------------------------------------------------------
(* The peers change nothing but themselves.                                *)

LEMMA PeerInv ==
  ASSUME SlotInv, UNCHANGED <<conns, toClient, nsyn, nput, log, rx>>,
         clients' \in [Clients -> Client]
  PROVE  SlotInv'
<1>1. Table(conns')
  BY InvTable DEF Table, TwinFree
<1> QED BY <1>1, TableInv DEF SlotInv, TypeOK

LEMMA RecvType ==
  ASSUME TypeOK, NEW x \in Clients, NEW s \in toClient, ClientRecv(x, s)
  PROVE  clients' \in [Clients -> Client]
<1> DEFINE p == clients[x]
<1>1. p \in Client /\ s \in SegOut /\ clients \in [Clients -> Client]
  BY Zenon DEF TypeOK
<1>2. s.seq \in SeqNum /\ s.data \in Seq(Byte) /\ s.id \in Ids
  BY <1>1, Zenon DEF SegOut
<1>3. p.rcv_nxt \in SeqNum /\ p.got \in Seq(Byte) /\ p.acks \subseteq SeqNum
  BY <1>1, Zenon DEF Client
<1>4. 1 \in Int /\ Len(s.data) \in Int
  BY <1>2
<1>5. Add(s.seq, 1, SEQ) \in SeqNum /\ Add(s.seq, Len(s.data), SEQ) \in SeqNum
  BY <1>2, <1>4, SeqRange, Integral, Zenon
<1>6. CASE clients' = [clients EXCEPT
              ![x].st = "estab", ![x].id = s.id,
              ![x].rcv_nxt = Add(s.seq, 1, SEQ),
              ![x].acks = {Add(s.seq, 1, SEQ)}]
  <2>1. [p EXCEPT !.st = "estab", !.id = s.id, !.rcv_nxt = Add(s.seq, 1, SEQ),
                  !.acks = {Add(s.seq, 1, SEQ)}] \in Client
    BY <1>1, <1>2, <1>5, Zenon DEF Client
  <2> QED BY <1>1, <1>6, <2>1, Zenon
<1>7. CASE /\ Sub(p.rcv_nxt, s.seq, SEQ) < Len(s.data)
           /\ clients' = [clients EXCEPT
                 ![x].rcv_nxt = Add(s.seq, Len(s.data), SEQ),
                 ![x].acks = @ \cup {Add(s.seq, Len(s.data), SEQ)},
                 ![x].got = @ \o SubSeq(s.data, Sub(p.rcv_nxt, s.seq, SEQ) + 1,
                                        Len(s.data))]
  <2> DEFINE have == Sub(p.rcv_nxt, s.seq, SEQ)
             new == p.got \o SubSeq(s.data, have + 1, Len(s.data))
             acks == p.acks \cup {Add(s.seq, Len(s.data), SEQ)}
  <2>1. have \in SeqNum
    BY <1>2, <1>3, SeqRange, Integral
  <2>2. have \in Nat
    BY <2>1, SizesAssumption DEF SeqNum, SEQ
  <2> HIDE DEF p
  <2>3. new \in Seq(Byte)
    <3> HIDE DEF have
    <3>1. SubSeq(s.data, have + 1, Len(s.data)) \in Seq(Byte)
      BY <1>2, <1>7, <2>2 DEF have
    <3> QED BY <1>3, <3>1
  <2>4. acks \subseteq SeqNum
    BY <1>3, <1>5, Zenon
  <2> HIDE DEF have, new, acks
  <2>5. [p EXCEPT !.rcv_nxt = Add(s.seq, Len(s.data), SEQ),
                  !.acks = acks, !.got = new] \in Client
    BY <1>1, <1>5, <2>3, <2>4, Zenon DEF Client
  <2>6. clients' = [clients EXCEPT ![x] =
                      [p EXCEPT !.rcv_nxt = Add(s.seq, Len(s.data), SEQ),
                                !.acks = acks, !.got = new]]
    BY <1>1, <1>7, Zenon DEF p, have, new, acks
  <2> QED BY <1>1, <2>5, <2>6, Zenon
<1>8. CASE clients' = [clients EXCEPT ![x].st = "gone"]
  <2>1. [p EXCEPT !.st = "gone"] \in Client
    BY <1>1, Zenon DEF Client
  <2> QED BY <1>1, <1>8, <2>1, Zenon
<1> QED BY <1>6, <1>7, <1>8, Zenon DEF ClientRecv

LEMMA PeersType == ASSUME TypeOK, Peers PROVE clients' \in [Clients -> Client]
<1>1. PICK x \in Clients :
        \/ Connect(x) \/ Type(x) \/ \E s \in toClient : ClientRecv(x, s)
        \/ \E how \in Endings : Leave(x, how)
  BY Zenon DEF Peers
<1> DEFINE p == clients[x]
<1>2. p \in Client /\ clients \in [Clients -> Client]
  BY Zenon DEF TypeOK
<1>3. CASE Connect(x)
  <2>1. [p EXCEPT !.st = "synsent"] \in Client
    BY <1>2, Zenon DEF Client
  <2> QED BY <1>2, <1>3, <2>1, Zenon DEF Connect
<1>4. CASE Type(x)
  <2>1. p.typed \in Keys /\ p.typed < MaxKeys
    BY <1>2, <1>4, Zenon DEF Client, Type
  <2>2. p.typed + 1 \in Keys
    BY <2>1, SizesAssumption DEF Keys
  <2>3. [p EXCEPT !.typed = p.typed + 1] \in Client
    BY <1>2, <2>2, Zenon DEF Client
  <2> QED BY <1>2, <1>4, <2>3, Zenon DEF Type
<1>5. CASE \E s \in toClient : ClientRecv(x, s)
  BY <1>5, RecvType
<1>6. CASE \E how \in Endings : Leave(x, how)
  <2>1. PICK how \in Endings : Leave(x, how)
    BY <1>6
  <2>2. how \in {"finished", "aborted", "gone"}
    BY <2>1, EndpointAssumption
  <2>3. [p EXCEPT !.st = how] \in Client
    BY <1>2, <2>2, Zenon DEF Client
  <2> QED BY <1>2, <2>1, <2>3, Zenon DEF Leave
<1> QED BY <1>1, <1>3, <1>4, <1>5, <1>6

LEMMA PeersFrame ==
  ASSUME Peers PROVE UNCHANGED <<conns, toClient, nsyn, nput, log, rx>>
<1>1. PICK x \in Clients :
        \/ Connect(x) \/ Type(x) \/ \E s \in toClient : ClientRecv(x, s)
        \/ \E how \in Endings : Leave(x, how)
  BY Zenon DEF Peers
<1>2. CASE Connect(x)
  BY <1>2, Zenon DEF Connect
<1>3. CASE Type(x)
  BY <1>3, Zenon DEF Type
<1>4. CASE \E s \in toClient : ClientRecv(x, s)
  BY <1>4, Zenon DEF ClientRecv
<1>5. CASE \E how \in Endings : Leave(x, how)
  BY <1>5, Zenon DEF Leave
<1> QED BY <1>1, <1>2, <1>3, <1>4, <1>5

LEMMA NextInv == ASSUME SlotInv, [Next]_vars PROVE SlotInv'
<1>1. CASE Poll
  BY <1>1, PollInv
<1>2. CASE FramingCode
  BY <1>2, TakeNewInv, PutcInv, FlushInv, DropInv, ReadyInv, PutcSlotInv, GetcInv,
     Zenon DEF FramingCode
<1>3. CASE Peers
  BY <1>3, PeersType, PeersFrame, PeerInv DEF SlotInv
<1>4. CASE UNCHANGED vars
  <2>1. /\ UNCHANGED <<conns, toClient, nsyn, nput, log, rx>>
        /\ clients' \in [Clients -> Client]
    BY <1>4 DEF vars, SlotInv, TypeOK
  <2> QED BY <2>1, PeerInv
<1> QED BY <1>1, <1>2, <1>3, <1>4 DEF Next

LEMMA Invariance == Spec => []SlotInv
<1>1. Init => SlotInv
  BY InitInv
<1>2. SlotInv /\ [Next]_vars => SlotInv'
  BY NextInv
<1> QED BY <1>1, <1>2, PTL DEF Spec

(* Whatever the network delivers, the slot table of net.c stays a table of *)
(* well-formed struct conn: no index leaves its ring, no segment is sent   *)
(* with a field out of range, no retransmit count passes MAX_REXMIT.       *)
THEOREM TypeCorrect == Spec => []TypeOK
<1>1. SlotInv => TypeOK
  BY DEF SlotInv
<1> QED BY <1>1, Invariance, PTL

(* The send ring of every established slot agrees with its sequence space, *)
(* for every ring size at most half the sequence space: retransmission,    *)
(* partial and repeated ACKs and wrap-around never separate the two.       *)
THEOREM RingAgreement == Spec => []RingAgrees
<1>1. SlotInv => RingAgrees
  BY DEF SlotInv
<1> QED BY <1>1, Invariance, PTL

(* find_conn never has two slots to choose from: one peer, one live slot,  *)
(* for every number of slots and clients.                                  *)
THEOREM NoTwins == Spec => []NoTwinSlots
<1>1. SlotInv => NoTwinSlots
  BY DEF SlotInv
<1> QED BY <1>1, Invariance, PTL
=============================================================================

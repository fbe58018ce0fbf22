--------------------------- MODULE TcpRecvProofs ---------------------------
(***************************************************************************)
(* The receiving half of net.c: the receive ring is a queue, the keys      *)
(* acknowledged to a client are those it typed, each once and in order,    *)
(* and no advertised window is ever taken back.                            *)
(***************************************************************************)
EXTENDS TcpProofs

LEMMA RcvSub ==
  ASSUME NEW a \in RcvIdx, NEW b \in RcvIdx
  PROVE  /\ Sub(a, b, RCV_SZ) = IF a >= b THEN a - b ELSE a - b + RCV_SZ
         /\ Add(a, b, RCV_SZ) = IF a + b < RCV_SZ THEN a + b ELSE a + b - RCV_SZ
BY ModuliPositive, SubCases, AddCases DEF RcvIdx

LEMMA AddZero ==
  /\ \A a \in SeqNum : Add(a, 0, SEQ) = a
  /\ \A a \in RcvIdx : Add(a, 0, RCV_SZ) = a
BY ModuliPositive DEF Add, SeqNum, RcvIdx

(* The keys waiting in a ring are a sequence of RcvUsed keys.              *)
LEMMA WaitingSeq ==
  ASSUME NEW c \in Conn
  PROVE  /\ Waiting(c) \in Seq(Keys) /\ Len(Waiting(c)) = RcvUsed(c)
         /\ \A k \in 1..RcvUsed(c) :
              /\ k - 1 \in RcvIdx
              /\ Waiting(c)[k] = c.rbuf[Add(c.r_tail, k - 1, RCV_SZ)]
<1>1. RcvUsed(c) \in RcvIdx /\ RcvUsed(c) \in Nat
  BY Derived, ModuliPositive DEF RcvIdx
<1>2. c.r_tail \in RcvIdx /\ c.rbuf \in [RcvIdx -> Keys]
  BY Zenon DEF Conn
<1>3. ASSUME NEW k \in 1..RcvUsed(c)
      PROVE  k - 1 \in RcvIdx /\ c.rbuf[Add(c.r_tail, k - 1, RCV_SZ)] \in Keys
  <2>1. k - 1 \in RcvIdx
    BY <1>1, ModuliPositive DEF RcvIdx
  <2>2. Add(c.r_tail, k - 1, RCV_SZ) \in RcvIdx
    BY <1>2, <2>1, RcvRange, Integral
  <2> QED BY <1>2, <2>1, <2>2, Zenon
<1>4. Waiting(c) = [k \in 1..RcvUsed(c) |-> c.rbuf[Add(c.r_tail, k - 1, RCV_SZ)]]
  BY DEF Waiting
<1> DEFINE n == RcvUsed(c)
           w(k) == c.rbuf[Add(c.r_tail, k - 1, RCV_SZ)]
<1> HIDE DEF n, w
<1>5. Waiting(c) = [k \in 1..n |-> w(k)] /\ n \in Nat /\ \A k \in 1..n : w(k) \in Keys
  BY <1>1, <1>3, <1>4, Zenon DEF n, w
<1>6. Waiting(c) \in Seq(Keys) /\ Len(Waiting(c)) = n /\ \A k \in 1..n : Waiting(c)[k] = w(k)
  BY <1>5
<1> QED BY <1>3, <1>6, Zenon DEF n, w

(* Bytes that are stored go to the end of the queue.  The index of the     *)
(* t-th free cell of the ring is t - 1 cells past r_head, that of the k-th *)
(* waiting byte is not among the cells that are written.                   *)
LEMMA StoreArith ==
  ASSUME NEW head \in RcvIdx, NEW tail \in RcvIdx, NEW stored \in RcvIdx,
         stored <= RCV_SZ - 1 - Sub(head, tail, RCV_SZ)
  PROVE  LET used == Sub(head, tail, RCV_SZ)
             head2 == Add(head, stored, RCV_SZ)
         IN  /\ Sub(head2, tail, RCV_SZ) = used + stored
             /\ \A k \in 1..used :
                  ~(Sub(Add(tail, k - 1, RCV_SZ), head, RCV_SZ) < stored)
             /\ \A k \in (used + 1)..(used + stored) :
                  Sub(Add(tail, k - 1, RCV_SZ), head, RCV_SZ) = k - used - 1
<1> DEFINE used == Sub(head, tail, RCV_SZ)
           head2 == Add(head, stored, RCV_SZ)
<1>1. RCV_SZ \in Nat /\ RCV_SZ > 1
  BY SizesAssumption
<1>2. used \in RcvIdx /\ used = IF head >= tail THEN head - tail ELSE head - tail + RCV_SZ
  BY RcvSub, RcvRange, Integral
<1>3. head2 \in RcvIdx
      /\ head2 = IF head + stored < RCV_SZ THEN head + stored ELSE head + stored - RCV_SZ
  BY RcvSub, RcvRange, Integral
<1> HIDE DEF head2
<1>4. Sub(head2, tail, RCV_SZ) = IF head2 >= tail THEN head2 - tail ELSE head2 - tail + RCV_SZ
  BY <1>3, RcvSub
<1>5. stored <= RCV_SZ - 1 - used
  OBVIOUS
<1> HIDE DEF used
<1>6. Sub(head2, tail, RCV_SZ) = used + stored
  BY <1>1, <1>2, <1>3, <1>4, <1>5 DEF RcvIdx
<1>7. ASSUME NEW k \in 1..(used + stored)
      PROVE  Sub(Add(tail, k - 1, RCV_SZ), head, RCV_SZ) =
               IF k <= used THEN RCV_SZ - used + k - 1 ELSE k - used - 1
  <2> DEFINE j == Add(tail, k - 1, RCV_SZ)
  <2>1. k - 1 \in RcvIdx
    BY <1>1, <1>2, <1>5 DEF RcvIdx
  <2>2. j \in RcvIdx /\ j = IF tail + (k - 1) < RCV_SZ THEN tail + (k - 1) ELSE tail + (k - 1) - RCV_SZ
    BY <2>1, RcvSub, RcvRange, Integral
  <2> HIDE DEF j
  <2>3. Sub(j, head, RCV_SZ) = IF j >= head THEN j - head ELSE j - head + RCV_SZ
    BY <2>2, RcvSub
  <2>4. Sub(j, head, RCV_SZ) = IF k <= used THEN RCV_SZ - used + k - 1 ELSE k - used - 1
    BY <1>1, <1>2, <1>5, <2>2, <2>3 DEF RcvIdx
  <2> QED BY <2>4 DEF j
<1>8. ASSUME NEW k \in 1..used
      PROVE  ~(Sub(Add(tail, k - 1, RCV_SZ), head, RCV_SZ) < stored)
  <2>1. k \in 1..(used + stored) /\ k <= used
    BY <1>1, <1>2 DEF RcvIdx
  <2>2. Sub(Add(tail, k - 1, RCV_SZ), head, RCV_SZ) = RCV_SZ - used + k - 1
    BY <1>7, <2>1
  <2> QED BY <1>1, <1>2, <1>5, <2>2 DEF RcvIdx
<1>9. ASSUME NEW k \in (used + 1)..(used + stored)
      PROVE  Sub(Add(tail, k - 1, RCV_SZ), head, RCV_SZ) = k - used - 1
  <2>1. k \in 1..(used + stored) /\ ~(k <= used)
    BY <1>1, <1>2 DEF RcvIdx
  <2> QED BY <1>7, <2>1
<1> QED BY <1>6, <1>8, <1>9 DEF used, head2

(* how many bytes of a segment are stored                                  *)
Stored(c, m) == IF m.seq = c.rcv_nxt THEN Lesser(Len(m.data), RcvFree(c)) ELSE 0

LEMMA ConcatSeq ==
  ASSUME NEW S, NEW q \in Seq(S), NEW r \in Seq(S)
  PROVE  /\ q \o r \in Seq(S) /\ Len(q \o r) = Len(q) + Len(r)
         /\ \A k \in 1..Len(q) : (q \o r)[k] = q[k]
         /\ \A k \in (Len(q) + 1)..(Len(q) + Len(r)) : (q \o r)[k] = r[k - Len(q)]
OBVIOUS

LEMMA StoredRange ==
  ASSUME NEW c \in Conn, NEW m \in Frame
  PROVE  /\ Stored(c, m) \in 0..Len(m.data) /\ Stored(c, m) \in RcvIdx
         /\ Stored(c, m) \in SeqNum /\ Stored(c, m) <= RcvFree(c)
<1>1. Len(m.data) \in Nat /\ RcvFree(c) \in RcvIdx
  BY FrameFields, Derived
<1> QED BY <1>1, SizesAssumption DEF Stored, Lesser, RcvIdx, SeqNum, SEQ

LEMMA DataEffect ==
  ASSUME NEW c \in Conn, NEW m \in Frame
  PROVE  LET d == DataIn(c, m)
             stored == Stored(c, m)
         IN  /\ d.tstate = c.tstate /\ d.peer = c.peer /\ d.id = c.id
             /\ d.just_estab = c.just_estab /\ d.ready = c.ready
             /\ d.rcv_nxt = Add(c.rcv_nxt, stored, SEQ)
             /\ RcvUsed(d) = RcvUsed(c) + stored
             /\ Waiting(d) = Waiting(c) \o SubSeq(m.data, 1, stored)
<1> DEFINE d == DataIn(c, m)
           stored == Stored(c, m)
           k(j) == Sub(j, c.r_head, RCV_SZ)
           new == [j \in RcvIdx |-> IF k(j) < stored THEN m.data[k(j) + 1]
                                    ELSE c.rbuf[j]]
<1>1. /\ d.tstate = c.tstate /\ d.peer = c.peer /\ d.id = c.id
      /\ d.just_estab = c.just_estab /\ d.ready = c.ready /\ d.r_tail = c.r_tail
  BY Zenon DEF DataIn, Conn
<1>2. d \in Conn
  BY DataType
<1>3. /\ stored \in 0..Len(m.data) /\ stored \in RcvIdx /\ stored \in SeqNum
      /\ stored <= RcvFree(c)
  BY StoredRange
<1>4. /\ c.r_head \in RcvIdx /\ c.r_tail \in RcvIdx /\ c.rcv_nxt \in SeqNum
      /\ c.rbuf \in [RcvIdx -> Keys] /\ m.data \in Seq(Keys)
  BY FrameFields, Zenon DEF Conn
<1>5. /\ m.seq = c.rcv_nxt =>
           /\ d.rbuf = new /\ d.r_head = Add(c.r_head, stored, RCV_SZ)
           /\ d.rcv_nxt = Add(c.rcv_nxt, stored, SEQ)
      /\ m.seq # c.rcv_nxt => d = c /\ stored = 0
  <2>1. CASE m.seq = c.rcv_nxt
    <3>1. d = [c EXCEPT !.rbuf = new, !.r_head = Add(c.r_head, stored, RCV_SZ),
                        !.rcv_nxt = Add(c.rcv_nxt, stored, SEQ)]
      BY <2>1 DEF DataIn, Stored
    <3> HIDE DEF d, new, stored
    <3> QED BY <2>1, <3>1, Zenon DEF Conn
  <2>2. CASE m.seq # c.rcv_nxt
    BY <2>2 DEF DataIn, Stored
  <2> QED BY <2>1, <2>2
<1> HIDE DEF d
<1>6. CASE m.seq # c.rcv_nxt
  <2>1. d = c /\ stored = 0
    BY <1>5, <1>6
  <2>2. Add(c.rcv_nxt, 0, SEQ) = c.rcv_nxt
    BY <1>4, AddZero, Zenon
  <2>3. Waiting(c) \in Seq(Keys) /\ RcvUsed(c) \in Nat
    BY WaitingSeq, Derived, ModuliPositive DEF RcvIdx
  <2>4. Waiting(c) \o SubSeq(m.data, 1, 0) = Waiting(c)
    <3>1. SubSeq(m.data, 1, 0) = <<>>
      BY <1>4
    <3> QED BY <2>3, <3>1
  <2> HIDE DEF stored
  <2> QED BY <1>1, <2>1, <2>2, <2>3, <2>4 DEF d, stored
<1>7. CASE m.seq = c.rcv_nxt
  <2> DEFINE used == RcvUsed(c)
             w == Waiting(c) \o SubSeq(m.data, 1, stored)
  <2>1. /\ RcvUsed(d) = used + stored
        /\ \A i \in 1..used : ~(k(Add(c.r_tail, i - 1, RCV_SZ)) < stored)
        /\ \A i \in (used + 1)..(used + stored) :
             k(Add(c.r_tail, i - 1, RCV_SZ)) = i - used - 1
    <3>1. stored <= RCV_SZ - 1 - Sub(c.r_head, c.r_tail, RCV_SZ)
      BY <1>3 DEF RcvFree, RcvUsed
    <3>2. RcvUsed(d) = Sub(Add(c.r_head, stored, RCV_SZ), c.r_tail, RCV_SZ)
      BY <1>1, <1>5, <1>7 DEF RcvUsed
    <3> HIDE DEF stored
    <3> QED BY <1>3, <1>4, <3>1, <3>2, StoreArith DEF RcvUsed
  <2>2. used \in Nat /\ stored \in Nat
    BY <1>3, Derived, ModuliPositive DEF RcvIdx
  <2>3. /\ Waiting(c) \in Seq(Keys) /\ Len(Waiting(c)) = used
        /\ \A i \in 1..used : Waiting(c)[i] = c.rbuf[Add(c.r_tail, i - 1, RCV_SZ)]
    BY WaitingSeq
  <2>4. /\ Waiting(d) \in Seq(Keys) /\ Len(Waiting(d)) = used + stored
        /\ \A i \in 1..(used + stored) : /\ i - 1 \in RcvIdx
                /\ Waiting(d)[i] = new[Add(c.r_tail, i - 1, RCV_SZ)]
    <3>1. /\ Waiting(d) \in Seq(Keys) /\ Len(Waiting(d)) = RcvUsed(d)
          /\ \A i \in 1..RcvUsed(d) : /\ i - 1 \in RcvIdx
                  /\ Waiting(d)[i] = d.rbuf[Add(d.r_tail, i - 1, RCV_SZ)]
      BY <1>2, WaitingSeq
    <3>2. d.rbuf = new
      BY <1>5, <1>7
    <3> HIDE DEF new
    <3> QED BY <1>1, <2>1, <3>1, <3>2, Zenon
  <2> HIDE DEF stored, used, k, w
  <2>5. /\ w \in Seq(Keys) /\ Len(w) = used + stored
        /\ \A i \in 1..used : w[i] = Waiting(c)[i]
        /\ \A i \in (used + 1)..(used + stored) : w[i] = m.data[i - used]
    <3> DEFINE pre == SubSeq(m.data, 1, stored)
    <3>1. pre \in Seq(Keys) /\ Len(pre) = stored /\ \A i \in 1..stored : pre[i] = m.data[i]
      BY <1>3, <1>4, PrefixSeq
    <3> HIDE DEF pre
    <3>2. /\ w \in Seq(Keys) /\ Len(w) = used + stored
          /\ \A i \in 1..used : w[i] = Waiting(c)[i]
          /\ \A i \in (used + 1)..(used + stored) : w[i] = pre[i - used]
      <4>1. w = Waiting(c) \o pre
        BY DEF w, pre
      <4> DEFINE q == Waiting(c)
      <4>2. q \in Seq(Keys) /\ Len(q) = used
        BY <2>3
      <4> HIDE DEF q
      <4>3. /\ q \o pre \in Seq(Keys) /\ Len(q \o pre) = Len(q) + Len(pre)
            /\ \A i \in 1..Len(q) : (q \o pre)[i] = q[i]
            /\ \A i \in (Len(q) + 1)..(Len(q) + Len(pre)) : (q \o pre)[i] = pre[i - Len(q)]
        <5>1. q \in Seq(Keys) /\ pre \in Seq(Keys)
          BY <3>1, <4>2
        <5> QED BY <5>1, ConcatSeq, Zenon
      <4> QED BY <3>1, <4>1, <4>2, <4>3, Zenon DEF q
    <3>3. ASSUME NEW i \in (used + 1)..(used + stored)
          PROVE  i - used \in 1..stored
      BY <2>2
    <3> QED BY <3>1, <3>2, <3>3, Zenon
  <2>6. ASSUME NEW i \in 1..(used + stored) PROVE Waiting(d)[i] = w[i]
    <3> DEFINE j == Add(c.r_tail, i - 1, RCV_SZ)
    <3>1. j \in RcvIdx
      <4>1. i - 1 \in RcvIdx
        BY <2>4, Zenon
      <4> QED BY <1>4, <4>1, RcvRange, Integral
    <3>2. Waiting(d)[i] = IF k(j) < stored THEN m.data[k(j) + 1] ELSE c.rbuf[j]
      BY <2>4, <3>1, Zenon
    <3>3. CASE i \in 1..used
      BY <2>1, <2>3, <2>5, <3>2, <3>3, Zenon
    <3>4. CASE i \in (used + 1)..(used + stored)
      <4>1. k(j) = i - used - 1
        BY <2>1, <3>4
      <4>2. k(j) < stored /\ k(j) + 1 = i - used
        BY <2>2, <3>4, <4>1
      <4> QED BY <2>5, <3>2, <3>4, <4>2, Zenon
    <3> QED BY <2>2, <3>3, <3>4
  <2>7. Waiting(d) = w
    BY <2>4, <2>5, <2>6, SameSeq, Zenon
  <2> QED BY <1>1, <1>5, <1>7, <2>1, <2>7 DEF d, stored, used, w
<1> QED BY <1>6, <1>7

(* What a client sends are stretches of the keys it has typed, and so are  *)
(* the parts of them that are stored.                                      *)
Bursts == {KeysFrom(a, b) : a \in Keys, b \in Keys}

LEMMA IsBurst == \A a, b \in Keys : KeysFrom(a, b) \in Bursts
BY DEF Bursts

LEMMA KeysFromSeq ==
  ASSUME NEW a \in Keys, NEW b \in Keys
  PROVE  /\ KeysFrom(a, b) \in Seq(Keys)
         /\ Len(KeysFrom(a, b)) = IF a < b THEN b - a ELSE 0
         /\ \A k \in 1..(IF a < b THEN b - a ELSE 0) : KeysFrom(a, b)[k] = a + k
<1> DEFINE l == IF a < b THEN b - a ELSE 0
<1>1. l \in Nat
  BY SizesAssumption DEF Keys
<1>2. \A k \in 1..l : a + k \in Keys
  BY SizesAssumption DEF Keys
<1> HIDE DEF l
<1>3. KeysFrom(a, b) = [k \in 1..l |-> a + k]
  BY DEF l, KeysFrom
<1>4. KeysFrom(a, b) \in Seq(Keys) /\ Len(KeysFrom(a, b)) = l
      /\ \A k \in 1..l : KeysFrom(a, b)[k] = a + k
  BY <1>1, <1>2, <1>3
<1> QED BY <1>4 DEF l

LEMMA PrefixBurst ==
  ASSUME NEW q \in Bursts, NEW n \in 0..Len(q)
  PROVE  SubSeq(q, 1, n) \in Bursts
<1>1. PICK a \in Keys, b \in Keys : q = KeysFrom(a, b)
  BY DEF Bursts
<1> DEFINE l == IF a < b THEN b - a ELSE 0
<1>2. a \in Nat /\ b \in Nat /\ a <= MaxKeys /\ b <= MaxKeys /\ MaxKeys \in Nat
  BY SizesAssumption DEF Keys
<1>3. q \in Seq(Keys) /\ Len(q) = l /\ \A k \in 1..l : q[k] = a + k
  BY <1>1, KeysFromSeq
<1>4. n \in Nat /\ n <= l /\ a + n \in Keys /\ (IF a < a + n THEN a + n - a ELSE 0) = n
  BY <1>2, <1>3 DEF Keys
<1> HIDE DEF l
<1> DEFINE r == SubSeq(q, 1, n)
           t == KeysFrom(a, a + n)
<1>5. r \in Seq(Keys) /\ Len(r) = n /\ \A k \in 1..n : r[k] = q[k]
  BY <1>3, PrefixSeq
<1>6. t \in Seq(Keys) /\ Len(t) = n /\ \A k \in 1..n : t[k] = a + k
  <2> DEFINE b2 == a + n
  <2>1. b2 \in Keys /\ (IF a < b2 THEN b2 - a ELSE 0) = n
    BY <1>2, <1>4
  <2> HIDE DEF b2
  <2> QED BY <2>1, KeysFromSeq DEF b2
<1>7. \A k \in 1..n : k \in 1..l
  BY <1>2, <1>4 DEF l
<1> HIDE DEF r, t
<1>8. \A k \in 1..n : r[k] = t[k]
  BY <1>3, <1>5, <1>6, <1>7, Zenon
<1>9. r = t
  BY <1>5, <1>6, <1>8, SameSeq, Zenon
<1> QED BY <1>4, <1>9, IsBurst DEF r, t

LEMMA SegmentsBurst ==
  ASSUME TypeOK, NEW x \in Clients, NEW m \in Segments(x)
  PROVE  m.data \in Bursts
<1> DEFINE n == clients[x].typed
           acks == clients[x].acks
<1>1. n \in Keys
  BY Zenon DEF TypeOK, Client
<1>2. 0..n \subseteq Keys /\ n \in 0..n /\ 0 \in Keys
  BY <1>1, SizesAssumption DEF Keys
<1>3. <<>> \in Bursts
  <2>1. KeysFrom(0, 0) = <<>>
    BY DEF KeysFrom
  <2> QED BY <1>2, <2>1, IsBurst
<1>4. \/ m = Seg(x, {"SYN"}, CISS, 0, <<>>)
      \/ \E a, b \in 0..n, k \in acks : m = Seg(x, {"ACK"}, KeySeq(a), k, KeysFrom(a, b))
      \/ \E a \in 0..n, k \in acks : m = Seg(x, {"ACK", "FIN"}, KeySeq(a), k, KeysFrom(a, n))
      \/ m = Seg(x, {"RST"}, 0, 0, <<>>)
  BY DEF Segments
<1>5. \/ m.data = <<>>
      \/ \E a, b \in 0..n : m.data = KeysFrom(a, b)
  <2> HIDE DEF n, acks
  <2>1. CASE \E a, b \in 0..n, k \in acks : m = Seg(x, {"ACK"}, KeySeq(a), k, KeysFrom(a, b))
    <3>1. PICK a \in 0..n, b \in 0..n, k \in acks :
            m = Seg(x, {"ACK"}, KeySeq(a), k, KeysFrom(a, b))
      BY <2>1, Zenon
    <3>2. m.data = KeysFrom(a, b)
      BY <3>1 DEF Seg
    <3> QED BY <3>2
  <2>2. CASE \E a \in 0..n, k \in acks : m = Seg(x, {"ACK", "FIN"}, KeySeq(a), k, KeysFrom(a, n))
    <3>1. PICK a \in 0..n, k \in acks :
            m = Seg(x, {"ACK", "FIN"}, KeySeq(a), k, KeysFrom(a, n))
      BY <2>2, Zenon
    <3>2. m.data = KeysFrom(a, n)
      BY <3>1 DEF Seg
    <3> QED BY <1>2, <3>2
  <2>3. CASE m = Seg(x, {"SYN"}, CISS, 0, <<>>) \/ m = Seg(x, {"RST"}, 0, 0, <<>>)
    BY <2>3 DEF Seg
  <2> QED BY <1>4, <2>1, <2>2, <2>3
<1> HIDE DEF n
<1> QED BY <1>2, <1>3, <1>5, IsBurst, Zenon

(* Taking a byte from the ring takes the head of the queue.                *)
LEMMA TakeArith ==
  ASSUME NEW head \in RcvIdx, NEW tail \in RcvIdx, head # tail
  PROVE  LET tail2 == Add(tail, 1, RCV_SZ)
         IN  /\ Sub(head, tail, RCV_SZ) > 0
             /\ Sub(head, tail2, RCV_SZ) = Sub(head, tail, RCV_SZ) - 1
             /\ \A k \in 1..(Sub(head, tail, RCV_SZ) - 1) :
                  Add(tail2, k - 1, RCV_SZ) = Add(tail, k, RCV_SZ)
<1> DEFINE used == Sub(head, tail, RCV_SZ)
           tail2 == Add(tail, 1, RCV_SZ)
<1>1. RCV_SZ \in Nat /\ RCV_SZ > 1 /\ 1 \in RcvIdx
  BY SizesAssumption DEF RcvIdx
<1>2. used = IF head >= tail THEN head - tail ELSE head - tail + RCV_SZ
  BY RcvSub
<1>3. tail2 = IF tail + 1 < RCV_SZ THEN tail + 1 ELSE tail + 1 - RCV_SZ
  BY <1>1, RcvSub
<1>4. used \in 1..(RCV_SZ - 1) /\ tail2 \in RcvIdx
  BY <1>1, <1>2, <1>3 DEF RcvIdx
<1> HIDE DEF used, tail2
<1>5. Sub(head, tail2, RCV_SZ) = IF head >= tail2 THEN head - tail2 ELSE head - tail2 + RCV_SZ
  BY <1>4, RcvSub
<1>6. Sub(head, tail2, RCV_SZ) = used - 1
  BY <1>1, <1>2, <1>3, <1>4, <1>5 DEF RcvIdx
<1>7. ASSUME NEW k \in 1..(used - 1) PROVE Add(tail2, k - 1, RCV_SZ) = Add(tail, k, RCV_SZ)
  <2>1. k \in RcvIdx /\ k - 1 \in RcvIdx
    BY <1>1, <1>4 DEF RcvIdx
  <2>2. Add(tail, k, RCV_SZ) = IF tail + k < RCV_SZ THEN tail + k ELSE tail + k - RCV_SZ
    BY <2>1, RcvSub
  <2> DEFINE p == k - 1
  <2>3. p \in RcvIdx
    BY <2>1
  <2> HIDE DEF p
  <2>4. Add(tail2, p, RCV_SZ) = IF tail2 + p < RCV_SZ THEN tail2 + p ELSE tail2 + p - RCV_SZ
    BY <1>4, <2>3, RcvSub
  <2>5. Add(tail2, p, RCV_SZ) = Add(tail, k, RCV_SZ)
    BY <1>1, <1>3, <1>4, <2>1, <2>2, <2>4 DEF RcvIdx, p
  <2> QED BY <2>5 DEF p
<1> QED BY <1>4, <1>6, <1>7 DEF used, tail2

LEMMA TailSeq ==
  ASSUME NEW S, NEW q \in Seq(S), Len(q) > 0
  PROVE  /\ Tail(q) \in Seq(S) /\ Len(Tail(q)) = Len(q) - 1 /\ q # <<>>
         /\ \A k \in 1..(Len(q) - 1) : Tail(q)[k] = q[k + 1]
OBVIOUS

LEMMA TakeEffect ==
  ASSUME NEW c \in Conn, c.r_tail # c.r_head
  PROVE  LET d == [c EXCEPT !.r_tail = Add(@, 1, RCV_SZ)]
         IN  /\ d \in Conn /\ d.tstate = c.tstate /\ d.peer = c.peer /\ d.id = c.id
             /\ d.just_estab = c.just_estab /\ d.ready = c.ready /\ d.rcv_nxt = c.rcv_nxt
             /\ RcvUsed(c) > 0 /\ RcvUsed(d) = RcvUsed(c) - 1
             /\ Waiting(c) # <<>> /\ Waiting(c)[1] = c.rbuf[c.r_tail]
             /\ Waiting(d) = Tail(Waiting(c))
<1> DEFINE tail2 == Add(c.r_tail, 1, RCV_SZ)
           d == [c EXCEPT !.r_tail = Add(@, 1, RCV_SZ)]
           used == RcvUsed(c)
<1>1. c.r_head \in RcvIdx /\ c.r_tail \in RcvIdx
  BY Fields
<1>2. tail2 \in RcvIdx
  <2>1. 1 \in Int
    OBVIOUS
  <2> QED BY <1>1, <2>1, RcvRange, Integral, Zenon
<1> HIDE DEF tail2
<1>3. d = [c EXCEPT !.r_tail = tail2]
  BY DEF tail2
<1>4. /\ d \in Conn /\ d.tstate = c.tstate /\ d.peer = c.peer /\ d.id = c.id
      /\ d.just_estab = c.just_estab /\ d.ready = c.ready /\ d.rcv_nxt = c.rcv_nxt
      /\ d.r_head = c.r_head /\ d.r_tail = tail2 /\ d.rbuf = c.rbuf
  BY <1>2, <1>3, Zenon DEF Conn
<1> HIDE DEF d
<1>5. /\ used > 0 /\ RcvUsed(d) = used - 1
      /\ \A k \in 1..(used - 1) : Add(tail2, k - 1, RCV_SZ) = Add(c.r_tail, k, RCV_SZ)
  BY <1>1, <1>4, TakeArith DEF RcvUsed, tail2
<1>6. used \in Nat
  BY Derived, ModuliPositive DEF RcvIdx
<1> HIDE DEF used
<1> DEFINE w == Waiting(c)
<1>7. /\ w \in Seq(Keys) /\ Len(w) = used
      /\ \A k \in 1..used : w[k] = c.rbuf[Add(c.r_tail, k - 1, RCV_SZ)]
  BY WaitingSeq DEF used
<1>8. /\ Waiting(d) \in Seq(Keys) /\ Len(Waiting(d)) = used - 1
      /\ \A k \in 1..(used - 1) : Waiting(d)[k] = c.rbuf[Add(tail2, k - 1, RCV_SZ)]
  <2>1. /\ Waiting(d) \in Seq(Keys) /\ Len(Waiting(d)) = RcvUsed(d)
        /\ \A k \in 1..RcvUsed(d) : Waiting(d)[k] = d.rbuf[Add(d.r_tail, k - 1, RCV_SZ)]
    BY <1>4, WaitingSeq
  <2> QED BY <1>4, <1>5, <2>1, Zenon
<1> HIDE DEF w
<1>9. /\ Tail(w) \in Seq(Keys) /\ Len(Tail(w)) = used - 1 /\ w # <<>>
      /\ \A k \in 1..(used - 1) : Tail(w)[k] = w[k + 1]
  <2>1. Len(w) > 0
    BY <1>5, <1>7
  <2> QED BY <1>7, <2>1, TailSeq
<1>10. ASSUME NEW k \in 1..(used - 1) PROVE Waiting(d)[k] = Tail(w)[k]
  <2>1. k + 1 \in 1..used /\ (k + 1) - 1 = k
    BY <1>6
  <2>2. w[k + 1] = c.rbuf[Add(c.r_tail, k, RCV_SZ)]
    BY <1>7, <2>1
  <2> QED BY <1>5, <1>8, <1>9, <2>2
<1>11. Waiting(d) = Tail(w)
  BY <1>8, <1>9, <1>10, SameSeq, Zenon
<1>12. w[1] = c.rbuf[c.r_tail]
  <2>1. Add(c.r_tail, 0, RCV_SZ) = c.r_tail
    BY <1>1, AddZero, Zenon
  <2>2. 1 \in 1..used /\ 1 - 1 = 0
    BY <1>5, <1>6
  <2> QED BY <1>7, <2>1, <2>2
<1> QED BY <1>4, <1>5, <1>9, <1>11, <1>12 DEF used, w, d

---------------------------------------------------------------------------
(* The inductive invariant of the receiving half, as a predicate of the    *)
(* slots cs, the segments sent, the number n of SYNs accepted and the keys *)
(* q taken: a poll is followed through its stages.  Connections are told   *)
(* apart by their ids; a listening slot has an empty ring, so nothing is   *)
(* ever taken for a connection that is over.                               *)

Acked(c) == Sub(c.rcv_nxt, CISS + 1, SEQ)            \* keys acknowledged
AckedBy(s) == Sub(s.ack, CISS + 1, SEQ)
Typed(n) == [k \in 1..n |-> k]

(* what a live slot has received, and of which keys were taken             *)
Received(c, keys) == Acked(c) <= MaxKeys /\ keys \o Waiting(c) = Typed(Acked(c))

(* what a segment promised is still there                                  *)
Promised(c, s, keys) == /\ AckedBy(s) <= Acked(c)
                        /\ AckedBy(s) + s.wnd <= Len(keys) + RCV_SZ - 1

Quiet(c) == ~Live(c) => c.r_head = c.r_tail

Recv(cs, sent, n, q) ==
  /\ \A i \in Slots : Quiet(cs[i])
  /\ \A i \in Slots : Live(cs[i]) => cs[i].id \in 1..n /\ Received(cs[i], q[cs[i].id])
  /\ \A i, j \in Slots : Live(cs[i]) /\ Live(cs[j]) /\ cs[i].id = cs[j].id => i = j
  /\ \A i \in Slots : \A s \in sent :
       Live(cs[i]) /\ s.id = cs[i].id => Promised(cs[i], s, q[cs[i].id])
  /\ \A s \in sent : s.id <= n
  /\ \A k \in Ids : k > n => q[k] = <<>>

RecvInv == SlotInv /\ Recv(conns, toClient, nsyn, rx)

(* Sequence numbers counted from the client's first key.                   *)
LEMMA KeyCount ==
  ASSUME NEW x \in SeqNum
  PROVE  /\ Sub(x, CISS + 1, SEQ) \in SeqNum
         /\ Sub(x, CISS + 1, SEQ) = IF x > CISS THEN x - CISS - 1 ELSE x - CISS - 1 + SEQ
<1>1. CISS \in SeqNum /\ SEQ \in Nat \ {0}
  BY EndpointAssumption, ModuliPositive
<1> DEFINE m == SEQ
<1>2. m \in Nat \ {0} /\ x \in 0..(m - 1) /\ CISS \in 0..(m - 1)
  BY <1>1 DEF SeqNum
<1> HIDE DEF m
<1>3. (x - (CISS + 1)) % m = IF x > CISS THEN x - CISS - 1 ELSE x - CISS - 1 + m
  BY <1>2
<1> QED BY <1>1, <1>2, <1>3 DEF m, Sub, SeqNum

LEMMA SpaceIsEnough == MaxKeys < SEQ /\ MaxKeys <= HALF /\ RCV_SZ <= HALF /\ 1 < HALF
BY SizesAssumption, SessionAssumption DEF SEQ

LEMMA KeyIndex ==
  ASSUME NEW a \in Keys
  PROVE  KeySeq(a) \in SeqNum /\ Sub(KeySeq(a), CISS + 1, SEQ) = a
<1>1. CISS \in SeqNum /\ SEQ \in Nat \ {0}
  BY EndpointAssumption, ModuliPositive
<1> DEFINE m == SEQ
<1>2. /\ m \in Nat \ {0} /\ CISS \in 0..(m - 1) /\ a \in Nat /\ 1 + a < m
      /\ MaxKeys \in Nat
  BY <1>1, SpaceIsEnough, SizesAssumption DEF SeqNum, Keys, SEQ
<1> HIDE DEF m
<1>3. (CISS + (1 + a)) % m = IF CISS + 1 + a < m THEN CISS + 1 + a ELSE CISS + 1 + a - m
  BY <1>2
<1>4. KeySeq(a) = IF CISS + 1 + a < m THEN CISS + 1 + a ELSE CISS + 1 + a - m
  BY <1>3 DEF KeySeq, Add, m
<1>5. KeySeq(a) \in SeqNum
  BY <1>2, <1>4 DEF SeqNum, m
<1>6. Sub(KeySeq(a), CISS + 1, SEQ) =
        IF KeySeq(a) > CISS THEN KeySeq(a) - CISS - 1 ELSE KeySeq(a) - CISS - 1 + SEQ
  BY <1>5, KeyCount
<1> QED BY <1>2, <1>4, <1>5, <1>6 DEF m

LEMMA KeyAdd ==
  ASSUME NEW x \in SeqNum, NEW k \in SeqNum, Sub(x, CISS + 1, SEQ) + k < SEQ
  PROVE  Sub(Add(x, k, SEQ), CISS + 1, SEQ) = Sub(x, CISS + 1, SEQ) + k
<1> DEFINE y == Add(x, k, SEQ)
<1>1. y \in SeqNum /\ y = IF x + k < SEQ THEN x + k ELSE x + k - SEQ
  BY SeqSub, SeqRange, Integral
<1> HIDE DEF y
<1>2. /\ Sub(x, CISS + 1, SEQ) = IF x > CISS THEN x - CISS - 1 ELSE x - CISS - 1 + SEQ
      /\ Sub(y, CISS + 1, SEQ) = IF y > CISS THEN y - CISS - 1 ELSE y - CISS - 1 + SEQ
  BY <1>1, KeyCount
<1>3. CISS \in SeqNum /\ SEQ \in Nat \ {0}
  BY EndpointAssumption, ModuliPositive
<1>4. Sub(y, CISS + 1, SEQ) = Sub(x, CISS + 1, SEQ) + k
  BY <1>1, <1>2, <1>3 DEF SeqNum
<1> QED BY <1>4 DEF y

LEMMA AckedNat == ASSUME NEW c \in Conn PROVE Acked(c) \in SeqNum /\ Acked(c) \in Nat
<1>1. Acked(c) \in SeqNum
  BY Fields, KeyCount DEF Acked
<1> QED BY <1>1, ModuliPositive DEF SeqNum

(* The keys 1..n, and the next k of them.                                  *)
LEMMA TypedSeq ==
  ASSUME NEW n \in Keys
  PROVE  Typed(n) \in Seq(Keys) /\ Len(Typed(n)) = n /\ \A k \in 1..n : Typed(n)[k] = k
<1>1. n \in Nat /\ \A k \in 1..n : k \in Keys
  BY SizesAssumption DEF Keys
<1> QED BY <1>1 DEF Typed

LEMMA TypedOn ==
  ASSUME NEW a \in Keys, NEW b \in Keys, NEW n \in 0..Len(KeysFrom(a, b))
  PROVE  a + n \in Keys /\ Typed(a) \o SubSeq(KeysFrom(a, b), 1, n) = Typed(a + n)
<1> DEFINE l == IF a < b THEN b - a ELSE 0
           f == KeysFrom(a, b)
           g == SubSeq(f, 1, n)
           t == Typed(a)
           b2 == a + n
<1>1. f \in Seq(Keys) /\ Len(f) = l /\ \A k \in 1..l : f[k] = a + k
  BY KeysFromSeq
<1>2. n \in Nat /\ n <= l /\ b2 \in Keys /\ a \in Nat /\ l \in Nat
  BY <1>1, SizesAssumption DEF Keys
<1> HIDE DEF l, f
<1>3. g \in Seq(Keys) /\ Len(g) = n /\ \A k \in 1..n : g[k] = f[k]
  <2>1. n \in 0..Len(f)
    BY <1>1, <1>2
  <2> QED BY <1>1, <2>1, PrefixSeq
<1> HIDE DEF g, b2, t
<1>4. Typed(b2) \in Seq(Keys) /\ Len(Typed(b2)) = b2 /\ \A k \in 1..b2 : Typed(b2)[k] = k
  BY <1>2, TypedSeq
<1>5. t \in Seq(Keys) /\ Len(t) = a /\ \A k \in 1..a : t[k] = k
  BY TypedSeq DEF t
<1>6. /\ t \o g \in Seq(Keys) /\ Len(t \o g) = Len(t) + Len(g)
      /\ \A k \in 1..Len(t) : (t \o g)[k] = t[k]
      /\ \A k \in (Len(t) + 1)..(Len(t) + Len(g)) : (t \o g)[k] = g[k - Len(t)]
  BY <1>3, <1>5, ConcatSeq, Zenon
<1>7. b2 = a + n
  BY DEF b2
<1>8. ASSUME NEW k \in 1..b2 PROVE (t \o g)[k] = k
  <2>1. CASE k \in 1..a
    BY <1>5, <1>6, <2>1, Zenon
  <2>2. CASE k \in (a + 1)..(a + n)
    <3>1. k - a \in 1..n /\ k - a \in 1..l /\ a + (k - a) = k
      BY <1>2, <2>2
    <3>2. (t \o g)[k] = g[k - a]
      BY <1>3, <1>5, <1>6, <2>2, Zenon
    <3>3. g[k - a] = a + (k - a)
      BY <1>1, <1>3, <3>1, Zenon
    <3> QED BY <3>1, <3>2, <3>3
  <2>3. k \in 1..a \/ k \in (a + 1)..(a + n)
    BY <1>2, <1>7
  <2> QED BY <2>1, <2>2, <2>3, Zenon
<1>9. Len(t \o g) = b2
  BY <1>3, <1>5, <1>6, <1>7
<1> DEFINE u == t \o g
<1> HIDE DEF u
<1>10. u = Typed(b2)
  BY <1>4, <1>6, <1>8, <1>9, SameSeq, Zenon DEF u
<1> QED BY <1>2, <1>10 DEF u, t, g, f, b2

LEMMA ConcatAssoc ==
  ASSUME NEW S, NEW q \in Seq(S), NEW r \in Seq(S), NEW t \in Seq(S)
  PROVE  q \o (r \o t) = (q \o r) \o t
OBVIOUS

(* What a client sends after its SYN: a stretch of its keys, numbered by   *)
(* the key before it.                                                      *)
KeyFrame(m) == \E a, b \in Keys : m.seq = KeySeq(a) /\ m.data = KeysFrom(a, b)

(* Storing what fits of it keeps the account: a segment at rcv_nxt starts  *)
(* at the first key not yet acknowledged.                                  *)
LEMMA DataReceived ==
  ASSUME NEW c \in Conn, NEW m \in Frame, KeyFrame(m), NEW keys \in Seq(Keys),
         Received(c, keys)
  PROVE  Received(DataIn(c, m), keys) /\ Acked(c) <= Acked(DataIn(c, m))
<1> DEFINE d == DataIn(c, m)
           n == Stored(c, m)
           pre == SubSeq(m.data, 1, n)
           w == Waiting(c)
<1>1. d.rcv_nxt = Add(c.rcv_nxt, n, SEQ) /\ Waiting(d) = w \o pre
  BY DataEffect
<1>2. n \in 0..Len(m.data) /\ n \in SeqNum
  BY StoredRange
<1>3. w \in Seq(Keys) /\ m.data \in Seq(Keys) /\ c.rcv_nxt \in SeqNum
  BY WaitingSeq, FrameFields, Fields
<1>4. Acked(c) \in Keys /\ keys \o w = Typed(Acked(c))
  BY AckedNat, SizesAssumption DEF Received, Keys
<1> HIDE DEF d
<1>5. CASE m.seq # c.rcv_nxt
  <2>1. n = 0 /\ d = c
    BY <1>5 DEF Stored, DataIn, d
  <2>2. Acked(c) \in Nat
    BY AckedNat
  <2> QED BY <2>1, <2>2 DEF d
<1>6. CASE m.seq = c.rcv_nxt
  <2>1. PICK a \in Keys, b \in Keys : m.seq = KeySeq(a) /\ m.data = KeysFrom(a, b)
    BY DEF KeyFrame
  <2>2. Acked(c) = a
    BY <1>6, <2>1, KeyIndex DEF Acked
  <2> HIDE DEF n
  <2>3. n \in 0..Len(KeysFrom(a, b))
    BY <1>2, <2>1
  <2>4. a + n \in Keys /\ Typed(a) \o pre = Typed(a + n)
    BY <2>1, <2>3, TypedOn
  <2>5. Acked(d) = a + n
    <3>1. a + n < SEQ /\ Sub(c.rcv_nxt, CISS + 1, SEQ) = a
      BY <2>2, <2>4, SpaceIsEnough, SizesAssumption, ModuliPositive DEF Keys, Acked
    <3> QED BY <1>1, <1>2, <1>3, <3>1, KeyAdd DEF Acked
  <2>6. pre \in Seq(Keys)
    BY <1>2, <1>3, PrefixSeq
  <2> HIDE DEF w, pre
  <2>7. keys \o (w \o pre) = Typed(a + n)
    <3>1. keys \in Seq(Keys)
      OBVIOUS
    <3>2. keys \o (w \o pre) = (keys \o w) \o pre
      BY <1>3, <2>6, <3>1, ConcatAssoc
    <3> QED BY <1>4, <2>2, <2>4, <3>2
  <2>8. a + n <= MaxKeys /\ a <= a + n
    BY <1>2, <2>4, SizesAssumption DEF Keys, SeqNum
  <2> QED BY <1>1, <2>2, <2>5, <2>7, <2>8 DEF Received, d
<1> QED BY <1>5, <1>6

---------------------------------------------------------------------------
(* What the operations do to a slot, for this invariant: it dies with its  *)
(* ring emptied, or it stays the same connection and keeps its account.    *)
Carries(c, d, q) ==
  \/ ~Live(d) /\ d.r_head = d.r_tail
  \/ /\ Live(c) /\ Live(d) /\ d.id = c.id
     /\ Received(c, q[c.id]) => Received(d, q[c.id]) /\ Acked(c) <= Acked(d)

LEMMA CarriesTable ==
  ASSUME NEW cs \in [Slots -> Conn], NEW ds \in [Slots -> Conn], NEW sent \in SUBSET SegOut,
         NEW n, NEW q,
         Recv(cs, sent, n, q), \A i \in Slots : Carries(cs[i], ds[i], q)
  PROVE  Recv(ds, sent, n, q)
<1>1. \A i \in Slots : Live(ds[i]) =>
        /\ Live(cs[i]) /\ ds[i].id = cs[i].id /\ Acked(cs[i]) <= Acked(ds[i])
        /\ Received(ds[i], q[cs[i].id])
  BY Zenon DEF Carries, Recv
<1>2. \A i \in Slots : Quiet(ds[i])
  BY Zenon DEF Carries, Quiet
<1>3. /\ \A i \in Slots : Live(ds[i]) => ds[i].id \in 1..n /\ Received(ds[i], q[ds[i].id])
      /\ \A i, j \in Slots : Live(ds[i]) /\ Live(ds[j]) /\ ds[i].id = ds[j].id => i = j
      /\ \A s \in sent : s.id <= n
      /\ \A k \in Ids : k > n => q[k] = <<>>
  BY <1>1, Zenon DEF Recv
<1>4. ASSUME NEW i \in Slots, NEW s \in sent, Live(ds[i]), s.id = ds[i].id
      PROVE  Promised(ds[i], s, q[ds[i].id])
  <2>1. /\ Live(cs[i]) /\ ds[i].id = cs[i].id /\ Acked(cs[i]) <= Acked(ds[i])
        /\ Promised(cs[i], s, q[ds[i].id])
    BY <1>1, <1>4, Zenon DEF Recv
  <2>2. Acked(cs[i]) \in Nat /\ Acked(ds[i]) \in Nat
    BY AckedNat
  <2>3. s.ack \in SeqNum
    BY Zenon DEF SegOut
  <2>4. AckedBy(s) \in Int
    BY <2>3, KeyCount, Integral DEF AckedBy
  <2> QED BY <2>1, <2>2, <2>4 DEF Promised
<1> QED BY <1>2, <1>3, <1>4, Zenon DEF Recv

(* Carries looks at these fields only.                                     *)
LEMMA CarriesSame ==
  ASSUME NEW c \in Conn, NEW d \in Conn, NEW q, Quiet(c), d.tstate = c.tstate,
         d.id = c.id, d.rcv_nxt = c.rcv_nxt,
         d.r_head = c.r_head, d.r_tail = c.r_tail, d.rbuf = c.rbuf
  PROVE  Carries(c, d, q)
<1>1. Waiting(d) = Waiting(c) /\ Acked(d) = Acked(c) /\ Live(d) = Live(c)
  BY DEF Waiting, RcvUsed, Acked, Live
<1>2. Acked(c) <= Acked(c)
  BY AckedNat
<1> QED BY <1>1, <1>2 DEF Carries, Received, Quiet

LEMMA ResetCarries ==
  ASSUME NEW c \in Conn, NEW q, NEW d \in Conn
  PROVE  Carries(c, tcp_reset_listen(d), q) /\ ~Live(tcp_reset_listen(d))
<1>1. /\ tcp_reset_listen(d).tstate = "LISTEN"
      /\ tcp_reset_listen(d).r_head = 0 /\ tcp_reset_listen(d).r_tail = 0
  BY Zenon DEF tcp_reset_listen, Conn
<1> QED BY <1>1 DEF Carries, Live

LEMMA OutputCarries ==
  ASSUME NEW c \in Conn, NEW q, Quiet(c)
  PROVE  Carries(c, tcp_output(c), q)
<1> DEFINE d == tcp_output(c)
<1>1. /\ d.tstate = c.tstate /\ d.id = c.id /\ d.rcv_nxt = c.rcv_nxt
      /\ d.r_head = c.r_head /\ d.r_tail = c.r_tail /\ d.rbuf = c.rbuf
  BY Zenon DEF tcp_output, Conn
<1>2. d \in Conn
  BY OutputType
<1> HIDE DEF d
<1>3. Carries(c, d, q)
  BY <1>1, <1>2, CarriesSame
<1> QED BY <1>3 DEF d

LEMMA TimerCarries ==
  ASSUME NEW c \in Conn, NEW e \in Nat, NEW q, Quiet(c)
  PROVE  Carries(c, tcp_timer(Clock(c, e)), q)
<1> DEFINE k == Clock(c, e)
           d == tcp_timer(k)
<1>1. k \in Conn
  BY ClockType
<1>2. /\ k.tstate = c.tstate /\ k.id = c.id /\ k.rcv_nxt = c.rcv_nxt
      /\ k.r_head = c.r_head /\ k.r_tail = c.r_tail /\ k.rbuf = c.rbuf
  BY Zenon DEF Clock, Conn
<1> HIDE DEF k
<1>3. CASE Expired(k) /\ k.rexmit_count + 1 > MAX_REXMIT
  <2>1. d = tcp_reset_listen(k)
    BY <1>3, Zenon DEF tcp_timer
  <2>2. Carries(c, d, q)
    BY <1>1, <2>1, ResetCarries
  <2> QED BY <2>2 DEF k
<1>4. CASE ~(Expired(k) /\ k.rexmit_count + 1 > MAX_REXMIT)
  <2>1. /\ d.tstate = k.tstate /\ d.id = k.id /\ d.rcv_nxt = k.rcv_nxt
        /\ d.r_head = k.r_head /\ d.r_tail = k.r_tail /\ d.rbuf = k.rbuf
    BY <1>1, <1>4, Zenon DEF tcp_timer, Conn
  <2>2. d \in Conn
    BY <1>1, TimerType
  <2> HIDE DEF d
  <2>3. Carries(c, d, q)
    BY <1>2, <2>1, <2>2, CarriesSame
  <2> QED BY <2>3 DEF d, k
<1> QED BY <1>3, <1>4

LEMMA AppendCarries ==
  ASSUME NEW c \in Conn, NEW b \in Byte, NEW q, Quiet(c), Append1(c, b) \in Conn
  PROVE  Carries(c, Append1(c, b), q)
<1> DEFINE d == Append1(c, b)
<1>1. /\ d.tstate = c.tstate /\ d.id = c.id /\ d.rcv_nxt = c.rcv_nxt
      /\ d.r_head = c.r_head /\ d.r_tail = c.r_tail /\ d.rbuf = c.rbuf
  BY Zenon DEF Append1, Conn
<1>2. d \in Conn
  OBVIOUS
<1> HIDE DEF d
<1>3. Carries(c, d, q)
  BY <1>1, <1>2, CarriesSame
<1> QED BY <1>3 DEF d

(* A segment on its slot: d is the slot the acknowledgements are sent from *)
(* and f the one that counts the FIN.                                      *)
LEMMA SegCarries ==
  ASSUME NEW c \in Conn, Live(c), NEW m \in Frame, KeyFrame(m), NEW q \in [Ids -> Seq(Keys)]
  PROVE  /\ Carries(c, SegIn(c, m), q)
         /\ "FIN" \notin m.flags /\ EstabIn(c, m).tstate = "ESTAB"
              => SegIn(c, m) = DataIn(AckIn(EstabIn(c, m), m), m) /\ Live(SegIn(c, m))
         /\ "FIN" \in m.flags /\ EstabIn(c, m).tstate = "ESTAB" => ~Live(SegIn(c, m))
         /\ DataIn(AckIn(EstabIn(c, m), m), m).id = c.id
         /\ DataIn(AckIn(EstabIn(c, m), m), m) \in Conn
<1> DEFINE e == EstabIn(c, m)
           a == AckIn(e, m)
           d == DataIn(a, m)
           f == [d EXCEPT !.rcv_nxt = Add(d.rcv_nxt, 1, SEQ)]
<1>1. e \in Conn
  BY EstabType
<1>2. /\ e.id = c.id /\ e.rcv_nxt = c.rcv_nxt /\ e.r_head = c.r_head
      /\ e.r_tail = c.r_tail /\ e.rbuf = c.rbuf
      /\ e.tstate = c.tstate \/ e.tstate = "ESTAB"
  BY Zenon DEF EstabIn, Conn
<1> HIDE DEF e
<1>3. a \in Conn
  BY <1>1, AckType
<1>4. /\ a.id = e.id /\ a.rcv_nxt = e.rcv_nxt /\ a.r_head = e.r_head
      /\ a.r_tail = e.r_tail /\ a.rbuf = e.rbuf /\ a.tstate = e.tstate
  BY <1>1, Zenon DEF AckIn, Conn
<1> HIDE DEF a
<1>5. Live(e) /\ Live(a) /\ a.id = c.id /\ Waiting(a) = Waiting(c) /\ Acked(a) = Acked(c)
  BY <1>2, <1>4 DEF Live, Waiting, RcvUsed, Acked
<1>6. d \in Conn /\ d.tstate = a.tstate /\ d.id = a.id
  BY <1>3, DataType, DataEffect
<1>7. Received(c, q[c.id]) => Received(d, q[c.id]) /\ Acked(c) <= Acked(d)
  <2>1. SUFFICES ASSUME Received(c, q[c.id])
                 PROVE  Received(d, q[c.id]) /\ Acked(c) <= Acked(d)
    OBVIOUS
  <2>2. q[c.id] \in Seq(Keys)
    <3>1. c.id \in Ids
      BY Zenon DEF Conn
    <3> QED BY <3>1
  <2>3. Received(a, q[c.id])
    BY <1>5, <2>1 DEF Received
  <2> QED BY <1>3, <1>5, <2>2, <2>3, DataReceived
<1> HIDE DEF d
<1>8. SegIn(c, m) = IF e.tstate # "ESTAB" THEN c
                    ELSE IF "FIN" \in m.flags THEN tcp_reset_listen(f) ELSE d
  BY Zenon DEF SegIn, e, a, d
<1>9. f \in Conn
  <2>1. d.rcv_nxt \in SeqNum
    BY <1>6, Fields, Zenon
  <2>2. 1 \in Int
    OBVIOUS
  <2>3. Add(d.rcv_nxt, 1, SEQ) \in SeqNum
    BY <2>1, <2>2, SeqRange, Integral, Zenon
  <2> QED BY <1>6, <2>3, Zenon DEF Conn
<1> HIDE DEF f
<1>10. Carries(c, c, q)
  BY CarriesSame DEF Quiet
<1>11. Carries(c, tcp_reset_listen(f), q) /\ ~Live(tcp_reset_listen(f))
  BY <1>9, ResetCarries
<1>12. Live(d) /\ Carries(c, d, q)
  BY <1>5, <1>6, <1>7 DEF Carries, Live
<1>13. Carries(c, SegIn(c, m), q)
  BY <1>8, <1>10, <1>11, <1>12, Zenon
<1>14. d.id = c.id
  BY <1>5, <1>6
<1>15. /\ "FIN" \notin m.flags /\ e.tstate = "ESTAB" => SegIn(c, m) = d /\ Live(SegIn(c, m))
       /\ "FIN" \in m.flags /\ e.tstate = "ESTAB" => ~Live(SegIn(c, m))
  BY <1>8, <1>11, <1>12
<1> QED BY <1>6, <1>13, <1>14, <1>15, Zenon DEF d, a, e

---------------------------------------------------------------------------
(* The segments a step sends: each speaks for a live slot as the step      *)
(* leaves it, or carries the id of a connection that is over.              *)
Speaks(s, c) == Live(c) /\ s.id = c.id /\ s.ack = c.rcv_nxt /\ s.wnd = RcvFree(c)
Stale(s, cs, n) == s.id <= n /\ \A i \in Slots : Live(cs[i]) => cs[i].id # s.id
Sendable(s, cs, n) == (\E i \in Slots : Speaks(s, cs[i])) \/ Stale(s, cs, n)

(* A live slot accounts for every key it acknowledges.                     *)
LEMMA AckedIs ==
  ASSUME NEW c \in Conn, NEW keys \in Seq(Keys), Received(c, keys)
  PROVE  /\ Acked(c) = Len(keys) + RcvUsed(c) /\ Acked(c) \in Keys
         /\ Len(keys) \in Nat /\ RcvUsed(c) \in Nat
<1> DEFINE w == Waiting(c)
<1>1. w \in Seq(Keys) /\ Len(w) = RcvUsed(c) /\ RcvUsed(c) \in Nat
  BY WaitingSeq, Derived, ModuliPositive DEF RcvIdx
<1>2. Acked(c) \in Keys /\ keys \o w = Typed(Acked(c))
  BY AckedNat, SizesAssumption DEF Received, Keys
<1>3. Len(Typed(Acked(c))) = Acked(c)
  BY <1>2, TypedSeq
<1> HIDE DEF w
<1>4. Len(keys \o w) = Len(keys) + Len(w) /\ Len(keys) \in Nat
  BY <1>1
<1> QED BY <1>1, <1>2, <1>3, <1>4

LEMMA SpeaksPromised ==
  ASSUME NEW c \in Conn, NEW s, NEW keys \in Seq(Keys), Received(c, keys), Speaks(s, c)
  PROVE  Promised(c, s, keys)
<1>1. Acked(c) = Len(keys) + RcvUsed(c) /\ Len(keys) \in Nat /\ RcvUsed(c) \in Nat
  BY AckedIs
<1>2. AckedBy(s) = Acked(c) /\ s.wnd = RCV_SZ - 1 - RcvUsed(c)
  BY DEF Speaks, AckedBy, Acked, RcvFree
<1> QED BY <1>1, <1>2, ModuliPositive DEF Promised

LEMMA RecvSent ==
  ASSUME NEW cs \in [Slots -> Conn], NEW sent, NEW more, NEW n \in Nat,
         NEW q \in [Ids -> Seq(Keys)], Recv(cs, sent, n, q),
         \A s \in more : Sendable(s, cs, n)
  PROVE  Recv(cs, sent \cup more, n, q)
<1>1. ASSUME NEW s \in more, NEW i \in Slots, Live(cs[i]), s.id = cs[i].id
      PROVE  Promised(cs[i], s, q[cs[i].id])
  <2>1. PICK j \in Slots : Speaks(s, cs[j])
    BY <1>1, Zenon DEF Sendable, Stale
  <2>2. j = i
    BY <1>1, <2>1, Zenon DEF Speaks, Recv
  <2>3. Received(cs[i], q[cs[i].id])
    BY <1>1, Zenon DEF Recv
  <2>4. cs[i] \in Conn
    OBVIOUS
  <2>5. cs[i].id \in Ids
    BY <2>4, Zenon DEF Conn
  <2>6. q[cs[i].id] \in Seq(Keys)
    BY <2>5
  <2> QED BY <2>1, <2>2, <2>3, <2>4, <2>6, SpeaksPromised
<1>2. ASSUME NEW s \in more PROVE s.id <= n
  <2>1. CASE \E i \in Slots : Speaks(s, cs[i])
    <3>1. PICK i \in Slots : Speaks(s, cs[i])
      BY <2>1
    <3>2. s.id \in 1..n
      BY <3>1, Zenon DEF Speaks, Recv
    <3> QED BY <3>2
  <2> QED BY <1>2, <2>1 DEF Sendable, Stale
<1> QED BY <1>1, <1>2, Zenon DEF Recv

(* One slot changes and carries its account on.                            *)
LEMMA CarriesOne ==
  ASSUME NEW cs \in [Slots -> Conn], NEW k \in Slots, NEW d \in Conn,
         NEW sent \in SUBSET SegOut, NEW n, NEW q,
         Recv(cs, sent, n, q), Carries(cs[k], d, q)
  PROVE  Recv([cs EXCEPT ![k] = d], sent, n, q)
<1> DEFINE ds == [cs EXCEPT ![k] = d]
<1>1. ds \in [Slots -> Conn] /\ \A i \in Slots : ds[i] = IF i = k THEN d ELSE cs[i]
  BY Zenon
<1> HIDE DEF ds
<1>2. ASSUME NEW i \in Slots PROVE Carries(cs[i], ds[i], q)
  <2>1. cs[i] \in Conn /\ Quiet(cs[i])
    BY Zenon DEF Recv
  <2>2. Carries(cs[i], cs[i], q)
    BY <2>1, CarriesSame
  <2> QED BY <1>1, <2>2, Zenon
<1>3. Recv(ds, sent, n, q)
  BY <1>1, <1>2, CarriesTable
<1> QED BY <1>3 DEF ds

(* A SYN opens connection n + 1 on a slot.                                 *)
LEMMA SynRecv ==
  ASSUME NEW cs \in [Slots -> Conn], NEW k \in Slots, NEW sent, NEW n \in Nat,
         NEW q, NEW m \in Frame, m.seq = CISS, n + 1 \in 1..Len(ISS),
         Recv(cs, sent, n, q), \A s \in sent : s.id \in Int
  PROVE  Recv([cs EXCEPT ![k] = SynIn(cs[k], m, n + 1)], sent, n + 1, q)
<1> DEFINE p == n + 1
           d == SynIn(cs[k], m, p)
           ds == [cs EXCEPT ![k] = d]
<1>1. cs[k] \in Conn /\ p \in Ids
  BY EndpointAssumption DEF Ids
<1>2. d \in Conn
  BY <1>1, SynType
<1> HIDE DEF p
<1>3. /\ d.tstate = "SYNRCVD" /\ d.id = p /\ d.rcv_nxt = Add(m.seq, 1, SEQ)
      /\ d.r_head = 0 /\ d.r_tail = 0
  BY <1>1, Zenon DEF SynIn, Conn
<1> HIDE DEF d
<1>4. \A i \in Slots : ds[i] = IF i = k THEN d ELSE cs[i]
  BY Zenon
<1> HIDE DEF ds
<1>5. Live(d) /\ Quiet(d)
  BY <1>3 DEF Live, Quiet
<1>6. q[p] = <<>> /\ p = n + 1
  <2>1. p > n /\ p = n + 1
    BY DEF p
  <2> QED BY <1>1, <2>1, Zenon DEF Recv
<1>7. Received(d, q[p])
  <2>1. 0 \in Keys
    BY SizesAssumption DEF Keys
  <2>2. Acked(d) = 0
    <3>1. d.rcv_nxt = KeySeq(0)
      BY <1>3 DEF KeySeq
    <3> QED BY <2>1, <3>1, KeyIndex DEF Acked
  <2>3. RcvUsed(d) = 0
    BY <1>3, Zeroes, RcvSub DEF RcvUsed
  <2>4. Waiting(d) = <<>> /\ Typed(0) = <<>>
    BY <2>3 DEF Waiting, Typed
  <2>5. q[p] \o Waiting(d) = Typed(Acked(d))
    BY <1>6, <2>2, <2>4
  <2> QED BY <2>2, <2>5, SizesAssumption DEF Received
<1>8. \A i \in Slots : Live(cs[i]) => cs[i].id \in 1..n /\ Received(cs[i], q[cs[i].id])
  BY Zenon DEF Recv
<1>9. \A i \in Slots : Live(cs[i]) => cs[i].id \in 1..p /\ cs[i].id # p
  BY <1>6, <1>8
<1>10. \A s \in sent : s.id <= n /\ s.id <= p /\ s.id # p
  BY <1>6 DEF Recv
<1>11. \A i \in Slots : Quiet(ds[i])
  BY <1>4, <1>5, Zenon DEF Recv
<1>12. \A i \in Slots : Live(ds[i]) => ds[i].id \in 1..p /\ Received(ds[i], q[ds[i].id])
  <2>1. p \in 1..p
    BY <1>6
  <2> QED BY <1>3, <1>4, <1>7, <1>8, <1>9, <2>1, Zenon
<1>13. \A i, j \in Slots : Live(ds[i]) /\ Live(ds[j]) /\ ds[i].id = ds[j].id => i = j
  BY <1>3, <1>4, <1>9, Zenon DEF Recv
<1>14. \A i \in Slots : \A s \in sent :
         Live(ds[i]) /\ s.id = ds[i].id => Promised(ds[i], s, q[ds[i].id])
  BY <1>3, <1>4, <1>10, Zenon DEF Recv
<1>15. \A j \in Ids : j > p => q[j] = <<>>
  <2>1. \A j \in Ids : j > p => j > n
    BY <1>6, EndpointAssumption DEF Ids
  <2> QED BY <2>1, Zenon DEF Recv
<1>16. Recv(ds, sent, p, q)
  BY <1>10, <1>11, <1>12, <1>13, <1>14, <1>15, Zenon DEF Recv
<1> QED BY <1>16 DEF ds, d, p

(* The segments of tcp_timer and tcp_output.                               *)
LEMMA TimerSpeaks ==
  ASSUME NEW c \in Conn, NEW e \in Nat, NEW s \in TimerSegs(Clock(c, e))
  PROVE  Speaks(s, tcp_timer(Clock(c, e)))
<1> DEFINE k == Clock(c, e)
           d == tcp_timer(k)
<1>1. k \in Conn
  BY ClockType
<1> HIDE DEF k
<1>2. /\ Expired(k) /\ k.rexmit_count < MAX_REXMIT /\ k.tstate = "SYNRCVD"
      /\ s = tcp_send_seg(k, {"SYN", "ACK"}, k.snd_una, 0, 0)
  BY DEF TimerSegs, k
<1>3. ~(k.rexmit_count + 1 > MAX_REXMIT)
  <2>1. k.rexmit_count \in 0..MAX_REXMIT
    BY <1>1, Fields
  <2> QED BY <1>2, <2>1, SizesAssumption
<1>4. /\ d.tstate = k.tstate /\ d.id = k.id /\ d.rcv_nxt = k.rcv_nxt
      /\ d.r_head = k.r_head /\ d.r_tail = k.r_tail
  BY <1>1, <1>2, <1>3, Zenon DEF tcp_timer, Conn
<1> HIDE DEF d
<1>5. RcvFree(d) = RcvFree(k) /\ Live(d)
  BY <1>2, <1>4 DEF RcvFree, RcvUsed, Live
<1>6. s.id = k.id /\ s.ack = k.rcv_nxt /\ s.wnd = RcvFree(k)
  BY <1>2, Zenon DEF tcp_send_seg
<1>7. Speaks(s, d)
  BY <1>4, <1>5, <1>6 DEF Speaks
<1> QED BY <1>7 DEF d, k

LEMMA OutputSpeaks ==
  ASSUME NEW c, NEW s \in OutputSegs(c)
  PROVE  Speaks(s, c)
<1>1. c.tstate = "ESTAB"
  BY DEF OutputSegs
<1>2. PICK seq, doff, dlen : s = tcp_send_seg(c, {"PSH", "ACK"}, seq, doff, dlen)
  BY Zenon DEF OutputSegs
<1>3. s.id = c.id /\ s.ack = c.rcv_nxt /\ s.wnd = RcvFree(c)
  BY <1>2, Zenon DEF tcp_send_seg
<1> QED BY <1>1, <1>3 DEF Speaks, Live

LEMMA AckSegSpeaks ==
  ASSUME NEW c
  PROVE  /\ AckSeg(c).id = c.id
         /\ Live(c) => Speaks(AckSeg(c), c)
<1> DEFINE s == AckSeg(c)
<1>1. s.id = c.id /\ s.ack = c.rcv_nxt /\ s.wnd = RcvFree(c)
  BY Zenon DEF AckSeg, tcp_send_seg
<1> HIDE DEF s
<1> QED BY <1>1 DEF Speaks, s

(* What the client of the model sends.                                     *)
LEMMA SegmentsKind ==
  ASSUME TypeOK, NEW x \in Clients, NEW m \in Segments(x)
  PROVE  /\ "SYN" \in m.flags => m.seq = CISS
         /\ "SYN" \notin m.flags /\ "RST" \notin m.flags => KeyFrame(m)
<1> DEFINE n == clients[x].typed
           acks == clients[x].acks
<1>1. n \in Keys
  BY Zenon DEF TypeOK, Client
<1>2. 0..n \subseteq Keys /\ n \in 0..n
  BY <1>1, SizesAssumption DEF Keys
<1>3. \/ m = Seg(x, {"SYN"}, CISS, 0, <<>>)
      \/ \E a, b \in 0..n, k \in acks : m = Seg(x, {"ACK"}, KeySeq(a), k, KeysFrom(a, b))
      \/ \E a \in 0..n, k \in acks : m = Seg(x, {"ACK", "FIN"}, KeySeq(a), k, KeysFrom(a, n))
      \/ m = Seg(x, {"RST"}, 0, 0, <<>>)
  BY DEF Segments
<1> HIDE DEF n, acks
<1>4. CASE m = Seg(x, {"SYN"}, CISS, 0, <<>>) \/ m = Seg(x, {"RST"}, 0, 0, <<>>)
  BY <1>4 DEF Seg
<1>5. CASE \E a, b \in 0..n, k \in acks : m = Seg(x, {"ACK"}, KeySeq(a), k, KeysFrom(a, b))
  <2>1. PICK a \in 0..n, b \in 0..n, k \in acks :
          m = Seg(x, {"ACK"}, KeySeq(a), k, KeysFrom(a, b))
    BY <1>5, Zenon
  <2>2. m.flags = {"ACK"} /\ m.seq = KeySeq(a) /\ m.data = KeysFrom(a, b)
    BY <2>1 DEF Seg
  <2>3. a \in Keys /\ b \in Keys
    BY <1>2
  <2> QED BY <2>2, <2>3 DEF KeyFrame
<1>6. CASE \E a \in 0..n, k \in acks : m = Seg(x, {"ACK", "FIN"}, KeySeq(a), k, KeysFrom(a, n))
  <2>1. PICK a \in 0..n, k \in acks :
          m = Seg(x, {"ACK", "FIN"}, KeySeq(a), k, KeysFrom(a, n))
    BY <1>6, Zenon
  <2>2. m.flags = {"ACK", "FIN"} /\ m.seq = KeySeq(a) /\ m.data = KeysFrom(a, n)
    BY <2>1 DEF Seg
  <2>3. a \in Keys /\ n \in Keys
    BY <1>1, <1>2
  <2> QED BY <2>2, <2>3 DEF KeyFrame
<1> QED BY <1>3, <1>4, <1>5, <1>6

(* A frame: tcp_in keeps the invariant, and what it answers may be sent.   *)
LEMMA FrameRecv ==
  ASSUME NEW cs, Table(cs), NEW m \in Frame, NEW sent \in SUBSET SegOut,
         NEW n \in Nat, NEW q \in [Ids -> Seq(Keys)], Recv(cs, sent, n, q),
         "SYN" \in m.flags => m.seq = CISS,
         "SYN" \notin m.flags /\ "RST" \notin m.flags => KeyFrame(m),
         Opens(cs, m) => n + 1 \in 1..Len(ISS)
  PROVE  LET r == tcp_in(cs, m, n + 1)
             p == IF Opens(cs, m) THEN n + 1 ELSE n
         IN  Recv(r, sent, p, q) /\ \A s \in InSegs(cs, m, n + 1) : Sendable(s, r, p)
<1> DEFINE r == tcp_in(cs, m, n + 1)
           p == IF Opens(cs, m) THEN n + 1 ELSE n
           owner == find_conn(cs, m.src)
           k == First(owner)
           a == First(alloc_conn(cs, m.src))
<1>1. cs \in [Slots -> Conn]
  BY DEF Table
<1>2. CASE "RST" \in m.flags /\ owner # {}
  <2>1. k \in Slots /\ cs[k] \in Conn
    BY <1>1, <1>2, OwnerIn
  <2>2. r = [cs EXCEPT ![k] = tcp_reset_listen(cs[k])] /\ p = n /\ InSegs(cs, m, n + 1) = {}
    BY <1>2 DEF tcp_in, Opens, InSegs
  <2>3. tcp_reset_listen(cs[k]) \in Conn /\ Carries(cs[k], tcp_reset_listen(cs[k]), q)
    BY <2>1, ResetType, ResetCarries
  <2> HIDE DEF k, r, p
  <2>4. Recv([cs EXCEPT ![k] = tcp_reset_listen(cs[k])], sent, n, q)
    BY <1>1, <2>1, <2>3, CarriesOne
  <2> QED BY <2>2, <2>4 DEF r, p
<1>3. CASE Opens(cs, m)
  <2> DEFINE d == SynIn(cs[a], m, n + 1)
             s == tcp_send_seg(d, {"SYN", "ACK"}, ISS[n + 1], 0, 0)
  <2>1. a \in Slots /\ cs[a] \in Conn
    BY <1>1, <1>3, AllocIn DEF Opens
  <2>2. "SYN" \in m.flags /\ "RST" \notin m.flags
    BY <1>3 DEF Opens
  <2>3. r = [cs EXCEPT ![a] = d]
    BY <1>3, <2>2, Zenon DEF tcp_in
  <2>4. InSegs(cs, m, n + 1) = {s} /\ p = n + 1
    BY <1>3, <2>2, Zenon DEF InSegs
  <2>5. d.tstate = "SYNRCVD"
    BY <2>1, Zenon DEF SynIn, Conn
  <2> HIDE DEF a, r, p
  <2>6. \A t \in sent : t.id \in Int
    <3>1. \A t \in sent : t.id \in Ids
      BY Zenon DEF SegOut
    <3> QED BY <3>1, EndpointAssumption DEF Ids
  <2>7. Recv([cs EXCEPT ![a] = d], sent, n + 1, q)
    BY <1>1, <1>3, <2>1, <2>2, <2>6, SynRecv
  <2>8. r[a] = d
    BY <1>1, <2>1, <2>3, Zenon
  <2> HIDE DEF d
  <2>9. Speaks(s, d)
    <3>1. s.id = d.id /\ s.ack = d.rcv_nxt /\ s.wnd = RcvFree(d)
      BY Zenon DEF tcp_send_seg
    <3> QED BY <2>5, <3>1 DEF Speaks, Live
  <2> HIDE DEF s
  <2>10. \A u \in InSegs(cs, m, n + 1) : Sendable(u, r, p)
    BY <2>1, <2>4, <2>8, <2>9, Zenon DEF Sendable
  <2> QED BY <2>3, <2>4, <2>7, <2>10 DEF r, p
<1>4. CASE "RST" \notin m.flags /\ "SYN" \in m.flags /\ ~Opens(cs, m)
  <2>1. r = cs /\ p = n
    BY <1>4 DEF tcp_in
  <2>2. \A s \in InSegs(cs, m, n + 1) : s = send_rst(m)
    BY <1>4, Zenon DEF InSegs
  <2>3. send_rst(m).id = 0
    BY Zenon DEF send_rst
  <2>4. \A i \in Slots : Live(cs[i]) => cs[i].id \in 1..n
    BY Zenon DEF Recv
  <2>5. \A i \in Slots : Live(cs[i]) => cs[i].id # 0
    BY <2>4
  <2>6. 0 <= n
    OBVIOUS
  <2>7. Stale(send_rst(m), cs, n)
    BY <2>3, <2>5, <2>6, Zenon DEF Stale
  <2> HIDE DEF r, p
  <2> QED BY <2>1, <2>2, <2>7 DEF Sendable, r, p
<1>5. CASE "RST" \notin m.flags /\ "SYN" \notin m.flags /\ owner # {}
  <2> DEFINE c == cs[k]
             e == EstabIn(c, m)
             d == DataIn(AckIn(e, m), m)
             f == [d EXCEPT !.rcv_nxt = Add(d.rcv_nxt, 1, SEQ)]
             v == SegIn(c, m)
  <2>1. k \in Slots /\ c \in Conn /\ Live(c)
    BY <1>1, <1>5, OwnerIn
  <2>2. r = [cs EXCEPT ![k] = v] /\ p = n /\ InSegs(cs, m, n + 1) = SegInSegs(c, m)
    BY <1>5, Zenon DEF tcp_in, Opens, InSegs
  <2> HIDE DEF k, p, r
  <2>3. /\ Carries(c, v, q)
        /\ "FIN" \notin m.flags /\ e.tstate = "ESTAB" => v = d /\ Live(v)
        /\ "FIN" \in m.flags /\ e.tstate = "ESTAB" => ~Live(v)
        /\ d.id = c.id /\ d \in Conn
    BY <1>5, <2>1, SegCarries, Zenon
  <2>4. v \in Conn
    BY <1>5, <2>1, TableGood, KeepsSeg DEF Keeps, Good
  <2>5. Recv([cs EXCEPT ![k] = v], sent, n, q)
    <3> HIDE DEF v, c
    <3>1. Carries(cs[k], v, q)
      BY <2>3 DEF c
    <3> QED BY <1>1, <2>1, <2>4, <3>1, CarriesOne
  <2>6. \A s \in SegInSegs(c, m) :
          /\ e.tstate = "ESTAB"
          /\ s = AckSeg(d) \/ ("FIN" \in m.flags /\ s = AckSeg(f))
    BY Zenon DEF SegInSegs
  <2>7. f.id = d.id
    <3> HIDE DEF d
    <3> QED BY <2>3, Zenon DEF Conn
  <2>8. \A i \in Slots : r[i] = IF i = k THEN v ELSE cs[i]
    BY <1>1, <2>2, Zenon
  <2>9. c.id <= n /\ \A i \in Slots \ {k} : Live(cs[i]) => cs[i].id # c.id
    <3>1. c.id \in 1..n /\ \A i \in Slots \ {k} : Live(cs[i]) => cs[i].id # c.id
      BY <2>1, Zenon DEF Recv
    <3> QED BY <3>1
  <2> HIDE DEF c, d, e, f, v
  <2>10. ASSUME NEW s \in SegInSegs(c, m) PROVE Sendable(s, r, n)
    <3>1. s.id = c.id /\ e.tstate = "ESTAB"
      BY <2>3, <2>6, <2>7, AckSegSpeaks, Zenon
    <3>2. CASE "FIN" \in m.flags
      <4>1. ~Live(v)
        BY <2>3, <3>1, <3>2
      <4>2. Stale(s, r, n)
        BY <2>8, <2>9, <3>1, <4>1, Zenon DEF Stale
      <4> QED BY <4>2 DEF Sendable
    <3>3. CASE "FIN" \notin m.flags
      <4>1. Speaks(s, v)
        BY <2>3, <2>6, <3>1, <3>3, AckSegSpeaks, Zenon
      <4>2. r[k] = v
        BY <2>1, <2>8
      <4> QED BY <2>1, <4>1, <4>2 DEF Sendable
    <3> QED BY <3>2, <3>3
  <2> QED BY <2>2, <2>5, <2>10 DEF r, p
<1>6. CASE r = cs /\ ~Opens(cs, m) /\ InSegs(cs, m, n + 1) = {}
  <2>1. p = n
    BY <1>6
  <2> HIDE DEF r, p
  <2> QED BY <1>6, <2>1 DEF r, p
<1>7. \/ Opens(cs, m)
      \/ "RST" \in m.flags /\ owner # {}
      \/ "RST" \notin m.flags /\ "SYN" \in m.flags /\ ~Opens(cs, m)
      \/ "RST" \notin m.flags /\ "SYN" \notin m.flags /\ owner # {}
      \/ r = cs /\ ~Opens(cs, m) /\ InSegs(cs, m, n + 1) = {}
  <2>1. CASE "RST" \in m.flags /\ owner = {}
    BY <2>1 DEF tcp_in, InSegs, Opens
  <2>2. CASE "RST" \notin m.flags /\ "SYN" \notin m.flags /\ owner = {}
    BY <2>2 DEF tcp_in, InSegs, Opens
  <2> HIDE DEF owner, r
  <2> QED BY <2>1, <2>2
<1> HIDE DEF r, p, owner
<1> QED BY <1>2, <1>3, <1>4, <1>5, <1>6, <1>7

---------------------------------------------------------------------------
(* The steps.                                                              *)

LEMMA RecvPrime ==
  ASSUME SlotInv', Recv(conns', toClient', nsyn', rx')
  PROVE  RecvInv'
BY DEF RecvInv, Recv, Quiet, Live, Received, Promised, Acked, AckedBy, Typed,
       Waiting, RcvUsed

LEMMA RecvTypes ==
  ASSUME SlotInv
  PROVE  /\ conns \in [Slots -> Conn] /\ toClient \in SUBSET SegOut
         /\ nsyn \in Nat /\ nsyn \in Ids /\ rx \in [Ids -> Seq(Keys)]
BY EndpointAssumption DEF SlotInv, TypeOK, Ids

LEMMA OutputRecv ==
  ASSUME NEW cs \in [Slots -> Conn], NEW sent \in SUBSET SegOut, NEW n \in Nat,
         NEW q \in [Ids -> Seq(Keys)], Recv(cs, sent, n, q), Table(cs)
  PROVE  Recv(Output(cs), sent \cup AllOutputSegs(cs), n, q)
<1>1. \A s \in AllOutputSegs(cs) : Sendable(s, cs, n)
  BY OutputSpeaks, Zenon DEF AllOutputSegs, Sendable
<1>2. Recv(cs, sent \cup AllOutputSegs(cs), n, q)
  BY <1>1, RecvSent
<1>3. AllOutputSegs(cs) \subseteq SegOut
  BY AllOutputType
<1>4. Output(cs) \in [Slots -> Conn] /\ \A i \in Slots : Output(cs)[i] = tcp_output(cs[i])
  BY OutputTable, Zenon DEF Table, Output
<1>5. \A i \in Slots : Carries(cs[i], Output(cs)[i], q)
  <2> TAKE i \in Slots
  <2>1. cs[i] \in Conn /\ Quiet(cs[i])
    BY Zenon DEF Recv
  <2> QED BY <1>4, <2>1, OutputCarries
<1> DEFINE more == sent \cup AllOutputSegs(cs)
<1>6. more \in SUBSET SegOut /\ Recv(cs, more, n, q)
  BY <1>2, <1>3
<1> HIDE DEF more
<1>7. Recv(Output(cs), more, n, q)
  BY <1>4, <1>5, <1>6, CarriesTable
<1> QED BY <1>7 DEF more

LEMMA TimersRecv ==
  ASSUME SlotInv, NEW e \in Nat, Recv(conns, toClient, nsyn, rx)
  PROVE  Recv(AfterTimers(e),
              toClient \cup UNION {TimerSegs(Clock(conns[i], e)) : i \in Slots}, nsyn, rx)
<1> DEFINE t == AfterTimers(e)
           tm == UNION {TimerSegs(Clock(conns[i], e)) : i \in Slots}
<1>1. /\ conns \in [Slots -> Conn] /\ toClient \in SUBSET SegOut
      /\ nsyn \in Nat /\ rx \in [Ids -> Seq(Keys)]
  BY RecvTypes
<1>2. t \in [Slots -> Conn] /\ \A i \in Slots : t[i] = tcp_timer(Clock(conns[i], e))
  BY InvTable, TimersTable, Zenon DEF Table, AfterTimers
<1> HIDE DEF t
<1>3. \A i \in Slots : Carries(conns[i], t[i], rx)
  <2> TAKE i \in Slots
  <2>1. conns[i] \in Conn /\ Quiet(conns[i])
    BY <1>1, Zenon DEF Recv
  <2> QED BY <1>2, <2>1, TimerCarries
<1>4. Recv(t, toClient, nsyn, rx)
  BY <1>1, <1>2, <1>3, CarriesTable
<1>5. \A s \in tm : Sendable(s, t, nsyn)
  <2>1. ASSUME NEW i \in Slots, NEW s \in TimerSegs(Clock(conns[i], e))
        PROVE  Speaks(s, t[i])
    <3>1. conns[i] \in Conn
      BY <1>1
    <3> QED BY <1>2, <3>1, TimerSpeaks
  <2> QED BY <2>1, Zenon DEF Sendable
<1> HIDE DEF tm
<1>6. Recv(t, toClient \cup tm, nsyn, rx)
  BY <1>1, <1>2, <1>4, <1>5, RecvSent
<1> QED BY <1>6 DEF t, tm

LEMMA PollRecv == ASSUME RecvInv, Poll PROVE Recv(conns', toClient', nsyn', rx')
<1>1. PICK e \in 1..REXMIT_TICKS :
        \/ PollIdle(e)
        \/ \E x \in Clients : \E m \in Segments(x) : PollFrame(e, m)
  BY Zenon DEF Poll
<1>2. e \in Nat /\ SlotInv /\ TypeOK
  BY <1>1, SizesAssumption DEF RecvInv, SlotInv
<1> DEFINE t == AfterTimers(e)
           tm == UNION {TimerSegs(Clock(conns[i], e)) : i \in Slots}
           sent == toClient \cup tm
<1>3. Table(conns) /\ Table(t)
  BY <1>2, InvTable, TimersTable
<1>4. /\ t \in [Slots -> Conn] /\ toClient \in SUBSET SegOut
      /\ nsyn \in Nat /\ rx \in [Ids -> Seq(Keys)]
  BY <1>2, <1>3, RecvTypes DEF Table
<1>5. tm \subseteq SegOut
  BY <1>2, <1>3, TimerSegsOut
<1>6. Recv(t, sent, nsyn, rx)
  BY <1>2, TimersRecv DEF RecvInv
<1>7. sent \in SUBSET SegOut
  BY <1>4, <1>5
<1>8. CASE PollIdle(e)
  <2>1. /\ conns' = Output(t) /\ nsyn' = nsyn /\ rx' = rx
        /\ toClient' = toClient \cup AllOutputSegs(t) \cup tm
    BY <1>8 DEF PollIdle
  <2> HIDE DEF t, tm
  <2>2. toClient' = sent \cup AllOutputSegs(t)
    BY <2>1
  <2> HIDE DEF sent
  <2>3. Recv(Output(t), sent \cup AllOutputSegs(t), nsyn, rx)
    BY <1>3, <1>4, <1>6, <1>7, OutputRecv
  <2> QED BY <2>1, <2>2, <2>3
<1>9. CASE \E x \in Clients : \E m \in Segments(x) : PollFrame(e, m)
  <2>1. PICK x \in Clients : \E m \in Segments(x) : PollFrame(e, m)
    BY <1>9
  <2>2. PICK m \in Segments(x) : PollFrame(e, m)
    BY <2>1
  <2>3. /\ m \in Frame
        /\ "SYN" \in m.flags => m.seq = CISS
        /\ "SYN" \notin m.flags /\ "RST" \notin m.flags => KeyFrame(m)
    BY <1>2, SegmentsType, SegmentsKind
  <2> DEFINE n == nsyn + 1
             r == tcp_in(t, m, n)
             p == IF Opens(t, m) THEN n ELSE nsyn
             ans == InSegs(t, m, n)
  <2>4. /\ Opens(t, m) => n <= Len(ISS)
        /\ nsyn' = p /\ conns' = Output(r) /\ rx' = rx
        /\ toClient' = toClient \cup ans \cup AllOutputSegs(r) \cup tm
    BY <2>2 DEF PollFrame
  <2>5. (Opens(t, m) => n \in 1..Len(ISS)) /\ p \in Nat
    BY <1>4, <2>4, EndpointAssumption
  <2> HIDE DEF t, tm, sent
  <2>6. Recv(r, sent, p, rx) /\ \A s \in ans : Sendable(s, r, p)
    BY <1>3, <1>4, <1>6, <1>7, <2>3, <2>5, FrameRecv
  <2> HIDE DEF n
  <2>7. Table(r) /\ ans \subseteq SegOut
    BY <1>3, <2>3, <2>5, InTable, InSegsType
  <2> HIDE DEF r, p, ans
  <2>8. r \in [Slots -> Conn]
    BY <2>7 DEF Table
  <2>9. Recv(r, sent \cup ans, p, rx)
    BY <1>4, <2>5, <2>6, <2>8, RecvSent
  <2> DEFINE all == sent \cup ans
  <2>10. all \in SUBSET SegOut
    BY <1>7, <2>7
  <2>11. toClient' = all \cup AllOutputSegs(r)
    BY <2>4 DEF sent
  <2>12. Recv(r, all, p, rx)
    BY <2>9
  <2> HIDE DEF all
  <2>13. Recv(Output(r), all \cup AllOutputSegs(r), p, rx)
    BY <1>4, <2>5, <2>7, <2>8, <2>10, <2>12, OutputRecv
  <2> QED BY <2>4, <2>11, <2>13
<1> QED BY <1>1, <1>8, <1>9

Kept == toClient' = toClient /\ nsyn' = nsyn /\ rx' = rx

LEMMA OneRecv ==
  ASSUME RecvInv, NEW k \in Slots, NEW d \in Conn, Kept,
         conns' = [conns EXCEPT ![k] = d], Carries(conns[k], d, rx)
  PROVE  Recv(conns', toClient', nsyn', rx')
<1>1. conns \in [Slots -> Conn] /\ toClient \in SUBSET SegOut
  BY RecvTypes DEF RecvInv
<1>2. Recv([conns EXCEPT ![k] = d], toClient, nsyn, rx)
  BY <1>1, CarriesOne DEF RecvInv
<1> QED BY <1>2 DEF Kept

LEMMA SlotQuiet ==
  ASSUME RecvInv, NEW k \in Slots
  PROVE  conns[k] \in Conn /\ Quiet(conns[k]) /\ SlotRing(conns[k])
<1>1. conns \in [Slots -> Conn]
  BY RecvTypes DEF RecvInv
<1>2. \A i \in Slots : Quiet(conns[i])
  BY Zenon DEF RecvInv, Recv
<1> QED BY <1>1, <1>2 DEF RecvInv, SlotInv, RingAgrees

LEMMA TakeNewRecv ==
  ASSUME RecvInv, net_take_new_slot PROVE Recv(conns', toClient', nsyn', rx')
<1> DEFINE k == First({i \in Slots : conns[i].just_estab})
           c == conns[k]
           d == [c EXCEPT !.just_estab = FALSE]
<1>1. k \in Slots
  <2>1. k \in {i \in Slots : conns[i].just_estab}
    BY FirstIn DEF net_take_new_slot
  <2> QED BY <2>1
<1>2. conns' = [conns EXCEPT ![k] = d] /\ Kept
  BY Zenon DEF net_take_new_slot, Kept
<1> HIDE DEF k
<1>3. c \in Conn /\ Quiet(c)
  BY <1>1, SlotQuiet
<1>4. /\ d \in Conn /\ d.tstate = c.tstate /\ d.id = c.id /\ d.rcv_nxt = c.rcv_nxt
      /\ d.r_head = c.r_head /\ d.r_tail = c.r_tail /\ d.rbuf = c.rbuf
  BY <1>3, Zenon DEF Conn
<1> HIDE DEF c, d
<1>5. Carries(c, d, rx)
  BY <1>3, <1>4, CarriesSame
<1> QED BY <1>1, <1>2, <1>4, <1>5, OneRecv DEF c

LEMMA ReadyRecv ==
  ASSUME RecvInv, NEW k \in Slots, net_slot_ready(k)
  PROVE  Recv(conns', toClient', nsyn', rx')
<1> DEFINE c == conns[k]
           d == [c EXCEPT !.ready = TRUE]
<1>1. conns' = [conns EXCEPT ![k] = d] /\ Kept
  BY Zenon DEF net_slot_ready, Kept
<1>2. c \in Conn /\ Quiet(c)
  BY SlotQuiet
<1>3. /\ d \in Conn /\ d.tstate = c.tstate /\ d.id = c.id /\ d.rcv_nxt = c.rcv_nxt
      /\ d.r_head = c.r_head /\ d.r_tail = c.r_tail /\ d.rbuf = c.rbuf
  BY <1>2, Zenon DEF Conn
<1> HIDE DEF c, d
<1>4. Carries(c, d, rx)
  BY <1>2, <1>3, CarriesSame
<1> QED BY <1>1, <1>3, <1>4, OneRecv DEF c

(* A dropped slot says RST for a connection that is over.                  *)
LEMMA DropRecv ==
  ASSUME RecvInv, NEW k \in Slots, net_slot_drop(k)
  PROVE  Recv(conns', toClient', nsyn', rx')
<1> DEFINE c == conns[k]
           d == tcp_reset_listen(c)
           s == tcp_send_seg(c, {"RST", "ACK"}, c.snd_nxt, 0, 0)
           more == IF c.tstate = "ESTAB" THEN {s} ELSE {}
           ds == [conns EXCEPT ![k] = d]
<1>1. /\ conns' = ds /\ toClient' = toClient \cup more /\ nsyn' = nsyn /\ rx' = rx
  BY Zenon DEF net_slot_drop
<1>2. /\ conns \in [Slots -> Conn] /\ toClient \in SUBSET SegOut
      /\ nsyn \in Nat /\ rx \in [Ids -> Seq(Keys)]
  BY RecvTypes DEF RecvInv
<1>3. c \in Conn /\ d \in Conn /\ Carries(c, d, rx) /\ ~Live(d)
  BY <1>2, ResetType, ResetCarries
<1>4. s.id = c.id
  BY Zenon DEF tcp_send_seg
<1> HIDE DEF d, s
<1>5. Recv(ds, toClient, nsyn, rx)
  BY <1>2, <1>3, CarriesOne DEF RecvInv
<1>6. ds \in [Slots -> Conn] /\ \A i \in Slots : ds[i] = IF i = k THEN d ELSE conns[i]
  BY <1>2, <1>3, Zenon
<1> HIDE DEF ds
<1>7. ASSUME NEW u \in more PROVE Sendable(u, ds, nsyn)
  <2>1. u = s /\ Live(c)
    BY DEF Live
  <2>2. c.id \in 1..nsyn /\ \A i \in Slots \ {k} : Live(conns[i]) => conns[i].id # c.id
    BY <2>1, Zenon DEF RecvInv, Recv
  <2>3. c.id <= nsyn
    BY <1>2, <2>2
  <2>4. Stale(u, ds, nsyn)
    BY <1>3, <1>4, <1>6, <2>1, <2>2, <2>3, Zenon DEF Stale
  <2> QED BY <2>4 DEF Sendable
<1> HIDE DEF more
<1>8. Recv(ds, toClient \cup more, nsyn, rx)
  BY <1>2, <1>5, <1>6, <1>7, RecvSent
<1> QED BY <1>1, <1>8

LEMMA PutcRecv ==
  ASSUME RecvInv, net_tx_putc, SlotInv' PROVE Recv(conns', toClient', nsyn', rx')
<1>1. conns \in [Slots -> Conn] /\ toClient \in SUBSET SegOut /\ nput \in Byte
  BY RecvTypes DEF RecvInv, SlotInv, TypeOK
<1>2. conns' \in [Slots -> Conn] /\ nput + 1 \in Byte
  BY LoggedType DEF SlotInv, TypeOK, RecvInv, net_tx_putc, MorePut
<1>3. \A i \in Slots : Culled[i] = IF i \in Dead THEN tcp_reset_listen(conns[i]) ELSE conns[i]
  BY Zenon DEF Culled
<1>4. \A i \in Slots : conns'[i] = Culled[i] \/ conns'[i] = Append1(Culled[i], nput + 1)
  BY Zenon DEF net_tx_putc, Culled
<1>5. Culled = [i \in Slots |-> Culled[i]]
  BY <1>3, Zenon DEF Culled
<1>6. \A i \in Slots : Culled[i] \in Conn /\ Carries(conns[i], Culled[i], rx)
  <2> TAKE i \in Slots
  <2>1. conns[i] \in Conn /\ Quiet(conns[i])
    BY SlotQuiet
  <2>2. /\ tcp_reset_listen(conns[i]) \in Conn
        /\ Carries(conns[i], tcp_reset_listen(conns[i]), rx)
    BY <2>1, ResetType, ResetCarries
  <2>3. Carries(conns[i], conns[i], rx)
    BY <2>1, CarriesSame
  <2> QED BY <1>3, <2>1, <2>2, <2>3, Zenon
<1>7. Culled \in [Slots -> Conn]
  BY <1>5, <1>6, Zenon
<1>8. Recv(Culled, toClient, nsyn, rx)
  BY <1>1, <1>6, <1>7, CarriesTable DEF RecvInv
<1>9. \A i \in Slots : Carries(Culled[i], conns'[i], rx)
  <2> TAKE i \in Slots
  <2>1. Culled[i] \in Conn /\ conns'[i] \in Conn /\ Quiet(Culled[i])
    BY <1>2, <1>6, <1>8, Zenon DEF Recv
  <2>2. Carries(Culled[i], Culled[i], rx)
    BY <2>1, CarriesSame
  <2>3. Append1(Culled[i], nput + 1) \in Conn
          => Carries(Culled[i], Append1(Culled[i], nput + 1), rx)
    BY <1>2, <2>1, AppendCarries
  <2> QED BY <1>4, <2>1, <2>2, <2>3, Zenon
<1>10. Recv(conns', toClient, nsyn, rx)
  BY <1>1, <1>2, <1>7, <1>8, <1>9, CarriesTable
<1> QED BY <1>10 DEF net_tx_putc

LEMMA PutcSlotRecv ==
  ASSUME RecvInv, NEW k \in Slots, net_tx_putc_slot(k)
  PROVE  Recv(conns', toClient', nsyn', rx')
<1>1. conns' = [conns EXCEPT ![k] = Append1(conns[k], nput + 1)] /\ ~SndFull(conns[k]) /\ Kept
  BY DEF net_tx_putc_slot, Kept
<1>2. conns[k] \in Conn /\ Quiet(conns[k]) /\ SlotRing(conns[k])
  BY SlotQuiet
<1>3. nput + 1 \in Byte
  BY LoggedType DEF RecvInv, SlotInv, net_tx_putc_slot, MorePut
<1>4. Append1(conns[k], nput + 1) \in Conn
  BY <1>1, <1>2, <1>3, KeepsAppend DEF Good, Keeps
<1>5. Carries(conns[k], Append1(conns[k], nput + 1), rx)
  BY <1>2, <1>3, <1>4, AppendCarries
<1> QED BY <1>1, <1>4, <1>5, OneRecv

LEMMA FlushRecv ==
  ASSUME RecvInv, net_tx_flush PROVE Recv(conns', toClient', nsyn', rx')
<1>1. /\ conns \in [Slots -> Conn] /\ toClient \in SUBSET SegOut
      /\ nsyn \in Nat /\ rx \in [Ids -> Seq(Keys)] /\ Table(conns)
  BY RecvTypes, InvTable DEF RecvInv
<1>2. Recv(Output(conns), toClient \cup AllOutputSegs(conns), nsyn, rx)
  BY <1>1, OutputRecv DEF RecvInv
<1> QED BY <1>2 DEF net_tx_flush

(* A key moves from the ring to the keys taken; the window it frees is     *)
(* room for one more.                                                      *)
LEMMA MoveHead ==
  ASSUME NEW q \in Seq(Keys), NEW w \in Seq(Keys), Len(w) > 0
  PROVE  /\ Append(q, w[1]) \o Tail(w) = q \o w /\ Append(q, w[1]) \in Seq(Keys)
         /\ Len(Append(q, w[1])) = Len(q) + 1
<1> DEFINE e == w[1]
           t == Tail(w)
<1>1. e \in Keys 
  OBVIOUS
<1>2. t \in Seq(Keys) 
  OBVIOUS
<1>3. <<e>> \o t = w
  OBVIOUS
<1> HIDE DEF t, e
<1>4. <<e>> \in Seq(Keys)
  BY <1>1
<1>5. Append(q, e) = q \o <<e>>
  BY <1>1
<1>6. Append(q, e) \in Seq(Keys)
  BY <1>1
<1>7. Len(Append(q, e)) = Len(q) + 1
  BY <1>1
<1>8. q \o (<<e>> \o t) = (q \o <<e>>) \o t
  <2> DEFINE f == <<e>>
  <2>1. f \in Seq(Keys)
    BY <1>4
  <2> HIDE DEF f
  <2>2. q \o (f \o t) = (q \o f) \o t
    BY <1>2, <2>1
  <2> QED BY <2>2 DEF f
<1>9. Append(q, e) \o t = q \o w
  BY <1>3, <1>5, <1>8, Zenon
<1> QED BY <1>6, <1>7, <1>9 DEF t, e

LEMMA GetcRecv ==
  ASSUME RecvInv, NEW k \in Slots, net_rx_getc(k)
  PROVE  Recv(conns', toClient', nsyn', rx')
<1> DEFINE c == conns[k]
           d == [c EXCEPT !.r_tail = Add(@, 1, RCV_SZ)]
           w == Waiting(c)
           keys == rx[c.id]
           more == Append(keys, c.rbuf[c.r_tail])
           ds == [conns EXCEPT ![k] = d]
           q == [rx EXCEPT ![c.id] = more]
<1>1. /\ conns \in [Slots -> Conn] /\ toClient \in SUBSET SegOut
      /\ nsyn \in Nat /\ rx \in [Ids -> Seq(Keys)]
  BY RecvTypes DEF RecvInv
<1>2. c \in Conn /\ Quiet(c)
  BY SlotQuiet
<1>3. c.r_tail # c.r_head /\ conns' = ds /\ rx' = q /\ toClient' = toClient /\ nsyn' = nsyn
  BY Zenon DEF net_rx_getc
<1>4. Live(c) /\ c.id \in Ids
  BY <1>2, <1>3, Zenon DEF Quiet, Conn
<1>5. /\ c.id \in 1..nsyn /\ Received(c, keys)
      /\ \A i \in Slots \ {k} : Live(conns[i]) => conns[i].id # c.id
  BY <1>4, Zenon DEF RecvInv, Recv
<1>6. keys \in Seq(Keys)
  BY <1>1, <1>4
<1> HIDE DEF c, keys
<1>7. /\ d \in Conn /\ d.tstate = c.tstate /\ d.id = c.id /\ d.rcv_nxt = c.rcv_nxt
      /\ RcvUsed(c) > 0 /\ w[1] = c.rbuf[c.r_tail] /\ Waiting(d) = Tail(w)
  BY <1>2, <1>3, TakeEffect
<1>8. w \in Seq(Keys) /\ Len(w) > 0
  BY <1>2, <1>7, WaitingSeq
<1> HIDE DEF w
<1>9. more \o Tail(w) = keys \o w /\ Len(more) = Len(keys) + 1 /\ more \in Seq(Keys)
  <2>1. /\ Append(keys, w[1]) \o Tail(w) = keys \o w
        /\ Append(keys, w[1]) \in Seq(Keys) /\ Len(Append(keys, w[1])) = Len(keys) + 1
    BY <1>6, <1>8, MoveHead
  <2>2. Append(keys, w[1]) = more
    BY <1>7
  <2> QED BY <2>1, <2>2, Zenon
<1> HIDE DEF d, more
<1>10. Live(d) /\ Acked(d) = Acked(c)
  BY <1>4, <1>7 DEF Live, Acked
<1>11. Received(d, more)
  BY <1>5, <1>7, <1>9, <1>10 DEF Received, w
<1>12. \A i \in Slots : ds[i] = IF i = k THEN d ELSE conns[i]
  BY <1>1, Zenon
<1>13. \A j \in Ids : q[j] = IF j = c.id THEN more ELSE rx[j]
  BY <1>1, Zenon
<1> HIDE DEF ds, q
<1>14. \A i \in Slots \ {k} : Live(conns[i]) => q[conns[i].id] = rx[conns[i].id]
  <2>1. \A i \in Slots : conns[i].id \in Ids
    BY <1>1, Zenon DEF Conn
  <2> QED BY <1>5, <1>13, <2>1, Zenon
<1>15. q[c.id] = more
  BY <1>4, <1>13
<1>16. \A i \in Slots : Quiet(ds[i])
  BY <1>10, <1>12, Zenon DEF RecvInv, Recv, Quiet
<1>17. \A i \in Slots : Live(ds[i]) => ds[i].id \in 1..nsyn /\ Received(ds[i], q[ds[i].id])
  <2> TAKE i \in Slots
  <2>1. CASE i = k
    BY <1>5, <1>7, <1>11, <1>12, <1>15, <2>1, Zenon
  <2>2. CASE i # k
    BY <1>12, <1>14, <2>2, Zenon DEF RecvInv, Recv
  <2> QED BY <2>1, <2>2
<1>18. \A i, j \in Slots : Live(ds[i]) /\ Live(ds[j]) /\ ds[i].id = ds[j].id => i = j
  <2>1. \A i \in Slots : Live(ds[i]) => Live(conns[i]) /\ ds[i].id = conns[i].id
    BY <1>4, <1>7, <1>12, Zenon DEF c
  <2>2. \A i, j \in Slots :
          Live(conns[i]) /\ Live(conns[j]) /\ conns[i].id = conns[j].id => i = j
    BY Zenon DEF RecvInv, Recv
  <2> QED BY <2>1, <2>2
<1>19. ASSUME NEW i \in Slots, NEW s \in toClient, Live(ds[i]), s.id = ds[i].id
       PROVE  Promised(ds[i], s, q[ds[i].id])
  <2>1. CASE i = k
    <3>1. Promised(c, s, keys)
      BY <1>4, <1>7, <1>12, <1>19, <2>1, Zenon DEF RecvInv, Recv, c, keys
    <3>2. s \in SegOut
      BY <1>1
    <3>3. s.ack \in SeqNum /\ s.wnd \in RcvIdx
      BY <3>2, Zenon DEF SegOut
    <3>4. AckedBy(s) \in Int /\ s.wnd \in Int /\ Len(keys) \in Nat
      <4>1. AckedBy(s) \in SeqNum
        BY <3>3, KeyCount DEF AckedBy
      <4> QED BY <1>6, <3>3, <4>1 DEF SeqNum, RcvIdx
    <3>5. Promised(d, s, more)
      BY <1>9, <1>10, <3>1, <3>4, ModuliPositive DEF Promised
    <3> QED BY <1>7, <1>12, <1>15, <2>1, <3>5, Zenon
  <2>2. CASE i # k
    BY <1>12, <1>14, <1>19, <2>2, Zenon DEF RecvInv, Recv
  <2> QED BY <2>1, <2>2
<1>20. \A j \in Ids : j > nsyn => q[j] = <<>>
  <2>1. ~(c.id > nsyn)
    BY <1>1, <1>5
  <2> QED BY <1>13, <2>1, Zenon DEF RecvInv, Recv
<1>21. \A s \in toClient : s.id <= nsyn
  BY Zenon DEF RecvInv, Recv
<1>22. Recv(ds, toClient, nsyn, q)
  BY <1>16, <1>17, <1>18, <1>19, <1>20, <1>21, Zenon DEF Recv
<1> QED BY <1>3, <1>22

LEMMA RecvStep == ASSUME RecvInv, [Next]_vars PROVE RecvInv'
<1>1. SlotInv'
  BY NextInv DEF RecvInv
<1>2. CASE Poll
  BY <1>1, <1>2, PollRecv, RecvPrime
<1>3. CASE FramingCode
  <2>1. Recv(conns', toClient', nsyn', rx')
    BY <1>1, <1>3, TakeNewRecv, PutcRecv, FlushRecv, DropRecv, ReadyRecv,
       PutcSlotRecv, GetcRecv DEF FramingCode
  <2> QED BY <1>1, <2>1, RecvPrime
<1>4. CASE Peers \/ UNCHANGED vars
  <2>1. conns' = conns /\ toClient' = toClient /\ nsyn' = nsyn /\ rx' = rx
    BY <1>4, PeersFrame DEF vars
  <2> QED BY <1>1, <2>1, RecvPrime DEF RecvInv
<1> QED BY <1>2, <1>3, <1>4 DEF Next

LEMMA RecvInit == Init => RecvInv
<1> SUFFICES ASSUME Init PROVE RecvInv
  OBVIOUS
<1>1. \A i \in Slots : conns[i].tstate = "LISTEN" /\ conns[i].r_head = conns[i].r_tail
  BY Zenon DEF Init, NewConn
<1>2. toClient = {} /\ \A j \in Ids : rx[j] = <<>>
  BY Zenon DEF Init
<1>3. Recv(conns, toClient, nsyn, rx)
  BY <1>1, <1>2 DEF Recv, Quiet, Live
<1> QED BY <1>3, InitInv DEF RecvInv

LEMMA RecvInvariance == Spec => []RecvInv
<1>1. RecvInv /\ [Next]_vars => RecvInv'
  BY RecvStep
<1> QED BY <1>1, RecvInit, PTL DEF Spec

(* What net.c has acknowledged to a client is what net_rx_getc returned    *)
(* followed by what still waits in the ring: the keys 1, 2, 3, ... each    *)
(* once and in order, however segments overlap, repeat, arrive out of      *)
(* order or are cut short by a full ring, for every ring size and every    *)
(* number of slots and clients.                                            *)
THEOREM KeysInOrder == Spec => []KeysAccounted
<1>1. RecvInv => KeysAccounted
  BY Zenon DEF RecvInv, Recv, Received, Acked, Typed, KeysAccounted
<1> QED BY <1>1, RecvInvariance, PTL

(* The right edge of a segment on a live connection, against its slot.     *)
LEMMA EdgeKept ==
  ASSUME NEW c \in Conn, NEW s \in SegOut, NEW keys \in Seq(Keys),
         Received(c, keys), Promised(c, s, keys),
         Positive(Sub(s.ack + s.wnd, c.rcv_nxt, SEQ))
  PROVE  Sub(s.ack + s.wnd, c.rcv_nxt, SEQ) <= RcvFree(c)
<1> DEFINE x == s.ack
           y == c.rcv_nxt
           v == s.wnd
           room == Sub(x + v, y, SEQ)
           A == AckedBy(s)
           a == Acked(c)
           m == SEQ
           diff == (x + v) - y
<1>1. x \in SeqNum /\ v \in RcvIdx /\ y \in SeqNum
  BY Fields, Zenon DEF SegOut
<1>2. /\ CISS \in SeqNum /\ m \in Nat \ {0} /\ HALF \in Nat /\ RCV_SZ \in Nat
      /\ RCV_SZ <= HALF /\ m = 2 * HALF /\ MaxKeys <= HALF /\ MaxKeys \in Nat
  BY EndpointAssumption, ModuliPositive, SpaceIsEnough, SizesAssumption DEF SEQ
<1>3. /\ A = IF x > CISS THEN x - CISS - 1 ELSE x - CISS - 1 + m
      /\ a = IF y > CISS THEN y - CISS - 1 ELSE y - CISS - 1 + m
      /\ A \in SeqNum /\ a \in SeqNum
  BY <1>1, KeyCount DEF AckedBy, Acked
<1>4. /\ a = Len(keys) + RcvUsed(c) /\ a \in Keys /\ Len(keys) \in Nat
      /\ RcvUsed(c) \in Nat
  BY AckedIs
<1>5. A <= a /\ A + v <= Len(keys) + RCV_SZ - 1
  BY DEF Promised
<1>6. RcvFree(c) = RCV_SZ - 1 - RcvUsed(c)
  BY DEF RcvFree
<1>7. room = diff % m
  BY Zenon DEF Sub
<1> HIDE DEF m, A, a, room
<1>8. x \in 0..(m - 1) /\ y \in 0..(m - 1) /\ CISS \in 0..(m - 1) /\ v \in 0..(RCV_SZ - 1)
      /\ A \in 0..(m - 1) /\ a \in 0..MaxKeys
  <2>1. x \in 0..(m - 1) /\ y \in 0..(m - 1)
    BY <1>1, Zenon DEF SeqNum, m
  <2>2. CISS \in 0..(m - 1) /\ v \in 0..(RCV_SZ - 1)
    BY <1>1, <1>2, Zenon DEF SeqNum, RcvIdx, m
  <2>3. A \in 0..(m - 1) /\ a \in 0..MaxKeys
    BY <1>3, <1>4, Zenon DEF SeqNum, Keys, m
  <2> QED BY <2>1, <2>2, <2>3
<1> HIDE DEF x, y, v, diff
<1>9. diff \in Int /\ A + v - a \in (-m + 1)..(m - 1)
      /\ (diff = A + v - a \/ diff = A + v - a + m \/ diff = A + v - a - m)
  BY <1>2, <1>3, <1>5, <1>8 DEF diff
<1>10. diff % m = IF A + v - a >= 0 THEN A + v - a ELSE A + v - a + m
  BY <1>2, <1>8, <1>9
<1>11. CASE A + v - a >= 0
  BY <1>4, <1>5, <1>6, <1>7, <1>8, <1>10, <1>11, <1>2 DEF room, x, v, y
<1>12. CASE ~(A + v - a >= 0)
  <2>1. room >= HALF
    BY <1>2, <1>7, <1>8, <1>10, <1>12
  <2>2. ~Positive(room)
    BY <1>2, <1>7, <1>8, <1>10, <2>1 DEF Positive
  <2> QED BY <2>2 DEF room, x, v, y
<1> QED BY <1>11, <1>12

(* No window net.c advertised is ever taken back: whatever a segment sent  *)
(* on a live connection allows the client beyond rcv_nxt still fits the    *)
(* receive ring, at every later moment and for every ring size.            *)
THEOREM WindowsHold == Spec => []WindowKept
<1>1. ASSUME RecvInv PROVE WindowKept
  <2> SUFFICES ASSUME NEW i \in Slots, NEW s \in toClient,
                      Live(conns[i]), s.id = conns[i].id,
                      Positive(Sub(s.ack + s.wnd, conns[i].rcv_nxt, SEQ))
               PROVE  Sub(s.ack + s.wnd, conns[i].rcv_nxt, SEQ) <= RcvFree(conns[i])
    BY Zenon DEF WindowKept
  <2>1. conns[i] \in Conn /\ s \in SegOut /\ rx \in [Ids -> Seq(Keys)]
    BY <1>1, RecvTypes DEF RecvInv
  <2>2. conns[i].id \in Ids
    BY <2>1, Zenon DEF Conn
  <2>3. rx[conns[i].id] \in Seq(Keys)
    BY <2>1, <2>2
  <2>4. Received(conns[i], rx[conns[i].id]) /\ Promised(conns[i], s, rx[conns[i].id])
    BY <1>1, Zenon DEF RecvInv, Recv
  <2> QED BY <2>1, <2>3, <2>4, EdgeKept
<1> QED BY <1>1, RecvInvariance, PTL
=============================================================================

-------------------------------- MODULE Tcp --------------------------------
(***************************************************************************)
(* The TCP half of dosshd/net.c: an array of NCONN connection slots, each  *)
(* with a send ring, a receive ring, a go-back-N retransmit timer and the  *)
(* three states LISTEN, SYNRCVD, ESTAB, serviced by net_poll once per      *)
(* timer tick and used by the framing code through the net_* calls.        *)
(*                                                                         *)
(* A slot is the record conns[i] with the fields of struct conn.  peer     *)
(* stands for (peer_mac, peer_ip, peer_port); IpOf gives its address.      *)
(* rexmit_at is held relative to the clock: the ticks still to go before   *)
(* the timer is due (0 = due).  id is a history field, the number of the   *)
(* SYN that opened the connection.                                         *)
(*                                                                         *)
(* Every segment the server ever sent stays in toClient, and a client's    *)
(* segments are a function of its history (Segments), so any of them may   *)
(* be lost, delayed, reordered or duplicated: delivery is never forced.    *)
(***************************************************************************)
EXTENDS Integers, Sequences, FiniteSets

CONSTANTS
  NCONN,          \* number of slots
  SND_SZ,         \* size of the send ring
  RCV_SZ,         \* size of the receive ring
  MSS_TX,         \* largest payload of one segment
  REXMIT_TICKS,   \* retransmit timeout in ticks
  MAX_REXMIT,     \* retransmits without progress before a peer is given up
  HALF,           \* half the sequence space: 2^31 in the code
  Clients,        \* client endpoints (address, port), each used once
  NoPeer,         \* peer of a slot no SYN has ever reached
  IpOf,           \* the address of each endpoint
  ISS,            \* ISS[n]: initial sequence number given to the n-th SYN
  CISS,           \* initial sequence number of the clients
  Endings,        \* the ways a client may end its session
  MaxPut,         \* bound: bytes queued for one connection
  MaxKeys,        \* bound: keys a client types
  MaxMixed        \* bound: bytes and keys together, when there are both

SEQ == 2 * HALF
Slots == 0..(NCONN - 1)
SeqNum == 0..(SEQ - 1)
SndIdx == 0..(SND_SZ - 1)
RcvIdx == 0..(RCV_SZ - 1)
Byte == 0..MaxPut             \* n is the n-th byte queued, 0 the initial memory
Keys == 0..MaxKeys            \* k is the k-th key a client types
Ids == 0..Len(ISS)
Within(bytes, keys) == bytes = 0 \/ keys = 0 \/ bytes + keys <= MaxMixed

ASSUME SizesAssumption ==
  /\ NCONN \in Nat \ {0} /\ SND_SZ \in Nat \ {0, 1} /\ RCV_SZ \in Nat \ {0, 1}
  /\ MSS_TX \in Nat \ {0} /\ REXMIT_TICKS \in Nat \ {0} /\ MAX_REXMIT \in Nat
  /\ HALF \in Nat /\ HALF >= SND_SZ /\ HALF >= RCV_SZ
  /\ MaxPut \in Nat /\ MaxKeys \in Nat /\ MaxMixed \in Nat
(* Every segment stays in flight for as long as the session lasts, so a    *)
(* session must not outlast half the sequence space (2^31 keys or bytes in *)
(* the code): beyond it an old segment would pass for a new one.           *)
ASSUME SessionAssumption == MaxKeys <= HALF /\ MaxPut < HALF
ASSUME EndpointAssumption ==
  /\ NoPeer \notin Clients
  /\ CISS \in SeqNum /\ ISS \in Seq(SeqNum)
  /\ Endings \subseteq {"finished", "aborted", "gone"}

VARIABLES
  conns,      \* the slot table
  toClient,   \* every segment the server has sent
  clients,    \* the peers
  nsyn,       \* SYNs accepted so far; history, and the clock ISS comes from
  nput,       \* bytes broadcast so far
  log,        \* history: log[id], the bytes queued for connection id;
              \* log[0], those broadcast
  rx          \* history: rx[id], the keys net_rx_getc returned for it

vars == <<conns, toClient, clients, nsyn, nput, log, rx>>

---------------------------------------------------------------------------
(* Ring indexes and sequence numbers: unsigned arithmetic under a mask.    *)

Add(a, b, m) == (a + b) % m
Sub(a, b, m) == (a - b) % m

(* the signed comparisons (long)x > 0 and (long)x <= 0 of a difference     *)
Positive(d) == 0 < d /\ d < HALF

Lesser(a, b) == IF a < b THEN a ELSE b
First(S) == CHOOSE i \in S : \A j \in S : i <= j

Used(c) == Sub(c.s_end, c.s_una, SND_SZ)       \* bytes held in the send ring
Unsent(c) == Sub(c.s_end, c.s_nxt, SND_SZ)
InFlight(c) == Sub(c.snd_nxt, c.snd_una, SEQ)
RcvUsed(c) == Sub(c.r_head, c.r_tail, RCV_SZ)
RcvFree(c) == RCV_SZ - 1 - RcvUsed(c)
SndFull(c) == Used(c) >= SND_SZ - 1

(* the keys in the receive ring, oldest first                              *)
Waiting(c) == [k \in 1..RcvUsed(c) |-> c.rbuf[Add(c.r_tail, k - 1, RCV_SZ)]]

SameHost(c, x) == c.peer # NoPeer /\ IpOf[c.peer] = IpOf[x]

---------------------------------------------------------------------------
(* The operations on one slot.  Each has two operators: the slot it leaves *)
(* behind and the segments it sends.                                       *)

(* mutant: an admitted slot stays admitted for its next connection         *)
tcp_reset_listen_KeepsReady(c) ==
  [c EXCEPT !.tstate = "LISTEN", !.s_una = 0, !.s_nxt = 0, !.s_end = 0,
            !.r_head = 0, !.r_tail = 0, !.rexmit_count = 0]
tcp_reset_listen(c) ==
  [c EXCEPT !.tstate = "LISTEN", !.s_una = 0, !.s_nxt = 0, !.s_end = 0,
            !.r_head = 0, !.r_tail = 0, !.rexmit_count = 0, !.ready = FALSE]

(* mutant: a constant window instead of the real free space                *)
tcp_send_seg_ConstWindow(c, flags, seq, doff, dlen) ==
  [dst |-> c.peer, id |-> c.id, flags |-> flags, seq |-> seq,
   ack |-> c.rcv_nxt, wnd |-> RCV_SZ - 1,
   data |-> [k \in 1..dlen |-> c.sbuf[Add(doff, k - 1, SND_SZ)]]]

tcp_send_seg(c, flags, seq, doff, dlen) ==
  [dst |-> c.peer, id |-> c.id, flags |-> flags, seq |-> seq,
   ack |-> c.rcv_nxt, wnd |-> RcvFree(c),
   data |-> [k \in 1..dlen |-> c.sbuf[Add(doff, k - 1, SND_SZ)]]]

(* tcp_output: everything not yet sent goes out, MSS_TX bytes a segment    *)
tcp_output(c) ==
  IF c.tstate # "ESTAB" \/ Unsent(c) = 0 THEN c
  ELSE [c EXCEPT
         !.rexmit_at = IF c.snd_una = c.snd_nxt THEN REXMIT_TICKS ELSE @,
         !.s_nxt = c.s_end,
         !.snd_nxt = Add(@, Unsent(c), SEQ)]

(* mutant: resends take their bytes from the oldest unacked byte           *)
OutputSegs_FromUna(c) ==
  IF c.tstate # "ESTAB" THEN {}
  ELSE {tcp_send_seg(c, {"PSH", "ACK"}, Add(c.snd_nxt, off, SEQ),
                     Add(c.s_una, off, SND_SZ),
                     Lesser(MSS_TX, Unsent(c) - off)) :
          off \in {o \in 0..(Unsent(c) - 1) : o % MSS_TX = 0}}

OutputSegs(c) ==
  IF c.tstate # "ESTAB" THEN {}
  ELSE {tcp_send_seg(c, {"PSH", "ACK"}, Add(c.snd_nxt, off, SEQ),
                     Add(c.s_nxt, off, SND_SZ),
                     Lesser(MSS_TX, Unsent(c) - off)) :
          off \in {o \in 0..(Unsent(c) - 1) : o % MSS_TX = 0}}

(* tcp_timer, elapsed ticks after the last look at the clock               *)
Clock(c, elapsed) ==
  [c EXCEPT !.rexmit_at = IF @ > elapsed THEN @ - elapsed ELSE 0]

Expired(c) ==
  /\ c.tstate # "LISTEN"
  /\ Positive(InFlight(c))
  /\ c.rexmit_at = 0

(* mutants: retransmits not counted; the sequence space rewound without    *)
(* the ring                                                                *)
tcp_timer_Uncounted(c) ==
  IF ~Expired(c) THEN c
  ELSE [c EXCEPT !.s_nxt = c.s_una, !.snd_nxt = c.snd_una,
                 !.rexmit_at = REXMIT_TICKS]
tcp_timer_RingKept(c) ==
  IF ~Expired(c) THEN c
  ELSE IF c.rexmit_count + 1 > MAX_REXMIT THEN tcp_reset_listen(c)
  ELSE [c EXCEPT !.rexmit_count = @ + 1,
                 !.snd_nxt = c.snd_una, !.rexmit_at = REXMIT_TICKS]

tcp_timer(c) ==
  IF ~Expired(c) THEN c
  ELSE IF c.rexmit_count + 1 > MAX_REXMIT THEN tcp_reset_listen(c)
  ELSE [c EXCEPT !.rexmit_count = @ + 1, !.s_nxt = c.s_una,
                 !.snd_nxt = c.snd_una, !.rexmit_at = REXMIT_TICKS]

TimerSegs(c) ==
  IF Expired(c) /\ c.rexmit_count < MAX_REXMIT /\ c.tstate = "SYNRCVD"
  THEN {tcp_send_seg(c, {"SYN", "ACK"}, c.snd_una, 0, 0)}
  ELSE {}

---------------------------------------------------------------------------
(* tcp_in, one stage per block of the function.                            *)

find_conn(cs, x) == {i \in Slots : cs[i].tstate # "LISTEN" /\ cs[i].peer = x}

(* the candidates of alloc_conn: a stalled slot of the same host, else a   *)
(* free slot, else any slot of the same host, else none                    *)
alloc_conn(cs, x) ==
  LET stalled == {i \in Slots : /\ cs[i].tstate # "LISTEN"
                                /\ cs[i].rexmit_count > 0
                                /\ SameHost(cs[i], x)}
      free == {i \in Slots : cs[i].tstate = "LISTEN"}
      same == {i \in Slots : SameHost(cs[i], x)}
  IN  IF stalled # {} THEN stalled ELSE IF free # {} THEN free ELSE same

(* a SYN takes over slot c: snd_nxt already counts the SYN|ACK it sends    *)
SynIn(c, m, n) ==
  [c EXCEPT !.peer = m.src, !.id = n,
            !.snd_una = ISS[n], !.snd_nxt = Add(ISS[n], 1, SEQ),
            !.rcv_nxt = Add(m.seq, 1, SEQ), !.tstate = "SYNRCVD",
            !.s_una = 0, !.s_nxt = 0, !.s_end = 0, !.r_head = 0, !.r_tail = 0,
            !.rexmit_count = 0, !.rexmit_at = REXMIT_TICKS]

send_rst(m) ==
  [dst |-> m.src, id |-> 0, flags |-> {"RST", "ACK"}, seq |-> 0,
   ack |-> Add(m.seq, 1, SEQ), wnd |-> 0, data |-> <<>>]

(* mutant: the framing code is not told of the new connection              *)
EstabIn_Quiet(c, m) ==
  IF c.tstate = "SYNRCVD" /\ "ACK" \in m.flags /\ m.ack = c.snd_nxt
  THEN [c EXCEPT !.snd_una = m.ack, !.tstate = "ESTAB", !.rexmit_count = 0]
  ELSE c

(* the ACK of our SYN|ACK completes the handshake                          *)
EstabIn(c, m) ==
  IF c.tstate = "SYNRCVD" /\ "ACK" \in m.flags /\ m.ack = c.snd_nxt
  THEN [c EXCEPT !.snd_una = m.ack, !.tstate = "ESTAB", !.just_estab = TRUE,
                 !.rexmit_count = 0]
  ELSE c

(* mutant: an ACK frees all that is in flight                              *)
AckIn_FreesAll(c, m) ==
  IF /\ "ACK" \in m.flags /\ Positive(Sub(m.ack, c.snd_una, SEQ))
     /\ ~Positive(Sub(m.ack, c.snd_nxt, SEQ))
  THEN [c EXCEPT !.s_una = c.s_nxt, !.snd_una = c.snd_nxt,
                 !.rexmit_at = REXMIT_TICKS, !.rexmit_count = 0]
  ELSE c

(* an ACK in (snd_una, snd_nxt] frees the bytes it covers                  *)
AckIn(c, m) ==
  LET freed == Sub(m.ack, c.snd_una, SEQ)
  IN  IF /\ "ACK" \in m.flags /\ Positive(freed)
         /\ ~Positive(Sub(m.ack, c.snd_nxt, SEQ))
      THEN [c EXCEPT !.s_una = Add(@, freed, SND_SZ), !.snd_una = m.ack,
                     !.rexmit_at = REXMIT_TICKS, !.rexmit_count = 0]
      ELSE c

(* mutant: the whole segment is acknowledged, stored or not                *)
DataIn_AcksAll(c, m) ==
  LET stored == Lesser(Len(m.data), RcvFree(c))
  IN  IF m.seq = c.rcv_nxt
      THEN [c EXCEPT
             !.rbuf = [j \in RcvIdx |->
                         LET k == Sub(j, c.r_head, RCV_SZ)
                         IN  IF k < stored THEN m.data[k + 1] ELSE @[j]],
             !.r_head = Add(@, stored, RCV_SZ),
             !.rcv_nxt = Add(@, Len(m.data), SEQ)]
      ELSE c

(* in-order data is stored until the ring is full, and only what is stored *)
(* is acknowledged                                                         *)
DataIn(c, m) ==
  LET stored == Lesser(Len(m.data), RcvFree(c))
  IN  IF m.seq = c.rcv_nxt
      THEN [c EXCEPT
             !.rbuf = [j \in RcvIdx |->
                         LET k == Sub(j, c.r_head, RCV_SZ)
                         IN  IF k < stored THEN m.data[k + 1] ELSE @[j]],
             !.r_head = Add(@, stored, RCV_SZ),
             !.rcv_nxt = Add(@, stored, SEQ)]
      ELSE c

AckSeg(c) == tcp_send_seg(c, {"ACK"}, c.snd_nxt, 0, 0)

(* a segment that is neither SYN nor RST, on its slot                      *)
SegIn(c, m) ==
  LET e == EstabIn(c, m)
      d == DataIn(AckIn(e, m), m)
  IN  IF e.tstate # "ESTAB" THEN c
      ELSE IF "FIN" \in m.flags
           THEN tcp_reset_listen([d EXCEPT !.rcv_nxt = Add(@, 1, SEQ)])
           ELSE d

SegInSegs(c, m) ==
  LET e == EstabIn(c, m)
      d == DataIn(AckIn(e, m), m)
  IN  IF e.tstate # "ESTAB" THEN {}
      ELSE (IF m.data # <<>> THEN {AckSeg(d)} ELSE {})
           \cup (IF "FIN" \in m.flags
                 THEN {AckSeg([d EXCEPT !.rcv_nxt = Add(@, 1, SEQ)])} ELSE {})

(* mutant: a SYN of a live connection opens another                        *)
Opens_Duplicate(cs, m) == /\ "SYN" \in m.flags /\ "RST" \notin m.flags
                          /\ alloc_conn(cs, m.src) # {}

(* tcp_in as a whole: the slot table after frame m, the n-th SYN if it is  *)
(* one that opens a connection                                             *)
Opens(cs, m) == /\ "SYN" \in m.flags /\ "RST" \notin m.flags
                /\ find_conn(cs, m.src) = {} /\ alloc_conn(cs, m.src) # {}

tcp_in(cs, m, n) ==
  LET owner == find_conn(cs, m.src)
      i == First(owner)
      a == First(alloc_conn(cs, m.src))
  IN  IF "RST" \in m.flags
      THEN IF owner = {} THEN cs
           ELSE [cs EXCEPT ![i] = tcp_reset_listen(@)]
      ELSE IF "SYN" \in m.flags
      THEN IF Opens(cs, m) THEN [cs EXCEPT ![a] = SynIn(@, m, n)] ELSE cs
      ELSE IF owner = {} THEN cs ELSE [cs EXCEPT ![i] = SegIn(@, m)]

InSegs(cs, m, n) ==
  LET owner == find_conn(cs, m.src)
      a == First(alloc_conn(cs, m.src))
  IN  IF "RST" \in m.flags THEN {}
      ELSE IF "SYN" \in m.flags
      THEN IF Opens(cs, m)
           THEN {tcp_send_seg(SynIn(cs[a], m, n), {"SYN", "ACK"}, ISS[n], 0, 0)}
           ELSE IF owner = {} THEN {send_rst(m)} ELSE {}
      ELSE IF owner = {} THEN {} ELSE SegInSegs(cs[First(owner)], m)

---------------------------------------------------------------------------
(* The clients: ordinary TCP peers, external to the code.                  *)

Seg(x, flags, seq, ack, data) ==
  [src |-> x, flags |-> flags, seq |-> seq, ack |-> ack, data |-> data]

KeySeq(a) == Add(CISS, 1 + a, SEQ)                   \* of the key after key a
KeysFrom(a, b) == [k \in 1..(IF a < b THEN b - a ELSE 0) |-> a + k]

(* Every segment client x may have in flight: its SYN, any stretch of the  *)
(* keys it has typed with any acknowledgement it has given, its FIN, its   *)
(* RST.                                                                    *)
Segments(x) ==
  LET p == clients[x]
  IN  (IF p.st = "closed" THEN {} ELSE {Seg(x, {"SYN"}, CISS, 0, <<>>)})
      \cup {Seg(x, {"ACK"}, KeySeq(a), k, KeysFrom(a, b)) :
              a \in 0..p.typed, b \in 0..p.typed, k \in p.acks}
      \cup (IF p.st # "finished" THEN {}
            ELSE {Seg(x, {"ACK", "FIN"}, KeySeq(a), k, KeysFrom(a, p.typed)) :
                    a \in 0..p.typed, k \in p.acks})
      \cup (IF p.st # "aborted" THEN {} ELSE {Seg(x, {"RST"}, 0, 0, <<>>)})

Connect(x) ==
  /\ clients[x].st = "closed"
  /\ clients' = [clients EXCEPT ![x].st = "synsent"]
  /\ UNCHANGED <<conns, toClient, nsyn, nput, log, rx>>

(* the client takes a SYN|ACK, or the part of a data segment that is new   *)
ClientRecv(x, s) ==
  /\ s \in toClient /\ s.dst = x
  /\ \/ /\ clients[x].st = "synsent" /\ s.flags = {"SYN", "ACK"}
        /\ clients' = [clients EXCEPT
              ![x].st = "estab", ![x].id = s.id,
              ![x].rcv_nxt = Add(s.seq, 1, SEQ),
              ![x].acks = {Add(s.seq, 1, SEQ)}]
     \/ LET have == Sub(clients[x].rcv_nxt, s.seq, SEQ)
        IN /\ clients[x].st \in {"estab", "finished"} /\ have < Len(s.data)
           /\ clients' = [clients EXCEPT
                 ![x].rcv_nxt = Add(s.seq, Len(s.data), SEQ),
                 ![x].acks = @ \cup {Add(s.seq, Len(s.data), SEQ)},
                 ![x].got = @ \o SubSeq(s.data, have + 1, Len(s.data))]
     \/ /\ clients[x].st \in {"synsent", "estab", "finished"}
        /\ "RST" \in s.flags
        /\ clients' = [clients EXCEPT ![x].st = "gone"]
  /\ UNCHANGED <<conns, toClient, nsyn, nput, log, rx>>

Type(x) ==
  /\ clients[x].st = "estab" /\ clients[x].typed < MaxKeys
  /\ Within(nput, clients[x].typed + 1)
  /\ clients' = [clients EXCEPT ![x].typed = @ + 1]
  /\ UNCHANGED <<conns, toClient, nsyn, nput, log, rx>>

(* the client ends the session: with a FIN, with a RST, or by vanishing    *)
(* (before it is established, a vanished client is one that stays silent)  *)
Leave(x, how) ==
  /\ clients[x].st \in {"synsent", "estab"}
  /\ how # "aborted" => clients[x].st = "estab"
  /\ clients' = [clients EXCEPT ![x].st = how]
  /\ UNCHANGED <<conns, toClient, nsyn, nput, log, rx>>

---------------------------------------------------------------------------
(* net_poll: the timers of all slots, at most one received frame, then     *)
(* everything unsent.  NoFrame: nothing staged, or a frame handle_frame    *)
(* ignores.  elapsed: the ticks since the previous poll, more than one     *)
(* when a tick found the service routine still busy.                       *)

AfterTimers(elapsed) == [i \in Slots |-> tcp_timer(Clock(conns[i], elapsed))]

Output(cs) == [i \in Slots |-> tcp_output(cs[i])]
AllOutputSegs(cs) == UNION {OutputSegs(cs[i]) : i \in Slots}

PollIdle(elapsed) ==
  LET t == AfterTimers(elapsed)
  IN  /\ conns' = Output(t)
      /\ toClient' = toClient \cup AllOutputSegs(t)
                     \cup UNION {TimerSegs(Clock(conns[i], elapsed)) : i \in Slots}
      /\ UNCHANGED <<clients, nsyn, nput, log, rx>>

PollFrame(elapsed, m) ==
  LET t == AfterTimers(elapsed)
      n == nsyn + 1
      r == tcp_in(t, m, n)
  IN  /\ Opens(t, m) => n <= Len(ISS)              \* bound: SYNs accepted
      /\ conns' = Output(r)
      /\ toClient' = toClient \cup InSegs(t, m, n) \cup AllOutputSegs(r)
                     \cup UNION {TimerSegs(Clock(conns[i], elapsed)) : i \in Slots}
      /\ nsyn' = IF Opens(t, m) THEN n ELSE nsyn
      /\ UNCHANGED <<clients, nput, log, rx>>

Poll == \E elapsed \in 1..REXMIT_TICKS :
          \/ PollIdle(elapsed)
          \/ \E x \in Clients : \E m \in Segments(x) : PollFrame(elapsed, m)

---------------------------------------------------------------------------
(* The calls of the framing code.                                          *)

net_take_new_slot ==
  LET new == {i \in Slots : conns[i].just_estab}
  IN  /\ new # {}
      /\ conns' = [conns EXCEPT ![First(new)].just_estab = FALSE]
      /\ UNCHANGED <<toClient, clients, nsyn, nput, log, rx>>

net_slot_ready(i) ==          \* every caller passes v = 1
  /\ conns' = [conns EXCEPT ![i].ready = TRUE]
  /\ UNCHANGED <<toClient, clients, nsyn, nput, log, rx>>

net_slot_drop(i) ==
  /\ conns' = [conns EXCEPT ![i] = tcp_reset_listen(@)]
  /\ toClient' = toClient \cup
       (IF conns[i].tstate = "ESTAB"
        THEN {tcp_send_seg(conns[i], {"RST", "ACK"}, conns[i].snd_nxt, 0, 0)}
        ELSE {})
  /\ UNCHANGED <<clients, nsyn, nput, log, rx>>

Append1(c, b) ==
  [c EXCEPT !.sbuf[c.s_end] = b, !.s_end = Add(@, 1, SND_SZ)]

(* net_tx_putc, first loop: a full slot whose peer has stopped ACKing is   *)
(* dropped on the way; the first full slot whose peer is alive stops it    *)
Audience(cs) == {i \in Slots : cs[i].tstate = "ESTAB" /\ cs[i].ready}
Slow == {i \in Audience(conns) : SndFull(conns[i]) /\ conns[i].rexmit_count = 0}
Dead == {i \in Audience(conns) : /\ SndFull(conns[i])
                                 /\ conns[i].rexmit_count > 0
                                 /\ \A j \in Slow : i < j}
Culled == [i \in Slots |-> IF i \in Dead THEN tcp_reset_listen(conns[i])
                           ELSE conns[i]]

(* the next byte is recorded for the connections of N                      *)
Logged(N) == [n \in Ids |-> IF n \in N THEN Append(log[n], nput + 1) ELSE log[n]]
IdsOf(S) == {conns[i].id : i \in S}

MorePut == nput < MaxPut /\ \A x \in Clients : Within(nput + 1, clients[x].typed)

(* mutant: a full slot is passed over instead of holding the others back   *)
net_tx_putc_SkipsSlow ==
  /\ MorePut
  /\ conns' = [i \in Slots |-> IF i \in Audience(Culled) \ Slow
                              THEN Append1(Culled[i], nput + 1) ELSE Culled[i]]
  /\ nput' = nput + 1
  /\ log' = Logged({0} \cup IdsOf(Audience(Culled) \ Slow))
  /\ UNCHANGED <<toClient, clients, nsyn, rx>>

net_tx_putc ==
  /\ MorePut
  /\ IF Slow # {}
     THEN conns' = Culled /\ UNCHANGED <<nput, log>>
     ELSE /\ conns' = [i \in Slots |-> IF i \in Audience(Culled)
                                       THEN Append1(Culled[i], nput + 1)
                                       ELSE Culled[i]]
          /\ nput' = nput + 1
          /\ log' = Logged({0} \cup IdsOf(Audience(Culled)))
  /\ UNCHANGED <<toClient, clients, nsyn, rx>>

net_tx_putc_slot(i) ==
  /\ MorePut /\ ~SndFull(conns[i])
  /\ conns' = [conns EXCEPT ![i] = Append1(@, nput + 1)]
  /\ nput' = nput + 1
  /\ log' = Logged(IdsOf({i} \ {j \in Slots : conns[j].tstate = "LISTEN"}))
  /\ UNCHANGED <<toClient, clients, nsyn, rx>>

net_tx_flush ==
  /\ conns' = Output(conns)
  /\ toClient' = toClient \cup AllOutputSegs(conns)
  /\ UNCHANGED <<clients, nsyn, nput, log, rx>>

net_rx_getc(i) ==
  LET c == conns[i]
  IN  /\ c.r_tail # c.r_head
      /\ conns' = [conns EXCEPT ![i].r_tail = Add(@, 1, RCV_SZ)]
      /\ rx' = [rx EXCEPT ![c.id] = Append(@, c.rbuf[c.r_tail])]
      /\ UNCHANGED <<toClient, clients, nsyn, nput, log>>

---------------------------------------------------------------------------
NewConn ==      \* a slot as net_open leaves it: static zeroes, LISTEN
  [tstate |-> "LISTEN", peer |-> NoPeer, id |-> 0,
   snd_una |-> 0, snd_nxt |-> 0, rcv_nxt |-> 0,
   sbuf |-> [k \in SndIdx |-> 0], s_una |-> 0, s_nxt |-> 0, s_end |-> 0,
   rbuf |-> [k \in RcvIdx |-> 0], r_head |-> 0, r_tail |-> 0,
   rexmit_at |-> 0, rexmit_count |-> 0, just_estab |-> FALSE, ready |-> FALSE]

Init ==
  /\ conns = [i \in Slots |-> NewConn]
  /\ toClient = {}
  /\ clients = [x \in Clients |-> [st |-> "closed", id |-> 0, rcv_nxt |-> 0,
                                   acks |-> {}, got |-> <<>>, typed |-> 0]]
  /\ nsyn = 0 /\ nput = 0
  /\ log = [n \in Ids |-> <<>>]
  /\ rx = [n \in Ids |-> <<>>]

FramingCode ==
  \/ net_take_new_slot \/ net_tx_putc \/ net_tx_flush
  \/ \E i \in Slots : \/ net_slot_drop(i) \/ net_slot_ready(i)
                      \/ net_tx_putc_slot(i) \/ net_rx_getc(i)

Peers ==
  \E x \in Clients : \/ Connect(x) \/ Type(x)
                     \/ \E s \in toClient : ClientRecv(x, s)
                     \/ \E how \in Endings : Leave(x, how)

Next == Poll \/ FramingCode \/ Peers

Spec == Init /\ [][Next]_vars

---------------------------------------------------------------------------
Conn ==
  [tstate: {"LISTEN", "SYNRCVD", "ESTAB"}, peer: Clients \cup {NoPeer}, id: Ids,
   snd_una: SeqNum, snd_nxt: SeqNum, rcv_nxt: SeqNum,
   sbuf: [SndIdx -> Byte], s_una: SndIdx, s_nxt: SndIdx, s_end: SndIdx,
   rbuf: [RcvIdx -> Keys], r_head: RcvIdx, r_tail: RcvIdx,
   rexmit_at: 0..REXMIT_TICKS, rexmit_count: 0..MAX_REXMIT,
   just_estab: BOOLEAN, ready: BOOLEAN]

Client ==
  [st: {"closed", "synsent", "estab", "finished", "aborted", "gone"},
   id: Ids, rcv_nxt: SeqNum, acks: SUBSET SeqNum, got: Seq(Byte), typed: Keys]

Flags == {"SYN", "ACK", "PSH", "FIN", "RST"}
SegOut == [dst: Clients \cup {NoPeer}, id: Ids, flags: SUBSET Flags,
           seq: SeqNum, ack: SeqNum, wnd: RcvIdx, data: Seq(Byte)]
Frame == [src: Clients, flags: SUBSET Flags, seq: SeqNum, ack: SeqNum,
           data: Seq(Keys)]

(* Every slot stays a struct conn: indexes inside their rings, sequence    *)
(* numbers inside 32 bits, rexmit_count never above MAX_REXMIT.            *)
TypeOK ==
  /\ conns \in [Slots -> Conn]
  /\ toClient \subseteq SegOut
  /\ clients \in [Clients -> Client]
  /\ nsyn \in Ids /\ nput \in Byte
  /\ log \in [Ids -> Seq(Byte)]
  /\ rx \in [Ids -> Seq(Keys)]

---------------------------------------------------------------------------
Live(c) == c.tstate # "LISTEN"

(* The send ring and the sequence space of an established slot agree       *)
(* whatever segments arrive: the bytes between s_una and s_nxt are exactly *)
(* those between snd_una and snd_nxt, and s_nxt never passes s_end.  The   *)
(* go-back-N rewind in tcp_timer, the partial ACK and the ring wrap all    *)
(* move one of the two without looking at the other.                       *)
SlotRing(c) ==
  /\ c.tstate = "SYNRCVD" => c.s_una = 0 /\ c.s_nxt = 0
  /\ c.tstate = "ESTAB" => /\ InFlight(c) = Sub(c.s_nxt, c.s_una, SND_SZ)
                           /\ InFlight(c) <= Used(c)
RingAgrees == \A i \in Slots : SlotRing(conns[i])

(* No two live slots belong to one peer, so find_conn is never ambiguous,  *)
(* across duplicate SYNs, same-host eviction and reuse of slots.           *)
TwinFree(cs) ==
  \A i, j \in Slots : Live(cs[i]) /\ Live(cs[j]) /\ cs[i].peer = cs[j].peer
                      => i = j
NoTwinSlots == TwinFree(conns)

(* A client receives the bytes queued for its connection in order, without *)
(* loss, repetition or invention, whatever the network does and however    *)
(* go-back-N cuts the resent bytes into new segments.                      *)
InOrder ==
  \A x \in Clients :
    LET got == clients[x].got
        all == log[clients[x].id]
    IN  Len(got) <= Len(all) /\ got = SubSeq(all, 1, Len(got))

(* A byte leaves the send ring only once the client of this very           *)
(* connection has it: an established slot was opened by the handshake its  *)
(* peer completed, and no stale or future ACK frees unreceived bytes.      *)
FreedOnlyIfReceived ==
  \A i \in Slots :
    LET c == conns[i]
    IN  c.tstate = "ESTAB" =>
          /\ clients[c.peer].id = c.id
          /\ Len(log[c.id]) - Used(c) <= Len(clients[c.peer].got)

(* The clients of the broadcast all get the same stream (net.c:598-601,    *)
(* "all stay byte-identical"): each connection is given its bytes once and *)
(* in order, and from the first broadcast byte it is given on, every one,  *)
(* whoever is slow, dropped or admitted meanwhile.                         *)
Given(n) == {log[n][k] : k \in DOMAIN log[n]}
Rising(s) == \A j, k \in DOMAIN s : j < k => s[j] < s[k]
KeepsUp(n) == \A b \in Given(n) \cap Given(0), later \in Given(0) :
                b < later => later \in Given(n)
StreamShared ==
  \A i \in Audience(conns) : Rising(log[conns[i].id]) /\ KeepsUp(conns[i].id)

(* Keys acknowledged to the client (rcv_nxt) are the keys already handed   *)
(* to the framing code followed by those waiting in the receive ring, each *)
(* once and in order, also when a segment only partly fitted.              *)
KeysAccounted ==
  \A i \in Slots :
    LET c == conns[i]
        acked == Sub(c.rcv_nxt, CISS + 1, SEQ)
    IN  Live(c) => rx[c.id] \o Waiting(c) = [k \in 1..acked |-> k]

(* A window once advertised stays available: the right edge (ack + wnd) of *)
(* every segment sent on the connection lies within the free space, so a   *)
(* peer that respects it never overruns the ring (net.c:305).              *)
WindowKept ==
  \A i \in Slots : \A s \in toClient :
    LET c == conns[i]
        room == Sub(s.ack + s.wnd, c.rcv_nxt, SEQ)
    IN  Live(c) /\ s.id = c.id /\ Positive(room) => room <= RcvFree(c)

---------------------------------------------------------------------------
(* Fairness: INT 1Ch keeps ticking, so net_poll keeps being called.  Only  *)
(* polls that find a retransmit timer running need to be counted on; no    *)
(* frame is ever promised to arrive.                                       *)
TimerRunning == \E i \in Slots : Live(conns[i]) /\ Positive(InFlight(conns[i]))
FairSpec == Spec /\ WF_vars(TimerRunning /\ Poll)

(* A slot whose peer has vanished with bytes unacknowledged is not held    *)
(* for ever: either late ACKs clear them or tcp_timer gives the slot up    *)
(* (net.c:253), whatever the broadcast keeps adding and however late the   *)
(* ACKs that reset rexmit_count arrive.                                    *)
Vanished(i) == conns[i].tstate = "ESTAB" /\ InFlight(conns[i]) > 0
               /\ clients[conns[i].peer].st = "gone"
DeadPeerReaped ==
  \A i \in Slots : Vanished(i) ~> (conns[i].tstate # "ESTAB" \/ InFlight(conns[i]) = 0)

(* net.c:253 and 438-439: a handshake that is not completed is retried and *)
(* then given up, so no slot stays half open.                              *)
HandshakeEnds ==
  \A i \in Slots : conns[i].tstate = "SYNRCVD" ~> conns[i].tstate # "SYNRCVD"
============================================================================

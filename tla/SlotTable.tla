----------------------------- MODULE SlotTable -----------------------------
(***************************************************************************)
(* What net.c promises its framing code (telnet.c, the SSH worker): a      *)
(* table of slots, each free, half open or open, holding one connection of *)
(* one host, the queue of bytes received and not yet taken, and the two    *)
(* flags the framing code lives by: fresh (just_estab) and ready.          *)
(* Segments, sequence numbers, timers and rings are gone; Tcp implements   *)
(* this specification.                                                     *)
(***************************************************************************)
EXTENDS Integers, Sequences

CONSTANTS
  NSlots,     \* number of slots
  Hosts,      \* addresses
  NoHost,     \* address of a slot never used
  MaxConn,    \* bound: connections opened
  Bursts      \* the byte sequences one segment may add to a queue

VARIABLES
  slots,      \* the table
  nconn       \* connections opened so far

Slot == 0..(NSlots - 1)

Live(s) == s.st # "free"

(* mutant: ready survives the reset                                        *)
Reset_KeepsReady(s) == [s EXCEPT !.st = "free", !.inq = <<>>]

(* tcp_reset_listen: fresh is not among the fields it clears               *)
Reset(s) == [s EXCEPT !.st = "free", !.ready = FALSE, !.inq = <<>>]

(* a SYN takes the slot for connection n: neither flag is cleared          *)
Taken(s, h, n) == [s EXCEPT !.st = "half", !.host = h, !.conn = n, !.inq = <<>>]

(* mutant: the framing code is not told                                    *)
Opened_Quietly(s) == [s EXCEPT !.st = "open"]
Opened(s) == [s EXCEPT !.st = "open", !.fresh = TRUE]

---------------------------------------------------------------------------
(* net_poll: the timers give up the slots of D, then at most one frame.    *)

GivenUp(D) == [i \in Slot |-> IF i \in D THEN Reset(slots[i]) ELSE slots[i]]

Silent(D) == slots' = GivenUp(D) /\ UNCHANGED nconn

(* a SYN is given a free slot or any slot of its own host                  *)
Syn(D, i, h) ==
  /\ nconn < MaxConn
  /\ ~Live(GivenUp(D)[i]) \/ GivenUp(D)[i].host = h
  /\ slots' = [GivenUp(D) EXCEPT ![i] = Taken(@, h, nconn + 1)]
  /\ nconn' = nconn + 1

Rst(D, i) ==
  /\ Live(GivenUp(D)[i])
  /\ slots' = [GivenUp(D) EXCEPT ![i] = Reset(@)]
  /\ UNCHANGED nconn

(* a segment: it may complete the handshake, carry bytes and carry a FIN   *)
Segment(D, i, opens, ks, fin) ==
  LET s == GivenUp(D)[i]
      o == IF opens THEN Opened(s) ELSE s
  IN  /\ opens <=> s.st = "half"
      /\ o.st = "open"
      /\ slots' = [GivenUp(D) EXCEPT ![i] =
                     IF fin THEN Reset(o) ELSE [o EXCEPT !.inq = @ \o ks]]
      /\ UNCHANGED nconn

Poll ==
  \E D \in SUBSET {i \in Slot : Live(slots[i])} :
    \/ Silent(D)
    \/ \E i \in Slot :
         \/ \E h \in Hosts : Syn(D, i, h)
         \/ Rst(D, i)
         \/ \E opens, fin \in BOOLEAN, ks \in Bursts : Segment(D, i, opens, ks, fin)

---------------------------------------------------------------------------
(* The calls of the framing code.                                          *)

TakeNew(i) ==
  /\ slots[i].fresh /\ \A j \in Slot : slots[j].fresh => i <= j
  /\ slots' = [slots EXCEPT ![i].fresh = FALSE]
  /\ UNCHANGED nconn

Getc(i) ==
  /\ slots[i].inq # <<>>
  /\ slots' = [slots EXCEPT ![i].inq = Tail(@)]
  /\ UNCHANGED nconn

SetReady(i) == slots' = [slots EXCEPT ![i].ready = TRUE] /\ UNCHANGED nconn

Drop(i) == slots' = [slots EXCEPT ![i] = Reset(@)] /\ UNCHANGED nconn

(* net_tx_putc drops the admitted slots whose peer has gone silent         *)
Audience == {i \in Slot : slots[i].st = "open" /\ slots[i].ready}
Cull(D) == D \subseteq Audience /\ slots' = GivenUp(D) /\ UNCHANGED nconn

NewSlot == [st |-> "free", host |-> NoHost, conn |-> 0, fresh |-> FALSE,
            ready |-> FALSE, inq |-> <<>>]

Init == slots = [i \in Slot |-> NewSlot] /\ nconn = 0

Next == \/ Poll
        \/ \E i \in Slot : TakeNew(i) \/ Getc(i) \/ SetReady(i) \/ Drop(i)
        \/ \E D \in SUBSET Slot : Cull(D)

Spec == Init /\ [][Next]_<<slots, nconn>>
=============================================================================

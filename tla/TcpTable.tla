------------------------------ MODULE TcpTable ------------------------------
(***************************************************************************)
(* The slot table of net.c as an implementation of SlotTable: what of a    *)
(* struct conn its users can see.                                          *)
(***************************************************************************)
EXTENDS Tcp

StOf(c) == CASE c.tstate = "LISTEN" -> "free" [] c.tstate = "SYNRCVD" -> "half"
             [] c.tstate = "ESTAB" -> "open"
HostOf(c) == IF c.peer = NoPeer THEN NoPeer ELSE IpOf[c.peer]

AbstractSlot(c) ==
  [st |-> StOf(c), host |-> HostOf(c), conn |-> c.id,
   fresh |-> c.just_estab, ready |-> c.ready, inq |-> Waiting(c)]

AbstractTable(cs) == [i \in Slots |-> AbstractSlot(cs[i])]

T == INSTANCE SlotTable WITH
  NSlots <- NCONN, Hosts <- {IpOf[x] : x \in Clients}, NoHost <- NoPeer,
  MaxConn <- Len(ISS), Bursts <- {KeysFrom(a, b) : a \in Keys, b \in Keys},
  slots <- AbstractTable(conns), nconn <- nsyn

(* Every step of net.c is a step of the slot table its framing code relies *)
(* on, or changes nothing the framing code can see: slots open only        *)
(* through the handshake, are taken over only by their own host, lose      *)
(* ready and the received bytes only by being reset, and hand over the     *)
(* bytes in the order they were acknowledged.                              *)
ImplementsSlotTable == T!Spec
=============================================================================

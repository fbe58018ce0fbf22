------------------------------ MODULE Console ------------------------------
(***************************************************************************)
(* The timer tick in telnet mode (net_tick of dosshd/dosshd.c): net_poll,  *)
(* telnet_begin for every new connection, every received byte of every     *)
(* slot through telnet_in, one round of broadcast.  pc and cur are the     *)
(* position inside net_tick; in_tick keeps a nested tick out, so only the  *)
(* peers act between the steps and they act through net_poll.              *)
(*                                                                         *)
(* The network is the slot table that net.c implements (SlotTable), the    *)
(* framing is telnet.c (Telnet).                                           *)
(***************************************************************************)
EXTENDS SlotTable, Telnet

ASSUME TableAssumption == NSlots \in Nat \ {0} /\ MaxConn \in Nat

(* a receive ring holds named bytes, and what is left of a burst once a    *)
(* byte is taken is a burst too                                            *)
ASSUME BurstsAssumption ==
  /\ Bursts \subseteq Seq(STRING) /\ <<>> \in Bursts
  /\ \A ks \in Bursts : ks # <<>> => Tail(ks) \in Bursts

VARIABLES
  tel,        \* tel[i]: the telnet state of slot i
  pc, cur,    \* where net_tick is: "idle", "begin", "drain" (at slot cur), "tx"
  begun,      \* history: connections telnet_begin was called for
  passed,     \* history: connections that gave the password, or needed none
  fails,      \* history: fails[n], wrong passwords of connection n
  fed,        \* history: connections whose bytes telnet_in was given
  mapped,     \* history: connections whose bytes reached ansi_key_byte
  shown,      \* history: connections a screen byte was queued for
  heirs       \* history: connections opened in a slot another still held

history == <<begun, passed, fails, fed, mapped, shown, heirs>>
cvars == <<slots, nconn, tel, pc, cur, history>>

Conns == 1..MaxConn

---------------------------------------------------------------------------
(* net_poll, the first call of net_tick                                    *)
net_poll ==
  /\ pc = "idle" /\ pc' = "begin"
  /\ \E D \in SUBSET {i \in Slot : Live(slots[i])} :
       \/ Silent(D) /\ UNCHANGED heirs
       \/ \E i \in Slot :
            \/ \E h \in Hosts :
                 /\ Syn(D, i, h)
                 /\ heirs' = IF Live(GivenUp(D)[i]) THEN heirs \cup {nconn + 1}
                             ELSE heirs
            \/ Rst(D, i) /\ UNCHANGED heirs
            \/ \E opens, fin \in BOOLEAN, ks \in Bursts :
                 Segment(D, i, opens, ks, fin) /\ UNCHANGED heirs
  /\ UNCHANGED <<tel, cur, begun, passed, fails, fed, mapped, shown>>

(* the slot table after an effect on slot i, s being the slot before it    *)
Applied(i, s, e) ==
  [slots EXCEPT ![i] = IF e.drop THEN Reset(s)
                       ELSE [s EXCEPT !.ready = @ \/ e.ready]]

(* while( (i = net_take_new_slot()) >= 0 ) telnet_begin( i );              *)
Begin(i) ==
  LET s == slots[i]
      e == telnet_begin(tel[i])
  IN  /\ pc = "begin"
      /\ s.fresh /\ \A j \in Slot : slots[j].fresh => i <= j
      /\ slots' = Applied(i, [s EXCEPT !.fresh = FALSE], e)
      /\ tel' = [tel EXCEPT ![i] = e.t]
      /\ begun' = begun \cup {s.conn}
      /\ passed' = IF e.ready THEN passed \cup {s.conn} ELSE passed
      /\ UNCHANGED <<nconn, pc, cur, fails, fed, mapped, shown, heirs>>

BeginDone ==
  /\ pc = "begin" /\ \A i \in Slot : ~slots[i].fresh
  /\ pc' = "drain" /\ cur' = 0
  /\ UNCHANGED <<slots, nconn, tel, history>>

(* while( (b = net_rx_getc( i )) >= 0 ) telnet_in( i, b );                 *)
Drain ==
  LET s == slots[cur]
      e == telnet_in(tel[cur], Head(s.inq))
  IN  /\ pc = "drain" /\ s.inq # <<>>
      /\ slots' = Applied(cur, [s EXCEPT !.inq = Tail(@)], e)
      /\ tel' = [tel EXCEPT ![cur] = e.t]
      /\ fed' = fed \cup {s.conn}
      /\ mapped' = IF e.keys # <<>> THEN mapped \cup {s.conn} ELSE mapped
      /\ passed' = IF e.ready THEN passed \cup {s.conn} ELSE passed
      /\ fails' = [fails EXCEPT ![s.conn] = @ + e.t.tries - tel[cur].tries]
      /\ UNCHANGED <<nconn, pc, cur, begun, shown, heirs>>

DrainNext ==
  /\ pc = "drain" /\ slots[cur].inq = <<>>
  /\ IF cur + 1 \in Slot THEN cur' = cur + 1 /\ UNCHANGED pc
     ELSE pc' = "tx" /\ cur' = 0
  /\ UNCHANGED <<slots, nconn, tel, history>>

(* tx_pump and net_tx_flush: the dead are dropped, and unless somebody is  *)
(* slow the rest of the audience is shown the next screen byte             *)
Transmit ==
  /\ pc = "tx" /\ pc' = "idle"
  /\ \/ /\ \E i \in Slot : slots[i].st = "open"
        /\ \E D \in SUBSET Audience :
             /\ Cull(D)
             /\ \/ UNCHANGED shown
                \/ shown' = shown \cup {slots[i].conn : i \in Audience \ D}
     \/ /\ \A i \in Slot : slots[i].st # "open"
        /\ UNCHANGED <<slots, nconn, shown>>
  /\ UNCHANGED <<tel, cur, begun, passed, fails, fed, mapped, heirs>>

ConsoleInit ==
  /\ Init
  /\ tel = [i \in Slot |-> Idle] /\ pc = "idle" /\ cur = 0
  /\ begun = {} /\ passed = {} /\ fed = {} /\ mapped = {} /\ shown = {}
  /\ heirs = {} /\ fails = [n \in Conns |-> 0]

net_tick == \/ net_poll \/ (\E i \in Slot : Begin(i)) \/ BeginDone
            \/ Drain \/ DrainNext \/ Transmit

ConsoleSpec == ConsoleInit /\ [][net_tick]_cvars

---------------------------------------------------------------------------
ConsoleTypeOK ==
  /\ slots \in [Slot -> [st: {"free", "half", "open"}, host: Hosts \cup {NoHost},
                         conn: 0..MaxConn, fresh: BOOLEAN, ready: BOOLEAN,
                         inq: Bursts]]
  /\ nconn \in 0..MaxConn /\ pc \in {"idle", "begin", "drain", "tx"} /\ cur \in Slot
  /\ \A i \in Slot : /\ tel[i].iac \in 0..4 /\ tel[i].tries \in 0..3
                     /\ Len(tel[i].buf) <= AuMax /\ Len(tel[i].sb) <= SbMax
  /\ begun \cup passed \cup fed \cup mapped \cup shown \cup heirs
       \subseteq Conns

(* A byte drives the machine only if the connection it came on has given   *)
(* the password: au_state is per slot and slots are reused, taken over and *)
(* dropped in the middle of a queue, so the gate of one connection must    *)
(* never serve the next (telnet.c:50-57).                                  *)
KeysPassTheGate == mapped \subseteq passed

(* telnet_in and the broadcast see a connection only after telnet_begin    *)
(* has reset the slot's telnet state for it, also when the slot had been   *)
(* in use the tick before; the state is well typed, the collectors of the  *)
(* password and of subnegotiations within their buffers included.          *)
BegunFirst == ConsoleTypeOK /\ fed \cup shown \subseteq begun

(* Three wrong passwords end a connection: no fourth line of it is ever    *)
(* looked at, even when more lines are already in the receive ring, and    *)
(* the count does not carry over to the slot's next connection.            *)
ThreeStrikes ==
  \A n \in Conns : /\ fails[n] <= 3
                   /\ fails[n] = 3 => \A i \in Slot : Live(slots[i]) => slots[i].conn # n

(* The screen is broadcast to connections that passed the gate, except     *)
(* possibly to one that opened in a slot its host's previous connection    *)
(* still held.                                                             *)
ScreenPassesTheGate == shown \subseteq passed \cup heirs

(* net.c:601-602: "Not-ready slots (connected but not past the auth gate)  *)
(* are excluded entirely, so an unauthenticated client never sees the      *)
(* screen".                                                                *)
ScreenOnlyIfPassed == shown \subseteq passed
=============================================================================

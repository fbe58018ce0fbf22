------------------------------ MODULE SshTick ------------------------------
(***************************************************************************)
(* The timer tick in SSH mode over the network (ssh_net_worker of          *)
(* dosshd/dosshd.c): net_poll, ssh_reset for every new connection, one     *)
(* service of every slot, the broadcast of the screen in rounds.  in_tick  *)
(* keeps a nested tick out, so each of these is one step; the peers act    *)
(* through net_poll.                                                       *)
(*                                                                         *)
(* The network is the slot table (SlotTable) with, for every slot, the     *)
(* number of units in its send ring; the framing is ssh.c (Ssh).  The      *)
(* clients are SSH clients in the state peer[n] of connection n: before    *)
(* authentication they send anything in any order, afterwards they keep    *)
(* to the channel protocol and its windows.                                *)
(***************************************************************************)
EXTENDS SlotTable, Ssh

CONSTANTS
  RING,        \* units a send ring holds (SND_SZ - 1)
  RESERVE,     \* SSH_RING_RESERVE, in units
  RB,          \* units one service reads (sizeof rb)
  TX_BUDGET,   \* screen pieces one tick may broadcast
  FRAME,       \* screen pieces of a full repaint
  PARTS,       \* units of a KEXINIT that come before its last
  EofExit,     \* /EOF: Ctrl-D ends the client's session
  MaxWin,      \* bound: the window a client opens for us
  Casts        \* Casts[k][n]: the client of connection n in cast k, its login
               \* (messages it begins with, in order), what it sends then, and
               \* whether it is patient: it reads all it was sent before it talks

VARIABLES
  conn,        \* ssh_slots
  active,      \* ssh_active; a slot that is not active is not read, and its
               \* state is zeroed here before ssh_reset does it
  seen,        \* ssh_ready_seen
  ob, cin,     \* g_ob and g_cin, shared by all slots
  used,        \* used[i]: units in the send ring of slot i
  late,        \* slots with rexmit_count > 0 in the broadcast
  size,        \* g_ssh_cols
  repaint,     \* pieces left of the repaint that render_reset asked for
  budget,      \* left of TX_BUDGET
  pc, cur,     \* "poll", "serve" (slot cur is next), "tx"
  cast,        \* the cast of this behaviour
  peer,        \* peer[i]: the client of the connection in slot i
  spilled      \* history: a service left packets in g_ob

netvars == <<slots, nconn, used>>
svars == <<netvars, conn, active, seen, ob, cin, late, size, repaint, budget,
           pc, cur, cast, peer, spilled>>

---------------------------------------------------------------------------
(* The clients.                                                            *)

NewPeer == [step |-> 0, parts |-> 0, keyed |-> FALSE, wrong |-> 0, proved |-> FALSE,
            authed |-> FALSE, opened |-> FALSE, up |-> FALSE, over |-> FALSE,
            win |-> 0, credit |-> 0, sealed |-> FALSE, closed |-> FALSE,
            readable |-> TRUE, typed |-> FALSE, shown |-> FALSE,
            synced |-> FALSE, whole |-> TRUE]

Good(m) ==
  \/ ~HavePassword /\ ~HaveKeys
  \/ HavePassword /\ m.method = "password" /\ m.known
  \/ HaveKeys /\ m.method = "publickey" /\ m.signed /\ m.known /\ m.verifies

Harmless(m) == m.method = "none" \/ (m.method = "publickey" /\ m.known /\ ~m.signed)

ChannelUse == {"CHANNEL_REQUEST", "CHANNEL_DATA", "WINDOW_ADJUST", "CHANNEL_CLOSE"}

(* the bytes of data a message carries                                     *)
DataOf(m) == IF m.whole THEN Min2(m.dlen, Len(m.keys)) ELSE 0

MaySay(p, m) ==
  /\ ~p.over /\ p.readable
  /\ IF m.t = "PART" THEN p.parts < PARTS
     ELSE p.parts = IF m.t = "KEXINIT" THEN PARTS ELSE 0
  /\ m.t = "CHANNEL_OPEN" => p.authed
  /\ m.t \in ChannelUse => p.up
  /\ m.t = "CHANNEL_DATA" => DataOf(m) <= p.credit
  /\ m.t = "WINDOW_ADJUST" /\ m.whole => p.win + m.n <= MaxWin

Noted(p, m) ==
  CASE m.t = "PART" -> [p EXCEPT !.parts = @ + 1]
    [] m.t = "KEXINIT" -> [p EXCEPT !.parts = 0]
    [] m.t = "NEWKEYS" -> [p EXCEPT !.keyed = TRUE]
    [] m.t = "USERAUTH_REQUEST" ->
         [p EXCEPT !.proved = @ \/ (Good(m) /\ p.wrong < MAX_AUTH_TRIES),
                   !.wrong = IF Good(m) \/ Harmless(m) \/ @ = MAX_AUTH_TRIES
                             THEN @ ELSE @ + 1]
    [] m.t = "CHANNEL_OPEN" ->
         IF p.opened \/ ~m.whole \/ m.type # "session" THEN p
         ELSE [p EXCEPT !.opened = TRUE, !.win = m.window]
    [] m.t = "CHANNEL_DATA" -> [p EXCEPT !.credit = @ - DataOf(m)]
    [] m.t = "WINDOW_ADJUST" -> [p EXCEPT !.win = IF m.whole THEN @ + m.n ELSE @]
    [] m.t = "CHANNEL_CLOSE" -> [p EXCEPT !.up = FALSE]
    [] m.t = "DISCONNECT" -> [p EXCEPT !.over = TRUE]
    [] OTHER -> p

(* what client p of the kind a may say next, as <<units, the client then>> *)
Utterances(p, a) ==
  LET next == IF p.step < Len(a.login) THEN {a.login[p.step + 1]} ELSE a.then
  IN  {<< <<[m |-> m, enc |-> p.keyed]>>,
          [Noted(p, m) EXCEPT !.step = Min2(@ + 1, Len(a.login))]>> :
       m \in {m \in next : MaySay(p, m)}}

(* one message or two in a segment                                         *)
Segments(p, a) ==
  Utterances(p, a) \cup
  UNION {{<<u[1] \o v[1], v[2]>> : v \in Utterances(u[2], a)} : u \in Utterances(p, a)}

(* a packet reaches the client of connection n: it must have been sealed   *)
(* for that client, in the mode the client expects at this point           *)
Receive(p, n, pkt) ==
  IF pkt.to # n THEN [p EXCEPT !.readable = FALSE]
  ELSE [p EXCEPT
          !.readable = @ /\ pkt.sealed = p.sealed
                         /\ (pkt.m = "CHANNEL_DATA" => ~p.closed),
          !.sealed = @ \/ pkt.m = "NEWKEYS",
          !.authed = @ \/ pkt.m = "SUCCESS",
          !.up = @ \/ pkt.m = "OPEN_CONFIRMATION",
          !.closed = @ \/ pkt.m = "CHANNEL_CLOSE",
          !.credit = IF pkt.m \in {"OPEN_CONFIRMATION", "WINDOW_ADJUST"}
                     THEN @ + pkt.n ELSE @,
          !.win = IF pkt.m = "CHANNEL_DATA" THEN @ - pkt.n ELSE @]

(* a packet that was sealed and is not on its way to its client leaves a   *)
(* hole in that client's stream                                            *)
Lose(P, pkt) ==
  [i \in Slot |-> IF slots[i].conn = pkt.to THEN [P[i] EXCEPT !.readable = FALSE]
                  ELSE P[i]]

Deliver(P, i, pkt) ==
  [Lose(P, pkt) EXCEPT ![i] = Receive(P[i], slots[i].conn, pkt)]

---------------------------------------------------------------------------
(* net_poll: the table, the rings of the slots that were given up, taken   *)
(* or acknowledged, and what their clients sent; the clients of closed     *)
(* slots are forgotten                                                     *)
net_poll ==
  /\ pc = "poll" /\ pc' = "serve" /\ cur' = 0
  /\ \E D \in SUBSET {i \in Slot : Live(slots[i])} :
       LET kept == [i \in Slot |-> IF i \in D THEN 0 ELSE used[i]]
           met == [i \in Slot |-> IF Live(slots[i]) THEN peer[i] ELSE NewPeer]
       IN  \/ Silent(D) /\ used' = kept /\ peer' = met
           \/ \E i \in Slot :
                \/ /\ nconn < Len(Casts[cast]) /\ (\E h \in Hosts : Syn(D, i, h))
                   /\ used' = [kept EXCEPT ![i] = 0]
                   /\ peer' = [met EXCEPT ![i] = NewPeer]
                \/ Rst(D, i) /\ used' = [kept EXCEPT ![i] = 0] /\ peer' = met
                \/ /\ Live(slots[i])
                   /\ \E opens, fin \in BOOLEAN, k \in {0, kept[i]} :
                        /\ used' = [kept EXCEPT ![i] = IF fin THEN 0 ELSE k]
                        /\ \/ Segment(D, i, opens, <<>>, fin) /\ peer' = met
                           \/ LET a == Casts[cast][slots[i].conn]
                              IN  /\ a.patient => k = 0
                                  /\ \E u \in Segments(peer[i], a) :
                                       /\ Segment(D, i, opens, u[1], fin)
                                       /\ peer' = [met EXCEPT ![i] = u[2]]
  /\ UNCHANGED <<conn, active, seen, ob, cin, late, size, repaint, budget,
                 cast, spilled>>

(* ssh_pump_output: x is the state s of a call on slot i with the ring of  *)
(* the slot and the clients                                                *)
ssh_pump_output(x, i) ==
  LET o == ssh_output(x.s.ob, RING - x.used)
  IN  [x EXCEPT !.s.ob = o.rest, !.used = @ + Len(o.sent),
                !.peer = FoldLeft(LAMBDA P, p : Deliver(P, i, p), @, o.sent)]

(* while( (i = net_take_new_slot()) >= 0 ): whatever g_ob still held is    *)
(* gone                                                                    *)
Begin(i) ==
  /\ pc = "serve" /\ cur = 0 /\ TakeNew(i)
  /\ \E x \in {ssh_pump_output([s |-> ssh_reset(slots[i].conn), used |-> used[i],
                                peer |-> FoldLeft(Lose, peer, ob)], i)} :
       /\ conn' = [conn EXCEPT ![i] = x.s.c]
       /\ ob' = x.s.ob /\ cin' = x.s.cin
       /\ used' = [used EXCEPT ![i] = x.used]
       /\ peer' = x.peer
       /\ spilled' = (spilled \/ x.s.ob # <<>>)
  /\ active' = [active EXCEPT ![i] = TRUE]
  /\ seen' = [seen EXCEPT ![i] = FALSE]
  /\ size' = 80
  /\ UNCHANGED <<late, repaint, budget, pc, cur, cast>>

---------------------------------------------------------------------------
(* The service of slot cur.                                                *)

Ready == {i \in Slot : active[i] /\ slots[i].st = "open" /\ ssh_channel_ready(conn[i])}

(* on to the next slot, or to the broadcast if anybody is ready; which     *)
(* slots have resent their oldest bytes is decided there                   *)
NextSlot ==
  IF cur + 1 \in Slot THEN cur' = cur + 1 /\ UNCHANGED <<pc, late, budget>>
  ELSE /\ cur' = 0
       /\ \/ Ready' = {} /\ pc' = "poll" /\ UNCHANGED <<late, budget>>
          \/ /\ Ready' # {} /\ pc' = "tx" /\ budget' = TX_BUDGET
             /\ \E L \in SUBSET {i \in Ready' : used'[i] > 0} : late' = L

AllBegun == \A i \in Slot : ~slots[i].fresh

(* an inactive slot, or one whose peer went away                           *)
Skip ==
  /\ pc = "serve" /\ AllBegun /\ ~(active[cur] /\ slots[cur].st = "open")
  /\ active' = [active EXCEPT ![cur] = FALSE]
  /\ seen' = [seen EXCEPT ![cur] = FALSE]
  /\ conn' = [conn EXCEPT ![cur] = ZeroConn]
  /\ UNCHANGED <<netvars, ob, cin, size, repaint, cast, peer, spilled>>
  /\ NextSlot

Ended(c) == c.chan_closed \/ c.state \in {"ERROR", "CLOSED"}

(* teardown: what does not fit the ring is discarded                       *)
Torn(x, i) == [ssh_pump_output(x, i) EXCEPT !.s.ob = <<>>]

(* bytes in, a note of who typed, replies out                              *)
Typed(x, i, old) == [x EXCEPT !.peer[i].typed = @ \/ x.s.cin # old]
Fed(x, i, units) ==
  ssh_pump_output(IF units = <<>> THEN x
                  ELSE Typed([x EXCEPT !.s = ssh_input(@, units)], i, x.s.cin), i)

(* keys to DOS, up to a Ctrl-D                                             *)
Closed(x) == [x EXCEPT !.s = ssh_channel_close(@)]
Drained(x, i) ==
  LET e == IF EofExit THEN SelectInSeq(x.s.cin, LAMBDA b : b = "EOT") ELSE 0
  IN  IF e = 0 THEN [x EXCEPT !.s.cin = <<>>]
      ELSE ssh_pump_output(Closed([x EXCEPT !.s.cin = SubSeq(@, e + 1, Len(@))]), i)

(* then a repaint for a shell that came up or a size that differs, and the *)
(* teardown                                                                *)
Serve ==
  LET i == cur
      k == Min2(RB, Len(slots[i].inq))
      s == [c |-> conn[i], id |-> slots[i].conn, ob |-> ob, cin |-> cin, cout |-> 0]
  IN  /\ pc = "serve" /\ AllBegun /\ active[i] /\ slots[i].st = "open"
      /\ \E y \in {Drained(Fed([s |-> s, used |-> used[i], peer |-> peer], i,
                               SubSeq(slots[i].inq, 1, k)), i)} :
         \E x \in {IF Ended(y.s.c) THEN Torn(y, i) ELSE y} :
           LET up  == ssh_channel_ready(x.s.c)
               w   == ssh_winsize(x.s.c)
               end == Ended(x.s.c)
           IN  /\ slots' = [slots EXCEPT ![i] = IF end THEN Reset(@)
                              ELSE [@ EXCEPT !.inq = SubSeq(@, k + 1, Len(@))]]
               /\ used' = [used EXCEPT ![i] = IF end THEN 0 ELSE x.used]
               /\ conn' = [conn EXCEPT ![i] = IF end THEN ZeroConn ELSE x.s.c]
               /\ active' = [active EXCEPT ![i] = ~end]
               /\ seen' = [seen EXCEPT ![i] = (@ \/ up) /\ ~end]
               /\ repaint' = IF up /\ (~seen[i] \/ w # size) THEN FRAME ELSE repaint
               /\ size' = IF up THEN w ELSE size
               /\ ob' = x.s.ob /\ cin' = x.s.cin
               /\ peer' = x.peer
               /\ spilled' = (spilled \/ x.s.ob # <<>>)
      /\ UNCHANGED <<nconn, cast>>
      /\ NextSlot

---------------------------------------------------------------------------
(* The broadcast, one round after the other.                               *)

(* what slot i takes now: its window, if the ring has room for one packet  *)
(* beyond the reserve                                                      *)
Cap(i) == IF RING - used[i] > RESERVE THEN ssh_channel_avail(conn[i]) ELSE 0

net_slot_stalled(i) == used[i] >= RING /\ i \in late

ssh_channel_emit(c, n) ==
  LET fits == /\ ssh_channel_ready(c) /\ c.send_encrypted
              /\ n <= c.peer_window /\ n <= c.peer_maxpkt
  IN  [c |-> IF fits THEN [c EXCEPT !.peer_window = @ - n] ELSE c, sent |-> fits]

(* a piece of the screen goes straight to the ring, past whatever of this  *)
(* connection is still in g_ob; a slot that refuses it misses it           *)
Show(i, n) ==
  LET p == peer[i]
      data == [to |-> slots[i].conn, m |-> "CHANNEL_DATA", n |-> n, sealed |-> TRUE]
  IN  IF ~ssh_channel_emit(conn[i], n).sent THEN [p EXCEPT !.whole = FALSE]
      ELSE [Receive(p, slots[i].conn, data)
              EXCEPT !.readable = @ /\ used[i] < RING
                                    /\ \A q \in Range(ob) : q.to # slots[i].conn,
                     !.shown = TRUE, !.synced = @ \/ repaint = FRAME,
                     !.whole = @ /\ (p.synced \/ repaint = FRAME)]

Evicted == {i \in Ready : Cap(i) = 0 /\ net_slot_stalled(i)}

Round ==
  LET R == Ready \ Evicted
      cap == Min({Cap(i) : i \in R} \cup {CHAN_CHUNK})
  IN  /\ pc = "tx" /\ Ready # {} /\ cap > 0 /\ budget > 0
      /\ \E n \in 1..Min2(cap, budget) :
           /\ conn' = [i \in Slot |-> IF i \in R THEN ssh_channel_emit(conn[i], n).c
                                      ELSE IF i \in Evicted THEN ZeroConn ELSE conn[i]]
           /\ peer' = [i \in Slot |-> IF i \in R THEN Show(i, n) ELSE peer[i]]
           /\ budget' = budget - n
           /\ repaint' = IF n < repaint THEN repaint - n ELSE 0
      /\ slots' = GivenUp(Evicted)
      /\ used' = [i \in Slot |-> IF i \in Evicted THEN 0
                                 ELSE IF i \in R THEN Min2(used[i] + 1, RING) ELSE used[i]]
      /\ active' = [i \in Slot |-> active[i] /\ i \notin Evicted]
      /\ seen' = [i \in Slot |-> seen[i] /\ i \notin Evicted]
      /\ UNCHANGED <<nconn, ob, cin, late, size, pc, cur, cast, spilled>>

(* nobody to show it to, somebody slow or nothing new; with the budget     *)
(* spent the slots are not looked at again                                 *)
RoundsDone ==
  LET gone == IF budget = 0 THEN {} ELSE Evicted
  IN  /\ pc = "tx" /\ pc' = "poll" /\ late' = {} /\ budget' = 0
      /\ \/ budget = 0 \/ Ready = {} \/ repaint = 0
         \/ \E i \in Ready \ Evicted : Cap(i) = 0
      /\ slots' = GivenUp(gone)
      /\ used' = [i \in Slot |-> IF i \in gone THEN 0 ELSE used[i]]
      /\ active' = [i \in Slot |-> active[i] /\ i \notin gone]
      /\ seen' = [i \in Slot |-> seen[i] /\ i \notin gone]
      /\ conn' = [i \in Slot |-> IF i \in gone THEN ZeroConn ELSE conn[i]]
      /\ UNCHANGED <<nconn, ob, cin, size, repaint, cur, cast, peer, spilled>>

---------------------------------------------------------------------------
SshInit ==
  /\ Init
  /\ conn = [i \in Slot |-> ZeroConn]
  /\ active = [i \in Slot |-> FALSE] /\ seen = [i \in Slot |-> FALSE]
  /\ ob = <<>> /\ cin = <<>> /\ used = [i \in Slot |-> 0] /\ late = {}
  /\ size = 80 /\ repaint = 0 /\ budget = 0 /\ pc = "poll" /\ cur = 0
  /\ cast \in DOMAIN Casts /\ peer = [i \in Slot |-> NewPeer] /\ spilled = FALSE

ssh_net_worker ==
  net_poll \/ (\E i \in Slot : Begin(i)) \/ Skip \/ Serve \/ Round \/ RoundsDone

(* the timer keeps ticking: no phase of the worker lasts for ever          *)
Ticks == pc' \in {"poll", "serve", "tx"}

---------------------------------------------------------------------------
SshTypeOK ==
  /\ \A i \in Slot : /\ conn[i].state \in States /\ Len(conn[i].ib) <= IB_SZ
                     /\ conn[i].auth_fails \in 0..MAX_AUTH_TRIES
                     /\ conn[i].local_window \in 0..LOCAL_WINDOW
                     /\ conn[i].peer_window \in 0..MaxWin
                     /\ used[i] \in 0..RING
  /\ Len(ob) <= OB_SZ /\ Len(cin) < CIN_SZ /\ cur \in Slot /\ late \subseteq Slot
  /\ pc \in {"poll", "serve", "tx"} /\ budget \in 0..TX_BUDGET

(* Keys and screen only for a client that has proved itself: a matching    *)
(* password or a verifying signature of an authorized key, after at most   *)
(* two wrong attempts (handle_userauth_request, handle_packet; the shared  *)
(* keystroke ring, the broadcast and the reuse of slots included).         *)
OnlyTheProved == \A i \in Slot : peer[i].typed \/ peer[i].shown => peer[i].proved

(* Every client can read every packet on its wire: sealed for it and not   *)
(* for another slot's client, in sealing order with none missing, in the   *)
(* clear up to NEWKEYS and sealed after it, no screen after the close.     *)
(* One exception: a ring without room for a slot's replies, which then     *)
(* stay in the shared g_ob.  No buffer is overrun in any case (SshTypeOK). *)
StreamsReadable ==
  SshTypeOK /\ (~spilled => \A i \in Slot : peer[i].readable \/ peer[i].over)

(* Every client that is shown the screen is shown all of it: it starts     *)
(* with a repaint and misses no chunk that the others get, whatever joins, *)
(* leaves, resizes or blocks in between.                                   *)
ScreensWhole == \A i \in Slot : peer[i].whole

(* The window a client opened is never overrun, and both sides count the   *)
(* server's window alike: a client whose bytes have all been read and      *)
(* whose packets have all been sent may send as much as the server thinks, *)
(* and at least half the window.                                           *)
WindowsAgree ==
  \A i \in Slot :
    LET c == conn[i]
    IN  /\ peer[i].win >= 0
        /\ (/\ pc = "poll" /\ active[i] /\ slots[i].st = "open" /\ ~slots[i].fresh
            /\ slots[i].inq = <<>> /\ c.ib = <<>> /\ ob = <<>> /\ ~spilled
            /\ c.state = "SESSION" /\ c.chan_open)
           => peer[i].credit = c.local_window /\ 2 * peer[i].credit >= LOCAL_WINDOW

(* dosshd.c:447-448: "force a full repaint so THIS client gets the whole   *)
(* screen off the shared shadow": as long as the same shells stay up and   *)
(* time and again nobody holds the broadcast up, a repaint that is asked   *)
(* for is sent to its end.                                                 *)
RepaintCompletes ==
  /\ <>[](Ready = Slot)
  /\ []<>(pc = "tx" /\ budget = TX_BUDGET /\ \A i \in Slot : Cap(i) > 0)
  => []<>(repaint = 0)
=============================================================================

----------------------------- MODULE SshSerial -----------------------------
(***************************************************************************)
(* ssh_worker of dosshd/dosshd.c: the tick over the network (SshTick) or   *)
(* over COM1.  On the serial line there are no connection events: clients  *)
(* follow one another on the same wire, and the worker starts an SSH       *)
(* session over when bytes arrive and the last one has ended.              *)
(*                                                                         *)
(* The line is slot 0: inq the bytes the UART has received, conn the       *)
(* number of the client at the other end.                                  *)
(***************************************************************************)
EXTENDS SshTick

CONSTANTS
  SerialCasts,  \* the casts that are on a serial line
  SER           \* units ssh_serial_pump_output writes in one call

VARIABLES
  started,      \* g_ssh_ser_started; the client ssh_reset was last called for
  cout          \* g_cout: screen pieces staged for the channel

wvars == <<svars, started, cout>>

g_ssh_serial == cast \in SerialCasts

---------------------------------------------------------------------------
(* The other end of the line.                                              *)

(* the session of the last client is over, nothing of it is left to send   *)
(* and its channel was closed: a session that ended in another way (an     *)
(* error, a DISCONNECT) keeps sending the screen until it is started over  *)
LineClear ==
  started = 0 \/ (/\ conn[0].state \in {"ERROR", "CLOSED"} /\ ob = <<>>
                  /\ ~ssh_channel_ready(conn[0]))

(* the next client                                                         *)
Dial ==
  /\ g_ssh_serial /\ pc = "poll" /\ nconn < Len(Casts[cast]) /\ slots[0].inq = <<>>
  /\ nconn' = nconn + 1
  /\ slots' = [slots EXCEPT ![0] = [@ EXCEPT !.st = "open", !.conn = nconn + 1]]
  /\ peer' = [peer EXCEPT ![0] = NewPeer]
  /\ spilled' = ~LineClear
  /\ UNCHANGED <<conn, active, seen, ob, cin, used, late, size, repaint, budget,
                 pc, cur, cast, started, cout>>

(* a client seals nothing before it has heard the server's NEWKEYS         *)
Talk ==
  /\ g_ssh_serial /\ pc = "poll" /\ slots[0].st = "open" /\ Len(slots[0].inq) < RB
  /\ \E u \in Segments(peer[0], Casts[cast][slots[0].conn]) :
       /\ u[2].keyed => peer[0].sealed
       /\ slots' = [slots EXCEPT ![0].inq = @ \o u[1]]
       /\ peer' = [peer EXCEPT ![0] = u[2]]
  /\ UNCHANGED <<nconn, conn, active, seen, ob, cin, used, late, size, repaint,
                 budget, pc, cur, cast, spilled, started, cout>>

---------------------------------------------------------------------------
ssh_serial_pump_output(x) ==
  LET o == ssh_output(x.s.ob, SER)
  IN  [x EXCEPT !.s.ob = o.rest,
                !.peer = FoldLeft(LAMBDA P, p : Deliver(P, 0, p), @, o.sent)]

(* mutant: a session that has ended is not started over                    *)
Restarts_Once(k) == k > 0 /\ started = 0

(* the first bytes, or the first after a session that ended                *)
Restarts(k) == k > 0 /\ (started = 0 \/ conn[0].state \in {"ERROR", "CLOSED"})

(* ssh_tx_pump: up to n pieces, as many as the staging buffer takes        *)
ssh_tx_pump(s, n) == FoldLeft(LAMBDA t, k : ssh_channel_putc(t), s, [k \in 1..n |-> k])

(* the screen goes to the channel, n pieces of it                          *)
Painted(x, n, asked, id) ==
  LET mine == n > 0 /\ id = slots[0].conn
  IN  [x EXCEPT !.peer[0].shown = @ \/ mine,
                !.peer[0].synced = @ \/ (mine /\ asked = FRAME),
                !.peer[0].whole = @ /\ (mine => x.peer[0].synced \/ asked = FRAME)]
Flushed(x) == [x EXCEPT !.s = ssh_channel_flush(@)]

SerialFed(x, units) ==
  ssh_serial_pump_output(IF units = <<>> THEN x
                         ELSE Typed([x EXCEPT !.s = ssh_input(@, units)], 0, x.s.cin))

SerialDrained(x) ==
  LET e == IF EofExit THEN SelectInSeq(x.s.cin, LAMBDA b : b = "EOT") ELSE 0
  IN  IF e = 0 THEN [x EXCEPT !.s.cin = <<>>]
      ELSE ssh_serial_pump_output(Closed([x EXCEPT !.s.cin = SubSeq(@, e + 1, Len(@))]))

ssh_serial_worker ==
  LET k  == Min2(RB, Len(slots[0].inq))
      re == Restarts(k)
      id == IF re THEN slots[0].conn ELSE started
      s0 == IF re THEN ssh_reset(id)
            ELSE [c |-> conn[0], id |-> id, ob |-> ob, cin |-> cin, cout |-> cout]
      P0 == IF re THEN FoldLeft(Lose, peer, ob) ELSE peer
  IN  /\ g_ssh_serial /\ pc = "poll" /\ (started # 0 \/ k > 0)
      /\ slots' = [slots EXCEPT ![0].inq = SubSeq(@, k + 1, Len(@))]
      /\ started' = id
      /\ active' = [active EXCEPT ![0] = TRUE]
      /\ \E y \in {SerialFed([s |-> s0, used |-> 0, peer |-> P0],
                             SubSeq(slots[0].inq, 1, k))} :
         LET up == ssh_channel_ready(y.s.c)
             w  == ssh_winsize(y.s.c)
             asked == IF re \/ (up /\ w # size) THEN FRAME ELSE repaint
         IN  /\ size' = IF up THEN w ELSE IF re THEN 80 ELSE size
             /\ \E n \in IF up THEN 0..TX_BUDGET ELSE {0} :
                \E z \in {IF up THEN SerialDrained(y) ELSE y} :
                \E t \in {ssh_tx_pump(z.s, n)} :
                \E x \in {IF up THEN ssh_serial_pump_output(Flushed(
                                       Painted([z EXCEPT !.s = t], t.cout - z.s.cout, asked, id)))
                          ELSE y} :
                  LET took == t.cout - z.s.cout
                  IN  /\ up => (n < asked => n = TX_BUDGET \/ took < n)
                      /\ conn' = [conn EXCEPT ![0] = x.s.c]
                      /\ ob' = x.s.ob /\ cin' = x.s.cin /\ cout' = x.s.cout
                      /\ peer' = x.peer
                      /\ repaint' = IF took < asked THEN asked - took ELSE 0
      /\ UNCHANGED <<nconn, seen, used, late, budget, pc, cur, cast, spilled>>

---------------------------------------------------------------------------
WorkerInit == SshInit /\ started = 0 /\ cout = 0

ssh_worker ==
  \/ ~g_ssh_serial /\ ssh_net_worker /\ UNCHANGED <<started, cout>>
  \/ Dial \/ Talk \/ ssh_serial_worker

WorkerSpec == WorkerInit /\ [][ssh_worker]_wvars
WorkerFair == WorkerSpec /\ WF_pc(Ticks)

(* A client that finds the line clear (LineClear) is served a session of   *)
(* its own whatever those before it did, vanishing in the middle of a      *)
(* message included, and nothing it sends in its turn is taken for an      *)
(* error (ssh_serial_worker's restart, ssh_reset's emptying of the shared  *)
(* buffers).                                                               *)
NextCallerAdmitted ==
  g_ssh_serial /\ ~spilled /\ peer[0].step > 0 /\ slots[0].inq = <<>>
  => started = slots[0].conn /\ conn[0].state # "ERROR"
=============================================================================

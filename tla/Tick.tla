-------------------------------- MODULE Tick --------------------------------
(***************************************************************************)
(* The interrupts around the network tick: tick_isr and do_reboot of       *)
(* dosshd/dosshd.c, the receive buffer shared with the packet driver       *)
(* (net_poll, pkt_receiver) and the send window in which pkt_send_bigstack *)
(* acknowledges IRQ0 and enables interrupts while the driver transmits.    *)
(*                                                                         *)
(* stack holds the interrupt handlers in progress, the last one running: a *)
(* tick at some point of tick_isr, or the driver's receive interrupt.  The *)
(* 8259 delivers IRQ0 (the timer) and the NIC's IRQ only when interrupts   *)
(* are enabled and IRQ0 is not in service.                                 *)
(*                                                                         *)
(* What the service of a tick does to TCP and telnet is in Tcp and         *)
(* Console; here it is a walk through the phases of net_tick, each of      *)
(* which may build frames in g_txbuf and send them.                        *)
(***************************************************************************)
EXTENDS Integers, Sequences, FiniteSets

CONSTANTS
  MaxDepth,     \* bound: handlers nested
  MaxSends,     \* bound: frames sent while one tick is served
  MaxAsks       \* bound: reboot requests decoded while one tick is served

ASSUME TickAssumption == MaxDepth \in Nat \ {0} /\ MaxSends \in Nat /\ MaxAsks \in Nat

VARIABLES
  stack,        \* handlers in progress: [pc, ret, left, asks]
  ifl,          \* the processor's interrupt flag
  irq0,         \* IRQ0 in service at the 8259
  in_tick, sending, g_reboot,
  txbuf,        \* handler that last wrote g_txbuf (its place in stack)
  bs,           \* handler whose SS:SP is in bs_ss:bs_sp
  txdone,       \* the NIC has signalled the transmission complete
  pkt_flag,
  registered,   \* the driver has pkt_receiver (access_type, release_type)
  stage,        \* pkt_stage: "none", "half" (being copied), "whole"
  newest,       \* history: the frame delivered last, "none", "unread", "read"
  work,         \* what net_poll copied out: "none", "half", "whole", "again"
  down          \* the 8042 has reset the processor

vars == <<stack, ifl, irq0, in_tick, sending, g_reboot, txbuf, bs, txdone,
          pkt_flag, registered, stage, newest, work, down>>
rx == <<pkt_flag, stage, newest, work>>
tx == <<txbuf, bs, txdone, sending>>
boot == <<g_reboot, registered, down>>

top == Len(stack)
At(p) == top > 0 /\ ~down /\ stack[top].pc = p
Goto(p) == stack' = [stack EXCEPT ![top].pc = p]
Push(p) == stack' = Append(stack, [pc |-> p, ret |-> "none", left |-> MaxSends,
                                 asks |-> MaxAsks])
Pop == stack' = SubSeq(stack, 1, top - 1)

---------------------------------------------------------------------------
(* the hardware                                                            *)
Interruptible == ifl /\ ~irq0 /\ ~down /\ top < MaxDepth

(* INT 08h: IRQ0 in service, interrupts off, INT 1Ch reaches tick_isr      *)
Timer ==
  /\ Interruptible /\ Push("enter") /\ ifl' = FALSE /\ irq0' = TRUE
  /\ UNCHANGED <<in_tick, rx, tx, boot>>

TransmitComplete ==
  /\ ifl /\ ~irq0 /\ sending /\ ~txdone /\ ~down /\ txdone' = TRUE
  /\ UNCHANGED <<stack, ifl, irq0, in_tick, rx, boot, txbuf, bs, sending>>

(* a frame arrives: the driver asks for a buffer, pkt_receiver( AX=0 )     *)
pkt_receiver_get ==
  /\ Interruptible /\ registered /\ \A d \in 1..top : stack[d].pc # "copying"
  /\ Push("copying") /\ ifl' = FALSE /\ stage' = "half"
  /\ UNCHANGED <<irq0, in_tick, pkt_flag, newest, work, tx, boot>>

(* ... copies it, with interrupts off, and delivers it, AX=1               *)
pkt_receiver_deliver ==
  /\ At("copying") /\ Pop /\ ifl' = TRUE
  /\ stage' = "whole" /\ pkt_flag' = TRUE /\ newest' = "unread"
  /\ UNCHANGED <<irq0, in_tick, work, tx, boot>>

---------------------------------------------------------------------------
(* tick_isr                                                                *)
(* mutant: no in_tick guard                                                *)
Enter_Always ==
  /\ At("enter") /\ Goto("timers") /\ in_tick' = TRUE
  /\ UNCHANGED <<ifl, irq0, rx, tx, boot>>
Enter ==
  /\ At("enter")
  /\ IF in_tick THEN Goto("tail") /\ UNCHANGED in_tick
     ELSE Goto("timers") /\ in_tick' = TRUE
  /\ UNCHANGED <<ifl, irq0, rx, tx, boot>>

(* net_poll: tcp_timer, the staged frame, handle_frame, tcp_output         *)
TimersDone ==
  /\ At("timers") /\ Goto(IF pkt_flag THEN "disable" ELSE "output")
  /\ UNCHANGED <<ifl, irq0, in_tick, rx, tx, boot>>

(* mutant: the copy is made with interrupts as they are                    *)
Disable_Not ==
  /\ At("disable") /\ Goto("copy")
  /\ UNCHANGED <<ifl, irq0, in_tick, rx, tx, boot>>
Disable ==
  /\ At("disable") /\ Goto("copy") /\ ifl' = FALSE
  /\ UNCHANGED <<irq0, in_tick, rx, tx, boot>>

Copy ==
  /\ At("copy") /\ Goto("clear")
  /\ work' = IF newest = "read" THEN "again" ELSE stage
  /\ newest' = "read"
  /\ UNCHANGED <<ifl, irq0, in_tick, pkt_flag, stage, tx, boot>>

Clear ==
  /\ At("clear") /\ Goto("handle") /\ pkt_flag' = FALSE /\ ifl' = TRUE
  /\ UNCHANGED <<irq0, in_tick, stage, newest, work, tx, boot>>

(* the rest of net_poll and of net_tick                                    *)
NextPhase ==
  /\ \/ At("handle") /\ Goto("output")
     \/ At("output") /\ Goto("drain")
     \/ At("drain") /\ Goto("flush")
  /\ UNCHANGED <<ifl, irq0, in_tick, rx, tx, boot>>

(* a decoded key: inject_key ends with _enable                             *)
inject_key ==
  /\ At("drain") /\ ~ifl /\ ifl' = TRUE
  /\ UNCHANGED <<stack, irq0, in_tick, rx, tx, boot>>

request_reboot ==
  /\ At("drain") /\ stack[top].asks > 0 /\ g_reboot' = TRUE
  /\ stack' = [stack EXCEPT ![top].asks = @ - 1]
  /\ UNCHANGED <<ifl, irq0, in_tick, rx, tx, registered, down>>

(* a frame is put together in g_txbuf: tcp_send_seg, send_rst, arp_in      *)
Phases == {"timers", "handle", "output", "drain", "flush"}
Build ==
  /\ \E p \in Phases :
       /\ At(p) /\ stack[top].left > 0
       /\ stack' = [stack EXCEPT ![top].pc = "send", ![top].ret = p,
                                 ![top].left = @ - 1]
  /\ txbuf' = top
  /\ UNCHANGED <<ifl, irq0, in_tick, rx, bs, txdone, sending, boot>>

(* mutant: IRQ0 is not acknowledged                                        *)
pkt_send_NoEoi ==
  /\ At("send") /\ Goto("driver")
  /\ sending' = TRUE /\ bs' = top /\ txdone' = FALSE /\ ifl' = TRUE
  /\ UNCHANGED <<irq0, in_tick, rx, boot, txbuf>>

(* pkt_send and pkt_send_bigstack up to the driver call: EOI, STI          *)
pkt_send ==
  /\ At("send")
  /\ IF sending
     THEN Goto(stack[top].ret) /\ UNCHANGED <<sending, bs, txdone, ifl, irq0>>
     ELSE Goto("driver") /\ sending' = TRUE /\ bs' = top /\ txdone' = FALSE
          /\ ifl' = TRUE /\ irq0' = FALSE
  /\ UNCHANGED <<in_tick, rx, boot, txbuf>>

(* mutant: the sending guard is left up                                    *)
pkt_sent_Sending ==
  /\ At("driver") /\ txdone /\ Goto(stack[top].ret) /\ ifl' = TRUE
  /\ UNCHANGED <<irq0, in_tick, rx, tx, boot>>
(* the driver returns: STI, and sending is taken down                      *)
pkt_sent ==
  /\ At("driver") /\ txdone /\ Goto(stack[top].ret)
  /\ sending' = FALSE /\ ifl' = TRUE
  /\ UNCHANGED <<irq0, in_tick, rx, txbuf, bs, txdone, boot>>

(* mutant: in_tick is left set                                             *)
TickDone_InTick ==
  /\ At("flush") /\ Goto("tail")
  /\ UNCHANGED <<in_tick, ifl, irq0, rx, tx, boot>>
TickDone ==
  /\ At("flush") /\ Goto("tail") /\ in_tick' = FALSE
  /\ UNCHANGED <<ifl, irq0, rx, tx, boot>>

(* do_reboot: release_type; the reset works, or the handler goes on         *)
do_reboot ==
  /\ At("tail") /\ g_reboot /\ g_reboot' = FALSE
  /\ registered' = FALSE /\ Goto("chain") /\ ifl' = TRUE /\ down' \in BOOLEAN
  /\ UNCHANGED <<irq0, in_tick, rx, tx>>

NoReboot ==
  /\ At("tail") /\ ~g_reboot /\ Goto("chain")
  /\ UNCHANGED <<ifl, irq0, in_tick, rx, tx, boot>>

(* _chain_intr, the rest of INT 08h with its EOI, IRET                     *)
Chain ==
  /\ At("chain") /\ Pop /\ irq0' = FALSE /\ ifl' = TRUE
  /\ UNCHANGED <<in_tick, rx, tx, boot>>

Restarting == down /\ UNCHANGED vars

---------------------------------------------------------------------------
Init ==
  /\ stack = <<>> /\ ifl = TRUE /\ irq0 = FALSE /\ in_tick = FALSE
  /\ sending = FALSE /\ g_reboot = FALSE /\ txbuf = 0 /\ bs = 0
  /\ txdone = FALSE /\ pkt_flag = FALSE /\ stage = "none" /\ newest = "none"
  /\ work = "none" /\ registered = TRUE /\ down = FALSE

(* one instruction of the handler that is running                          *)
Run == \/ pkt_receiver_deliver \/ Enter \/ TimersDone \/ Disable \/ Copy
       \/ Clear \/ NextPhase \/ inject_key \/ request_reboot \/ Build
       \/ pkt_send \/ pkt_sent \/ TickDone \/ do_reboot \/ NoReboot \/ Chain

Next == Timer \/ TransmitComplete \/ pkt_receiver_get \/ Run \/ Restarting

Spec == Init /\ [][Next]_vars

(* Every handler that gets the processor again and again moves on: the     *)
(* nested part of a tick is far shorter than the 55 ms between two.  The   *)
(* NIC signals a transmission complete as soon as its IRQ can be delivered *)
(* again and again.                                                        *)
FairSpec == /\ Spec /\ SF_vars(TransmitComplete)
            /\ \A d \in 1..MaxDepth : SF_vars(top = d /\ Run)

---------------------------------------------------------------------------
Serving == {d \in 1..top : stack[d].pc \notin {"enter", "tail", "chain", "copying"}}

TickTypeOK ==
  /\ \A d \in 1..top : /\ stack[d].pc \in Phases \cup
                            {"enter", "disable", "copy", "clear", "send",
                             "driver", "tail", "chain", "copying"}
                       /\ stack[d].ret \in Phases \cup {"none"}
                       /\ stack[d].left \in 0..MaxSends /\ stack[d].asks \in 0..MaxAsks
  /\ top <= MaxDepth /\ txbuf \in 0..MaxDepth /\ bs \in 0..MaxDepth
  /\ stage \in {"none", "half", "whole"} /\ newest \in {"none", "unread", "read"}
  /\ work \in {"none", "half", "whole", "again"}
  /\ {ifl, irq0, registered, in_tick, sending, g_reboot, txdone, pkt_flag, down}
       \subseteq BOOLEAN

(* At most one tick is being served however ticks nest, and in_tick says   *)
(* exactly whether one is (dosshd.c:581-595).                              *)
OneServing == Cardinality(Serving) = IF in_tick THEN 1 ELSE 0

(* The foreground program is never left with interrupts off, IRQ0          *)
(* unacknowledged, a guard up or a reboot forgotten, whichever way the     *)
(* handlers nested: the next tick is delivered and served.                 *)
ForegroundFree ==
  top = 0 => ifl /\ ~irq0 /\ ~in_tick /\ ~sending /\ ~g_reboot

(* From the moment a frame is built until the driver has sent it, g_txbuf  *)
(* holds that frame, the stack to return to is the sender's, and no frame  *)
(* is dropped by the sending guard, although ticks and receptions          *)
(* interrupt the send (net.c:113-131, pktrecv.asm).                        *)
SendUndisturbed ==
  \A d \in 1..top :
    /\ stack[d].pc \in {"send", "driver"} => txbuf = d
    /\ stack[d].pc = "driver" => bs = d
    /\ stack[d].pc = "send" => ~sending

(* A frame the driver delivered is not forgotten: until net_poll has taken *)
(* the newest one, pkt_flag says there is one.  What net_poll hands to     *)
(* handle_frame is one whole frame, handed over for the first time         *)
(* (net.c:558-566).                                                        *)
FramesHandedOver == (newest = "unread" => pkt_flag) /\ work \in {"none", "whole"}

(* Every tick that is served comes to its end, although the driver waits   *)
(* for an interrupt in the middle of it (pktrecv.asm:81-96).               *)
TickReturns == []<>(~in_tick \/ down)
=============================================================================

----------------------------- MODULE TickProofs -----------------------------
(***************************************************************************)
(* The interrupts of Tick nest to any depth, and a tick sends any number   *)
(* of frames: the safety properties of Tick for every value of its         *)
(* constants.                                                              *)
(*                                                                         *)
(* The invariants of Tick are about what the handlers left, and are not    *)
(* inductive: what keeps a nested tick out of g_txbuf is that the one it   *)
(* interrupted is marked by in_tick, whoever it is.  IInv says where every *)
(* handler in progress may be, and what the flags say of them.             *)
(***************************************************************************)
EXTENDS Tick, SequenceTheorems, FiniteSetTheorems, TLAPS

Quiet == {"enter", "tail", "chain", "copying"}
PCs == Phases \cup Quiet \cup {"disable", "copy", "clear", "send", "driver"}
Handler == [pc : PCs, ret : Phases \cup {"none"}, left : 0..MaxSends, asks : 0..MaxAsks]
Handlers == 1..Len(stack)

Typed ==
  /\ stack \in Seq(Handler) /\ Len(stack) <= MaxDepth
  /\ txbuf \in 0..MaxDepth /\ bs \in 0..MaxDepth
  /\ ifl \in BOOLEAN /\ irq0 \in BOOLEAN /\ in_tick \in BOOLEAN /\ sending \in BOOLEAN
  /\ g_reboot \in BOOLEAN /\ txdone \in BOOLEAN /\ pkt_flag \in BOOLEAN
  /\ registered \in BOOLEAN /\ down \in BOOLEAN
  /\ stage \in {"none", "half", "whole"} /\ newest \in {"none", "unread", "read"}
  /\ work \in {"none", "whole"}

(* one handler is in the service of a tick, and in_tick says so            *)
Service ==
  /\ \A d, e \in Handlers : stack[d].pc \notin Quiet /\ stack[e].pc \notin Quiet => d = e
  /\ \A d \in Handlers : stack[d].pc \notin Quiet => in_tick
  /\ in_tick => \E d \in Handlers : stack[d].pc \notin Quiet

(* the send under way                                                      *)
Sender ==
  /\ \A d \in Handlers : stack[d].pc \in {"send", "driver"} => stack[d].ret \in Phases /\ txbuf = d
  /\ \A d \in Handlers : stack[d].pc = "driver" => sending /\ bs = d
  /\ sending => \E d \in Handlers : stack[d].pc = "driver"

(* with interrupts off nobody comes on top                                 *)
Masked ==
  /\ \A d \in Handlers : stack[d].pc \in {"enter", "copy", "clear", "copying"}
                           => d = Len(stack) /\ ~ifl
  /\ \A d \in Handlers : stack[d].pc = "copying" => ~irq0
  /\ Len(stack) = 0 => ifl /\ ~irq0

Asked == g_reboot => in_tick \/ \E d \in Handlers : stack[d].pc = "tail"

Staged ==
  /\ newest = "unread" => pkt_flag
  /\ newest = "unread" => stage = "whole" \/ \E d \in Handlers : stack[d].pc = "copying"
  /\ pkt_flag => newest = "unread" \/ \E d \in Handlers : stack[d].pc = "clear"
  /\ \A d \in Handlers : /\ stack[d].pc \in {"disable", "copy"} => pkt_flag
                         /\ stack[d].pc = "clear" => newest # "unread"

IInv == Typed /\ Service /\ Sender /\ Masked /\ Asked /\ Staged

---------------------------------------------------------------------------
(* What happens to the handlers.                                           *)

(* the running handler goes from a to p, the others stay                   *)
Moves(a, p) ==
  /\ Len(stack) \in Nat \ {0} /\ Len(stack') = Len(stack)
  /\ stack[Len(stack)].pc = a
  /\ \A d \in 1..Len(stack) : /\ stack'[d].pc = IF d = Len(stack) THEN p ELSE stack[d].pc
                              /\ d # Len(stack) => stack'[d].ret = stack[d].ret

(* replacing the running handler replaces that one only                    *)
LEMMA Replace ==
  ASSUME stack \in Seq(Handler), top > 0, NEW h \in Handler,
         stack' = [stack EXCEPT ![top] = h]
  PROVE  /\ stack' \in Seq(Handler) /\ Len(stack') = Len(stack) /\ Len(stack) \in Nat \ {0}
         /\ \A d \in 1..Len(stack) : stack'[d] = IF d = Len(stack) THEN h ELSE stack[d]
<1>1. top \in Nat /\ top \in 1..Len(stack)
  BY DEF top
<1> QED BY <1>1, ExceptSeq DEF top

(* Goto moves the running handler and keeps its return place               *)
LEMMA GotoMoves ==
  ASSUME stack \in Seq(Handler), NEW a, At(a), NEW p \in PCs, Goto(p)
  PROVE  /\ stack' \in Seq(Handler) /\ Moves(a, p)
         /\ stack'[Len(stack)].ret = stack[Len(stack)].ret
<1>1. top > 0 /\ top \in 1..Len(stack) /\ stack[top].pc = a
  BY DEF At, top
<1>2. stack[top] \in Handler
  BY <1>1
<1> DEFINE h == [stack[top] EXCEPT !.pc = p]
<1>3. h \in Handler /\ h.pc = p /\ h.ret = stack[top].ret
  BY <1>2 DEF Handler
<1>4. stack' = [stack EXCEPT ![top] = h]
  BY DEF Goto
<1> HIDE DEF h
<1>5. /\ stack' \in Seq(Handler) /\ Len(stack') = Len(stack) /\ Len(stack) \in Nat \ {0}
      /\ \A d \in 1..Len(stack) : stack'[d] = IF d = Len(stack) THEN h ELSE stack[d]
  BY <1>1, <1>3, <1>4, Replace
<1> QED BY <1>1, <1>3, <1>5 DEF Moves, top

(* an interrupt puts one handler on top of the others                      *)
LEMMA PushAdds ==
  ASSUME stack \in Seq(Handler), NEW p \in PCs, Push(p)
  PROVE  /\ stack' \in Seq(Handler) /\ Len(stack') = Len(stack) + 1 /\ Len(stack) \in Nat
         /\ \A d \in 1..Len(stack) : stack'[d] = stack[d]
         /\ stack'[Len(stack) + 1].pc = p
<1> DEFINE h == [pc |-> p, ret |-> "none", left |-> MaxSends, asks |-> MaxAsks]
<1>1. h \in Handler
  BY TickAssumption DEF Handler
<1>2. stack' = Append(stack, h)
  BY DEF Push
<1>3. h.pc = p
  OBVIOUS
<1> HIDE DEF h
<1> QED BY <1>1, <1>2, <1>3, AppendProperties

(* a return takes the handler on top away                                  *)
LEMMA PopRemoves ==
  ASSUME stack \in Seq(Handler), top > 0, Pop
  PROVE  /\ stack' \in Seq(Handler) /\ Len(stack') = Len(stack) - 1 /\ Len(stack) \in Nat \ {0}
         /\ \A d \in 1..(Len(stack) - 1) : stack'[d] = stack[d]
<1>1. top \in Nat /\ top = Len(stack) /\ \A i \in 1..(top - 1) : stack[i] \in Handler
  BY DEF top
<1>2. stack' = SubSeq(stack, 1, top - 1)
  BY DEF Pop
<1> QED BY <1>1, <1>2, SubSeqProperties

---------------------------------------------------------------------------
(* What a move leaves as it was.                                           *)

(* a move within the service, or outside it, leaves in_tick right          *)
LEMMA KeepsService ==
  ASSUME Service, NEW a, NEW p, Moves(a, p), a \in Quiet <=> p \in Quiet,
         in_tick' = in_tick
  PROVE  Service'
BY DEF Service, Moves, Handlers

(* a move outside a send leaves the send under way as it is                *)
LEMMA KeepsSender ==
  ASSUME Sender, NEW a, NEW p, Moves(a, p), UNCHANGED tx,
         a \notin {"send", "driver"}, p \notin {"send", "driver"}
  PROVE  Sender'
BY DEF Sender, Moves, Handlers, tx

(* a move between places that allow interrupts masks nobody                *)
LEMMA KeepsMasked ==
  ASSUME Masked, NEW a, NEW p, Moves(a, p), p \notin {"enter", "copy", "clear", "copying"}
  PROVE  Masked'
BY DEF Masked, Moves, Handlers

(* a request to reboot stays one that a handler will see                   *)
LEMMA KeepsAsked ==
  ASSUME Asked, NEW a, NEW p, Moves(a, p), a # "tail", in_tick' = in_tick, g_reboot' = g_reboot
  PROVE  Asked'
BY DEF Asked, Moves, Handlers

(* a move away from the staging buffer leaves it as it is                  *)
LEMMA KeepsStaged ==
  ASSUME Staged, NEW a, NEW p, Moves(a, p), UNCHANGED rx,
         a \notin {"copying", "clear"}, p \notin {"disable", "copy", "clear"}
  PROVE  Staged'
BY DEF Staged, Moves, Handlers, rx

(* while the running handler serves a tick, no other does                  *)
LEMMA Alone ==
  ASSUME Service, NEW a, NEW p, Moves(a, p), a \notin Quiet
  PROVE  in_tick /\ \A d \in 1..Len(stack) : d # Len(stack) => stack[d].pc \in Quiet
<1>1. Len(stack) \in Handlers /\ stack[Len(stack)].pc \notin Quiet
  BY DEF Moves, Handlers
<1>2. QED BY <1>1 DEF Service, Handlers

---------------------------------------------------------------------------
(* The actions, one by one.                                               *)

(* cli before the copy of a received frame                                 *)
LEMMA DisableKeeps == ASSUME IInv, Disable PROVE IInv'
<1>1. stack \in Seq(Handler) /\ At("disable") /\ Goto("copy") /\ ifl' = FALSE /\ UNCHANGED <<irq0, in_tick, rx, tx, boot>>
  BY DEF IInv, Typed, Disable
<1>2. stack' \in Seq(Handler) /\ Moves("disable", "copy")
  BY <1>1, GotoMoves DEF PCs, Quiet, Phases
<1>3. Typed'
  <2>1. ifl' \in BOOLEAN
    BY <1>1
  <2> QED BY <1>1, <1>2, <2>1 DEF IInv, Typed, Moves, rx, tx, boot
<1>4. Service'
  BY <1>1, <1>2, KeepsService DEF IInv, Quiet
<1>5. Sender'
  BY <1>1, <1>2, KeepsSender DEF IInv
<1>6. Masked'
  BY <1>1, <1>2 DEF IInv, Masked, Moves, Handlers
<1>7. Asked'
  BY <1>1, <1>2, KeepsAsked DEF IInv, boot
<1>8. Staged'
  BY <1>1, <1>2 DEF IInv, Staged, Moves, Handlers, rx
<1> QED BY <1>3, <1>4, <1>5, <1>6, <1>7, <1>8 DEF IInv

(* the copy of the frame, with interrupts off                              *)
LEMMA CopyKeeps == ASSUME IInv, Copy PROVE IInv'
<1>1. stack \in Seq(Handler) /\ At("copy") /\ Goto("clear") /\ UNCHANGED <<ifl, irq0, in_tick, pkt_flag, stage, tx, boot>>
      /\ newest' = "read" /\ work' = (IF newest = "read" THEN "again" ELSE stage)
  BY DEF IInv, Typed, Copy
<1>2. stack' \in Seq(Handler) /\ Moves("copy", "clear")
  BY <1>1, GotoMoves DEF PCs, Quiet, Phases
<1>9. newest = "unread" /\ stage = "whole"
  <2>1. \A d \in Handlers : stack[d].pc # "clear"
    BY <1>2, Alone DEF IInv, Moves, Handlers, Quiet
  <2>2. \A d \in Handlers : stack[d].pc # "copying"
    BY <1>2 DEF IInv, Masked, Moves, Handlers
  <2>3. Len(stack) \in Handlers /\ stack[Len(stack)].pc = "copy"
    BY <1>2 DEF Moves, Handlers
  <2> QED BY <2>1, <2>2, <2>3 DEF IInv, Staged
<1>3. Typed'
  BY <1>1, <1>2, <1>9 DEF IInv, Typed, Moves, rx, tx, boot
<1>4. Service'
  BY <1>1, <1>2, KeepsService DEF IInv, Quiet
<1>5. Sender'
  BY <1>1, <1>2, KeepsSender DEF IInv
<1>6. Masked'
  BY <1>1, <1>2 DEF IInv, Masked, Moves, Handlers
<1>7. Asked'
  BY <1>1, <1>2, KeepsAsked DEF IInv, boot
<1>8. Staged'
  BY <1>1, <1>2 DEF IInv, Staged, Moves, Handlers
<1> QED BY <1>3, <1>4, <1>5, <1>6, <1>7, <1>8 DEF IInv

(* the buffer is free again and interrupts are on                          *)
LEMMA ClearKeeps == ASSUME IInv, Clear PROVE IInv'
<1>1. stack \in Seq(Handler) /\ At("clear") /\ Goto("handle") /\ pkt_flag' = FALSE /\ ifl' = TRUE
      /\ UNCHANGED <<irq0, in_tick, stage, newest, work, tx, boot>>
  BY DEF IInv, Typed, Clear
<1>2. stack' \in Seq(Handler) /\ Moves("clear", "handle")
  BY <1>1, GotoMoves DEF PCs, Quiet, Phases
<1>3. Typed'
  <2>1. ifl' \in BOOLEAN /\ pkt_flag' \in BOOLEAN
    BY <1>1
  <2> QED BY <1>1, <1>2, <2>1 DEF IInv, Typed, Moves, rx, tx, boot
<1>4. Service'
  BY <1>1, <1>2, KeepsService DEF IInv, Quiet
<1>5. Sender'
  BY <1>1, <1>2, KeepsSender DEF IInv
<1>6. Masked'
  BY <1>1, <1>2, KeepsMasked DEF IInv
<1>7. Asked'
  BY <1>1, <1>2, KeepsAsked DEF IInv, boot
<1>8. Staged'
  BY <1>1, <1>2 DEF IInv, Staged, Service, Moves, Handlers, Quiet
<1> QED BY <1>3, <1>4, <1>5, <1>6, <1>7, <1>8 DEF IInv

(* in_tick falls, at the end of the service only                           *)
LEMMA TickDoneKeeps == ASSUME IInv, TickDone PROVE IInv'
<1>1. stack \in Seq(Handler) /\ At("flush") /\ Goto("tail") /\ in_tick' = FALSE /\ UNCHANGED <<ifl, irq0, rx, tx, boot>>
  BY DEF IInv, Typed, TickDone
<1>2. stack' \in Seq(Handler) /\ Moves("flush", "tail")
  BY <1>1, GotoMoves DEF PCs, Quiet, Phases
<1>3. Typed'
  <2>1. in_tick' \in BOOLEAN
    BY <1>1
  <2> QED BY <1>1, <1>2, <2>1 DEF IInv, Typed, Moves, rx, tx, boot
<1>4. Service'
  <2>1. \A d \in 1..Len(stack) : d # Len(stack) => stack[d].pc \in Quiet
    BY <1>2, Alone DEF IInv, Quiet
  <2> QED BY <1>1, <1>2, <2>1 DEF Service, Moves, Handlers, Quiet
<1>5. Sender'
  BY <1>1, <1>2, KeepsSender DEF IInv
<1>6. Masked'
  BY <1>1, <1>2, KeepsMasked DEF IInv
<1>7. Asked'
  BY <1>1, <1>2 DEF IInv, Asked, Moves, Handlers
<1>8. Staged'
  BY <1>1, <1>2, KeepsStaged DEF IInv
<1> QED BY <1>3, <1>4, <1>5, <1>6, <1>7, <1>8 DEF IInv

(* a reboot that was asked for, out of the service                         *)
LEMMA do_rebootKeeps == ASSUME IInv, do_reboot PROVE IInv'
<1>1. stack \in Seq(Handler) /\ At("tail") /\ Goto("chain") /\ g_reboot' = FALSE /\ registered' = FALSE /\ ifl' = TRUE
      /\ down' \in BOOLEAN /\ UNCHANGED <<irq0, in_tick, rx, tx>>
  BY DEF IInv, Typed, do_reboot
<1>2. stack' \in Seq(Handler) /\ Moves("tail", "chain")
  BY <1>1, GotoMoves DEF PCs, Quiet, Phases
<1>3. Typed'
  BY <1>1, <1>2 DEF IInv, Typed, Moves, rx, tx, boot
<1>4. Service'
  BY <1>1, <1>2, KeepsService DEF IInv, Quiet
<1>5. Sender'
  BY <1>1, <1>2, KeepsSender DEF IInv
<1>6. Masked'
  BY <1>1, <1>2, KeepsMasked DEF IInv
<1>7. Asked'
  BY <1>1, <1>2 DEF IInv, Asked
<1>8. Staged'
  BY <1>1, <1>2, KeepsStaged DEF IInv
<1> QED BY <1>3, <1>4, <1>5, <1>6, <1>7, <1>8 DEF IInv

(* no reboot was asked for                                                 *)
LEMMA NoRebootKeeps == ASSUME IInv, NoReboot PROVE IInv'
<1>1. stack \in Seq(Handler) /\ At("tail") /\ Goto("chain") /\ ~g_reboot /\ UNCHANGED <<ifl, irq0, in_tick, rx, tx, boot>>
  BY DEF IInv, Typed, NoReboot
<1>2. stack' \in Seq(Handler) /\ Moves("tail", "chain")
  BY <1>1, GotoMoves DEF PCs, Quiet, Phases
<1>3. Typed'
  BY <1>1, <1>2 DEF IInv, Typed, Moves, rx, tx, boot
<1>4. Service'
  BY <1>1, <1>2, KeepsService DEF IInv, Quiet
<1>5. Sender'
  BY <1>1, <1>2, KeepsSender DEF IInv
<1>6. Masked'
  BY <1>1, <1>2, KeepsMasked DEF IInv
<1>7. Asked'
  BY <1>1, <1>2 DEF IInv, Asked, boot
<1>8. Staged'
  BY <1>1, <1>2, KeepsStaged DEF IInv
<1> QED BY <1>3, <1>4, <1>5, <1>6, <1>7, <1>8 DEF IInv

(* a tick is served if no other is, and only chains otherwise              *)
LEMMA EnterKeeps == ASSUME IInv, Enter PROVE IInv'
<1>1. CASE in_tick
  <2>1. stack \in Seq(Handler) /\ At("enter") /\ Goto("tail")
        /\ in_tick' = in_tick /\ UNCHANGED <<ifl, irq0, rx, tx, boot>>
    BY <1>1 DEF IInv, Typed, Enter
  <2>2. stack' \in Seq(Handler) /\ Moves("enter", "tail")
    BY <2>1, GotoMoves DEF PCs, Quiet, Phases
  <2>3. Typed'
    BY <2>1, <2>2 DEF IInv, Typed, Moves, rx, tx, boot
  <2>4. Service'
    BY <2>1, <2>2, KeepsService DEF IInv, Quiet
  <2>5. Sender'
    BY <2>1, <2>2, KeepsSender DEF IInv
  <2>6. Masked'
    BY <2>1, <2>2, KeepsMasked DEF IInv
  <2>7. Asked'
    BY <2>1, <2>2, KeepsAsked DEF IInv, boot
  <2>8. Staged'
    BY <2>1, <2>2, KeepsStaged DEF IInv
  <2> QED BY <2>3, <2>4, <2>5, <2>6, <2>7, <2>8 DEF IInv
<1>2. CASE ~in_tick
  <2>1. stack \in Seq(Handler) /\ At("enter") /\ Goto("timers")
        /\ in_tick' = TRUE /\ UNCHANGED <<ifl, irq0, rx, tx, boot>>
    BY <1>2 DEF IInv, Typed, Enter
  <2>2. stack' \in Seq(Handler) /\ Moves("enter", "timers")
    BY <2>1, GotoMoves DEF PCs, Quiet, Phases
  <2>3. Typed'
    BY <2>1, <2>2 DEF IInv, Typed, Moves, rx, tx, boot
  <2>4. Service'
    <3>1. \A d \in 1..Len(stack) : stack[d].pc \in Quiet
      BY <1>2 DEF IInv, Service, Handlers
    <3>2. "timers" \notin Quiet
      BY DEF Quiet
    <3> QED BY <2>1, <2>2, <3>1, <3>2 DEF Service, Moves, Handlers
  <2>5. Sender'
    BY <2>1, <2>2, KeepsSender DEF IInv
  <2>6. Masked'
    BY <2>1, <2>2, KeepsMasked DEF IInv
  <2>7. Asked'
    BY <2>1, <2>2 DEF IInv, Asked
  <2>8. Staged'
    BY <2>1, <2>2, KeepsStaged DEF IInv
  <2> QED BY <2>3, <2>4, <2>5, <2>6, <2>7, <2>8 DEF IInv
<1> QED BY <1>1, <1>2

(* the poll finds a frame or goes on                                       *)
LEMMA TimersDoneKeeps == ASSUME IInv, TimersDone PROVE IInv'
<1>1. CASE pkt_flag
  <2>1. stack \in Seq(Handler) /\ At("timers") /\ Goto("disable")
        /\ UNCHANGED <<ifl, irq0, in_tick, rx, tx, boot>>
    BY <1>1 DEF IInv, Typed, TimersDone
  <2>2. stack' \in Seq(Handler) /\ Moves("timers", "disable")
    BY <2>1, GotoMoves DEF PCs, Quiet, Phases
  <2>3. Typed'
    BY <2>1, <2>2 DEF IInv, Typed, Moves, rx, tx, boot
  <2>4. Service'
    BY <2>1, <2>2, KeepsService DEF IInv, Quiet
  <2>5. Sender'
    BY <2>1, <2>2, KeepsSender DEF IInv
  <2>6. Masked'
    BY <2>1, <2>2, KeepsMasked DEF IInv
  <2>7. Asked'
    BY <2>1, <2>2, KeepsAsked DEF IInv, boot
  <2>8. Staged'
    BY <2>1, <2>2, <1>1 DEF IInv, Staged, Moves, Handlers, rx
  <2> QED BY <2>3, <2>4, <2>5, <2>6, <2>7, <2>8 DEF IInv
<1>2. CASE ~pkt_flag
  <2>1. stack \in Seq(Handler) /\ At("timers") /\ Goto("output")
        /\ UNCHANGED <<ifl, irq0, in_tick, rx, tx, boot>>
    BY <1>2 DEF IInv, Typed, TimersDone
  <2>2. stack' \in Seq(Handler) /\ Moves("timers", "output")
    BY <2>1, GotoMoves DEF PCs, Quiet, Phases
  <2>3. Typed'
    BY <2>1, <2>2 DEF IInv, Typed, Moves, rx, tx, boot
  <2>4. Service'
    BY <2>1, <2>2, KeepsService DEF IInv, Quiet
  <2>5. Sender'
    BY <2>1, <2>2, KeepsSender DEF IInv
  <2>6. Masked'
    BY <2>1, <2>2, KeepsMasked DEF IInv
  <2>7. Asked'
    BY <2>1, <2>2, KeepsAsked DEF IInv, boot
  <2>8. Staged'
    BY <2>1, <2>2, KeepsStaged DEF IInv
  <2> QED BY <2>3, <2>4, <2>5, <2>6, <2>7, <2>8 DEF IInv
<1> QED BY <1>1, <1>2

(* the phases of a tick follow one another                                 *)
LEMMA NextPhaseKeeps == ASSUME IInv, NextPhase PROVE IInv'
<1>1. CASE At("handle") /\ Goto("output")
  <2>1. stack \in Seq(Handler) /\ At("handle") /\ Goto("output") /\ UNCHANGED <<ifl, irq0, in_tick, rx, tx, boot>>
    BY <1>1 DEF IInv, Typed, NextPhase
  <2>2. stack' \in Seq(Handler) /\ Moves("handle", "output")
    BY <2>1, GotoMoves DEF PCs, Quiet, Phases
  <2>3. Typed'
    BY <2>1, <2>2 DEF IInv, Typed, Moves, rx, tx, boot
  <2>4. Service'
    BY <2>1, <2>2, KeepsService DEF IInv, Quiet
  <2>5. Sender'
    BY <2>1, <2>2, KeepsSender DEF IInv
  <2>6. Masked'
    BY <2>1, <2>2, KeepsMasked DEF IInv
  <2>7. Asked'
    BY <2>1, <2>2, KeepsAsked DEF IInv, boot
  <2>8. Staged'
    BY <2>1, <2>2, KeepsStaged DEF IInv
  <2> QED BY <2>3, <2>4, <2>5, <2>6, <2>7, <2>8 DEF IInv
<1>2. CASE At("output") /\ Goto("drain")
  <2>1. stack \in Seq(Handler) /\ At("output") /\ Goto("drain") /\ UNCHANGED <<ifl, irq0, in_tick, rx, tx, boot>>
    BY <1>2 DEF IInv, Typed, NextPhase
  <2>2. stack' \in Seq(Handler) /\ Moves("output", "drain")
    BY <2>1, GotoMoves DEF PCs, Quiet, Phases
  <2>3. Typed'
    BY <2>1, <2>2 DEF IInv, Typed, Moves, rx, tx, boot
  <2>4. Service'
    BY <2>1, <2>2, KeepsService DEF IInv, Quiet
  <2>5. Sender'
    BY <2>1, <2>2, KeepsSender DEF IInv
  <2>6. Masked'
    BY <2>1, <2>2, KeepsMasked DEF IInv
  <2>7. Asked'
    BY <2>1, <2>2, KeepsAsked DEF IInv, boot
  <2>8. Staged'
    BY <2>1, <2>2, KeepsStaged DEF IInv
  <2> QED BY <2>3, <2>4, <2>5, <2>6, <2>7, <2>8 DEF IInv
<1>3. CASE At("drain") /\ Goto("flush")
  <2>1. stack \in Seq(Handler) /\ At("drain") /\ Goto("flush") /\ UNCHANGED <<ifl, irq0, in_tick, rx, tx, boot>>
    BY <1>3 DEF IInv, Typed, NextPhase
  <2>2. stack' \in Seq(Handler) /\ Moves("drain", "flush")
    BY <2>1, GotoMoves DEF PCs, Quiet, Phases
  <2>3. Typed'
    BY <2>1, <2>2 DEF IInv, Typed, Moves, rx, tx, boot
  <2>4. Service'
    BY <2>1, <2>2, KeepsService DEF IInv, Quiet
  <2>5. Sender'
    BY <2>1, <2>2, KeepsSender DEF IInv
  <2>6. Masked'
    BY <2>1, <2>2, KeepsMasked DEF IInv
  <2>7. Asked'
    BY <2>1, <2>2, KeepsAsked DEF IInv, boot
  <2>8. Staged'
    BY <2>1, <2>2, KeepsStaged DEF IInv
  <2> QED BY <2>3, <2>4, <2>5, <2>6, <2>7, <2>8 DEF IInv
<1> QED BY <1>1, <1>2, <1>3 DEF NextPhase

(* a key goes to the BIOS                                                  *)
LEMMA inject_keyKeeps == ASSUME IInv, inject_key PROVE IInv'
<1>1. At("drain") /\ ifl' = TRUE /\ UNCHANGED <<stack, irq0, in_tick, rx, tx, boot>>
  BY DEF inject_key
<1>2. Len(stack) \in Nat \ {0} /\ stack[Len(stack)].pc = "drain"
  BY <1>1 DEF IInv, Typed, At, top
<1>3. Typed'
  BY <1>1 DEF IInv, Typed, rx, tx, boot
<1>4. Masked'
  BY <1>1, <1>2 DEF IInv, Masked, Handlers
<1>5. Service' /\ Sender' /\ Asked' /\ Staged'
  BY <1>1 DEF IInv, Service, Sender, Asked, Staged, Handlers, rx, tx, boot
<1> QED BY <1>3, <1>4, <1>5 DEF IInv

(* a session asks for a reboot, in the service                             *)
LEMMA request_rebootKeeps == ASSUME IInv, request_reboot PROVE IInv'
<1>1. /\ stack \in Seq(Handler) /\ At("drain") /\ g_reboot' = TRUE
      /\ stack[top].asks > 0 /\ stack' = [stack EXCEPT ![top].asks = @ - 1]
      /\ UNCHANGED <<ifl, irq0, in_tick, rx, tx, registered, down>>
  BY DEF IInv, Typed, request_reboot
<1>2. stack' \in Seq(Handler) /\ Moves("drain", "drain")
  <2> DEFINE h == [stack[top] EXCEPT !.asks = @ - 1]
  <2>1. top > 0 /\ top \in 1..Len(stack) /\ stack[top] \in Handler /\ stack[top].pc = "drain"
    BY <1>1 DEF At, top
  <2>5. stack[top].asks \in 0..MaxAsks
    BY <2>1 DEF Handler
  <2>6. stack[top].asks - 1 \in 0..MaxAsks
    BY <1>1, <2>5, TickAssumption
  <2>2. h \in Handler /\ h.pc = "drain" /\ h.ret = stack[top].ret
    BY <2>1, <2>6 DEF Handler
  <2>3. stack' = [stack EXCEPT ![top] = h]
    BY <1>1
  <2> HIDE DEF h
  <2>4. /\ stack' \in Seq(Handler) /\ Len(stack') = Len(stack) /\ Len(stack) \in Nat \ {0}
        /\ \A d \in 1..Len(stack) : stack'[d] = IF d = Len(stack) THEN h ELSE stack[d]
    BY <1>1, <2>1, <2>2, <2>3, Replace
  <2> QED BY <2>1, <2>2, <2>4 DEF Moves, top
<1>3. Typed'
  <2>1. g_reboot' \in BOOLEAN
    BY <1>1
  <2> QED BY <1>1, <1>2, <2>1 DEF IInv, Typed, Moves, rx, tx
<1>4. Service' /\ Sender' /\ Masked' /\ Staged'
  BY <1>1, <1>2, KeepsService, KeepsSender, KeepsMasked, KeepsStaged DEF IInv
<1>5. Asked'
  BY <1>1, <1>2, Alone DEF IInv, Asked, Quiet
<1> QED BY <1>3, <1>4, <1>5 DEF IInv

(* a frame is built: the running handler goes to "send", to come back to q *)
LEMMA BuildMoves ==
  ASSUME stack \in Seq(Handler), NEW q \in Phases, At(q), stack[top].left > 0,
         stack' = [stack EXCEPT ![top].pc = "send", ![top].ret = q, ![top].left = @ - 1]
  PROVE  /\ stack' \in Seq(Handler) /\ Moves(q, "send")
         /\ stack'[Len(stack)].ret = q
<1> DEFINE h == [stack[top] EXCEPT !.pc = "send", !.ret = q, !.left = @ - 1]
<1>1. top > 0 /\ top \in 1..Len(stack) /\ stack[top] \in Handler /\ stack[top].pc = q
  BY DEF At, top
<1>2. stack[top].left \in 0..MaxSends
  BY <1>1 DEF Handler
<1>3. stack[top].left - 1 \in 0..MaxSends
  BY <1>2, TickAssumption
<1>4. h \in Handler /\ h.pc = "send" /\ h.ret = q
  BY <1>1, <1>3 DEF Handler, PCs
<1>5. stack' = [stack EXCEPT ![top] = h]
  OBVIOUS
<1> HIDE DEF h
<1>6. /\ stack' \in Seq(Handler) /\ Len(stack') = Len(stack) /\ Len(stack) \in Nat \ {0}
      /\ \A d \in 1..Len(stack) : stack'[d] = IF d = Len(stack) THEN h ELSE stack[d]
  BY <1>1, <1>4, <1>5, Replace
<1> QED BY <1>1, <1>4, <1>6 DEF Moves, top

(* a frame is built in g_txbuf, in the service                             *)
LEMMA BuildKeeps == ASSUME IInv, Build PROVE IInv'
<1>1. PICK q \in Phases :
        /\ At(q) /\ stack[top].left > 0
        /\ stack' = [stack EXCEPT ![top].pc = "send", ![top].ret = q, ![top].left = @ - 1]
  BY DEF Build
<1>2. txbuf' = top /\ UNCHANGED <<ifl, irq0, in_tick, rx, bs, txdone, sending, boot>>
  BY DEF Build
<1>3. /\ stack' \in Seq(Handler) /\ Moves(q, "send")
      /\ stack'[Len(stack)].ret = q
  BY <1>1, BuildMoves DEF IInv, Typed
<1>4. q \notin Quiet /\ q \notin {"copying", "clear", "tail", "send", "driver"}
  BY DEF Phases, Quiet
<1>5. \A d \in 1..Len(stack) : d # Len(stack) => stack[d].pc \in Quiet
  BY <1>3, <1>4, Alone DEF IInv
<1>6. Typed'
  <2>1. top \in 0..MaxDepth
    BY <1>3, TickAssumption DEF IInv, Typed, Moves, top
  <2> QED BY <1>2, <1>3, <2>1 DEF IInv, Typed, Moves, rx, boot
<1>7. Service' /\ Masked' /\ Asked' /\ Staged'
  BY <1>2, <1>3, <1>4, KeepsService, KeepsMasked, KeepsAsked, KeepsStaged
  DEF IInv, Quiet, boot
<1>8. Sender'
  <2>1. ~sending
    BY <1>3, <1>4, <1>5 DEF IInv, Sender, Moves, Handlers, Quiet
  <2> QED BY <1>2, <1>3, <1>5, <2>1 DEF Sender, Moves, Handlers, Quiet, top
<1> QED BY <1>6, <1>7, <1>8 DEF IInv

(* the driver is entered, with the guard up                                *)
LEMMA pkt_sendKeeps == ASSUME IInv, pkt_send PROVE IInv'
<1>1. stack \in Seq(Handler) /\ At("send")
  BY DEF IInv, Typed, pkt_send
<1>2. Len(stack) \in Nat \ {0} /\ stack[Len(stack)].pc = "send"
  BY <1>1 DEF At, top
<1>3. ~sending
  BY <1>2 DEF IInv, Sender, Service, Handlers, Quiet
<1>4. Goto("driver") /\ sending' = TRUE /\ bs' = top /\ txdone' = FALSE /\ ifl' = TRUE
      /\ irq0' = FALSE /\ UNCHANGED <<in_tick, rx, boot, txbuf>>
  BY <1>3 DEF pkt_send
<1>5. /\ stack' \in Seq(Handler) /\ Moves("send", "driver")
      /\ stack'[Len(stack)].ret = stack[Len(stack)].ret
  BY <1>1, <1>4, GotoMoves DEF PCs
<1>6. \A d \in 1..Len(stack) : d # Len(stack) => stack[d].pc \in Quiet
  BY <1>5, Alone DEF IInv, Quiet
<1>7. Typed'
  <2>1. top \in 0..MaxDepth
    BY <1>5, TickAssumption DEF IInv, Typed, Moves, top
  <2>2. ifl' \in BOOLEAN /\ irq0' \in BOOLEAN /\ sending' \in BOOLEAN /\ txdone' \in BOOLEAN
    BY <1>4
  <2> QED BY <1>4, <1>5, <2>1, <2>2 DEF IInv, Typed, Moves, rx, boot
<1>8. Service' /\ Masked' /\ Asked' /\ Staged'
  BY <1>4, <1>5, KeepsService, KeepsMasked, KeepsAsked, KeepsStaged DEF IInv, Quiet, boot
<1>9. Sender'
  <2>1. stack[Len(stack)].ret \in Phases /\ txbuf = Len(stack)
    BY <1>1, <1>2 DEF IInv, Sender, Handlers
  <2> QED BY <1>4, <1>5, <1>6, <2>1 DEF Sender, Moves, Handlers, Quiet, top
<1> QED BY <1>7, <1>8, <1>9 DEF IInv

(* the driver returned and the guard falls                                 *)
LEMMA pkt_sentKeeps == ASSUME IInv, pkt_sent PROVE IInv'
<1> DEFINE q == stack[Len(stack)].ret
<1>1. /\ stack \in Seq(Handler) /\ At("driver") /\ Goto(q)
      /\ sending' = FALSE /\ ifl' = TRUE
      /\ UNCHANGED <<irq0, in_tick, rx, txbuf, bs, txdone, boot>>
  BY DEF IInv, Typed, pkt_sent, top
<1>2. q \in Phases
  BY <1>1 DEF IInv, Sender, Handlers, At, top
<1>3. stack' \in Seq(Handler) /\ Moves("driver", q)
  BY <1>1, <1>2, GotoMoves DEF PCs
<1>4. q \notin Quiet \cup {"disable", "copy", "clear", "send", "driver"}
  BY <1>2 DEF Phases, Quiet
<1> HIDE DEF q
<1>5. \A d \in 1..Len(stack) : d # Len(stack) => stack[d].pc \in Quiet
  BY <1>3, Alone DEF IInv, Quiet
<1>6. Typed'
  <2>1. ifl' \in BOOLEAN /\ sending' \in BOOLEAN
    BY <1>1
  <2> QED BY <1>1, <1>3, <2>1 DEF IInv, Typed, Moves, rx, boot
<1>7. Service' /\ Masked' /\ Asked' /\ Staged'
  BY <1>1, <1>3, <1>4, KeepsService, KeepsMasked, KeepsAsked, KeepsStaged
  DEF IInv, Quiet, boot
<1>8. Sender'
  BY <1>1, <1>3, <1>4, <1>5 DEF Sender, Moves, Handlers, Quiet
<1> QED BY <1>6, <1>7, <1>8 DEF IInv

---------------------------------------------------------------------------
(* Handlers that come and go: they are quiet.                              *)

(* a handler on top of the others serves nothing yet                       *)
LEMMA Pushed ==
  ASSUME Service, Sender, Asked, Masked, ifl, Len(stack) \in Nat,
         NEW p \in {"enter", "copying"},
         Len(stack') = Len(stack) + 1, stack'[Len(stack) + 1].pc = p,
         \A d \in 1..Len(stack) : stack'[d] = stack[d],
         ifl' = FALSE, p = "copying" => ~irq0', UNCHANGED <<in_tick, tx, g_reboot>>
  PROVE  Service' /\ Sender' /\ Asked' /\ Masked'
<1>1. p \in Quiet /\ p \notin {"send", "driver"}
  BY DEF Quiet
<1>2. \A d \in Handlers' : d \in Handlers \/ d = Len(stack) + 1
  BY DEF Handlers
<1>3. \A d \in Handlers : d \in Handlers' /\ stack'[d] = stack[d]
  BY DEF Handlers
<1>4. Service'
  BY <1>1, <1>2, <1>3 DEF Service
<1>5. Sender'
  BY <1>1, <1>2, <1>3 DEF Sender, tx
<1>6. Asked'
  BY <1>2, <1>3 DEF Asked
<1>7. Masked'
  BY <1>2, <1>3 DEF Masked
<1> QED BY <1>4, <1>5, <1>6, <1>7

(* the timer interrupt, whatever it interrupts                             *)
LEMMA TimerKeeps == ASSUME IInv, Timer PROVE IInv'
<1>1. /\ ifl /\ Push("enter") /\ ifl' = FALSE /\ irq0' = TRUE /\ Len(stack) < MaxDepth
      /\ UNCHANGED <<in_tick, rx, tx, boot>>
  BY DEF Timer, Interruptible, top
<1>2. /\ stack' \in Seq(Handler) /\ Len(stack') = Len(stack) + 1 /\ Len(stack) \in Nat
      /\ \A d \in 1..Len(stack) : stack'[d] = stack[d]
      /\ stack'[Len(stack) + 1].pc = "enter"
  BY <1>1, PushAdds DEF IInv, Typed, PCs, Quiet
<1>3. Typed'
  <2>1. ifl' \in BOOLEAN /\ irq0' \in BOOLEAN
    BY <1>1
  <2>2. Len(stack') <= MaxDepth
    BY <1>1, <1>2, TickAssumption
  <2> QED BY <1>1, <1>2, <2>1, <2>2 DEF IInv, Typed, rx, tx, boot
<1>4. Service' /\ Sender' /\ Asked' /\ Masked'
  BY <1>1, <1>2, Pushed DEF IInv, boot
<1>5. Staged'
  BY <1>1, <1>2 DEF IInv, Staged, Handlers, rx
<1> QED BY <1>3, <1>4, <1>5 DEF IInv

(* the receiver is asked for a buffer                                      *)
LEMMA pkt_receiver_getKeeps == ASSUME IInv, pkt_receiver_get PROVE IInv'
<1>1. /\ ifl /\ ~irq0 /\ Push("copying") /\ ifl' = FALSE /\ stage' = "half"
      /\ Len(stack) < MaxDepth
      /\ UNCHANGED <<irq0, in_tick, pkt_flag, newest, work, tx, boot>>
  BY DEF pkt_receiver_get, Interruptible, top
<1>2. /\ stack' \in Seq(Handler) /\ Len(stack') = Len(stack) + 1 /\ Len(stack) \in Nat
      /\ \A d \in 1..Len(stack) : stack'[d] = stack[d]
      /\ stack'[Len(stack) + 1].pc = "copying"
  BY <1>1, PushAdds DEF IInv, Typed, PCs, Quiet
<1>3. Typed'
  <2>1. ifl' \in BOOLEAN
    BY <1>1
  <2>2. Len(stack') <= MaxDepth
    BY <1>1, <1>2, TickAssumption
  <2> QED BY <1>1, <1>2, <2>1, <2>2 DEF IInv, Typed, tx, boot
<1>4. Service' /\ Sender' /\ Asked' /\ Masked'
  BY <1>1, <1>2, Pushed DEF IInv, boot
<1>5. Staged'
  BY <1>1, <1>2 DEF IInv, Staged, Handlers
<1> QED BY <1>3, <1>4, <1>5 DEF IInv

(* a handler that returns serves nothing any more                          *)
LEMMA Popped ==
  ASSUME Service, Sender, Asked, Masked,
         stack \in Seq(Handler), stack' \in Seq(Handler), Len(stack) \in Nat \ {0},
         stack[Len(stack)].pc \in {"chain", "copying"},
         Len(stack') = Len(stack) - 1,
         \A d \in 1..(Len(stack) - 1) : stack'[d] = stack[d],
         ifl' = TRUE, irq0' = FALSE, UNCHANGED <<in_tick, tx, g_reboot>>
  PROVE  Service' /\ Sender' /\ Asked' /\ Masked'
<1>1. \A d \in Handlers' : d \in Handlers /\ d # Len(stack) /\ stack'[d] = stack[d]
  BY DEF Handlers
<1>2. \A d \in Handlers : d # Len(stack) => d \in Handlers'
  BY DEF Handlers
<1>3. Service'
  BY <1>1, <1>2 DEF Service, Quiet
<1>4. Sender'
  BY <1>1, <1>2 DEF Sender, tx
<1>5. Asked'
  BY <1>1, <1>2 DEF Asked
<1>6. Masked'
  BY <1>1 DEF Masked
<1> QED BY <1>3, <1>4, <1>5, <1>6

(* the receiver is told the frame is in the buffer                         *)
LEMMA pkt_receiver_deliverKeeps == ASSUME IInv, pkt_receiver_deliver PROVE IInv'
<1>1. /\ top > 0 /\ stack[Len(stack)].pc = "copying" /\ Pop /\ ifl' = TRUE
      /\ stage' = "whole" /\ pkt_flag' = TRUE /\ newest' = "unread"
      /\ UNCHANGED <<irq0, in_tick, work, tx, boot>>
  BY DEF pkt_receiver_deliver, At, top
<1>2. /\ stack' \in Seq(Handler) /\ Len(stack') = Len(stack) - 1 /\ Len(stack) \in Nat \ {0}
      /\ \A d \in 1..(Len(stack) - 1) : stack'[d] = stack[d]
  BY <1>1, PopRemoves DEF IInv, Typed
<1>3. ~irq0
  BY <1>1, <1>2 DEF IInv, Masked, Handlers
<1>4. Typed'
  <2>1. ifl' \in BOOLEAN /\ pkt_flag' \in BOOLEAN
    BY <1>1
  <2>2. Len(stack') <= MaxDepth
    BY <1>1, <1>2, TickAssumption DEF IInv, Typed
  <2> QED BY <1>1, <1>2, <2>1, <2>2 DEF IInv, Typed, tx, boot
<1>5. Service' /\ Sender' /\ Asked' /\ Masked'
  <2>1. irq0' = FALSE
    BY <1>1, <1>3 DEF IInv, Typed
  <2> QED BY <1>1, <1>2, <2>1, Popped DEF IInv, Typed, boot
<1>6. Staged'
  <2>1. \A d \in Handlers' : stack'[d].pc # "clear"
    BY <1>1, <1>2 DEF IInv, Masked, Handlers
  <2> QED BY <1>1, <2>1 DEF Staged
<1> QED BY <1>4, <1>5, <1>6 DEF IInv

(* the tick goes to the handler before it and returns                      *)
LEMMA ChainKeeps == ASSUME IInv, Chain PROVE IInv'
<1>1. /\ top > 0 /\ stack[Len(stack)].pc = "chain" /\ Pop /\ ifl' = TRUE /\ irq0' = FALSE
      /\ UNCHANGED <<in_tick, rx, tx, boot>>
  BY DEF Chain, At, top
<1>2. /\ stack' \in Seq(Handler) /\ Len(stack') = Len(stack) - 1 /\ Len(stack) \in Nat \ {0}
      /\ \A d \in 1..(Len(stack) - 1) : stack'[d] = stack[d]
  BY <1>1, PopRemoves DEF IInv, Typed
<1>3. Typed'
  <2>1. ifl' \in BOOLEAN /\ irq0' \in BOOLEAN
    BY <1>1
  <2>2. Len(stack') <= MaxDepth
    BY <1>1, <1>2, TickAssumption DEF IInv, Typed
  <2> QED BY <1>1, <1>2, <2>1, <2>2 DEF IInv, Typed, rx, tx, boot
<1>4. Service' /\ Sender' /\ Asked' /\ Masked'
  BY <1>1, <1>2, Popped DEF IInv, Typed, boot
<1>5. Staged'
  <2>1. \A d \in Handlers' : d \in Handlers /\ stack'[d] = stack[d]
    BY <1>2 DEF Handlers
  <2>2. \A d \in Handlers : stack[d].pc # "chain" => d \in Handlers' /\ stack'[d] = stack[d]
    BY <1>1, <1>2 DEF Handlers
  <2> QED BY <1>1, <2>1, <2>2 DEF IInv, Staged, rx
<1> QED BY <1>3, <1>4, <1>5 DEF IInv

(* the adapter's interrupt changes no handler                              *)
LEMMA TransmitCompleteKeeps == ASSUME IInv, TransmitComplete PROVE IInv'
<1>1. txdone' = TRUE /\ UNCHANGED <<stack, ifl, irq0, in_tick, rx, boot, txbuf, bs, sending>>
  BY DEF TransmitComplete
<1>2. Typed'
  BY <1>1 DEF IInv, Typed, rx, boot
<1> QED BY <1>1, <1>2 DEF IInv, Service, Sender, Masked, Asked, Staged, Handlers, rx, boot

(* no step                                                                 *)
LEMMA StutterKeeps == ASSUME IInv, UNCHANGED vars PROVE IInv'
<1>1. Typed'
  BY DEF IInv, Typed, vars, rx, tx, boot
<1>2. Service' /\ Sender' /\ Masked'
  BY DEF IInv, Service, Sender, Masked, Handlers, vars, tx
<1>3. Asked' /\ Staged'
  BY DEF IInv, Asked, Staged, Handlers, vars, rx, boot
<1> QED BY <1>1, <1>2, <1>3 DEF IInv

---------------------------------------------------------------------------
(* Where every handler in progress may be, and what the guards say of it,  *)
(* is kept by every step of the interrupts, the packet receiver and the    *)
(* service of a tick (dosshd.c:575-607, net.c:113-131, pktrecv.asm).       *)
THEOREM Inductive == Spec => []IInv
<1>1. Init => IInv
  <2> SUFFICES ASSUME Init PROVE IInv
    OBVIOUS
  <2>1. stack \in Seq(Handler) /\ Len(stack) = 0 /\ Handlers = {}
    BY EmptySeq DEF Init, Handlers
  <2>2. Typed
    <3>1. Len(stack) <= MaxDepth /\ txbuf \in 0..MaxDepth /\ bs \in 0..MaxDepth
      BY <2>1, TickAssumption DEF Init
    <3>2. /\ ifl \in BOOLEAN /\ irq0 \in BOOLEAN /\ in_tick \in BOOLEAN
          /\ sending \in BOOLEAN /\ g_reboot \in BOOLEAN /\ txdone \in BOOLEAN
          /\ pkt_flag \in BOOLEAN /\ registered \in BOOLEAN /\ down \in BOOLEAN
      BY DEF Init
    <3> QED BY <2>1, <3>1, <3>2 DEF Init, Typed
  <2> QED BY <2>1, <2>2 DEF Init, IInv, Service, Sender, Masked, Asked, Staged
<1>2. IInv /\ [Next]_vars => IInv'
  <2> SUFFICES ASSUME IInv, [Next]_vars PROVE IInv'
    OBVIOUS
  <2>1. CASE Run
    BY <2>1, pkt_receiver_deliverKeeps, EnterKeeps, TimersDoneKeeps, DisableKeeps, CopyKeeps,
       ClearKeeps, NextPhaseKeeps, inject_keyKeeps, request_rebootKeeps, BuildKeeps,
       pkt_sendKeeps, pkt_sentKeeps, TickDoneKeeps, do_rebootKeeps, NoRebootKeeps, ChainKeeps
    DEF Run
  <2>2. CASE UNCHANGED vars \/ Restarting
    BY <2>2, StutterKeeps DEF Restarting
  <2> QED BY <2>1, <2>2, TimerKeeps, TransmitCompleteKeeps, pkt_receiver_getKeeps DEF Next
<1> QED BY <1>1, <1>2, PTL DEF Spec

(* However deep ticks, receptions and transmissions nest, one tick is      *)
(* served at a time and in_tick says whether one is (dosshd.c:581-595).    *)
THEOREM ServiceExclusive == Spec => []OneServing
<1>1. IInv => OneServing
  <2> SUFFICES ASSUME IInv PROVE OneServing
    OBVIOUS
  <2>1. Serving = {d \in Handlers : stack[d].pc \notin Quiet}
    BY DEF Serving, Handlers, Quiet, top
  <2>2. CASE in_tick
    <3>1. PICK d \in Handlers : stack[d].pc \notin Quiet
      BY <2>2 DEF IInv, Service
    <3>2. Serving = {d}
      BY <2>1, <3>1 DEF IInv, Service
    <3> QED BY <2>2, <3>2, FS_Singleton DEF OneServing
  <2>3. CASE ~in_tick
    <3>1. Serving = {}
      BY <2>1, <2>3 DEF IInv, Service
    <3> QED BY <2>3, <3>1, FS_EmptySet DEF OneServing
  <2> QED BY <2>2, <2>3
<1> QED BY <1>1, Inductive, PTL

(* From its building to the return of the driver a frame in g_txbuf and    *)
(* the saved stack are the sender's, and the sending guard never drops one *)
(* (net.c:113-131, pktrecv.asm:87-96), at any depth of nesting.            *)
THEOREM SendsUndisturbed == Spec => []SendUndisturbed
<1>1. IInv => SendUndisturbed
  BY DEF IInv, Service, Sender, SendUndisturbed, Handlers, Quiet, top
<1> QED BY <1>1, Inductive, PTL

(* The foreground program always gets its machine back with interrupts on, *)
(* IRQ0 acknowledged and all guards down.                                  *)
THEOREM ForegroundGoesOn == Spec => []ForegroundFree
<1>1. IInv => ForegroundFree
  BY DEF IInv, Service, Sender, Masked, Asked, ForegroundFree, Handlers, top
<1> QED BY <1>1, Inductive, PTL

(* The frame delivered last is not forgotten, and every frame net_poll     *)
(* hands to handle_frame is whole and new (net.c:558-566).                 *)
THEOREM FramesTaken == Spec => []FramesHandedOver
<1>1. IInv => FramesHandedOver
  BY DEF IInv, Typed, Staged, FramesHandedOver
<1> QED BY <1>1, Inductive, PTL

(* Type correctness: no handler is ever at a place it cannot be at, more   *)
(* handlers than the stack has room for are never in progress, and the     *)
(* owners of the buffers are handlers.                                     *)
THEOREM TickTyped == Spec => []TickTypeOK
<1>1. IInv => TickTypeOK
  <2> SUFFICES ASSUME IInv PROVE TickTypeOK
    OBVIOUS
  <2>1. Typed
    BY DEF IInv
  <2>2. \A d \in 1..top : stack[d] \in Handler
    BY <2>1 DEF Typed, top
  <2>3. \A d \in 1..top :
          /\ stack[d].pc \in PCs /\ stack[d].ret \in Phases \cup {"none"}
          /\ stack[d].left \in 0..MaxSends /\ stack[d].asks \in 0..MaxAsks
    BY <2>2 DEF Handler
  <2>4. {ifl, irq0, registered, in_tick, sending, g_reboot, txdone, pkt_flag, down}
          \subseteq BOOLEAN
    BY <2>1 DEF Typed
  <2>5. top <= MaxDepth
    BY <2>1 DEF Typed, top
  <2> QED BY <2>1, <2>3, <2>4, <2>5, Zenon DEF Typed, TickTypeOK, PCs, Quiet
<1> QED BY <1>1, Inductive, PTL
=============================================================================

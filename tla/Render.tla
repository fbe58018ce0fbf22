------------------------------- MODULE Render -------------------------------
(***************************************************************************)
(* dosshd/render.c: the screen in video memory sent to the terminals as    *)
(* ANSI frames, a diff against the shadow of what was sent before or a     *)
(* full repaint.  The terminals are external: they apply what they are     *)
(* sent.  The stream is made of items instead of bytes:                    *)
(*   <<"BEGIN">>       no auto-wrap, cursor hidden                         *)
(*   <<"CLEAR">>       ESC[2J ESC[H                                        *)
(*   <<"CUP", r, c>>   <<"SGR", at>>   <<"CH", ch>>                        *)
(*   <<"END">>         the cursor as DOS shows it                          *)
(* All terminals are sent the same items (net_tx_putc takes a byte for all *)
(* of them or for none), in order, so a terminal here has applied every    *)
(* item that was handed to the transport.                                  *)
(*                                                                         *)
(* The foreground program writes to the screen between ticks.  Since a     *)
(* tick may stop after any byte (TX_BUDGET, a full send ring) it may do so *)
(* between any two items, but not while render_next_byte fills the buffer. *)
(***************************************************************************)
EXTENDS Integers, Sequences, FiniteSets, SequencesExt

CONSTANTS
  Terms,           \* terminals
  Chars, Attrs,    \* what a cell may hold
  Geos,            \* text modes: <<columns, rows>>
  SHADOW_CELLS,    \* SHADOW_BYTES / 2
  OBUF, RESERVE,   \* buffer, and what one cell and the frame's end may take
  CADENCE_TICKS, HEAL_TICKS,
  DAY,             \* ticks in a day: ticks() goes back to 0 at midnight
  MaxWrites,       \* bound: changes made by the foreground program
  MaxChanges       \* bound: those, clients admitted (or resized) and terminals
                   \* attached, in all

ASSUME RenderAssumption ==
  /\ \A g \in Geos : g[1] > 0 /\ g[2] > 0
  /\ RESERVE >= 5 /\ OBUF >= RESERVE + 2 /\ DAY > 0

VARIABLES
  vram, dos_cur, geo, ticks,                  \* the machine
  serial,          \* ~g_net: a terminal attaches silently
  shadow, shadow_valid, sh_geo, force_kf, last_kf, heal_kf,
  frame,           \* frame_active, is_repaint, is_toobig, walk_cell, geometry
  last_emit, cur_sgr, last_cur,
  obuf, pushed,    \* what is left of obuf; the byte pushed back, if any
  filling,         \* inside frame_fill
  term,            \* term[t]: what terminal t shows
  writes, joins

machine == <<vram, dos_cur, geo, ticks, writes, serial>>
track == <<shadow, shadow_valid, sh_geo, force_kf, last_kf, heal_kf, last_cur>>
walk == <<frame, last_emit, cur_sgr, filling>>
out == <<obuf, pushed>>
vars == <<machine, track, walk, out, term, joins>>

Cells(g) == 0..(g[1] * g[2] - 1)
AllCells == UNION {Cells(g) : g \in Geos}
Value == Chars \X Attrs
Place(c, g) == <<c \div g[1], c % g[1]>>
Grid == UNION {{Place(c, g) : c \in Cells(g)} : g \in Geos}
TooBig(g) == g[1] * g[2] > SHADOW_CELLS

---------------------------------------------------------------------------
(* a terminal: off, or its cells, the place and attribute of the next      *)
(* character ("?": unknown), and whether one was written at a place unknown *)
Garbled == [on |-> TRUE, cells |-> [p \in Grid |-> <<"?", "?">>],
            pos |-> <<>>, at |-> "?", blind |-> FALSE]
Off == [Garbled EXCEPT !.on = FALSE]

Right(p) == IF <<p[1], p[2] + 1>> \in Grid THEN <<p[1], p[2] + 1>> ELSE p
Apply(t, i) ==
  CASE ~t.on -> t
    [] i[1] \in {"BEGIN", "END"} -> t
    [] i[1] = "CLEAR" -> [t EXCEPT !.cells = [p \in Grid |-> <<" ", "">>], !.pos = <<0, 0>>]
    [] i[1] = "CUP" -> [t EXCEPT !.pos = <<i[2], i[3]>>]
    [] i[1] = "SGR" -> [t EXCEPT !.at = i[2]]
    [] i[1] = "CH" -> IF t.pos \notin Grid \/ t.at = "?" THEN [t EXCEPT !.blind = TRUE]
                      ELSE [t EXCEPT !.cells[t.pos] = <<i[2], t.at>>, !.pos = Right(@)]

---------------------------------------------------------------------------
(* the foreground program, the clock                                       *)
Write ==
  /\ ~filling /\ writes < MaxWrites /\ writes + joins < MaxChanges /\ writes' = writes + 1
  /\ \/ \E c \in Cells(geo), v \in Value :
          vram' = [vram EXCEPT ![c] = v] /\ UNCHANGED <<dos_cur, geo>>
     \/ \E c \in Cells(geo) :
          dos_cur' = Place(c, geo) /\ UNCHANGED <<vram, geo>>
     \/ \E g \in Geos :
          /\ geo' = g /\ dos_cur' = <<0, 0>>
          /\ \E v \in Value : vram' = [c \in AllCells |-> v]
  /\ UNCHANGED <<ticks, serial, track, walk, out, term, joins>>

Tick ==
  /\ ~filling /\ ticks' = (ticks + 1) % DAY
  /\ UNCHANGED <<vram, dos_cur, geo, writes, serial, track, walk, out, term, joins>>

---------------------------------------------------------------------------
(* mutant: what is left of the last frame is still sent                    *)
render_reset_KeepsBuffer ==
  /\ shadow_valid' = FALSE /\ force_kf' = TRUE /\ heal_kf' = ticks
  /\ frame' = [frame EXCEPT !.active = FALSE]
  /\ cur_sgr' = "none" /\ last_emit' = -2 /\ last_cur' = <<>>
  /\ UNCHANGED <<shadow, sh_geo, last_kf, filling, obuf, pushed>>
render_reset ==
  /\ shadow_valid' = FALSE /\ force_kf' = TRUE /\ heal_kf' = ticks
  /\ frame' = [frame EXCEPT !.active = FALSE]
  /\ obuf' = <<>> /\ pushed' = <<>>
  /\ cur_sgr' = "none" /\ last_emit' = -2 /\ last_cur' = <<>>
  /\ UNCHANGED <<shadow, sh_geo, last_kf, filling>>

(* a client is admitted to the broadcast, or reports a new window size     *)
Join(t) ==
  /\ ~serial /\ ~filling /\ writes + joins < MaxChanges /\ joins' = joins + 1
  /\ term' = [term EXCEPT ![t] = Garbled]
  /\ render_reset /\ UNCHANGED machine

(* a terminal is attached to the serial line: nobody is told               *)
Attach(t) ==
  /\ serial /\ ~filling /\ writes + joins < MaxChanges /\ joins' = joins + 1
  /\ term' = [term EXCEPT ![t] = Garbled]
  /\ UNCHANGED <<machine, track, walk, out>>

---------------------------------------------------------------------------
(* frame_decide                                                            *)
Since(t) == ticks - t
Changed == {c \in Cells(geo) : vram[c] # shadow[c]}

Clear == IF TooBig(geo) THEN force_kf \/ Since(last_kf) >= CADENCE_TICKS
         ELSE force_kf \/ ~shadow_valid \/ geo # sh_geo
(* mutant: the cadence ends with the heal window on every transport        *)
Due_HealOnly == \/ Clear
                \/ /\ ~TooBig(geo) /\ Since(last_kf) >= CADENCE_TICKS
                   /\ Since(heal_kf) < HEAL_TICKS
Due == \/ Clear
       \/ /\ ~TooBig(geo) /\ Since(last_kf) >= CADENCE_TICKS
          /\ serial \/ Since(heal_kf) < HEAL_TICKS

(* mutant: a moved cursor is not worth a frame                             *)
Idle_NoCursor == ~Due /\ (TooBig(geo) \/ Changed = {})
Idle == ~Due /\ (TooBig(geo) \/ (Changed = {} /\ dos_cur = last_cur))

frame_decide ==
  /\ ~filling /\ obuf = <<>> /\ pushed = <<>> /\ ~frame.active /\ ~Idle
  /\ LET diff == ~Due /\ Changed # {}
         repaint == Due \/ 4 * Cardinality(Changed) > 3 * Cardinality(Cells(geo))
     IN  /\ frame' = [active |-> TRUE, is_repaint |-> repaint,
                      is_toobig |-> TooBig(geo), walk_cell |-> 0, geo |-> geo]
         /\ heal_kf' = IF diff THEN ticks ELSE heal_kf
         /\ sh_geo' = IF repaint THEN geo ELSE sh_geo
  /\ obuf' = IF Clear THEN <<<<"BEGIN">>, <<"CLEAR">>>> ELSE <<<<"BEGIN">>>>
  /\ last_emit' = -2 /\ cur_sgr' = "none" /\ filling' = TRUE
  /\ UNCHANGED <<machine, shadow, shadow_valid, force_kf, last_kf, last_cur,
                 pushed, term, joins>>

(* the next buffer of a frame that did not fit into one                    *)
Resume ==
  /\ ~filling /\ obuf = <<>> /\ pushed = <<>> /\ frame.active /\ filling' = TRUE
  /\ UNCHANGED <<machine, track, frame, last_emit, cur_sgr, out, term, joins>>

---------------------------------------------------------------------------
(* frame_fill, one cell at a time                                          *)
Emit(o, items) == SubSeq(o \o items, 1, IF Len(o \o items) < OBUF THEN Len(o \o items)
                                        ELSE OBUF)
total == frame.geo[1] * frame.geo[2]
Room == Len(obuf) + RESERVE <= OBUF

(* mutant: no CUP at the start of a row                                    *)
Cup_NotAtRowStart(c) ==
  LET p == Place(c, frame.geo)
  IN  IF c # last_emit + 1 THEN <<<<"CUP", p[1], p[2]>>>> ELSE <<>>
Cup(c) ==
  LET p == Place(c, frame.geo)
  IN  IF c # last_emit + 1 \/ p[2] = 0 THEN <<<<"CUP", p[1], p[2]>>>> ELSE <<>>
Sgr(at) == IF at # cur_sgr THEN <<<<"SGR", at>>>> ELSE <<>>

FillCell ==
  LET c == frame.walk_cell
      v == vram[c]
  IN  /\ filling /\ c < total /\ Room
      /\ frame' = [frame EXCEPT !.walk_cell = c + 1]
      /\ IF frame.is_repaint \/ frame.is_toobig \/ v # shadow[c]
         THEN /\ obuf' = Emit(obuf, Cup(c) \o Sgr(v[2]) \o <<<<"CH", v[1]>>>>)
              /\ cur_sgr' = v[2] /\ last_emit' = c
              /\ shadow' = IF frame.is_toobig THEN shadow ELSE [shadow EXCEPT ![c] = v]
         ELSE UNCHANGED <<obuf, cur_sgr, last_emit, shadow>>
      /\ UNCHANGED <<machine, shadow_valid, sh_geo, force_kf, last_kf, heal_kf,
                     last_cur, filling, pushed, term, joins>>

FillBreak ==
  /\ filling /\ frame.walk_cell < total /\ ~Room /\ filling' = FALSE
  /\ UNCHANGED <<machine, track, frame, last_emit, cur_sgr, out, term, joins>>

FrameDone ==
  /\ filling /\ frame.walk_cell >= total /\ filling' = FALSE
  /\ obuf' = Emit(obuf, <<<<"CUP", dos_cur[1], dos_cur[2]>>, <<"END">>>>)
  /\ last_cur' = dos_cur /\ frame' = [frame EXCEPT !.active = FALSE]
  /\ shadow_valid' = (shadow_valid \/ ~frame.is_toobig)
  /\ force_kf' = (force_kf /\ ~frame.is_repaint)
  /\ last_kf' = IF frame.is_repaint \/ frame.is_toobig THEN ticks ELSE last_kf
  /\ UNCHANGED <<machine, shadow, sh_geo, heal_kf, last_emit, cur_sgr, pushed,
                 term, joins>>

---------------------------------------------------------------------------
(* tx_pump: the next byte is taken by the transport, or is pushed back     *)
NextItem == Head(pushed \o obuf)
render_next_byte ==
  /\ ~filling /\ pushed \o obuf # <<>>
  /\ term' = [t \in Terms |-> Apply(term[t], NextItem)]
  /\ pushed' = <<>> /\ obuf' = IF pushed = <<>> THEN Tail(obuf) ELSE obuf
  /\ UNCHANGED <<machine, track, walk, joins>>

render_pushback ==
  /\ ~serial /\ ~filling /\ pushed = <<>> /\ obuf # <<>>
  /\ pushed' = <<Head(obuf)>> /\ obuf' = Tail(obuf)
  /\ UNCHANGED <<machine, track, walk, term, joins>>

Init ==
  /\ geo \in Geos /\ dos_cur = <<0, 0>> /\ ticks \in 0..(DAY - 1) /\ writes = 0
  /\ serial \in BOOLEAN
  /\ \E v \in Value : /\ vram = [c \in AllCells |-> v]
                      /\ shadow = [c \in AllCells |-> v]
  /\ shadow_valid = FALSE /\ sh_geo = <<0, 0>> /\ force_kf = TRUE
  /\ last_kf = 0 /\ heal_kf = ticks /\ last_cur = <<>>
  /\ frame = [active |-> FALSE, is_repaint |-> FALSE, is_toobig |-> FALSE,
              walk_cell |-> 0, geo |-> geo]
  /\ last_emit = -2 /\ cur_sgr = "none" /\ filling = FALSE
  /\ obuf = <<>> /\ pushed = <<>> /\ joins = 0
  /\ term = [t \in Terms |-> Off]

tx_pump == frame_decide \/ Resume \/ FillCell \/ FillBreak \/ FrameDone
           \/ render_next_byte
Next == Write \/ Tick \/ (\E t \in Terms : Join(t) \/ Attach(t))
        \/ tx_pump \/ render_pushback

Spec == Init /\ [][Next]_vars

(* Ticks keep coming and every one calls tx_pump, so a frame that is due   *)
(* again and again is sent; a byte pushed back is taken by the transport   *)
(* in the end (net_tx_putc drops a slot whose ring stays full).            *)
FairSpec == Spec /\ WF_vars(Tick) /\ SF_vars(tx_pump)

---------------------------------------------------------------------------
RenderTypeOK ==
  /\ vram \in [AllCells -> Value] /\ shadow \in [AllCells -> Value]
  /\ Len(pushed) <= 1 /\ Len(obuf) <= OBUF
  /\ frame.walk_cell <= total /\ last_emit \in {-2} \cup AllCells
  /\ cur_sgr \in Attrs \cup {"none"} /\ ticks \in 0..(DAY - 1)
  /\ dos_cur \in Grid /\ {shadow_valid, force_kf, filling, frame.active} \subseteq BOOLEAN

(* the terminal as it will be when everything pending has been sent        *)
Ahead(t) == FoldLeft(Apply, term[t], pushed \o obuf)
Mirrors(t, C, g) == \A c \in C : Ahead(t).cells[Place(c, g)] = shadow[c]

(* The shadow is what a terminal shows once the pending output is sent:    *)
(* all of it between frames and in a diff, the part walked so far in a     *)
(* repaint.  A cell the shadow has wrong is never sent again, so this must *)
(* survive the elided CUPs and SGRs, a frame split over buffers and ticks, *)
(* a reset in the middle of one and a change of text mode.  The pending    *)
(* output stays within its buffer (RenderTypeOK).                          *)
ShadowMirrored ==
  RenderTypeOK /\ \A t \in Terms :
    term[t].on /\ ~serial /\ ~TooBig(sh_geo) /\ ~frame.is_toobig =>
      /\ shadow_valid /\ ~(frame.active /\ frame.is_repaint) /\ sh_geo \in Geos
           => Mirrors(t, Cells(sh_geo), sh_geo)
      /\ frame.active /\ frame.is_repaint
           => Mirrors(t, {c \in Cells(frame.geo) : c < frame.walk_cell}, frame.geo)

(* A client that joins in the middle of the shared stream is sent no       *)
(* character before the position and the attribute it belongs to.          *)
NoBlindCharacter == ~serial => \A t \in Terms : ~term[t].blind

Shows(t) == /\ \A c \in Cells(geo) : term[t].cells[Place(c, geo)] = vram[c]
            /\ term[t].pos = dos_cur

(* Every network terminal shows the screen again and again: once the       *)
(* foreground program pauses, the mirror catches up with it, cursor        *)
(* included, unless the text mode is too big for the shadow.               *)
Caught == serial \/ TooBig(geo) \/ \A t \in Terms : term[t].on => Shows(t)
CatchesUp == []<>Caught

(* A terminal attached to the serial line without notice shows the screen  *)
(* in the end, or the last repaint was so close to midnight that the next  *)
(* one cannot fall due: ticks() never gets CADENCE_TICKS past last_kf.     *)
ResyncsBeforeMidnight ==
  \A t \in Terms :
    serial /\ term[t].on ~> (Shows(t) \/ last_kf + CADENCE_TICKS >= DAY)
=============================================================================

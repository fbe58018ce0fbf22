------------------------------ MODULE AnsiKey ------------------------------
(***************************************************************************)
(* dosshd/ansikey.c, terminal bytes to keystrokes, and the BIOS type-ahead *)
(* ring that inject_key of dosshd/dosshd.c puts them into.  A byte is the  *)
(* character or the control code it stands for; a key is what the ring     *)
(* holds: a scan code for the extended keys (with ASCII 0), the name of    *)
(* the character otherwise.  The scan codes of the characters are left     *)
(* out.                                                                    *)
(***************************************************************************)
EXTENDS Integers, Sequences, FiniteSets

CONSTANTS
  PEND,         \* sizeof pend
  RING,         \* slots of the type-ahead ring, one of them always free
  Encodings,    \* what the typist's terminal sends: [key pressed -> bytes]
  AnyBytes,     \* bytes that arrive in no particular order
  MaxBytes      \* bound: bytes sent

ASSUME KeyAssumption ==
  /\ PEND \in Nat /\ PEND >= 2 /\ RING \in Nat /\ RING >= 2 /\ MaxBytes \in Nat
  /\ AnyBytes \subseteq STRING
  /\ \A key \in DOMAIN Encodings : Encodings[key] \in Seq(STRING)

VARIABLES
  dec,               \* decoder: [pend, age, swallow, rb]
  head, tail, slot,  \* 0040:001A, 0040:001C and the ring
  reboots,           \* calls of request_reboot
  people,            \* who types: "one" person or "several"
  wire,              \* bytes sent and not yet received
  pressed,           \* history: keys pressed
  injected,          \* history: keys passed to inject_key
  kept, taken,       \* history: keys the ring accepted, keys DOS has read
  heard              \* history: bytes received

ring == <<head, tail, slot, kept>>
vars == <<dec, ring, reboots, wire, pressed, injected, taken, heard, people>>

Digits == [d \in {"0", "1", "2", "3", "4", "5", "6", "7", "8", "9"} |->
             CHOOSE n \in 0..9 : d = <<"0", "1", "2", "3", "4", "5", "6", "7",
                                       "8", "9">>[n + 1]]
Params == DOMAIN Digits \cup {";"}

---------------------------------------------------------------------------
(* scan codes of the extended keys, 0 for none                             *)
csi_final(f) ==
  CASE f = "A" -> 72 [] f = "B" -> 80 [] f = "C" -> 77 [] f = "D" -> 75
    [] f = "H" -> 71 [] f = "F" -> 79 [] OTHER -> 0
csi_tilde(n) ==
  CASE n \in 1..6 -> <<71, 82, 83, 79, 73, 81>>[n]
    [] n \in 11..15 -> n + 48
    [] n \in 17..21 -> n + 47
    [] n \in {23, 24} -> n + 64
    [] OTHER -> 0
ss3_final(f) ==
  CASE f = "P" -> 59 [] f = "Q" -> 60 [] f = "R" -> 61 [] f = "S" -> 62
    [] f = "H" -> 71 [] f = "F" -> 79 [] OTHER -> 0

Scan(sc) == IF sc = 0 THEN <<>> ELSE <<<<"scan", sc>>>>
Char(b) == <<<<"char", b>>>>

map_byte(b) ==
  CASE b \in {"CR", "LF"} -> Char("CR")
    [] b \in {"BS", "DEL"} -> Char("BS")
    [] b \in {"NUL", "ESC", "HIGH"} -> <<>>
    [] OTHER -> Char(b)

(* finish_csi: the first parameter, as a 16-bit number                     *)
Number(p) ==
  LET ends == {i \in 3..Len(p) : p[i] = ";"} \cup {Len(p) + 1}
      end == CHOOSE i \in ends : \A j \in ends : i <= j
      n[i \in 2..(end - 1)] == IF i = 2 THEN 0 ELSE (10 * n[i - 1] + Digits[p[i]]) % 65536
  IN  n[end - 1]
finish_csi(p, f) == Scan(IF f = "~" THEN csi_tilde(Number(p)) ELSE csi_final(f))

---------------------------------------------------------------------------
(* ansi_key_byte: decoder k and byte b give the decoder, the keys and      *)
(* whether a reboot is requested                                           *)
Gives(k, keys) == [dec |-> k, keys |-> keys, reboot |-> FALSE]
Nothing(k) == [k EXCEPT !.pend = <<>>]

Fresh(k, b) ==
  CASE b = "ESC" -> Gives([k EXCEPT !.pend = <<"ESC">>, !.age = 0], <<>>)
    [] b = "CR" -> Gives([k EXCEPT !.swallow = TRUE], Char("CR"))
    [] OTHER -> Gives(k, map_byte(b))

(* mutant: the byte after a lone ESC goes with it                          *)
Pending_EatsByte(k, b) ==
  IF Len(k.pend) = 1
  THEN IF b \in {"[", "O"} THEN Gives([k EXCEPT !.pend = Append(@, b)], <<>>)
       ELSE Gives(Nothing(k), Char("ESC"))
  ELSE IF k.pend[2] = "[" /\ b \in Params
  THEN Gives([k EXCEPT !.pend = Append(@, b)], <<>>)
  ELSE Gives(Nothing(k), IF k.pend[2] = "[" THEN finish_csi(k.pend, b)
                         ELSE Scan(ss3_final(b)))
Pending(k, b) ==
  IF Len(k.pend) = 1
  THEN IF b \in {"[", "O"} THEN Gives([k EXCEPT !.pend = Append(@, b)], <<>>)
       ELSE LET f == Fresh(Nothing(k), b)
            IN  [f EXCEPT !.keys = Char("ESC") \o @]
  ELSE IF k.pend[2] = "[" /\ b \in Params
  THEN Gives(IF Len(k.pend) < PEND THEN [k EXCEPT !.pend = Append(@, b)] ELSE k, <<>>)
  ELSE Gives(Nothing(k), IF k.pend[2] = "[" THEN finish_csi(k.pend, b)
                         ELSE Scan(ss3_final(b)))

(* mutant: a byte between the Ctrl-^ does not start the count afresh       *)
ansi_key_byte_Keeps(k, b) ==
  IF b = "RS" THEN Gives([k EXCEPT !.rb = IF @ < 3 THEN @ + 1 ELSE @], <<>>)
  ELSE IF k.rb >= 3 /\ b \in {"Y", "y"}
  THEN [Gives([k EXCEPT !.rb = 0], <<>>) EXCEPT !.reboot = TRUE]
  ELSE IF k.pend = <<>> THEN Fresh(k, b) ELSE Pending([k EXCEPT !.age = 0], b)
ansi_key_byte(k, b) ==
  LET calm == [k EXCEPT !.rb = 0, !.swallow = FALSE]
  IN  IF b = "RS" THEN Gives([k EXCEPT !.rb = IF @ < 3 THEN @ + 1 ELSE @], <<>>)
      ELSE IF k.rb >= 3 /\ b \in {"Y", "y"}
      THEN [Gives([k EXCEPT !.rb = 0], <<>>) EXCEPT !.reboot = TRUE]
      ELSE IF k.swallow /\ b \in {"LF", "NUL"} THEN Gives(calm, <<>>)
      ELSE IF k.pend = <<>> THEN Fresh(calm, b)
      ELSE Pending([calm EXCEPT !.age = 0], b)

---------------------------------------------------------------------------
(* inject_key: the key is dropped when the ring is full                    *)
After(i) == (i + 1) % RING
(* mutant: the last slot is used too                                       *)
inject_key_Fills(ks) ==
  IF ks = <<>> THEN UNCHANGED ring
  ELSE /\ slot' = [slot EXCEPT ![tail] = ks[1]] /\ tail' = After(tail)
       /\ kept' = Append(kept, ks[1]) /\ UNCHANGED head
(* at most two keys come of one byte (a lone ESC and the byte itself)      *)
inject_key(ks) ==
  LET room == (head - tail - 1) % RING
      in == SubSeq(ks, 1, IF Len(ks) < room THEN Len(ks) ELSE room)
  IN  /\ slot' = [i \in 0..(RING - 1) |->
                    LET n == 1 + ((i - tail) % RING)
                    IN  IF n <= Len(in) THEN in[n] ELSE slot[i]]
      /\ tail' = (tail + Len(in)) % RING
      /\ kept' = kept \o in /\ UNCHANGED head

(* the tick hands over a received byte                                     *)
Receive(b) ==
  LET r == ansi_key_byte(dec, b)
  IN  /\ dec' = r.dec /\ inject_key(r.keys)
      /\ injected' = injected \o r.keys /\ heard' = Append(heard, b)
      /\ reboots' = IF r.reboot THEN reboots + 1 ELSE reboots
      /\ UNCHANGED <<pressed, taken>>

(* mutant: a pending ESC is not flushed                                    *)
ansi_key_tick_NoFlush == UNCHANGED <<dec, ring, injected>>
ansi_key_tick ==
  LET old == dec.pend # <<>> /\ dec.age + 1 >= 2
      ks == IF old /\ Len(dec.pend) = 1 THEN Char("ESC") ELSE <<>>
  IN  /\ dec' = IF old THEN [Nothing(dec) EXCEPT !.age = @ + 1]
                ELSE [dec EXCEPT !.age = IF dec.pend = <<>> THEN @ ELSE @ + 1]
      /\ inject_key(ks) /\ injected' = injected \o ks

(* INT 16h: DOS takes a key                                                *)
DosReads ==
  /\ head # tail /\ taken' = Append(taken, slot[head]) /\ head' = After(head)
  /\ UNCHANGED <<dec, tail, slot, kept, reboots, wire, pressed, injected, heard>>

---------------------------------------------------------------------------
Init ==
  /\ dec = [pend |-> <<>>, age |-> 0, swallow |-> FALSE, rb |-> 0]
  /\ head = 0 /\ tail = 0 /\ slot = [i \in 0..(RING - 1) |-> <<"none">>]
  /\ reboots = 0 /\ wire = <<>> /\ people \in {"one", "several"}
  /\ pressed = <<>> /\ injected = <<>> /\ kept = <<>> /\ taken = <<>> /\ heard = <<>>

Sent == Len(heard) + Len(wire)

(* One person types.  The bytes of a key arrive at most one tick apart; a  *)
(* bracket is not typed within the two ticks after ESC alone.              *)
Press(key) ==
  /\ Sent + Len(Encodings[key]) <= MaxBytes
  /\ wire = <<>>
  /\ key \in {"[", "O"} => dec.pend = <<>>
  /\ wire' = Encodings[key] /\ pressed' = Append(pressed, key)
  /\ UNCHANGED <<dec, ring, reboots, injected, taken, heard>>
Arrive == wire # <<>> /\ wire' = Tail(wire) /\ Receive(Head(wire))
Tick ==
  /\ wire # <<>> => dec.pend = <<>> \/ dec.age = 0
  /\ ansi_key_tick /\ UNCHANGED <<reboots, wire, pressed, taken, heard>>

Typing == (\E key \in DOMAIN Encodings : Press(key)) \/ Arrive \/ Tick

(* Several clients type: bytes in any order, ticks between any two         *)
Mixed == \/ \E b \in AnyBytes :
              Len(heard) < MaxBytes /\ Receive(b) /\ UNCHANGED wire
         \/ ansi_key_tick /\ UNCHANGED <<reboots, wire, pressed, taken, heard>>

Next == /\ UNCHANGED people
        /\ \/ people = "one" /\ Typing
           \/ people = "several" /\ Mixed
           \/ DosReads

(* bytes under way arrive, and ticks go on                                 *)
Spec == Init /\ [][Next]_vars /\ WF_vars(people = "one" /\ UNCHANGED people /\ Arrive)
                             /\ WF_vars(people = "one" /\ UNCHANGED people /\ Tick)

---------------------------------------------------------------------------
KeyTypeOK ==
  /\ Len(dec.pend) <= PEND /\ dec.age \in 0..2 /\ dec.rb \in 0..3
  /\ head \in 0..(RING - 1) /\ tail \in 0..(RING - 1)

(* the key an encoding stands for                                          *)
Meaning(key) ==
  CASE key = "Enter" -> <<"char", "CR">> [] key = "EnterLF" -> <<"char", "CR">>
    [] key = "Esc" -> <<"char", "ESC">>
    [] key = "Up" -> <<"scan", 72>> [] key = "Del" -> <<"scan", 83>>
    [] key = "F5" -> <<"scan", 63>> [] key = "F1" -> <<"scan", 59>>
    [] OTHER -> <<"char", key>>
Meant == [i \in DOMAIN pressed |-> Meaning(pressed[i])]

(* Whatever way the bytes of one person's keys are cut up by ticks, DOS is *)
(* given the keys pressed, in order: none is lost, none appears, only the  *)
(* last may still be on its way.                                           *)
KeysAsTyped ==
  people = "one" =>
  /\ \E n \in 0..Len(Meant) : injected = SubSeq(Meant, 1, n)
  /\ Len(injected) < Len(Meant) =>
       \/ Len(injected) = Len(Meant) - 1 /\ (wire # <<>> \/ dec.pend # <<>>)
       \/ Len(injected) = Len(Meant) - 2 /\ wire # <<>> /\ dec.pend = <<"ESC">>

(* An Esc that is only a key, and no sequence, reaches DOS although no     *)
(* further byte ever arrives.                                              *)
AllKeysArrive == []<>(people = "one" => injected = Meant)

(* The keys DOS has read and those in the ring are the accepted ones in    *)
(* order, and the ring is never mistaken for empty: inject_key drops       *)
(* rather than overwrites (dosshd.c:160-182).  Nor does any sequence of    *)
(* bytes overrun the decoder's pend[] (KeyTypeOK).                         *)
RingFifo ==
  KeyTypeOK /\
  LET n == (tail - head) % RING
  IN  kept = taken \o [i \in 1..n |-> slot[(head + i - 1) % RING]]

(* where in the bytes h three Ctrl-^ are followed by a Y                   *)
Sentinels(h) == {i \in 4..Len(h) : /\ \A j \in (i - 3)..(i - 1) : h[j] = "RS"
                                   /\ h[i] \in {"Y", "y"}}

(* A reboot is requested exactly when three Ctrl-^ and a Y have arrived    *)
(* one right after the other, whatever escape sequences, line ends and     *)
(* ticks come before, after and between (ansikey.c:121-135).               *)
RebootOnSentinel == reboots = Cardinality(Sentinels(heard))
=============================================================================

------------------------------- MODULE Telnet -------------------------------
(***************************************************************************)
(* dosshd/telnet.c for one slot, as operators on its telnet state t: the   *)
(* negotiation, the IAC machine, the password gate.  A byte is named by    *)
(* what it means to telnet; every other name is a plain character.  An     *)
(* operation yields an effect: the new state, what is queued to this slot, *)
(* the bytes handed to ansi_key_byte, and the calls of net_slot_ready,     *)
(* net_slot_drop and render_reset.                                         *)
(***************************************************************************)
EXTENDS Integers, Sequences

CONSTANTS
  Password,    \* g_password; <<>> disables the gate
  AuMax,       \* longest password line: sizeof au_buf - 1
  EofExit,     \* g_eof_exit: /EOF given, Ctrl-D leaves
  SbMax        \* size of sb_buf

ASSUME GateAssumption == Len(Password) <= AuMax /\ EofExit \in BOOLEAN
ASSUME SizesAssumption == AuMax \in Nat /\ SbMax \in Nat

Ours == {"ECHO", "SGA", "BINARY"}             \* options we WILL
Accepted == {"SGA", "BINARY"}                 \* options we let the client WILL
Verbs == {"WILL", "WONT", "DO", "DONT"}

Effect(t) == [t |-> t, out |-> <<>>, keys |-> <<>>, ready |-> FALSE,
              drop |-> FALSE, repaint |-> FALSE]
Say(t, what) == [Effect(t) EXCEPT !.out = <<what>>]

Idle == [iac |-> 0, verb |-> "WILL", willed |-> {}, doed |-> {}, sb |-> <<>>,
         naws |-> <<>>, au |-> "OK", buf |-> <<>>, tries |-> 0]

(* telnet_begin: reset, hello, resize request, then the prompt or the door *)
Hello == <<<<"WILL", "ECHO">>, <<"WILL", "SGA">>, <<"DO", "SGA">>,
           <<"WILL", "BINARY">>, <<"DO", "BINARY">>, <<"DO", "NAWS">>, <<"RESIZE">>>>

(* mutant: the gate is left as the slot's last connection left it          *)
telnet_begin_KeepsGate(t) ==
  LET n == [Idle EXCEPT !.verb = t.verb, !.willed = Ours, !.doed = Accepted]
  IN  [Effect([n EXCEPT !.au = t.au]) EXCEPT !.out = Hello \o <<<<"PROMPT">>>>]

telnet_begin(t) ==
  LET n == [Idle EXCEPT !.verb = t.verb, !.willed = Ours, !.doed = Accepted]
  IN  IF Password = <<>>
      THEN [Effect(n) EXCEPT !.out = Hello, !.ready = TRUE, !.repaint = TRUE]
      ELSE [Effect([n EXCEPT !.au = "PW"]) EXCEPT !.out = Hello \o <<<<"PROMPT">>>>]

(* mutant: the third wrong password does not cut the session               *)
au_check_NoDrop(t) ==
  LET u == [t EXCEPT !.buf = <<>>]
  IN  IF t.buf = Password
      THEN [Effect([u EXCEPT !.au = "OK"]) EXCEPT !.ready = TRUE, !.repaint = TRUE]
      ELSE Say([u EXCEPT !.tries = @ + 1], <<"RETRY">>)

au_check(t) ==
  LET u == [t EXCEPT !.buf = <<>>]
  IN  IF t.buf = Password
      THEN [Effect([u EXCEPT !.au = "OK"]) EXCEPT !.ready = TRUE, !.repaint = TRUE]
      ELSE IF t.tries + 1 >= 3
      THEN [Say([u EXCEPT !.tries = @ + 1], <<"DENIED">>) EXCEPT !.drop = TRUE]
      ELSE Say([u EXCEPT !.tries = @ + 1], <<"RETRY">>)

(* the password collector of feed_data                                     *)
Collect(t, b) ==
  CASE b \in {"LF", "NUL"} -> t
    [] b \in {"BS", "DEL"} ->
         IF t.buf = <<>> THEN t ELSE [t EXCEPT !.buf = SubSeq(@, 1, Len(@) - 1)]
    [] OTHER -> IF Len(t.buf) < AuMax THEN [t EXCEPT !.buf = Append(@, b)] ELSE t

feed_data(t, b) ==
  IF t.au = "OK"
  THEN IF EofExit /\ b = "EOT" THEN [Effect(t) EXCEPT !.drop = TRUE]
       ELSE [Effect(t) EXCEPT !.keys = <<b>>]
  ELSE IF b = "CR" THEN au_check(t) ELSE Effect(Collect(t, b))

(* mutant: every DO is answered                                            *)
respond_Always(t, v, opt) ==
  IF v = "DO" THEN Say(t, <<IF opt \in Ours THEN "WILL" ELSE "WONT", opt>>)
  ELSE Effect(t)

(* respond: t is already back in the data state                            *)
respond(t, v, opt) ==
  CASE v = "DO" /\ opt \in Ours \cap t.willed -> Effect(t)
    [] v = "DO" /\ opt \in Ours \ t.willed ->
         Say([t EXCEPT !.willed = @ \cup {opt}], <<"WILL", opt>>)
    [] v = "DO" /\ opt \notin Ours -> Say(t, <<"WONT", opt>>)
    [] v = "WILL" /\ opt \in Accepted \cap t.doed -> Effect(t)
    [] v = "WILL" /\ opt \in Accepted \ t.doed ->
         Say([t EXCEPT !.doed = @ \cup {opt}], <<"DO", opt>>)
    [] v = "WILL" /\ opt = "NAWS" -> Effect(t)
    [] v = "WILL" /\ opt \notin Accepted \cup {"NAWS"} -> Say(t, <<"DONT", opt>>)
    [] v = "WONT" -> Say(t, <<"DONT", opt>>)
    [] v = "DONT" -> Say(t, <<"WONT", opt>>)

sb_push(t, b) == IF Len(t.sb) < SbMax THEN [t EXCEPT !.sb = Append(@, b)] ELSE t

(* sb_done: the size is the four bytes after NAWS, <<>> stands for (0, 0)  *)
sb_done(t) ==
  LET size == SubSeq(t.sb, 2, 5)
      new == IF size = <<"NUL", "NUL", "NUL", "NUL">> THEN <<>> ELSE size
  IN  IF Len(t.sb) < 5 \/ t.sb[1] # "NAWS" \/ new = t.naws THEN Effect(t)
      ELSE [Effect([t EXCEPT !.naws = new]) EXCEPT
              !.repaint = t.naws # <<>> /\ t.au = "OK"]

(* telnet_in: the IAC machine, one operator per state that has a choice    *)
To(t, s) == [t EXCEPT !.iac = s]

(* mutant: a doubled IAC is dropped                                        *)
AfterIac_DropFF(t, b) ==
  IF b = "SB" THEN Effect([To(t, 3) EXCEPT !.sb = <<>>])
  ELSE IF b \in Verbs THEN Effect([To(t, 2) EXCEPT !.verb = b])
  ELSE Effect(To(t, 0))
AfterIac(t, b) ==
  IF b = "IAC" THEN feed_data(To(t, 0), b)                  \* literal 0xFF
  ELSE IF b = "SB" THEN Effect([To(t, 3) EXCEPT !.sb = <<>>])
  ELSE IF b \in Verbs THEN Effect([To(t, 2) EXCEPT !.verb = b])
  ELSE Effect(To(t, 0))

AfterSbIac(t, b) ==
  IF b = "SE" THEN sb_done(To(t, 0))
  ELSE IF b = "IAC" THEN Effect(sb_push(To(t, 3), b))
  ELSE Effect(To(t, 3))

telnet_in(t, b) ==
  CASE t.iac = 0 -> IF b = "IAC" THEN Effect(To(t, 1)) ELSE feed_data(t, b)
    [] t.iac = 1 -> AfterIac(t, b)
    [] t.iac = 2 -> respond(To(t, 0), t.verb, b)
    [] t.iac = 3 -> IF b = "IAC" THEN Effect(To(t, 4)) ELSE Effect(sb_push(t, b))
    [] t.iac = 4 -> AfterSbIac(t, b)
=============================================================================

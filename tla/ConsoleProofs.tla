--------------------------- MODULE ConsoleProofs ---------------------------
(***************************************************************************)
(* The password gate of telnet mode, for every number of slots, every      *)
(* number of connections and every password: proofs about Console.         *)
(*                                                                         *)
(* The argument is an inductive invariant, GateInv, about the slots alone: *)
(* what the gate of a slot says is true of the connection the slot holds   *)
(* once telnet_begin has run for it, and net_tick never shows a slot to    *)
(* telnet_in or to the broadcast before.                                   *)
(***************************************************************************)
EXTENDS Console, TLAPS

---------------------------------------------------------------------------
(* The telnet state of a slot.                                             *)
TelState ==
  {t \in [iac: 0..4, verb: Verbs, willed: SUBSET Ours, doed: SUBSET Accepted,
          sb: Seq(STRING), naws: Seq(STRING), au: {"OK", "PW"},
          buf: Seq(STRING), tries: 0..3] :
     Len(t.buf) <= AuMax /\ Len(t.sb) <= SbMax}

SlotState == [st: {"free", "half", "open"}, host: Hosts \cup {NoHost},
              conn: 0..MaxConn, fresh: BOOLEAN, ready: BOOLEAN, inq: Bursts]

Typed ==
  /\ slots \in [Slot -> SlotState] /\ tel \in [Slot -> TelState]
  /\ nconn \in 0..MaxConn /\ pc \in {"idle", "begin", "drain", "tx"} /\ cur \in Slot
  /\ begun \subseteq Conns /\ passed \subseteq Conns /\ fed \subseteq Conns
  /\ mapped \subseteq Conns /\ shown \subseteq Conns /\ heirs \subseteq Conns
  /\ fails \in [Conns -> 0..3]

(* connections are numbered as they are opened, and two live slots never   *)
(* hold the same one                                                       *)
Numbered ==
  /\ \A i \in Slot : /\ slots[i].conn <= nconn
                     /\ Live(slots[i]) \/ slots[i].fresh => slots[i].conn >= 1
  /\ \A i, j \in Slot : i # j /\ Live(slots[i]) /\ Live(slots[j])
                          => slots[i].conn # slots[j].conn
  /\ \A n \in Conns : n > nconn => fails[n] = 0

(* telnet_begin is never owed outside the begin loop; bytes wait only in   *)
(* open slots, and only until the drain loop has passed them               *)
Phased ==
  \A i \in Slot :
    /\ slots[i].fresh => pc = "begin" /\ slots[i].st # "half"
    /\ slots[i].inq # <<>> => /\ slots[i].st = "open"
                              /\ pc = "begin" \/ (pc = "drain" /\ cur <= i)

(* slot i holds a connection that telnet_begin has been called for         *)
Serving(i) == slots[i].st = "open" /\ ~slots[i].fresh

(* the gate of a slot in service speaks of the connection it holds, and    *)
(* its count of wrong passwords too                                        *)
Gated ==
  \A i \in Slot :
    LET n == slots[i].conn
    IN  /\ Serving(i) => /\ n \in begun
                         /\ tel[i].au = "OK" => n \in passed
                         /\ fails[n] = tel[i].tries /\ tel[i].tries < 3
        /\ Live(slots[i]) /\ ~Serving(i) => fails[n] = 0

(* a ready slot was admitted, or inherited the flag, or nobody is asked    *)
Admitted ==
  \A i \in Slot : slots[i].ready =>
    LET n == slots[i].conn
    IN  /\ Serving(i) => n \in passed \cup heirs
        /\ Live(slots[i]) /\ ~Serving(i) => n \in heirs \/ Password = <<>>
        /\ ~Live(slots[i]) => Password = <<>>

Recorded ==
  /\ mapped \subseteq passed /\ fed \cup shown \subseteq begun
  /\ shown \subseteq passed \cup heirs

GateInv == Typed /\ Numbered /\ Phased /\ Gated /\ Admitted /\ Recorded

---------------------------------------------------------------------------
(* telnet.c: what one call may do to a slot's telnet state.                *)

(* what every call of telnet_in answers for: only an open gate passes keys *)
(* on, only net_slot_ready opens it, and the third strike is a drop        *)
EffectOK(t, e) ==
  /\ e.t \in TelState /\ e.ready \in BOOLEAN /\ e.drop \in BOOLEAN
  /\ e.keys # <<>> => t.au = "OK"
  /\ e.t.au = "OK" => t.au = "OK" \/ e.ready
  /\ e.t.tries >= t.tries /\ (e.t.tries = 3 => e.drop)

(* A state that differs in neither the gate nor the count of wrong         *)
(* passwords, with nothing else called or with one answer queued.          *)
LEMMA QuietEffect ==
  ASSUME NEW t \in TelState, t.tries < 3, NEW u \in TelState,
         u.au = t.au, u.tries = t.tries
  PROVE  /\ EffectOK(t, Effect(u))
         /\ \A w : EffectOK(t, Say(u, w))
BY DEF EffectOK, Effect, Say, TelState

(* The telnet state of a slot that no connection has used.                 *)
LEMMA IdleTyped == Idle \in TelState
BY SizesAssumption DEF Idle, TelState, Verbs, Ours, Accepted

(* telnet_begin leaves the gate open only when it calls net_slot_ready,    *)
(* which it does only when no password is set, and counts from zero.       *)
LEMMA BeginEffect ==
  ASSUME NEW t \in TelState
  PROVE  LET e == telnet_begin(t)
         IN  /\ e.t \in TelState /\ e.t.tries = 0 /\ e.drop = FALSE
             /\ e.ready \in BOOLEAN /\ (e.ready <=> Password = <<>>)
             /\ e.t.au = "OK" => e.ready
<1> DEFINE n == [Idle EXCEPT !.verb = t.verb, !.willed = Ours, !.doed = Accepted]
<1>1. n \in TelState /\ n.tries = 0
  BY IdleTyped DEF TelState, Idle, Verbs, Ours, Accepted
<1>2. [n EXCEPT !.au = "PW"] \in TelState /\ [n EXCEPT !.au = "PW"].tries = 0
      /\ [n EXCEPT !.au = "PW"].au = "PW"
  BY <1>1 DEF TelState
<1> HIDE DEF n
<1>3. CASE Password = <<>>
  BY <1>1, <1>3 DEF telnet_begin, Effect, n
<1>4. CASE Password # <<>>
  BY <1>2, <1>4 DEF telnet_begin, Effect, n
<1>5. QED BY <1>3, <1>4

(* au_check opens the gate on the password alone, and drops on the third   *)
(* wrong line.                                                             *)
LEMMA CheckEffect ==
  ASSUME NEW t \in TelState, t.tries < 3
  PROVE  EffectOK(t, au_check(t))
<1> DEFINE u == [t EXCEPT !.buf = <<>>]
           v == [u EXCEPT !.tries = @ + 1]
           w == [u EXCEPT !.au = "OK"]
<1>1. u \in TelState /\ u.tries = t.tries /\ u.au = t.au
  <2>1. <<>> \in Seq(STRING) /\ Len(<<>>) <= AuMax
    BY SizesAssumption
  <2>2. QED BY <2>1 DEF TelState
<1>2. v \in TelState /\ v.tries = t.tries + 1 /\ v.au = t.au
  <2> HIDE DEF u
  <2>1. u.tries + 1 \in 0..3
    BY <1>1 DEF TelState
  <2>2. QED BY <1>1, <2>1 DEF TelState
<1>3. w \in TelState /\ w.tries = t.tries
  BY <1>1 DEF TelState
<1>4. t.tries \in 0..3
  BY DEF TelState
<1>5. au_check(t) = IF t.buf = Password
                    THEN [Effect(w) EXCEPT !.ready = TRUE, !.repaint = TRUE]
                    ELSE IF t.tries + 1 >= 3
                    THEN [Say(v, <<"DENIED">>) EXCEPT !.drop = TRUE]
                    ELSE Say(v, <<"RETRY">>)
  BY DEF au_check
<1> HIDE DEF u, v, w
<1>6. CASE t.buf = Password
  BY <1>3, <1>4, <1>5, <1>6 DEF EffectOK, Effect
<1>7. CASE t.buf # Password /\ t.tries + 1 >= 3
  BY <1>2, <1>4, <1>5, <1>7 DEF EffectOK, Effect, Say
<1>8. CASE t.buf # Password /\ ~(t.tries + 1 >= 3)
  BY <1>2, <1>4, <1>5, <1>8 DEF EffectOK, Effect, Say
<1>9. QED BY <1>6, <1>7, <1>8

(* The password collector stays within au_buf.                             *)
LEMMA CollectKeeps ==
  ASSUME NEW t \in TelState, NEW b \in STRING
  PROVE  LET u == Collect(t, b)
         IN  u \in TelState /\ u.au = t.au /\ u.tries = t.tries
<1>1. t.buf \in Seq(STRING) /\ Len(t.buf) <= AuMax
  BY DEF TelState
<1>2. ASSUME NEW q \in Seq(STRING), Len(q) <= AuMax
      PROVE  LET u == [t EXCEPT !.buf = q]
             IN  u \in TelState /\ u.au = t.au /\ u.tries = t.tries
  BY <1>2 DEF TelState
<1>3. CASE b \in {"LF", "NUL"}
  BY <1>3 DEF Collect
<1>4. CASE b \in {"BS", "DEL"}
  <2>1. CASE t.buf = <<>>
    BY <1>4, <2>1 DEF Collect
  <2>2. CASE t.buf # <<>>
    <3> DEFINE q == SubSeq(t.buf, 1, Len(t.buf) - 1)
    <3>1. q \in Seq(STRING) /\ Len(q) <= AuMax
      BY <1>1, <2>2, SizesAssumption
    <3>2. Collect(t, b) = [t EXCEPT !.buf = q]
      BY <1>4, <2>2 DEF Collect
    <3> HIDE DEF q
    <3>3. QED BY <3>1, <3>2, <1>2
  <2>3. QED BY <2>1, <2>2
<1>5. CASE b \notin {"LF", "NUL", "BS", "DEL"}
  <2>1. CASE Len(t.buf) < AuMax
    <3> DEFINE q == Append(t.buf, b)
    <3>1. q \in Seq(STRING) /\ Len(q) <= AuMax
      BY <1>1, <2>1, SizesAssumption
    <3>2. Collect(t, b) = [t EXCEPT !.buf = q]
      BY <1>5, <2>1 DEF Collect
    <3> HIDE DEF q
    <3>3. QED BY <3>1, <3>2, <1>2
  <2>2. CASE ~(Len(t.buf) < AuMax)
    BY <1>5, <2>2 DEF Collect
  <2>3. QED BY <2>1, <2>2
<1>6. QED BY <1>3, <1>4, <1>5

LEMMA FeedEffect ==
  ASSUME NEW t \in TelState, t.tries < 3, NEW b \in STRING
  PROVE  EffectOK(t, feed_data(t, b))
<1>1. CASE t.au = "OK"
  <2>1. t.tries \in 0..3
    BY DEF TelState
  <2>2. QED BY <1>1, <2>1 DEF feed_data, EffectOK, Effect
<1>2. CASE t.au # "OK" /\ b = "CR"
  BY <1>2, CheckEffect DEF feed_data
<1>3. CASE t.au # "OK" /\ b # "CR"
  <2>1. feed_data(t, b) = Effect(Collect(t, b))
    BY <1>3 DEF feed_data
  <2>2. QED BY <2>1, CollectKeeps, QuietEffect
<1>4. QED BY <1>1, <1>2, <1>3

LEMMA ToKeeps ==
  ASSUME NEW t \in TelState, NEW s \in 0..4
  PROVE  /\ To(t, s) \in TelState
         /\ To(t, s).au = t.au /\ To(t, s).tries = t.tries
BY DEF To, TelState

(* An answer to DO, DONT, WILL or WONT touches neither the gate nor the    *)
(* count.                                                                  *)
LEMMA RespondEffect ==
  ASSUME NEW t \in TelState, t.tries < 3, NEW v \in Verbs, NEW opt \in STRING
  PROVE  EffectOK(t, respond(t, v, opt))
<1>1. ASSUME NEW W \in SUBSET Ours
      PROVE  LET u == [t EXCEPT !.willed = W]
             IN  u \in TelState /\ u.au = t.au /\ u.tries = t.tries
  BY <1>1 DEF TelState
<1>2. ASSUME NEW W \in SUBSET Accepted
      PROVE  LET u == [t EXCEPT !.doed = W]
             IN  u \in TelState /\ u.au = t.au /\ u.tries = t.tries
  BY <1>2 DEF TelState
<1>3. t.willed \in SUBSET Ours /\ t.doed \in SUBSET Accepted
  BY DEF TelState
<1>4. CASE v = "DO" /\ opt \in Ours \ t.willed
  <2> DEFINE W == t.willed \cup {opt}
  <2>1. W \in SUBSET Ours
    BY <1>3, <1>4
  <2>2. respond(t, v, opt) = Say([t EXCEPT !.willed = W], <<"WILL", opt>>)
    BY <1>4 DEF respond
  <2> HIDE DEF W
  <2>3. QED BY <1>1, <2>1, <2>2, QuietEffect
<1>5. CASE v = "WILL" /\ opt \in Accepted \ t.doed
  <2> DEFINE W == t.doed \cup {opt}
  <2>1. W \in SUBSET Accepted
    BY <1>3, <1>5
  <2>2. respond(t, v, opt) = Say([t EXCEPT !.doed = W], <<"DO", opt>>)
    BY <1>5 DEF respond, Accepted
  <2> HIDE DEF W
  <2>3. QED BY <1>2, <2>1, <2>2, QuietEffect
<1>6. CASE /\ ~(v = "DO" /\ opt \in Ours \ t.willed)
           /\ ~(v = "WILL" /\ opt \in Accepted \ t.doed)
  <2>1. respond(t, v, opt) = Effect(t) \/ \E w : respond(t, v, opt) = Say(t, w)
    <3>1. CASE v = "DO" /\ opt \in Ours \cap t.willed
      BY <3>1 DEF respond
    <3>2. CASE v = "DO" /\ opt \notin Ours
      BY <3>2 DEF respond
    <3>3. CASE v = "WILL" /\ opt \in Accepted \cap t.doed
      BY <3>3 DEF respond
    <3>4. CASE v = "WILL" /\ opt = "NAWS"
      BY <3>4 DEF respond, Accepted
    <3>5. CASE v = "WILL" /\ opt \notin Accepted \cup {"NAWS"}
      BY <3>5 DEF respond
    <3>6. CASE v = "WONT"
      BY <3>6 DEF respond
    <3>7. CASE v = "DONT"
      BY <3>7 DEF respond
    <3>8. QED BY <1>6, <3>1, <3>2, <3>3, <3>4, <3>5, <3>6, <3>7 DEF Verbs
  <2>2. QED BY <2>1, QuietEffect
<1>7. QED BY <1>4, <1>5, <1>6

(* The collector of subnegotiations stays within sb_buf.                   *)
LEMMA PushKeeps ==
  ASSUME NEW t \in TelState, NEW b \in STRING
  PROVE  LET u == sb_push(t, b)
         IN  u \in TelState /\ u.au = t.au /\ u.tries = t.tries
<1>1. t.sb \in Seq(STRING) /\ Len(t.sb) <= SbMax
  BY DEF TelState
<1>2. CASE Len(t.sb) < SbMax
  <2> DEFINE q == Append(t.sb, b)
  <2>1. q \in Seq(STRING) /\ Len(q) <= SbMax
    BY <1>1, <1>2, SizesAssumption
  <2>2. sb_push(t, b) = [t EXCEPT !.sb = q]
    BY <1>2 DEF sb_push
  <2> HIDE DEF q
  <2>3. QED BY <2>1, <2>2 DEF TelState
<1>3. CASE ~(Len(t.sb) < SbMax)
  BY <1>3 DEF sb_push
<1>4. QED BY <1>2, <1>3

LEMMA SbDoneEffect ==
  ASSUME NEW t \in TelState, t.tries < 3
  PROVE  EffectOK(t, sb_done(t))
<1> DEFINE size == SubSeq(t.sb, 2, 5)
           new == IF size = <<"NUL", "NUL", "NUL", "NUL">> THEN <<>> ELSE size
           u == [t EXCEPT !.naws = new]
<1>1. CASE Len(t.sb) < 5 \/ t.sb[1] # "NAWS" \/ new = t.naws
  <2>1. sb_done(t) = Effect(t)
    BY <1>1 DEF sb_done
  <2>2. QED BY <2>1, QuietEffect
<1>2. CASE ~(Len(t.sb) < 5 \/ t.sb[1] # "NAWS" \/ new = t.naws)
  <2>1. t.sb \in Seq(STRING) /\ Len(t.sb) >= 5
    BY <1>2 DEF TelState
  <2>2. size \in Seq(STRING)
    BY <2>1
  <2>3. new \in Seq(STRING)
    <3> HIDE DEF size
    <3>1. <<>> \in Seq(STRING)
      OBVIOUS
    <3>2. QED BY <2>2, <3>1
  <2>4. sb_done(t) = [Effect(u) EXCEPT !.repaint = t.naws # <<>> /\ t.au = "OK"]
    BY <1>2 DEF sb_done
  <2> HIDE DEF new
  <2>5. u \in TelState /\ u.au = t.au /\ u.tries = t.tries
    BY <2>3 DEF TelState
  <2> HIDE DEF u
  <2>6. t.tries \in 0..3
    BY DEF TelState
  <2>7. QED BY <2>4, <2>5, <2>6 DEF EffectOK, Effect
<1>3. QED BY <1>1, <1>2

(* telnet_in, whatever the byte and wherever the IAC machine is.           *)
LEMMA TelnetInEffect ==
  ASSUME NEW t \in TelState, t.tries < 3, NEW b \in STRING
  PROVE  EffectOK(t, telnet_in(t, b))
<1> DEFINE Alike(u) == u \in TelState /\ u.au = t.au /\ u.tries = t.tries
<1>1. ASSUME NEW u, Alike(u), NEW e, EffectOK(u, e)
      PROVE  EffectOK(t, e)
  BY <1>1 DEF EffectOK
<1>2. ASSUME NEW u, Alike(u)
      PROVE  EffectOK(t, Effect(u))
  BY <1>2, QuietEffect
<1>3. \A s \in 0..4 : Alike(To(t, s))
  BY ToKeeps
<1>4. t.iac \in 0..4 /\ t.verb \in Verbs
  BY DEF TelState
<1>5. CASE t.iac = 0
  BY <1>2, <1>3, <1>5, FeedEffect DEF telnet_in
<1>6. CASE t.iac = 1
  <2>1. telnet_in(t, b) = AfterIac(t, b)
    BY <1>6 DEF telnet_in
  <2>2. CASE b = "IAC"
    <3>1. AfterIac(t, b) = feed_data(To(t, 0), b)
      BY <2>2 DEF AfterIac
    <3>2. EffectOK(To(t, 0), feed_data(To(t, 0), b))
      BY <1>3, FeedEffect
    <3>3. QED BY <1>1, <1>3, <2>1, <3>1, <3>2
  <2>3. CASE b = "SB"
    <3> DEFINE w == To(t, 3)
               u == [w EXCEPT !.sb = <<>>]
    <3>1. Alike(w)
      BY <1>3
    <3>2. telnet_in(t, b) = Effect(u)
      BY <2>1, <2>3 DEF AfterIac
    <3> HIDE DEF w
    <3>3. <<>> \in Seq(STRING) /\ Len(<<>>) <= SbMax
      BY SizesAssumption
    <3>4. Alike(u)
      BY <3>1, <3>3 DEF TelState
    <3>5. QED BY <1>2, <3>2, <3>4
  <2>4. CASE b \in Verbs
    <3> DEFINE w == To(t, 2)
               u == [w EXCEPT !.verb = b]
    <3>1. Alike(w)
      BY <1>3
    <3>2. telnet_in(t, b) = Effect(u)
      BY <2>1, <2>4 DEF AfterIac, Verbs
    <3> HIDE DEF w
    <3>3. Alike(u)
      BY <2>4, <3>1 DEF TelState
    <3>4. QED BY <1>2, <3>2, <3>3
  <2>5. CASE b \notin Verbs \cup {"IAC", "SB"}
    BY <1>2, <1>3, <2>1, <2>5 DEF AfterIac
  <2>6. QED BY <2>2, <2>3, <2>4, <2>5
<1>7. CASE t.iac = 2
  <2>1. telnet_in(t, b) = respond(To(t, 0), t.verb, b)
    BY <1>7 DEF telnet_in
  <2>2. EffectOK(To(t, 0), respond(To(t, 0), t.verb, b))
    BY <1>3, <1>4, RespondEffect
  <2>3. QED BY <1>1, <1>3, <2>1, <2>2
<1>8. CASE t.iac = 3
  BY <1>2, <1>3, <1>8, PushKeeps DEF telnet_in
<1>9. CASE t.iac = 4
  <2>1. telnet_in(t, b) = AfterSbIac(t, b)
    BY <1>9 DEF telnet_in
  <2>2. CASE b = "SE"
    <3>1. EffectOK(To(t, 0), sb_done(To(t, 0)))
      BY <1>3, SbDoneEffect
    <3>2. QED BY <1>1, <1>3, <2>1, <2>2, <3>1 DEF AfterSbIac
  <2>3. CASE b = "IAC"
    <3>1. Alike(sb_push(To(t, 3), b))
      BY <1>3, PushKeeps
    <3>2. QED BY <1>2, <2>1, <2>3, <3>1 DEF AfterSbIac
  <2>4. CASE b \notin {"SE", "IAC"}
    BY <1>2, <1>3, <2>1, <2>4 DEF AfterSbIac
  <2>5. QED BY <2>2, <2>3, <2>4
<1>10. QED BY <1>4, <1>5, <1>6, <1>7, <1>8, <1>9

---------------------------------------------------------------------------
(* net.c: what the steps of net_poll make of a slot.                       *)

LEMMA ResetFields ==
  ASSUME NEW s \in SlotState
  PROVE  /\ Reset(s) \in SlotState
         /\ Reset(s).st = "free" /\ Reset(s).ready = FALSE /\ Reset(s).inq = <<>>
         /\ Reset(s).conn = s.conn /\ Reset(s).fresh = s.fresh
BY BurstsAssumption DEF Reset, SlotState

LEMMA TakenFields ==
  ASSUME NEW s \in SlotState, NEW h \in Hosts, NEW n \in 1..MaxConn
  PROVE  /\ Taken(s, h, n) \in SlotState
         /\ Taken(s, h, n).st = "half" /\ Taken(s, h, n).ready = s.ready
         /\ Taken(s, h, n).inq = <<>> /\ Taken(s, h, n).conn = n
         /\ Taken(s, h, n).fresh = s.fresh
<1>1. n \in 0..MaxConn
  BY TableAssumption
<1>2. QED BY <1>1, BurstsAssumption DEF Taken, SlotState

LEMMA OpenedFields ==
  ASSUME NEW s \in SlotState
  PROVE  /\ Opened(s) \in SlotState
         /\ Opened(s).st = "open" /\ Opened(s).ready = s.ready
         /\ Opened(s).inq = s.inq /\ Opened(s).conn = s.conn
         /\ Opened(s).fresh = TRUE
BY DEF Opened, SlotState

(* What the timers, or a broadcast that drops the silent, leave of the     *)
(* table: a slot is as it was or reset.                                    *)
LEMMA GivenUpFields ==
  ASSUME slots \in [Slot -> SlotState], NEW D
  PROVE  /\ GivenUp(D) \in [Slot -> SlotState]
         /\ \A i \in Slot : /\ i \in D => GivenUp(D)[i] = Reset(slots[i])
                            /\ i \notin D => GivenUp(D)[i] = slots[i]
BY ResetFields DEF GivenUp

---------------------------------------------------------------------------
(* The inductive invariant.                                                *)

LEMMA InitInv == ConsoleInit => GateInv
<1> SUFFICES ASSUME ConsoleInit PROVE GateInv
  OBVIOUS
<1> USE DEF ConsoleInit, Init
<1>1. NewSlot \in SlotState /\ NewSlot.st = "free" /\ NewSlot.fresh = FALSE
      /\ NewSlot.ready = FALSE /\ NewSlot.inq = <<>> /\ NewSlot.conn = 0
  BY TableAssumption, BurstsAssumption DEF NewSlot, SlotState
<1>2. \A i \in Slot : slots[i] = NewSlot
  OBVIOUS
<1>3. 0 \in Slot
  BY TableAssumption DEF Slot
<1>4. Typed
  BY <1>1, <1>3, IdleTyped, TableAssumption DEF Typed
<1>5. Numbered
  BY <1>1, <1>2 DEF Numbered, Live
<1>6. Phased
  BY <1>1, <1>2 DEF Phased
<1>7. Gated
  BY <1>1, <1>2 DEF Gated, Serving, Live
<1>8. Admitted
  BY <1>1, <1>2 DEF Admitted
<1>9. Recorded
  BY DEF Recorded
<1>10. QED BY <1>4, <1>5, <1>6, <1>7, <1>8, <1>9 DEF GateInv

(* net_poll, as far as the frame goes: the timers have left G, the frame   *)
(* makes x of slot i.  There was none; or it frees the slot; or it opens a *)
(* connection with a number never used; or it keeps the connection and its *)
(* flags, adding bytes to an open slot, or it completes the handshake.     *)
LEMMA FrameKeeps ==
  ASSUME GateInv, pc = "idle", pc' = "begin",
         UNCHANGED <<tel, cur, begun, passed, fails, fed, mapped, shown>>,
         NEW i \in Slot, NEW G \in [Slot -> SlotState],
         \A j \in Slot : G[j] = slots[j] \/ G[j] = Reset(slots[j]),
         NEW x \in SlotState, slots' = [G EXCEPT ![i] = x],
         x.ready = TRUE => G[i].ready,
         \/ x = G[i] /\ nconn' = nconn /\ heirs' = heirs
         \/ /\ x.st = "free" /\ x.inq = <<>> /\ x.conn = slots[i].conn
            /\ x.fresh => Live(G[i])
            /\ ~x.ready \/ ~Live(G[i])
            /\ nconn' = nconn /\ heirs' = heirs
         \/ /\ x.st = "half" /\ x.inq = <<>> /\ x.fresh = FALSE
            /\ nconn' = nconn + 1 /\ x.conn = nconn + 1 /\ nconn + 1 \in Conns
            /\ heirs' = IF Live(G[i]) THEN heirs \cup {nconn + 1} ELSE heirs
         \/ /\ x.st = "open" /\ x.conn = slots[i].conn
            /\ \/ G[i].st = "open" /\ x.fresh = FALSE
               \/ G[i].st = "half" /\ x.fresh = TRUE
            /\ nconn' = nconn /\ heirs' = heirs
  PROVE  GateInv'
<1> USE DEF GateInv
<1>1. \A j \in Slot : /\ slots[j] \in SlotState /\ slots[j].fresh = FALSE
                      /\ slots[j].inq = <<>>
  BY DEF Typed, Phased, SlotState
<1>2. \A j \in Slot : /\ G[j].conn = slots[j].conn
                      /\ G[j].fresh = FALSE /\ G[j].inq = <<>>
                      /\ G[j] = slots[j] \/ (G[j].st = "free" /\ G[j].ready = FALSE)
  <2> TAKE j \in Slot
  <2>1. CASE G[j] = slots[j]
    BY <1>1, <2>1
  <2>2. CASE G[j] = Reset(slots[j])
    <3>1. slots[j] \in SlotState
      BY <1>1
    <3>2. /\ Reset(slots[j]).conn = slots[j].conn /\ Reset(slots[j]).fresh = slots[j].fresh
          /\ Reset(slots[j]).inq = <<>> /\ Reset(slots[j]).st = "free"
          /\ Reset(slots[j]).ready = FALSE
      BY <3>1, ResetFields, Zenon
    <3>3. QED BY <1>1, <2>2, <3>2
  <2>3. QED BY <2>1, <2>2
<1>3. slots' \in [Slot -> SlotState] /\ slots'[i] = x
      /\ \A j \in Slot : j # i => slots'[j] = G[j]
  OBVIOUS
<1>4. heirs \subseteq heirs' /\ heirs' \subseteq Conns
  BY DEF Typed
<1>5. nconn' \in 0..MaxConn /\ nconn' >= nconn /\ nconn \in 0..MaxConn
  BY TableAssumption DEF Typed, Conns
<1>6. Typed'
  BY <1>3, <1>4, <1>5 DEF Typed
<1>7. Numbered'
  <2>1. \A j \in Slot : slots[j].conn \in 0..MaxConn /\ slots[j].conn <= nconn
    BY <1>1 DEF Numbered, SlotState
  <2>2. x.conn <= nconn' /\ (Live(x) \/ x.fresh => x.conn >= 1)
    BY <1>2, <1>5, <2>1 DEF Numbered, Live
  <2>3. \A j \in Slot : /\ slots'[j].conn <= nconn'
                        /\ Live(slots'[j]) \/ slots'[j].fresh => slots'[j].conn >= 1
    BY <1>2, <1>3, <1>5, <2>1, <2>2 DEF Numbered, Live
  <2>4. \A j \in Slot : j # i /\ Live(slots'[j]) /\ Live(x) => slots'[j].conn # x.conn
    BY <1>2, <1>3, <1>5, <2>1 DEF Numbered, Live
  <2>5. \A j, k \in Slot : j # k /\ Live(slots'[j]) /\ Live(slots'[k])
                             => slots'[j].conn # slots'[k].conn
    BY <1>2, <1>3, <2>4 DEF Numbered, Live
  <2>6. \A n \in Conns : n > nconn' => fails'[n] = 0
    BY <1>5 DEF Numbered, Conns
  <2>7. QED BY <2>3, <2>5, <2>6 DEF Numbered
<1>8. Phased'
  BY <1>1, <1>2, <1>3 DEF Phased, Live
<1>9. Gated'
  <2>1. \A j \in Slot : j # i =>
          LET n == slots'[j].conn
          IN  /\ Serving(j)' => /\ n \in begun /\ (tel[j].au = "OK" => n \in passed)
                                /\ fails[n] = tel[j].tries /\ tel[j].tries < 3
              /\ Live(slots'[j]) /\ ~Serving(j)' => fails[n] = 0
    BY <1>1, <1>2, <1>3 DEF Gated, Serving, Live
  <2>2. LET n == x.conn
        IN  /\ Serving(i)' => /\ n \in begun /\ (tel[i].au = "OK" => n \in passed)
                              /\ fails[n] = tel[i].tries /\ tel[i].tries < 3
            /\ Live(x) /\ ~Serving(i)' => fails[n] = 0
    <3>0. CASE x = G[i]
      BY <1>1, <1>2, <1>3, <3>0 DEF Serving, Live, Gated
    <3>1. CASE x.st = "free"
      BY <1>3, <3>1 DEF Serving, Live
    <3>2. CASE x # G[i] /\ x.st = "half"
      <4>1. x.conn \in Conns /\ x.conn > nconn
        BY <1>5, <3>2
      <4>2. QED BY <1>3, <3>2, <4>1 DEF Serving, Live, Numbered
    <3>3. CASE x # G[i] /\ x.st = "open"
      BY <1>1, <1>2, <1>3, <3>3 DEF Serving, Live, Gated
    <3>4. QED BY <3>0, <3>1, <3>2, <3>3 DEF SlotState
  <2>3. QED BY <1>3, <2>1, <2>2 DEF Gated
<1>10. Admitted'
  <2>1. ASSUME NEW j \in Slot, j # i, slots'[j].ready
        PROVE  LET n == slots'[j].conn
               IN  /\ Serving(j)' => n \in passed \cup heirs
                   /\ Live(slots'[j]) /\ ~Serving(j)' => n \in heirs \/ Password = <<>>
                   /\ ~Live(slots'[j]) => Password = <<>>
    BY <1>1, <1>2, <1>3, <2>1 DEF Admitted, Serving, Live
  <2>2. ASSUME x.ready
        PROVE  /\ Serving(i)' => x.conn \in passed \cup heirs'
               /\ Live(x) /\ ~Serving(i)' => x.conn \in heirs' \/ Password = <<>>
               /\ ~Live(x) => Password = <<>>
    <3>1. G[i] = slots[i] /\ slots[i].ready
      BY <1>2, <2>2 DEF SlotState
    <3>2. QED BY <1>1, <1>2, <1>3, <2>2, <3>1 DEF Admitted, Serving, Live
  <2>3. QED BY <1>3, <1>4, <2>1, <2>2 DEF Admitted
<1>11. Recorded'
  BY <1>4 DEF Recorded
<1>12. QED BY <1>6, <1>7, <1>8, <1>9, <1>10, <1>11

LEMMA PollKeeps == GateInv /\ net_poll => GateInv'
<1> SUFFICES ASSUME GateInv, net_poll PROVE GateInv'
  OBVIOUS
<1> USE DEF net_poll
<1>1. PICK D \in SUBSET {i \in Slot : Live(slots[i])} :
        \/ Silent(D) /\ UNCHANGED heirs
        \/ \E i \in Slot :
             \/ \E h \in Hosts :
                  /\ Syn(D, i, h)
                  /\ heirs' = IF Live(GivenUp(D)[i]) THEN heirs \cup {nconn + 1}
                              ELSE heirs
             \/ Rst(D, i) /\ UNCHANGED heirs
             \/ \E opens, fin \in BOOLEAN, ks \in Bursts :
                  Segment(D, i, opens, ks, fin) /\ UNCHANGED heirs
  OBVIOUS
<1> DEFINE G == GivenUp(D)
<1>2. slots \in [Slot -> SlotState]
  BY DEF GateInv, Typed
<1>3. G \in [Slot -> SlotState]
      /\ \A j \in Slot : G[j] = slots[j] \/ G[j] = Reset(slots[j])
  BY <1>2, GivenUpFields
<1>4. \A j \in Slot : /\ G[j].conn = slots[j].conn /\ G[j].fresh = FALSE
                      /\ G[j].inq = <<>> /\ G[j].st \in {"free", "half", "open"}
                      /\ G[j].ready \in BOOLEAN
  <2> TAKE j \in Slot
  <2>1. slots[j] \in SlotState /\ slots[j].fresh = FALSE /\ slots[j].inq = <<>>
    BY <1>2 DEF GateInv, Phased, SlotState
  <2>2. G[j].conn = slots[j].conn /\ G[j].fresh = FALSE /\ G[j].inq = <<>>
    <3>1. CASE G[j] = slots[j]
      BY <2>1, <3>1
    <3>2. CASE G[j] = Reset(slots[j])
      BY <2>1, <3>2, ResetFields
    <3>3. QED BY <1>3, <3>1, <3>2
  <2>3. QED BY <1>3, <2>2 DEF SlotState
<1>5. CASE Silent(D) /\ UNCHANGED heirs
  <2>1. PICK i \in Slot : i = 0
    BY TableAssumption DEF Slot
  <2>2. nconn' = nconn /\ heirs' = heirs
    BY <1>5 DEF Silent
  <2>3. slots' = G
    BY <1>5 DEF Silent
  <2> DEFINE x == G[i]
  <2> HIDE DEF G
  <2>4. slots' = [G EXCEPT ![i] = x] /\ x \in SlotState
    BY <1>3, <2>3
  <2>5. x = G[i] /\ x.ready = G[i].ready
    OBVIOUS
  <2> HIDE DEF x
  <2>6. QED BY <1>3, <2>2, <2>4, <2>5, FrameKeeps
<1>6. ASSUME NEW i \in Slot, NEW h \in Hosts, Syn(D, i, h),
             heirs' = IF Live(G[i]) THEN heirs \cup {nconn + 1} ELSE heirs
      PROVE  GateInv'
  <2> DEFINE x == Taken(G[i], h, nconn + 1)
  <2>1. nconn + 1 \in 1..MaxConn /\ nconn' = nconn + 1
    BY <1>6, TableAssumption DEF Syn, GateInv, Typed
  <2>2. x \in SlotState /\ x.st = "half" /\ x.ready = G[i].ready /\ x.inq = <<>>
        /\ x.conn = nconn + 1 /\ x.fresh = FALSE
    BY <1>3, <1>4, <2>1, TakenFields, SMTT(30)
  <2>3. slots' = [G EXCEPT ![i] = x]
    BY <1>6 DEF Syn
  <2> HIDE DEF G, x
  <2>4. QED BY <1>3, <1>6, <2>1, <2>2, <2>3, FrameKeeps DEF Conns
<1>7. ASSUME NEW i \in Slot, Rst(D, i), UNCHANGED heirs
      PROVE  GateInv'
  <2> DEFINE x == Reset(G[i])
  <2>1. x \in SlotState /\ x.st = "free" /\ x.ready = FALSE /\ x.inq = <<>>
        /\ x.conn = slots[i].conn /\ x.fresh = FALSE
    <3>1. G[i] \in SlotState
      BY <1>3
    <3>2. x \in SlotState /\ x.st = "free" /\ x.ready = FALSE /\ x.inq = <<>>
          /\ x.conn = G[i].conn /\ x.fresh = G[i].fresh
      BY <3>1, ResetFields, Zenon
    <3>3. QED BY <1>4, <3>2
  <2>2. slots' = [G EXCEPT ![i] = x] /\ nconn' = nconn
    BY <1>7 DEF Rst
  <2> HIDE DEF G, x
  <2>3. QED BY <1>3, <1>7, <2>1, <2>2, FrameKeeps
<1>8. ASSUME NEW i \in Slot, NEW opens \in BOOLEAN, NEW fin \in BOOLEAN,
             NEW ks \in Bursts, Segment(D, i, opens, ks, fin), UNCHANGED heirs
      PROVE  GateInv'
  <2> DEFINE o == IF opens THEN Opened(G[i]) ELSE G[i]
             x == IF fin THEN Reset(o) ELSE [o EXCEPT !.inq = @ \o ks]
  <2>1. o \in SlotState /\ o.ready = G[i].ready /\ o.inq = <<>>
        /\ o.conn = slots[i].conn /\ (o.fresh <=> opens)
    BY <1>3, <1>4, OpenedFields
  <2>2. (opens <=> G[i].st = "half") /\ o.st = "open" /\ nconn' = nconn
        /\ slots' = [G EXCEPT ![i] = x]
    BY <1>8 DEF Segment
  <2>3. opens \/ G[i].st = "open"
    BY <2>2
  <2>4. Live(G[i])
    BY <2>2, <2>3 DEF Live
  <2> HIDE DEF G, o
  <2>5. CASE fin
    <3>1. x \in SlotState /\ x.st = "free" /\ x.ready = FALSE /\ x.inq = <<>>
          /\ x.conn = slots[i].conn
      BY <2>1, <2>5, ResetFields
    <3> HIDE DEF x
    <3>2. QED BY <1>3, <1>8, <2>2, <2>4, <3>1, FrameKeeps
  <2>6. CASE ~fin
    <3>1. <<>> \o ks = ks
      BY BurstsAssumption
    <3>2. x = [o EXCEPT !.inq = ks]
      BY <2>1, <2>6, <3>1
    <3>3. x \in SlotState /\ x.st = "open" /\ x.ready = G[i].ready
          /\ x.conn = slots[i].conn /\ (x.fresh <=> opens)
      BY <2>1, <2>2, <3>2 DEF SlotState
    <3> HIDE DEF x
    <3>4. x.fresh \in BOOLEAN
      BY <3>3 DEF SlotState
    <3>5. \/ G[i].st = "open" /\ x.fresh = FALSE
          \/ G[i].st = "half" /\ x.fresh = TRUE
      BY <2>2, <2>3, <3>3, <3>4
    <3>6. QED BY <1>3, <1>8, <2>2, <3>3, <3>5, FrameKeeps
  <2>7. QED BY <2>5, <2>6
<1>9. QED BY <1>1, <1>5, <1>6, <1>7, <1>8

(* telnet_begin is called for the connection the slot has just opened, so  *)
(* the slot is in service from here on; or its connection has already      *)
(* closed and the call speaks to nobody.                                   *)
LEMMA BeginKeeps ==
  ASSUME GateInv, NEW i \in Slot, Begin(i)
  PROVE  GateInv'
<1> DEFINE s == slots[i]
           e == telnet_begin(tel[i])
           r == [s EXCEPT !.fresh = FALSE]
<1> USE DEF GateInv
<1>1. s \in SlotState /\ s.fresh /\ slots \in [Slot -> SlotState] /\ tel[i] \in TelState
  BY DEF Begin, Typed
<1>2. r \in SlotState /\ r.conn = s.conn /\ r.fresh = FALSE /\ r.st = s.st
      /\ r.inq = s.inq /\ r.ready = s.ready
  BY <1>1 DEF SlotState
<1>3. /\ e.t \in TelState /\ e.t.tries = 0 /\ e.drop = FALSE
      /\ e.ready \in BOOLEAN /\ (e.ready <=> Password = <<>>)
      /\ e.t.au = "OK" => e.ready
  BY <1>1, BeginEffect
<1>4. /\ pc = "begin" /\ slots' = Applied(i, r, e) /\ tel' = [tel EXCEPT ![i] = e.t]
      /\ begun' = begun \cup {s.conn}
      /\ passed' = IF e.ready THEN passed \cup {s.conn} ELSE passed
      /\ UNCHANGED <<nconn, pc, cur, fails, fed, mapped, shown, heirs>>
  BY DEF Begin
<1> HIDE DEF e, r
<1>5. /\ slots' \in [Slot -> SlotState]
      /\ \A j \in Slot : j # i => slots'[j] = slots[j]
      /\ slots'[i].conn = s.conn /\ slots'[i].fresh = FALSE
      /\ slots'[i].st = s.st /\ slots'[i].inq = s.inq
      /\ slots'[i].ready => s.ready \/ e.ready
  <2> DEFINE x == IF e.drop THEN Reset(r) ELSE [r EXCEPT !.ready = @ \/ e.ready]
  <2>1. slots' = [slots EXCEPT ![i] = x]
    BY <1>4 DEF Applied
  <2>2. x \in SlotState /\ x.conn = r.conn /\ x.fresh = r.fresh
        /\ x.st = r.st /\ x.inq = r.inq /\ (x.ready => r.ready \/ e.ready)
    <3>1. x = [r EXCEPT !.ready = @ \/ e.ready]
      BY <1>3
    <3>2. (r.ready \/ e.ready) \in BOOLEAN
      OBVIOUS
    <3>3. QED BY <1>2, <3>1, <3>2 DEF SlotState
  <2> HIDE DEF x
  <2>3. QED BY <1>1, <1>2, <2>1, <2>2
<1>6. s.conn \in Conns /\ s.conn <= nconn
  BY <1>1, TableAssumption DEF Numbered, SlotState, Conns
<1>7. /\ tel' \in [Slot -> TelState] /\ tel'[i] = e.t
      /\ \A j \in Slot : j # i => tel'[j] = tel[j]
  BY <1>3, <1>4 DEF Typed
<1>8. begun \subseteq begun' /\ passed \subseteq passed' /\ s.conn \in begun'
      /\ (e.ready => s.conn \in passed')
      /\ begun' \subseteq Conns /\ passed' \subseteq Conns
  BY <1>4, <1>6 DEF Typed
<1>9. Typed'
  BY <1>4, <1>5, <1>7, <1>8 DEF Typed
<1>10. Numbered'
  <2>1. \A j \in Slot : /\ slots'[j].conn = slots[j].conn /\ slots'[j].st = slots[j].st
                        /\ slots'[j].fresh => slots[j].fresh
    BY <1>5
  <2>2. QED BY <1>4, <2>1 DEF Numbered, Live
<1>11. Phased'
  BY <1>4, <1>5 DEF Phased
<1>12. s.st # "half"
  BY <1>1 DEF Phased
<1>13. Gated'
  <2>1. ASSUME NEW j \in Slot, j # i
        PROVE  LET n == slots'[j].conn
               IN  /\ Serving(j)' => /\ n \in begun' /\ (tel'[j].au = "OK" => n \in passed')
                                     /\ fails[n] = tel'[j].tries /\ tel'[j].tries < 3
                   /\ Live(slots'[j]) /\ ~Serving(j)' => fails[n] = 0
    BY <1>5, <1>7, <1>8, <2>1 DEF Gated, Serving, Live
  <2>2. LET n == slots'[i].conn
        IN  /\ Serving(i)' => /\ n \in begun' /\ (tel'[i].au = "OK" => n \in passed')
                              /\ fails[n] = tel'[i].tries /\ tel'[i].tries < 3
            /\ Live(slots'[i]) /\ ~Serving(i)' => fails[n] = 0
    <3>1. s.st = "open" => fails[s.conn] = 0
      BY <1>1 DEF Gated, Serving, Live
    <3>2. s.st = "open" \/ s.st = "free"
      BY <1>1, <1>12 DEF SlotState
    <3>3. QED BY <1>3, <1>5, <1>7, <1>8, <3>1, <3>2 DEF Serving, Live
  <2>3. QED BY <1>4, <2>1, <2>2 DEF Gated
<1>14. Admitted'
  <2>1. ASSUME NEW j \in Slot, j # i, slots'[j].ready
        PROVE  LET n == slots'[j].conn
               IN  /\ Serving(j)' => n \in passed' \cup heirs
                   /\ Live(slots'[j]) /\ ~Serving(j)' => n \in heirs \/ Password = <<>>
                   /\ ~Live(slots'[j]) => Password = <<>>
    BY <1>5, <1>8, <2>1 DEF Admitted, Serving, Live
  <2>2. ASSUME slots'[i].ready
        PROVE  LET n == slots'[i].conn
               IN  /\ Serving(i)' => n \in passed' \cup heirs
                   /\ Live(slots'[i]) /\ ~Serving(i)' => n \in heirs \/ Password = <<>>
                   /\ ~Live(slots'[i]) => Password = <<>>
    <3>1. CASE s.ready
      BY <1>1, <1>3, <1>5, <1>8, <1>12, <3>1 DEF Admitted, Serving, Live
    <3>2. CASE e.ready
      BY <1>3, <1>5, <1>8, <3>2 DEF Serving, Live
    <3>3. QED BY <1>5, <2>2, <3>1, <3>2
  <2>3. QED BY <1>4, <2>1, <2>2 DEF Admitted
<1>15. Recorded'
  BY <1>4, <1>8 DEF Recorded
<1>16. QED BY <1>9, <1>10, <1>11, <1>13, <1>14, <1>15

LEMMA BeginDoneKeeps == GateInv /\ BeginDone => GateInv'
<1> SUFFICES ASSUME GateInv, BeginDone PROVE GateInv'
  OBVIOUS
<1> USE DEF GateInv
<1>1. pc = "begin" /\ pc' = "drain" /\ cur' = 0 /\ \A i \in Slot : ~slots[i].fresh
  BY DEF BeginDone
<1>2. UNCHANGED <<slots, nconn, tel, begun, passed, fails, fed, mapped, shown, heirs>>
  BY DEF BeginDone, history
<1>3. 0 \in Slot /\ \A i \in Slot : 0 <= i
  BY TableAssumption DEF Slot
<1>4. Typed'
  BY <1>1, <1>2, <1>3 DEF Typed
<1>5. Phased'
  BY <1>1, <1>2, <1>3 DEF Phased
<1>6. Numbered' /\ Gated' /\ Admitted' /\ Recorded'
  BY <1>2 DEF Numbered, Gated, Admitted, Recorded, Serving, Live
<1>7. QED BY <1>4, <1>5, <1>6

(* A byte is fed to telnet_in for a connection in service, so what it does *)
(* to the gate and to the count it does to that connection's.              *)
LEMMA DrainKeeps == GateInv /\ Drain => GateInv'
<1> SUFFICES ASSUME GateInv, Drain PROVE GateInv'
  OBVIOUS
<1> DEFINE s == slots[cur]
           n == s.conn
           e == telnet_in(tel[cur], Head(s.inq))
           r == [s EXCEPT !.inq = Tail(@)]
           x == IF e.drop THEN Reset(r) ELSE [r EXCEPT !.ready = @ \/ e.ready]
<1> USE DEF GateInv
<1>1. /\ pc = "drain" /\ s.inq # <<>> /\ slots' = [slots EXCEPT ![cur] = x]
      /\ tel' = [tel EXCEPT ![cur] = e.t] /\ fed' = fed \cup {n}
      /\ mapped' = IF e.keys # <<>> THEN mapped \cup {n} ELSE mapped
      /\ passed' = IF e.ready THEN passed \cup {n} ELSE passed
      /\ fails' = [fails EXCEPT ![n] = @ + e.t.tries - tel[cur].tries]
      /\ UNCHANGED <<nconn, pc, cur, begun, shown, heirs>>
  BY DEF Drain, Applied
<1>2. s \in SlotState /\ cur \in Slot /\ slots \in [Slot -> SlotState]
      /\ tel[cur] \in TelState /\ tel \in [Slot -> TelState]
  BY DEF Typed
<1>3. Serving(cur) /\ s.st = "open" /\ ~s.fresh
  BY <1>1, <1>2 DEF Phased, Serving
<1>4. n \in Conns /\ n <= nconn
  <2>1. n \in 0..MaxConn /\ n >= 1 /\ n <= nconn
    BY <1>2, <1>3 DEF Numbered, Live, SlotState
  <2>2. QED BY <2>1, TableAssumption DEF Conns
<1>5. n \in begun /\ (tel[cur].au = "OK" => n \in passed)
      /\ fails[n] = tel[cur].tries /\ tel[cur].tries < 3
  BY <1>2, <1>3 DEF Gated
<1>6. Head(s.inq) \in STRING /\ Tail(s.inq) \in Bursts
  <2>1. s.inq \in Bursts
    BY <1>2 DEF SlotState
  <2>2. s.inq \in Seq(STRING) /\ s.inq # <<>>
    BY <1>1, <2>1, BurstsAssumption
  <2>3. Head(s.inq) \in STRING
    BY <2>2
  <2>4. QED BY <1>1, <2>1, <2>3, BurstsAssumption
<1>7. EffectOK(tel[cur], e)
  BY <1>2, <1>5, <1>6, TelnetInEffect
<1>8. r \in SlotState /\ r.conn = n /\ r.fresh = FALSE /\ r.st = "open" /\ r.ready = s.ready
  BY <1>2, <1>3, <1>6 DEF SlotState
<1> HIDE DEF e, r
<1>9. /\ x \in SlotState /\ x.conn = n /\ x.fresh = FALSE
      /\ e.drop => x.st = "free" /\ x.ready = FALSE /\ x.inq = <<>>
      /\ ~e.drop => x.st = "open" /\ (x.ready => s.ready \/ e.ready)
  <2>1. CASE e.drop
    BY <1>8, <2>1, ResetFields
  <2>2. CASE ~e.drop
    <3>1. x = [r EXCEPT !.ready = @ \/ e.ready]
      BY <2>2
    <3>2. (r.ready \/ e.ready) \in BOOLEAN
      OBVIOUS
    <3>3. QED BY <1>8, <2>2, <3>1, <3>2 DEF SlotState
  <2>3. QED BY <2>1, <2>2
<1> HIDE DEF x
<1>10. /\ slots' \in [Slot -> SlotState] /\ slots'[cur] = x
       /\ \A j \in Slot : j # cur => slots'[j] = slots[j]
  BY <1>1, <1>2, <1>9
<1>11. /\ e.t \in TelState /\ e.ready \in BOOLEAN /\ e.drop \in BOOLEAN
       /\ e.keys # <<>> => tel[cur].au = "OK"
       /\ e.t.au = "OK" => tel[cur].au = "OK" \/ e.ready
       /\ e.t.tries >= tel[cur].tries /\ (e.t.tries = 3 => e.drop)
  BY <1>7 DEF EffectOK
<1>12. /\ tel' \in [Slot -> TelState] /\ tel'[cur] = e.t
       /\ \A j \in Slot : j # cur => tel'[j] = tel[j]
  BY <1>1, <1>2, <1>11
<1>13. e.t.tries \in 0..3 /\ tel[cur].tries \in 0..3
  BY <1>2, <1>11 DEF TelState
<1>14. /\ fails' \in [Conns -> 0..3] /\ fails'[n] = e.t.tries
       /\ \A m \in Conns : m # n => fails'[m] = fails[m]
  <2>1. fails[n] + e.t.tries - tel[cur].tries = e.t.tries
    BY <1>5, <1>13
  <2>2. fails \in [Conns -> 0..3]
    BY DEF Typed
  <2>3. fails' = [fails EXCEPT ![n] = e.t.tries]
    BY <1>1, <2>1
  <2>4. QED BY <1>4, <1>13, <2>2, <2>3
<1>15. passed \subseteq passed' /\ (e.ready => n \in passed') /\ passed' \subseteq Conns
  BY <1>1, <1>4 DEF Typed
<1>16. Typed'
  <2>1. fed' \subseteq Conns /\ mapped' \subseteq Conns
    BY <1>1, <1>4 DEF Typed
  <2>2. QED BY <1>1, <1>10, <1>12, <1>14, <1>15, <2>1 DEF Typed
<1>17. Numbered'
  <2>1. \A j \in Slot : /\ slots'[j].conn = slots[j].conn
                        /\ Live(slots'[j]) => Live(slots[j])
                        /\ slots'[j].fresh => slots[j].fresh
    BY <1>3, <1>9, <1>10 DEF Live
  <2>2. \A m \in Conns : m > nconn => fails'[m] = 0
    BY <1>2, <1>4, <1>14 DEF Numbered, Typed, Conns
  <2>3. nconn' = nconn
    BY <1>1
  <2>4. \A j \in Slot : /\ slots'[j].conn <= nconn'
                        /\ Live(slots'[j]) \/ slots'[j].fresh => slots'[j].conn >= 1
    BY <2>1, <2>3, Zenon DEF Numbered
  <2>5. \A i, j \in Slot : i # j /\ Live(slots'[i]) /\ Live(slots'[j])
                             => slots'[i].conn # slots'[j].conn
    BY <2>1, Zenon DEF Numbered
  <2>6. QED BY <2>2, <2>3, <2>4, <2>5, Zenon DEF Numbered
<1>18. Phased'
  <2>1. x.inq # <<>> => x.st = "open"
    BY <1>9, <1>11
  <2>2. cur <= cur
    BY <1>2, TableAssumption DEF Slot
  <2>3. QED BY <1>1, <1>9, <1>10, <2>1, <2>2 DEF Phased
<1>19. Gated'
  <2>1. ASSUME NEW j \in Slot, j # cur
        PROVE  LET m == slots'[j].conn
               IN  /\ Serving(j)' => /\ m \in begun /\ (tel'[j].au = "OK" => m \in passed')
                                     /\ fails'[m] = tel'[j].tries /\ tel'[j].tries < 3
                   /\ Live(slots'[j]) /\ ~Serving(j)' => fails'[m] = 0
    <3>1. slots'[j] = slots[j] /\ tel'[j] = tel[j]
      BY <1>10, <1>12, <2>1
    <3>2. Live(slots[j]) => slots[j].conn # n /\ slots[j].conn \in Conns
      <4>1. slots[j].conn \in 0..MaxConn
        BY <1>2, <2>1 DEF SlotState
      <4>2. QED BY <1>2, <1>3, <2>1, <4>1, TableAssumption DEF Numbered, Live, Conns
    <3>3. QED BY <1>14, <1>15, <2>1, <3>1, <3>2 DEF Gated, Serving, Live
  <2>2. LET m == x.conn
        IN  /\ Serving(cur)' => /\ m \in begun /\ (e.t.au = "OK" => m \in passed')
                                /\ fails'[m] = e.t.tries /\ e.t.tries < 3
            /\ Live(x) /\ ~Serving(cur)' => fails'[m] = 0
    <3>1. ~e.drop => e.t.tries < 3
      BY <1>11, <1>13
    <3>2. CASE e.drop
      <4>1. x.st = "free" /\ slots'[cur] = x /\ cur' = cur /\ "free" # "open"
        BY <1>1, <1>9, <1>10, <3>2
      <4>2. QED BY <4>1, Zenon DEF Serving, Live
    <3>3. CASE ~e.drop
      <4>1. x.st = "open" /\ x.fresh = FALSE /\ x.conn = n /\ slots'[cur] = x
        BY <1>9, <1>10, <3>3
      <4>2. e.t.au = "OK" => n \in passed'
        BY <1>5, <1>11, <1>15, Zenon
      <4>3. Serving(cur)'
        BY <1>1, <4>1 DEF Serving
      <4>4. QED BY <1>5, <1>14, <3>1, <3>3, <4>1, <4>2, <4>3, Zenon
    <3>4. QED BY <3>2, <3>3
  <2>3. LET m == slots'[cur].conn
        IN  /\ Serving(cur)' => /\ m \in begun /\ (tel'[cur].au = "OK" => m \in passed')
                                /\ fails'[m] = tel'[cur].tries /\ tel'[cur].tries < 3
            /\ Live(slots'[cur]) /\ ~Serving(cur)' => fails'[m] = 0
    BY <1>10, <1>12, <2>2, Zenon
  <2>4. begun' = begun /\ cur' = cur /\ cur \in Slot
    BY <1>1, <1>2
  <2>5. QED BY <2>1, <2>3, <2>4, Zenon DEF Gated, Serving
<1>20. Admitted'
  <2>1. ASSUME NEW j \in Slot, j # cur, slots'[j].ready
        PROVE  LET m == slots'[j].conn
               IN  /\ Serving(j)' => m \in passed' \cup heirs
                   /\ Live(slots'[j]) /\ ~Serving(j)' => m \in heirs \/ Password = <<>>
                   /\ ~Live(slots'[j]) => Password = <<>>
    BY <1>10, <1>15, <2>1 DEF Admitted, Serving, Live
  <2>2. ASSUME x.ready
        PROVE  x.st = "open" /\ x.fresh = FALSE /\ x.conn \in passed' \cup heirs
    <3>1. ~e.drop /\ (s.ready \/ e.ready)
      BY <1>9, <1>11, <2>2
    <3>2. s.ready => n \in passed \cup heirs
      BY <1>2, <1>3 DEF Admitted
    <3>3. QED BY <1>9, <1>15, <3>1, <3>2
  <2>3. QED BY <1>1, <1>10, <2>1, <2>2 DEF Admitted, Serving, Live
<1>21. Recorded'
  BY <1>1, <1>5, <1>11, <1>15 DEF Recorded
<1>22. QED BY <1>16, <1>17, <1>18, <1>19, <1>20, <1>21

LEMMA DrainNextKeeps == GateInv /\ DrainNext => GateInv'
<1> SUFFICES ASSUME GateInv, DrainNext PROVE GateInv'
  OBVIOUS
<1> USE DEF GateInv
<1>1. /\ pc = "drain" /\ slots[cur].inq = <<>>
      /\ IF cur + 1 \in Slot THEN cur' = cur + 1 /\ pc' = pc
         ELSE pc' = "tx" /\ cur' = 0
  BY DEF DrainNext
<1>2. UNCHANGED <<slots, nconn, tel, begun, passed, fails, fed, mapped, shown, heirs>>
  BY DEF DrainNext, history
<1>3. 0 \in Slot /\ cur \in Slot
  BY TableAssumption DEF Slot, Typed
<1>4. Typed'
  BY <1>1, <1>2, <1>3 DEF Typed
<1>5. Phased'
  <2>1. \A i \in Slot : cur <= i /\ i # cur => cur + 1 \in Slot /\ cur + 1 <= i
    BY <1>3, TableAssumption DEF Slot
  <2>2. QED BY <1>1, <1>2, <2>1 DEF Phased
<1>6. Numbered' /\ Gated' /\ Admitted' /\ Recorded'
  BY <1>2 DEF Numbered, Gated, Admitted, Recorded, Serving, Live
<1>7. QED BY <1>4, <1>5, <1>6

(* The broadcast reaches slots in service only.                            *)
LEMMA TransmitKeeps == GateInv /\ Transmit => GateInv'
<1> SUFFICES ASSUME GateInv, Transmit PROVE GateInv'
  OBVIOUS
<1> USE DEF GateInv
<1>1. /\ pc = "tx" /\ pc' = "idle"
      /\ UNCHANGED <<tel, cur, begun, passed, fails, fed, mapped, heirs>>
  BY DEF Transmit
<1>2. slots \in [Slot -> SlotState]
  BY DEF Typed
<1>3. \A i \in Slot : slots[i].fresh = FALSE /\ slots[i].inq = <<>>
  BY <1>1, <1>2 DEF Phased, SlotState
<1>4. nconn' = nconn
  BY DEF Transmit, Cull
<1>5. PICK D \in SUBSET Slot : slots' = GivenUp(D)
  <2>1. CASE \E D \in SUBSET Audience : Cull(D)
    BY <2>1 DEF Cull, Audience
  <2>2. CASE slots' = slots
    <3>1. GivenUp({}) = slots
      BY <1>2 DEF GivenUp
    <3>2. QED BY <2>2, <3>1
  <2>3. QED BY <2>1, <2>2 DEF Transmit
<1>6. slots' \in [Slot -> SlotState]
      /\ \A i \in Slot : slots'[i] = slots[i] \/ slots'[i] = Reset(slots[i])
  BY <1>2, <1>5, GivenUpFields
<1>7. \A i \in Slot : /\ slots'[i].conn = slots[i].conn
                      /\ slots'[i].fresh = FALSE /\ slots'[i].inq = <<>>
                      /\ slots'[i] = slots[i] \/ (slots'[i].st = "free" /\ slots'[i].ready = FALSE)
  <2> TAKE i \in Slot
  <2>1. CASE slots'[i] = slots[i]
    BY <1>3, <2>1
  <2>2. CASE slots'[i] = Reset(slots[i])
    <3>1. slots[i] \in SlotState
      BY <1>2
    <3>2. /\ Reset(slots[i]).conn = slots[i].conn /\ Reset(slots[i]).fresh = slots[i].fresh
          /\ Reset(slots[i]).inq = <<>> /\ Reset(slots[i]).st = "free"
          /\ Reset(slots[i]).ready = FALSE
      BY <3>1, ResetFields, Zenon
    <3>3. QED BY <1>3, <2>2, <3>2
  <2>3. QED BY <1>6, <2>1, <2>2
<1>8. shown' \subseteq shown \cup {slots[i].conn : i \in Audience}
  BY DEF Transmit
<1>9. \A i \in Audience : /\ slots[i].conn \in begun \cap (passed \cup heirs)
                          /\ slots[i].conn \in Conns
  <2> TAKE i \in Audience
  <2>1. i \in Slot /\ slots[i].st = "open" /\ slots[i].ready /\ Serving(i)
    BY <1>3 DEF Audience, Serving
  <2>2. slots[i].conn \in begun /\ slots[i].conn \in passed \cup heirs
    BY <2>1 DEF Gated, Admitted
  <2>3. QED BY <2>2 DEF Typed
<1>10. Typed'
  BY <1>1, <1>4, <1>6, <1>8, <1>9 DEF Typed
<1>11. Numbered'
  BY <1>1, <1>4, <1>7 DEF Numbered, Live
<1>12. Phased'
  BY <1>7 DEF Phased
<1>13. Gated'
  BY <1>1, <1>3, <1>7 DEF Gated, Serving, Live
<1>14. Admitted'
  BY <1>1, <1>3, <1>7 DEF Admitted, Serving, Live
<1>15. Recorded'
  BY <1>1, <1>8, <1>9 DEF Recorded
<1>16. QED BY <1>10, <1>11, <1>12, <1>13, <1>14, <1>15

(* The slots are in order at every step of net_tick, whatever the peers    *)
(* send and whenever their connections are taken over, closed or given up. *)
THEOREM GateInductive == ConsoleSpec => []GateInv
<1>1. GateInv /\ [net_tick]_cvars => GateInv'
  <2> SUFFICES ASSUME GateInv, [net_tick]_cvars PROVE GateInv'
    OBVIOUS
  <2>1. CASE UNCHANGED cvars
    <3>1. UNCHANGED <<slots, nconn, tel, pc, cur, begun, passed, fails, fed, mapped,
                      shown, heirs>>
      BY <2>1 DEF cvars, history
    <3>2. Typed' /\ Numbered' /\ Phased'
      BY <3>1 DEF GateInv, Typed, Numbered, Phased
    <3>3. Gated' /\ Admitted' /\ Recorded'
      BY <3>1 DEF GateInv, Gated, Admitted, Recorded, Serving
    <3>4. QED BY <3>2, <3>3 DEF GateInv
  <2>2. QED BY <2>1, PollKeeps, BeginKeeps, BeginDoneKeeps, DrainKeeps, DrainNextKeeps,
               TransmitKeeps DEF net_tick
<1>2. QED BY <1>1, InitInv, PTL DEF ConsoleSpec

(* A byte reaches ansi_key_byte only on a connection that has given the    *)
(* password (feed_data, telnet.c:50-57).                                   *)
THEOREM KeysGated == ConsoleSpec => []KeysPassTheGate
<1>1. GateInv => KeysPassTheGate
  BY DEF GateInv, Recorded, KeysPassTheGate
<1>2. QED BY <1>1, GateInductive, PTL

(* telnet_in and the broadcast never see a connection before telnet_begin  *)
(* has been called for it (net_tick, dosshd.c), and neither collector of   *)
(* telnet.c outgrows its buffer.                                           *)
THEOREM BeginComesFirst == ConsoleSpec => []BegunFirst
<1>1. GateInv => BegunFirst
  <2> SUFFICES ASSUME GateInv PROVE BegunFirst
    OBVIOUS
  <2>1. \A i \in Slot : /\ tel[i].iac \in 0..4 /\ tel[i].tries \in 0..3
                        /\ Len(tel[i].buf) <= AuMax /\ Len(tel[i].sb) <= SbMax
    BY DEF GateInv, Typed, TelState
  <2>2. ConsoleTypeOK
    BY <2>1 DEF GateInv, Typed, ConsoleTypeOK, SlotState
  <2>3. QED BY <2>2 DEF GateInv, Recorded, BegunFirst
<1>2. QED BY <1>1, GateInductive, PTL

(* No connection outlives its third wrong password (au_check, telnet.c).   *)
THEOREM StrikesOut == ConsoleSpec => []ThreeStrikes
<1>1. GateInv => ThreeStrikes
  <2> SUFFICES ASSUME GateInv, NEW n \in Conns
               PROVE  /\ fails[n] <= 3
                      /\ fails[n] = 3 => \A i \in Slot : Live(slots[i]) => slots[i].conn # n
    BY DEF ThreeStrikes
  <2>1. fails[n] \in 0..3
    BY DEF GateInv, Typed
  <2>2. \A i \in Slot : Live(slots[i]) /\ slots[i].conn = n => fails[n] < 3
    BY DEF GateInv, Gated
  <2>3. QED BY <2>1, <2>2
<1>2. QED BY <1>1, GateInductive, PTL

(* The screen is queued for connections that passed the gate, or that      *)
(* inherited the ready flag of the slot's previous connection (net_tx_putc *)
(* and tcp_in, net.c).                                                     *)
THEOREM ScreenGated == ConsoleSpec => []ScreenPassesTheGate
<1>1. GateInv => ScreenPassesTheGate
  BY DEF GateInv, Recorded, ScreenPassesTheGate
<1>2. QED BY <1>1, GateInductive, PTL
=============================================================================

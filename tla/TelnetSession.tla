--------------------------- MODULE TelnetSession ---------------------------
(***************************************************************************)
(* One telnet connection end to end: telnet.c on the server side, and a    *)
(* client that answers every WILL and DO (as RFC 854 clients do), types,   *)
(* asks for options of its own and reports its window size.  up is the     *)
(* byte stream to the server, down what the server has queued.             *)
(***************************************************************************)
EXTENDS Telnet, FiniteSets

CONSTANTS
  Options,    \* option bytes in play
  Letters,    \* characters typed, "IAC" (0xFF) possibly among them
  Sizes,      \* window sizes the client may report
  MaxActs     \* bound: characters typed, sizes reported later, and options asked
              \* for (which count twice)

VARIABLES
  t,          \* the slot's telnet state
  up, down,
  agree,      \* the options the client lets either side use
  typed,      \* history: characters typed
  keys,       \* history: bytes handed to ansi_key_byte
  size,       \* the size last reported, <<>> before the first report
  nsizes,     \* reports after the first
  asked       \* history: <<verb, option>> sent unprompted

svars == <<t, up, down, agree, typed, keys, size, nsizes, asked>>

Init ==
  /\ LET e == telnet_begin(Idle) IN t = e.t /\ down = e.out
  /\ agree \in SUBSET Options
  /\ up = <<>> /\ typed = <<>> /\ keys = <<>> /\ size = <<>>
  /\ nsizes = 0 /\ asked = {}

(* net_tick hands over one byte                                            *)
Serve ==
  LET e == telnet_in(t, Head(up))
  IN  /\ up # <<>>
      /\ t' = e.t /\ up' = Tail(up)
      /\ down' = down \o e.out
      /\ keys' = keys \o e.keys
      /\ UNCHANGED <<agree, typed, size, nsizes, asked>>

---------------------------------------------------------------------------
(* The client: external to the code.                                       *)

Command(v, o) == <<"IAC", v, o>>
Report(s) == <<"IAC", "SB", "NAWS">>
             \o (IF s[1] = "IAC" THEN <<"IAC", "IAC">> ELSE <<s[1]>>)
             \o SubSeq(s, 2, 4) \o <<"IAC", "SE">>

ClientReply ==
  LET m == Head(down)
  IN  /\ down # <<>> /\ down' = Tail(down)
      /\ \/ /\ m[1] \in {"RESIZE", "WONT", "DONT"}
            /\ UNCHANGED <<up, size>>
         \/ /\ m[1] = "WILL"
            /\ up' = up \o Command(IF m[2] \in agree THEN "DO" ELSE "DONT", m[2])
            /\ UNCHANGED size
         \/ /\ m[1] = "DO"
            /\ IF m[2] = "NAWS" /\ "NAWS" \in agree
               THEN \E s \in Sizes : /\ up' = up \o Command("WILL", "NAWS") \o Report(s)
                                     /\ size' = s
               ELSE /\ up' = up \o Command(IF m[2] \in agree THEN "WILL" ELSE "WONT", m[2])
                    /\ UNCHANGED size
      /\ UNCHANGED <<t, agree, typed, keys, nsizes, asked>>

MayAct(cost) == Len(typed) + nsizes + 2 * Cardinality(asked) + cost <= MaxActs

Type(b) ==
  /\ MayAct(1)
  /\ typed' = Append(typed, b)
  /\ up' = up \o (IF b = "IAC" THEN <<b, b>> ELSE <<b>>)
  /\ UNCHANGED <<t, down, agree, keys, size, nsizes, asked>>

Resize(s) ==
  /\ size # <<>> /\ s # size /\ MayAct(1)
  /\ nsizes' = nsizes + 1 /\ size' = s /\ up' = up \o Report(s)
  /\ UNCHANGED <<t, down, agree, typed, keys, asked>>

Ask(v, o) ==
  /\ MayAct(2) /\ <<v, o>> \notin asked
  /\ asked' = asked \cup {<<v, o>>} /\ up' = up \o Command(v, o)
  /\ UNCHANGED <<t, down, agree, typed, keys, size, nsizes>>

Next ==
  \/ Serve \/ ClientReply
  \/ \E b \in Letters : Type(b)
  \/ \E s \in Sizes : Resize(s)
  \/ \E v \in Verbs, o \in Options : Ask(v, o)

Spec == Init /\ [][Next]_svars

(* The tick keeps draining the receive ring; the client keeps reading.     *)
FairSpec == Spec /\ WF_svars(Serve) /\ WF_svars(ClientReply)

---------------------------------------------------------------------------
SessionTypeOK ==
  /\ t.iac \in 0..4 /\ t.verb \in Verbs /\ t.willed \subseteq Ours
  /\ t.doed \subseteq Accepted /\ Len(t.sb) <= SbMax
  /\ typed \in Seq(Letters) /\ keys \in Seq(Letters)

(* Stripping the telnet commands out of the byte stream loses, adds and    *)
(* reorders no keystroke: not around negotiation, not around a window size *)
(* whose bytes look like commands, not for a typed 0xFF.  Once everything  *)
(* sent has been read, the size sb_done recorded is the one the client     *)
(* last reported.                                                          *)
StreamTransparent ==
  /\ SessionTypeOK
  /\ Len(keys) <= Len(typed) /\ keys = SubSeq(typed, 1, Len(keys))
  /\ up = <<>> => keys = typed
  /\ up = <<>> /\ size # <<>> => t.naws = size

(* willed and doed stop the ping-pong of a client that answers every offer *)
(* (telnet.c:36-37, 172-173): negotiation comes to rest.                   *)
Settles == <>[](up = <<>> /\ down = <<>>)
=============================================================================

-------------------------------- MODULE Ssh --------------------------------
(***************************************************************************)
(* dosshd/ssh.c: one SSH connection as a machine that eats the client's    *)
(* byte stream.  An operator takes the state a call works on,              *)
(*   s = [c, id, ob, cin, cout],                                           *)
(* the connection's ssh_conn (with the number id of the connection, to     *)
(* tell whose packets are whose) and the three buffers all connections     *)
(* share (g_ob, g_cin, g_cout), and returns the state after the call.      *)
(*                                                                         *)
(* Bytes are counted in units: a packet is one unit, the client's KEXINIT, *)
(* the largest packet, several ("PART" units and then the message).        *)
(* A unit of the client's stream is [m |-> message, enc |-> sealed under   *)
(* the session keys].  Names, keys and signatures are what they compare    *)
(* to; chan_eof, pty, svc_name and auth_user are written and never read    *)
(* by the server, and are left out.                                        *)
(***************************************************************************)
EXTENDS Integers, Sequences, SequencesExt

CONSTANTS
  HavePassword, HaveKeys,  \* a password / authorized keys are configured
  IB_SZ,                   \* SSH_IB_SZ, in units
  OB_SZ,                   \* SSH_OB_SZ, in packets
  CIN_SZ,                  \* SSH_CIN_SZ: the keystroke ring holds one less
  COUT_SZ,                 \* SSH_COUT_SZ
  LINE_MAX,                \* a version line must end within this many units
  LOCAL_WINDOW,            \* SSH_LOCAL_WINDOW
  CHAN_CHUNK               \* SSH_CHAN_CHUNK

MAX_AUTH_TRIES == 3        \* SSH_MAX_AUTH_TRIES

(* the enum of states, EXPECT_ dropped                                     *)
States == {"VERSION", "KEXINIT", "ECDH_INIT", "CLIENT_NEWKEYS",
           "SERVICE_REQUEST", "AUTH", "SESSION", "CLOSED", "ERROR"}

(* ssh_conn after the memset of ssh_reset                                  *)
ZeroConn ==
  [state |-> "VERSION", ib |-> <<>>, discard_next |-> FALSE,
   recv_encrypted |-> FALSE, send_encrypted |-> FALSE,
   authenticated |-> FALSE, auth_fails |-> 0,
   chan_open |-> FALSE, peer_window |-> 0, peer_maxpkt |-> 0,
   local_window |-> 0, shell_ready |-> FALSE, term_cols |-> 0,
   chan_sent_eof |-> FALSE, chan_sent_close |-> FALSE, chan_closed |-> FALSE]

Min2(a, b) == IF a < b THEN a ELSE b

---------------------------------------------------------------------------
(* Sending.                                                                *)

fail(s) == [s EXCEPT !.c.state = "ERROR"]

To(s, st) == [s EXCEPT !.c.state = st]

(* ob_append of what send_unenc or send_enc framed.  A packet that does    *)
(* not fit is not kept (send_unenc appends three parts, of which the first *)
(* could stay; the session has failed either way)                          *)
send(s, m, n) ==
  IF Len(s.ob) >= OB_SZ THEN fail(s)
  ELSE [s EXCEPT !.ob = Append(@, [to |-> s.id, m |-> m, n |-> n,
                                   sealed |-> s.c.send_encrypted])]

send_packet(s, m) == send(s, m, 0)

(* ssh_output: up to room units leave the shared buffer                    *)
ssh_output(ob, room) ==
  LET k == Min2(Len(ob), room)
  IN  [sent |-> SubSeq(ob, 1, k), rest |-> SubSeq(ob, k + 1, Len(ob))]

---------------------------------------------------------------------------
(* Key exchange.                                                           *)

nl_has(list, name) == name \in Range(list)
nl_first_is(list, name) == list # <<>> /\ Head(list) = name

(* the wrong guess of a client that announced one is to be thrown away     *)
negotiate(s, m) ==
  [s EXCEPT !.c.discard_next =
     m.follows /\ ~(nl_first_is(m.kex, "curve25519") /\ nl_first_is(m.hostkey, "ed25519"))]

(* whole: the ten lists and the flag behind them lie inside the packet     *)
handle_kexinit(s, m) ==
  IF /\ m.whole
     /\ nl_has(m.kex, "curve25519") /\ nl_has(m.hostkey, "ed25519")
     /\ nl_has(m.cipher, "chacha20poly1305")
  THEN To(negotiate(s, m), "ECDH_INIT") ELSE fail(s)

(* mutant: our side encrypts from NEWKEYS on, NEWKEYS included             *)
handle_ecdh_init_Early(s, m) ==
  IF s.c.discard_next THEN [s EXCEPT !.c.discard_next = FALSE]
  ELSE IF ~m.good THEN fail(s)
  ELSE To(send_packet([send_packet(s, "ECDH_REPLY") EXCEPT !.c.send_encrypted = TRUE],
                      "NEWKEYS"), "CLIENT_NEWKEYS")

handle_ecdh_init(s, m) ==
  IF s.c.discard_next THEN [s EXCEPT !.c.discard_next = FALSE]
  ELSE IF ~m.good THEN fail(s)
  ELSE To([send_packet(send_packet(s, "ECDH_REPLY"), "NEWKEYS")
             EXCEPT !.c.send_encrypted = TRUE], "CLIENT_NEWKEYS")

handle_client_newkeys(s) ==
  To([s EXCEPT !.c.recv_encrypted = TRUE], "SERVICE_REQUEST")

handle_service_request(s, m) ==
  IF m.good THEN To(send_packet(s, "SERVICE_ACCEPT"), "AUTH") ELSE fail(s)

---------------------------------------------------------------------------
(* User authentication.                                                    *)

send_userauth_success(s) ==
  To([send_packet(s, "SUCCESS") EXCEPT !.c.authenticated = TRUE], "SESSION")

auth_reject(s, counted) ==
  LET t == [s EXCEPT !.c.auth_fails = IF counted THEN @ + 1 ELSE @]
  IN  IF t.c.auth_fails >= MAX_AUTH_TRIES
      THEN To(send_packet(t, "DISCONNECT"), "CLOSED")
      ELSE send_packet(t, "FAILURE")

(* mutant: a probe with an authorized key is enough                        *)
handle_pubkey_auth_Probe(s, m) ==
  IF ~m.known \/ (m.signed /\ ~m.verifies) THEN auth_reject(s, TRUE)
  ELSE send_userauth_success(s)

(* a probe is answered, a signed request decided                           *)
handle_pubkey_auth(s, m) ==
  IF ~m.known \/ (m.signed /\ ~m.verifies) THEN auth_reject(s, TRUE)
  ELSE IF m.signed THEN send_userauth_success(s)
  ELSE send_packet(s, "PK_OK")

handle_userauth_request(s, m) ==
  CASE m.method = "malformed" -> fail(s)
    [] m.method # "malformed" /\ ~HavePassword /\ ~HaveKeys ->
         send_userauth_success(s)
    [] m.method = "publickey" /\ HaveKeys -> handle_pubkey_auth(s, m)
    [] m.method = "password" /\ HavePassword /\ m.known -> send_userauth_success(s)
    [] OTHER -> auth_reject(s, m.method # "none")

---------------------------------------------------------------------------
(* The session channel.                                                    *)

ssh_channel_ready(c) == c.chan_open /\ c.shell_ready /\ ~c.chan_closed

ssh_winsize(c) == IF c.term_cols = 0 THEN 80 ELSE c.term_cols

handle_channel_open(s, m) ==
  IF ~m.whole THEN fail(s)
  ELSE IF s.c.chan_open \/ m.type # "session" THEN send_packet(s, "OPEN_FAILURE")
  ELSE send([s EXCEPT !.c.peer_window = m.window, !.c.peer_maxpkt = m.maxpkt,
                      !.c.local_window = LOCAL_WINDOW, !.c.chan_open = TRUE],
            "OPEN_CONFIRMATION", LOCAL_WINDOW)

(* a request that ends before want_reply is ignored, one that ends before  *)
(* its size granted without it                                             *)
handle_channel_request(s, m) ==
  LET t == CASE m.what \in {"pty-req", "window-change"} /\ m.sized ->
                  [s EXCEPT !.c.term_cols = m.cols]
             [] m.what = "shell" -> [s EXCEPT !.c.shell_ready = TRUE]
             [] OTHER -> s
  IN  IF ~m.whole THEN s
      ELSE IF ~m.want_reply THEN t
      ELSE send_packet(t, IF m.what = "env" THEN "CHANNEL_FAILURE" ELSE "CHANNEL_SUCCESS")

(* mutant: the window is opened by what is missing, and stays counted down *)
adjust_local_window_Forgets(s, consumed) ==
  LET w == IF s.c.local_window >= consumed THEN s.c.local_window - consumed ELSE 0
  IN  IF w >= LOCAL_WINDOW \div 2 THEN [s EXCEPT !.c.local_window = w]
      ELSE send([s EXCEPT !.c.local_window = w], "WINDOW_ADJUST", LOCAL_WINDOW - w)

adjust_local_window(s, consumed) ==
  LET w == IF s.c.local_window >= consumed THEN s.c.local_window - consumed ELSE 0
  IN  IF w >= LOCAL_WINDOW \div 2 THEN [s EXCEPT !.c.local_window = w]
      ELSE send([s EXCEPT !.c.local_window = LOCAL_WINDOW], "WINDOW_ADJUST", LOCAL_WINDOW - w)

(* the length is cut to what arrived; what does not fit the keystroke ring *)
(* is dropped and still paid for                                           *)
handle_channel_data(s, m) ==
  LET dlen == Min2(m.dlen, Len(m.keys))
      k == Min2(dlen, (CIN_SZ - 1) - Len(s.cin))
  IN  IF ~m.whole THEN s
      ELSE adjust_local_window([s EXCEPT !.cin = @ \o SubSeq(m.keys, 1, k)], dlen)

(* mutant: the client's window is left to ssh_channel_emit                 *)
ssh_channel_avail_Chunk(c) == IF ssh_channel_ready(c) THEN CHAN_CHUNK ELSE 0

ssh_channel_avail(c) ==
  IF ssh_channel_ready(c)
  THEN Min2(CHAN_CHUNK, Min2(c.peer_window, c.peer_maxpkt)) ELSE 0

(* one turn of the loop of ssh_channel_flush                               *)
FlushOnce(s) ==
  LET take == Min2(s.cout, Min2(CHAN_CHUNK, Min2(s.c.peer_window, s.c.peer_maxpkt)))
  IN  IF take = 0 \/ Len(s.ob) + 1 >= OB_SZ THEN s
      ELSE [send(s, "CHANNEL_DATA", take)
              EXCEPT !.c.peer_window = @ - take, !.cout = @ - take]

ssh_channel_flush(s) ==
  IF ~s.c.chan_open \/ s.c.chan_closed THEN [s EXCEPT !.cout = 0]
  ELSE FoldLeft(LAMBDA t, k : FlushOnce(t), s, [k \in 1..s.cout |-> k])

ssh_channel_putc(s) ==
  IF ~s.c.shell_ready \/ s.c.chan_closed \/ s.cout >= COUT_SZ THEN s
  ELSE [s EXCEPT !.cout = @ + 1]

SayIf(s, said, m) == IF said THEN send_packet(s, m) ELSE s

(* exit-status, EOF and CLOSE, each at most once                           *)
ssh_channel_close(s) ==
  IF ~s.c.chan_open \/ s.c.chan_sent_close THEN s
  ELSE [send_packet(SayIf(SayIf(ssh_channel_flush(s), s.c.shell_ready, "EXIT_STATUS"),
                          ~s.c.chan_sent_eof, "CHANNEL_EOF"), "CHANNEL_CLOSE")
          EXCEPT !.c.chan_sent_eof = TRUE, !.c.chan_sent_close = TRUE,
                 !.c.chan_closed = TRUE]

---------------------------------------------------------------------------
(* Receiving.                                                              *)

handle_session(s, m) ==
  CASE m.t = "CHANNEL_OPEN" -> handle_channel_open(s, m)
    [] m.t = "CHANNEL_REQUEST" -> handle_channel_request(s, m)
    [] m.t = "CHANNEL_DATA" -> handle_channel_data(s, m)
    [] m.t = "WINDOW_ADJUST" ->
         IF m.whole THEN [s EXCEPT !.c.peer_window = @ + m.n] ELSE s
    [] m.t = "CHANNEL_CLOSE" ->
         To([ssh_channel_close(s) EXCEPT !.c.chan_closed = TRUE], "CLOSED")
    [] OTHER -> s

handle_packet(s, m) ==
  CASE m.t = "DISCONNECT" -> To(s, "CLOSED")
    [] m.t = "IGNORE" -> s
    [] m.t = "GLOBAL_REQUEST" ->
         IF m.want_reply THEN send_packet(s, "REQUEST_FAILURE") ELSE s
    [] OTHER ->
         CASE s.c.state = "KEXINIT" ->
                IF m.t = "KEXINIT" THEN handle_kexinit(s, m) ELSE fail(s)
           [] s.c.state = "ECDH_INIT" ->
                IF m.t = "ECDH_INIT" \/ s.c.discard_next THEN handle_ecdh_init(s, m)
                ELSE fail(s)
           [] s.c.state = "CLIENT_NEWKEYS" ->
                IF m.t = "NEWKEYS" THEN handle_client_newkeys(s) ELSE fail(s)
           [] s.c.state = "SERVICE_REQUEST" ->
                IF m.t = "SERVICE_REQUEST" THEN handle_service_request(s, m) ELSE fail(s)
           [] s.c.state = "AUTH" ->
                IF m.t = "USERAUTH_REQUEST" THEN handle_userauth_request(s, m) ELSE s
           [] s.c.state = "SESSION" -> handle_session(s, m)

ib_consume(s, k) == [s EXCEPT !.c.ib = SubSeq(@, k + 1, Len(@))]

(* a line; one that is not an identification is skipped                    *)
try_version(s) ==
  LET k == SelectInSeq(s.c.ib, LAMBDA u : u.m.t = "LINE")
  IN  IF k \in 1..LINE_MAX
      THEN ib_consume(IF k = 1 /\ s.c.ib[1].m.ssh THEN To(s, "KEXINIT") ELSE s, k)
      ELSE IF Len(s.c.ib) >= LINE_MAX THEN fail(s) ELSE s

(* a packet, once all of it has arrived; one that is not framed the way    *)
(* this side expects does not survive the length, padding and MAC checks   *)
(* (where its length passes, the code first waits for that many bytes)     *)
try_packet(s) ==
  LET k == SelectInSeq(s.c.ib, LAMBDA u : u.m.t # "PART")
  IN  IF s.c.ib # <<>> /\ s.c.ib[1].enc # s.c.recv_encrypted THEN fail(s)
      ELSE IF k = 0 THEN s
      ELSE IF s.c.ib[k].m.t \in {"BAD", "LINE"} THEN fail(s)
      ELSE ib_consume(handle_packet(s, s.c.ib[k].m), k)

Advance(s) ==
  CASE s.c.state \in {"ERROR", "CLOSED"} -> s
    [] s.c.state = "VERSION" -> try_version(s)
    [] OTHER -> try_packet(s)

ssh_input(s, units) ==
  IF s.c.state = "ERROR" THEN s
  ELSE IF Len(s.c.ib) + Len(units) > IB_SZ THEN fail(s)
  ELSE FoldLeft(LAMBDA t, k : Advance(t), [s EXCEPT !.c.ib = @ \o units],
                s.c.ib \o units)

(* the connection starts over, with our version line and KEXINIT queued;   *)
(* the shared buffers are emptied                                          *)
ssh_reset(id) ==
  send_packet(send_packet([c |-> ZeroConn, id |-> id, ob |-> <<>>, cin |-> <<>>,
                           cout |-> 0], "VERSION"), "KEXINIT")
=============================================================================

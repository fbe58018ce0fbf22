------------------------------- MODULE MCSsh -------------------------------
(* Instances of SshTick and SshSerial for TLC: who the clients are.        *)
EXTENDS SshSerial

M(t) == [t |-> t]
Line(ssh) == [t |-> "LINE", ssh |-> ssh]
Cut(m) == [m EXCEPT !.whole = FALSE]     \* a message that ends too early
Kexinit(kex, follows) ==
  [t |-> "KEXINIT", whole |-> TRUE, kex |-> kex, hostkey |-> <<"ed25519">>,
   cipher |-> <<"chacha20poly1305">>, follows |-> follows]
Ecdh(good) == [t |-> "ECDH_INIT", good |-> good]
Service == [t |-> "SERVICE_REQUEST", good |-> TRUE]
Auth(method, known, signed, verifies) ==
  [t |-> "USERAUTH_REQUEST", method |-> method, known |-> known,
   signed |-> signed, verifies |-> verifies]
Open(type, window) ==
  [t |-> "CHANNEL_OPEN", whole |-> TRUE, type |-> type, window |-> window, maxpkt |-> 2]
Request(what, cols, want) ==
  [t |-> "CHANNEL_REQUEST", whole |-> TRUE, what |-> what, sized |-> TRUE, cols |-> cols,
   want_reply |-> want]
Data(keys) == [t |-> "CHANNEL_DATA", whole |-> TRUE, dlen |-> Len(keys), keys |-> keys]
Adjust(n) == [t |-> "WINDOW_ADJUST", whole |-> TRUE, n |-> n]

C == "curve25519"

Transport == <<Line(TRUE), M("PART"), M("PART"), Kexinit(<<C>>, FALSE), Ecdh(TRUE),
               M("NEWKEYS"), Service>>
Password(right) == Auth("password", right, FALSE, FALSE)
Key(known, signed, verifies) == Auth("publickey", known, signed, verifies)
Login == Transport \o <<Password(TRUE)>>
Shell == Login \o <<Open("session", 2), Request("shell", 0, FALSE)>>
Client(login, then, patient) == [login |-> login, then |-> then, patient |-> patient]

(* the key exchange in any order, with wrong guesses and broken packets    *)
Novice ==
  Client(<<>>, {Line(TRUE), Line(FALSE), M("PART"), Kexinit(<<C>>, TRUE),
                Kexinit(<<"dh", C>>, TRUE), Kexinit(<<"dh">>, FALSE), Cut(Kexinit(<<C>>, FALSE)),
                Ecdh(TRUE), Ecdh(FALSE), M("NEWKEYS"), Service, M("DISCONNECT"), M("IGNORE"),
                M("BAD"), [t |-> "GLOBAL_REQUEST", want_reply |-> TRUE]}, TRUE)

(* every way to ask to be let in                                           *)
Stranger ==
  Client(Transport, {Auth("none", FALSE, FALSE, FALSE), Auth("malformed", FALSE, FALSE, FALSE),
                     Password(FALSE), Password(TRUE), Key(TRUE, FALSE, FALSE),
                     Key(TRUE, TRUE, FALSE), Key(TRUE, TRUE, TRUE), Key(FALSE, TRUE, TRUE),
                     Open("session", 2), Request("shell", 0, TRUE), Data(<<"k">>)}, TRUE)

(* every use of the channel, and messages that are cut short or claim more *)
(* than they carry                                                         *)
Guest ==
  Client(Login, {Open("session", 2), Open("x11", 2), Cut(Open("session", 2)),
                 Request("pty-req", 90, TRUE), [Request("pty-req", 100, TRUE) EXCEPT !.sized = FALSE],
                 Request("shell", 0, FALSE), Cut(Request("shell", 0, TRUE)), Request("env", 0, TRUE),
                 Data(<<"k">>), [Data(<<"k">>) EXCEPT !.dlen = 3], Cut(Data(<<>>)), Cut(Adjust(1)),
                 M("CHANNEL_CLOSE"), M("CHANNEL_EOF")}, TRUE)

(* both windows, and Ctrl-D                                                *)
Typist == Client(Shell, {Data(<<"k", "k">>), Data(<<"k", "EOT", "k">>), Adjust(2)}, FALSE)
Silent1 == Client(<<>>, {}, FALSE)

Left == Client(Shell, {Data(<<"EOT", "k", "EOT">>), Request("window-change", 90, FALSE)}, TRUE)
Right == Client(Shell, {Request("window-change", 100, TRUE), Adjust(1)}, FALSE)

(* callers on the serial line; each may vanish at any point                *)
Caller == Client(Shell, {Data(<<"k", "EOT", "k">>), M("CHANNEL_CLOSE"), M("DISCONNECT")}, FALSE)
Painter == Client(Shell, {Request("window-change", 90, TRUE), Adjust(2)}, FALSE)

AllCasts == << <<Novice>>, <<Stranger>>, <<Guest>>, <<Typist, Silent1>>, <<Left, Right>>, <<Caller, Caller, Painter>> >>

(* two users with terminals of different sizes                             *)
Wide == Client(Shell, {Request("window-change", 100, FALSE), Adjust(2)}, TRUE)
Narrow == Client(Shell, {Adjust(2)}, TRUE)
TwoSizes == << <<Wide, Narrow>> >>
=============================================================================

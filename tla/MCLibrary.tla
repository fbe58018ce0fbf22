----------------------------- MODULE MCLibrary -----------------------------
(***************************************************************************)
(* The parts that work on their own: keystrokes, the pure functions, the   *)
(* digests, the generator, the packets.  One of them is checked per        *)
(* behaviour, the others stay as they start.                               *)
(***************************************************************************)
EXTENDS AnsiKey, Crypto, Digests, Rng, Seal

VARIABLE part

Keyboard == [Enter |-> <<"CR", "NUL">>, EnterLF |-> <<"CR", "LF">>,
             Esc |-> <<"ESC">>, Up |-> <<"ESC", "[", "A">>,
             Del |-> <<"ESC", "[", "3", "~">>, F5 |-> <<"ESC", "[", "1", "5", "~">>,
             F1 |-> <<"ESC", "O", "P">>, O |-> <<"O">>, x |-> <<"x">>]

(* a curve of 8 * 4111 points over 32749                                   *)
Generator == <<6838, 6>>
Base == Times(8, Generator)
SomePoints == {<<0, 1>>, <<0, FP - 1>>, Base, Minus(Base), Times(3, Base),
               Times(4111, Generator), Generator}
SomeYs == 0..60 \cup 32730..32767
SomeSecrets == {0, 9, 4095, 25000, 65535}
SomeExpanded == {[i \in 0..7 |-> IF i < k THEN a ELSE IF i = k THEN b ELSE c] :
                   k \in 0..7, a \in {0, 1, 15}, b \in 0..15, c \in {0, 7, 15}}
SomeScalars == 0..40 \cup 2040..2060 \cup 4080..4110
SomeSigners == {[a |-> a, r |-> r, h |-> h] : a \in {0, 9999, 65535}, r \in {1, 70001}, h \in {5, 4110, 123456}}

(* limbs as large as the callers of fe_mul may make them                   *)
Big(i) == IF i % 2 = 0 THEN 13 ELSE 6
Small(i) == IF i % 2 = 0 THEN 4 ELSE 2
SomeLimbed == {[i \in 0..9 |-> IF i = k THEN s * Big(i) ELSE 0] : k \in 0..9, s \in {1, -1}}
              \cup {[i \in 0..9 |-> s * Big(i)] : s \in {1, -1}}
              \cup {[i \in 0..9 |-> IF i % 4 < 2 THEN s * Big(i) ELSE -s * Big(i)] : s \in {1, -1}}
SomeTight == {[i \in 0..9 |-> IF i = 0 THEN a ELSE IF i < 8 THEN s * Small(i)
                              ELSE IF i = 8 THEN 4 * b ELSE c] :
                a \in -4..4, s \in -1..1, b \in -1..1, c \in -2..2}

SomeRaws == {<<x, y, z>> : x \in {0, 1, 127, 128}, y \in {0, 127, 255}, z \in {0, 128, 255}}
SomeBlobs == UNION {[1..n -> {0, 165, 255}] : n \in 0..6}
SomeKeys == {<<0, 0>>, <<77, 255>>}

SomeMacs == {[msg |-> m, r |-> r, pad |-> p] :
               m \in UNION {[1..n -> {0, 255}] : n \in 0..5},
               r \in {<<1, 0>>, <<15, 15>>, <<255, 4>>}, p \in {<<0, 0>>, <<255, 255>>}}

allvars == <<vars, call, digest, rngvars, sealvars, part>>

LibInit ==
  /\ part \in {"keys", "calls", "digests", "rng", "packets"}
  /\ Init /\ (part # "keys" => people = "one")
  /\ CallInit /\ DigestInit /\ RngInit /\ SealInit /\ (part # "packets" => letter = "C")
(* the generator has answered all requests, the packets have arrived       *)
Finished ==
  /\ \/ part = "rng" /\ requests = MaxRequests
     \/ part = "packets" /\ got = sent /\ Len(sent) = MaxPackets
  /\ UNCHANGED allvars
LibNext ==
  \/ part = "keys" /\ Next /\ UNCHANGED <<call, digest, rngvars, sealvars, part>>
  \/ part = "calls" /\ CallNext /\ UNCHANGED <<vars, digest, rngvars, sealvars, part>>
  \/ part = "digests" /\ DigestNext /\ UNCHANGED <<vars, call, rngvars, sealvars, part>>
  \/ part = "rng" /\ RngNext /\ UNCHANGED <<vars, call, digest, sealvars, part>>
  \/ part = "packets" /\ SealNext /\ UNCHANGED <<vars, call, digest, rngvars, part>>
  \/ Finished

(* of a typist's keys, the bytes under way arrive, and ticks go on         *)
LibSpec ==
  /\ LibInit /\ [][LibNext]_allvars
  /\ WF_vars(people = "one" /\ UNCHANGED people /\ part = "keys" /\ Arrive)
  /\ WF_vars(people = "one" /\ UNCHANGED people /\ part = "keys" /\ Tick)
=============================================================================

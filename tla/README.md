# A TLA+ model of DOSSHD

DOSSHD is a DOS resident program that shows the text screen of the machine it
runs on to up to three network clients (or one serial terminal) and feeds their
keystrokes to DOS, by telnet or by SSH. This directory holds TLA+ modules that
model its parts, the TLC configurations that check them on small instances, and
proofs, checked by TLAPS, of facts that hold for every size.

Source lines are quoted as `file:line`, files being those of `src/dosshd/` and,
where a name begins with `crypto/`, of the directory of that name.

## The system

Everything happens in the timer interrupt, about 18 times a second.

```
 INT 1Ch -> tick_isr -> ansi_key_tick                     (ansikey.c)
                     -> net_tick  -> net_poll             (net.c)
                                  -> telnet_begin / _in   (telnet.c) -> ansi_key_byte
                                  -> tx_pump              (render.c) -> net_tx_putc
                     -> or ssh_worker, on its own stack   (dosshd.c)
                                  -> net_poll             (net.c), or the UART
                                  -> ssh_input            (ssh.c, crypto/) -> ansi_key_byte
                                  -> broadcast            (render.c) -> ssh_channel_emit
 NIC     -> pkt_receiver: one staging buffer              (pktrecv.asm)
```

`in_tick` keeps a tick from being served inside another. That can be tried
because `pkt_send` acknowledges the timer interrupt and enables interrupts
around the packet driver's send. The foreground program runs between ticks,
writes to video memory and takes keys from the BIOS ring.

| part | source | module |
|---|---|---|
| TCP connections | net.c | `Tcp`, `TcpProofs`, `TcpRecvProofs`, `TcpFlowProofs`, `TcpSendProofs` |
| slot table (what net.c promises its callers) | net.c | `SlotTable`, `TcpTable`, `TcpTableProofs` |
| telnet framing, password gate | telnet.c | `Telnet`, `TelnetSession` |
| the tick in telnet mode | dosshd.c `net_tick` | `Console`, `ConsoleProofs` |
| interrupts, packet driver, reboot | dosshd.c, net.c, pktrecv.asm | `Tick`, `TickProofs` |
| renderer | render.c | `Render` |
| key decoder, BIOS ring | ansikey.c, dosshd.c | `AnsiKey`, `LibraryProofs` |
| SSH transport, authentication, channel | ssh.c | `Ssh` |
| SSH packets on the wire | ssh.c | `Seal`, `LibraryProofs` |
| SSH worker over the network | dosshd.c `ssh_net_worker` | `SshTick` |
| SSH worker on the serial line | dosshd.c `ssh_serial_worker` | `SshSerial` |
| key files, encodings | ssh.c, dosshd.c | `Codec` |
| field, curve, signatures | crypto/monocypher*.c | `FieldLimbs`, `LibraryProofs`, `Curve`, `Ed25519` |
| digests, authenticator | crypto/sha256.c, monocypher*.c | `Digests` |
| random numbers | crypto/rng.c | `Rng` |

`MCTcp`, `MCConsole`, `MCTelnetSession`, `MCRender` and `MCSsh` instantiate them
for TLC; `Crypto` states what the pure functions compute, and `MCLibrary` puts
the parts that work on their own into one run. `PROJECT.json` maps every
definition to its lines.

## The modules

**Tcp.** One record per slot, with the fields of `struct conn` and their names;
`tcp_in` is split into the stages of the function (`SynIn`, `EstabIn`, `AckIn`,
`DataIn`), each a function from slot to slot, and every one has a companion that
gives the segments it sends. `Poll` is one call of `net_poll`: the timers of all
slots, at most one frame, the output of all slots. The other actions are the
calls of the framing code. Sequence numbers are taken modulo `2 * HALF`, ring
indices modulo the ring size, so both wrap, at different places, in the checked
instances. `rexmit_at` is the time left instead of an absolute tick count, so
the midnight rollover of the BIOS clock is not in this module. The network never
forgets a segment: `toClient` is the set of all segments sent, and a client may
send any segment it could ever have sent. That covers loss, repetition and
reordering. Bytes are numbered, so a stream is right when it counts up.

**SlotTable.** The same table with segments, timers and rings gone: a slot is
free, half open or open, with a queue of received bytes and the two flags the
framing code uses. `TcpTable` maps `Tcp` to it.

**Telnet, Console, TelnetSession.** `Telnet` is telnet.c as functions from the
telnet state of a slot and a byte to the new state and an effect (what is sent,
what reaches the key decoder, admit, drop). `Console` composes it with
`SlotTable` in the order of `net_tick`; `TelnetSession` composes it with one
client that answers every command as RFC 854 asks.

**Tick.** A stack of interrupt handlers, the interrupt flag, the in-service bit
of IRQ0, the guards `in_tick` and `sending`, the staging and transmit buffers.
A step is the code between two points where an interrupt can come. The packet
driver copies with interrupts off.

**Render.** Screen, shadow, frame walk and output buffer; the stream consists of
items (position, attribute, character) and not of bytes, so the buffer limits
`OBUF` and `RESERVE` count items. Terminals apply what they are sent. The
program writes between any two items but not while a buffer is being filled.

**AnsiKey.** The decoder with its pending sequence, the reboot sentinel and the
BIOS ring. Printable characters stand for themselves; the scan codes of the
extended keys are those of the tables in ansikey.c.

**Ssh.** The state of one connection and the three buffers all connections
share, and every operation of ssh.c as a function on them: packet assembly
(`ssh_input`), the handler of each message by phase, the channel calls. Bytes
are counted in units: a packet is one unit, the client's KEXINIT, the largest,
several. Names, keys and signatures are what the code compares them to. What is
inside a packet is in `Seal`, what is inside a signature in `Ed25519`.

**SshTick, SshSerial.** The worker composed with `SlotTable` and `Ssh`. A tick
is a poll, the set-up of new slots, the service of one slot after the other and
rounds of the broadcast; `SshSerial` adds the worker on the serial line, where
clients follow one another on the same wire without any sign of it. The clients
are in the model too: each has a script (`login`) and then says, in any order,
what its set `then` holds, in segments of one message or two, and it keeps what
it has been granted, what it was shown and whether it can still read its
stream. After authentication a client keeps to the channel protocol.

**Seal.** Packets byte by byte, before NEWKEYS and after it, both directions. A
byte is the set of terms it is the XOR of, so encryption with the right
keystream cancels and with any other does not. The bytes arrive in any pieces.

**FieldLimbs, Curve, Ed25519, Digests, Codec, Crypto.** Pure functions, on
parameters: `FieldLimbs` has ten limbs of two radices, `Curve` any curve of the
family of Curve25519, `Ed25519` limbs of any width. Hash compression is
symbolic, so a hash is the sequence of blocks compressed; Poly1305 computes.

**Rng.** Pool, reseeding and generator, with SHA-256 and ChaCha20 as terms.

## What the runs check

| run | distinct states | shows |
|---|---|---|
| `tcp_stream` | 71 k | one client, bytes down and keys up: ring and sequence numbers agree; clients get the queued bytes in order; a byte is freed only when its client has it; keys are acknowledged exactly when stored; advertised windows are kept; a vanished peer is given up (liveness); `Tcp` implements `SlotTable` |
| `tcp_table` | 0.20 M | three clients of two hosts, two slots: no peer has two slots, every admitted client is given the same broadcast, and `Tcp` implements `SlotTable` |
| `console_gate` | 1.5 M | no key of a connection reaches DOS before its password; three strikes; a slot is set up before it is used |
| `telnet_session` | 0.22 M | keys and window sizes survive escaping; negotiation comes to rest (liveness) |
| `tick` | 0.15 M | one tick served at a time; sends undisturbed; frames taken whole and once; the machine is handed back clean; a blocking driver does not hang the tick (liveness) |
| `render_mirror` | 1.8 M | the shadow is what the terminals show, through joins, pacing and changes of mode |
| `render_live` | 0.27 M | the terminals catch up; a serial terminal is repainted, except at midnight (liveness) |
| `library` | 0.23 M | decoder: ring order, reboot only on the sentinel, one person's decoded keys are the keys pressed, all of them in the end (liveness); limbs, curve, scalars, signatures, encodings and digests against reference definitions; generator output is fresh; packets open at the other end and no keystream is used twice |
| `ssh` | 0.49 M | keys and screen only for a client that proved itself; every stream readable to its client; every screen whole; both windows honoured and agreed on; the next caller on a serial line is served |

Three runs show a place where code and comment disagree. Each checks one
property that states the comment, and TLC shows the behaviour.

| run | comment | code |
|---|---|---|
| `tcp_handshake` | the SYN\|ACK retransmit covers a lost one (net.c:438), no ACK for 13 s frees the slot (net.c:253) | the timer rewinds `snd_nxt` over the SYN, after which neither the ACK is accepted nor the timer runs |
| `console_heir` | a slot not past the gate is not in the broadcast (net.c:601) | a slot taken over by a SYN of the same host keeps `ready` |
| `ssh_sizes` | a full repaint, so that this client gets the whole screen (dosshd.c:447) | the sizes of all clients are compared with one variable, so two clients of different sizes start the repaint over on every tick (dosshd.c:456) |

`ScreenPassesTheGate` states what does hold in the second case, with the
exception named.

Ten smaller differences are part of the models, which follow the code, and
have no run of their own:

* only bytes that were kept are acknowledged (net.c:498), but a FIN discards the
  ring they are in (net.c:506; `SegIn`, `Segment`);
* of two frames before a poll the second is said to be dropped (net.c:44); the
  first is (pktrecv.asm:65; `pkt_receiver`);
* the reboot is said not to be nested in net servicing (dosshd.c:220); a tick
  nested in a send tests `g_reboot` too (dosshd.c:597);
* a client's reply is said not to be answered again (telnet.c:36); WONT and DONT
  always are (telnet.c:188; `respond`), and `Settles` holds all the same;
* a repaint every two seconds on the serial line (render.c:7) does not fall due
  in the day after a repaint just before midnight (render.c:134; `Due`);
  `ResyncsBeforeMidnight` states what holds;
* a slot whose send ring has no room leaves its replies in the buffer all slots
  share, from where the next slot's service sends them to another client;
  `StreamsReadable` holds until that happens (`spilled`);
* a client that stops reading is meant to be evicted from the broadcast. Because
  of the reserve the ring is never quite full of screen data (dosshd.c:327 and
  351), so that alone does not make it count as stalled; it holds the broadcast
  up until TCP gives it up after some 13 seconds (`Cap`, `net_slot_stalled`);
* on the serial line a session that ended by DISCONNECT or an error, its channel
  not closed, keeps being sent the screen until the next session starts
  (`LineClear`);
* a Ctrl-D is said to be from the client served, the ring holding only its bytes
  (dosshd.c:430-434). What was typed behind a Ctrl-D stays in the ring for the
  next drain, so a second Ctrl-D closes the channel of the slot served next
  (dosshd.c:436-441; `Drained`; it happens in `ssh`, where `Left` types two);
* n + 40 bytes are said to be always enough for a chunk of n bytes, with up to 8
  bytes of padding (ssh.c:1311). Padding is 4 to 11 bytes and n + 41 are needed
  when n is 3 modulo 8; the one caller has room for 200 + 40 bytes, which
  `SealedFits` proves to be enough for every n it can pass.

Type invariants are not properties of their own: they are conjuncts of
`BegunFirst`, `StreamTransparent`, `ShadowMirrored`, `RingFifo` and
`StreamsReadable`, each beside the property that would be the first to suffer.
Those of `Tcp` and `Tick` are theorems of their own.

## Bounds

The sizes are the smallest at which the cases of interest occur.

*TCP.* Rings of three bytes fill, wrap and split a segment; a sequence space of
16 wraps, the clients' numbers starting at 15. `REXMIT_TICKS` is 2 and not less:
`net_poll` runs the timers before it takes a frame, so with a timeout of one
tick no handshake could be completed. One retransmission is enough to reach the
limit after a retry. Two slots and three clients of two hosts give takeover of a
stalled slot and refusal. Eviction of a slot that is not stalled, from a full
table, takes a third accepted SYN and is not reached by `tcp_table`, which
accepts two; `NoTwinSlots`, `StreamShared` and the refinement of `SlotTable` are
proved for that case too. The two bytes of `tcp_table` are queued only where
they matter for `StreamShared`, once both connections are open (the constraint
`LateBytes`): bytes at any other time multiply the states by those of
`tcp_stream`, and the theorem covers them. `tcp_stream` accepts one SYN; what
becomes of bytes and keys when a slot is used again is proved and not run.
`Endings` says how clients leave: in `tcp_table` by closing, in `tcp_stream`
also by a reset or without a word. The bytes down and the keys up are explored
each on its own to the full (`MaxPut`, `MaxKeys`) and together up to `MaxMixed`.

*Interrupts.* Three nested handlers (a tick, a tick inside its send, a reception
inside that) are all the nesting the guards distinguish; a tick sends one frame
in `tick`, any number in the proofs.

*Renderer.* Screens of two cells in one or two rows, and one of three cells that
does not fit the shadow, with an output buffer of seven items cut a repaint in
two or more. Two terminals in `render_mirror`, one in `render_live`; a day has
two ticks there, so midnight comes early.

*SSH.* Six casts, one per behaviour: `Novice` exchanges keys in any order with
wrong guesses and broken packets; `Stranger` asks to be let in in every way;
`Guest` uses the channel in every way, with messages cut short or longer on
paper than in fact; `Typist`, with a second connection that says nothing, uses
up both windows and types Ctrl-D; `Left` and `Right` share the screen, one of
them slow to read, the other typing Ctrl-D twice; three callers follow one
another on the serial line, each of which may vanish in the middle of a message.
Windows of a few units, a ring of four, a chunk of two and a frame of two pieces
make every buffer fill. In `ssh_sizes` two clients have windows of different
sizes and both keep reading.

*Library.* The curve has 8 * 4111 points over the field of 32749 elements, which
is 5 modulo 8 as 2^255 - 19 is (A is 162, scalars have 16 bits); limbs have
three and two bits with a fold of 3, and products are taken of limbs as large as
the callers make them. Scalars modulo the order have four limbs of four bits.
Hash blocks have 8 bytes in words of 2, and messages of 0 to 20 bytes are fed
in all possible pieces. The generator reseeds every two calls and its counter
has three values. Of three packets the first is plain and two are sealed;
payloads have 0, 3 and 20 bytes and arrive in pieces of 1, 7 and 19 bytes.

`MaxConn`, `MaxActs`, `MaxWrites`, `MaxChanges`, `MaxSends`, `MaxAsks`,
`MaxBytes`, `MaxStirs`, `MaxRequests`, `MaxUnits` and `MaxPackets` bound the
work of the environment. The two symmetries are sound: nothing but a name tells
two terminals apart, or two ports of one host, and no liveness is checked with
them.

Deadlock is checked everywhere but in the sessions of `TelnetSession`, which end
when the client has nothing more to say.

## Fairness

* `Tcp`: weak fairness of the polls that find a retransmit timer running. The
  timer interrupt keeps coming. No segment is promised to arrive.
* `Tick`: strong fairness of the handler at each depth and of the transmit
  interrupt. A handler that gets the processor again and again moves on, a
  nested tick being far shorter than the 55 ms between two.
* `Render`: weak fairness of the clock, strong fairness of `tx_pump`. Every tick
  calls it, and a frame may be due in some ticks only. A byte pushed back is
  taken in the end since `net_tx_putc` drops a client that stopped answering.
* `TelnetSession`: each side handles what it was sent.
* `AnsiKey`: bytes under way arrive and ticks go on.
* `SshTick` (`ssh_sizes`): the timer keeps ticking, so each phase of the worker
  ends. That the shells stay up and that nobody holds the broadcast up are
  premises of `RepaintCompletes`.

## What is proved

`TcpProofs`, for any number of slots, clients and hosts, any ring sizes, segment
size and sequence space allowed by the assumptions, and any network:
`TypeCorrect` (`[]TypeOK`), `RingAgreement` (`[]RingAgrees`), `NoTwins`
(`[]NoTwinSlots`). The assumptions (`SizesAssumption`, `EndpointAssumption` in
`Tcp`) are that the constants are numbers of the right kind, rings have at least
two places and half the sequence space is no smaller than a ring; the source has
4096, 512 and 2^31. The inductive invariant is `SlotInv`, the conjunction of the
three. Type correctness carries itself. Agreement and absence of twins need it:
an acknowledgement moves both cursors by the same amount only because what is in
flight is less than the ring, and a SYN opens a slot only when no live slot has
its peer. The proof has a lemma for each function from slot to slot, one for
tables, and a step for each action.

`TcpRecvProofs`, for the same constants: `KeysInOrder` (`[]KeysAccounted`) and
`WindowsHold` (`[]WindowKept`), the way up. `SessionAssumption` bounds the keys
and the bytes of a session by half the sequence space: the network of the model
never forgets a segment, so beyond that an old one would pass for a new one,
which real networks exclude by the lifetime of a packet. The inductive invariant
`RecvInv` counts in keys instead of sequence numbers: a live slot has taken and
holds exactly the keys up to `rcv_nxt`, no segment of its connection ever
promised more than the ring has room for beyond the keys taken, and two slots
never have one connection.

`TcpFlowProofs` and `TcpSendProofs`, the way down: `BytesInOrder`
(`Spec /\ []ReopenedApart => []InOrder`) and `FreedAfterReceipt`
(`Spec /\ []ReopenedApart => []FreedOnlyIfReceived`). The first module is about
one slot: `Flow` says that the ring holds the end of the bytes queued, that
`snd_una` is the number of the first of them and that no byte was freed that the
client does not have; `Took` and `Stretch` say the same of a client and of a
segment. The second puts the slots, the segments and the clients together
(`SendInv`). The hypothesis `ReopenedApart` says that two initial sequence
numbers offered to one client lie further apart than a session has bytes. It is
needed: net.c:448 takes the number from the tick count and the slot, so a client
whose slot was dropped and that is answered again a few ticks later is given a
number among those of its last session. TLC, given two such numbers, has a
counterexample to `InOrder`: an old copy of the SYN opens the slot anew, an old
acknowledgement completes the handshake, and the bytes of the new connection
land among those of the old one. It takes segments that outlive their
connection, which the network of the model has and a local network hardly. In
`tcp_stream` one SYN is accepted and the hypothesis holds of itself; the theorem
covers any number.

`TcpTableProofs`: `SlotTableImplemented` (`Spec => T!Spec`, the property
`ImplementsSlotTable`), that every step of `Tcp` is a step of `SlotTable` or
leaves what its callers see unchanged. One lemma says what each function of
net.c does to the view of a slot, one what a poll does to the table: the timers
may free slots, at most one frame opens, fills or frees one, and output changes
nothing visible. `SlotInv` supplies the types; the rest of the argument is about
single steps.

The same module has `StreamsShared` (`[]StreamShared`): from the first broadcast
byte an admitted connection is given it is given every later one, once and in
order (net.c:598-601, "all stay byte-identical"). The refinement says what a
step may do to a slot that stays live (`StepSlots`): it keeps its connection, and
once admitted it stays admitted. The inductive invariant `StreamInv` adds to
`RecvInv` that the bytes of a connection are numbered upwards (`Numbered`), that
an admitted slot has missed nothing since its first and that a slot not admitted
has had nothing of the broadcast (`Tuned`); without the last part a slot could be
admitted with a gap.

`ConsoleProofs`, over `SlotTable` and `Telnet`, for any number of slots and
connections, any password and any bursts of bytes: `KeysGated`
(`[]KeysPassTheGate`), `BeginComesFirst` (`[]BegunFirst`), `StrikesOut`
(`[]ThreeStrikes`), `ScreenGated` (`[]ScreenPassesTheGate`). The assumptions are
those on the sizes of the telnet buffers (`SizesAssumption` of `Telnet`),
`TableAssumption` and `BurstsAssumption`: what is left of a burst is a burst.
The inductive invariant `GateInv` ties the telnet state of a slot to the
connection it holds: two slots never hold one connection (`Numbered`);
`telnet_begin` is owed only inside its loop, and bytes wait only for the drain
loop (`Phased`); where the slot is served the gate, the count of wrong passwords
and the history agree (`Gated`); a ready slot was admitted or inherited the flag
(`Admitted`). Each telnet function has a lemma on what it may do to the gate.

`TickProofs`, for any depth of nesting and any number of sends (`TickAssumption`
asks for numbers): `ServiceExclusive` (`[]OneServing`), `SendsUndisturbed`
(`[]SendUndisturbed`), `ForegroundGoesOn` (`[]ForegroundFree`), `FramesTaken`
(`[]FramesHandedOver`), `TickTyped` (`[]TickTypeOK`). The properties speak of
the running handler or of none, so the inductive invariant `IInv` says where
each handler on the stack can be: at most one serves, and `in_tick` is up
exactly then (`Service`); at most one is inside a send, which owns the buffer
and the saved stack (`Sender`); the copy of a frame and the guards around a send
run with interrupts off (`Masked`); the reboot flag (`Asked`) and the staged
frame (`Staged`) are what the handlers' places say. One lemma per action.

`LibraryProofs` has the parts that work on their own.

* The keyboard, for a type-ahead ring and a pending buffer of any size from two
  up, any bytes of any number of clients, any escape sequences
  (`KeyAssumption`): `KeysQueued` (`[]RingFifo`), `RebootsAsked`
  (`[]RebootOnSentinel`). The inductive invariant `KeyInv` has the decoder
  within its buffer, and aged only as far as a pending sequence can be before
  the tick resolves it (`Decodes`); the ring holding the keys accepted and not
  yet read, at indices that wrap (`Ringed`); and the count of Ctrl-^ being that
  of the last bytes heard (`Trail`), from which it follows that the sentinels in
  what was heard grow by one exactly when a reboot is asked for.
* Packets, for any block size and payloads: `SealedFits`, that padding and tag
  fit the buffers of send_enc and of the chunk sender; `KeystreamSpentOnce`
  (`[]KeystreamOnce`), that no byte of keystream is used twice in any number of
  packets. The inductive invariant adds that what was spent was spent under
  smaller packet numbers (`SpentBefore`). The numbers of the model do not wrap:
  a connection has fewer than 2^32 packets.
* Field arithmetic: `CarryChainKeepsResidue`, for all radices and limbs, that
  the carry chain of the field products changes a number by multiples of the
  modulus only; `CarryChainBounded`, for the radices of the code, that limbs up
  to 2^62 leave it within 2^25 (even) and 2^24 + 2^18 (odd). The first writes a
  number as a Horner sum, of which one carry changes two neighbours
  (`CarryKeeps`) and the last one the number (`Carry9`); the second follows the
  twelve steps of the macro with a bound for each limb (`EvenBound`,
  `OddBound`). `FieldLimbs` is then used by `Crypto`, which compares whole
  products with a reference on small limbs.

The SMT encoding of tlapm 1.4.5 has an axiom, `DOMAIN s = 1..n <=> Len(s) = n`
for every value `s`, that is true of sequences only: from right to left it gives
a value that is no function a domain. No leaf relies on that direction: every
module's proofs were also checked with the axiom reduced to the other one, for
functions.

Only model-checked are:

* liveness (`DeadPeerReaped`, `Settles`, `TickReturns`, `CatchesUp`,
  `ResyncsBeforeMidnight`, `AllKeysArrive`), which is outside the prover;
* what recursive definitions compute: the curve, the scalars, the digests and
  encodings (`KeysExact`, `SignaturesExact`, `DigestsExact`)
  and the bytes of a packet and their decoding (`PacketsOpen`), which would take
  induction over data;
* `StreamTransparent` and `KeysAsTyped`, which compare a whole history with its
  decoding and need the same induction;
* `ShadowMirrored` and `NoBlindCharacter` of the renderer, `OutputFresh` of the
  generator and the properties of `Ssh` and its workers: no inductive invariant
  for them has been written down yet.

## Not modelled

* BLAKE2b, Argon2, Elligator, HMAC, HKDF and the AEAD of the vendored library:
  the program calls none of them.
* The values of the field constants and of the precomputed tables, the loading
  of a field element from bytes (`fe_frombytes`), the compression functions and
  ChaCha20 itself: straight-line arithmetic on data, at sizes TLC cannot
  enumerate; published test vectors are the better check.
* How hard the generator's samples are to foresee, the tick each reseed takes as
  a fresh sample, and the hook that replaces the generator in tests.
* Lengths on the wire of 2^16 - 4 bytes and more, of packets and of the strings
  and lists in them: they are taken to be less, so sums of lengths do not wrap.
* The wait of `try_packet` for the rest of a packet that is framed the wrong way:
  `Ssh` fails it at once, the code when as many bytes have come as its first
  ones seem to ask for; `Seal` has the wait.
* ARP, IP framing and checksums: stateless but for the IP identification.
* Install, uninstall and status: what they meet is decided by DOS and by other
  resident programs, of which the source says nothing.
* The command line, the code page tables and the registers of the UART; the
  switch of stacks in sshtramp.asm.
* The BIOS clock's midnight in TCP timers (it is in `Render`), and a telnet
  command of three bytes of which the send ring takes a part only.

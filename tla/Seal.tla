-------------------------------- MODULE Seal --------------------------------
(***************************************************************************)
(* dosshd/ssh.c, the packets of a connection on the wire, byte by byte:    *)
(* plain before NEWKEYS, chacha20-poly1305@openssh.com after it.  Our side *)
(* seals or opens, the client does the other; both directions are checked, *)
(* one at a time, with the same operators.                                 *)
(*                                                                         *)
(* A byte is the set of the terms whose XOR it is, so that what was        *)
(* encrypted with the right keystream comes out as it went in and with     *)
(* any other does not.  The length field and the tag are one byte each.    *)
(* Hash and tag are symbolic.  That a packet may be too long for the       *)
(* buffer is in Ssh.                                                       *)
(***************************************************************************)
EXTENDS Integers, Sequences, FiniteSets

CONSTANTS
  CHACHA,       \* bytes of a ChaCha20 block (64)
  Sizes,        \* payload sizes
  Pieces,       \* sizes of the pieces the bytes arrive in
  MaxPackets, KeyedFrom   \* packets sent, and the first one that is sealed

ASSUME SealAssumption == CHACHA \in Nat \ {0} /\ Sizes \subseteq Nat

VARIABLES
  letter,       \* the direction: "C" to us, "D" from us
  send_seq, recv_seq,
  way, ib,      \* bytes under way, bytes received and not consumed
  sent, got,    \* history: payloads
  used          \* history: keystream spent, and whether any was spent twice

sealvars == <<letter, send_seq, recv_seq, way, ib, sent, got, used>>

Xor(a, b) == (a \ b) \cup (b \ a)
Hash(x) == <<"hash", x>>
(* 64 bytes of key: two hashes                                             *)
derive_key(l) ==
  LET k1 == Hash(<<"K", "H", l, "session_id">>) IN <<k1, Hash(<<"K", "H", k1>>)>>
k_main == derive_key(letter)[1]
k_header == derive_key(letter)[2]

Keystream(key, nonce, ctr, i) == <<key, nonce, ctr + (i \div CHACHA), i % CHACHA>>
crypto_chacha20_djb(text, key, nonce, ctr) ==
  [i \in DOMAIN text |-> Xor(text[i], {Keystream(key, nonce, ctr, i - 1)})]
crypto_poly1305(text, polykey) == <<{<<"tag", text, polykey>>}>>

(* mutant: the padding makes up the block with the length field counted    *)
padlen_WithLength(plen) == LET p == 8 - ((4 + 1 + plen) % 8) IN IF p < 4 THEN p + 8 ELSE p
padlen(plen) == LET p == 8 - ((1 + plen) % 8) IN IF p < 4 THEN p + 8 ELSE p
padlen_unenc(plen) == LET p == 8 - ((4 + 1 + plen) % 8) IN IF p < 4 THEN p + 8 ELSE p

Payload(n, plen) == [i \in 1..plen |-> {<<"byte", n, i>>}]
Framed(n, plen, pad) ==
  <<{<<"num", pad>>}>> \o Payload(n, plen) \o [i \in 1..pad |-> {<<"pad", n, i>>}]
Number1(x) == {<<"num", x>>}
(* what a length byte says, or garbage                                     *)
rd_num(b) == IF \E x \in b : b = {x} /\ x[1] = "num" THEN (CHOOSE x \in b : TRUE)[2] ELSE -1

---------------------------------------------------------------------------
send_unenc(n, plen) ==
  <<Number1(1 + plen + padlen_unenc(plen))>> \o Framed(n, plen, padlen_unenc(plen))

(* the bytes of a sealed packet, and the keystream it takes                *)
polykey(seq) == Keystream(k_main, seq, 0, 0)
Tagged(cipher, seq) == cipher \o crypto_poly1305(cipher, polykey(seq))
(* mutant: the body is encrypted from block 0, the authenticator's key     *)
aead_seal_BlockZero(n, plen, seq) ==
  LET body == Framed(n, plen, padlen(plen))
  IN  [bytes |-> Tagged(crypto_chacha20_djb(<<Number1(Len(body))>>, k_header, seq, 0)
                        \o crypto_chacha20_djb(body, k_main, seq, 0), seq),
       uses |-> {Keystream(k_header, seq, 0, 0)}
                \cup {Keystream(k_main, seq, 0, i - 1) : i \in DOMAIN body},
       key |-> {polykey(seq)}]
aead_seal(n, plen, seq) ==
  LET body == Framed(n, plen, padlen(plen))
  IN  [bytes |-> Tagged(crypto_chacha20_djb(<<Number1(Len(body))>>, k_header, seq, 0)
                        \o crypto_chacha20_djb(body, k_main, seq, 1), seq),
       uses |-> {Keystream(k_header, seq, 0, 0)}
                \cup {Keystream(k_main, seq, 1, i - 1) : i \in DOMAIN body},
       key |-> {polykey(seq)}]

Keyed(n) == n >= KeyedFrom
(* send_packet                                                             *)
Send(plen) ==
  /\ Len(sent) < MaxPackets
  /\ LET n == Len(sent) + 1
         p == aead_seal(n, plen, send_seq)
     IN  /\ way' = way \o IF Keyed(n) THEN p.bytes ELSE send_unenc(n, plen)
         /\ used' = IF ~Keyed(n) THEN used
                    ELSE [all |-> used.all \cup p.uses \cup p.key,
                          twice |-> \/ used.twice \/ p.uses \cap p.key # {}
                                    \/ used.all \cap (p.uses \cup p.key) # {}]
         /\ sent' = Append(sent, Payload(n, plen))
  /\ send_seq' = send_seq + 1
  /\ UNCHANGED <<letter, recv_seq, ib, got>>

---------------------------------------------------------------------------
(* try_packet on the bytes b: a payload, "more" or an error                *)
Waits == [verdict |-> "more", need |-> 0, payload |-> <<>>]
Fails == [Waits EXCEPT !.verdict = "error"]
Took(need, body) ==
  IF rd_num(body[1]) + 1 > Len(body) THEN Fails
  ELSE [verdict |-> "packet", need |-> need,
        payload |-> SubSeq(body, 2, Len(body) - rd_num(body[1]))]
Plain(b, pkt_len) ==
  IF pkt_len < 1 THEN Fails
  ELSE IF Len(b) < 1 + pkt_len THEN Waits ELSE Took(1 + pkt_len, SubSeq(b, 2, 1 + pkt_len))
Opened(b, pkt_len) ==
  IF pkt_len < 8 \/ pkt_len % 8 # 0 THEN Fails
  ELSE IF Len(b) < 1 + pkt_len + 1 THEN Waits
  ELSE IF crypto_poly1305(SubSeq(b, 1, 1 + pkt_len), polykey(recv_seq))
            # SubSeq(b, 2 + pkt_len, 2 + pkt_len) THEN Fails
  ELSE Took(1 + pkt_len + 1,
            crypto_chacha20_djb(SubSeq(b, 2, 1 + pkt_len), k_main, recv_seq, 1))
try_packet(b) ==
  IF b = <<>> THEN Waits
  ELSE IF ~Keyed(Len(got) + 1) THEN Plain(b, rd_num(b[1]))
  ELSE Opened(b, rd_num(crypto_chacha20_djb(<<b[1]>>, k_header, recv_seq, 0)[1]))

(* ssh_input: bytes arrive                                                 *)
Bytes(k) == /\ k <= Len(way) /\ ib' = ib \o SubSeq(way, 1, k)
            /\ way' = SubSeq(way, k + 1, Len(way))
            /\ UNCHANGED <<letter, send_seq, recv_seq, sent, got, used>>
(* ... and are consumed packet by packet before more of them come          *)
Packet ==
  LET r == try_packet(ib)
  IN  /\ r.verdict # "more"
      /\ got' = Append(got, IF r.verdict = "packet" THEN r.payload ELSE <<"error">>)
      /\ ib' = IF r.verdict = "packet" THEN SubSeq(ib, r.need + 1, Len(ib)) ELSE <<>>
      /\ recv_seq' = recv_seq + 1
      /\ UNCHANGED <<letter, send_seq, way, sent, used>>

SealInit ==
  /\ letter \in {"C", "D"} /\ send_seq = 0 /\ recv_seq = 0 /\ way = <<>> /\ ib = <<>>
  /\ sent = <<>> /\ got = <<>> /\ used = [all |-> {}, twice |-> FALSE]
SealNext ==
  IF try_packet(ib).verdict # "more" THEN Packet
  ELSE (\E plen \in Sizes : Send(plen)) \/ (\E k \in Pieces : Bytes(k))

SealSpec == SealInit /\ [][SealNext]_sealvars

---------------------------------------------------------------------------
(* Whatever pieces the bytes arrive in, every packet opens at the other    *)
(* end to the payload that was sent, in order, plain and sealed ones:      *)
(* both ends count the same sequence numbers from the first plain packet   *)
(* on, the body length is a multiple of 8, a length decrypted before the   *)
(* packet is complete is decrypted again later.                            *)
PacketsOpen ==
  /\ Len(got) <= Len(sent) /\ got = SubSeq(sent, 1, Len(got))
  /\ way = <<>> /\ try_packet(ib).verdict = "more" => got = sent

(* No byte of keystream is used twice in a direction: the length, the key  *)
(* of the authenticator and the body of each packet take their own.        *)
KeystreamOnce == ~used.twice
=============================================================================

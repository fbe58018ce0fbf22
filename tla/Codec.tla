------------------------------- MODULE Codec -------------------------------
(***************************************************************************)
(* dosshd/ssh.c, what is read from key files and key blobs, and the        *)
(* encoding of the shared secret.  A character of base64 is its value,     *)
(* 0..63; of the other characters "=", the blanks, "#", the end of line    *)
(* ("EOL") and any other ("?") are told apart.  The name "ssh-ed25519" is  *)
(* one character NAME of a line and one byte of a blob, the length before  *)
(* a string of a blob one byte.                                            *)
(***************************************************************************)
EXTENDS Integers, Sequences, SequencesExt

CONSTANTS
  KEYLEN,       \* bytes of a public key (32)
  BLOBMAX,      \* sizeof blob (80)
  NAMEBYTE      \* the bytes "ssh-ed25519" in a blob

b64val(ch) == IF ch[1] = "b64" THEN ch[2] ELSE -1
Sign(c) == <<c, 0>>
B64(v) == <<"b64", v>>
None == <<>>

RECURSIVE Unpadded(_)
Unpadded(in) == IF in # <<>> /\ Last(in) = Sign("=") THEN Unpadded(Front(in)) ELSE in

(* three bytes of up to four digits c; a digit that is not there is -1     *)
Bytes3(c) == <<4 * c[1] + (c[2] \div 16), ((16 * c[2]) % 256) + (c[3] \div 4),
               ((64 * c[3]) % 256) + c[4]>>
b64_group(c, rem, out) ==
  LET n == IF rem >= 4 THEN 3 ELSE rem - 1
  IN  IF c[1] < 0 \/ rem = 1 \/ (\E i \in 2..(n + 1) : c[i] < 0) \/ Len(out) + n > BLOBMAX
      THEN None ELSE out \o SubSeq(Bytes3(c), 1, n)
RECURSIVE Groups(_, _)
Groups(in, out) ==
  IF in = <<>> THEN out
  ELSE LET o == b64_group([i \in 1..4 |-> IF i <= Len(in) THEN b64val(in[i]) ELSE -1],
                          Len(in), out)
       IN  IF o = None THEN None ELSE Groups(SubSeq(in, 5, Len(in)), o)
(* the bytes, none when there are none or when they are malformed          *)
b64_decode(in) == Groups(Unpadded(in), <<>>)

(* a string at offset o of a blob: what it holds and the offset behind it  *)
rd_string(b, o) ==
  IF o > Len(b) \/ Len(b) - o < 1 THEN None
  ELSE IF b[o + 1] > Len(b) - o - 1 THEN None
  ELSE <<SubSeq(b, o + 2, o + 1 + b[o + 1]), o + 1 + b[o + 1]>>

ed25519_key_from_blob(b) ==
  LET name == rd_string(b, 0)
      key == IF name = None THEN None ELSE rd_string(b, name[2])
  IN  IF name = None \/ key = None THEN None
      ELSE IF name[1] # <<NAMEBYTE>> \/ Len(key[1]) # KEYLEN THEN None ELSE key[1]

Blanks == {Sign(" "), Sign("TAB")}
RECURSIVE Skipped(_)
Skipped(p) == IF p # <<>> /\ Head(p) \in Blanks THEN Skipped(Tail(p)) ELSE p
RECURSIVE Digits64(_)
Digits64(p) == IF p # <<>> /\ (b64val(Head(p)) >= 0 \/ Head(p) = Sign("="))
               THEN <<Head(p)>> \o Digits64(Tail(p)) ELSE <<>>
ssh_parse_authkey_line(line) ==
  LET p == Skipped(line)
  IN  IF p = <<>> \/ Head(p) # Sign("NAME") THEN None
      ELSE IF Tail(p) = <<>> \/ Head(Tail(p)) \notin Blanks THEN None
      ELSE ed25519_key_from_blob(b64_decode(Digits64(Skipped(Tail(p)))))

---------------------------------------------------------------------------
(* build_kmpint: the raw secret as an mpint, its length in front           *)
RECURSIVE Stripped(_)
Stripped(v) == IF v # <<>> /\ Head(v) = 0 THEN Stripped(Tail(v)) ELSE v
build_kmpint(v) ==
  LET s == Stripped(v)
  IN  IF s = <<>> THEN <<0>>
      ELSE IF Head(s) >= 128 THEN <<Len(s) + 1, 0>> \o s ELSE <<Len(s)>> \o s

---------------------------------------------------------------------------
(* the references: base64 of RFC 4648, the number an mpint of RFC 4251     *)
(* stands for                                                              *)
RECURSIVE b64_encode(_)
b64_encode(b) ==
  IF b = <<>> THEN <<>>
  ELSE LET n == IF Len(b) < 3 THEN Len(b) ELSE 3
           x == [i \in 1..3 |-> IF i <= n THEN b[i] ELSE 0]
           v == <<x[1] \div 4, 16 * (x[1] % 4) + (x[2] \div 16),
                  4 * (x[2] % 16) + (x[3] \div 64), x[3] % 64>>
       IN  [i \in 1..4 |-> IF i <= n + 1 THEN B64(v[i]) ELSE Sign("=")]
           \o b64_encode(SubSeq(b, n + 1, Len(b)))
Blob(key) == <<1, NAMEBYTE, KEYLEN>> \o key
BigEndian(v) == FoldLeft(LAMBDA n, x : 256 * n + x, 0, v)
Mpint(m) == IF Tail(m) # <<>> /\ m[2] >= 128 THEN BigEndian(Tail(m)) - 256^(Len(m) - 1)
            ELSE BigEndian(Tail(m))
=============================================================================

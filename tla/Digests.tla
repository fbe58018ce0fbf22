------------------------------ MODULE Digests ------------------------------
(***************************************************************************)
(* The streaming digests: crypto/sha256.c, SHA-512 of                      *)
(* crypto/monocypher-ed25519.c and Poly1305 of crypto/monocypher.c.  A     *)
(* message is fed in pieces of any size, across blocks and words.          *)
(*                                                                         *)
(* The compression functions are symbolic: a hash is the sequence of the   *)
(* blocks compressed so far.  A byte of a hashed message is its number, so *)
(* that no two are alike.  Poly1305 computes, on NL1305 limbs of 8 bits.   *)
(***************************************************************************)
EXTENDS Integers, Sequences, SequencesExt, FiniteSetsExt

CONSTANTS
  WORD, BLOCK, LENGTH,   \* bytes of a word, a block, the length field
  LOW,          \* modulus of the low word of the bit count (2^32, 2^64)
  NL1305,       \* limbs of a Poly1305 block, a byte each (4, of 4 bytes)
  HashLengths,  \* lengths of the messages hashed
  Macs          \* [msg, r, pad] of the messages authenticated

VARIABLES digest  \* [kind, msg, fed, ctx, out, r, pad]

JUNK == -1     \* a byte that is none of the message's

LowerOf(a, b) == IF a < b THEN a ELSE b

(* a double-word count of bits                                             *)
Incr(n, y) == IF (n[2] + y) % LOW < y THEN <<n[1] + 1, (n[2] + y) % LOW>>
              ELSE <<n[1], (n[2] + y) % LOW>>

---------------------------------------------------------------------------
(* SHA-256                                                                 *)
sha256_init == [data |-> [i \in 0..(BLOCK - 1) |-> JUNK], datalen |-> 0,
                bitlen |-> <<0, 0>>, state |-> <<>>]
sha256_transform(c) == [c EXCEPT !.state = Append(@, c.data)]
sha256_addlen(c, bytes) == [c EXCEPT !.bitlen = Incr(@, 8 * bytes)]
Put(c, b) == [c EXCEPT !.data[c.datalen] = b, !.datalen = @ + 1]
Full(c) == [sha256_addlen(sha256_transform(c), BLOCK) EXCEPT !.datalen = 0]
Step256(c, b) == IF c.datalen + 1 = BLOCK THEN Full(Put(c, b)) ELSE Put(c, b)
sha256_update(c, data) == FoldLeft(Step256, c, data)

Padded(c, upto) ==
  [c EXCEPT !.data = [i \in 0..(BLOCK - 1) |-> IF i = c.datalen THEN 128
                        ELSE IF i > c.datalen /\ i < upto THEN 0 ELSE @[i]]]
Zeroed(c) == [c EXCEPT !.data = [i \in 0..(BLOCK - 1) |->
                                   IF i < BLOCK - LENGTH THEN 0 ELSE @[i]]]
LastBlock(data, n) == [i \in 0..(BLOCK - LENGTH - 1) |-> data[i]] @@ (BLOCK - LENGTH :> n)
sha256_final(c) ==
  LET p == IF c.datalen < BLOCK - LENGTH THEN Padded(c, BLOCK - LENGTH)
           ELSE Zeroed(sha256_transform(Padded(c, BLOCK)))
  IN  Append(p.state, LastBlock(p.data, sha256_addlen(c, c.datalen).bitlen))

---------------------------------------------------------------------------
(* SHA-512                                                                 *)
align(x, y) == (-x) % y
Zeros == [i \in 0..(BLOCK - 1) |-> 0]
crypto_sha512_init == [input |-> Zeros, input_idx |-> 0, input_size |-> <<0, 0>>, hash |-> <<>>]
(* the message schedule is made in place                                   *)
sha512_compress(c) ==
  [c EXCEPT !.hash = Append(@, c.input), !.input = [i \in 0..(BLOCK - 1) |-> JUNK]]
sha512_set_input(c, b) ==
  [c EXCEPT !.input[c.input_idx] = IF @ = 0 THEN b ELSE JUNK]
SetByte(c, b) == [sha512_set_input(c, b) EXCEPT !.input_idx = @ + 1]
(* n words of m to the word at byte i, which may be past the block         *)
Load(c, i, m, n) ==
  [c EXCEPT !.input = [j \in 0..(BLOCK - 1) |->
                         IF j >= i /\ j < i + n * WORD THEN m[j - i + 1] ELSE @[j]],
            !.input_idx = @ + n * WORD]
Block(c) == [sha512_compress([c EXCEPT !.input_size = Incr(@, 8 * BLOCK)])
               EXCEPT !.input_idx = 0, !.input = Zeros]

(* the three stages of an update, each on what the one before left over    *)
Rest(m, n) == SubSeq(m, n + 1, Len(m))
ToWord(c, m) ==
  LET n == IF c.input_idx % WORD # 0 THEN LowerOf(align(c.input_idx, WORD), Len(m)) ELSE 0
  IN  <<FoldLeft(SetByte, c, SubSeq(m, 1, n)), Rest(m, n)>>
ToBlock(c, m) ==
  LET n == IF c.input_idx % BLOCK # 0
           THEN LowerOf(align(c.input_idx, BLOCK), Len(m)) \div WORD ELSE 0
  IN  <<Load(c, c.input_idx, m, n), Rest(m, n * WORD)>>
RECURSIVE Whole(_, _)
Whole(c, m) == IF Len(m) >= BLOCK
               THEN Whole(Block(Load(c, 0, m, BLOCK \div WORD)), Rest(m, BLOCK))
               ELSE <<c, m>>
Leftover(c, m) == FoldLeft(SetByte, Load(c, 0, m, Len(m) \div WORD),
                           Rest(m, (Len(m) \div WORD) * WORD))
Stage2(cm) == ToBlock(cm[1], cm[2])
Stage3(cm) == Whole(IF cm[1].input_idx = BLOCK THEN Block(cm[1]) ELSE cm[1], cm[2])
(* mutant: the bytes up to a word are not waited for                       *)
crypto_sha512_update_Unaligned(c, m) ==
  IF m = <<>> THEN c ELSE LET cm == Stage3(ToBlock(c, m)) IN Leftover(cm[1], cm[2])
crypto_sha512_update(c, m) ==
  IF m = <<>> THEN c ELSE LET cm == Stage3(Stage2(ToWord(c, m))) IN Leftover(cm[1], cm[2])

crypto_sha512_final(c) ==
  LET a == sha512_set_input(IF c.input_idx = 0 THEN [c EXCEPT !.input = Zeros] ELSE c, 128)
      p == IF c.input_idx > BLOCK - LENGTH - 1
           THEN [sha512_compress(a) EXCEPT !.input =
                   [i \in 0..(BLOCK - 1) |-> IF i < BLOCK - LENGTH THEN 0 ELSE @[i]]]
           ELSE a
  IN  Append(p.hash, LastBlock(p.input, Incr(c.input_size, 8 * c.input_idx)))

---------------------------------------------------------------------------
(* Poly1305: h = (h + c) * r modulo 2^(8 NL1305 + 2) - 5                   *)
crypto_poly1305_init == [h |-> [i \in 0..NL1305 |-> 0], c |-> <<>>]
(* the clamped key: the top bits of each limb, the low two of all but one  *)
Clamped(r) == [i \in 0..(NL1305 - 1) |-> IF i = 0 THEN r[1] % 16 ELSE 4 * ((r[i + 1] % 16) \div 4)]

Folded(r, i) == IF i = 0 THEN (r[0] \div 4) * 5 ELSE (r[i] \div 4) + r[i]
Products(s, r) ==
  [k \in 0..NL1305 |->
     IF k = NL1305 THEN s[k] * (r[0] % 4)
     ELSE MapThenSumSet(LAMBDA i : s[i] * (IF i <= k THEN r[k - i] ELSE Folded(r, k + NL1305 - i)),
                        0..NL1305)]
Reduced1305(x) ==
  LET top == x[NL1305] + (x[NL1305 - 1] \div 256)
      u[k \in 0..(NL1305 - 1)] ==
        (x[k] % 256) + (IF k = 0 THEN (top \div 4) * 5 ELSE (u[k - 1] \div 256) + (x[k - 1] \div 256))
  IN  [k \in 0..NL1305 |-> IF k = NL1305 THEN (u[k - 1] \div 256) + (top % 4) ELSE u[k] % 256]
(* the 1 behind a whole block is its end, a last block brings its own      *)
poly_blocks(c, r, block, end) ==
  [c EXCEPT !.h = Reduced1305(Products(
     [i \in 0..NL1305 |-> @[i] + (IF i = NL1305 THEN end ELSE block[i + 1])], r)), !.c = <<>>]

RECURSIVE PolyWhole(_, _, _)
PolyWhole(c, r, m) ==
  IF Len(m) >= NL1305 THEN PolyWhole(poly_blocks(c, r, m, 1), r, Rest(m, NL1305))
  ELSE [c EXCEPT !.c = @ \o m]
Aligned(c, r) == IF Len(c.c) = NL1305 THEN poly_blocks(c, r, c.c, 1) ELSE c
gap(x, y) == (-x) % y
crypto_poly1305_update(c, r, m) ==
  IF m = <<>> THEN c
  ELSE LET n == LowerOf(gap(Len(c.c), NL1305), Len(m))
       IN  PolyWhole(Aligned([c EXCEPT !.c = @ \o SubSeq(m, 1, n)], r), r, Rest(m, n))

Tail1305(c) == [i \in 1..NL1305 |-> IF i <= Len(c) THEN c[i] ELSE IF i = Len(c) + 1 THEN 1 ELSE 0]
Closed(c, r) == IF c.c = <<>> THEN c ELSE poly_blocks(c, r, Tail1305(c.c), 0)
(* how often the modulus is to be subtracted, times 5                      *)
Excess(h) ==
  LET c[i \in 0..NL1305] == IF i = 0 THEN 5 ELSE (c[i - 1] + h[i - 1]) \div 256
  IN  ((c[NL1305] + h[NL1305]) \div 4) * 5
Mac(h, pad, first) ==
  LET c[i \in 0..(NL1305 - 1)] ==
        h[i] + pad[i + 1] + (IF i = 0 THEN first ELSE c[i - 1] \div 256)
  IN  [i \in 1..NL1305 |-> c[i - 1] % 256]
crypto_poly1305_final(c, r, pad) ==
  LET h == Closed(c, r).h IN Mac(h, pad, Excess(h))

---------------------------------------------------------------------------
NoDigest == [kind |-> "none"]
DigestInit == digest = NoDigest

Start ==
  /\ digest = NoDigest
  /\ \/ \E n \in HashLengths, k \in {"sha256", "sha512"} :
          digest' = [kind |-> k, msg |-> [i \in 1..n |-> i], fed |-> 0, out |-> <<>>,
                     ctx |-> IF k = "sha256" THEN sha256_init ELSE crypto_sha512_init]
     \/ \E m \in Macs :
          digest' = [kind |-> "poly1305", msg |-> m.msg, fed |-> 0, out |-> <<>>,
                     ctx |-> crypto_poly1305_init, r |-> Clamped(m.r), pad |-> m.pad]

Fed(n) == SubSeq(digest.msg, digest.fed + 1, digest.fed + n)
Update ==
  /\ digest.kind # "none" /\ digest.out = <<>>
  /\ \E n \in 0..(Len(digest.msg) - digest.fed) :
       digest' = [digest EXCEPT !.fed = @ + n, !.ctx =
                    CASE digest.kind = "sha256" -> sha256_update(@, Fed(n))
                      [] digest.kind = "sha512" -> crypto_sha512_update(@, Fed(n))
                      [] OTHER -> crypto_poly1305_update(@, digest.r, Fed(n))]

Final ==
  /\ digest.kind # "none" /\ digest.out = <<>> /\ digest.fed = Len(digest.msg)
  /\ digest' = [digest EXCEPT !.out =
                  CASE digest.kind = "sha256" -> sha256_final(digest.ctx)
                    [] digest.kind = "sha512" -> crypto_sha512_final(digest.ctx)
                    [] OTHER -> crypto_poly1305_final(digest.ctx, digest.r, digest.pad)]

Wiped == digest.kind # "none" /\ digest.out # <<>> /\ digest' = NoDigest
DigestNext == Start \/ Update \/ Final \/ Wiped

---------------------------------------------------------------------------
(* FIPS 180-4: the message, a 1 bit, zeros, the length in bits             *)
PaddedMessage(n) ==
  LET k == (BLOCK - 1 - LENGTH - n) % BLOCK
      whole == (n + 1 + k + LENGTH) \div BLOCK
      Byte(i) == IF i < n THEN i + 1 ELSE IF i = n THEN 128 ELSE 0
  IN  [b \in 1..whole |->
         IF b < whole THEN [i \in 0..(BLOCK - 1) |-> Byte((b - 1) * BLOCK + i)]
         ELSE LastBlock([i \in 0..(BLOCK - 1) |-> Byte((b - 1) * BLOCK + i)],
                        <<(8 * n) \div LOW, (8 * n) % LOW>>)]

(* A message hashed in pieces of any size gives the digest of the message, *)
(* padded as FIPS 180-4 says: no byte is lost, doubled or merged with      *)
(* another where a piece ends inside a word or a block, the padding takes  *)
(* a block of its own when it has to, the bit count carries.               *)
HashesWhole ==
  digest.kind \in {"sha256", "sha512"} /\ digest.out # <<>> =>
    digest.out = PaddedMessage(Len(digest.msg))

Little(b) == MapThenSumSet(LAMBDA i : b[i] * 256^(i - 1), DOMAIN b)
RECURSIVE Horner(_, _, _)
Horner(m, r, acc) ==
  IF m = <<>> THEN acc
  ELSE LET b == SubSeq(m, 1, LowerOf(NL1305, Len(m)))
       IN  Horner(Rest(m, Len(b)), r, ((acc + Little(b \o <<1>>)) * r) % (2^(8 * NL1305 + 2) - 5))

(* The authenticator of a message is RFC 8439's polynomial, fully reduced, *)
(* for every way the message is cut into updates: the limb products, the   *)
(* lazy carries and the last conditional subtraction lose nothing.         *)
MacsExact ==
  digest.kind = "poly1305" /\ digest.out # <<>> =>
    Little(digest.out) =
      (Horner(digest.msg, Little([i \in 1..NL1305 |-> digest.r[i - 1]]), 0) + Little(digest.pad))
        % 2^(8 * NL1305)

(* What is fed in pieces of any size is digested as the whole would be, by *)
(* the hashes and by the authenticator.                                    *)
DigestsExact == HashesWhole /\ MacsExact
=============================================================================

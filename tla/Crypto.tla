------------------------------- MODULE Crypto -------------------------------
(***************************************************************************)
(* What the pure functions of the cryptography and of the encodings        *)
(* compute, call by call: `call` is the call being made, its name first    *)
(* and its arguments after it, out of the sets given as constants.         *)
(***************************************************************************)
EXTENDS Ed25519, Codec

CONSTANTS
  EVEN, ODD, FOLD,      \* FieldLimbs
  Points, Zs,           \* affine points, and Z coordinates to give them
  Ys,                   \* y coordinates to decode
  Secrets,              \* X25519 secrets
  Expanded,             \* numbers of 2 NL limbs to reduce
  Scalars, Signers,     \* scalars; [a, r, h] of signatures
  Limbed, Tight,        \* field elements: factors, and carried ones
  Raws, Blobs, Keys     \* shared secrets, bytes to encode, public keys

VARIABLE call

F == INSTANCE FieldLimbs

Idle == <<"none">>
CallInit == call = Idle
CallNext ==
  \/ /\ call = Idle
     /\ \/ \E p, q \in Points, y, z \in Zs : call' = <<"point", p, q, y, z>>
        \/ \E y \in Ys, odd \in {0, 1} : call' = <<"decode", y, odd>>
        \/ \E a, b \in Secrets, p \in Points : call' = <<"x25519", a, b, p>>
        \/ \E x \in Expanded : call' = <<"reduce", x>>
        \/ \E s \in Scalars : call' = <<"scalar", s>>
        \/ \E k \in Signers : call' = <<"sign", k>>
        \/ \E f, g \in Limbed : call' = <<"fe_mul", f, g>>
        \/ \E h \in Tight : call' = <<"fe_tobytes", h>>
        \/ \E v \in Raws : call' = <<"mpint", v>>
        \/ \E b \in Blobs : call' = <<"b64", b>>
        \/ \E k \in Keys, cut \in 0..4, blank \in 0..1, end \in {<<>>, <<Sign(" "), Sign("?")>>} :
             call' = <<"line", k, cut, blank, end>>
  \/ call # Idle /\ call' = Idle

---------------------------------------------------------------------------
(* The field on limbs.                                                     *)
RECURSIVE Residue(_, _, _)
Modulus == (EVEN * ODD)^5 - FOLD
Residue(t, i, acc) == IF i < 0 THEN acc
                      ELSE Residue(t, i - 1, (acc * F!Radix(i) + t[i]) % Modulus)
ResidueOf(t) == Residue(t, 9, 0)
RECURSIVE TimesMod(_, _, _)
TimesMod(a, b, k) == IF k = 0 THEN 0
                     ELSE (32 * TimesMod(a, b \div 32, k - 1) + a * (b % 32)) % Modulus

(* The product of two field elements on limbs, the carries run through it, *)
(* is their product modulo 2^255 - 19, also when every limb is as large as *)
(* fe_mul allows; so are a square, which has formulas of its own, and a    *)
(* multiple by a small number.                                             *)
LimbsMultiply ==
  call[1] = "fe_mul" =>
    /\ ResidueOf(F!fe_mul(call[2], call[3]))
         = TimesMod(ResidueOf(call[2]), ResidueOf(call[3]), 5)
    /\ ResidueOf(F!fe_sq(call[2])) = TimesMod(ResidueOf(call[2]), ResidueOf(call[2]), 5)
    /\ ResidueOf(F!fe_mul_small(call[2], call[3][0])) =
         TimesMod(ResidueOf(call[2]), call[3][0] % Modulus, 5)

(* fe_tobytes writes the one representative below the modulus, whatever    *)
(* the signs of the limbs: two encodings of a point never differ.          *)
BytesCanonical ==
  call[1] = "fe_tobytes" =>
    \A t \in {F!fe_tobytes(call[2])} :
      /\ \A i \in 0..9 : t[i] \in 0..(F!Radix(i) - 1)
      /\ ResidueOf(t) = ResidueOf(call[2])
      /\ ~(t[0] >= EVEN - FOLD /\ \A i \in 1..9 : t[i] = F!Radix(i) - 1)

---------------------------------------------------------------------------
(* Curve points.                                                           *)

(* Sums, differences and doubles of points in extended coordinates, over   *)
(* any Z, and with precomputed points, are those of the curve's addition   *)
(* law: equal points, opposite points and the neutral one need no case of  *)
(* their own.  T stays XY/Z.                                               *)
PointsAdd ==
  call[1] = "point" =>
    \A p \in {Extended(call[2], call[4])}, q \in {Extended(call[3], call[5])} :
      LET Is(h, a) == Valid(h) /\ Affine(h) = a
      IN  /\ Is(ge_add(p, ge_cache(q)), Law(call[2], call[3]))
          /\ Is(ge_sub(p, ge_cache(q)), Law(call[2], Minus(call[3])))
          /\ Is(ge_madd(p, Precomp(call[3])), Law(call[2], call[3]))
          /\ Is(ge_msub(p, Precomp(call[3])), Law(call[2], Minus(call[3])))
          /\ Is(ge_double(p), Law(call[2], call[2]))

(* ge_frombytes_neg_vartime takes exactly the y coordinates of points,     *)
(* those not reduced included, and gives the negative of the point that is *)
(* encoded (but x = 0 has only one sign).                                  *)
DecodingExact ==
  call[1] = "decode" =>
    \A g \in {ge_frombytes_neg_vartime([y |-> call[2], odd |-> call[3]])} :
      LET yy == fe_sq(call[2] % FP)
          xx == fe_mul(fe_sub(yy, 1), Inv(fe_add(fe_mul(d, yy), 1)))
      IN  /\ g.ok <=> Pow(xx, (FP - 1) \div 2) \in {0, 1}
          /\ g.ok => /\ Valid(g.ge) /\ g.ge.Y = call[2] % FP /\ fe_sq(g.ge.X) = xx
                     /\ g.ge.X # 0 => fe_isodd(g.ge.X) # call[3]
                     /\ ge_tobytes(g.ge) = Encode(g.ge.X, call[2] % FP)

(* The Montgomery ladder multiplies, and two sides that exchange public    *)
(* points come to the same secret.                                         *)
SecretsAgree ==
  call[1] = "x25519" =>
    \A u \in {U(call[4])} : \A v \in {crypto_x25519(call[2], u)} :
      /\ v = U(Times(crypto_eddsa_trim_scalar(call[2]), call[4]))
      /\ crypto_x25519(call[3], v) = crypto_x25519(call[2], crypto_x25519(call[3], u))

(* From limbs to shared secrets the arithmetic is that of the field and of *)
(* the curve's group.                                                      *)
CurveExact == LimbsMultiply /\ BytesCanonical /\ PointsAdd /\ DecodingExact /\ SecretsAgree

---------------------------------------------------------------------------
(* Scalars and signatures.                                                 *)

RECURSIVE HornerL(_, _)
HornerL(x, i) == IF i = 2 * NL THEN 0 ELSE (x[i] + Limb * HornerL(x, i + 1)) % ORDER
(* Barrett's quotient is at most one too small, and one conditional        *)
(* subtraction leaves the number below L.                                  *)
ReductionExact ==
  call[1] = "reduce" => crypto_eddsa_reduce(call[2]) = HornerL(call[2], 0)

(* the digits of a scalar, from position i down                            *)
RECURSIVE Recoded(_, _, _, _)
Recoded(ctx, w, i, s) ==
  IF i < 0 THEN <<>>
  ELSE LET st == slide_step(ctx, w, i, s) IN <<st.digit>> \o Recoded(st.ctx, w, i - 1, s)
(* Sliding windows recode every scalar below L, bit 252 included           *)
(* (monocypher.c:1926-1931), into digits that add up to it and are in the  *)
(* table of odd multiples.                                                 *)
SlideRecodes ==
  call[1] = "scalar" =>
    \A w \in {P_W_WIDTH, B_W_WIDTH} : \A ctx \in {slide_init(call[2])} :
      \A ds \in {Recoded(ctx, w, ctx.next_check, call[2])} :
        /\ FoldLeft(LAMBDA n, x : 2 * n + x, 0, ds) = call[2]
        /\ \A i \in DOMAIN ds : ds[i] # 0 => ds[i] % 2 = 1 /\ ds[i] \in (-2^(w - 1))..2^(w - 1)

(* The signed combs multiply the base point by every scalar.               *)
CombMultiplies ==
  call[1] = "scalar" =>
    \A p \in {Times(call[2], B)} : crypto_eddsa_scalarbase(call[2]) = Encode(p[1], p[2])

(* A signature made with a key is accepted under that key, for that hash   *)
(* and for no other, and not with S changed, not even by L.                *)
SignaturesVerify ==
  call[1] = "sign" =>
    \A k \in {call[2]} :
      \A pk \in {crypto_ed25519_key_pair(k.a)},
         sig \in {crypto_ed25519_sign(k.a, Limbs(k.r, 2 * NL), Limbs(k.h, 2 * NL))} :
        /\ crypto_ed25519_check(sig, pk, Limbs(k.h, 2 * NL))
        /\ ~crypto_ed25519_check(sig, pk, Limbs(k.h + 1, 2 * NL))
        /\ ~crypto_ed25519_check([sig EXCEPT !.S = (@ + 1) % ORDER], pk, Limbs(k.h, 2 * NL))
        /\ ~crypto_ed25519_check([sig EXCEPT !.S = @ + ORDER], pk, Limbs(k.h, 2 * NL))

(* From the reduction of a hash to the check of a signature the arithmetic *)
(* on scalars is that modulo L.                                            *)
SignaturesExact == ReductionExact /\ SlideRecodes /\ CombMultiplies /\ SignaturesVerify

---------------------------------------------------------------------------
(* Encodings.                                                              *)

(* The shared secret is encoded as the shortest mpint that is not          *)
(* negative, its own length in front.                                      *)
MpintExact ==
  call[1] = "mpint" =>
    \A m \in {build_kmpint(call[2])} :
      /\ Mpint(m) = BigEndian(call[2]) /\ m[1] = Len(m) - 1
      /\ Len(m) > 1 /\ m[2] = 0 => Len(m) > 2 /\ m[3] >= 128

(* What was written in base64 is read back, if it fits, padded or not.     *)
Base64RoundTrips ==
  call[1] = "b64" =>
    \A e \in {b64_encode(call[2])} :
      /\ b64_decode(e) = IF Len(call[2]) > BLOBMAX THEN None ELSE call[2]
      /\ b64_decode(Unpadded(e)) = b64_decode(e)

(* A line of the key file gives its key when the blob is complete, with or *)
(* without leading blanks and a comment, and no key when it was cut off.   *)
KeyLinesRead ==
  call[1] = "line" =>
    \A e \in {b64_encode(Blob(call[2]))} :
      LET whole == Len(Unpadded(e))
          left == Len(e) - call[3]
          line == [i \in 1..call[4] |-> Sign("TAB")] \o <<Sign("NAME"), Sign(" ")>>
                  \o SubSeq(e, 1, left) \o call[5]
      IN  ssh_parse_authkey_line(line) = IF left >= whole THEN call[2] ELSE None

(* Shared secrets, key blobs and lines of the key file are written and     *)
(* read as their formats say.                                              *)
EncodingsExact == MpintExact /\ Base64RoundTrips /\ KeyLinesRead

(* Keys and shared secrets are computed by the arithmetic of the field and *)
(* the curve (monocypher.c) and are written and read back exactly (ssh.c). *)
KeysExact == CurveExact /\ EncodingsExact
=============================================================================

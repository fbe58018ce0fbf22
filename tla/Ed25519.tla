------------------------------ MODULE Ed25519 ------------------------------
(***************************************************************************)
(* crypto/monocypher.c, arithmetic modulo L and the scalar products of     *)
(* Ed25519, and the signatures of crypto/monocypher-ed25519.c.  A number   *)
(* of n limbs is a function on 0..n-1; a limb has LW bits (32 in the       *)
(* code), a scalar NL limbs (8).  u64 carries are taken modulo 2^(2 LW).   *)
(*                                                                         *)
(* SHA-512 is a value the caller gives: what a signature says of its       *)
(* message is which scalars r and h are.                                   *)
(***************************************************************************)
EXTENDS Curve

CONSTANTS
  LW, NL,       \* bits of a limb, limbs of a scalar
  ORDER,        \* the prime order L of the base point
  B             \* the base point, affine

Limb == 2^LW
COLS == BITS \div 8        \* columns of the signed combs (32)

ASSUME ScalarAssumption ==
  /\ BITS = LW * NL /\ BITS % 8 = 0
  /\ 2^(BITS - 4) < ORDER /\ ORDER < 2^(BITS - 3)
  /\ Times(ORDER, B) = <<0, 1>> /\ B # <<0, 1>>

Limbs(x, n) == [i \in 0..(n - 1) |-> (x \div Limb^i) % Limb]
L == Limbs(ORDER, NL)
RECURSIVE NumberOf(_, _, _)
NumberOf(x, n, i) == IF i = n THEN 0 ELSE x[i] * Limb^i + NumberOf(x, n, i + 1)

(* one row of a product: p += (x * b) << i, for b's limbs from j below n   *)
RECURSIVE Row(_, _, _, _, _, _, _)
Row(p, i, x, b, j, n, carry) ==
  IF j = n THEN [p |-> p, carry |-> carry % Limb]
  ELSE Row([p EXCEPT ![i + j] = (carry + p[i + j] + x * b[j]) % Limb], i, x, b, j + 1, n,
           ((carry + p[i + j] + x * b[j]) % Limb^2) \div Limb)
Carried(r, i, n) == [r.p EXCEPT ![i + n] = r.carry]

RECURSIVE Rows(_, _, _, _, _, _)
Rows(p, a, m, b, n, i) ==
  IF i = m THEN p ELSE With(Carried(Row(p, i, a[i], b, 0, n, 0), i, n),
                            LAMBDA q : Rows(q, a, m, b, n, i + 1))
multiply(p, a, b) == Rows(p, a, NL, b, NL, 0)

(* x + (~y & mask) + carry, the mask being all ones or zero                *)
RECURSIVE AddNot(_, _, _, _, _)
AddNot(r, y, mask, i, carry) ==
  IF i = NL THEN [r |-> [k \in 0..(NL - 1) |-> r[k]], carry |-> carry]
  ELSE AddNot([r EXCEPT ![i] = (carry + r[i] + mask * (Limb - 1 - y[i])) % Limb], y, mask,
              i + 1, (carry + r[i] + mask * (Limb - 1 - y[i])) \div Limb)

is_above_l(x) == AddNot(x, L, 1, 0, 1).carry
Removed(x, above) == AddNot(x, L, above, 0, above).r
remove_l(x) == Removed(x, is_above_l(x))

(* floor(2^(2 BITS) / L), by long division                                 *)
PowMod[k \in 0..(2 * NL)] == IF k = 0 THEN 1 ELSE (PowMod[k - 1] * Limb) % ORDER
r_const == [i \in 0..NL |-> (PowMod[2 * NL - i - 1] * Limb) \div ORDER]

RECURSIVE LowRows(_, _, _)
LowRows(q, xr, i) ==
  IF i = NL THEN xr ELSE With(Row(xr, i, q[i + 2 * NL], L, 0, NL - i, 0).p,
                              LAMBDA x : LowRows(q, x, i + 1))
TimesL(xr) == LowRows(xr, [k \in 0..(NL - 1) |-> 0], 0)
Quotient(x) == Rows([k \in 0..(3 * NL) |-> 0], r_const, NL + 1, x, 2 * NL, 0)
mod_l(x) == With(TimesL(Quotient(x)), LAMBDA y : remove_l(AddNot(x, y, 1, 0, 1).r))

crypto_eddsa_reduce(expanded) == NumberOf(mod_l(expanded), NL, 0)
crypto_eddsa_mul_add(a, b, c) ==
  NumberOf(mod_l(multiply(Limbs(c, 2 * NL), Limbs(a, NL), Limbs(b, NL))), NL, 0)

---------------------------------------------------------------------------
(* sliding windows; next_check is a byte                                   *)
RECURSIVE TopBit(_, _)
TopBit(s, i) == IF i > 0 /\ scalar_bit(s, i) = 0 THEN TopBit(s, i - 1) ELSE i
(* mutant: bit 252 is not looked at                                        *)
slide_init_Low(s) ==
  [next_check |-> TopBit(s, BITS - 5) + 1, next_index |-> -1, next_digit |-> -1]
slide_init(s) ==
  [next_check |-> TopBit(s, BITS - 4) + 1, next_index |-> -1, next_digit |-> -1]

Twos(v) == CHOOSE k \in 0..7 : v % 2^k = 0 /\ v % 2^(k + 1) # 0
Digit(ctx, i, w, v, k) ==
  [next_index |-> i - (w - 1) + k, next_digit |-> v \div 2^k,
   next_check |-> (ctx.next_check - w) % 256]
Value(s, i, w) ==
  ((s \div 2^(i - (w - 1))) % 2^(w - 1)) - scalar_bit(s, i) * 2^(w - 1) + scalar_bit(s, i - w)
Window(ctx, i, w, v) == Digit(ctx, i, w, v, Twos(v))
Slid(ctx, width, i, s) ==
  IF i # ctx.next_check THEN ctx
  ELSE IF scalar_bit(s, i) = scalar_bit(s, i - 1)
  THEN [ctx EXCEPT !.next_check = (@ - 1) % 256]
  ELSE IF width <= i + 1 THEN Window(ctx, i, width, Value(s, i, width))
  ELSE Window(ctx, i, i + 1, Value(s, i, i + 1))
DigitAt(ctx, i) == IF i = ctx.next_index THEN ctx.next_digit ELSE 0
slide_step(ctx, width, i, s) ==
  [ctx |-> Slid(ctx, width, i, s), digit |-> DigitAt(Slid(ctx, width, i, s), i)]

---------------------------------------------------------------------------
P_W_WIDTH == 3
B_W_WIDTH == 5
Precomp(p) == [Yp |-> fe_add(p[2], p[1]), Ym |-> fe_sub(p[2], p[1]),
               T2 |-> fe_mul(fe_mul(p[1], p[2]), D2)]
b_window == [j \in 0..7 |-> Precomp(Times(2 * j + 1, B))]

lutA(a) == <<ge_cache(a), ge_cache(ge_add(ge_double(a), ge_cache(a)))>>
AddA(sum, lut, h) == IF h > 0 THEN ge_add(sum, lut[1 + (h \div 2)])
                     ELSE IF h < 0 THEN ge_sub(sum, lut[1 + ((-h) \div 2)]) ELSE sum
AddB(sum, s) == IF s > 0 THEN ge_madd(sum, b_window[s \div 2])
                ELSE IF s < 0 THEN ge_msub(sum, b_window[(-s) \div 2]) ELSE sum

(* sum = [s]B - [h]A, the point given being -A                             *)
RECURSIVE Slide(_, _, _, _, _, _, _)
Slide(sum, lut, h, s, hs, ss, i) ==
  IF i < 0 THEN sum
  ELSE With([h |-> slide_step(hs, P_W_WIDTH, i, h), s |-> slide_step(ss, B_W_WIDTH, i, s)],
            LAMBDA st : With(AddB(AddA(ge_double(sum), lut, st.h.digit), st.s.digit),
            LAMBDA next : Slide(next, lut, h, s, st.h.ctx, st.s.ctx, i - 1)))
Larger(a, b) == IF a >= b THEN a ELSE b
Summed(lut, h, s, hs, ss) ==
  Slide(ge_zero, lut, h, s, hs, ss, Larger(hs.next_check, ss.next_check))

EightTimes(p) == ge_double(ge_double(ge_double(p)))
Checked(minus_A, minus_R, s, h) ==
  /\ minus_A.ok /\ minus_R.ok /\ is_above_l(Limbs(s, NL)) = 0
  /\ With(Summed(lutA(minus_A.ge), h, s, slide_init(h), slide_init(s)), LAMBDA sum :
          With(EightTimes(ge_add(sum, ge_cache(minus_R.ge))), ge_tobytes)) = Encode(0, 1)
crypto_eddsa_check_equation(sig, public_key, h) ==
  With([A |-> ge_frombytes_neg_vartime(public_key), R |-> ge_frombytes_neg_vartime(sig.R)],
       LAMBDA minus : Checked(minus.A, minus.R, sig.S, h))

---------------------------------------------------------------------------
(* signed combs: bit 1 means 1 and bit 0 means -1                          *)
Teeth(j) == 2^(3 * COLS) + (IF j \div 4 = 1 THEN 1 ELSE -1) * 2^(2 * COLS)
            + (IF (j \div 2) % 2 = 1 THEN 1 ELSE -1) * 2^COLS
            + (IF j % 2 = 1 THEN 1 ELSE -1)
Comb(p) == [j \in 0..7 |-> Precomp(Times(Teeth(j), p))]
b_comb_low == Comb(B)
b_comb_high == Comb(Times(2^(4 * COLS), B))

Tooth(p, comb, teeth) ==
  IF teeth \div 8 = 1 THEN ge_madd(p, comb[teeth % 8])
  ELSE ge_madd(p, Negated(comb[7 - (teeth % 8)]))
lookup_add(p, comb, s, i) ==
  Tooth(p, comb, scalar_bit(s, i) + 2 * scalar_bit(s, i + COLS)
                 + 4 * scalar_bit(s, i + 2 * COLS) + 8 * scalar_bit(s, i + 3 * COLS))
Both(p, s, i) == With(lookup_add(p, b_comb_low, s, i),
                      LAMBDA q : lookup_add(q, b_comb_high, s, i + 4 * COLS))

RECURSIVE Combed(_, _, _)
Combed(p, s, i) == IF i < 0 THEN p ELSE With(Both(ge_double(p), s, i), LAMBDA q : Combed(q, s, i - 1))
half_mod_L == (ORDER + 1) \div 2
half_ones == ((2^BITS - 1) * half_mod_L) % ORDER
Signs(s) == With(Both(ge_zero, s, COLS - 1), LAMBDA p : Combed(p, s, COLS - 2))
ge_scalarmult_base(s) == With(crypto_eddsa_mul_add(s, half_mod_L, half_ones), Signs)
crypto_eddsa_scalarbase(s) == ge_tobytes(ge_scalarmult_base(s))

---------------------------------------------------------------------------
(* monocypher-ed25519.c; the hash of the seed is [a, prefix]               *)
crypto_ed25519_key_pair(a) == crypto_eddsa_scalarbase(crypto_eddsa_trim_scalar(a))
ed25519_dom_sign(a, r, h) ==
  [R |-> crypto_eddsa_scalarbase(r), S |-> crypto_eddsa_mul_add(h, a, r)]
crypto_ed25519_sign(a, hash_r, hash_h) ==
  With([r |-> crypto_eddsa_reduce(hash_r), h |-> crypto_eddsa_reduce(hash_h)],
       LAMBDA k : ed25519_dom_sign(crypto_eddsa_trim_scalar(a), k.r, k.h))
crypto_ed25519_check(sig, public_key, hash_h) ==
  With(crypto_eddsa_reduce(hash_h), LAMBDA h : crypto_eddsa_check_equation(sig, public_key, h))
=============================================================================

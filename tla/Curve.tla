------------------------------- MODULE Curve -------------------------------
(***************************************************************************)
(* crypto/monocypher.c above its field arithmetic: square roots, the       *)
(* Montgomery ladder of X25519, and the points of the twisted Edwards      *)
(* curve with their encoding.  A field element is a residue modulo FP (the *)
(* limbs are in FieldLimbs), a scalar a number below 2^BITS, an encoded    *)
(* point its y coordinate and the parity of x.                             *)
(*                                                                         *)
(* The formulas hold over every curve of the family, and are checked on a  *)
(* small one: FP = 5 mod 8 as 2^255 - 19 is, CA the curve's A (486662).    *)
(***************************************************************************)
EXTENDS Integers, Sequences

CONSTANTS FP, CA, BITS

(* Op applied to the value of v                                            *)
With(v, Op(_)) == CHOOSE y \in {Op(x) : x \in {v}} : TRUE

RECURSIVE Pow(_, _)
Pow(x, n) == IF n = 0 \/ x = 1 THEN 1
             ELSE IF n % 2 = 1 THEN (x * Pow(x, n - 1)) % FP
             ELSE Pow((x * x) % FP, n \div 2)
Inv(x) == Pow(x % FP, FP - 2)

fe_add(f, g) == (f + g) % FP
fe_sub(f, g) == (f - g) % FP
fe_neg(f) == (0 - f) % FP
fe_mul(f, g) == (f * g) % FP
fe_sq(f) == fe_mul(f, f)
fe_isodd(f) == f % 2

A24 == (CA + 2) \div 4                                           \* 121666
d == fe_neg(fe_mul(A24 - 1, Inv(A24)))                          \* -121665 / 121666
D2 == fe_mul(2, d)
sqrtm1 == Pow(2, (FP - 1) \div 4)

ASSUME CurveAssumption ==
  /\ FP % 8 = 5 /\ CA % 4 = 2 /\ BITS \in Nat \ {0}
  /\ fe_sq(sqrtm1) = FP - 1 /\ Pow(d, (FP - 1) \div 2) = FP - 1

---------------------------------------------------------------------------
Root(x, t0, quartic) ==
  [isr |-> IF quartic \in {FP - 1, FP - sqrtm1} THEN fe_mul(t0, sqrtm1) ELSE t0,
   square |-> x = 0 \/ quartic \in {1, FP - 1}]
RootOf(x, t0) == Root(x, t0, fe_mul(fe_sq(t0), x))
invsqrt(x) == RootOf(x, Pow(x, (FP - 5) \div 8))

fe_invert(x) == fe_mul(fe_sq(invsqrt(fe_sq(x)).isr), x)

---------------------------------------------------------------------------
(* X25519                                                                  *)
scalar_bit(s, i) == IF i < 0 THEN 0 ELSE (s \div 2^i) % 2

crypto_eddsa_trim_scalar(s) == 2^(BITS - 2) + (s % 2^(BITS - 2)) - (s % 8)

fe_cswap(l, b) ==
  IF b = 0 THEN l ELSE [x2 |-> l.x3, z2 |-> l.z3, x3 |-> l.x2, z3 |-> l.z2]

LadderOut(x1, da, cb, bb, aa) ==
  [x2 |-> fe_mul(aa, bb),
   z2 |-> fe_mul(fe_sub(aa, bb), fe_add(bb, fe_mul(A24, fe_sub(aa, bb)))),
   x3 |-> fe_sq(fe_add(da, cb)),
   z3 |-> fe_mul(x1, fe_sq(fe_sub(da, cb)))]
LadderStep(x1, l) ==
  LadderOut(x1, fe_mul(fe_sub(l.x3, l.z3), fe_add(l.x2, l.z2)),
                fe_mul(fe_add(l.x3, l.z3), fe_sub(l.x2, l.z2)),
                fe_sq(fe_sub(l.x2, l.z2)), fe_sq(fe_add(l.x2, l.z2)))

RECURSIVE Ladder(_, _, _, _, _)
Ladder(l, x1, s, pos, swap) ==
  IF pos < 0 THEN fe_cswap(l, swap)
  ELSE With(LadderStep(x1, fe_cswap(l, (swap + scalar_bit(s, pos)) % 2)),
            LAMBDA m : Ladder(m, x1, s, pos - 1, scalar_bit(s, pos)))
Normalised(l) == fe_mul(l.x2, fe_invert(l.z2))
scalarmult(s, u, nb_bits) ==
  Normalised(Ladder([x2 |-> 1, z2 |-> 0, x3 |-> u, z3 |-> 1], u, s, nb_bits - 1, 0))

crypto_x25519(secret, u) == scalarmult(crypto_eddsa_trim_scalar(secret), u, BITS - 1)

---------------------------------------------------------------------------
(* points, in extended coordinates: x = X/Z, y = Y/Z, T = XY/Z             *)
ge_zero == [X |-> 0, Y |-> 1, Z |-> 1, T |-> 0]

Encode(x, y) == [y |-> y, odd |-> fe_isodd(x)]
Scaled(h, recip) == Encode(fe_mul(h.X, recip), fe_mul(h.Y, recip))
ge_tobytes(h) == Scaled(h, fe_invert(h.Z))

Signed(s, x) == IF fe_isodd(x) = s.odd THEN fe_neg(x) ELSE x
OnCurve(y, x) == [X |-> x, Y |-> y, Z |-> 1, T |-> fe_mul(x, y)]
Decoded(s, num, r) ==
  [ok |-> r.square,
   ge |-> IF r.square THEN OnCurve(s.y % FP, Signed(s, fe_mul(num, r.isr))) ELSE ge_zero]
FromY(s, y2) == Decoded(s, fe_sub(y2, 1),
                        invsqrt(fe_mul(fe_sub(y2, 1), fe_add(fe_mul(y2, d), 1))))
ge_frombytes_neg_vartime(s) == FromY(s, fe_sq(s.y % FP))

ge_cache(p) == [Yp |-> fe_add(p.Y, p.X), Ym |-> fe_sub(p.Y, p.X),
                Z |-> p.Z, T2 |-> fe_mul(p.T, D2)]
Negated(q) == [q EXCEPT !.Yp = q.Ym, !.Ym = q.Yp, !.T2 = fe_neg(q.T2)]

Product(x, y, a, b) == [X |-> fe_mul(x, b), Y |-> fe_mul(y, a),
                        Z |-> fe_mul(a, b), T |-> fe_mul(x, y)]
Sum4(a, b, z, t) == Product(fe_sub(a, b), fe_add(a, b), fe_add(z, t), fe_sub(z, t))
ge_add(p, q) == Sum4(fe_mul(fe_add(p.Y, p.X), q.Yp), fe_mul(fe_sub(p.Y, p.X), q.Ym),
                     fe_mul(fe_add(p.Z, p.Z), q.Z), fe_mul(p.T, q.T2))
ge_sub(p, q) == ge_add(p, Negated(q))

(* the same with a precomputed point, whose Z is 1                         *)
ge_madd(p, q) == Sum4(fe_mul(fe_add(p.Y, p.X), q.Yp), fe_mul(fe_sub(p.Y, p.X), q.Ym),
                      fe_add(p.Z, p.Z), fe_mul(p.T, q.T2))
ge_msub(p, q) == ge_madd(p, Negated(q))

Doubled(x, y, z, t) == [X |-> fe_mul(x, z), Y |-> fe_mul(t, y),
                        Z |-> fe_mul(y, z), T |-> fe_mul(x, t)]
FromSquares(xx, yy, zz2, s) ==
  Doubled(fe_sub(s, fe_add(yy, xx)), fe_sub(yy, xx),
          fe_sub(zz2, fe_sub(yy, xx)), fe_add(yy, xx))
ge_double(p) ==
  FromSquares(fe_sq(p.X), fe_sq(p.Y), fe_mul(2, fe_sq(p.Z)), fe_sq(fe_add(p.X, p.Y)))

---------------------------------------------------------------------------
(* the reference: affine points and the addition law of the curve          *)
Affine(h) == <<fe_mul(h.X, Inv(h.Z)), fe_mul(h.Y, Inv(h.Z))>>
Valid(h) == h.Z % FP # 0 /\ fe_mul(h.T, h.Z) = fe_mul(h.X, h.Y)
LawOver(p, q, k) ==
  <<fe_mul(fe_add(fe_mul(p[1], q[2]), fe_mul(p[2], q[1])), Inv(1 + k)),
    fe_mul(fe_add(fe_mul(p[2], q[2]), fe_mul(p[1], q[1])), Inv(1 - k))>>
Law(p, q) == LawOver(p, q, fe_mul(d, fe_mul(fe_mul(p[1], p[2]), fe_mul(q[1], q[2]))))
Minus(p) == <<fe_neg(p[1]), p[2]>>
RECURSIVE Times(_, _)
Times(n, p) == IF n = 0 \/ p = <<0, 1>> THEN <<0, 1>>
               ELSE IF n % 2 = 1 THEN With(Times(n - 1, p), LAMBDA q : Law(p, q))
               ELSE Times(n \div 2, Law(p, p))
U(p) == fe_mul(1 + p[2], Inv(1 - p[2]))
Extended(p, z) == [X |-> fe_mul(p[1], z), Y |-> fe_mul(p[2], z), Z |-> z,
                   T |-> fe_mul(fe_mul(p[1], p[2]), z)]
=============================================================================

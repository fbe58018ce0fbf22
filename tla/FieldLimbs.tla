----------------------------- MODULE FieldLimbs -----------------------------
(***************************************************************************)
(* crypto/monocypher.c, the field 2^255 - 19 on ten signed limbs of        *)
(* alternately 26 and 25 bits.  A field element is a function on 0..9.     *)
(* EVEN and ODD are the radices of the limbs (2^26 and 2^25), so that the  *)
(* modulus is (EVEN * ODD)^5 - FOLD.  >> is a division rounded down.       *)
(***************************************************************************)
EXTENDS Integers, FiniteSetsExt

CONSTANTS EVEN, ODD, FOLD

Radix(i) == IF i % 2 = 0 THEN EVEN ELSE ODD

CarryOf(t, i) == (t[i] + (Radix(i) \div 2)) \div Radix(i)
CarryInto(t, i, c) ==
  [j \in 0..9 |-> IF j = i THEN t[j] - c * Radix(i)
                  ELSE IF j = (i + 1) % 10 THEN t[j] + (IF i = 9 THEN FOLD * c ELSE c)
                  ELSE t[j]]
Carry(t, i) == CarryInto(t, i, CarryOf(t, i))

(* the two halves of the chain run side by side; 4 and 0 carry twice       *)
HalfChain(t) == Carry(Carry(Carry(Carry(Carry(Carry(t, 0), 4), 1), 5), 2), 6)
FE_CARRY(t) == Carry(Carry(Carry(Carry(Carry(Carry(HalfChain(t), 3), 7), 4), 8), 9), 0)

fe_mul_small(f, g) == FE_CARRY([k \in 0..9 |-> f[k] * g])

(* two odd limbs have half a bit too much each; what is past the last limb *)
(* comes back FOLD times                                                   *)
Term(f, g, k, i) ==
  f[i] * g[(k - i) % 10] * (IF i > k THEN FOLD ELSE 1)
    * (IF i % 2 = 1 /\ (k - i) % 2 = 1 THEN 2 ELSE 1)
fe_mul(f, g) == FE_CARRY([k \in 0..9 |-> MapThenSumSet(LAMBDA i : Term(f, g, k, i), 0..9)])

(* each pair of limbs once, twice its product if they are two              *)
SquareTerm(f, k, i) == Term(f, f, k, i) * (IF i = (k - i) % 10 THEN 1 ELSE 2)
fe_sq(f) ==
  FE_CARRY([k \in 0..9 |-> MapThenSumSet(LAMBDA i : SquareTerm(f, k, i),
                                         {i \in 0..9 : i <= (k - i) % 10})])

---------------------------------------------------------------------------
(* fe_tobytes: first the sign of the number, as the carry out of all       *)
(* limbs; the bytes are the reduced limbs side by side                     *)
SignOf(t) ==
  LET q[i \in 0..10] == IF i = 0 THEN (FOLD * t[9] + (ODD \div 2)) \div ODD
                        ELSE (q[i - 1] + t[i - 1]) \div Radix(i - 1)
  IN  q[10]
Reduced(t, first) ==
  LET q[i \in 0..9] == IF i = 0 THEN first ELSE (q[i - 1] + t[i - 1]) \div Radix(i - 1)
  IN  [i \in 0..9 |-> (q[i] + t[i]) % Radix(i)]
(* mutant: the carries into the sign are left out                          *)
fe_tobytes_TopOnly(h) == Reduced(h, FOLD * (IF h[9] < 0 THEN -1 ELSE 0))
fe_tobytes(h) == Reduced(h, FOLD * SignOf(h))
=============================================================================

--------------------------- MODULE LibraryProofs ---------------------------
(***************************************************************************)
(* The parts that work on their own, for every value of their constants:   *)
(* the keystroke decoder and the type-ahead ring of AnsiKey, the packets   *)
(* of Seal, the carries of FieldLimbs.                                     *)
(***************************************************************************)
EXTENDS AnsiKey, Seal, FieldLimbs, FiniteSetTheorems, TLAPS

(* The carries of FieldLimbs, for all limbs: they change a number only by  *)
(* multiples of the modulus, whatever the radices, and with the radices of *)
(* the code they leave limbs small enough for the next product             *)
(* (crypto/monocypher.c:1047-1107, where it is argued in a comment).       *)

(* what is asked of the radices; the code's are 2^26, 2^25 and 19        *)
RadixOK == EVEN \in Nat \ {0} /\ ODD \in Nat \ {0} /\ FOLD \in Nat

Limbs10 == [0..9 -> Int]

(* the number limbs i and up stand for, in units of limb i, and the weight *)
(* of a carry out of the last limb there                                   *)
V9(t) == t[9]
V8(t) == t[8] + EVEN * V9(t)
V7(t) == t[7] + ODD * V8(t)
V6(t) == t[6] + EVEN * V7(t)
V5(t) == t[5] + ODD * V6(t)
V4(t) == t[4] + EVEN * V5(t)
V3(t) == t[3] + ODD * V4(t)
V2(t) == t[2] + EVEN * V3(t)
V1(t) == t[1] + ODD * V2(t)
V0(t) == t[0] + EVEN * V1(t)

M9 == ODD
M8 == EVEN * M9
M7 == ODD * M8
M6 == EVEN * M7
M5 == ODD * M6
M4 == EVEN * M5
M3 == ODD * M4
M2 == EVEN * M3
M1 == ODD * M2
M0 == EVEN * M1

Value(t) == V0(t)
Prime == M0 - FOLD

---------------------------------------------------------------------------
(* a carry is an integer, and changes two limbs                            *)
LEMMA CarryType ==
  ASSUME RadixOK, NEW t \in Limbs10, NEW i \in 0..9
  PROVE  /\ CarryOf(t, i) \in Int /\ Carry(t, i) \in Limbs10
         /\ Carry(t, i) = CarryInto(t, i, CarryOf(t, i))
<1>1. Radix(i) \in Nat \ {0}
  BY DEF RadixOK, Radix
<1>2. Radix(i) \div 2 \in Int /\ t[i] \in Int
  BY <1>1 DEF Limbs10
<1>3. CarryOf(t, i) \in Int
  BY <1>1, <1>2 DEF CarryOf
<1> DEFINE c == CarryOf(t, i)
<1>4. c \in Int
  BY <1>3
<1> HIDE DEF c
<1>5. CarryInto(t, i, c) \in Limbs10
  BY <1>1, <1>4 DEF RadixOK, CarryInto, Limbs10
<1> QED BY <1>3, <1>5 DEF Carry, c

(* the algebra of one carry: out of a limb of radix r into the next ...    *)
LEMMA Shift ==
  ASSUME NEW a \in Int, NEW b \in Int, NEW x \in Int, NEW c \in Int, NEW r \in Int
  PROVE  (a - c * r) + r * ((b + c) + x) = a + r * (b + x)
OBVIOUS

(* ... and what a change of the limbs above does                           *)
LEMMA Lift ==
  ASSUME NEW a \in Int, NEW x \in Int, NEW c \in Int, NEW k \in Int, NEW r \in Int
  PROVE  a + r * (x - c * k) = (a + r * x) - c * (r * k)
OBVIOUS

(* every tail of a number is an integer                                    *)
LEMMA Tails ==
  ASSUME RadixOK, NEW t \in Limbs10
  PROVE  /\ V9(t) \in Int /\ V8(t) \in Int /\ V7(t) \in Int /\ V6(t) \in Int /\ V5(t) \in Int
         /\ V4(t) \in Int /\ V3(t) \in Int /\ V2(t) \in Int /\ V1(t) \in Int /\ V0(t) \in Int
<1> USE DEF RadixOK, Limbs10
<1>9. V9(t) \in Int BY DEF V9
<1>8. V8(t) \in Int BY <1>9 DEF V8
<1>7. V7(t) \in Int BY <1>8 DEF V7
<1>6. V6(t) \in Int BY <1>7 DEF V6
<1>5. V5(t) \in Int BY <1>6 DEF V5
<1>4. V4(t) \in Int BY <1>5 DEF V4
<1>3. V3(t) \in Int BY <1>4 DEF V3
<1>2. V2(t) \in Int BY <1>3 DEF V2
<1>1. V1(t) \in Int BY <1>2 DEF V1
<1>0. V0(t) \in Int BY <1>1 DEF V0
<1> QED BY <1>0, <1>1, <1>2, <1>3, <1>4, <1>5, <1>6, <1>7, <1>8, <1>9

(* and so is every weight                                                  *)
LEMMA Weights ==
  ASSUME RadixOK
  PROVE  /\ M9 \in Int /\ M8 \in Int /\ M7 \in Int /\ M6 \in Int /\ M5 \in Int
         /\ M4 \in Int /\ M3 \in Int /\ M2 \in Int /\ M1 \in Int /\ M0 \in Int
<1> USE DEF RadixOK
<1>9. M9 \in Int BY DEF M9
<1>8. M8 \in Int BY <1>9 DEF M8
<1>7. M7 \in Int BY <1>8 DEF M7
<1>6. M6 \in Int BY <1>7 DEF M6
<1>5. M5 \in Int BY <1>6 DEF M5
<1>4. M4 \in Int BY <1>5 DEF M4
<1>3. M3 \in Int BY <1>4 DEF M3
<1>2. M2 \in Int BY <1>3 DEF M2
<1>1. M1 \in Int BY <1>2 DEF M1
<1>0. M0 \in Int BY <1>1 DEF M0
<1> QED BY <1>0, <1>1, <1>2, <1>3, <1>4, <1>5, <1>6, <1>7, <1>8, <1>9

(* equal limbs make equal tails ...                                        *)
LEMMA Above ==
  ASSUME NEW t, NEW u, NEW k \in 0..9, \A j \in k..9 : u[j] = t[j]
  PROVE  /\ k <= 9 => V9(u) = V9(t)
         /\ k <= 8 => V8(u) = V8(t)
         /\ k <= 7 => V7(u) = V7(t)
         /\ k <= 6 => V6(u) = V6(t)
         /\ k <= 5 => V5(u) = V5(t)
         /\ k <= 4 => V4(u) = V4(t)
         /\ k <= 3 => V3(u) = V3(t)
         /\ k <= 2 => V2(u) = V2(t)
<1>9. k <= 9 => V9(u) = V9(t) BY DEF V9
<1>8. k <= 8 => V8(u) = V8(t) BY <1>9 DEF V8
<1>7. k <= 7 => V7(u) = V7(t) BY <1>8 DEF V7
<1>6. k <= 6 => V6(u) = V6(t) BY <1>7 DEF V6
<1>5. k <= 5 => V5(u) = V5(t) BY <1>6 DEF V5
<1>4. k <= 4 => V4(u) = V4(t) BY <1>5 DEF V4
<1>3. k <= 3 => V3(u) = V3(t) BY <1>4 DEF V3
<1>2. k <= 2 => V2(u) = V2(t) BY <1>3 DEF V2
<1> QED BY <1>2, <1>3, <1>4, <1>5, <1>6, <1>7, <1>8, <1>9

(* ... and equal limbs below equal tails equal numbers                     *)
LEMMA Below ==
  ASSUME NEW t, NEW u, NEW k \in 0..8, \A j \in 0..(k - 1) : u[j] = t[j],
         k = 8 => V8(u) = V8(t),
         k = 7 => V7(u) = V7(t),
         k = 6 => V6(u) = V6(t),
         k = 5 => V5(u) = V5(t),
         k = 4 => V4(u) = V4(t),
         k = 3 => V3(u) = V3(t),
         k = 2 => V2(u) = V2(t),
         k = 1 => V1(u) = V1(t),
         k = 0 => V0(u) = V0(t)
  PROVE  Value(u) = Value(t)
<1>8. k >= 8 => V8(u) = V8(t) OBVIOUS
<1>7. k >= 7 => V7(u) = V7(t) BY <1>8 DEF V7
<1>6. k >= 6 => V6(u) = V6(t) BY <1>7 DEF V6
<1>5. k >= 5 => V5(u) = V5(t) BY <1>6 DEF V5
<1>4. k >= 4 => V4(u) = V4(t) BY <1>5 DEF V4
<1>3. k >= 3 => V3(u) = V3(t) BY <1>4 DEF V3
<1>2. k >= 2 => V2(u) = V2(t) BY <1>3 DEF V2
<1>1. k >= 1 => V1(u) = V1(t) BY <1>2 DEF V1
<1>0. k >= 0 => V0(u) = V0(t) BY <1>1 DEF V0
<1> QED BY <1>0 DEF Value

(* a carry out of any limb but the last leaves the number as it is         *)
LEMMA CarryKeeps ==
  ASSUME RadixOK, NEW t \in Limbs10, NEW i \in 0..8
  PROVE  Value(Carry(t, i)) = Value(t)
<1> DEFINE u == Carry(t, i)
           c == CarryOf(t, i)
<1>1. c \in Int /\ u = CarryInto(t, i, c) /\ \A j \in 0..9 : t[j] \in Int
  BY CarryType DEF Limbs10
<1>2. /\ u[i] = t[i] - c * Radix(i) /\ u[i + 1] = t[i + 1] + c
      /\ \A j \in 0..9 : j # i /\ j # i + 1 => u[j] = t[j]
  BY <1>1 DEF CarryInto
<1>3. EVEN \in Int /\ ODD \in Int
  BY DEF RadixOK
<1> SUFFICES Value(u) = Value(t) OBVIOUS
<1> HIDE DEF u, c
<1>10. CASE i = 0
  <2>1. V1(u) = (t[1] + c) + ODD * V2(t) /\ V1(t) = t[1] + ODD * V2(t)
    <3>1. V2(u) = V2(t) BY <1>2, <1>10, Above
    <3> QED BY <1>2, <1>10, <3>1 DEF V1
  <2>2. ODD * V2(t) \in Int
    BY <1>3, Tails
  <2>3. u[0] = t[0] - c * EVEN /\ t[0] \in Int /\ t[1] \in Int
    BY <1>1, <1>2, <1>10 DEF Radix
  <2>4. V0(u) = V0(t)
    BY <1>1, <1>3, <2>1, <2>2, <2>3, Shift DEF V0
  <2> QED BY <1>2, <1>10, <2>4, Below
<1>11. CASE i = 1
  <2>1. V2(u) = (t[2] + c) + EVEN * V3(t) /\ V2(t) = t[2] + EVEN * V3(t)
    <3>1. V3(u) = V3(t) BY <1>2, <1>11, Above
    <3> QED BY <1>2, <1>11, <3>1 DEF V2
  <2>2. EVEN * V3(t) \in Int
    BY <1>3, Tails
  <2>3. u[1] = t[1] - c * ODD /\ t[1] \in Int /\ t[2] \in Int
    BY <1>1, <1>2, <1>11 DEF Radix
  <2>4. V1(u) = V1(t)
    BY <1>1, <1>3, <2>1, <2>2, <2>3, Shift DEF V1
  <2> QED BY <1>2, <1>11, <2>4, Below
<1>12. CASE i = 2
  <2>1. V3(u) = (t[3] + c) + ODD * V4(t) /\ V3(t) = t[3] + ODD * V4(t)
    <3>1. V4(u) = V4(t) BY <1>2, <1>12, Above
    <3> QED BY <1>2, <1>12, <3>1 DEF V3
  <2>2. ODD * V4(t) \in Int
    BY <1>3, Tails
  <2>3. u[2] = t[2] - c * EVEN /\ t[2] \in Int /\ t[3] \in Int
    BY <1>1, <1>2, <1>12 DEF Radix
  <2>4. V2(u) = V2(t)
    BY <1>1, <1>3, <2>1, <2>2, <2>3, Shift DEF V2
  <2> QED BY <1>2, <1>12, <2>4, Below
<1>13. CASE i = 3
  <2>1. V4(u) = (t[4] + c) + EVEN * V5(t) /\ V4(t) = t[4] + EVEN * V5(t)
    <3>1. V5(u) = V5(t) BY <1>2, <1>13, Above
    <3> QED BY <1>2, <1>13, <3>1 DEF V4
  <2>2. EVEN * V5(t) \in Int
    BY <1>3, Tails
  <2>3. u[3] = t[3] - c * ODD /\ t[3] \in Int /\ t[4] \in Int
    BY <1>1, <1>2, <1>13 DEF Radix
  <2>4. V3(u) = V3(t)
    BY <1>1, <1>3, <2>1, <2>2, <2>3, Shift DEF V3
  <2> QED BY <1>2, <1>13, <2>4, Below
<1>14. CASE i = 4
  <2>1. V5(u) = (t[5] + c) + ODD * V6(t) /\ V5(t) = t[5] + ODD * V6(t)
    <3>1. V6(u) = V6(t) BY <1>2, <1>14, Above
    <3> QED BY <1>2, <1>14, <3>1 DEF V5
  <2>2. ODD * V6(t) \in Int
    BY <1>3, Tails
  <2>3. u[4] = t[4] - c * EVEN /\ t[4] \in Int /\ t[5] \in Int
    BY <1>1, <1>2, <1>14 DEF Radix
  <2>4. V4(u) = V4(t)
    BY <1>1, <1>3, <2>1, <2>2, <2>3, Shift DEF V4
  <2> QED BY <1>2, <1>14, <2>4, Below
<1>15. CASE i = 5
  <2>1. V6(u) = (t[6] + c) + EVEN * V7(t) /\ V6(t) = t[6] + EVEN * V7(t)
    <3>1. V7(u) = V7(t) BY <1>2, <1>15, Above
    <3> QED BY <1>2, <1>15, <3>1 DEF V6
  <2>2. EVEN * V7(t) \in Int
    BY <1>3, Tails
  <2>3. u[5] = t[5] - c * ODD /\ t[5] \in Int /\ t[6] \in Int
    BY <1>1, <1>2, <1>15 DEF Radix
  <2>4. V5(u) = V5(t)
    BY <1>1, <1>3, <2>1, <2>2, <2>3, Shift DEF V5
  <2> QED BY <1>2, <1>15, <2>4, Below
<1>16. CASE i = 6
  <2>1. V7(u) = (t[7] + c) + ODD * V8(t) /\ V7(t) = t[7] + ODD * V8(t)
    <3>1. V8(u) = V8(t) BY <1>2, <1>16, Above
    <3> QED BY <1>2, <1>16, <3>1 DEF V7
  <2>2. ODD * V8(t) \in Int
    BY <1>3, Tails
  <2>3. u[6] = t[6] - c * EVEN /\ t[6] \in Int /\ t[7] \in Int
    BY <1>1, <1>2, <1>16 DEF Radix
  <2>4. V6(u) = V6(t)
    BY <1>1, <1>3, <2>1, <2>2, <2>3, Shift DEF V6
  <2> QED BY <1>2, <1>16, <2>4, Below
<1>17. CASE i = 7
  <2>1. V8(u) = (t[8] + c) + EVEN * V9(t) /\ V8(t) = t[8] + EVEN * V9(t)
    <3>1. V9(u) = V9(t) BY <1>2, <1>17, Above
    <3> QED BY <1>2, <1>17, <3>1 DEF V8
  <2>2. EVEN * V9(t) \in Int
    BY <1>3, Tails
  <2>3. u[7] = t[7] - c * ODD /\ t[7] \in Int /\ t[8] \in Int
    BY <1>1, <1>2, <1>17 DEF Radix
  <2>4. V7(u) = V7(t)
    BY <1>1, <1>3, <2>1, <2>2, <2>3, Shift DEF V7
  <2> QED BY <1>2, <1>17, <2>4, Below
<1>18. CASE i = 8
  <2>1. V9(u) = (t[9] + c) + 0 /\ V9(t) = t[9] + 0
    BY <1>1, <1>2, <1>18 DEF V9
  <2>2. 0 \in Int
    BY <1>3, Tails
  <2>3. u[8] = t[8] - c * EVEN /\ t[8] \in Int /\ t[9] \in Int
    BY <1>1, <1>2, <1>18 DEF Radix
  <2>4. V8(u) = V8(t)
    BY <1>1, <1>3, <2>1, <2>2, <2>3, Shift DEF V8
  <2> QED BY <1>2, <1>18, <2>4, Below
<1> QED BY <1>10, <1>11, <1>12, <1>13, <1>14, <1>15, <1>16, <1>17, <1>18

(* the carry out of the last limb comes back FOLD times                    *)
LEMMA Carry9 ==
  ASSUME RadixOK, NEW t \in Limbs10
  PROVE  \E c \in Int : Value(Carry(t, 9)) = Value(t) - c * Prime
<1> DEFINE u == Carry(t, 9)
           c == CarryOf(t, 9)
<1>1. c \in Int /\ u \in Limbs10 /\ u = CarryInto(t, 9, c)
  BY CarryType
<1>2. u[9] = t[9] - c * ODD /\ u[0] = t[0] + FOLD * c
      /\ \A j \in 1..8 : u[j] = t[j]
  BY <1>1 DEF CarryInto, Radix
<1>3. \A j \in 0..9 : t[j] \in Int
  BY DEF Limbs10
<1> HIDE DEF u, c
<1>19. V9(u) = V9(t) - c * M9 BY <1>2 DEF V9, M9
<1>18. V8(u) = V8(t) - c * M8
  BY <1>1, <1>2, <1>3, <1>19, Lift, Tails, Weights DEF RadixOK, V8, M8
<1>17. V7(u) = V7(t) - c * M7
  BY <1>1, <1>2, <1>3, <1>18, Lift, Tails, Weights DEF RadixOK, V7, M7
<1>16. V6(u) = V6(t) - c * M6
  BY <1>1, <1>2, <1>3, <1>17, Lift, Tails, Weights DEF RadixOK, V6, M6
<1>15. V5(u) = V5(t) - c * M5
  BY <1>1, <1>2, <1>3, <1>16, Lift, Tails, Weights DEF RadixOK, V5, M5
<1>14. V4(u) = V4(t) - c * M4
  BY <1>1, <1>2, <1>3, <1>15, Lift, Tails, Weights DEF RadixOK, V4, M4
<1>13. V3(u) = V3(t) - c * M3
  BY <1>1, <1>2, <1>3, <1>14, Lift, Tails, Weights DEF RadixOK, V3, M3
<1>12. V2(u) = V2(t) - c * M2
  BY <1>1, <1>2, <1>3, <1>13, Lift, Tails, Weights DEF RadixOK, V2, M2
<1>11. V1(u) = V1(t) - c * M1
  BY <1>1, <1>2, <1>3, <1>12, Lift, Tails, Weights DEF RadixOK, V1, M1
<1>10. V0(u) = (t[0] + FOLD * c) + EVEN * (V1(t) - c * M1)
  BY <1>2, <1>11 DEF V0
<1>4. EVEN * (V1(t) - c * M1) = EVEN * V1(t) - c * M0
  <2>1. 0 + EVEN * (V1(t) - c * M1) = (0 + EVEN * V1(t)) - c * (EVEN * M1)
    BY <1>1, Lift, Tails, Weights DEF RadixOK
  <2> QED BY <1>1, <2>1, Tails, Weights DEF RadixOK, M0
<1>5. V0(u) = V0(t) - c * (M0 - FOLD)
  <2> DEFINE x == EVEN * V1(t)
             m == M0
             a == t[0]
  <2>1. x \in Int /\ m \in Int /\ a \in Int /\ FOLD \in Int
    BY <1>3, Tails, Weights DEF RadixOK
  <2>2. V0(u) = (a + FOLD * c) + (x - c * m) /\ V0(t) = a + x
    BY <1>4, <1>10 DEF V0
  <2> HIDE DEF x, m, a
  <2>3. (a + FOLD * c) + (x - c * m) = (a + x) - c * (m - FOLD)
    BY <1>1, <2>1
  <2> QED BY <2>2, <2>3 DEF m
<1> QED BY <1>1, <1>5 DEF Value, Prime, u

---------------------------------------------------------------------------
(* The carry chain of fe_mul, fe_sq and fe_mul_small, in the interleaved   *)
(* order of the FE_CARRY macro with limbs 0 and 4 carried twice, changes   *)
(* the number its limbs stand for only by a multiple of the modulus: every *)
(* field operation that ends in it computes a residue of the right number, *)
(* for whatever limbs come in.                                             *)
THEOREM CarryChainKeepsResidue ==
  ASSUME RadixOK, NEW t \in Limbs10
  PROVE  /\ FE_CARRY(t) \in Limbs10
         /\ \E c \in Int : Value(FE_CARRY(t)) = Value(t) - c * Prime
<1> DEFINE b == Carry(Carry(Carry(t, 0), 4), 1)
           h == HalfChain(t)
           a == Carry(Carry(Carry(Carry(h, 3), 7), 4), 8)
<1>0. b \in Limbs10 /\ Value(b) = Value(t)
  BY CarryType, CarryKeeps
<1> HIDE DEF b
<1>1. h \in Limbs10 /\ Value(h) = Value(t)
  <2>1. h = Carry(Carry(Carry(b, 5), 2), 6)
    BY DEF HalfChain, b
  <2> QED BY <1>0, <2>1, CarryType, CarryKeeps
<1> HIDE DEF h
<1>2. a \in Limbs10 /\ Value(a) = Value(t)
  BY <1>1, CarryType, CarryKeeps
<1> HIDE DEF a
<1>3. PICK c \in Int : Value(Carry(a, 9)) = Value(a) - c * Prime
  BY <1>2, Carry9
<1>4. Carry(a, 9) \in Limbs10 /\ FE_CARRY(t) = Carry(Carry(a, 9), 0)
  BY <1>2, CarryType DEF FE_CARRY, a, h
<1>5. Carry(Carry(a, 9), 0) \in Limbs10
      /\ Value(Carry(Carry(a, 9), 0)) = Value(Carry(a, 9))
  BY <1>4, CarryType, CarryKeeps
<1> QED BY <1>2, <1>3, <1>4, <1>5

---------------------------------------------------------------------------
(* The bounds of the carries, with the radices of the code                 *)

RadixCode == EVEN = 67108864 /\ ODD = 33554432 /\ FOLD = 19

P24 == 16777216
P25 == 33554432
P62 == 4611686018427387904

(* |t| limb by limb                                                        *)
Within(t, b0, b1, b2, b3, b4, b5, b6, b7, b8, b9) ==
  /\ -b0 <= t[0] /\ t[0] <= b0 /\ -b1 <= t[1] /\ t[1] <= b1
  /\ -b2 <= t[2] /\ t[2] <= b2 /\ -b3 <= t[3] /\ t[3] <= b3
  /\ -b4 <= t[4] /\ t[4] <= b4 /\ -b5 <= t[5] /\ t[5] <= b5
  /\ -b6 <= t[6] /\ t[6] <= b6 /\ -b7 <= t[7] /\ t[7] <= b7
  /\ -b8 <= t[8] /\ t[8] <= b8 /\ -b9 <= t[9] /\ t[9] <= b9

(* what a carry of at most k does                                          *)
Carried(t, u, i, n, k, half) ==
  /\ u \in Limbs10
  /\ -half <= u[i] /\ u[i] <= half
  /\ t[n] - k <= u[n] /\ u[n] <= t[n] + k
  /\ \A j \in 0..9 : j # i /\ j # n => u[j] = t[j]

(* an even limb of at most k radices carries at most k                     *)
LEMMA EvenBound ==
  ASSUME RadixCode, NEW t \in Limbs10, NEW i \in {0, 2, 4, 6, 8}, NEW k \in Nat,
         -(k * 67108864) <= t[i], t[i] <= k * 67108864
  PROVE  Carried(t, Carry(t, i), i, i + 1, k, P25)
<1> DEFINE c == CarryOf(t, i)
           u == Carry(t, i)
<1>1. c \in Int /\ u \in Limbs10 /\ u = CarryInto(t, i, c)
  BY CarryType, SMT DEF RadixCode, RadixOK
<1>2. t[i] \in Int /\ t[i + 1] \in Int /\ i + 1 \in 0..9 /\ Radix(i) = 67108864
  BY SMT DEF Limbs10, Radix, RadixCode
<1>3. c = (t[i] + 33554432) \div 67108864
  BY <1>2, SMT DEF CarryOf
<1>4. u[i] = t[i] - c * 67108864 /\ u[i + 1] = t[i + 1] + c
      /\ \A j \in 0..9 : j # i /\ j # i + 1 => u[j] = t[j]
  BY <1>1, <1>2, SMT DEF CarryInto
<1> HIDE DEF c, u
<1>5. /\ -k <= c /\ c <= k
      /\ -P25 <= t[i] - c * 67108864 /\ t[i] - c * 67108864 <= P25
  BY <1>2, <1>3, SMT DEF P25
<1>6. Carried(t, u, i, i + 1, k, P25)
  BY <1>1, <1>2, <1>4, <1>5, SMT DEF Carried
<1> QED BY <1>6, SMT DEF u

(* an odd one likewise, and the last carries FOLD times into the first     *)
LEMMA OddBound ==
  ASSUME RadixCode, NEW t \in Limbs10, NEW i \in {1, 3, 5, 7, 9}, NEW k \in Nat,
         -(k * 33554432) <= t[i], t[i] <= k * 33554432
  PROVE  IF i = 9 THEN Carried(t, Carry(t, i), i, 0, 19 * k, P24)
                  ELSE Carried(t, Carry(t, i), i, i + 1, k, P24)
<1> DEFINE c == CarryOf(t, i)
           u == Carry(t, i)
           n == (i + 1) % 10
<1>1. c \in Int /\ u \in Limbs10 /\ u = CarryInto(t, i, c)
  BY CarryType, SMT DEF RadixCode, RadixOK
<1>2. /\ t[i] \in Int /\ n \in 0..9 /\ t[n] \in Int /\ Radix(i) = 33554432
      /\ n = IF i = 9 THEN 0 ELSE i + 1
  BY SMT DEF Limbs10, Radix, RadixCode
<1>3. c = (t[i] + 16777216) \div 33554432
  BY <1>2, SMT DEF CarryOf
<1>4. /\ u[i] = t[i] - c * 33554432
      /\ u[n] = t[n] + (IF i = 9 THEN 19 * c ELSE c)
      /\ \A j \in 0..9 : j # i /\ j # n => u[j] = t[j]
  BY <1>1, <1>2, SMT DEF CarryInto, RadixCode
<1> HIDE DEF c, u, n
<1>5. /\ -k <= c /\ c <= k
      /\ -P24 <= t[i] - c * 33554432 /\ t[i] - c * 33554432 <= P24
  BY <1>2, <1>3, SMT DEF P24
<1>6. CASE i = 9
  <2>1. Carried(t, u, i, n, 19 * k, P24)
    BY <1>1, <1>2, <1>4, <1>5, <1>6, SMT DEF Carried
  <2> QED BY <1>2, <1>6, <2>1, SMT DEF u
<1>7. CASE i # 9
  <2>1. Carried(t, u, i, n, k, P24)
    BY <1>1, <1>2, <1>4, <1>5, <1>7, SMT DEF Carried
  <2> QED BY <1>2, <1>7, <2>1, SMT DEF u
<1> QED BY <1>6, <1>7

(* Limbs up to 2^62, which is what the product of two sums of reduced      *)
(* elements stays under, come out of the FE_CARRY macro with the bounds    *)
(* its comment argues for: 2^25 for the even limbs and 2^24 + 2^18 (less   *)
(* than 1.1 * 2^24) for the odd ones, so that they fit the 32 bits they    *)
(* are stored in and the next product.  The steps of the proof are those   *)
(* of the macro, and bound every limb on the way by 2^62 + 2^38: no sum of *)
(* 64 bits overflows.                                                      *)
THEOREM CarryChainBounded ==
  ASSUME RadixCode, NEW t \in Limbs10,
         Within(t, P62, P62, P62, P62, P62, P62, P62, P62, P62, P62)
  PROVE  LET u == FE_CARRY(t)
         IN  Within(u, P25, P24 + 262144, P25, P24 + 262144, P25,
                       P24 + 262144, P25, P24 + 262144, P25, P24 + 262144)
<1> DEFINE
     t1 == Carry(t, 0)
     t2 == Carry(t1, 4)
     t3 == Carry(t2, 1)
     t4 == Carry(t3, 5)
     t5 == Carry(t4, 2)
     t6 == Carry(t5, 6)
     t7 == Carry(t6, 3)
     t8 == Carry(t7, 7)
     t9 == Carry(t8, 4)
     t10 == Carry(t9, 8)
     t11 == Carry(t10, 9)
     t12 == Carry(t11, 0)
<1>0. FE_CARRY(t) = t12
  BY SMT DEF FE_CARRY, HalfChain
<1> HIDE DEF t1, t2, t3, t4, t5, t6, t7, t8, t9, t10, t11, t12
<1>1. t1 \in Limbs10 /\ Within(t1, 
          P25, P62 + 68719476736, P62, P62, P62, P62, P62, P62, P62, P62)
  <2>1. Carried(t, t1, 0, 1, 68719476736, P25)
    BY EvenBound, SMT DEF t1, Within, Limbs10, P62, P25, P24
  <2> QED BY <2>1, SMT DEF Carried, Within, Limbs10, P62, P25, P24
<1>2. t2 \in Limbs10 /\ Within(t2, 
          P25, P62 + 68719476736, P62, P62, P25, P62 + 68719476736, P62,
          P62, P62, P62)
  <2>1. Carried(t1, t2, 4, 5, 68719476736, P25)
    BY <1>1, EvenBound, SMT DEF t2, Within, Limbs10, P62, P25, P24
  <2> QED BY <1>1, <2>1, SMT DEF Carried, Within, Limbs10, P62, P25, P24
<1>3. t3 \in Limbs10 /\ Within(t3, 
          P25, P24, P62 + 274877906944, P62, P25, P62 + 68719476736, P62,
          P62, P62, P62)
  <2>1. Carried(t2, t3, 1, 2, 274877906944, P24)
    BY <1>2, OddBound, SMT DEF t3, Within, Limbs10, P62, P25, P24
  <2> QED BY <1>2, <2>1, SMT DEF Carried, Within, Limbs10, P62, P25, P24
<1>4. t4 \in Limbs10 /\ Within(t4, 
          P25, P24, P62 + 274877906944, P62, P25, P24, P62 + 274877906944,
          P62, P62, P62)
  <2>1. Carried(t3, t4, 5, 6, 274877906944, P24)
    BY <1>3, OddBound, SMT DEF t4, Within, Limbs10, P62, P25, P24
  <2> QED BY <1>3, <2>1, SMT DEF Carried, Within, Limbs10, P62, P25, P24
<1>5. t5 \in Limbs10 /\ Within(t5, 
          P25, P24, P25, P62 + 137438953472, P25, P24, P62 + 274877906944,
          P62, P62, P62)
  <2>1. Carried(t4, t5, 2, 3, 137438953472, P25)
    BY <1>4, EvenBound, SMT DEF t5, Within, Limbs10, P62, P25, P24
  <2> QED BY <1>4, <2>1, SMT DEF Carried, Within, Limbs10, P62, P25, P24
<1>6. t6 \in Limbs10 /\ Within(t6, 
          P25, P24, P25, P62 + 137438953472, P25, P24, P25,
          P62 + 137438953472, P62, P62)
  <2>1. Carried(t5, t6, 6, 7, 137438953472, P25)
    BY <1>5, EvenBound, SMT DEF t6, Within, Limbs10, P62, P25, P24
  <2> QED BY <1>5, <2>1, SMT DEF Carried, Within, Limbs10, P62, P25, P24
<1>7. t7 \in Limbs10 /\ Within(t7, 
          P25, P24, P25, P24, P25 + 274877906944, P24, P25,
          P62 + 137438953472, P62, P62)
  <2>1. Carried(t6, t7, 3, 4, 274877906944, P24)
    BY <1>6, OddBound, SMT DEF t7, Within, Limbs10, P62, P25, P24
  <2> QED BY <1>6, <2>1, SMT DEF Carried, Within, Limbs10, P62, P25, P24
<1>8. t8 \in Limbs10 /\ Within(t8, 
          P25, P24, P25, P24, P25 + 274877906944, P24, P25, P24,
          P62 + 274877906944, P62)
  <2>1. Carried(t7, t8, 7, 8, 274877906944, P24)
    BY <1>7, OddBound, SMT DEF t8, Within, Limbs10, P62, P25, P24
  <2> QED BY <1>7, <2>1, SMT DEF Carried, Within, Limbs10, P62, P25, P24
<1>9. t9 \in Limbs10 /\ Within(t9, 
          P25, P24, P25, P24, P25, P24 + 8192, P25, P24, P62 + 274877906944,
          P62)
  <2>1. Carried(t8, t9, 4, 5, 8192, P25)
    BY <1>8, EvenBound, SMT DEF t9, Within, Limbs10, P62, P25, P24
  <2> QED BY <1>8, <2>1, SMT DEF Carried, Within, Limbs10, P62, P25, P24
<1>10. t10 \in Limbs10 /\ Within(t10, 
          P25, P24, P25, P24, P25, P24 + 8192, P25, P24, P25,
          P62 + 137438953472)
  <2>1. Carried(t9, t10, 8, 9, 137438953472, P25)
    BY <1>9, EvenBound, SMT DEF t10, Within, Limbs10, P62, P25, P24
  <2> QED BY <1>9, <2>1, SMT DEF Carried, Within, Limbs10, P62, P25, P24
<1>11. t11 \in Limbs10 /\ Within(t11, 
          P25 + 19 * 274877906944, P24, P25, P24, P25, P24 + 8192, P25, P24,
          P25, P24)
  <2> DEFINE k == 274877906944
  <2>0. k \in Nat /\ k >= 274877906944
    BY SMT
  <2> HIDE DEF k
  <2>1. -(k * 33554432) <= t10[9] /\ t10[9] <= k * 33554432
    BY <1>10, <2>0, SMT DEF Within, Limbs10, P62, P25, P24
  <2>2. Carried(t10, t11, 9, 0, 19 * k, P24)
    BY <1>10, <2>0, <2>1, OddBound, SMT DEF t11
  <2> QED BY <1>10, <2>2, SMT DEF k, Carried, Within, Limbs10, P62, P25, P24
<1>12. t12 \in Limbs10 /\ Within(t12, 
          P25, P24 + 262144, P25, P24, P25, P24 + 8192, P25, P24, P25, P24)
  <2>1. Carried(t11, t12, 0, 1, 262144, P25)
    BY <1>11, EvenBound, SMT DEF t12, Within, Limbs10, P62, P25, P24
  <2> QED BY <1>11, <2>1, SMT DEF Carried, Within, Limbs10, P62, P25, P24
<1> QED BY <1>0, <1>12, SMT DEF Within, P25, P24, Limbs10

---------------------------------------------------------------------------
(* The packets of Seal, for every block size, every payload size and any   *)
(* number of packets.                                                      *)

ENC_MAX_PLEN == 247        \* SSH_ENC_MAX_PLEN
CHAN_CHUNK == 200          \* SSH_CHAN_CHUNK
Sealed(plen) == 4 + (1 + plen + padlen(plen)) + 16     \* what aead_seal writes

(* A sealed packet is padded to whole blocks of 8 with 4 bytes or more     *)
(* (ssh.c:217-219); it fits where its caller has room for it: in the       *)
(* plen + 32 bytes aead_seal asks for (ssh.c:202), in the buffer           *)
(* wire[4 + 256 + 16] of send_enc for every payload that passes its test   *)
(* (ssh.c:195-197, 235-241), and, for the 9 + n bytes of a CHANNEL_DATA    *)
(* packet with n bytes of data, in the wire[SSH_CHAN_CHUNK + 40] of the    *)
(* chunk sender (ssh.c:1303-1320, dosshd.c:373) for every n up to          *)
(* SSH_CHAN_CHUNK.                                                         *)
THEOREM SealedFits ==
  ASSUME NEW plen \in Nat
  PROVE  /\ padlen(plen) >= 4 /\ (1 + plen + padlen(plen)) % 8 = 0
         /\ Sealed(plen) <= plen + 32
         /\ plen <= ENC_MAX_PLEN => Sealed(plen) <= 4 + 256 + 16
         /\ plen <= 9 + CHAN_CHUNK => Sealed(plen) <= CHAN_CHUNK + 40
<1> DEFINE r == (1 + plen) % 8
           q == (1 + plen) \div 8
<1>1. r \in 0..7 /\ q \in Nat /\ 1 + plen = 8 * q + r
  BY SMT
<1>2. padlen(plen) = IF 8 - r < 4 THEN 16 - r ELSE 8 - r
  BY <1>1 DEF padlen
<1>3. 1 + plen + padlen(plen) = 8 * (IF 8 - r < 4 THEN q + 2 ELSE q + 1)
  BY <1>1, <1>2
<1>4. (1 + plen + padlen(plen)) % 8 = 0
  BY <1>1, <1>3, SMT
<1>5. padlen(plen) \in 4..11
  BY <1>1, <1>2
<1>6. ASSUME plen <= ENC_MAX_PLEN
      PROVE  1 + plen + padlen(plen) <= 256
  BY <1>1, <1>2, <1>6 DEF ENC_MAX_PLEN
<1>7. ASSUME plen <= 9 + CHAN_CHUNK
      PROVE  1 + plen + padlen(plen) <= CHAN_CHUNK + 20
  BY <1>1, <1>2, <1>7 DEF CHAN_CHUNK
<1> HIDE DEF r, q
<1> QED BY <1>4, <1>5, <1>6, <1>7 DEF Sealed, CHAN_CHUNK

---------------------------------------------------------------------------
(* what has been spent was spent on an earlier packet                      *)
SpentBefore == /\ send_seq \in Nat
               /\ \A u \in used.all : u[2] \in Nat /\ u[2] < send_seq

(* the two keys of a direction are two                                     *)
LEMMA KeysDiffer == k_main # k_header
BY DEF k_main, k_header, derive_key, Hash

(* one packet takes keystream of its own number, and none of it twice      *)
LEMMA OwnKeystream ==
  ASSUME NEW n, NEW plen \in Nat, NEW seq \in Nat
  PROVE  LET p == aead_seal(n, plen, seq)
         IN  /\ \A u \in p.uses \cup p.key : u[2] = seq
             /\ p.uses \cap p.key = {}
<1> DEFINE p == aead_seal(n, plen, seq)
           body == Framed(n, plen, padlen(plen))
           header == Keystream(k_header, seq, 0, 0)
           spent == {Keystream(k_main, seq, 1, i - 1) : i \in DOMAIN body}
<1>1. p.uses = {header} \cup spent /\ p.key = {polykey(seq)}
  BY DEF aead_seal
<1>2. header[1] = k_header /\ header[2] = seq
  BY DEF Keystream
<1>3. polykey(seq) = <<k_main, seq, 0 + (0 \div CHACHA), 0 % CHACHA>>
  BY DEF polykey, Keystream
<1>4. 0 + (0 \div CHACHA) = 0
  BY SealAssumption, SMT
<1>5. DOMAIN body \subseteq Nat \ {0}
  BY SealedFits DEF Framed, Payload
<1>6. ASSUME NEW u \in spent
      PROVE  u[2] = seq /\ u[3] # 0
  <2>1. PICK i \in DOMAIN body : u = Keystream(k_main, seq, 1, i - 1)
    BY <1>6
  <2>2. (i - 1) \div CHACHA \in Nat
    BY <1>5, SealAssumption, SMT
  <2> QED BY <2>1, <2>2 DEF Keystream
<1>7. polykey(seq)[2] = seq /\ polykey(seq)[3] = 0
  BY <1>3, <1>4
<1>8. header # polykey(seq)
  BY <1>2, <1>3, KeysDiffer
<1> HIDE DEF spent, header
<1>9. p.uses \cap p.key = {}
  BY <1>1, <1>6, <1>7, <1>8
<1> QED BY <1>1, <1>2, <1>6, <1>7, <1>9

(* The keystream of ChaCha20 is spent once: for every block size and       *)
(* payload, and any number of packets before and after NEWKEYS, the        *)
(* header, the key of the authenticator and the body of each packet take   *)
(* bytes no other takes (aead_seal's keys, nonce and counters,             *)
(* ssh.c:203-233; the sequence number is counted by every packet).         *)
THEOREM KeystreamSpentOnce == SealSpec => []KeystreamOnce
<1> DEFINE IInv == SpentBefore /\ KeystreamOnce
<1>1. SealInit => IInv
  BY DEF SealInit, SpentBefore, KeystreamOnce
<1>2. IInv /\ [SealNext]_sealvars => IInv'
  <2> SUFFICES ASSUME IInv, [SealNext]_sealvars PROVE IInv'
    OBVIOUS
  <2>1. ASSUME NEW plen \in Sizes, Send(plen) PROVE IInv'
    <3> DEFINE p == aead_seal(Len(sent) + 1, plen, send_seq)
    <3>1. plen \in Nat /\ send_seq \in Nat /\ send_seq' = send_seq + 1
      BY <2>1, SealAssumption DEF SpentBefore, Send
    <3>2. /\ \A u \in p.uses \cup p.key : u[2] = send_seq
          /\ p.uses \cap p.key = {}
      BY <3>1, OwnKeystream
    <3>3. used' = IF ~Keyed(Len(sent) + 1) THEN used
                  ELSE [all |-> used.all \cup p.uses \cup p.key,
                        twice |-> \/ used.twice \/ p.uses \cap p.key # {}
                                  \/ used.all \cap (p.uses \cup p.key) # {}]
      BY <2>1 DEF Send
    <3> HIDE DEF p
    <3>4. used.all \cap (p.uses \cup p.key) = {}
      BY <3>1, <3>2 DEF SpentBefore
    <3>5. CASE ~Keyed(Len(sent) + 1)
      BY <3>1, <3>3, <3>5 DEF SpentBefore, KeystreamOnce
    <3>6. CASE Keyed(Len(sent) + 1)
      <4>1. used'.all = used.all \cup p.uses \cup p.key
        BY <3>3, <3>6
      <4>2. ~used'.twice
        BY <3>2, <3>3, <3>4, <3>6 DEF KeystreamOnce
      <4> QED BY <3>1, <3>2, <4>1, <4>2 DEF SpentBefore, KeystreamOnce
    <3> QED BY <3>5, <3>6
  <2>2. ASSUME UNCHANGED <<send_seq, used>> PROVE IInv'
    BY <2>2 DEF SpentBefore, KeystreamOnce
  <2>3. ASSUME NEW k \in Pieces, Bytes(k) PROVE IInv'
    BY <2>2, <2>3 DEF Bytes
  <2>4. CASE Packet
    BY <2>2, <2>4 DEF Packet
  <2>5. CASE UNCHANGED sealvars
    BY <2>2, <2>5 DEF sealvars
  <2> QED BY <2>1, <2>3, <2>4, <2>5 DEF SealNext
<1>3. IInv => KeystreamOnce
  OBVIOUS
<1> QED BY <1>1, <1>2, <1>3, PTL DEF SealSpec

---------------------------------------------------------------------------
(* The keystroke decoder and the type-ahead ring of AnsiKey.               *)

(* The bytes; the provers know a literal as a string only when it is       *)
(* listed.                                                                 *)
Letter == STRING \cup {"CR", "BS", "ESC"}

(* What a slot of the type-ahead ring may hold.                            *)
KeyCode == {<<"none">>} \cup {<<"char", b>> : b \in Letter}
                        \cup {<<"scan", n>> : n \in Nat}

Decoder == [pend : Seq(Letter), age : 0..2, swallow : BOOLEAN, rb : 0..3]
Decodes(k) == k \in Decoder /\ Len(k.pend) <= PEND /\ (k.pend # <<>> => k.age \in 0..1)

LEMMA SeqMore ==
  ASSUME NEW S, NEW T, \A x \in S : x \in T, NEW s \in Seq(S)
  PROVE  s \in Seq(T)
OBVIOUS

LEMMA Sizes2 == PEND \in Nat /\ PEND >= 2 /\ RING \in Nat /\ RING >= 2
BY KeyAssumption, Zenon

LEMMA Strings == "CR" \in Letter /\ "BS" \in Letter /\ "ESC" \in Letter
BY Zenon DEF Letter

(* The keys of a byte are a sequence, whatever the escape sequence was.    *)
LEMMA KeysOf ==
  ASSUME NEW n, NEW f, NEW b \in Letter
  PROVE  /\ Scan(csi_tilde(n)) \in Seq(KeyCode) /\ Scan(csi_final(f)) \in Seq(KeyCode)
         /\ Scan(ss3_final(f)) \in Seq(KeyCode) /\ Char(b) \in Seq(KeyCode)
         /\ map_byte(b) \in Seq(KeyCode) /\ <<>> \in Seq(KeyCode)
<1>1. /\ csi_tilde(n) \in Nat /\ csi_final(f) \in Nat /\ ss3_final(f) \in Nat
  <2>1. csi_tilde(n) \in Nat
    BY DEF csi_tilde
  <2>2. csi_final(f) \in Nat
    BY DEF csi_final
  <2>3. ss3_final(f) \in Nat
    BY DEF ss3_final
  <2> QED BY <2>1, <2>2, <2>3
<1>2. ASSUME NEW sc \in Nat PROVE Scan(sc) \in Seq(KeyCode)
  <2>1. <<"scan", sc>> \in KeyCode
    BY Zenon DEF KeyCode
  <2> HIDE DEF KeyCode
  <2> QED BY <2>1 DEF Scan
<1>3. ASSUME NEW c \in Letter PROVE Char(c) \in Seq(KeyCode)
  <2>1. <<"char", c>> \in KeyCode
    BY Zenon DEF KeyCode
  <2> HIDE DEF KeyCode
  <2> QED BY <2>1 DEF Char
<1>4. <<>> \in Seq(KeyCode)
  OBVIOUS
<1>5. map_byte(b) \in Seq(KeyCode)
  <2>1. Char("CR") \in Seq(KeyCode) /\ Char("BS") \in Seq(KeyCode) /\ Char(b) \in Seq(KeyCode)
    BY <1>3, Strings, Zenon
  <2>2. map_byte(b) = Char("CR") \/ map_byte(b) = Char("BS") \/ map_byte(b) = <<>>
          \/ map_byte(b) = Char(b)
    BY SMT DEF map_byte
  <2> QED BY <1>4, <2>1, <2>2, Zenon
<1> QED BY <1>1, <1>2, <1>3, <1>4, <1>5, Zenon

(* The decoder may be given another pending sequence, short enough.        *)
LEMMA PendGiven ==
  ASSUME NEW k, Decodes(k), NEW p \in Seq(Letter), Len(p) <= PEND,
         NEW d, \/ d = [k EXCEPT !.pend = p] /\ k.age \in 0..1
                \/ d = [k EXCEPT !.pend = p, !.age = 0]
                \/ d = [k EXCEPT !.pend = p] /\ p = <<>>
  PROVE  Decodes(d) /\ d.rb = k.rb
<1>1. k \in Decoder
  BY DEF Decodes
<1>2. k.age \in 0..2 /\ 0 \in 0..2 /\ 0 \in 0..1
  BY <1>1 DEF Decoder
<1>3. CASE d = [k EXCEPT !.pend = p]
  <2>1. d \in Decoder /\ d.age = k.age /\ d.pend = p /\ d.rb = k.rb
    BY <1>1, <1>3, Zenon DEF Decoder
  <2>2. CASE k.age \in 0..1
    BY <2>1, <2>2, Zenon DEF Decodes
  <2>3. CASE p = <<>>
    BY <2>1, <2>3, Zenon DEF Decodes
  <2>4. CASE d = [k EXCEPT !.pend = p, !.age = 0]
    <3>1. d.age = 0
      BY <1>1, <2>4, Zenon DEF Decoder
    <3> QED BY <1>2, <2>1, <2>2, <3>1, Zenon
  <2> QED BY <2>2, <2>3, <2>4
<1>4. CASE d = [k EXCEPT !.pend = p, !.age = 0]
  <2>1. d \in Decoder /\ d.age = 0 /\ d.pend = p /\ d.rb = k.rb
    BY <1>1, <1>2, <1>4, Zenon DEF Decoder
  <2> QED BY <1>2, <2>1, Zenon DEF Decodes
<1> QED BY <1>3, <1>4

(* A byte with no sequence pending, and one with a sequence pending: the   *)
(* decoder stays within pend[], and the count of Ctrl-^ is not touched.    *)
Result(r, k) == /\ Decodes(r.dec) /\ r.dec.rb = k.rb /\ r.keys \in Seq(KeyCode)
                /\ r.reboot = FALSE

LEMMA ResultGives ==
  ASSUME NEW d, NEW k, Decodes(d), d.rb = k.rb, NEW ks, ks \in Seq(KeyCode)
  PROVE  Result(Gives(d, ks), k)
<1> DEFINE g == Gives(d, ks)
<1>1. g.dec = d /\ g.keys = ks /\ g.reboot = FALSE
  BY DEF Gives
<1> HIDE DEF g
<1>2. Result(g, k)
  BY <1>1, Zenon DEF Result
<1> QED BY <1>2 DEF g

LEMMA FreshGives ==
  ASSUME NEW k, Decodes(k), NEW b \in Letter
  PROVE  Result(Fresh(k, b), k)
<1> DEFINE e == [k EXCEPT !.pend = <<"ESC">>, !.age = 0]
           w == [k EXCEPT !.swallow = TRUE]
<1>0. k \in Decoder
  BY Zenon DEF Decodes
<1>1. Decodes(e) /\ e.rb = k.rb
  <2> DEFINE p == <<"ESC">>
  <2>1. p \in Seq(Letter) /\ Len(p) <= PEND
    BY Sizes2, Strings
  <2>2. e = [k EXCEPT !.pend = p, !.age = 0]
    OBVIOUS
  <2> HIDE DEF p, e
  <2> QED BY <2>1, <2>2, PendGiven, Zenon
<1>2. Decodes(w) /\ w.rb = k.rb
  <2>1. w \in Decoder /\ w.pend = k.pend /\ w.age = k.age /\ w.rb = k.rb
    BY <1>0, Zenon DEF Decoder
  <2> QED BY <2>1, Zenon DEF Decodes
<1>3. /\ Char("CR") \in Seq(KeyCode) /\ map_byte(b) \in Seq(KeyCode)
      /\ <<>> \in Seq(KeyCode)
  BY KeysOf, Strings, Zenon
<1> HIDE DEF e, w
<1>4. \/ Fresh(k, b) = Gives(e, <<>>) \/ Fresh(k, b) = Gives(w, Char("CR"))
      \/ Fresh(k, b) = Gives(k, map_byte(b))
  BY SMT DEF Fresh, e, w
<1>5. k.rb = k.rb
  OBVIOUS
<1> QED BY <1>1, <1>2, <1>3, <1>4, <1>5, ResultGives, Zenon

LEMMA PendingGives ==
  ASSUME NEW k, Decodes(k), k.pend # <<>>, k.age = 0, NEW b \in Letter
  PROVE  Result(Pending(k, b), k)
<1> DEFINE a == [k EXCEPT !.pend = Append(@, b)]
           z == Nothing(k)
           f == Fresh(z, b)
           g == [f EXCEPT !.keys = Char("ESC") \o @]
<1>0. k \in Decoder /\ k.pend \in Seq(Letter) /\ Len(k.pend) \in Nat
  <2>1. k \in Decoder
    BY Zenon DEF Decodes
  <2>2. k.pend \in Seq(Letter)
    BY <2>1, Zenon DEF Decoder
  <2> QED BY <2>1, <2>2
<1>1. Decodes(z) /\ z.rb = k.rb
  <2>1. <<>> \in Seq(Letter) /\ Len(<<>>) <= PEND
    BY Sizes2
  <2> QED BY <2>1, PendGiven, Zenon DEF Nothing
<1>2. ASSUME Len(k.pend) < PEND PROVE Decodes(a) /\ a.rb = k.rb
  <2>1. Append(k.pend, b) \in Seq(Letter) /\ Len(Append(k.pend, b)) = Len(k.pend) + 1
    BY <1>0
  <2>2. Len(Append(k.pend, b)) <= PEND /\ k.age \in 0..1
    BY <1>0, <1>2, <2>1, Sizes2
  <2>3. a = [k EXCEPT !.pend = Append(k.pend, b)]
    OBVIOUS
  <2> QED BY <2>1, <2>2, <2>3, PendGiven, Zenon
<1>3. Result(g, k)
  <2>1. Result(f, k)
    BY <1>1, FreshGives, Zenon DEF Result
  <2>2. \E x, y : f = Gives(x, y)
    BY SMT DEF Fresh
  <2>3. PICK x, y : f = Gives(x, y)
    BY <2>2
  <2> HIDE DEF f
  <2>4. f.dec = x /\ f.keys = y
    BY <2>3 DEF Gives
  <2>5. Char("ESC") \o y \in Seq(KeyCode)
    <3>1. y \in Seq(KeyCode)
      BY <2>1, <2>4, Zenon DEF Result
    <3>2. Char("ESC") \in Seq(KeyCode)
      BY KeysOf, Strings, Zenon
    <3> QED BY <3>1, <3>2
  <2>6. g = Gives(x, Char("ESC") \o y)
    <3> DEFINE w == Char("ESC") \o y
    <3>1. g = [f EXCEPT !.keys = w]
      BY <2>4
    <3> HIDE DEF w, g
    <3>2. g = Gives(x, w)
      BY <2>3, <3>1 DEF Gives
    <3> QED BY <3>2 DEF w
  <2> HIDE DEF g
  <2>7. Decodes(x) /\ x.rb = k.rb
    BY <2>1, <2>4, Zenon DEF Result
  <2> QED BY <2>5, <2>6, <2>7, ResultGives, Zenon
<1>4. ASSUME NEW ks \in Seq(KeyCode)
      PROVE  Result(Gives(z, ks), k) /\ Result(Gives(k, ks), k)
             /\ (Len(k.pend) < PEND => Result(Gives(a, ks), k))
  BY <1>1, <1>2, <1>4, ResultGives, Zenon
<1>5. <<>> \in Seq(KeyCode) /\ finish_csi(k.pend, b) \in Seq(KeyCode)
      /\ Scan(ss3_final(b)) \in Seq(KeyCode)
  <2>1. finish_csi(k.pend, b) = Scan(csi_tilde(Number(k.pend)))
          \/ finish_csi(k.pend, b) = Scan(csi_final(b))
    BY Zenon DEF finish_csi
  <2> QED BY <2>1, KeysOf, Zenon
<1>6. Len(k.pend) = 1 => Len(k.pend) < PEND
  BY Sizes2
<1> HIDE DEF a, z, f, g
<1>7. \/ Pending(k, b) = Gives(a, <<>>) /\ Len(k.pend) < PEND
      \/ Pending(k, b) = g
      \/ Pending(k, b) = Gives(k, <<>>)
      \/ Pending(k, b) = Gives(z, finish_csi(k.pend, b))
      \/ Pending(k, b) = Gives(z, Scan(ss3_final(b)))
  BY <1>6, Zenon DEF Pending, a, z, f, g
<1> QED BY <1>3, <1>4, <1>5, <1>7, Zenon

(* ansi_key_byte (ansikey.c:116-167): a reboot is asked for by a Y on a    *)
(* full count of Ctrl-^, and any byte but Ctrl-^ starts the count afresh.  *)
Heeds(k, b, r) ==
  /\ Decodes(r.dec) /\ r.keys \in Seq(KeyCode)
  /\ r.reboot = (b \in {"Y", "y"} /\ k.rb = 3)
  /\ b = "RS" => r.dec.rb = (IF k.rb < 3 THEN k.rb + 1 ELSE k.rb)
  /\ b # "RS" => r.dec.rb = 0

LEMMA ByteGives ==
  ASSUME NEW k, Decodes(k), NEW b \in Letter, NEW r, r = ansi_key_byte(k, b)
  PROVE  Heeds(k, b, r)
<1> DEFINE calm == [k EXCEPT !.rb = 0, !.swallow = FALSE]
           up == [k EXCEPT !.rb = IF @ < 3 THEN @ + 1 ELSE @]
           zero == [k EXCEPT !.rb = 0]
           young == [calm EXCEPT !.age = 0]
<1>0. k \in Decoder /\ k.rb \in 0..3 /\ k.pend \in Seq(Letter)
  <2>1. k \in Decoder
    BY Zenon DEF Decodes
  <2> QED BY <2>1, Zenon DEF Decoder
<1>1. 0 \in 0..3 /\ 0 \in 0..2 /\ 0 \in 0..1 /\ FALSE \in BOOLEAN
      /\ (IF k.rb < 3 THEN k.rb + 1 ELSE k.rb) \in 0..3
  BY <1>0
<1>2. /\ Decodes(calm) /\ calm.rb = 0 /\ calm.pend = k.pend
  <2>1. calm \in Decoder /\ calm.rb = 0 /\ calm.pend = k.pend /\ calm.age = k.age
    BY <1>0, <1>1, Zenon DEF Decoder
  <2> QED BY <2>1, Zenon DEF Decodes
<1>3. Decodes(zero) /\ zero.rb = 0
  <2>1. zero \in Decoder /\ zero.rb = 0 /\ zero.pend = k.pend /\ zero.age = k.age
    BY <1>0, <1>1, Zenon DEF Decoder
  <2> QED BY <2>1, Zenon DEF Decodes
<1>4. Decodes(up) /\ up.rb = IF k.rb < 3 THEN k.rb + 1 ELSE k.rb
  <2> DEFINE v == IF k.rb < 3 THEN k.rb + 1 ELSE k.rb
  <2>1. up = [k EXCEPT !.rb = v] /\ v \in 0..3
    BY <1>1
  <2> HIDE DEF v, up
  <2>2. up \in Decoder /\ up.rb = v /\ up.pend = k.pend /\ up.age = k.age
    BY <1>0, <2>1, Zenon DEF Decoder
  <2>3. Decodes(up)
    BY <2>2, Zenon DEF Decodes
  <2> QED BY <2>2, <2>3 DEF v
<1> HIDE DEF calm
<1>5. /\ Decodes(young) /\ young.rb = 0 /\ young.pend = k.pend /\ young.age = 0
  <2>0. calm \in Decoder
    BY <1>2, Zenon DEF Decodes
  <2>1. young \in Decoder /\ young.rb = 0 /\ young.pend = k.pend /\ young.age = 0
    BY <1>1, <1>2, <2>0, Zenon DEF Decoder
  <2>2. Len(k.pend) <= PEND
    BY Zenon DEF Decodes
  <2> QED BY <1>1, <2>1, <2>2, Zenon DEF Decodes
<1> HIDE DEF up, zero, young
<1>6. <<>> \in Seq(KeyCode)
  BY KeysOf, Zenon
<1>7. CASE b = "RS"
  <2>1. r = Gives(up, <<>>) /\ b \notin {"Y", "y"}
    BY <1>7 DEF ansi_key_byte, up
  <2>2. r.dec = up /\ r.keys = <<>> /\ r.reboot = FALSE
    BY <2>1 DEF Gives
  <2> QED BY <1>4, <1>6, <1>7, <2>1, <2>2, Zenon DEF Heeds
<1>8. CASE b # "RS" /\ k.rb >= 3 /\ b \in {"Y", "y"}
  <2>1. r = [Gives(zero, <<>>) EXCEPT !.reboot = TRUE] /\ k.rb = 3
    BY <1>0, <1>8 DEF ansi_key_byte, zero
  <2>2. r.dec = zero /\ r.keys = <<>> /\ r.reboot = TRUE
    BY <2>1 DEF Gives
  <2> QED BY <1>3, <1>6, <1>8, <2>1, <2>2 DEF Heeds
<1>9. CASE b # "RS" /\ ~(k.rb >= 3 /\ b \in {"Y", "y"})
  <2>1. \/ r = Gives(calm, <<>>)
        \/ r = Fresh(calm, b)
        \/ r = Pending(young, b) /\ k.pend # <<>>
    BY <1>9, Zenon DEF ansi_key_byte, calm, young
  <2>2. Result(Gives(calm, <<>>), calm) /\ Result(Fresh(calm, b), calm)
    BY <1>2, <1>6, ResultGives, FreshGives, Zenon
  <2>3. k.pend # <<>> => Result(Pending(young, b), young)
    BY <1>5, PendingGives, Zenon
  <2>4. Result(r, calm) \/ Result(r, young)
    BY <2>1, <2>2, <2>3, Zenon
  <2>5. Decodes(r.dec) /\ r.dec.rb = 0 /\ r.keys \in Seq(KeyCode) /\ r.reboot = FALSE
    BY <1>2, <1>5, <2>4, Zenon DEF Result
  <2>6. ~(b \in {"Y", "y"} /\ k.rb = 3)
    BY <1>9
  <2> QED BY <1>9, <2>5, <2>6 DEF Heeds
<1> QED BY <1>7, <1>8, <1>9

(* ansi_key_tick leaves the count of Ctrl-^ alone.                         *)
LEMMA TickGives ==
  ASSUME Decodes(dec), ansi_key_tick
  PROVE  /\ Decodes(dec') /\ dec'.rb = dec.rb
         /\ \E ks \in Seq(KeyCode) : inject_key(ks)
<1> DEFINE old == dec.pend # <<>> /\ dec.age + 1 >= 2
           ks == IF old /\ Len(dec.pend) = 1 THEN Char("ESC") ELSE <<>>
           n == dec.age + 1
<1>0. dec \in Decoder /\ dec.age \in 0..2
  <2>1. dec \in Decoder
    BY Zenon DEF Decodes
  <2> QED BY <2>1, Zenon DEF Decoder
<1>1. ks \in Seq(KeyCode)
  BY KeysOf, Strings, Zenon
<1>2. inject_key(ks)
  BY Zenon DEF ansi_key_tick
<1>3. Decodes(dec') /\ dec'.rb = dec.rb
  <2>1. CASE old
    <3>0. n \in 0..2 /\ <<>> \in Seq(Letter) /\ Len(<<>>) <= PEND
      BY <1>0, <2>1, Sizes2 DEF Decodes
    <3>1. dec' = [[dec EXCEPT !.pend = <<>>] EXCEPT !.age = n]
      BY <1>0, <2>1 DEF ansi_key_tick, Nothing, Decoder
    <3> HIDE DEF n
    <3>2. dec' \in Decoder /\ dec'.pend = <<>> /\ dec'.rb = dec.rb
      BY <1>0, <3>0, <3>1, Zenon DEF Decoder
    <3> QED BY <3>0, <3>2, Zenon DEF Decodes
  <2>2. CASE ~old
    <3> DEFINE v == IF dec.pend = <<>> THEN dec.age ELSE n
    <3>1. dec' = [dec EXCEPT !.age = v]
      BY <2>2 DEF ansi_key_tick
    <3>2. v \in 0..2 /\ (dec.pend # <<>> => v \in 0..1)
      BY <1>0, <2>2
    <3> HIDE DEF v
    <3>3. dec' \in Decoder /\ dec'.pend = dec.pend /\ dec'.rb = dec.rb /\ dec'.age = v
      BY <1>0, <3>1, <3>2, Zenon DEF Decoder
    <3>4. Len(dec.pend) <= PEND
      BY Zenon DEF Decodes
    <3> QED BY <3>2, <3>3, <3>4, Zenon DEF Decodes
  <2> QED BY <2>1, <2>2
<1> HIDE DEF ks
<1> QED BY <1>1, <1>2, <1>3

---------------------------------------------------------------------------
(* The type-ahead ring: its indices wrap.                                  *)
Wrap(x) == IF x < 0 THEN x + RING ELSE IF x < RING THEN x ELSE x - RING

LEMMA Wrapped ==
  ASSUME NEW x \in Int, -RING <= x, x < 2 * RING
  PROVE  x % RING = Wrap(x) /\ Wrap(x) \in 0..(RING - 1)
<1>1. RING \in Nat \ {0}
  BY Sizes2
<1>2. CASE x < 0
  BY <1>1, <1>2 DEF Wrap
<1>3. CASE x >= 0 /\ x < RING
  BY <1>1, <1>3 DEF Wrap
<1>4. CASE x >= RING
  BY <1>1, <1>4 DEF Wrap
<1> QED BY <1>1, <1>2, <1>3, <1>4

(* The keys in the ring follow the keys read.                              *)
Ringed(h, t, s, kp, tk) ==
  /\ h \in 0..(RING - 1) /\ t \in 0..(RING - 1) /\ s \in [0..(RING - 1) -> KeyCode]
  /\ kp \in Seq(KeyCode) /\ tk \in Seq(KeyCode)
  /\ Len(kp) = Len(tk) + Wrap(t - h)
  /\ \A i \in 1..Len(tk) : kp[i] = tk[i]
  /\ \A i \in 1..Wrap(t - h) : kp[Len(tk) + i] = s[Wrap(h + i - 1)]

LEMMA JoinedKeys ==
  ASSUME NEW s \in Seq(KeyCode), NEW t \in Seq(KeyCode)
  PROVE  /\ s \o t \in Seq(KeyCode) /\ Len(s \o t) = Len(s) + Len(t)
         /\ \A i \in 1..Len(s) : (s \o t)[i] = s[i]
         /\ \A i \in 1..Len(t) : (s \o t)[Len(s) + i] = t[i]
OBVIOUS

Joins(s, t, u) ==
  /\ s \in Seq(KeyCode) /\ t \in Seq(KeyCode) /\ u \in Seq(KeyCode)
  /\ Len(u) = Len(s) + Len(t)
  /\ \A i \in 1..Len(s) : u[i] = s[i]
  /\ \A i \in 1..Len(t) : u[Len(s) + i] = t[i]

LEMMA KeysJoin ==
  ASSUME NEW s, NEW t, NEW u, Joins(s, t, u)
  PROVE  u = s \o t
<1> DEFINE v == s \o t
           l == Len(s)
           n == Len(t)
<1>0. /\ s \in Seq(KeyCode) /\ t \in Seq(KeyCode) /\ u \in Seq(KeyCode) /\ Len(u) = l + n
      /\ \A i \in 1..l : u[i] = s[i]
      /\ \A i \in 1..n : u[l + i] = t[i]
  BY Zenon DEF Joins
<1>1. /\ v \in Seq(KeyCode) /\ Len(v) = l + n /\ l \in Nat /\ n \in Nat
      /\ \A i \in 1..l : v[i] = s[i]
      /\ \A i \in 1..n : v[l + i] = t[i]
  BY <1>0, JoinedKeys
<1> HIDE DEF v, l, n
<1>2. ASSUME NEW i \in 1..Len(u) PROVE u[i] = v[i]
  <2>1. i \in 1..l \/ (i - l \in 1..n /\ l + (i - l) = i)
    BY <1>0, <1>1
  <2> QED BY <1>0, <1>1, <2>1, Zenon
<1>3. Len(u) = Len(v)
  BY <1>0, <1>1
<1>4. u = v
  BY <1>0, <1>1, <1>2, <1>3
<1> QED BY <1>4 DEF v

(* Where m keys go in behind the n keys of the ring.                       *)
LEMMA RoomArith ==
  ASSUME NEW h \in 0..(RING - 1), NEW t \in 0..(RING - 1), NEW n, n = Wrap(t - h)
  PROVE  /\ n \in 0..(RING - 1) /\ Wrap(h - t - 1) = RING - 1 - n
         /\ \A m \in 0..(RING - 1 - n) :
              /\ Wrap(t + m) \in 0..(RING - 1) /\ Wrap(Wrap(t + m) - h) = n + m
              /\ \A i \in 1..n : 1 + Wrap(Wrap(h + i - 1) - t) > m
         /\ \A m \in 1..(RING - 1 - n) : Wrap(Wrap(h + (n + m) - 1) - t) = m - 1
         /\ \A i \in 1..RING : Wrap(h + i - 1) \in 0..(RING - 1)
<1>0. RING \in Nat /\ RING >= 2
  BY Sizes2
<1>1. n \in 0..(RING - 1) /\ Wrap(h - t - 1) = RING - 1 - n
  BY <1>0 DEF Wrap
<1>2. ASSUME NEW m \in 0..(RING - 1 - n)
      PROVE  Wrap(t + m) \in 0..(RING - 1) /\ Wrap(Wrap(t + m) - h) = n + m
  BY <1>0, <1>1 DEF Wrap
<1>3. ASSUME NEW m \in 0..(RING - 1 - n), NEW i \in 1..n
      PROVE  1 + Wrap(Wrap(h + i - 1) - t) > m
  BY <1>0, <1>1 DEF Wrap
<1>4. ASSUME NEW m \in 1..(RING - 1 - n)
      PROVE  Wrap(Wrap(h + (n + m) - 1) - t) = m - 1
  BY <1>0, <1>1 DEF Wrap
<1>5. ASSUME NEW i \in 1..RING PROVE Wrap(h + i - 1) \in 0..(RING - 1)
  BY <1>0 DEF Wrap
<1> QED BY <1>1, <1>2, <1>3, <1>4, <1>5

LEMMA InjectRing ==
  ASSUME Ringed(head, tail, slot, kept, taken), NEW ks \in Seq(KeyCode), inject_key(ks)
  PROVE  Ringed(head', tail', slot', kept', taken)
<1> DEFINE n == Wrap(tail - head)
           room == (head - tail - 1) % RING
           m == IF Len(ks) < room THEN Len(ks) ELSE room
           in == SubSeq(ks, 1, m)
           T == Len(taken)
<1>0. RING \in Nat /\ RING >= 2
  BY Sizes2
<1>1. /\ head \in 0..(RING - 1) /\ tail \in 0..(RING - 1)
      /\ slot \in [0..(RING - 1) -> KeyCode] /\ kept \in Seq(KeyCode) /\ taken \in Seq(KeyCode)
      /\ Len(kept) = T + n
      /\ \A i \in 1..T : kept[i] = taken[i]
      /\ \A i \in 1..n : kept[T + i] = slot[Wrap(head + i - 1)]
  BY Zenon DEF Ringed
<1>2. n \in 0..(RING - 1) /\ room = RING - 1 - n
  <2>1. head - tail - 1 \in Int /\ -RING <= head - tail - 1 /\ head - tail - 1 < 2 * RING
    BY <1>0, <1>1
  <2>2. room = Wrap(head - tail - 1)
    BY <2>1, Wrapped
  <2> QED BY <1>1, <2>2, RoomArith
<1>3. /\ tail' = (tail + Len(in)) % RING /\ kept' = kept \o in /\ head' = head
      /\ slot' = [i \in 0..(RING - 1) |->
                    IF 1 + ((i - tail) % RING) <= Len(in) THEN in[1 + ((i - tail) % RING)]
                    ELSE slot[i]]
  BY Zenon DEF inject_key
<1>4. m \in 0..Len(ks) /\ m \in 0..(RING - 1 - n)
  <2>1. Len(ks) \in Nat
    OBVIOUS
  <2> HIDE DEF room, n
  <2> QED BY <1>0, <1>2, <2>1
<1> HIDE DEF m, room
<1>5. /\ in \in Seq(KeyCode) /\ Len(in) = m /\ \A k \in 1..m : in[k] \in KeyCode
  <2>1. in \in Seq(KeyCode) /\ Len(in) = m
    BY <1>4
  <2> QED BY <2>1
<1> HIDE DEF in, n
<1>6. tail' = Wrap(tail + m) /\ tail' \in 0..(RING - 1) /\ Wrap(tail' - head') = n + m
  <2>1. tail + m \in Int /\ -RING <= tail + m /\ tail + m < 2 * RING
    BY <1>0, <1>1, <1>2, <1>4
  <2>2. tail' = Wrap(tail + m)
    BY <1>3, <1>5, <2>1, Wrapped
  <2> QED BY <1>1, <1>3, <1>4, <2>2, RoomArith DEF n
<1>7. ASSUME NEW i \in 0..(RING - 1)
      PROVE  slot'[i] = IF 1 + Wrap(i - tail) <= m THEN in[1 + Wrap(i - tail)] ELSE slot[i]
  <2>1. i - tail \in Int /\ -RING <= i - tail /\ i - tail < 2 * RING
    BY <1>0, <1>1
  <2>2. (i - tail) % RING = Wrap(i - tail)
    BY <2>1, Wrapped
  <2>3. slot'[i] = IF 1 + ((i - tail) % RING) <= Len(in) THEN in[1 + ((i - tail) % RING)]
                   ELSE slot[i]
    BY <1>3, Zenon
  <2> QED BY <1>5, <2>2, <2>3, Zenon
<1>8. slot' \in [0..(RING - 1) -> KeyCode]
  <2>1. ASSUME NEW i \in 0..(RING - 1) PROVE slot'[i] \in KeyCode
    <3>1. i - tail \in Int /\ -RING <= i - tail /\ i - tail < 2 * RING
      BY <1>0, <1>1
    <3>2. Wrap(i - tail) \in 0..(RING - 1)
      BY <3>1, Wrapped
    <3>3. 1 + Wrap(i - tail) <= m => 1 + Wrap(i - tail) \in 1..m
      BY <1>0, <1>2, <1>4, <3>2
    <3> QED BY <1>1, <1>5, <1>7, <3>3, Zenon
  <2> QED BY <1>3, <2>1, Zenon
<1>9. /\ kept' \in Seq(KeyCode) /\ Len(kept') = (T + n) + m /\ T \in Nat
      /\ \A i \in 1..(T + n) : kept'[i] = kept[i]
      /\ \A i \in 1..m : kept'[(T + n) + i] = in[i]
  <2>1. /\ kept' \in Seq(KeyCode) /\ Len(kept') = Len(kept) + Len(in)
        /\ \A i \in 1..Len(kept) : kept'[i] = kept[i]
        /\ \A i \in 1..Len(in) : kept'[Len(kept) + i] = in[i]
    <3> DEFINE x == kept
    <3>1. x \in Seq(KeyCode) /\ kept' = x \o in
      BY <1>1, <1>3
    <3> HIDE DEF x
    <3>2. /\ x \o in \in Seq(KeyCode) /\ Len(x \o in) = Len(x) + Len(in)
          /\ \A i \in 1..Len(x) : (x \o in)[i] = x[i]
          /\ \A i \in 1..Len(in) : (x \o in)[Len(x) + i] = in[i]
      BY <1>5, <3>1, JoinedKeys
    <3> QED BY <3>1, <3>2, Zenon DEF x
  <2>2. T \in Nat
    BY <1>1
  <2> QED BY <1>1, <1>5, <2>1, <2>2, Zenon
<1> HIDE DEF T
<1>10. ASSUME NEW i \in 1..T PROVE kept'[i] = taken[i]
  <2>1. i \in 1..(T + n)
    BY <1>0, <1>2, <1>9
  <2> QED BY <1>1, <1>9, <2>1, Zenon
<1>11. ASSUME NEW i \in 1..(n + m) PROVE kept'[T + i] = slot'[Wrap(head' + i - 1)]
  <2> DEFINE w == Wrap(head + i - 1)
  <2>0. i \in 1..RING /\ w \in 0..(RING - 1)
    <3>1. i \in 1..RING
      BY <1>0, <1>2, <1>4
    <3> QED BY <1>1, <3>1, RoomArith DEF n
  <2>1. CASE i <= n
    <3>1. i \in 1..n /\ T + i \in 1..(T + n)
      BY <1>0, <1>2, <1>9, <2>1
    <3>2. 1 + Wrap(w - tail) > m
      BY <1>1, <1>4, <3>1, RoomArith DEF n
    <3> HIDE DEF w
    <3>3. ~(1 + Wrap(w - tail) <= m)
      <4>1. w - tail \in Int /\ -RING <= w - tail /\ w - tail < 2 * RING
        BY <1>0, <1>1, <2>0
      <4>2. Wrap(w - tail) \in 0..(RING - 1)
        BY <4>1, Wrapped
      <4> QED BY <1>0, <1>2, <1>4, <3>2, <4>2
    <3>4. slot'[w] = slot[w]
      BY <1>7, <2>0, <3>3, Zenon
    <3> QED BY <1>1, <1>3, <1>9, <3>1, <3>4, Zenon DEF w
  <2>2. CASE i > n
    <3> DEFINE j == i - n
    <3>1. j \in 1..m /\ j \in 1..(RING - 1 - n) /\ n + j = i /\ (T + n) + j = T + i
          /\ 1 + (j - 1) = j /\ j <= m
      BY <1>0, <1>2, <1>4, <1>9, <2>2
    <3> HIDE DEF j
    <3>2. Wrap(w - tail) = j - 1
      <4>1. Wrap(Wrap(head + (n + j) - 1) - tail) = j - 1
        BY <1>1, <3>1, RoomArith DEF n
      <4> QED BY <3>1, <4>1, Zenon
    <3> HIDE DEF w
    <3>3. slot'[w] = in[j]
      BY <1>7, <2>0, <3>1, <3>2, Zenon
    <3>4. kept'[T + i] = in[j]
      BY <1>9, <3>1, Zenon
    <3> QED BY <1>3, <3>3, <3>4, Zenon DEF w
  <2>3. i <= n \/ i > n
    BY <1>2, <1>4
  <2> QED BY <2>1, <2>2, <2>3
<1>12. Len(kept') = T + (n + m)
  BY <1>2, <1>4, <1>9
<1> QED BY <1>1, <1>3, <1>6, <1>8, <1>9, <1>10, <1>11, <1>12, Zenon DEF Ringed, T

LEMMA ReadArith ==
  ASSUME NEW h \in 0..(RING - 1), NEW t \in 0..(RING - 1), h # t,
         NEW n, n = Wrap(t - h), NEW k, k = Wrap(h + 1)
  PROVE  /\ n \in 1..(RING - 1) /\ Wrap(t - k) = n - 1 /\ k \in 0..(RING - 1)
         /\ \A i \in 1..(n - 1) : Wrap(k + i - 1) = Wrap(h + (i + 1) - 1)
<1>0. RING \in Nat /\ RING >= 2
  BY Sizes2
<1>1. n \in 1..(RING - 1) /\ k \in 0..(RING - 1)
  BY <1>0 DEF Wrap
<1>2. Wrap(t - k) = n - 1
  BY <1>0, <1>1 DEF Wrap
<1>3. ASSUME NEW i \in 1..(n - 1) PROVE Wrap(k + i - 1) = Wrap(h + (i + 1) - 1)
  BY <1>0, <1>1 DEF Wrap
<1> QED BY <1>1, <1>2, <1>3

LEMMA ReadRing ==
  ASSUME Ringed(head, tail, slot, kept, taken), DosReads
  PROVE  Ringed(head', tail', slot', kept', taken')
<1> DEFINE n == Wrap(tail - head)
           T == Len(taken)
<1>0. RING \in Nat /\ RING >= 2
  BY Sizes2
<1>1. /\ head \in 0..(RING - 1) /\ tail \in 0..(RING - 1)
      /\ slot \in [0..(RING - 1) -> KeyCode] /\ kept \in Seq(KeyCode) /\ taken \in Seq(KeyCode)
      /\ Len(kept) = T + n
      /\ \A i \in 1..T : kept[i] = taken[i]
      /\ \A i \in 1..n : kept[T + i] = slot[Wrap(head + i - 1)]
  BY Zenon DEF Ringed
<1>2. /\ head # tail /\ taken' = Append(taken, slot[head]) /\ head' = (head + 1) % RING
      /\ tail' = tail /\ slot' = slot /\ kept' = kept
  BY Zenon DEF DosReads, After
<1>3. head' = Wrap(head + 1)
  <2>1. head + 1 \in Int /\ -RING <= head + 1 /\ head + 1 < 2 * RING
    BY <1>0, <1>1
  <2> QED BY <1>2, <2>1, Wrapped
<1>4. /\ n \in 1..(RING - 1) /\ Wrap(tail - head') = n - 1 /\ head' \in 0..(RING - 1)
      /\ Wrap(head + 1 - 1) = head
      /\ \A i \in 1..(n - 1) : Wrap(head' + i - 1) = Wrap(head + (i + 1) - 1)
  <2>1. /\ n \in 1..(RING - 1) /\ Wrap(tail - head') = n - 1 /\ head' \in 0..(RING - 1)
    BY <1>1, <1>2, <1>3, ReadArith
  <2>2. Wrap(head + 1 - 1) = head
    BY <1>0, <1>1 DEF Wrap
  <2>3. \A i \in 1..(n - 1) : Wrap(head' + i - 1) = Wrap(head + (i + 1) - 1)
    BY <1>1, <1>2, <1>3, ReadArith
  <2> QED BY <2>1, <2>2, <2>3
<1> HIDE DEF n
<1>5. slot[head] \in KeyCode
  BY <1>1, Zenon
<1>6. /\ taken' \in Seq(KeyCode) /\ Len(taken') = T + 1 /\ T \in Nat
      /\ \A i \in 1..T : taken'[i] = taken[i]
      /\ taken'[T + 1] = slot[head]
  BY <1>1, <1>2, <1>5
<1> HIDE DEF T
<1>7. Len(kept') = Len(taken') + (n - 1)
  <2>1. Len(kept') = T + n /\ Len(taken') = T + 1
    BY <1>1, <1>2, <1>6, Zenon
  <2>2. T + n = (T + 1) + (n - 1)
    BY <1>0, <1>4, <1>6
  <2> QED BY <2>1, <2>2, Zenon
<1>8. ASSUME NEW i \in 1..Len(taken') PROVE kept'[i] = taken'[i]
  <2>1. i \in 1..T \/ i = T + 1
    BY <1>6
  <2>2. 1 \in 1..n
    BY <1>0, <1>4
  <2>3. kept[T + 1] = slot[head]
    BY <1>1, <1>4, <2>2, Zenon
  <2> QED BY <1>1, <1>2, <1>6, <2>1, <2>3, Zenon
<1>9. ASSUME NEW i \in 1..(n - 1)
      PROVE  kept'[Len(taken') + i] = slot'[Wrap(head' + i - 1)]
  <2>1. i + 1 \in 1..n /\ (T + 1) + i = T + (i + 1)
    BY <1>0, <1>4, <1>6
  <2>2. kept[T + (i + 1)] = slot[Wrap(head + (i + 1) - 1)]
    BY <1>1, <2>1, Zenon
  <2> QED BY <1>2, <1>4, <1>6, <2>1, <2>2, Zenon
<1> QED BY <1>1, <1>2, <1>4, <1>6, <1>7, <1>8, <1>9, Zenon DEF Ringed

---------------------------------------------------------------------------
(* The count of Ctrl-^ is the number of them heard last, up to three.      *)
Trail(rb, h) ==
  /\ rb \in 0..3 /\ rb <= Len(h)
  /\ \A j \in (Len(h) - rb + 1)..Len(h) : h[j] = "RS"
  /\ rb < 3 /\ rb < Len(h) => h[Len(h) - rb] # "RS"

LEMMA TrailMore ==
  ASSUME NEW h \in Seq(Letter), NEW b \in Letter, NEW rb, Trail(rb, h), NEW c,
         b = "RS" => c = (IF rb < 3 THEN rb + 1 ELSE rb), b # "RS" => c = 0
  PROVE  Trail(c, Append(h, b))
<1> DEFINE g == Append(h, b)
           l == Len(h)
<1>1. /\ g \in Seq(Letter) /\ Len(g) = l + 1 /\ l \in Nat
      /\ g[l + 1] = b /\ \A i \in 1..l : g[i] = h[i]
  OBVIOUS
<1> HIDE DEF g
<1>2. /\ rb \in 0..3 /\ rb <= l
      /\ \A j \in (l - rb + 1)..l : h[j] = "RS"
      /\ rb < 3 /\ rb < l => h[l - rb] # "RS"
  BY Zenon DEF Trail
<1> HIDE DEF l
<1>3. CASE b = "RS"
  <2>1. c \in 0..3 /\ c <= Len(g) /\ c = (IF rb < 3 THEN rb + 1 ELSE rb)
    BY <1>1, <1>2, <1>3
  <2>2. ASSUME NEW j \in (Len(g) - c + 1)..Len(g) PROVE g[j] = "RS"
    <3>1. j = l + 1 \/ (j \in (l - rb + 1)..l /\ j \in 1..l)
      BY <1>1, <1>2, <2>1
    <3> QED BY <1>1, <1>2, <1>3, <3>1, Zenon
  <2>3. ASSUME c < 3, c < Len(g) PROVE g[Len(g) - c] # "RS"
    <3>1. Len(g) - c = l - rb /\ l - rb \in 1..l /\ rb < 3 /\ rb < l
      BY <1>1, <1>2, <2>1, <2>3
    <3> QED BY <1>1, <1>2, <3>1, Zenon
  <2>4. Trail(c, g)
    BY <1>1, <2>1, <2>2, <2>3, Zenon DEF Trail
  <2> QED BY <2>4 DEF g
<1>4. CASE b # "RS"
  <2>1. c = 0 /\ c \in 0..3 /\ c <= Len(g) /\ Len(g) - c = l + 1
    BY <1>1, <1>4
  <2>2. ASSUME NEW j \in (Len(g) - c + 1)..Len(g) PROVE g[j] = "RS"
    BY <1>1, <2>1, <2>2
  <2>3. g[Len(g) - c] # "RS"
    BY <1>1, <1>4, <2>1, Zenon
  <2>4. Trail(c, g)
    BY <1>1, <2>1, <2>2, <2>3, Zenon DEF Trail
  <2> QED BY <2>4 DEF g
<1> QED BY <1>3, <1>4

(* One more byte is one more sentinel exactly when it is a Y on a full     *)
(* count.                                                                  *)
LEMMA SentinelMore ==
  ASSUME NEW h \in Seq(Letter), NEW b \in Letter, NEW rb, Trail(rb, h)
  PROVE  /\ Cardinality(Sentinels(h)) \in Nat
         /\ Cardinality(Sentinels(Append(h, b))) =
              IF b \in {"Y", "y"} /\ rb = 3 THEN Cardinality(Sentinels(h)) + 1
              ELSE Cardinality(Sentinels(h))
<1> DEFINE g == Append(h, b)
           l == Len(h)
<1>1. /\ Len(g) = l + 1 /\ l \in Nat
      /\ g[l + 1] = b /\ \A i \in 1..l : g[i] = h[i]
  OBVIOUS
<1>2. /\ rb \in 0..3 /\ rb <= l
      /\ \A j \in (l - rb + 1)..l : h[j] = "RS"
      /\ rb < 3 /\ rb < l => h[l - rb] # "RS"
  BY Zenon DEF Trail
<1>3. IsFiniteSet(Sentinels(h)) /\ Cardinality(Sentinels(h)) \in Nat
  <2>1. Sentinels(h) \subseteq 4..l
    BY Zenon DEF Sentinels
  <2>2. IsFiniteSet(4..l)
    BY <1>1, FS_Interval
  <2>3. IsFiniteSet(Sentinels(h))
    BY <2>1, <2>2, FS_Subset, Zenon
  <2> QED BY <2>3, FS_CardinalityType, Zenon
<1>4. l + 1 \notin Sentinels(h)
  <2>1. l + 1 \notin 4..l
    BY <1>1
  <2> QED BY <2>1, Zenon DEF Sentinels
<1> HIDE DEF g, l
<1>5. ASSUME NEW i \in 4..l PROVE i \in Sentinels(g) <=> i \in Sentinels(h)
  <2>1. i \in 4..(l + 1) /\ i \in 1..l /\ \A j \in (i - 3)..(i - 1) : j \in 1..l
    BY <1>1
  <2>2. g[i] = h[i] /\ \A j \in (i - 3)..(i - 1) : g[j] = h[j]
    BY <1>1, <2>1, Zenon
  <2> QED BY <1>1, <2>1, <2>2, Zenon DEF Sentinels, l
<1>6. l + 1 \in Sentinels(g) <=> b \in {"Y", "y"} /\ rb = 3
  <2>1. ASSUME b \in {"Y", "y"}, rb = 3 PROVE l + 1 \in Sentinels(g)
    <3>1. l + 1 \in 4..(l + 1) /\ (l + 1) - 3 = l - rb + 1 /\ (l + 1) - 1 = l
          /\ \A j \in (l - rb + 1)..l : j \in 1..l
      BY <1>1, <1>2, <2>1
    <3>2. \A j \in ((l + 1) - 3)..((l + 1) - 1) : g[j] = "RS"
      BY <1>1, <1>2, <3>1, Zenon
    <3> QED BY <1>1, <2>1, <3>1, <3>2, Zenon DEF Sentinels
  <2>2. ASSUME l + 1 \in Sentinels(g) PROVE b \in {"Y", "y"} /\ rb = 3
    <3>1. /\ l + 1 \in 4..(l + 1) /\ b \in {"Y", "y"}
          /\ \A j \in ((l + 1) - 3)..((l + 1) - 1) : g[j] = "RS"
      BY <1>1, <2>2, Zenon DEF Sentinels
    <3>2. ASSUME rb # 3 PROVE FALSE
      <4>1. rb < 3 /\ rb < l /\ l - rb \in ((l + 1) - 3)..((l + 1) - 1) /\ l - rb \in 1..l
        BY <1>1, <1>2, <3>1, <3>2
      <4> QED BY <1>1, <1>2, <3>1, <4>1, Zenon
    <3> QED BY <3>1, <3>2
  <2> QED BY <2>1, <2>2
<1>7. \A i \in Sentinels(g) : i \in 4..l \/ i = l + 1
  <2>1. \A i \in 4..(l + 1) : i \in 4..l \/ i = l + 1
    BY <1>1
  <2> QED BY <1>1, <2>1, Zenon DEF Sentinels
<1>8. \A i \in Sentinels(h) : i \in 4..l
  BY Zenon DEF Sentinels, l
<1>9. CASE b \in {"Y", "y"} /\ rb = 3
  <2>1. Sentinels(g) = Sentinels(h) \cup {l + 1}
    BY <1>5, <1>6, <1>7, <1>8, <1>9, Zenon
  <2>2. Cardinality(Sentinels(h) \cup {l + 1}) = Cardinality(Sentinels(h)) + 1
    BY <1>3, <1>4, FS_AddElement, Zenon
  <2> QED BY <1>3, <1>9, <2>1, <2>2 DEF g
<1>10. CASE ~(b \in {"Y", "y"} /\ rb = 3)
  <2>1. Sentinels(g) = Sentinels(h)
    BY <1>5, <1>6, <1>7, <1>8, <1>10, Zenon
  <2> QED BY <1>3, <1>10, <2>1 DEF g
<1> QED BY <1>9, <1>10

---------------------------------------------------------------------------
(* The invariant of the keyboard.                                          *)
KeyInv == /\ Decodes(dec) /\ Ringed(head, tail, slot, kept, taken)
          /\ wire \in Seq(Letter) /\ heard \in Seq(Letter)
          /\ Trail(dec.rb, heard) /\ reboots = Cardinality(Sentinels(heard))

LEMMA Receives ==
  ASSUME KeyInv, NEW b \in Letter, Receive(b), wire' \in Seq(Letter)
  PROVE  KeyInv'
<1> DEFINE r == ansi_key_byte(dec, b)
<1>1. /\ Decodes(dec) /\ Ringed(head, tail, slot, kept, taken) /\ heard \in Seq(Letter)
      /\ Trail(dec.rb, heard) /\ reboots = Cardinality(Sentinels(heard))
  BY Zenon DEF KeyInv
<1>2. /\ dec' = r.dec /\ inject_key(r.keys) /\ heard' = Append(heard, b) /\ taken' = taken
      /\ reboots' = IF r.reboot THEN reboots + 1 ELSE reboots
  BY Zenon DEF Receive
<1> HIDE DEF r
<1>3. /\ Decodes(dec') /\ r.keys \in Seq(KeyCode)
      /\ r.reboot = (b \in {"Y", "y"} /\ dec.rb = 3)
      /\ b = "RS" => dec'.rb = (IF dec.rb < 3 THEN dec.rb + 1 ELSE dec.rb)
      /\ b # "RS" => dec'.rb = 0
  <2>1. Heeds(dec, b, r)
    BY <1>1, ByteGives, Zenon DEF r
  <2> QED BY <1>2, <2>1 DEF Heeds
<1>4. Ringed(head', tail', slot', kept', taken')
  BY <1>1, <1>2, <1>3, InjectRing, Zenon
<1>5. Trail(dec'.rb, heard') /\ heard' \in Seq(Letter)
  <2>1. Append(heard, b) \in Seq(Letter)
    BY <1>1
  <2>2. Trail(dec'.rb, Append(heard, b))
    BY <1>1, <1>3, TrailMore, Zenon
  <2> QED BY <1>2, <2>1, <2>2, Zenon
<1>6. reboots' = Cardinality(Sentinels(heard'))
  <2>1. Cardinality(Sentinels(Append(heard, b))) =
          IF b \in {"Y", "y"} /\ dec.rb = 3 THEN Cardinality(Sentinels(heard)) + 1
          ELSE Cardinality(Sentinels(heard))
    BY <1>1, SentinelMore, Zenon
  <2> QED BY <1>1, <1>2, <1>3, <2>1, Zenon
<1> QED BY <1>3, <1>4, <1>5, <1>6, Zenon DEF KeyInv

LEMMA Ticks ==
  ASSUME KeyInv, ansi_key_tick, UNCHANGED <<reboots, wire, taken, heard>>
  PROVE  KeyInv'
<1>1. /\ Decodes(dec) /\ Ringed(head, tail, slot, kept, taken)
      /\ wire \in Seq(Letter) /\ heard \in Seq(Letter)
      /\ Trail(dec.rb, heard) /\ reboots = Cardinality(Sentinels(heard))
  BY Zenon DEF KeyInv
<1>2. reboots' = reboots /\ wire' = wire /\ taken' = taken /\ heard' = heard
  OBVIOUS
<1>3. PICK ks \in Seq(KeyCode) : inject_key(ks)
  BY <1>1, TickGives, Zenon
<1>4. Decodes(dec') /\ dec'.rb = dec.rb
  BY <1>1, TickGives, Zenon
<1>5. Ringed(head', tail', slot', kept', taken')
  BY <1>1, <1>2, <1>3, InjectRing, Zenon
<1> QED BY <1>1, <1>2, <1>4, <1>5, Zenon DEF KeyInv

LEMMA KeyStep == ASSUME KeyInv, [Next]_vars PROVE KeyInv'
<1>1. /\ Decodes(dec) /\ Ringed(head, tail, slot, kept, taken)
      /\ wire \in Seq(Letter) /\ heard \in Seq(Letter)
      /\ Trail(dec.rb, heard) /\ reboots = Cardinality(Sentinels(heard))
  BY Zenon DEF KeyInv
<1>2. CASE \E key \in DOMAIN Encodings : Press(key)
  <2>1. PICK key \in DOMAIN Encodings : Press(key)
    BY <1>2
  <2>2. /\ wire' = Encodings[key] /\ dec' = dec /\ head' = head /\ tail' = tail
        /\ slot' = slot /\ kept' = kept /\ reboots' = reboots /\ taken' = taken
        /\ heard' = heard
    BY <2>1 DEF Press, ring
  <2>3. Encodings[key] \in Seq(Letter)
    <3>1. Encodings[key] \in Seq(STRING)
      BY KeyAssumption, Zenon
    <3>2. \A x \in STRING : x \in Letter
      BY Zenon DEF Letter
    <3> QED BY <3>1, <3>2, SeqMore, Zenon
  <2> QED BY <1>1, <2>2, <2>3, Zenon DEF KeyInv
<1>3. CASE Arrive
  <2>1. Head(wire) \in Letter /\ Tail(wire) \in Seq(Letter)
    BY <1>1, <1>3 DEF Arrive
  <2> QED BY <1>3, <2>1, Receives, Zenon DEF Arrive
<1>4. CASE Tick
  <2>1. ansi_key_tick /\ UNCHANGED <<reboots, wire, taken, heard>>
    BY <1>4 DEF Tick
  <2> QED BY <2>1, Ticks, Zenon
<1>5. CASE Mixed
  <2>1. CASE \E b \in AnyBytes :
               Len(heard) < MaxBytes /\ Receive(b) /\ UNCHANGED wire
    <3>1. PICK b \in AnyBytes : Receive(b) /\ wire' = wire
      BY <2>1
    <3>2. b \in Letter
      BY KeyAssumption, Zenon DEF Letter
    <3> QED BY <1>1, <3>1, <3>2, Receives, Zenon
  <2>2. CASE ansi_key_tick /\ UNCHANGED <<reboots, wire, pressed, taken, heard>>
    <3>1. ansi_key_tick /\ UNCHANGED <<reboots, wire, taken, heard>>
      BY <2>2
    <3> QED BY <3>1, Ticks, Zenon
  <2> QED BY <1>5, <2>1, <2>2 DEF Mixed
<1>6. CASE DosReads
  <2>1. Ringed(head', tail', slot', kept', taken')
    BY <1>1, <1>6, ReadRing, Zenon
  <2>2. dec' = dec /\ reboots' = reboots /\ wire' = wire /\ heard' = heard
    BY <1>6 DEF DosReads
  <2> QED BY <1>1, <2>1, <2>2, Zenon DEF KeyInv
<1>7. CASE UNCHANGED vars
  BY <1>1, <1>7, Zenon DEF KeyInv, vars, ring
<1> QED BY <1>2, <1>3, <1>4, <1>5, <1>6, <1>7, Zenon DEF Next, Typing

LEMMA KeyStart == Init => KeyInv
<1> SUFFICES ASSUME Init PROVE KeyInv
  OBVIOUS
<1>0. RING \in Nat /\ RING >= 2 /\ PEND \in Nat
  BY Sizes2
<1>1. Decodes(dec) /\ dec.rb = 0
  <2>1. dec = [pend |-> <<>>, age |-> 0, swallow |-> FALSE, rb |-> 0]
    BY DEF Init
  <2>2. dec \in Decoder /\ dec.rb = 0 /\ dec.pend = <<>>
    BY <2>1 DEF Decoder
  <2>3. Len(<<>>) <= PEND
    BY <1>0
  <2> QED BY <2>2, <2>3, Zenon DEF Decodes
<1>2. Ringed(head, tail, slot, kept, taken)
  <2>1. head = 0 /\ tail = 0 /\ kept = <<>> /\ taken = <<>>
        /\ slot = [i \in 0..(RING - 1) |-> <<"none">>]
    BY DEF Init
  <2>2. 0 \in 0..(RING - 1) /\ Wrap(0 - 0) = 0
    BY <1>0 DEF Wrap
  <2>3. <<"none">> \in KeyCode
    BY Zenon DEF KeyCode
  <2>4. slot \in [0..(RING - 1) -> KeyCode]
    BY <2>1, <2>3, Zenon
  <2>5. <<>> \in Seq(KeyCode) /\ Len(<<>>) = 0 /\ Len(<<>>) = Len(<<>>) + 0
        /\ \A i \in 1..Len(<<>>) : FALSE
    OBVIOUS
  <2>6. \A i \in 1..0 : FALSE
    OBVIOUS
  <2> QED BY <2>1, <2>2, <2>4, <2>5, <2>6, Zenon DEF Ringed
<1>3. wire \in Seq(Letter) /\ heard \in Seq(Letter) /\ heard = <<>> /\ reboots = 0
  BY DEF Init
<1>4. Trail(dec.rb, heard)
  BY <1>1, <1>3 DEF Trail
<1>5. Cardinality(Sentinels(heard)) = 0
  <2>1. \A i \in 4..Len(heard) : FALSE
    BY <1>3
  <2>2. Sentinels(heard) = {}
    BY <2>1, Zenon DEF Sentinels
  <2> QED BY <2>2, FS_EmptySet
<1> QED BY <1>1, <1>2, <1>3, <1>4, <1>5, Zenon DEF KeyInv

LEMMA Keyboards == Spec => []KeyInv
BY KeyStart, KeyStep, PTL DEF Spec

(* inject_key (dosshd.c:160-182) drops a key when the ring is full and     *)
(* never overwrites one: whatever the size of the ring and of pend[], and  *)
(* whatever bytes, ticks and reads come in whatever order, the keys DOS    *)
(* has read and the keys in the ring are the accepted ones in order.       *)
THEOREM KeysQueued == Spec => []RingFifo
<1>1. KeyInv => RingFifo
  <2> SUFFICES ASSUME KeyInv PROVE RingFifo
    OBVIOUS
  <2> DEFINE n == (tail - head) % RING
             f == [i \in 1..n |-> slot[(head + i - 1) % RING]]
  <2>0. RING \in Nat /\ RING >= 2
    BY Sizes2
  <2>1. Decodes(dec) /\ Ringed(head, tail, slot, kept, taken)
    BY Zenon DEF KeyInv
  <2>2. KeyTypeOK
    <3>1. dec \in Decoder /\ Len(dec.pend) <= PEND
      BY <2>1, Zenon DEF Decodes
    <3>2. dec.age \in 0..2 /\ dec.rb \in 0..3
      BY <3>1, Zenon DEF Decoder
    <3> QED BY <2>1, <3>1, <3>2, Zenon DEF KeyTypeOK, Ringed
  <2>3. /\ head \in 0..(RING - 1) /\ tail \in 0..(RING - 1)
        /\ slot \in [0..(RING - 1) -> KeyCode] /\ kept \in Seq(KeyCode)
        /\ taken \in Seq(KeyCode)
        /\ Len(kept) = Len(taken) + Wrap(tail - head)
        /\ \A i \in 1..Len(taken) : kept[i] = taken[i]
        /\ \A i \in 1..Wrap(tail - head) : kept[Len(taken) + i] = slot[Wrap(head + i - 1)]
    BY <2>1, Zenon DEF Ringed
  <2>4. n = Wrap(tail - head) /\ n \in 0..(RING - 1)
    <3>1. tail - head \in Int /\ -RING <= tail - head /\ tail - head < 2 * RING
      BY <2>0, <2>3
    <3> QED BY <3>1, Wrapped
  <2> HIDE DEF n
  <2>5. ASSUME NEW i \in 1..n
        PROVE  /\ (head + i - 1) % RING = Wrap(head + i - 1)
               /\ (head + i - 1) % RING \in 0..(RING - 1)
    <3>1. head + i - 1 \in Int /\ -RING <= head + i - 1 /\ head + i - 1 < 2 * RING
      BY <2>0, <2>3, <2>4
    <3> QED BY <3>1, Wrapped
  <2>6. \A i \in 1..n : f[i] = slot[Wrap(head + i - 1)] /\ f[i] \in KeyCode
    BY <2>3, <2>5, Zenon
  <2>7. f \in Seq(KeyCode) /\ Len(f) = n
    <3>1. \A i \in 1..n : slot[(head + i - 1) % RING] \in KeyCode
      BY <2>3, <2>5, Zenon
    <3>2. n \in Nat
      BY <2>0, <2>4
    <3> QED BY <3>1, <3>2
  <2> HIDE DEF f
  <2>8. /\ Len(kept) = Len(taken) + Len(f)
        /\ \A i \in 1..Len(f) : kept[Len(taken) + i] = f[i]
    BY <2>3, <2>4, <2>6, <2>7, Zenon
  <2>9. kept = taken \o f
    BY <2>3, <2>7, <2>8, KeysJoin, Zenon DEF Joins
  <2> QED BY <2>2, <2>9 DEF RingFifo, n, f
<1> QED BY <1>1, Keyboards, PTL

(* A reboot is requested exactly when three Ctrl-^ and a Y have arrived    *)
(* one right after the other (ansikey.c:121-135), for every pend[] and     *)
(* ring size, however bytes and ticks interleave.                          *)
THEOREM RebootsAsked == Spec => []RebootOnSentinel
<1>1. KeyInv => RebootOnSentinel
  BY Zenon DEF KeyInv, RebootOnSentinel
<1> QED BY <1>1, Keyboards, PTL
=============================================================================

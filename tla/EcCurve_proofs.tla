---------------------------- MODULE EcCurve_proofs ----------------------------
(* Facts about EcCurve's group operations, for every group order and shift  *)
(* point allowed by ConstantsAssumption: closure, arithmetic modulo N, the  *)
(* x-coordinate of a negated point, and the algebra of verify's shifted     *)
(* ECDSA formula.                                                           *)
EXTENDS EcCurve, Integers, TLAPS

\* Points are closed under the group operations the loops use.
LEMMA PointClosed ==
    ASSUME NEW p \in Point, NEW q \in Point
    PROVE  /\ Add(p, q) \in Point
           /\ Double(p) \in Point
           /\ Neg(p) \in Point
  BY ConstantsAssumption DEF Point, Add, Double, Neg

-----------------------------------------------------------------------------
(* Arithmetic modulo the group order.                                      *)

LEMMA ModDef ==
    ASSUME NEW y \in Int
    PROVE  /\ y % N = y - N * (y \div N)
           /\ y % N \in 0..(N - 1)
           /\ y \div N \in Int
  BY ConstantsAssumption

LEMMA ModUnique ==
    ASSUME NEW y \in Int, NEW q \in Int, NEW r \in 0..(N - 1), y = N * q + r
    PROVE  y % N = r
  BY ConstantsAssumption

LEMMA ModShift ==
    ASSUME NEW y \in Int, NEW k \in Int
    PROVE  (y + N * k) % N = y % N
<1> DEFINE q == y \div N  r == y % N
<1>1. y = N * q + r /\ r \in 0..(N - 1) /\ q \in Int
  BY ModDef, ConstantsAssumption DEF q, r
<1>2. y + N * k = N * (q + k) + r
  BY <1>1, ConstantsAssumption
<1>3. q + k \in Int /\ y + N * k \in Int
  BY <1>1, ConstantsAssumption
<1>4. QED
  BY <1>1, <1>2, <1>3, ModUnique DEF q, r

\* Reducing the summands of a + b * c modulo N does not change the sum
\* modulo N.
LEMMA ModCongr ==
    ASSUME NEW a \in Int, NEW b \in Int, NEW c \in Int
    PROVE  ((a % N) + b * (c % N)) % N = (a + b * c) % N
<1> DEFINE qa == a \div N  qc == c \div N
<1>1. a % N = a - N * qa /\ c % N = c - N * qc /\ qa \in Int /\ qc \in Int
  BY ModDef, ConstantsAssumption DEF qa, qc
<1>2. (a % N) + b * (c % N) = (a + b * c) + N * (-qa - b * qc)
  BY <1>1, ConstantsAssumption
<1>3. (a + b * c) \in Int /\ (-qa - b * qc) \in Int
  BY <1>1
<1>4. QED
  BY <1>2, <1>3, ModShift

\* A point is its own residue.
LEMMA PointMod ==
    ASSUME NEW p \in Point
    PROVE  p % N = p
  BY ModUnique, ConstantsAssumption DEF Point

-----------------------------------------------------------------------------
\* Adding residues is adding modulo N.
LEMMA ModSum ==
    ASSUME NEW a \in Int, NEW c \in Int
    PROVE  ((a % N) + (c % N)) % N = (a + c) % N
<1>1. ((a % N) + 1 * (c % N)) % N = (a + 1 * c) % N
  BY ModCongr
<1>2. c % N \in Int /\ a % N \in Int
  BY ModDef
<1> QED
  BY <1>1, <1>2

\* Multiplying by a residue is multiplying modulo N.
LEMMA ModProd ==
    ASSUME NEW b \in Int, NEW c \in Int
    PROVE  (b * (c % N)) % N = (b * c) % N
<1>1. ((0 % N) + b * (c % N)) % N = (0 + b * c) % N
  BY ModCongr
<1>2. 0 % N = 0
  BY ModUnique, ConstantsAssumption
<1>3. b * (c % N) \in Int
  BY ModDef
<1> QED
  BY <1>1, <1>2, <1>3

\* A point and its negation share their x-coordinate, which is the point
\* itself for the lower half of the group (get_ys_from_x returns the two
\* points over one x).
LEMMA XCoordNeg ==
    ASSUME NEW x \in 1..((N - 1) \div 2)
    PROVE  /\ XCoord(x) = x
           /\ Neg(x) = N - x
           /\ XCoord(Neg(x)) = x
<1>1. N - x \in Point
  BY ConstantsAssumption DEF Point
<1>2. Neg(x) = N - x
  BY <1>1, PointMod DEF Neg
<1> QED
  BY <1>2, ConstantsAssumption DEF XCoord

\* verify's shifted formula: with zg = z*G - shift and rq = r*Q + shift,
\* (w * (zg + rq) + shift) - shift is w * (z*G + r*Q), the point of plain
\* ECDSA.  The two shift points cancel in the group.
LEMMA ShiftsCancel ==
    ASSUME NEW m \in Nat, NEW r \in Nat, NEW w \in Nat, NEW q \in Point
    PROVE  Add(MultValue(w, Add(MultValue(m, Generator, Neg(ShiftPoint)),
                                MultValue(r, q, ShiftPoint)),
                         ShiftPoint),
               Neg(ShiftPoint))
           = Mul(w, Add(Mul(m, Generator), Mul(r, q)))
<1>1. ShiftPoint \in Point /\ N - ShiftPoint \in Point /\ Neg(ShiftPoint) = N - ShiftPoint
  <2>1. ShiftPoint \in Point /\ N - ShiftPoint \in Point
    BY ConstantsAssumption DEF Point
  <2> QED
    BY <2>1, PointMod DEF Neg
<1>2. MultValue(m, Generator, Neg(ShiftPoint)) = ((N - ShiftPoint) + m) % N
  <2>1. (N - ShiftPoint) % N = N - ShiftPoint /\ m * 1 = m
    BY <1>1, PointMod
  <2>2. (((N - ShiftPoint) % N) + (m % N)) % N = ((N - ShiftPoint) + m) % N
    <3>1. N - ShiftPoint \in Int /\ m \in Int
      BY ConstantsAssumption
    <3> QED
      BY <3>1, ModSum
  <2> QED
    BY <1>1, <2>1, <2>2 DEF MultValue, Add, Mul, Generator
<1>3. MultValue(r, q, ShiftPoint) = (ShiftPoint + r * q) % N
  <2>1. ShiftPoint % N = ShiftPoint /\ r * q \in Int
    BY <1>1, PointMod DEF Point
  <2>2. ((ShiftPoint % N) + ((r * q) % N)) % N = (ShiftPoint + r * q) % N
    <3>1. ShiftPoint \in Int
      BY ConstantsAssumption
    <3> QED
      BY <2>1, <3>1, ModSum
  <2> QED
    BY <2>1, <2>2 DEF MultValue, Add, Mul
<1>4. Add(MultValue(m, Generator, Neg(ShiftPoint)), MultValue(r, q, ShiftPoint)) = (m + r * q) % N
  <2>1. (N - ShiftPoint) + m \in Int /\ ShiftPoint + r * q \in Int /\ m + r * q \in Int
    BY ConstantsAssumption DEF Point
  <2>2. ((((N - ShiftPoint) + m) % N) + ((ShiftPoint + r * q) % N)) % N
          = (((N - ShiftPoint) + m) + (ShiftPoint + r * q)) % N
    BY <2>1, ModSum
  <2>3. ((N - ShiftPoint) + m) + (ShiftPoint + r * q) = (m + r * q) + N * 1
    BY <2>1, ConstantsAssumption DEF Point
  <2>4. ((m + r * q) + N * 1) % N = (m + r * q) % N
    BY <2>1, ModShift
  <2> QED
    BY <1>2, <1>3, <2>2, <2>3, <2>4 DEF Add
<1> DEFINE P == (m + r * q) % N
<1> USE DEF P
<1>5. Add(MultValue(w, P, ShiftPoint), Neg(ShiftPoint)) = (w * (m + r * q)) % N
  <2>1. P \in Int /\ w * P \in Int /\ ShiftPoint + w * P \in Int /\ m + r * q \in Int
    BY ModDef, ConstantsAssumption DEF Point
  <2>2. ((ShiftPoint % N) + ((w * P) % N)) % N = (ShiftPoint + w * P) % N
    BY <2>1, ModSum, ConstantsAssumption DEF Point
  <2>3. MultValue(w, P, ShiftPoint) = (ShiftPoint + w * P) % N
    BY <1>1, <2>2, PointMod DEF MultValue, Add, Mul
  <2>4. (((ShiftPoint + w * P) % N) + ((N - ShiftPoint) % N)) % N = ((ShiftPoint + w * P) + (N - ShiftPoint)) % N
    <3>1. N - ShiftPoint \in Int
      BY ConstantsAssumption
    <3> QED
      BY <2>1, <3>1, ModSum
  <2>5. (ShiftPoint + w * P) + (N - ShiftPoint) = w * P + N * 1
    BY <2>1, ConstantsAssumption
  <2>6. (w * P + N * 1) % N = (w * P) % N
    BY <2>1, ModShift
  <2>7. (w * ((m + r * q) % N)) % N = (w * (m + r * q)) % N
    BY <2>1, ModProd, ConstantsAssumption DEF Point
  <2>8. (N - ShiftPoint) % N = N - ShiftPoint
    BY <1>1, PointMod
  <2> QED
    BY <1>1, <2>3, <2>4, <2>5, <2>6, <2>7, <2>8 DEF Add
<1>6. Mul(w, Add(Mul(m, Generator), Mul(r, q))) = (w * (m + r * q)) % N
  <2>1. (((m * 1) % N) + ((r * q) % N)) % N = (m * 1 + r * q) % N
    BY ModSum, ConstantsAssumption DEF Point
  <2>2. (w * ((m + r * q) % N)) % N = (w * (m + r * q)) % N
    BY ModProd, ConstantsAssumption DEF Point
  <2> QED
    BY <2>1, <2>2 DEF Mul, Add, Generator
<1> QED
  BY <1>4, <1>5, <1>6

\* The group operations return points for any integer arguments.
LEMMA OpsInPoint ==
    ASSUME NEW a \in Int, NEW b \in Int, NEW c \in Int
    PROVE  /\ Add(a, b) \in Point
           /\ Mul(a, b) \in Point
           /\ Neg(a) \in Point
           /\ MultValue(a, b, c) \in Point
<1>1. Mul(a, b) \in Point
  BY ModDef DEF Mul, Point
<1>2. Add(a, b) \in Point /\ Neg(a) \in Point
  BY ModDef, ConstantsAssumption DEF Add, Neg, Point
<1>3. MultValue(a, b, c) \in Point
  BY <1>1, ModDef DEF MultValue, Add, Point
<1> QED
  BY <1>1, <1>2, <1>3
====

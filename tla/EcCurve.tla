------------------------------- MODULE EcCurve -------------------------------
(***************************************************************************)
(* The curve group of the ECDSA builtin (src/builtins/src/ecdsa/mod.rs)    *)
(* and the results of its two scalar-multiplication routines in closed     *)
(* form.                                                                   *)
(*                                                                         *)
(* Curve points are represented by their discrete logarithm with respect   *)
(* to the generator of the (prime order N) curve group: 0 is the identity, *)
(* point addition is addition modulo N.  On an elliptic curve two affine   *)
(* points have the same x-coordinate exactly when they are equal or        *)
(* opposite, so XCoord(p) = min(p, N - p) keeps precisely the information  *)
(* the code's degenerate-step checks compare; arkworks gives the identity  *)
(* the affine x-coordinate 0, and so does XCoord.  Slopes and field        *)
(* inverses are not modelled: only whether an inverse exists matters for   *)
(* control.                                                                *)
(***************************************************************************)
EXTENDS Naturals

CONSTANTS
    N,            \* order of the curve group (Fr::MODULUS, a prime)
    ShiftPoint,   \* discrete logarithm of SHIFT_POINT
    NSteps,       \* iterations of gen_ec_mult_steps' loop (256)
    ScalarBits    \* scalars must lie in 1..2^ScalarBits - 1 (251)

ASSUME ConstantsAssumption ==
    /\ N \in Nat /\ N > 2 /\ N % 2 = 1
    /\ ShiftPoint \in 1..(N - 1)
    /\ ScalarBits \in Nat \ {0}
    /\ NSteps \in Nat /\ ScalarBits < NSteps

Point == 0..(N - 1)
Identity == 0
Generator == 1
Add(p, q) == (p + q) % N
Neg(p) == (N - p) % N
Double(p) == Add(p, p)
Mul(k, p) == (k * p) % N
XCoord(p) == IF p <= N - p THEN p ELSE N - p

\* Scalars of 1..2^ScalarBits - 1 are accepted by both routines: the
\* `(1..MODULUS_BIT_SIZE).contains(m.bits())` check of mimic_ec_mult_air
\* and the two assertions of gen_ec_mult_steps.
ScalarInRange(m) == 1 <= m /\ m < 2^ScalarBits

\* A step is degenerate when the partial sum and the point it is combined
\* with share their x-coordinate: the x-difference has no inverse.
Degenerate(sum, pt) == XCoord(sum) = XCoord(pt)

-----------------------------------------------------------------------------
(* Reference results.  Before iteration j of double-and-add on (m, p, s)   *)
(* the partial sum is s + (m mod 2^j) * p and the point is 2^j * p.        *)

SumBefore(m, p, s, j) == Add(s, Mul(m % 2^j, p))
PointBefore(p, j) == Mul(2^j, p)
DegenerateAt(m, p, s, j) == Degenerate(SumBefore(m, p, s, j), PointBefore(p, j))

\* mimic_ec_mult_air returns Some exactly when m is in range and none of
\* the iterations it runs (while m >> j # 0) is degenerate.
MimicOk(m, p, s) ==
    /\ ScalarInRange(m)
    /\ \A j \in 0..(ScalarBits - 1) : 2^j <= m => ~DegenerateAt(m, p, s, j)

\* gen_ec_mult_steps returns exactly when m is in range and none of its
\* NSteps iterations is degenerate.
GenOk(m, p, s) ==
    /\ ScalarInRange(m)
    /\ \A j \in 0..(NSteps - 1) : ~DegenerateAt(m, p, s, j)

\* The value both return: s + m * p.
MultValue(m, p, s) == Add(s, Mul(m, p))
=============================================================================

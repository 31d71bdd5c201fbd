--------------------------- MODULE EcdsaTrace_proofs ---------------------------
(* Proofs about EcdsaTrace for every group order, shift point, loop length *)
(* and scalar width allowed by ConstantsAssumption: the key verify accepts *)
(* is a key over the instance's x for which plain ECDSA holds.             *)
EXTENDS EcdsaTrace, EcCurve_proofs, Integers, TLAPS

\* Every input the model reads is an integer, and a candidate key is a point.
LEMMA InputsAreInts ==
    ASSUME TypeOK
    PROVE  /\ message \in Nat /\ r \in Nat /\ w \in Nat
           /\ pubkey \in Int /\ {zg, qr, b, wb} \subseteq Int
           /\ pubkeyX # OffCurveX => pubkeyX \in 1..((N - 1) \div 2)
BY ConstantsAssumption DEF TypeOK, MessageInput, WInput, XInput, Point, NoKey

LEMMA CandidateIsPoint ==
    ASSUME TypeOK, pubkeyX # OffCurveX, NEW i \in {1, 2}
    PROVE  Candidate(i) \in {pubkeyX, Neg(pubkeyX)} /\ Candidate(i) \in Point
<1>1. pubkeyX \in 1..((N - 1) \div 2) /\ pubkeyX \in Int
  BY InputsAreInts
<1>2. pubkeyX \in Point /\ Neg(pubkeyX) \in Point
  BY <1>1, OpsInPoint, ConstantsAssumption DEF Point
<1> QED
  BY <1>2 DEF Candidate

-----------------------------------------------------------------------------
(* AcceptedKeyIsValid is not inductive: it does not say that verify runs  *)
(* only on an x of the curve.  The strengthening adds that, and records   *)
(* what verify checked of the key it returned.                            *)

\* verify's x for key q, as a function of the instance's scalars.
ShiftedX(m, rr, ww, q) ==
    XCoord(Add(MultValue(ww, Add(MultValue(m, Generator, Neg(ShiftPoint)),
                                 MultValue(rr, q, ShiftPoint)),
                         ShiftPoint),
               Neg(ShiftPoint)))

LEMMA VerifyXShifted ==
    ASSUME NEW q
    PROVE  VerifyX(q) = ShiftedX(message, r, w, q)
BY DEF VerifyX, VZg, VRq, ShiftedX

IInv ==
    /\ TypeOK
    /\ pc = "verify" => pubkeyX # OffCurveX
    /\ pubkey # NoKey =>
         /\ pubkeyX # OffCurveX
         /\ pubkey \in {pubkeyX, Neg(pubkeyX)}
         /\ r = ShiftedX(message, r, w, pubkey)

LEMMA InitIInv == Init => IInv
BY ConstantsAssumption DEF Init, IInv, TypeOK, Point, Identity, Stage, Reason

LEMMA NextIInv == IInv /\ [Next]_vars => IInv'
<1> SUFFICES ASSUME IInv, [Next]_vars PROVE IInv'
  OBVIOUS
<1>1. TypeOK
  BY DEF IInv
<1>2. /\ message \in Nat /\ r \in Nat /\ w \in Nat
      /\ pubkey \in Int /\ {zg, qr, b, wb} \subseteq Int
      /\ Neg(ShiftPoint) \in Int /\ ShiftPoint \in Int /\ Generator \in Int
  <2>1. /\ message \in Nat /\ r \in Nat /\ w \in Nat
        /\ pubkey \in Int /\ {zg, qr, b, wb} \subseteq Int
    BY <1>1, InputsAreInts
  <2>2. ShiftPoint \in Int /\ Generator \in Int
    BY ConstantsAssumption DEF Generator
  <2>3. Neg(ShiftPoint) \in Point
    BY <2>2, OpsInPoint
  <2> QED
    BY <2>1, <2>2, <2>3 DEF Point
<1>3. CASE InvertW
  BY <1>3 DEF InvertW, Fail, IInv, TypeOK, Stage, Reason, instance, points
<1>4. CASE RecoverYs
  BY <1>4 DEF RecoverYs, Fail, IInv, TypeOK, Stage, Reason, instance, points
<1>5. CASE VerifyUnwrapFails
  BY <1>5 DEF VerifyUnwrapFails, Fail, IInv, TypeOK, Stage, Reason, instance, points
<1>6. CASE VerifyAccept
  <2>1. pubkeyX # OffCurveX
    BY <1>6 DEF VerifyAccept, IInv
  <2>2. Candidate(cand) \in {pubkeyX, Neg(pubkeyX)} /\ Candidate(cand) \in Point
    BY <1>1, <2>1, CandidateIsPoint DEF TypeOK
  <2> QED
    BY <1>6, <2>1, <2>2, VerifyXShifted DEF VerifyAccept, IInv, TypeOK, Stage, instance, points
<1>7. CASE VerifyNextCandidate
  BY <1>7 DEF VerifyNextCandidate, IInv, TypeOK, instance, points
<1>8. CASE VerifyReject
  BY <1>8 DEF VerifyReject, Fail, IInv, TypeOK, Stage, Reason, instance, points
<1>9. CASE ComputeB
  <2> DEFINE zgV == MultValue(message, Generator, Neg(ShiftPoint))
             qrV == MultValue(r, pubkey, ShiftPoint)
  <2>1. zgV \in Point /\ qrV \in Point
    BY <1>2, OpsInPoint DEF zgV, qrV
  <2>2. Add(zgV, qrV) \in Point
    BY <2>1, OpsInPoint DEF Point
  <2> QED
    BY <1>9, <2>1, <2>2 DEF ComputeB, Fail, IInv, TypeOK, Stage, Reason, zgV, qrV, instance, points
<1>10. CASE ComputeWb
  <2>1. MultValue(w, b, ShiftPoint) \in Point
    BY <1>2, OpsInPoint
  <2> QED
    BY <1>10, <2>1 DEF ComputeWb, Fail, IInv, TypeOK, Stage, Reason, instance, points
<1>11. CASE GenTraces
  BY <1>11 DEF GenTraces, Fail, IInv, TypeOK, Stage, Reason, instance, points
<1>12. CASE CheckMults
  BY <1>12 DEF CheckMults, Fail, IInv, TypeOK, Stage, Reason, instance, points
<1>13. CASE Finish
  BY <1>13 DEF Finish, Fail, IInv, TypeOK, Stage, Reason, instance, points
<1>14. CASE UNCHANGED vars
  BY <1>14 DEF vars, instance, points, IInv, TypeOK
<1> QED
  BY <1>3, <1>4, <1>5, <1>6, <1>7, <1>8, <1>9, <1>10, <1>11, <1>12, <1>13,
     <1>14 DEF Next

\* Every reachable state of InstanceTrace::new and verify is well typed
\* (TypeOK): the points computed stay in the group and the candidate index
\* in {1, 2}.
THEOREM TypeCorrect == Spec => []TypeOK
<1>1. IInv => TypeOK
  BY DEF IInv
<1> QED
  BY <1>1, InitIInv, NextIInv, PTL DEF Spec

\* The key verify returns, and every trace new builds records, lies over
\* the instance's x-coordinate and satisfies plain ECDSA,
\* x(w * (z * G + r * Q)) = r, although verify computes it through the
\* shifted points z * G - shift and r * Q + shift (AcceptedKeyIsValid).
THEOREM AcceptedKeyValid == Spec => []AcceptedKeyIsValid
<1>1. IInv => AcceptedKeyIsValid
  <2> SUFFICES ASSUME IInv, pubkey # NoKey
               PROVE  XCoord(pubkey) = pubkeyX /\ SignatureHolds(pubkey)
    BY DEF AcceptedKeyIsValid
  <2>1. /\ pubkeyX \in 1..((N - 1) \div 2)
        /\ pubkey \in {pubkeyX, Neg(pubkeyX)}
        /\ r = ShiftedX(message, r, w, pubkey)
    BY InputsAreInts DEF IInv
  <2>2. XCoord(pubkey) = pubkeyX
    BY <2>1, XCoordNeg
  <2>3. /\ message \in Nat /\ r \in Nat /\ w \in Nat
        /\ pubkey \in Point
    BY InputsAreInts DEF IInv, TypeOK, NoKey
  <2>4. ShiftedX(message, r, w, pubkey)
          = XCoord(Mul(w, Add(Mul(message, Generator), Mul(r, pubkey))))
    BY <2>3, ShiftsCancel DEF ShiftedX
  <2> QED
    BY <2>1, <2>2, <2>4 DEF SignatureHolds
<1> QED
  BY <1>1, InitIInv, NextIInv, PTL DEF Spec
-----------------------------------------------------------------------------
(* What each stage of InstanceTrace::new has established.  AssertionsHold *)
(* and AirConstraintsHold are not inductive: the assert_eq! of CheckMults  *)
(* and of Finish compare against values computed several statements       *)
(* earlier, and the AIR conditions at "done" were checked by ComputeB,     *)
(* GenTraces and Finish.  StageFacts records those values and checks from *)
(* the stage that computed them on.                                        *)

\* The stages reached once verify has returned a key, once b, once wb, and
\* once the three traces have been built.
AfterVerify == {"mult_b", "mult_wb", "gen", "check", "finish", "done"}
AfterB == AfterVerify \ {"mult_b"}
AfterWb == AfterB \ {"mult_wb"}
AfterGen == AfterWb \ {"gen"}

StageFacts ==
    /\ fail # "assert"
    /\ pc \in AfterVerify => pubkey # NoKey
    /\ pc \in AfterB =>
         /\ zg = MultValue(message, Generator, Neg(ShiftPoint))
         /\ qr = MultValue(r, pubkey, ShiftPoint)
         /\ b = Add(zg, qr)
         /\ ~Degenerate(zg, qr)
    /\ pc \in AfterWb => wb = MultValue(w, b, ShiftPoint)
    /\ pc \in AfterGen =>
         /\ GenOk(message, Generator, Neg(ShiftPoint))
         /\ GenOk(r, pubkey, ShiftPoint)
         /\ GenOk(w, b, ShiftPoint)
    /\ pc = "done" => ~Degenerate(wb, Neg(ShiftPoint))

SInv == IInv /\ StageFacts

LEMMA InitStage == Init => StageFacts
BY DEF Init, StageFacts, AfterVerify, AfterB, AfterWb, AfterGen

\* The steps of verify before it returns a key, and every panic, leave the
\* stage facts alone or reach a stage that claims nothing.
LEMMA NextStage == IInv /\ StageFacts /\ [Next]_vars => StageFacts'
<1> SUFFICES ASSUME IInv, StageFacts, [Next]_vars PROVE StageFacts'
  OBVIOUS
<1> USE DEF AfterVerify, AfterB, AfterWb, AfterGen
<1>1. CASE InvertW
  BY <1>1 DEF InvertW, Fail, StageFacts, instance, points
<1>2. CASE RecoverYs
  BY <1>2 DEF RecoverYs, Fail, StageFacts, instance, points
<1>3. CASE VerifyUnwrapFails
  BY <1>3 DEF VerifyUnwrapFails, Fail, StageFacts, instance, points
<1>4. CASE VerifyAccept
  <2>1. pubkeyX # OffCurveX /\ cand \in {1, 2}
    BY <1>4 DEF VerifyAccept, IInv, TypeOK
  <2>2. Candidate(cand) \in Point
    BY <2>1, CandidateIsPoint DEF IInv
  <2>3. pubkey' # NoKey
    BY <1>4, <2>2 DEF VerifyAccept, Point, NoKey
  <2> QED
    BY <1>4, <2>3 DEF VerifyAccept, StageFacts, instance
<1>5. CASE VerifyNextCandidate
  BY <1>5 DEF VerifyNextCandidate, StageFacts, instance, points
<1>6. CASE VerifyReject
  BY <1>6 DEF VerifyReject, Fail, StageFacts, instance, points
<1>7. CASE ComputeB
  BY <1>7 DEF ComputeB, Fail, StageFacts, instance
<1>8. CASE ComputeWb
  BY <1>8 DEF ComputeWb, Fail, StageFacts, instance
<1>9. CASE GenTraces
  BY <1>9 DEF GenTraces, Fail, StageFacts, instance, points
\* The three assert_eq! compare values equal by construction: each mimic
\* result is the stored shift + m * p, and so is each trace's last row.
<1>10. CASE CheckMults
  <2>1. /\ zg = GenLast(message, Generator, Neg(ShiftPoint))
        /\ qr = GenLast(r, pubkey, ShiftPoint)
        /\ wb = GenLast(w, b, ShiftPoint)
    BY <1>10 DEF CheckMults, StageFacts, GenLast
  <2>2. pc' = "finish" /\ fail' = fail
    BY <1>10, <2>1 DEF CheckMults, Fail
  <2> QED
    BY <1>10, <2>2 DEF CheckMults, StageFacts, instance, points
\* The final assert_eq!(r, (wb - shift).x) holds: wb - shift is the x
\* verify computed for the key it returned, and verify returned it because
\* that x was r.
<1>11. CASE Finish
  <2>1. pubkey # NoKey
    BY <1>11 DEF Finish, StageFacts
  <2>2. r = ShiftedX(message, r, w, pubkey)
    BY <2>1 DEF IInv
  <2>3. /\ b = Add(MultValue(message, Generator, Neg(ShiftPoint)),
                   MultValue(r, pubkey, ShiftPoint))
        /\ wb = MultValue(w, b, ShiftPoint)
    BY <1>11 DEF Finish, StageFacts
  <2>4. r = XCoord(Add(wb, Neg(ShiftPoint)))
    BY <2>2, <2>3 DEF ShiftedX
  <2>5. \/ pc' = "panic" /\ fail' = "r_point"
        \/ /\ pc' = "done" /\ fail' = fail
           /\ XCoord(wb) # XCoord(Neg(ShiftPoint))
    BY <1>11, <2>4 DEF Finish, Fail
  <2> QED
    BY <1>11, <2>5 DEF Finish, StageFacts, Degenerate, instance, points
<1>12. CASE UNCHANGED vars
  BY <1>12 DEF vars, StageFacts, instance, points
<1> QED
  BY <1>1, <1>2, <1>3, <1>4, <1>5, <1>6, <1>7, <1>8, <1>9, <1>10, <1>11,
     <1>12 DEF Next

\* None of the assertions InstanceTrace::new makes about its own results
\* fails (AssertionsHold): the three assert_eq! of the mimicked products
\* against the last rows of the traces, and assert_eq!(r, (wb - shift).x),
\* for every group order, shift point, loop length and scalar width.
THEOREM AssertionsCorrect == Spec => []AssertionsHold
<1>1. SInv => AssertionsHold
  BY DEF SInv, StageFacts, AssertionsHold
<1>2. Init => SInv
  BY InitIInv, InitStage DEF SInv
<1>3. SInv /\ [Next]_vars => SInv'
  BY NextIInv, NextStage DEF SInv
<1> QED
  BY <1>1, <1>2, <1>3, PTL DEF Spec

\* Every trace new returns satisfies the AIR's non-degeneracy conditions
\* (AirConstraintsHold): the three multiplication traces, the addition
\* z * G + r * Q and the final subtraction of the shift point.
THEOREM AirConstraintsCorrect == Spec => []AirConstraintsHold
<1>1. SInv => AirConstraintsHold
  BY DEF SInv, StageFacts, AirConstraintsHold, AfterB, AfterGen, AfterVerify,
         AfterWb
<1>2. Init => SInv
  BY InitIInv, InitStage DEF SInv
<1>3. SInv /\ [Next]_vars => SInv'
  BY NextIInv, NextStage DEF SInv
<1> QED
  BY <1>1, <1>2, <1>3, PTL DEF Spec
====

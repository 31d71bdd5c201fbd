------------------------------ MODULE EcdsaTrace ------------------------------
(***************************************************************************)
(* InstanceTrace::new of the ECDSA builtin (src/builtins/src/ecdsa/mod.rs) *)
(* with the signature check `verify` it calls first: the statements of the *)
(* two functions in their order, each call of mimic_ec_mult_air and        *)
(* gen_ec_mult_steps taken as one step whose outcome is the closed form of *)
(* module EcCurve (module EcMult checks the loops against those forms).    *)
(*                                                                         *)
(* Every unwrap, expect and assert of the two functions is a transition to *)
(* pc = "panic" with the reason in `fail`.  Field values (message, r, w)   *)
(* are small naturals; the curve is EcCurve's.                             *)
(***************************************************************************)
EXTENDS EcCurve

\* A field element that is the x-coordinate of no curve point.
OffCurveX == N
\* pubkey before verify has returned one.
NoKey == N

\* calculate_slope(p, q) (src/builtins/src/utils, modelled from the spec):
\* the chord slope of two points with distinct x, the tangent slope of a
\* point with itself unless its y is zero (only the identity, (0, 0) in
\* arkworks' affine form, in a group of odd order), None otherwise.
SlopeOk(p, q) == IF p = q THEN p # Identity ELSE XCoord(p) # XCoord(q)

\* doubling_steps(p): calculate_slope(p, p).unwrap() on NSteps doublings.
DoublingOk(p) == \A k \in 0..(NSteps - 1) : SlopeOk(Mul(2^k, p), Mul(2^k, p))

\* The last row's partial sum of gen_ec_mult_steps(m, p, s) (EcMult checks
\* it is shift + m * point whenever the call returns).
GenLast(m, p, s) == MultValue(m, p, s)

-----------------------------------------------------------------------------
VARIABLES
    message, r, w, pubkeyX,  \* the EcdsaInstance
    yFirstPos,   \* get_ys_from_x returns (y1, y0) with y1 the y of +pubkeyX
    pc, fail,    \* the statement reached; the reason of a panic
    cand,        \* index of verify's candidate y (1 for y1, 2 for y0)
    pubkey, zg, qr, b, wb

instance == <<message, r, w, pubkeyX, yFirstPos>>
points == <<pubkey, zg, qr, b, wb>>
vars == <<instance, pc, fail, cand, points>>

\* The candidate public key tried in verify's iteration i.
Candidate(i) == IF (i = 1) = yFirstPos THEN pubkeyX ELSE Neg(pubkeyX)

\* The three mimic_ec_mult_air calls of verify's loop body for key q.
VZg == MultValue(message, Generator, Neg(ShiftPoint))
VRq(q) == MultValue(r, q, ShiftPoint)
VerifyMimicsOk(q) ==
    /\ MimicOk(message, Generator, Neg(ShiftPoint))
    /\ MimicOk(r, q, ShiftPoint)
    /\ MimicOk(w, Add(VZg, VRq(q)), ShiftPoint)
\* x = (wb - shift).into_affine().x
VerifyX(q) ==
    XCoord(Add(MultValue(w, Add(VZg, VRq(q)), ShiftPoint), Neg(ShiftPoint)))

\* Scalars as read from the instance: messages and r up to 2^ScalarBits (the
\* first value the range checks refuse) and w any element of Fr.
MessageInput == 0..2^ScalarBits
WInput == 0..(N - 1)
XInput == (1..((N - 1) \div 2)) \cup {OffCurveX}

Init ==
    /\ message \in MessageInput /\ r \in MessageInput /\ w \in WInput
    /\ pubkeyX \in XInput /\ yFirstPos \in BOOLEAN
    /\ pc = "start" /\ fail = "none" /\ cand = 1
    /\ pubkey = NoKey /\ zg = Identity /\ qr = Identity /\ b = Identity
    /\ wb = Identity

Fail(reason) == pc' = "panic" /\ fail' = reason

-----------------------------------------------------------------------------
\* let s = w.inverse().unwrap()
InvertW ==
    /\ pc = "start"
    /\ \/ w = 0 /\ Fail("w_inverse")
       \/ w # 0 /\ pc' = "recover" /\ UNCHANGED fail
    /\ UNCHANGED <<instance, cand, points>>

\* verify: get_ys_from_x_unchecked(pubkey_x).expect("not on the curve")
RecoverYs ==
    /\ pc = "recover"
    /\ \/ pubkeyX = OffCurveX /\ Fail("not_on_curve")
       \/ pubkeyX # OffCurveX /\ pc' = "verify" /\ UNCHANGED fail
    /\ UNCHANGED <<instance, cand, points>>

\* A mimic_ec_mult_air(..).unwrap() of the loop body panics.
VerifyUnwrapFails ==
    /\ pc = "verify"
    /\ ~VerifyMimicsOk(Candidate(cand))
    /\ Fail("verify_unwrap")
    /\ UNCHANGED <<instance, cand, points>>

\* Mutant: verify returns the first candidate whichever one matched.
VerifyAcceptFirstY ==
    /\ pc = "verify"
    /\ VerifyMimicsOk(Candidate(cand))
    /\ r = VerifyX(Candidate(cand))
    /\ pubkey' = Candidate(1)
    /\ pc' = "mult_b"
    /\ UNCHANGED <<instance, fail, cand, zg, qr, b, wb>>

\* `if r == x { return Some(pubkey) }`
VerifyAccept ==
    /\ pc = "verify"
    /\ VerifyMimicsOk(Candidate(cand))
    /\ r = VerifyX(Candidate(cand))
    /\ pubkey' = Candidate(cand)
    /\ pc' = "mult_b"
    /\ UNCHANGED <<instance, fail, cand, zg, qr, b, wb>>

\* Mutant: the loop moves past y0 instead of ending.
VerifyNextCandidateUnbounded ==
    /\ pc = "verify"
    /\ VerifyMimicsOk(Candidate(cand))
    /\ r # VerifyX(Candidate(cand))
    /\ cand' = cand + 1
    /\ UNCHANGED <<instance, pc, fail, points>>

\* The equation fails for y1: try y0.
VerifyNextCandidate ==
    /\ pc = "verify"
    /\ VerifyMimicsOk(Candidate(cand))
    /\ r # VerifyX(Candidate(cand))
    /\ cand = 1
    /\ cand' = 2
    /\ UNCHANGED <<instance, pc, fail, points>>

\* verify returns None and new's .expect("signature is invalid") panics.
VerifyReject ==
    /\ pc = "verify"
    /\ VerifyMimicsOk(Candidate(cand))
    /\ r # VerifyX(Candidate(cand))
    /\ cand = 2
    /\ Fail("invalid_signature")
    /\ UNCHANGED <<instance, cand, points>>

-----------------------------------------------------------------------------
(* InstanceTrace::new after verify                                         *)

\* Mutant: z * G is computed with the shift point instead of its negation.
ComputeBWrongShift ==
    /\ pc = "mult_b"
    /\ LET zgV == MultValue(message, Generator, ShiftPoint)
           qrV == MultValue(r, pubkey, ShiftPoint)
           ok  == MimicOk(message, Generator, ShiftPoint)
                  /\ MimicOk(r, pubkey, ShiftPoint)
       IN \/ ~ok /\ Fail("mult_unwrap") /\ UNCHANGED <<zg, qr, b>>
          \/ ok /\ (Degenerate(zgV, qrV) \/ ~DoublingOk(Add(zgV, qrV)))
             /\ Fail(IF Degenerate(zgV, qrV) THEN "b_slope" ELSE "doubling")
             /\ UNCHANGED <<zg, qr, b>>
          \/ ok /\ ~Degenerate(zgV, qrV) /\ DoublingOk(Add(zgV, qrV))
             /\ zg' = zgV /\ qr' = qrV /\ b' = Add(zgV, qrV)
             /\ pc' = "mult_wb" /\ UNCHANGED fail
    /\ UNCHANGED <<instance, cand, pubkey, wb>>

\* Mutant: B's slope and x-difference inverse are not computed.
ComputeBNoSlope ==
    /\ pc = "mult_b"
    /\ LET zgV == MultValue(message, Generator, Neg(ShiftPoint))
           qrV == MultValue(r, pubkey, ShiftPoint)
           ok  == MimicOk(message, Generator, Neg(ShiftPoint))
                  /\ MimicOk(r, pubkey, ShiftPoint)
       IN \/ ~ok /\ Fail("mult_unwrap") /\ UNCHANGED <<zg, qr, b>>
          \/ ok /\ ~DoublingOk(Add(zgV, qrV)) /\ Fail("doubling")
             /\ UNCHANGED <<zg, qr, b>>
          \/ ok /\ DoublingOk(Add(zgV, qrV))
             /\ zg' = zgV /\ qr' = qrV /\ b' = Add(zgV, qrV)
             /\ pc' = "mult_wb" /\ UNCHANGED fail
    /\ UNCHANGED <<instance, cand, pubkey, wb>>

\* zg and qr by mimic_ec_mult_air(..).unwrap(), b = zg + qr, then
\* calculate_slope(zg, qr).unwrap(), (zg.x - qr.x).inverse().unwrap() and
\* doubling_steps(b), each of which may panic.
ComputeB ==
    /\ pc = "mult_b"
    /\ LET zgV == MultValue(message, Generator, Neg(ShiftPoint))
           qrV == MultValue(r, pubkey, ShiftPoint)
           ok  == MimicOk(message, Generator, Neg(ShiftPoint))
                  /\ MimicOk(r, pubkey, ShiftPoint)
       IN \/ ~ok /\ Fail("mult_unwrap") /\ UNCHANGED <<zg, qr, b>>
          \/ ok /\ (Degenerate(zgV, qrV) \/ ~DoublingOk(Add(zgV, qrV)))
             /\ Fail(IF Degenerate(zgV, qrV) THEN "b_slope" ELSE "doubling")
             /\ UNCHANGED <<zg, qr, b>>
          \/ ok /\ ~Degenerate(zgV, qrV) /\ DoublingOk(Add(zgV, qrV))
             /\ zg' = zgV /\ qr' = qrV /\ b' = Add(zgV, qrV)
             /\ pc' = "mult_wb" /\ UNCHANGED fail
    /\ UNCHANGED <<instance, cand, pubkey, wb>>

\* wb = mimic_ec_mult_air(w, b, shift_point).unwrap()
ComputeWb ==
    /\ pc = "mult_wb"
    /\ \/ ~MimicOk(w, b, ShiftPoint) /\ Fail("mult_unwrap") /\ UNCHANGED wb
       \/ MimicOk(w, b, ShiftPoint) /\ wb' = MultValue(w, b, ShiftPoint)
          /\ pc' = "gen" /\ UNCHANGED fail
    /\ UNCHANGED <<instance, cand, pubkey, zg, qr, b>>

\* The three gen_ec_mult_steps calls; any of them may panic.
GenTraces ==
    /\ pc = "gen"
    /\ LET ok == /\ GenOk(message, Generator, Neg(ShiftPoint))
                 /\ GenOk(r, pubkey, ShiftPoint)
                 /\ GenOk(w, b, ShiftPoint)
       IN \/ ~ok /\ Fail("gen_degenerate")
          \/ ok /\ pc' = "check" /\ UNCHANGED fail
    /\ UNCHANGED <<instance, cand, points>>

\* The three assert_eq! of the mimic results against the last rows.
CheckMults ==
    /\ pc = "check"
    /\ LET ok == /\ zg = GenLast(message, Generator, Neg(ShiftPoint))
                 /\ qr = GenLast(r, pubkey, ShiftPoint)
                 /\ wb = GenLast(w, b, ShiftPoint)
       IN \/ ~ok /\ Fail("assert")
          \/ ok /\ pc' = "finish" /\ UNCHANGED fail
    /\ UNCHANGED <<instance, cand, points>>

\* The inverses of w, r and the message in Fp, doubling_steps(pubkey),
\* calculate_slope(wb, -shift).unwrap() and (wb.x - (-shift).x).inverse()
\* .unwrap(), then assert_eq!(r, (wb - shift).x).
Finish ==
    /\ pc = "finish"
    /\ LET ok == /\ w # 0 /\ r # 0 /\ message # 0
                 /\ DoublingOk(pubkey)
                 /\ SlopeOk(wb, Neg(ShiftPoint))
                 /\ XCoord(wb) # XCoord(Neg(ShiftPoint))
       IN \/ ~ok /\ Fail("r_point")
          \/ ok /\ r # XCoord(Add(wb, Neg(ShiftPoint))) /\ Fail("assert")
          \/ ok /\ r = XCoord(Add(wb, Neg(ShiftPoint)))
             /\ pc' = "done" /\ UNCHANGED fail
    /\ UNCHANGED <<instance, cand, points>>

-----------------------------------------------------------------------------
Next ==
    \/ InvertW \/ RecoverYs
    \/ VerifyUnwrapFails \/ VerifyAccept \/ VerifyNextCandidate \/ VerifyReject
    \/ ComputeB \/ ComputeWb \/ GenTraces \/ CheckMults \/ Finish

Spec == Init /\ [][Next]_vars

-----------------------------------------------------------------------------
(* Properties                                                              *)

Stage == {"start", "recover", "verify", "mult_b", "mult_wb", "gen", "check",
          "finish", "done", "panic"}
Reason == {"none", "w_inverse", "not_on_curve", "verify_unwrap",
           "invalid_signature", "mult_unwrap", "b_slope", "doubling",
           "gen_degenerate", "assert", "r_point"}

TypeOK ==
    /\ message \in MessageInput /\ r \in MessageInput /\ w \in WInput
    /\ pubkeyX \in XInput /\ yFirstPos \in BOOLEAN
    /\ pc \in Stage /\ fail \in Reason /\ cand \in {1, 2}
    /\ pubkey \in Point \cup {NoKey}
    /\ {zg, qr, b, wb} \subseteq Point

\* The ECDSA equation of StarkEx's verify, without shift points:
\* x(w * (z * G + r * Q)) = r.
SignatureHolds(q) ==
    r = XCoord(Mul(w, Add(Mul(message, Generator), Mul(r, q))))

\* The key verify returns has the instance's x-coordinate and the signature
\* is valid for it: verify's shifted formula x((w * (zg + rq)) - shift),
\* with zg = z*G - shift and rq = r*Q + shift, agrees with plain ECDSA, and
\* the key returned is the candidate that matched.  Every trace new builds
\* records this key.
AcceptedKeyIsValid ==
    pubkey # NoKey =>
        /\ XCoord(pubkey) = pubkeyX
        /\ SignatureHolds(pubkey)

\* None of new's internal consistency assertions (the three assert_eq! on
\* the multiplication results, and r = x(wb - shift)) ever fails.
AssertionsHold == fail # "assert"

\* A built trace satisfies every non-degeneracy condition of the AIR: the
\* three multiplications, the addition z*G + r*Q and the final subtraction
\* of the shift point all have inverses for their x-differences.
AirConstraintsHold ==
    pc = "done" =>
        /\ GenOk(message, Generator, Neg(ShiftPoint))
        /\ GenOk(r, pubkey, ShiftPoint)
        /\ GenOk(w, b, ShiftPoint)
        /\ ~Degenerate(zg, qr)
        /\ ~Degenerate(wb, Neg(ShiftPoint))

\* The comment in verify: the shifted formula "ensures that if the
\* verification errors in our AIR, it errors here as well" -- once verify
\* has accepted the key, no AIR non-degeneracy check of new panics.
VerifyCatchesAirErrors ==
    pubkey # NoKey => fail \notin {"b_slope", "gen_degenerate", "r_point"}

\* The spec's step 1: "The first candidate satisfying the equation is
\* accepted as the public key" -- a key for which the signature holds and
\* verify's own computation is non-degenerate is never refused.
ValidCandidateAccepted ==
    (pc = "panic" /\ pubkeyX # OffCurveX /\ w # 0 /\ pubkey = NoKey) =>
        \A i \in {1, 2} :
            ~(SignatureHolds(Candidate(i)) /\ VerifyMimicsOk(Candidate(i)))
=============================================================================

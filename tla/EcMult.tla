------------------------------- MODULE EcMult -------------------------------
(***************************************************************************)
(* One scalar multiplication of the ECDSA builtin's witness generator      *)
(* (src/builtins/src/ecdsa/mod.rs), computed by the two routines that      *)
(* InstanceTrace::new applies to the same arguments (m, point, shift):     *)
(*                                                                         *)
(*   mimic_ec_mult_air  computes shift + m * point the way the AIR does,   *)
(*                      and returns None when it finds a degenerate step;  *)
(*   gen_ec_mult_steps  records one witness row per iteration of a loop of *)
(*                      NSteps (256) iterations and panics on a            *)
(*                      degenerate row.                                    *)
(*                                                                         *)
(* The curve group is the one of module EcCurve.  The loops are checked   *)
(* against EcCurve's closed-form results MimicOk, GenOk and MultValue,     *)
(* which module EcdsaTrace uses for each call of the two routines.         *)
(***************************************************************************)
EXTENDS EcCurve, Sequences

\* A witness row of gen_ec_mult_steps (EcMultPartialStep without the slope
\* and x_diff_inv values, which are functions of the points).
Row == [partial_sum : Point, fixed_point : Point, suffix : Nat]

-----------------------------------------------------------------------------
VARIABLES
    m0, base, shift,                                \* the arguments
    mimicM, mimicPoint, mimicSum, mimicOut,         \* mimic_ec_mult_air
    genI, genSuffix, genPoint, genSum, genRes, genOut \* gen_ec_mult_steps

args  == <<m0, base, shift>>
mimic == <<mimicM, mimicPoint, mimicSum, mimicOut>>
gen   == <<genI, genSuffix, genPoint, genSum, genRes, genOut>>
vars  == <<args, mimic, gen>>

\* The arguments InstanceTrace::new passes: a scalar (0 and 2^ScalarBits
\* included, the smallest ones each range check must refuse), any point
\* (B = z*G + r*Q may be the identity) and the shift point or its negation.
ScalarInput == 0..2^ScalarBits
ShiftInput == {ShiftPoint, Neg(ShiftPoint)}

Init ==
    /\ m0 \in ScalarInput
    /\ base \in Point
    /\ shift \in ShiftInput
    /\ mimicM = m0 /\ mimicPoint = base /\ mimicSum = shift
    /\ mimicOut = "call"
    /\ genI = 0 /\ genSuffix = m0 /\ genPoint = base /\ genSum = shift /\ genRes = << >>
    /\ genOut = "idle"

-----------------------------------------------------------------------------
(* mimic_ec_mult_air                                                       *)

\* Mutant: the range check refuses one bit too many (bits() < 251).
MimicCallNarrowRange ==
    /\ mimicOut = "call"
    /\ mimicOut' = IF 1 <= mimicM /\ 2 * mimicM < 2^ScalarBits
                   THEN "loop" ELSE "none"
    /\ UNCHANGED <<args, mimicM, mimicPoint, mimicSum, gen>>

\* The range check on m.bits() before the loop.
MimicCall ==
    /\ mimicOut = "call"
    /\ mimicOut' = IF ScalarInRange(mimicM) THEN "loop" ELSE "none"
    /\ UNCHANGED <<args, mimicM, mimicPoint, mimicSum, gen>>

\* An iteration whose x-coordinates coincide returns None.
MimicDegenerate ==
    /\ mimicOut = "loop"
    /\ mimicM # 0
    /\ Degenerate(mimicSum, mimicPoint)
    /\ mimicOut' = "none"
    /\ UNCHANGED <<args, mimicM, mimicPoint, mimicSum, gen>>

\* Mutant: the point is doubled before it is added to the partial sum.
MimicIterDoubleFirst ==
    /\ mimicOut = "loop"
    /\ mimicM # 0
    /\ ~Degenerate(mimicSum, mimicPoint)
    /\ mimicSum' = IF mimicM % 2 = 1 THEN Add(mimicSum, Double(mimicPoint))
                                     ELSE mimicSum
    /\ mimicPoint' = Double(mimicPoint)
    /\ mimicM' = mimicM \div 2
    /\ UNCHANGED <<args, mimicOut, gen>>

\* One iteration of `while m != 0`: add on a set bit, double, shift m.
MimicIter ==
    /\ mimicOut = "loop"
    /\ mimicM # 0
    /\ ~Degenerate(mimicSum, mimicPoint)
    /\ mimicSum' = IF mimicM % 2 = 1 THEN Add(mimicSum, mimicPoint)
                                     ELSE mimicSum
    /\ mimicPoint' = Double(mimicPoint)
    /\ mimicM' = mimicM \div 2
    /\ UNCHANGED <<args, mimicOut, gen>>

\* Mutant: the loop's exit tests the argument m0 instead of the shifted m.
MimicReturnTestsArgument ==
    /\ mimicOut = "loop"
    /\ m0 = 0
    /\ mimicOut' = "some"
    /\ UNCHANGED <<args, mimicM, mimicPoint, mimicSum, gen>>

MimicReturn ==
    /\ mimicOut = "loop"
    /\ mimicM = 0
    /\ mimicOut' = "some"
    /\ UNCHANGED <<args, mimicM, mimicPoint, mimicSum, gen>>

-----------------------------------------------------------------------------
(* gen_ec_mult_steps, called once mimic_ec_mult_air has returned           *)

\* Mutant: the second assertion reads x <= 2^251.
GenCallInclusiveBound ==
    /\ genOut = "idle"
    /\ mimicOut \in {"none", "some"}
    /\ genOut' = IF 1 <= m0 /\ m0 <= 2^ScalarBits THEN "loop" ELSE "panic"
    /\ UNCHANGED <<args, mimic, genI, genSuffix, genPoint, genSum, genRes>>

\* The two assertions on x before the loop.
GenCall ==
    /\ genOut = "idle"
    /\ mimicOut \in {"none", "some"}
    /\ genOut' = IF ScalarInRange(m0) THEN "loop" ELSE "panic"
    /\ UNCHANGED <<args, mimic, genI, genSuffix, genPoint, genSum, genRes>>

\* Mutant: the loop runs for i in 0..=NSteps.
GenStepInclusiveBound ==
    /\ genOut = "loop"
    /\ genI <= NSteps
    /\ ~Degenerate(genSum, genPoint)
    /\ genRes' = Append(genRes, [partial_sum |-> genSum,
                                 fixed_point |-> genPoint,
                                 suffix      |-> genSuffix])
    /\ genSum' = IF genSuffix % 2 = 1 THEN Add(genSum, genPoint) ELSE genSum
    /\ genPoint' = Double(genPoint)
    /\ genSuffix' = genSuffix \div 2
    /\ genI' = genI + 1
    /\ UNCHANGED <<args, mimic, genOut>>

\* Mutant: the row records partial_sum_next instead of partial_sum.
GenStepRecordsNext ==
    /\ genOut = "loop"
    /\ genI < NSteps
    /\ ~Degenerate(genSum, genPoint)
    /\ genSum' = IF genSuffix % 2 = 1 THEN Add(genSum, genPoint) ELSE genSum
    /\ genRes' = Append(genRes, [partial_sum |-> genSum',
                                 fixed_point |-> genPoint,
                                 suffix      |-> genSuffix])
    /\ genPoint' = Double(genPoint)
    /\ genSuffix' = genSuffix \div 2
    /\ genI' = genI + 1
    /\ UNCHANGED <<args, mimic, genOut>>

\* Iteration i records its row, then adds on a set bit and doubles.  The
\* suffix x >> i is carried from one iteration to the next as
\* genSuffix' = genSuffix \div 2, which is x >> (i + 1).
GenStep ==
    /\ genOut = "loop"
    /\ genI < NSteps
    /\ ~Degenerate(genSum, genPoint)
    /\ genRes' = Append(genRes, [partial_sum |-> genSum,
                                 fixed_point |-> genPoint,
                                 suffix      |-> genSuffix])
    /\ genSum' = IF genSuffix % 2 = 1 THEN Add(genSum, genPoint) ELSE genSum
    /\ genPoint' = Double(genPoint)
    /\ genSuffix' = genSuffix \div 2
    /\ genI' = genI + 1
    /\ UNCHANGED <<args, mimic, genOut>>

\* calculate_slope(..).unwrap() on a set bit, and the unconditional
\* (partial_sum.x - point.x).inverse().unwrap(), panic on a degenerate row.
GenPanic ==
    /\ genOut = "loop"
    /\ genI < NSteps
    /\ Degenerate(genSum, genPoint)
    /\ genOut' = "panic"
    /\ UNCHANGED <<args, mimic, genI, genSuffix, genPoint, genSum, genRes>>

GenReturn ==
    /\ genOut = "loop"
    /\ genI = NSteps
    /\ genOut' = "done"
    /\ UNCHANGED <<args, mimic, genI, genSuffix, genPoint, genSum, genRes>>

-----------------------------------------------------------------------------
Terminated == genOut \in {"panic", "done"}

Next ==
    \/ MimicCall \/ MimicDegenerate \/ MimicIter \/ MimicReturn
    \/ GenCall \/ GenStep \/ GenPanic \/ GenReturn

Spec == Init /\ [][Next]_vars

\* InstanceTrace::new runs both routines on its own thread, and they wait
\* on nothing: while a step is enabled, one is eventually taken.
FairSpec == Spec /\ WF_vars(Next)

-----------------------------------------------------------------------------
(* Properties                                                              *)

TypeOK ==
    /\ m0 \in Nat /\ base \in Point /\ shift \in Point
    /\ mimicM \in Nat /\ mimicPoint \in Point /\ mimicSum \in Point
    /\ mimicOut \in {"call", "loop", "none", "some"}
    /\ genI \in 0..NSteps /\ genSuffix \in Nat /\ genPoint \in Point /\ genSum \in Point
    /\ genRes \in Seq(Row)
    /\ genOut \in {"idle", "loop", "panic", "done"}

\* The result mimic_ec_mult_air returns is shift + m * point: the loop that
\* consumes m bit by bit while doubling the point computes the reference
\* scalar multiplication.
MimicComputesShiftedMult ==
    mimicOut = "some" => mimicSum = MultValue(m0, base, shift)

\* The loop invariant of mimic_ec_mult_air: shift + m * point is what is
\* left to add to the partial sum, so partial_sum + m * point stays equal
\* to the result from the call to the return.
MimicLoopInv ==
    /\ mimicOut \in {"call", "loop", "some"} =>
         (mimicSum + mimicM * mimicPoint) % N = (shift + m0 * base) % N
    /\ mimicOut = "some" => mimicM = 0

\* Row s follows row r in a trace: the fixed point doubled, the suffix
\* halved, and the fixed point added to the partial sum on an odd suffix.
RowFollows(r, s) ==
    /\ s.fixed_point = Double(r.fixed_point)
    /\ s.suffix = r.suffix \div 2
    /\ s.partial_sum = IF r.suffix % 2 = 1
                       THEN Add(r.partial_sum, r.fixed_point)
                       ELSE r.partial_sum

\* The rows of every trace gen_ec_mult_steps returns are chained: NSteps
\* rows starting at (shift, point, m), each row non-degenerate, each next
\* row following its predecessor.
TraceRowsChained ==
    genOut = "done" =>
        /\ Len(genRes) = NSteps
        /\ genRes[1] = [partial_sum |-> shift, fixed_point |-> base,
                        suffix |-> m0]
        /\ \A j \in 1..NSteps :
             ~Degenerate(genRes[j].partial_sum, genRes[j].fixed_point)
        /\ \A j \in 1..(NSteps - 1) : RowFollows(genRes[j], genRes[j + 1])

\* Every trace gen_ec_mult_steps returns satisfies the rows' constraints:
\* the rows are chained (TraceRowsChained) and the last suffix is zero, so
\* that the rows have consumed every bit of the scalar.
TraceSatisfiesRows ==
    /\ TraceRowsChained
    /\ genOut = "done" => genRes[NSteps].suffix = 0

\* mimic_ec_mult_air returns Some exactly when the reference MimicOk says
\* so: the loop checks every iteration it runs for degeneracy, and only
\* those, after the range check on m.bits().
MimicMatchesReference ==
    mimicOut \in {"none", "some"} =>
        (mimicOut = "some" <=> MimicOk(m0, base, shift))

\* gen_ec_mult_steps returns a trace exactly when the reference GenOk says
\* so (x passes both assertions and every one of the NSteps rows is
\* non-degenerate), and the partial sum of its last row is shift + x * point,
\* the value InstanceTrace::new compares with mimic_ec_mult_air's result.
GenMatchesReference ==
    /\ genOut \in {"panic", "done"} =>
         (genOut = "done" <=> GenOk(m0, base, shift))
    /\ genOut = "done" =>
         genRes[NSteps].partial_sum = MultValue(m0, base, shift)

\* The doc comment of mimic_ec_mult_air: it "Returns None if and only if
\* the AIR errors".  The AIR's rows are those gen_ec_mult_steps records, and
\* it needs every one of the NSteps rows to be non-degenerate.
MimicIffAirOk ==
    (mimicOut = "some" /\ Terminated) => genOut = "done"

-----------------------------------------------------------------------------
\* Both routines finish for every scalar, point and shift: the loop of
\* mimic_ec_mult_air ends because each iteration halves m (it has no
\* bound of its own, unlike gen's 256 rows), and gen_ec_mult_steps returns
\* or panics after at most NSteps rows.
BothReturn == <>(mimicOut \in {"none", "some"} /\ Terminated)
=============================================================================

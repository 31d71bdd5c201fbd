---------------------------- MODULE EcMult_proofs ----------------------------
(* Proofs about EcMult for every group order, shift point, loop length and *)
(* scalar width allowed by ConstantsAssumption.                            *)
EXTENDS EcMult, EcCurve_proofs, Integers, TLAPS

-----------------------------------------------------------------------------
\* The type invariant: every value stays in its range, in particular the
\* loop counter of gen_ec_mult_steps never passes NSteps.
THEOREM TypeCorrect == Spec => []TypeOK
<1>1. Init => TypeOK
  <2> SUFFICES ASSUME Init PROVE TypeOK
    OBVIOUS
  <2>1. m0 \in Nat
    BY DEF Init, ScalarInput
  <2>2. shift \in Point
    <3>1. ShiftPoint \in Point
      BY ConstantsAssumption DEF Point
    <3>2. QED
      BY <3>1, PointClosed DEF Init, ShiftInput
  <2>3. QED
    BY <2>1, <2>2, ConstantsAssumption DEF Init, TypeOK
<1>2. TypeOK /\ [Next]_vars => TypeOK'
  <2> SUFFICES ASSUME TypeOK, [Next]_vars PROVE TypeOK'
    OBVIOUS
  <2> USE DEF TypeOK, args, mimic, gen
  <2>1. CASE MimicCall
    BY <2>1 DEF MimicCall
  <2>2. CASE MimicDegenerate
    BY <2>2 DEF MimicDegenerate
  <2>3. CASE MimicIter
    <3>1. mimicSum' \in Point
      BY <2>3, PointClosed DEF MimicIter
    <3>2. mimicPoint' \in Point
      BY <2>3, PointClosed DEF MimicIter
    <3>3. mimicM' \in Nat
      BY <2>3 DEF MimicIter
    <3>4. QED
      BY <2>3, <3>1, <3>2, <3>3 DEF MimicIter
  <2>4. CASE MimicReturn
    BY <2>4 DEF MimicReturn
  <2>5. CASE GenCall
    BY <2>5 DEF GenCall
  <2>6. CASE GenStep
    <3>1. [partial_sum |-> genSum, fixed_point |-> genPoint,
           suffix |-> genSuffix] \in Row
      BY DEF Row
    <3>2. genRes' \in Seq(Row)
      BY <2>6, <3>1 DEF GenStep
    <3>3. genSum' \in Point /\ genPoint' \in Point
      BY <2>6, PointClosed DEF GenStep
    <3>4. genSuffix' \in Nat /\ genI' \in 0..NSteps
      BY <2>6, ConstantsAssumption DEF GenStep
    <3>5. QED
      BY <2>6, <3>2, <3>3, <3>4 DEF GenStep
  <2>7. CASE GenPanic
    BY <2>7 DEF GenPanic
  <2>8. CASE GenReturn
    BY <2>8 DEF GenReturn
  <2>9. CASE UNCHANGED vars
    BY <2>9 DEF vars, TypeOK
  <2>10. QED
    BY <2>1, <2>2, <2>3, <2>4, <2>5, <2>6, <2>7, <2>8, <2>9 DEF Next
<1>3. QED
  BY <1>1, <1>2, PTL DEF Spec

-----------------------------------------------------------------------------
\* The loop of mimic_ec_mult_air keeps partial_sum + m * point constant
\* modulo N.  One step per action that changes the mimic variables.
LEMMA MimicLoopInvInductive ==
    TypeOK /\ MimicLoopInv /\ [Next]_vars => MimicLoopInv'
<1> SUFFICES ASSUME TypeOK, MimicLoopInv, [Next]_vars PROVE MimicLoopInv'
  OBVIOUS
<1> USE DEF args, mimic, gen
<1>1. CASE MimicCall
  BY <1>1 DEF MimicCall, MimicLoopInv
<1>2. CASE MimicDegenerate
  BY <1>2 DEF MimicDegenerate, MimicLoopInv
<1>3. CASE MimicIter
  <2> DEFINE s == mimicSum  p == mimicPoint  m == mimicM  h == m \div 2
  <2>1. s \in Point /\ p \in Point /\ m \in Nat /\ h \in Nat
    BY DEF TypeOK, s, p, m, h
  <2>2. mimicPoint' = (p + p) % N /\ mimicM' = h
    BY <1>3 DEF MimicIter, Double, Add, p, m, h
  <2>3. (mimicSum' + mimicM' * mimicPoint') % N = (s + m * p) % N
    <3>1. CASE m % 2 = 1
      <4>1. mimicSum' = (s + p) % N
        BY <1>3, <3>1 DEF MimicIter, Add, s, p, m
      <4>2. (((s + p) % N) + h * ((p + p) % N)) % N = (s + p + h * (p + p)) % N
        BY <2>1, ModCongr DEF Point
      <4>3. s + p + h * (p + p) = s + m * p
        BY <2>1, <3>1 DEF h, Point
      <4>4. QED
        BY <2>2, <4>1, <4>2, <4>3
    <3>2. CASE m % 2 # 1
      <4>1. mimicSum' = s
        BY <1>3, <3>2 DEF MimicIter, s, m
      <4>2. ((s % N) + h * ((p + p) % N)) % N = (s + h * (p + p)) % N
        BY <2>1, ModCongr DEF Point
      <4>3. s + h * (p + p) = s + m * p /\ s % N = s
        BY <2>1, <3>2, PointMod DEF h, Point
      <4>4. QED
        BY <2>2, <4>1, <4>2, <4>3
    <3>3. QED
      BY <3>1, <3>2
  <2>4. QED
    BY <1>3, <2>3 DEF MimicIter, MimicLoopInv, s, p, m
<1>4. CASE MimicReturn
  BY <1>4 DEF MimicReturn, MimicLoopInv
<1>5. CASE GenCall \/ GenStep \/ GenPanic \/ GenReturn
  BY <1>5 DEF GenCall, GenStep, GenPanic, GenReturn, MimicLoopInv
<1>6. CASE UNCHANGED vars
  BY <1>6 DEF vars, MimicLoopInv
<1>7. QED
  BY <1>1, <1>2, <1>3, <1>4, <1>5, <1>6 DEF Next

\* mimic_ec_mult_air returns shift + m * point, for every group order,
\* shift point and scalar width: the loop invariant at m = 0.
THEOREM MimicCorrect == Spec => []MimicComputesShiftedMult
<1>1. Init => MimicLoopInv
  BY DEF Init, MimicLoopInv
<1>2. TypeOK /\ MimicLoopInv => MimicComputesShiftedMult
  <2> SUFFICES ASSUME TypeOK, MimicLoopInv, mimicOut = "some"
               PROVE  mimicSum = Add(shift, (m0 * base) % N)
    BY DEF MimicComputesShiftedMult, MultValue, Mul
  <2>1. mimicSum % N = (shift + m0 * base) % N
    BY ConstantsAssumption DEF MimicLoopInv, TypeOK, Point
  <2>2. mimicSum % N = mimicSum /\ shift % N = shift
    BY PointMod DEF TypeOK
  <2>3. ((shift % N) + 1 * ((m0 * base) % N)) % N = (shift + 1 * (m0 * base)) % N
    BY ModCongr DEF TypeOK, Point
  <2>4. 1 * ((m0 * base) % N) = (m0 * base) % N /\ 1 * (m0 * base) = m0 * base
    BY ConstantsAssumption DEF TypeOK, Point
  <2>5. (shift + ((m0 * base) % N)) % N = (shift + m0 * base) % N
    BY <2>2, <2>3, <2>4
  <2>6. QED
    BY <2>1, <2>2, <2>5 DEF Add
<1>3. QED
  BY <1>1, <1>2, MimicLoopInvInductive, TypeCorrect, PTL DEF Spec
-----------------------------------------------------------------------------
(* The rows of gen_ec_mult_steps.  TraceRowsChained speaks of the finished *)
(* trace only; during the loop the rows recorded so far are chained, and  *)
(* the loop variables are the row the next iteration will record.         *)

\* The row iteration genI of gen_ec_mult_steps records.
NextRow == [partial_sum |-> genSum, fixed_point |-> genPoint, suffix |-> genSuffix]

GenRowsInv ==
    /\ Len(genRes) = genI
    /\ genI = 0 => NextRow = [partial_sum |-> shift, fixed_point |-> base,
                              suffix |-> m0]
    /\ genI > 0 => genRes[1] = [partial_sum |-> shift, fixed_point |-> base,
                                suffix |-> m0]
    /\ \A j \in 1..genI :
         ~Degenerate(genRes[j].partial_sum, genRes[j].fixed_point)
    /\ \A j \in 1..(genI - 1) : RowFollows(genRes[j], genRes[j + 1])
    /\ genI > 0 => RowFollows(genRes[genI], NextRow)
    /\ genOut = "done" => genI = NSteps

LEMMA GenRowsInit == Init => GenRowsInv
BY DEF Init, GenRowsInv, NextRow

\* An iteration of gen_ec_mult_steps appends the row its loop variables
\* hold, and moves them to the row that follows it.
LEMMA GenRowsStep == TypeOK /\ GenRowsInv /\ [Next]_vars => GenRowsInv'
<1> SUFFICES ASSUME TypeOK, GenRowsInv, [Next]_vars PROVE GenRowsInv'
  OBVIOUS
<1> USE DEF args, mimic, gen
<1>1. CASE MimicCall \/ MimicDegenerate \/ MimicIter \/ MimicReturn
  BY <1>1 DEF MimicCall, MimicDegenerate, MimicIter, MimicReturn, GenRowsInv,
              NextRow
<1>2. CASE GenCall \/ GenPanic
  BY <1>2 DEF GenCall, GenPanic, GenRowsInv, NextRow
<1>3. CASE GenReturn
  BY <1>3 DEF GenReturn, GenRowsInv, NextRow
<1>4. CASE GenStep
  <2>1. genRes \in Seq(Row) /\ genI \in 0..NSteps /\ Len(genRes) = genI
    BY DEF TypeOK, GenRowsInv
  <2>2. /\ genRes' = Append(genRes, NextRow)
        /\ genI' = genI + 1 /\ genOut' = "loop"
        /\ UNCHANGED <<m0, base, shift>>
    BY <1>4 DEF GenStep, NextRow
  <2>3. /\ Len(genRes') = genI'
        /\ \A j \in 1..genI : genRes'[j] = genRes[j]
        /\ genRes'[genI + 1] = NextRow
    BY <2>1, <2>2
  <2>4. RowFollows(NextRow, NextRow')
    BY <1>4 DEF GenStep, RowFollows, NextRow
  <2>5. ~Degenerate(NextRow.partial_sum, NextRow.fixed_point)
    BY <1>4 DEF GenStep, NextRow
  <2>6. genRes'[1] = [partial_sum |-> shift, fixed_point |-> base, suffix |-> m0]
    <3>1. CASE genI = 0
      BY <2>2, <2>3, <3>1 DEF GenRowsInv
    <3>2. CASE genI # 0
      BY <2>1, <2>3, <3>2 DEF GenRowsInv
    <3> QED
      BY <3>1, <3>2
  <2>7. \A j \in 1..genI' :
          ~Degenerate(genRes'[j].partial_sum, genRes'[j].fixed_point)
    BY <2>1, <2>2, <2>3, <2>5 DEF GenRowsInv
  <2>8. \A j \in 1..(genI' - 1) : RowFollows(genRes'[j], genRes'[j + 1])
    <3> SUFFICES ASSUME NEW j \in 1..genI
                 PROVE  RowFollows(genRes'[j], genRes'[j + 1])
      BY <2>1, <2>2
    <3>1. CASE j < genI
      BY <2>1, <2>3, <3>1 DEF GenRowsInv
    <3>2. CASE j = genI
      BY <2>1, <2>3, <3>2 DEF GenRowsInv
    <3> QED
      BY <2>1, <3>1, <3>2
  <2>9. RowFollows(genRes'[genI'], NextRow')
    BY <2>1, <2>2, <2>3, <2>4
  <2> QED
    BY <2>1, <2>2, <2>3, <2>6, <2>7, <2>8, <2>9 DEF GenRowsInv
<1>5. CASE UNCHANGED vars
  BY <1>5 DEF vars, GenRowsInv, NextRow
<1> QED
  BY <1>1, <1>2, <1>3, <1>4, <1>5 DEF Next

\* Every trace gen_ec_mult_steps returns has NSteps rows starting at
\* (shift, point, m), none degenerate, each row following its predecessor
\* (TraceRowsChained), for every group order, shift point, loop length and
\* scalar width.
THEOREM RowsChained == Spec => []TraceRowsChained
<1>1. GenRowsInv => TraceRowsChained
  <2> SUFFICES ASSUME GenRowsInv, genOut = "done"
               PROVE  TraceRowsChained
    BY DEF TraceRowsChained
  <2>1. genI = NSteps /\ NSteps \in Nat /\ NSteps > 0
    BY ConstantsAssumption DEF GenRowsInv
  <2> QED
    BY <2>1 DEF GenRowsInv, TraceRowsChained
<1> QED
  BY <1>1, GenRowsInit, GenRowsStep, TypeCorrect, PTL DEF Spec
====

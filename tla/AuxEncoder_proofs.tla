--------------------------- MODULE AuxEncoder_proofs ---------------------------
(* Proofs about AuxEncoder for every set of layouts, entry set and bound   *)
(* on the public memory.                                                   *)
EXTENDS AuxEncoder, SequenceTheorems, TLAPS

\* Every write of the two blocks lands inside its vector.
LEMMA BaseInBounds == ~OutOfBounds(NumBaseVals, BaseWrites)
BY DEF OutOfBounds, BaseWrites, NumBaseVals, OffsetLogNSteps, OffsetRcMin,
       OffsetRcMax, OffsetLayoutCode, OffsetProgramBeginAddr,
       OffsetProgramStopPtr, OffsetExecutionBeginAddr, OffsetExecutionStopPtr,
       OffsetOutputBeginAddr, OffsetOutputStopPtr, OffsetPedersenBeginAddr,
       OffsetPedersenStopPtr, OffsetRangeCheckBeginAddr, OffsetRangeCheckStopPtr

LEMMA StarknetInBounds == ~OutOfBounds(NumVals, StarknetWrites)
BY DEF OutOfBounds, StarknetWrites, NumVals, OffsetEcdsaBeginAddr,
       OffsetEcdsaStopPtr, OffsetBitwiseBeginAddr, OffsetBitwiseStopAddr,
       OffsetEcOpBeginAddr, OffsetEcOpStopAddr, OffsetPoseidonBeginAddr,
       OffsetPoseidonStopPtr, OffsetPublicMemoryPaddingAddr,
       OffsetPublicMemoryPaddingValue, OffsetNPublicMemoryPages

\* A block whose k-th write goes to offset k - 1 leaves in each slot the
\* value of its own write.
LEMMA WrittenDiagonal ==
    ASSUME NEW n \in Nat, NEW writes, DOMAIN writes = 1..n,
           \A k \in 1..n : writes[k][1] = k - 1
    PROVE  \A i \in 1..n : Written(n, writes)[i] = writes[i][2]
<1> TAKE i \in 1..n
<1>1. {k \in DOMAIN writes : writes[k][1] = i - 1} = {i}
  OBVIOUS
<1> QED
  BY <1>1 DEF Written

\* The writes of both blocks go to the offsets 0, 1, 2, ... in order.
LEMMA BaseDiagonal ==
    /\ DOMAIN BaseWrites = 1..NumBaseVals
    /\ \A k \in 1..NumBaseVals : BaseWrites[k][1] = k - 1
BY DEF BaseWrites, NumBaseVals, OffsetLogNSteps, OffsetRcMin,
       OffsetRcMax, OffsetLayoutCode, OffsetProgramBeginAddr,
       OffsetProgramStopPtr, OffsetExecutionBeginAddr, OffsetExecutionStopPtr,
       OffsetOutputBeginAddr, OffsetOutputStopPtr, OffsetPedersenBeginAddr,
       OffsetPedersenStopPtr, OffsetRangeCheckBeginAddr, OffsetRangeCheckStopPtr

LEMMA StarknetDiagonal ==
    /\ DOMAIN StarknetWrites = 1..NumVals
    /\ \A k \in 1..NumVals : StarknetWrites[k][1] = k - 1
BY DEF StarknetWrites, NumVals, OffsetEcdsaBeginAddr,
       OffsetEcdsaStopPtr, OffsetBitwiseBeginAddr, OffsetBitwiseStopAddr,
       OffsetEcOpBeginAddr, OffsetEcOpStopAddr, OffsetPoseidonBeginAddr,
       OffsetPoseidonStopPtr, OffsetPublicMemoryPaddingAddr,
       OffsetPublicMemoryPaddingValue, OffsetNPublicMemoryPages

\* Every slot of the base block is filled exactly when the output,
\* pedersen and range-check segments are present.
LEMMA BaseFilled ==
    (\A i \in 1..NumBaseVals : Written(NumBaseVals, BaseWrites)[i] # {})
        <=> {"output", "pedersen", "rc"} \subseteq present
<1>1. NumBaseVals \in Nat
  BY DEF NumBaseVals, OffsetRangeCheckStopPtr
<1>2. \A i \in 1..NumBaseVals : Written(NumBaseVals, BaseWrites)[i] = BaseWrites[i][2]
  BY <1>1, BaseDiagonal, WrittenDiagonal
<1>3. (\A i \in 1..NumBaseVals : BaseWrites[i][2] # {})
        <=> {"output", "pedersen", "rc"} \subseteq present
  BY DEF BaseWrites, NumBaseVals, OffsetRangeCheckStopPtr, MapBegin, MapStop
<1> QED
  BY <1>2, <1>3

\* Every slot of the Starknet block is filled exactly when the ecdsa,
\* bitwise, ec_op and poseidon segments are present.
LEMMA StarknetFilled ==
    (\A i \in 1..NumVals : Written(NumVals, StarknetWrites)[i] # {})
        <=> {"ecdsa", "bitwise", "ec_op", "poseidon"} \subseteq present
<1>1. NumVals \in Nat
  BY DEF NumVals, OffsetNPublicMemoryPages
<1>2. \A i \in 1..NumVals : Written(NumVals, StarknetWrites)[i] = StarknetWrites[i][2]
  BY <1>1, StarknetDiagonal, WrittenDiagonal
<1>3. (\A i \in 1..NumVals : StarknetWrites[i][2] # {})
        <=> {"ecdsa", "bitwise", "ec_op", "poseidon"} \subseteq present
  BY DEF StarknetWrites, NumVals, OffsetNPublicMemoryPages, MapBegin, MapStop
<1> QED
  BY <1>2, <1>3

\* A function on 1..n is a sequence.
LEMMA FunIsSeq ==
    ASSUME NEW n \in Nat, NEW S, NEW f \in [1..n -> S]
    PROVE  f \in Seq(S)
OBVIOUS

\* A concatenation has an empty slot exactly when one of its parts has.
LEMMA EmptySlotOfConcat ==
    ASSUME NEW S, NEW s1 \in Seq(S), NEW s2 \in Seq(S)
    PROVE  (\E i \in DOMAIN (s1 \o s2) : (s1 \o s2)[i] = {})
             <=> \/ \E i \in DOMAIN s1 : s1[i] = {}
                 \/ \E i \in DOMAIN s2 : s2[i] = {}
<1>1. /\ s1 \o s2 \in Seq(S)
      /\ Len(s1 \o s2) = Len(s1) + Len(s2)
      /\ \A i \in 1 .. Len(s1) + Len(s2) :
           (s1 \o s2)[i] = IF i <= Len(s1) THEN s1[i] ELSE s2[i - Len(s1)]
  BY ConcatProperties
<1>2. /\ DOMAIN (s1 \o s2) = 1..(Len(s1) + Len(s2))
      /\ DOMAIN s1 = 1..Len(s1) /\ DOMAIN s2 = 1..Len(s2)
      /\ Len(s1) \in Nat /\ Len(s2) \in Nat
  BY <1>1
<1>3. ASSUME NEW i \in DOMAIN (s1 \o s2), (s1 \o s2)[i] = {}
      PROVE  \/ \E j \in DOMAIN s1 : s1[j] = {}
             \/ \E j \in DOMAIN s2 : s2[j] = {}
  <2>1. CASE i <= Len(s1)
    BY <1>1, <1>2, <1>3, <2>1
  <2>2. CASE ~(i <= Len(s1))
    <3>1. i - Len(s1) \in DOMAIN s2 /\ s2[i - Len(s1)] = {}
      BY <1>1, <1>2, <1>3, <2>2
    <3> QED
      BY <3>1
  <2> QED
    BY <2>1, <2>2
<1>4. ASSUME NEW j \in DOMAIN s1, s1[j] = {}
      PROVE  \E i \in DOMAIN (s1 \o s2) : (s1 \o s2)[i] = {}
  BY <1>1, <1>2, <1>4
<1>5. ASSUME NEW j \in DOMAIN s2, s2[j] = {}
      PROVE  \E i \in DOMAIN (s1 \o s2) : (s1 \o s2)[i] = {}
  <2>1. Len(s1) + j \in DOMAIN (s1 \o s2) /\ (s1 \o s2)[Len(s1) + j] = {}
    BY <1>1, <1>2, <1>5
  <2> QED
    BY <2>1
<1> QED
  BY <1>3, <1>4, <1>5
-----------------------------------------------------------------------------
(* FailsExactlyWhenUnencodable is not inductive: whether Flatten panics    *)
(* depends on the blocks written before it.  The strengthening records,   *)
(* stage by stage, what the blocks hold.                                   *)

EncoderInv ==
    /\ present \subseteq Optional
    /\ pc \in {"layout", "page", "flatten", "done"} =>
         /\ layout = "Starknet"
         /\ baseVals = Written(NumBaseVals, BaseWrites)
    /\ pc \in {"page", "flatten", "done"} =>
         layoutVals = Written(NumVals, StarknetWrites)
    /\ pc \in {"flatten", "done"} =>
         /\ mainPage = <<mainPage[1], mainPage[2]>>
         /\ mainPage[1] # {} /\ mainPage[2] # {}
    /\ pc = "done" => Encodable
    /\ pc = "panic" => ~Encodable

\* The vector Flatten unwraps has a None exactly when a segment is missing.
LEMMA FlattenFinds ==
    ASSUME EncoderInv, pc = "flatten"
    PROVE  LET all == baseVals \o layoutVals \o mainPage IN
           (\E i \in DOMAIN all : all[i] = {}) <=> present # Optional
<1> DEFINE S == {baseVals[i] : i \in 1..NumBaseVals}
                  \cup {layoutVals[i] : i \in 1..NumVals}
                  \cup {mainPage[1], mainPage[2]}
           bl == baseVals \o layoutVals
<1>1. NumBaseVals \in Nat /\ NumVals \in Nat
  BY DEF NumBaseVals, OffsetRangeCheckStopPtr, NumVals, OffsetNPublicMemoryPages
<1>2. /\ baseVals = Written(NumBaseVals, BaseWrites)
      /\ layoutVals = Written(NumVals, StarknetWrites)
      /\ mainPage = <<mainPage[1], mainPage[2]>>
      /\ mainPage[1] # {} /\ mainPage[2] # {}
  BY DEF EncoderInv
<1>3. /\ baseVals \in Seq(S) /\ layoutVals \in Seq(S) /\ mainPage \in Seq(S)
      /\ DOMAIN baseVals = 1..NumBaseVals /\ DOMAIN layoutVals = 1..NumVals
  <2>1. baseVals \in [1..NumBaseVals -> S] /\ layoutVals \in [1..NumVals -> S]
    BY <1>2 DEF Written, S
  <2>2. mainPage \in [1..2 -> S]
    BY <1>2 DEF S
  <2> QED
    BY <1>1, <2>1, <2>2, FunIsSeq
<1>0. \A s1, s2 \in Seq(S) :
        (\E i \in DOMAIN (s1 \o s2) : (s1 \o s2)[i] = {})
          <=> \/ \E i \in DOMAIN s1 : s1[i] = {}
              \/ \E i \in DOMAIN s2 : s2[i] = {}
  BY EmptySlotOfConcat
<1>4. bl \in Seq(S)
  BY <1>3, ConcatProperties DEF bl
<1>5. (\E i \in DOMAIN (bl \o mainPage) : (bl \o mainPage)[i] = {})
        <=> \E i \in DOMAIN bl : bl[i] = {}
  <2>1. ~\E i \in DOMAIN mainPage : mainPage[i] = {}
    BY <1>2
  <2>2. (\E i \in DOMAIN (bl \o mainPage) : (bl \o mainPage)[i] = {})
          <=> \/ \E i \in DOMAIN bl : bl[i] = {}
              \/ \E i \in DOMAIN mainPage : mainPage[i] = {}
    BY <1>0, <1>3, <1>4
  <2> QED
    BY <2>1, <2>2
<1>6. (\E i \in DOMAIN bl : bl[i] = {})
        <=> ~({"output", "pedersen", "rc"} \subseteq present
              /\ {"ecdsa", "bitwise", "ec_op", "poseidon"} \subseteq present)
  <2>0. (\E i \in DOMAIN (baseVals \o layoutVals) : (baseVals \o layoutVals)[i] = {})
          <=> \/ \E i \in DOMAIN baseVals : baseVals[i] = {}
              \/ \E i \in DOMAIN layoutVals : layoutVals[i] = {}
    BY <1>0, <1>3
  <2>1. (\E i \in DOMAIN bl : bl[i] = {})
          <=> \/ \E i \in 1..NumBaseVals : baseVals[i] = {}
              \/ \E i \in 1..NumVals : layoutVals[i] = {}
    BY <1>3, <2>0 DEF bl
  <2> QED
    BY <1>2, <2>1, BaseFilled, StarknetFilled
<1>7. present \subseteq Optional
  BY DEF EncoderInv
<1> QED
  BY <1>5, <1>6, <1>7 DEF bl, Optional

LEMMA InitEncoderInv == Init => EncoderInv
BY DEF Init, EncoderInv

LEMMA NextEncoderInv == EncoderInv /\ [Next]_vars => EncoderInv'
<1> SUFFICES ASSUME EncoderInv, [Next]_vars PROVE EncoderInv'
  OBVIOUS
\* No step changes the input: the blocks' writes are the same after it.
<1>0. /\ present' = present /\ layout' = layout
      /\ BaseWrites' = BaseWrites /\ StarknetWrites' = StarknetWrites
      /\ Encodable' = Encodable
  <2>1. present' = present /\ layout' = layout
    BY DEF Next, vars, BaseUnsupported, BaseBlock, LayoutBlock, PageBlock,
           Flatten
  <2> QED
    BY <2>1 DEF BaseWrites, StarknetWrites, MapBegin, MapStop, Encodable
\* sharp_code's unimplemented!() for a layout without a code.
<1>1. CASE BaseUnsupported
  BY <1>0, <1>1 DEF BaseUnsupported, EncoderInv, Encodable
\* The base block: no write goes past NUM_BASE_VALS.
<1>2. CASE BaseBlock
  <2>1. pc' = "layout" /\ baseVals' = Written(NumBaseVals, BaseWrites)
    BY <1>2, BaseInBounds DEF BaseBlock
  <2> QED
    BY <1>0, <1>2, <2>1 DEF BaseBlock, EncoderInv
\* The Starknet block: layout is Starknet since the base block, and no
\* write goes past NUM_VALS.
<1>3. CASE LayoutBlock
  <2>1. layout = "Starknet"
    BY <1>3 DEF LayoutBlock, EncoderInv
  <2>2. pc' = "page" /\ layoutVals' = Written(NumVals, StarknetWrites)
    BY <1>3, <2>1, StarknetInBounds DEF LayoutBlock
  <2> QED
    BY <1>0, <1>3, <2>2 DEF LayoutBlock, EncoderInv
<1>4. CASE PageBlock
  <2>1. /\ mainPage' = <<mainPage'[1], mainPage'[2]>>
        /\ mainPage'[1] # {} /\ mainPage'[2] # {}
    BY <1>4 DEF PageBlock
  <2> QED
    BY <1>0, <1>4, <2>1 DEF PageBlock, EncoderInv
\* Flatten unwraps a None exactly when a segment is missing.
<1>5. CASE Flatten
  <2> DEFINE all == baseVals \o layoutVals \o mainPage
  <2>1. (\E i \in DOMAIN all : all[i] = {}) <=> present # Optional
    BY <1>5, FlattenFinds DEF Flatten, all
  <2>2. layout = "Starknet"
    BY <1>5 DEF Flatten, EncoderInv
  <2>3. CASE \E i \in DOMAIN all : all[i] = {}
    <3>1. pc' = "panic" /\ ~Encodable
      BY <1>5, <2>1, <2>3 DEF Flatten, Encodable, all
    <3> QED
      BY <1>0, <1>5, <3>1 DEF Flatten, EncoderInv
  <2>4. CASE ~\E i \in DOMAIN all : all[i] = {}
    <3>1. pc' = "done" /\ Encodable
      BY <1>5, <2>1, <2>2, <2>4 DEF Flatten, Encodable, all
    <3> QED
      BY <1>0, <1>5, <3>1 DEF Flatten, EncoderInv
  <2> QED
    BY <2>3, <2>4
<1>6. CASE UNCHANGED vars
  BY <1>0, <1>6 DEF vars, EncoderInv
<1> QED
  BY <1>1, <1>2, <1>3, <1>4, <1>5, <1>6 DEF Next

\* CairoAuxInput::serialize_sharp returns exactly when the schema can be
\* filled, the Starknet layout with every optional segment present, and
\* panics otherwise (FailsExactlyWhenUnencodable): no missing segment is
\* ever replaced by a value, for every layout set and public memory.
THEOREM EncoderFailsCorrectly == Spec => []FailsExactlyWhenUnencodable
<1>1. EncoderInv => FailsExactlyWhenUnencodable
  BY DEF EncoderInv, FailsExactlyWhenUnencodable
<1> QED
  BY <1>1, InitEncoderInv, NextEncoderInv, PTL DEF Spec

-----------------------------------------------------------------------------
(* TypeOK is inductive by itself: the only facts it needs are that the two *)
(* blocks the program writes are vectors of Options of the field tags.     *)

\* seg.map(...) of an optional segment is None or the tag of its bound.
LEMMA MapInSlot ==
    ASSUME NEW s \in Optional
    PROVE  MapBegin(s) \in Slot(Tag) /\ MapStop(s) \in Slot(Tag)
<1>1. Begin(s) \in Tag /\ Stop(s) \in Tag
  BY DEF Tag
<1> QED
  BY <1>1 DEF MapBegin, MapStop, Slot

\* Every write of the base block stores an Option of a field tag.
LEMMA BaseWritesTyped ==
    \A k \in 1..NumBaseVals : BaseWrites[k][2] \in Slot(Tag)
<1>1. /\ MapBegin("output") \in Slot(Tag) /\ MapStop("output") \in Slot(Tag)
      /\ MapBegin("pedersen") \in Slot(Tag) /\ MapStop("pedersen") \in Slot(Tag)
      /\ MapBegin("rc") \in Slot(Tag) /\ MapStop("rc") \in Slot(Tag)
  BY MapInSlot DEF Optional
<1>2. /\ {Field("log_n_steps")} \in Slot(Tag)
      /\ {Field("range_check_min")} \in Slot(Tag)
      /\ {Field("range_check_max")} \in Slot(Tag)
      /\ {SharpCodeStarknet} \in Slot(Tag)
      /\ {Begin("program")} \in Slot(Tag) /\ {Stop("program")} \in Slot(Tag)
      /\ {Begin("execution")} \in Slot(Tag) /\ {Stop("execution")} \in Slot(Tag)
  BY DEF Slot, Tag
<1>3. 1..NumBaseVals = {1, 2, 3, 4, 5, 6, 7, 8, 9, 10, 11, 12, 13, 14}
  BY DEF NumBaseVals, OffsetRangeCheckStopPtr
<1>4. /\ BaseWrites[1][2] = {Field("log_n_steps")}
      /\ BaseWrites[2][2] = {Field("range_check_min")}
      /\ BaseWrites[3][2] = {Field("range_check_max")}
      /\ BaseWrites[4][2] = {SharpCodeStarknet}
      /\ BaseWrites[5][2] = {Begin("program")}
      /\ BaseWrites[6][2] = {Stop("program")}
      /\ BaseWrites[7][2] = {Begin("execution")}
      /\ BaseWrites[8][2] = {Stop("execution")}
      /\ BaseWrites[9][2] = MapBegin("output")
      /\ BaseWrites[10][2] = MapStop("output")
      /\ BaseWrites[11][2] = MapBegin("pedersen")
      /\ BaseWrites[12][2] = MapStop("pedersen")
      /\ BaseWrites[13][2] = MapBegin("rc")
      /\ BaseWrites[14][2] = MapStop("rc")
  BY DEF BaseWrites
<1> QED
  BY <1>1, <1>2, <1>3, <1>4, Zenon

\* Every write of the Starknet block stores an Option of a field tag or
\* of the page count 1.
LEMMA StarknetWritesTyped ==
    \A k \in 1..NumVals : StarknetWrites[k][2] \in Slot(Tag \cup {Num(1)})
<1>1. ASSUME NEW s \in {"ecdsa", "bitwise", "ec_op", "poseidon"}
      PROVE  /\ MapBegin(s) \in Slot(Tag \cup {Num(1)})
             /\ MapStop(s) \in Slot(Tag \cup {Num(1)})
  BY MapInSlot DEF Optional, Slot
<1>2. /\ {Padding.address} \in Slot(Tag \cup {Num(1)})
      /\ {Padding.value} \in Slot(Tag \cup {Num(1)})
      /\ {Num(1)} \in Slot(Tag \cup {Num(1)})
  BY DEF Slot, Tag
<1>3. 1..NumVals = {1, 2, 3, 4, 5, 6, 7, 8, 9, 10, 11}
  BY DEF NumVals, OffsetNPublicMemoryPages
<1>4. /\ StarknetWrites[1][2] = MapBegin("ecdsa")
      /\ StarknetWrites[2][2] = MapStop("ecdsa")
      /\ StarknetWrites[3][2] = MapBegin("bitwise")
      /\ StarknetWrites[4][2] = MapStop("bitwise")
      /\ StarknetWrites[5][2] = MapBegin("ec_op")
      /\ StarknetWrites[6][2] = MapStop("ec_op")
      /\ StarknetWrites[7][2] = MapBegin("poseidon")
      /\ StarknetWrites[8][2] = MapStop("poseidon")
      /\ StarknetWrites[9][2] = {Padding.address}
      /\ StarknetWrites[10][2] = {Padding.value}
      /\ StarknetWrites[11][2] = {Num(1)}
  BY DEF StarknetWrites
<1> QED
  BY <1>1, <1>2, <1>3, <1>4, Zenon

\* So the vectors vec![None; n] filled by those writes are typed.
LEMMA BlocksTyped ==
    /\ Written(NumBaseVals, BaseWrites) \in [1..NumBaseVals -> Slot(Tag)]
    /\ Written(NumVals, StarknetWrites) \in [1..NumVals -> Slot(Tag \cup {Num(1)})]
<1>1. NumBaseVals \in Nat /\ NumVals \in Nat
  BY DEF NumBaseVals, OffsetRangeCheckStopPtr, NumVals, OffsetNPublicMemoryPages
<1>2. \A i \in 1..NumBaseVals : Written(NumBaseVals, BaseWrites)[i] = BaseWrites[i][2]
  BY <1>1, BaseDiagonal, WrittenDiagonal
<1>3. \A i \in 1..NumVals : Written(NumVals, StarknetWrites)[i] = StarknetWrites[i][2]
  BY <1>1, StarknetDiagonal, WrittenDiagonal
<1>4. DOMAIN Written(NumBaseVals, BaseWrites) = 1..NumBaseVals
      /\ DOMAIN Written(NumVals, StarknetWrites) = 1..NumVals
  BY DEF Written
<1> QED
  BY <1>2, <1>3, <1>4, BaseWritesTyped, StarknetWritesTyped, Zenon DEF Written

LEMMA InitTypeOK == Init => TypeOK
BY DEF Init, TypeOK

LEMMA NextTypeOK == TypeOK /\ [Next]_vars => TypeOK'
<1> SUFFICES ASSUME TypeOK, [Next]_vars PROVE TypeOK'
  OBVIOUS
<1>1. CASE BaseUnsupported
  BY <1>1 DEF BaseUnsupported, TypeOK
<1>2. CASE BaseBlock
  BY <1>2, BlocksTyped DEF BaseBlock, TypeOK
<1>3. CASE LayoutBlock
  BY <1>3, BlocksTyped DEF LayoutBlock, TypeOK
<1>4. CASE PageBlock
  <2>1. Len(mainPage') = 2
    BY <1>4 DEF PageBlock
  <2> QED
    BY <1>4, <2>1 DEF PageBlock, TypeOK
<1>5. CASE Flatten
  BY <1>5 DEF Flatten, TypeOK
<1>6. CASE UNCHANGED vars
  BY <1>6 DEF vars, TypeOK
<1> QED
  BY <1>1, <1>2, <1>3, <1>4, <1>5, <1>6 DEF Next

\* The blocks serialize_sharp builds are always vectors of their declared
\* sizes, NUM_BASE_VALS and NUM_VALS, of Options of the fields they are
\* copied from, and the main page has its two slots (TypeOK): for every
\* layout set and public memory.
THEOREM EncoderTypeCorrect == Spec => []TypeOK
BY InitTypeOK, NextTypeOK, PTL DEF Spec
===============================================================================

------------------------------ MODULE AuxEncoder ------------------------------
(***************************************************************************)
(* CairoAuxInput::serialize_sharp (src/binary/src/lib.rs): the base block *)
(* of 14 slots, the Starknet layout block of 11 slots, the main public-    *)
(* memory page (size and digest), and the final flatten that unwraps every *)
(* slot.  A slot is an Option ({} or {v}).  Scalars and segment bounds are *)
(* tags naming the field they come from, so that any slot written from    *)
(* the wrong field shows; the digest is kept as the sequence it hashes.   *)
(***************************************************************************)
EXTENDS Naturals, Sequences

CONSTANTS
    Layouts,     \* the Layout variants; "Starknet" is one of them
    Entries,     \* the public-memory entries an input can hold
    MaxEntries   \* the longest public memory considered

ASSUME AuxConstantsAssumption ==
    /\ "Starknet" \in Layouts /\ Entries \subseteq [address : Nat, value : Nat]
    /\ MaxEntries \in Nat

\* The builtins whose segment is an Option in CairoAuxInput.
Optional == {"output", "pedersen", "rc", "ecdsa", "bitwise", "ec_op", "poseidon"}

\* A 256-bit word of the output: the value of a named field, a number, or
\* the digest of a hasher fed a sequence of elements (kept as that sequence).
Field(name) == <<"field", name>>
Num(n) == <<"num", n>>
Digest(elems) == <<"digest", elems>>

\* The padding entry of the auxiliary input.
Padding == [address |-> Field("padding.address"), value |-> Field("padding.value")]

\* Layout::SHARP_CODE_STARKNET (beyond TLC's integers, so kept as a name)
SharpCodeStarknet == Field("8319381555716711796")

\* A segment's bounds.
Begin(s) == Field(s \o ".begin_addr")
Stop(s) == Field(s \o ".stop_ptr")

VARIABLES
    layout,        \* self.layout
    present,       \* the optional builtins whose segment is Some
    publicMemory,  \* self.public_memory
    baseVals,      \* base_vals
    layoutVals,    \* layout_vals
    mainPage,      \* the public_memory block
    out,           \* the returned Vec<U256>
    pc             \* "base", "layout", "page", "flatten", "done" or "panic"

vars == <<layout, present, publicMemory, baseVals, layoutVals, mainPage, out, pc>>

Memories == UNION {[1..n -> Entries] : n \in 0..MaxEntries}

Init ==
    /\ layout \in Layouts /\ present \in SUBSET Optional
    /\ publicMemory \in Memories
    /\ baseVals = << >> /\ layoutVals = << >> /\ mainPage = << >>
    /\ out = << >> /\ pc = "base"

\* seg.map(|s| U256::from(s.begin_addr)) and the same for stop_ptr.
MapBegin(s) == IF s \in present THEN {Begin(s)} ELSE {}
MapStop(s) == IF s \in present THEN {Stop(s)} ELSE {}

-----------------------------------------------------------------------------
\* The OFFSET_ constants of the base block and NUM_BASE_VALS.
OffsetLogNSteps == 0
OffsetRcMin == 1
OffsetRcMax == 2
OffsetLayoutCode == 3
OffsetProgramBeginAddr == 4
OffsetProgramStopPtr == 5
OffsetExecutionBeginAddr == 6
OffsetExecutionStopPtr == 7
OffsetOutputBeginAddr == 8
OffsetOutputStopPtr == 9
OffsetPedersenBeginAddr == 10
OffsetPedersenStopPtr == 11
OffsetRangeCheckBeginAddr == 12
OffsetRangeCheckStopPtr == 13
NumBaseVals == OffsetRangeCheckStopPtr + 1

\* Mutant: EC-op's stop pointer is written at the begin slot (a copy of
\* the line above it).
OffsetEcOpStopAddrTypo == 4

\* The OFFSET_ constants of the Starknet block and NUM_VALS.
OffsetEcdsaBeginAddr == 0
OffsetEcdsaStopPtr == 1
OffsetBitwiseBeginAddr == 2
OffsetBitwiseStopAddr == 3
OffsetEcOpBeginAddr == 4
OffsetEcOpStopAddr == 5
OffsetPoseidonBeginAddr == 6
OffsetPoseidonStopPtr == 7
OffsetPublicMemoryPaddingAddr == 8
OffsetPublicMemoryPaddingValue == 9
OffsetNPublicMemoryPages == 10
NumVals == OffsetNPublicMemoryPages + 1

\* The writes `vals[offset] = value` of each block, in program order.
BaseWrites ==
    << <<OffsetLogNSteps, {Field("log_n_steps")}>>, <<OffsetRcMin, {Field("range_check_min")}>>,
       <<OffsetRcMax, {Field("range_check_max")}>>, <<OffsetLayoutCode, {SharpCodeStarknet}>>,
       <<OffsetProgramBeginAddr, {Begin("program")}>>,
       <<OffsetProgramStopPtr, {Stop("program")}>>,
       <<OffsetExecutionBeginAddr, {Begin("execution")}>>,
       <<OffsetExecutionStopPtr, {Stop("execution")}>>,
       <<OffsetOutputBeginAddr, MapBegin("output")>>,
       <<OffsetOutputStopPtr, MapStop("output")>>,
       <<OffsetPedersenBeginAddr, MapBegin("pedersen")>>,
       <<OffsetPedersenStopPtr, MapStop("pedersen")>>,
       <<OffsetRangeCheckBeginAddr, MapBegin("rc")>>,
       <<OffsetRangeCheckStopPtr, MapStop("rc")>> >>

StarknetWrites ==
    << <<OffsetEcdsaBeginAddr, MapBegin("ecdsa")>>, <<OffsetEcdsaStopPtr, MapStop("ecdsa")>>,
       <<OffsetBitwiseBeginAddr, MapBegin("bitwise")>>,
       <<OffsetBitwiseStopAddr, MapStop("bitwise")>>,
       <<OffsetEcOpBeginAddr, MapBegin("ec_op")>>, <<OffsetEcOpStopAddr, MapStop("ec_op")>>,
       <<OffsetPoseidonBeginAddr, MapBegin("poseidon")>>,
       <<OffsetPoseidonStopPtr, MapStop("poseidon")>>,
       <<OffsetPublicMemoryPaddingAddr, {Padding.address}>>,
       <<OffsetPublicMemoryPaddingValue, {Padding.value}>>,
       <<OffsetNPublicMemoryPages, {Num(1)}>> >>

\* Some write indexes past the vector: the index panics.
OutOfBounds(n, writes) == \E k \in DOMAIN writes : writes[k][1] >= n

\* Mutant: the vector is allocated one slot too long.
WrittenLong(n, writes) ==
    [i \in 1..(n + 1) |->
        LET ks == {k \in DOMAIN writes : writes[k][1] = i - 1} IN
        IF ks = {} THEN {} ELSE writes[CHOOSE k \in ks : \A j \in ks : j <= k][2]]

\* vec![None; n] after the writes: each slot holds its last write.
Written(n, writes) ==
    [i \in 1..n |->
        LET ks == {k \in DOMAIN writes : writes[k][1] = i - 1} IN
        IF ks = {} THEN {} ELSE writes[CHOOSE k \in ks : \A j \in ks : j <= k][2]]

-----------------------------------------------------------------------------
\* Layout::sharp_code panics (unimplemented!) for every layout but Starknet;
\* it is evaluated for slot OFFSET_LAYOUT_CODE.
BaseUnsupported ==
    /\ pc = "base" /\ layout # "Starknet"
    /\ pc' = "panic"
    /\ UNCHANGED <<layout, present, publicMemory, baseVals, layoutVals,
                   mainPage, out>>

\* The base block: vec![None; NUM_BASE_VALS] and its writes.
BaseBlock ==
    /\ pc = "base" /\ layout = "Starknet"
    /\ IF OutOfBounds(NumBaseVals, BaseWrites)
       THEN pc' = "panic" /\ UNCHANGED baseVals
       ELSE baseVals' = Written(NumBaseVals, BaseWrites) /\ pc' = "layout"
    /\ UNCHANGED <<layout, present, publicMemory, layoutVals, mainPage, out>>

\* match self.layout: Layout::Starknet fills its block; `_` is
\* unimplemented!().
LayoutBlock ==
    /\ pc = "layout"
    /\ \/ /\ layout = "Starknet"
          /\ IF OutOfBounds(NumVals, StarknetWrites)
             THEN pc' = "panic" /\ UNCHANGED layoutVals
             ELSE layoutVals' = Written(NumVals, StarknetWrites) /\ pc' = "page"
       \/ /\ layout # "Starknet"
          /\ pc' = "panic"
          /\ UNCHANGED layoutVals
    /\ UNCHANGED <<layout, present, publicMemory, baseVals, mainPage, out>>

\* Mutant: each entry is flattened value first.
PageBlockValueFirst ==
    /\ pc = "page"
    /\ LET pairs == [i \in 1..(2 * Len(publicMemory)) |->
                       IF i % 2 = 0 THEN publicMemory[i \div 2].address
                       ELSE publicMemory[(i + 1) \div 2].value]
       IN  mainPage' = <<{Num(Len(publicMemory))}, {Digest(pairs)}>>
    /\ pc' = "flatten"
    /\ UNCHANGED <<layout, present, publicMemory, baseVals, layoutVals, out>>

\* The main page: its size and the digest of the (address, value) pairs
\* flattened in order.
PageBlock ==
    /\ pc = "page"
    /\ LET pairs == [i \in 1..(2 * Len(publicMemory)) |->
                       IF i % 2 = 1 THEN publicMemory[(i + 1) \div 2].address
                       ELSE publicMemory[i \div 2].value]
       IN  mainPage' = <<{Num(Len(publicMemory))}, {Digest(pairs)}>>
    /\ pc' = "flatten"
    /\ UNCHANGED <<layout, present, publicMemory, baseVals, layoutVals, out>>

\* [base_vals, layout_vals, public_memory].flatten().map(Option::unwrap):
\* the first None panics.
Flatten ==
    /\ pc = "flatten"
    /\ LET all == baseVals \o layoutVals \o mainPage IN
       IF \E i \in DOMAIN all : all[i] = {}
       THEN pc' = "panic" /\ UNCHANGED out
       ELSE /\ out' = [i \in DOMAIN all |-> CHOOSE v \in all[i] : TRUE]
            /\ pc' = "done"
    /\ UNCHANGED <<layout, present, publicMemory, baseVals, layoutVals, mainPage>>

Next == BaseUnsupported \/ BaseBlock \/ LayoutBlock \/ PageBlock \/ Flatten

Spec == Init /\ [][Next]_vars

-----------------------------------------------------------------------------
(* The schema of spec section 4.4, built by concatenation.                 *)

\* begin, stop of each named segment, in the order given.
Bounds(names) ==
    LET b[k \in 0..Len(names)] ==
            IF k = 0 THEN << >> ELSE b[k - 1] \o <<Begin(names[k]), Stop(names[k])>>
    IN  b[Len(names)]

\* The entries as the alternating sequence address, value.
Pairs(mem) ==
    LET f[k \in 0..Len(mem)] ==
            IF k = 0 THEN << >> ELSE f[k - 1] \o <<mem[k].address, mem[k].value>>
    IN  f[Len(mem)]

SchemaBase ==
    <<Field("log_n_steps"), Field("range_check_min"), Field("range_check_max"),
      SharpCodeStarknet>>
    \o Bounds(<<"program", "execution", "output", "pedersen", "rc">>)

SchemaStarknet ==
    Bounds(<<"ecdsa", "bitwise", "ec_op", "poseidon">>)
    \o <<Padding.address, Padding.value, Num(1)>>

SchemaPages == <<Num(Len(publicMemory)), Digest(Pairs(publicMemory))>>

\* The schema can be filled: the Starknet layout with every segment present.
Encodable == layout = "Starknet" /\ present = Optional

-----------------------------------------------------------------------------
(* Properties.                                                             *)

Slot(S) == {{}} \cup {{v} : v \in S}
Tag == {Field("log_n_steps"), Field("range_check_min"), Field("range_check_max"),
        SharpCodeStarknet, Padding.address, Padding.value}
         \cup {Begin(s) : s \in Optional \cup {"program", "execution"}}
         \cup {Stop(s) : s \in Optional \cup {"program", "execution"}}

\* The blocks are vectors of their declared sizes, of Options.
TypeOK ==
    /\ layout \in Layouts /\ present \subseteq Optional /\ publicMemory \in Memories
    /\ baseVals \in {<< >>} \cup [1..NumBaseVals -> Slot(Tag)]
    /\ layoutVals \in {<< >>} \cup [1..NumVals -> Slot(Tag \cup {Num(1)})]
    /\ Len(mainPage) \in {0, 2}
    /\ pc \in {"base", "layout", "page", "flatten", "done", "panic"}

\* The sequence serialize_sharp returns is the schema of spec 4.4, slot by
\* slot: base block, Starknet block, and the main page's size and the
\* digest of its entries flattened address first (the verifier reads it
\* at fixed offsets).
EncodesSchema ==
    pc = "done" => out = SchemaBase \o SchemaStarknet \o SchemaPages

\* serialize_sharp returns exactly when the schema can be filled: it
\* panics for a layout other than Starknet and for any missing segment,
\* and never substitutes a value for one (spec 4.4 and 8).
FailsExactlyWhenUnencodable ==
    pc \in {"done", "panic"} => (pc = "done" <=> Encodable)
=============================================================================

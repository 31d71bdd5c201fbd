# TLA+ models of the sandstorm witness-generation layer

This directory holds the formal models kept beside `src/`. It has three parts:

- TLA+ modules of the parts of the system that have control worth checking;
- TLC configurations that model-check them on small instances;
- TLAPS proofs of their main invariants, for every value of the constants.

## 1. The system and its parts

The code under `src/` has two crates.

`src/binary/src/lib.rs` holds the VM-facing data:

- **TraceReader**: `RegisterStates::from_reader` reads `{ap, fp, pc}` records until the end of the stream.
- **MemoryReader**: `Memory::from_reader` reads `(address, 256-bit word)` records. It builds a dense table of size max address + 1, with `None` in the holes.
- **WordModel**: the methods of `Word<F>` and `Flag`/`FlagGroup`. They decode the offsets, flags and flag groups of an instruction. They also resolve the operand addresses, relative to `ap`/`fp`/`pc` with a bias of 2^15, and compute `res`, `tmp0` and `tmp1`.
- **PublicInputModel**: `AirPublicInput`, its register accessors and `public_memory_padding`, plus `MemoryEntry` and `Segment`.
- **AuxInputEncoder** and **LayoutCodec**: `CairoAuxInput::serialize_sharp` lays out the verifier's fixed-offset word sequence. `Layout::sharp_code` gives the layout's code.
- **BuiltinInstances** and **CompiledProgram**: plain containers with address arithmetic.

`src/builtins/src/ecdsa/mod.rs` is the **EcdsaTraceBuilder**. `InstanceTrace::new` goes through these steps:

1. It inverts `w` and calls `verify`.
2. `verify` recovers the two candidate public keys from `pubkey_x`.
3. For each candidate, `verify` evaluates the StarkEx signature equation with shifted multiplications. It accepts the first candidate that matches.
4. `new` recomputes `z*G - shift`, `r*Q + shift`, `B` and `w*B + shift` with `mimic_ec_mult_air`.
5. It generates the three 256-row double-and-add witnesses with `gen_ec_mult_steps`, and the two doubling chains with `doubling_steps`.
6. It cross-checks everything with `assert_eq!`.

Every check in these steps is an `unwrap`, `expect` or `assert`, so a failure panics.

The parts do not run concurrently. The interesting behaviour is sequential: which of several checks fails first, and whether two routines that are meant to agree (verification and trace generation) do agree.

## 2. Modules

| module | models | source |
|---|---|---|
| `EcCurve` | the curve group, the degeneracy test, and the closed-form results of the two multiplication routines | `mod.rs` 140-176, 226-252 |
| `EcMult` | the loops of `mimic_ec_mult_air` and `gen_ec_mult_steps`, one iteration per step, on the same arguments | `mod.rs` 21-28, 140-176, 228-252 |
| `EcdsaTrace` | `InstanceTrace::new` and `verify`, one statement group per step; each multiplication call is one step with `EcCurve`'s closed form as its result | `mod.rs` 76-136, 178-224 |
| `TraceReader` | `RegisterStates::from_reader`: the reading loop | `lib.rs` 126-138 |
| `MemoryReader` | `Memory::from_reader` with `Word::new`'s range check: reading, allocation (with its usize overflow), filling | `lib.rs` 155-190, 624-628 |
| `MemoryTable` | what `Memory::from_reader` promises, as one step: return the table of last writes, or panic on a malformed stream | `lib.rs` 155-190 |
| `WordModel` | `Word`'s accessors, `Flag` and `FlagGroup`, against the semantics of spec 4.2 | `lib.rs` 33-56, 193-199, 542-702, 864-915 |
| `AuxEncoder` | `CairoAuxInput::serialize_sharp` and `Layout::sharp_code`, against the schema of spec 4.4 | `lib.rs` 75-83, 268-271, 708-729, 741-861 |
| `EcCurve_proofs` | lemmas on the group operations and arithmetic modulo `N`, shared by the next two | |
| `EcMult_proofs` | TLAPS proofs about `EcMult` | |
| `EcdsaTrace_proofs` | TLAPS proofs about `EcdsaTrace` | |
| `TraceReader_proofs` | TLAPS proofs about `TraceReader` | |
| `MemoryReader_proofs` | TLAPS proofs about `MemoryReader` | |
| `AuxEncoder_proofs` | TLAPS proofs about `AuxEncoder` | |
| `MC_EcMult`, `MC_EcdsaTrace`, `MC_TraceReader`, `MC_MemoryReader`, `MC_WordModel`, `MC_AuxEncoder` | constants for TLC | |

### The curve abstraction (EcCurve)

A point is its discrete logarithm with respect to the generator of a group of odd prime order `N`:

- the identity is 0;
- addition is `+` mod `N`, negation is `N - p`.

The code never looks at coordinates except to compare x-coordinates, and it compares them in `Affine::from(a).x == Affine::from(b).x`. On a short Weierstrass curve two affine points have the same x exactly when they are equal or opposite. So `XCoord(p) = min(p, N - p)` keeps exactly the information the code uses. arkworks gives the identity the affine x 0, and `XCoord(0) = 0` matches that.

Slopes and inverses appear only through whether they exist:

- `Degenerate(sum, pt)` means the x-difference has no inverse;
- `SlopeOk` stands for `calculate_slope` returning `Some`.

`calculate_slope` is in `utils`, which is not under `src/`, so `SlopeOk` is modelled from the spec.

The closed forms follow from the state before iteration `j` of double-and-add: the partial sum is `s + (m mod 2^j)*p` and the point is `2^j*p`.

- `MimicOk(m, p, s)`: m is in range, and none of the iterations that mimic runs (those with `2^j <= m`) is degenerate.
- `GenOk(m, p, s)`: m is in range, and none of the `NSteps` iterations is degenerate.
- `MultValue(m, p, s) = s + m*p`.

### EcMult: state and actions ↔ code

- Variables `m0, base, shift` are the call's arguments.
- `mimicM, mimicPoint, mimicSum, mimicOut` are mimic's locals `m`, `point`, `partial_sum`, and its return (`call`, `loop`, `none`, `some`).
- `genI, genSuffix, genPoint, genSum, genRes, genOut` are gen's loop index, `x >> i`, `point`, `partial_sum`, `res`, and its status (`idle`, `loop`, `panic`, `done`).
- A row of `genRes` is `EcMultPartialStep` without `slope` and `x_diff_inv`, which are functions of the two points.

The actions:

- `MimicCall` is the range check on `m.bits()`.
- `MimicDegenerate` is the `return None` on equal x-coordinates.
- `MimicIter` is one loop iteration, and `MimicReturn` is `Some(partial_sum)`.
- `GenCall` is the two assertions on `x`.
- `GenStep` is an iteration: record the row, add on a set bit, double.
- `GenPanic` is the `calculate_slope(..).unwrap()` or `inverse().unwrap()` that fails on a degenerate row.
- `GenReturn` is the end of the loop.

gen is called once mimic has returned, the order `new` uses.

### EcdsaTrace: state and actions ↔ code

- `message, r, w, pubkeyX` are the instance.
- `yFirstPos` says which of the two keys with x-coordinate `pubkeyX` is `y1`. The order of `get_ys_from_x_unchecked`'s result is fixed but unrelated to the discrete logarithm, so both orders are explored.
- `pc` is the statement reached, and `fail` is the reason of a panic.
- `cand` is `verify`'s loop index.
- `pubkey, zg, qr, b, wb` are the values of `new`'s locals.

The actions:

- `InvertW` is line 81.
- `RecoverYs` is line 199.
- `verify`'s loop body is split by outcome into four actions: `VerifyUnwrapFails` (a `.unwrap()` at 214-216), `VerifyAccept` (`return Some(pubkey)`), `VerifyNextCandidate`, and `VerifyReject` (`None`, then `expect("signature is invalid")`).
- `ComputeB` is lines 87-93, `ComputeWb` is line 94 and `GenTraces` is lines 96-98.
- `CheckMults` is the three `assert_eq!`.
- `Finish` is lines 104-114: the three `Fp` inverses, the pubkey doubling chain, the r-point slope and inverse, and the final `assert_eq!`.

Some panic branches of these actions are kept although they can never fire, and TLC confirms that they don't:

- the `.unwrap()`s of lines 87, 88 and 94, because `verify` has made the same calls;
- the assertions;
- the doubling chains, because a non-identity point of odd order never doubles to the identity.

The calls to the two multiplication routines are atomic here. `EcMult` justifies this by checking the loops against `EcCurve`'s closed forms; see `MimicMatchesReference` and `GenMatchesReference` below.

### TraceReader and MemoryReader: state and actions ↔ code

Both readers take the input as a sequence of whole records (`stream`) plus a flag `truncated` for a partial record at its end. Records are model values (TraceReader) or `(address, value)` pairs from small sets (MemoryReader).

- `ReadRecord` is one iteration of the `while has_data_left()` loop: one record deserialized and pushed. In MemoryReader it also updates `max_address`, and it carries `Word::new`'s `debug_assert!(word < modulus)` as a guard that only a debug build has (`debugBuild` is chosen in the initial state). `ReadOutOfField` is that assertion failing.
- `ReadTruncated` is the `unwrap()` of a deserialization that meets a partial record.
- `ReadEnd` (TraceReader) returns the vector. `Allocate` (MemoryReader) is `vec![None; max_address + 1]`; `Fill` is one `memory[address] = Some(word)` of the second loop, in stream order; `FillEnd` returns.
- The constant `UsizeMax` is `usize::MAX + 1`, and addresses range below it. When `max_address` is `usize::MAX`, the addition in `Allocate` overflows: a debug build panics, and a release build allocates `(max_address + 1) mod 2^64 = 0` cells. `Fill` keeps the index's bounds check: a write past the end of the table panics. So the wrapped, empty table never reaches the caller, because its first write panics.
- The constant `MaxCells` is the longest vector `vec!` can allocate: `isize::MAX` bytes divided by the size of an `Option<Word<F>>`, about 2^58 cells on a 64-bit target. A larger table makes `RawVec`'s layout check panic with "capacity overflow" in both builds, before anything is allocated. `Allocate` panics then. Its assumption `MaxCells \in 1..(UsizeMax - 1)` holds because a cell takes at least one byte and `isize::MAX < usize::MAX`.
- An allocation within that limit can still fail when the machine lacks the memory. The process then aborts (`handle_alloc_error`) rather than panicking. This depends on the machine, not the code, and is not modelled: the properties hold for an allocator that satisfies every request within `MaxCells`.

`MemoryTable` is the abstract specification. It has the same input variables (`stream`, `truncated`, `debugBuild`) and two more: `state` and `table`. In one step it either returns the table of `TopAddress + 1` cells, each cell holding `LastWrite` of its address, or panics. It panics exactly when the stream is `Malformed`: a truncated last record, an out-of-field word in a debug build, or an address of at least `MaxCells`, whose table cannot be allocated (`usize::MAX` among them). `TopAddress` is the largest of 0 and the addresses named, since `max_address` starts at 0. `MemoryReader` instantiates it as `Table`. The refinement mapping takes `state` to `"reading"` while `pc` is `"read"` or `"fill"`, and to `pc` once the reader has returned or panicked. It takes `table` to `memory` once `pc = "done"`, and to `<< >>` before. Every step of the two loops and of the allocation is a stutter of `MemoryTable`, except the last: the panic, or `FillEnd`.

A cell is an `Option`, written as a set: `{}` is `None`, `{v}` is `Some(v)`.

### WordModel: operators and calls ↔ code

A word is given by its fields (three offsets, sixteen flag bits, and bits above bit 63) and packed into a number by `Encode`, the layout of spec section 3. Every accessor is an operator on that number, translated from its method: `GetOff` is `(x >> offset) & OFF_MASK`, `GetFlag` is `bit(48 + f)`, `GetFlagGroup` the weighted sum of `get_flag_group`, `GetFlagPrefix` the shifted and masked prefix.

The address arithmetic keeps usize's width (`UsizeBits`). `BiasedAddr` evaluates `off + reg - HALF_OFFSET` as Rust parses it, `(off + reg) - HALF_OFFSET`. Each of the two operations panics on overflow in a debug build and wraps in a release build. `Read` is `mem[a].unwrap()`: an index past the end and a `None` both panic. `GetOp1Addr`, `GetRes` and `GetTmp1` keep each `match` arm, the `usize::try_from(..).unwrap()` of the indirect base and every `unreachable!()`. All panics are the value `Panic`.

The state is one call: `word`, `regs` and `debugBuild` chosen in the initial state, `call` the accessor called, and `result`. There is one action per public accessor (`CallGetDst`, `CallGetOp0`, `CallGetOp1`, `CallGetRes`, `CallGetTmp1`; `get_tmp0` is inside `get_tmp1`).

The reference (`RefCell`, `RefOp1`, `RefRes`, `RefTmp1`) is spec 4.2 on the fields, with integer addresses: the cell at `base + off - 2^(OffBits-1)`, a failure for an address outside the table, a `None` cell or an illegal encoding.

### AuxEncoder: state and actions ↔ code

The input is the layout, the set of builtins whose `Option<Segment>` is `Some`, and the public memory. Every other field is a tag naming it (`Field("range_check_min")`, `Begin("ecdsa")`). A value written to the wrong slot therefore shows by name. The digest is kept as the sequence that was hashed.

- `BaseUnsupported` is `sharp_code()`'s `unimplemented!()` for any layout but Starknet, evaluated while the base block is filled.
- `BaseBlock` and `LayoutBlock` are `vec![None; NUM_…]` followed by the block's writes `vals[OFFSET_…] = …`. The writes are listed in program order with the code's offset constants, and an offset past the vector panics. `LayoutBlock` also has the `_ => unimplemented!()` arm.
- `PageBlock` builds the main page: the entry count, and the digest of the entries flattened into `address, value, …`.
- `Flatten` concatenates the three blocks and unwraps every slot. The first `None` panics.

The reference (`SchemaBase`, `SchemaStarknet`, `SchemaPages`) is the field order of spec 4.4, built by concatenation. It does not use the offsets.

## 3. Runs

All runs use a group of order `N = 11`, shift point `3`, scalars of `ScalarBits = 3` bits (1..7) and `NSteps = 5` rows per trace. The real values are 251 bits and 256 rows.

These bounds are enough for three reasons:

- The group is small enough that every pair of points, and so every degenerate configuration, is reached from some input.
- `NSteps > ScalarBits` leaves rows after the scalar's top bit, where mimic and gen can disagree (the real code has 5 such rows).
- The inputs include 0 and `2^ScalarBits`, the values each range check must refuse.

Deadlock checking is off: each routine returns or panics, and a final state has no successor by design.

| run | cfg | expect | what it shows |
|---|---|---|---|
| `ecmult_loops` | `EcMult.cfg` | pass (1614 states) | See the list below. |
| `ecmult_mimic_vs_air` | `EcMult_air.cfg` | violation | `mimic_ec_mult_air` returns `Some` where `gen_ec_mult_steps` panics (finding 1). |
| `ecdsa_instance` | `EcdsaTrace.cfg` | pass (40171 states) | See the list below. |
| `ecdsa_verify_vs_air` | `EcdsaTrace_VerifyCatchesAirErrors.cfg` | violation | `verify` accepts a signature whose `b` addition is degenerate in the AIR (finding 2). |
| `ecdsa_second_candidate` | `EcdsaTrace_ValidCandidateAccepted.cfg` | violation | A degenerate computation for `y1` panics before the valid `y0` is tried (finding 3). |
| `trace_reader` | `TraceReader.cfg` | pass (364 states) | The reader returns exactly the stream's records, in order, and never returns on a truncated stream (`ReturnsWholeStream`). |
| `memory_reader` | `MemoryReader.cfg` | pass (289727 states) | See the list below. |
| `memory_reader_empty` | `MemoryReader_EmptyStreamEmptyTable.cfg` | violation | An empty stream yields a table of one `None` cell (finding 4). |
| `memory_reader_field_range` | `MemoryReader_OutOfFieldRejected.cfg` | violation | A release build accepts a value at or above the modulus (finding 5). |
| `aux_encoder` | `AuxEncoder.cfg` | pass (8064 states) | For three layouts, every subset of the seven optional segments and public memories of up to two entries: the output is the spec's schema slot by slot (`EncodesSchema`), and the encoder panics exactly when the layout is not Starknet or a segment is missing (`FailsExactlyWhenUnencodable`). |
| `word_decoding` | `WordModel.cfg` | pass (900480 states) | See the list below. |
| `word_usize_wrap` | `WordModel_CallMatchesReference.cfg` | violation | A register near `usize::MAX` makes a release build read an unrelated cell (finding 6). |

The readers run on streams of up to 3 records. The register states are 3 model values. Addresses are 0, 1, 2, 3 and 7, with `UsizeMax = 8` and `MaxCells = 3`. Address 2 gives the largest table that can be allocated, address 3 the smallest that cannot (a capacity overflow), and address 7 plays `usize::MAX` (the addition's overflow). Values are 0..4 and the modulus is 3, so two values are out of the field. This covers every order of duplicates, every position of the largest address, and a truncation after each record.

`memory_reader` shows that:

- a table built from a non-empty stream has `max address + 1` cells, each holding the last value written to its address or `None` (`TableMatchesStream`);
- the reader panics exactly on malformed streams (`PanicsExactlyOnMalformed`): a truncated stream, an out-of-field value in a debug build, and an address whose table is too large, in either build. Below `usize::MAX` that is the capacity overflow. At `usize::MAX` a debug build panics on the addition's overflow, and in a release build the wrapped, empty table panics at its first write;
- the reader implements `MemoryTable` (`ImplementsMemoryTable`). Beyond the two properties above, this covers the empty stream: the run checks that the table is the single `None` cell `MemoryTable` promises, which is what the code builds (finding 4);

**Fairness.** `EcMult` models a single call that runs to completion on the caller's thread. Nothing in it waits on another thread, a lock or a timer. So a step that stays enabled is eventually taken. This is weak fairness on `Next` (`FairSpec == Spec /\ WF_vars(Next)`). `ecmult_loops` runs under `FairSpec`. It does not change the reachable states, and only the liveness property uses it. The other runs use `Spec`. The two loops of `Memory::from_reader` are `while has_data_left()` over a finite input and a `for` over an owned `Vec`, so they end by construction, and no property is stated about them. Under this fairness, TLC shows that:

- mimic's unbounded `while m != 0` ends, as does gen's 256-row loop (`BothReturn`, in `ecmult_loops`). A mimic whose exit test reads the argument `m0` instead of the shifted `m` never leaves the loop, and TLC finds that behaviour.

`word_decoding` uses 2-bit offsets (bias 2), a 4-bit usize (addresses 0..15), the field of 19 elements, and a memory of 8 cells. Two cells are `None`, and one holds 17, which is not a usize. Two families of words are checked:

- every offset with every `DstReg`, `Op0Reg` and `Op1Src` value (0..7, legal or not), for the address accessors;
- every `ResLogic` (0..3) and `PcUpdate` (0..7) value, `ApUpdate` 0..2 and `Opcode` in {0, 1, 4}, with the padding flag and a bit above it set or clear, for `get_res` and `get_tmp1`.

Registers range over `ap` in {0, 3}, `fp` in {1, 6} and `pc = 5`. Small registers with small offsets reach below address 0 (underflow), and large ones reach past the table. The run shows that:

- the offsets, flags and groups decoded from the packed word are its fields (`RoundTrip`, spec 8);
- `get_flag_prefix` satisfies the paper's relation `prefix(f) - 2*prefix(f+1) = flag f` (`FlagPrefixMatchesPaper`);
- in either build, every accessor returns the spec's value and panics exactly when the spec's semantics fails (`CallMatchesReference`).

In this run `reg + off` stays below `2^UsizeBits`, and memory values that are usizes are at most 7. Under those bounds a release build's wrap always produces an index past the table, so it fails like the reference. `word_usize_wrap` lifts the bound on the registers.

`ecmult_loops` shows, for every scalar in 0..8, every base point and both shifts, that:

- mimic returns `shift + m*point` (`MimicComputesShiftedMult`);
- it returns `Some` exactly when `MimicOk` holds (`MimicMatchesReference`);
- gen returns exactly when `GenOk` holds, and its last row's partial sum is the product (`GenMatchesReference`);
- every trace satisfies the row constraints (`TraceSatisfiesRows`);
- under weak fairness both routines return or panic (`BothReturn`).

`ecdsa_instance` shows, for every message, r, w, pubkey x (on or off the curve) and candidate order, that:

- the key `verify` returns is valid under plain ECDSA, `x(w*(zG + rQ)) = r`, and has the instance's x (`AcceptedKeyIsValid`);
- no `assert_eq!` of `new` fires (`AssertionsHold`);
- every trace built satisfies all non-degeneracy conditions of the AIR (`AirConstraintsHold`).

Each property of a passing run has a mutant in `PROJECT.json`: a plausible bug in the code that TLC catches through that property. The mutants are:

- a range check one bit too narrow;
- an inclusive bound;
- doubling before adding;
- recording `partial_sum_next`;
- returning the wrong y;
- the wrong sign of the shift;
- a dropped slope check;
- a default pushed for a partial record, or the end of the stream ignoring one;
- swapped record fields, a dropped range check, a fill that skips out-of-range writes (`get_mut`), an empty table for the empty stream, and a fill loop that never advances;
- a mimic loop whose exit tests the argument instead of the shifted scalar;
- a block vector one slot too long, EC-op's stop written at its begin slot, and entries flattened value first;
- a res sum left unreduced, Op1Src weights swapped, a prefix mask one bit wide, and the bias subtracted from the register first (`off + (reg - HALF_OFFSET)`).

### Findings

1. **mimic vs. the AIR** (`mod.rs:227`). mimic stops checking once `m` is 0. gen inverts the x-difference on all 256 rows. On the real curve this needs `shift + m*P = ±2^j*P` for some `j` past the top bit, so it is reachable only for crafted inputs. TLC's trace is on the group of order 11, with shift 8, base 1 and m = 1. mimic adds the base once and returns `Some(9)`. gen records row 0, and on row 1 meets partial_sum 9 against fixed point 2. Since 9 = -2 mod 11, the points are opposite and the x-difference has no inverse.
2. **verify vs. the B addition** (`mod.rs:92`, comment at 208-211). `verify` adds `zg + rq` projectively, so it never checks what the AIR needs, namely `zg.x ≠ qr.x`.
3. **the second candidate** (`mod.rs:216`). The `.unwrap()` in the loop body turns a degenerate first candidate into a panic. The spec's "first candidate satisfying the equation is accepted" does not hold.
4. **the empty memory stream** (`lib.rs:183`). `max_address` starts at 0 and the table is `vec![None; max_address + 1]`, so an empty stream yields one cell. Spec section 8 asks for an empty table.
5. **the field range in release builds** (`lib.rs:627`). `Word::new` checks `word < modulus` with `debug_assert!`, so a release build stores an out-of-field value. Spec 4.1 asks for `ValueOutOfFieldRange`.
6. **usize wrap of the biased address** (`lib.rs:640`, likewise 562-571). In a release build, `off + reg` wraps for a register within 2^15 of `usize::MAX`, and the accessor returns the value of a low cell. Spec 4.2 defines the address as `base + displacement`, a reference to no cell. Only a trace file with such a register reaches it.

## 4. What is proved

`EcMult_proofs.tla` holds the proofs about the two multiplication loops. They hold for every `N`, `ShiftPoint`, `NSteps` and `ScalarBits` that satisfy `ConstantsAssumption`: `N` odd and greater than 2, the shift in `1..N-1`, and `ScalarBits < NSteps`.

- `TypeCorrect`: `Spec => []TypeOK`. TypeOK is inductive as it stands. There is one step per action.
- `MimicCorrect`: `Spec => []MimicComputesShiftedMult`. The property is not inductive: it says nothing about the loop's intermediate states. The strengthening is the loop invariant `MimicLoopInv`: `(partial_sum + m*point) mod N = (shift + m0*base) mod N` while the loop runs, and `m = 0` once it has returned. `MimicIter` preserves it because `m = 2*(m div 2) + m mod 2`. The proof cites lemmas on `mod` (`ModCongr`, `PointMod`) rather than raw arithmetic. TLC also checks `MimicLoopInv` as an invariant of the run.

- `RowsChained`: `Spec => []TraceRowsChained`. A returned trace has `NSteps` rows that start at `(shift, point, m)`. No row is degenerate, and each row follows its predecessor (`RowFollows`): the point is doubled, the suffix halved, and the point added on an odd suffix. The strengthening `GenRowsInv` adds two things. The rows recorded so far are chained. The loop variables form the row that iteration `genI` records next (`NextRow`), and it follows the last recorded row. `GenStep` appends `NextRow` and moves the variables to the row after it. `TraceRowsChained` is `TraceSatisfiesRows` without the last conjunct, "the last suffix is 0", which needs `m < 2^ScalarBits <= 2^(NSteps-1)` (see below). TLC checked `GenRowsInv` on `MC_EcMult` before the proof.

The lemmas on modular arithmetic (`ModDef`, `ModUnique`, `ModShift`, `ModCongr`, `ModSum`, `ModProd`, `PointMod`), on closure (`PointClosed`, `OpsInPoint`) and on x-coordinates (`XCoordNeg`) are in `EcCurve_proofs.tla`. Both `EcMult_proofs` and `EcdsaTrace_proofs` use them.

`EcdsaTrace_proofs.tla` proves facts about `InstanceTrace::new` and `verify`, under the same `ConstantsAssumption`:

- `AcceptedKeyValid`: `Spec => []AcceptedKeyIsValid`. The key that verify returns has the instance's x-coordinate and satisfies plain ECDSA, `x(w * (z*G + r*Q)) = r`.
  - The strengthening `IInv` says that verify runs only on an x of the curve. It also says that an accepted key is one of the two candidates over x and that `r = ShiftedX(message, r, w, key)`, which is verify's own shifted formula.
  - The lemma `ShiftsCancel` does the algebra. `(w * ((z*G - shift) + (r*Q + shift)) + shift) - shift` is `w * (z*G + r*Q)` in the group, step by step through `ModSum`, `ModProd` and `ModShift`.
  - `XCoordNeg` gives the x-coordinate of either candidate.
- `TypeCorrect`: `Spec => []TypeOK`, from the same invariant.
- `AssertionsCorrect`: `Spec => []AssertionsHold`, and `AirConstraintsCorrect`: `Spec => []AirConstraintsHold`.
  - Neither property is inductive. The assertions compare values computed several statements earlier, and the AIR conditions at "done" were checked at earlier stages.
  - The strengthening `StageFacts` records, from each stage on:
    - a key has been returned;
    - `zg`, `qr` and `b` are the products `ComputeB` stored, and `zg`, `qr` are not degenerate;
    - `wb` is `w * b + shift`;
    - the three traces passed `GenOk`;
    - `wb` and `-shift` have different x at "done".
  - `CheckMults` cannot fail, because `GenLast` and the stored products are the same `MultValue`.
  - `Finish`'s `assert_eq!(r, (wb - shift).x)` cannot fail, because with those equalities `(wb - shift).x` is `ShiftedX(message, r, w, key)`, and `IInv` says that equals `r`.
  - The proofs keep `MimicOk`, `GenOk` and `Degenerate` opaque. So they need no fact about `2^j`, and they hold for any closed form of the two routines.

Before the proofs, `IInv` and `IInv /\ StageFacts` were checked with TLC as invariants of the `MC_EcdsaTrace` instance (40,171 states).

`TraceReader_proofs.tla` holds the reader's proofs. They hold for every set of register states `State` and every record bound `MaxRecords`, with no assumption on them.

- `TypeCorrect`: `Spec => []TypeOK`. It uses the lemma `StreamsAreSeqs`, which says every enumerated stream is a `Seq(State)`.
- `WholeStreamReturned`: `Spec => []ReturnsWholeStream`. The property speaks only of the final state, so it is strengthened to `IInv`: the states read so far are `SubSeq(stream, 1, pos)`, and `pc = "done"` only with `pos = Len(stream)` and no partial record. `ReadRecord` preserves it because appending `stream[pos+1]` to the prefix of length `pos` gives the prefix of length `pos+1`.

`MemoryReader_proofs.tla` holds the proofs about `Memory::from_reader`. They hold for every `Address`, `UsizeMax`, `Value`, `Modulus`, `MaxCells` and `MaxRecords` that satisfy `MemoryConstantsAssumption`. That assumption requires `UsizeMax > 1`, addresses in `0..UsizeMax-1`, values that are naturals, and `MaxCells` in `1..UsizeMax-1`.

- `TableCorrect`: `Spec => []TableMatchesStream`. The strengthening `IInv` says four things. First, `partial` is the prefix of the stream read so far. Second, `maxAddress` bounds every address read and is one of them, or 0 before the first record. Third, once the table is allocated it has `maxAddress + 1` cells. Fourth, each cell holds `WrittenUpTo(stream, a, fillPos)`: the value of the last of the first `fillPos` records that names its address. The lemma `WrittenStep` shows that one more record changes only the cell it names. It reasons about the `CHOOSE` of the largest index directly. The lemma `CellUpdate` shows that writing a cell keeps the table's length.
- The overflow adds a fourth kind of state to `IInv`. Between the allocation and the first write, a release build with `max_address + 1 = UsizeMax` holds the wrapped, empty table. Every other allocated table has `maxAddress + 1 < UsizeMax` cells, and no more than `MaxCells`. `IInv` also records:
  - a read state has no partial record;
  - in a debug build, every value read is in the field until a panic.
- `TypeCorrect`: `Spec => []TypeOK`, a corollary of the same invariant.
- `Refinement`: `Spec => ImplementsMemoryTable`, the safety part of the refinement of `MemoryTable`.
  - `InitIInv` and `Init => Table!Init` give the initial states.
  - The lemma `StepRefines` shows that every step from an `IInv` state is a `MemoryTable` step or a stutter:
    - the reading, allocating and writing steps leave `state` and `table` unchanged;
    - each panic is `Panic` on a `Malformed` stream. For the overflow panic, the capacity overflow and the out-of-bounds write, `max_address + 1` exceeds `MaxCells`. Since `MaxCells >= 1`, `max_address` is then one of the addresses read, so some record names an address of at least `MaxCells`;
    - `FillEnd` is `Return`.
  - For `Return`, `IInv` excludes the wrapped table: `max_address = usize::MAX` means a record was read, so a write is still due. Every address read is at most `max_address < MaxCells`, so the stream is not `Malformed`. The lemma `TopIsMaxAddress` shows that `max_address` is `MemoryTable`'s `CHOOSE` of the largest named address, and the lemma `WrittenAll` shows that the table is `LastWrite`.
- `PanicsCorrect`: `Spec => []PanicsExactlyOnMalformed`, derived through the refinement.
  - `AbsPanics` is the property read through the `Table` mapping. By `SameMalformed` it is `PanicsExactlyOnMalformed` itself (lemma `PanicsViaTable`).
  - Every `MemoryTable` step preserves it (lemma `AbsPanicsStep`): `Return` requires `~Malformed`, `Panic` requires `Malformed`, and neither changes the input.
  - `StepRefines` makes every reader step from an `IInv` state a `MemoryTable` step, so the reader inherits the property.

Before the proof, `IInv` was checked with TLC as an invariant of the `MC_MemoryReader` instance (158,805 states).

These stay with TLC:

- liveness: `BothReturn`. Proving them would need reasoning about `ENABLED` under fairness, which the installed provers do not support;

- every fact about exponentiation. tlapm cannot prove even `2^(j+1) = 2 * 2^j` or `2^j > 0` for a variable `j`: `^` has no axioms in the SMT and Zenon encodings, and only literal powers such as `2^3 = 8` are evaluated. Induction could supply such facts, but the library's induction theorems take an operator parameter, which the installed provers cannot instantiate. What stays with TLC for this reason:
  - the closed forms `MimicOk` and `GenOk`, hence `MimicMatchesReference` and `GenMatchesReference`;
  - the last conjunct of `TraceSatisfiesRows` (the last suffix `m div 2^(NSteps-1)` is 0);
  - all of `WordModel`. Its offsets and flags are `(x div 2^k) % 2^OffBits`, and even its type invariant needs `2^UsizeBits > 0` for the address wrap. That invariant also needs `InverseOrZero` to stay in `0..P-1`, which holds only because `P` is prime (an inverse exists), and proving that also takes induction;
- `EncodesSchema` of `AuxEncoder`. The schema is built by the recursive functions `Bounds` and `Pairs`, whose unfolding needs the same induction theorems.

`AuxEncoder_proofs.tla` proves, for every layout set, entry set and bound, with no assumption beyond `AuxConstantsAssumption`:

- `EncoderFailsCorrectly`: `Spec => []FailsExactlyWhenUnencodable`. `serialize_sharp` returns exactly for the Starknet layout with every optional segment present, and panics otherwise.
  - `BaseInBounds` and `StarknetInBounds`: no write indexes past `NUM_BASE_VALS` or `NUM_VALS`.
  - `WrittenDiagonal`, `BaseDiagonal` and `StarknetDiagonal`: each slot holds its own write.
  - `BaseFilled` and `StarknetFilled`: a block has no None exactly when its segments are present.
  - `EmptySlotOfConcat` and `FlattenFinds`: the flattened vector has a None exactly when a segment is missing.
  - The strengthening `EncoderInv` records the blocks written at each stage. TLC checked it on `MC_AuxEncoder` (8,064 states) before the proof.
- `EncoderTypeCorrect`: `Spec => []TypeOK`. The base and Starknet blocks are always vectors of exactly `NUM_BASE_VALS` and `NUM_VALS` Options of the fields they copy, and the main page has two slots.
  - TypeOK is inductive as it stands. The only facts it needs are about the two written vectors.
  - `MapInSlot`: `seg.map(..)` of an optional segment is None or the tag of its bound.
  - `BaseWritesTyped` and `StarknetWritesTyped`: every write stores an Option of a field tag, or of the page count 1. Each is proved by listing the block's writes one by one.
  - `BlocksTyped`: with `WrittenDiagonal`, the vectors `vec![None; n]` filled by those writes are typed.

## 5. What is not modelled, and the plan

Not modelled:

- The curve arithmetic, the field inversions and `get_ys_from_x_unchecked`. They are external primitives, abstracted as described above.
- `generator_points_poly`: polynomial interpolation of constants.
- The `TryFrom<AirPublicInput>` conversion, which is `todo!()`.
- `AirPublicInput`'s accessors, `public_memory_padding` and `MemoryEntry::try_into_felt_entry`. They are stateless, and nothing in `src/` calls them, because the conversion above is `todo!()`. Deserialization enforces neither the spec's "exactly one entry at address 1" nor its segment/layout checks. `public_memory_padding` takes the first entry at address 1, and panics when there is none.
- The instance containers' `mem_addr` arithmetic, and `CompiledProgram`: straight-line code without state.
- `Layout::from_sharp_code` and the layout's serialization: one `match` on the same constant.
- The digest's 32-byte conversion in `serialize_sharp`: the hash is a type parameter.

Planned, in this order:

1. More proofs: the closed-form relation `GenOk => MimicOk`, which needs facts about `2^j` that the SMT backend lacks.

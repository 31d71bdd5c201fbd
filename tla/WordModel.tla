------------------------------ MODULE WordModel ------------------------------
(***************************************************************************)
(* The instruction-word decoding of src/binary/src/lib.rs: Word's offset, *)
(* flag, flag-group and flag-prefix accessors on the word's numeric value, *)
(* and the operand accessors get_dst, get_op0, get_op1, get_res and        *)
(* get_tmp1 that resolve addresses against the registers and read memory. *)
(*                                                                         *)
(* The offsets are OffBits wide (16 in the code) and usize is UsizeBits    *)
(* wide (64): the code's `off + reg - HALF_OFFSET` panics on overflow in a *)
(* debug build and wraps in a release build; both builds are explored.     *)
(* A failed unwrap, an index out of bounds and an unreachable!() all       *)
(* yield Panic.                                                            *)
(***************************************************************************)
EXTENDS Integers, Sequences

CONSTANTS
    OffBits,     \* width of an offset field (16)
    UsizeBits,   \* width of usize (64)
    P,           \* the field modulus
    Mem,         \* the memory: a sequence of Options ({} or {v}), cell i is address i - 1
    Words,       \* the instruction words considered, as their fields
    Registers    \* the register triples considered

ASSUME WordConstantsAssumption ==
    /\ OffBits \in Nat \ {0} /\ UsizeBits \in Nat /\ P \in Nat \ {0, 1}
    /\ Mem \in Seq(SUBSET Nat)

Panic == -1
Pending == -2

-----------------------------------------------------------------------------
(* The word layout: three offsets, then 16 flags.                          *)

OffDstBitOffset == 0
OffOp0BitOffset == OffBits
OffOp1BitOffset == 2 * OffBits
FlagsBitOffset == 3 * OffBits
HalfOffset == 2^(OffBits - 1)
UsizeMax == 2^UsizeBits

\* Flag numbers (enum Flag) and the flags of each group (enum FlagGroup),
\* least significant first.
DstReg == 0
Op0Reg == 1
PcJnz == 9
Zero == 15
FlagGroup == [DstReg   |-> <<0>>,      Op0Reg   |-> <<1>>,
              Op1Src   |-> <<2, 3, 4>>, ResLogic |-> <<5, 6>>,
              PcUpdate |-> <<7, 8, 9>>, ApUpdate |-> <<10, 11>>,
              Opcode   |-> <<12, 13, 14>>]

\* A word given by its fields: the three offsets, the 16 flag bits, and the
\* bits above the flags (a Word is any field element).
WordFields == [off : [1..3 -> 0..(2^OffBits - 1)], flag : [0..15 -> {0, 1}],
               high : Nat]

\* A RegisterState.
RegisterState == [ap : 0..(2^UsizeBits - 1), fp : 0..(2^UsizeBits - 1),
                  pc : 0..(2^UsizeBits - 1)]

\* The packing of spec section 3.
Encode(w) ==
    LET flagsValue[i \in 0..16] ==
            IF i = 0 THEN 0 ELSE flagsValue[i - 1] + w.flag[i - 1] * 2^(i - 1)
    IN  w.off[1] + w.off[2] * 2^OffOp0BitOffset + w.off[3] * 2^OffOp1BitOffset
        + (flagsValue[16] + w.high * 2^16) * 2^FlagsBitOffset

-----------------------------------------------------------------------------
(* Word's accessors, on the numeric value x of the word.                   *)

GetFlag(x, f) == (x \div 2^(FlagsBitOffset + f)) % 2 = 1
Bit(x, f) == IF GetFlag(x, f) THEN 1 ELSE 0

\* get_off_dst, get_off_op0, get_off_op1: (x >> offset) & OFF_MASK.
GetOff(x, bitOffset) == (x \div 2^bitOffset) % 2^OffBits

\* Mutant: the prefix mask keeps one bit too many (1 << (16 - flag)).
GetFlagPrefixWideMask(x, f) ==
    IF f = Zero THEN 0 ELSE (x \div 2^(FlagsBitOffset + f)) % 2^(16 - f)

\* get_flag_prefix: the flags f..14 as a number, 0 for the Zero flag.
GetFlagPrefix(x, f) ==
    IF f = Zero THEN 0 ELSE (x \div 2^(FlagsBitOffset + f)) % 2^(15 - f)

\* Mutant: Op1Src weighs Op1Fp by 4 and Op1Ap by 2.
GetFlagGroupSwapped(x, g) ==
    IF g = "Op1Src" THEN Bit(x, 2) + Bit(x, 4) * 2 + Bit(x, 3) * 4
    ELSE LET s == FlagGroup[g] IN
         Bit(x, s[1]) + (IF Len(s) > 1 THEN Bit(x, s[2]) * 2 ELSE 0)
                      + (IF Len(s) > 2 THEN Bit(x, s[3]) * 4 ELSE 0)

\* get_flag_group: the group's flags with weights 1, 2, 4.
GetFlagGroup(x, g) ==
    LET s == FlagGroup[g] IN
    Bit(x, s[1]) + (IF Len(s) > 1 THEN Bit(x, s[2]) * 2 ELSE 0)
                 + (IF Len(s) > 2 THEN Bit(x, s[3]) * 4 ELSE 0)

\* A usize result: in range, or a panic (debug) or wrap (release).
Usize(v, debug) ==
    IF v \in 0..(UsizeMax - 1) THEN v
    ELSE IF debug THEN Panic ELSE v % UsizeMax

\* Mutant: the bias is subtracted from the register before the offset is
\* added, `off + (reg - HALF_OFFSET)`.
BiasedAddrRegFirst(off, reg, debug) ==
    LET r == Usize(reg - HalfOffset, debug) IN
    IF r = Panic THEN Panic ELSE Usize(off + r, debug)

\* `off as usize + reg - HALF_OFFSET`, evaluated left to right.
BiasedAddr(off, reg, debug) ==
    LET s == Usize(off + reg, debug) IN
    IF s = Panic THEN Panic ELSE Usize(s - HalfOffset, debug)

\* mem[a].unwrap(): an index out of bounds or a None cell panics.
Read(a) ==
    IF a = Panic \/ a >= Len(Mem) \/ Mem[a + 1] = {} THEN Panic
    ELSE CHOOSE v \in Mem[a + 1] : TRUE

GetDstAddr(x, r, debug) ==
    BiasedAddr(GetOff(x, OffDstBitOffset),
               IF GetFlag(x, DstReg) THEN r.fp ELSE r.ap, debug)

GetOp0Addr(x, r, debug) ==
    BiasedAddr(GetOff(x, OffOp0BitOffset),
               IF GetFlag(x, Op0Reg) THEN r.fp ELSE r.ap, debug)

\* get_op1_addr: the base chosen by Op1Src; for 0, the word at op0's
\* address converted by usize::try_from(..).unwrap(); other values are
\* unreachable!().
GetOp1Addr(x, r, debug) ==
    LET src == GetFlagGroup(x, "Op1Src")
        ind == Read(GetOp0Addr(x, r, debug))
        base == CASE src = 0 -> IF ind = Panic \/ ind >= UsizeMax THEN Panic
                                ELSE ind
                  [] src = 1 -> r.pc
                  [] src = 2 -> r.fp
                  [] src = 4 -> r.ap
                  [] OTHER -> Panic
    IN  IF base = Panic THEN Panic
        ELSE BiasedAddr(GetOff(x, OffOp1BitOffset), base, debug)

\* F::inverse(v).unwrap_or_else(F::zero)
InverseOrZero(v) ==
    IF v % P = 0 THEN 0 ELSE CHOOSE y \in 1..(P - 1) : (v * y) % P = 1

\* Mutant: the sum op0 + op1 is not reduced modulo the field.
GetResUnreduced(x, r, debug) ==
    LET pcUpdate == GetFlagGroup(x, "PcUpdate")
        resLogic == GetFlagGroup(x, "ResLogic")
        op0 == Read(GetOp0Addr(x, r, debug))
        op1 == Read(GetOp1Addr(x, r, debug))
        dst == Read(GetDstAddr(x, r, debug))
    IN CASE pcUpdate = 4 ->
              IF /\ resLogic = 0 /\ GetFlagGroup(x, "Opcode") = 0
                 /\ GetFlagGroup(x, "ApUpdate") # 1 /\ dst # Panic
              THEN InverseOrZero(dst) ELSE Panic
         [] pcUpdate \in {0, 1, 2} ->
              IF op0 = Panic \/ op1 = Panic \/ resLogic = 3 THEN Panic
              ELSE (CASE resLogic = 0 -> op1 % P
                      [] resLogic = 1 -> op0 + op1
                      [] resLogic = 2 -> (op0 * op1) % P)
         [] OTHER -> Panic

\* get_res: for a conditional jump (PcUpdate 4) with no res logic, no
\* opcode and no `ap += res`, the inverse of dst (0 for 0); for PcUpdate
\* 0, 1, 2 the operands are read and combined by ResLogic; every other
\* combination is unreachable!().
GetRes(x, r, debug) ==
    LET pcUpdate == GetFlagGroup(x, "PcUpdate")
        resLogic == GetFlagGroup(x, "ResLogic")
        op0 == Read(GetOp0Addr(x, r, debug))
        op1 == Read(GetOp1Addr(x, r, debug))
        dst == Read(GetDstAddr(x, r, debug))
    IN CASE pcUpdate = 4 ->
              IF /\ resLogic = 0 /\ GetFlagGroup(x, "Opcode") = 0
                 /\ GetFlagGroup(x, "ApUpdate") # 1 /\ dst # Panic
              THEN InverseOrZero(dst) ELSE Panic
         [] pcUpdate \in {0, 1, 2} ->
              IF op0 = Panic \/ op1 = Panic \/ resLogic = 3 THEN Panic
              ELSE (CASE resLogic = 0 -> op1 % P
                      [] resLogic = 1 -> (op0 + op1) % P
                      [] resLogic = 2 -> (op0 * op1) % P)
         [] OTHER -> Panic

\* get_tmp1 = get_tmp0 * get_res, get_tmp0 being dst on a conditional jump
\* and 0 otherwise.
GetTmp1(x, r, debug) ==
    LET tmp0 == IF GetFlag(x, PcJnz) THEN Read(GetDstAddr(x, r, debug)) ELSE 0
        res == GetRes(x, r, debug)
    IN  IF tmp0 = Panic \/ res = Panic THEN Panic ELSE (tmp0 * res) % P

\* into_felt
Felt(v) == IF v = Panic THEN Panic ELSE v % P

-----------------------------------------------------------------------------
(* The reference: the semantics of spec section 4.2 on the word's fields,  *)
(* with addresses as integers.  A failure (an unresolved cell, an illegal  *)
(* encoding) is written Panic, as every failure of the code is a panic.    *)

RefGroup(w, g) ==
    LET s == FlagGroup[g]
        sum[k \in 0..Len(s)] ==
            IF k = 0 THEN 0 ELSE sum[k - 1] + w.flag[s[k]] * 2^(k - 1)
    IN  sum[Len(s)]

RefCell(a) ==
    IF a \in 0..(Len(Mem) - 1) /\ Mem[a + 1] # {}
    THEN (CHOOSE v \in Mem[a + 1] : TRUE) % P ELSE Panic

RefAddr(w, k, base) == base + w.off[k] - HalfOffset

RefDstAddr(w, r) == RefAddr(w, 1, IF w.flag[DstReg] = 1 THEN r.fp ELSE r.ap)
RefOp0Addr(w, r) == RefAddr(w, 2, IF w.flag[Op0Reg] = 1 THEN r.fp ELSE r.ap)

RefOp1(w, r) ==
    LET src == RefGroup(w, "Op1Src")
        ind == RefCell(RefOp0Addr(w, r))
        bases == [s \in {1, 2, 4} |-> CASE s = 1 -> r.pc [] s = 2 -> r.fp
                                        [] s = 4 -> r.ap]
    IN  IF src \in {1, 2, 4} THEN RefCell(RefAddr(w, 3, bases[src]))
        ELSE IF src = 0 /\ ind # Panic THEN RefCell(RefAddr(w, 3, ind))
        ELSE Panic

RefRes(w, r) ==
    LET dst == RefCell(RefDstAddr(w, r))
        op0 == RefCell(RefOp0Addr(w, r))
        op1 == RefOp1(w, r)
        resLogic == RefGroup(w, "ResLogic")
        jnzOk == /\ resLogic = 0 /\ RefGroup(w, "Opcode") = 0
                 /\ RefGroup(w, "ApUpdate") # 1
    IN  IF RefGroup(w, "PcUpdate") = 4
        THEN IF jnzOk /\ dst # Panic THEN InverseOrZero(dst) ELSE Panic
        ELSE IF RefGroup(w, "PcUpdate") \notin {0, 1, 2}
                \/ resLogic = 3 \/ Panic \in {op0, op1} THEN Panic
        ELSE (<<op1, op0 + op1, op0 * op1>>[resLogic + 1]) % P

RefTmp1(w, r) ==
    LET tmp0 == IF w.flag[PcJnz] = 1 THEN RefCell(RefDstAddr(w, r)) ELSE 0
        res == RefRes(w, r)
    IN  IF Panic \in {tmp0, res} THEN Panic ELSE (tmp0 * res) % P

Calls == {"get_dst", "get_op0", "get_op1", "get_res", "get_tmp1"}

RefResult(c, w, r) ==
    CASE c = "get_dst"  -> RefCell(RefDstAddr(w, r))
      [] c = "get_op0"  -> RefCell(RefOp0Addr(w, r))
      [] c = "get_op1"  -> RefOp1(w, r)
      [] c = "get_res"  -> RefRes(w, r)
      [] c = "get_tmp1" -> RefTmp1(w, r)

-----------------------------------------------------------------------------
(* One call of a public accessor on a word, registers and the memory, in   *)
(* a debug or a release build.                                             *)

VARIABLES word, regs, debugBuild, call, result
vars == <<word, regs, debugBuild, call, result>>

Init ==
    /\ word \in Words /\ regs \in Registers /\ debugBuild \in BOOLEAN
    /\ call \in Calls /\ result = Pending

\* The call named c returns v (a field element, or Panic).
Return(c, v) == call = c /\ result = Pending /\ result' = v
                /\ UNCHANGED <<word, regs, debugBuild, call>>

CallGetDst ==
    Return("get_dst", Felt(Read(GetDstAddr(Encode(word), regs, debugBuild))))

CallGetOp0 ==
    Return("get_op0", Felt(Read(GetOp0Addr(Encode(word), regs, debugBuild))))

CallGetOp1 ==
    Return("get_op1", Felt(Read(GetOp1Addr(Encode(word), regs, debugBuild))))

CallGetRes == Return("get_res", GetRes(Encode(word), regs, debugBuild))

CallGetTmp1 == Return("get_tmp1", GetTmp1(Encode(word), regs, debugBuild))

Next == CallGetDst \/ CallGetOp0 \/ CallGetOp1 \/ CallGetRes \/ CallGetTmp1

Spec == Init /\ [][Next]_vars

-----------------------------------------------------------------------------
(* Properties.                                                             *)

\* Every accessor returns a field element or panics.
TypeOK ==
    /\ word \in WordFields /\ regs \in RegisterState /\ debugBuild \in BOOLEAN
    /\ call \in Calls /\ result \in {Pending, Panic} \cup 0..(P - 1)

\* Spec section 8: the offsets, the flags and the flag groups decoded from
\* the packed word (get_off_*, get_flag, get_flag_group) are the fields it
\* was packed from, whatever the padding flag and the bits above the flags.
RoundTrip ==
    LET x == Encode(word) IN
    /\ GetOff(x, OffDstBitOffset) = word.off[1]
    /\ GetOff(x, OffOp0BitOffset) = word.off[2]
    /\ GetOff(x, OffOp1BitOffset) = word.off[3]
    /\ \A f \in 0..14 : Bit(x, f) = word.flag[f]
    /\ \A g \in DOMAIN FlagGroup : GetFlagGroup(x, g) = RefGroup(word, g)

\* get_flag_prefix computes the paper's flag prefixes: for every flag f,
\* prefix(f) - 2 * prefix(f + 1) is flag f, and prefix(Zero) is 0, whatever
\* the padding flag and the bits above the flags hold.
FlagPrefixMatchesPaper ==
    LET x == Encode(word) IN
    \A f \in 0..14 : GetFlagPrefix(x, f) - 2 * GetFlagPrefix(x, f + 1) = word.flag[f]

\* Each accessor, with its usize address arithmetic in either build,
\* returns the value of spec section 4.2 (the cell at base + off - 2^15,
\* the combination of the operands) and panics exactly when that semantics
\* fails (a cell absent or out of memory, an illegal encoding).
CallMatchesReference ==
    result # Pending => result = RefResult(call, word, regs)
=============================================================================

---------------------------- MODULE MC_WordModel ----------------------------
(* WordModel with 2-bit offsets (bias 2), a 4-bit usize and the field of   *)
(* 19 elements.  The memory has 8 cells, two absent, one holding 17 (not a *)
(* usize).  The words vary every flag group over its values, legal or not, *)
(* in two families: one for the address accessors with every offset, one  *)
(* for get_res and get_tmp1 with the padding flag and a high bit.          *)
EXTENDS WordModel

MC_OffBits == 2
MC_UsizeBits == 4
MC_P == 19
MC_Mem == <<{17}, {}, {2}, {5}, {0}, {7}, {}, {3}>>

\* The word with offsets o, group values gv, padding flag z and high bits h.
MkWord(o, gv, z, h) ==
    [off |-> o, high |-> h,
     flag |-> [i \in 0..15 |->
                 IF i = 15 THEN z
                 ELSE LET g == CHOOSE g \in DOMAIN FlagGroup :
                                   \E k \in 1..Len(FlagGroup[g]) : FlagGroup[g][k] = i
                          k == CHOOSE k \in 1..Len(FlagGroup[g]) : FlagGroup[g][k] = i
                      IN  (gv[g] \div 2^(k - 1)) % 2]]

GV(d, o0, o1, rl, pu, au, oc) ==
    [DstReg |-> d, Op0Reg |-> o0, Op1Src |-> o1, ResLogic |-> rl,
     PcUpdate |-> pu, ApUpdate |-> au, Opcode |-> oc]

AddrWords ==
    {MkWord(o, GV(d, o0, o1, 0, 0, 0, 0), 0, 0) :
        o \in [1..3 -> 0..3], d \in 0..1, o0 \in 0..1, o1 \in 0..7}

ResWords ==
    {MkWord(o, GV(d, 0, o1, rl, pu, au, oc), z, h) :
        o \in {<<2, 3, 3>>, <<1, 2, 0>>}, d \in 0..1, o1 \in {1, 2},
        rl \in 0..3, pu \in 0..7, au \in 0..2, oc \in {0, 1, 4},
        z \in 0..1, h \in 0..1}

MC_Words == AddrWords \cup ResWords

MC_Registers == {[ap |-> a, fp |-> f, pc |-> 5] : a \in {0, 3}, f \in {1, 6}}

\* Registers near the top of usize, as a trace file may hold.
MC_RegistersHigh == {[ap |-> a, fp |-> 1, pc |-> 5] : a \in {14, 15}}
=============================================================================

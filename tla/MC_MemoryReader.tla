---------------------------- MODULE MC_MemoryReader ----------------------------
(* Streams of up to three records over addresses 0..3 and 7 and values    *)
(* 0..4 in a field of modulus 3, on a 3-bit usize (usize::MAX = 7) where  *)
(* vec! allocates at most 3 cells: duplicates, holes, the largest table   *)
(* (address 2), the first address too large for it (3), the overflowing   *)
(* address usize::MAX and out-of-field values all occur.                  *)
EXTENDS MemoryReader

MC_Address == {0, 1, 2, 3, 7}
MC_UsizeMax == 8
MC_MaxCells == 3
MC_Value == 0..4
MC_Modulus == 3
MC_MaxRecords == 3
=============================================================================

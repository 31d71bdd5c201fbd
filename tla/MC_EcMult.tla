------------------------------ MODULE MC_EcMult ------------------------------
(* EcMult on a group of order 11 with scalars below 2^3 and a loop of 5    *)
(* iterations: like the code's 251-bit scalars and 256-row loop, the loop  *)
(* runs past the highest bit any accepted scalar can have.                 *)
EXTENDS EcMult

MC_N == 11
MC_ShiftPoint == 3
MC_NSteps == 5
MC_ScalarBits == 3
=============================================================================

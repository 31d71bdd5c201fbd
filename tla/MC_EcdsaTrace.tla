---------------------------- MODULE MC_EcdsaTrace ----------------------------
(* The ECDSA instance builder on a curve group of order 11: scalars of    *)
(* 3 bits (1..7), 5 iterations per multiplication trace.  Every input     *)
(* field value is enumerated, so every degenerate configuration of the   *)
(* group occurs.                                                          *)
EXTENDS EcdsaTrace

MC_N == 11
MC_ShiftPoint == 3
MC_NSteps == 5
MC_ScalarBits == 3
=============================================================================

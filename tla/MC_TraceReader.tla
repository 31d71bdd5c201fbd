---------------------------- MODULE MC_TraceReader ----------------------------
(* Streams of up to three records over three register states.             *)
EXTENDS TraceReader

CONSTANTS s1, s2, s3

MC_State == {s1, s2, s3}
MC_MaxRecords == 3
=============================================================================

---------------------------- MODULE MC_AuxEncoder ----------------------------
(* Three layouts (Starknet and two without a code), two entries, and       *)
(* public memories of up to two entries.                                   *)
EXTENDS AuxEncoder

MC_Layouts == {"Starknet", "Plain", "Recursive"}
MC_Entries == {[address |-> 1, value |-> 0], [address |-> 2, value |-> 1]}
MC_MaxEntries == 2
=============================================================================

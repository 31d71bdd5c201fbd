----------------------------- MODULE MemoryTable -----------------------------
(***************************************************************************)
(* What Memory::from_reader (src/binary/src/lib.rs) promises, in one step: *)
(* on a well-formed stream of (address, word) records it returns the      *)
(* table with one cell per address from 0 to the largest one named (0 for *)
(* an empty stream, since max_address starts at 0), each cell holding the *)
(* word of the last record naming its address, or None; on a malformed    *)
(* stream it panics.  The reading and filling loops of MemoryReader are   *)
(* shown to implement this step.                                          *)
(***************************************************************************)
EXTENDS Naturals, Sequences

CONSTANTS Address, UsizeMax, Value, Modulus, MaxCells, MaxRecords

VARIABLES
    stream,      \* the whole records of the input
    truncated,   \* the input ends with a partial record
    debugBuild,  \* debug_assert! is compiled in
    state,       \* "reading", "done" (a table returned) or "panic"
    table        \* the table returned, << >> until then

avars == <<stream, truncated, debugBuild, state, table>>

Record == [address : Address, value : Value]

Streams == UNION {[1..n -> Record] : n \in 0..MaxRecords}

\* The addresses named by the stream, and the initial max_address 0.
Named == {0} \cup {stream[i].address : i \in DOMAIN stream}

\* The largest of them: the table's last index.
TopAddress == CHOOSE m \in Named : \A x \in Named : x <= m

\* The word of the last record naming address a, or None.
LastWrite(a) ==
    LET I == {i \in DOMAIN stream : stream[i].address = a} IN
    IF I = {} THEN {}
    ELSE {stream[CHOOSE i \in I : \A j \in I : j <= i].value}

\* A stream from_reader refuses: a partial last record, a word outside the
\* field in a build with Word::new's debug_assert!, or an address of at
\* least MaxCells (no table of address + 1 cells can be allocated).
Malformed ==
    \/ truncated
    \/ debugBuild /\ \E i \in DOMAIN stream : stream[i].value >= Modulus
    \/ \E i \in DOMAIN stream : stream[i].address >= MaxCells

Init ==
    /\ stream \in Streams /\ truncated \in BOOLEAN /\ debugBuild \in BOOLEAN
    /\ state = "reading" /\ table = << >>

\* from_reader returns Memory(memory).
Return ==
    /\ state = "reading" /\ ~Malformed
    /\ state' = "done"
    /\ table' = [i \in 1..(TopAddress + 1) |-> LastWrite(i - 1)]
    /\ UNCHANGED <<stream, truncated, debugBuild>>

\* from_reader panics.
Panic ==
    /\ state = "reading" /\ Malformed
    /\ state' = "panic"
    /\ UNCHANGED <<stream, truncated, debugBuild, table>>

Next == Return \/ Panic

Spec == Init /\ [][Next]_avars
=============================================================================

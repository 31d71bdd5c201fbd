----------------------------- MODULE MemoryReader -----------------------------
(***************************************************************************)
(* Memory::from_reader (src/binary/src/lib.rs): reads (address, word)     *)
(* records until has_data_left() is false, then allocates a table of     *)
(* max_address + 1 empty cells and writes the records into it in stream  *)
(* order.  A cell is an Option, modelled as a set of at most one value:  *)
(* {} is None, {v} is Some(v).  Word::new checks that the value is below *)
(* the field modulus with a debug_assert!, so the check exists only in   *)
(* debug builds: which build runs is chosen in the initial state.        *)
(***************************************************************************)
EXTENDS Naturals, Sequences

CONSTANTS
    Address,     \* the addresses a record can hold
    UsizeMax,    \* usize::MAX + 1 (2^64 on the 64-bit targets)
    Value,       \* the 256-bit values a record can hold
    Modulus,     \* the field modulus: values >= Modulus are not field elements
    MaxCells,    \* the longest Vec<Option<Word<F>>> that vec! can allocate:
                 \* isize::MAX bytes over the size of a cell (about 2^58)
    MaxRecords   \* the longest stream considered

ASSUME MemoryConstantsAssumption ==
    /\ UsizeMax \in Nat /\ UsizeMax > 1
    /\ Address \subseteq 0..(UsizeMax - 1) /\ Value \subseteq Nat
    /\ Modulus \in Nat /\ MaxRecords \in Nat
    /\ MaxCells \in 1..(UsizeMax - 1)

Record == [address : Address, value : Value]

VARIABLES
    stream,      \* the whole records of the input
    truncated,   \* the input ends with a partial record
    debugBuild,  \* debug_assert! is compiled in
    pos,         \* records consumed by the reading loop
    partial,     \* partial_memory
    maxAddress,  \* max_address
    memory,      \* the table, once allocated
    fillPos,     \* records written into the table
    pc           \* "read", "fill", "done" or "panic"

vars == <<stream, truncated, debugBuild, pos, partial, maxAddress, memory,
          fillPos, pc>>

Streams == UNION {[1..n -> Record] : n \in 0..MaxRecords}

Init ==
    /\ stream \in Streams /\ truncated \in BOOLEAN /\ debugBuild \in BOOLEAN
    /\ pos = 0 /\ partial = << >> /\ maxAddress = 0
    /\ memory = << >> /\ fillPos = 0 /\ pc = "read"

-----------------------------------------------------------------------------
\* Mutant: the two fields of the record are read in the order of the
\* canonical MemoryEntry encoding (value first).
ReadRecordSwapped ==
    /\ pc = "read"
    /\ pos < Len(stream)
    /\ LET rec == stream[pos + 1] IN
       /\ rec.value < Modulus \/ ~debugBuild
       /\ partial' = Append(partial, [address |-> rec.value,
                                      value |-> rec.address])
       /\ maxAddress' = IF rec.value > maxAddress THEN rec.value
                                                 ELSE maxAddress
    /\ pos' = pos + 1
    /\ UNCHANGED <<stream, truncated, debugBuild, memory, fillPos, pc>>

\* Mutant: the value is never checked against the modulus.
ReadRecordNoCheck ==
    /\ pc = "read"
    /\ pos < Len(stream)
    /\ LET rec == stream[pos + 1] IN
       /\ partial' = Append(partial, rec)
       /\ maxAddress' = IF rec.address > maxAddress THEN rec.address
                                                   ELSE maxAddress
    /\ pos' = pos + 1
    /\ UNCHANGED <<stream, truncated, debugBuild, memory, fillPos, pc>>

\* A whole record is read: Word::new(word) passes (value in the field, or
\* a release build), the pair is pushed and max_address updated.
ReadRecord ==
    /\ pc = "read"
    /\ pos < Len(stream)
    /\ LET rec == stream[pos + 1] IN
       /\ rec.value < Modulus \/ ~debugBuild
       /\ partial' = Append(partial, rec)
       /\ maxAddress' = IF rec.address > maxAddress THEN rec.address
                                                   ELSE maxAddress
    /\ pos' = pos + 1
    /\ UNCHANGED <<stream, truncated, debugBuild, memory, fillPos, pc>>

\* Word::new's debug_assert!(word < modulus) fails.
ReadOutOfField ==
    /\ pc = "read"
    /\ pos < Len(stream)
    /\ debugBuild /\ stream[pos + 1].value >= Modulus
    /\ pc' = "panic"
    /\ UNCHANGED <<stream, truncated, debugBuild, pos, partial, maxAddress,
                   memory, fillPos>>

\* Data left but less than a record: the unwrap of deserialize_from or of
\* read_exact panics.
ReadTruncated ==
    /\ pc = "read"
    /\ pos = Len(stream) /\ truncated
    /\ pc' = "panic"
    /\ UNCHANGED <<stream, truncated, debugBuild, pos, partial, maxAddress,
                   memory, fillPos>>

\* Mutant: an empty stream gets an empty table (no record, no cell).
AllocateEmptyForEmpty ==
    /\ pc = "read"
    /\ pos = Len(stream) /\ ~truncated
    /\ LET n == IF partial = << >> THEN 0 ELSE (maxAddress + 1) % UsizeMax IN
       \/ debugBuild /\ maxAddress + 1 = UsizeMax
          /\ pc' = "panic" /\ UNCHANGED memory
       \/ ~(debugBuild /\ maxAddress + 1 = UsizeMax) /\ n > MaxCells
          /\ pc' = "panic" /\ UNCHANGED memory
       \/ ~(debugBuild /\ maxAddress + 1 = UsizeMax) /\ n <= MaxCells
          /\ memory' = [i \in 1..n |-> {}] /\ pc' = "fill"
    /\ UNCHANGED <<stream, truncated, debugBuild, pos, partial, maxAddress,
                   fillPos>>

\* End of stream: `vec![None; max_address + 1]`; cell i holds address i - 1.
\* For max_address = usize::MAX the addition overflows: a panic in a debug
\* build, a table of (max_address + 1) mod 2^64 = 0 cells in a release one.
\* A table of more than MaxCells cells panics with "capacity overflow" in
\* both builds (RawVec's layout check, before any allocation).
Allocate ==
    /\ pc = "read"
    /\ pos = Len(stream) /\ ~truncated
    /\ LET n == (maxAddress + 1) % UsizeMax IN
       \/ debugBuild /\ maxAddress + 1 = UsizeMax
          /\ pc' = "panic" /\ UNCHANGED memory
       \/ ~(debugBuild /\ maxAddress + 1 = UsizeMax) /\ n > MaxCells
          /\ pc' = "panic" /\ UNCHANGED memory
       \/ ~(debugBuild /\ maxAddress + 1 = UsizeMax) /\ n <= MaxCells
          /\ memory' = [i \in 1..n |-> {}] /\ pc' = "fill"
    /\ UNCHANGED <<stream, truncated, debugBuild, pos, partial, maxAddress,
                   fillPos>>

\* Mutant: a write past the end of the table is skipped, as with
\* `if let Some(cell) = memory.get_mut(address)`.
FillGetMut ==
    /\ pc = "fill"
    /\ fillPos < Len(partial)
    /\ LET rec == partial[fillPos + 1] IN
       memory' = IF rec.address < Len(memory)
                 THEN [memory EXCEPT ![rec.address + 1] = {rec.value}]
                 ELSE memory
    /\ fillPos' = fillPos + 1
    /\ UNCHANGED <<stream, truncated, debugBuild, pos, partial, maxAddress, pc>>

\* `memory[address] = Some(word)` for the next pair of partial_memory; the
\* index is bounds-checked and panics past the end of the table.
Fill ==
    /\ pc = "fill"
    /\ fillPos < Len(partial)
    /\ LET rec == partial[fillPos + 1] IN
       \/ rec.address < Len(memory)
          /\ memory' = [memory EXCEPT ![rec.address + 1] = {rec.value}]
          /\ fillPos' = fillPos + 1 /\ UNCHANGED pc
       \/ rec.address >= Len(memory)
          /\ pc' = "panic" /\ UNCHANGED <<memory, fillPos>>
    /\ UNCHANGED <<stream, truncated, debugBuild, pos, partial, maxAddress>>

FillEnd ==
    /\ pc = "fill"
    /\ fillPos = Len(partial)
    /\ pc' = "done"
    /\ UNCHANGED <<stream, truncated, debugBuild, pos, partial, maxAddress,
                   memory, fillPos>>

Next ==
    \/ ReadRecord \/ ReadOutOfField \/ ReadTruncated \/ Allocate
    \/ Fill \/ FillEnd

Spec == Init /\ [][Next]_vars

-----------------------------------------------------------------------------
(* Properties                                                              *)

TypeOK ==
    /\ stream \in Streams /\ truncated \in BOOLEAN /\ debugBuild \in BOOLEAN
    /\ pos \in 0..Len(stream) /\ partial \in Seq(Record)
    /\ maxAddress \in Nat /\ fillPos \in 0..Len(partial)
    /\ memory \in Seq({{}} \cup {{v} : v \in Value})
    /\ pc \in {"read", "fill", "done", "panic"}

\* The value the table should hold for address a: that of the last record
\* for a, or None when no record names a.
LastWrite(a) ==
    LET I == {i \in DOMAIN stream : stream[i].address = a} IN
    IF I = {} THEN {}
    ELSE {stream[CHOOSE i \in I : \A j \in I : j <= i].value}

\* A table built from a non-empty stream has one cell per address up to
\* the largest one read, and each cell holds the last value written to its
\* address, or None (spec 3 and 4.1; duplicates resolved in stream order).
TableMatchesStream ==
    (pc = "done" /\ stream # << >>) =>
        /\ \E i \in DOMAIN stream :
             /\ Len(memory) = stream[i].address + 1
             /\ \A j \in DOMAIN stream : stream[j].address <= stream[i].address
        /\ \A a \in 0..(Len(memory) - 1) : memory[a + 1] = LastWrite(a)

\* The stream is malformed: it ends with a partial record, (in a build
\* that checks) holds a value outside the field, or names an address for
\* which no table of max_address + 1 cells can be allocated (usize::MAX
\* among them).
Malformed ==
    \/ truncated
    \/ debugBuild /\ \E i \in DOMAIN stream : stream[i].value >= Modulus
    \/ \E i \in DOMAIN stream : stream[i].address >= MaxCells

\* The reader panics exactly on malformed streams: a truncated record is
\* never silently ignored, an address too large for the table (usize::MAX
\* included) is refused in both builds (never turned into a wrapped, empty
\* table), and any other stream is accepted.
PanicsExactlyOnMalformed ==
    pc \in {"done", "panic"} => (pc = "panic" <=> Malformed)

\* Spec section 8: "MemoryReader on an empty byte stream yields an empty
\* table".
EmptyStreamEmptyTable ==
    (pc = "done" /\ stream = << >>) => memory = << >>

\* Spec 4.1: MemoryReader "enforces, per record, that the 256-bit value is
\* strictly less than the active field's modulus".
OutOfFieldRejected ==
    pc = "done" => \A i \in DOMAIN stream : stream[i].value < Modulus
-----------------------------------------------------------------------------
(* Refinement                                                              *)

\* The reader seen as the one-step MemoryTable: "reading" until it returns
\* (the table is memory) or panics.
Table == INSTANCE MemoryTable
    WITH state <- IF pc \in {"done", "panic"} THEN pc ELSE "reading",
         table <- IF pc = "done" THEN memory ELSE << >>

\* The reading loop, the allocation and the filling loop together take
\* exactly the one step MemoryTable allows: they panic only on a malformed
\* stream, and otherwise return the table of max_address + 1 cells holding
\* the last word of each address -- for the empty stream too.
ImplementsMemoryTable == Table!Spec
=============================================================================

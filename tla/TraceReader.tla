----------------------------- MODULE TraceReader -----------------------------
(***************************************************************************)
(* RegisterStates::from_reader (src/binary/src/lib.rs): reads bincode     *)
(* RegisterState records {ap, fp, pc} from a byte stream until            *)
(* has_data_left() is false.  The stream is a sequence of whole records,  *)
(* possibly followed by a truncated one (fewer bytes than a record).      *)
(***************************************************************************)
EXTENDS Naturals, Sequences

CONSTANTS
    State,       \* the register states a record can hold
    MaxRecords   \* the longest stream considered

ASSUME TraceConstantsAssumption == MaxRecords \in Nat

VARIABLES
    stream,      \* the whole records of the input
    truncated,   \* the input ends with a partial record
    pos,         \* the number of records consumed by the reader
    states,      \* register_states
    pc           \* "read", "done" or "panic"

vars == <<stream, truncated, pos, states, pc>>

\* Every stream of at most MaxRecords whole records, with or without a
\* trailing partial one.
Streams == UNION {[1..n -> State] : n \in 0..MaxRecords}

Init ==
    /\ stream \in Streams /\ truncated \in BOOLEAN
    /\ pos = 0 /\ states = << >> /\ pc = "read"

\* Data left and a whole record: bincode::deserialize_from succeeds and the
\* entry is pushed.
ReadRecord ==
    /\ pc = "read"
    /\ pos < Len(stream)
    /\ states' = Append(states, stream[pos + 1])
    /\ pos' = pos + 1
    /\ UNCHANGED <<stream, truncated, pc>>

\* Mutant: a failed deserialization yields a default entry and ends the loop.
ReadTruncatedDefault ==
    /\ pc = "read"
    /\ pos = Len(stream) /\ truncated
    /\ states' = Append(states, "default")
    /\ pc' = "done"
    /\ UNCHANGED <<stream, truncated, pos>>

\* Data left but less than a record: deserialize_from(..).unwrap() panics.
ReadTruncated ==
    /\ pc = "read"
    /\ pos = Len(stream) /\ truncated
    /\ pc' = "panic"
    /\ UNCHANGED <<stream, truncated, pos, states>>

\* Mutant: the loop stops when less than a whole record is left.
ReadEndIgnoresPartial ==
    /\ pc = "read"
    /\ pos = Len(stream)
    /\ pc' = "done"
    /\ UNCHANGED <<stream, truncated, pos, states>>

\* has_data_left() is false: the states read are returned.
ReadEnd ==
    /\ pc = "read"
    /\ pos = Len(stream) /\ ~truncated
    /\ pc' = "done"
    /\ UNCHANGED <<stream, truncated, pos, states>>

Next == ReadRecord \/ ReadTruncated \/ ReadEnd

Spec == Init /\ [][Next]_vars

-----------------------------------------------------------------------------
TypeOK ==
    /\ stream \in Streams /\ truncated \in BOOLEAN
    /\ pos \in 0..Len(stream) /\ states \in Seq(State)
    /\ pc \in {"read", "done", "panic"}

\* The reader returns exactly the records of the stream, in stream order,
\* and only when the stream holds no partial record (spec 4.1: a truncated
\* record is fatal and never silently ignored).
ReturnsWholeStream ==
    pc = "done" => states = stream /\ ~truncated
=============================================================================

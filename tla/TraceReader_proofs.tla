------------------------- MODULE TraceReader_proofs -------------------------
(***************************************************************************)
(* Proofs about TraceReader for every State and MaxRecords: the reader's  *)
(* type invariant, and that whenever it returns it returns the whole      *)
(* stream.                                                                 *)
(***************************************************************************)
EXTENDS TraceReader, SequenceTheorems, TLAPS

\* A stream is a finite sequence of register states.
LEMMA StreamsAreSeqs == Streams \subseteq Seq(State)
BY DEF Streams

-----------------------------------------------------------------------------
\* Every step of the reader preserves its type invariant.
LEMMA TypeStep == TypeOK /\ [Next]_vars => TypeOK'
<1> SUFFICES ASSUME TypeOK, [Next]_vars PROVE TypeOK'
  OBVIOUS
<1>1. stream \in Seq(State)
  BY StreamsAreSeqs DEF TypeOK
<1>2. CASE ReadRecord
  BY <1>1, <1>2 DEF ReadRecord, TypeOK
<1>3. CASE ReadTruncated
  BY <1>3 DEF ReadTruncated, TypeOK
<1>4. CASE ReadEnd
  BY <1>4 DEF ReadEnd, TypeOK
<1>5. CASE UNCHANGED vars
  BY <1>5 DEF vars, TypeOK
<1> QED
  BY <1>2, <1>3, <1>4, <1>5 DEF Next

\* The reader's type invariant (TypeOK) holds in every reachable state.
THEOREM TypeCorrect == Spec => []TypeOK
<1>1. Init => TypeOK
  BY StreamsAreSeqs DEF Init, TypeOK
<1> QED
  BY <1>1, TypeStep, PTL DEF Spec

-----------------------------------------------------------------------------
(* ReturnsWholeStream is not inductive: it speaks only of the final state. *)
(* The strengthening says that the states read are always the prefix of   *)
(* the stream up to pos, and that the reader stops only at the end of a   *)
(* stream with no partial record.                                          *)

IInv ==
    /\ TypeOK
    /\ states = SubSeq(stream, 1, pos)
    /\ pc = "done" => pos = Len(stream) /\ ~truncated

LEMMA InitIInv == Init => IInv
<1> SUFFICES ASSUME Init PROVE IInv
  OBVIOUS
<1>1. stream \in Seq(State)
  BY StreamsAreSeqs DEF Init
<1>2. SubSeq(stream, 1, 0) = << >>
  BY <1>1
<1> QED
  BY <1>1, <1>2, StreamsAreSeqs DEF Init, IInv, TypeOK

LEMMA NextIInv == IInv /\ [Next]_vars => IInv'
<1> SUFFICES ASSUME IInv, [Next]_vars PROVE IInv'
  OBVIOUS
<1>1. stream \in Seq(State) /\ pos \in 0..Len(stream)
  BY StreamsAreSeqs DEF IInv, TypeOK
<1>2. TypeOK'
  BY TypeStep DEF IInv
<1>3. CASE ReadRecord
  <2>1. Append(SubSeq(stream, 1, pos), stream[pos + 1]) = SubSeq(stream, 1, pos + 1)
    BY <1>1, <1>3 DEF ReadRecord
  <2> QED
    BY <1>2, <1>3, <2>1 DEF IInv, ReadRecord
<1>4. CASE ReadTruncated
  BY <1>2, <1>4 DEF IInv, ReadTruncated
<1>5. CASE ReadEnd
  BY <1>2, <1>5 DEF IInv, ReadEnd
<1>6. CASE UNCHANGED vars
  BY <1>2, <1>6 DEF IInv, vars
<1> QED
  BY <1>3, <1>4, <1>5, <1>6 DEF Next

\* RegisterStates::from_reader returns only at the end of a stream with no
\* partial record, and then returns exactly the stream's records in order
\* (ReturnsWholeStream), for every stream length and state set.
THEOREM WholeStreamReturned == Spec => []ReturnsWholeStream
<1>1. IInv => ReturnsWholeStream
  <2> SUFFICES ASSUME IInv, pc = "done" PROVE states = stream /\ ~truncated
    BY DEF ReturnsWholeStream
  <2>1. stream \in Seq(State)
    BY StreamsAreSeqs DEF IInv, TypeOK
  <2> QED
    BY <2>1 DEF IInv
<1> QED
  BY <1>1, InitIInv, NextIInv, PTL DEF Spec
====

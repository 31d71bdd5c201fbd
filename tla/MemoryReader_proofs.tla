------------------------ MODULE MemoryReader_proofs ------------------------
(***************************************************************************)
(* Proofs about MemoryReader for every address set, value set, modulus    *)
(* and record bound: the table that Memory::from_reader returns has one   *)
(* cell per address up to the largest one read, and each cell holds the   *)
(* last value written to it.                                              *)
(***************************************************************************)
EXTENDS MemoryReader, SequenceTheorems, TLAPS

\* A stream is a finite sequence of records.
LEMMA StreamsAreSeqs == Streams \subseteq Seq(Record)
BY DEF Streams

\* The value the first k records of s leave at address a: that of the last
\* of them naming a, or None.  LastWrite(a) is the case k = Len(stream).
WrittenUpTo(s, a, k) ==
    LET I == {i \in 1..k : s[i].address = a} IN
    IF I = {} THEN {}
    ELSE {s[CHOOSE i \in I : \A j \in I : j <= i].value}

\* Taking one more record changes only the cell it names.
LEMMA WrittenStep ==
    ASSUME NEW s \in Seq(Record), NEW k \in 0..(Len(s) - 1), NEW a
    PROVE  WrittenUpTo(s, a, k + 1) =
               IF s[k + 1].address = a THEN {s[k + 1].value}
                                       ELSE WrittenUpTo(s, a, k)
<1> DEFINE I == {i \in 1..k : s[i].address = a}
           J == {i \in 1..(k + 1) : s[i].address = a}
<1>1. CASE s[k + 1].address = a
  <2>1. k + 1 \in J /\ \A j \in J : j <= k + 1
    BY <1>1
  <2>2. \A c \in J : (\A j \in J : j <= c) => c = k + 1
    BY <2>1
  <2>3. (CHOOSE i \in J : \A j \in J : j <= i) = k + 1
    BY <2>1, <2>2
  <2> QED
    BY <1>1, <2>1, <2>3 DEF WrittenUpTo
<1>2. CASE s[k + 1].address # a
  <2>1. J = I
    BY <1>2
  <2> QED
    BY <1>2, <2>1 DEF WrittenUpTo
<1> QED
  BY <1>1, <1>2

\* A cell of the table: None or Some(v).
Cell == {{}} \cup {{v} : v \in Value}

\* Writing a cell of the table keeps it a table of the same length.
LEMMA CellUpdate ==
    ASSUME NEW m \in Seq(Cell), NEW i \in 1..Len(m), NEW c \in Cell
    PROVE  /\ [m EXCEPT ![i] = c] \in Seq(Cell)
           /\ Len([m EXCEPT ![i] = c]) = Len(m)
BY ExceptSeq

\* With no record taken, every cell is None.
LEMMA WrittenNone ==
    ASSUME NEW s, NEW a
    PROVE  WrittenUpTo(s, a, 0) = {}
BY DEF WrittenUpTo

\* Over the whole stream, WrittenUpTo is LastWrite.
LEMMA WrittenAll ==
    ASSUME stream \in Seq(Record), NEW a
    PROVE  WrittenUpTo(stream, a, Len(stream)) = LastWrite(a)
<1>1. {i \in DOMAIN stream : stream[i].address = a}
        = {i \in 1..Len(stream) : stream[i].address = a}
  OBVIOUS
<1> QED
  BY <1>1 DEF WrittenUpTo, LastWrite
-----------------------------------------------------------------------------
(* TableMatchesStream speaks only of the final table, so it is           *)
(* strengthened: partial_memory is the prefix of the stream read so far,  *)
(* max_address bounds every address read and is one of them (or 0), and  *)
(* once the table is allocated it has max_address + 1 cells, no more than *)
(* vec! can allocate, each holding what the first fillPos records leave   *)
(* at its address -- or, in a release build with max_address =          *)
(* usize::MAX, the wrapped empty table, which the first Fill step refuses. *)

IInv ==
    /\ TypeOK
    /\ partial = SubSeq(stream, 1, pos)
    /\ \A j \in 1..pos : stream[j].address <= maxAddress
    /\ pos = 0 => maxAddress = 0
    /\ pos > 0 => \E j \in 1..pos : stream[j].address = maxAddress
    /\ maxAddress < UsizeMax
    /\ pc \in {"fill", "done"} =>
         /\ pos = Len(stream)
         /\ ~truncated
         /\ \/ /\ Len(memory) = maxAddress + 1 /\ maxAddress + 1 < UsizeMax
               /\ maxAddress + 1 <= MaxCells
               /\ \A a \in 0..maxAddress :
                      memory[a + 1] = WrittenUpTo(stream, a, fillPos)
            \/ /\ pc = "fill" /\ memory = << >> /\ fillPos = 0
               /\ maxAddress + 1 = UsizeMax
    /\ pc = "read" => fillPos = 0
    /\ debugBuild /\ pc # "panic" => \A j \in 1..pos : stream[j].value < Modulus
    /\ pc = "done" => fillPos = Len(partial)

LEMMA InitIInv == Init => IInv
<1> SUFFICES ASSUME Init PROVE IInv
  OBVIOUS
<1>1. stream \in Seq(Record)
  BY StreamsAreSeqs DEF Init
<1> QED
  BY <1>1, MemoryConstantsAssumption DEF Init, IInv, TypeOK

LEMMA NextIInv == IInv /\ [Next]_vars => IInv'
<1> SUFFICES ASSUME IInv, [Next]_vars PROVE IInv'
  OBVIOUS
<1>1. /\ stream \in Seq(Record)
      /\ pos \in 0..Len(stream)
      /\ Address \subseteq Nat
      /\ maxAddress \in Nat
  BY StreamsAreSeqs, MemoryConstantsAssumption DEF IInv, TypeOK
<1>0. \A j \in 1..Len(stream) : stream[j].address \in Nat
  <2> TAKE j \in 1..Len(stream)
  <2>1. stream[j] \in Record
    BY <1>1
  <2> QED
    BY <1>1, <2>1 DEF Record
<1>2. CASE ReadRecord
  <2> DEFINE rec == stream[pos + 1]
  <2>1. pos + 1 \in 1..Len(stream) /\ pc = "read"
    BY <1>0, <1>1, <1>2 DEF ReadRecord, rec
  <2>2. rec \in Record
    BY <1>0, <1>1, <2>1 DEF rec
  <2>3. rec.address \in Nat
    BY <1>0, <1>1, <2>2 DEF Record, rec
  <2>4. /\ partial' = Append(partial, rec)
        /\ maxAddress' = IF rec.address > maxAddress THEN rec.address ELSE maxAddress
        /\ pos' = pos + 1
        /\ UNCHANGED <<stream, truncated, debugBuild, memory, fillPos, pc>>
    BY <1>2 DEF ReadRecord, rec
  <2>5. Append(SubSeq(stream, 1, pos), rec) = SubSeq(stream, 1, pos + 1)
    BY <1>0, <1>1, <2>1 DEF rec
  <2>6. TypeOK'
    BY <1>0, <1>1, <2>1, <2>2, <2>3, <2>4 DEF IInv, TypeOK, rec
  <2>7. \A j \in 1..(pos + 1) : stream[j].address <= maxAddress'
    BY <1>0, <1>1, <2>3, <2>4 DEF IInv, rec
  <2>8. \E j \in 1..(pos + 1) : stream[j].address = maxAddress'
    <3>1. CASE rec.address > maxAddress
      BY <1>0, <1>1, <2>4, <3>1 DEF rec
    <3>2. CASE ~(rec.address > maxAddress) /\ pos = 0
      BY <1>0, <1>1, <2>3, <2>4, <3>2 DEF IInv, rec
    <3>3. CASE ~(rec.address > maxAddress) /\ pos # 0
      <4>1. maxAddress' = maxAddress
        BY <2>4, <3>3
      <4>2. PICK j \in 1..pos : stream[j].address = maxAddress
        BY <1>1, <3>3 DEF IInv
      <4> QED
        BY <1>1, <4>1, <4>2
    <3> QED
      BY <3>1, <3>2, <3>3 DEF rec
  <2>9. maxAddress' < UsizeMax
    <3>1. rec.address < UsizeMax
      <4>1. rec.address \in Address
        BY <2>2 DEF Record
      <4>2. rec.address \in 0..(UsizeMax - 1) /\ UsizeMax \in Nat
        BY <4>1, MemoryConstantsAssumption
      <4> QED
        BY <4>2
    <3> QED
      BY <2>3, <2>4, <3>1 DEF IInv
  <2>10. debugBuild => rec.value < Modulus
    BY <1>2 DEF ReadRecord, rec
  <2>11. debugBuild /\ pc' # "panic" => \A j \in 1..(pos + 1) : stream[j].value < Modulus
    BY <1>1, <2>1, <2>4, <2>10 DEF IInv, rec
  <2>12. /\ partial' = SubSeq(stream', 1, pos')
         /\ \A j \in 1..pos' : stream'[j].address <= maxAddress'
         /\ pos' > 0 => \E j \in 1..pos' : stream'[j].address = maxAddress'
         /\ debugBuild' /\ pc' # "panic" => \A j \in 1..pos' : stream'[j].value < Modulus
    BY <2>4, <2>5, <2>7, <2>8, <2>11 DEF IInv
  <2>13. /\ pos' = 0 => maxAddress' = 0
         /\ pc' = "read" /\ fillPos' = 0
    BY <1>1, <2>1, <2>4 DEF IInv
  <2> QED
    BY <2>6, <2>9, <2>12, <2>13 DEF IInv
<1>3. CASE ReadOutOfField
  BY <1>3 DEF ReadOutOfField, IInv, TypeOK
<1>4. CASE ReadTruncated
  BY <1>4 DEF ReadTruncated, IInv, TypeOK
<1>9. maxAddress < UsizeMax /\ UsizeMax \in Nat
  BY MemoryConstantsAssumption DEF IInv
<1>5. CASE Allocate
  <2>1. pc = "read" /\ pos = Len(stream) /\ fillPos = 0 /\ ~truncated
    BY <1>5 DEF Allocate, IInv
  <2>2. UNCHANGED <<stream, truncated, debugBuild, pos, partial, maxAddress, fillPos>>
    BY <1>5 DEF Allocate
  <2>3. CASE debugBuild /\ maxAddress + 1 = UsizeMax /\ pc' = "panic" /\ UNCHANGED memory
    BY <2>2, <2>3 DEF IInv, TypeOK
  <2>5. CASE /\ ~(debugBuild /\ maxAddress + 1 = UsizeMax)
             /\ (maxAddress + 1) % UsizeMax > MaxCells
             /\ pc' = "panic" /\ UNCHANGED memory
    BY <2>2, <2>5 DEF IInv, TypeOK
  <2>4. CASE /\ ~(debugBuild /\ maxAddress + 1 = UsizeMax)
             /\ (maxAddress + 1) % UsizeMax <= MaxCells
             /\ memory' = [i \in 1..((maxAddress + 1) % UsizeMax) |-> {}]
             /\ pc' = "fill"
    <3>1. CASE maxAddress + 1 < UsizeMax
      <4>1. (maxAddress + 1) % UsizeMax = maxAddress + 1
        BY <1>1, <1>9, <3>1
      <4>4. maxAddress + 1 <= MaxCells
        BY <2>4, <4>1
      <4>2. /\ Len(memory') = maxAddress + 1
            /\ memory' \in Seq({{}} \cup {{v} : v \in Value})
        BY <1>1, <2>4, <4>1
      <4>3. \A a \in 0..maxAddress : memory'[a + 1] = WrittenUpTo(stream, a, fillPos')
        BY <1>1, <2>1, <2>2, <2>4, <4>1, WrittenNone
      <4> QED
        BY <2>1, <2>2, <2>4, <3>1, <4>2, <4>3, <4>4 DEF IInv, TypeOK
    <3>2. CASE maxAddress + 1 = UsizeMax
      <4>1. (maxAddress + 1) % UsizeMax = 0
        BY <1>1, <1>9, <3>2
      <4>2. memory' = << >>
        BY <2>4, <4>1
      <4> QED
        BY <2>1, <2>2, <2>4, <3>2, <4>2 DEF IInv, TypeOK
    <3> QED
      BY <1>1, <1>9, <3>1, <3>2
  <2> QED
    BY <1>5, <2>3, <2>4, <2>5 DEF Allocate
<1>6. CASE Fill
  <2>1. pc = "fill" /\ fillPos < Len(partial)
    BY <1>6 DEF Fill
  <2>2. pos = Len(stream) /\ partial = stream
    BY <1>0, <1>1, <2>1 DEF IInv
  <2> DEFINE rec == stream[fillPos + 1]
  <2>3. fillPos \in 0..(Len(stream) - 1) /\ rec \in Record
    BY <1>0, <1>1, <2>1, <2>2 DEF IInv, TypeOK, rec
  <2>4. fillPos + 1 \in 1..pos /\ rec.address \in Nat
    BY <1>0, <1>1, <2>2, <2>3 DEF Record, rec
  <2>5. rec.address \in 0..maxAddress
    BY <2>1, <2>4 DEF IInv, rec
  <2>10. CASE rec.address >= Len(memory)
    <3>1. pc' = "panic" /\ UNCHANGED <<memory, fillPos>>
      BY <1>1, <1>6, <2>2, <2>4, <2>10 DEF Fill, rec
    <3> QED
      BY <1>6, <3>1 DEF Fill, IInv, TypeOK
  <2>11. CASE rec.address < Len(memory)
    <3>0. Len(memory) = maxAddress + 1
      BY <1>1, <2>1, <2>4, <2>11 DEF IInv, rec
    <3>1. maxAddress + 1 < UsizeMax /\ maxAddress + 1 <= MaxCells /\ ~truncated
      BY <1>1, <2>1, <3>0, <1>9 DEF IInv
    <3>6. /\ memory' = [memory EXCEPT ![rec.address + 1] = {rec.value}]
          /\ fillPos' = fillPos + 1
          /\ UNCHANGED <<stream, truncated, debugBuild, pos, partial, maxAddress, pc>>
      BY <1>6, <1>1, <2>2, <2>4, <2>11 DEF Fill, rec
    <3>7. /\ memory' \in Seq({{}} \cup {{v} : v \in Value})
          /\ Len(memory') = Len(memory)
      <4>1. /\ memory \in Seq(Cell)
            /\ rec.address + 1 \in 1..Len(memory)
            /\ {rec.value} \in Cell
        BY <2>3, <2>5, <3>0 DEF IInv, TypeOK, Record, Cell
      <4> QED
        BY <3>6, <4>1, CellUpdate DEF Cell
    <3>9. TypeOK'
      <4>1. fillPos' \in 0..Len(partial')
        BY <2>1, <2>3, <3>6 DEF IInv, TypeOK
      <4> QED
        BY <4>1, <3>6, <3>7 DEF IInv, TypeOK
    <3>8. \A a \in 0..maxAddress : memory'[a + 1] = WrittenUpTo(stream, a, fillPos + 1)
      <4> TAKE a \in 0..maxAddress
      <4>1. WrittenUpTo(stream, a, fillPos + 1) =
              IF rec.address = a THEN {rec.value} ELSE WrittenUpTo(stream, a, fillPos)
        BY <1>0, <1>1, <2>3, WrittenStep DEF rec
      <4>2. memory[a + 1] = WrittenUpTo(stream, a, fillPos)
        BY <2>1, <3>0, <1>1 DEF IInv, rec
      <4> QED
        BY <1>0, <1>1, <3>0, <2>5, <3>6, <4>1, <4>2 DEF rec
    <3> QED
      BY <2>1, <2>2, <3>0, <3>1, <3>6, <3>7, <3>8, <3>9 DEF IInv
  <2> QED
    BY <1>1, <2>4, <2>10, <2>11 DEF rec
<1>7. CASE FillEnd
  <2>1. pc = "fill" /\ fillPos = Len(partial) /\ pc' = "done"
        /\ UNCHANGED <<stream, truncated, debugBuild, pos, partial, maxAddress, memory, fillPos>>
    BY <1>7 DEF FillEnd
  \* The wrapped, empty table is never finished: max_address = usize::MAX
  \* means a record was read, so a Fill step is still due.
  <2>2. ~(memory = << >> /\ fillPos = 0 /\ maxAddress + 1 = UsizeMax)
    <3> SUFFICES ASSUME fillPos = 0, maxAddress + 1 = UsizeMax PROVE FALSE
      OBVIOUS
    <3>0. maxAddress # 0
      BY MemoryConstantsAssumption
    <3>1. pos > 0
      BY <1>1, <3>0 DEF IInv
    <3>2. Len(partial) = pos
      BY <1>1, <3>1 DEF IInv
    <3> QED
      BY <2>1, <3>1, <3>2
  <2>3. /\ Len(memory) = maxAddress + 1 /\ maxAddress + 1 < UsizeMax
        /\ maxAddress + 1 <= MaxCells
        /\ \A a \in 0..maxAddress : memory[a + 1] = WrittenUpTo(stream, a, fillPos)
    BY <2>1, <2>2 DEF IInv
  <2> QED
    BY <2>1, <2>3 DEF IInv, TypeOK
<1>8. CASE UNCHANGED vars
  BY <1>8 DEF vars, IInv, TypeOK
<1> QED
  BY <1>2, <1>3, <1>4, <1>5, <1>6, <1>7, <1>8 DEF Next

\* Memory::from_reader returns a table with max_address + 1 cells, where
\* max_address is the largest address in the stream, and each cell holds
\* the value of the last record for its address, or None
\* (TableMatchesStream), for every stream length, address set and modulus.
THEOREM TableCorrect == Spec => []TableMatchesStream
<1>1. IInv => TableMatchesStream
  <2> SUFFICES ASSUME IInv, pc = "done", stream # << >>
               PROVE  TableMatchesStream
    BY DEF TableMatchesStream
  <2>0. Len(memory) = maxAddress + 1
    BY DEF IInv
  <2>1. stream \in Seq(Record) /\ pos = Len(stream) /\ fillPos = Len(stream)
        /\ Len(memory) = maxAddress + 1 /\ maxAddress \in Nat
    BY <2>0, StreamsAreSeqs DEF IInv, TypeOK
  <2>2. pos > 0
    BY <2>1, EmptySeq
  <2>5. \A j \in 1..Len(stream) : stream[j].address \in Nat
    <3> TAKE j \in 1..Len(stream)
    <3>1. stream[j] \in Record
      BY <2>1
    <3>2. Address \subseteq Nat
      BY MemoryConstantsAssumption
    <3> QED
      BY <3>1, <3>2 DEF Record
  <2>3. PICK i \in 1..pos : stream[i].address = maxAddress
    BY <2>2 DEF IInv
  <2>4. \A a \in 0..(Len(memory) - 1) : memory[a + 1] = LastWrite(a)
    BY <2>0, <2>1, WrittenAll DEF IInv
  <2>6. /\ i \in DOMAIN stream
        /\ Len(memory) = stream[i].address + 1
        /\ \A j \in DOMAIN stream : stream[j].address <= stream[i].address
    BY <2>1, <2>3, <2>5 DEF IInv
  <2> QED
    BY <2>4, <2>6 DEF TableMatchesStream
<1> QED
  BY <1>1, InitIInv, NextIInv, PTL DEF Spec

\* Every reachable state of Memory::from_reader is well typed (TypeOK):
\* the table is a sequence of None / Some(value) cells and the cursors stay
\* within the stream and partial_memory.
THEOREM TypeCorrect == Spec => []TypeOK
<1>1. IInv => TypeOK
  BY DEF IInv
<1> QED
  BY <1>1, InitIInv, NextIInv, PTL DEF Spec
-----------------------------------------------------------------------------
(* Refinement: the reader implements the one-step MemoryTable under the   *)
(* mapping of MemoryReader's Table instance.                               *)

\* MemoryTable's Malformed and LastWrite read only the input, as MemoryReader's.
LEMMA SameMalformed == Table!Malformed <=> Malformed
BY DEF Table!Malformed, Malformed

\* Once the whole stream is read, max_address is MemoryTable's TopAddress.
LEMMA TopIsMaxAddress ==
    ASSUME IInv, pos = Len(stream)
    PROVE  Table!TopAddress = maxAddress
<1> DEFINE N == {0} \cup {stream[i].address : i \in DOMAIN stream}
<1>1. stream \in Seq(Record) /\ maxAddress \in Nat /\ pos \in Nat
  BY StreamsAreSeqs DEF IInv, TypeOK
<1>0. \A i \in DOMAIN stream : stream[i].address \in Nat
  <2> TAKE i \in DOMAIN stream
  <2>1. stream[i] \in Record
    BY <1>1
  <2>2. Address \subseteq Nat
    BY MemoryConstantsAssumption
  <2> QED
    BY <2>1, <2>2 DEF Record
<1>2. \A x \in N : x \in Nat
  BY <1>0 DEF N
<1>3. maxAddress \in N
  <2>1. CASE pos = 0
    BY <2>1 DEF IInv, N
  <2>2. CASE pos # 0
    <3>1. PICK j \in 1..pos : stream[j].address = maxAddress
      BY <1>1, <2>2 DEF IInv
    <3> QED
      BY <1>1, <3>1 DEF N
  <2> QED
    BY <2>1, <2>2
<1>4. \A x \in N : x <= maxAddress
  BY <1>0, <1>1 DEF IInv, N
<1>5. \A m \in N : (\A x \in N : x <= m) => m = maxAddress
  <2> TAKE m \in N
  <2> HAVE \A x \in N : x <= m
  <2>1. maxAddress <= m /\ m <= maxAddress
    BY <1>3, <1>4
  <2>2. m \in Nat
    BY <1>2
  <2> QED
    BY <1>1, <2>1, <2>2
<1>6. (CHOOSE m \in N : \A x \in N : x <= m) = maxAddress
  BY <1>3, <1>4, <1>5 DEF N
<1> QED
  BY <1>6 DEF Table!TopAddress, Table!Named, N

\* Every step of the reader is a step of MemoryTable or leaves its state
\* and table alone.
LEMMA StepRefines ==
    IInv /\ [Next]_vars => [Table!Next]_Table!avars
<1> SUFFICES ASSUME IInv, [Next]_vars PROVE [Table!Next]_Table!avars
  OBVIOUS
<1>1. /\ stream \in Seq(Record) /\ pos \in 0..Len(stream)
      /\ maxAddress \in Nat /\ UsizeMax \in Nat /\ UsizeMax > 1
      /\ maxAddress < UsizeMax
  BY StreamsAreSeqs, MemoryConstantsAssumption DEF IInv, TypeOK
<1>0. \A i \in 1..Len(stream) : stream[i].address \in Nat
  <2> TAKE i \in 1..Len(stream)
  <2>1. stream[i] \in Record
    BY <1>1
  <2>2. Address \subseteq Nat
    BY MemoryConstantsAssumption
  <2> QED
    BY <2>1, <2>2 DEF Record
\* A step that keeps pc among "read" and "fill" is a stutter of MemoryTable.
<1>2. ASSUME pc \in {"read", "fill"}, pc' \in {"read", "fill"},
             UNCHANGED <<stream, truncated, debugBuild>>
      PROVE  UNCHANGED Table!avars
  BY <1>2 DEF Table!avars
\* A panic on a malformed stream is MemoryTable's Panic.
<1>3. (/\ pc \in {"read", "fill"} /\ pc' = "panic" /\ Malformed
       /\ UNCHANGED <<stream, truncated, debugBuild, memory>>) => Table!Panic
  BY SameMalformed DEF Table!Panic
\* A max_address whose table is too large is the address of a record.
<1>12. MaxCells \in 1..(UsizeMax - 1)
  BY MemoryConstantsAssumption
<1>4. ASSUME maxAddress + 1 > MaxCells PROVE Malformed
  <2>1. pos # 0
    BY <1>1, <1>4, <1>12 DEF IInv
  <2>2. PICK j \in 1..pos : stream[j].address = maxAddress
    BY <1>1, <2>1 DEF IInv
  <2> QED
    BY <1>1, <1>4, <1>12, <2>2 DEF Malformed
\* usize::MAX is such an address.
<1>13. ASSUME maxAddress + 1 = UsizeMax PROVE Malformed
  BY <1>1, <1>4, <1>12, <1>13
<1>5. CASE ReadRecord
  BY <1>2, <1>5 DEF ReadRecord
<1>6. CASE ReadOutOfField
  <2>1. Malformed
    BY <1>1, <1>6 DEF ReadOutOfField, Malformed
  <2>2. pc = "read" /\ pc' = "panic" /\ UNCHANGED <<stream, truncated, debugBuild, memory>>
    BY <1>6 DEF ReadOutOfField
  <2> QED
    BY <1>3, <2>1, <2>2 DEF Table!Next
<1>7. CASE ReadTruncated
  <2>1. Malformed
    BY <1>7 DEF ReadTruncated, Malformed
  <2>2. pc = "read" /\ pc' = "panic" /\ UNCHANGED <<stream, truncated, debugBuild, memory>>
    BY <1>7 DEF ReadTruncated
  <2> QED
    BY <1>3, <2>1, <2>2 DEF Table!Next
<1>8. CASE Allocate
  <2>1. CASE debugBuild /\ maxAddress + 1 = UsizeMax /\ pc' = "panic"
    <3>1. pc = "read" /\ UNCHANGED <<stream, truncated, debugBuild>>
      BY <1>8 DEF Allocate
    <3>2. UNCHANGED memory
      BY <1>8, <2>1 DEF Allocate
    <3>3. Malformed
      BY <1>13, <2>1
    <3> QED
      BY <1>3, <2>1, <3>1, <3>2, <3>3 DEF Table!Next
  \* capacity overflow: the table would be longer than MaxCells.
  <2>3. CASE ~(debugBuild /\ maxAddress + 1 = UsizeMax) /\ pc' = "panic"
    <3>1. pc = "read" /\ UNCHANGED <<stream, truncated, debugBuild, memory>>
      BY <1>8, <2>3 DEF Allocate
    <3>2. (maxAddress + 1) % UsizeMax > MaxCells
      BY <1>8, <2>3 DEF Allocate
    <3>3. maxAddress + 1 > MaxCells
      <4>1. CASE maxAddress + 1 < UsizeMax
        BY <1>1, <3>2, <4>1
      <4>2. CASE maxAddress + 1 = UsizeMax
        BY <1>1, <1>12, <4>2
      <4> QED
        BY <1>1, <4>1, <4>2
    <3> QED
      BY <1>3, <1>4, <2>3, <3>1, <3>3 DEF Table!Next
  <2>2. CASE ~(debugBuild /\ maxAddress + 1 = UsizeMax) /\ pc' = "fill"
    BY <1>2, <1>8, <2>2 DEF Allocate
  <2> QED
    BY <1>8, <2>1, <2>2, <2>3 DEF Allocate
<1>9. CASE Fill
  <2>1. pc = "fill" /\ pos = Len(stream) /\ partial = stream /\ fillPos < Len(stream)
    BY <1>1, <1>9 DEF Fill, IInv
  <2>2. UNCHANGED <<stream, truncated, debugBuild>>
    BY <1>9 DEF Fill
  <2>3. CASE pc' = "panic"
    <3>1. stream[fillPos + 1].address \in 0..maxAddress
      BY <1>0, <1>1, <2>1 DEF IInv, TypeOK
    <3>2. stream[fillPos + 1].address >= Len(memory)
      BY <1>9, <2>1, <2>3 DEF Fill
    <3>3. maxAddress + 1 = UsizeMax
      BY <1>1, <2>1, <3>1, <3>2 DEF IInv
    <3>4. UNCHANGED memory
      BY <1>9, <2>1, <2>3 DEF Fill
    <3>5. Malformed
      BY <1>13, <3>3
    <3> QED
      BY <1>3, <2>1, <2>2, <2>3, <3>4, <3>5 DEF Table!Next
  <2>4. CASE pc' # "panic"
    BY <1>2, <1>9, <2>1, <2>2, <2>4 DEF Fill
  <2> QED
    BY <2>3, <2>4
<1>10. CASE FillEnd
  <2>1. /\ pc = "fill" /\ pc' = "done" /\ memory' = memory
        /\ UNCHANGED <<stream, truncated, debugBuild>>
        /\ fillPos = Len(stream) /\ pos = Len(stream)
    BY <1>1, <1>10 DEF FillEnd, IInv
  <2>2. /\ Len(memory) = maxAddress + 1 /\ maxAddress + 1 < UsizeMax
        /\ maxAddress + 1 <= MaxCells
        /\ ~truncated
        /\ \A a \in 0..maxAddress : memory[a + 1] = WrittenUpTo(stream, a, fillPos)
    <3>1. ~(fillPos = 0 /\ maxAddress + 1 = UsizeMax)
      BY <1>1, <1>13, <2>1 DEF Malformed, IInv
    <3> QED
      BY <2>1, <3>1 DEF IInv
  <2>3. ~Malformed
    <3>1. \A i \in DOMAIN stream : stream[i].address < MaxCells
      BY <1>0, <1>1, <1>12, <2>1, <2>2 DEF IInv
    <3>2. debugBuild => \A i \in DOMAIN stream : stream[i].value < Modulus
      BY <1>1, <2>1 DEF IInv
    <3>3. ~\E i \in DOMAIN stream : stream[i].address >= MaxCells
      BY <1>0, <1>1, <1>12, <3>1
    <3>4. ~(debugBuild /\ \E i \in DOMAIN stream : stream[i].value >= Modulus)
      <4>1. \A i \in DOMAIN stream : stream[i].value \in Nat
        <5> TAKE i \in DOMAIN stream
        <5>1. stream[i] \in Record
          BY <1>1
        <5> QED
          BY <5>1, MemoryConstantsAssumption DEF Record
      <4> QED
        BY <3>2, <4>1, MemoryConstantsAssumption
    <3> QED
      BY <2>2, <3>3, <3>4 DEF Malformed
  <2>4. memory = [i \in 1..(maxAddress + 1) |-> LastWrite(i - 1)]
    <3>1. memory \in Seq(Cell)
      BY DEF IInv, TypeOK, Cell
    <3>2. \A i \in 1..(maxAddress + 1) : memory[i] = LastWrite(i - 1)
      BY <1>1, <2>1, <2>2, WrittenAll
    <3> QED
      BY <1>1, <2>2, <3>1, <3>2
  <2>5. Table!TopAddress = maxAddress
    BY <2>1, TopIsMaxAddress
  <2>6. \A a : Table!LastWrite(a) = LastWrite(a)
    BY DEF Table!LastWrite, LastWrite
  <2>7. Table!Return
    BY <2>1, <2>3, <2>4, <2>5, <2>6, SameMalformed DEF Table!Return
  <2> QED
    BY <2>7 DEF Table!Next
<1>11. CASE UNCHANGED vars
  BY <1>11 DEF vars, Table!avars
<1> QED
  BY <1>5, <1>6, <1>7, <1>8, <1>9, <1>10, <1>11 DEF Next, Table!Next

\* Memory::from_reader implements MemoryTable (ImplementsMemoryTable): it
\* panics only on a malformed stream, and otherwise returns exactly the
\* table of the last word of each address up to the largest one, for every
\* address set, usize width, value set, modulus and record bound.
THEOREM Refinement == Spec => ImplementsMemoryTable
<1>1. Init => Table!Init
  BY DEF Init, Table!Init, Streams, Table!Streams, Record, Table!Record
<1>2. IInv /\ [Next]_vars => [Table!Next]_Table!avars
  BY StepRefines
<1> QED
  BY <1>1, <1>2, InitIInv, NextIInv, PTL DEF Spec, ImplementsMemoryTable, Table!Spec
-----------------------------------------------------------------------------
(* Panics exactly on malformed input, through the refinement: MemoryTable  *)
(* panics only when Malformed and returns only when not, and a step of the *)
(* reader is a step of MemoryTable, so the reader inherits both.           *)

\* MemoryTable's state under the Table mapping.
AbsState == IF pc \in {"done", "panic"} THEN pc ELSE "reading"

\* PanicsExactlyOnMalformed, read through the Table mapping.
AbsPanics ==
    AbsState \in {"done", "panic"} =>
        (AbsState = "panic" <=> Table!Malformed)

LEMMA PanicsViaTable == AbsPanics <=> PanicsExactlyOnMalformed
BY SameMalformed DEF AbsPanics, AbsState, PanicsExactlyOnMalformed

\* No step of MemoryTable breaks AbsPanics: Return needs ~Malformed, Panic
\* needs Malformed, and neither changes the input Malformed reads.
LEMMA AbsPanicsStep == AbsPanics /\ [Table!Next]_Table!avars => AbsPanics'
<1> SUFFICES ASSUME AbsPanics, [Table!Next]_Table!avars PROVE AbsPanics'
  OBVIOUS
<1>1. CASE Table!Return
  <2>1. pc' = "done" /\ Table!Malformed' = Table!Malformed /\ ~Table!Malformed
    BY <1>1 DEF Table!Return, Table!Malformed
  <2> QED
    BY <2>1 DEF AbsPanics, AbsState
<1>2. CASE Table!Panic
  <2>1. pc' = "panic" /\ Table!Malformed' = Table!Malformed /\ Table!Malformed
    BY <1>2 DEF Table!Panic, Table!Malformed
  <2> QED
    BY <2>1 DEF AbsPanics, AbsState
<1>3. CASE UNCHANGED Table!avars
  <2>1. AbsState' = AbsState /\ Table!Malformed' = Table!Malformed
    BY <1>3 DEF Table!avars, Table!Malformed, AbsState
  <2> QED
    BY <2>1 DEF AbsPanics
<1> QED
  BY <1>1, <1>2, <1>3 DEF Table!Next

\* Memory::from_reader panics exactly on a malformed stream
\* (PanicsExactlyOnMalformed): a truncated last record, a word outside the
\* field in a debug build or an address of usize::MAX always ends in a
\* panic, in either build, and a well-formed stream always yields a table,
\* for every address set, usize width, value set, modulus and record bound.
THEOREM PanicsCorrect == Spec => []PanicsExactlyOnMalformed
<1>1. Init => AbsPanics
  BY DEF Init, AbsPanics, AbsState
<1>2. IInv /\ AbsPanics /\ [Next]_vars => AbsPanics'
  BY StepRefines, AbsPanicsStep
<1>3. AbsPanics => PanicsExactlyOnMalformed
  BY PanicsViaTable
<1> QED
  BY <1>1, <1>2, <1>3, InitIInv, NextIInv, PTL DEF Spec
====

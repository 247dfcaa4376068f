-------------------------- MODULE FuzzBuffersProofs --------------------------
(***************************************************************************)
(* Proofs about FuzzBuffers, in three layers: Shape (types, null pointers  *)
(* and the owner of each buffer), Written (who holds bytes and who holds   *)
(* what malloc left), Whole (lengths, presence and contents).  Each layer  *)
(* is inductive given those before it.                                     *)
(***************************************************************************)
EXTENDS FuzzBuffers, SequenceTheorems, TLAPS

\* A loop of normalizeOutputSize has a buffer to copy from, and every loop one to
\* copy to.
Pointers ==
    /\ pc = "normalize" => src # "input" /\ heap[src] # Null
    /\ pc = "fill" => heap[Dst] # Null /\ (src # "input" => heap[src] # Null)

\* Where the thread is when a buffer of its own is allocated.
Owned ==
    /\ heap["temp"] # Null => pc \in {"normalize", "fill"} /\ src = "temp"
    /\ heap["combined"] # Null => pc \in {"normalize", "fill"} /\ src = "combined"
    /\ heap["first"] # Null => \/ pc = "expand"
                               \/ pc = "normalize" /\ src = "first"
                               \/ pc = "fill" /\ src \in {"temp", "first"}
    /\ heap["fuzz1"] # Null \/ heap["fuzz2"] # Null =>
           /\ pc \notin {"idle", "copy"}
           /\ ~(pc \in {"normalize", "fill"} /\ src = "combined")

Shape == TypeOK /\ Pointers /\ Owned

Blocks == Seq(Byte \cup {Junk})

\* A buffer fresh from malloc has the length asked for.
LEMMA FreshType ==
    ASSUME NEW n \in Nat
    PROVE  Fresh(n) \in Blocks /\ Len(Fresh(n)) = n
BY DEF Fresh, Blocks

\* normalizeOutputSize returns a length between the minimum and the maximum.
LEMMA ClampType ==
    ASSUME NEW n \in Nat
    PROVE  Clamp(n) \in Nat \ {0}
BY BuffersAssumption DEF Clamp

\* The null pointer is not a buffer.
LEMMA NotNull == ASSUME NEW s \in Blocks PROVE s # Null
BY BuffersAssumption DEF Blocks

\* A buffer of bytes is a buffer.
LEMMA ByteSeq == ASSUME NEW s \in Seq(Byte) PROVE s \in Blocks
BY DEF Blocks

\* The message of a call is a sequence of bytes.
LEMMA InputType == ASSUME TypeOK PROVE input \in Seq(Byte) /\ input \in Blocks /\ input # Null
<1>1. input \in Seq(Byte)
    BY BuffersAssumption, EmptySeq DEF TypeOK
<1> QED BY <1>1, ByteSeq, NotNull

\* What the heap may hold after one or two assignments.
LEMMA HeapType ==
    ASSUME TypeOK, NEW b \in Buffers, NEW c \in Buffers,
           NEW s \in Blocks \cup {Null}, NEW t \in Blocks \cup {Null}
    PROVE  /\ [heap EXCEPT ![b] = s] \in [Buffers -> Blocks \cup {Null}]
           /\ [heap EXCEPT ![b] = s, ![c] = t] \in [Buffers -> Blocks \cup {Null}]
BY DEF TypeOK, Blocks

\* A loop of normalizeOutputSize knows its source and its destination.
LEMMA Places ==
    ASSUME TypeOK, Pointers
    PROVE  /\ Dst \in Buffers /\ Dst # src /\ Fuzz \in Buffers
           /\ AfterFill \in {"expand", "idle", "again", "combine"}
           /\ AfterFuzz \in {"again", "combine"}
           /\ pc = "normalize" => src \in Buffers /\ heap[src] \in Blocks /\ heap[src] # Null
           /\ pc = "fill" => /\ heap[Dst] \in Blocks /\ heap[Dst] # Null
                             /\ Source \in Blocks
                             /\ src # "input" => src \in Buffers /\ heap[src] # Null
<1>1. Dst \in Buffers /\ Dst # src /\ Fuzz \in Buffers
    BY DEF Dst, Fuzz, Buffers, TypeOK
<1>2. AfterFill \in {"expand", "idle", "again", "combine"} /\ AfterFuzz \in {"again", "combine"}
    BY DEF AfterFill, AfterFuzz
<1>3. src # "input" => src \in Buffers
    BY DEF TypeOK, Buffers
<1>4. pc = "normalize" => src \in Buffers /\ heap[src] \in Blocks /\ heap[src] # Null
    BY <1>3 DEF TypeOK, Pointers, Blocks
<1>5. pc = "fill" => /\ heap[Dst] \in Blocks /\ heap[Dst] # Null
                     /\ Source \in Blocks
                     /\ src # "input" => src \in Buffers /\ heap[src] # Null
    BY <1>1, <1>3, InputType DEF TypeOK, Pointers, Source, Blocks
<1> QED BY <1>1, <1>2, <1>4, <1>5

\* Nothing is allocated at the start.
LEMMA ShapeInit == Init => Shape
<1> SUFFICES ASSUME Init PROVE Shape
    OBVIOUS
<1>1. TypeOK
    BY DEF Init, TypeOK, Ops, Buffers
<1>2. Pointers /\ Owned
    BY DEF Init, Pointers, Owned, Buffers
<1> QED BY <1>1, <1>2 DEF Shape

\* Every step leaves types, pointers and owners in order.
LEMMA ShapeNext == Shape /\ [Next]_vars => Shape'
<1> SUFFICES ASSUME Shape, [Next]_vars PROVE Shape'
    OBVIOUS
<1>0. TypeOK /\ Pointers /\ Owned
    BY DEF Shape
<1>1. CASE Call
  <2>1. TypeOK'
    BY <1>0, <1>1, HeapType DEF Call, Goto, TypeOK, Buffers, Blocks
  <2>2. Pointers' /\ Owned'
    BY <1>0, <1>1 DEF Call, Goto, Pointers, Owned, TypeOK, Buffers
  <2> QED BY <2>1, <2>2 DEF Shape
<1>2. CASE Copy
  <2>1. PICK s \in Blocks : heap' = [heap EXCEPT !["result"] = s] \/ heap' = heap
    <3>1. Len(input) \in Nat /\ Clamp(Len(input)) \in Nat
      BY <1>0, InputType, ClampType
    <3>2. \A i \in 1..Clamp(Len(input)) : (IF i <= Len(input) THEN input[i] ELSE Zero) \in Byte
      BY <1>0, InputType, <3>1, BuffersAssumption
    <3>3. [i \in 1..Clamp(Len(input)) |-> IF i <= Len(input) THEN input[i] ELSE Zero] \in Blocks
      BY <3>1, <3>2, ByteSeq
    <3> QED BY <1>0, <1>2, <3>3, InputType DEF Copy
  <2>2. TypeOK'
    <3>1. heap' \in [Buffers -> Blocks \cup {Null}]
      BY <1>0, <2>1, HeapType DEF Buffers, TypeOK, Blocks
    <3>2. mallocFailed' \in BOOLEAN
      BY <1>0, <1>2 DEF Copy, TypeOK
    <3> QED BY <1>0, <1>2, <3>1, <3>2 DEF Copy, Goto, TypeOK, Blocks
  <2>3. Pointers' /\ Owned'
    BY <1>0, <1>2, <2>1 DEF Copy, Goto, Pointers, Owned, TypeOK, Buffers
  <2> QED BY <2>2, <2>3 DEF Shape
<1>3. CASE Radamsa
  <2>1. CASE pc' = "normalize"
    <3>1. PICK o \in Blocks : heap' = [heap EXCEPT !["temp"] = o]
      BY <1>3, <2>1, BuffersAssumption, ByteSeq DEF Radamsa, Goto
    <3>2. TypeOK'
      BY <1>0, <1>3, <2>1, <3>1, HeapType DEF Radamsa, Goto, TypeOK, Buffers, Blocks
    <3>3. Pointers' /\ Owned'
      BY <1>0, <1>3, <2>1, <3>1, NotNull DEF Radamsa, Goto, Pointers, Owned, TypeOK, Buffers
    <3> QED BY <3>2, <3>3 DEF Shape
  <2>2. CASE pc' \in {"expand", "stuck"}
    BY <1>0, <1>3, <2>2 DEF Radamsa, Goto, Shape, Pointers, Owned, TypeOK
  <2> QED BY <1>3, <2>1, <2>2 DEF Radamsa, Goto
<1>4. CASE Normalize
  <2> DEFINE n == Clamp(Len(heap[src]))
  <2>0. pc = "normalize"
    BY <1>4 DEF Normalize, Goto
  <2>1. Fresh(n) \in Blocks /\ Fresh(n) # Null
    BY <1>0, <2>0, Places, ClampType, FreshType, NotNull
  <2> HIDE DEF n
  <2>2. CASE pc' = "fill" /\ heap' = [heap EXCEPT ![Dst] = Fresh(n)] /\ copied' = 0
             /\ mallocFailed' = mallocFailed
    <3>1. TypeOK'
      <4>1. heap' \in [Buffers -> Blocks \cup {Null}]
        BY <1>0, <2>1, <2>2, HeapType, Places
      <4> QED BY <1>0, <1>4, <2>2, <4>1 DEF Normalize, TypeOK, Blocks
    <3>2. Dst' = Dst
      BY <1>4 DEF Normalize, Dst, Fuzz
    <3>3. heap'[Dst] = Fresh(n) /\ (src # "input" => heap'[src] = heap[src])
      BY <1>0, <2>2, Places DEF TypeOK
    <3>4. Pointers'
      BY <1>0, <1>4, <2>0, <2>1, <2>2, <3>2, <3>3, Places DEF Normalize, Pointers
    <3>5. Owned'
      BY <1>0, <1>4, <2>0, <2>2 DEF Normalize, Pointers, Owned, TypeOK, Buffers, Dst, Fuzz
    <3> QED BY <3>1, <3>4, <3>5 DEF Shape
  <2>3. CASE pc' = AfterFill /\ heap' = [heap EXCEPT ![src] = Null] /\ mallocFailed' = TRUE
             /\ copied' = copied
    <3>1. TypeOK'
      <4>1. heap' \in [Buffers -> Blocks \cup {Null}]
        BY <1>0, <2>0, <2>3, HeapType, Places
      <4> QED BY <1>0, <1>4, <2>3, <4>1, Places DEF Normalize, TypeOK, Blocks
    <3>2. Pointers'
      BY <1>0, <2>3, Places DEF Pointers
    <3>3. Owned'
      BY <1>0, <1>4, <2>0, <2>3 DEF Normalize, Pointers, Owned, TypeOK, Buffers, AfterFill, AfterFuzz
    <3> QED BY <3>1, <3>2, <3>3 DEF Shape
  <2> QED BY <1>4, <2>2, <2>3 DEF Normalize, Goto, n
<1>5. CASE Fill
  <2> DEFINE s == [i \in DOMAIN heap[Dst] |->
                     IF copied < i /\ i <= copied + CopyLength
                     THEN Source[i - copied] ELSE heap[Dst][i]]
  <2>0. pc = "fill" /\ copied < Len(heap[Dst]) /\ copied \in Nat
    BY <1>0, <1>5 DEF Fill, TypeOK
  <2>1. heap[Dst] \in Blocks /\ Source \in Blocks /\ Dst \in Buffers
    BY <1>0, <2>0, Places
  <2>2. CopyLength \in Nat /\ CopyLength <= Len(Source)
    BY <2>0, <2>1 DEF CopyLength, Blocks
  <2>3. s \in Blocks /\ s # Null
    <3>1. \A i \in 1..Len(heap[Dst]) :
             (IF copied < i /\ i <= copied + CopyLength
              THEN Source[i - copied] ELSE heap[Dst][i]) \in Byte \cup {Junk}
      BY <2>0, <2>1, <2>2 DEF Blocks
    <3>2. s \in Blocks
      BY <2>1, <3>1 DEF Blocks
    <3> QED BY <3>2, NotNull
  <2>4. heap' = [heap EXCEPT ![Dst] = s]
    BY <1>0, <1>5, <2>1 DEF Fill, TypeOK
  <2>4a. copied' = copied + CopyLength
    BY <1>5 DEF Fill
  <2> HIDE DEF s
  <2>5. TypeOK'
    <3>1. heap' \in [Buffers -> Blocks \cup {Null}]
      BY <1>0, <2>1, <2>3, <2>4, HeapType
    <3> QED BY <1>0, <1>5, <2>0, <2>2, <2>4a, <3>1 DEF Fill, TypeOK, Blocks
  <2>6. Dst' = Dst
    BY <1>5 DEF Fill, Dst, Fuzz
  <2>7. heap'[Dst] = s /\ \A b \in Buffers : b # Dst => heap'[b] = heap[b]
    BY <1>0, <2>1, <2>4 DEF TypeOK
  <2>8. Pointers'
    BY <1>0, <1>5, <2>0, <2>3, <2>6, <2>7, Places DEF Fill, Pointers
  <2>9. \A b \in Buffers : heap'[b] # Null => heap[b] # Null
    BY <1>0, <2>0, <2>7, Places
  <2>10. Owned'
    BY <1>0, <1>5, <2>9 DEF Fill, Owned, Buffers
  <2> QED BY <2>5, <2>8, <2>10 DEF Shape
<1>6. CASE FillEnd
  <2>0. pc = "fill" /\ pc' = AfterFill
    BY <1>6 DEF FillEnd, Goto
  <2>1. TypeOK'
    <3>1. heap' \in [Buffers -> Blocks \cup {Null}]
      BY <1>0, <1>6, <2>0, Places, HeapType DEF FillEnd, TypeOK, Blocks
    <3> QED BY <1>0, <1>6, <2>0, <3>1, Places DEF FillEnd, TypeOK, Blocks
  <2>2. Pointers'
    BY <1>0, <2>0, Places DEF Pointers
  <2>3. Owned'
    BY <1>0, <1>6, <2>0 DEF FillEnd, Owned, TypeOK, Buffers, AfterFill, AfterFuzz
  <2> QED BY <2>1, <2>2, <2>3 DEF Shape
<1>7. CASE Expand
  <2> DEFINE first == IF heap["first"] = Null THEN <<>> ELSE heap["first"]
             s     == first \o Fresh(MinOutput - Len(first))
  <2>0. pc = "expand" /\ first \in Blocks
    BY <1>0, <1>7, EmptySeq DEF Expand, Goto, TypeOK, Blocks, Buffers
  <2>1. CASE Len(first) >= MinOutput /\ pc' = "normalize" /\ src' = "first" /\ heap' = heap
             /\ copied' = copied /\ mallocFailed' = mallocFailed
    <3>1. heap["first"] # Null
      BY <2>1, BuffersAssumption, EmptySeq
    <3> QED BY <1>0, <1>7, <2>0, <2>1, <3>1 DEF Expand, Shape, Pointers, Owned, TypeOK
  <2>2. CASE /\ Len(first) < MinOutput /\ pc' = "fill" /\ src' = "input"
             /\ heap' = [heap EXCEPT !["first"] = Null, ![Fuzz] = s]
             /\ copied' = Len(first) /\ mallocFailed' = mallocFailed
    <3>1. s \in Blocks /\ s # Null
      <4>1. MinOutput - Len(first) \in Nat
        BY <2>0, <2>2, BuffersAssumption DEF Blocks
      <4>2. Fresh(MinOutput - Len(first)) \in Blocks
        BY <4>1, FreshType
      <4>3. s \in Blocks
        BY <2>0, <4>2 DEF Blocks
      <4> QED BY <4>3, NotNull
    <3>2. Len(first) \in Nat
      BY <2>0 DEF Blocks
    <3> HIDE DEF s, first
    <3>3. TypeOK'
      <4>1. heap' \in [Buffers -> Blocks \cup {Null}]
        BY <1>0, <2>2, <3>1, Places, HeapType DEF Buffers
      <4> QED BY <1>0, <1>7, <2>2, <3>2, <4>1 DEF Expand, TypeOK, Blocks
    <3>4. heap'[Fuzz] = s /\ Dst' = Fuzz
      BY <1>0, <1>7, <2>2, Places DEF Expand, TypeOK, Dst, Fuzz
    <3>5. Pointers'
      BY <2>2, <3>1, <3>4 DEF Pointers
    <3>6. Owned'
      BY <1>0, <2>0, <2>2 DEF Owned, Fuzz, Buffers, TypeOK
    <3> QED BY <3>3, <3>5, <3>6 DEF Shape
  <2>3. CASE /\ pc' = AfterFuzz /\ heap' = [heap EXCEPT !["first"] = Null]
             /\ mallocFailed' = TRUE /\ src' = src /\ copied' = copied
    <3>1. TypeOK'
      <4>1. heap' \in [Buffers -> Blocks \cup {Null}]
        BY <1>0, <2>3, HeapType DEF Buffers
      <4> QED BY <1>0, <1>7, <2>3, <4>1, Places DEF Expand, TypeOK, Blocks
    <3>2. Pointers'
      BY <1>0, <2>3, Places DEF Pointers
    <3>3. Owned'
      BY <1>0, <2>0, <2>3 DEF Owned, TypeOK, Buffers, AfterFuzz
    <3> QED BY <3>1, <3>2, <3>3 DEF Shape
  <2> QED BY <1>7, <2>1, <2>2, <2>3 DEF Expand, Goto
<1>8. CASE Again
    BY <1>0, <1>8 DEF Again, Goto, Shape, TypeOK, Pointers, Owned, Buffers
<1>9. CASE Combine
  <2>0. pc = "combine"
    BY <1>9 DEF Combine, Goto
  <2>1. CASE /\ pc' = "normalize" /\ src' = "combined" /\ mallocFailed' = mallocFailed
             /\ heap' = [heap EXCEPT !["fuzz1"] = Null, !["fuzz2"] = Null,
                                     !["combined"] = Concatenation]
    <3>1. Concatenation \in Blocks /\ Concatenation # Null
      <4>1. OrEmpty("fuzz1") \in Blocks /\ OrEmpty("fuzz2") \in Blocks
        BY <1>0, EmptySeq DEF OrEmpty, TypeOK, Blocks, Buffers
      <4>2. Concatenation \in Blocks
        BY <1>0, <4>1, InputType DEF Concatenation, Blocks
      <4> QED BY <4>2, NotNull
    <3>2. TypeOK'
      BY <1>0, <1>9, <2>1, <3>1 DEF Combine, TypeOK, Blocks, Buffers
    <3>3. Pointers' /\ Owned'
      BY <1>0, <2>0, <2>1, <3>1 DEF Pointers, Owned, TypeOK, Buffers
    <3> QED BY <3>2, <3>3 DEF Shape
  <2>2. CASE /\ pc' = "idle" /\ heap["fuzz1"] = Null /\ heap["fuzz2"] = Null
             /\ heap' = [heap EXCEPT !["result"] = input]
             /\ src' = src /\ mallocFailed' = mallocFailed
    <3>1. heap' \in [Buffers -> Blocks \cup {Null}]
      BY <1>0, <2>2, HeapType, InputType DEF Buffers
    <3>2. TypeOK'
      BY <1>0, <1>9, <2>2, <3>1 DEF Combine, TypeOK, Blocks
    <3>3. Pointers' /\ Owned'
      BY <1>0, <2>0, <2>2 DEF Pointers, Owned, TypeOK, Buffers
    <3> QED BY <3>2, <3>3 DEF Shape
  <2>3. CASE /\ pc' = "idle" /\ mallocFailed' = TRUE /\ src' = src
             /\ heap' = [heap EXCEPT !["fuzz1"] = Null, !["fuzz2"] = Null]
    <3>1. heap' \in [Buffers -> Blocks \cup {Null}]
      BY <1>0, <2>3, HeapType DEF Buffers
    <3>2. TypeOK'
      BY <1>0, <1>9, <2>3, <3>1 DEF Combine, TypeOK, Blocks
    <3>3. Pointers' /\ Owned'
      BY <1>0, <2>0, <2>3 DEF Pointers, Owned, TypeOK, Buffers
    <3> QED BY <3>2, <3>3 DEF Shape
  <2> QED BY <1>9, <2>1, <2>2, <2>3 DEF Combine, Goto
<1>10. CASE UNCHANGED vars
    BY <1>0, <1>10 DEF vars, Shape, TypeOK, Pointers, Owned, Dst, Fuzz
<1> QED BY <1>1, <1>2, <1>3, <1>4, <1>5, <1>6, <1>7, <1>8, <1>9, <1>10 DEF Next, Step

-----------------------------------------------------------------------------
\* Only the buffer that a loop is filling holds what malloc left there, behind
\* what the loop has copied.
Written ==
    /\ \A b \in Buffers : heap[b] \in Seq(Byte) \/ heap[b] = Null \/ (pc = "fill" /\ b = Dst)
    /\ pc = "fill" => /\ copied <= Len(heap[Dst])
                      /\ \A i \in 1..copied : heap[Dst][i] \in Byte

\* What a call copies into a result of its own is a sequence of bytes.
LEMMA PaddedType ==
    ASSUME TypeOK
    PROVE  [i \in 1..Clamp(Len(input)) |-> IF i <= Len(input) THEN input[i] ELSE Zero] \in Seq(Byte)
<1>1. Len(input) \in Nat /\ Clamp(Len(input)) \in Nat
    BY InputType, ClampType
<1>2. \A i \in 1..Clamp(Len(input)) : (IF i <= Len(input) THEN input[i] ELSE Zero) \in Byte
    BY InputType, <1>1, BuffersAssumption
<1> QED BY <1>1, <1>2

\* No step reads what malloc left in a buffer.
LEMMA WrittenNext == Shape /\ Written /\ [Next]_vars => Written'
<1> SUFFICES ASSUME Shape, Written, [Next]_vars PROVE Written'
    OBVIOUS
<1>0. TypeOK /\ Pointers /\ Owned
    BY DEF Shape
<1>1. CASE Call
    BY <1>0, <1>1 DEF Call, Goto, Written, TypeOK
<1>2. CASE Copy
    BY <1>0, <1>2, InputType, PaddedType DEF Copy, Goto, Written, TypeOK
<1>3. CASE Radamsa
    BY <1>0, <1>3, BuffersAssumption DEF Radamsa, Goto, Written, TypeOK
<1>4. CASE Normalize
  <2>0. pc = "normalize" /\ Dst' = Dst /\ Dst \in Buffers /\ src \in Buffers
    BY <1>0, <1>4, Places DEF Normalize, Goto, Dst, Fuzz
  <2>1. CASE pc' = "fill" /\ copied' = 0
             /\ heap' = [heap EXCEPT ![Dst] = Fresh(Clamp(Len(heap[src])))]
    <3>1. heap'[Dst] = Fresh(Clamp(Len(heap[src])))
      BY <1>0, <2>0, <2>1 DEF TypeOK
    <3>2. Len(heap'[Dst]) \in Nat
      <4>1. Len(heap[src]) \in Nat
        BY <1>0, <2>0, Places DEF Blocks
      <4> QED BY <3>1, <4>1, ClampType, FreshType
    <3>3. \A b \in Buffers : b # Dst => heap'[b] = heap[b]
      BY <1>0, <2>1 DEF TypeOK
    <3> QED BY <2>0, <2>1, <3>2, <3>3 DEF Written
  <2>2. CASE pc' = AfterFill /\ heap' = [heap EXCEPT ![src] = Null]
    BY <1>0, <2>0, <2>2, Places DEF Written, TypeOK
  <2> QED BY <1>4, <2>1, <2>2 DEF Normalize, Goto
<1>5. CASE Fill
  <2>0. pc = "fill" /\ pc' = "fill" /\ Dst' = Dst /\ copied \in Nat /\ copied < Len(heap[Dst])
    BY <1>0, <1>5 DEF Fill, Dst, Fuzz, TypeOK
  <2>1. heap[Dst] \in Blocks /\ Source \in Seq(Byte) /\ Dst \in Buffers /\ Dst # src
    BY <1>0, <2>0, Places, InputType DEF Source, Written
  <2>2. /\ CopyLength \in Nat /\ CopyLength <= Len(Source)
        /\ copied + CopyLength <= Len(heap[Dst]) /\ copied' = copied + CopyLength
    BY <1>5, <2>0, <2>1 DEF CopyLength, Blocks, Fill
  <2>3. /\ \A b \in Buffers : b # Dst => heap'[b] = heap[b]
        /\ heap'[Dst] = [i \in DOMAIN heap[Dst] |->
               IF copied < i /\ i <= copied + CopyLength
               THEN Source[i - copied] ELSE heap[Dst][i]]
    BY <1>0, <1>5, <2>1 DEF Fill, TypeOK
  <2>4. DOMAIN heap[Dst] = 1..Len(heap[Dst])
    BY <2>1 DEF Blocks
  <2>4a. heap'[Dst] \in Blocks
    BY <2>1, ShapeNext, Places, <2>0 DEF Shape, TypeOK, Blocks, Pointers
  <2>5. Len(heap'[Dst]) = Len(heap[Dst])
    BY <2>1, <2>3, <2>4, <2>4a DEF Blocks
  <2>6. \A i \in 1..copied' : heap'[Dst][i] \in Byte
    <3> SUFFICES ASSUME NEW i \in 1..copied' PROVE heap'[Dst][i] \in Byte
      OBVIOUS
    <3>1. i \in DOMAIN heap[Dst]
      BY <2>0, <2>1, <2>2, <2>4 DEF Blocks
    <3>2. CASE i <= copied
      BY <2>0, <2>2, <2>3, <3>1, <3>2 DEF Written
    <3>3. CASE copied < i
      BY <2>0, <2>1, <2>2, <2>3, <3>1, <3>3
    <3> QED BY <2>0, <3>2, <3>3
  <2> QED BY <2>0, <2>2, <2>3, <2>5, <2>6 DEF Written
<1>6. CASE FillEnd
  <2>0. pc = "fill" /\ pc' = AfterFill /\ copied \in Nat /\ copied >= Len(heap[Dst])
    BY <1>0, <1>6 DEF FillEnd, Goto, TypeOK
  <2>1. heap[Dst] \in Seq(Byte)
    <3>1. heap[Dst] \in Blocks
      BY <1>0, <2>0, Places
    <3>2. \A i \in 1..Len(heap[Dst]) : heap[Dst][i] \in Byte
      BY <2>0, <3>1 DEF Written, Blocks
    <3> QED BY <3>1, <3>2 DEF Blocks
  <2>2. \A b \in Buffers : heap'[b] \in {heap[b], Null}
    BY <1>0, <1>6 DEF FillEnd, TypeOK
  <2>3. pc' # "fill"
    BY <1>0, <2>0, Places
  <2> QED BY <2>1, <2>2, <2>3 DEF Written
<1>7. CASE Expand
  <2>0. pc = "expand"
    BY <1>7 DEF Expand, Goto
  <2>1. CASE pc' = "normalize" /\ heap' = heap
    BY <2>0, <2>1 DEF Written
  <2>2. CASE pc' = AfterFuzz /\ heap' = [heap EXCEPT !["first"] = Null]
    BY <1>0, <2>0, <2>2, Places DEF Written, TypeOK
  <2> DEFINE first == IF heap["first"] = Null THEN <<>> ELSE heap["first"]
             rest  == Fresh(MinOutput - Len(first))
  <2>3. CASE /\ Len(first) < MinOutput /\ pc' = "fill" /\ src' = "input" /\ copied' = Len(first)
             /\ heap' = [heap EXCEPT !["first"] = Null, ![Fuzz] = first \o rest]
    <3>1. Dst' = Fuzz /\ Fuzz \in Buffers /\ Fuzz # "first"
      BY <1>7, <2>3 DEF Expand, Dst, Fuzz, Buffers
    <3>2. first \in Seq(Byte)
      BY <2>0, EmptySeq DEF Written, Buffers
    <3>3. rest \in Blocks
      <4>1. MinOutput - Len(first) \in Nat
        BY <2>3, <3>2, BuffersAssumption
      <4> QED BY <4>1, FreshType
    <3> HIDE DEF first, rest
    <3>4. /\ heap'[Fuzz] = first \o rest
          /\ \A b \in Buffers : b # Fuzz => heap'[b] \in {heap[b], Null}
      BY <1>0, <2>3, <3>1 DEF TypeOK
    <3>5. Len(first) <= Len(first \o rest) /\ \A i \in 1..Len(first) : (first \o rest)[i] \in Byte
      BY <3>2, <3>3, ByteSeq DEF Blocks
    <3> QED BY <2>0, <2>3, <3>1, <3>4, <3>5 DEF Written
  <2> QED BY <1>7, <2>1, <2>2, <2>3 DEF Expand, Goto
<1>8. CASE Again
    BY <1>8 DEF Again, Goto, Written
<1>9. CASE Combine
  <2>0. pc = "combine"
    BY <1>9 DEF Combine, Goto
  <2>1. Concatenation \in Seq(Byte)
    <3>1. OrEmpty("fuzz1") \in Seq(Byte) /\ OrEmpty("fuzz2") \in Seq(Byte)
      BY <2>0, EmptySeq DEF OrEmpty, Written, Buffers
    <3> QED BY <1>0, <3>1, InputType DEF Concatenation
  <2>2. \A b \in Buffers : heap'[b] \in {heap[b], Null, Concatenation, input}
    BY <1>0, <1>9 DEF Combine, TypeOK
  <2>3. pc' # "fill"
    BY <1>9 DEF Combine, Goto
  <2> QED BY <1>0, <2>0, <2>1, <2>2, <2>3, InputType DEF Written
<1>10. CASE UNCHANGED vars
    BY <1>10 DEF vars, Written, Dst, Fuzz
<1> QED BY <1>1, <1>2, <1>3, <1>4, <1>5, <1>6, <1>7, <1>8, <1>9, <1>10 DEF Next, Step
-----------------------------------------------------------------------------
\* What OriginalIntact says of a buffer r: input is at position k of r, and r is
\* what operation o should make of it.
At(inp, r, k) == k + Len(inp) <= Len(r) /\ \A i \in 1..Len(inp) : r[k + i] = inp[i]

Intact(o, inp, failed, r) ==
    /\ o \in {"pass", "guided", "post"} => At(inp, r, 0)
    /\ o = "pre" => Len(r) >= Len(inp) /\ At(inp, r, Len(r) - Len(inp))
    /\ o = "full" => \E k \in 0..Len(r) :
          /\ At(inp, r, k)
          /\ \A m \in {k, Len(r) - k - Len(inp)} : m >= MinOutput \/ (failed /\ m = 0)

\* The lengths of a fuzz.
Lengths == {MinOutput} \cup {Clamp(Len(o)) : o \in Outputs}

\* Which operations are at work where.
Course ==
    /\ pc # "idle" => input \in Inputs
    /\ pc = "copy" => op \in {"pass", "guided"}
    /\ pc \notin {"idle", "copy"} => op \in {"post", "pre", "full"} /\ (op # "full" => run = 1)
    /\ pc = "again" => op = "full" /\ run = 1

\* A fuzz that is missing was lost to a malloc.
Lost(b) == heap[b] = Null => mallocFailed

Fuzzed ==
    /\ run = 1 => heap["fuzz2"] = Null
    /\ pc = "again" \/ (pc # "idle" /\ run = 2) =>
          Lost("fuzz1") \/ (pc \in {"normalize", "fill"} /\ src = "combined")
    /\ pc = "combine" => Lost("fuzz1") /\ (op = "full" => run = 2 /\ Lost("fuzz2"))

\* How long each buffer is.
Sized ==
    /\ heap["temp"] # Null => heap["temp"] \in Outputs
    /\ \A b \in {"first", "fuzz1", "fuzz2"} : heap[b] # Null => Len(heap[b]) \in Lengths

\* The concatenation is already what the call shall return, and its normalisation
\* is a copy.
Normal ==
    /\ heap["combined"] # Null =>
          /\ Intact(op, input, mallocFailed, heap["combined"])
          /\ Len(heap["combined"]) \in MinOutput..MaxBuffer
    /\ heap["result"] # Null => pc = "idle" \/ (pc = "fill" /\ src = "combined")
    /\ pc = "fill" /\ src = "combined" =>
          /\ Len(heap["result"]) = Len(heap["combined"])
          /\ copied \in {0, Len(heap["combined"])}
          /\ \A i \in 1..copied : heap["result"][i] = heap["combined"][i]

\* What a call returns.
Returned ==
    pc = "idle" =>
        /\ heap["result"] # Null =>
              /\ Intact(op, input, mallocFailed, heap["result"])
              /\ op # "pass" /\ ~mallocFailed => Len(heap["result"]) \in MinOutput..MaxBuffer
        /\ op # "pass" /\ ~mallocFailed => heap["result"] # Null

Whole == Course /\ Fuzzed /\ Sized /\ Normal /\ Returned

\* normalizeOutputSize leaves a length it would choose as it is.
LEMMA LengthsFixed ==
    /\ \A n \in Lengths : n \in MinOutput..MaxBuffer /\ Clamp(n) = n
    /\ \A o \in Outputs : Clamp(Len(o)) \in Lengths /\ Len(o) \in Nat
<1>1. MinOutput \in MinOutput..MaxBuffer /\ Clamp(MinOutput) = MinOutput
    BY BuffersAssumption DEF Clamp
<1>2. ASSUME NEW o \in Outputs
      PROVE  /\ Len(o) \in Nat /\ Clamp(Len(o)) \in MinOutput..MaxBuffer
             /\ Clamp(Clamp(Len(o))) = Clamp(Len(o))
  <2>1. Len(o) \in Nat
    BY BuffersAssumption
  <2> QED BY <2>1, BuffersAssumption DEF Clamp
<1> QED BY <1>1, <1>2 DEF Lengths

\* Two fuzzes and a message have room in the buffer of a result.
LEMMA Room ==
    ASSUME NEW i \in Inputs, NEW m \in Lengths, NEW n \in Lengths
    PROVE  Len(i) \in Nat /\ m + Len(i) + n <= MaxBuffer
<1>1. Len(i) \in Nat /\ MinOutput \in Nat /\ MaxBuffer \in Nat
    BY BuffersAssumption
<1>2. MinOutput + Len(i) + MinOutput <= MaxBuffer
    BY RoomAssumption
<1>3. ASSUME NEW o \in Outputs
      PROVE  /\ Clamp(Len(o)) \in Nat /\ MinOutput <= Clamp(Len(o))
             /\ Clamp(Len(o)) + Len(i) + Clamp(Len(o)) <= MaxBuffer
    BY LengthsFixed, RoomAssumption, <1>1
<1>4. \A o, p \in Outputs : Clamp(Len(o)) + Len(i) + Clamp(Len(p)) <= MaxBuffer
    BY RoomAssumption
<1>5. CASE m = MinOutput /\ n = MinOutput
    BY <1>1, <1>2, <1>5
<1>6. CASE m = MinOutput /\ n # MinOutput
    BY <1>1, <1>3, <1>6 DEF Lengths
<1>7. CASE m # MinOutput /\ n = MinOutput
    BY <1>1, <1>3, <1>7 DEF Lengths
<1>8. CASE m # MinOutput /\ n # MinOutput
    BY <1>1, <1>4, <1>8 DEF Lengths
<1> QED BY <1>5, <1>6, <1>7, <1>8

\* [original][fuzz], [fuzz][original] and [fuzz1][original][fuzz2] are what the
\* operations should return, and normalizeOutputSize would not change them.
LEMMA ConcatenationIntact ==
    ASSUME Shape, Written, Course, Fuzzed, Sized, pc = "combine",
           heap["fuzz1"] # Null \/ heap["fuzz2"] # Null
    PROVE  /\ Concatenation \in Seq(Byte)
           /\ Intact(op, input, mallocFailed, Concatenation)
           /\ Len(Concatenation) \in MinOutput..MaxBuffer
<1> DEFINE a == OrEmpty("fuzz1")
           b == OrEmpty("fuzz2")
<1>1. TypeOK /\ input \in Inputs /\ input \in Seq(Byte)
    BY InputType DEF Shape, Course
<1>2. a \in Seq(Byte) /\ b \in Seq(Byte)
    BY EmptySeq DEF OrEmpty, Written, Buffers
<1>3. /\ heap["fuzz1"] # Null => Len(a) \in Lengths
      /\ heap["fuzz1"] = Null => Len(a) = 0 /\ mallocFailed
      /\ heap["fuzz2"] # Null => Len(b) \in Lengths
      /\ heap["fuzz2"] = Null => Len(b) = 0 /\ (op = "full" => mallocFailed)
    BY EmptySeq DEF OrEmpty, Sized, Fuzzed, Lost
<1>4. op \in {"post", "pre", "full"} /\ (op # "full" => heap["fuzz1"] # Null)
    BY <1>1 DEF Course, Fuzzed, TypeOK
<1> HIDE DEF a, b
<1>5. MinOutput \in Nat /\ MaxBuffer \in Nat /\ MinOutput \in Lengths
    BY BuffersAssumption DEF Lengths
<1>6. /\ Len(a) \in Lengths => Len(a) >= MinOutput /\ Len(a) + Len(input) <= MaxBuffer
      /\ Len(b) \in Lengths => Len(b) >= MinOutput /\ Len(b) + Len(input) <= MaxBuffer
      /\ Len(a) \in Lengths /\ Len(b) \in Lengths => Len(a) + Len(input) + Len(b) <= MaxBuffer
    BY <1>1, <1>2, <1>5, LengthsFixed, Room
<1>7. CASE op = "post"
  <2>1. Concatenation = input \o a
    BY <1>7 DEF Concatenation, a
  <2> QED BY <1>1, <1>2, <1>3, <1>4, <1>5, <1>6, <1>7, <2>1 DEF Intact, At
<1>8. CASE op = "pre"
  <2>1. Concatenation = a \o input
    BY <1>8 DEF Concatenation, a
  <2> QED BY <1>1, <1>2, <1>3, <1>4, <1>5, <1>6, <1>8, <2>1 DEF Intact, At
<1>9. CASE op = "full"
  <2> DEFINE r == a \o input \o b
  <2>1. Concatenation = r
    BY <1>9 DEF Concatenation, a, b
  <2>2. r \in Seq(Byte) /\ Len(r) = Len(a) + Len(input) + Len(b)
    BY <1>1, <1>2
  <2>3. At(input, r, Len(a))
    BY <1>1, <1>2 DEF At
  <2>4. Len(a) \in 0..Len(r) /\ Len(r) - Len(a) - Len(input) = Len(b)
    BY <1>1, <1>2, <2>2
  <2>5. \A m \in {Len(a), Len(b)} : m >= MinOutput \/ (mallocFailed /\ m = 0)
    BY <1>3, <1>6, <1>9
  <2>6. Len(r) \in MinOutput..MaxBuffer
    BY <1>1, <1>2, <1>3, <1>5, <1>6, <2>2
  <2> HIDE DEF r
  <2>7. Intact(op, input, mallocFailed, r)
    BY <1>9, <2>3, <2>4, <2>5 DEF Intact
  <2> QED BY <2>1, <2>2, <2>6, <2>7
<1> QED BY <1>4, <1>7, <1>8, <1>9

\* The buffers that are not assigned to stay as they are.
LEMMA Others ==
    ASSUME TypeOK, NEW b \in Buffers, NEW e, heap' = [heap EXCEPT ![b] = e]
    PROVE  heap'[b] = e /\ \A c \in Buffers \ {b} : heap'[c] = heap[c]
BY DEF TypeOK

\* A malloc that fails after a buffer was found to be what the operation should
\* return takes nothing of it away.
LEMMA IntactStays ==
    ASSUME NEW o, NEW i, NEW r, Intact(o, i, mallocFailed, r),
           mallocFailed' = mallocFailed \/ mallocFailed' = TRUE
    PROVE  Intact(o, i, mallocFailed', r)
<1>1. CASE mallocFailed' = mallocFailed
    BY <1>1
<1>2. CASE mallocFailed' = TRUE
    BY <1>2, Zenon DEF Intact
<1> QED BY <1>1, <1>2

\* Every step keeps lengths, contents and presence of the fuzzes in order.
LEMMA WholeNext == Shape /\ Written /\ Whole /\ [Next]_vars => Whole'
<1> SUFFICES ASSUME Shape, Written, Whole, [Next]_vars PROVE Whole'
    OBVIOUS
<1>0. /\ TypeOK /\ Pointers /\ Owned
      /\ Course /\ Fuzzed /\ Sized /\ Normal /\ Returned
    BY DEF Shape, Whole
<1>0a. TypeOK' /\ Pointers' /\ Owned'
    BY ShapeNext DEF Shape
<1>1. CASE Call
  <2>1. /\ pc = "idle" /\ pc' \in {"copy", "radamsa"} /\ run' = 1 /\ input' \in Inputs
        /\ op' \in Ops /\ (pc' = "copy" <=> op' \in {"pass", "guided"})
        /\ \A b \in Buffers : heap'[b] = Null
    BY <1>0, <1>1 DEF Call, Goto, Owned, Buffers, TypeOK
  <2> QED BY <2>1 DEF Whole, Course, Fuzzed, Lost, Sized, Normal, Returned, Ops, Buffers
<1>2. CASE Copy
  <2>0. /\ pc = "copy" /\ pc' = "idle" /\ op' = op /\ input' = input /\ run' = run
        /\ op \in {"pass", "guided"} /\ input \in Inputs
    BY <1>0, <1>2 DEF Copy, Goto, Course
  <2>1. \A b \in Buffers \ {"result"} : heap'[b] = Null
    BY <1>0a, <2>0 DEF Owned, Buffers
  <2>2. Course' /\ Fuzzed' /\ Sized' /\ Normal'
    BY <1>0, <2>0, <2>1 DEF Course, Fuzzed, Sized, Normal, Buffers
  <2>3. Returned'
    <3>1. CASE heap' = heap /\ mallocFailed' = TRUE
      BY <1>0, <2>0, <3>1 DEF Returned, Normal
    <3>2. CASE op = "pass" /\ heap' = [heap EXCEPT !["result"] = input]
      <4>1. heap'["result"] = input /\ Len(input) \in Nat
        BY <1>0, <3>2, InputType DEF TypeOK, Buffers
      <4>2. Intact(op, input, mallocFailed', input)
        BY <3>2, <4>1 DEF Intact, At
      <4> QED BY <2>0, <3>2, <4>1, <4>2 DEF Returned
    <3>3. CASE /\ op = "guided" /\ mallocFailed' = mallocFailed
               /\ heap' = [heap EXCEPT !["result"] =
                     [i \in 1..Clamp(Len(input)) |-> IF i <= Len(input) THEN input[i] ELSE Zero]]
      <4> DEFINE r == [i \in 1..Clamp(Len(input)) |->
                          IF i <= Len(input) THEN input[i] ELSE Zero]
      <4>1. heap'["result"] = r /\ r \in Seq(Byte)
        BY <1>0, <3>3, PaddedType DEF TypeOK, Buffers
      <4>2. /\ Len(input) \in Nat
            /\ Clamp(Len(input)) \in MinOutput..MaxBuffer /\ Len(input) <= Clamp(Len(input))
        BY <2>0, RoomAssumption, BuffersAssumption DEF Clamp
      <4>3. Len(r) = Clamp(Len(input)) /\ \A i \in 1..Len(input) : r[i] = input[i]
        BY <4>1, <4>2, BuffersAssumption
      <4>4. r # Null
        BY <4>1, ByteSeq, NotNull
      <4> HIDE DEF r
      <4>5. Intact(op, input, mallocFailed', r)
        BY <3>3, <4>2, <4>3, BuffersAssumption DEF Intact, At
      <4> QED BY <2>0, <4>1, <4>2, <4>3, <4>4, <4>5 DEF Returned
    <3> QED BY <1>2, <2>0, <3>1, <3>2, <3>3 DEF Copy
  <2> QED BY <2>2, <2>3 DEF Whole
<1>3. CASE Radamsa
  <2>0. /\ pc = "radamsa" /\ pc' \in {"normalize", "expand", "stuck"} /\ op' = op /\ input' = input
        /\ run' = run /\ mallocFailed' = mallocFailed /\ heap["combined"] = Null
    BY <1>0, <1>3 DEF Radamsa, Goto, Owned
  <2>1. /\ heap'["temp"] = heap["temp"] \/ heap'["temp"] \in Outputs
        /\ \A b \in Buffers \ {"temp"} : heap'[b] = heap[b]
    BY <1>0, <1>3 DEF Radamsa, TypeOK, Buffers
  <2>2. Course' /\ Fuzzed' /\ Sized' /\ Normal' /\ Returned'
    BY <1>0, <2>0, <2>1 DEF Course, Fuzzed, Lost, Sized, Normal, Returned, Buffers
  <2> QED BY <2>2 DEF Whole
<1>4. CASE Normalize
  <2>0. /\ pc = "normalize" /\ op' = op /\ input' = input /\ run' = run /\ src' = src
        /\ mallocFailed' = mallocFailed \/ mallocFailed' = TRUE
        /\ src \in Buffers /\ heap[src] \in Blocks /\ heap[src] # Null /\ Dst \in Buffers /\ Dst # src
    BY <1>0, <1>4, Places DEF Normalize, Goto
  <2>1. CASE /\ pc' = "fill" /\ copied' = 0
             /\ heap' = [heap EXCEPT ![Dst] = Fresh(Clamp(Len(heap[src])))]
    <3> DEFINE n == Clamp(Len(heap[src]))
    <3>1. /\ heap'[Dst] = Fresh(n) /\ Len(heap'[Dst]) = n /\ heap'[Dst] # Null
          /\ \A b \in Buffers \ {Dst} : heap'[b] = heap[b]
      <4>1. Len(heap[src]) \in Nat
        BY <2>0 DEF Blocks
      <4> QED BY <1>0, <2>0, <2>1, <4>1, Others, ClampType, FreshType, NotNull
    <3>2. CASE src = "combined"
      <4>1. Dst = "result" /\ n = Len(heap["combined"])
            /\ \A b \in Buffers \ {"result"} : heap'[b] = heap[b]
        BY <1>0, <2>0, <3>1, <3>2, BuffersAssumption DEF Dst, Normal, Clamp
      <4>2. Intact(op, input, mallocFailed', heap'["combined"])
        BY <1>0, <2>0, <3>2, <4>1, IntactStays DEF Normal, Buffers
      <4>3. Normal'
        BY <1>0, <2>0, <2>1, <3>1, <3>2, <4>1, <4>2 DEF Normal, Buffers
      <4>4. Course' /\ Fuzzed' /\ Sized' /\ Returned'
        BY <1>0, <2>0, <2>1, <3>2, <4>1 DEF Course, Fuzzed, Lost, Sized, Returned, Buffers
      <4> QED BY <4>3, <4>4 DEF Whole
    <3>3. CASE src # "combined"
      <4>1. Dst \in {"first", "fuzz1", "fuzz2"} /\ (Dst = "fuzz2" => run = 2) /\ n \in Lengths
        <5>1. src = "temp" \/ src = "first"
          BY <1>0, <2>0, <3>3 DEF TypeOK, Buffers
        <5> QED BY <1>0, <2>0, <5>1, LengthsFixed DEF Dst, Fuzz, Sized, TypeOK
      <4>2. heap["combined"] = Null /\ heap["result"] = Null
        BY <1>0, <2>0, <3>3 DEF Owned, Normal
      <4>3. Course' /\ Sized' /\ Normal' /\ Returned'
        BY <1>0, <2>0, <2>1, <3>1, <3>3, <4>1, <4>2
           DEF Course, Sized, Normal, Returned, Buffers
      <4>4. Fuzzed'
        BY <1>0, <2>0, <2>1, <3>1, <3>3, <4>1 DEF Course, Fuzzed, Lost, Buffers
      <4> QED BY <4>3, <4>4 DEF Whole
    <3> QED BY <3>2, <3>3
  <2>2. CASE /\ pc' = AfterFill /\ mallocFailed' = TRUE
             /\ heap' = [heap EXCEPT ![src] = Null]
    <3>1. heap'[src] = Null /\ \A b \in Buffers \ {src} : heap'[b] = heap[b]
      BY <1>0, <2>0, <2>2, Others
    <3>2. Course' /\ Fuzzed'
      BY <1>0, <2>0, <2>2, <3>1, Places
         DEF Course, Fuzzed, Lost, Buffers, AfterFill, AfterFuzz, TypeOK
    <3>3. Sized' /\ Normal' /\ Returned'
      BY <1>0, <1>0a, <2>0, <2>2, <3>1, Places
         DEF Sized, Normal, Returned, Owned, Buffers, TypeOK
    <3> QED BY <3>2, <3>3 DEF Whole
  <2> QED BY <1>4, <2>1, <2>2 DEF Normalize, Goto
<1>5. CASE Fill
  <2>0. /\ pc = "fill" /\ pc' = "fill" /\ op' = op /\ input' = input /\ run' = run /\ src' = src
        /\ mallocFailed' = mallocFailed /\ Dst \in Buffers /\ Dst # src
        /\ heap[Dst] \in Blocks /\ heap[Dst] # Null /\ copied \in Nat /\ copied < Len(heap[Dst])
        /\ copied' = copied + CopyLength
    BY <1>0, <1>5, Places DEF Fill, TypeOK
  <2>1. /\ heap'[Dst] = [i \in DOMAIN heap[Dst] |->
               IF copied < i /\ i <= copied + CopyLength
               THEN Source[i - copied] ELSE heap[Dst][i]]
        /\ \A b \in Buffers \ {Dst} : heap'[b] = heap[b]
    BY <1>0, <1>5, <2>0 DEF Fill, TypeOK
  <2>2. heap'[Dst] \in Blocks /\ heap'[Dst] # Null /\ Len(heap'[Dst]) = Len(heap[Dst])
    <3>1. Dst' = Dst /\ heap'[Dst'] # Null /\ heap'[Dst'] \in Blocks
      BY <1>0a, <2>0 DEF Pointers, TypeOK, Blocks, Dst, Fuzz
    <3>2. DOMAIN heap'[Dst] = DOMAIN heap[Dst]
      BY <2>1
    <3> QED BY <2>0, <3>1, <3>2 DEF Blocks
  <2>3. CASE src = "combined"
    <3>1. /\ Dst = "result" /\ Source = heap["combined"] /\ heap["combined"] \in Seq(Byte)
          /\ copied = 0 /\ CopyLength = Len(heap["combined"])
          /\ Len(heap["result"]) = Len(heap["combined"])
          /\ Len(heap["combined"]) \in Nat
      BY <1>0, <2>0, <2>3 DEF Dst, Source, Written, Normal, CopyLength, Pointers, Buffers
    <3>2. \A i \in 1..Len(heap["combined"]) : heap'["result"][i] = heap["combined"][i]
      BY <2>0, <2>1, <3>1 DEF Blocks
    <3>3. \A b \in Buffers \ {"result"} : heap'[b] = heap[b]
      BY <2>1, <3>1
    <3>4. Normal'
      BY <1>0, <2>0, <2>2, <2>3, <3>1, <3>2, <3>3 DEF Normal, Buffers
    <3>5. Course' /\ Fuzzed' /\ Sized' /\ Returned'
      BY <1>0, <2>0, <2>3, <3>3 DEF Course, Fuzzed, Lost, Sized, Returned, Buffers
    <3> QED BY <3>4, <3>5 DEF Whole
  <2>4. CASE src # "combined"
    <3>1. Dst \notin {"result", "combined", "temp"}
      BY <2>0, <2>4 DEF Dst, Fuzz
    <3>2. /\ \A b \in Buffers : heap'[b] # Null <=> heap[b] # Null
          /\ heap'["temp"] = heap["temp"]
          /\ \A b \in {"first", "fuzz1", "fuzz2"} : Len(heap'[b]) = Len(heap[b])
      BY <2>0, <2>1, <2>2, <3>1 DEF Buffers
    <3>3. heap["combined"] = Null /\ heap["result"] = Null
      BY <1>0, <2>0, <2>4 DEF Owned, Normal
    <3>4. Course' /\ Fuzzed' /\ Sized' /\ Normal' /\ Returned'
      BY <1>0, <2>0, <2>4, <3>2, <3>3
         DEF Course, Fuzzed, Lost, Sized, Normal, Returned, Buffers
    <3> QED BY <3>4 DEF Whole
  <2> QED BY <2>3, <2>4
<1>6. CASE FillEnd
  <2>0. /\ pc = "fill" /\ pc' = AfterFill /\ op' = op /\ input' = input /\ run' = run /\ src' = src
        /\ mallocFailed' = mallocFailed /\ copied >= Len(heap[Dst]) /\ copied \in Nat
        /\ heap[Dst] # Null /\ Dst \in Buffers /\ Dst # src
    BY <1>0, <1>6, Places DEF FillEnd, Goto, TypeOK
  <2>1. /\ \A b \in Buffers \ {src} : heap'[b] = heap[b]
        /\ src \in Buffers => heap'[src] = Null
        /\ src # "input" => src \in Buffers
    <3>1. CASE src = "input"
      BY <1>6, <3>1 DEF FillEnd, Buffers
    <3>2. CASE src # "input"
      BY <1>0, <1>6, <2>0, <3>2, Places DEF FillEnd, TypeOK
    <3> QED BY <3>1, <3>2
  <2>2. CASE src = "combined"
    <3>1. pc' = "idle" /\ Dst = "result" /\ heap'["combined"] = Null
          /\ \A b \in Buffers \ {"combined"} : heap'[b] = heap[b]
      BY <2>0, <2>1, <2>2 DEF AfterFill, Dst
    <3>2. heap["combined"] \in Seq(Byte) /\ heap["result"] \in Blocks
      BY <1>0, <2>0, <2>2, <3>1, Places DEF Written, Pointers, Buffers
    <3>3. heap["result"] = heap["combined"]
      <4>1. /\ Len(heap["result"]) = Len(heap["combined"])
            /\ \A i \in 1..Len(heap["combined"]) : heap["result"][i] = heap["combined"][i]
        BY <1>0, <2>0, <2>2, <3>1, <3>2 DEF Normal, Blocks
      <4> QED BY <3>2, <4>1 DEF Blocks
    <3>4. /\ heap'["result"] = heap["combined"] /\ heap["combined"] # Null
          /\ Intact(op, input, mallocFailed, heap["combined"])
          /\ Len(heap["combined"]) \in MinOutput..MaxBuffer
      BY <1>0, <2>0, <2>2, <3>1, <3>3 DEF Normal, Buffers
    <3>5. Returned'
      BY <2>0, <3>4 DEF Returned
    <3>6. Course' /\ Fuzzed' /\ Sized' /\ Normal'
      BY <1>0, <2>0, <3>1 DEF Course, Fuzzed, Sized, Normal, Buffers
    <3> QED BY <3>5, <3>6 DEF Whole
  <2>3. CASE src # "combined"
    <3>1. \A b \in Buffers : heap'[b] \in {heap[b], Null}
      BY <2>0, <2>1
    <3>2. heap["combined"] = Null /\ heap["result"] = Null
      BY <1>0, <2>0, <2>3 DEF Owned, Normal
    <3>3. pc' = IF src = "temp" THEN "expand" ELSE AfterFuzz
      BY <2>0, <2>3 DEF AfterFill
    <3>4. Sized' /\ Normal' /\ Returned'
      BY <1>0, <2>0, <3>1, <3>2, <3>3 DEF Sized, Normal, Returned, Buffers, AfterFuzz
    <3>5. heap'["fuzz1"] = heap["fuzz1"] /\ heap'["fuzz2"] = heap["fuzz2"]
      BY <1>0, <2>0, <2>1 DEF TypeOK, Buffers
    <3>6. src # "temp" => IF run = 1 THEN heap["fuzz1"] # Null ELSE heap["fuzz2"] # Null
      BY <2>0, <2>3 DEF Dst, Fuzz
    <3>7. Course' /\ Fuzzed'
      BY <1>0, <2>0, <2>3, <3>3, <3>5, <3>6 DEF Course, Fuzzed, Lost, AfterFuzz, TypeOK
    <3> QED BY <3>4, <3>7 DEF Whole
  <2> QED BY <2>2, <2>3
<1>7. CASE Expand
  <2> DEFINE first == IF heap["first"] = Null THEN <<>> ELSE heap["first"]
             rest  == Fresh(MinOutput - Len(first))
  <2>0. /\ pc = "expand" /\ op' = op /\ input' = input /\ run' = run
        /\ heap["combined"] = Null /\ heap["result"] = Null /\ heap["temp"] = Null
    BY <1>0, <1>7 DEF Expand, Goto, Owned, Normal
  <2>1. CASE /\ Len(first) >= MinOutput /\ pc' = "normalize" /\ src' = "first" /\ heap' = heap
             /\ mallocFailed' = mallocFailed
    <3>1. Course' /\ Fuzzed' /\ Sized' /\ Normal' /\ Returned'
      BY <1>0, <2>0, <2>1 DEF Course, Fuzzed, Lost, Sized, Normal, Returned
    <3> QED BY <3>1 DEF Whole
  <2>2. CASE /\ pc' = AfterFuzz /\ heap' = [heap EXCEPT !["first"] = Null] /\ mallocFailed' = TRUE
    <3>1. heap'["first"] = Null /\ \A b \in Buffers \ {"first"} : heap'[b] = heap[b]
      BY <1>0, <2>2, Others DEF Buffers
    <3>2. Sized' /\ Normal' /\ Returned'
      BY <1>0, <2>0, <2>2, <3>1 DEF Sized, Normal, Returned, Buffers, AfterFuzz
    <3>3. Course' /\ Fuzzed'
      BY <1>0, <2>0, <2>2, <3>1 DEF Course, Fuzzed, Lost, Buffers, AfterFuzz, TypeOK
    <3> QED BY <3>2, <3>3 DEF Whole
  <2>3. CASE /\ Len(first) < MinOutput /\ pc' = "fill" /\ src' = "input"
             /\ mallocFailed' = mallocFailed
             /\ heap' = [heap EXCEPT !["first"] = Null, ![Fuzz] = first \o rest]
    <3>1. heap["first"] = Null
      <4>1. ASSUME heap["first"] # Null PROVE FALSE
        BY <1>0, <2>3, <4>1, LengthsFixed, BuffersAssumption DEF Sized
      <4> QED BY <4>1
    <3>2. Len(first \o rest) = MinOutput
      <4>1. first = <<>> /\ Len(first) = 0
        BY <3>1, EmptySeq
      <4>2. rest \in Blocks /\ Len(rest) = MinOutput
        BY <4>1, FreshType, BuffersAssumption
      <4> HIDE DEF first, rest
      <4> QED BY <4>1, <4>2 DEF Blocks
    <3>3. /\ heap'[Fuzz] = first \o rest /\ heap'["first"] = Null
          /\ \A b \in Buffers \ {"first", Fuzz} : heap'[b] = heap[b]
      BY <1>0, <2>3 DEF TypeOK, Buffers, Fuzz
    <3> HIDE DEF first, rest
    <3>4. heap'[Fuzz] # Null /\ Fuzz = (IF run = 1 THEN "fuzz1" ELSE "fuzz2")
      BY <1>0a, <1>7, <2>3 DEF Pointers, Dst, Fuzz, Expand
    <3>5. MinOutput \in Lengths
      BY DEF Lengths
    <3>6. Sized' /\ Normal' /\ Returned'
      BY <1>0, <2>0, <2>3, <3>2, <3>3, <3>4, <3>5 DEF Sized, Normal, Returned, Buffers
    <3>7. Course' /\ Fuzzed'
      BY <1>0, <2>0, <2>3, <3>3, <3>4 DEF Course, Fuzzed, Lost, Buffers, TypeOK
    <3> QED BY <3>6, <3>7 DEF Whole
  <2> QED BY <1>7, <2>1, <2>2, <2>3 DEF Expand, Goto
<1>8. CASE Again
  <2>1. /\ pc = "again" /\ pc' = "radamsa" /\ run' = 2 /\ op' = op /\ input' = input
        /\ heap' = heap /\ mallocFailed' = mallocFailed
    BY <1>8 DEF Again, Goto
  <2>2. Course' /\ Fuzzed' /\ Sized' /\ Normal' /\ Returned'
    BY <1>0, <2>1 DEF Course, Fuzzed, Lost, Sized, Normal, Returned
  <2> QED BY <2>2 DEF Whole
<1>9. CASE Combine
  <2>0. /\ pc = "combine" /\ op' = op /\ input' = input /\ run' = run
        /\ heap["combined"] = Null /\ heap["result"] = Null /\ heap["temp"] = Null
        /\ heap["first"] = Null
    BY <1>0, <1>9 DEF Combine, Goto, Owned, Normal
  <2>1. CASE /\ pc' = "normalize" /\ src' = "combined" /\ mallocFailed' = mallocFailed
             /\ heap["fuzz1"] # Null \/ heap["fuzz2"] # Null
             /\ heap' = [heap EXCEPT !["fuzz1"] = Null, !["fuzz2"] = Null,
                                     !["combined"] = Concatenation]
    <3>1. /\ heap'["combined"] = Concatenation /\ heap'["result"] = Null /\ heap'["temp"] = Null
          /\ \A b \in {"first", "fuzz1", "fuzz2"} : heap'[b] = Null
      BY <1>0, <2>0, <2>1 DEF TypeOK, Buffers
    <3>2. /\ Intact(op, input, mallocFailed, Concatenation)
          /\ Len(Concatenation) \in MinOutput..MaxBuffer
      BY <1>0, <2>0, <2>1, ConcatenationIntact
    <3>3. Course' /\ Fuzzed' /\ Sized' /\ Normal' /\ Returned'
      BY <1>0, <2>0, <2>1, <3>1, <3>2 DEF Course, Fuzzed, Lost, Sized, Normal, Returned
    <3> QED BY <3>3 DEF Whole
  <2>2. CASE /\ pc' = "idle" /\ heap["fuzz1"] = Null /\ heap["fuzz2"] = Null
             /\ heap' = [heap EXCEPT !["result"] = input] /\ mallocFailed' = mallocFailed
    <3>1. heap'["result"] = input /\ \A b \in Buffers \ {"result"} : heap'[b] = Null
      BY <1>0, <2>0, <2>2 DEF TypeOK, Buffers
    <3>2. mallocFailed
      BY <1>0, <2>0, <2>2 DEF Fuzzed, Lost
    <3>3. Intact(op, input, mallocFailed, input)
      <4>1. input \in Seq(Byte)
        BY <1>0, InputType
      <4>2. Len(input) \in Nat /\ Len(input) - Len(input) = 0 /\ At(input, input, 0)
        BY <4>1 DEF At
      <4>3. 0 \in 0..Len(input) /\ Len(input) - 0 - Len(input) = 0
        BY <4>2
      <4>4. op = "full" => \E k \in 0..Len(input) :
               /\ At(input, input, k)
               /\ \A m \in {k, Len(input) - k - Len(input)} :
                     m >= MinOutput \/ (mallocFailed /\ m = 0)
        BY <3>2, <4>2, <4>3
      <4> QED BY <4>2, <4>4 DEF Intact
    <3>4. Course' /\ Fuzzed' /\ Sized' /\ Normal' /\ Returned'
      BY <1>0, <2>0, <2>2, <3>1, <3>2, <3>3
         DEF Course, Fuzzed, Lost, Sized, Normal, Returned, Buffers
    <3> QED BY <3>4 DEF Whole
  <2>3. CASE /\ pc' = "idle" /\ mallocFailed' = TRUE
             /\ heap' = [heap EXCEPT !["fuzz1"] = Null, !["fuzz2"] = Null]
    <3>1. \A b \in Buffers : heap'[b] = Null
      BY <1>0, <2>0, <2>3 DEF TypeOK, Buffers
    <3>2. Course' /\ Fuzzed' /\ Sized' /\ Normal' /\ Returned'
      BY <1>0, <2>0, <2>3, <3>1
         DEF Course, Fuzzed, Lost, Sized, Normal, Returned, Buffers
    <3> QED BY <3>2 DEF Whole
  <2> QED BY <1>9, <2>1, <2>2, <2>3 DEF Combine, Goto
<1>10. CASE UNCHANGED vars
  <2>1. Course' /\ Fuzzed' /\ Sized' /\ Normal' /\ Returned'
    BY <1>0, <1>10 DEF vars, Course, Fuzzed, Lost, Sized, Normal, Returned
  <2> QED BY <2>1 DEF Whole
<1> QED BY <1>1, <1>2, <1>3, <1>4, <1>5, <1>6, <1>7, <1>8, <1>9, <1>10 DEF Next, Step

-----------------------------------------------------------------------------
\* All that is invariant.
Invariant == Shape /\ Written /\ Whole

\* The buffers start empty.
LEMMA InvariantInit == Init => Invariant
<1> SUFFICES ASSUME Init PROVE Invariant
    OBVIOUS
<1>1. \A b \in Buffers : heap[b] = Null
    BY DEF Init
<1>2. Written /\ Whole
    BY <1>1 DEF Init, Written, Whole, Course, Fuzzed, Sized, Normal, Returned, Buffers
<1> QED BY <1>2, ShapeInit DEF Invariant

\* The invariant holds throughout.
LEMMA AlwaysInvariant == Spec => []Invariant
<1>1. Invariant /\ [Next]_vars => Invariant'
    BY ShapeNext, WrittenNext, WholeNext DEF Invariant
<1> QED BY <1>1, InvariantInit, PTL DEF Spec

\* Every variable has its type; whatever fails, no loop of the fuzzer reads or
\* writes through a null pointer (Pointers).
THEOREM TypeCorrect == Spec => [](TypeOK /\ Pointers)
<1>1. Invariant => TypeOK /\ Pointers
    BY DEF Invariant, Shape
<1> QED BY <1>1, AlwaysInvariant, PTL

\* Whichever mallocs and radamsas fail, a call leaves nothing allocated but what
\* it returns.
THEOREM NothingLeaks == Spec => []NoLeak
<1>1. Invariant => NoLeak
    BY DEF Invariant, Shape, Owned, NoLeak, Buffers
<1> QED BY <1>1, AlwaysInvariant, PTL

\* No byte that malloc left in a buffer is sent to a target.
THEOREM NothingUninitialised == Spec => []Initialised
<1>1. Invariant => Initialised
  <2> SUFFICES ASSUME Invariant, pc = "idle", heap["result"] # Null,
                      NEW i \in DOMAIN heap["result"]
               PROVE  heap["result"][i] # Junk
    BY DEF Initialised
  <2>1. heap["result"] \in Seq(Byte)
    BY DEF Invariant, Written, Buffers
  <2> QED BY <2>1, BuffersAssumption
<1> QED BY <1>1, AlwaysInvariant, PTL

\* The message is all in the result of each operation, at its place.
THEOREM OriginalStaysIntact == Spec => []OriginalIntact
<1>1. Invariant => OriginalIntact
    BY DEF Invariant, Whole, Returned, Intact, At, OriginalIntact
<1> QED BY <1>1, AlwaysInvariant, PTL

\* Whatever radamsa does, a fuzzed message has a length within the bounds.
THEOREM LengthWithinBounds == Spec => []FuzzedLength
<1>1. Invariant => FuzzedLength
    BY DEF Invariant, Whole, Returned, FuzzedLength
<1> QED BY <1>1, AlwaysInvariant, PTL

-----------------------------------------------------------------------------
(* A call comes to its end. *)

\* The stages a call has still to go through: those of the fuzz it is at, of the
\* second fuzz of fullFuzzing, and of the concatenation.
Stages(o, r, p, from) ==
    LET later == IF o = "full" /\ r = 1 THEN 7 ELSE 0 IN
    CASE p \in {"idle", "stuck"} -> 0
      [] p = "copy" -> 1
      [] p = "fill" /\ from = "combined" -> 1
      [] p = "normalize" /\ from = "combined" -> 2
      [] p = "combine" -> 3
      [] p = "fill" /\ from \in {"first", "input"} -> later + 4
      [] p = "normalize" /\ from = "first" -> later + 5
      [] p = "expand" -> later + 6
      [] p = "fill" /\ from = "temp" -> later + 7
      [] p = "normalize" /\ from = "temp" -> later + 8
      [] p = "radamsa" -> later + 9
      [] p = "again" -> 10

StagesLeft == Stages(op, run, pc, src)

\* What a loop has still to fill.
ToFill == IF pc = "fill" THEN Len(heap[Dst]) - copied ELSE 0

\* No stage is gone through twice and no loop stands still, unless it repeats an
\* empty message.  Nothing is left of a call that stays in radamsa: it does not come
\* back, but takes no further step either.
Descends ==
    \/ StagesLeft' < StagesLeft
    \/ StagesLeft' = StagesLeft /\ 0 <= ToFill' /\ ToFill' < ToFill
    \/ pc = "fill" /\ src = "input" /\ input = <<>>

\* How much there can be left of a call.
Bounded == StagesLeft \in 0..16 /\ ToFill <= MaxBuffer

\* The stages one by one.
LEMMA StagesAt ==
    ASSUME NEW o, NEW r, NEW from
    PROVE  LET later == IF o = "full" /\ r = 1 THEN 7 ELSE 0 IN
           /\ Stages(o, r, "idle", from) = 0
           /\ Stages(o, r, "stuck", from) = 0
           /\ Stages(o, r, "copy", from) = 1
           /\ Stages(o, r, "combine", from) = 3
           /\ Stages(o, r, "expand", from) = later + 6
           /\ Stages(o, r, "radamsa", from) = later + 9
           /\ Stages(o, r, "again", from) = 10
           /\ Stages(o, r, "fill", "combined") = 1
           /\ Stages(o, r, "fill", "first") = later + 4
           /\ Stages(o, r, "fill", "input") = later + 4
           /\ Stages(o, r, "fill", "temp") = later + 7
           /\ Stages(o, r, "normalize", "combined") = 2
           /\ Stages(o, r, "normalize", "first") = later + 5
           /\ Stages(o, r, "normalize", "temp") = later + 8
BY DEF Stages

\* There are sixteen stages at most, and no loop fills more than a buffer.
LEMMA AlwaysBounded == Invariant => Bounded
<1> SUFFICES ASSUME Invariant PROVE Bounded
    OBVIOUS
<1>1. TypeOK /\ Pointers /\ Sized /\ Normal
    BY DEF Invariant, Shape, Whole
<1>2. StagesLeft \in 0..16
  <2>1. pc \in {"idle", "copy", "radamsa", "stuck", "normalize", "fill", "expand", "again",
               "combine"}
    BY <1>1 DEF TypeOK
  <2>2. /\ src \in {"input", "temp", "first", "combined"}
        /\ pc = "normalize" => src \in {"temp", "first", "combined"}
    BY <1>1 DEF TypeOK, Pointers
  <2>3. CASE pc \in {"idle", "stuck"}
    BY ONLY <2>3, StagesAt DEF StagesLeft
  <2>4. CASE pc \notin {"idle", "stuck"}
    <3>1. pc \in {"copy", "radamsa", "normalize", "fill", "expand", "again", "combine"}
      BY ONLY <2>1, <2>4
    <3>2. CASE pc \in {"copy", "radamsa", "expand", "again", "combine"}
      BY ONLY <3>2, StagesAt DEF StagesLeft
    <3>3. CASE pc = "normalize"
      <4>1. src = "temp" \/ src = "first" \/ src = "combined"
        BY ONLY <2>2, <3>3
      <4>2. Stages(op, run, "normalize", src) \in 0..16
        BY ONLY <4>1 DEF Stages
      <4> QED BY ONLY <3>3, <4>2 DEF StagesLeft
    <3>4. CASE pc = "fill"
      BY ONLY <2>2, <3>4, StagesAt DEF StagesLeft
    <3> QED BY ONLY <3>1, <3>2, <3>3, <3>4
  <2> QED BY <2>3, <2>4
<1>3. ToFill <= MaxBuffer
  <2>1. CASE pc = "fill"
    <3>1. /\ copied \in Nat /\ Dst \in Buffers
          /\ heap[Dst] # Null /\ heap[Dst] \in Blocks
      BY <1>1, <2>1, Places DEF TypeOK
    <3>2. Len(heap[Dst]) \in Nat /\ Len(heap[Dst]) <= MaxBuffer
      <4>1. CASE src = "combined"
        <5>1. Dst = "result" /\ heap["combined"] # Null
          BY <1>1, <2>1, <4>1 DEF Dst, Pointers
        <5>2. Len(heap["result"]) \in MinOutput..MaxBuffer
          BY <1>1, <2>1, <4>1, <5>1 DEF Normal
        <5> QED BY <5>1, <5>2, BuffersAssumption
      <4>2. CASE src # "combined"
        <5>1. Dst \in {"first", "fuzz1", "fuzz2"}
          BY <4>2 DEF Dst, Fuzz
        <5>2. Len(heap[Dst]) \in Lengths
          BY <1>1, <3>1, <5>1 DEF Sized
        <5> QED BY <5>2, LengthsFixed, BuffersAssumption
      <4> QED BY <4>1, <4>2
    <3> QED BY <2>1, <3>1, <3>2, BuffersAssumption DEF ToFill
  <2>2. CASE pc # "fill"
    BY <2>2, BuffersAssumption DEF ToFill
  <2> QED BY <2>1, <2>2
<1> QED BY <1>2, <1>3 DEF Bounded

\* Where a loop, or the malloc before it, goes on.
LEMMA AfterStages ==
    ASSUME src \in {"temp", "first", "combined", "input"}
    PROVE  /\ Stages(op, run, AfterFill, src) < Stages(op, run, "fill", src)
           /\ src # "input" =>
                 /\ Stages(op, run, "fill", src) < Stages(op, run, "normalize", src)
                 /\ Stages(op, run, AfterFill, src) < Stages(op, run, "normalize", src)
BY StagesAt DEF AfterFill, AfterFuzz

\* What a loop copies from is not empty, but for the message.
LEMMA SomethingToRepeat ==
    ASSUME Invariant, pc = "fill", Source = <<>>
    PROVE  src = "input" /\ input = <<>>
<1>1. TypeOK /\ Pointers /\ Sized /\ Normal
    BY DEF Invariant, Shape, Whole
<1>2. CASE src = "temp"
  <2>1. heap["temp"] \in Outputs
    BY <1>1, <1>2 DEF Pointers, Sized
  <2> QED BY <1>2, <2>1, BuffersAssumption DEF Source
<1>3. CASE src = "first"
  <2>1. Len(heap["first"]) \in Lengths
    BY <1>1, <1>3 DEF Pointers, Sized
  <2> QED BY <1>3, <2>1, LengthsFixed, BuffersAssumption DEF Source
<1>4. CASE src = "combined"
  <2>1. Len(heap["combined"]) \in MinOutput..MaxBuffer
    BY <1>1, <1>4 DEF Pointers, Normal
  <2> QED BY <1>4, <2>1, BuffersAssumption DEF Source
<1>5. CASE src = "input"
  BY <1>5 DEF Source
<1> QED BY <1>1, <1>2, <1>3, <1>4, <1>5 DEF TypeOK

\* One copy fills at least a byte, and no more than is left.
LEMMA FillDescends ==
    ASSUME Invariant, Fill
    PROVE  Descends
<1>1. TypeOK /\ Pointers
    BY DEF Invariant, Shape
<1>2. /\ pc = "fill" /\ pc' = "fill" /\ UNCHANGED <<op, input, run, src>>
      /\ copied < Len(heap[Dst]) /\ copied' = copied + CopyLength
      /\ heap' = [heap EXCEPT ![Dst] = [i \in DOMAIN heap[Dst] |->
                   IF copied < i /\ i <= copied + CopyLength THEN Source[i - copied]
                                                             ELSE heap[Dst][i]]]
    BY DEF Fill
<1>3. heap \in [Buffers -> Blocks \cup {Null}] /\ Dst \in Buffers
      /\ heap[Dst] \in Blocks /\ Source \in Blocks /\ copied \in Nat
    BY <1>1, <1>2, Places DEF TypeOK, Blocks
<1>4. Dst' = Dst
    BY <1>2 DEF Dst, Fuzz
<1>5. Len(heap[Dst]) \in Nat /\ Len(Source) \in Nat
    BY ONLY <1>3, LenProperties DEF Blocks
<1>6. Len(heap'[Dst]) = Len(heap[Dst])
  <2> DEFINE g == [i \in DOMAIN heap[Dst] |->
                   IF copied < i /\ i <= copied + CopyLength THEN Source[i - copied]
                                                             ELSE heap[Dst][i]]
  <2>1. heap'[Dst] = g
    BY ONLY <1>2, <1>3
  <2>2. DOMAIN g = 1..Len(heap[Dst])
    <3>1. DOMAIN heap[Dst] = 1..Len(heap[Dst])
      BY ONLY <1>3, LenProperties DEF Blocks
    <3> QED BY ONLY <3>1
  <2> HIDE DEF g
  <2>3. Len(g) = Len(heap[Dst])
    BY ONLY <1>5, <2>2
  <2> QED BY ONLY <2>1, <2>3
<1>7. CASE Source = <<>>
    BY <1>2, <1>7, SomethingToRepeat DEF Descends
<1>8. CASE Source # <<>>
  <2>1. Len(Source) >= 1
    BY ONLY <1>3, <1>5, <1>8, EmptySeq DEF Blocks
  <2>2. CopyLength \in Nat /\ CopyLength >= 1 /\ CopyLength <= Len(heap[Dst]) - copied
    BY ONLY <1>2, <1>3, <1>5, <2>1 DEF CopyLength
  <2>3. ToFill = Len(heap[Dst]) - copied /\ ToFill' = Len(heap[Dst]) - (copied + CopyLength)
    BY <1>2, <1>4, <1>6 DEF ToFill
  <2>4. 0 <= ToFill' /\ ToFill' < ToFill
    BY ONLY <1>3, <1>5, <2>2, <2>3
  <2>5. StagesLeft' = StagesLeft
    BY <1>2 DEF StagesLeft
  <2> QED BY <2>4, <2>5 DEF Descends
<1> QED BY <1>7, <1>8

\* Every other step goes on to an earlier stage.
LEMMA StepDescends ==
    ASSUME Invariant, Step
    PROVE  Descends
<1> SUFFICES ASSUME ~Fill PROVE StagesLeft' < StagesLeft
    BY FillDescends DEF Descends
<1>1. TypeOK /\ Pointers /\ Course
    BY DEF Invariant, Shape, Whole
<1>2. CASE Copy
  <2>1. pc = "copy" /\ pc' = "idle"
    BY <1>2 DEF Copy, Goto
  <2> QED BY ONLY <2>1, StagesAt DEF StagesLeft
<1>3. CASE Radamsa
  <2>1. /\ pc = "radamsa" /\ op' = op /\ run' = run
        /\ (pc' = "normalize" /\ src' = "temp") \/ pc' \in {"expand", "stuck"}
    BY <1>3 DEF Radamsa, Goto
  <2> QED BY ONLY <2>1, StagesAt DEF StagesLeft
<1>4. CASE Normalize
  <2>1. /\ pc = "normalize" /\ op' = op /\ run' = run /\ src' = src
        /\ pc' = "fill" \/ pc' = AfterFill
        /\ src \in {"temp", "first", "combined"}
    BY <1>1, <1>4 DEF Normalize, Goto, TypeOK, Pointers
  <2>2. /\ Stages(op, run, "fill", src) < Stages(op, run, "normalize", src)
        /\ Stages(op, run, AfterFill, src) < Stages(op, run, "normalize", src)
    BY ONLY <2>1, AfterStages
  <2>3. StagesLeft' = Stages(op, run, pc', src)
    BY ONLY <2>1 DEF StagesLeft
  <2> QED BY ONLY <2>1, <2>2, <2>3 DEF StagesLeft
<1>5. CASE FillEnd
  <2>1. /\ pc = "fill" /\ op' = op /\ run' = run /\ src' = src
        /\ pc' = AfterFill
        /\ src \in {"temp", "first", "combined", "input"}
    BY <1>1, <1>5 DEF FillEnd, Goto, TypeOK
  <2> QED BY ONLY <2>1, AfterStages DEF StagesLeft
<1>6. CASE Expand
  <2>1. /\ pc = "expand" /\ op' = op /\ run' = run
        /\ \/ pc' = "normalize" /\ src' = "first"
           \/ pc' = "fill" /\ src' = "input"
           \/ pc' = AfterFuzz
    BY <1>6 DEF Expand, Goto
  <2> QED BY ONLY <2>1, StagesAt DEF StagesLeft, AfterFuzz
<1>7. CASE Again
  <2>1. pc = "again" /\ pc' = "radamsa" /\ run' = 2
    BY <1>7 DEF Again, Goto
  <2> QED BY ONLY <2>1, StagesAt DEF StagesLeft
<1>8. CASE Combine
  <2>1. /\ pc = "combine" /\ op' = op /\ run' = run
        /\ (pc' = "normalize" /\ src' = "combined") \/ pc' = "idle"
    BY <1>8 DEF Combine, Goto
  <2> QED BY ONLY <2>1, StagesAt DEF StagesLeft
<1> QED BY <1>2, <1>3, <1>4, <1>5, <1>6, <1>7, <1>8 DEF Step

\* A call takes at most sixteen stages, each a loop over at most one buffer, and
\* stops nowhere but where it returns or does not come back from radamsa: only an
\* empty message that is to be repeated, because radamsa gave nothing, goes on for
\* ever.
THEOREM CallsComeToAnEnd == Spec => []Bounded /\ [][Step => Descends]_vars
<1>1. Invariant => Bounded
    BY AlwaysBounded
<1>2. Invariant /\ [Next]_vars => [Step => Descends]_vars
    BY StepDescends
<1> QED BY <1>1, <1>2, AlwaysInvariant, PTL DEF Spec

=============================================================================

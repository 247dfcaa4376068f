----------------------------- MODULE FuzzBuffers -----------------------------
(***************************************************************************)
(* The buffers of FuzzerCore (proxy/src/Fuzzer.cpp): what one relay thread *)
(* gets when it hands a message to the fuzzer, call after call, while any  *)
(* malloc and any radamsa may fail.                                        *)
(*                                                                         *)
(* The heap holds the buffer behind each local pointer of the code.  A     *)
(* fresh buffer is full of Junk; the loops that fill one are stepped       *)
(* through copy by copy.  The process behind runRadamsa is RadamsaPipes.   *)
(***************************************************************************)
EXTENDS Naturals, Sequences

CONSTANTS
    Byte, Zero,           \* the bytes, and the one of memset
    Junk,                 \* what malloc leaves in a buffer
    Null,                 \* nullptr
    Inputs,               \* the messages; empty at the end of a TCP stream
    Outputs,              \* what one read may get from radamsa
    MinOutput,            \* MIN_OUTPUT_SIZE
    MaxBuffer             \* MAX_BUFFER_SIZE

\* The length normalizeOutputSize gives to a buffer of n bytes.
Clamp(n) == IF n < MinOutput THEN MinOutput ELSE IF n > MaxBuffer THEN MaxBuffer ELSE n

\* One read gets at most what a pipe holds, 65536 bytes; MIN_OUTPUT_SIZE is six
\* times that, MAX_BUFFER_SIZE a hundred times MIN_OUTPUT_SIZE.
ASSUME BuffersAssumption ==
    /\ Zero \in Byte
    /\ Junk \notin Byte
    /\ Null \notin Seq(Byte \cup {Junk})
    /\ MinOutput \in Nat \ {0}
    /\ MaxBuffer \in Nat /\ MinOutput <= MaxBuffer
    /\ Inputs \subseteq Seq(Byte)
    /\ Outputs \subseteq Seq(Byte) \ {<<>>}
    /\ \A i \in Inputs, o \in Outputs : Len(o) <= MaxBuffer

ASSUME RoomAssumption ==
    /\ \A i \in Inputs : MinOutput + Len(i) + MinOutput <= MaxBuffer
    /\ \A i \in Inputs, o, p \in Outputs :
        Clamp(Len(o)) + Len(i) + Clamp(Len(p)) <= MaxBuffer

Ops == {"pass", "guided", "post", "pre", "full"}

\* tempBuf of runRadamsa, firstFuzz of runRadamsaExpanded, and the fuzzes, the
\* concatenation and the result of the operation itself.
Buffers == {"temp", "first", "fuzz1", "fuzz2", "combined", "result"}

VARIABLES
    op, input,            \* the call, and its message
    pc,                   \* where the thread is
    run,                  \* which call of runRadamsaExpanded it is in
    src,                  \* what a loop copies from: a buffer or the "input"
    copied,               \* how far it has got
    heap,                 \* the buffer behind each pointer
    mallocFailed          \* history: a malloc of this call has failed

vars == <<op, input, pc, run, src, copied, heap, mallocFailed>>

Init ==
    /\ op = "pass"
    /\ input = <<>>
    /\ pc = "idle"
    /\ run = 1
    /\ src = "input"
    /\ copied = 0
    /\ heap = [b \in Buffers |-> Null]
    /\ mallocFailed = FALSE

Goto(from, to) == pc = from /\ pc' = to

Fuzz == IF run = 1 THEN "fuzz1" ELSE "fuzz2"

\* Where the bytes of src go.
Dst == IF src = "temp" THEN "first" ELSE IF src = "combined" THEN "result" ELSE Fuzz

Source == IF src = "input" THEN input ELSE heap[src]

Fresh(n) == [i \in 1..n |-> Junk]

\* What follows the loop, and the end of runRadamsaExpanded.
AfterFuzz == IF op = "full" /\ run = 1 THEN "again" ELSE "combine"

AfterFill == IF src = "temp" THEN "expand" ELSE IF src = "combined" THEN "idle" ELSE AfterFuzz

-----------------------------------------------------------------------------
(* A thread calls the fuzzer; it has freed the result of the last call. *)
Call ==
    /\ op' \in Ops
    /\ input' \in Inputs
    /\ Goto("idle", IF op' \in {"pass", "guided"} THEN "copy" ELSE "radamsa")
    /\ run' = 1
    /\ heap' = [heap EXCEPT !["result"] = Null]
    /\ mallocFailed' = FALSE
    /\ UNCHANGED <<src, copied>>

\* pass copies the message, guidedFuzzing pads it with zeros.
Copy ==
    /\ Goto("copy", "idle")
    /\ \/ /\ heap' = [heap EXCEPT !["result"] =
                 IF op = "pass" THEN input
                 ELSE [i \in 1..Clamp(Len(input)) |->
                          IF i <= Len(input) THEN input[i] ELSE Zero]]
          /\ UNCHANGED mallocFailed
       \/ mallocFailed' = TRUE /\ UNCHANGED heap
    /\ UNCHANGED <<op, input, run, src, copied>>

\* runRadamsa up to its normalisation: some output, or nullptr; or the thread stays
\* in it, because an end of input does not come or a write without a reader has
\* ended the process (RadamsaPipes tells when).
Radamsa ==
    /\ \/ /\ Goto("radamsa", "normalize")
          /\ \E o \in Outputs : heap' = [heap EXCEPT !["temp"] = o]
          /\ src' = "temp"
       \/ /\ Goto("radamsa", "expand") \/ Goto("radamsa", "stuck")
          /\ UNCHANGED <<heap, src>>
    /\ UNCHANGED <<op, input, run, copied, mallocFailed>>

\* Mutated form: the buffer that was to be normalised is not freed when malloc fails.
NormalizeLeaks ==
    /\ \/ /\ Goto("normalize", "fill")
          /\ heap' = [heap EXCEPT ![Dst] = Fresh(Clamp(Len(heap[src])))]
          /\ copied' = 0
          /\ UNCHANGED mallocFailed
       \/ /\ Goto("normalize", AfterFill)
          /\ mallocFailed' = TRUE
          /\ UNCHANGED <<heap, copied>>
    /\ UNCHANGED <<op, input, run, src>>

\* normalizeOutputSize: the copy has its length from the start and is filled by
\* one copy of the buffer, cut where it is too long, or by as many as it takes.
Normalize ==
    /\ \/ /\ Goto("normalize", "fill")
          /\ heap' = [heap EXCEPT ![Dst] = Fresh(Clamp(Len(heap[src])))]
          /\ copied' = 0
          /\ UNCHANGED mallocFailed
       \/ /\ Goto("normalize", AfterFill)
          /\ heap' = [heap EXCEPT ![src] = Null]
          /\ mallocFailed' = TRUE
          /\ UNCHANGED copied
    /\ UNCHANGED <<op, input, run, src>>

\* What is left to fill, but no more than the source has.
CopyLength ==
    LET left == Len(heap[Dst]) - copied
    IN  IF Len(Source) < left THEN Len(Source) ELSE left

\* One iteration of a loop that repeats the source: for an empty one it changes
\* nothing.
Fill ==
    /\ pc = "fill"
    /\ copied < Len(heap[Dst])
    /\ heap' = [heap EXCEPT ![Dst] = [i \in DOMAIN @ |->
                   IF copied < i /\ i <= copied + CopyLength THEN Source[i - copied] ELSE @[i]]]
    /\ copied' = copied + CopyLength
    /\ UNCHANGED <<op, input, pc, run, src, mallocFailed>>

\* Mutated form: the loop ends one byte early.
FillEndEarly ==
    /\ Goto("fill", AfterFill)
    /\ copied + 1 >= Len(heap[Dst])
    /\ heap' = IF src = "input" THEN heap ELSE [heap EXCEPT ![src] = Null]
    /\ UNCHANGED <<op, input, run, src, copied, mallocFailed>>

\* The loop is over: what a normalisation copied from is freed.
FillEnd ==
    /\ Goto("fill", AfterFill)
    /\ copied >= Len(heap[Dst])
    /\ heap' = IF src = "input" THEN heap ELSE [heap EXCEPT ![src] = Null]
    /\ UNCHANGED <<op, input, run, src, copied, mallocFailed>>

\* Mutated forms: without a first fuzz there is none at all; the loop starts one
\* byte too early.
ExpandOnlyFirst ==
    /\ \/ /\ heap["first"] # Null
          /\ Goto("expand", "normalize")
          /\ src' = "first"
       \/ /\ heap["first"] = Null
          /\ Goto("expand", AfterFuzz)
          /\ UNCHANGED src
    /\ UNCHANGED <<op, input, run, copied, heap, mallocFailed>>

ExpandOffByOne ==
    /\ Goto("expand", "fill")
    /\ src' = "input"
    /\ heap' = [heap EXCEPT !["first"] = Null, ![Fuzz] = Fresh(MinOutput)]
    /\ copied' = 0 - 1
    /\ UNCHANGED <<op, input, run, mallocFailed>>

\* The rest of runRadamsaExpanded.  A first fuzz that is long enough is
\* normalised again; one that is too short, or none at all, is followed by
\* repetitions of the input.
Expand ==
    LET first == IF heap["first"] = Null THEN <<>> ELSE heap["first"] IN
    /\ \/ /\ Len(first) >= MinOutput
          /\ Goto("expand", "normalize")
          /\ src' = "first"
          /\ UNCHANGED <<heap, copied, mallocFailed>>
       \/ /\ Len(first) < MinOutput
          /\ Goto("expand", "fill")
          /\ src' = "input"
          /\ heap' = [heap EXCEPT !["first"] = Null,
                                  ![Fuzz] = first \o Fresh(MinOutput - Len(first))]
          /\ copied' = Len(first)
          /\ UNCHANGED mallocFailed
       \/ /\ Len(first) < MinOutput
          /\ Goto("expand", AfterFuzz)
          /\ heap' = [heap EXCEPT !["first"] = Null]
          /\ mallocFailed' = TRUE
          /\ UNCHANGED <<src, copied>>
    /\ UNCHANGED <<op, input, run>>

\* Mutated form: it does not keep count.
AgainForever ==
    /\ Goto("again", "radamsa")
    /\ UNCHANGED <<op, input, run, src, copied, heap, mallocFailed>>

\* fullFuzzing asks for a second fuzz.
Again ==
    /\ Goto("again", "radamsa")
    /\ run' = 2
    /\ UNCHANGED <<op, input, src, copied, heap, mallocFailed>>

OrEmpty(b) == IF heap[b] = Null THEN <<>> ELSE heap[b]

\* Mutated form: the second fuzz comes before the original.
ConcatenationSwapped ==
    IF op = "post" THEN input \o OrEmpty("fuzz1")
    ELSE IF op = "pre" THEN OrEmpty("fuzz1") \o input
    ELSE OrEmpty("fuzz1") \o OrEmpty("fuzz2") \o input

\* [original][fuzz], [fuzz][original] or [fuzz1][original][fuzz2].
Concatenation ==
    IF op = "post" THEN input \o OrEmpty("fuzz1")
    ELSE IF op = "pre" THEN OrEmpty("fuzz1") \o input
    ELSE OrEmpty("fuzz1") \o input \o OrEmpty("fuzz2")

\* Without any fuzz the result is a copy of the message; otherwise the
\* concatenation is normalised.
Combine ==
    LET fuzzed == heap["fuzz1"] # Null \/ heap["fuzz2"] # Null IN
    /\ \/ /\ fuzzed
          /\ Goto("combine", "normalize")
          /\ heap' = [heap EXCEPT !["fuzz1"] = Null, !["fuzz2"] = Null,
                                  !["combined"] = Concatenation]
          /\ src' = "combined"
          /\ UNCHANGED mallocFailed
       \/ /\ ~fuzzed
          /\ Goto("combine", "idle")
          /\ heap' = [heap EXCEPT !["result"] = input]
          /\ UNCHANGED <<src, mallocFailed>>
       \/ /\ Goto("combine", "idle")
          /\ heap' = [heap EXCEPT !["fuzz1"] = Null, !["fuzz2"] = Null]
          /\ mallocFailed' = TRUE
          /\ UNCHANGED src
    /\ UNCHANGED <<op, input, run, copied>>

-----------------------------------------------------------------------------
Step == Copy \/ Radamsa \/ Normalize \/ Fill \/ FillEnd \/ Expand \/ Again \/ Combine

Next == Call \/ Step

Spec == Init /\ [][Next]_vars

FairSpec == Spec /\ WF_vars(Step)

-----------------------------------------------------------------------------
(* Properties. *)

\* Type invariant of the buffers.
TypeOK ==
    /\ op \in Ops
    /\ input \in Inputs \cup {<<>>}
    /\ pc \in {"idle", "copy", "radamsa", "stuck", "normalize", "fill", "expand", "again",
              "combine"}
    /\ run \in {1, 2}
    /\ src \in {"input", "temp", "first", "combined"}
    /\ copied \in Nat
    /\ heap \in [Buffers -> Seq(Byte \cup {Junk}) \cup {Null}]
    /\ mallocFailed \in BOOLEAN

\* A call leaves nothing allocated but what it returns, whichever of its
\* allocations and radamsas failed.
NoLeak == pc = "idle" => \A b \in Buffers \ {"result"} : heap[b] = Null

\* No byte of a result is one that malloc left there: the loops leave no gap.
Initialised ==
    pc = "idle" /\ heap["result"] # Null =>
        \A i \in DOMAIN heap["result"] : heap["result"][i] # Junk

\* The message is all there and where it should be: in front after postFuzzing,
\* at the end after preFuzzing, between two fuzzes after fullFuzzing, of which
\* only a malloc that failed can take one away.  No normalisation cuts or shifts it.
OriginalIntact ==
    pc = "idle" /\ heap["result"] # Null =>
        LET r == heap["result"]
            n == Len(input)
            At(k) == k + n <= Len(r) /\ \A i \in 1..n : r[k + i] = input[i]
        IN  /\ op \in {"pass", "guided", "post"} => At(0)
            /\ op = "pre" => Len(r) >= n /\ At(Len(r) - n)
            /\ op = "full" => \E k \in 0..Len(r) :
                  /\ At(k)
                  /\ \A m \in {k, Len(r) - k - n} :
                        m >= MinOutput \/ (mallocFailed /\ m = 0)

\* The header of the file: what is fuzzed has a length between MIN_OUTPUT_SIZE
\* and MAX_BUFFER_SIZE, also when radamsa fails, as long as malloc does not.
FuzzedLength ==
    pc = "idle" /\ op # "pass" /\ ~mallocFailed =>
        heap["result"] # Null /\ Len(heap["result"]) \in MinOutput..MaxBuffer

\* A call returns, through every loop and whatever fails, in all cases but two: its
\* radamsa does not, or there is nothing to repeat, because the message is empty
\* and radamsa gave no output.
CallReturns ==
    pc # "idle" ~> pc \in {"idle", "stuck"} \/ (pc = "fill" /\ Source = <<>>)
=============================================================================

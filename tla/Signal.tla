------------------------------- MODULE Signal -------------------------------
(***************************************************************************)
(* core::Signal: a width, a data type, a data format and a raw pointer.    *)
(* A CONTIGUOUS_ZEROCOPY signal points into the memory of the engine; the  *)
(* other formats own a heap buffer with a copy of the data.                *)
(*                                                                         *)
(* Several Signal objects live at a time: they are copied, moved,          *)
(* initialized, written and destroyed in any order, while the engine       *)
(* writes its own memory.                                                  *)
(***************************************************************************)
EXTENDS Naturals, Sequences, FiniteSets

CONSTANTS
  Slots,      \* the variables that may hold a Signal object
  Formats,    \* the data formats in use
  Types,      \* the port data types in use
  Values,     \* the values of an element; 0 is among them
  NumCells,   \* the engine's memory holds the cells 1..NumCells
  MaxLen,     \* bound: the longest buffer
  MaxBuffers, \* bound: heap buffers at a time
  Careful     \* no caller initializes a signal twice or passes it its own buffer

ASSUME SignalAssumption ==
  /\ Formats \subseteq {"NONCONTIGUOUS", "CONTIGUOUS", "CONTIGUOUS_ZEROCOPY"}
  /\ Types \subseteq {"DOUBLE", "SINGLE", "INT8"}
  /\ 0 \in Values
  /\ NumCells \in Nat /\ MaxLen \in Nat /\ MaxBuffers \in Nat
  /\ Careful \in BOOLEAN

VARIABLES
  mem,      \* the memory of the engine
  heap,     \* the buffers allocated with new double[]
  sig,      \* sig[s]: the Signal in slot s
  given,    \* given[s]: the elements the owner of the Signal in slot s last gave it
  ok,       \* the value the last call returned
  faulted   \* the accesses to freed memory: a signal made them through its own pointer
            \* ("stale"), or setBuffer to the data it was given ("argument")

vars == <<mem, heap, sig, given, ok, faulted>>

-----------------------------------------------------------------------------
Cells   == 1..NumCells
Buffers == 1..MaxBuffers
Lengths == 0..MaxLen
Data    == UNION {[1..n -> Values] : n \in Lengths}

Null       == [to |-> "null", at |-> 0]
Engine(c)  == [to |-> "engine", at |-> c]
Heap(h)    == [to |-> "heap", at |-> h]
Pointers   == {Null} \cup {Engine(c) : c \in Cells} \cup {Heap(h) : h \in Buffers}

Dead   == [alive |-> FALSE, format |-> "CONTIGUOUS_ZEROCOPY", type |-> "DOUBLE", width |-> 0, ptr |-> Null]
Free   == [live |-> FALSE, data |-> <<>>]

ZeroCopy(s) == sig[s].format = "CONTIGUOUS_ZEROCOPY"
Owns(s)     == sig[s].alive /\ ~ZeroCopy(s) /\ sig[s].ptr # Null
Alive(s)    == sig[s].alive

\* n elements from cell c on; the engine hands out ranges of its own memory only.
InEngine(c, n) == c + n - 1 <= NumCells
EngineData(c, n) == [i \in 1..n |-> mem[c + i - 1]]

DataAt(p, n) == IF p.to = "heap" THEN SubSeq(heap[p.at].data, 1, n) ELSE EngineData(p.at, n)
Content(s)   == DataAt(sig[s].ptr, sig[s].width)

\* new double[] returns a buffer that is not in use.
Unused == {h \in Buffers : ~heap[h].live}
Fresh  == CHOOSE h \in Unused : \A j \in Unused : h <= j

\* A signal frees its buffer h, or accesses it.
Touched(h) == IF heap[h].live THEN faulted ELSE faulted \cup {"stale"}

With(s, width, ptr) == [sig EXCEPT ![s].width = width, ![s].ptr = ptr]

Returns(b) == ok' = b
Fails      == Returns(FALSE) /\ UNCHANGED <<mem, heap, sig, given, faulted>>

-----------------------------------------------------------------------------
(* Construction and destruction *)

Construct(s, f, t) ==
  /\ ~Alive(s)
  /\ sig' = [sig EXCEPT ![s] = [alive |-> TRUE, format |-> f, type |-> t, width |-> 0, ptr |-> Null]]
  /\ given' = [given EXCEPT ![s] = <<>>]
  /\ Returns(TRUE)
  /\ UNCHANGED <<mem, heap, faulted>>

\* Mutant of CopyConstruct: the pointer is copied, the data is not.
MutantCopyConstruct(s, o) ==
  /\ ~Alive(s) /\ Alive(o)
  /\ sig' = [sig EXCEPT ![s] = sig[o]]
  /\ given' = [given EXCEPT ![s] = given[o]]
  /\ Returns(TRUE)
  /\ UNCHANGED <<mem, heap, faulted>>

\* Signal(const Signal&).  allocateBuffer only knows how to copy DOUBLE.
CopyConstruct(s, o) ==
  /\ ~Alive(s) /\ Alive(o)
  /\ given' = [given EXCEPT ![s] = given[o]]
  /\ Returns(TRUE)
  /\ UNCHANGED <<mem, faulted>>
  /\ \/ /\ sig[o].ptr = Null \/ ZeroCopy(o) \/ sig[o].type # "DOUBLE"
        /\ sig' = [sig EXCEPT ![s] = sig[o]]
        /\ UNCHANGED heap
     \/ /\ sig[o].ptr # Null /\ ~ZeroCopy(o) /\ sig[o].type = "DOUBLE"
        /\ Unused # {}
        /\ heap' = [heap EXCEPT ![Fresh] = [live |-> TRUE, data |-> Content(o)]]
        /\ sig' = [sig EXCEPT ![s] = [sig[o] EXCEPT !.ptr = Heap(Fresh)]]

\* Mutant of MoveConstruct: the moved-from object keeps its pointer.
MutantMoveConstruct(s, o) ==
  /\ ~Alive(s) /\ Alive(o)
  /\ sig' = [sig EXCEPT ![s] = sig[o]]
  /\ given' = [given EXCEPT ![s] = given[o]]
  /\ Returns(TRUE)
  /\ UNCHANGED <<mem, heap, faulted>>

\* Signal(Signal&&)
MoveConstruct(s, o) ==
  /\ ~Alive(s) /\ Alive(o)
  /\ sig' = [sig EXCEPT ![s] = sig[o], ![o].width = 0, ![o].ptr = Null]
  /\ given' = [given EXCEPT ![s] = given[o], ![o] = <<>>]
  /\ Returns(TRUE)
  /\ UNCHANGED <<mem, heap, faulted>>

\* Mutant of Destroy: a missing deleteBuffer.
MutantDestroy(s) ==
  /\ Alive(s)
  /\ sig' = [sig EXCEPT ![s] = Dead]
  /\ given' = [given EXCEPT ![s] = <<>>]
  /\ Returns(TRUE)
  /\ UNCHANGED <<mem, heap, faulted>>

\* ~Signal and deleteBuffer
Destroy(s) ==
  /\ Alive(s)
  /\ sig' = [sig EXCEPT ![s] = Dead]
  /\ given' = [given EXCEPT ![s] = <<>>]
  /\ Returns(TRUE)
  /\ UNCHANGED mem
  /\ IF Owns(s) /\ sig[s].type = "DOUBLE"
     THEN LET h == sig[s].ptr.at IN
          /\ heap' = [heap EXCEPT ![h] = Free]
          /\ faulted' = Touched(h)
     ELSE UNCHANGED <<heap, faulted>>

-----------------------------------------------------------------------------
(* Initialization from a buffer of the engine *)

MayInitialize(s) == Alive(s) /\ (Careful => sig[s].ptr = Null)

\* The argument checks that the three methods share; c = 0 is a null pointer.
\* The engine passes ranges of its memory.
Rejected(s, f, c, n) == sig[s].format # f \/ c = 0 \/ n = 0

InitializeBufferFromContiguousZeroCopy(s, c, n) ==
  LET f == "CONTIGUOUS_ZEROCOPY" IN
  /\ MayInitialize(s)
  /\ IF Rejected(s, f, c, n) THEN Fails
     ELSE /\ InEngine(c, n)
          /\ sig' = With(s, n, Engine(c))
          /\ given' = [given EXCEPT ![s] = <<>>]
          /\ Returns(TRUE)
          /\ UNCHANGED <<mem, heap, faulted>>

\* A new buffer takes the place of the pointer, whatever the pointer was.  With a
\* type other than DOUBLE only the width changes, and the call still succeeds.
StoreCopy(s, n, asked, data) ==
  /\ Returns(TRUE)
  /\ UNCHANGED <<mem, faulted>>
  /\ \/ /\ sig[s].type = "DOUBLE"
        /\ Unused # {}
        /\ heap' = [heap EXCEPT ![Fresh] = [live |-> TRUE, data |-> data]]
        /\ sig' = With(s, n, Heap(Fresh))
        /\ given' = [given EXCEPT ![s] = asked]
     \/ /\ sig[s].type # "DOUBLE"
        /\ sig' = With(s, n, sig[s].ptr)
        /\ UNCHANGED <<heap, given>>

InitializeBufferFromContiguous(s, c, n) ==
  /\ MayInitialize(s)
  /\ IF Rejected(s, "CONTIGUOUS", c, n) THEN Fails
     ELSE /\ InEngine(c, n)
          /\ StoreCopy(s, n, EngineData(c, n), EngineData(c, n))

\* What the loop over bufferPtrs reads: always through the first pointer, and
\* past the end of the engine's memory anything.
ReadThrough(ptrs, n) ==
  {d \in [1..n -> Values] :
     \A i \in 1..n : InEngine(ptrs[1], i) => d[i] = mem[ptrs[1] + i - 1]}

\* bufferPtrs is an array of pointers to the elements.
InitializeBufferFromNonContiguous(s, ptrs) ==
  LET n == Len(ptrs) IN
  /\ MayInitialize(s)
  /\ IF Rejected(s, "NONCONTIGUOUS", 1, n) THEN Fails
     ELSE \E data \in ReadThrough(ptrs, n) :
            StoreCopy(s, n, [i \in 1..n |-> mem[ptrs[i]]], data)

-----------------------------------------------------------------------------
(* Access *)

\* set(index, data); index counts from 0.
Set(s, index, v) ==
  /\ Alive(s)
  /\ IF sig[s].width <= index \/ sig[s].ptr = Null \/ sig[s].type \notin {"DOUBLE", "SINGLE"}
     THEN Fails
     ELSE /\ Returns(TRUE)
          /\ UNCHANGED sig
          /\ IF sig[s].ptr.to = "heap"
             THEN LET h == sig[s].ptr.at IN
                  /\ heap' = [heap EXCEPT ![h].data[index + 1] = v]
                  /\ given' = [given EXCEPT ![s][index + 1] = v]
                  /\ faulted' = Touched(h)
                  /\ UNCHANGED mem
             ELSE /\ mem' = [mem EXCEPT ![sig[s].ptr.at + index] = v]
                  /\ UNCHANGED <<heap, given, faulted>>

\* The data that setBuffer may be given: a range of the engine, or the buffer of
\* a signal.
Sources ==
  {Engine(c) : c \in Cells} \cup ({sig[o].ptr : o \in {o \in Slots : Alive(o)}} \ {Null})
Readable(p, n) ==
  IF p.to = "heap" THEN n <= Len(heap[p.at].data) ELSE InEngine(p.at, n)

\* Mutant of ReplaceBuffer: the data goes after the old data.
MutantReplaceBuffer(s, p, n) ==
  LET h == sig[s].ptr.at IN
  /\ heap' = [heap EXCEPT ![h].data = @ \o DataAt(p, n)]
  /\ sig' = With(s, n, Heap(h))
  /\ given' = [given EXCEPT ![s] = DataAt(p, n)]
  /\ UNCHANGED <<mem, faulted>>

\* CONTIGUOUS: the old buffer is deleted before the data is copied; with a caller that
\* passed that buffer, the copy reads freed memory and gets whatever it holds.
ReplaceBuffer(s, p, n) ==
  LET h == sig[s].ptr.at IN
  \E data \in IF p = sig[s].ptr THEN [1..n -> Values] ELSE {DataAt(p, n)} :
    /\ heap' = [heap EXCEPT ![h] = [live |-> TRUE, data |-> data]]
    /\ sig' = With(s, n, Heap(h))
    /\ given' = [given EXCEPT ![s] = DataAt(p, n)]
    /\ faulted' = Touched(h) \cup {f \in {"argument"} : p = sig[s].ptr /\ n > 0}
    /\ UNCHANGED mem

\* CONTIGUOUS_ZEROCOPY: the engine's memory is overwritten (after it was cleared,
\* when the width changes), and the width shrinks.
OverwriteBuffer(s, p, n) ==
  LET c       == sig[s].ptr.at
      cleared == IF n # sig[s].width
                 THEN [i \in Cells |-> IF i \in c..(c + n - 1) THEN 0 ELSE mem[i]] ELSE mem
      source(i) == IF p.to = "heap" THEN heap[p.at].data[i] ELSE cleared[p.at + i - 1]
  IN
  /\ mem' = [i \in Cells |-> IF i \in c..(c + n - 1) THEN source(i - c + 1) ELSE cleared[i]]
  /\ sig' = With(s, n, sig[s].ptr)
  /\ UNCHANGED <<heap, given, faulted>>

\* Mutant of SetBuffer: the length is not compared with the width.
MutantSetBuffer(s, p, n) ==
  /\ Alive(s)
  /\ Readable(p, n)
  /\ Careful => p # sig[s].ptr
  /\ IF sig[s].format = "NONCONTIGUOUS" \/ sig[s].ptr = Null \/ sig[s].type # "DOUBLE"
     THEN Fails
     ELSE /\ Returns(TRUE)
          /\ IF ZeroCopy(s) THEN OverwriteBuffer(s, p, n) ELSE ReplaceBuffer(s, p, n)

SetBuffer(s, p, n) ==
  /\ Alive(s)
  /\ Readable(p, n)
  /\ Careful => p # sig[s].ptr
  /\ IF \/ sig[s].format = "NONCONTIGUOUS"
        \/ ZeroCopy(s) /\ n > sig[s].width
        \/ sig[s].ptr = Null \/ sig[s].type # "DOUBLE"
     THEN Fails
     ELSE /\ Returns(TRUE)
          /\ IF ZeroCopy(s) THEN OverwriteBuffer(s, p, n) ELSE ReplaceBuffer(s, p, n)

EngineWrites(c, v) ==
  /\ mem' = [mem EXCEPT ![c] = v]
  /\ UNCHANGED <<heap, sig, given, ok, faulted>>

-----------------------------------------------------------------------------
Init ==
  /\ mem \in [Cells -> Values]
  /\ heap = [h \in Buffers |-> Free]
  /\ sig = [s \in Slots |-> Dead]
  /\ given = [s \in Slots |-> <<>>]
  /\ ok = TRUE
  /\ faulted = {}

Next ==
  \/ \E s \in Slots :
       \/ \E f \in Formats, t \in Types : Construct(s, f, t)
       \/ \E o \in Slots : CopyConstruct(s, o) \/ MoveConstruct(s, o)
       \/ Destroy(s)
       \/ \E c \in 0..NumCells, n \in Lengths :
            \/ InitializeBufferFromContiguousZeroCopy(s, c, n)
            \/ InitializeBufferFromContiguous(s, c, n)
       \/ \E n \in Lengths : \E ptrs \in [1..n -> Cells] : InitializeBufferFromNonContiguous(s, ptrs)
       \/ \E i \in Lengths, v \in Values : Set(s, i, v)
       \/ \E p \in Sources, n \in Lengths : SetBuffer(s, p, n)
  \/ \E c \in Cells, v \in Values : EngineWrites(c, v)

Spec == Init /\ [][Next]_vars

-----------------------------------------------------------------------------
(* Properties *)

\* Every variable has its type.
TypeOK ==
  /\ mem \in [Cells -> Values]
  /\ \A h \in Buffers : heap[h].live \in BOOLEAN /\ heap[h].data \in Data
  /\ \A s \in Slots :
       /\ sig[s].alive \in BOOLEAN
       /\ sig[s].width \in Lengths
       /\ sig[s].ptr \in Pointers
       /\ given[s] \in Data
  /\ ok \in BOOLEAN /\ faulted \subseteq {"stale", "argument"}

\* A signal for which isValid() is true can be read and written at every index
\* below getWidth(), whatever copies, moves and setBuffer calls went before.
BuffersInBounds ==
  \A s \in Slots : Alive(s) /\ sig[s].ptr # Null /\ sig[s].width > 0 =>
    IF sig[s].ptr.to = "heap"
    THEN heap[sig[s].ptr.at].live /\ Len(heap[sig[s].ptr.at].data) >= sig[s].width
    ELSE ZeroCopy(s) /\ InEngine(sig[s].ptr.at, sig[s].width)

\* Two signals never own the same buffer, although the copy constructor copies
\* the pointer first and allocateBuffer gives up on some types: no buffer is freed
\* twice, or used by a signal after it was freed.  Only setBuffer reads freed memory,
\* when its caller passes it the buffer that it is about to delete.
OwnersAreDistinct ==
  /\ "stale" \notin faulted
  /\ Careful => faulted = {}
  /\ \A s, o \in Slots : s # o /\ Owns(s) /\ Owns(o) => sig[s].ptr # sig[o].ptr

\* A CONTIGUOUS signal holds what its owner last put in it, however the engine's
\* memory, the source and the other signals changed since.
OwnedContentIsGiven ==
  \A s \in Slots : Owns(s) /\ sig[s].format = "CONTIGUOUS" => Content(s) = given[s]

\* Callers that initialize a signal once leak no buffer.
NothingLeaked ==
  \A h \in Buffers : heap[h].live => \E s \in Slots : Owns(s) /\ sig[s].ptr = Heap(h)

\* The data of an owned buffer, whole.
Buffer(s) == heap[sig[s].ptr.at].data

\* A step changes the buffer of one owning signal at most: a write to a copy, or
\* to its source, is never seen through the other.
CopiesAreIndependent ==
  [][\A s, o \in Slots :
       /\ Owns(s) /\ Owns(s)' /\ Buffer(s)' # Buffer(s)
       /\ Owns(o) /\ Owns(o)' /\ Buffer(o)' # Buffer(o)
       => s = o]_vars

-----------------------------------------------------------------------------
(* Statements of the repository that the code does not keep *)

\* Signal.h, initializeBufferFromNonContiguous: "Each of these pointers points to
\* a data element."  The signal holds the elements the pointers lead to.
NonContiguousIsGathered ==
  \A s \in Slots : Owns(s) /\ sig[s].format = "NONCONTIGUOUS" => Content(s) = given[s]
=============================================================================

---------------------------- MODULE SignalProofs -----------------------------
(***************************************************************************)
(* Proofs about Signal, for any number of signals, buffers and values.     *)
(* The inductive invariant says of each pointer what it leads to, of each  *)
(* buffer that it has one owner, and, when the callers are careful, that   *)
(* every buffer has an owner and the content that was asked for.           *)
(***************************************************************************)
EXTENDS Signal, SequenceTheorems, IntervalInduction

AllFormats == {"NONCONTIGUOUS", "CONTIGUOUS", "CONTIGUOUS_ZEROCOPY"}
AllTypes   == {"DOUBLE", "SINGLE", "INT8"}

SignalType == [alive : BOOLEAN, format : AllFormats, type : AllTypes, width : Lengths, ptr : Pointers]
BufferType == [live : BOOLEAN, data : Data]

\* No signal met a dangling pointer, and careful callers no freed memory at all.
FaultInv == faulted \subseteq {"argument"} /\ (Careful => faulted = {})

TypeInv ==
  /\ mem \in [Cells -> Values]
  /\ heap \in [Buffers -> BufferType]
  /\ sig \in [Slots -> SignalType]
  /\ given \in [Slots -> Data]
  /\ ok \in BOOLEAN /\ FaultInv

OnHeap(s)   == sig[s].ptr.to = "heap"
InMemory(s) == sig[s].ptr.to = "engine"

\* Only signals of DOUBLE that are not zero-copy own a buffer, and it is as long as
\* the signal; only zero-copy signals point into the engine.
PtrInv ==
  \A s \in Slots :
    /\ ~Alive(s) => sig[s].ptr = Null
    /\ OnHeap(s) => /\ ~ZeroCopy(s) /\ sig[s].type = "DOUBLE"
                    /\ heap[sig[s].ptr.at].live
                    /\ Len(Buffer(s)) = sig[s].width
    /\ InMemory(s) => ZeroCopy(s) /\ InEngine(sig[s].ptr.at, sig[s].width)

DistinctInv == \A s, o \in Slots : s # o /\ OnHeap(s) => sig[s].ptr # sig[o].ptr

ContentInv ==
  Careful => \A s \in Slots : OnHeap(s) /\ sig[s].format = "CONTIGUOUS" => Buffer(s) = given[s]

LeakInv ==
  Careful => \A h \in Buffers : heap[h].live => \E s \in Slots : sig[s].ptr = Heap(h)

IInv == TypeInv /\ PtrInv /\ DistinctInv /\ ContentInv /\ LeakInv

-----------------------------------------------------------------------------
(* Data, pointers and the heap *)

\* Data holds the sequences of at most MaxLen values.
LEMMA DataIsSeq ==
  ASSUME SignalAssumption, NEW d \in Data
  PROVE  d \in Seq(Values) /\ Len(d) \in Lengths /\ d \in [1..Len(d) -> Values]
<1>1. PICK n \in Lengths : d \in [1..n -> Values]
  BY DEF Data
<1>2. n \in Nat
  BY <1>1 DEF Lengths, SignalAssumption
<1>3. d \in Seq(Values)
  BY <1>1, <1>2
<1>4. Len(d) \in Nat /\ DOMAIN d = 1..Len(d)
  BY <1>3, LenProperties
<1>5. Len(d) = n
  BY <1>1, <1>2, <1>4
<1>6. QED  BY <1>1, <1>3, <1>5

LEMMA SeqIsData ==
  ASSUME SignalAssumption, NEW n \in Lengths, NEW d \in [1..n -> Values]
  PROVE  d \in Data /\ Len(d) = n
<1>1. d \in Data
  BY DEF Data
<1>2. DOMAIN d = 1..Len(d) /\ Len(d) \in Nat /\ n \in Nat
  BY <1>1, DataIsSeq DEF Lengths, SignalAssumption
<1>3. QED  BY <1>1, <1>2

\* A write inside a buffer, or past its end, keeps its length.
LEMMA DataWritten ==
  ASSUME SignalAssumption, NEW d \in Data, NEW i, NEW v \in Values
  PROVE  [d EXCEPT ![i] = v] \in Data /\ Len([d EXCEPT ![i] = v]) = Len(d)
<1>1. d \in [1..Len(d) -> Values] /\ Len(d) \in Lengths
  BY DataIsSeq
<1>2. [d EXCEPT ![i] = v] \in [1..Len(d) -> Values]
  BY <1>1
<1>3. QED  BY <1>1, <1>2, SeqIsData

\* A pointer is null, leads to a cell or leads to a buffer.
LEMMA PointerCases ==
  ASSUME SignalAssumption, NEW p \in Pointers
  PROVE  \/ p = Null /\ p.to = "null"
         \/ p.to = "engine" /\ p.at \in Cells /\ p = Engine(p.at) /\ p # Null
         \/ p.to = "heap" /\ p.at \in Buffers /\ p = Heap(p.at) /\ p # Null
BY DEF Pointers, Null, Engine, Heap

\* new double[] returns a buffer, and not one in use.
LEMMA FreshIsUnused ==
  ASSUME SignalAssumption, Unused # {}
  PROVE  Fresh \in Buffers /\ ~heap[Fresh].live
<1>1. Unused \subseteq Nat
  BY DEF Unused, Buffers, SignalAssumption
<1>2. \E h \in Unused : \A j \in Unused : h <= j
  BY <1>1, LeastNatural
<1>3. Fresh \in Unused
  BY <1>2 DEF Fresh
<1>4. QED  BY <1>3 DEF Unused

-----------------------------------------------------------------------------
(* Owners *)

LEMMA OwnersAreOnHeap ==
  ASSUME SignalAssumption, TypeInv, PtrInv, NEW s \in Slots
  PROVE  /\ Owns(s) <=> OnHeap(s)
         /\ OnHeap(s) => /\ sig[s].ptr.at \in Buffers /\ sig[s].ptr = Heap(sig[s].ptr.at)
                         /\ Alive(s)
         /\ InMemory(s) => sig[s].ptr.at \in Cells
         /\ sig[s].ptr = Null \/ OnHeap(s) \/ InMemory(s)
         /\ sig[s].ptr = Null => ~OnHeap(s) /\ ~InMemory(s)
<1>1. \/ sig[s].ptr = Null /\ sig[s].ptr.to = "null"
      \/ sig[s].ptr.to = "engine" /\ sig[s].ptr.at \in Cells /\ sig[s].ptr # Null
      \/ /\ sig[s].ptr.to = "heap" /\ sig[s].ptr.at \in Buffers
         /\ sig[s].ptr = Heap(sig[s].ptr.at) /\ sig[s].ptr # Null
  <2>1. sig[s].ptr \in Pointers
    BY DEF TypeInv, SignalType
  <2>2. QED  BY <2>1, PointerCases
<1>2. QED  BY <1>1 DEF PtrInv, Owns, OnHeap, InMemory, Alive

\* The buffers of the signals other than s.
OthersKept(s) ==
  \A x \in Slots : x # s /\ Owns(x) /\ Owns(x)' => Buffer(x)' = Buffer(x)

\* One signal at most has its buffer changed.
Independent ==
  \A s, o \in Slots :
    /\ Owns(s) /\ Owns(s)' /\ Buffer(s)' # Buffer(s)
    /\ Owns(o) /\ Owns(o)' /\ Buffer(o)' # Buffer(o)
    => s = o

\* The state of the signals other than s.
OthersSame(s) ==
  /\ sig' \in [Slots -> SignalType] /\ given' \in [Slots -> Data]
  /\ \A x \in Slots : x # s => sig'[x] = sig[x] /\ given'[x] = given[x]

\* A step of signal s that neither gives it a buffer nor takes one from it.
LEMMA WithoutBuffer ==
  ASSUME SignalAssumption, IInv, NEW s \in Slots, OthersSame(s), ~OnHeap(s),
         heap' = heap, mem' \in [Cells -> Values], ok' \in BOOLEAN, faulted' = faulted,
         sig'[s].ptr.to # "heap", ~sig'[s].alive => sig'[s].ptr = Null,
         sig'[s].ptr.to = "engine" => /\ sig'[s].format = "CONTIGUOUS_ZEROCOPY"
                                      /\ InEngine(sig'[s].ptr.at, sig'[s].width)
  PROVE  IInv' /\ OthersKept(s)
<1>1. TypeInv /\ PtrInv /\ DistinctInv /\ ContentInv /\ LeakInv
  BY DEF IInv
<1>2. \A x \in Slots : x # s => sig'[x] = sig[x] /\ given'[x] = given[x]
  BY DEF OthersSame
<1>3. TypeInv'
  BY <1>1 DEF TypeInv, OthersSame, FaultInv, Cells, Buffers, Lengths
<1>4. PtrInv'
  <2> SUFFICES ASSUME NEW x \in Slots
      PROVE  /\ ~Alive(x)' => sig'[x].ptr = Null
             /\ OnHeap(x)' => /\ ~ZeroCopy(x)' /\ sig'[x].type = "DOUBLE"
                              /\ heap'[sig'[x].ptr.at].live
                              /\ Len(Buffer(x)') = sig'[x].width
             /\ InMemory(x)' => ZeroCopy(x)' /\ InEngine(sig'[x].ptr.at, sig'[x].width)
    BY DEF PtrInv, InEngine
  <2>1. CASE x = s
    BY <2>1 DEF OnHeap, InMemory, ZeroCopy, Alive
  <2>2. CASE x # s
    BY <1>1, <1>2, <2>2 DEF PtrInv, OnHeap, InMemory, ZeroCopy, Alive, Buffer
  <2>3. QED  BY <2>1, <2>2
<1>5. \A x \in Slots : OnHeap(x)' => x # s /\ OnHeap(x) /\ Buffer(x)' = Buffer(x)
  BY <1>2 DEF OnHeap, Buffer
<1>6. DistinctInv'
  <2> SUFFICES ASSUME NEW x \in Slots, NEW y \in Slots, x # y, OnHeap(x)'
      PROVE  sig'[x].ptr # sig'[y].ptr
    BY DEF DistinctInv
  <2>1. CASE y = s
    BY <2>1 DEF OnHeap
  <2>2. CASE y # s
    BY <1>1, <1>2, <1>5, <2>2 DEF DistinctInv
  <2>3. QED  BY <2>1, <2>2
<1>7. ContentInv'
  BY <1>1, <1>2, <1>5 DEF ContentInv
<1>8. LeakInv'
  <2> SUFFICES ASSUME Careful, NEW h \in Buffers, heap'[h].live
      PROVE  \E x \in Slots : sig'[x].ptr = Heap(h)
    BY DEF LeakInv, Heap, Buffers
  <2>1. PICK x \in Slots : sig[x].ptr = Heap(h)
    BY <1>1 DEF LeakInv
  <2>2. x # s
    BY <2>1 DEF OnHeap, Heap
  <2>3. QED  BY <1>2, <2>1, <2>2
<1>9. OthersKept(s)
  BY <1>2 DEF OthersKept, Buffer
<1>10. QED  BY <1>3, <1>4, <1>6, <1>7, <1>8, <1>9 DEF IInv

\* A step that puts the data of signal s in buffer h, its own or a new one.
LEMMA WithBuffer ==
  ASSUME SignalAssumption, IInv, NEW s \in Slots, OthersSame(s), NEW h \in Buffers,
         \A x \in Slots : x # s => sig[x].ptr # Heap(h),
         Careful => ~OnHeap(s) \/ sig[s].ptr = Heap(h),
         mem' = mem, ok' \in BOOLEAN, FaultInv',
         heap' \in [Buffers -> BufferType],
         \A j \in Buffers : j # h => heap'[j] = heap[j],
         sig'[s].ptr = Heap(h), sig'[s].alive, sig'[s].type = "DOUBLE",
         sig'[s].format # "CONTIGUOUS_ZEROCOPY",
         heap'[h].live, Len(heap'[h].data) = sig'[s].width,
         Careful /\ sig'[s].format = "CONTIGUOUS" => heap'[h].data = given'[s]
  PROVE  IInv' /\ OthersKept(s)
<1>1. TypeInv /\ PtrInv /\ DistinctInv /\ ContentInv /\ LeakInv
  BY DEF IInv
<1>2. \A x \in Slots : x # s => sig'[x] = sig[x] /\ given'[x] = given[x]
  BY DEF OthersSame
<1>3. TypeInv'
  BY <1>1 DEF TypeInv, OthersSame, Cells, Buffers, Lengths
<1>4. sig'[s].ptr.to = "heap" /\ sig'[s].ptr.at = h
  BY DEF Heap
<1>5. ASSUME NEW x \in Slots, x # s, OnHeap(x)
      PROVE  sig[x].ptr.at \in Buffers /\ sig[x].ptr.at # h /\ heap'[sig[x].ptr.at] = heap[sig[x].ptr.at]
  BY <1>1, <1>5, OwnersAreOnHeap
<1>6. PtrInv'
  <2> SUFFICES ASSUME NEW x \in Slots
      PROVE  /\ ~Alive(x)' => sig'[x].ptr = Null
             /\ OnHeap(x)' => /\ ~ZeroCopy(x)' /\ sig'[x].type = "DOUBLE"
                              /\ heap'[sig'[x].ptr.at].live
                              /\ Len(Buffer(x)') = sig'[x].width
             /\ InMemory(x)' => ZeroCopy(x)' /\ InEngine(sig'[x].ptr.at, sig'[x].width)
    BY DEF PtrInv, InEngine
  <2>1. CASE x = s
    BY <1>4, <2>1 DEF OnHeap, InMemory, ZeroCopy, Alive, Buffer
  <2>2. CASE x # s
    BY <1>1, <1>2, <1>5, <2>2 DEF PtrInv, OnHeap, InMemory, ZeroCopy, Alive, Buffer
  <2>3. QED  BY <2>1, <2>2
<1>7. DistinctInv'
  <2> SUFFICES ASSUME NEW x \in Slots, NEW y \in Slots, x # y, OnHeap(x)'
      PROVE  sig'[x].ptr # sig'[y].ptr
    BY DEF DistinctInv
  <2>1. CASE x = s
    BY <1>2, <2>1
  <2>2. CASE y = s
    BY <1>2, <2>2
  <2>3. CASE x # s /\ y # s
    BY <1>1, <1>2, <2>3 DEF DistinctInv, OnHeap
  <2>4. QED  BY <2>1, <2>2, <2>3
<1>8. ContentInv'
  <2> SUFFICES ASSUME Careful, NEW x \in Slots, OnHeap(x)', sig'[x].format = "CONTIGUOUS"
      PROVE  Buffer(x)' = given'[x]
    BY DEF ContentInv
  <2>1. CASE x = s
    BY <1>4, <2>1 DEF Buffer
  <2>2. CASE x # s
    BY <1>1, <1>2, <1>5, <2>2 DEF ContentInv, OnHeap, Buffer
  <2>3. QED  BY <2>1, <2>2
<1>9. LeakInv'
  <2> SUFFICES ASSUME Careful, NEW j \in Buffers, heap'[j].live
      PROVE  \E x \in Slots : sig'[x].ptr = Heap(j)
    BY DEF LeakInv, Heap, Buffers
  <2>1. CASE j = h
    BY <2>1
  <2>2. CASE j # h
    <3>1. PICK x \in Slots : sig[x].ptr = Heap(j)
      BY <1>1, <2>2 DEF LeakInv
    <3>2. x # s
      BY <2>2, <3>1 DEF OnHeap, Heap
    <3>3. QED  BY <1>2, <3>1, <3>2
  <2>3. QED  BY <2>1, <2>2
<1>10. OthersKept(s)
  <2> SUFFICES ASSUME NEW x \in Slots, x # s, Owns(x), Owns(x)' PROVE Buffer(x)' = Buffer(x)
    BY DEF OthersKept
  <2>1. OnHeap(x)
    BY <1>1, OwnersAreOnHeap
  <2>2. QED  BY <1>2, <1>5, <2>1 DEF Buffer
<1>11. QED  BY <1>3, <1>6, <1>7, <1>8, <1>9, <1>10 DEF IInv

\* A step that changes no signal and no buffer.
LEMMA NothingOwnedMoves ==
  ASSUME IInv, UNCHANGED <<heap, sig, given>>, mem' \in [Cells -> Values],
         ok' \in BOOLEAN, faulted' = faulted
  PROVE  IInv' /\ Independent
<1>1. TypeInv'
  BY DEF IInv, TypeInv, FaultInv, Cells, Buffers, Lengths
<1>2. PtrInv' /\ DistinctInv' /\ ContentInv' /\ LeakInv'
  BY DEF IInv, PtrInv, DistinctInv, ContentInv, LeakInv, OnHeap, InMemory, Alive, ZeroCopy, Buffer,
         InEngine, Heap, Buffers
<1>3. Independent
  BY DEF Independent, Buffer
<1>4. QED  BY <1>1, <1>2, <1>3 DEF IInv

\* One actor: the others kept their buffers.
LEMMA OneActor ==
  ASSUME NEW s \in Slots, OthersKept(s)
  PROVE  Independent
BY DEF OthersKept, Independent

\* How the actions write the state of one signal.
LEMMA OneSignal ==
  ASSUME TypeInv, NEW s \in Slots, NEW r \in SignalType, sig' = [sig EXCEPT ![s] = r],
         NEW g \in Data, given' = [given EXCEPT ![s] = g]
  PROVE  OthersSame(s) /\ sig'[s] = r /\ given'[s] = g
BY DEF TypeInv, OthersSame

LEMMA WithFacts ==
  ASSUME SignalAssumption, TypeInv, NEW s \in Slots, NEW n \in Lengths, NEW p \in Pointers,
         sig' = With(s, n, p)
  PROVE  /\ sig' \in [Slots -> SignalType]
         /\ \A x \in Slots : x # s => sig'[x] = sig[x]
         /\ sig'[s] = [alive |-> sig[s].alive, format |-> sig[s].format, type |-> sig[s].type,
                       width |-> n, ptr |-> p]
<1>1. PICK a \in BOOLEAN, f \in AllFormats, t \in AllTypes, m \in Lengths, q \in Pointers :
        sig[s] = [alive |-> a, format |-> f, type |-> t, width |-> m, ptr |-> q]
  BY DEF TypeInv, SignalType
<1>2. [alive |-> a, format |-> f, type |-> t, width |-> n, ptr |-> p] \in SignalType
  BY DEF SignalType
<1>3. sig' = [sig EXCEPT ![s] = [alive |-> a, format |-> f, type |-> t, width |-> n, ptr |-> p]]
  <2> DEFINE first == [sig EXCEPT ![s].width = n]
  <2>1. sig \in [Slots -> SignalType]
    BY DEF TypeInv
  <2>2. first = [sig EXCEPT ![s] = [alive |-> a, format |-> f, type |-> t, width |-> n, ptr |-> q]]
    <3>1. [sig[s] EXCEPT !.width = n]
            = [alive |-> a, format |-> f, type |-> t, width |-> n, ptr |-> q]
      BY <1>1
    <3>2. first = [sig EXCEPT ![s] = [sig[s] EXCEPT !.width = n]]
      BY <2>1
    <3>3. QED  BY <3>1, <3>2, Zenon
  <2>3. sig' = [first EXCEPT ![s].ptr = p]
    BY DEF With
  <2>4. DOMAIN first = Slots /\ first[s] = [alive |-> a, format |-> f, type |-> t, width |-> n, ptr |-> q]
        /\ \A x \in Slots : x # s => first[x] = sig[x]
    BY <2>1, <2>2
  <2> HIDE DEF first
  <2>5. [first[s] EXCEPT !.ptr = p]
          = [alive |-> a, format |-> f, type |-> t, width |-> n, ptr |-> p]
    BY <2>4
  <2>6. QED  BY <2>1, <2>2, <2>3, <2>4, <2>5
<1>4. QED  BY <1>1, <1>2, <1>3 DEF TypeInv

-----------------------------------------------------------------------------
(* Construction and destruction *)

\* Constants that are values of the types.
LEMMA SmallData ==
  ASSUME SignalAssumption
  PROVE  <<>> \in Data /\ Null \in Pointers /\ 0 \in Lengths /\ Dead \in SignalType /\ Free \in BufferType
         /\ Formats \subseteq AllFormats /\ Types \subseteq AllTypes
<1>1. 0 \in Lengths /\ Null \in Pointers
  BY DEF Lengths, Pointers, SignalAssumption
<1>2. <<>> \in [1..0 -> Values]
  OBVIOUS
<1>3. <<>> \in Data
  BY <1>1, <1>2, SeqIsData
<1>4. Dead \in SignalType /\ Free \in BufferType
  BY <1>1, <1>3 DEF Dead, Free, SignalType, BufferType, AllFormats, AllTypes
<1>5. QED  BY <1>1, <1>3, <1>4 DEF SignalAssumption, AllFormats, AllTypes

LEMMA ConstructStep ==
  ASSUME SignalAssumption, IInv, NEW s \in Slots, NEW f \in Formats, NEW t \in Types,
         Construct(s, f, t)
  PROVE  IInv' /\ Independent
<1> DEFINE r == [alive |-> TRUE, format |-> f, type |-> t, width |-> 0, ptr |-> Null]
<1>1. TypeInv /\ PtrInv
  BY DEF IInv
<1>2. r \in SignalType /\ <<>> \in Data
  BY SmallData DEF SignalType
<1>3. r.ptr.to = "null" /\ r.alive
  BY DEF Null
<1>4. ~OnHeap(s)
  BY <1>1, OwnersAreOnHeap DEF Construct
<1>5. sig' = [sig EXCEPT ![s] = r] /\ given' = [given EXCEPT ![s] = <<>>]
  BY DEF Construct
<1> HIDE DEF r
<1>6. OthersSame(s) /\ sig'[s] = r
  BY <1>1, <1>2, <1>5, OneSignal
<1>7. heap' = heap /\ mem' \in [Cells -> Values] /\ ok' \in BOOLEAN /\ faulted' = faulted
  BY <1>1 DEF Construct, Returns, TypeInv
<1>8. QED  BY <1>3, <1>4, <1>6, <1>7, WithoutBuffer, OneActor

\* The buffer of a signal, as the others see it: nobody else leads to it, and it is
\* not the one that new double[] returns.
LEMMA OwnBuffer ==
  ASSUME SignalAssumption, IInv, NEW s \in Slots, OnHeap(s)
  PROVE  /\ sig[s].ptr.at \in Buffers /\ sig[s].ptr = Heap(sig[s].ptr.at)
         /\ heap[sig[s].ptr.at].live
         /\ Buffer(s) \in Data /\ Len(Buffer(s)) = sig[s].width
         /\ \A x \in Slots : x # s => sig[x].ptr # Heap(sig[s].ptr.at)
<1>1. TypeInv /\ PtrInv /\ DistinctInv
  BY DEF IInv
<1>2. sig[s].ptr.at \in Buffers /\ sig[s].ptr = Heap(sig[s].ptr.at)
  BY <1>1, OwnersAreOnHeap
<1>3. Buffer(s) \in Data
  BY <1>1, <1>2 DEF TypeInv, BufferType, Buffer
<1>4. QED  BY <1>1, <1>2, <1>3 DEF PtrInv, DistinctInv

LEMMA NewBuffer ==
  ASSUME SignalAssumption, IInv, Unused # {}, NEW d \in Data,
         heap' = [heap EXCEPT ![Fresh] = [live |-> TRUE, data |-> d]]
  PROVE  /\ Fresh \in Buffers /\ \A x \in Slots : sig[x].ptr # Heap(Fresh)
         /\ heap' \in [Buffers -> BufferType]
         /\ \A j \in Buffers : j # Fresh => heap'[j] = heap[j]
         /\ heap'[Fresh].live /\ heap'[Fresh].data = d
         /\ Heap(Fresh) \in Pointers
<1>1. TypeInv /\ PtrInv /\ Fresh \in Buffers /\ ~heap[Fresh].live
  BY FreshIsUnused DEF IInv
<1>2. ASSUME NEW x \in Slots, sig[x].ptr = Heap(Fresh) PROVE FALSE
  <2>1. OnHeap(x) /\ sig[x].ptr.at = Fresh
    BY <1>2 DEF OnHeap, Heap
  <2>2. QED  BY <1>1, <2>1 DEF PtrInv
<1>3. [live |-> TRUE, data |-> d] \in BufferType
  BY DEF BufferType
<1>4. Heap(Fresh) \in Pointers
  BY <1>1 DEF Pointers
<1>5. QED  BY <1>1, <1>2, <1>3, <1>4 DEF TypeInv

\* The content of an owned buffer is the whole of it.
LEMMA ContentIsBuffer ==
  ASSUME SignalAssumption, IInv, NEW s \in Slots, OnHeap(s)
  PROVE  Content(s) = Buffer(s)
<1>1. Buffer(s) \in Seq(Values) /\ Len(Buffer(s)) = sig[s].width
  BY OwnBuffer, DataIsSeq
<1>2. Content(s) = SubSeq(Buffer(s), 1, Len(Buffer(s)))
  BY <1>1 DEF Content, DataAt, OnHeap, Buffer
<1>3. QED  BY <1>1, <1>2, SubSeqFull

LEMMA CopyConstructStep ==
  ASSUME SignalAssumption, IInv, NEW s \in Slots, NEW o \in Slots, CopyConstruct(s, o)
  PROVE  IInv' /\ Independent
<1>1. TypeInv /\ PtrInv
  BY DEF IInv
<1>2. ~Alive(s) /\ Alive(o) /\ s # o /\ ~OnHeap(s)
  BY <1>1, OwnersAreOnHeap DEF CopyConstruct
<1>3. sig[o] \in SignalType /\ given[o] \in Data /\ given' = [given EXCEPT ![s] = given[o]]
  BY <1>1 DEF TypeInv, CopyConstruct
<1>4. mem' = mem /\ mem' \in [Cells -> Values] /\ ok' \in BOOLEAN /\ faulted' = faulted
  BY <1>1 DEF CopyConstruct, Returns, TypeInv
<1>5. CASE /\ sig[o].ptr = Null \/ ZeroCopy(o) \/ sig[o].type # "DOUBLE"
           /\ sig' = [sig EXCEPT ![s] = sig[o]] /\ heap' = heap
  <2>1. OthersSame(s) /\ sig'[s] = sig[o]
    BY <1>1, <1>3, <1>5, OneSignal
  <2>2. ~OnHeap(o)
    BY <1>1, <1>5, OwnersAreOnHeap DEF PtrInv
  <2>3. sig'[s].ptr.to # "heap" /\ sig'[s].alive
    BY <1>2, <2>1, <2>2 DEF OnHeap, Alive
  <2>4. sig'[s].ptr.to = "engine" => /\ sig'[s].format = "CONTIGUOUS_ZEROCOPY"
                                     /\ InEngine(sig'[s].ptr.at, sig'[s].width)
    BY <1>1, <2>1 DEF PtrInv, InMemory, ZeroCopy
  <2>5. QED  BY <1>2, <1>4, <1>5, <2>1, <2>3, <2>4, WithoutBuffer, OneActor
<1>6. CASE /\ sig[o].ptr # Null /\ ~ZeroCopy(o) /\ sig[o].type = "DOUBLE"
           /\ Unused # {}
           /\ heap' = [heap EXCEPT ![Fresh] = [live |-> TRUE, data |-> Content(o)]]
           /\ sig' = [sig EXCEPT ![s] = [sig[o] EXCEPT !.ptr = Heap(Fresh)]]
  <2> DEFINE r == [sig[o] EXCEPT !.ptr = Heap(Fresh)]
  <2>1. OnHeap(o)
    BY <1>1, <1>6, OwnersAreOnHeap DEF PtrInv
  <2>2. Content(o) = Buffer(o) /\ Buffer(o) \in Data /\ Len(Buffer(o)) = sig[o].width
    BY <2>1, ContentIsBuffer, OwnBuffer
  <2>3. /\ Fresh \in Buffers /\ \A x \in Slots : sig[x].ptr # Heap(Fresh)
        /\ heap' \in [Buffers -> BufferType]
        /\ \A j \in Buffers : j # Fresh => heap'[j] = heap[j]
        /\ heap'[Fresh].live /\ heap'[Fresh].data = Buffer(o)
        /\ Heap(Fresh) \in Pointers
    BY <1>6, <2>2, NewBuffer
  <2>4. /\ r \in SignalType /\ r.ptr = Heap(Fresh) /\ r.alive = sig[o].alive
        /\ r.type = sig[o].type /\ r.format = sig[o].format /\ r.width = sig[o].width
    BY <1>3, <2>3 DEF SignalType
  <2>5. sig' = [sig EXCEPT ![s] = r]
    BY <1>6
  <2> HIDE DEF r
  <2>6. OthersSame(s) /\ sig'[s] = r /\ given'[s] = given[o]
    BY <1>1, <1>3, <2>4, <2>5, OneSignal
  <2>7. Careful /\ sig'[s].format = "CONTIGUOUS" => heap'[Fresh].data = given'[s]
    BY <2>1, <2>3, <2>4, <2>6 DEF IInv, ContentInv
  <2>8. sig'[s].alive /\ sig'[s].type = "DOUBLE" /\ sig'[s].format # "CONTIGUOUS_ZEROCOPY"
    BY <1>2, <1>6, <2>4, <2>6 DEF Alive, ZeroCopy
  <2>9. IInv' /\ OthersKept(s)
    <3>1. FaultInv'
      BY <1>1, <1>4 DEF TypeInv, FaultInv
    <3>2. QED  BY <1>2, <1>4, <2>2, <2>3, <2>4, <2>6, <2>7, <2>8, <3>1, WithBuffer
  <2>10. QED  BY <2>9, OneActor
<1>7. QED  BY <1>5, <1>6 DEF CopyConstruct

\* The buffer goes from o to s.
LEMMA MoveConstructStep ==
  ASSUME SignalAssumption, IInv, NEW s \in Slots, NEW o \in Slots, MoveConstruct(s, o)
  PROVE  IInv' /\ Independent
<1>1. TypeInv /\ PtrInv /\ DistinctInv /\ ContentInv /\ LeakInv
  BY DEF IInv
<1>2. ~Alive(s) /\ Alive(o) /\ s # o /\ sig[s].ptr = Null
  BY <1>1 DEF MoveConstruct, PtrInv
<1>3. UNCHANGED <<mem, heap, faulted>> /\ ok' \in BOOLEAN
  BY DEF MoveConstruct, Returns
<1>4. /\ sig' \in [Slots -> SignalType] /\ sig'[s] = sig[o]
      /\ sig'[o] = [alive |-> sig[o].alive, format |-> sig[o].format, type |-> sig[o].type,
                    width |-> 0, ptr |-> Null]
      /\ \A x \in Slots : x # s /\ x # o => sig'[x] = sig[x]
  <2> DEFINE base == [sig EXCEPT ![s] = sig[o]]
             rest == [alive |-> sig[o].alive, format |-> sig[o].format, type |-> sig[o].type,
                      width |-> 0, ptr |-> Null]
  <2>1. sig \in [Slots -> SignalType]
    BY <1>1 DEF TypeInv
  <2>2. base \in [Slots -> SignalType] /\ base[o] = sig[o] /\ base[s] = sig[o]
        /\ \A x \in Slots : x # s => base[x] = sig[x]
    BY <1>2, <2>1
  <2>3. sig' = [[base EXCEPT ![o].width = 0] EXCEPT ![o].ptr = Null]
    BY DEF MoveConstruct
  <2> HIDE DEF base
  <2>4. PICK a \in BOOLEAN, f \in AllFormats, t \in AllTypes, m \in Lengths, q \in Pointers :
          sig[o] = [alive |-> a, format |-> f, type |-> t, width |-> m, ptr |-> q]
    BY <2>1 DEF SignalType
  <2>5. rest = [alive |-> a, format |-> f, type |-> t, width |-> 0, ptr |-> Null]
        /\ rest \in SignalType
    BY <2>4, SmallData DEF SignalType
  <2> DEFINE mid == [base EXCEPT ![o].width = 0]
  <2>6. mid = [base EXCEPT ![o] = [alive |-> a, format |-> f, type |-> t, width |-> 0, ptr |-> q]]
    <3>1. [base[o] EXCEPT !.width = 0] = [alive |-> a, format |-> f, type |-> t, width |-> 0, ptr |-> q]
      BY <2>2, <2>4
    <3>2. mid = [base EXCEPT ![o] = [base[o] EXCEPT !.width = 0]]
      BY <2>2
    <3>3. QED  BY <3>1, <3>2, Zenon
  <2>7. /\ DOMAIN mid = Slots /\ mid[o] = [alive |-> a, format |-> f, type |-> t, width |-> 0, ptr |-> q]
        /\ \A x \in Slots : x # o => mid[x] = base[x]
    BY <2>2, <2>6
  <2>8. sig' = [mid EXCEPT ![o].ptr = Null]
    BY <2>3
  <2> HIDE DEF mid, rest
  <2>9. [mid[o] EXCEPT !.ptr = Null] = rest
    BY <2>5, <2>7
  <2>10. sig' = [mid EXCEPT ![o] = rest]
    <3>1. sig' = [mid EXCEPT ![o] = [mid[o] EXCEPT !.ptr = Null]]
      BY <2>7, <2>8
    <3>2. QED  BY <2>9, <3>1, Zenon
  <2>11. sig' = [x \in Slots |-> IF x = o THEN rest ELSE base[x]]
    BY <2>7, <2>10
  <2>12. QED  BY <1>2, <2>2, <2>5, <2>11 DEF rest
<1>5. /\ given' \in [Slots -> Data] /\ given'[s] = given[o]
      /\ \A x \in Slots : x # s /\ x # o => given'[x] = given[x]
  BY <1>1, <1>2, SmallData DEF TypeInv, MoveConstruct
<1>6. TypeInv'
  BY <1>1, <1>3, <1>4, <1>5 DEF TypeInv, FaultInv, Cells, Buffers, Lengths
<1>7. ASSUME NEW x \in Slots, sig'[x].ptr # Null
      PROVE  x # o /\ \E y \in Slots : sig'[x] = sig[y] /\ given'[x] = given[y]
                        /\ (x = s => y = o) /\ (x # s => y = x)
  <2>1. x # o
    BY <1>4, <1>7
  <2>2. CASE x = s
    BY <1>4, <1>5, <2>1, <2>2
  <2>3. CASE x # s
    BY <1>4, <1>5, <2>1, <2>3
  <2>4. QED  BY <2>1, <2>2, <2>3
<1>8. Null.to = "null"
  BY DEF Null
<1>9. PtrInv'
  <2> SUFFICES ASSUME NEW x \in Slots
      PROVE  /\ ~Alive(x)' => sig'[x].ptr = Null
             /\ OnHeap(x)' => /\ ~ZeroCopy(x)' /\ sig'[x].type = "DOUBLE"
                              /\ heap'[sig'[x].ptr.at].live
                              /\ Len(Buffer(x)') = sig'[x].width
             /\ InMemory(x)' => ZeroCopy(x)' /\ InEngine(sig'[x].ptr.at, sig'[x].width)
    BY DEF PtrInv, InEngine
  <2>1. CASE sig'[x].ptr = Null
    BY <1>8, <2>1 DEF OnHeap, InMemory
  <2>2. CASE sig'[x].ptr # Null
    <3>1. PICK y \in Slots : sig'[x] = sig[y]
      BY <1>7, <2>2
    <3>2. QED  BY <1>1, <1>3, <3>1 DEF PtrInv, OnHeap, InMemory, ZeroCopy, Alive, Buffer
  <2>3. QED  BY <2>1, <2>2
<1>10. DistinctInv'
  <2> SUFFICES ASSUME NEW x \in Slots, NEW z \in Slots, x # z, OnHeap(x)', sig'[x].ptr = sig'[z].ptr
      PROVE  FALSE
    BY DEF DistinctInv
  <2>1. sig'[x].ptr # Null /\ sig'[z].ptr # Null
    BY <1>8 DEF OnHeap
  <2>2. x # o /\ z # o
    BY <1>7, <2>1
  <2>3. PICK y \in Slots : sig'[x] = sig[y] /\ (x = s => y = o) /\ (x # s => y = x)
    BY <1>7, <2>1
  <2>4. PICK u \in Slots : sig'[z] = sig[u] /\ (z = s => u = o) /\ (z # s => u = z)
    BY <1>7, <2>1
  <2>5. y # u
    BY <2>2, <2>3, <2>4
  <2>6. QED  BY <1>1, <2>3, <2>4, <2>5 DEF DistinctInv, OnHeap
<1>11. ContentInv'
  <2> SUFFICES ASSUME Careful, NEW x \in Slots, OnHeap(x)', sig'[x].format = "CONTIGUOUS"
      PROVE  Buffer(x)' = given'[x]
    BY DEF ContentInv
  <2>1. PICK y \in Slots : sig'[x] = sig[y] /\ given'[x] = given[y]
    BY <1>7, <1>8 DEF OnHeap
  <2>2. QED  BY <1>1, <1>3, <2>1 DEF ContentInv, OnHeap, Buffer
<1>12. LeakInv'
  <2> SUFFICES ASSUME Careful, NEW h \in Buffers, heap'[h].live
      PROVE  \E x \in Slots : sig'[x].ptr = Heap(h)
    BY DEF LeakInv, Heap, Buffers
  <2>1. PICK x \in Slots : sig[x].ptr = Heap(h)
    BY <1>1, <1>3 DEF LeakInv
  <2>2. x # s
    BY <1>2, <2>1 DEF Heap, Null
  <2>3. QED  BY <1>4, <2>1, <2>2
<1>13. Independent
  <2>1. \A x \in Slots : Owns(x) /\ Owns(x)' => Buffer(x)' = Buffer(x)
    BY <1>2, <1>3, <1>4 DEF Owns, Buffer
  <2>2. QED  BY <2>1 DEF Independent
<1>14. QED  BY <1>6, <1>9, <1>10, <1>11, <1>12, <1>13 DEF IInv

\* The buffer of a dead signal is free.
LEMMA DestroyStep ==
  ASSUME SignalAssumption, IInv, NEW s \in Slots, Destroy(s)
  PROVE  IInv' /\ Independent
<1>1. TypeInv /\ PtrInv /\ DistinctInv /\ ContentInv /\ LeakInv
  BY DEF IInv
<1>2. OthersSame(s) /\ sig'[s] = Dead
  BY <1>1, SmallData, OneSignal DEF Destroy
<1>3. mem' = mem /\ ok' \in BOOLEAN /\ mem' \in [Cells -> Values]
  BY <1>1 DEF Destroy, Returns, TypeInv
<1>4. Dead.ptr = Null /\ Null.to = "null" /\ ~Dead.alive
  BY DEF Dead, Null
<1>5. CASE ~OnHeap(s)
  <2>1. heap' = heap /\ faulted' = faulted
    BY <1>1, <1>5, OwnersAreOnHeap DEF Destroy
  <2>2. QED  BY <1>2, <1>3, <1>4, <1>5, <2>1, WithoutBuffer, OneActor
<1>6. CASE OnHeap(s)
  <2> DEFINE h == sig[s].ptr.at
  <2>1. /\ h \in Buffers /\ sig[s].ptr = Heap(h) /\ heap[h].live
        /\ \A x \in Slots : x # s => sig[x].ptr # Heap(h)
    BY <1>6, OwnBuffer
  <2>2. Owns(s) /\ sig[s].type = "DOUBLE"
    BY <1>1, <1>6, OwnersAreOnHeap DEF PtrInv
  <2>3. heap' = [heap EXCEPT ![h] = Free] /\ faulted' = faulted
    BY <1>1, <2>1, <2>2 DEF Destroy, TypeInv, Touched
  <2> HIDE DEF h
  <2>4. heap' \in [Buffers -> BufferType] /\ ~heap'[h].live
        /\ \A j \in Buffers : j # h => heap'[j] = heap[j]
    BY <1>1, <2>1, <2>3, SmallData DEF TypeInv, Free
  <2>5. TypeInv'
    BY <1>1, <1>2, <1>3, <2>3, <2>4 DEF TypeInv, OthersSame, FaultInv, Cells, Buffers, Lengths
  <2>6. \A x \in Slots : x # s => sig'[x] = sig[x] /\ given'[x] = given[x]
    BY <1>2 DEF OthersSame
  <2>7. ASSUME NEW x \in Slots, x # s, OnHeap(x)
        PROVE  heap'[sig[x].ptr.at] = heap[sig[x].ptr.at]
    BY <1>1, <2>1, <2>4, <2>7, OwnersAreOnHeap
  <2>8. PtrInv'
    <3> SUFFICES ASSUME NEW x \in Slots
        PROVE  /\ ~Alive(x)' => sig'[x].ptr = Null
               /\ OnHeap(x)' => /\ ~ZeroCopy(x)' /\ sig'[x].type = "DOUBLE"
                                /\ heap'[sig'[x].ptr.at].live
                                /\ Len(Buffer(x)') = sig'[x].width
               /\ InMemory(x)' => ZeroCopy(x)' /\ InEngine(sig'[x].ptr.at, sig'[x].width)
      BY DEF PtrInv, InEngine
    <3>1. CASE x = s
      BY <1>2, <1>4, <3>1 DEF OnHeap, InMemory
    <3>2. CASE x # s
      BY <1>1, <2>6, <2>7, <3>2 DEF PtrInv, OnHeap, InMemory, ZeroCopy, Alive, Buffer
    <3>3. QED  BY <3>1, <3>2
  <2>9. \A x \in Slots : OnHeap(x)' => x # s /\ OnHeap(x) /\ Buffer(x)' = Buffer(x)
    BY <1>2, <1>4, <2>6, <2>7 DEF OnHeap, Buffer
  <2>10. DistinctInv'
    <3> SUFFICES ASSUME NEW x \in Slots, NEW y \in Slots, x # y, OnHeap(x)'
        PROVE  sig'[x].ptr # sig'[y].ptr
      BY DEF DistinctInv
    <3>1. CASE y = s
      BY <1>2, <1>4, <3>1 DEF OnHeap
    <3>2. CASE y # s
      BY <1>1, <2>6, <2>9, <3>2 DEF DistinctInv
    <3>3. QED  BY <3>1, <3>2
  <2>11. ContentInv'
    BY <1>1, <2>6, <2>9 DEF ContentInv
  <2>12. LeakInv'
    <3> SUFFICES ASSUME Careful, NEW j \in Buffers, heap'[j].live
        PROVE  \E x \in Slots : sig'[x].ptr = Heap(j)
      BY DEF LeakInv, Heap, Buffers
    <3>1. j # h
      BY <2>4
    <3>2. PICK x \in Slots : sig[x].ptr = Heap(j)
      BY <1>1, <2>4, <3>1 DEF LeakInv
    <3>3. x # s
      BY <2>1, <3>1, <3>2 DEF Heap
    <3>4. QED  BY <2>6, <3>2, <3>3
  <2>13. OthersKept(s)
    BY <1>1, <2>6, <2>7, OwnersAreOnHeap DEF OthersKept, Buffer
  <2>14. QED  BY <2>5, <2>8, <2>10, <2>11, <2>12, <2>13, OneActor DEF IInv
<1>7. QED  BY <1>5, <1>6

-----------------------------------------------------------------------------
(* Initialization from a buffer of the engine *)

LEMMA EngineDataType ==
  ASSUME SignalAssumption, TypeInv, NEW c \in Cells, NEW n \in Lengths, InEngine(c, n)
  PROVE  EngineData(c, n) \in Data /\ Len(EngineData(c, n)) = n
<1>1. c \in Nat /\ n \in Nat /\ NumCells \in Nat /\ c >= 1
  BY DEF Cells, Lengths, SignalAssumption
<1>2. \A i \in 1..n : c + i - 1 \in Cells
  BY <1>1 DEF InEngine, Cells
<1>3. \A i \in 1..n : mem[c + i - 1] \in Values
  BY <1>2 DEF TypeInv
<1>4. EngineData(c, n) \in [1..n -> Values]
  BY <1>3 DEF EngineData
<1>5. QED  BY <1>4, SeqIsData

LEMMA FailsStep ==
  ASSUME IInv, Fails
  PROVE  IInv' /\ Independent
BY NothingOwnedMoves DEF Fails, Returns, IInv, TypeInv

LEMMA ZeroCopyStep ==
  ASSUME SignalAssumption, IInv, NEW s \in Slots, NEW c \in 0..NumCells, NEW n \in Lengths,
         InitializeBufferFromContiguousZeroCopy(s, c, n)
  PROVE  IInv' /\ Independent
<1>1. TypeInv /\ PtrInv
  BY DEF IInv
<1>2. CASE Rejected(s, "CONTIGUOUS_ZEROCOPY", c, n)
  BY <1>2, FailsStep DEF InitializeBufferFromContiguousZeroCopy
<1>3. CASE ~Rejected(s, "CONTIGUOUS_ZEROCOPY", c, n)
  <2>1. /\ Alive(s) /\ InEngine(c, n) /\ sig' = With(s, n, Engine(c))
        /\ given' = [given EXCEPT ![s] = <<>>]
        /\ ok' \in BOOLEAN /\ UNCHANGED <<mem, heap, faulted>>
    BY <1>3 DEF InitializeBufferFromContiguousZeroCopy, Returns, MayInitialize
  <2>2. c \in Cells /\ ZeroCopy(s) /\ ~OnHeap(s)
    BY <1>1, <1>3 DEF Rejected, Cells, SignalAssumption, ZeroCopy, PtrInv
  <2>3. Engine(c) \in Pointers /\ Engine(c).to = "engine" /\ Engine(c).at = c
    BY <2>2 DEF Pointers, Engine
  <2>4. /\ sig' \in [Slots -> SignalType]
        /\ \A x \in Slots : x # s => sig'[x] = sig[x]
        /\ sig'[s] = [alive |-> sig[s].alive, format |-> sig[s].format, type |-> sig[s].type,
                      width |-> n, ptr |-> Engine(c)]
    BY <1>1, <2>1, <2>3, WithFacts
  <2>5. OthersSame(s)
    BY <1>1, <2>1, <2>4, SmallData DEF OthersSame, TypeInv
  <2>6. mem' \in [Cells -> Values]
    BY <1>1, <2>1 DEF TypeInv
  <2>7. QED  BY <2>1, <2>2, <2>3, <2>4, <2>5, <2>6, WithoutBuffer, OneActor DEF Alive, ZeroCopy
<1>4. QED  BY <1>2, <1>3

\* A signal with a buffer of its own is initialized: with a type other than DOUBLE it
\* has no buffer, before and after.
LEMMA StoreCopyStep ==
  ASSUME SignalAssumption, IInv, NEW s \in Slots, NEW n \in Lengths,
         NEW asked \in Data, NEW data \in Data, Len(data) = n,
         MayInitialize(s), ~ZeroCopy(s), StoreCopy(s, n, asked, data),
         sig[s].format = "CONTIGUOUS" => asked = data
  PROVE  IInv' /\ Independent
<1>1. TypeInv /\ PtrInv
  BY DEF IInv
<1>2. Alive(s) /\ ok' \in BOOLEAN /\ mem' = mem /\ mem' \in [Cells -> Values] /\ faulted' = faulted
  BY <1>1 DEF MayInitialize, StoreCopy, Returns, TypeInv
<1>3. CASE /\ sig[s].type = "DOUBLE" /\ Unused # {}
           /\ heap' = [heap EXCEPT ![Fresh] = [live |-> TRUE, data |-> data]]
           /\ sig' = With(s, n, Heap(Fresh))
           /\ given' = [given EXCEPT ![s] = asked]
  <2>1. /\ Fresh \in Buffers /\ \A x \in Slots : sig[x].ptr # Heap(Fresh)
        /\ heap' \in [Buffers -> BufferType]
        /\ \A j \in Buffers : j # Fresh => heap'[j] = heap[j]
        /\ heap'[Fresh].live /\ heap'[Fresh].data = data
        /\ Heap(Fresh) \in Pointers
    BY <1>3, NewBuffer
  <2>2. /\ sig' \in [Slots -> SignalType]
        /\ \A x \in Slots : x # s => sig'[x] = sig[x]
        /\ sig'[s] = [alive |-> sig[s].alive, format |-> sig[s].format, type |-> sig[s].type,
                      width |-> n, ptr |-> Heap(Fresh)]
    BY <1>1, <1>3, <2>1, WithFacts
  <2>3. OthersSame(s) /\ given'[s] = asked
    BY <1>1, <1>3, <2>2 DEF OthersSame, TypeInv
  <2>4. Careful => ~OnHeap(s)
    BY <1>1, OwnersAreOnHeap DEF MayInitialize
  <2>5. sig'[s].ptr = Heap(Fresh) /\ sig'[s].alive /\ sig'[s].type = "DOUBLE"
        /\ sig'[s].format # "CONTIGUOUS_ZEROCOPY" /\ sig'[s].width = n
        /\ sig'[s].format = sig[s].format
    BY <1>2, <1>3, <2>2 DEF Alive, ZeroCopy
  <2>6. IInv' /\ OthersKept(s)
    <3>1. FaultInv'
      BY <1>1, <1>2 DEF TypeInv, FaultInv
    <3>2. QED  BY <1>2, <2>1, <2>3, <2>4, <2>5, <3>1, WithBuffer
  <2>7. QED  BY <2>6, OneActor
<1>4. CASE sig[s].type # "DOUBLE" /\ sig' = With(s, n, sig[s].ptr) /\ UNCHANGED <<heap, given>>
  <2>1. sig[s].ptr = Null /\ ~OnHeap(s) /\ Null.to = "null"
    BY <1>1, <1>4, OwnersAreOnHeap DEF PtrInv, Null
  <2>2. /\ sig' \in [Slots -> SignalType]
        /\ \A x \in Slots : x # s => sig'[x] = sig[x]
        /\ sig'[s] = [alive |-> sig[s].alive, format |-> sig[s].format, type |-> sig[s].type,
                      width |-> n, ptr |-> Null]
    BY <1>1, <1>4, <2>1, SmallData, WithFacts
  <2>3. OthersSame(s)
    BY <1>1, <1>4, <2>2 DEF OthersSame, TypeInv
  <2>4. QED  BY <1>2, <1>4, <2>1, <2>2, <2>3, WithoutBuffer, OneActor
<1>5. QED  BY <1>3, <1>4 DEF StoreCopy

LEMMA ContiguousStep ==
  ASSUME SignalAssumption, IInv, NEW s \in Slots, NEW c \in 0..NumCells, NEW n \in Lengths,
         InitializeBufferFromContiguous(s, c, n)
  PROVE  IInv' /\ Independent
<1>1. CASE Rejected(s, "CONTIGUOUS", c, n)
  BY <1>1, FailsStep DEF InitializeBufferFromContiguous
<1>2. CASE ~Rejected(s, "CONTIGUOUS", c, n)
  <2>1. /\ MayInitialize(s) /\ InEngine(c, n)
        /\ StoreCopy(s, n, EngineData(c, n), EngineData(c, n))
    BY <1>2 DEF InitializeBufferFromContiguous
  <2>2. c \in Cells /\ ~ZeroCopy(s)
    BY <1>2 DEF Rejected, Cells, SignalAssumption, ZeroCopy
  <2>3. EngineData(c, n) \in Data /\ Len(EngineData(c, n)) = n
    BY <2>1, <2>2, EngineDataType DEF IInv
  <2>4. QED  BY <2>1, <2>2, <2>3, StoreCopyStep
<1>3. QED  BY <1>1, <1>2

LEMMA NonContiguousStep ==
  ASSUME SignalAssumption, IInv, NEW s \in Slots, NEW n \in Lengths, NEW ptrs \in [1..n -> Cells],
         InitializeBufferFromNonContiguous(s, ptrs)
  PROVE  IInv' /\ Independent
<1>1. n \in Nat
  BY DEF Lengths, SignalAssumption
<1>2. Len(ptrs) = n
  <2>1. ptrs \in Seq(Cells)
    BY <1>1
  <2>2. Len(ptrs) \in Nat /\ DOMAIN ptrs = 1..Len(ptrs)
    BY <2>1, LenProperties
  <2>3. QED  BY <1>1, <2>2
<1>3. CASE Rejected(s, "NONCONTIGUOUS", 1, n)
  BY <1>2, <1>3, FailsStep DEF InitializeBufferFromNonContiguous
<1>4. CASE ~Rejected(s, "NONCONTIGUOUS", 1, n)
  <2>1. PICK data \in ReadThrough(ptrs, n) :
          /\ MayInitialize(s)
          /\ StoreCopy(s, n, [i \in 1..n |-> mem[ptrs[i]]], data)
    BY <1>2, <1>4 DEF InitializeBufferFromNonContiguous
  <2>2. sig[s].format = "NONCONTIGUOUS" /\ ~ZeroCopy(s)
    BY <1>4 DEF Rejected, ZeroCopy
  <2>3. data \in Data /\ Len(data) = n
    BY SeqIsData DEF ReadThrough
  <2>4. [i \in 1..n |-> mem[ptrs[i]]] \in [1..n -> Values]
    BY DEF IInv, TypeInv
  <2>5. [i \in 1..n |-> mem[ptrs[i]]] \in Data
    BY <2>4, SeqIsData
  <2>6. QED  BY <2>1, <2>2, <2>3, <2>5, StoreCopyStep
<1>5. QED  BY <1>3, <1>4

-----------------------------------------------------------------------------
(* Access *)

LEMMA EngineWritesStep ==
  ASSUME SignalAssumption, IInv, NEW c \in Cells, NEW v \in Values, EngineWrites(c, v)
  PROVE  IInv' /\ Independent
<1>1. mem' \in [Cells -> Values] /\ UNCHANGED <<heap, sig, given, ok, faulted>> /\ ok \in BOOLEAN
  BY DEF EngineWrites, IInv, TypeInv
<1>2. QED  BY <1>1, NothingOwnedMoves

\* The data of a buffer is replaced where it is.
LEMMA InPlaceStep ==
  ASSUME SignalAssumption, IInv, NEW s \in Slots, OnHeap(s),
         NEW d \in Data, NEW g \in Data,
         heap' = [heap EXCEPT ![sig[s].ptr.at] = [live |-> TRUE, data |-> d]],
         OthersSame(s), given'[s] = g,
         sig'[s] = [alive |-> sig[s].alive, format |-> sig[s].format, type |-> sig[s].type,
                    width |-> Len(d), ptr |-> sig[s].ptr],
         mem' = mem, ok' \in BOOLEAN, FaultInv',
         Careful /\ sig[s].format = "CONTIGUOUS" => d = g
  PROVE  IInv' /\ Independent
<1> DEFINE h == sig[s].ptr.at
<1>1. TypeInv /\ PtrInv
  BY DEF IInv
<1>2. /\ h \in Buffers /\ sig[s].ptr = Heap(h)
      /\ \A x \in Slots : x # s => sig[x].ptr # Heap(h)
  BY OwnBuffer
<1>3. Alive(s) /\ ~ZeroCopy(s) /\ sig[s].type = "DOUBLE"
  BY <1>1, OwnersAreOnHeap DEF PtrInv
<1>4. heap' = [heap EXCEPT ![h] = [live |-> TRUE, data |-> d]]
  OBVIOUS
<1> HIDE DEF h
<1>5. [live |-> TRUE, data |-> d] \in BufferType
  BY DEF BufferType
<1>6. /\ heap' \in [Buffers -> BufferType] /\ heap'[h].live /\ heap'[h].data = d
      /\ \A j \in Buffers : j # h => heap'[j] = heap[j]
  <2>1. heap \in [Buffers -> BufferType]
    BY <1>1 DEF TypeInv
  <2>2. heap'[h] = [live |-> TRUE, data |-> d]
    BY <1>2, <1>4, <2>1
  <2>3. heap' \in [Buffers -> BufferType] /\ \A j \in Buffers : j # h => heap'[j] = heap[j]
    BY <1>2, <1>4, <1>5, <2>1
  <2>4. QED  BY <2>2, <2>3
<1>7. sig'[s].ptr = Heap(h) /\ sig'[s].alive /\ sig'[s].type = "DOUBLE"
      /\ sig'[s].format # "CONTIGUOUS_ZEROCOPY" /\ sig'[s].width = Len(d)
      /\ sig'[s].format = sig[s].format
  <2>1. /\ sig'[s].alive = sig[s].alive /\ sig'[s].type = sig[s].type /\ sig'[s].width = Len(d)
        /\ sig'[s].format = sig[s].format /\ sig'[s].ptr = sig[s].ptr
    OBVIOUS
  <2>2. QED  BY <1>2, <1>3, <2>1, Zenon DEF Alive, ZeroCopy
<1>8. IInv' /\ OthersKept(s)
  <2>1. Careful => ~OnHeap(s) \/ sig[s].ptr = Heap(h)
    BY <1>2
  <2>2. Careful /\ sig'[s].format = "CONTIGUOUS" => heap'[h].data = given'[s]
    BY <1>6, <1>7
  <2>3. Len(heap'[h].data) = sig'[s].width
    BY <1>6, <1>7, Zenon
  <2>4. QED  BY <1>2, <1>6, <1>7, <2>1, <2>2, <2>3, WithBuffer
<1>9. QED  BY <1>8, OneActor

LEMMA SetStep ==
  ASSUME SignalAssumption, IInv, NEW s \in Slots, NEW index \in Lengths, NEW v \in Values,
         Set(s, index, v)
  PROVE  IInv' /\ Independent
<1> DEFINE refused == sig[s].width <= index \/ sig[s].ptr = Null \/ sig[s].type \notin {"DOUBLE", "SINGLE"}
<1>1. TypeInv /\ PtrInv /\ ContentInv
  BY DEF IInv
<1>2. sig \in [Slots -> SignalType] /\ given \in [Slots -> Data]
  BY <1>1 DEF TypeInv
<1>3. CASE refused
  BY <1>3, FailsStep DEF Set
<1>4. CASE ~refused /\ sig[s].ptr.to = "heap"
  <2> DEFINE h == sig[s].ptr.at
             d == [Buffer(s) EXCEPT ![index + 1] = v]
             g == [given[s] EXCEPT ![index + 1] = v]
  <2>1. OnHeap(s) /\ h \in Buffers /\ heap[h].live /\ Buffer(s) \in Data /\ Len(Buffer(s)) = sig[s].width
    BY <1>4, OwnBuffer DEF OnHeap
  <2>2. /\ sig' = sig /\ ok' \in BOOLEAN /\ mem' = mem
        /\ heap' = [heap EXCEPT ![h].data[index + 1] = v]
        /\ given' = [given EXCEPT ![s][index + 1] = v]
        /\ faulted' = Touched(h)
    BY <1>4 DEF Set, Returns
  <2>3. FaultInv'
    BY <1>1, <2>1, <2>2 DEF TypeInv, FaultInv, Touched
  <2>4. d \in Data /\ Len(d) = sig[s].width
    BY <2>1, DataWritten
  <2>5. g \in Data
    BY <1>2, DataWritten
  <2>6. heap' = [heap EXCEPT ![h] = [live |-> TRUE, data |-> d]]
    <3>1. heap[h] \in BufferType /\ heap[h].live = TRUE
      BY <1>1, <2>1 DEF TypeInv, BufferType
    <3>2. heap' = [heap EXCEPT ![h] = [heap[h] EXCEPT !.data = d]]
      BY <1>1, <2>1, <2>2 DEF TypeInv, Buffer
    <3> HIDE DEF d
    <3>4. PICK l \in BOOLEAN, q \in Data : heap[h] = [live |-> l, data |-> q]
      BY <3>1 DEF BufferType
    <3>5. [heap[h] EXCEPT !.data = d] = [live |-> l, data |-> d]
      BY <3>4
    <3>6. l = TRUE
      BY <3>1, <3>4
    <3>7. QED  BY <3>2, <3>5, <3>6, Zenon
  <2>7. given' = [given EXCEPT ![s] = g]
    BY <1>2, <2>2
  <2> HIDE DEF d, g
  <2>8. OthersSame(s) /\ given'[s] = g
    BY <1>2, <2>2, <2>5, <2>7 DEF OthersSame
  <2>9. sig'[s] = [alive |-> sig[s].alive, format |-> sig[s].format, type |-> sig[s].type,
                   width |-> Len(d), ptr |-> sig[s].ptr]
    BY <1>2, <2>2, <2>4 DEF SignalType
  <2>10. Careful /\ sig[s].format = "CONTIGUOUS" => d = g
    BY <1>1, <2>1 DEF ContentInv, d, g
  <2>11. QED  BY <2>1, <2>2, <2>3, <2>4, <2>5, <2>6, <2>8, <2>9, <2>10, InPlaceStep
<1>5. CASE ~refused /\ sig[s].ptr.to # "heap"
  <2>1. UNCHANGED <<sig, heap, given, faulted>> /\ ok' \in BOOLEAN
        /\ mem' = [mem EXCEPT ![sig[s].ptr.at + index] = v]
    BY <1>5 DEF Set, Returns
  <2>2. mem' \in [Cells -> Values]
    BY <1>1, <2>1 DEF TypeInv
  <2>3. QED  BY <2>1, <2>2, NothingOwnedMoves
<1>6. QED  BY <1>3, <1>4, <1>5

\* What a caller may pass to setBuffer: a range of the engine, or (a part of) the
\* buffer of a signal.
LEMMA SourceFacts ==
  ASSUME SignalAssumption, TypeInv, PtrInv, NEW p \in Sources
  PROVE  \/ p.to = "heap" /\ p.at \in Buffers /\ heap[p.at].data \in Data
         \/ p.to = "engine" /\ p.at \in Cells
<1>1. CASE \E c \in Cells : p = Engine(c)
  BY <1>1 DEF Engine
<1>2. CASE \E o \in Slots : p = sig[o].ptr /\ p # Null
  <2>1. PICK o \in Slots : p = sig[o].ptr /\ p # Null
    BY <1>2
  <2>2. OnHeap(o) \/ InMemory(o)
    BY <2>1, OwnersAreOnHeap
  <2>3. OnHeap(o) => p.at \in Buffers /\ p.to = "heap"
    BY <2>1, OwnersAreOnHeap DEF OnHeap
  <2>4. InMemory(o) => p.at \in Cells /\ p.to = "engine"
    BY <2>1, OwnersAreOnHeap DEF InMemory
  <2>5. p.at \in Buffers => heap[p.at].data \in Data
    BY DEF TypeInv, BufferType
  <2>6. QED  BY <2>2, <2>3, <2>4, <2>5
<1>3. QED  BY <1>1, <1>2 DEF Sources

LEMMA ReadData ==
  ASSUME SignalAssumption, TypeInv, PtrInv, NEW p \in Sources, NEW n \in Lengths, Readable(p, n)
  PROVE  DataAt(p, n) \in Data /\ Len(DataAt(p, n)) = n
<1>1. CASE p.to = "heap" /\ p.at \in Buffers /\ heap[p.at].data \in Data
  <2> DEFINE d == heap[p.at].data
             e == SubSeq(d, 1, n)
  <2>1. d \in Seq(Values) /\ Len(d) \in Nat /\ d \in [1..Len(d) -> Values] /\ n \in Nat
    BY <1>1, DataIsSeq DEF Lengths, SignalAssumption
  <2>2. n <= Len(d)
    BY <1>1 DEF Readable
  <2> HIDE DEF d
  <2>3. 1 \in Int /\ n \in Int /\ \A i \in 1..n : d[i] \in Values
    BY <2>1, <2>2
  <2>4. e \in Seq(Values) /\ Len(e) = IF 1 <= n THEN n - 1 + 1 ELSE 0
    BY <2>3, SubSeqProperties
  <2>5. Len(e) = n
    BY <2>1, <2>4
  <2> HIDE DEF e
  <2>6. e \in [1..n -> Values]
    BY <2>4, <2>5, LenProperties
  <2>7. e \in Data /\ Len(e) = n
    BY <2>6, SeqIsData
  <2>8. QED  BY <1>1, <2>7 DEF DataAt, d, e
<1>2. CASE p.to = "engine" /\ p.at \in Cells
  BY <1>2, EngineDataType DEF DataAt, Readable
<1>3. QED  BY <1>1, <1>2, SourceFacts

\* The engine's memory keeps its type when a zero-copy signal is overwritten.
LEMMA OverwriteStep ==
  ASSUME SignalAssumption, IInv, NEW s \in Slots, NEW p \in Sources, NEW n \in Lengths,
         Readable(p, n), ZeroCopy(s), sig[s].ptr # Null, n <= sig[s].width, ok' \in BOOLEAN,
         OverwriteBuffer(s, p, n)
  PROVE  IInv' /\ Independent
<1> DEFINE c == sig[s].ptr.at
           cleared == IF n # sig[s].width
                      THEN [i \in Cells |-> IF i \in c..(c + n - 1) THEN 0 ELSE mem[i]] ELSE mem
           source(i) == IF p.to = "heap" THEN heap[p.at].data[i] ELSE cleared[p.at + i - 1]
<1>1. TypeInv /\ PtrInv /\ n \in Nat
  BY DEF IInv, Lengths, SignalAssumption
<1>2. InMemory(s) /\ ~OnHeap(s) /\ c \in Cells /\ InEngine(c, sig[s].width) /\ Alive(s)
  BY <1>1, OwnersAreOnHeap DEF PtrInv, InMemory, OnHeap
<1>3. cleared \in [Cells -> Values]
  BY <1>1 DEF TypeInv, SignalAssumption
<1>4. ASSUME NEW i \in 1..n PROVE source(i) \in Values
  <2>1. CASE p.to = "heap" /\ p.at \in Buffers /\ heap[p.at].data \in Data
    <3>1. n <= Len(heap[p.at].data)
      BY <2>1 DEF Readable
    <3>2. heap[p.at].data \in [1..Len(heap[p.at].data) -> Values] /\ Len(heap[p.at].data) \in Nat
      BY <2>1, DataIsSeq DEF Lengths, SignalAssumption
    <3>3. i \in 1..Len(heap[p.at].data)
      BY <1>1, <3>1, <3>2
    <3>4. QED  BY <2>1, <3>2, <3>3
  <2>2. CASE p.to = "engine" /\ p.at \in Cells
    <3>1. p.at + i - 1 \in Cells
      BY <1>1, <2>2 DEF Readable, InEngine, Cells, SignalAssumption
    <3>2. source(i) = cleared[p.at + i - 1]
      BY <2>2
    <3> HIDE DEF cleared, source
    <3>3. QED  BY <1>3, <3>1, <3>2
  <2>3. QED  BY <1>1, <2>1, <2>2, SourceFacts
<1>5. mem' = [i \in Cells |-> IF i \in c..(c + n - 1) THEN source(i - c + 1) ELSE cleared[i]]
  BY DEF OverwriteBuffer
<1>6. sig' = With(s, n, sig[s].ptr) /\ UNCHANGED <<heap, given, faulted>>
  BY DEF OverwriteBuffer
<1> HIDE DEF cleared, source, c
<1>7. mem' \in [Cells -> Values]
  <2>1. \A i \in Cells : i \in c..(c + n - 1) => i - c + 1 \in 1..n
    BY <1>1, <1>2 DEF Cells, SignalAssumption
  <2>2. QED  BY <1>3, <1>4, <1>5, <2>1
<1>8. sig[s].ptr \in Pointers
  BY <1>1 DEF TypeInv, SignalType
<1>9. /\ sig' \in [Slots -> SignalType]
      /\ \A x \in Slots : x # s => sig'[x] = sig[x]
      /\ sig'[s] = [alive |-> sig[s].alive, format |-> sig[s].format, type |-> sig[s].type,
                    width |-> n, ptr |-> sig[s].ptr]
  BY <1>1, <1>6, <1>8, WithFacts
<1>10. OthersSame(s)
  BY <1>1, <1>6, <1>9 DEF OthersSame, TypeInv
<1>11. InEngine(c, n)
  <2>1. sig[s].width \in Nat
    BY <1>1 DEF TypeInv, SignalType, Lengths, SignalAssumption
  <2>2. QED  BY <1>1, <1>2, <2>1 DEF InEngine, Cells, SignalAssumption
<1>12. QED  BY <1>2, <1>6, <1>7, <1>9, <1>10, <1>11, WithoutBuffer, OneActor
            DEF Alive, ZeroCopy, OnHeap, c

LEMMA ReplaceStep ==
  ASSUME SignalAssumption, IInv, NEW s \in Slots, NEW p \in Sources, NEW n \in Lengths,
         Readable(p, n), OnHeap(s), Careful => p # sig[s].ptr, ok' \in BOOLEAN,
         ReplaceBuffer(s, p, n)
  PROVE  IInv' /\ Independent
<1> DEFINE h == sig[s].ptr.at
<1>1. TypeInv /\ PtrInv
  BY DEF IInv
<1>2. h \in Buffers /\ sig[s].ptr = Heap(h) /\ heap[h].live
  BY OwnBuffer
<1>3. PICK data \in IF p = sig[s].ptr THEN [1..n -> Values] ELSE {DataAt(p, n)} :
        /\ heap' = [heap EXCEPT ![h] = [live |-> TRUE, data |-> data]]
        /\ sig' = With(s, n, Heap(h))
        /\ given' = [given EXCEPT ![s] = DataAt(p, n)]
        /\ faulted' = Touched(h) \cup {f \in {"argument"} : p = sig[s].ptr /\ n > 0}
        /\ mem' = mem
  BY DEF ReplaceBuffer
<1>4. DataAt(p, n) \in Data /\ Len(DataAt(p, n)) = n
  BY <1>1, ReadData
<1>5. data \in Data /\ Len(data) = n /\ (Careful => data = DataAt(p, n))
  BY <1>3, <1>4, SeqIsData
<1>6. FaultInv'
  BY <1>1, <1>2, <1>3 DEF TypeInv, FaultInv, Touched
<1>7. Heap(h) \in Pointers
  BY <1>2 DEF Pointers
<1>8. /\ sig' \in [Slots -> SignalType]
      /\ \A x \in Slots : x # s => sig'[x] = sig[x]
      /\ sig'[s] = [alive |-> sig[s].alive, format |-> sig[s].format, type |-> sig[s].type,
                    width |-> n, ptr |-> Heap(h)]
  BY <1>1, <1>3, <1>7, WithFacts
<1>9. OthersSame(s) /\ given'[s] = DataAt(p, n)
  BY <1>1, <1>3, <1>4, <1>8 DEF OthersSame, TypeInv
<1>10. sig'[s] = [alive |-> sig[s].alive, format |-> sig[s].format, type |-> sig[s].type,
                  width |-> Len(data), ptr |-> sig[s].ptr]
  BY <1>2, <1>5, <1>8
<1>11. QED  BY <1>3, <1>4, <1>5, <1>6, <1>9, <1>10, InPlaceStep

LEMMA SetBufferStep ==
  ASSUME SignalAssumption, IInv, NEW s \in Slots, NEW p \in Sources, NEW n \in Lengths,
         SetBuffer(s, p, n)
  PROVE  IInv' /\ Independent
<1> DEFINE refused == \/ sig[s].format = "NONCONTIGUOUS"
                      \/ ZeroCopy(s) /\ n > sig[s].width
                      \/ sig[s].ptr = Null \/ sig[s].type # "DOUBLE"
<1>1. TypeInv /\ PtrInv
  BY DEF IInv
<1>2. Readable(p, n) /\ (Careful => p # sig[s].ptr)
  BY DEF SetBuffer
<1>3. CASE refused
  BY <1>3, FailsStep DEF SetBuffer
<1>4. CASE ~refused /\ ZeroCopy(s)
  <2>1. OverwriteBuffer(s, p, n) /\ ok' \in BOOLEAN /\ sig[s].ptr # Null
    BY <1>4 DEF SetBuffer, Returns
  <2>2. n <= sig[s].width
    <3>1. n \in Nat /\ sig[s].width \in Nat
      BY <1>1 DEF TypeInv, SignalType, Lengths, SignalAssumption
    <3>2. QED  BY <1>4, <3>1
  <2>3. QED  BY <1>2, <1>4, <2>1, <2>2, OverwriteStep
<1>5. CASE ~refused /\ ~ZeroCopy(s)
  <2>1. ReplaceBuffer(s, p, n) /\ ok' \in BOOLEAN
    BY <1>5 DEF SetBuffer, Returns
  <2>2. OnHeap(s)
    BY <1>1, <1>5, OwnersAreOnHeap DEF PtrInv
  <2>3. QED  BY <1>2, <2>1, <2>2, ReplaceStep
<1>6. QED  BY <1>3, <1>4, <1>5

-----------------------------------------------------------------------------
(* The theorems *)

LEMMA InvInit ==
  ASSUME SignalAssumption, Init
  PROVE  IInv
<1>1. /\ mem \in [Cells -> Values]
      /\ heap = [h \in Buffers |-> Free]
      /\ sig = [s \in Slots |-> Dead]
      /\ given = [s \in Slots |-> <<>>]
      /\ ok = TRUE /\ faulted = {}
  BY DEF Init
<1>2. TypeInv
  BY <1>1, SmallData DEF TypeInv, FaultInv
<1>3. Dead.ptr = Null /\ Null.to = "null" /\ ~Free.live
  BY DEF Dead, Null, Free
<1>4. PtrInv /\ DistinctInv /\ ContentInv /\ LeakInv
  BY <1>1, <1>3 DEF PtrInv, DistinctInv, ContentInv, LeakInv, OnHeap, InMemory
<1>5. QED  BY <1>2, <1>4 DEF IInv

\* Every operation keeps the invariant and changes the buffer of one signal at most.
LEMMA InvNext ==
  ASSUME SignalAssumption, IInv, [Next]_vars
  PROVE  IInv' /\ Independent
<1>1. CASE UNCHANGED vars
  BY <1>1, NothingOwnedMoves DEF vars, IInv, TypeInv
<1>2. ASSUME NEW s \in Slots, NEW f \in Formats, NEW t \in Types, Construct(s, f, t)
      PROVE  IInv' /\ Independent
  BY <1>2, ConstructStep
<1>3. ASSUME NEW s \in Slots, NEW o \in Slots, CopyConstruct(s, o) \/ MoveConstruct(s, o)
      PROVE  IInv' /\ Independent
  BY <1>3, CopyConstructStep, MoveConstructStep
<1>4. ASSUME NEW s \in Slots, Destroy(s) PROVE IInv' /\ Independent
  BY <1>4, DestroyStep
<1>5. ASSUME NEW s \in Slots, NEW c \in 0..NumCells, NEW n \in Lengths,
             \/ InitializeBufferFromContiguousZeroCopy(s, c, n)
             \/ InitializeBufferFromContiguous(s, c, n)
      PROVE  IInv' /\ Independent
  BY <1>5, ZeroCopyStep, ContiguousStep
<1>6. ASSUME NEW s \in Slots, NEW n \in Lengths, NEW ptrs \in [1..n -> Cells],
             InitializeBufferFromNonContiguous(s, ptrs)
      PROVE  IInv' /\ Independent
  BY <1>6, NonContiguousStep
<1>7. ASSUME NEW s \in Slots, NEW i \in Lengths, NEW v \in Values, Set(s, i, v)
      PROVE  IInv' /\ Independent
  BY <1>7, SetStep
<1>8. ASSUME NEW s \in Slots, NEW p \in Sources, NEW n \in Lengths, SetBuffer(s, p, n)
      PROVE  IInv' /\ Independent
  BY <1>8, SetBufferStep
<1>9. ASSUME NEW c \in Cells, NEW v \in Values, EngineWrites(c, v) PROVE IInv' /\ Independent
  BY <1>9, EngineWritesStep
<1>10. QED  BY <1>1, <1>2, <1>3, <1>4, <1>5, <1>6, <1>7, <1>8, <1>9 DEF Next

\* IInv is an inductive invariant of Signal, careful callers or not.
THEOREM Inductive == Spec => []IInv
<1>1. Init => IInv
  BY InvInit, SignalAssumption
<1>2. IInv /\ [Next]_vars => IInv'
  BY InvNext, SignalAssumption
<1>3. QED  BY <1>1, <1>2, PTL DEF Spec

\* The types of Signal.
THEOREM TypeCorrect == Spec => []TypeOK
<1>1. IInv => TypeOK
  BY DEF IInv, TypeInv, FaultInv, TypeOK, BufferType, SignalType
<1>2. QED  BY <1>1, Inductive, PTL

\* A valid signal can be accessed at every index below its width, also when its caller
\* initialized it twice or gave setBuffer its own buffer.
THEOREM AccessesInBounds == Spec => []BuffersInBounds
<1>1. ASSUME IInv PROVE BuffersInBounds
  <2> SUFFICES ASSUME NEW s \in Slots, Alive(s), sig[s].ptr # Null, sig[s].width > 0
      PROVE  IF sig[s].ptr.to = "heap"
             THEN heap[sig[s].ptr.at].live /\ Len(heap[sig[s].ptr.at].data) >= sig[s].width
             ELSE ZeroCopy(s) /\ InEngine(sig[s].ptr.at, sig[s].width)
    BY DEF BuffersInBounds
  <2>1. TypeInv /\ PtrInv
    BY <1>1 DEF IInv
  <2>2. OnHeap(s) \/ InMemory(s)
    BY <2>1, OwnersAreOnHeap, SignalAssumption
  <2>3. sig[s].width \in Nat
    BY <2>1, SignalAssumption DEF TypeInv, SignalType, Lengths, SignalAssumption
  <2>4. QED  BY <2>1, <2>2, <2>3 DEF PtrInv, OnHeap, InMemory, Buffer
<1>2. QED  BY <1>1, Inductive, PTL

\* No two signals own one buffer, and no signal frees a buffer twice or uses it after its
\* end, whatever its callers do; setBuffer reads freed memory only for a caller that
\* passed it the buffer of the signal itself.
THEOREM OwnersDiffer == Spec => []OwnersAreDistinct
<1>1. ASSUME IInv PROVE OwnersAreDistinct
  <2>1. TypeInv /\ PtrInv /\ DistinctInv
    BY <1>1 DEF IInv
  <2>2. \A s \in Slots : Owns(s) => OnHeap(s)
    BY <2>1, OwnersAreOnHeap, SignalAssumption
  <2>3. QED  BY <2>1, <2>2 DEF OwnersAreDistinct, DistinctInv, TypeInv, FaultInv
<1>2. QED  BY <1>1, Inductive, PTL

\* When callers initialize a signal once and never pass it its own buffer, a CONTIGUOUS
\* signal holds what its owner gave it.
THEOREM ContentIsKept ==
  ASSUME Careful
  PROVE  Spec => []OwnedContentIsGiven
<1>1. ASSUME IInv PROVE OwnedContentIsGiven
  <2> SUFFICES ASSUME NEW s \in Slots, Owns(s), sig[s].format = "CONTIGUOUS"
      PROVE  Content(s) = given[s]
    BY DEF OwnedContentIsGiven
  <2>1. TypeInv /\ PtrInv /\ ContentInv
    BY <1>1 DEF IInv
  <2>2. OnHeap(s)
    BY <2>1, OwnersAreOnHeap, SignalAssumption
  <2>3. Content(s) = Buffer(s)
    BY <1>1, <2>2, ContentIsBuffer, SignalAssumption
  <2>4. QED  BY <1>1, <2>1, <2>2, <2>3 DEF ContentInv
<1>2. QED  BY <1>1, Inductive, PTL

\* The same callers leak no buffer.
THEOREM NoLeak ==
  ASSUME Careful
  PROVE  Spec => []NothingLeaked
<1>1. ASSUME IInv PROVE NothingLeaked
  <2> SUFFICES ASSUME NEW h \in Buffers, heap[h].live
      PROVE  \E s \in Slots : Owns(s) /\ sig[s].ptr = Heap(h)
    BY DEF NothingLeaked
  <2>1. TypeInv /\ PtrInv /\ LeakInv
    BY <1>1 DEF IInv
  <2>2. PICK s \in Slots : sig[s].ptr = Heap(h)
    BY <1>1, <2>1 DEF LeakInv
  <2>3. OnHeap(s)
    BY <2>2 DEF OnHeap, Heap
  <2>4. QED  BY <2>1, <2>2, <2>3, OwnersAreOnHeap, SignalAssumption
<1>2. QED  BY <1>1, Inductive, PTL

\* A step changes the buffer of one signal at most: a copy and its source are never
\* written together.
THEOREM WritesStayApart == Spec => CopiesAreIndependent
<1>1. IInv /\ [Next]_vars => [\A s, o \in Slots :
                                /\ Owns(s) /\ Owns(s)' /\ Buffer(s)' # Buffer(s)
                                /\ Owns(o) /\ Owns(o)' /\ Buffer(o)' # Buffer(o)
                                => s = o]_vars
  BY InvNext, SignalAssumption DEF Independent
<1>2. QED  BY <1>1, Inductive, PTL DEF Spec, CopiesAreIndependent
=============================================================================

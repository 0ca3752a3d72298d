------------------------ MODULE GeneratedCodeProofs -------------------------
(***************************************************************************)
(* Proofs about GeneratedCode, for any wrappers, any model and any classes *)
(* of its blocks.  The inductive invariant IInv tells, at every position   *)
(* of a running model function, which PWork entries lead to an object, and *)
(* what a wrapper at rest has according to the state its client knows.     *)
(***************************************************************************)
EXTENDS GeneratedCode, FactoryMapProofs, FiniteSetTheorems, FunctionTheorems,
        SequenceTheorems, TLAPS

Full == [block |-> "live", info |-> "live"]

\* No model function of w runs.
Resting(w) == Idle \/ call.w # w

Failed(w) == errorStatus[w] # {}

StatusType == errorStatus \in [Wrappers -> SUBSET [by : Blocks, text : Seq(Message)]]

\* The blocks before call.at have been through the function that runs, the others
\* are as they were when it was called.
CallInv ==
  LET w == call.w IN
  /\ call.at \in 1..Done
  /\ call.fn = "initialize" =>
       /\ \A i \in call.at..Len(Order) : pwork[w][Order[i]] = NoPWork
       /\ Failed(w) \/ \A i \in 1..(call.at - 1) : pwork[w][Order[i]] = Full
       /\ Failed(w) => call.at = Done
  /\ call.fn = "step" =>
       /\ Failed(w) \/ \A i \in 1..(call.at - 1) : pwork[w][Order[i]].block = "live"
       /\ w \in Careless \/ \A b \in Blocks : pwork[w][b].block = "live"
  /\ call.fn = "terminate" =>
       /\ Failed(w) \/ \A i \in 1..(call.at - 1) : pwork[w][Order[i]].block # "live"
       /\ w \in Careless \/ \A i \in call.at..Len(Order) : pwork[w][Order[i]].block = "live"

RestInv ==
  \A w \in Wrappers : Resting(w) =>
    /\ state[w] = "ready" => ~Failed(w) /\ \A b \in Blocks : pwork[w][b] = Full
    /\ state[w] = "broken" /\ w \notin Careless => \A b \in Blocks : pwork[w][b].block = "live"
    /\ state[w] = "over" /\ ~Failed(w) => \A b \in Blocks : pwork[w][b].block # "live"

\* A Block is never stored without its BlockInformation.
ShapeInv ==
  \A w \in Wrappers, b \in Blocks : pwork[w][b].block = "live" => pwork[w][b].info = "live"

ControlInv == CallInv /\ RestInv /\ ShapeInv /\ NoNullPWork

IInv == TypeOK /\ StatusType /\ ControlInv /\ LoadedIffUsed

-----------------------------------------------------------------------------
(* The blocks and their order *)

LEMMA OrderFacts ==
  ASSUME GeneratedCodeAssumption
  PROVE  /\ Len(Order) \in Nat /\ Done = Len(Order) + 1 /\ Done \in Nat
         /\ \A i \in 1..Len(Order) : Order[i] \in Blocks
         /\ \A b \in Blocks : \E i \in 1..Len(Order) : Order[i] = b
         /\ \A i, j \in 1..Len(Order) : Order[i] = Order[j] => i = j
BY DEF GeneratedCodeAssumption, Done, Blocks

LEMMA BlocksFinite ==
  ASSUME GeneratedCodeAssumption
  PROVE  IsFiniteSet(Blocks) /\ IsFiniteSet(Wrappers \X Blocks)
<1>1. Order \in [1..Len(Order) -> Blocks] /\ Len(Order) \in Nat
  BY DEF GeneratedCodeAssumption
<1>2. Order \in Surjection(1..Len(Order), Blocks)
  BY <1>1, OrderFacts DEF Surjection
<1>3. IsFiniteSet(1..Len(Order))
  BY <1>1, FS_Interval
<1>4. IsFiniteSet(Blocks)
  BY <1>2, <1>3, FS_Surjection
<1>5. QED  BY <1>4, FS_Product DEF GeneratedCodeAssumption

-----------------------------------------------------------------------------
(* Counting objects *)

\* The PWork entries that lead to an object of class k.
Held(k) == {p \in Wrappers \X Blocks : p[2] \in Live(p[1], k)}

LEMMA HeldFinite ==
  ASSUME GeneratedCodeAssumption, NEW k
  PROVE  /\ IsFiniteSet(Held(k)) /\ Cardinality(Held(k)) \in Nat
         /\ IsFiniteSet(Held(k)') /\ Cardinality(Held(k)') \in Nat
<1>1. Held(k) \subseteq Wrappers \X Blocks /\ Held(k)' \subseteq Wrappers \X Blocks
  BY DEF Held
<1>2. IsFiniteSet(Wrappers \X Blocks)
  BY BlocksFinite
<1>3. QED  BY <1>1, <1>2, FS_Subset, FS_CardinalityType

LEMMA LiveIsNat ==
  ASSUME GeneratedCodeAssumption, TypeOK, NEW k \in Keys
  PROVE  /\ LiveObjects(k) = Cardinality(Held(k)) + lost[k]
         /\ Cardinality(Held(k)) \in Nat /\ lost[k] \in Nat /\ LiveObjects(k) \in Nat
<1>1. Cardinality(Held(k)) \in Nat
  BY HeldFinite
<1>2. lost[k] \in Nat
  BY DEF TypeOK
<1>3. LiveObjects(k) = Cardinality(Held(k)) + lost[k]
  BY DEF LiveObjects, Held
<1>4. QED  BY <1>1, <1>2, <1>3

\* All PWork entries but the one of b in w are left alone.
OnlyEntry(w, b) ==
  \A v \in Wrappers, c \in Blocks : v # w \/ c # b => pwork'[v][c] = pwork[v][c]

LEMMA HeldSame ==
  ASSUME NEW k,
         \A v \in Wrappers, c \in Blocks : pwork'[v][c].block = "live" <=> pwork[v][c].block = "live"
  PROVE  Held(k)' = Held(k)
BY DEF Held, Live

\* Start stores the object of b.
LEMMA HeldAdd ==
  ASSUME GeneratedCodeAssumption, NEW w \in Wrappers, NEW b \in Blocks, NEW k,
         OnlyEntry(w, b), pwork[w][b].block # "live", pwork'[w][b].block = "live"
  PROVE  Cardinality(Held(k)') = Cardinality(Held(k)) + (IF k = KeyOf[b] THEN 1 ELSE 0)
<1>1. CASE k = KeyOf[b]
  <2>1. Held(k)' = Held(k) \cup {<<w, b>>} /\ <<w, b>> \notin Held(k)
    BY <1>1 DEF Held, Live, OnlyEntry
  <2>2. QED  BY <1>1, <2>1, HeldFinite, FS_AddElement
<1>2. CASE k # KeyOf[b]
  <2>1. Held(k)' = Held(k)
    BY <1>2 DEF Held, Live, OnlyEntry
  <2>2. QED  BY <1>2, <2>1, HeldFinite
<1>3. QED  BY <1>1, <1>2

\* Terminate destroys the object of b.
LEMMA HeldRemove ==
  ASSUME GeneratedCodeAssumption, NEW w \in Wrappers, NEW b \in Blocks, NEW k,
         OnlyEntry(w, b), pwork[w][b].block = "live", pwork'[w][b].block # "live"
  PROVE  Cardinality(Held(k)') = Cardinality(Held(k)) - (IF k = KeyOf[b] THEN 1 ELSE 0)
<1>1. CASE k = KeyOf[b]
  <2>1. Held(k)' = Held(k) \ {<<w, b>>} /\ <<w, b>> \in Held(k)
    BY <1>1 DEF Held, Live, OnlyEntry
  <2>2. QED  BY <1>1, <2>1, HeldFinite, FS_RemoveElement
<1>2. CASE k # KeyOf[b]
  <2>1. Held(k)' = Held(k)
    BY <1>2 DEF Held, Live, OnlyEntry
  <2>2. QED  BY <1>2, <2>1, HeldFinite
<1>3. QED  BY <1>1, <1>2

\* A new model in w: the entries of the old one lead nowhere any more.
LEMMA HeldClear ==
  ASSUME GeneratedCodeAssumption, NEW w \in Wrappers, NEW k,
         \A c \in Blocks : pwork'[w][c].block # "live",
         \A v \in Wrappers : v # w => pwork'[v] = pwork[v]
  PROVE  /\ Cardinality(Live(w, k)) \in Nat
         /\ Cardinality(Held(k)) = Cardinality(Held(k)') + Cardinality(Live(w, k))
<1> DEFINE old == {w} \X Live(w, k)
<1>1. IsFiniteSet(Live(w, k)) /\ Cardinality(Live(w, k)) \in Nat
  <2>1. Live(w, k) \subseteq Blocks
    BY DEF Live
  <2>2. QED  BY <2>1, BlocksFinite, FS_Subset, FS_CardinalityType
<1>2. Cardinality(old) = Cardinality(Live(w, k))
  <2>1. IsFiniteSet({w}) /\ Cardinality({w}) = 1
    BY FS_Singleton
  <2>2. Cardinality(old) = Cardinality({w}) * Cardinality(Live(w, k))
    BY <1>1, <2>1, FS_Product, Zenon
  <2>3. QED  BY <1>1, <2>1, <2>2
<1>3. Held(k) \cap old = old
  BY DEF Held, Live
<1>4. Held(k)' = Held(k) \ old
  BY DEF Held, Live
<1> HIDE DEF old
<1>5. Cardinality(Held(k)') = Cardinality(Held(k)) - Cardinality(old)
  <2>1. IsFiniteSet(Held(k))
    BY HeldFinite
  <2>2. Cardinality(Held(k) \ old) = Cardinality(Held(k)) - Cardinality(Held(k) \cap old)
    BY <2>1, FS_Difference, Zenon
  <2>3. QED  BY <1>3, <1>4, <2>2, Zenon
<1>6. QED  BY <1>1, <1>2, <1>5, HeldFinite

-----------------------------------------------------------------------------
(* The factory map and the objects, class by class *)

\* A step that moves no object between the classes and touches no factory.
LEMMA NothingMoves ==
  ASSUME LoadedIffUsed, factoryMap' = factoryMap,
         \A j \in Keys : LiveObjects(j)' = LiveObjects(j)
  PROVE  LoadedIffUsed' /\ UNCHANGED Lifetime!vars
<1>1. LoadedIffUsed'
  BY DEF LoadedIffUsed
<1>2. [j \in Keys |-> LiveObjects(j)]' = [j \in Keys |-> LiveObjects(j)]
  OBVIOUS
<1>3. {j \in Keys : factoryMap[j].open}' = {j \in Keys : factoryMap[j].open}
  OBVIOUS
<1>4. QED  BY <1>1, <1>2, <1>3 DEF Lifetime!vars

\* Start has one more object of class k, stored or lost.
LEMMA ObjectMade ==
  ASSUME TypeOK, LoadedIffUsed, NEW k \in Keys, NEW loadable,
         Found(factoryMap, k, loadable),
         factoryMap' = AddRef(WithScopedBlock(GetClassFactory(factoryMap, k, loadable), k), k),
         \A j \in Keys : LiveObjects(j) \in Nat
                         /\ LiveObjects(j)' = LiveObjects(j) + (IF j = k THEN 1 ELSE 0)
  PROVE  LoadedIffUsed' /\ factoryMap' \in [Keys -> Factory] /\ Lifetime!Create(k)
<1> DEFINE got == GetClassFactory(factoryMap, k, loadable)
<1>0. factoryMap \in [Keys -> Factory]
  BY DEF TypeOK
<1>1. got \in [Keys -> Factory] /\ got[k].open
  BY <1>0, FoundIsOpen
<1>2. \A j \in Keys : j # k => got[j] = factoryMap[j]
  BY <1>0 DEF GetClassFactory
<1>3. got[k].rct = 1 + LiveObjects(k)
  <2>1. CASE factoryMap[k].open
    BY <1>0, <2>1 DEF GetClassFactory, LoadedIffUsed
  <2>2. CASE ~factoryMap[k].open
    <3>1. LiveObjects(k) = 0
      BY <2>2 DEF LoadedIffUsed
    <3>2. got[k].rct = 1
      BY <1>0, <1>1, <2>2 DEF GetClassFactory, Opened
    <3>3. QED  BY <3>1, <3>2
  <2>3. QED  BY <2>1, <2>2
<1> HIDE DEF got
<1>4. factoryMap' = AddRef(got, k)
  BY <1>1, ScopedBlock DEF got
<1>5. /\ factoryMap' \in [Keys -> Factory]
      /\ factoryMap'[k] = [open |-> got[k].open, gen |-> got[k].gen, rct |-> got[k].rct + 1]
      /\ \A j \in Keys : j # k => factoryMap'[j] = factoryMap[j]
  <2>1. /\ AddRef(got, k) \in [Keys -> Factory]
        /\ AddRef(got, k)[k] = [open |-> got[k].open, gen |-> got[k].gen, rct |-> got[k].rct + 1]
        /\ \A j \in Keys : j # k => AddRef(got, k)[j] = got[j]
    BY <1>1, AddedRef, Zenon
  <2>2. QED  BY <1>2, <1>4, <2>1
<1>6. factoryMap'[k].open /\ factoryMap'[k].rct = 1 + LiveObjects(k)' /\ LiveObjects(k)' > 0
  <2>1. LiveObjects(k)' = LiveObjects(k) + 1
    OBVIOUS
  <2>2. QED  BY <1>1, <1>3, <1>5, <2>1
<1>7. LoadedIffUsed'
  BY <1>5, <1>6 DEF LoadedIffUsed
<1>8. Lifetime!Create(k)
  <2>1. {j \in Keys : factoryMap[j].open}' = {j \in Keys : factoryMap[j].open} \cup {k}
    BY <1>5, <1>6
  <2>2. [j \in Keys |-> LiveObjects(j)]'
          = [[j \in Keys |-> LiveObjects(j)] EXCEPT ![k] = LiveObjects(k) + 1]
    <3>1. \A j \in Keys : LiveObjects(j)' = IF j = k THEN LiveObjects(k) + 1 ELSE LiveObjects(j)
      OBVIOUS
    <3>2. QED  BY <3>1
  <2>3. QED  BY <2>1, <2>2 DEF Lifetime!Create
<1>9. QED  BY <1>5, <1>7, <1>8

\* Terminate has one object of class k less.
LEMMA ObjectDestroyed ==
  ASSUME TypeOK, LoadedIffUsed, NEW k \in Keys,
         LiveObjects(k) > 0,
         factoryMap' = ReleaseBlock(factoryMap, k),
         \A j \in Keys : LiveObjects(j) \in Nat
                         /\ LiveObjects(j)' = LiveObjects(j) - (IF j = k THEN 1 ELSE 0)
  PROVE  LoadedIffUsed' /\ factoryMap' \in [Keys -> Factory] /\ Lifetime!Destroy(k)
<1> DEFINE n == LiveObjects(k)
<1>0. n \in Nat \ {0} /\ LiveObjects(k)' = n - 1
  OBVIOUS
<1> HIDE DEF n
<1>1. factoryMap \in [Keys -> Factory] /\ factoryMap[k].open /\ factoryMap[k].rct = 1 + n
  BY DEF TypeOK, LoadedIffUsed, n
<1>2. /\ factoryMap' \in [Keys -> Factory]
      /\ factoryMap'[k].open <=> n # 1
      /\ n # 1 => factoryMap'[k].rct = n
      /\ \A j \in Keys : j # k => factoryMap'[j] = factoryMap[j]
  BY <1>0, <1>1, Released
<1>3. \A j \in Keys : j # k => LiveObjects(j)' = LiveObjects(j)
  OBVIOUS
<1>4. LoadedIffUsed'
  <2> SUFFICES ASSUME NEW j \in Keys
      PROVE  /\ factoryMap'[j].open <=> LiveObjects(j)' > 0
             /\ factoryMap'[j].open => factoryMap'[j].rct = 1 + LiveObjects(j)'
    BY DEF LoadedIffUsed
  <2>1. CASE j = k
    BY <1>0, <1>2, <2>1
  <2>2. CASE j # k
    BY <1>2, <1>3, <2>2 DEF LoadedIffUsed
  <2>3. QED  BY <2>1, <2>2
<1>5. Lifetime!Destroy(k)
  <2>1. {j \in Keys : factoryMap[j].open}'
          = IF n = 1 THEN {j \in Keys : factoryMap[j].open} \ {k}
                     ELSE {j \in Keys : factoryMap[j].open}
    BY <1>1, <1>2
  <2>2. [j \in Keys |-> LiveObjects(j)]'
          = [[j \in Keys |-> LiveObjects(j)] EXCEPT ![k] = n - 1]
    BY <1>0, <1>3
  <2>3. QED  BY <1>0, <2>1, <2>2 DEF Lifetime!Destroy, n
<1>6. QED  BY <1>2, <1>4, <1>5

LEMMA SetPWorkFacts ==
  ASSUME TypeOK, NEW w \in Wrappers, NEW b \in Blocks, NEW x \in Pointers, NEW y \in Pointers,
         SetPWork(w, b, x, y)
  PROVE  /\ pwork' \in [Wrappers -> [Blocks -> PWork]]
         /\ pwork'[w][b] = [block |-> x, info |-> y]
         /\ OnlyEntry(w, b)
BY DEF TypeOK, SetPWork, PWork, OnlyEntry

\* The position of the running function, and the block it is at.
LEMMA AtFacts ==
  ASSUME GeneratedCodeAssumption, TypeOK, CallInv, NEW fn, NEW w \in Wrappers, NEW b \in Blocks,
         At(fn, w, b)
  PROVE  /\ crashed = {} /\ call.fn = fn /\ call.w = w
         /\ call.at \in 1..Len(Order) /\ Order[call.at] = b
         /\ call.at + 1 \in 1..Done
         /\ \A i \in 1..Len(Order) : i # call.at => Order[i] # b
<1>1. /\ Len(Order) \in Nat /\ Done = Len(Order) + 1
      /\ \A i, j \in 1..Len(Order) : Order[i] = Order[j] => i = j
  BY OrderFacts
<1>2. call.at \in 1..Done
  BY DEF CallInv
<1>3. crashed = {} /\ call.fn = fn /\ call.w = w /\ call.at < Done /\ b = Order[call.at]
  BY DEF At
<1>4. QED  BY <1>1, <1>2, <1>3

-----------------------------------------------------------------------------
(* Errors *)

LogType(l) == l \in Seq(Message) /\ Len(l) <= Room

LEMMA NextFits == \A n, r \in Nat : n < r => n + 1 <= r
OBVIOUS

\* The Log keeps at most Room messages.
LEMMA LoggedType ==
  ASSUME GeneratedCodeAssumption, NEW l, LogType(l), NEW b \in Blocks,
         NEW what \in {"ports refused", "failure"}
  PROVE  LogType(Logged(l, b, what))
<1> DEFINE m == [block |-> b, what |-> what]
<1>1. m \in Message
  BY DEF Message
<1> HIDE DEF m
<1>2. l \in Seq(Message) /\ Len(l) <= Room
  BY DEF LogType
<1>3. Len(l) \in Nat
  BY <1>2, LenProperties
<1>4. CASE Len(l) < Room
  <2>1. Append(l, m) \in Seq(Message) /\ Len(Append(l, m)) = Len(l) + 1
    BY <1>1, <1>2, AppendProperties
  <2>2. Logged(l, b, what) = Append(l, m)
    BY <1>4 DEF Logged, m
  <2>3. Len(l) + 1 <= Room
    <3>1. Room \in Nat
      BY DEF GeneratedCodeAssumption
    <3>2. QED  BY <1>3, <1>4, <3>1, NextFits, Zenon
  <2>4. LogType(Append(l, m))
    BY <2>1, <2>3, Zenon DEF LogType
  <2>5. QED  BY <2>2, <2>4, Zenon
<1>5. CASE ~(Len(l) < Room)
  BY <1>5 DEF Logged, LogType
<1>6. QED  BY <1>4, <1>5

\* The error of a block: the wrapper has a status, and the function is left.
LEMMA NotifyFacts ==
  ASSUME GeneratedCodeAssumption, StatusType, NEW w \in Wrappers, NEW b \in Blocks,
         NEW l, LogType(l), NotifyErrors(w, b, l)
  PROVE  /\ LogType(log') /\ StatusType' /\ Failed(w)'
         /\ \A v \in Wrappers : v # w => errorStatus'[v] = errorStatus[v]
         /\ call' = [fn |-> call.fn, w |-> call.w, at |-> Done]
<1>1. LogType(log') /\ log' = Logged(l, b, "failure")
  BY LoggedType DEF NotifyErrors
<1>2. errorStatus' = [errorStatus EXCEPT ![w] = {[by |-> b, text |-> log']}]
  BY DEF NotifyErrors
<1>3. {[by |-> b, text |-> log']} \in SUBSET [by : Blocks, text : Seq(Message)]
  BY <1>1 DEF LogType
<1>4. QED  BY <1>1, <1>2, <1>3 DEF StatusType, Failed, NotifyErrors, Leave

\* How the code of one block ends: with the next block, or with an error of its own.
Ended(w) ==
  /\ LogType(log') /\ StatusType'
  /\ \A v \in Wrappers : v # w => errorStatus'[v] = errorStatus[v]
  /\ \/ /\ call' = [fn |-> call.fn, w |-> call.w, at |-> call.at + 1]
        /\ errorStatus' = errorStatus
     \/ /\ call' = [fn |-> call.fn, w |-> call.w, at |-> Done]
        /\ Failed(w)'

LEMMA BlockEnds ==
  ASSUME GeneratedCodeAssumption, StatusType, NEW w \in Wrappers, NEW b \in Blocks,
         NEW l, LogType(l), (GoOn /\ NoError(l)) \/ NotifyErrors(w, b, l)
  PROVE  Ended(w)
<1>1. CASE GoOn /\ NoError(l)
  BY <1>1 DEF GoOn, NoError, StatusType, Ended
<1>2. CASE NotifyErrors(w, b, l)
  BY <1>2, NotifyFacts DEF Ended
<1>3. QED  BY <1>1, <1>2

-----------------------------------------------------------------------------
(* The position of the running function and the wrappers at rest *)

\* The code of a block of w touches no other wrapper, and w does not rest.
LEMMA OthersRest ==
  ASSUME RestInv, NEW w \in Wrappers, call.fn # "none", call.w = w,
         call'.fn = call.fn, call'.w = w, state' = state,
         \A v \in Wrappers : v # w => errorStatus'[v] = errorStatus[v],
         \A v \in Wrappers, c \in Blocks : v # w => pwork'[v][c] = pwork[v][c]
  PROVE  RestInv'
<1> SUFFICES ASSUME NEW v \in Wrappers, Resting(v)'
    PROVE  /\ state'[v] = "ready" => ~Failed(v)' /\ \A b \in Blocks : pwork'[v][b] = Full
           /\ state'[v] = "broken" /\ v \notin Careless => \A b \in Blocks : pwork'[v][b].block = "live"
           /\ state'[v] = "over" /\ ~Failed(v)' => \A b \in Blocks : pwork'[v][b].block # "live"
  BY DEF RestInv
<1>1. v # w
  BY DEF Resting, Idle
<1>2. Resting(v)
  BY <1>1 DEF Resting
<1>3. QED  BY <1>1, <1>2 DEF RestInv, Failed

\* The types after the code of one block.
LEMMA BlockTypes ==
  ASSUME GeneratedCodeAssumption, IInv, NEW w \in Wrappers, Ended(w),
         call.fn # "none", call.at + 1 \in 1..Done,
         UNCHANGED <<state, inits, crashed>>,
         pwork' \in [Wrappers -> [Blocks -> PWork]],
         factoryMap' \in [Keys -> Factory], lost' \in [Keys -> Nat]
  PROVE  TypeOK' /\ StatusType'
<1>1. TypeOK /\ Done \in Nat
  BY OrderFacts DEF IInv
<1>2. call' \in Call
  BY <1>1 DEF Ended, TypeOK, Call
<1>3. log' \in Seq(Message) /\ Len(log') <= Room /\ StatusType'
  BY DEF Ended, LogType
<1>4. \A v \in Wrappers : \A status \in errorStatus'[v] :
        status.by \in Blocks /\ status.text \in Seq(Message)
  BY <1>3 DEF StatusType
<1>5. QED  BY <1>1, <1>2, <1>3, <1>4 DEF TypeOK

\* The process stops at a null or dangling pointer: a careless wrapper calls through its
\* PWork, or a create() failed in an initialization.
LEMMA CrashStep ==
  ASSUME IInv, NEW w \in Wrappers, call.w = w, w \in Careless \/ call.fn = "initialize", Crash
  PROVE  IInv' /\ UNCHANGED Lifetime!vars
<1>1. crashed' = {w} /\ UNCHANGED <<call, state, inits, pwork, factoryMap, lost, log, errorStatus>>
  BY DEF Crash
<1>2. TypeOK' /\ StatusType'
  BY <1>1 DEF IInv, TypeOK, StatusType
<1>3. CallInv' /\ RestInv' /\ ShapeInv'
  BY <1>1 DEF IInv, ControlInv, CallInv, RestInv, ShapeInv, Resting, Idle, Failed, Done
<1>4. NoNullPWork'
  BY <1>1 DEF NoNullPWork
<1>5. LoadedIffUsed' /\ UNCHANGED Lifetime!vars
  BY <1>1 DEF IInv, LoadedIffUsed, LiveObjects, Live, Lifetime!vars
<1>6. QED  BY <1>2, <1>3, <1>4, <1>5 DEF IInv, ControlInv

-----------------------------------------------------------------------------
(* The code of one block in initialize() *)

\* Start either stores the whole of the block and goes on, or leaves with an error
\* and stores no object.
LEMMA StartControl ==
  ASSUME GeneratedCodeAssumption, IInv, NEW w \in Wrappers, NEW b \in Blocks,
         At("initialize", w, b), Ended(w), OnlyEntry(w, b),
         UNCHANGED <<state, inits, crashed>>,
         \/ /\ call' = [fn |-> call.fn, w |-> call.w, at |-> call.at + 1]
            /\ errorStatus' = errorStatus
            /\ pwork'[w][b] = Full
         \/ /\ call' = [fn |-> call.fn, w |-> call.w, at |-> Done]
            /\ Failed(w)'
            /\ pwork'[w][b].block # "live"
  PROVE  ControlInv'
<1>1. TypeOK /\ CallInv /\ RestInv /\ ShapeInv /\ NoNullPWork
  BY DEF IInv, ControlInv
<1>2. /\ call.fn = "initialize" /\ call.w = w
      /\ call.at \in 1..Len(Order) /\ Order[call.at] = b
      /\ \A i \in 1..Len(Order) : i # call.at => Order[i] # b
  BY <1>1, AtFacts
<1>3. Len(Order) \in Nat /\ Done = Len(Order) + 1 /\ \A i \in 1..Len(Order) : Order[i] \in Blocks
  BY OrderFacts
<1>4. /\ ~Failed(w)
      /\ \A i \in call.at..Len(Order) : pwork[w][Order[i]] = NoPWork
      /\ \A i \in 1..(call.at - 1) : pwork[w][Order[i]] = Full
  BY <1>1, <1>2, <1>3 DEF CallInv
<1>5. \A i \in 1..Len(Order) : i # call.at => pwork'[w][Order[i]] = pwork[w][Order[i]]
  BY <1>2, <1>3 DEF OnlyEntry
<1>6. CallInv'
  <2>1. CASE call' = [fn |-> call.fn, w |-> call.w, at |-> call.at + 1]
             /\ errorStatus' = errorStatus /\ pwork'[w][b] = Full
    <3>1. call'.fn = "initialize" /\ call'.w = w /\ call'.at = call.at + 1 /\ ~Failed(w)'
      BY <1>2, <1>4, <2>1 DEF Failed
    <3>2. \A i \in call'.at..Len(Order) : pwork'[w][Order[i]] = NoPWork
      BY <1>2, <1>3, <1>4, <1>5, <3>1
    <3>3. \A i \in 1..(call'.at - 1) : pwork'[w][Order[i]] = Full
      <4>1. pwork'[w][Order[call.at]] = Full
        BY <1>2, <2>1
      <4>2. \A i \in 1..(call'.at - 1) : i = call.at \/ i \in 1..(call.at - 1)
        BY <1>2, <1>3, <3>1
      <4>3. \A i \in 1..(call.at - 1) : i \in 1..Len(Order) /\ i # call.at
        BY <1>2, <1>3
      <4>4. QED  BY <1>4, <1>5, <4>1, <4>2, <4>3
    <3>4. call'.at \in 1..Done'
      BY <1>2, <1>3, <3>1 DEF Done
    <3>5. QED  BY <3>1, <3>2, <3>3, <3>4 DEF CallInv
  <2>2. CASE call' = [fn |-> call.fn, w |-> call.w, at |-> Done] /\ Failed(w)'
    <3>1. call'.fn = "initialize" /\ call'.w = w /\ call'.at = Done /\ Done' = Done
      BY <1>2, <2>2 DEF Done
    <3>2. Done \in 1..Done /\ \A i \in Done..Len(Order) : FALSE
      BY <1>3
    <3>3. QED  BY <2>2, <3>1, <3>2 DEF CallInv
  <2>3. QED  BY <2>1, <2>2
<1>7. RestInv'
  BY <1>1, <1>2, OthersRest DEF OnlyEntry, Ended
<1>8. ShapeInv'
  BY <1>1 DEF ShapeInv, OnlyEntry, Full
<1>9. NoNullPWork'
  BY <1>1, AtFacts DEF NoNullPWork
<1>10. QED  BY <1>6, <1>7, <1>8, <1>9 DEF ControlInv

\* Start keeps the invariant, and is a Create of the class of its block or no step of
\* the plugins' lifetime.
LEMMA StartStep ==
  ASSUME GeneratedCodeAssumption, IInv, NEW w \in Wrappers, NEW b \in Blocks, Start(w, b)
  PROVE  IInv' /\ (Lifetime!Next \/ UNCHANGED Lifetime!vars)
<1> DEFINE k == KeyOf[b]
<1>1. TypeOK /\ StatusType /\ CallInv /\ LoadedIffUsed /\ ControlInv
  BY DEF IInv, ControlInv
<1>2. /\ At("initialize", w, b)
      /\ call.fn = "initialize" /\ call.w = w /\ call.at \in 1..Len(Order)
      /\ Order[call.at] = b /\ call.at + 1 \in 1..Done
  BY <1>1, AtFacts DEF Start
<1>3. k \in Keys /\ k = KeyOf[b]
  BY DEF GeneratedCodeAssumption
<1>4. pwork[w][b] = NoPWork
  <2>1. Len(Order) \in Nat
    BY OrderFacts
  <2>2. call.at \in call.at..Len(Order)
    BY <1>2, <2>1
  <2>3. QED  BY <1>1, <1>2, <2>2 DEF CallInv
<1>5. pwork[w][b].block = "null" /\ "live" \in Pointers /\ "null" \in Pointers
  BY <1>4 DEF NoPWork, Pointers
<1>6. LogType(log)
  BY <1>1 DEF TypeOK, LogType
<1>7. LogType(Configured(b))
  BY <1>6, LoggedType DEF Configured
<1>8. \A j \in Keys : /\ LiveObjects(j) = Cardinality(Held(j)) + lost[j]
                      /\ LiveObjects(j) \in Nat /\ Cardinality(Held(j)) \in Nat
                      /\ lost[j] \in Nat
  BY <1>1, LiveIsNat
<1>9. \A j \in Keys : LiveObjects(j)' = Cardinality(Held(j)') + lost'[j]
  BY DEF LiveObjects, Held
<1> HIDE DEF k
<1>10. PICK loadable \in BOOLEAN :
       \/ /\ ~Found(factoryMap, k, loadable)
          /\ SetPWork(w, b, pwork[w][b].block, "live")
          /\ NotifyErrors(w, b, log)
          /\ UNCHANGED <<state, inits, factoryMap, lost, crashed>>
       \/ /\ Found(factoryMap, k, loadable)
          /\ Crash
       \/ /\ Found(factoryMap, k, loadable)
          /\ UNCHANGED <<state, inits, crashed>>
          /\ factoryMap' = AddRef(WithScopedBlock(GetClassFactory(factoryMap, k, loadable), k), k)
          /\ \/ /\ SetPWork(w, b, "live", "live")
                /\ GoOn
                /\ NoError(Configured(b))
                /\ UNCHANGED lost
             \/ /\ SetPWork(w, b, pwork[w][b].block, "live")
                /\ NotifyErrors(w, b, Configured(b))
                /\ lost' = [lost EXCEPT ![k] = @ + 1]
  BY <1>3, Zenon DEF Start
<1>11. CASE /\ ~Found(factoryMap, k, loadable)
            /\ SetPWork(w, b, pwork[w][b].block, "live")
            /\ NotifyErrors(w, b, log)
            /\ UNCHANGED <<state, inits, factoryMap, lost, crashed>>
  <2>1. /\ pwork' \in [Wrappers -> [Blocks -> PWork]]
        /\ pwork'[w][b] = [block |-> "null", info |-> "live"]
        /\ OnlyEntry(w, b)
    BY <1>1, <1>5, <1>11, SetPWorkFacts
  <2>2. /\ Ended(w) /\ Failed(w)'
        /\ call' = [fn |-> call.fn, w |-> call.w, at |-> Done]
    BY <1>1, <1>6, <1>11, BlockEnds, NotifyFacts
  <2>3. ControlInv'
    BY <1>2, <1>11, <2>1, <2>2, StartControl
  <2>4. TypeOK' /\ StatusType'
    BY <1>1, <1>2, <1>11, <2>1, <2>2, BlockTypes DEF TypeOK
  <2>5. \A j \in Keys : Held(j)' = Held(j)
    BY <1>5, <2>1, HeldSame DEF OnlyEntry
  <2>6. LoadedIffUsed' /\ UNCHANGED Lifetime!vars
    BY <1>1, <1>8, <1>9, <1>11, <2>5, NothingMoves
  <2>7. QED  BY <2>3, <2>4, <2>6 DEF IInv
<1>12. ASSUME /\ Found(factoryMap, k, loadable)
              /\ UNCHANGED <<state, inits, crashed>>
              /\ factoryMap' = AddRef(WithScopedBlock(GetClassFactory(factoryMap, k, loadable), k), k),
              pwork' \in [Wrappers -> [Blocks -> PWork]],
              ControlInv', Ended(w), lost' \in [Keys -> Nat],
              \A j \in Keys : LiveObjects(j)' = LiveObjects(j) + (IF j = k THEN 1 ELSE 0)
       PROVE  IInv' /\ Lifetime!Next
  <2>1. LoadedIffUsed' /\ factoryMap' \in [Keys -> Factory] /\ Lifetime!Create(k)
    BY <1>1, <1>3, <1>8, <1>12, ObjectMade
  <2>2. TypeOK' /\ StatusType'
    BY <1>2, <1>12, <2>1, BlockTypes
  <2>3. QED  BY <1>3, <1>12, <2>1, <2>2 DEF IInv, Lifetime!Next
<1>13. CASE /\ Found(factoryMap, k, loadable)
            /\ UNCHANGED <<state, inits, crashed>>
            /\ factoryMap' = AddRef(WithScopedBlock(GetClassFactory(factoryMap, k, loadable), k), k)
            /\ SetPWork(w, b, "live", "live")
            /\ GoOn
            /\ NoError(Configured(b))
            /\ UNCHANGED lost
  <2>1. /\ pwork' \in [Wrappers -> [Blocks -> PWork]]
        /\ pwork'[w][b] = Full
        /\ OnlyEntry(w, b)
    BY <1>1, <1>5, <1>13, SetPWorkFacts DEF Full
  <2>2. /\ Ended(w) /\ errorStatus' = errorStatus
        /\ call' = [fn |-> call.fn, w |-> call.w, at |-> call.at + 1]
    BY <1>1, <1>7, <1>13, BlockEnds DEF NoError, GoOn
  <2>3. ControlInv'
    BY <1>2, <1>13, <2>1, <2>2, StartControl
  <2>4. \A j \in Keys : Cardinality(Held(j)') = Cardinality(Held(j)) + (IF j = k THEN 1 ELSE 0)
    BY <1>3, <1>5, <2>1, HeldAdd DEF Full
  <2>5. \A j \in Keys : LiveObjects(j)' = LiveObjects(j) + (IF j = k THEN 1 ELSE 0)
    BY <1>8, <1>9, <1>13, <2>4
  <2>6. lost' \in [Keys -> Nat]
    BY <1>1, <1>13 DEF TypeOK
  <2>7. QED  BY <1>12, <1>13, <2>1, <2>2, <2>3, <2>5, <2>6
<1>14. CASE /\ Found(factoryMap, k, loadable)
            /\ UNCHANGED <<state, inits, crashed>>
            /\ factoryMap' = AddRef(WithScopedBlock(GetClassFactory(factoryMap, k, loadable), k), k)
            /\ SetPWork(w, b, pwork[w][b].block, "live")
            /\ NotifyErrors(w, b, Configured(b))
            /\ lost' = [lost EXCEPT ![k] = @ + 1]
  <2>1. /\ pwork' \in [Wrappers -> [Blocks -> PWork]]
        /\ pwork'[w][b] = [block |-> "null", info |-> "live"]
        /\ OnlyEntry(w, b)
    BY <1>1, <1>5, <1>14, SetPWorkFacts
  <2>2. /\ Ended(w) /\ Failed(w)'
        /\ call' = [fn |-> call.fn, w |-> call.w, at |-> Done]
    BY <1>1, <1>7, <1>14, BlockEnds, NotifyFacts
  <2>3. ControlInv'
    BY <1>2, <1>14, <2>1, <2>2, StartControl
  <2>4. \A j \in Keys : Held(j)' = Held(j)
    BY <1>5, <2>1, HeldSame DEF OnlyEntry
  <2>5. lost' \in [Keys -> Nat] /\ \A j \in Keys : lost'[j] = lost[j] + (IF j = k THEN 1 ELSE 0)
    <3>1. lost \in [Keys -> Nat] /\ lost' = [lost EXCEPT ![k] = lost[k] + 1]
      BY <1>1, <1>14 DEF TypeOK
    <3>2. lost[k] + 1 \in Nat
      BY <1>3, <3>1
    <3>3. lost' \in [Keys -> Nat] /\ \A j \in Keys : lost'[j] = IF j = k THEN lost[k] + 1 ELSE lost[j]
      BY <1>3, <3>1, <3>2, Zenon
    <3>4. ASSUME NEW j \in Keys PROVE lost'[j] = lost[j] + (IF j = k THEN 1 ELSE 0)
      <4>1. lost[j] \in Nat
        BY <3>1
      <4>2. QED  BY <3>3, <4>1
    <3>5. QED  BY <3>3, <3>4
  <2>6. \A j \in Keys : LiveObjects(j)' = LiveObjects(j) + (IF j = k THEN 1 ELSE 0)
    <3> SUFFICES ASSUME NEW j \in Keys
        PROVE  LiveObjects(j)' = LiveObjects(j) + (IF j = k THEN 1 ELSE 0)
      OBVIOUS
    <3>1. LiveObjects(j)' = Cardinality(Held(j)) + lost'[j]
      BY <1>9, <2>4
    <3>2. LiveObjects(j) = Cardinality(Held(j)) + lost[j]
      BY <1>8
    <3>3. Cardinality(Held(j)) \in Nat /\ lost[j] \in Nat
      BY <1>8
    <3>4. lost'[j] = lost[j] + (IF j = k THEN 1 ELSE 0)
      BY <2>5
    <3>5. QED  BY <3>1, <3>2, <3>3, <3>4
  <2>7. QED  BY <1>12, <1>14, <2>1, <2>2, <2>3, <2>5, <2>6
<1>15. CASE Crash
  BY <1>2, <1>15, CrashStep
<1>16. QED  BY <1>10, <1>11, <1>13, <1>14, <1>15

-----------------------------------------------------------------------------
(* The code of one block in step() *)

LEMMA OutputsStep ==
  ASSUME GeneratedCodeAssumption, IInv, NEW w \in Wrappers, NEW b \in Blocks, Outputs(w, b)
  PROVE  IInv' /\ UNCHANGED Lifetime!vars
<1>1. TypeOK /\ StatusType /\ CallInv /\ RestInv /\ ShapeInv /\ NoNullPWork /\ LoadedIffUsed
  BY DEF IInv, ControlInv
<1>2. /\ call.fn = "step" /\ call.w = w /\ call.at \in 1..Len(Order)
      /\ Order[call.at] = b /\ call.at + 1 \in 1..Done
  BY <1>1, AtFacts DEF Outputs
<1>3. Len(Order) \in Nat /\ Done = Len(Order) + 1 /\ \A i \in 1..Len(Order) : Order[i] \in Blocks
  BY OrderFacts
<1>4. CASE pwork[w][b].block # "live"
  <2>1. w \in Careless
    BY <1>1, <1>2, <1>4 DEF CallInv
  <2>2. Crash
    BY <1>4 DEF Outputs
  <2>3. QED  BY <1>2, <2>1, <2>2, CrashStep
<1>5. CASE pwork[w][b].block = "live"
  <2>1. /\ (GoOn /\ NoError(log)) \/ NotifyErrors(w, b, log)
        /\ UNCHANGED <<state, inits, pwork, factoryMap, lost, crashed>>
    BY <1>5 DEF Outputs
  <2>2. LogType(log)
    BY <1>1 DEF TypeOK, LogType
  <2>3. Ended(w)
    BY <1>1, <2>1, <2>2, BlockEnds
  <2>4. TypeOK' /\ StatusType'
    BY <1>1, <1>2, <2>1, <2>3, BlockTypes DEF TypeOK
  <2>5. CallInv'
    <3>1. w \in Careless \/ \A c \in Blocks : pwork'[w][c].block = "live"
      BY <1>1, <1>2, <2>1 DEF CallInv
    <3>2. CASE call' = [fn |-> call.fn, w |-> call.w, at |-> call.at + 1] /\ errorStatus' = errorStatus
      <4>1. call'.fn = "step" /\ call'.w = w /\ call'.at = call.at + 1 /\ call'.at \in 1..Done'
        BY <1>2, <3>2 DEF Done
      <4>2. Failed(w)' \/ \A i \in 1..(call'.at - 1) : pwork'[w][Order[i]].block = "live"
        <5>1. CASE Failed(w)
          BY <3>2, <5>1 DEF Failed
        <5>2. CASE ~Failed(w)
          <6>1. \A i \in 1..(call.at - 1) : pwork[w][Order[i]].block = "live"
            BY <1>1, <1>2, <5>2 DEF CallInv
          <6>2. \A i \in 1..(call'.at - 1) : i = call.at \/ i \in 1..(call.at - 1)
            BY <1>2, <1>3, <4>1
          <6>3. QED  BY <1>2, <1>5, <2>1, <6>1, <6>2
        <5>3. QED  BY <5>1, <5>2
      <4>3. QED  BY <3>1, <4>1, <4>2 DEF CallInv
    <3>3. CASE call' = [fn |-> call.fn, w |-> call.w, at |-> Done] /\ Failed(w)'
      <4>1. call'.fn = "step" /\ call'.w = w /\ call'.at = Done /\ Done' = Done /\ Done \in 1..Done
        BY <1>2, <1>3, <3>3 DEF Done
      <4>2. QED  BY <3>1, <3>3, <4>1 DEF CallInv
    <3>4. QED  BY <2>3, <3>2, <3>3 DEF Ended
  <2>6. RestInv'
    BY <1>1, <1>2, <2>1, <2>3, OthersRest DEF Ended
  <2>7. ShapeInv' /\ NoNullPWork'
    BY <1>1, <2>1, AtFacts DEF ShapeInv, NoNullPWork, Outputs
  <2>8. LoadedIffUsed' /\ UNCHANGED Lifetime!vars
    BY <1>1, <2>1, NothingMoves DEF LiveObjects, Live
  <2>9. QED  BY <2>4, <2>5, <2>6, <2>7, <2>8 DEF IInv, ControlInv
<1>6. QED  BY <1>4, <1>5

-----------------------------------------------------------------------------
(* The code of one block in terminate() *)

\* A block that Terminate has destroyed, or left behind with an error: the position
\* and the wrappers at rest.
LEMMA TerminateControl ==
  ASSUME GeneratedCodeAssumption, IInv, NEW w \in Wrappers, NEW b \in Blocks,
         At("terminate", w, b), Ended(w), OnlyEntry(w, b),
         UNCHANGED <<state, inits, crashed>>,
         \/ pwork'[w][b].block # "live"
         \/ /\ pwork' = pwork
            /\ call' = [fn |-> call.fn, w |-> call.w, at |-> Done]
            /\ Failed(w)'
  PROVE  ControlInv'
<1>1. TypeOK /\ CallInv /\ RestInv /\ ShapeInv /\ NoNullPWork
  BY DEF IInv, ControlInv
<1>2. /\ call.fn = "terminate" /\ call.w = w
      /\ call.at \in 1..Len(Order) /\ Order[call.at] = b
      /\ \A i \in 1..Len(Order) : i # call.at => Order[i] # b
  BY <1>1, AtFacts
<1>3. Len(Order) \in Nat /\ Done = Len(Order) + 1 /\ \A i \in 1..Len(Order) : Order[i] \in Blocks
  BY OrderFacts
<1>4. \A i \in 1..Len(Order) : i # call.at => pwork'[w][Order[i]] = pwork[w][Order[i]]
  BY <1>2, <1>3 DEF OnlyEntry
<1>5. CallInv'
  <2>1. CASE call' = [fn |-> call.fn, w |-> call.w, at |-> Done] /\ Failed(w)'
    <3>1. call'.fn = "terminate" /\ call'.w = w /\ call'.at = Done /\ Done' = Done
      BY <1>2, <2>1 DEF Done
    <3>2. Done \in 1..Done /\ \A i \in Done..Len(Order) : FALSE
      BY <1>3
    <3>3. QED  BY <2>1, <3>1, <3>2 DEF CallInv
  <2>2. CASE /\ call' = [fn |-> call.fn, w |-> call.w, at |-> call.at + 1]
             /\ errorStatus' = errorStatus
             /\ pwork'[w][b].block # "live"
    <3>1. call'.fn = "terminate" /\ call'.w = w /\ call'.at = call.at + 1 /\ call'.at \in 1..Done'
      BY <1>2, <1>3, <2>2 DEF Done
    <3>2. Failed(w)' \/ \A i \in 1..(call'.at - 1) : pwork'[w][Order[i]].block # "live"
      <4>1. CASE Failed(w)
        BY <2>2, <4>1 DEF Failed
      <4>2. CASE ~Failed(w)
        <5>1. \A i \in 1..(call.at - 1) : pwork[w][Order[i]].block # "live"
          BY <1>1, <1>2, <4>2 DEF CallInv
        <5>2. \A i \in 1..(call'.at - 1) : i = call.at \/ i \in 1..(call.at - 1)
          BY <1>2, <1>3, <3>1
        <5>3. \A i \in 1..(call.at - 1) : i \in 1..Len(Order) /\ i # call.at
          BY <1>2, <1>3
        <5>4. QED  BY <1>2, <1>4, <2>2, <5>1, <5>2, <5>3
      <4>3. QED  BY <4>1, <4>2
    <3>3. w \in Careless \/ \A i \in call'.at..Len(Order) : pwork'[w][Order[i]].block = "live"
      <4>1. \A i \in call'.at..Len(Order) : i \in call.at..Len(Order) /\ i \in 1..Len(Order) /\ i # call.at
        BY <1>2, <1>3, <3>1
      <4>2. w \in Careless \/ \A i \in call.at..Len(Order) : pwork[w][Order[i]].block = "live"
        BY <1>1, <1>2 DEF CallInv
      <4>3. QED  BY <1>4, <4>1, <4>2
    <3>4. QED  BY <3>1, <3>2, <3>3 DEF CallInv
  <2>3. QED  BY <2>1, <2>2 DEF Ended
<1>6. RestInv'
  BY <1>1, <1>2, OthersRest DEF OnlyEntry, Ended
<1>7. ShapeInv'
  BY <1>1 DEF ShapeInv, OnlyEntry
<1>8. NoNullPWork'
  BY <1>1, AtFacts DEF NoNullPWork
<1>9. QED  BY <1>5, <1>6, <1>7, <1>8 DEF ControlInv

\* Terminate is a Destroy of the class of its block when it reaches the object.
LEMMA TerminateStep ==
  ASSUME GeneratedCodeAssumption, IInv, NEW w \in Wrappers, NEW b \in Blocks, Terminate(w, b)
  PROVE  IInv' /\ (Lifetime!Next \/ UNCHANGED Lifetime!vars)
<1> DEFINE k == KeyOf[b]
<1>1. TypeOK /\ StatusType /\ CallInv /\ LoadedIffUsed /\ ControlInv
  BY DEF IInv, ControlInv
<1>2. /\ At("terminate", w, b)
      /\ call.fn = "terminate" /\ call.w = w /\ call.at \in 1..Len(Order)
      /\ Order[call.at] = b /\ call.at + 1 \in 1..Done
  BY <1>1, AtFacts DEF Terminate
<1>3. k \in Keys /\ k = KeyOf[b]
  BY DEF GeneratedCodeAssumption
<1>4. LogType(log)
  BY <1>1 DEF TypeOK, LogType
<1>5. \A j \in Keys : /\ LiveObjects(j) = Cardinality(Held(j)) + lost[j]
                      /\ LiveObjects(j) \in Nat /\ Cardinality(Held(j)) \in Nat
                      /\ lost[j] \in Nat
  BY <1>1, LiveIsNat
<1>6. \A j \in Keys : LiveObjects(j)' = Cardinality(Held(j)') + lost'[j]
  BY DEF LiveObjects, Held
<1> HIDE DEF k
<1>7. PICK loadable \in BOOLEAN :
       \/ /\ ~Found(factoryMap, k, loadable)
          /\ NotifyErrors(w, b, log)
          /\ UNCHANGED <<state, inits, pwork, factoryMap, lost, crashed>>
       \/ /\ Found(factoryMap, k, loadable)
          /\ IF pwork[w][b].block # "live"
             THEN Crash
             ELSE /\ factoryMap' = ReleaseBlock(GetClassFactory(factoryMap, k, loadable), k)
                  /\ SetPWork(w, b, "dangling", "dangling")
                  /\ (GoOn /\ NoError(log)) \/ NotifyErrors(w, b, log)
                  /\ UNCHANGED <<state, inits, lost, crashed>>
  BY <1>3, Zenon DEF Terminate
<1>8. CASE /\ NotifyErrors(w, b, log)
           /\ UNCHANGED <<state, inits, pwork, factoryMap, lost, crashed>>
  <2>1. /\ Ended(w) /\ Failed(w)'
        /\ call' = [fn |-> call.fn, w |-> call.w, at |-> Done]
    BY <1>1, <1>4, <1>8, BlockEnds, NotifyFacts
  <2>2. ControlInv'
    BY <1>2, <1>8, <2>1, TerminateControl DEF OnlyEntry
  <2>3. TypeOK' /\ StatusType'
    BY <1>1, <1>2, <1>8, <2>1, BlockTypes DEF TypeOK
  <2>4. LoadedIffUsed' /\ UNCHANGED Lifetime!vars
    BY <1>1, <1>8, NothingMoves DEF LiveObjects, Live
  <2>5. QED  BY <2>2, <2>3, <2>4 DEF IInv
<1>9. CASE pwork[w][b].block # "live" /\ Crash
  <2>1. Len(Order) \in Nat
    BY OrderFacts
  <2>2. call.at \in call.at..Len(Order)
    BY <1>2, <2>1
  <2>3. w \in Careless
    BY <1>1, <1>2, <1>9, <2>2 DEF CallInv
  <2>4. QED  BY <1>2, <1>9, <2>3, CrashStep
<1>10. CASE /\ pwork[w][b].block = "live"
            /\ factoryMap' = ReleaseBlock(GetClassFactory(factoryMap, k, loadable), k)
            /\ SetPWork(w, b, "dangling", "dangling")
            /\ (GoOn /\ NoError(log)) \/ NotifyErrors(w, b, log)
            /\ UNCHANGED <<state, inits, lost, crashed>>
  <2>1. "dangling" \in Pointers
    BY DEF Pointers
  <2>2. /\ pwork' \in [Wrappers -> [Blocks -> PWork]]
        /\ pwork'[w][b] = [block |-> "dangling", info |-> "dangling"]
        /\ OnlyEntry(w, b)
    BY <1>1, <1>10, <2>1, SetPWorkFacts
  <2>3. Ended(w)
    BY <1>1, <1>4, <1>10, BlockEnds
  <2>4. ControlInv'
    BY <1>2, <1>10, <2>2, <2>3, TerminateControl
  <2>5. \A j \in Keys : Cardinality(Held(j)') = Cardinality(Held(j)) - (IF j = k THEN 1 ELSE 0)
    BY <1>3, <1>10, <2>2, HeldRemove
  <2>6. \A j \in Keys : LiveObjects(j)' = LiveObjects(j) - (IF j = k THEN 1 ELSE 0)
    BY <1>5, <1>6, <1>10, <2>5
  <2>7. LiveObjects(k) > 0
    <3>1. Cardinality(Held(k)') \in Nat /\ Cardinality(Held(k)') = Cardinality(Held(k)) - 1
      BY <1>3, <2>5, HeldFinite
    <3>2. QED  BY <1>3, <1>5, <3>1
  <2>8. factoryMap' = ReleaseBlock(factoryMap, k)
    <3>1. factoryMap[k].open
      BY <1>1, <1>3, <2>7 DEF LoadedIffUsed
    <3>2. QED  BY <1>10, <3>1 DEF GetClassFactory
  <2>9. LoadedIffUsed' /\ factoryMap' \in [Keys -> Factory] /\ Lifetime!Destroy(k)
    BY <1>1, <1>3, <1>5, <2>6, <2>7, <2>8, ObjectDestroyed
  <2>10. TypeOK' /\ StatusType'
    BY <1>1, <1>2, <1>10, <2>2, <2>3, <2>9, BlockTypes DEF TypeOK
  <2>11. QED  BY <1>3, <2>4, <2>9, <2>10 DEF IInv, Lifetime!Next
<1>11. QED  BY <1>7, <1>8, <1>9, <1>10

-----------------------------------------------------------------------------
(* The wrapper and its client *)

\* A model function is called: its wrapper no longer rests, the others do.
LEMMA EnterFacts ==
  ASSUME GeneratedCodeAssumption, IInv, NEW fn \in Functions \ {"none"}, NEW w \in Wrappers,
         Enter(fn, w),
         \A v \in Wrappers : v # w => state'[v] = state[v] /\ pwork'[v] = pwork[v]
                                      /\ errorStatus'[v] = errorStatus[v]
  PROVE  /\ call' \in Call /\ call'.fn = fn /\ call'.w = w /\ call'.at = 1 /\ 1 \in 1..Done'
         /\ RestInv' /\ NoNullPWork'
<1>1. Len(Order) \in Nat /\ Done = Len(Order) + 1
  BY OrderFacts
<1>2. call' = [fn |-> fn, w |-> w, at |-> 1] /\ crashed' = {} /\ call.fn = "none"
  BY DEF Enter, Idle
<1>3. call' \in Call /\ call'.fn = fn /\ call'.w = w /\ call'.at = 1
  BY <1>2 DEF Call
<1>4. 1 \in 1..Done' /\ Done' = Done
  BY <1>1 DEF Done
<1>5. RestInv'
  <2> SUFFICES ASSUME NEW v \in Wrappers, Resting(v)'
      PROVE  /\ state'[v] = "ready" => ~Failed(v)' /\ \A b \in Blocks : pwork'[v][b] = Full
             /\ state'[v] = "broken" /\ v \notin Careless => \A b \in Blocks : pwork'[v][b].block = "live"
             /\ state'[v] = "over" /\ ~Failed(v)' => \A b \in Blocks : pwork'[v][b].block # "live"
    BY DEF RestInv
  <2>1. v # w
    BY <1>3 DEF Resting, Idle
  <2>2. Resting(v) /\ RestInv
    BY <1>2 DEF Resting, Idle, IInv, ControlInv
  <2>3. QED  BY <2>1, <2>2 DEF RestInv, Failed
<1>6. NoNullPWork'
  BY <1>2 DEF NoNullPWork
<1>7. QED  BY <1>3, <1>4, <1>5, <1>6

\* The new model of w has no error and no object; the objects of the old one are lost,
\* not destroyed.
LEMMA InitializeStep ==
  ASSUME GeneratedCodeAssumption, IInv, NEW w \in Wrappers, Initialize(w)
  PROVE  IInv' /\ UNCHANGED Lifetime!vars
<1>1. TypeOK /\ StatusType /\ RestInv /\ ShapeInv /\ LoadedIffUsed
  BY DEF IInv, ControlInv
<1>2. /\ inits[w] < MaxInits /\ Enter("initialize", w)
      /\ inits' = [inits EXCEPT ![w] = @ + 1]
      /\ state' = [state EXCEPT ![w] = "none"]
      /\ pwork' = [pwork EXCEPT ![w] = [b \in Blocks |-> NoPWork]]
      /\ lost' = [k \in Keys |-> lost[k] + Cardinality(Live(w, k))]
      /\ errorStatus' = [errorStatus EXCEPT ![w] = {}]
      /\ factoryMap' = factoryMap /\ log' = log /\ crashed' = crashed
  BY DEF Initialize, Enter
<1>3. NoPWork \in PWork /\ NoPWork.block = "null" /\ "none" \in States
  BY DEF NoPWork, PWork, Pointers, States
<1>4. /\ \A c \in Blocks : pwork'[w][c] = NoPWork
      /\ \A v \in Wrappers : v # w => /\ state'[v] = state[v] /\ pwork'[v] = pwork[v]
                                      /\ errorStatus'[v] = errorStatus[v]
      /\ errorStatus'[w] = {}
      /\ pwork' \in [Wrappers -> [Blocks -> PWork]]
      /\ state' \in [Wrappers -> States]
      /\ StatusType'
  BY <1>1, <1>2, <1>3 DEF TypeOK, StatusType
<1>5. /\ call' \in Call /\ call'.fn = "initialize" /\ call'.w = w /\ call'.at = 1 /\ 1 \in 1..Done'
      /\ RestInv' /\ NoNullPWork'
  BY <1>2, <1>4, EnterFacts DEF Functions
<1>6. CallInv'
  <2>1. Len(Order) \in Nat /\ \A i \in 1..Len(Order) : Order[i] \in Blocks
    BY OrderFacts
  <2>2. \A i \in 1..(call'.at - 1) : FALSE
    BY <1>5
  <2>3. \A i \in call'.at..Len(Order) : pwork'[w][Order[i]] = NoPWork
    BY <1>4, <1>5, <2>1
  <2>4. ~Failed(w)'
    BY <1>4 DEF Failed
  <2>5. QED  BY <1>5, <2>2, <2>3, <2>4 DEF CallInv
<1>7. ShapeInv'
  <2> SUFFICES ASSUME NEW v \in Wrappers, NEW b \in Blocks, pwork'[v][b].block = "live"
      PROVE  pwork'[v][b].info = "live"
    BY DEF ShapeInv
  <2>1. v # w
    BY <1>3, <1>4
  <2>2. QED  BY <1>1, <1>4, <2>1 DEF ShapeInv
<1>8. \A k \in Keys : /\ Cardinality(Live(w, k)) \in Nat
                      /\ lost'[k] = lost[k] + Cardinality(Live(w, k))
                      /\ lost[k] + Cardinality(Live(w, k)) \in Nat
                      /\ LiveObjects(k)' = LiveObjects(k)
  <2> SUFFICES ASSUME NEW k \in Keys
      PROVE  /\ Cardinality(Live(w, k)) \in Nat
             /\ lost'[k] = lost[k] + Cardinality(Live(w, k))
             /\ lost[k] + Cardinality(Live(w, k)) \in Nat
             /\ LiveObjects(k)' = LiveObjects(k)
    OBVIOUS
  <2>1. /\ Cardinality(Live(w, k)) \in Nat
        /\ Cardinality(Held(k)) = Cardinality(Held(k)') + Cardinality(Live(w, k))
    BY <1>3, <1>4, HeldClear
  <2>2. lost'[k] = lost[k] + Cardinality(Live(w, k))
    BY <1>2
  <2>3. /\ LiveObjects(k) = Cardinality(Held(k)) + lost[k]
        /\ Cardinality(Held(k)) \in Nat /\ lost[k] \in Nat
    BY <1>1, LiveIsNat
  <2>4. LiveObjects(k)' = Cardinality(Held(k)') + lost'[k] /\ Cardinality(Held(k)') \in Nat
    BY HeldFinite DEF LiveObjects, Held
  <2>5. QED  BY <2>1, <2>2, <2>3, <2>4
<1>9. LoadedIffUsed' /\ UNCHANGED Lifetime!vars
  BY <1>1, <1>2, <1>8, NothingMoves
<1>10. lost' \in [Keys -> Nat]
  BY <1>2, <1>8, Zenon
<1>11. inits' \in [Wrappers -> 0..MaxInits]
  <2>1. inits \in [Wrappers -> 0..MaxInits] /\ MaxInits \in Nat
    BY <1>1 DEF TypeOK, GeneratedCodeAssumption
  <2>2. inits[w] + 1 \in 0..MaxInits
    BY <1>2, <2>1
  <2>3. QED  BY <1>2, <2>1, <2>2
<1>12. TypeOK'
  <2>1. \A v \in Wrappers : \A status \in errorStatus'[v] :
          status.by \in Blocks /\ status.text \in Seq(Message)
    BY <1>4 DEF StatusType
  <2>2. QED  BY <1>1, <1>2, <1>4, <1>5, <1>10, <1>11, <2>1 DEF TypeOK
<1>13. QED  BY <1>4, <1>5, <1>6, <1>7, <1>9, <1>12 DEF IInv, ControlInv

\* A call of step() or terminate(): only `call' changes.
LEMMA CallStep ==
  ASSUME GeneratedCodeAssumption, IInv, NEW w \in Wrappers, Step(w) \/ TerminateModel(w)
  PROVE  IInv' /\ UNCHANGED Lifetime!vars
<1>1. TypeOK /\ StatusType /\ RestInv /\ ShapeInv /\ LoadedIffUsed /\ NoNullPWork
  BY DEF IInv, ControlInv
<1>2. PICK fn \in {"step", "terminate"} :
        /\ Enter(fn, w)
        /\ fn = "step" => w \in Careless \/ state[w] = "ready"
        /\ fn = "terminate" => w \in Careless \/ state[w] \in {"ready", "broken"}
        /\ UNCHANGED <<state, inits, pwork, lost, errorStatus, factoryMap, log, crashed>>
  BY DEF Step, TerminateModel, MayStep, MayTerminate, Enter
<1>3. /\ call' \in Call /\ call'.fn = fn /\ call'.w = w /\ call'.at = 1 /\ 1 \in 1..Done'
      /\ RestInv' /\ NoNullPWork'
  BY <1>2, EnterFacts DEF Functions
<1>4. Resting(w)
  BY <1>2 DEF Enter, Resting
<1>5. w \in Careless \/ \A b \in Blocks : pwork[w][b].block = "live"
  BY <1>1, <1>2, <1>4 DEF RestInv, Full
<1>6. CallInv'
  <2>1. Len(Order) \in Nat /\ \A i \in 1..Len(Order) : Order[i] \in Blocks
    BY OrderFacts
  <2>2. \A i \in 1..(call'.at - 1) : FALSE
    BY <1>3
  <2>3. w \in Careless \/ \A i \in call'.at..Len(Order) : pwork'[w][Order[i]].block = "live"
    BY <1>2, <1>3, <1>5, <2>1
  <2>4. w \in Careless \/ \A b \in Blocks : pwork'[w][b].block = "live"
    BY <1>2, <1>5
  <2>5. QED  BY <1>2, <1>3, <2>2, <2>3, <2>4 DEF CallInv
<1>7. ShapeInv' /\ StatusType' /\ TypeOK'
  BY <1>1, <1>2, <1>3 DEF ShapeInv, StatusType, TypeOK
<1>8. LoadedIffUsed' /\ UNCHANGED Lifetime!vars
  BY <1>1, <1>2, NothingMoves DEF LiveObjects, Live
<1>9. QED  BY <1>3, <1>6, <1>7, <1>8 DEF IInv, ControlInv

\* The function that ran to its end makes what RestInv says of the new state true.
LEMMA ReturnStep ==
  ASSUME GeneratedCodeAssumption, IInv, NEW w \in Wrappers, Return(w)
  PROVE  IInv' /\ UNCHANGED Lifetime!vars
<1>1. TypeOK /\ StatusType /\ CallInv /\ RestInv /\ ShapeInv /\ LoadedIffUsed /\ NoNullPWork
  BY DEF IInv, ControlInv
<1>2. /\ call.fn # "none" /\ crashed = {} /\ call.w = w /\ call.at = Done
      /\ state' = [state EXCEPT ![w] = After(call.fn, errorStatus[w] # {})]
      /\ call' = [fn |-> "none", w |-> w, at |-> Done]
      /\ UNCHANGED <<inits, pwork, factoryMap, lost, log, errorStatus, crashed>>
  BY DEF Return, Idle
<1>3. Len(Order) \in Nat /\ Done = Len(Order) + 1 /\ Done' = Done
      /\ \A b \in Blocks : \E i \in 1..Len(Order) : Order[i] = b
  BY OrderFacts DEF Done
<1>4. \A i \in 1..Len(Order) : i \in 1..(call.at - 1)
  BY <1>2, <1>3
<1>5. call.fn \in {"initialize", "step", "terminate"}
  BY <1>1, <1>2 DEF TypeOK, Call, Functions
<1>6. pwork \in [Wrappers -> [Blocks -> PWork]] /\ state \in [Wrappers -> States]
  BY <1>1 DEF TypeOK
<1>7. /\ state'[w] = After(call.fn, Failed(w)) /\ Failed(w)' = Failed(w)
      /\ \A v \in Wrappers : v # w => state'[v] = state[v]
      /\ After(call.fn, Failed(w)) \in States
  BY <1>2, <1>5, <1>6 DEF After, Failed, States
<1>8. /\ state'[w] = "ready" => ~Failed(w) /\ \A b \in Blocks : pwork[w][b] = Full
      /\ state'[w] = "broken" /\ w \notin Careless => \A b \in Blocks : pwork[w][b].block = "live"
      /\ state'[w] = "over" /\ ~Failed(w) => \A b \in Blocks : pwork[w][b].block # "live"
  <2>1. CASE call.fn = "initialize"
    <3>1. state'[w] = IF Failed(w) THEN "failed" ELSE "ready"
      BY <1>7, <2>1 DEF After
    <3>2. ~Failed(w) => \A b \in Blocks : pwork[w][b] = Full
      BY <1>1, <1>2, <1>3, <1>4, <2>1 DEF CallInv
    <3>3. QED  BY <3>1, <3>2
  <2>2. CASE call.fn = "step"
    <3>1. state'[w] = IF Failed(w) THEN "broken" ELSE "ready"
      BY <1>7, <2>2 DEF After
    <3>2. ~Failed(w) => \A b \in Blocks : pwork[w][b].block = "live"
      BY <1>1, <1>2, <1>3, <1>4, <2>2 DEF CallInv
    <3>3. w \notin Careless => \A b \in Blocks : pwork[w][b].block = "live"
      BY <1>1, <1>2, <2>2 DEF CallInv
    <3>4. \A b \in Blocks : pwork[w][b].block = "live" => pwork[w][b] = Full
      BY <1>1, <1>6 DEF ShapeInv, Full, PWork
    <3>5. QED  BY <3>1, <3>2, <3>3, <3>4
  <2>3. CASE call.fn = "terminate"
    <3>1. state'[w] = "over"
      BY <1>7, <2>3 DEF After
    <3>2. ~Failed(w) => \A b \in Blocks : pwork[w][b].block # "live"
      BY <1>1, <1>2, <1>3, <1>4, <2>3 DEF CallInv
    <3>3. QED  BY <3>1, <3>2
  <2>4. QED  BY <1>5, <2>1, <2>2, <2>3
<1>9. RestInv'
  <2> SUFFICES ASSUME NEW v \in Wrappers
      PROVE  /\ state'[v] = "ready" => ~Failed(v)' /\ \A b \in Blocks : pwork'[v][b] = Full
             /\ state'[v] = "broken" /\ v \notin Careless => \A b \in Blocks : pwork'[v][b].block = "live"
             /\ state'[v] = "over" /\ ~Failed(v)' => \A b \in Blocks : pwork'[v][b].block # "live"
    BY DEF RestInv
  <2>1. CASE v = w
    BY <1>2, <1>7, <1>8, <2>1
  <2>2. CASE v # w
    <3>1. Resting(v) /\ state'[v] = state[v] /\ Failed(v)' = Failed(v) /\ pwork' = pwork
      BY <1>2, <1>7, <2>2 DEF Resting, Failed
    <3>2. QED  BY <1>1, <3>1 DEF RestInv
  <2>3. QED  BY <2>1, <2>2
<1>10. CallInv'
  <2>1. call'.fn = "none" /\ call'.at = Done /\ Done \in 1..Done
    BY <1>2, <1>3
  <2>2. QED  BY <1>3, <2>1 DEF CallInv
<1>11. ShapeInv' /\ NoNullPWork' /\ StatusType'
  BY <1>1, <1>2 DEF ShapeInv, NoNullPWork, StatusType
<1>12. TypeOK'
  <2>1. call' \in Call
    BY <1>2, <1>3 DEF Call, Functions
  <2>2. state' \in [Wrappers -> States]
    BY <1>2, <1>6, <1>7 DEF Failed
  <2>3. QED  BY <1>1, <1>2, <2>1, <2>2 DEF TypeOK
<1>13. LoadedIffUsed' /\ UNCHANGED Lifetime!vars
  BY <1>1, <1>2, NothingMoves DEF LiveObjects, Live
<1>14. QED  BY <1>9, <1>10, <1>11, <1>12, <1>13 DEF IInv, ControlInv

-----------------------------------------------------------------------------
(* The theorems *)

\* The invariant holds at the start of the process, where no wrapper has a model.
LEMMA InvInit ==
  ASSUME GeneratedCodeAssumption, Init
  PROVE  IInv /\ Lifetime!Init
<1>1. /\ call \in [fn : {"none"}, w : Wrappers, at : {Done}]
      /\ state = [w \in Wrappers |-> "none"]
      /\ inits = [w \in Wrappers |-> 0]
      /\ pwork = [w \in Wrappers |-> [b \in Blocks |-> NoPWork]]
      /\ factoryMap = EmptyMap
      /\ lost = [k \in Keys |-> 0]
      /\ log = <<>>
      /\ errorStatus = [w \in Wrappers |-> {}]
      /\ crashed = {}
  BY DEF Init
<1>2. Len(Order) \in Nat /\ Done = Len(Order) + 1 /\ MaxInits \in Nat /\ Room \in Nat
  BY OrderFacts DEF GeneratedCodeAssumption
<1>3. NoPWork \in PWork /\ NoPWork.block = "null" /\ "none" \in States
  BY DEF NoPWork, PWork, Pointers, States
<1>4. TypeOK
  <2>1. call \in Call
    BY <1>1, <1>2 DEF Call, Functions
  <2>2. state \in [Wrappers -> States] /\ inits \in [Wrappers -> 0..MaxInits]
    BY <1>1, <1>2, <1>3
  <2>3. pwork \in [Wrappers -> [Blocks -> PWork]]
    BY <1>1, <1>3
  <2>4. factoryMap \in [Keys -> Factory] /\ lost \in [Keys -> Nat]
    BY <1>1 DEF EmptyMap, Factory
  <2>5. log \in Seq(Message) /\ Len(log) <= Room
    BY <1>1, <1>2
  <2>6. QED  BY <1>1, <2>1, <2>2, <2>3, <2>4, <2>5 DEF TypeOK
<1>5. StatusType
  BY <1>1 DEF StatusType
<1>6. CallInv /\ RestInv /\ ShapeInv /\ NoNullPWork
  BY <1>1, <1>2, <1>3 DEF CallInv, RestInv, ShapeInv, NoNullPWork
<1>7. \A k \in Keys : LiveObjects(k) = 0
  <2> SUFFICES ASSUME NEW k \in Keys PROVE LiveObjects(k) = 0
    OBVIOUS
  <2>1. {p \in Wrappers \X Blocks : p[2] \in Live(p[1], k)} = {}
    BY <1>1, <1>3 DEF Live
  <2>2. Cardinality({}) = 0
    BY FS_EmptySet
  <2>3. LiveObjects(k) = Cardinality({}) + lost[k]
    BY <2>1, Zenon DEF LiveObjects
  <2>4. lost[k] = 0
    BY <1>1
  <2>5. QED  BY <2>2, <2>3, <2>4
<1>8. \A k \in Keys : ~factoryMap[k].open
  BY <1>1 DEF EmptyMap
<1>9. LoadedIffUsed
  <2> SUFFICES ASSUME NEW k \in Keys PROVE ~factoryMap[k].open /\ ~(LiveObjects(k) > 0)
    BY DEF LoadedIffUsed
  <2>1. LiveObjects(k) = 0
    BY <1>7
  <2>2. QED  BY <1>8, <2>1
<1>10. Lifetime!Init
  <2>1. {k \in Keys : factoryMap[k].open} = {}
    BY <1>8
  <2>2. [k \in Keys |-> LiveObjects(k)] = [k \in Keys |-> 0]
    BY <1>7
  <2>3. QED  BY <2>1, <2>2 DEF Lifetime!Init
<1>11. QED  BY <1>4, <1>5, <1>6, <1>9, <1>10 DEF IInv, ControlInv

\* Every step of the process keeps the invariant, and is a step of the plugins'
\* lifetime or leaves the plugins and their objects alone.
LEMMA InvNext ==
  ASSUME GeneratedCodeAssumption, IInv, [Next]_vars
  PROVE  IInv' /\ [Lifetime!Next]_(Lifetime!vars)
<1>1. CASE UNCHANGED vars
  <2>1. UNCHANGED <<call, state, inits, pwork, factoryMap, lost, log, errorStatus, crashed>>
    BY <1>1 DEF vars
  <2>2. TypeOK' /\ StatusType'
    BY <2>1 DEF IInv, TypeOK, StatusType
  <2>3. CallInv' /\ RestInv' /\ ShapeInv' /\ NoNullPWork'
    BY <2>1 DEF IInv, ControlInv, CallInv, RestInv, ShapeInv, NoNullPWork, Resting, Idle, Failed, Done
  <2>4. LoadedIffUsed' /\ UNCHANGED Lifetime!vars
    BY <2>1 DEF IInv, LoadedIffUsed, LiveObjects, Live, Lifetime!vars
  <2>5. QED  BY <2>2, <2>3, <2>4 DEF IInv, ControlInv
<1>2. ASSUME NEW w \in Wrappers, Initialize(w) PROVE IInv' /\ [Lifetime!Next]_(Lifetime!vars)
  BY <1>2, InitializeStep
<1>3. ASSUME NEW w \in Wrappers, Step(w) \/ TerminateModel(w)
      PROVE  IInv' /\ [Lifetime!Next]_(Lifetime!vars)
  BY <1>3, CallStep
<1>4. ASSUME NEW w \in Wrappers, Return(w) PROVE IInv' /\ [Lifetime!Next]_(Lifetime!vars)
  BY <1>4, ReturnStep
<1>5. ASSUME NEW w \in Wrappers, NEW b \in Blocks, Start(w, b)
      PROVE  IInv' /\ [Lifetime!Next]_(Lifetime!vars)
  BY <1>5, StartStep
<1>6. ASSUME NEW w \in Wrappers, NEW b \in Blocks, Outputs(w, b)
      PROVE  IInv' /\ [Lifetime!Next]_(Lifetime!vars)
  BY <1>6, OutputsStep
<1>7. ASSUME NEW w \in Wrappers, NEW b \in Blocks, Terminate(w, b)
      PROVE  IInv' /\ [Lifetime!Next]_(Lifetime!vars)
  BY <1>7, TerminateStep
<1>8. QED  BY <1>1, <1>2, <1>3, <1>4, <1>5, <1>6, <1>7 DEF Next

\* IInv is an inductive invariant of the generated code.
THEOREM Inductive == Spec => []IInv
<1>1. Init => IInv
  BY InvInit, GeneratedCodeAssumption
<1>2. IInv /\ [Next]_vars => IInv'
  BY InvNext, GeneratedCodeAssumption
<1>3. QED  BY <1>1, <1>2, PTL DEF Spec

\* The types of GeneratedCode, for any number of wrappers and any model.
THEOREM TypeCorrect == Spec => []TypeOK
<1>1. IInv => TypeOK
  BY DEF IInv
<1>2. QED  BY <1>1, Inductive, PTL

\* The generated code counts the objects of a class in its factory as the S-function
\* does: the factory is loaded exactly while there are some, whichever Start fails,
\* whichever wrapper replaces its model, and however careless the clients are.
THEOREM FactoryCountsObjects == Spec => []LoadedIffUsed
<1>1. IInv => LoadedIffUsed
  BY DEF IInv
<1>2. QED  BY <1>1, Inductive, PTL

\* A client that heeds what its wrapper returns never makes step() or terminate() follow
\* a null or dangling PWork entry, whatever the other clients of the process do.  What
\* initialize() follows is not the client's: the result of a create() that failed.
THEOREM ProtocolIsEnough == Spec => []NoNullPWork
<1>1. IInv => NoNullPWork
  BY DEF IInv, ControlInv
<1>2. QED  BY <1>1, Inductive, PTL

\* A wrapper whose last answer was true has every Block and every BlockInformation of
\* its model: no error of a Start is swallowed between the block and the client.
THEOREM ReadyHasAllBlocks == Spec => []ReadyIsComplete
<1>1. IInv => ReadyIsComplete
  BY DEF IInv, ControlInv, RestInv, ReadyIsComplete, Resting, Failed, Full
<1>2. QED  BY <1>1, Inductive, PTL

\* A terminated model without an error has no object left.
THEOREM TerminatedHasNoObject == Spec => []TerminatedIsClean
<1>1. IInv => TerminatedIsClean
  BY DEF IInv, ControlInv, RestInv, TerminatedIsClean, Resting, Failed
<1>2. QED  BY <1>1, Inductive, PTL

\* The generated code refines PluginLifetime: a Start that makes an object is a Create,
\* a Terminate that reaches one is a Destroy, and nothing else moves a plugin.
THEOREM ImplementsPluginLifetime == Spec => ImplementsLifetime
<1>1. Init => Lifetime!Init
  BY InvInit, GeneratedCodeAssumption
<1>2. IInv /\ [Next]_vars => [Lifetime!Next]_(Lifetime!vars)
  BY InvNext, GeneratedCodeAssumption
<1>3. QED  BY <1>1, <1>2, Inductive, PTL DEF Spec, ImplementsLifetime, Lifetime!Spec
=============================================================================

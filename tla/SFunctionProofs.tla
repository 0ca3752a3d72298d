--------------------------- MODULE SFunctionProofs ---------------------------
(***************************************************************************)
(* Proofs about SFunction, for any sets of models, blocks and classes and  *)
(* any number of simulations.  The inductive invariant IInv adds to the    *)
(* reference count what it rests on: which objects a PWork vector may hold *)
(* in each phase of its model.                                             *)
(***************************************************************************)
EXTENDS SFunction, FactoryMapProofs, FiniteSetTheorems, TLAPS

\* What the engine and mdlInitializeSizes, mdlStart and mdlTerminate establish
\* for a block in each phase.
BlockInv(b) ==
  LET ph    == phase[ModelOf[b]]
      waits == b \in todo[ModelOf[b]]
  IN
  /\ pwork[b].mem => numPWork[b] = NumPWork
  /\ pwork[b].block # 0 \/ pwork[b].info => pwork[b].mem
  /\ pwork[b].info => pwork[b].block # 0 \/ errorStatus[b].set
  /\ ph \in {"edit", "sizes"} => pwork[b] = NoPWork
  /\ ph = "sizes" /\ ~waits => errorStatus[b].set \/ numPWork[b] = NumPWork
  /\ ph \in {"start", "generate", "conditions", "run"} => pwork[b].mem
  /\ ph = "start" /\ waits => pwork[b] = CleanPWork
  /\ ph = "start" /\ ~waits =>
       errorStatus[b].set \/ (pwork[b].block # 0 /\ pwork[b].info)
  /\ ph \in {"generate", "conditions", "run"} => pwork[b].block # 0 /\ pwork[b].info
  /\ ph = "terminate" /\ ~waits => pwork[b].block = 0

LifecycleInv == \A b \in Blocks : BlockInv(b)

\* RefCountExact and ObjectsKeepTheirFactory of a map fm that a callback has
\* computed on the way.
FactoryMapInv(fm) ==
  /\ \A k \in Keys : fm[k].open => fm[k].rct = 1 + LiveObjects(k) /\ fm[k].gen > 0
  /\ \A b \in Blocks : pwork[b].block # 0 =>
       fm[KeyOf[b]].open /\ fm[KeyOf[b]].gen = pwork[b].block
  /\ \A k \in Keys : leaked[k] > 0 => fm[k].open

FactoryInv == FactoryMapInv(factoryMap)

LogInv == OnlySloppyErrorsPend /\ ErrorsAttributed

IInv == TypeOK /\ LifecycleInv /\ FactoryInv /\ LogInv

-----------------------------------------------------------------------------
(* Reporting *)

\* What any use of catchLogMessages by block b does to the Log and to the error
\* statuses.
Reports(b) ==
  /\ log' \in LogRecord
  /\ log'.errors \subseteq Sloppy
  /\ log'.warnings = {}
  /\ errorStatus' \in [Blocks -> Status]
  /\ \A c \in Blocks : errorStatus[c].set => errorStatus'[c].set
  /\ \A c \in Blocks : errorStatus'[c] # errorStatus[c] =>
       c = b /\ errorStatus'[c].set /\ errorStatus'[c].from \subseteq {b} \cup Sloppy

\* catchLogMessages keeps the Log free of everything but sloppy errors, when the
\* messages it is given are those of b and of sloppy blocks.
LEMMA CatchReports ==
  ASSUME SFunctionAssumption, TypeOK, NEW b \in Blocks,
         NEW l \in LogRecord, NEW ok \in BOOLEAN,
         l.errors \subseteq {b} \cup Sloppy,
         ok => l.errors \subseteq Sloppy,
         catchLogMessages(l, ok, b)
  PROVE  Reports(b) /\ (~ok => errorStatus'[b].set)
<1> USE DEF LogRecord, Status
<1>1. CASE ok
  BY <1>1 DEF catchLogMessages, Caught, Reports, TypeOK, SFunctionAssumption
<1>2. CASE ~ok
  <2>1. errorStatus' = [errorStatus EXCEPT ![b] = [set |-> TRUE, from |-> l.errors]]
    BY <1>2 DEF catchLogMessages
  <2>2. errorStatus' \in [Blocks -> Status] /\ errorStatus'[b] = [set |-> TRUE, from |-> l.errors]
        /\ \A c \in Blocks : c # b => errorStatus'[c] = errorStatus[c]
    BY <2>1 DEF TypeOK
  <2>3. log' = [errors |-> {}, warnings |-> {}]
    BY <1>2 DEF catchLogMessages, Caught
  <2>4. QED  BY <2>2, <2>3 DEF Reports
<1>3. QED  BY <1>1, <1>2

\* bfError followed by catchLogMessages(false).
LEMMA FailReports ==
  ASSUME SFunctionAssumption, TypeOK, LogInv, NEW b \in Blocks, Fail(b)
  PROVE  Reports(b) /\ errorStatus'[b].set
<1>1. LogError(log, b) \in LogRecord /\ LogError(log, b).errors \subseteq {b} \cup Sloppy
  BY DEF LogError, LogRecord, TypeOK, LogInv, OnlySloppyErrorsPend
<1>2. QED  BY <1>1, CatchReports DEF Fail

\* A method of b ran on a Log that held sloppy errors only, and its result is
\* handed to catchLogMessages.
LEMMA OutcomeReports ==
  ASSUME SFunctionAssumption, TypeOK, NEW b \in Blocks, NEW o \in Outcomes(b),
         NEW l \in LogRecord, l.errors \subseteq Sloppy,
         catchLogMessages(LogOutcome(l, b, o), o.ok, b)
  PROVE  Reports(b) /\ (~o.ok => errorStatus'[b].set)
<1>1. /\ LogOutcome(l, b, o) \in LogRecord
      /\ LogOutcome(l, b, o).errors \subseteq {b} \cup Sloppy
      /\ o.ok \in BOOLEAN
      /\ o.ok => LogOutcome(l, b, o).errors \subseteq Sloppy
  BY DEF LogOutcome, LogRecord, Outcomes
<1>2. QED  BY <1>1, CatchReports

\* Reports is all the log invariant needs.
LEMMA ReportsKeepLogInv ==
  ASSUME SFunctionAssumption, TypeOK, LogInv, NEW b \in Blocks, Reports(b)
  PROVE  LogInv'
BY DEF Reports, LogInv, OnlySloppyErrorsPend, ErrorsAttributed

-----------------------------------------------------------------------------
(* Counting objects *)

LEMMA HoldersFinite ==
  ASSUME SFunctionAssumption, NEW k
  PROVE  IsFiniteSet(Holders(k)) /\ Cardinality(Holders(k)) \in Nat
BY FS_Subset, FS_CardinalityType DEF SFunctionAssumption, Holders

\* Blocks that hold an object before a step and after it are counted the same.
LEMMA HoldersSame ==
  ASSUME NEW k, \A c \in Blocks : pwork'[c].block # 0 <=> pwork[c].block # 0
  PROVE  Holders(k)' = Holders(k)
BY DEF Holders

\* mdlStart adds the object of b to its class.
LEMMA HoldersAdd ==
  ASSUME SFunctionAssumption, NEW b \in Blocks, NEW k,
         pwork[b].block = 0, pwork'[b].block # 0,
         \A c \in Blocks : c # b => pwork'[c] = pwork[c]
  PROVE  Cardinality(Holders(k)') = Cardinality(Holders(k)) + (IF k = KeyOf[b] THEN 1 ELSE 0)
<1>1. CASE k = KeyOf[b]
  <2>1. Holders(k)' = Holders(k) \cup {b} /\ b \notin Holders(k)
    BY <1>1 DEF Holders
  <2>2. QED  BY <1>1, <2>1, HoldersFinite, FS_AddElement
<1>2. CASE k # KeyOf[b]
  <2>1. Holders(k)' = Holders(k)
    BY <1>2 DEF Holders
  <2>2. QED  BY <1>2, <2>1, HoldersFinite
<1>3. QED  BY <1>1, <1>2

\* mdlTerminate takes the object of b out of the PWork vector.
LEMMA HoldersRemove ==
  ASSUME SFunctionAssumption, NEW b \in Blocks, NEW k,
         pwork[b].block # 0, pwork'[b].block = 0,
         \A c \in Blocks : c # b => pwork'[c] = pwork[c]
  PROVE  Cardinality(Holders(k)') = Cardinality(Holders(k)) - (IF k = KeyOf[b] THEN 1 ELSE 0)
<1>1. CASE k = KeyOf[b]
  <2>1. Holders(k)' = Holders(k) \ {b} /\ b \in Holders(k)
    BY <1>1 DEF Holders
  <2>2. QED  BY <1>1, <2>1, HoldersFinite, FS_RemoveElement
<1>2. CASE k # KeyOf[b]
  <2>1. Holders(k)' = Holders(k)
    BY <1>2 DEF Holders
  <2>2. QED  BY <1>2, <2>1, HoldersFinite
<1>3. QED  BY <1>1, <1>2

\* The objects of every class after mdlStart has stored one in PWork[b].
LEMMA ObjectAdded ==
  ASSUME SFunctionAssumption, TypeOK, NEW b \in Blocks,
         pwork[b].block = 0, pwork'[b].block # 0,
         \A c \in Blocks : c # b => pwork'[c] = pwork[c],
         UNCHANGED leaked
  PROVE  \A j \in Keys : /\ LiveObjects(j) \in Nat
                         /\ LiveObjects(j)' = LiveObjects(j) + (IF j = KeyOf[b] THEN 1 ELSE 0)
<1> SUFFICES ASSUME NEW j \in Keys
    PROVE /\ LiveObjects(j) \in Nat
          /\ LiveObjects(j)' = LiveObjects(j) + (IF j = KeyOf[b] THEN 1 ELSE 0)
  OBVIOUS
<1>1. Cardinality(Holders(j)') = Cardinality(Holders(j)) + (IF j = KeyOf[b] THEN 1 ELSE 0)
  BY HoldersAdd
<1>2. Cardinality(Holders(j)) \in Nat /\ leaked[j] \in Nat
  BY HoldersFinite DEF TypeOK
<1>3. QED  BY <1>1, <1>2 DEF LiveObjects

\* The objects of every class after mdlTerminate has cleared PWork[b]: one less
\* when it destroyed the object, as many as before when it forgot it.
LEMMA ObjectRemoved ==
  ASSUME SFunctionAssumption, TypeOK, NEW b \in Blocks,
         pwork[b].block # 0, pwork'[b].block = 0,
         \A c \in Blocks : c # b => pwork'[c] = pwork[c]
  PROVE  \A j \in Keys :
           /\ LiveObjects(j) \in Nat
           /\ leaked' = leaked =>
                /\ LiveObjects(j)' \in Nat
                /\ LiveObjects(j)' = LiveObjects(j) - (IF j = KeyOf[b] THEN 1 ELSE 0)
           /\ leaked' = [leaked EXCEPT ![KeyOf[b]] = @ + 1] => LiveObjects(j)' = LiveObjects(j)
<1> SUFFICES ASSUME NEW j \in Keys
    PROVE  /\ LiveObjects(j) \in Nat
           /\ leaked' = leaked =>
                /\ LiveObjects(j)' \in Nat
                /\ LiveObjects(j)' = LiveObjects(j) - (IF j = KeyOf[b] THEN 1 ELSE 0)
           /\ leaked' = [leaked EXCEPT ![KeyOf[b]] = @ + 1] => LiveObjects(j)' = LiveObjects(j)
  OBVIOUS
<1>1. Cardinality(Holders(j)') = Cardinality(Holders(j)) - (IF j = KeyOf[b] THEN 1 ELSE 0)
  BY HoldersRemove
<1>2. /\ Cardinality(Holders(j)) \in Nat
      /\ leaked \in [Keys -> Nat] /\ leaked[j] \in Nat /\ KeyOf[b] \in Keys
  BY HoldersFinite DEF TypeOK, SFunctionAssumption
<1>3. Cardinality(Holders(j)') \in Nat
  <2>1. Holders(j)' \subseteq Blocks
    BY DEF Holders
  <2>2. QED  BY <2>1, FS_Subset, FS_CardinalityType DEF SFunctionAssumption
<1>4. leaked' = [leaked EXCEPT ![KeyOf[b]] = @ + 1] =>
        leaked'[j] = leaked[j] + (IF j = KeyOf[b] THEN 1 ELSE 0)
  BY <1>2
<1>5. QED  BY <1>1, <1>2, <1>3, <1>4 DEF LiveObjects

-----------------------------------------------------------------------------
(* Frames: what a step leaves alone *)

\* Being called takes b, and only b, off the list of its model.
LEMMA CalledTakes ==
  ASSUME SFunctionAssumption, TypeOK, NEW b \in Blocks, NEW ph, Called(b, ph)
  PROVE  /\ todo' \in [Models -> SUBSET Blocks]
         /\ b \in todo[ModelOf[b]]
         /\ \A c \in Blocks : c \in todo'[ModelOf[c]] <=> c \in todo[ModelOf[c]] /\ c # b
BY DEF SFunctionAssumption, TypeOK, Called

\* The invariant of a block the step does not touch.
LEMMA BlockInvFrame ==
  ASSUME NEW c \in Blocks, BlockInv(c), phase' = phase,
         (c \in todo'[ModelOf[c]]) = (c \in todo[ModelOf[c]]),
         pwork'[c] = pwork[c], numPWork'[c] = numPWork[c],
         errorStatus[c].set => errorStatus'[c].set
  PROVE  BlockInv(c)'
BY DEF BlockInv

LEMMA FactoryInvSame ==
  ASSUME FactoryInv, UNCHANGED <<factoryMap, leaked>>,
         \A c \in Blocks : pwork'[c].block = pwork[c].block
  PROVE  FactoryInv'
<1>1. \A k : Holders(k)' = Holders(k)
  BY DEF Holders
<1>2. QED
  BY <1>1 DEF FactoryInv, FactoryMapInv, LiveObjects

\* Loading a plugin that has no factory: no object of that class can exist.
LEMMA GotKeepsInv ==
  ASSUME SFunctionAssumption, TypeOK, FactoryInv, NEW k \in Keys,
         NEW got, got = GetClassFactory(factoryMap, k, Loadable(k))
  PROVE  FactoryMapInv(got)
<1>0. factoryMap \in [Keys -> Factory] /\ leaked \in [Keys -> Nat]
  BY DEF TypeOK
<1>1. /\ got \in [Keys -> Factory]
      /\ \A j \in Keys : j # k => got[j] = factoryMap[j]
      /\ factoryMap[k].open => got = factoryMap
      /\ ~factoryMap[k].open =>
           \/ got[k] = factoryMap[k]
           \/ got[k] = [open |-> TRUE, gen |-> factoryMap[k].gen + 1, rct |-> 1]
  BY <1>0, GotFactory
<1>2. CASE got[k] = factoryMap[k]
  BY <1>1, <1>2 DEF FactoryInv, FactoryMapInv, SFunctionAssumption
<1>3. CASE ~factoryMap[k].open /\ got[k] = [open |-> TRUE, gen |-> factoryMap[k].gen + 1, rct |-> 1]
  <2>1. Holders(k) = {} /\ leaked[k] = 0
    BY <1>0, <1>3 DEF FactoryInv, FactoryMapInv, Holders
  <2>2. LiveObjects(k) = 0
    BY <2>1, FS_EmptySet DEF LiveObjects
  <2>3. factoryMap[k].gen \in Nat
    BY <1>0 DEF Factory
  <2>4. got[k].open /\ got[k].rct = 1 /\ got[k].gen > 0
    BY <1>3, <2>3
  <2>5. \A c \in Blocks : pwork[c].block # 0 => KeyOf[c] # k
    BY <1>3 DEF FactoryInv, FactoryMapInv
  <2>6. QED
    BY <1>1, <2>2, <2>4, <2>5 DEF FactoryInv, FactoryMapInv, SFunctionAssumption
<1>4. QED  BY <1>1, <1>2, <1>3

\* The state after a step that only loads.
LEMMA FactoryInvLoad ==
  ASSUME SFunctionAssumption, TypeOK, FactoryInv, NEW k \in Keys,
         factoryMap' = GetClassFactory(factoryMap, k, Loadable(k)),
         UNCHANGED leaked,
         \A c \in Blocks : pwork'[c].block = pwork[c].block
  PROVE  FactoryInv' /\ factoryMap' \in [Keys -> Factory]
<1>1. factoryMap' \in [Keys -> Factory]
  BY GotFactory DEF TypeOK
<1>2. FactoryMapInv(factoryMap')
  BY GotKeepsInv
<1>3. \A j : Holders(j)' = Holders(j)
  BY DEF Holders
<1>4. FactoryMapInv(factoryMap)'
  BY <1>2, <1>3 DEF FactoryMapInv, LiveObjects
<1>5. QED  BY <1>1, <1>4 DEF FactoryInv

\* mdlStart: the new object and the new reference.
LEMMA FactoryInvStart ==
  ASSUME SFunctionAssumption, TypeOK, FactoryInv, NEW b \in Blocks,
         NEW k \in Keys, k = KeyOf[b],
         NEW got, got = GetClassFactory(factoryMap, k, Loadable(k)),
         Found(factoryMap, k, Loadable(k)),
         factoryMap' = AddRef(got, k),
         pwork[b].block = 0,
         pwork' = [pwork EXCEPT ![b] = Stored(got[k].gen)],
         UNCHANGED leaked
  PROVE  /\ FactoryInv'
         /\ factoryMap' \in [Keys -> Factory]
         /\ got[k].gen \in Nat \ {0}
<1>0. factoryMap \in [Keys -> Factory]
  BY DEF TypeOK
<1>1. got \in [Keys -> Factory] /\ got[k].open
  BY <1>0, FoundIsOpen
<1>2. FactoryMapInv(got)
  BY GotKeepsInv
<1>3. got[k].gen \in Nat \ {0} /\ got[k].rct \in Nat
  BY <1>0, <1>1, <1>2 DEF FactoryMapInv, Factory
<1>4. /\ factoryMap' \in [Keys -> Factory]
      /\ factoryMap'[k] = [open |-> TRUE, gen |-> got[k].gen, rct |-> got[k].rct + 1]
      /\ \A j \in Keys : j # k => factoryMap'[j] = got[j]
  <2>1. got[k].open = TRUE
    BY <1>1 DEF Factory
  <2>2. /\ factoryMap' \in [Keys -> Factory]
        /\ factoryMap'[k] = [open |-> got[k].open, gen |-> got[k].gen, rct |-> got[k].rct + 1]
        /\ \A j \in Keys : j # k => factoryMap'[j] = got[j]
    BY <1>1, AddedRef
  <2>3. QED  BY <2>1, <2>2
<1>5. /\ pwork'[b].block = got[k].gen
      /\ \A c \in Blocks : c # b => pwork'[c] = pwork[c]
  BY DEF TypeOK, PWorkVector, Stored
<1>6. \A j \in Keys : LiveObjects(j)' = LiveObjects(j) + (IF j = k THEN 1 ELSE 0)
  BY <1>3, <1>5, ObjectAdded
<1>7. \A j \in Keys : LiveObjects(j) \in Nat
  BY <1>3, <1>5, ObjectAdded
<1>8. FactoryMapInv(factoryMap)'
  <2>1. \A j \in Keys : factoryMap'[j].open =>
           /\ factoryMap'[j].rct = 1 + LiveObjects(j)'
           /\ factoryMap'[j].gen > 0
    BY <1>0, <1>1, <1>2, <1>3, <1>4, <1>6, <1>7 DEF FactoryMapInv
  <2>2. \A c \in Blocks : pwork'[c].block # 0 =>
           factoryMap'[KeyOf[c]].open /\ factoryMap'[KeyOf[c]].gen = pwork'[c].block
    BY <1>0, <1>1, <1>2, <1>4, <1>5 DEF FactoryMapInv, SFunctionAssumption
  <2>3. \A j \in Keys : leaked'[j] > 0 => factoryMap'[j].open
    BY <1>0, <1>2, <1>4 DEF FactoryMapInv
  <2>4. QED  BY <2>1, <2>2, <2>3 DEF FactoryMapInv
<1>9. QED  BY <1>3, <1>4, <1>8 DEF FactoryInv

\* mdlTerminate with a terminate() that returned true: the object and its
\* reference go, and the factory with the last of them.
LEMMA FactoryInvRelease ==
  ASSUME SFunctionAssumption, TypeOK, FactoryInv, NEW b \in Blocks,
         NEW k \in Keys, k = KeyOf[b],
         factoryMap' = ReleaseBlock(factoryMap, k),
         pwork[b].block # 0,
         pwork' = Cleaned(b),
         UNCHANGED leaked
  PROVE  FactoryInv' /\ factoryMap' \in [Keys -> Factory]
<1>0. factoryMap \in [Keys -> Factory] /\ leaked \in [Keys -> Nat]
  BY DEF TypeOK
<1>1. /\ factoryMap[k].open /\ factoryMap[k].gen = pwork[b].block
      /\ factoryMap[k].rct = 1 + LiveObjects(k)
      /\ factoryMap[k].gen \in Nat /\ factoryMap[k].gen > 0
  BY <1>0 DEF FactoryInv, FactoryMapInv, Factory
<1>2. /\ pwork'[b].block = 0
      /\ \A c \in Blocks : c # b => pwork'[c] = pwork[c]
  BY DEF TypeOK, PWorkVector, Cleaned, CleanPWork
<1>3. \A j \in Keys : LiveObjects(j) \in Nat /\ LiveObjects(j)' \in Nat
  BY <1>2, ObjectRemoved
<1>4. \A j \in Keys : LiveObjects(j)' = LiveObjects(j) - (IF j = k THEN 1 ELSE 0)
  BY <1>2, ObjectRemoved
<1>5. LiveObjects(k) # 0
  <2>1. b \in Holders(k)
    BY DEF Holders
  <2>2. Cardinality(Holders(k)) \in Nat \ {0}
    BY <2>1, HoldersFinite, FS_EmptySet
  <2>3. QED  BY <1>0, <2>2 DEF LiveObjects
<1>6. /\ factoryMap' \in [Keys -> Factory]
      /\ factoryMap'[k].open <=> LiveObjects(k) # 1
      /\ LiveObjects(k) # 1 => factoryMap'[k].rct = LiveObjects(k)
                               /\ factoryMap'[k].gen = factoryMap[k].gen
      /\ \A j \in Keys : j # k => factoryMap'[j] = factoryMap[j]
  BY <1>0, <1>1, <1>3, <1>5, Released
<1>7. LiveObjects(k) = 1 => Holders(k)' = {} /\ leaked[k] = 0
  <2>1. IsFiniteSet(Holders(k)')
    <3>1. Holders(k)' \subseteq Blocks
      BY DEF Holders
    <3>2. QED  BY <3>1, FS_Subset DEF SFunctionAssumption
  <2>2. Cardinality(Holders(k)') \in Nat /\ leaked[k] \in Nat
    BY <1>0, <2>1, FS_CardinalityType
  <2>3. LiveObjects(k) = 1 => Cardinality(Holders(k)') = 0 /\ leaked[k] = 0
    BY <1>4, <2>2 DEF LiveObjects
  <2>4. QED  BY <2>1, <2>3, FS_EmptySet
<1>8. FactoryMapInv(factoryMap)'
  <2>1. \A j \in Keys : factoryMap'[j].open =>
           factoryMap'[j].rct = 1 + LiveObjects(j)' /\ factoryMap'[j].gen > 0
    BY <1>1, <1>3, <1>4, <1>6 DEF FactoryInv, FactoryMapInv
  <2>2. \A c \in Blocks : pwork'[c].block # 0 =>
           factoryMap'[KeyOf[c]].open /\ factoryMap'[KeyOf[c]].gen = pwork'[c].block
    <3>1. LiveObjects(k) = 1 => \A c \in Blocks : pwork'[c].block # 0 => KeyOf[c] # k
      BY <1>7 DEF Holders
    <3>2. QED  BY <1>2, <1>6, <3>1 DEF FactoryInv, FactoryMapInv, SFunctionAssumption
  <2>3. \A j \in Keys : leaked'[j] > 0 => factoryMap'[j].open
    BY <1>0, <1>6, <1>7 DEF FactoryInv, FactoryMapInv
  <2>4. QED  BY <2>1, <2>2, <2>3 DEF FactoryMapInv
<1>9. QED  BY <1>6, <1>8 DEF FactoryInv

\* mdlTerminate with a terminate() that returned false: the object moves from
\* the PWork vector to the forgotten ones.
LEMMA FactoryInvForget ==
  ASSUME SFunctionAssumption, TypeOK, FactoryInv, NEW b \in Blocks,
         UNCHANGED factoryMap,
         pwork[b].block # 0,
         pwork' = Cleaned(b),
         leaked' = [leaked EXCEPT ![KeyOf[b]] = @ + 1]
  PROVE  FactoryInv' /\ leaked' \in [Keys -> Nat]
<1>0. factoryMap \in [Keys -> Factory] /\ leaked \in [Keys -> Nat] /\ KeyOf[b] \in Keys
  BY DEF TypeOK, SFunctionAssumption
<1>1. /\ leaked' \in [Keys -> Nat] /\ leaked'[KeyOf[b]] = leaked[KeyOf[b]] + 1
      /\ \A j \in Keys : j # KeyOf[b] => leaked'[j] = leaked[j]
  BY <1>0
<1>2. /\ pwork'[b].block = 0
      /\ \A c \in Blocks : c # b => pwork'[c] = pwork[c]
  BY DEF TypeOK, PWorkVector, Cleaned, CleanPWork
<1>3. \A j \in Keys : LiveObjects(j)' = LiveObjects(j)
  BY <1>2, ObjectRemoved
<1>4. factoryMap[KeyOf[b]].open
  BY DEF FactoryInv, FactoryMapInv
<1>5. FactoryMapInv(factoryMap)'
  <2>1. \A j \in Keys : factoryMap'[j].open =>
           factoryMap'[j].rct = 1 + LiveObjects(j)' /\ factoryMap'[j].gen > 0
    BY <1>3 DEF FactoryInv, FactoryMapInv
  <2>2. \A c \in Blocks : pwork'[c].block # 0 =>
           factoryMap'[KeyOf[c]].open /\ factoryMap'[KeyOf[c]].gen = pwork'[c].block
    BY <1>2 DEF FactoryInv, FactoryMapInv
  <2>3. \A j \in Keys : leaked'[j] > 0 => factoryMap'[j].open
    BY <1>1, <1>4 DEF FactoryInv, FactoryMapInv
  <2>4. QED  BY <2>1, <2>2, <2>3 DEF FactoryMapInv
<1>6. QED  BY <1>1, <1>5 DEF FactoryInv

-----------------------------------------------------------------------------
(* The initial states *)

LEMMA InitInv ==
  ASSUME SFunctionAssumption, Init
  PROVE  IInv
<1>1. TypeOK
  BY DEF Init, TypeOK, Phases, EmptyMap, Factory, NoPWork, PWorkVector, EmptyLog,
         LogRecord, NoError, Status
<1>2. LifecycleInv
  BY DEF Init, LifecycleInv, BlockInv, NoPWork, SFunctionAssumption
<1>3. FactoryInv
  BY DEF Init, FactoryInv, FactoryMapInv, EmptyMap, NoPWork, SFunctionAssumption
<1>4. LogInv
  BY DEF Init, LogInv, OnlySloppyErrorsPend, ErrorsAttributed, EmptyLog, NoError
<1>5. QED  BY <1>1, <1>2, <1>3, <1>4 DEF IInv

-----------------------------------------------------------------------------
(* The callbacks *)

\* What every callback of b has in common, and what is left to show about it: the
\* variables it writes keep their types, and BlockInv holds of b itself.
LEMMA CallbackKeepsLifecycle ==
  ASSUME SFunctionAssumption, TypeOK, LifecycleInv, NEW b \in Blocks, phase' = phase,
         \A c \in Blocks : c # b =>
           /\ (c \in todo'[ModelOf[c]]) = (c \in todo[ModelOf[c]])
           /\ pwork'[c] = pwork[c] /\ numPWork'[c] = numPWork[c]
           /\ errorStatus[c].set => errorStatus'[c].set,
         BlockInv(b)'
  PROVE  LifecycleInv'
<1>1. \A c \in Blocks : c # b => BlockInv(c)'
  BY BlockInvFrame DEF LifecycleInv
<1>2. QED  BY <1>1 DEF LifecycleInv

\* A callback that calls a method of the block and changes nothing else: the
\* run-time callbacks and mdlRTW.
LEMMA QuietStep ==
  ASSUME SFunctionAssumption, IInv, NEW b \in Blocks, Reports(b),
         UNCHANGED <<phase, runs, installed, factoryMap, numPWork, pwork, leaked, dead, unstarted>>,
         todo' \in [Models -> SUBSET Blocks],
         todo' = todo \/ (phase[ModelOf[b]] \in {"conditions", "generate"}
                          /\ \A c \in Blocks : c \in todo'[ModelOf[c]] <=>
                                c \in todo[ModelOf[c]] /\ c # b)
  PROVE  IInv'
<1> USE DEF IInv
<1>1. TypeOK'
  BY DEF TypeOK, Reports
<1>2. LifecycleInv'
  <2> SUFFICES ASSUME NEW c \in Blocks PROVE BlockInv(c)'
    BY DEF LifecycleInv
  <2>1. BlockInv(c) /\ (errorStatus[c].set => errorStatus'[c].set)
    BY DEF LifecycleInv, Reports
  <2>2. CASE (c \in todo'[ModelOf[c]]) = (c \in todo[ModelOf[c]])
    BY <2>1, <2>2, BlockInvFrame
  <2>3. CASE c = b /\ phase[ModelOf[b]] \in {"conditions", "generate"}
    BY <2>1, <2>3 DEF BlockInv
  <2>4. QED  BY <2>2, <2>3
<1>3. FactoryInv'
  BY FactoryInvSame
<1>4. LogInv'
  BY ReportsKeepLogInv
<1>5. QED  BY <1>1, <1>2, <1>3, <1>4

LEMMA CallMethodReports ==
  ASSUME SFunctionAssumption, IInv, NEW b \in Blocks, CallMethod(b)
  PROVE  Reports(b)
<1>1. log \in LogRecord /\ log.errors \subseteq Sloppy
  BY DEF IInv, TypeOK, LogInv, OnlySloppyErrorsPend
<1>2. CASE Fail(b)
  BY <1>2, FailReports DEF IInv
<1>3. CASE \E o \in Outcomes(b) : catchLogMessages(LogOutcome(log, b, o), o.ok, b)
  BY <1>1, <1>3, OutcomeReports DEF IInv
<1>4. QED  BY <1>2, <1>3 DEF CallMethod

LEMMA RuntimeStep ==
  ASSUME SFunctionAssumption, IInv, NEW b \in Blocks,
         mdlInitializeConditions(b) \/ mdlOutputs(b) \/ mdlUpdate(b)
  PROVE  IInv'
<1>1. CallMethod(b) /\ (Called(b, "conditions") \/ Running(b))
  BY DEF mdlInitializeConditions, mdlOutputs, mdlUpdate
<1>2. Reports(b)
  BY <1>1, CallMethodReports
<1>3. UNCHANGED <<phase, runs, installed, factoryMap, numPWork, pwork, leaked, dead, unstarted>>
  BY <1>1 DEF CallMethod, Called, Running, engine
<1>4. CASE Called(b, "conditions")
  <2>1. phase[ModelOf[b]] = "conditions"
    BY <1>4 DEF Called
  <2>2. QED  BY <1>2, <1>3, <1>4, <2>1, CalledTakes, QuietStep DEF IInv
<1>5. CASE Running(b)
  <2>1. todo' = todo /\ todo \in [Models -> SUBSET Blocks]
    BY <1>5 DEF Running, engine, IInv, TypeOK
  <2>2. QED  BY <1>2, <1>3, <2>1, QuietStep
<1>6. QED  BY <1>1, <1>4, <1>5

LEMMA RTWStep ==
  ASSUME SFunctionAssumption, IInv, NEW b \in Blocks, mdlRTW(b)
  PROVE  IInv'
<1>1. log \in LogRecord /\ log.errors \subseteq Sloppy
  BY DEF IInv, TypeOK, LogInv, OnlySloppyErrorsPend
<1>2. Reports(b)
  <2>1. CASE Fail(b)
    BY <2>1, FailReports DEF IInv
  <2>2. CASE pwork[b].block # 0
    <3>1. PICK o \in Outcomes(b) :
             LET l == LogOutcome(log, b, o) IN
             IF o.ok THEN catchLogMessages(l, TRUE, b)
             ELSE catchLogMessages(LogError(Caught(l, FALSE), b), FALSE, b)
      BY <2>2 DEF mdlRTW
    <3>2. CASE o.ok
      <4>1. o.ok = TRUE
        BY <3>2 DEF Outcomes
      <4>2. catchLogMessages(LogOutcome(log, b, o), o.ok, b)
        BY <3>1, <4>1
      <4>3. QED  BY <1>1, <4>2, OutcomeReports DEF IInv
    <3>3. CASE ~o.ok
      <4> DEFINE l == LogError(Caught(LogOutcome(log, b, o), FALSE), b)
      <4>1. catchLogMessages(l, FALSE, b)
        BY <3>1, <3>3
      <4>2. l \in LogRecord /\ l.errors \subseteq {b} \cup Sloppy
        BY <1>1 DEF LogError, LogRecord, LogOutcome, Caught
      <4> HIDE DEF l
      <4>3. QED  BY <4>1, <4>2, CatchReports DEF IInv
    <3>4. QED  BY <3>2, <3>3
  <2>3. QED  BY <2>1, <2>2 DEF mdlRTW
<1>3. Called(b, "generate") /\ phase[ModelOf[b]] = "generate"
  BY DEF mdlRTW, Called
<1>4. UNCHANGED <<phase, runs, installed, factoryMap, numPWork, pwork, leaked, dead, unstarted>>
  BY DEF mdlRTW, Called
<1>5. QED  BY <1>2, <1>3, <1>4, CalledTakes, QuietStep DEF IInv

\* The reports of mdlInitializeSizes start from a cleared Log.
LEMMA SizesReports ==
  ASSUME SFunctionAssumption, TypeOK, NEW b \in Blocks
  PROVE  /\ catchLogMessages(LogError(EmptyLog, b), FALSE, b) =>
              Reports(b) /\ errorStatus'[b].set
         /\ ConfigureSizeAndPorts(b) => Reports(b)
<1>1. EmptyLog \in LogRecord /\ EmptyLog.errors = {}
  BY DEF EmptyLog, LogRecord
<1>2. LogError(EmptyLog, b) \in LogRecord /\ LogError(EmptyLog, b).errors \subseteq {b} \cup Sloppy
  BY DEF EmptyLog, LogRecord, LogError
<1>3. ASSUME ConfigureSizeAndPorts(b) PROVE Reports(b)
  <2>1. PICK o \in Outcomes(b) :
          LET l == LogOutcome(EmptyLog, b, o) IN
          \/ catchLogMessages(l, o.ok, b)
          \/ o.ok /\ catchLogMessages(LogError(Caught(l, TRUE), b), FALSE, b)
    BY <1>3 DEF ConfigureSizeAndPorts
  <2>2. CASE catchLogMessages(LogOutcome(EmptyLog, b, o), o.ok, b)
    BY <1>1, <2>2, OutcomeReports
  <2> DEFINE l == LogError(Caught(LogOutcome(EmptyLog, b, o), TRUE), b)
  <2>3. CASE catchLogMessages(l, FALSE, b)
    <3>1. l \in LogRecord /\ l.errors \subseteq {b} \cup Sloppy
      BY <1>1 DEF LogError, LogRecord, LogOutcome, Caught
    <3> HIDE DEF l
    <3>2. QED  BY <2>3, <3>1, CatchReports
  <2>4. QED  BY <2>1, <2>2, <2>3
<1>4. QED  BY <1>2, <1>3, CatchReports

LEMMA InitializeSizesStep ==
  ASSUME SFunctionAssumption, IInv, NEW b \in Blocks, mdlInitializeSizes(b)
  PROVE  IInv'
<1> DEFINE k == KeyOf[b]
<1> DEFINE got == GetClassFactory(factoryMap, k, Loadable(k))
<1>0. TypeOK /\ LifecycleInv /\ FactoryInv /\ LogInv /\ k \in Keys
      /\ factoryMap \in [Keys -> Factory]
  BY DEF IInv, TypeOK, SFunctionAssumption
<1>1. /\ Called(b, "sizes") \/ Edited(b)
      /\ UNCHANGED <<phase, runs, installed, pwork, leaked, dead>>
      /\ phase[ModelOf[b]] \in {"edit", "sizes"}
      /\ unstarted' = unstarted \cup {b}
  BY DEF mdlInitializeSizes, Called, Edited, engine
<1>2. /\ Reports(b)
      /\ errorStatus'[b].set \/ numPWork'[b] = NumPWork
      /\ numPWork' \in [Blocks -> {0, NumPWork}]
      /\ \A c \in Blocks : c # b => numPWork'[c] = numPWork[c]
  BY <1>0, SizesReports DEF mdlInitializeSizes, TypeOK, SFunctionAssumption
<1>3. factoryMap' = factoryMap \/ factoryMap' = got
  <2>1. got \in [Keys -> Factory]
    BY <1>0 DEF GetClassFactory, Opened, Factory
  <2>2. WithScopedBlock(got, k) = got
    BY <1>0, <2>1, ScopedBlock
  <2>3. QED  BY <2>2 DEF mdlInitializeSizes
<1>4. FactoryInv' /\ factoryMap' \in [Keys -> Factory]
  <2>1. CASE factoryMap' = factoryMap
    BY <1>0, <1>1, <2>1, FactoryInvSame
  <2>2. CASE factoryMap' = got
    BY <1>0, <1>1, <2>2, FactoryInvLoad
  <2>3. QED  BY <1>3, <2>1, <2>2
<1>5. /\ todo' \in [Models -> SUBSET Blocks]
      /\ \A c \in Blocks : c # b => (c \in todo'[ModelOf[c]] <=> c \in todo[ModelOf[c]])
  <2>1. CASE Called(b, "sizes")
    BY <1>0, <2>1, CalledTakes
  <2>2. CASE Edited(b)
    BY <1>0, <2>2 DEF Edited, engine, TypeOK
  <2>3. QED  BY <1>1, <2>1, <2>2
<1>6. TypeOK'
  BY <1>0, <1>1, <1>2, <1>4, <1>5 DEF TypeOK, Reports
<1>7. LifecycleInv'
  <2>1. BlockInv(b)'
    <3>1. pwork'[b] = NoPWork /\ phase'[ModelOf[b]] \in {"edit", "sizes"}
      BY <1>0, <1>1 DEF LifecycleInv, BlockInv
    <3>2. QED  BY <1>2, <3>1 DEF BlockInv, NoPWork
  <2>2. \A c \in Blocks : c # b =>
           /\ (c \in todo'[ModelOf[c]]) = (c \in todo[ModelOf[c]])
           /\ pwork'[c] = pwork[c] /\ numPWork'[c] = numPWork[c]
           /\ errorStatus[c].set => errorStatus'[c].set
    BY <1>1, <1>2, <1>5 DEF Reports
  <2>3. QED  BY <1>0, <1>1, <2>1, <2>2, CallbackKeepsLifecycle
<1>8. LogInv'
  BY <1>0, <1>2, ReportsKeepLogInv
<1>9. QED  BY <1>4, <1>6, <1>7, <1>8 DEF IInv

\* In every branch of mdlStart PWork[b] becomes what BlockInv asks for.
LEMMA StartStep ==
  ASSUME SFunctionAssumption, IInv, NEW b \in Blocks, mdlStart(b)
  PROVE  IInv'
<1> DEFINE k == KeyOf[b]
<1> DEFINE got == GetClassFactory(factoryMap, k, Loadable(k))
<1>0. /\ TypeOK /\ LifecycleInv /\ FactoryInv /\ LogInv
      /\ k \in Keys
      /\ factoryMap \in [Keys -> Factory] /\ pwork \in [Blocks -> PWorkVector]
      /\ log \in LogRecord /\ log.errors \subseteq Sloppy
  BY DEF IInv, TypeOK, SFunctionAssumption, LogInv, OnlySloppyErrorsPend
<1>1. /\ Called(b, "start") /\ UNCHANGED <<phase, runs, installed, numPWork, leaked, dead>>
      /\ phase[ModelOf[b]] = "start"
      /\ unstarted' \subseteq unstarted
  BY DEF mdlStart, Called
<1>2. /\ todo' \in [Models -> SUBSET Blocks] /\ b \in todo[ModelOf[b]]
      /\ \A c \in Blocks : c \in todo'[ModelOf[c]] <=> c \in todo[ModelOf[c]] /\ c # b
  BY <1>0, <1>1, CalledTakes
<1>3. pwork[b] = CleanPWork /\ numPWork[b] = NumPWork
  BY <1>0, <1>1, <1>2 DEF LifecycleInv, BlockInv, CleanPWork
<1>4. /\ Reports(b)
      /\ FactoryInv' /\ factoryMap' \in [Keys -> Factory]
      /\ pwork' \in [Blocks -> PWorkVector]
      /\ \A c \in Blocks : c # b => pwork'[c] = pwork[c]
      /\ pwork'[b].mem
      /\ errorStatus'[b].set \/ (pwork'[b].block # 0 /\ pwork'[b].info)
  <2>1. CASE Fail(b) /\ UNCHANGED <<factoryMap, pwork>>
    <3>1. Reports(b) /\ errorStatus'[b].set
      BY <1>0, <2>1, FailReports
    <3>2. FactoryInv'
      BY <1>0, <1>1, <2>1, FactoryInvSame
    <3>3. QED  BY <1>0, <1>3, <2>1, <3>1, <3>2 DEF CleanPWork
  <2>2. CASE /\ factoryMap' = got
             /\ pwork' = [pwork EXCEPT ![b] = Stored(0)]
             /\ Fail(b)
    <3>1. Reports(b) /\ errorStatus'[b].set
      BY <1>0, <2>2, FailReports
    <3>2. /\ pwork' \in [Blocks -> PWorkVector]
          /\ pwork'[b].mem /\ pwork'[b].block = 0
          /\ \A c \in Blocks : c # b => pwork'[c] = pwork[c]
      BY <1>0, <2>2 DEF Stored, PWorkVector
    <3>3. \A c \in Blocks : pwork'[c].block = pwork[c].block
      BY <1>3, <3>2 DEF CleanPWork
    <3>4. FactoryInv' /\ factoryMap' \in [Keys -> Factory]
      BY <1>0, <1>1, <2>2, <3>3, FactoryInvLoad
    <3>5. QED  BY <3>1, <3>2, <3>4
  <2>3. CASE /\ Found(factoryMap, k, Loadable(k))
             /\ factoryMap' = AddRef(got, k)
             /\ pwork' = [pwork EXCEPT ![b] = Stored(got[k].gen)]
             /\ \E o \in Outcomes(b) : catchLogMessages(LogOutcome(log, b, o), o.ok, b)
    <3>1. Reports(b)
      BY <1>0, <2>3, OutcomeReports
    <3>2. pwork[b].block = 0
      BY <1>3 DEF CleanPWork
    <3>3. FactoryInv' /\ factoryMap' \in [Keys -> Factory] /\ got[k].gen \in Nat \ {0}
      BY <1>0, <1>1, <2>3, <3>2, FactoryInvStart
    <3> HIDE DEF got
    <3>4. /\ pwork' \in [Blocks -> PWorkVector]
          /\ pwork'[b].mem /\ pwork'[b].block # 0 /\ pwork'[b].info
          /\ \A c \in Blocks : c # b => pwork'[c] = pwork[c]
      BY <1>0, <2>3, <3>3 DEF Stored, PWorkVector
    <3>5. QED  BY <3>1, <3>3, <3>4
  <2>4. QED  BY <2>1, <2>2, <2>3 DEF mdlStart
<1>5. TypeOK'
  BY <1>0, <1>1, <1>2, <1>4 DEF TypeOK, Reports
<1>6. LifecycleInv'
  <2>1. BlockInv(b)'
    BY <1>1, <1>2, <1>3, <1>4 DEF BlockInv
  <2>2. \A c \in Blocks : c # b =>
           /\ (c \in todo'[ModelOf[c]]) = (c \in todo[ModelOf[c]])
           /\ pwork'[c] = pwork[c] /\ numPWork'[c] = numPWork[c]
           /\ errorStatus[c].set => errorStatus'[c].set
    BY <1>1, <1>2, <1>4 DEF Reports
  <2>3. QED  BY <1>0, <1>1, <2>1, <2>2, CallbackKeepsLifecycle
<1>7. LogInv'
  BY <1>0, <1>4, ReportsKeepLogInv
<1>8. QED  BY <1>4, <1>5, <1>6, <1>7 DEF IInv

LEMMA TerminateStep ==
  ASSUME SFunctionAssumption, IInv, NEW b \in Blocks, mdlTerminate(b)
  PROVE  IInv'
<1> DEFINE k == KeyOf[b]
<1> DEFINE got == GetClassFactory(factoryMap, k, Loadable(k))
<1>0. /\ TypeOK /\ LifecycleInv /\ FactoryInv /\ LogInv
      /\ k \in Keys
      /\ factoryMap \in [Keys -> Factory] /\ pwork \in [Blocks -> PWorkVector]
      /\ leaked \in [Keys -> Nat]
      /\ log \in LogRecord /\ log.errors \subseteq Sloppy /\ log.warnings = {}
  BY DEF IInv, TypeOK, SFunctionAssumption, LogInv, OnlySloppyErrorsPend
<1>1. /\ Called(b, "terminate") /\ UNCHANGED <<phase, runs, installed, numPWork, unstarted>>
      /\ phase[ModelOf[b]] = "terminate"
  BY DEF mdlTerminate, WithoutBlock, Called
<1>2. /\ todo' \in [Models -> SUBSET Blocks] /\ b \in todo[ModelOf[b]]
      /\ \A c \in Blocks : c \in todo'[ModelOf[c]] <=> c \in todo[ModelOf[c]] /\ c # b
  BY <1>0, <1>1, CalledTakes
<1>3. /\ pwork[b].mem => numPWork[b] = NumPWork
      /\ pwork[b].block # 0 \/ pwork[b].info => pwork[b].mem
      /\ factoryMap[k].open => got = factoryMap
      /\ pwork[b].block # 0 => factoryMap[k].open
      /\ pwork[b].info => pwork[b].block # 0 \/ errorStatus[b].set
  BY <1>0 DEF LifecycleInv, BlockInv, GetClassFactory, FactoryInv, FactoryMapInv
<1> HIDE DEF got
<1>4. pwork' = Cleaned(b) => /\ pwork' \in [Blocks -> PWorkVector]
                             /\ pwork'[b] = CleanPWork
                             /\ pwork'[b].block = 0 /\ ~pwork'[b].info
                             /\ \A c \in Blocks : c # b => pwork'[c] = pwork[c]
  BY <1>0 DEF Cleaned, CleanPWork, PWorkVector
<1>5. /\ Reports(b)
      /\ FactoryInv' /\ factoryMap' \in [Keys -> Factory] /\ leaked' \in [Keys -> Nat]
      /\ dead' = dead \/ dead' = TRUE
      /\ \/ pwork' = pwork /\ pwork[b].block = 0 /\ (pwork[b].info => errorStatus'[b].set)
         \/ pwork[b].mem /\ pwork' = Cleaned(b)
  <2>1. CASE ~pwork[b].mem /\ UNCHANGED <<factoryMap, pwork, leaked, log, errorStatus, dead>>
    <3>1. FactoryInv'
      BY <1>0, <2>1, FactoryInvSame
    <3>2. Reports(b)
      BY <1>0, <2>1 DEF Reports, TypeOK
    <3>3. QED  BY <1>0, <1>3, <2>1, <3>1, <3>2
  <2>2. CASE /\ pwork[b].mem
             /\ numPWork[b] # NumPWork \/ (NDEBUG /\ ~Found(factoryMap, k, Loadable(k)))
             /\ Fail(b)
             /\ UNCHANGED <<factoryMap, pwork, leaked, dead>>
    <3>1. FactoryInv'
      BY <1>0, <2>2, FactoryInvSame
    <3>2. Reports(b) /\ errorStatus'[b].set
      BY <1>0, <2>2, FailReports
    <3>3. pwork[b].block = 0
      BY <1>3, <2>2 DEF Found
    <3>4. QED  BY <1>0, <2>2, <3>1, <3>2, <3>3
  <2>7. CASE /\ pwork[b].mem
             /\ ~Found(factoryMap, k, Loadable(k))
             /\ dead' = TRUE
             /\ UNCHANGED <<factoryMap, pwork, leaked, log, errorStatus>>
    <3>1. FactoryInv'
      BY <1>0, <2>7, FactoryInvSame
    <3>2. Reports(b)
      BY <1>0, <2>7 DEF Reports, TypeOK
    <3>3. pwork[b].block = 0
      BY <1>3, <2>7 DEF Found
    <3>4. QED  BY <1>0, <1>3, <2>7, <3>1, <3>2, <3>3
  <2>3. CASE /\ pwork[b].mem /\ pwork' = Cleaned(b) /\ pwork[b].block = 0
             /\ factoryMap' = got
             /\ catchLogMessages(log, TRUE, b)
             /\ UNCHANGED <<leaked, dead>>
    <3>1. \A c \in Blocks : pwork'[c].block = pwork[c].block
      BY <1>4, <2>3
    <3>2. FactoryInv' /\ factoryMap' \in [Keys -> Factory]
      BY <1>0, <2>3, <3>1, FactoryInvLoad DEF got
    <3>3. Reports(b)
      BY <1>0, <2>3, CatchReports
    <3>4. QED  BY <1>0, <2>3, <3>2, <3>3
  <2>4. CASE /\ pwork[b].mem /\ pwork' = Cleaned(b) /\ pwork[b].block # 0
             /\ \E o \in Outcomes(b) :
                  /\ o.ok
                  /\ factoryMap' = ReleaseBlock(got, k)
                  /\ catchLogMessages(LogOutcome(log, b, o), TRUE, b)
                  /\ UNCHANGED <<leaked, dead>>
    <3>1. PICK o \in Outcomes(b) : o.ok /\ catchLogMessages(LogOutcome(log, b, o), TRUE, b)
      BY <2>4
    <3>2. o.ok = TRUE
      BY <3>1 DEF Outcomes
    <3>3. Reports(b)
      BY <1>0, <3>1, <3>2, OutcomeReports
    <3>4. FactoryInv' /\ factoryMap' \in [Keys -> Factory]
      BY <1>0, <1>3, <2>4, FactoryInvRelease
    <3>5. QED  BY <1>0, <2>4, <3>3, <3>4
  <2>5. CASE /\ pwork[b].mem /\ pwork' = Cleaned(b) /\ pwork[b].block # 0
             /\ \E o \in Outcomes(b) :
                  /\ factoryMap' = got
                  /\ catchLogMessages(LogError(LogOutcome(log, b, o), b), FALSE, b)
                  /\ leaked' = [leaked EXCEPT ![k] = @ + 1]
             /\ UNCHANGED dead
    <3>1. PICK o \in Outcomes(b) : catchLogMessages(LogError(LogOutcome(log, b, o), b), FALSE, b)
      BY <2>5
    <3> DEFINE l == LogError(LogOutcome(log, b, o), b)
    <3>2. l \in LogRecord /\ l.errors \subseteq {b} \cup Sloppy
      BY <1>0 DEF LogError, LogOutcome, LogRecord
    <3>3. catchLogMessages(l, FALSE, b)
      BY <3>1
    <3> HIDE DEF l
    <3>4. Reports(b)
      BY <1>0, <3>2, <3>3, CatchReports
    <3>5. FactoryInv' /\ leaked' \in [Keys -> Nat]
      BY <1>0, <1>3, <2>5, FactoryInvForget
    <3>6. QED  BY <1>0, <1>3, <2>5, <3>4, <3>5
  <2>6. QED  BY <2>1, <2>2, <2>3, <2>4, <2>5, <2>7 DEF mdlTerminate, WithoutBlock, got
<1>6. TypeOK'
  BY <1>0, <1>1, <1>2, <1>4, <1>5 DEF TypeOK, Reports
<1>7. LifecycleInv'
  <2>1. BlockInv(b)'
    BY <1>1, <1>2, <1>3, <1>4, <1>5 DEF BlockInv, CleanPWork
  <2>2. \A c \in Blocks : c # b =>
           /\ (c \in todo'[ModelOf[c]]) = (c \in todo[ModelOf[c]])
           /\ pwork'[c] = pwork[c] /\ numPWork'[c] = numPWork[c]
           /\ errorStatus[c].set => errorStatus'[c].set
    BY <1>1, <1>2, <1>4, <1>5 DEF Reports
  <2>3. QED  BY <1>0, <1>1, <2>1, <2>2, CallbackKeepsLifecycle
<1>8. LogInv'
  BY <1>0, <1>5, ReportsKeepLogInv
<1>9. QED  BY <1>5, <1>6, <1>7, <1>8 DEF IInv

-----------------------------------------------------------------------------
(* The engine and the plugins on disk *)

\* What an engine step of m leaves to show: the blocks of the other models are
\* not touched, no object moves, and no error appears.
LEMMA EngineKeepsInv ==
  ASSUME SFunctionAssumption, IInv, NEW m \in Models,
         phase' \in [Models -> Phases], todo' \in [Models -> SUBSET Blocks],
         runs' \in [Models -> Nat],
         numPWork' \in [Blocks -> {0, NumPWork}],
         pwork' \in [Blocks -> PWorkVector],
         errorStatus' \in [Blocks -> Status],
         \A n \in Models : n # m => phase'[n] = phase[n] /\ todo'[n] = todo[n],
         \A c \in Blocks : ModelOf[c] # m =>
           pwork'[c] = pwork[c] /\ numPWork'[c] = numPWork[c] /\ errorStatus'[c] = errorStatus[c],
         \A c \in Blocks : pwork'[c].block = pwork[c].block,
         \A c \in Blocks : errorStatus'[c] = errorStatus[c] \/ errorStatus'[c] = NoError,
         \A c \in Blocks : ModelOf[c] = m => BlockInv(c)',
         UNCHANGED <<installed, factoryMap, leaked, log, dead, unstarted>>
  PROVE  IInv'
<1> USE DEF IInv
<1>1. TypeOK'
  BY DEF TypeOK
<1>2. LifecycleInv'
  <2> SUFFICES ASSUME NEW c \in Blocks, ModelOf[c] # m PROVE BlockInv(c)'
    BY DEF LifecycleInv
  <2>1. ModelOf[c] \in Models
    BY DEF SFunctionAssumption
  <2>2. QED  BY <2>1 DEF LifecycleInv, BlockInv
<1>3. FactoryInv'
  BY FactoryInvSame
<1>4. LogInv'
  BY DEF LogInv, OnlySloppyErrorsPend, ErrorsAttributed, NoError
<1>5. QED  BY <1>1, <1>2, <1>3, <1>4

LEMMA EnterPhaseTypes ==
  ASSUME TypeOK, NEW m \in Models, NEW ph \in Phases, EnterPhase(m, ph)
  PROVE  /\ phase' \in [Models -> Phases] /\ todo' \in [Models -> SUBSET Blocks]
         /\ phase'[m] = ph /\ todo'[m] = BlocksOf(m)
         /\ \A n \in Models : n # m => phase'[n] = phase[n] /\ todo'[n] = todo[n]
BY DEF TypeOK, EnterPhase, BlocksOf

\* The steps of the engine that only move on to the next phase.
LEMMA PhaseStep ==
  ASSUME SFunctionAssumption, IInv, NEW m \in Models, NEW ph \in Phases,
         EnterPhase(m, ph), OnlyPhase,
         \A c \in Blocks : ModelOf[c] = m => BlockInv(c)'
  PROVE  IInv'
<1>1. /\ phase' \in [Models -> Phases] /\ todo' \in [Models -> SUBSET Blocks]
      /\ \A n \in Models : n # m => phase'[n] = phase[n] /\ todo'[n] = todo[n]
  BY EnterPhaseTypes DEF IInv
<1>2. /\ numPWork' \in [Blocks -> {0, NumPWork}] /\ pwork' \in [Blocks -> PWorkVector]
      /\ errorStatus' \in [Blocks -> Status] /\ runs' \in [Models -> Nat]
      /\ UNCHANGED <<numPWork, pwork, errorStatus, installed, factoryMap, leaked, log, dead, unstarted>>
  BY DEF OnlyPhase, IInv, TypeOK
<1>3. QED  BY <1>1, <1>2, EngineKeepsInv

LEMMA BeginRunStep ==
  ASSUME SFunctionAssumption, IInv, NEW m \in Models, BeginRun(m)
  PROVE  IInv'
<1>0. TypeOK /\ LifecycleInv
  BY DEF IInv
<1>1. /\ phase' \in [Models -> Phases] /\ todo' \in [Models -> SUBSET Blocks]
      /\ phase'[m] = "sizes" /\ todo'[m] = BlocksOf(m)
      /\ \A n \in Models : n # m => phase'[n] = phase[n] /\ todo'[n] = todo[n]
  BY <1>0, EnterPhaseTypes DEF BeginRun, Phases
<1>2. /\ UNCHANGED <<installed, factoryMap, pwork, leaked, log, dead, unstarted>>
      /\ runs' \in [Models -> Nat]
      /\ numPWork' \in [Blocks -> {0, NumPWork}] /\ errorStatus' \in [Blocks -> Status]
      /\ \A c \in Blocks : ModelOf[c] # m => numPWork'[c] = numPWork[c] /\ errorStatus'[c] = errorStatus[c]
      /\ \A c \in Blocks : errorStatus'[c] = errorStatus[c] \/ errorStatus'[c] = NoError
      /\ pwork' \in [Blocks -> PWorkVector]
  BY <1>0 DEF BeginRun, TypeOK, NoError, Status
<1>3. ASSUME NEW c \in Blocks, ModelOf[c] = m PROVE BlockInv(c)'
  <2>1. pwork'[c] = NoPWork
    BY <1>0, <1>2, <1>3 DEF BeginRun, LifecycleInv, BlockInv
  <2>2. c \in todo'[ModelOf[c]]
    BY <1>1, <1>3 DEF BlocksOf
  <2>3. QED  BY <1>1, <1>3, <2>1, <2>2 DEF BlockInv, NoPWork
<1>4. QED  BY <1>1, <1>2, <1>3, EngineKeepsInv

LEMMA CompileStep ==
  ASSUME SFunctionAssumption, IInv, NEW m \in Models, Compile(m)
  PROVE  IInv'
<1>0. TypeOK /\ LifecycleInv
  BY DEF IInv
<1>1. /\ phase' \in [Models -> Phases] /\ todo' \in [Models -> SUBSET Blocks]
      /\ phase'[m] = "start" /\ todo'[m] = BlocksOf(m)
      /\ \A n \in Models : n # m => phase'[n] = phase[n] /\ todo'[n] = todo[n]
  BY <1>0, EnterPhaseTypes DEF Compile, Phases
<1>2. UNCHANGED <<runs, installed, factoryMap, numPWork, leaked, log, errorStatus, dead, unstarted>>
  BY DEF Compile
<1>3. ASSUME NEW c \in Blocks, ModelOf[c] = m
      PROVE  numPWork[c] = NumPWork /\ pwork[c] = NoPWork /\ pwork'[c] = CleanPWork
  <2>1. c \notin todo[ModelOf[c]] /\ ~errorStatus[c].set /\ phase[ModelOf[c]] = "sizes"
    BY <1>3 DEF Compile, PhaseDone, Failed, BlocksOf
  <2>2. numPWork[c] = NumPWork /\ pwork[c] = NoPWork
    BY <1>0, <2>1 DEF LifecycleInv, BlockInv
  <2>3. QED  BY <1>3, <2>2 DEF Compile, NumPWork
<1>4. /\ pwork' \in [Blocks -> PWorkVector]
      /\ \A c \in Blocks : ModelOf[c] # m => pwork'[c] = pwork[c]
  BY <1>0 DEF Compile, TypeOK, PWorkVector, CleanPWork
<1>5. \A c \in Blocks : pwork'[c].block = pwork[c].block
  BY <1>3, <1>4 DEF CleanPWork, NoPWork
<1>6. ASSUME NEW c \in Blocks, ModelOf[c] = m PROVE BlockInv(c)'
  <2>1. c \in todo'[ModelOf[c]]
    BY <1>1, <1>6 DEF BlocksOf
  <2>2. QED  BY <1>1, <1>2, <1>3, <1>6, <2>1 DEF BlockInv, CleanPWork
<1>7. /\ runs' \in [Models -> Nat] /\ numPWork' \in [Blocks -> {0, NumPWork}]
      /\ errorStatus' \in [Blocks -> Status]
  BY <1>0, <1>2 DEF TypeOK
<1>8. QED  BY <1>1, <1>2, <1>4, <1>5, <1>6, <1>7, EngineKeepsInv

\* The blocks of a model that goes on after mdlStart have both their objects.
LEMMA AfterStart ==
  ASSUME IInv, NEW m \in Models, NEW c \in Blocks, ModelOf[c] = m,
         \/ PhaseDone(m, "start")
         \/ phase[m] \in {"generate", "conditions", "run"}
  PROVE  pwork[c].mem /\ pwork[c].block # 0 /\ pwork[c].info
BY DEF IInv, LifecycleInv, BlockInv, PhaseDone, Failed, BlocksOf

LEMMA MoveOnStep ==
  ASSUME SFunctionAssumption, IInv, NEW m \in Models,
         Simulate(m) \/ GenerateCode(m) \/ EnterRun(m)
  PROVE  IInv'
<1>1. PICK ph \in {"conditions", "generate", "run"} : EnterPhase(m, ph)
  BY DEF Simulate, GenerateCode, EnterRun
<1>2. OnlyPhase /\ (PhaseDone(m, "start") \/ phase[m] \in {"generate", "conditions", "run"})
  BY DEF Simulate, GenerateCode, EnterRun, PhaseDone
<1>3. phase'[m] = ph /\ ph \in Phases
  BY <1>1, EnterPhaseTypes DEF IInv, Phases
<1>4. ASSUME NEW c \in Blocks, ModelOf[c] = m PROVE BlockInv(c)'
  <2>1. pwork[c].mem /\ pwork[c].block # 0 /\ pwork[c].info
    BY <1>2, <1>4, AfterStart
  <2>2. pwork' = pwork /\ numPWork' = numPWork /\ BlockInv(c)
    BY <1>2 DEF OnlyPhase, IInv, LifecycleInv
  <2>3. QED  BY <1>3, <1>4, <2>1, <2>2 DEF BlockInv
<1>5. QED  BY <1>1, <1>2, <1>3, <1>4, PhaseStep

LEMMA StopStep ==
  ASSUME SFunctionAssumption, IInv, NEW m \in Models, Stop(m) \/ Interrupt(m) \/ Abort(m)
  PROVE  IInv'
<1>1. EnterPhase(m, "terminate") /\ OnlyPhase
  BY DEF Stop, Interrupt, Abort
<1>2. phase'[m] = "terminate" /\ todo'[m] = BlocksOf(m) /\ "terminate" \in Phases
  BY <1>1, EnterPhaseTypes DEF IInv, Phases
<1>3. ASSUME NEW c \in Blocks, ModelOf[c] = m PROVE BlockInv(c)'
  <2>1. c \in todo'[ModelOf[c]]
    BY <1>2, <1>3 DEF BlocksOf
  <2>2. UNCHANGED <<pwork, numPWork, errorStatus>> /\ BlockInv(c)
    BY <1>1 DEF OnlyPhase, IInv, LifecycleInv
  <2>3. QED  BY <1>2, <1>3, <2>1, <2>2 DEF BlockInv
<1>4. QED  BY <1>1, <1>2, <1>3, PhaseStep

LEMMA FinishStep ==
  ASSUME SFunctionAssumption, IInv, NEW m \in Models, Finish(m)
  PROVE  IInv'
<1>0. TypeOK /\ LifecycleInv
  BY DEF IInv
<1>1. /\ phase' \in [Models -> Phases] /\ todo' \in [Models -> SUBSET Blocks]
      /\ phase'[m] = "edit"
      /\ \A n \in Models : n # m => phase'[n] = phase[n] /\ todo'[n] = todo[n]
  BY <1>0 DEF Finish, TypeOK, Phases
<1>2. UNCHANGED <<runs, installed, factoryMap, numPWork, leaked, log, errorStatus, dead, unstarted>>
  BY DEF Finish
<1>3. /\ pwork' \in [Blocks -> PWorkVector]
      /\ \A c \in Blocks : ModelOf[c] = m => pwork'[c] = NoPWork
      /\ \A c \in Blocks : ModelOf[c] # m => pwork'[c] = pwork[c]
  BY <1>0 DEF Finish, TypeOK, PWorkVector, NoPWork
<1>4. \A c \in Blocks : ModelOf[c] = m => pwork[c].block = 0
  BY <1>0 DEF Finish, LifecycleInv, BlockInv
<1>5. \A c \in Blocks : pwork'[c].block = pwork[c].block
  BY <1>3, <1>4 DEF NoPWork
<1>6. \A c \in Blocks : ModelOf[c] = m => BlockInv(c)'
  BY <1>1, <1>3 DEF BlockInv, NoPWork
<1>7. /\ runs' \in [Models -> Nat] /\ numPWork' \in [Blocks -> {0, NumPWork}]
      /\ errorStatus' \in [Blocks -> Status]
  BY <1>0, <1>2 DEF TypeOK
<1>8. QED  BY <1>1, <1>2, <1>3, <1>5, <1>6, <1>7, EngineKeepsInv

LEMMA PluginStep ==
  ASSUME IInv, NEW k \in Keys, RemovePlugin(k) \/ InstallPlugin(k)
  PROVE  IInv'
<1>1. /\ UNCHANGED <<phase, todo, runs, factoryMap, numPWork, pwork, leaked, log, errorStatus, dead, unstarted>>
      /\ installed' \subseteq Keys
  BY DEF RemovePlugin, InstallPlugin, engine, IInv, TypeOK
<1>2. QED
  BY <1>1 DEF IInv, TypeOK, LifecycleInv, BlockInv, FactoryInv, FactoryMapInv, LiveObjects,
              Holders, LogInv, OnlySloppyErrorsPend, ErrorsAttributed

-----------------------------------------------------------------------------
(* The theorems *)

\* The invariant is inductive.
LEMMA NextInv ==
  ASSUME SFunctionAssumption, IInv, [Next]_vars
  PROVE  IInv'
<1>1. CASE UNCHANGED vars
  BY <1>1 DEF vars, engine, IInv, TypeOK, LifecycleInv, BlockInv, FactoryInv, FactoryMapInv,
              LiveObjects, Holders, LogInv, OnlySloppyErrorsPend, ErrorsAttributed
<1>2. ASSUME NEW b \in Blocks, Callback(b) PROVE IInv'
  BY <1>2, InitializeSizesStep, StartStep, RuntimeStep, RTWStep, TerminateStep DEF Callback
<1>3. ASSUME NEW m \in Models, EngineStep(m) PROVE IInv'
  BY <1>3, BeginRunStep, CompileStep, MoveOnStep, StopStep, FinishStep DEF EngineStep
<1>4. ASSUME NEW k \in Keys, RemovePlugin(k) \/ InstallPlugin(k) PROVE IInv'
  BY <1>4, PluginStep
<1>5. QED  BY <1>1, <1>2, <1>3, <1>4 DEF Next

THEOREM Inductive == Spec => []IInv
BY InitInv, NextInv, SFunctionAssumption, PTL DEF Spec

\* Every variable keeps its type and every allocated PWork vector its size.
THEOREM TypeCorrect == Spec => []TypeOK
<1>1. IInv => TypeOK
  BY DEF IInv
<1>2. QED  BY <1>1, Inductive, PTL

\* addRef and removeRef balance over any number of blocks, models, simulations
\* and failures: the counter is one more than the number of objects.
THEOREM RefCountIsExact == Spec => []RefCountExact
<1>1. IInv => RefCountExact
  BY DEF IInv, FactoryInv, FactoryMapInv, RefCountExact
<1>2. QED  BY <1>1, Inductive, PTL

\* No plugin is unloaded or loaded again under one of its objects.
THEOREM FactoriesOutliveObjects == Spec => []ObjectsKeepTheirFactory
<1>1. IInv => ObjectsKeepTheirFactory
  BY DEF IInv, FactoryInv, FactoryMapInv, ObjectsKeepTheirFactory
<1>2. QED  BY <1>1, Inductive, PTL

\* Only the errors of methods that return true wait in the Log.
THEOREM LogIsForwarded == Spec => []OnlySloppyErrorsPend
<1>1. IInv => OnlySloppyErrorsPend
  BY DEF IInv, LogInv
<1>2. QED  BY <1>1, Inductive, PTL

\* A block that runs has its Block and its BlockInformation.
THEOREM RunningBlocksAreCreated == Spec => []RunningBlocksExist
<1>1. IInv => RunningBlocksExist
  BY DEF IInv, LifecycleInv, BlockInv, RunningBlocksExist
<1>2. QED  BY <1>1, Inductive, PTL

\* mdlTerminate leaves no Block behind in a PWork vector.
THEOREM TerminateCleans == Spec => []TerminatedIsClean
<1>1. IInv => TerminatedIsClean
  BY DEF IInv, LifecycleInv, BlockInv, TerminatedIsClean
<1>2. QED  BY <1>1, Inductive, PTL

\* A message is shown for its own block, or stems from a sloppy one.
THEOREM MessagesAreAttributed == Spec => []ErrorsAttributed
<1>1. IInv => ErrorsAttributed
  BY DEF IInv, LogInv
<1>2. QED  BY <1>1, Inductive, PTL
=============================================================================

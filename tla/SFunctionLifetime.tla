------------------------- MODULE SFunctionLifetime --------------------------
(***************************************************************************)
(* What the callbacks mean for the life of the plugins: SFunction          *)
(* implements PluginLifetime, and a plugin that is loaded without use is   *)
(* due to a block that was sized and not started.  Both rest on the        *)
(* invariant IInv of SFunctionProofs.                                      *)
(***************************************************************************)
EXTENDS SFunctionProofs

-----------------------------------------------------------------------------
(* Steps of PluginLifetime, told by what they do to each class *)

\* The class of k before and after a step.
Kept(k) == factoryMap'[k].open = factoryMap[k].open /\ LiveObjects(k)' = LiveObjects(k)

\* The step is invisible to PluginLifetime.
LEMMA KeptIsStutter ==
  ASSUME \A j \in Keys : Kept(j)
  PROVE  UNCHANGED Lifetime!vars
<1>1. {j \in Keys : factoryMap[j].open}' = {j \in Keys : factoryMap[j].open}
  BY DEF Kept
<1>2. [j \in Keys |-> LiveObjects(j)]' = [j \in Keys |-> LiveObjects(j)]
  BY DEF Kept
<1>3. QED  BY <1>1, <1>2 DEF Lifetime!vars

\* getClassFactory opens a factory that no object needed.
LEMMA IsLoad ==
  ASSUME NEW k \in Keys, factoryMap'[k].open,
         LiveObjects(k)' = LiveObjects(k),
         \A j \in Keys : j # k => Kept(j)
  PROVE  Lifetime!Load(k)
<1>1. {j \in Keys : factoryMap[j].open}' = {j \in Keys : factoryMap[j].open} \cup {k}
  BY DEF Kept
<1>2. [j \in Keys |-> LiveObjects(j)]' = [j \in Keys |-> LiveObjects(j)]
  BY DEF Kept
<1>3. QED  BY <1>1, <1>2 DEF Lifetime!Load

\* mdlStart makes an object of class k, and opens its factory when it must.
LEMMA IsCreate ==
  ASSUME NEW k \in Keys, factoryMap'[k].open,
         LiveObjects(k)' = LiveObjects(k) + 1,
         \A j \in Keys : j # k => Kept(j)
  PROVE  Lifetime!Create(k)
<1>1. {j \in Keys : factoryMap[j].open}' = {j \in Keys : factoryMap[j].open} \cup {k}
  BY DEF Kept
<1>2. [j \in Keys |-> LiveObjects(j)]'
        = [[j \in Keys |-> LiveObjects(j)] EXCEPT ![k] = LiveObjects(k) + 1]
  BY DEF Kept
<1>3. QED  BY <1>1, <1>2 DEF Lifetime!Create

\* mdlTerminate destroys an object of class k, and the last one takes the factory.
LEMMA IsDestroy ==
  ASSUME NEW k \in Keys, LiveObjects(k) \in Nat \ {0},
         factoryMap[k].open,
         factoryMap'[k].open <=> LiveObjects(k) # 1,
         LiveObjects(k)' = LiveObjects(k) - 1,
         \A j \in Keys : j # k => Kept(j)
  PROVE  Lifetime!Destroy(k)
<1>1. {j \in Keys : factoryMap[j].open}'
        = IF LiveObjects(k) = 1 THEN {j \in Keys : factoryMap[j].open} \ {k}
                                ELSE {j \in Keys : factoryMap[j].open}
  BY DEF Kept
<1>2. [j \in Keys |-> LiveObjects(j)]'
        = [[j \in Keys |-> LiveObjects(j)] EXCEPT ![k] = LiveObjects(k) - 1]
  BY DEF Kept
<1>3. QED  BY <1>1, <1>2 DEF Lifetime!Destroy

-----------------------------------------------------------------------------
(* The callbacks as steps of PluginLifetime *)

\* The step is one of PluginLifetime on class k, or none.
LifetimeStep(k) ==
  Lifetime!Load(k) \/ Lifetime!Create(k) \/ Lifetime!Destroy(k) \/ UNCHANGED Lifetime!vars

\* No object and no factory changes.
LEMMA QuietKeeps ==
  ASSUME UNCHANGED <<factoryMap, leaked>>,
         \A c \in Blocks : pwork'[c].block = pwork[c].block
  PROVE  \A j \in Keys : Kept(j)
BY DEF Kept, LiveObjects, Holders

\* getClassFactory alone.
LEMMA LoadEffect ==
  ASSUME TypeOK, NEW k \in Keys,
         factoryMap' = GetClassFactory(factoryMap, k, Loadable(k)),
         UNCHANGED leaked,
         \A c \in Blocks : pwork'[c].block = pwork[c].block
  PROVE  LifetimeStep(k) /\ \A j \in Keys : j # k => Kept(j)
<1>1. \A j \in Keys : LiveObjects(j)' = LiveObjects(j)
  BY DEF LiveObjects, Holders
<1>2. /\ \A j \in Keys : j # k => factoryMap'[j] = factoryMap[j]
      /\ factoryMap' = factoryMap \/ factoryMap'[k].open
  BY DEF TypeOK, GetClassFactory, Opened
<1>3. \A j \in Keys : j # k => Kept(j)
  BY <1>1, <1>2 DEF Kept
<1>4. CASE factoryMap' = factoryMap
  BY <1>1, <1>3, <1>4, KeptIsStutter DEF Kept, LifetimeStep
<1>5. CASE factoryMap'[k].open
  BY <1>1, <1>3, <1>5, IsLoad DEF LifetimeStep
<1>6. QED  BY <1>2, <1>3, <1>4, <1>5

LEMMA SizesEffect ==
  ASSUME SFunctionAssumption, IInv, NEW b \in Blocks, mdlInitializeSizes(b)
  PROVE  LifetimeStep(KeyOf[b]) /\ \A j \in Keys : j # KeyOf[b] => Kept(j)
<1> DEFINE k == KeyOf[b]
<1> DEFINE got == GetClassFactory(factoryMap, k, Loadable(k))
<1>1. TypeOK /\ k \in Keys /\ factoryMap \in [Keys -> Factory]
  BY DEF IInv, TypeOK, SFunctionAssumption
<1>2. UNCHANGED <<pwork, leaked>>
  BY DEF mdlInitializeSizes
<1>3. factoryMap' = factoryMap \/ factoryMap' = got
  <2>1. got \in [Keys -> Factory]
    BY <1>1 DEF GetClassFactory, Opened, Factory
  <2>2. WithScopedBlock(got, k) = got
    BY <1>1, <2>1, ScopedBlock
  <2>3. QED  BY <2>2 DEF mdlInitializeSizes
<1>4. CASE factoryMap' = factoryMap
  BY <1>2, <1>4, QuietKeeps, KeptIsStutter DEF LifetimeStep
<1>5. CASE factoryMap' = got
  BY <1>1, <1>2, <1>5, LoadEffect
<1>6. QED  BY <1>3, <1>4, <1>5

\* The block that mdlStart is called for has no object yet.
LEMMA StartFindsNone ==
  ASSUME SFunctionAssumption, IInv, NEW b \in Blocks, mdlStart(b)
  PROVE  pwork[b] = CleanPWork /\ phase[ModelOf[b]] = "start" /\ b \in todo[ModelOf[b]]
<1>1. phase[ModelOf[b]] = "start" /\ b \in todo[ModelOf[b]]
  BY DEF mdlStart, Called
<1>2. QED  BY <1>1 DEF IInv, LifecycleInv, BlockInv, CleanPWork

LEMMA StartEffect ==
  ASSUME SFunctionAssumption, IInv, NEW b \in Blocks, mdlStart(b)
  PROVE  LifetimeStep(KeyOf[b]) /\ \A j \in Keys : j # KeyOf[b] => Kept(j)
<1> DEFINE k == KeyOf[b]
<1> DEFINE got == GetClassFactory(factoryMap, k, Loadable(k))
<1>1. /\ TypeOK /\ FactoryInv /\ k \in Keys
      /\ factoryMap \in [Keys -> Factory] /\ pwork \in [Blocks -> PWorkVector]
  BY DEF IInv, TypeOK, SFunctionAssumption
<1>2. pwork[b].block = 0 /\ UNCHANGED leaked
  BY StartFindsNone DEF CleanPWork, mdlStart
<1>3. CASE UNCHANGED <<factoryMap, pwork>>
  BY <1>2, <1>3, QuietKeeps, KeptIsStutter DEF LifetimeStep
<1>4. CASE factoryMap' = got /\ pwork' = [pwork EXCEPT ![b] = Stored(0)]
  <2>1. \A c \in Blocks : pwork'[c].block = pwork[c].block
    BY <1>1, <1>2, <1>4 DEF Stored
  <2>2. QED  BY <1>1, <1>2, <1>4, <2>1, LoadEffect
<1>5. CASE /\ Found(factoryMap, k, Loadable(k))
           /\ factoryMap' = AddRef(got, k)
           /\ pwork' = [pwork EXCEPT ![b] = Stored(got[k].gen)]
  <2>1. got[k].gen \in Nat \ {0} /\ factoryMap' \in [Keys -> Factory]
    BY <1>1, <1>2, <1>5, FactoryInvStart
  <2>2. got \in [Keys -> Factory] /\ got[k].open
    BY <1>1, <1>5, FoundIsOpen
  <2>3. \A j \in Keys : j # k => got[j] = factoryMap[j]
    BY <1>1 DEF GetClassFactory
  <2> HIDE DEF got
  <2>4. /\ factoryMap'[k].open
        /\ \A j \in Keys : j # k => factoryMap'[j] = factoryMap[j]
    BY <1>1, <1>5, <2>2, <2>3 DEF AddRef, Counted
  <2>5. /\ pwork'[b].block # 0
        /\ \A c \in Blocks : c # b => pwork'[c] = pwork[c]
    BY <1>1, <1>5, <2>1 DEF Stored
  <2>6. \A j \in Keys : LiveObjects(j) \in Nat
                        /\ LiveObjects(j)' = LiveObjects(j) + (IF j = k THEN 1 ELSE 0)
    BY <1>1, <1>2, <2>5, ObjectAdded
  <2>7. \A j \in Keys : j # k => Kept(j)
    BY <2>4, <2>6 DEF Kept
  <2>8. QED  BY <1>1, <2>4, <2>6, <2>7, IsCreate DEF LifetimeStep
<1>6. QED  BY <1>3, <1>4, <1>5 DEF mdlStart

LEMMA TerminateEffect ==
  ASSUME SFunctionAssumption, IInv, NEW b \in Blocks, mdlTerminate(b)
  PROVE  /\ LifetimeStep(KeyOf[b]) /\ \A j \in Keys : j # KeyOf[b] => Kept(j)
         /\ pwork[b].block # 0 => (\A j \in Keys : Kept(j)) \/ Lifetime!Destroy(KeyOf[b])
<1> DEFINE k == KeyOf[b]
<1> DEFINE got == GetClassFactory(factoryMap, k, Loadable(k))
<1>1. /\ TypeOK /\ FactoryInv /\ k \in Keys
      /\ factoryMap \in [Keys -> Factory] /\ pwork \in [Blocks -> PWorkVector]
  BY DEF IInv, TypeOK, SFunctionAssumption
<1>2. pwork' = Cleaned(b) => /\ pwork'[b].block = 0
                             /\ \A c \in Blocks : c # b => pwork'[c] = pwork[c]
  BY <1>1 DEF Cleaned, CleanPWork
<1>3. pwork[b].block # 0 => factoryMap[k].open /\ got = factoryMap
  BY <1>1 DEF FactoryInv, FactoryMapInv, GetClassFactory
<1> HIDE DEF got
<1>4. CASE UNCHANGED <<factoryMap, pwork, leaked>>
  BY <1>1, <1>4, QuietKeeps, KeptIsStutter DEF LifetimeStep
<1>5. CASE pwork[b].block = 0 /\ factoryMap' = got /\ pwork' = Cleaned(b) /\ UNCHANGED leaked
  <2>1. \A c \in Blocks : pwork'[c].block = pwork[c].block
    BY <1>2, <1>5
  <2>2. QED  BY <1>1, <1>5, <2>1, LoadEffect DEF got
<1>6. CASE /\ pwork[b].block # 0 /\ pwork' = Cleaned(b)
           /\ factoryMap' = ReleaseBlock(got, k) /\ UNCHANGED leaked
  <2>1. \A j \in Keys : LiveObjects(j) \in Nat /\ LiveObjects(j)' \in Nat
                        /\ LiveObjects(j)' = LiveObjects(j) - (IF j = k THEN 1 ELSE 0)
    BY <1>1, <1>2, <1>6, ObjectRemoved
  <2>2. /\ factoryMap[k].open
        /\ factoryMap'[k].open <=> LiveObjects(k) # 1
        /\ \A j \in Keys : j # k => factoryMap'[j] = factoryMap[j]
    <3>1. factoryMap[k].open /\ factoryMap[k].rct = 1 + LiveObjects(k)
      BY <1>1, <1>3, <1>6 DEF FactoryInv, FactoryMapInv
    <3>2. LiveObjects(k) \in Nat \ {0}
      BY <1>1, <2>1
    <3>3. QED  BY <1>1, <1>3, <1>6, <3>1, <3>2, Released
  <2>3. \A j \in Keys : j # k => Kept(j)
    BY <2>1, <2>2 DEF Kept
  <2>4. LiveObjects(k) \in Nat \ {0} /\ LiveObjects(k)' = LiveObjects(k) - 1
    BY <1>1, <2>1
  <2>5. Lifetime!Destroy(k)
    BY <1>1, <2>2, <2>3, <2>4, IsDestroy
  <2>6. QED  BY <2>3, <2>5 DEF LifetimeStep
<1>7. CASE /\ pwork[b].block # 0 /\ pwork' = Cleaned(b)
           /\ factoryMap' = got /\ leaked' = [leaked EXCEPT ![k] = @ + 1]
  <2>1. \A j \in Keys : LiveObjects(j)' = LiveObjects(j)
    BY <1>1, <1>2, <1>7, ObjectRemoved
  <2>2. \A j \in Keys : Kept(j)
    BY <1>3, <1>7, <2>1 DEF Kept
  <2>3. QED  BY <2>2, KeptIsStutter DEF LifetimeStep
<1>8. QED  BY <1>4, <1>5, <1>6, <1>7 DEF mdlTerminate, WithoutBlock, got

\* The run-time callbacks and mdlRTW neither make nor destroy anything.
LEMMA RuntimeEffect ==
  ASSUME NEW b \in Blocks,
         mdlInitializeConditions(b) \/ mdlOutputs(b) \/ mdlUpdate(b) \/ mdlRTW(b)
  PROVE  \A j \in Keys : Kept(j)
<1>1. UNCHANGED <<factoryMap, pwork, leaked>>
  BY DEF mdlInitializeConditions, mdlOutputs, mdlUpdate, mdlRTW, CallMethod
<1>2. QED  BY <1>1, QuietKeeps

LEMMA CallbackEffect ==
  ASSUME SFunctionAssumption, IInv, NEW b \in Blocks, Callback(b)
  PROVE  LifetimeStep(KeyOf[b]) /\ \A j \in Keys : j # KeyOf[b] => Kept(j)
<1>1. CASE mdlInitializeConditions(b) \/ mdlOutputs(b) \/ mdlUpdate(b) \/ mdlRTW(b)
  BY <1>1, RuntimeEffect, KeptIsStutter DEF LifetimeStep
<1>2. QED  BY <1>1, SizesEffect, StartEffect, TerminateEffect DEF Callback

\* The engine and the plugins on disk move no object and no factory.
LEMMA EngineEffect ==
  ASSUME SFunctionAssumption, IInv, NEW m \in Models, EngineStep(m)
  PROVE  \A j \in Keys : Kept(j)
<1>0. pwork \in [Blocks -> PWorkVector]
  BY DEF IInv, TypeOK
<1>1. UNCHANGED <<factoryMap, leaked>>
  BY DEF EngineStep, BeginRun, Compile, Simulate, GenerateCode, EnterRun, Stop, Interrupt, Abort, Finish,
         OnlyPhase
<1>2. \A c \in Blocks : pwork'[c].block = pwork[c].block
  <2>1. CASE Compile(m)
    <3>1. \A c \in Blocks : ModelOf[c] = m => pwork[c].block = 0
      BY <2>1 DEF Compile, PhaseDone, IInv, LifecycleInv, BlockInv, NoPWork
    <3>2. QED  BY <1>0, <2>1, <3>1 DEF Compile, CleanPWork
  <2>2. CASE Finish(m)
    <3>1. \A c \in Blocks : ModelOf[c] = m => pwork[c].block = 0
      BY <2>2 DEF Finish, IInv, LifecycleInv, BlockInv
    <3>2. QED  BY <1>0, <2>2, <3>1 DEF Finish, NoPWork
  <2>3. CASE UNCHANGED pwork
    BY <2>3
  <2>4. QED
    BY <2>1, <2>2, <2>3
    DEF EngineStep, BeginRun, Simulate, GenerateCode, EnterRun, Stop, Interrupt, Abort, OnlyPhase
<1>3. QED  BY <1>1, <1>2, QuietKeeps

\* Every step of the S-function is a step of PluginLifetime or invisible to it.
LEMMA StepSimulates ==
  ASSUME SFunctionAssumption, IInv, [Next]_vars
  PROVE  [Lifetime!Next]_(Lifetime!vars)
<1>1. ASSUME NEW b \in Blocks, Callback(b) PROVE [Lifetime!Next]_(Lifetime!vars)
  <2>1. KeyOf[b] \in Keys
    BY DEF SFunctionAssumption
  <2>2. QED  BY <1>1, <2>1, CallbackEffect DEF LifetimeStep, Lifetime!Next
<1>2. ASSUME NEW m \in Models, EngineStep(m) PROVE UNCHANGED Lifetime!vars
  BY <1>2, EngineEffect, KeptIsStutter
<1>3. CASE \/ UNCHANGED vars
           \/ \E k \in Keys : RemovePlugin(k) \/ InstallPlugin(k)
  <2>1. UNCHANGED <<factoryMap, pwork, leaked>>
    BY <1>3 DEF vars, RemovePlugin, InstallPlugin
  <2>2. QED  BY <2>1, QuietKeeps, KeptIsStutter
<1>4. QED  BY <1>1, <1>2, <1>3 DEF Next

\* No object exists before the first simulation.
LEMMA InitSimulates ==
  ASSUME Init
  PROVE  Lifetime!Init
<1>1. \A k \in Keys : Holders(k) = {} /\ leaked[k] = 0 /\ ~factoryMap[k].open
  BY DEF Init, Holders, NoPWork, EmptyMap
<1>2. \A k \in Keys : LiveObjects(k) = 0
  <2> SUFFICES ASSUME NEW k \in Keys PROVE LiveObjects(k) = 0
    OBVIOUS
  <2>1. Cardinality(Holders(k)) = 0
    BY <1>1, FS_EmptySet
  <2>2. QED  BY <1>1, <2>1 DEF LiveObjects
<1>3. QED  BY <1>1, <1>2 DEF Lifetime!Init

\* The factory map, the reference counters and the PWork vectors together do what
\* PluginLifetime promises to the code of a plugin: for any blocks and models, a
\* plugin is in the process while it has objects and goes with the last of them.
THEOREM ImplementsPluginLifetime == Spec => ImplementsLifetime
<1>1. Spec => Lifetime!Init /\ [][Lifetime!Next]_(Lifetime!vars)
  BY InitSimulates, StepSimulates, Inductive, SFunctionAssumption, PTL DEF Spec
<1>2. QED  BY <1>1 DEF ImplementsLifetime, Lifetime!Spec

-----------------------------------------------------------------------------
(* A plugin that is loaded without use is due to an unstarted block *)

\* What the history variable says of a block: it is in unstarted from its
\* mdlInitializeSizes until its object is stored, and whenever mdlTerminate is
\* going to find a PWork vector without an object.
SizedInv ==
  \A b \in Blocks :
    LET ph    == phase[ModelOf[b]]
        waits == b \in todo[ModelOf[b]]
    IN
    /\ ph = "sizes" /\ ~waits => b \in unstarted
    /\ pwork[b].mem /\ pwork[b].block = 0 /\ (ph = "terminate" => waits) => b \in unstarted

UnloadInv == IInv /\ UnusedIsUnstarted /\ SizedInv

\* unstarted shrinks only when mdlStart stores an object.
LEMMA StaysUnstarted ==
  ASSUME SFunctionAssumption, IInv, NEW b \in Blocks, Callback(b)
  PROVE  /\ \A c \in unstarted : c # b => c \in unstarted'
         /\ b \in unstarted /\ b \notin unstarted' => pwork'[b].block # 0
         /\ mdlInitializeSizes(b) => b \in unstarted'
<1> DEFINE got == GetClassFactory(factoryMap, KeyOf[b], Loadable(KeyOf[b]))
<1>1. CASE mdlStart(b) /\ pwork' = [pwork EXCEPT ![b] = Stored(got[KeyOf[b]].gen)]
           /\ factoryMap' = AddRef(got, KeyOf[b]) /\ Found(factoryMap, KeyOf[b], Loadable(KeyOf[b]))
           /\ unstarted' = unstarted \ {b}
  <2>1. pwork[b].block = 0 /\ leaked' = leaked
    <3>1. mdlStart(b)
      BY <1>1
    <3>2. pwork[b] = CleanPWork
      BY <3>1, StartFindsNone
    <3>3. leaked' = leaked
      BY <3>1 DEF mdlStart
    <3>4. QED  BY <3>2, <3>3 DEF CleanPWork
  <2>2. got[KeyOf[b]].gen \in Nat \ {0}
    BY <1>1, <2>1, FactoryInvStart DEF IInv, SFunctionAssumption
  <2>3. pwork'[b].block # 0
    BY <1>1, <2>2 DEF IInv, TypeOK, Stored
  <2>4. ~mdlInitializeSizes(b)
    BY <1>1 DEF mdlStart, mdlInitializeSizes, Called, Edited
  <2>5. QED  BY <1>1, <2>3, <2>4
<1>2. CASE mdlInitializeSizes(b)
  BY <1>2 DEF mdlInitializeSizes
<1>3. CASE unstarted' = unstarted /\ ~mdlInitializeSizes(b)
  BY <1>3
<1>4. QED
  BY <1>1, <1>2, <1>3
  DEF Callback, mdlStart, mdlInitializeConditions, mdlOutputs, mdlUpdate, mdlRTW, mdlTerminate, WithoutBlock,
      CallMethod

\* A class whose block holds an object is in use.
LEMMA HolderIsLive ==
  ASSUME SFunctionAssumption, leaked' \in [Keys -> Nat], NEW b \in Blocks, pwork'[b].block # 0
  PROVE  LiveObjects(KeyOf[b])' # 0
<1>1. Holders(KeyOf[b])' \subseteq Blocks /\ b \in Holders(KeyOf[b])'
  BY DEF Holders
<1>2. IsFiniteSet(Holders(KeyOf[b])')
  BY <1>1, FS_Subset DEF SFunctionAssumption
<1>3. Cardinality(Holders(KeyOf[b])') \in Nat /\ Cardinality(Holders(KeyOf[b])') # 0
  BY <1>1, <1>2, FS_EmptySet, FS_CardinalityType
<1>4. leaked'[KeyOf[b]] \in Nat
  BY DEF SFunctionAssumption
<1>5. QED  BY <1>3, <1>4 DEF LiveObjects

\* A callback of b that leaves the class of b loaded and unused found it so, or
\* leaves b unstarted.
LEMMA CallbackLeavesUnstarted ==
  ASSUME SFunctionAssumption, UnloadInv, NEW b \in Blocks, Callback(b), IInv',
         factoryMap'[KeyOf[b]].open, LiveObjects(KeyOf[b])' = 0
  PROVE  b \in unstarted' \/ Kept(KeyOf[b])
<1>1. /\ IInv /\ TypeOK /\ SizedInv /\ KeyOf[b] \in Keys
      /\ pwork'[b].block = 0
  BY HolderIsLive DEF UnloadInv, IInv, TypeOK, SFunctionAssumption
<1>2. CASE mdlInitializeSizes(b)
  BY <1>1, <1>2, StaysUnstarted
<1>3. CASE mdlStart(b)
  <2>1. b \in unstarted
    BY <1>1, <1>3, StartFindsNone DEF SizedInv, CleanPWork
  <2>2. QED  BY <1>1, <2>1, StaysUnstarted
<1>4. CASE mdlTerminate(b)
  <2>1. phase[ModelOf[b]] = "terminate" /\ b \in todo[ModelOf[b]]
    BY <1>4 DEF mdlTerminate, WithoutBlock, Called
  <2>2. CASE pwork[b].mem /\ pwork[b].block = 0
    BY <1>1, <2>1, <2>2, StaysUnstarted DEF SizedInv
  <2>3. CASE ~pwork[b].mem
    <3>1. UNCHANGED <<factoryMap, pwork, leaked>>
      BY <1>4, <2>3 DEF mdlTerminate, WithoutBlock
    <3>2. QED  BY <1>1, <3>1, QuietKeeps
  <2>4. CASE pwork[b].block # 0
    <3>1. Kept(KeyOf[b]) \/ Lifetime!Destroy(KeyOf[b])
      BY <1>1, <1>4, <2>4, TerminateEffect
    <3>2. ~Lifetime!Destroy(KeyOf[b])
      <4> SUFFICES ASSUME Lifetime!Destroy(KeyOf[b]) PROVE FALSE
        OBVIOUS
      <4>1. LiveObjects(KeyOf[b])' = LiveObjects(KeyOf[b]) - 1 /\ LiveObjects(KeyOf[b]) \in Nat
        BY <1>1, HoldersFinite DEF Lifetime!Destroy, LiveObjects, TypeOK
      <4>2. KeyOf[b] \notin {k \in Keys : factoryMap[k].open}'
        BY <1>1, <4>1 DEF Lifetime!Destroy
      <4>3. QED  BY <1>1, <4>2
    <3>3. QED  BY <3>1, <3>2
  <2>5. QED  BY <2>2, <2>3, <2>4
<1>5. CASE mdlInitializeConditions(b) \/ mdlOutputs(b) \/ mdlUpdate(b) \/ mdlRTW(b)
  BY <1>1, <1>5, RuntimeEffect
<1>6. QED  BY <1>2, <1>3, <1>4, <1>5 DEF Callback

LEMMA CallbackKeepsUnused ==
  ASSUME SFunctionAssumption, UnloadInv, NEW b \in Blocks, Callback(b), IInv'
  PROVE  UnusedIsUnstarted'
<1> SUFFICES ASSUME NEW k \in Keys, factoryMap'[k].open, LiveObjects(k)' = 0
             PROVE  \E c \in unstarted' : KeyOf[c] = k
  BY DEF UnusedIsUnstarted
<1>1. CASE k = KeyOf[b] /\ b \in unstarted'
  BY <1>1
<1>2. CASE Kept(k)
  <2>1. PICK c \in unstarted : KeyOf[c] = k
    BY <1>2 DEF Kept, UnloadInv, UnusedIsUnstarted
  <2>2. c = b => pwork'[b].block = 0
    BY <2>1, HolderIsLive DEF IInv, TypeOK
  <2>3. QED  BY <2>1, <2>2, StaysUnstarted DEF UnloadInv
<1>3. QED  BY <1>1, <1>2, CallbackLeavesUnstarted, CallbackEffect DEF UnloadInv

LEMMA CallbackKeepsSized ==
  ASSUME SFunctionAssumption, UnloadInv, NEW b \in Blocks, Callback(b), IInv'
  PROVE  SizedInv'
<1>1. IInv /\ TypeOK /\ SizedInv /\ pwork \in [Blocks -> PWorkVector]
  BY DEF UnloadInv, IInv, TypeOK
<1>2. /\ phase' = phase
      /\ \A c \in Blocks : c # b => (c \in todo'[ModelOf[c]] <=> c \in todo[ModelOf[c]])
      /\ \A c \in Blocks : c \in todo'[ModelOf[c]] => c \in todo[ModelOf[c]]
      /\ mdlTerminate(b) => phase[ModelOf[b]] = "terminate" /\ b \notin todo'[ModelOf[b]]
  <2>1. phase' = phase /\ (todo' = todo \/ \E ph : Called(b, ph))
    BY DEF Callback, mdlInitializeSizes, mdlStart, mdlInitializeConditions, mdlOutputs, mdlUpdate,
           mdlRTW, mdlTerminate, WithoutBlock, Called, Edited, Running, engine
  <2>2. mdlTerminate(b) => Called(b, "terminate") /\ phase[ModelOf[b]] = "terminate"
    BY DEF mdlTerminate, WithoutBlock, Called
  <2>3. QED  BY <1>1, <2>1, <2>2, CalledTakes
<1>3. \A c \in Blocks : c # b => pwork'[c] = pwork[c]
  BY <1>1 DEF Callback, mdlInitializeSizes, mdlStart, mdlInitializeConditions, mdlOutputs, mdlUpdate,
              mdlRTW, mdlTerminate, WithoutBlock, CallMethod, Cleaned
<1> SUFFICES ASSUME NEW c \in Blocks
             PROVE  /\ phase[ModelOf[c]] = "sizes" /\ c \notin todo'[ModelOf[c]] => c \in unstarted'
                    /\ /\ pwork'[c].mem /\ pwork'[c].block = 0
                       /\ phase[ModelOf[c]] = "terminate" => c \in todo'[ModelOf[c]]
                       => c \in unstarted'
  BY <1>2 DEF SizedInv
<1>4. CASE c # b
  BY <1>1, <1>2, <1>3, <1>4, StaysUnstarted DEF SizedInv
<1>5. CASE c = b /\ mdlInitializeSizes(b)
  BY <1>1, <1>5, StaysUnstarted
<1>6. CASE c = b /\ mdlStart(b)
  <2>1. b \in unstarted /\ phase[ModelOf[b]] = "start"
    BY <1>1, <1>6, StartFindsNone DEF SizedInv, CleanPWork
  <2>2. QED  BY <1>1, <1>6, <2>1, StaysUnstarted
<1>7. CASE c = b /\ mdlTerminate(b)
  BY <1>2, <1>7
<1>8. CASE c = b /\ (mdlInitializeConditions(b) \/ mdlOutputs(b) \/ mdlUpdate(b) \/ mdlRTW(b))
  <2>1. pwork' = pwork /\ unstarted' = unstarted /\ phase[ModelOf[b]] \in {"conditions", "run", "generate"}
    BY <1>8 DEF mdlInitializeConditions, mdlOutputs, mdlUpdate, mdlRTW, CallMethod, Called, Running
  <2>2. QED  BY <1>1, <1>8, <2>1 DEF SizedInv
<1>9. QED  BY <1>4, <1>5, <1>6, <1>7, <1>8 DEF Callback

\* The engine starts no block and creates none; it gives a block a PWork vector
\* only after its mdlInitializeSizes.
LEMMA EngineKeepsUnloadInv ==
  ASSUME SFunctionAssumption, UnloadInv, NEW m \in Models, EngineStep(m)
  PROVE  UnusedIsUnstarted' /\ SizedInv'
<1>1. IInv /\ TypeOK /\ SizedInv
  BY DEF UnloadInv, IInv
<1>2. unstarted' = unstarted
  BY DEF EngineStep, BeginRun, Compile, Simulate, GenerateCode, EnterRun, Stop, Interrupt, Abort,
         Finish, OnlyPhase
<1>3. UnusedIsUnstarted'
  BY <1>1, <1>2, EngineEffect DEF UnloadInv, UnusedIsUnstarted, Kept
<1>4. SizedInv'
  <2> SUFFICES ASSUME NEW c \in Blocks, c \notin unstarted
               PROVE  /\ ~(phase'[ModelOf[c]] = "sizes" /\ c \notin todo'[ModelOf[c]])
                      /\ ~(/\ pwork'[c].mem /\ pwork'[c].block = 0
                           /\ phase'[ModelOf[c]] = "terminate" => c \in todo'[ModelOf[c]])
    BY <1>2 DEF SizedInv
  <2>0. /\ ModelOf[c] \in Models /\ phase \in [Models -> Phases]
        /\ todo \in [Models -> SUBSET Blocks] /\ pwork \in [Blocks -> PWorkVector]
    BY <1>1 DEF SFunctionAssumption, TypeOK
  <2>1. CASE ModelOf[c] # m
    <3>1. /\ phase'[ModelOf[c]] = phase[ModelOf[c]] /\ todo'[ModelOf[c]] = todo[ModelOf[c]]
          /\ pwork'[c] = pwork[c]
      BY <2>0, <2>1 DEF EngineStep, BeginRun, Compile, Simulate, GenerateCode, EnterRun, Stop,
                        Interrupt, Abort, Finish, EnterPhase, OnlyPhase
    <3>2. QED  BY <1>1, <3>1 DEF SizedInv
  <2>2. CASE ModelOf[c] = m /\ (BeginRun(m) \/ Finish(m))
    <3>1. pwork'[c] = NoPWork
      BY <1>1, <2>0, <2>2 DEF BeginRun, Finish, IInv, LifecycleInv, BlockInv
    <3>2. phase'[m] = "sizes" => c \in todo'[m]
      BY <2>0, <2>2 DEF BeginRun, Finish, EnterPhase, BlocksOf
    <3>3. QED  BY <2>2, <3>1, <3>2 DEF NoPWork
  <2>3. CASE ModelOf[c] = m /\ Compile(m)
    <3>1. phase[m] = "sizes" /\ c \notin todo[m]
      BY <2>3 DEF Compile, PhaseDone
    <3>2. QED  BY <1>1, <2>3, <3>1 DEF SizedInv
  <2>4. CASE ModelOf[c] = m /\ (Simulate(m) \/ GenerateCode(m) \/ EnterRun(m) \/ Stop(m)
                               \/ Interrupt(m) \/ Abort(m))
    <3>1. pwork' = pwork /\ phase'[m] # "sizes" /\ phase[m] # "terminate"
      BY <2>0, <2>4 DEF Simulate, GenerateCode, EnterRun, Stop, Interrupt, Abort, EnterPhase, OnlyPhase,
                        PhaseDone
    <3>2. QED  BY <1>1, <2>4, <3>1 DEF SizedInv
  <2>5. QED  BY <2>1, <2>2, <2>3, <2>4 DEF EngineStep
<1>5. QED  BY <1>3, <1>4

LEMMA UnloadInitNext ==
  ASSUME SFunctionAssumption
  PROVE  /\ Init => UnloadInv
         /\ UnloadInv /\ [Next]_vars => UnloadInv'
<1>1. ASSUME Init PROVE UnloadInv
  BY <1>1, InitInv DEF Init, UnloadInv, UnusedIsUnstarted, SizedInv, EmptyMap, NoPWork,
                       SFunctionAssumption
<1>2. ASSUME UnloadInv, [Next]_vars PROVE UnloadInv'
  <2>1. IInv /\ IInv'
    BY <1>2, NextInv DEF UnloadInv
  <2>2. CASE \/ UNCHANGED vars
             \/ \E k \in Keys : RemovePlugin(k) \/ InstallPlugin(k)
    <3>1. UNCHANGED <<phase, todo, factoryMap, pwork, leaked, unstarted>>
      BY <2>2 DEF vars, engine, RemovePlugin, InstallPlugin
    <3>2. QED
      BY <1>2, <2>1, <3>1 DEF UnloadInv, UnusedIsUnstarted, SizedInv, LiveObjects, Holders
  <2>3. ASSUME NEW b \in Blocks, Callback(b) PROVE UnloadInv'
    BY <1>2, <2>1, <2>3, CallbackKeepsUnused, CallbackKeepsSized DEF UnloadInv
  <2>4. ASSUME NEW m \in Models, EngineStep(m) PROVE UnloadInv'
    BY <1>2, <2>1, <2>4, EngineKeepsUnloadInv DEF UnloadInv
  <2>5. QED  BY <1>2, <2>2, <2>3, <2>4 DEF Next
<1>3. QED  BY <1>1, <1>2

\* What mdlInitializeSizes loads, the mdlTerminate of the blocks that were started
\* unloads: over any number of models, simulations, interruptions and edits, a
\* plugin that is loaded without any object is due to a block of its class that was
\* sized and has not been started since.
THEOREM UnusedPluginsAreUnstarted == Spec => []UnusedIsUnstarted
<1>1. UnloadInv => UnusedIsUnstarted
  BY DEF UnloadInv
<1>2. QED  BY <1>1, UnloadInitNext, SFunctionAssumption, PTL DEF Spec
=============================================================================

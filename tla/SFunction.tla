----------------------------- MODULE SFunction ------------------------------
(***************************************************************************)
(* The S-function BlockFactory.cpp: the callbacks mdl* that Simulink calls *)
(* on every block of a model, the PWork vector where a block keeps its     *)
(* pointers, the process-wide Log and the process-wide factory map.        *)
(*                                                                         *)
(* Several models live in one MATLAB process and share the two singletons. *)
(* Simulink runs one callback at a time, so a callback is one step; the    *)
(* callbacks of different models interleave.  The order in which Simulink  *)
(* calls the blocks of a phase is left open.                               *)
(***************************************************************************)
EXTENDS FactoryMap, FiniteSets

CONSTANTS
  Models,     \* the open Simulink models
  Blocks,     \* the S-function blocks of all models
  ModelOf,    \* ModelOf[b]: the model block b belongs to
  KeyOf,      \* KeyOf[b]: the {library, class} parameters of block b
  Sloppy,     \* blocks whose methods may log an error and return true
  NDEBUG,     \* the S-function is built without assertions (a release build)
  MaxRuns     \* bound: simulations of a model, which is edited before each of them

ASSUME SFunctionAssumption ==
  /\ IsFiniteSet(Blocks)
  /\ ModelOf \in [Blocks -> Models]
  /\ KeyOf \in [Blocks -> Keys]
  /\ Sloppy \subseteq Blocks
  /\ NDEBUG \in BOOLEAN
  /\ MaxRuns \in Nat

VARIABLES
  phase,        \* phase[m]: what the engine is doing with model m
  todo,         \* todo[m]: the blocks the engine still has to call in this phase
  runs,         \* runs[m]: simulations started so far
  installed,    \* the plugins that are on disk in the search path
  factoryMap,   \* ClassFactorySingleton::Impl::factoryMap
  numPWork,     \* numPWork[b]: the size mdlInitializeSizes asked for
  pwork,        \* pwork[b]: the PWork vector of b
  leaked,       \* leaked[k]: objects of class k no pointer leads to any more
  log,          \* the Log singleton: the blocks with pending messages
  errorStatus,  \* errorStatus[b]: what ssSetErrorStatus received for b
  dead,         \* an assertion failed: abort() has ended the process
  unstarted     \* history: the blocks whose mdlInitializeSizes was called and
                \* whose mdlStart has not created an object since

engine == <<phase, todo, runs>>
vars == <<engine, installed, factoryMap, numPWork, pwork, leaked, log, errorStatus, dead, unstarted>>

-----------------------------------------------------------------------------
NumPWork == 2

Phases == {"edit", "sizes", "start", "generate", "conditions", "run", "terminate"}

(***************************************************************************)
(* PWork[0] holds a Block: the generation of the factory that created it,  *)
(* 0 for nullptr.  PWork[1] holds a SimulinkBlockInformation or nullptr.   *)
(* `mem' is FALSE while ssGetPWork(S) is null.                             *)
(***************************************************************************)
PWorkVector == [mem : BOOLEAN, block : Nat, info : BOOLEAN]
NoPWork     == [mem |-> FALSE, block |-> 0, info |-> FALSE]
CleanPWork  == [mem |-> TRUE,  block |-> 0, info |-> FALSE]
Stored(gen) == [mem |-> TRUE,  block |-> gen, info |-> TRUE]

BlocksOf(m) == {b \in Blocks : ModelOf[b] = m}
Loadable(k) == k \in installed

\* The blocks that hold an object made by a factory of class k.
Holders(k) == {b \in Blocks : KeyOf[b] = k /\ pwork[b].block # 0}

\* The objects of class k that have not been destroyed.
LiveObjects(k) == Cardinality(Holders(k)) + leaked[k]

-----------------------------------------------------------------------------
(* Log and error reporting *)

LogRecord == [errors : SUBSET Blocks, warnings : SUBSET Blocks]
EmptyLog  == [errors |-> {}, warnings |-> {}]
Status    == [set : BOOLEAN, from : SUBSET Blocks]
NoError   == [set |-> FALSE, from |-> {}]

\* What a virtual method of a block returns and what it logs on the way.
Outcomes(b) ==
  {o \in [ok : BOOLEAN, error : BOOLEAN, warning : BOOLEAN] :
     o.ok /\ o.error => b \in Sloppy}

\* bfError
LogError(l, b) == [errors |-> l.errors \cup {b}, warnings |-> l.warnings]

LogOutcome(l, b, o) ==
  [errors   |-> IF o.error   THEN l.errors \cup {b}   ELSE l.errors,
   warnings |-> IF o.warning THEN l.warnings \cup {b} ELSE l.warnings]

\* Mutant of Caught: the forwarded errors stay in the Log.
MutantCaught(l, ok) == [errors |-> l.errors, warnings |-> {}]

\* catchLogMessages clears the warnings it has forwarded, and the errors only
\* when it forwards them.
Caught(l, ok) == [errors |-> IF ok THEN l.errors ELSE {}, warnings |-> {}]

catchLogMessages(l, ok, b) ==
  /\ log' = Caught(l, ok)
  /\ errorStatus' = IF ok THEN errorStatus
                    ELSE [errorStatus EXCEPT ![b] = [set |-> TRUE, from |-> l.errors]]

\* Mutant of Fail: the error is logged and never forwarded.
MutantFailSilently(b) == log' = LogError(log, b) /\ UNCHANGED errorStatus

\* bfError << ...; catchLogMessages(false, S)
Fail(b) == catchLogMessages(LogError(log, b), FALSE, b)

Failed(m) == \E b \in BlocksOf(m) : errorStatus[b].set
-----------------------------------------------------------------------------
(* The callbacks *)

\* The engine calls b in phase ph of its model.
Called(b, ph) ==
  LET m == ModelOf[b] IN
  /\ phase[m] = ph
  /\ Failed(m) => ph = "terminate"
  /\ b \in todo[m]
  /\ todo' = [todo EXCEPT ![m] = @ \ {b}]
  /\ UNCHANGED <<phase, runs, installed>>

\* While a model is edited Simulink calls mdlInitializeSizes of any block, to draw
\* its ports anew after its parameters have changed.
Edited(b) ==
  /\ phase[ModelOf[b]] = "edit"
  /\ runs[ModelOf[b]] < MaxRuns
  /\ UNCHANGED <<engine, installed>>

\* configureSizeAndPorts on the temporary block, then the additional options.
ConfigureSizeAndPorts(b) ==
  \E o \in Outcomes(b) :
    LET l == LogOutcome(EmptyLog, b, o) IN
    \/ catchLogMessages(l, o.ok, b)
    \/ /\ o.ok                        \* an option that optionFromKey rejects
       /\ catchLogMessages(LogError(Caught(l, TRUE), b), FALSE, b)

mdlInitializeSizes(b) ==
  LET k    == KeyOf[b]
      got  == GetClassFactory(factoryMap, k, Loadable(k))
      fail == catchLogMessages(LogError(EmptyLog, b), FALSE, b)  \* after Log::clear
  IN
  /\ Called(b, "sizes") \/ Edited(b)
  /\ unstarted' = unstarted \cup {b}
  /\ UNCHANGED <<pwork, leaked, dead>>
  /\ \/ \* the block type parameter is missing
        /\ fail
        /\ UNCHANGED <<factoryMap, numPWork>>
     \/ /\ ~Found(factoryMap, k, Loadable(k))
        /\ fail
        /\ UNCHANGED <<factoryMap, numPWork>>
     \/ \* the factory does not create the temporary block
        /\ Found(factoryMap, k, Loadable(k))
        /\ factoryMap' = got
        /\ fail
        /\ UNCHANGED numPWork
     \/ /\ Found(factoryMap, k, Loadable(k))
        /\ factoryMap' = WithScopedBlock(got, k)
        /\ numPWork' = [numPWork EXCEPT ![b] = NumPWork]
        /\ \/ fail                      \* wrong number of parameters
           \/ ConfigureSizeAndPorts(b)

mdlStart(b) ==
  LET k   == KeyOf[b]
      got == GetClassFactory(factoryMap, k, Loadable(k))
  IN
  /\ Called(b, "start")
  /\ UNCHANGED <<numPWork, leaked, dead>>
  /\ \/ /\ ~Found(factoryMap, k, Loadable(k))
        /\ Fail(b)
        /\ UNCHANGED <<factoryMap, pwork, unstarted>>
     \/ \* create() returns nullptr: no reference is taken
        /\ Found(factoryMap, k, Loadable(k))
        /\ factoryMap' = got
        /\ pwork' = [pwork EXCEPT ![b] = Stored(0)]
        /\ Fail(b)
        /\ UNCHANGED unstarted
     \/ /\ Found(factoryMap, k, Loadable(k))
        /\ factoryMap' = AddRef(got, k)
        /\ pwork' = [pwork EXCEPT ![b] = Stored(got[k].gen)]
        /\ unstarted' = unstarted \ {b}
        /\ \E o \in Outcomes(b) : catchLogMessages(LogOutcome(log, b, o), o.ok, b)

\* The common body of mdlOutputs, mdlUpdate and mdlInitializeConditions: one
\* method of the block in PWork[0], after the checks on the PWork vector.
CallMethod(b) ==
  /\ UNCHANGED <<factoryMap, numPWork, pwork, leaked, dead, unstarted>>
  /\ IF numPWork[b] # NumPWork \/ pwork[b].block = 0 \/ ~pwork[b].info
     THEN Fail(b)
     ELSE \E o \in Outcomes(b) : catchLogMessages(LogOutcome(log, b, o), o.ok, b)

Running(b) ==
  /\ phase[ModelOf[b]] = "run"
  /\ ~Failed(ModelOf[b])
  /\ UNCHANGED <<engine, installed>>

\* Called once before the first step, and again on a reset event.
mdlInitializeConditions(b) ==
  /\ \/ Called(b, "conditions")
     \/ Running(b)
  /\ CallMethod(b)

mdlOutputs(b) == Running(b) /\ CallMethod(b)
mdlUpdate(b)  == Running(b) /\ CallMethod(b)

\* Code generation: the parameters go to the rtw file.  A failure is reported
\* twice, and the second report replaces the first.
mdlRTW(b) ==
  /\ Called(b, "generate")
  /\ UNCHANGED <<factoryMap, numPWork, pwork, leaked, dead, unstarted>>
  /\ IF pwork[b].block = 0
     THEN Fail(b)
     ELSE \E o \in Outcomes(b) :
            LET l == LogOutcome(log, b, o) IN
            IF o.ok THEN catchLogMessages(l, TRUE, b)
            ELSE catchLogMessages(LogError(Caught(l, FALSE), b), FALSE, b)

\* ssSetPWorkValue(S, 0, nullptr), ssSetPWorkValue(S, 1, nullptr)
MutantInfoOnly(b) == [pwork EXCEPT ![b].info = FALSE]   \* PWork[0] is not cleared

Cleaned(b) == [pwork EXCEPT ![b] = CleanPWork]

\* Mutant of WithoutBlock: terminate() is called through the null pointer.
MutantWithoutBlock(b, got) ==
  dead' = TRUE /\ factoryMap' = got /\ UNCHANGED <<pwork, leaked, log, errorStatus>>

\* mdlTerminate of a block that was never created.
WithoutBlock(b, got) ==
  /\ factoryMap' = got
  /\ pwork' = Cleaned(b)
  /\ catchLogMessages(log, TRUE, b)
  /\ UNCHANGED <<leaked, dead>>

mdlTerminate(b) ==
  LET k   == KeyOf[b]
      got == GetClassFactory(factoryMap, k, Loadable(k))
  IN
  /\ Called(b, "terminate")
  /\ UNCHANGED <<numPWork, unstarted>>
  /\ \/ /\ ~pwork[b].mem
        /\ UNCHANGED <<factoryMap, pwork, leaked, log, errorStatus, dead>>
     \/ \* the early return of a wrong PWork vector or of a missing factory
        /\ pwork[b].mem
        /\ numPWork[b] # NumPWork \/ (NDEBUG /\ ~Found(factoryMap, k, Loadable(k)))
        /\ Fail(b)
        /\ UNCHANGED <<factoryMap, pwork, leaked, dead>>
     \/ \* assert(factory), which stands before that early return
        /\ pwork[b].mem
        /\ numPWork[b] = NumPWork
        /\ ~NDEBUG /\ ~Found(factoryMap, k, Loadable(k))
        /\ dead' = TRUE
        /\ UNCHANGED <<factoryMap, pwork, leaked, log, errorStatus>>
     \/ /\ pwork[b].mem
        /\ numPWork[b] = NumPWork
        /\ Found(factoryMap, k, Loadable(k))
        /\ \/ /\ pwork[b].block = 0
              /\ WithoutBlock(b, got)
           \/ /\ pwork[b].block # 0
              /\ pwork' = Cleaned(b)
              /\ UNCHANGED dead
              /\ \E o \in Outcomes(b) :
                   LET l == LogOutcome(log, b, o) IN
                   \/ /\ o.ok
                      /\ factoryMap' = ReleaseBlock(got, k)
                      /\ catchLogMessages(l, TRUE, b)
                      /\ UNCHANGED leaked
                   \/ \* the object is kept, and PWork forgets it
                      /\ ~o.ok
                      /\ factoryMap' = got
                      /\ catchLogMessages(LogError(l, b), FALSE, b)
                      /\ leaked' = [leaked EXCEPT ![k] = @ + 1]

-----------------------------------------------------------------------------
(* The Simulink engine: the order of the phases of a simulation *)

EnterPhase(m, ph) ==
  /\ phase' = [phase EXCEPT ![m] = ph]
  /\ todo' = [todo EXCEPT ![m] = BlocksOf(m)]

PhaseDone(m, ph) ==
  /\ phase[m] = ph
  /\ todo[m] = {}
  /\ ~Failed(m)

BeginRun(m) ==
  /\ phase[m] = "edit"
  /\ runs[m] < MaxRuns
  /\ EnterPhase(m, "sizes")
  /\ runs' = [runs EXCEPT ![m] = @ + 1]
  /\ errorStatus' = [b \in Blocks |-> IF ModelOf[b] = m THEN NoError ELSE errorStatus[b]]
  /\ numPWork' = [b \in Blocks |-> IF ModelOf[b] = m THEN 0 ELSE numPWork[b]]
  /\ UNCHANGED <<installed, factoryMap, pwork, leaked, log, dead, unstarted>>

\* The engine allocates the PWork vectors that mdlInitializeSizes asked for.
Compile(m) ==
  /\ PhaseDone(m, "sizes")
  /\ EnterPhase(m, "start")
  /\ pwork' = [b \in Blocks |-> IF ModelOf[b] = m /\ numPWork[b] > 0
                                THEN CleanPWork ELSE pwork[b]]
  /\ UNCHANGED <<runs, installed, factoryMap, numPWork, leaked, log, errorStatus, dead, unstarted>>

OnlyPhase ==
  UNCHANGED <<runs, installed, factoryMap, numPWork, pwork, leaked, log, errorStatus, dead, unstarted>>

Simulate(m) == PhaseDone(m, "start") /\ EnterPhase(m, "conditions") /\ OnlyPhase

GenerateCode(m) == PhaseDone(m, "start") /\ EnterPhase(m, "generate") /\ OnlyPhase

EnterRun(m) == PhaseDone(m, "conditions") /\ EnterPhase(m, "run") /\ OnlyPhase

\* The end of the simulation time or of the code generation.
Stop(m) ==
  /\ PhaseDone(m, "generate") \/ (phase[m] = "run" /\ ~Failed(m))
  /\ EnterPhase(m, "terminate")
  /\ OnlyPhase

\* The user stops the simulation, a block of another library fails, or the
\* propagation of the port sizes does: the simulation ends in the middle of any
\* phase, and none of these blocks has an error status.
Interrupt(m) ==
  /\ phase[m] \notin {"edit", "terminate"}
  /\ ~Failed(m)
  /\ EnterPhase(m, "terminate")
  /\ OnlyPhase

\* A block has set an error status: the engine stops the simulation and calls
\* mdlTerminate for all the blocks, also for the ones it has not started.
Abort(m) ==
  /\ phase[m] \notin {"edit", "terminate"}
  /\ Failed(m)
  /\ EnterPhase(m, "terminate")
  /\ OnlyPhase

Finish(m) ==
  /\ phase[m] = "terminate"
  /\ todo[m] = {}
  /\ phase' = [phase EXCEPT ![m] = "edit"]
  /\ pwork' = [b \in Blocks |-> IF ModelOf[b] = m THEN NoPWork ELSE pwork[b]]
  /\ UNCHANGED <<todo, runs, installed, factoryMap, numPWork, leaked, log, errorStatus, dead, unstarted>>

\* The plugin is rebuilt or removed while MATLAB runs.
RemovePlugin(k) ==
  /\ k \in installed
  /\ installed' = installed \ {k}
  /\ UNCHANGED <<engine, factoryMap, numPWork, pwork, leaked, log, errorStatus, dead, unstarted>>

InstallPlugin(k) ==
  /\ k \notin installed
  /\ installed' = installed \cup {k}
  /\ UNCHANGED <<engine, factoryMap, numPWork, pwork, leaked, log, errorStatus, dead, unstarted>>

-----------------------------------------------------------------------------
Init ==
  /\ phase = [m \in Models |-> "edit"]
  /\ todo = [m \in Models |-> {}]
  /\ runs = [m \in Models |-> 0]
  /\ installed \in SUBSET Keys
  /\ factoryMap = EmptyMap
  /\ numPWork = [b \in Blocks |-> 0]
  /\ pwork = [b \in Blocks |-> NoPWork]
  /\ leaked = [k \in Keys |-> 0]
  /\ log = EmptyLog
  /\ errorStatus = [b \in Blocks |-> NoError]
  /\ dead = FALSE
  /\ unstarted = {}

Callback(b) ==
  \/ mdlInitializeSizes(b)
  \/ mdlStart(b)
  \/ mdlInitializeConditions(b)
  \/ mdlOutputs(b)
  \/ mdlUpdate(b)
  \/ mdlRTW(b)
  \/ mdlTerminate(b)

EngineStep(m) ==
  \/ BeginRun(m)
  \/ Compile(m)
  \/ Simulate(m)
  \/ GenerateCode(m)
  \/ EnterRun(m)
  \/ Stop(m)
  \/ Interrupt(m)
  \/ Abort(m)
  \/ Finish(m)

Next ==
  /\ ~dead
  /\ \/ \E b \in Blocks : Callback(b)
     \/ \E m \in Models : EngineStep(m)
     \/ \E k \in Keys : RemovePlugin(k) \/ InstallPlugin(k)

Spec == Init /\ [][Next]_vars

\* The steps that bring a simulation of m forward.  The callbacks of the run phase,
\* the choice to begin another simulation and the interruptions from outside are
\* not among them.
Advance(m) ==
  /\ ~dead
  /\ \/ \E b \in BlocksOf(m) :
          \/ phase[m] = "sizes" /\ mdlInitializeSizes(b)
          \/ mdlStart(b)
          \/ phase[m] = "conditions" /\ mdlInitializeConditions(b)
          \/ mdlRTW(b)
          \/ mdlTerminate(b)
     \/ Compile(m) \/ Simulate(m) \/ GenerateCode(m) \/ EnterRun(m)
     \/ Stop(m) \/ Abort(m) \/ Finish(m)

FairSpec == Spec /\ \A m \in Models : WF_vars(Advance(m))

-----------------------------------------------------------------------------
(* Properties *)

\* Every variable has its type, and a PWork vector is allocated only with the
\* size that mdlTerminate and the run-time callbacks check for.
TypeOK ==
  /\ phase \in [Models -> Phases]
  /\ todo \in [Models -> SUBSET Blocks]
  /\ runs \in [Models -> Nat]
  /\ installed \subseteq Keys
  /\ factoryMap \in [Keys -> Factory]
  /\ numPWork \in [Blocks -> {0, NumPWork}]
  /\ pwork \in [Blocks -> PWorkVector]
  /\ leaked \in [Keys -> Nat]
  /\ log \in LogRecord
  /\ errorStatus \in [Blocks -> Status]
  /\ dead \in BOOLEAN
  /\ unstarted \subseteq Blocks

\* The reference counter of a loaded factory is one more than the number of its
\* objects, whatever callbacks failed half way: addRef in mdlStart and removeRef
\* in mdlTerminate balance, and "equal to 1" in mdlTerminate means what its
\* comment says.
RefCountExact ==
  \A k \in Keys : factoryMap[k].open => factoryMap[k].rct = 1 + LiveObjects(k)

\* The object in a PWork vector was made by the very factory the map holds now,
\* so that mdlTerminate destroys it with its own factory and no method runs
\* after its code was unloaded by another block; a forgotten object keeps its
\* plugin too.
ObjectsKeepTheirFactory ==
  /\ \A b \in Blocks : pwork[b].block # 0 =>
       /\ factoryMap[KeyOf[b]].open
       /\ factoryMap[KeyOf[b]].gen = pwork[b].block
  /\ \A k \in Keys : leaked[k] > 0 => factoryMap[k].open

\* Between two callbacks no warning waits, and the only errors that wait were
\* logged by a method that returned true: catchLogMessages forwards all others.
OnlySloppyErrorsPend ==
  /\ log.errors \subseteq Sloppy
  /\ log.warnings = {}

\* The message that Simulink shows for a block holds the errors of that block,
\* and beyond them only those a sloppy block left in the process-wide Log.
ErrorsAttributed ==
  \A b \in Blocks : errorStatus[b].from \subseteq {b} \cup Sloppy

\* The run-time callbacks and mdlRTW find both objects in the PWork vector of
\* every block: a block that mdlStart could not create stops the model first.
RunningBlocksExist ==
  \A b \in Blocks :
    phase[ModelOf[b]] \in {"generate", "conditions", "run"} =>
      pwork[b].mem /\ pwork[b].block # 0 /\ pwork[b].info

\* mdlTerminate leaves no Block in the PWork vector, and a BlockInformation that
\* it leaves there (its early return) was reported as an error.
TerminatedIsClean ==
  \A b \in Blocks :
    phase[ModelOf[b]] = "terminate" /\ b \notin todo[ModelOf[b]] =>
      /\ pwork[b].block = 0
      /\ pwork[b].info => errorStatus[b].set

\* A plugin that is loaded without any object is due to a block of its class whose
\* mdlInitializeSizes loaded it and whose mdlStart never made an object: once all
\* the blocks of a class have been started after their last mdlInitializeSizes,
\* their mdlTerminate callbacks unload the plugin, whatever failed in between.
UnusedIsUnstarted ==
  \A k \in Keys : factoryMap[k].open /\ LiveObjects(k) = 0 =>
    \E b \in unstarted : KeyOf[b] = k

\* The factory map and the PWork vectors together keep the promise of
\* PluginLifetime: a plugin is loaded while it has objects, and the mdlTerminate
\* that destroys the last of them unloads it.
Lifetime == INSTANCE PluginLifetime WITH
  loaded <- {k \in Keys : factoryMap[k].open},
  users  <- [k \in Keys |-> LiveObjects(k)]

ImplementsLifetime == Lifetime!Spec

\* What assert(factory) in mdlTerminate finds: nothing has the plugin of a block that
\* mdlStart could not create.
PluginIsGone ==
  \E b \in Blocks :
    pwork[b].mem /\ pwork[b].block = 0 /\ ~Found(factoryMap, KeyOf[b], Loadable(KeyOf[b]))

\* A simulation that begins is over at some time, whatever the blocks and the plugins
\* do: mdlTerminate comes to its end for every block of a failed simulation, those that
\* were never created included.  Only in a debug build, when such a block has lost its
\* plugin, does the process end first.
EveryRunEnds ==
  \A m \in Models : phase[m] # "edit" ~> phase[m] = "edit" \/ (dead /\ ~NDEBUG /\ PluginIsGone)

-----------------------------------------------------------------------------
(* Statements of the repository that the code does not keep *)

\* FactorySingleton.h: the factory is destructed when all its objects are.  By
\* UnusedIsUnstarted the plugins that stay are those of blocks that were sized and
\* not started: when a simulation fails or is stopped before mdlStart, and while a
\* model is edited.
IdlePluginsUnloaded ==
  (\A m \in Models : phase[m] = "edit") =>
     \A k \in Keys : LiveObjects(k) = 0 => ~factoryMap[k].open

\* BlockFactory.cpp, mdlTerminate: "If the block exist, delete it."  No object
\* is ever left without a pointer to it.
NoObjectForgotten == \A k \in Keys : leaked[k] = 0
=============================================================================

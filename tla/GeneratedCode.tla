---------------------------- MODULE GeneratedCode ----------------------------
(***************************************************************************)
(* The C++ class that Simulink Coder makes from a model with BlockFactory  *)
(* blocks (BlockFactory.tlc), behind the GeneratedCodeWrapper of a client. *)
(*                                                                         *)
(* The code of every block is inlined in the model functions initialize(), *)
(* step() and terminate(), in a fixed order, and its `return' leaves the   *)
(* whole model function.  One thread calls the wrappers; they share the    *)
(* process-wide factory map.                                               *)
(***************************************************************************)
EXTENDS FactoryMap, FiniteSets, Sequences

CONSTANTS
  Wrappers,   \* the GeneratedCodeWrapper objects of the process
  Order,      \* the blocks of the model, each once, in the order of the generated code
  KeyOf,      \* KeyOf[b]: the {library, class} that the tlc file wrote for block b
  Careless,   \* the wrappers whose client ignores what they return
  Ported,     \* the blocks with a message when their ports are refused
  Room,       \* the messages that fit in an error status
  MaxInits    \* bound: calls of initialize() per wrapper

Blocks == {Order[i] : i \in 1..Len(Order)}

ASSUME GeneratedCodeAssumption ==
  /\ IsFiniteSet(Wrappers)
  /\ Order \in Seq(Blocks)
  /\ \A i, j \in 1..Len(Order) : Order[i] = Order[j] => i = j
  /\ KeyOf \in [Blocks -> Keys]
  /\ Careless \subseteq Wrappers
  /\ Ported \subseteq Blocks
  /\ Room \in Nat /\ MaxInits \in Nat

VARIABLES
  call,         \* the model function that runs, and where it is
  state,        \* state[w]: what the client of w knows
  inits,        \* inits[w]: calls of initialize() so far
  pwork,        \* pwork[w][b]: where the PWork entries of b point to
  factoryMap,   \* ClassFactorySingleton::Impl::factoryMap
  lost,         \* lost[k]: objects of class k no PWork entry leads to
  log,          \* the errors of the process-wide Log, the first Room of them
  errorStatus,  \* errorStatus[w]: what getRTM()->errorStatus points to, if it is not null
  crashed       \* the wrapper whose code called a method through a null or dangling pointer

vars == <<call, state, inits, pwork, factoryMap, lost, log, errorStatus, crashed>>

-----------------------------------------------------------------------------
States    == {"none", "ready", "failed", "broken", "over"}
Functions == {"none", "initialize", "step", "terminate"}
Pointers  == {"null", "live", "dangling"}

Call   == [fn : Functions, w : Wrappers, at : Nat]
PWork  == [block : Pointers, info : Pointers]
NoPWork == [block |-> "null", info |-> "null"]

Idle == call.fn = "none"
Done == Len(Order) + 1

\* The code of block b in model function fn of wrapper w is about to run.
At(fn, w, b) ==
  /\ crashed = {}
  /\ call.fn = fn /\ call.w = w
  /\ call.at < Done
  /\ b = Order[call.at]

GoOn  == call' = [fn |-> call.fn, w |-> call.w, at |-> call.at + 1]
Leave == call' = [fn |-> call.fn, w |-> call.w, at |-> Done]

Live(w, k) == {b \in Blocks : KeyOf[b] = k /\ pwork[w][b].block = "live"}

LiveObjects(k) ==
  Cardinality({p \in Wrappers \X Blocks : p[2] \in Live(p[1], k)}) + lost[k]

Message == [block : Blocks, what : {"ports refused", "failure"}]

\* Nothing takes errors out of the Log.  A status shows the first 1023 characters of
\* getErrors(), so that later messages make no difference and are not kept.
Logged(errors, b, what) ==
  IF Len(errors) < Room THEN Append(errors, [block |-> b, what |-> what]) ELSE errors

NoError(errors) == log' = errors /\ UNCHANGED errorStatus

\* Mutant of NotifyErrors: the messages are collected, the status is not set.
MutantNotifyErrors(w, b, errors) == Leave /\ NoError(Logged(errors, b, "failure"))

\* The generated code of an error of block b: it sets the status and returns from the
\* model function.  A status that is already there is deleted.
NotifyErrors(w, b, errors) ==
  /\ log' = Logged(errors, b, "failure")
  /\ errorStatus' = [errorStatus EXCEPT ![w] = {[by |-> b, text |-> log']}]
  /\ Leave

\* The process ends, in the middle of the code of the block.
Crash ==
  /\ crashed' = {call.w}
  /\ UNCHANGED <<call, state, inits, pwork, factoryMap, lost, log, errorStatus>>

-----------------------------------------------------------------------------
(* The code generated for one block *)

SetPWork(w, b, block, info) ==
  pwork' = [pwork EXCEPT ![w][b] = [block |-> block, info |-> info]]

\* The temporary block of the Start sets its ports, which CoderBlockInformation
\* always refuses; what configureSizeAndPorts returns is ignored.
Configured(b) == IF b \in Ported THEN Logged(log, b, "ports refused") ELSE log

\* The object is stored in PWork only after both initialization methods have
\* returned true.  Whether the factory made the temporary block or the object is not
\* checked: a create() that returned nullptr is followed.
Start(w, b) ==
  LET k == KeyOf[b] IN
  /\ At("initialize", w, b)
  /\ \E loadable \in BOOLEAN :
       \/ /\ ~Found(factoryMap, k, loadable)
          /\ SetPWork(w, b, pwork[w][b].block, "live")
          /\ NotifyErrors(w, b, log)
          /\ UNCHANGED <<state, inits, factoryMap, lost, crashed>>
       \/ /\ Found(factoryMap, k, loadable)
          /\ Crash
       \/ /\ Found(factoryMap, k, loadable)
          /\ UNCHANGED <<state, inits, crashed>>
          /\ factoryMap' = AddRef(WithScopedBlock(GetClassFactory(factoryMap, k, loadable), k), k)
          /\ \/ /\ SetPWork(w, b, "live", "live")
                /\ GoOn
                /\ NoError(Configured(b))
                /\ UNCHANGED lost
             \/ \* initialize() or initializeInitialConditions() returned false
                /\ SetPWork(w, b, pwork[w][b].block, "live")
                /\ NotifyErrors(w, b, Configured(b))
                /\ lost' = [lost EXCEPT ![k] = @ + 1]

Outputs(w, b) ==
  /\ At("step", w, b)
  /\ IF pwork[w][b].block # "live"
     THEN Crash
     ELSE /\ (GoOn /\ NoError(log)) \/ NotifyErrors(w, b, log)
          /\ UNCHANGED <<state, inits, pwork, factoryMap, lost, crashed>>

\* The object goes whatever terminate() returns; PWork keeps both pointers.
Terminate(w, b) ==
  LET k == KeyOf[b] IN
  /\ At("terminate", w, b)
  /\ \E loadable \in BOOLEAN :
       \/ /\ ~Found(factoryMap, k, loadable)
          /\ NotifyErrors(w, b, log)
          /\ UNCHANGED <<state, inits, pwork, factoryMap, lost, crashed>>
       \/ /\ Found(factoryMap, k, loadable)
          /\ IF pwork[w][b].block # "live"
             THEN Crash
             ELSE /\ factoryMap' = ReleaseBlock(GetClassFactory(factoryMap, k, loadable), k)
                  /\ SetPWork(w, b, "dangling", "dangling")
                  /\ (GoOn /\ NoError(log)) \/ NotifyErrors(w, b, log)
                  /\ UNCHANGED <<state, inits, lost, crashed>>

-----------------------------------------------------------------------------
(* The wrapper and its client *)

\* Mutant of MayStep: the return value of initialize() is ignored.
MutantMayStep(w) == state[w] \in {"ready", "failed"}

\* What the client of the example does: no step after a failure, no terminate
\* after a failed initialization, one terminate.
MayStep(w)      == state[w] = "ready"
MayTerminate(w) == state[w] \in {"ready", "broken"}

\* The wrapper itself only checks that it has a model.
HasModel(w) == state[w] # "none"

Enter(fn, w) ==
  /\ Idle
  /\ crashed = {}
  /\ call' = [fn |-> fn, w |-> w, at |-> 1]
  /\ UNCHANGED <<factoryMap, log, crashed>>

\* A model that exists is replaced without being terminated: the objects in its
\* PWork are lost.  The new model starts with no error and empty PWork entries.
Initialize(w) ==
  /\ inits[w] < MaxInits
  /\ Enter("initialize", w)
  /\ inits' = [inits EXCEPT ![w] = @ + 1]
  /\ state' = [state EXCEPT ![w] = "none"]
  /\ pwork' = [pwork EXCEPT ![w] = [b \in Blocks |-> NoPWork]]
  /\ lost' = [k \in Keys |-> lost[k] + Cardinality(Live(w, k))]
  /\ errorStatus' = [errorStatus EXCEPT ![w] = {}]

Step(w) ==
  /\ IF w \in Careless THEN HasModel(w) ELSE MayStep(w)
  /\ Enter("step", w)
  /\ UNCHANGED <<state, inits, pwork, lost, errorStatus>>

TerminateModel(w) ==
  /\ IF w \in Careless THEN HasModel(w) ELSE MayTerminate(w)
  /\ Enter("terminate", w)
  /\ UNCHANGED <<state, inits, pwork, lost, errorStatus>>

\* The wrapper returns modelFailed() to its client.
After(fn, failed) ==
  CASE fn = "initialize" -> IF failed THEN "failed" ELSE "ready"
    [] fn = "step"       -> IF failed THEN "broken" ELSE "ready"
    [] fn = "terminate"  -> "over"

Return(w) ==
  /\ ~Idle /\ crashed = {}
  /\ call.w = w /\ call.at = Done
  /\ state' = [state EXCEPT ![w] = After(call.fn, errorStatus[w] # {})]
  /\ call' = [fn |-> "none", w |-> w, at |-> Done]
  /\ UNCHANGED <<inits, pwork, factoryMap, lost, log, errorStatus, crashed>>

-----------------------------------------------------------------------------
Init ==
  /\ call \in [fn : {"none"}, w : Wrappers, at : {Done}]
  /\ state = [w \in Wrappers |-> "none"]
  /\ inits = [w \in Wrappers |-> 0]
  /\ pwork = [w \in Wrappers |-> [b \in Blocks |-> NoPWork]]
  /\ factoryMap = EmptyMap
  /\ lost = [k \in Keys |-> 0]
  /\ log = <<>>
  /\ errorStatus = [w \in Wrappers |-> {}]
  /\ crashed = {}

Next ==
  \E w \in Wrappers :
    \/ Initialize(w) \/ Step(w) \/ TerminateModel(w) \/ Return(w)
    \/ \E b \in Blocks : Start(w, b) \/ Outputs(w, b) \/ Terminate(w, b)

Spec == Init /\ [][Next]_vars

-----------------------------------------------------------------------------
(* Properties *)

\* Every variable has its type.
TypeOK ==
  /\ call \in Call
  /\ state \in [Wrappers -> States]
  /\ inits \in [Wrappers -> 0..MaxInits]
  /\ pwork \in [Wrappers -> [Blocks -> PWork]]
  /\ factoryMap \in [Keys -> Factory]
  /\ lost \in [Keys -> Nat]
  /\ log \in Seq(Message) /\ Len(log) <= Room
  /\ \A w \in Wrappers : \A status \in errorStatus[w] :
       status.by \in Blocks /\ status.text \in Seq(Message)
  /\ crashed \subseteq Wrappers

\* The factory is loaded exactly while it has objects, and counts them: the tlc
\* file takes and drops the references that mdlStart and mdlTerminate do, also
\* when a method fails half way or a model is replaced.
LoadedIffUsed ==
  \A k \in Keys :
    /\ factoryMap[k].open <=> LiveObjects(k) > 0
    /\ factoryMap[k].open => factoryMap[k].rct = 1 + LiveObjects(k)

\* The protocol of the example's main.cpp is enough for the PWork entries, whatever
\* the other wrappers of the process do: Outputs and Terminate, which check no pointer,
\* never run on a block that Start did not store, nor on one that was destroyed.  It is
\* not enough in initialize(), where Start follows the result of create() unchecked.
NoNullPWork == crashed \subseteq Careless \/ call.fn = "initialize"

\* A wrapper that answered true to initialize() and to every step() since has all
\* its blocks: an error in the Start of any block reached the return value.
ReadyIsComplete ==
  \A w \in Wrappers : state[w] = "ready" /\ (Idle \/ call.w # w) =>
    /\ errorStatus[w] = {}
    /\ \A b \in Blocks : pwork[w][b] = [block |-> "live", info |-> "live"]

\* A wrapper whose model was terminated without any error has destroyed all the
\* objects of the model.
TerminatedIsClean ==
  \A w \in Wrappers : state[w] = "over" /\ errorStatus[w] = {} /\ (Idle \/ call.w # w) =>
    \A b \in Blocks : pwork[w][b].block # "live"

\* The generated code keeps the promise of PluginLifetime, like the S-function.
Lifetime == INSTANCE PluginLifetime WITH
  loaded <- {k \in Keys : factoryMap[k].open},
  users  <- [k \in Keys |-> LiveObjects(k)]

ImplementsLifetime == Lifetime!Spec

-----------------------------------------------------------------------------
(* Statements of the repository that the code does not keep *)

\* BlockFactory.tlc says of NotifyErrors that it forwards errors to the model driver.
\* The status that a failed block leaves holds the message of its failure.
StatusTellsCause ==
  \A w \in Wrappers : \A status \in errorStatus[w] :
    [block |-> status.by, what |-> "failure"] \in {status.text[i] : i \in DOMAIN status.text}

\* Block.h, Block::terminate: "This method is called during the termination of
\* the execution."  A terminated model has no block that was not terminated.
AllBlocksTerminated ==
  \A w \in Wrappers : state[w] = "over" /\ Idle =>
    \A b \in Blocks : pwork[w][b].block # "live"
=============================================================================

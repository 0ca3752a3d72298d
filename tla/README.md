# A TLA+ verification of blockfactory

blockfactory lets one write the block of a dataflow model once, as a C++ class in a plugin
library, and run it inside Simulink (as an S-function) or inside a C++ program that Simulink
Coder generated from the model. This directory holds TLA+ models of its core, the TLC
configurations that check them on small instances and TLAPS proofs about them. All paths
below are relative to the root of the repository.

## 1. The system

| Component | State it keeps | Operations | Talks to |
|---|---|---|---|
| `ClassFactorySingleton` (Core/FactorySingleton) | process-wide map from `{library, class}` to a shared factory; each factory has a reference counter | `getClassFactory` (loads the plugin), `destroyFactory` (unloads it) | the S-function, the generated code, `blockfactory-exists` |
| S-function (Simulink/BlockFactory.cpp) | per block a PWork vector: the `Block` and the `BlockInformation` | `mdlInitializeSizes`, `mdlStart`, `mdlInitializeConditions`, `mdlOutputs`, `mdlUpdate`, `mdlRTW`, `mdlTerminate` | called by the engine; calls the singleton, the block, the Log |
| `Log` | process-wide lists of pending errors and warnings | `getLogStringStream`, `clear*`, `get*` | everybody writes, `catchLogMessages` forwards to Simulink |
| Generated code (matlab/BlockFactory.tlc) | per block two PWork entries; per model an error status; the process-wide Log, never cleared | code of `Start`, `Outputs`, `Terminate`, inlined in `initialize()`, `step()`, `terminate()` | singleton, blocks, Log |
| `GeneratedCodeWrapper` | the model object | `initialize`, `step`, `terminate` | a client such as example/src/main.cpp |
| `Signal` | width, type, format, pointer, perhaps an owned buffer | constructors, `initializeBuffer*`, `set`, `setBuffer` | blocks; points into engine memory |
| `Parameters` | four maps by type, three maps name/type/index | `storeParameter`, getters | blocks, `mdlRTW`, generated `Start` |
| `SimulinkBlockInformation` | metadata not parsed yet; the SimStruct | `addParameterMetadata`, `parseParameters`, `setPortsInfo`, getters of port sizes and signals | blocks inside Simulink |
| `CoderBlockInformation` | parameters from the rtw file, metadata, a map of ports and signals per direction | the same interface, `storeRTWParameters`, `setInputPort`, `setOutputPort` | blocks in a generated program |

**What is hard.** Nothing in blockfactory starts a thread: the concurrency is that of an
engine which interleaves callbacks of many blocks and models over two process-wide
singletons. The difficulties are failures half way (every callback has early returns, and
the engine calls `mdlTerminate` also for blocks that were never started), two counters that
must agree (the owners of a shared pointer and the objects made by a factory), a Log that
mixes the messages of all blocks, generated code whose `return` leaves a function that is
shared by all blocks, pointers into memory that belongs to someone else, parameters that go
through four representations before a generated program reads them, and ports whose sizes come from
the block, from the engine, or partly from both.

**What makes each component correct.** Factory: loaded while it has objects, unloaded with the
last. S-function: no callback uses what was not created, nothing is destroyed by a factory
that did not make it, messages reach the right block. Generated code: the same lifetime, no call
through an empty PWork entry, the return value of the wrapper tells the truth. Signal:
every index below the width is readable, buffers have one owner. Parameters: the maps agree,
and the generated block reads what the Simulink block read. Ports: an answer that is known stays as it is, in
the program it changes only in ways a block can know, and every port leads to its own buffer.

PROJECT.json lists the components, the hazards (each at its line, with the properties that
would catch it) and, under `map`, the source lines of every definition.

## 2. The modules

```
PluginLifetime            abstract: what a plugin may rely on
   ^ refined by
FactoryMap                the factory map, as functions      FactoryMapProofs
   |-- SFunction          engine + callbacks + PWork + Log   SFunctionProofs, SFunctionLifetime
   |-- GeneratedCode      wrappers + model functions + PWork GeneratedCodeProofs
Signal                    a signal, engine memory, heap      SignalProofs
Parameters                a Parameters value, its functions
   |-- ParameterPipeline  mask -> block -> rtw -> program    ParameterProofs
PortContract              abstract: what a block may rely on when it asks about its ports
   ^ refined by
Ports                     block -> SimStruct -> propagation -> program   PortProofs

IntervalInduction         induction, for SignalProofs, ParameterProofs and PortProofs
```
`MC_X` instantiates `X` for TLC. `PluginLifetime` is instantiated by `SFunction` and by
`GeneratedCode` with the refinement mapping `loaded = open factories`, `users = live objects`;
`PortContract` by `Ports` with `seen[p]` = what all the getters of the end that runs answer about port `p`.
Definitions whose name starts with `Mutant` are wrong versions of the definition that follows
them; no specification uses them. They document the bug that each property is there to notice.

**FactoryMap.** A factory is `[open, gen, rct]`: in the map or not, which load of the plugin it
is, and its reference counter (1 for a new one). `ReleaseBlock` is the code that both engines
run after `destroy`: `removeRef`, and `destroyFactory` when the counter is 1. The shared
pointers exist for the duration of one callback, so `use_count() == 1` in `destroyFactory`
is a parameter: after `factory.reset()` the map is the only owner. For the same reason the `use_count() == 2` asserted at
BlockFactory.cpp:406 holds whenever it is reached, and `destroyFactory` succeeds there, so that the branch at 413-418 is not taken.

**SFunction.** One action per callback; a callback runs to its end before another begins.
`phase`, `todo` and `runs` are the engine: it calls every block of a model, in any order, in each
of the phases sizes, start, then conditions and run or (code generation) generate, then terminate, and jumps to
terminate when a block has set an error status (`Abort`). A simulation may also end in any phase without one: the user stops it, a block of
another library fails, or the sizes of the ports do not fit (`Interrupt`). While a model is edited the engine calls
`mdlInitializeSizes` of any block, to draw its ports (`Edited`; create_new_library.md:624). `Outcomes(b)` is what a virtual
method of a block does: returns true or false, logs errors or warnings or not. Only blocks in `Sloppy`
log an error and return true. The plugins on disk (`installed`) change at any time, so that
`open()` may fail at any call. `leaked` counts objects no pointer leads to, and the history variable `unstarted` remembers the blocks that were sized and not started since.
`NDEBUG` is the kind of build: `mdlTerminate` has `assert(factory)` (BlockFactory.cpp:383) before the branch that reports a missing factory
(385-389), so that a debug build ends the process (`dead`) where a release build shows an error. It happens when the plugin disappears from the
disk between an `mdlStart` that created nothing and the `mdlTerminate` that follows.

**GeneratedCode.** `call` is the model function that runs and the block it is at; `return` in a
block's code (`Leave`) skips the blocks behind it. `Start` looks at neither the temporary object nor the result of `create()`
(BlockFactory.tlc:245, 249-253), so that a factory which creates nothing is a call through a null pointer there. `state` is what the client knows.
Clients not in `Careless` follow example/src/main.cpp; those in `Careless` call anything once
there is a model. A call through a null or dangling pointer is undefined; the model
records who made it (`crashed`) and stops. `log` holds the first `Room` errors of the Log, which is as much as a status
can show; the temporary block that every `Start` creates adds one to it when it sets ports (`Ported`).

**Signal.** `mem` is the memory of the engine, `heap` the buffers from `new double[]`. A freed
buffer may be handed out again, so a double free or a use after free shows in `faulted` or in wrong contents: "stale" is a buffer used after its end, "argument" is `setBuffer` with the buffer of the signal itself,
which the code deletes before it copies from it (Signal.cpp:352-361).
`given` remembers what the owner of a signal last put in it. `Careful` bounds the callers: they initialize a
signal once and pass no buffer of a signal to its own `setBuffer`, as all callers in the repository do.

**Parameters / ParameterPipeline.** A `Parameters` value with `StoreParameter`, its conversions and
checks. The pipeline runs the `initialize()` of one block, an arbitrary sequence of
`addParameterMetadata` and `parseParameters` calls over an arbitrary mask, then writes the rtw file, generates the
program and replays the same calls on a `CoderBlockInformation`. Numbers are kept
as twice their value, so that one half exists and the conversion to int or bool loses it; a negative value is
a text that is no number, which `getParameter` throws on when it is asked for as one. A parse that fails keeps what it stored before the error.
The values of the rtw file are pasted unescaped into C++ literals: for a value in `Fragile` (a text with a quote or a backslash, a number that is not
printed exactly) the program may have anything in `Misread` or may not come about (`Generate`).

**Ports.** A port is `<<side, index>>`; `ss` holds what the SimStruct knows of it (dimensions, type, contiguous
or not), `program` the calls in the generated `Start`, `coder` the maps of `CoderBlockInformation`. The functions for inputs
and for outputs of the source are one definition with the side in `p`, apart from the one that differs: an input with one dynamic
dimension is set a second time with its original dimensions (`SetSize`), and the engine may take them or not.
The engine (proposals, allocation, what it refuses) is the environment. A block may declare another layout each time its
model is compiled, since its parameters may have changed. The index of a port is its place in the list; in the code it is a number in `Port::Info`
that may repeat or exceed the number of ports, which a block would have to get wrong.

## 3. What is checked

| Run | Instance | Question |
|---|---|---|
| `sfunction_shared` | release build; 2 models, 3 blocks of one class, 2 simulations each, one sloppy block | interleaving of models on one factory and one Log |
| `sfunction_mixed` | debug build; 1 model, 2 classes, 2 simulations, no sloppy block, fairness | one class failing leaves the other alone; every simulation ends, or the assertion ended the process |
| `generated` | 2 wrappers, 3 blocks, 2 classes, 2 initializations each, one careless client | lifetime and pointers of the generated code |
| `signal_careful` | 2 signals, 3 cells, 2 buffers, length up to 2, all formats, 3 kinds of types | ownership, bounds and contents |
| `parameters` | 5 possible declarations, 5 mask values, one of them misread, 5 calls | round trip to the generated program |
| `ports` | 1 or 2 inputs, 1 output, 7 port descriptions, 5 proposals | sizes and signals from the block to the program |

Properties of `SFunction` (invariants unless noted): `RefCountExact`, the counter is one more than the
live objects on every path; `ObjectsKeepTheirFactory`, an object's factory is the one in the map;
`OnlySloppyErrorsPend` and `ErrorsAttributed`, messages reach the block that logged them except for
those a sloppy block left behind; `RunningBlocksExist`; `TerminatedIsClean`; `UnusedIsUnstarted`, an
unused plugin that is loaded is due to a block that was sized and not started since, in a failed or interrupted simulation or by an edit; `ImplementsLifetime` (refinement);
`EveryRunEnds` (liveness; in a debug build the process may end first, in the assertion and only when the plugin of a block that was never created is gone). `sfunction_shared` checks all but the last; `sfunction_mixed` leaves out `TypeOK` and
`RunningBlocksExist`, which the other run checks.
`GeneratedCode`: `LoadedIffUsed`, `NoNullPWork` (for `step()` and `terminate()`; the null call of `initialize()` is no client's fault), `ReadyIsComplete`, `TerminatedIsClean`, `ImplementsLifetime`.
`Signal`: `BuffersInBounds`, `OwnersAreDistinct`, `OwnedContentIsGiven`, `NothingLeaked`,
`CopiesAreIndependent` (action property).
`ParameterPipeline`: `StoresCoherent`, `ParseOnlyAdds` (action property), `GeneratedAccepts`, `RoundTrip`, stated with
the getters a block has: values as each type, metadata, indices. `GeneratedAccepts` names the one call on which the two ends differ: adding again a parameter that
was parsed, and not parsing it again, succeeds in Simulink (SimulinkBlockInformation.cpp:246, 511) and is refused in the program
(CoderBlockInformation.cpp:219-223). `RoundTrip` compares the values of parameters that have the declared length and a literal (`Expressible`), and the names, metadata and
indices of all of them.
`Ports`: `FixedPortsKept`, what the block fixed survives the propagation of sizes; `SimulationReachesSignals` and
`ProgramReachesSignals`, each port leads to a signal on its own buffer and as long as it, although the generated code looks
at none of the values it gets back; `ImplementsContract` (refinement), no answer of any getter changes once the size is known, except once, when the model becomes a program, and then as
`PortContract` says: the dimensions of a vector are `{w}` in Simulink and `{1, w}` in the program, types become DOUBLE, and what Simulink refuses (the width of a matrix, a vector as
a matrix) gets an answer. The width, the matrix size and the number of elements that Simulink answered stay (`AnswersThatStay`).

**Statements the code does not keep.** Each has a run that ends in a counterexample, and an entry in
PROJECT.json "findings" with the quoted line.

| Run | What happens |
|---|---|
| `sfunction_idle_unload` | a simulation that fails or is stopped before `mdlStart`, or an edit, leaves the plugin loaded with no object |
| `sfunction_forgotten` | a block whose `terminate()` fails is never deleted |
| `generated_cause` | old messages of the process fill the error status, and the message of the failure is cut off |
| `generated_all_terminated` | one failing `Terminate` skips the blocks behind it |
| `signal_noncontiguous` | NONCONTIGUOUS signals are read through the first pointer only, as SignalUnitTest.cpp:83-117 expects |
| `parameters_truncated` | a mask vector longer than declared is whole in Simulink, cut in the program |

### Bounds, and why they are enough

- `MaxRuns = 2` simulations per model: the second finds whatever the first left in the map, in the Log and in
  the PWork vectors; none of the three depends on how many came before.
- Three blocks: two that share a class (the count goes 1, 2, 3, 2, 1) and one that is in another model, or of another
  class. More blocks of a class only raise the count.
- `MaxInits = 2`: the second `initialize()` is the one that drops a model. Two wrappers: one may
  hold objects while the other terminates.
- Two signals, two buffers: every pair of owner and copy; `MaxLen = 2` and three cells give growing, shrinking
  and non-adjacent elements. Signals are interchangeable, so `SYMMETRY` is sound (no liveness is checked there).
- Five calls: `Block::initialize`, then two rounds of add and parse, or two adds and two parses.
  The declarations hold one name with two types, an index shared by two names, a dynamic and a
  fixed vector, a cell, and a two-dimensional field. The mask values have the lengths 1, 2 and 3,
  so that a vector is as long as declared, shorter, or longer; a cell of texts of which one is a number; and a text with a quote in it, which
  the program may read as either of two others. More declarations would only repeat what these are read as.
- `Room = 3` in `generated_cause`: the successful `Start`s of three blocks fill the status, a message each. The 1023 characters of
  the code hold more messages than three, so that there it takes a model with more blocks, a second model or more failures in the process. With
  `Room = 1` in the other runs the Log is a single message, since their properties do not look at it.
- Two inputs and one output: one port is configured, the next fails, and the same index exists on both sides. The descriptions are
  a vector and a matrix, each of fixed and of dynamic size, a matrix with one dynamic dimension, one with three dimensions, and a type that is not double;
  the proposals have a fitting size, another one, and none.
- Runs with `CHECK_DEADLOCK FALSE` (`GeneratedCode`, `ParameterPipeline`, `sfunction_mixed`): the program stops there by itself,
  after the last initialization, the end of the pipeline, or a crash; a debug build of the S-function stops in its assertion.

### Fairness

`FairSpec` adds `WF_vars(Advance(m))` for each model. Simulink keeps executing the phase it is in: it calls
the blocks it has not called and enters the next phase. The choice to begin a simulation, the steps
of a run, the calls during an edit, the interruptions and the changes on disk are not fair. `Stop` is part of `Advance`: a simulation
has a stop time or the user ends it, so the run phase does not last for ever. The callbacks return (a block that
loops for ever is outside the model).

## 4. What is proved

Every safety property that a passing run checks, both refinements of the abstract modules and the action
properties are theorems, for every value of the constants that satisfies the assumption of the module. TLAPS checks the
proofs; TLC evaluates the assumptions, and each `IInv` was model-checked on the instance of its run before it was proved.

| Module | Theorem | Statement |
|---|---|---|
| `SFunctionProofs` | `Inductive`, `TypeCorrect` | `Spec => []IInv`, `Spec => []TypeOK` |
| | `RefCountIsExact` | `Spec => []RefCountExact` |
| | `FactoriesOutliveObjects` | `Spec => []ObjectsKeepTheirFactory` |
| | `LogIsForwarded`, `MessagesAreAttributed` | `Spec => []OnlySloppyErrorsPend`, `Spec => []ErrorsAttributed` |
| | `RunningBlocksAreCreated` | `Spec => []RunningBlocksExist` |
| | `TerminateCleans` | `Spec => []TerminatedIsClean` |
| `SFunctionLifetime` | `ImplementsPluginLifetime` | `Spec => ImplementsLifetime` (refinement) |
| | `UnusedPluginsAreUnstarted` | `Spec => []UnusedIsUnstarted` |
| `GeneratedCodeProofs` | `Inductive`, `TypeCorrect` | `Spec => []IInv`, `Spec => []TypeOK` |
| | `FactoryCountsObjects` | `Spec => []LoadedIffUsed` |
| | `ProtocolIsEnough` | `Spec => []NoNullPWork` |
| | `ReadyHasAllBlocks`, `TerminatedHasNoObject` | `Spec => []ReadyIsComplete`, `Spec => []TerminatedIsClean` |
| | `ImplementsPluginLifetime` | `Spec => ImplementsLifetime` (refinement) |
| `SignalProofs` | `Inductive`, `TypeCorrect` | `Spec => []IInv`, `Spec => []TypeOK` |
| | `AccessesInBounds`, `OwnersDiffer` | `Spec => []BuffersInBounds`, `Spec => []OwnersAreDistinct` |
| | `ContentIsKept`, `NoLeak` | if `Careful`: `Spec => []OwnedContentIsGiven`, `Spec => []NothingLeaked` |
| | `WritesStayApart` | `Spec => CopiesAreIndependent` (action property) |
| `ParameterProofs` | `Inductive`, `TypeCorrect` | `Spec => []IInv`, `Spec => []TypeOK` |
| | `MapsAgree` | `Spec => []StoresCoherent` |
| | `ParsingAdds` | `Spec => ParseOnlyAdds` (action property) |
| | `ProgramAccepts`, `ProgramReadsTheSame` | `Spec => []GeneratedAccepts`, `Spec => []RoundTrip` |
| `PortProofs` | `Inductive`, `TypeCorrect` | `Spec => []IInv`, `Spec => []TypeOK` |
| | `FixedPorts` | `Spec => []FixedPortsKept` |
| | `SimulationSignals`, `ProgramSignals` | `Spec => []SimulationReachesSignals`, `Spec => []ProgramReachesSignals` |
| | `KeepsContract` | `Spec => ImplementsContract` (refinement) |

### The assumptions

- `SFunctionAssumption`: finitely many blocks, each of one model and one class. Nothing else is assumed of models and plugins.
- `GeneratedCodeAssumption`: finitely many wrappers; a model calls each of its blocks once per model function
  (`Order` has no block twice), as the tlc file writes the code of each block once into `Start`, `Outputs` and `Terminate`.
- `SignalAssumption`: the formats and types are those of the enumerations (`INT8` stands for the integer types and BOOLEAN,
  which `set` and the copies refuse alike), 0 is a value, the bounds are naturals. `Careful` is a constant: the theorems that need it say so.
- `ParameterAssumption`: what is declared and what the mask holds is well typed, which in C++ the compiler sees to. A mask may hold
  anything, of any length, for any parameter, and any set of values may be fragile and misread as any others.
- `PortsAssumption`: a dimension is positive or dynamic, since Simulink has no port of width 0; a block may
  declare any number of dimensions, but the engine proposes one or two.

### The arguments

**SFunctionProofs.** None of the properties is inductive as it stands. `RefCountExact` needs to know that a closed factory has no
objects, or loading it again would start the count at 1 with objects around; that needs
`ObjectsKeepTheirFactory`; that in turn needs that `mdlStart` and `Compile` only overwrite empty PWork entries,
which is knowledge about phases: no block of a model has an object in the phases edit and
sizes, nor a block that still waits for its `mdlStart`. The converse, that every block past its
`mdlStart` in a model without an error has both objects, gives `RunningBlocksExist`. `IInv` is the conjunction
of the properties with these facts. The argument follows the code: first the lemmas on the cardinality of
`Holders(k)` when one PWork entry is filled or cleared, then one lemma per callback and one for the steps of the
engine, and in the last theorem a case per action.

**FactoryMapProofs** holds what both engines need of the factory map: what `getClassFactory` returns and leaves alone, and
when `ReleaseBlock` closes a factory.

**SFunctionLifetime.** A step of the S-function changes at most one class, in one of four ways: it loads the plugin, creates,
destroys, or does neither (`LifetimeStep`). There is a lemma for each, and each callback is shown to be one of them; the
exact count of `IInv` is what makes the last `Destroy` the one that unloads. `UnusedIsUnstarted` needs more than `IInv`: a block that holds
a PWork vector without an object, so that its `mdlTerminate` may load the plugin again, is one that was not started (`SizedInv`).

**GeneratedCodeProofs.** The code of the blocks is inlined one behind the other, so that the invariant is about a position:
in `initialize()` the blocks before `call.at` have both objects and the others none, unless the wrapper has an error, and then
the function has been left; likewise for `step()` and `terminate()` (`CallInv`). What a wrapper has while none of its functions runs
depends on what its client knows (`RestInv`). `return` sets the position past the last block, so that the two meet in `Return`. The count of
objects per class runs over wrappers and blocks together, and a factory is shared by wrappers, careless ones included: an
`initialize()` that drops a model turns its objects into lost ones, which the count keeps.

**SignalProofs.** The invariant says of each pointer what it leads to: nothing, a cell of the engine (zero-copy signals only), or a live buffer
as long as the signal (`PtrInv`), and that two signals never have one buffer (`DistinctInv`). These hold for any
callers; content and leaks (`ContentInv`, `LeakInv`) need careful ones: with `Careful = FALSE` in the `.cfg` TLC finds
counterexamples to both. The lemmas
`WithBuffer` and `WithoutBuffer` treat the step of one signal as its neighbours see it, so that each operation is about one signal.

**ParameterProofs.** A `Parameters` object is seven maps, but all that the getters see is one map from names to parameters
(`StoreInv`, `SameGetters`). A store adds one entry to it or does nothing (`StoreAdds`), so that a
sequence of stores under different names adds them all (`StoreAllOfDifferent`). The invariant follows this map: every metadata of a call
is pending or stored as the mask had it (`CallsInv`), the file has exactly the stored parameters (`FileInv`), and the generated program has
those of the file, whatever order they were written in (`CoderInv`). A name that was asked for twice is both stored and pending, so
that the next parse fails; this is why the program, which forgets no metadata, refuses only what Simulink has pending at its end. Of a value that has no literal nothing is known but
its name, metadata and number of elements, which is all that the calls of the program look at.

**PortProofs.** The first part is about sizes: a known size has at least one element, and the three ways in which the code
multiplies dimensions agree (`KnownSize`), also on the matrix that is written into the program. The second follows the ports: when `setPortsInfo` succeeds
every port has the type that was declared and its size if that is fixed (`PortsAreSet`); proposals only replace sizes that are not known; after the
propagation none is dynamic, so that `storePortInfo` finds no reason to refuse a call, and each port is stored (`ProgramStores`),
since no two calls are for the same one (`OrderOfPorts`). The refinement then needs one fact about both ends: what a block is told is what the
contract says of the size in the SimStruct, or nothing (`ToldInv`). `DeployingStep` is the step from the one end to the other; `AnswersThatStay` says which
answers a block may use at both.

**IntervalInduction.** Loops over parameters and ports are recursive functions in the models. The induction theorems of
the library take the induction hypothesis as an operator, which the provers cannot instantiate; here it is a set of naturals (`UpTo`), from the
fact that every set of naturals has a least element. The lemmas `StoreRun`, `ParseRun`, `ProductRun` and `SetRun` say that such a function
exists and unfold it.

## 5. Only model-checked

- Liveness (`EveryRunEnds`): the fairness of the engine is stated with `WF`, and TLAPS does not reason about `ENABLED`.
- The counterexamples of the runs that expect a violation: they are statements about one instance.
- The assumptions are evaluated on the constants of the instances only; that they hold of any real model is argued above.

## 6. Not modelled

The texts of messages and the buffers they are put in; the values of signals of a type other than double in a generated program (Port.h:57 says
that only DOUBLE is fully implemented, and the tlc file writes nothing else); a dimension that the block
fixed on a partly dynamic port, which the code forgets; `extendPluginSearchPath`; the callbacks that keep no state
(`mdlInitializeSampleTimes`, `mdlSetWorkWidths`); the conversions of mxpp that nothing calls; the build system, the example blocks,
the headers of Simulink Coder that lie beside the example (multiword_types.h and its like declare types), the tool and the tests. Memory that is freed
with `delete` instead of `delete[]` (BlockFactory.tlc:26, Signal.cpp:353) is taken as freed. Whether Simulink copies
the text of an error status, which lies on the stack of `catchLogMessages`, is not in the repository.

A block that goes on after a parse that failed (all its later parses fail, since what is pending stays pending); names of parameters that are not identifiers, which are pasted
unescaped as the values are; a literal that changes the number of elements; the index of a port as a number of its own (section 2); what
callers of `Signal` do beyond `Careful` in the run (the theorems cover them, with what they then say). Signal.h:231-233 says that `setBuffer` only changes the
pointer of a CONTIGUOUS_ZEROCOPY signal; the code overwrites the memory of the engine (Signal.cpp:363-372), and so does the model.

## 7. Plan

1. *(done)* `PluginLifetime`, `FactoryMap`, `SFunction` with its proofs; `GeneratedCode`; `Signal`; `Parameters` and
   `ParameterPipeline`.
2. *(done)* `PortContract` and `Ports`: `setPortsInfo` and the getters of both implementations of `BlockInformation`, with the
   propagation of sizes and the code generation between them; the Log of a generated program in `GeneratedCode`; the
   getters of `Parameters` and the conversions they make.
3. *(done)* Proofs of the safety properties, the action properties and the refinements of all components (section 4).
4. More theorems where the properties stop: that a store which was refused leaves every getter as it was, that the S-function without sloppy
   blocks ends every callback with an empty Log, and that careful clients only ever read the message of their own failure while the Log has room.

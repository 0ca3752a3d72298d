----------------------------- MODULE FactoryMap -----------------------------
(***************************************************************************)
(* The value kept by ClassFactorySingleton: one SharedLibraryClassFactory  *)
(* per registered class, indexed by the pair {library, class}.  The        *)
(* operations of the singleton and the ones the callers make on the        *)
(* factory they get are functions from a map to the next map, so that a    *)
(* caller that performs several of them in one callback can chain them.    *)
(***************************************************************************)
EXTENDS Naturals

CONSTANT Keys         \* the {library, class} pairs known to the process

(***************************************************************************)
(* `open' tells whether the map holds a factory for the key (the plugin is *)
(* loaded), `gen' which one it is: the map may load the same plugin again, *)
(* which makes another factory object.  `rct' is the reference count of    *)
(* that factory.                                                           *)
(***************************************************************************)
Factory == [open : BOOLEAN, gen : Nat, rct : Nat]

EmptyMap == [k \in Keys |-> [open |-> FALSE, gen |-> 0, rct |-> 0]]

\* A factory that the map does not hold; it remembers how often it was loaded.
Closed(f) == [open |-> FALSE, gen |-> f.gen, rct |-> 0]

\* The counter of a new SharedLibraryClassFactory starts at 1.
Opened(f) == [open |-> TRUE, gen |-> f.gen + 1, rct |-> 1]

\* getClassFactory returns a non-null pointer; `loadable' says whether
\* open() would find the library and the class.
Found(fm, k, loadable) == fm[k].open \/ loadable

\* Lazy initialisation: an absent factory is opened and stored, and a failed
\* open stores nothing.
GetClassFactory(fm, k, loadable) ==
  IF ~fm[k].open /\ loadable THEN [fm EXCEPT ![k] = Opened(@)] ELSE fm

Counted(f, n) == [open |-> f.open, gen |-> f.gen, rct |-> n]

AddRef(fm, k)    == [fm EXCEPT ![k] = Counted(@, @.rct + 1)]
RemoveRef(fm, k) == [fm EXCEPT ![k] = Counted(@, @.rct - 1)]

\* destroyFactory looks at the owners of the shared pointer (the map is one of
\* them) and at nothing else.
Destroyable(fm, k, useCount) == fm[k].open /\ useCount = 1

DestroyFactory(fm, k, useCount) ==
  IF Destroyable(fm, k, useCount)
  THEN [fm EXCEPT ![k] = Closed(@)] ELSE fm

\* Mutants of WithScopedBlock: the reference is only taken, or only given back.
MutantScopeKeepsRef(fm, k) == AddRef(fm, k)
MutantScopeDropsRef(fm, k) == RemoveRef(fm, k)

\* SharedLibraryClass: takes a reference when it creates its object, and gives
\* it back when the scope that holds it ends.
WithScopedBlock(fm, k) == RemoveRef(AddRef(fm, k), k)

\* Mutants of ReleaseBlock: the factory goes with any of its objects; the counter
\* is thought to start at 0.
MutantReleaseAll(fm, k) == DestroyFactory(RemoveRef(fm, k), k, 1)
MutantReleaseAtZero(fm, k) ==
  LET after == RemoveRef(fm, k) IN
  IF after[k].rct = 0 THEN DestroyFactory(after, k, 1) ELSE after

\* The end of an object in both engines: its reference is dropped, and the last
\* reference takes the factory with it.  Only the map and the local shared pointer
\* of the caller own the factory, as the assert(use_count() == 2) of mdlTerminate
\* asks; the local one is reset before destroyFactory, which then cannot fail.
ReleaseBlock(fm, k) ==
  LET after == RemoveRef(fm, k) IN
  IF after[k].rct = 1 THEN DestroyFactory(after, k, 1) ELSE after
=============================================================================

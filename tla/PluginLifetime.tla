--------------------------- MODULE PluginLifetime ---------------------------
(***************************************************************************)
(* What the plugin machinery promises to the code of a plugin, without any *)
(* factory, reference counter, PWork vector or engine: a plugin may be     *)
(* loaded at any time, an object can only be made from a loaded plugin,    *)
(* and the plugin goes away together with the last object made from it.    *)
(***************************************************************************)
EXTENDS Naturals

CONSTANT Keys

VARIABLES
  loaded,     \* the plugins whose code is in the process
  users       \* users[k]: the objects of plugin k that have not been destroyed

vars == <<loaded, users>>

Init ==
  /\ loaded = {}
  /\ users = [k \in Keys |-> 0]

Load(k) ==
  /\ loaded' = loaded \cup {k}
  /\ UNCHANGED users

Create(k) ==
  /\ loaded' = loaded \cup {k}
  /\ users' = [users EXCEPT ![k] = @ + 1]

Destroy(k) ==
  /\ users[k] > 0
  /\ users' = [users EXCEPT ![k] = @ - 1]
  /\ loaded' = IF users[k] = 1 THEN loaded \ {k} ELSE loaded

Next == \E k \in Keys : Load(k) \/ Create(k) \/ Destroy(k)

Spec == Init /\ [][Next]_vars

\* An object never outlives the code of its class (the promise of
\* ClassFactorySingleton, FactorySingleton.h).
UsedIsLoaded == \A k \in Keys : users[k] > 0 => k \in loaded
=============================================================================

---------------------------- MODULE PortContract ----------------------------
(***************************************************************************)
(* What a block may rely on when it asks about its ports.  While a model   *)
(* is open in Simulink a port is unknown or known, and once it is known    *)
(* every answer stays as it is.  When the model becomes a program, some    *)
(* answers change, once and in a known way: every port is a matrix of      *)
(* doubles there, and a vector is a matrix with one row.                   *)
(***************************************************************************)
EXTENDS Integers, Sequences

CONSTANTS
  Ports,
  Infos,   \* [dims, type] of a port: the dimensions of a vector or of a matrix
  Nothing  \* the answer about an unknown port, and of a query that is refused

VARIABLES
  place,  \* where the block runs
  seen    \* seen[p]: the answers to all queries about port p

vars == <<place, seen>>

Elements(dims) == IF Len(dims) = 1 THEN dims[1] ELSE dims[1] * dims[2]

\* Simulink knows the width of a vector and the size of a matrix.
InSimulink(info) ==
  [dims     |-> info.dims,
   type     |-> info.type,
   width    |-> IF Len(info.dims) = 1 THEN info.dims[1] ELSE Nothing,
   matrix   |-> IF Len(info.dims) = 2 THEN info.dims ELSE Nothing,
   elements |-> Elements(info.dims)]

AsMatrix(dims) == IF Len(dims) = 1 THEN <<1, dims[1]>> ELSE dims

\* In the program no query is refused, and the width of a matrix is that of its rows.
InProgram(dims) ==
  [dims     |-> AsMatrix(dims),
   type     |-> "DOUBLE",
   width    |-> AsMatrix(dims)[2],
   matrix   |-> AsMatrix(dims),
   elements |-> Elements(dims)]

-----------------------------------------------------------------------------
Closed == place = "closed" /\ seen = [p \in Ports |-> Nothing]

Init == Closed

\* The sizes that the block fixes are known at once.
Open ==
  /\ place = "closed" /\ place' = "simulink"
  /\ seen' \in [Ports -> {InSimulink(info) : info \in Infos} \cup {Nothing}]

Learn(p) ==
  /\ place = "simulink" /\ UNCHANGED place
  /\ seen[p] = Nothing
  /\ \E info \in Infos : seen' = [seen EXCEPT ![p] = InSimulink(info)]

Deploy ==
  /\ place = "simulink" /\ place' = "program"
  /\ seen' = [p \in Ports |-> IF seen[p] = Nothing THEN Nothing ELSE InProgram(seen[p].dims)]

Close == place # "closed" /\ Closed'

Next == Open \/ Deploy \/ Close \/ \E p \in Ports : Learn(p)

Spec == Init /\ [][Next]_vars
=============================================================================

------------------------------ MODULE MC_Ports ------------------------------
(***************************************************************************)
(* A small instance of Ports for TLC.                                      *)
(***************************************************************************)
EXTENDS Ports

Dims == {<<-1>>, <<2>>, <<-1, -1>>, <<2, -1>>, <<2, 3>>, <<2, 2, 2>>}

Infos == [dims : Dims, type : {"DOUBLE"}] \cup {[dims |-> <<2>>, type |-> "SINGLE"]}

\* Two inputs and an output, or one of each: the number of ports changes when the
\* parameters of the block do.
SmallLayouts ==
  {[in |-> <<a, b>>, out |-> <<c>>] : a, b, c \in Infos}
    \cup {[in |-> <<a>>, out |-> <<c>>] : a, c \in Infos}

SmallProposals == {<<-1>>, <<1>>, <<3>>, <<2, 3>>, <<3, 2>>}
=============================================================================

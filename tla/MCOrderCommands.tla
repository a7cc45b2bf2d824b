-------------------------- MODULE MCOrderCommands --------------------------
(* Model values and symmetry for the runs of OrderCommands. *)
EXTENDS OrderCommands

Interchangeable == Permutations(Orders) \cup Permutations(Actors)
=============================================================================

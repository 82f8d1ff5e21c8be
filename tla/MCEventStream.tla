--------------------------- MODULE MCEventStream ---------------------------
(* EventStream for TLC.  The tabs are interchangeable.                     *)
EXTENDS EventStream, TLC

Symmetry == Permutations(Clients)
=============================================================================

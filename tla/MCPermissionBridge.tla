------------------------- MODULE MCPermissionBridge -------------------------
(* PermissionBridge for TLC.  Requests are interchangeable, and so are     *)
(* tabs.                                                                   *)
EXTENDS PermissionBridge, TLC

Symmetry == Permutations(Requests) \cup Permutations(Tabs)
=============================================================================

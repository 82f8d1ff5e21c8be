-------------------------- MODULE MCSessionManager --------------------------
(* SessionManager for TLC.  Connections are interchangeable, and so are    *)
(* sessions.                                                               *)
EXTENDS SessionManager, TLC

Symmetry == Permutations(Conns) \cup Permutations(Sessions)
=============================================================================

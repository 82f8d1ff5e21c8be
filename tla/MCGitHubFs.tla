----------------------------- MODULE MCGitHubFs -----------------------------
(* GitHubFs for TLC: file a is in directory d, file r, where there is one, *)
(* belongs to the runtime.  Flush calls, and chunks, are all alike.        *)
EXTENDS GitHubFs, TLC

CONSTANTS a, r, d

InDirectory == [f \in {a, r} |-> IF f = a THEN d ELSE None]
JustTheFile == [f \in {a} |-> d]

Symmetry == Permutations(Flushes) \cup Permutations(Chunks)
=============================================================================

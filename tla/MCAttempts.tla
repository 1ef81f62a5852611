----------------------------- MODULE MCAttempts -----------------------------
(* Instances of Attempts for TLC.                                           *)
EXTENDS Attempts, TLC

CONSTANTS m1, m2, e1, e2, r1, r2

\* Every eligible upstream is tried.
NoBudget == -1

Symmetric == Permutations(Mesh) \cup Permutations(Externals) \cup Permutations(Requests)
==============================================================================

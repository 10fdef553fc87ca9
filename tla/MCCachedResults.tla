-------------------------- MODULE MCCachedResults --------------------------
(***************************************************************************)
(* CachedResults for TLC: listings of two out of three things, three        *)
(* replicas and majorities of them.                                         *)
(***************************************************************************)
EXTENDS CachedResults, TLC

Majorities == {Q \in SUBSET Replicas : Cardinality(Q) = 2}

\* Callers are alike, and so are replicas and things.
Alike == Permutations(Callers) \cup Permutations(Replicas) \cup Permutations(Things)
=============================================================================

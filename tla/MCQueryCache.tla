---------------------------- MODULE MCQueryCache ----------------------------
(* QueryCache for TLC: the liked and the disliked links of a user. *)
EXTENDS QueryCache, TLC

CONSTANTS liked, disliked

Likes == {{liked}, {disliked}, {}}

\* Processes are alike, and so are the two listings.
Alike == Permutations(Procs) \cup Permutations({liked, disliked})
=============================================================================

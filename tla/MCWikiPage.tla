----------------------------- MODULE MCWikiPage -----------------------------
(* Two processes and a page of two lines, each blank or one of two words. *)
EXTENDS WikiPage, TLC

Alike == Permutations(Procs) \cup Permutations(Lines) \cup Permutations(Words \ {Blank})
=============================================================================

---------------------------- MODULE MCVoteCount ----------------------------
(***************************************************************************)
(* VoteCount for TLC: the author and another voter change their votes while *)
(* two consumers, which are alike, handle them.                             *)
(***************************************************************************)
EXTENDS VoteCount, TLC

AlikeConsumers == Permutations(Consumers)

\* After the second mishap one vote is handled at a time, and after a slip too,
\* for which nothing is promised, without another mishap.
Explored ==
    /\ slip => mishaps < MaxMishaps
    /\ slip \/ mishaps = MaxMishaps =>
           Cardinality({c \in Consumers : at[c] # "idle"}) <= 1
=============================================================================

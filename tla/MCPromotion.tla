---------------------------- MODULE MCPromotion -----------------------------
(* Two processes and a link with two campaigns. *)
EXTENDS Promotion, TLC

Alike == Permutations(Workers) \cup Permutations(Campaigns)
=============================================================================

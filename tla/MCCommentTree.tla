--------------------------- MODULE MCCommentTree ---------------------------
(***************************************************************************)
(* Small instances of CommentTree.                                          *)
(***************************************************************************)
EXTENDS CommentTree, TLC

\* A top-level comment, a reply to it and, if there is a third, another top-level one.
ReplyTo == [c \in Comments |-> IF c = 2 THEN 1 ELSE Top]

\* The processes of version 1 take turns; those of version 3 do not.
Posts == [v \in Versions |-> IF v = 1 THEN 2 ELSE 3]

NoOverrun == ~overrun

Alike == Permutations(Consumers)
=============================================================================

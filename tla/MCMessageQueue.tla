-------------------------- MODULE MCMessageQueue --------------------------
(***************************************************************************)
(* MessageQueue for TLC: application servers add votes, a consumer handles  *)
(* each vote and adds a search change (vote.py:236), and a batcher uploads  *)
(* the search changes two at a time.  The deduper works on the votes.       *)
(***************************************************************************)
EXTENDS MessageQueue, SequencesExt

CONSTANTS vote, change, web, voter, uploader, deduper, votes, changes

TheQueue == (vote :> votes) @@ (change :> changes)
TheReaders == (voter :> votes) @@ (uploader :> changes) @@ (deduper :> votes)
TheOutput == (vote :> <<change>>) @@ (change :> <<>>)
OfBatches == [s \in Batches |-> FlattenSeq([i \in DOMAIN s |-> Out[s[i]]])]
=============================================================================

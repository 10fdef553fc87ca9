---------------------------- MODULE MCThingStore ----------------------------
(***************************************************************************)
(* One base counter, one data counter and one settable data property, two  *)
(* threads and two increments.  MCThingStore.cfg explores everything until  *)
(* the first slip (slips and overrun never go away, and all properties but  *)
(* OthersAreKept speak of the time before them), and then what Explored     *)
(* allows; MCThingStoreSync.cfg needs neither slip nor fault.               *)
(***************************************************************************)
EXTENDS ThingStore, TLC

UpDown == {1, -1}

Symmetry == Permutations(Procs)

\* What is explored beyond the first slip, where an object was written into
\* the cache too late: the thing stays cached, threads are inside _commit or
\* _incr one at a time, and nothing is assigned with the second increment.
Clean(p) ==
    /\ want[p] = AllClean
    /\ self[p] # NoThing => ~Dirty(self[p]) \/ op[p] # NoOp
Explored ==
    \/ NoSlip
    \/ /\ ~overrun /\ slips = {"late fill"} /\ cache # NoThing
       /\ \A p, q \in Procs : pc[p] # "idle" /\ pc[q] # "idle" => p = q
       /\ spent <= 1 \/ \A p \in Procs : Clean(p)
=============================================================================

---------------------------- MODULE AdvisoryLock ----------------------------
(***************************************************************************)
(* What r2/lib/lock.py promises its callers, without clocks, retries or    *)
(* nesting: a key is busy from the moment somebody obtains it, and it       *)
(* stops being busy when a holder lets go of it or when it lapses.  A       *)
(* holder that dies leaves the key busy behind it.  A key may lapse under a *)
(* live holder: from then on the lock is only advisory.                     *)
(***************************************************************************)

CONSTANTS
    Procs,      \* threads that take locks
    Keys        \* lock names

VARIABLES
    held,       \* held[p]: the keys thread p believes it owns
    busy,       \* the keys nobody can obtain at present
    overrun     \* history: a key has lapsed while a thread held it

lockVars == <<held, busy, overrun>>

LockInit ==
    /\ held = [p \in Procs |-> {}]
    /\ busy = {}
    /\ overrun = FALSE

\* A free key is obtained.
Obtain(p, k) ==
    /\ k \notin busy
    /\ k \notin held[p]
    /\ held' = [held EXCEPT ![p] = @ \cup {k}]
    /\ busy' = busy \cup {k}
    /\ UNCHANGED overrun

\* A holder lets go; the key becomes free whoever made it busy.
LetGo(p, k) ==
    /\ k \in held[p]
    /\ held' = [held EXCEPT ![p] = @ \ {k}]
    /\ busy' = busy \ {k}
    /\ UNCHANGED overrun

\* A thread dies with the keys it holds, which stay busy.
Abandon(p) ==
    /\ held' = [held EXCEPT ![p] = {}]
    /\ UNCHANGED <<busy, overrun>>

\* A busy key becomes free on its own.
Lapse(k) ==
    /\ k \in busy
    /\ busy' = busy \ {k}
    /\ overrun' = (overrun \/ \E p \in Procs : k \in held[p])
    /\ UNCHANGED held

LockNext ==
    \/ \E p \in Procs, k \in Keys : Obtain(p, k) \/ LetGo(p, k)
    \/ \E p \in Procs : Abandon(p)
    \/ \E k \in Keys : Lapse(k)

LockSpec == LockInit /\ [][LockNext]_lockVars

\* Until a key lapses under its holder, no two threads hold the same key.
NoTwoHolders ==
    ~overrun => \A p, q \in Procs : held[p] \cap held[q] # {} => p = q
=============================================================================

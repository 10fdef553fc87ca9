---------------------------- MODULE MemcacheLock ----------------------------
(***************************************************************************)
(* The global lock of r2/lib/lock.py: MemcacheLock objects used in nested   *)
(* `with' blocks by the threads of many processes, over the `add' command   *)
(* of a memcached that forgets an entry LockTime seconds after it was       *)
(* added.  A thread remembers the keys it owns in a thread-local set, so a  *)
(* nested block on a key it already owns is entered at once.                *)
(*                                                                         *)
(* frame[p][1..depth[p]] are the blocks thread p is inside of, outermost    *)
(* first; trying[p] is the acquire() it is looping in, if any.              *)
(***************************************************************************)
EXTENDS Integers

CONSTANTS
    Procs,      \* threads
    NoProc,     \* nobody
    Keys,       \* lock names
    NoKey,      \* no lock name
    LockTime,   \* seconds before memcached forgets an entry (time=30)
    Timeouts,   \* the finite timeouts callers pass (timeout=30, 5, 180)
    Patience,   \* a bound on the finite timeouts
    AllowNone,  \* some caller passes timeout=None
    MaxDepth    \* bound: how deep the blocks of one thread nest

ASSUME LockConstants ==
    /\ NoProc \notin Procs
    /\ NoKey \notin Keys
    /\ LockTime \in Nat \ {0}
    /\ Patience \in Nat
    /\ Timeouts \subseteq 0..Patience
    /\ AllowNone \in BOOLEAN
    /\ MaxDepth \in Nat \ {0}

None   == -1                        \* Python's None given as a timeout

Depths   == 1..MaxDepth
Frame    == [key : Keys \cup {NoKey}, have : BOOLEAN]
Attempt  == [key : Keys \cup {NoKey}, waited : 0..(Patience + 1),
             timeout : (0..Patience) \cup {None}]
NoFrame  == [key |-> NoKey, have |-> FALSE]
NotTrying == [key |-> NoKey, waited |-> 0, timeout |-> 0]

VARIABLES
    entry,      \* entry[k]: who added key k to memcached, or NoProc
    age,        \* age[k]: seconds since entry[k] was added
    locks,      \* locks[p]: the thread-local set of keys p owns
    depth,      \* depth[p]: the number of blocks p is inside of
    frame,      \* frame[p][d]: the MemcacheLock object of p's d-th block
    trying,     \* trying[p]: the acquire() p is looping in
    orphans,    \* history: keys whose entry was left by a thread that died
    overrun     \* history: an entry has gone while a thread owned its key

vars == <<entry, age, locks, depth, frame, trying, orphans, overrun>>

Init ==
    /\ entry = [k \in Keys |-> NoProc]
    /\ age = [k \in Keys |-> 0]
    /\ locks = [p \in Procs |-> {}]
    /\ depth = [p \in Procs |-> 0]
    /\ frame = [p \in Procs |-> [d \in Depths |-> NoFrame]]
    /\ trying = [p \in Procs |-> NotTrying]
    /\ orphans = {}
    /\ overrun = FALSE

Running(p) == trying[p].key = NoKey

PushFrame(p, k, have) ==
    /\ depth' = [depth EXCEPT ![p] = @ + 1]
    /\ frame' = [frame EXCEPT ![p][depth[p] + 1] = [key |-> k, have |-> have]]

-----------------------------------------------------------------------------
\* acquire() of a key this thread owns already: move on at once, and leave
\* have_lock unset so that this block's release() does nothing.
EnterOwned(p, k) ==
    /\ Running(p)
    /\ depth[p] < MaxDepth
    /\ k \in locks[p]
    /\ PushFrame(p, k, FALSE)
    /\ UNCHANGED <<entry, age, locks, trying, orphans, overrun>>

\* acquire() of any other key: start the clock and begin polling.
StartTrying(p, k, t) ==
    /\ Running(p)
    /\ depth[p] < MaxDepth
    /\ k \notin locks[p]
    /\ trying' = [trying EXCEPT ![p] = [key |-> k, waited |-> 0, timeout |-> t]]
    /\ UNCHANGED <<entry, age, locks, depth, frame, orphans, overrun>>

\* Mutant: `set' instead of `add'.
MutCanSet(k) == TRUE

\* memcached's add: it stores the value only where there is none.
CanAdd(k) == entry[k] = NoProc

Store(p, k) ==
    /\ entry' = [entry EXCEPT ![k] = p]
    /\ age' = [age EXCEPT ![k] = 0]

\* `add' succeeds: the key is ours.
Acquire(p) ==
    LET k == trying[p].key IN
    /\ ~Running(p)
    /\ CanAdd(k)
    /\ Store(p, k)
    /\ locks' = [locks EXCEPT ![p] = @ \cup {k}]
    /\ PushFrame(p, k, TRUE)
    /\ trying' = [trying EXCEPT ![p] = NotTrying]
    /\ orphans' = orphans \ {k}
    /\ UNCHANGED overrun

\* Mutants: `>=' for `>'; no timeout at all.
MutOutAtTime(a) == a.waited >= a.timeout
MutNeverOut(a) == FALSE

\* `seconds > self.timeout'.  In Python 2 every integer is greater than None.
OutOfTime(a) == a.timeout = None \/ a.waited > a.timeout

\* `add' fails and the time is up: TimeoutExpired, the block is not entered.
GiveUp(p) ==
    /\ ~Running(p)
    /\ ~CanAdd(trying[p].key)
    /\ OutOfTime(trying[p])
    /\ trying' = [trying EXCEPT ![p] = NotTrying]
    /\ UNCHANGED <<entry, age, locks, depth, frame, orphans, overrun>>

\* Mutants: have_lock is not looked at; the entry is left to expire.
MutDropAny(p, f) ==
    /\ entry' = [entry EXCEPT ![f.key] = NoProc]
    /\ age' = [age EXCEPT ![f.key] = 0]
    /\ locks' = [locks EXCEPT ![p] = @ \ {f.key}]
    /\ orphans' = orphans \ {f.key}
MutDropLocal(p, f) ==
    /\ locks' = [locks EXCEPT ![p] = IF f.have THEN @ \ {f.key} ELSE @]
    /\ UNCHANGED <<entry, age, orphans>>

\* release() of a block: only the object that gained the lock deletes the
\* memcached entry, without looking whose it is.
Drop(p, f) ==
    IF f.have
    THEN /\ entry' = [entry EXCEPT ![f.key] = NoProc]
         /\ age' = [age EXCEPT ![f.key] = 0]
         /\ locks' = [locks EXCEPT ![p] = @ \ {f.key}]
         /\ orphans' = orphans \ {f.key}
    ELSE UNCHANGED <<entry, age, locks, orphans>>

\* The innermost block is left, by its end or by an exception.
Release(p) ==
    /\ Running(p)
    /\ depth[p] > 0
    /\ depth' = [depth EXCEPT ![p] = @ - 1]
    /\ frame' = [frame EXCEPT ![p][depth[p]] = NoFrame]
    /\ Drop(p, frame[p][depth[p]])
    /\ UNCHANGED <<trying, overrun>>

-----------------------------------------------------------------------------
\* The process of thread p dies; what it added to memcached stays there.
Crash(p) ==
    /\ depth[p] > 0 \/ ~Running(p)
    /\ locks' = [locks EXCEPT ![p] = {}]
    /\ depth' = [depth EXCEPT ![p] = 0]
    /\ frame' = [frame EXCEPT ![p] = [d \in Depths |-> NoFrame]]
    /\ trying' = [trying EXCEPT ![p] = NotTrying]
    /\ orphans' = orphans \cup {k \in Keys : entry[k] = p}
    /\ UNCHANGED <<entry, age, overrun>>

\* memcached forgets an entry: its time has come, or it is evicted or lost in
\* a restart before that.  Its owner, if it still has one, is not told.
Expire(k) ==
    /\ entry[k] # NoProc
    /\ entry' = [entry EXCEPT ![k] = NoProc]
    /\ age' = [age EXCEPT ![k] = 0]
    /\ orphans' = orphans \ {k}
    /\ overrun' = (overrun \/ \E p \in Procs : k \in locks[p])
    /\ UNCHANGED <<locks, depth, frame, trying>>

Due(k) == entry[k] # NoProc /\ age[k] >= LockTime

\* One second passes.  memcached keeps no entry beyond its time.
Tick ==
    /\ \A k \in Keys : ~Due(k)
    /\ age' = [k \in Keys |-> IF entry[k] # NoProc /\ age[k] < LockTime
                             THEN age[k] + 1 ELSE age[k]]
    /\ trying' = [p \in Procs |->
           IF ~Running(p) /\ trying[p].waited <= Patience
           THEN [trying[p] EXCEPT !.waited = @ + 1] ELSE trying[p]]
    /\ UNCHANGED <<entry, locks, depth, frame, orphans, overrun>>

TimeoutArgs == Timeouts \cup (IF AllowNone THEN {None} ELSE {})

Step(p) ==
    \/ \E k \in Keys : EnterOwned(p, k)
    \/ \E k \in Keys, t \in TimeoutArgs : StartTrying(p, k, t)
    \/ Acquire(p)
    \/ GiveUp(p)
    \/ Release(p)
    \/ Crash(p)

Next ==
    \/ \E p \in Procs : Step(p)
    \/ \E k \in Keys : Expire(k)
    \/ Tick

Spec == Init /\ [][Next]_vars

\* A looping acquire() keeps polling, time passes, memcached expires what is
\* due.  Nobody is obliged to enter or to leave a block.
FairSpec ==
    /\ Spec
    /\ \A p \in Procs : WF_vars(Acquire(p) \/ GiveUp(p))
    /\ \A k \in Keys : WF_vars(Due(k) /\ Expire(k))
    /\ WF_vars(Tick)

-----------------------------------------------------------------------------
TypeOK ==
    /\ entry \in [Keys -> Procs \cup {NoProc}]
    /\ age \in [Keys -> 0..LockTime]
    /\ locks \in [Procs -> SUBSET Keys]
    /\ depth \in [Procs -> 0..MaxDepth]
    /\ frame \in [Procs -> [Depths -> Frame]]
    /\ trying \in [Procs -> Attempt]
    /\ orphans \in SUBSET Keys
    /\ overrun \in BOOLEAN

\* The promise of the class: unless an entry has gone under a live owner (who
\* stayed longer than the expiry time, or memcached lost it), two threads never
\* own a key at the same time, however their blocks nest, time out and crash
\* (lock.py:41-43).
MutualExclusion ==
    ~overrun => \A p, q \in Procs : locks[p] \cap locks[q] # {} => p = q

\* Each of the owned keys is owned through the outermost of the n blocks f on
\* that key, and every block is on an owned key.
ThroughOutermost(owned, n, f) ==
    /\ \A k \in owned : \E d \in 1..n : f[d].key = k /\ f[d].have
    /\ \A d \in 1..n : f[d].key \in owned
    /\ \A d \in 1..n : \A e \in 1..(d - 1) : f[e].key = f[d].key => ~f[d].have

\* Reentrancy: a key is owned through exactly one object, that of the
\* outermost block on that key, so an inner exit frees nothing and
\* locks.remove() never meets a key that is gone (lock.py:70-72, 102-106).
OutermostOwns ==
    \A p \in Procs : ThroughOutermost(locks[p], depth[p], frame[p])

\* Every entry in memcached is accounted for: its owner will delete it, or
\* the owner died.  Nothing else leaves a key locked until it expires.
NoLeak ==
    \A k \in Keys : entry[k] \in Procs =>
        k \in locks[entry[k]] \/ k \in orphans

\* With timeout >= time, as the defaults have it (30 and 30), a waiter never
\* fails because of one slow or dead holder: when it gives up, the entry that
\* stops it was added after it began to wait (lock.py:45-46, 78-79).
TimeoutOnlyAfterHandover ==
    [][\A p \in Procs :
          GiveUp(p) /\ trying[p].timeout >= LockTime
          => age[trying[p].key] < trying[p].waited]_vars

\* Every acquire() returns or raises, though blocks nest in opposite orders,
\* holders never leave and keys are snatched by others (lock.py:78-93).
WaiterResolves ==
    \A p \in Procs : trying[p].key # NoKey ~> trying[p].key = NoKey

\* The lock as its callers see it.
Advisory == INSTANCE AdvisoryLock WITH
    held <- locks, busy <- {k \in Keys : entry[k] # NoProc}

\* Frames, clocks and retries implement the abstract lock.
ImplementsAdvisory == Advisory!LockSpec
=============================================================================

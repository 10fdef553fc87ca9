------------------------- MODULE MemcacheLockProofs -------------------------
(***************************************************************************)
(* Proofs about MemcacheLock for any threads, keys, times and timeouts.     *)
(* Mutual exclusion rests on two facts that hold together: until an entry   *)
(* goes under its owner, memcached agrees with every thread-local set; and  *)
(* a thread owns a key through one object only, so that one exit deletes    *)
(* the entry and removes the key from the set in the same breath.           *)
(***************************************************************************)
EXTENDS MemcacheLock, TLAPS

\* A thread never polls for a key it owns: acquire() checked the set first.
PollsOthersKeys == \A p \in Procs : trying[p].key \notin locks[p]

\* A polling thread has room for the block it is about to enter.
RoomForBlock == \A p \in Procs : ~Running(p) => depth[p] < MaxDepth

\* Until an entry goes under its owner, the owner is the one memcached names.
EntryNamesOwner ==
    ~overrun => \A p \in Procs : \A k \in locks[p] : entry[k] = p

LockInv == OutermostOwns /\ PollsOthersKeys /\ EntryNamesOwner /\ NoLeak

USE LockConstants DEF LockConstants, None

-----------------------------------------------------------------------------
\* The records the actions build are of the types the variables have.
LEMMA Records ==
    /\ NoFrame \in Frame
    /\ NotTrying \in Attempt
    /\ \A k \in Keys, b \in BOOLEAN : [key |-> k, have |-> b] \in Frame
    /\ \A k \in Keys, t \in TimeoutArgs :
          [key |-> k, waited |-> 0, timeout |-> t] \in Attempt
    /\ \A a \in Attempt : a.waited <= Patience =>
          [a EXCEPT !.waited = @ + 1] \in Attempt
  BY DEF Frame, Attempt, NoFrame, NotTrying, TimeoutArgs

\* A thread that is not Running is polling for one of the keys.
LEMMA PollsKey ==
    ASSUME TypeOK, NEW p \in Procs, ~Running(p)
    PROVE  trying[p].key \in Keys
  BY DEF TypeOK, Running, Attempt

\* Every variable keeps its type (lock.py:32-57 and what its methods assign).
THEOREM Typing == Spec => [](TypeOK /\ RoomForBlock)
<1>1. Init => TypeOK /\ RoomForBlock
  <2> SUFFICES ASSUME Init PROVE TypeOK /\ RoomForBlock
    OBVIOUS
  <2>0. MaxDepth > 0 /\ LockTime > 0
    OBVIOUS
  <2>1. frame \in [Procs -> [Depths -> Frame]]
    BY Records DEF Init
  <2>2. trying \in [Procs -> Attempt]
    BY Records DEF Init
  <2> QED
    <3>1. entry \in [Keys -> Procs \cup {NoProc}] /\ age \in [Keys -> 0..LockTime]
      BY <2>0 DEF Init
    <3>2. locks \in [Procs -> SUBSET Keys] /\ depth \in [Procs -> 0..MaxDepth]
      BY <2>0 DEF Init
    <3>3. RoomForBlock
      BY <2>0 DEF Init, RoomForBlock
    <3> QED
      BY <2>1, <2>2, <3>1, <3>2, <3>3 DEF Init, TypeOK
<1>2. TypeOK /\ RoomForBlock /\ [Next]_vars => RoomForBlock'
  <2> SUFFICES ASSUME TypeOK, RoomForBlock, [Next]_vars PROVE RoomForBlock'
    OBVIOUS
  <2> USE DEF TypeOK, RoomForBlock, Running
  <2>1. ASSUME NEW p \in Procs, Step(p)
        PROVE  RoomForBlock'
    <3>1. CASE \E k \in Keys : EnterOwned(p, k)
      BY <3>1 DEF EnterOwned, PushFrame
    <3>2. CASE \E k \in Keys, t \in TimeoutArgs : StartTrying(p, k, t)
      BY <3>2 DEF StartTrying
    <3>3. CASE Acquire(p)
      BY <3>3 DEF Acquire, PushFrame, NotTrying
    <3>4. CASE GiveUp(p)
      BY <3>4 DEF GiveUp, NotTrying
    <3>5. CASE Release(p)
      BY <3>5 DEF Release
    <3>6. CASE Crash(p)
      BY <3>6 DEF Crash, NotTrying
    <3> QED
      BY <2>1, <3>1, <3>2, <3>3, <3>4, <3>5, <3>6 DEF Step
  <2>2. CASE Tick
    BY <2>2 DEF Tick
  <2> QED
    BY <2>1, <2>2 DEF Next, Expire, vars
<1>3. TypeOK /\ RoomForBlock /\ [Next]_vars => TypeOK'
  <2> SUFFICES ASSUME TypeOK, RoomForBlock, [Next]_vars PROVE TypeOK'
    OBVIOUS
  <2> USE DEF TypeOK
  <2>1. ASSUME NEW p \in Procs, NEW k \in Keys, NEW b \in BOOLEAN,
               depth[p] < MaxDepth, PushFrame(p, k, b)
        PROVE  /\ depth' \in [Procs -> 0..MaxDepth]
               /\ frame' \in [Procs -> [Depths -> Frame]]
    BY <2>1, Records DEF PushFrame, Depths
  <2>2. ASSUME NEW p \in Procs, NEW k \in Keys, EnterOwned(p, k)
        PROVE  TypeOK'
    BY <2>1, <2>2 DEF EnterOwned
  <2>3. ASSUME NEW p \in Procs, NEW k \in Keys, NEW t \in TimeoutArgs,
               StartTrying(p, k, t)
        PROVE  TypeOK'
    BY <2>3, Records DEF StartTrying
  <2>4. ASSUME NEW p \in Procs, Acquire(p)
        PROVE  TypeOK'
    <3>1. trying[p].key \in Keys /\ depth[p] < MaxDepth
      BY <2>4, PollsKey DEF Acquire, RoomForBlock
    <3> QED
      <4>1. depth' \in [Procs -> 0..MaxDepth] /\ frame' \in [Procs -> [Depths -> Frame]]
        BY <2>4, <3>1, <2>1 DEF Acquire
      <4>2. entry' \in [Keys -> Procs \cup {NoProc}] /\ age' \in [Keys -> 0..LockTime]
        BY <2>4, <3>1 DEF Acquire, Store
      <4>3. locks' \in [Procs -> SUBSET Keys] /\ orphans' \in SUBSET Keys
        BY <2>4, <3>1 DEF Acquire
      <4>4. trying' \in [Procs -> Attempt] /\ overrun' \in BOOLEAN
        BY <2>4, Records DEF Acquire
      <4> QED
        BY <4>1, <4>2, <4>3, <4>4
  <2>5. ASSUME NEW p \in Procs, GiveUp(p)
        PROVE  TypeOK'
    BY <2>5, Records DEF GiveUp
  <2>6. ASSUME NEW p \in Procs, Release(p)
        PROVE  TypeOK'
    <3>1. depth' \in [Procs -> 0..MaxDepth]
      BY <2>6 DEF Release
    <3>2. frame' \in [Procs -> [Depths -> Frame]]
      BY <2>6, Records DEF Release, Depths
    <3>3. CASE frame[p][depth[p]].have
      <4> DEFINE k == frame[p][depth[p]].key
      <4>1. /\ entry' = [entry EXCEPT ![k] = NoProc]
            /\ age' = [age EXCEPT ![k] = 0]
        BY <2>6, <3>3 DEF Release, Drop
      <4> HIDE DEF k
      <4>3. entry' \in [Keys -> Procs \cup {NoProc}] /\ age' \in [Keys -> 0..LockTime]
        <5>1. /\ entry' = [x \in Keys |-> IF x = k THEN NoProc ELSE entry[x]]
              /\ age' = [x \in Keys |-> IF x = k THEN 0 ELSE age[x]]
          BY <4>1
        <5> QED
          BY <5>1
      <4>2. locks' \in [Procs -> SUBSET Keys] /\ orphans' \in SUBSET Keys
        BY <2>6, <3>3 DEF Release, Drop
      <4> QED
        BY <2>6, <3>1, <3>2, <4>2, <4>3 DEF Release
    <3>4. CASE ~frame[p][depth[p]].have
      BY <2>6, <3>1, <3>2, <3>4 DEF Release, Drop
    <3> QED
      BY <3>3, <3>4
  <2>7. ASSUME NEW p \in Procs, Crash(p)
        PROVE  TypeOK'
    BY <2>7, Records DEF Crash
  <2>8. ASSUME NEW k \in Keys, Expire(k)
        PROVE  TypeOK'
    BY <2>8 DEF Expire
  <2>9. CASE Tick
    <3>1. trying' \in [Procs -> Attempt]
      BY <2>9, Records DEF Tick
    <3> QED
      BY <2>9, <3>1 DEF Tick
  <2>10. CASE UNCHANGED vars
    BY <2>10 DEF vars
  <2> QED
    BY <2>2, <2>3, <2>4, <2>5, <2>6, <2>7, <2>8, <2>9, <2>10 DEF Next, Step
<1> QED
  BY <1>1, <1>2, <1>3, PTL DEF Spec

-----------------------------------------------------------------------------
\* LockInv is inductive, given the types.
LEMMA LockInvInit == Init => LockInv
<1> SUFFICES ASSUME Init PROVE LockInv
  OBVIOUS
<1>1. \A p \in Procs : locks[p] = {} /\ depth[p] = 0
  BY DEF Init
<1>2. \A k \in Keys : entry[k] = NoProc
  BY DEF Init
<1> QED
  BY <1>1, <1>2 DEF LockInv, OutermostOwns, ThroughOutermost, PollsOthersKeys, EntryNamesOwner, NoLeak

\* A block pushed on a key takes ownership exactly when the thread had none.
LEMMA PushOne ==
    ASSUME NEW owned, NEW n \in Nat, NEW f, NEW g, NEW k,
           ThroughOutermost(owned, n, f),
           \A d \in 1..n : g[d] = f[d],
           g[n + 1].key = k, g[n + 1].have = (k \notin owned)
    PROVE  ThroughOutermost(owned \cup {k}, n + 1, g)
<1> USE DEF ThroughOutermost
<1>1. \A d \in 1..(n + 1) : d = n + 1 \/ d \in 1..n
  OBVIOUS
<1>2. n + 1 \in 1..(n + 1) /\ \A d \in 1..n : d \in 1..(n + 1)
  OBVIOUS
<1>3. \A d \in 1..(n + 1) : \A e \in 1..(d - 1) : e \in 1..n
  OBVIOUS
<1>4. ASSUME NEW j \in owned \cup {k}
      PROVE  \E d \in 1..(n + 1) : g[d].key = j /\ g[d].have
  <2>1. CASE j \in owned
    <3>1. PICK d \in 1..n : f[d].key = j /\ f[d].have
      BY <2>1
    <3> QED
      BY <1>2, <3>1
  <2>2. CASE j \notin owned
    BY <2>2, <1>2
  <2> QED
    BY <2>1, <2>2
<1>5. \A d \in 1..(n + 1) : g[d].key \in owned \cup {k}
  BY <1>1
<1>6. ASSUME NEW d \in 1..(n + 1), NEW e \in 1..(d - 1), g[e].key = g[d].key
      PROVE  ~g[d].have
  <2>1. g[e] = f[e] /\ f[e].key \in owned
    BY <1>3
  <2> QED
    BY <1>1, <1>6, <2>1
<1> QED
  BY <1>4, <1>5, <1>6

\* Leaving the innermost block gives up ownership exactly when it had it.
LEMMA PopOne ==
    ASSUME NEW owned, NEW n \in Nat \ {0}, NEW f, NEW g,
           ThroughOutermost(owned, n, f),
           \A d \in 1..(n - 1) : g[d] = f[d]
    PROVE  ThroughOutermost(IF f[n].have THEN owned \ {f[n].key} ELSE owned,
                            n - 1, g)
<1> USE DEF ThroughOutermost
<1> DEFINE left == IF f[n].have THEN owned \ {f[n].key} ELSE owned
<1>1. n \in 1..n /\ \A d \in 1..(n - 1) : d \in 1..n
  OBVIOUS
<1>2. \A d \in 1..n : d = n \/ d \in 1..(n - 1)
  OBVIOUS
<1>3. \A d \in 1..(n - 1) : \A e \in 1..(d - 1) : e \in 1..(n - 1)
  OBVIOUS
<1>4. ASSUME NEW j \in left
      PROVE  \E d \in 1..(n - 1) : g[d].key = j /\ g[d].have
  <2>1. PICK d \in 1..n : f[d].key = j /\ f[d].have
    OBVIOUS
  <2>2. d # n
    BY <2>1
  <2> QED
    BY <1>2, <2>1, <2>2
<1>5. ASSUME NEW d \in 1..(n - 1)
      PROVE  g[d].key \in left
  BY <1>1
<1>6. ASSUME NEW d \in 1..(n - 1), NEW e \in 1..(d - 1), g[e].key = g[d].key
      PROVE  ~g[d].have
  BY <1>1, <1>3, <1>6
<1> QED
  BY <1>4, <1>5, <1>6

\* Hence every push and every pop of a thread keeps OutermostOwns.
LEMMA PushKeepsOwnership ==
    ASSUME TypeOK, OutermostOwns, NEW p \in Procs, NEW k \in Keys,
           depth[p] < MaxDepth, PushFrame(p, k, k \notin locks[p]),
           locks' = [locks EXCEPT ![p] = @ \cup {k}]
    PROVE  OutermostOwns'
<1>1. /\ depth'[p] = depth[p] + 1 /\ locks'[p] = locks[p] \cup {k}
      /\ frame'[p][depth[p] + 1] = [key |-> k, have |-> k \notin locks[p]]
      /\ \A d \in 1..depth[p] : frame'[p][d] = frame[p][d]
  BY DEF PushFrame, TypeOK, Depths
<1>2. ThroughOutermost(locks'[p], depth'[p], frame'[p])
  <2>1. depth[p] \in Nat /\ ThroughOutermost(locks[p], depth[p], frame[p])
    BY DEF TypeOK, OutermostOwns
  <2>2. /\ frame'[p][depth[p] + 1].key = k
        /\ frame'[p][depth[p] + 1].have = (k \notin locks[p])
    BY <1>1
  <2> QED
    BY <1>1, <2>1, <2>2, PushOne
<1>3. \A q \in Procs : q # p =>
          locks'[q] = locks[q] /\ depth'[q] = depth[q] /\ frame'[q] = frame[q]
  BY DEF PushFrame, TypeOK
<1> QED
  BY <1>2, <1>3 DEF OutermostOwns

LEMMA PopKeepsOwnership ==
    ASSUME TypeOK, OutermostOwns, NEW p \in Procs, Release(p)
    PROVE  OutermostOwns'
<1>1. /\ depth[p] \in Nat \ {0}
      /\ depth'[p] = depth[p] - 1
      /\ \A d \in 1..(depth[p] - 1) : frame'[p][d] = frame[p][d]
  BY DEF Release, TypeOK, Depths
<1>2. locks'[p] = IF frame[p][depth[p]].have
                  THEN locks[p] \ {frame[p][depth[p]].key} ELSE locks[p]
  BY DEF Release, Drop, TypeOK
<1>4. ThroughOutermost(locks'[p], depth'[p], frame'[p])
  <2>1. ThroughOutermost(locks[p], depth[p], frame[p])
    BY DEF OutermostOwns
  <2>2. ThroughOutermost(IF frame[p][depth[p]].have
                         THEN locks[p] \ {frame[p][depth[p]].key} ELSE locks[p],
                         depth[p] - 1, frame'[p])
    BY <1>1, <2>1, PopOne
  <2> QED
    BY <1>1, <1>2, <2>2
<1>3. \A q \in Procs : q # p =>
          locks'[q] = locks[q] /\ depth'[q] = depth[q] /\ frame'[q] = frame[q]
  BY DEF Release, Drop, TypeOK
<1> QED
  BY <1>3, <1>4 DEF OutermostOwns

LEMMA LockInvStep ==
    ASSUME TypeOK, RoomForBlock, LockInv, [Next]_vars
    PROVE  LockInv'
<1> USE DEF LockInv
<1>1. ASSUME NEW p \in Procs, NEW k \in Keys, EnterOwned(p, k)
      PROVE  LockInv'
  <2>1. OutermostOwns'
    <3>1. locks' = [locks EXCEPT ![p] = @ \cup {k}]
      BY <1>1 DEF EnterOwned, TypeOK
    <3>2. PushFrame(p, k, k \notin locks[p])
      BY <1>1 DEF EnterOwned, PushFrame
    <3> QED
      BY <1>1, <3>1, <3>2, PushKeepsOwnership DEF EnterOwned
  <2>2. PollsOthersKeys' /\ EntryNamesOwner' /\ NoLeak'
    BY <1>1 DEF PollsOthersKeys, EntryNamesOwner, NoLeak, EnterOwned
  <2> QED
    BY <2>1, <2>2
<1>2. ASSUME NEW p \in Procs, NEW k \in Keys, NEW t \in TimeoutArgs,
             StartTrying(p, k, t)
      PROVE  LockInv'
  <2>1. PollsOthersKeys'
    BY <1>2 DEF TypeOK, PollsOthersKeys, StartTrying
  <2> QED
    BY <1>2, <2>1 DEF OutermostOwns, ThroughOutermost, EntryNamesOwner, NoLeak, StartTrying
<1>3. ASSUME NEW p \in Procs, Acquire(p)
      PROVE  LockInv'
  <2> DEFINE k == trying[p].key
  <2>1. k \in Keys /\ k \notin locks[p]
    BY <1>3, PollsKey DEF Acquire, PollsOthersKeys
  <2>2. OutermostOwns'
    <3>1. PushFrame(p, k, k \notin locks[p])
      BY <1>3, <2>1 DEF Acquire, PushFrame
    <3> QED
      BY <1>3, <2>1, <3>1, PushKeepsOwnership DEF Acquire, RoomForBlock
  <2>3. PollsOthersKeys'
    BY <1>3, <2>1 DEF TypeOK, PollsOthersKeys, Acquire, NotTrying
  <2>4. EntryNamesOwner'
    BY <1>3, <2>1 DEF TypeOK, EntryNamesOwner, Acquire, CanAdd, Store
  <2>5. NoLeak'
    BY <1>3, <2>1 DEF TypeOK, NoLeak, Acquire, CanAdd, Store
  <2> QED
    BY <2>2, <2>3, <2>4, <2>5
<1>4. ASSUME NEW p \in Procs, GiveUp(p)
      PROVE  LockInv'
  <2>1. PollsOthersKeys'
    BY <1>4 DEF TypeOK, PollsOthersKeys, GiveUp, NotTrying
  <2> QED
    BY <1>4, <2>1 DEF OutermostOwns, ThroughOutermost, EntryNamesOwner, NoLeak, GiveUp
<1>5. ASSUME NEW p \in Procs, Release(p)
      PROVE  LockInv'
  <2> DEFINE f == frame[p][depth[p]]
  <2>1. f.key \in locks[p] /\ f.key \in Keys /\ depth[p] \in Depths
    BY <1>5 DEF Release, OutermostOwns, ThroughOutermost, TypeOK, Depths
  <2>2. OutermostOwns'
    BY <1>5, PopKeepsOwnership
  <2>3. PollsOthersKeys'
    BY <1>5 DEF TypeOK, PollsOthersKeys, Release, Drop
  <2>4. EntryNamesOwner'
    BY <1>5, <2>1 DEF TypeOK, EntryNamesOwner, Release, Drop
  <2>5. NoLeak'
    BY <1>5, <2>1 DEF TypeOK, NoLeak, Release, Drop
  <2> QED
    BY <2>2, <2>3, <2>4, <2>5
<1>6. ASSUME NEW p \in Procs, Crash(p)
      PROVE  LockInv'
  <2>1. OutermostOwns'
    BY <1>6 DEF TypeOK, OutermostOwns, ThroughOutermost, Crash
  <2>2. PollsOthersKeys' /\ EntryNamesOwner' /\ NoLeak'
    BY <1>6 DEF TypeOK, PollsOthersKeys, EntryNamesOwner, NoLeak, Crash, NotTrying
  <2> QED
    BY <2>1, <2>2
<1>7. ASSUME NEW k \in Keys, Expire(k)
      PROVE  LockInv'
  <2>1. OutermostOwns' /\ PollsOthersKeys'
    BY <1>7 DEF OutermostOwns, PollsOthersKeys, Expire
  <2>2. EntryNamesOwner'
    BY <1>7 DEF TypeOK, EntryNamesOwner, Expire
  <2>3. NoLeak'
    BY <1>7 DEF TypeOK, NoLeak, Expire
  <2> QED
    BY <2>1, <2>2, <2>3
<1>8. CASE Tick
  <2>1. \A p \in Procs : trying'[p].key = trying[p].key
    BY <1>8 DEF Tick, TypeOK, Attempt
  <2> QED
    BY <1>8, <2>1 DEF OutermostOwns, ThroughOutermost, PollsOthersKeys, EntryNamesOwner, NoLeak, Tick
<1>9. CASE UNCHANGED vars
  BY <1>9 DEF OutermostOwns, ThroughOutermost, PollsOthersKeys, EntryNamesOwner,
              NoLeak, vars
<1> QED
  BY <1>1, <1>2, <1>3, <1>4, <1>5, <1>6, <1>7, <1>8, <1>9 DEF Next, Step

LEMMA LockInvAlways == Spec => []LockInv
<1>1. LockInv /\ (TypeOK /\ RoomForBlock) /\ [Next]_vars => LockInv'
  BY LockInvStep
<1> QED
  BY <1>1, LockInvInit, Typing, PTL DEF Spec

\* Two threads never own a key together until an entry has gone under its
\* owner: what the class promises (lock.py:41-43), for any number of threads.
THEOREM Exclusion == Spec => []MutualExclusion
<1>1. EntryNamesOwner => MutualExclusion
  BY DEF EntryNamesOwner, MutualExclusion
<1> QED
  BY <1>1, LockInvAlways, PTL DEF LockInv

\* A key is owned through the outermost block on it (lock.py:70-72, 102-106).
THEOREM Reentrancy == Spec => []OutermostOwns
  BY LockInvAlways, PTL DEF LockInv

\* Every entry in memcached has an owner that will delete it, or had one that
\* died (lock.py:78, 104-106).
THEOREM Accounting == Spec => []NoLeak
  BY LockInvAlways, PTL DEF LockInv

\* A waiter whose timeout is at least the expiry time gives up only because of
\* an entry added since it began to wait (lock.py:45-46, 78-79).
THEOREM Handover == Spec => TimeoutOnlyAfterHandover
<1>1. TypeOK /\ [Next]_vars =>
          [\A p \in Procs : GiveUp(p) /\ trying[p].timeout >= LockTime
                            => age[trying[p].key] < trying[p].waited]_vars
  <2> SUFFICES ASSUME TypeOK, NEW p \in Procs, GiveUp(p),
                      trying[p].timeout >= LockTime
               PROVE  age[trying[p].key] < trying[p].waited
    OBVIOUS
  <2>1. age[trying[p].key] \in 0..LockTime
    BY PollsKey DEF TypeOK, GiveUp
  <2>2. trying[p].waited \in Nat /\ trying[p].timeout \in Int
    BY DEF TypeOK, Attempt
  <2>3. trying[p].waited > trying[p].timeout
    BY DEF GiveUp, OutOfTime
  <2> QED
    BY <2>1, <2>2, <2>3
<1> QED
  BY <1>1, Typing, PTL DEF Spec, TimeoutOnlyAfterHandover

\* Every behaviour of the lock, seen through the thread-local sets and the
\* names of the entries, is one of the abstract lock.
THEOREM Implements == Spec => ImplementsAdvisory
<1>1. Init => Advisory!LockInit
  BY DEF Init, Advisory!LockInit
<1>2. TypeOK /\ LockInv /\ [Next]_vars => [Advisory!LockNext]_(Advisory!lockVars)
  <2> SUFFICES ASSUME TypeOK, LockInv, [Next]_vars
               PROVE  [Advisory!LockNext]_(Advisory!lockVars)
    OBVIOUS
  <2>1. ASSUME NEW p \in Procs, Acquire(p)
        PROVE  Advisory!LockNext
    <3>1. PICK k \in Keys : k = trying[p].key /\ k \notin locks[p]
      BY <2>1, PollsKey DEF Acquire, LockInv, PollsOthersKeys
    <3>2. Advisory!Obtain(p, k)
      BY <2>1, <3>1 DEF TypeOK, Acquire, CanAdd, Store, Advisory!Obtain
    <3> QED
      BY <3>2, Zenon DEF Advisory!LockNext
  <2>2. ASSUME NEW p \in Procs, Release(p), frame[p][depth[p]].have
        PROVE  Advisory!LockNext
    <3>0. depth[p] \in 1..depth[p] /\ ThroughOutermost(locks[p], depth[p], frame[p])
      BY <2>2 DEF TypeOK, Depths, Release, LockInv, OutermostOwns
    <3>1. PICK k \in Keys : k = frame[p][depth[p]].key /\ k \in locks[p]
      BY <3>0 DEF TypeOK, ThroughOutermost
    <3>2. /\ locks' = [locks EXCEPT ![p] = @ \ {k}]
          /\ entry' = [entry EXCEPT ![k] = NoProc]
          /\ UNCHANGED overrun
      BY <2>2, <3>1 DEF Release, Drop
    <3>3. {j \in Keys : entry'[j] # NoProc}
              = {j \in Keys : entry[j] # NoProc} \ {k}
      BY <3>1, <3>2 DEF TypeOK
    <3>4. Advisory!LetGo(p, k)
      BY <3>1, <3>2, <3>3 DEF Advisory!LetGo
    <3> QED
      BY <3>4, Zenon DEF Advisory!LockNext
  <2>3. ASSUME NEW p \in Procs, Crash(p)
        PROVE  Advisory!LockNext
    <3>1. Advisory!Abandon(p)
      BY <2>3 DEF Crash, Advisory!Abandon
    <3> QED
      BY <3>1, Zenon DEF Advisory!LockNext
  <2>4. ASSUME NEW k \in Keys, Expire(k)
        PROVE  Advisory!LockNext
    <3>1. Advisory!Lapse(k)
      BY <2>4 DEF TypeOK, Expire, Advisory!Lapse
    <3> QED
      BY <3>1, Zenon DEF Advisory!LockNext
  <2>5. ASSUME NEW p \in Procs,
               \/ \E k \in Keys : EnterOwned(p, k)
               \/ \E k \in Keys, t \in TimeoutArgs : StartTrying(p, k, t)
               \/ GiveUp(p)
               \/ Release(p) /\ ~frame[p][depth[p]].have
        PROVE  UNCHANGED Advisory!lockVars
    BY <2>5 DEF EnterOwned, StartTrying, GiveUp, Release, Drop, Advisory!lockVars
  <2>6. CASE Tick \/ UNCHANGED vars
    BY <2>6 DEF Tick, vars, Advisory!lockVars
  <2>7. CASE \E p \in Procs : Step(p)
    BY <2>1, <2>2, <2>3, <2>5, <2>7 DEF Step
  <2> QED
    BY <2>4, <2>6, <2>7 DEF Next
<1> QED
  BY <1>1, <1>2, Typing, LockInvAlways, PTL
  DEF Spec, ImplementsAdvisory, Advisory!LockSpec
=============================================================================

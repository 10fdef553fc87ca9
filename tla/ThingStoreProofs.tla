-------------------------- MODULE ThingStoreProofs --------------------------
(***************************************************************************)
(* Proofs about ThingStore for any threads, properties and increments.      *)
(* The argument: only the holder of the commit lock changes the database,   *)
(* so what _sync_latest gives it stays true until it publishes; and what    *)
(* it gives is true because whatever is in the cache is current.  Each half *)
(* needs the other, so they are one inductive invariant, StoreInv.  What    *)
(* holds after a slip too (OthersKept) rests on DirtyIsAsked alone.         *)
(***************************************************************************)
EXTENDS ThingStore, TLAPS

Inside == {"sync", "write", "create", "publish", "republish", "release",
           "incr", "add"}

\* A thread works on an object, and an _incr is on some counter.
HasWork ==
    \A p \in Procs :
        /\ pc[p] \notin {"idle", "miss"} => self[p] # NoThing
        /\ pc[p] \in {"incr", "add", "republish"} => op[p].prop \in Counters
        /\ op[p] # NoOp => /\ op[p].prop \in Counters
                           /\ op[p].amt # 0
                           /\ pc[p] \in Inside \ {"create"}

\* The lock is held from StartCommit or StartIncr to Release, by one thread.
LockedInside ==
    /\ \A p \in Procs : held[p] = IF pc[p] \in Inside THEN {CommitKey} ELSE {}
    /\ ~overrun => \A p \in Procs : pc[p] \in Inside =>
                       /\ CommitKey \in busy
                       /\ \A q \in Procs : pc[q] \in Inside => q = p

DirtyShows(t) == \A x \in Props : t.dirty[x] # Nil => t.val[x] = t.dirty[x]

\* An object whose row is not inserted yet is known to its maker only.
Unsaved(p) == self[p] # NoThing /\ (~self[p].created \/ pc[p] = "create")
NewObject(t) ==
    /\ t.loaded
    /\ DirtyShows(t)
    /\ \A x \in DataProps : t.dirty[x] = Nil => t.val[x] = 0
    /\ \A x \in Counters : t.dirty[x] = Nil /\ t.val[x] = 0
UnsavedIsAlone ==
    /\ cache # NoThing => cache.created
    /\ \A p \in Procs :
        /\ pc[p] \notin {"idle", "miss"} => self[p].created
        /\ Unsaved(p) => /\ ~row /\ cache = NoThing
                         /\ \A q \in Procs : self[q] # NoThing => q = p
                         /\ pc[p] \in {"idle", "create"}
                         /\ NewObject(self[p])

RowHasBase == row => \A x \in BaseProps : db[x] # Nil

Shape == HasWork /\ LockedInside /\ UnsavedIsAlone /\ RowHasBase

-----------------------------------------------------------------------------
\* What is dirty in an object is what it shows, and plain commits never write
\* a counter.  Loading a dirty object breaks the first until it is filled.
ObjectOK(p) ==
    self[p] # NoThing =>
        /\ pc[p] # "fill" => DirtyShows(self[p])
        /\ op[p] = NoOp => \A x \in Counters : self[p].dirty[x] = Nil

\* What an _incr is about to assign or to add.
Target(p) == Shown(op[p].prop) + op[p].amt

\* Where a thread inside the lock has got to.
SyncOK(p) ==
    /\ pc[p] \in {"sync", "create"} /\ op[p] = NoOp => self[p].dirty = want[p]
    /\ pc[p] \in {"incr", "add"} => ~Dirty(self[p])
    /\ pc[p] = "incr" \/ (pc[p] = "sync" /\ op[p] # NoOp)
           => op[p].prop \in BaseProps \/ self[p].loaded
    /\ pc[p] \in {"sync", "write"} /\ op[p] # NoOp
           => /\ self[p].dirty[op[p].prop] = Target(p)
              /\ \A x \in Counters \ {op[p].prop} : self[p].dirty[x] = Nil
    /\ pc[p] = "write" => CleanPartCurrent(self[p])
    /\ pc[p] = "add" =>
           /\ row
           /\ self[p].val[op[p].prop] = Target(p)
           /\ db[op[p].prop] # Nil
           /\ \A x \in Props \ {op[p].prop} : x \in BaseProps \/ self[p].loaded
                  => self[p].val[x] = Shown(x)
    /\ pc[p] \in {"publish", "republish"} => Current(self[p])
    /\ pc[p] = "release" => ~Dirty(self[p])

\* What became of the values the caller had assigned.
WantOK(p) ==
    /\ op[p] # NoOp => want[p] = AllClean
    /\ \A x \in Props : want[p][x] # Nil =>
        /\ pc[p] = "write" => \/ self[p].dirty[x] = want[p][x]
                              \/ self[p].dirty[x] = Nil /\ Shown(x) = want[p][x]
        /\ pc[p] \in {"publish", "republish", "release"} => Shown(x) = want[p][x]

Good(p) == ObjectOK(p) /\ SyncOK(p) /\ WantOK(p)

\* Whatever is in the cache is clean, and current unless someone publishes.
CacheOK ==
    cache # NoThing =>
        /\ ~Dirty(cache)
        /\ (\A p \in Procs : pc[p] \notin {"publish", "republish"})
               => CleanPartCurrent(cache)

\* A row comes before its data.
RowlessIsEmpty == ~row => \A x \in Props : db[x] = Nil

StoreInv ==
    NoSlip => CacheOK /\ IncrsConserved /\ RowlessIsEmpty /\ \A p \in Procs : Good(p)

-----------------------------------------------------------------------------
\* What the assumptions on the constants say, in the form the proofs use.
LEMMA Sorts ==
    /\ Counters \subseteq Props /\ Settable \subseteq Props
    /\ Settable \cap Counters = {}
    /\ Values \subseteq Int /\ Amounts \subseteq Int /\ 0 \notin Amounts
    /\ Nil \notin Int /\ Nil \notin Props /\ Nil \notin Counters
    /\ NoThing \notin Thing
    /\ MaxIncrs \in Nat
  BY StoreConstants, NilIsNoProp DEF Props

-----------------------------------------------------------------------------
\* Types of the objects that the actions build.
LEMMA NewObjects ==
    /\ \A v \in [Settable -> Values] :
          [created |-> FALSE, loaded |-> TRUE,
           val |-> [x \in Props |-> IF x \in Settable THEN v[x] ELSE 0],
           dirty |-> [x \in Props |->
               IF x \in Settable \cap DataProps /\ v[x] # 0
               THEN v[x] ELSE Nil]] \in Thing
    /\ AllClean \in [Props -> Int \cup {Nil}]
    /\ NoOp \in Op
  BY StoreConstants DEF Thing, AllClean, Props, Op, NoOp

LEMMA BuiltObject ==
    ASSUME db \in [Props -> Int \cup {Nil}]
    PROVE  [created |-> TRUE, loaded |-> FALSE,
            val |-> [x \in Props |-> IF x \in BaseProps THEN Shown(x) ELSE 0],
            dirty |-> AllClean] \in Thing
  BY StoreConstants DEF Thing, AllClean, Props, Shown

LEMMA ChangedObjects ==
    ASSUME NEW t \in Thing
    PROVE  /\ [t EXCEPT !.created = TRUE] \in Thing
           /\ [t EXCEPT !.dirty = AllClean] \in Thing
           /\ \A w \in [Props -> Int] :
                 [t EXCEPT !.loaded = TRUE, !.val = w] \in Thing
           /\ \A x \in Props, v \in Int :
                 /\ [t EXCEPT !.val[x] = v] \in Thing
                 /\ [t EXCEPT !.val[x] = v, !.dirty[x] = v] \in Thing
  BY DEF Thing, AllClean

LEMMA SyncedObject ==
    ASSUME NEW t \in Thing, NEW c \in Thing \cup {NoThing}
    PROVE  Synced(t, c) \in Thing
<1>1. CASE c = NoThing
  BY <1>1 DEF Synced
<1>2. CASE c # NoThing
  <2> DEFINE v == [x \in Props |-> IF x \in BaseProps \/ c.loaded
                                   THEN c.val[x] ELSE t.val[x]]
             val == [x \in Props |-> IF t.dirty[x] # Nil THEN t.dirty[x] ELSE v[x]]
             dirty == [x \in Props |-> IF t.dirty[x] = v[x] THEN Nil ELSE t.dirty[x]]
  <2>1. c \in Thing
    BY <1>2
  <2>2. v \in [Props -> Int]
    BY <2>1 DEF Thing
  <2>3. val \in [Props -> Int] /\ dirty \in [Props -> Int \cup {Nil}]
    BY <2>2 DEF Thing
  <2>4. Synced(t, c) = [t EXCEPT !.val = val, !.dirty = dirty]
    BY <1>2 DEF Synced
  <2> HIDE DEF val, dirty
  <2> QED
    BY <2>3, <2>4 DEF Thing
<1> QED
  BY <1>1, <1>2

LEMMA OpTyped ==
    ASSUME TypeOK, NEW p \in Procs
    PROVE  op[p].amt \in Int /\ op[p].prop \in Counters \cup {Nil}
<1>1. op[p] \in Op
  BY DEF TypeOK
<1>2. op[p].amt \in Amounts \cup {0} /\ op[p].prop \in Counters \cup {Nil}
  BY <1>1 DEF Op
<1>3. Amounts \cup {0} \subseteq Int
  BY Sorts
<1> QED
  BY <1>2, <1>3, Zenon

LEMMA IncrementedObject ==
    ASSUME NEW t \in Thing, NEW x \in Counters, NEW n \in Int
    PROVE  /\ t.val[x] + n \in Int
           /\ [t EXCEPT !.val[x] = t.val[x] + n] \in Thing
           /\ [t EXCEPT !.val[x] = t.val[x] + n, !.dirty[x] = t.val[x] + n] \in Thing
<1>1. t.val[x] + n \in Int /\ x \in Props
  BY Sorts DEF Thing
<1> QED
  BY <1>1, ChangedObjects

\* No step touches the objects of another thread; a thread that is at work
\* has one.
LEMMA ObjectStep ==
    ASSUME TypeOK, HasWork, NEW p \in Procs, Step(p)
    PROVE  /\ self' \in [Procs -> Thing \cup {NoThing}]
           /\ \A q \in Procs \ {p} : self'[q] = self[q]
           /\ pc'[p] \notin {"idle", "miss"} => self'[p] # NoThing
<1> DEFINE Taken == \E t \in Thing : Become(p, t)
           Gone  == Become(p, NoThing) /\ pc'[p] = "idle"
           Kept  == UNCHANGED self /\ (pc'[p] \in {"idle", "miss"} \/ self[p] # NoThing)
<1>0. /\ self[p] \in Thing \cup {NoThing} /\ cache \in Thing \cup {NoThing}
      /\ pc \in [Procs -> Labels] /\ self \in [Procs -> Thing \cup {NoThing}]
      /\ pc[p] \notin {"idle", "miss"} => self[p] \in Thing
      /\ pc[p] \in {"incr", "add"} => op[p].prop \in Counters
      /\ db \in [Props -> Int \cup {Nil}]
  BY DEF TypeOK, HasWork
<1>1. ASSUME NEW v \in [Settable -> Values], NewThing(p, v)
      PROVE  Taken
  BY <1>1, NewObjects DEF NewThing
<1>2. ASSUME FetchHit(p)
      PROVE  Taken
  BY <1>2, <1>0 DEF FetchHit
<1>3. ASSUME Build(p)
      PROVE  Taken
  BY <1>3, <1>0, BuiltObject DEF Build
<1>4. ASSUME Load(p)
      PROVE  Taken
  <2>1. self[p] \in Thing /\ WithData(self[p]) \in [Props -> Int]
    BY <1>4, <1>0 DEF Load, Idle, WithData, Thing
  <2> QED
    BY <1>4, <2>1, ChangedObjects DEF Load
<1>5. ASSUME NEW x \in Settable, NEW v \in Values, SetAttr(p, x, v)
      PROVE  Taken
  <2>1. self[p] \in Thing /\ x \in Props /\ v \in Int
    BY <1>5, <1>0, Sorts DEF SetAttr, Idle
  <2> QED
    BY <1>5, <2>1, ChangedObjects DEF SetAttr
<1>6. ASSUME StartCommit(p)
      PROVE  Taken \/ Kept
  <2>1. self[p] \in Thing
    BY <1>6, <1>0 DEF StartCommit, Idle
  <2> QED
    BY <1>6, <2>1, Sorts, ChangedObjects DEF StartCommit
<1>7. ASSUME Sync(p)
      PROVE  Taken
  <2>1. Synced(self[p], cache) \in Thing
    BY <1>7, <1>0, SyncedObject DEF Sync
  <2> QED
    BY <1>7, <2>1 DEF Sync
<1>8. ASSUME Write(p)
      PROVE  Taken
  BY <1>8, <1>0, ChangedObjects DEF Write
<1>9. ASSUME Create(p)
      PROVE  Taken
  BY <1>9, <1>0, ChangedObjects DEF Create
<1>10. ASSUME NEW cleared \in BOOLEAN, Fail(p, cleared)
      PROVE  Taken
  <2>1. self[p] \in Thing
    BY <1>10, <1>0 DEF Fail
  <2>2. [self[p] EXCEPT !.dirty = IF cleared THEN AllClean ELSE @] \in Thing
    BY <2>1, NewObjects DEF Thing
  <2> QED
    BY <1>10, <2>2 DEF Fail
<1>11. ASSUME Incr(p)
      PROVE  Taken
  <2>1. Synced(self[p], cache) \in Thing /\ op[p].prop \in Counters
    BY <1>11, <1>0, SyncedObject DEF Incr
  <2> QED
    BY <1>11, <2>1, OpTyped, IncrementedObject DEF Incr
<1>12. ASSUME Forget(p) \/ Crash(p)
      PROVE  Gone
  BY <1>12, <1>0 DEF Forget, Crash, Goto, Idle
<1>13. ASSUME FetchMiss(p) \/ NotFound(p) \/ Fill(p)
      PROVE  Kept
  BY <1>13, <1>0 DEF FetchMiss, NotFound, Fill, Goto
<1>14. ASSUME Publish(p) \/ Release(p) \/ Add(p)
      PROVE  Kept
  BY <1>14, <1>0, Sorts DEF Publish, Release, Add
<1>15. ASSUME NEW x \in Counters, NEW n \in Amounts, StartIncr(p, x, n)
      PROVE  Kept
  BY <1>15, <1>0 DEF StartIncr, Idle
<1>16. Taken \/ Gone \/ Kept
  BY Step(p), <1>1, <1>2, <1>3, <1>4, <1>5, <1>6, <1>7, <1>8, <1>9, <1>10, <1>11,
     <1>12, <1>13, <1>14, <1>15 DEF Step
<1> QED
  <2>1. CASE Taken
    BY <2>1, <1>0, Sorts DEF Become
  <2>2. CASE Gone
    BY <2>2, <1>0 DEF Become
  <2>3. CASE Kept
    BY <2>3, <1>0
  <2> QED
    BY <1>16, <2>1, <2>2, <2>3

\* Where a step leaves the thread, and which _incr it is in.
LEMMA WorkStep ==
    ASSUME TypeOK, HasWork, [Next]_vars
    PROVE  /\ HasWork'
           /\ pc' \in [Procs -> Labels]
           /\ op' \in [Procs -> Op]
           /\ want' \in [Procs -> [Props -> Int \cup {Nil}]]
           /\ spent' \in 0..MaxIncrs
<1> DEFINE OpOK(o) == o # NoOp => o.prop \in Counters /\ o.amt # 0
           Others(p) == \A q \in Procs \ {p} : pc'[q] = pc[q] /\ op'[q] = op[q]
           Moves(p) ==
               /\ pc' \in [Procs -> Labels] /\ op' \in [Procs -> Op]
               /\ want' \in [Procs -> [Props -> Int \cup {Nil}]]
               /\ Others(p)
               /\ pc'[p] \in {"incr", "add", "republish"} => op'[p].prop \in Counters
               /\ op'[p] # NoOp => /\ op'[p].prop \in Counters /\ op'[p].amt # 0
                                   /\ pc'[p] \in Inside \ {"create"}
<1>0. /\ pc \in [Procs -> Labels] /\ op \in [Procs -> Op] /\ spent \in 0..MaxIncrs
      /\ self \in [Procs -> Thing \cup {NoThing}]
      /\ want \in [Procs -> [Props -> Int \cup {Nil}]]
  BY DEF TypeOK
<1>1. ASSUME NEW p \in Procs, Step(p)
      PROVE  Moves(p)
  <2> USE <1>0 DEF Goto, Idle, Labels, Inside
  <2>0. /\ pc[p] \in {"incr", "add", "republish"} => op[p].prop \in Counters
        /\ op[p] # NoOp => /\ op[p].prop \in Counters /\ op[p].amt # 0
                           /\ pc[p] \in Inside \ {"create"}
        /\ self[p] # NoThing => self[p].dirty \in [Props -> Int \cup {Nil}]
        /\ AllClean \in [Props -> Int \cup {Nil}] /\ NoOp \in Op
    BY NewObjects DEF HasWork, Thing
  <2>1. CASE \E v \in [Settable -> Values] : NewThing(p, v)
    BY <2>1, <2>0 DEF NewThing
  <2>2. CASE FetchHit(p) \/ FetchMiss(p) \/ NotFound(p) \/ Build(p)
    <3>1. CASE FetchHit(p)
      BY <3>1, <2>0 DEF FetchHit
    <3>2. CASE FetchMiss(p) \/ NotFound(p)
      BY <3>2, <2>0 DEF FetchMiss, NotFound
    <3>3. CASE Build(p)
      BY <3>3, <2>0 DEF Build
    <3> QED
      BY <2>2, <3>1, <3>2, <3>3
  <2>3. CASE Load(p) \/ Fill(p) \/ Forget(p)
    <3>1. CASE Load(p)
      BY <3>1, <2>0 DEF Load
    <3>2. CASE Fill(p)
      BY <3>2, <2>0 DEF Fill
    <3>3. CASE Forget(p)
      BY <3>3, <2>0 DEF Forget
    <3> QED
      BY <2>3, <3>1, <3>2, <3>3
  <2>4. CASE \E x \in Settable, v \in Values : SetAttr(p, x, v)
    BY <2>4, <2>0 DEF SetAttr
  <2>5. CASE StartCommit(p)
    BY <2>5, <2>0 DEF StartCommit
  <2>6. CASE Sync(p)
    BY <2>6, <2>0 DEF Sync
  <2>7. CASE Write(p) \/ Create(p)
    <3>1. CASE Write(p)
      BY <3>1, <2>0 DEF Write
    <3>2. CASE Create(p)
      BY <3>2, <2>0 DEF Create
    <3> QED
      BY <2>7, <3>1, <3>2
  <2>8. ASSUME NEW cleared \in BOOLEAN, Fail(p, cleared)
        PROVE  Moves(p)
    BY <2>8, <2>0 DEF Fail
  <2>9. CASE Publish(p) \/ Release(p)
    <3>1. CASE Publish(p)
      BY <3>1, <2>0, HasWork DEF Publish, HasWork
    <3>2. CASE Release(p)
      BY <3>2, <2>0, HasWork DEF Release, HasWork
    <3> QED
      BY <2>9, <3>1, <3>2
  <2>10. ASSUME NEW x \in Counters, NEW n \in Amounts, StartIncr(p, x, n)
         PROVE  Moves(p)
    <3>1. [prop |-> x, amt |-> n] \in Op /\ n # 0
      BY Sorts DEF Op
    <3> QED
      BY <2>10, <2>0, <3>1 DEF StartIncr
  <2>11. CASE Incr(p) \/ Add(p)
    BY <2>11, <2>0 DEF Incr, Add
  <2>12. CASE Crash(p)
    BY <2>12, <2>0 DEF Crash
  <2> QED
    BY Step(p), <2>1, <2>2, <2>3, <2>4, <2>5, <2>6, <2>7, <2>8, <2>9, <2>10,
       <2>11, <2>12 DEF Step
<1>2. ASSUME NEW p \in Procs, Step(p)
      PROVE  spent' \in 0..MaxIncrs
  <2>1. spent' = spent \/ (spent < MaxIncrs /\ spent' = spent + 1)
    BY <1>2 DEF Step, NewThing, FetchHit, FetchMiss, NotFound, Build, Load, Fill, Forget,
       SetAttr, StartCommit, Sync, Write, Create, Fail, Publish, Release, StartIncr,
       Incr, Add, Crash
  <2> QED
    BY <2>1, <1>0, Sorts
<1>3. ASSUME NEW p \in Procs, Step(p)
      PROVE  HasWork'
  <2>1. Moves(p)
    BY <1>1, <1>3
  <2>2. /\ \A q \in Procs \ {p} : self'[q] = self[q]
        /\ pc'[p] \notin {"idle", "miss"} => self'[p] # NoThing
    BY <1>3, ObjectStep
  <2> QED
    BY <2>1, <2>2 DEF HasWork
<1>4. CASE \E p \in Procs : Step(p)
  BY <1>1, <1>2, <1>3, <1>4
<1>5. CASE Evict \/ LockLapses \/ UNCHANGED vars
  BY <1>0, <1>5 DEF HasWork, Evict, LockLapses, vars
<1> QED
  BY <1>4, <1>5 DEF Next

LEMMA TotalTyped ==
    ASSUME TypeOK, NEW x \in Counters, NEW n \in Int
    PROVE  [applied EXCEPT ![x] = @ + n] \in [Counters -> Int]
  BY DEF TypeOK

\* What a thread's step does with the lock.
LEMMA LockUse ==
    ASSUME NEW p \in Procs, Step(p)
    PROVE  UNCHANGED lock \/ \/ Lock!Obtain(p, CommitKey)
                             \/ Lock!LetGo(p, CommitKey)
                             \/ Lock!Abandon(p)
  BY DEF Step, NewThing, FetchHit, FetchMiss, NotFound, Build, Load, Fill, Forget,
     SetAttr, StartCommit, Sync, Write, Create, Fail, Publish, Release, StartIncr,
     Incr, Add, Crash

\* The lock's variables.
LEMMA LockStep ==
    ASSUME TypeOK, [Next]_vars
    PROVE  /\ held' \in [Procs -> SUBSET {CommitKey}]
           /\ busy' \in SUBSET {CommitKey}
           /\ overrun' \in BOOLEAN
<1>0. /\ held \in [Procs -> SUBSET {CommitKey}]
      /\ busy \in SUBSET {CommitKey}
      /\ overrun \in BOOLEAN
  BY DEF TypeOK
<1>1. CASE UNCHANGED lock
  BY <1>0, <1>1 DEF lock
<1>2. ASSUME NEW p \in Procs,
             \/ Lock!Obtain(p, CommitKey) \/ Lock!LetGo(p, CommitKey)
             \/ Lock!Abandon(p) \/ Lock!Lapse(CommitKey)
      PROVE  /\ held' \in [Procs -> SUBSET {CommitKey}]
             /\ busy' \in SUBSET {CommitKey}
             /\ overrun' \in BOOLEAN
  BY <1>0, <1>2 DEF Lock!Obtain, Lock!LetGo, Lock!Abandon, Lock!Lapse
<1>4. CASE LockLapses
  BY <1>0, <1>4 DEF LockLapses, Lock!Lapse
<1>5. CASE Evict \/ UNCHANGED vars
  BY <1>1, <1>5 DEF Evict, vars, lock
<1> QED
  BY <1>1, <1>2, LockUse, <1>4, <1>5 DEF Next

\* The database, the cache, the totals and the slips.
LEMMA DataStep ==
    ASSUME TypeOK, HasWork, [Next]_vars
    PROVE  /\ row' \in BOOLEAN
           /\ db' \in [Props -> Int \cup {Nil}]
           /\ cache' \in Thing \cup {NoThing}
           /\ applied' \in [Counters -> Int]
           /\ slips' \in SUBSET SlipNames
<1> DEFINE Typed == /\ row' \in BOOLEAN
                    /\ db' \in [Props -> Int \cup {Nil}]
                    /\ cache' \in Thing \cup {NoThing}
                    /\ applied' \in [Counters -> Int]
                    /\ slips' \in SUBSET SlipNames
<1>0. /\ row \in BOOLEAN /\ db \in [Props -> Int \cup {Nil}]
      /\ cache \in Thing \cup {NoThing} /\ applied \in [Counters -> Int]
      /\ slips \in SUBSET SlipNames
      /\ self \in [Procs -> Thing \cup {NoThing}]
  BY DEF TypeOK
<1>1. CASE UNCHANGED <<row, db, cache, applied, slips>>
  BY <1>0, <1>1
<1>2. ASSUME NEW p \in Procs, Step(p)
      PROVE  Typed
  <2>0. pc[p] \notin {"idle", "miss"} => self[p] \in Thing
    BY <1>0 DEF HasWork
  <2>1. CASE Fill(p) \/ Publish(p)
    BY <1>0, <2>0, <2>1 DEF Fill, Publish, Slip, SlipNames
  <2>2. CASE Sync(p)
    <3>1. slips' \in SUBSET SlipNames
      BY <1>0, <2>2 DEF Sync, SyncSlips, SlipNames
    <3>2. applied' \in [Counters -> Int]
      <4>1. CASE op[p] = NoOp
        BY <1>0, <2>2, <4>1 DEF Sync
      <4>2. CASE op[p] # NoOp
        BY <1>0, <2>2, <4>2, OpTyped, TotalTyped DEF Sync, HasWork
      <4> QED
        BY <4>1, <4>2
    <3> QED
      BY <1>0, <2>2, <3>1, <3>2 DEF Sync
  <2>3. CASE Write(p)
    <3>1. Written(self[p].dirty) \in [Props -> Int \cup {Nil}]
      BY <1>0, <2>0, <2>3 DEF Write, Written, Thing
    <3>2. applied' \in [Counters -> Int]
      <4>1. CASE op[p] = NoOp
        BY <1>0, <2>3, <4>1 DEF Write
      <4>2. CASE op[p] # NoOp
        BY <1>0, <2>3, <4>2, OpTyped, TotalTyped DEF Write, HasWork
      <4> QED
        BY <4>1, <4>2
    <3> QED
      BY <1>0, <2>3, <3>1, <3>2 DEF Write, Slip, SlipNames
  <2>4. CASE Create(p)
    BY <1>0, <2>0, <2>4 DEF Create, Thing
  <2>5. CASE \E cleared \in BOOLEAN : Fail(p, cleared)
    BY <1>0, <2>5 DEF Fail, RolledBack, Slip, SlipNames
  <2>6. CASE Incr(p)
    BY <1>0, <2>6 DEF Incr, SyncSlips, SlipNames
  <2>7. CASE Add(p)
    <3> DEFINE x == op[p].prop
    <3>1. x \in Counters /\ op[p].amt \in Int
      BY <2>7, OpTyped DEF Add, HasWork
    <3>2. x \in Props /\ (db[x] = Nil \/ db[x] \in Int)
      BY <1>0, <3>1, Sorts
    <3>3. db' \in [Props -> Int \cup {Nil}]
      BY <1>0, <2>7, <3>1, <3>2 DEF Add, Added
    <3>4. applied' \in [Counters -> Int]
      BY <2>7, <3>1, TotalTyped DEF Add
    <3> QED
      BY <1>0, <2>7, <3>3, <3>4 DEF Add
  <2>8. CASE Crash(p)
    BY <1>0, <2>8 DEF Crash, Slip, SlipNames
  <2>9. CASE \/ \E v \in [Settable -> Values] : NewThing(p, v)
             \/ FetchHit(p) \/ FetchMiss(p) \/ NotFound(p) \/ Build(p) \/ Load(p)
             \/ Forget(p) \/ \E x \in Settable, v \in Values : SetAttr(p, x, v)
             \/ StartCommit(p) \/ Release(p)
             \/ \E x \in Counters, n \in Amounts : StartIncr(p, x, n)
    BY <1>1, <2>9 DEF NewThing, FetchHit, FetchMiss, NotFound, Build, Load, Forget,
       SetAttr, StartCommit, Release, StartIncr
  <2> QED
    BY Step(p), <2>1, <2>2, <2>3, <2>4, <2>5, <2>6, <2>7, <2>8, <2>9 DEF Step
<1>3. CASE Evict \/ LockLapses \/ UNCHANGED vars
  BY <1>0, <1>3 DEF Evict, LockLapses, vars
<1> QED
  BY <1>2, <1>3 DEF Next

\* Every variable keeps its type, and a thread that is not idle has an object
\* to work on (thing.py: _byID, _commit, _incr).
THEOREM Typing == Spec => [](TypeOK /\ HasWork)
<1>1. Init => TypeOK /\ HasWork
  <2> SUFFICES ASSUME Init PROVE TypeOK /\ HasWork
    OBVIOUS
  <2>1. HasWork
    BY DEF Init, HasWork
  <2>2. op \in [Procs -> Op] /\ want \in [Procs -> [Props -> Int \cup {Nil}]]
    BY NewObjects DEF Init
  <2>3. /\ db \in [Props -> Int \cup {Nil}]
        /\ cache \in Thing \cup {NoThing}
        /\ self \in [Procs -> Thing \cup {NoThing}]
        /\ spent \in 0..MaxIncrs
        /\ applied \in [Counters -> Int]
    BY Sorts DEF Init
  <2> QED
    BY <2>1, <2>2, <2>3 DEF Init, TypeOK, Labels, Lock!LockInit
<1>2. TypeOK /\ HasWork /\ [Next]_vars => (TypeOK /\ HasWork)'
  <2> SUFFICES ASSUME TypeOK, HasWork, [Next]_vars PROVE (TypeOK /\ HasWork)'
    OBVIOUS
  <2>1. self' \in [Procs -> Thing \cup {NoThing}]
    BY ObjectStep DEF Next, Evict, LockLapses, vars, TypeOK
  <2> QED
    BY <2>1, WorkStep, LockStep, DataStep DEF TypeOK
<1> QED
  BY <1>1, <1>2, PTL DEF Spec

-----------------------------------------------------------------------------
\* The lock is taken on the way in and given back on the way out.
LEMMA LockedStep ==
    ASSUME TypeOK, HasWork, LockedInside, [Next]_vars
    PROVE  LockedInside'
<1>0. pc \in [Procs -> Labels] /\ held \in [Procs -> SUBSET {CommitKey}]
  BY DEF TypeOK
<1>1. ASSUME NEW p \in Procs, Step(p)
      PROVE  LockedInside'
  <2> DEFINE Enter == Lock!Obtain(p, CommitKey) /\ pc[p] = "idle" /\ pc'[p] \in Inside
             Leave == Lock!LetGo(p, CommitKey) /\ pc[p] \in Inside /\ pc'[p] = "idle"
             Die   == Lock!Abandon(p) /\ pc'[p] = "idle"
             Stay  == UNCHANGED lock /\ (pc'[p] \in Inside <=> pc[p] \in Inside)
  <2>1. /\ Enter \/ Leave \/ Die \/ Stay
        /\ \A q \in Procs \ {p} : pc'[q] = pc[q]
    <3> USE <1>0 DEF Goto, Idle, Inside
    <3>1. CASE StartCommit(p) \/ \E x \in Counters, n \in Amounts : StartIncr(p, x, n)
      BY <3>1 DEF StartCommit, StartIncr
    <3>2. CASE Release(p) \/ \E cleared \in BOOLEAN : Fail(p, cleared)
      BY <3>2 DEF Release, Fail
    <3>3. CASE Crash(p)
      BY <3>3 DEF Crash
    <3>4. CASE \/ \E v \in [Settable -> Values] : NewThing(p, v)
               \/ FetchHit(p) \/ FetchMiss(p) \/ NotFound(p) \/ Build(p) \/ Load(p)
               \/ Fill(p) \/ Forget(p) \/ \E x \in Settable, v \in Values : SetAttr(p, x, v)
      BY <3>4 DEF NewThing, FetchHit, FetchMiss, NotFound, Build, Load, Fill, Forget, SetAttr
    <3>5. CASE Sync(p) \/ Write(p) \/ Create(p) \/ Publish(p) \/ Incr(p) \/ Add(p)
      BY <3>5 DEF Sync, Write, Create, Publish, Incr, Add
    <3> QED
      BY <1>1, <3>1, <3>2, <3>3, <3>4, <3>5 DEF Step
  <2>2. CASE Enter
    BY <1>0, <2>1, <2>2 DEF LockedInside, Lock!Obtain
  <2>3. CASE Leave
    BY <1>0, <2>1, <2>3 DEF LockedInside, Lock!LetGo, Inside
  <2>4. CASE Die
    BY <1>0, <2>1, <2>4 DEF LockedInside, Lock!Abandon, Inside
  <2>5. CASE Stay
    BY <1>0, <2>1, <2>5 DEF LockedInside, lock
  <2> QED
    BY <2>1, <2>2, <2>3, <2>4, <2>5
<1>2. CASE LockLapses
  BY <1>0, <1>2 DEF LockLapses, Lock!Lapse, LockedInside
<1>3. CASE Evict \/ UNCHANGED vars
  BY <1>3 DEF Evict, lock, vars, LockedInside
<1> QED
  BY <1>1, <1>2, <1>3 DEF Next

\* A row always has all its columns.
LEMMA RowStep ==
    ASSUME TypeOK, HasWork, RowHasBase, [Next]_vars
    PROVE  RowHasBase'
<1>0. /\ db \in [Props -> Int \cup {Nil}] /\ BaseProps \subseteq Props
      /\ Nil \notin Int /\ \A p \in Procs : self[p] # NoThing => self[p] \in Thing
  BY Sorts DEF TypeOK, Props
<1>1. CASE UNCHANGED <<row, db>>
  BY <1>1 DEF RowHasBase
<1>2. ASSUME NEW p \in Procs, Step(p)
      PROVE  RowHasBase'
  <2>1. CASE Write(p)
    BY <1>0, <2>1 DEF Write, Written, RowHasBase
  <2>2. CASE Create(p)
    <3>1. self[p].val \in [Props -> Int]
      BY <1>0, <2>2 DEF Create, HasWork, Thing
    <3> QED
      BY <1>0, <2>2, <3>1 DEF Create, RowHasBase
  <2>3. CASE Add(p)
    <3>1. op[p].prop \in Counters /\ op[p].amt \in Int
      BY <2>3, OpTyped DEF Add, HasWork
    <3> QED
      BY <1>0, <2>3, <3>1 DEF Add, Added, RowHasBase
  <2>4. CASE \/ \E v \in [Settable -> Values] : NewThing(p, v)
             \/ FetchHit(p) \/ FetchMiss(p) \/ NotFound(p) \/ Build(p) \/ Load(p)
             \/ Fill(p) \/ Forget(p) \/ \E x \in Settable, v \in Values : SetAttr(p, x, v)
             \/ StartCommit(p) \/ Sync(p) \/ Publish(p) \/ Release(p) \/ Incr(p) \/ Crash(p)
             \/ \E cleared \in BOOLEAN : Fail(p, cleared)
             \/ \E x \in Counters, n \in Amounts : StartIncr(p, x, n)
    BY <1>1, <2>4 DEF NewThing, FetchHit, FetchMiss, NotFound, Build, Load, Fill, Forget,
       SetAttr, StartCommit, Sync, Publish, Release, Incr, Crash, Fail, RolledBack, StartIncr
  <2> QED
    BY <1>2, <2>1, <2>2, <2>3, <2>4 DEF Step
<1>3. CASE Evict \/ LockLapses \/ UNCHANGED vars
  BY <1>1, <1>3 DEF Evict, LockLapses, vars
<1> QED
  BY <1>2, <1>3 DEF Next

\* While a thread has an object that is not in the database, no other thread
\* can come by one.
LEMMA UnsavedStep ==
    ASSUME TypeOK, HasWork, UnsavedIsAlone, [Next]_vars
    PROVE  UnsavedIsAlone'
<1>0. /\ pc \in [Procs -> Labels] /\ self \in [Procs -> Thing \cup {NoThing}]
      /\ cache \in Thing \cup {NoThing}
      /\ db \in [Props -> Int \cup {Nil}]
      /\ \A p \in Procs : self[p] # NoThing => self[p] \in Thing
      /\ \A p \in Procs : pc[p] \notin {"idle", "miss"} => self[p] # NoThing
  BY DEF TypeOK, HasWork
<1> DEFINE Created(c, P, S) ==
               /\ c # NoThing => c.created
               /\ \A p \in Procs : P[p] \notin {"idle", "miss"} => S[p].created
<1> USE DEF Goto, Become, Idle
<1>1. ASSUME NEW p \in Procs, Step(p)
      PROVE  Created(cache', pc', self')
  <2>0. Created(cache, pc, self)
    BY DEF UnsavedIsAlone
  <2>1. CASE \/ \E v \in [Settable -> Values] : NewThing(p, v)
             \/ FetchHit(p) \/ FetchMiss(p) \/ NotFound(p) \/ Forget(p)
             \/ \E x \in Settable, v \in Values : SetAttr(p, x, v)
    <3>1. pc'[p] \in {"idle", "miss"} /\ cache' = cache
      BY <1>0, <2>1 DEF NewThing, FetchHit, FetchMiss, NotFound, Forget, SetAttr
    <3>2. \A q \in Procs \ {p} : pc'[q] = pc[q]
      BY <1>0, <2>1 DEF NewThing, FetchHit, FetchMiss, NotFound, Forget, SetAttr
    <3> QED
      BY <1>1, <2>0, <3>1, <3>2, ObjectStep
  <2>2. CASE Build(p)
    <3>1. self'[p].created /\ cache' = cache
      BY <1>0, <2>2 DEF Build
    <3> QED
      BY <1>0, <2>0, <2>2, <3>1 DEF Build
  <2>7. CASE Fill(p)
    BY <1>0, <2>0, <2>7 DEF Fill
  <2>6. CASE Load(p)
    <3>1. self[p].created /\ self[p] \in Thing
      BY <1>0, <2>6 DEF Load
    <3>2. self'[p].created
      BY <1>0, <2>6, <3>1 DEF Load, Thing
    <3> QED
      BY <1>0, <2>0, <2>6, <3>2 DEF Load
  <2>8. CASE StartCommit(p)
    BY <1>0, <2>0, <2>8 DEF StartCommit, Thing
  <2>9. CASE \E x \in Counters, n \in Amounts : StartIncr(p, x, n)
    BY <1>0, <2>0, <2>9 DEF StartIncr
  <2>3. CASE Sync(p) \/ Incr(p)
    <3>1. self[p] \in Thing /\ self[p].created
      BY <1>0, <2>0, <2>3 DEF Sync, Incr
    <3>2. Synced(self[p], cache).created
      BY <1>0, <3>1 DEF Synced, Thing
    <3>3. Synced(self[p], cache) \in Thing
      BY <1>0, <3>1, SyncedObject
    <3>4. self'[p].created
      <4>2. CASE Sync(p)
        BY <1>0, <3>2, <4>2 DEF Sync
      <4>3. CASE Incr(p)
        <5>1. PICK t \in Thing : t = Synced(self[p], cache)
          BY <3>3
        <5>2. \/ self'[p] = [t EXCEPT !.val[op[p].prop] = t.val[op[p].prop] + op[p].amt]
              \/ self'[p] = [t EXCEPT !.val[op[p].prop] = t.val[op[p].prop] + op[p].amt,
                                      !.dirty[op[p].prop] = t.val[op[p].prop] + op[p].amt]
          BY <1>0, <4>3, <5>1 DEF Incr
        <5>3. t.created
          BY <3>2, <5>1
        <5>4. ASSUME NEW x, NEW v
              PROVE  /\ [t EXCEPT !.val[x] = v].created
                     /\ [t EXCEPT !.val[x] = v, !.dirty[x] = v].created
          BY <5>3 DEF Thing
        <5> QED
          BY <5>2, <5>4
      <4> QED
        BY <2>3, <4>2, <4>3
    <3>5. cache' = cache /\ \A q \in Procs \ {p} : pc'[q] = pc[q] /\ self'[q] = self[q]
      BY <1>0, <1>1, <2>3, ObjectStep DEF Sync, Incr
    <3> QED
      BY <2>0, <3>4, <3>5
  <2>4. CASE Write(p) \/ Create(p) \/ \E cleared \in BOOLEAN : Fail(p, cleared)
    <3>1. self[p] \in Thing /\ self[p].created
      BY <1>0, <2>0, <2>4 DEF Write, Create, Fail
    <3>2. cache' = cache /\ \A q \in Procs \ {p} : pc'[q] = pc[q] /\ self'[q] = self[q]
      BY <1>0, <1>1, <2>4, ObjectStep DEF Write, Create, Fail
    <3>3. self'[p].created
      <4>1. \E d : self'[p] = [self[p] EXCEPT !.dirty = d]
        <5>1. CASE Write(p)
          BY <1>0, <5>1 DEF Write
        <5>2. CASE Create(p)
          BY <1>0, <5>2 DEF Create
        <5>3. CASE \E cleared \in BOOLEAN : Fail(p, cleared)
          BY <1>0, <5>3 DEF Fail
        <5> QED
          BY <2>4, <5>1, <5>2, <5>3
      <4> QED
        BY <3>1, <4>1 DEF Thing
    <3> QED
      BY <2>0, <3>2, <3>3
  <2>5. CASE Publish(p) \/ Release(p) \/ Add(p) \/ Crash(p)
    BY <1>0, <2>0, <2>5 DEF Publish, Release, Add, Crash
  <2> QED
    BY <1>1, <2>1, <2>2, <2>3, <2>4, <2>5, <2>6, <2>7, <2>8, <2>9 DEF Step
<1> DEFINE Alone(q) == /\ ~row /\ cache = NoThing
                       /\ \A r \in Procs : self[r] # NoThing => r = q
                       /\ pc[q] \in {"idle", "create"}
                       /\ NewObject(self[q])
<1>2. ASSUME NEW p \in Procs, Step(p), NEW q \in Procs \ {p}, Unsaved(q)'
      PROVE  Alone(q)'
  <2>1. self'[q] = self[q] /\ pc'[q] = pc[q]
    <3>1. pc'[q] = pc[q]
      BY <1>0, <1>2 DEF Step, NewThing, FetchHit, FetchMiss, NotFound, Build, Load, Fill,
         Forget, SetAttr, StartCommit, Sync, Write, Create, Fail, Publish, Release,
         StartIncr, Incr, Add, Crash
    <3> QED
      BY <1>2, <3>1, ObjectStep
  <2>2. Alone(q) /\ self[q] # NoThing /\ self[p] = NoThing
    BY <1>2, <2>1 DEF UnsavedIsAlone, Unsaved
  <2>3. FetchMiss(p) \/ NotFound(p)
    BY <1>0, <1>2, <2>2 DEF Step, NewThing, FetchHit, Build, Load, Fill,
       Forget, SetAttr, StartCommit, Sync, Write, Create, Fail, Publish, Release,
       StartIncr, Incr, Add, Crash
  <2> QED
    BY <2>1, <2>2, <2>3 DEF FetchMiss, NotFound, NewObject, DirtyShows
<1>3. ASSUME NEW p \in Procs, Step(p), Unsaved(p)'
      PROVE  Alone(p)'
  <2>0. Unsaved(p) => Alone(p) /\ self[p] \in Thing
    BY <1>0 DEF UnsavedIsAlone, Unsaved
  <2>1. ASSUME NEW v \in [Settable -> Values], NewThing(p, v)
        PROVE  Alone(p)'
    <3>1. NewObject([created |-> FALSE, loaded |-> TRUE,
              val |-> [x \in Props |-> IF x \in Settable THEN v[x] ELSE 0],
              dirty |-> [x \in Props |-> IF x \in Settable \cap DataProps /\ v[x] # 0
                                         THEN v[x] ELSE Nil]])
      BY StoreConstants DEF NewObject, DirtyShows, Props
    <3> QED
      BY <1>0, <2>1, <3>1 DEF NewThing
  <2>2. ASSUME NEW x \in Settable, NEW v \in Values, SetAttr(p, x, v)
        PROVE  Alone(p)'
    <3>1. self[p] \in Thing /\ x \in Props /\ x \notin Counters /\ v \in Int /\ v # Nil
      BY <1>0, <2>2, Sorts DEF SetAttr
    <3>2. self'[p] = [self[p] EXCEPT !.val[x] = v, !.dirty[x] = v]
      BY <1>0, <2>2 DEF SetAttr
    <3>3. self'[p].created = self[p].created /\ pc' = pc
      BY <2>2, <3>1, <3>2 DEF SetAttr, Thing
    <3>4. NewObject(self[p])
      BY <1>0, <1>3, <2>0, <2>2, <3>3 DEF Unsaved, SetAttr
    <3>5. NewObject(self'[p])
      BY <3>1, <3>2, <3>4, Sorts DEF NewObject, DirtyShows, Thing
    <3> QED
      BY <1>0, <1>3, <2>0, <2>2, <3>3, <3>5 DEF SetAttr, Unsaved
  <2>3. CASE StartCommit(p)
    <3>1. Unsaved(p) /\ self'[p] = [self[p] EXCEPT !.created = TRUE] /\ pc'[p] = "create"
      BY <1>0, <1>3, <2>3 DEF StartCommit, Unsaved
    <3>2. NewObject(self'[p])
      BY <2>0, <3>1 DEF NewObject, DirtyShows, Thing
    <3> QED
      BY <1>0, <2>0, <2>3, <3>1, <3>2 DEF StartCommit
  <2>4. ASSUME FetchHit(p) \/ Build(p) \/ Fill(p) \/ Forget(p) \/ Crash(p)
        PROVE  FALSE
    <3>1. /\ cache # NoThing => cache.created
          /\ pc[p] = "fill" => self[p].created
      BY DEF UnsavedIsAlone
    <3>2. self'[p] # NoThing => self'[p].created
      <4>1. CASE FetchHit(p) \/ Fill(p)
        BY <1>0, <3>1, <4>1 DEF FetchHit, Fill
      <4>2. CASE Build(p)
        BY <1>0, <4>2 DEF Build
      <4>3. CASE Forget(p) \/ Crash(p)
        BY <1>0, <4>3 DEF Forget, Crash
      <4> QED
        BY <2>4, <4>1, <4>2, <4>3
    <3>3. pc'[p] # "create"
      BY <1>0, <2>4 DEF FetchHit, Build, Fill, Forget, Crash
    <3> QED
      BY <1>3, <3>2, <3>3 DEF Unsaved
  <2>5. ASSUME FetchMiss(p) \/ NotFound(p)
        PROVE  Alone(p)'
    BY <1>0, <1>3, <2>0, <2>5 DEF FetchMiss, NotFound, Unsaved, NewObject, DirtyShows
  <2>6. ASSUME \/ Load(p) \/ Sync(p) \/ Write(p) \/ Create(p) \/ Publish(p) \/ Release(p)
               \/ Incr(p) \/ Add(p) \/ \E cleared \in BOOLEAN : Fail(p, cleared)
               \/ \E x \in Counters, n \in Amounts : StartIncr(p, x, n)
        PROVE  FALSE
    <3>1. self'[p].created /\ pc'[p] # "create"
      <4>1. pc'[p] # "create"
        BY <1>0, <2>6 DEF Load, Sync, Write, Create, Publish, Release, Incr, Add, Fail, StartIncr
      <4>2. CASE pc'[p] \notin {"idle", "miss"}
        BY <1>1, <1>3, <4>1, <4>2
      <4>3. CASE pc'[p] \in {"idle", "miss"}
        <5>1. Release(p) \/ \E cleared \in BOOLEAN : Fail(p, cleared)
          BY <1>0, <2>6, <4>3 DEF Load, Sync, Write, Create, Publish, Incr, Add, StartIncr
        <5>2. self[p] \in Thing /\ self[p].created
          BY <1>0, <5>1 DEF Release, Fail, UnsavedIsAlone
        <5>3. CASE Release(p)
          BY <4>1, <5>2, <5>3 DEF Release
        <5>4. CASE \E cleared \in BOOLEAN : Fail(p, cleared)
          <6>1. \E d : self'[p] = [self[p] EXCEPT !.dirty = d]
            BY <1>0, <5>4 DEF Fail
          <6> QED
            BY <4>1, <5>2, <6>1 DEF Thing
        <5> QED
          BY <5>1, <5>3, <5>4
      <4> QED
        BY <4>1, <4>2, <4>3
    <3> QED
      BY <1>3, <3>1 DEF Unsaved
  <2> QED
    BY <1>3, <2>1, <2>2, <2>3, <2>4, <2>5, <2>6 DEF Step
<1>4. ASSUME NEW p \in Procs, Step(p)
      PROVE  UnsavedIsAlone'
  BY <1>1, <1>2, <1>3, <1>4 DEF UnsavedIsAlone
<1>5. CASE Evict \/ LockLapses \/ UNCHANGED vars
  BY <1>5 DEF Evict, LockLapses, vars, UnsavedIsAlone, Unsaved, NewObject, DirtyShows
<1> QED
  BY <1>4, <1>5 DEF Next

\* The facts that hold whatever goes wrong.
LEMMA ShapeAlways == Spec => [](TypeOK /\ Shape)
<1>1. Init => Shape
  BY Sorts DEF Init, Shape, HasWork, LockedInside, UnsavedIsAlone, Unsaved, RowHasBase,
     Inside, Lock!LockInit
<1>2. TypeOK /\ Shape /\ [Next]_vars => Shape'
  BY WorkStep, LockedStep, UnsavedStep, RowStep DEF Shape
<1> QED
  BY <1>1, <1>2, Typing, PTL DEF Spec

-----------------------------------------------------------------------------
LEMMA SlipsStay == [Next]_vars /\ NoSlip' => NoSlip
<1> SUFFICES ASSUME [Next]_vars, NoSlip' PROVE NoSlip
  OBVIOUS
<1>1. slips \subseteq slips'
  <2>1. ASSUME NEW p \in Procs, Step(p)
        PROVE  slips \subseteq slips'
    BY <2>1 DEF Step, NewThing, FetchHit, FetchMiss, NotFound, Build, Load, Fill, Forget,
       SetAttr, StartCommit, Sync, SyncSlips, Write, Create, Fail, Publish, Release, StartIncr,
       Incr, Add, Crash, Slip
  <2> QED
    BY <2>1 DEF Next, Evict, LockLapses, vars
<1>2. overrun => overrun'
  <2>1. ASSUME NEW p \in Procs, Step(p)
        PROVE  overrun' = overrun
    BY <2>1, LockUse DEF lock, Lock!Obtain, Lock!LetGo, Lock!Abandon
  <2>2. CASE LockLapses
    BY <2>2 DEF LockLapses, Lock!Lapse
  <2>3. CASE Evict \/ UNCHANGED vars
    BY <2>3 DEF Evict, lock, vars
  <2> QED
    BY <2>1, <2>2, <2>3 DEF Next
<1> QED
  BY <1>1, <1>2 DEF NoSlip

LEMMA ShownTyped ==
    ASSUME TypeOK
    PROVE  \A x \in Props : Shown(x) \in Int
  BY DEF TypeOK, Shown

\* What _sync_latest gives: a version whose clean part is what the database
\* has, with nothing dirty but what was dirty and is not in the database.
LEMMA SyncGives ==
    ASSUME TypeOK, NEW t \in Thing, NEW c \in Thing \cup {NoThing},
           c = NoThing => CleanPartCurrent(t) /\ DirtyShows(t),
           c # NoThing => Current(c),
           c # NoThing /\ ~c.loaded =>
               \A x \in DataProps : t.dirty[x] = Nil /\ (t.loaded => t.val[x] = Shown(x))
    PROVE  /\ CleanPartCurrent(Synced(t, c)) /\ DirtyShows(Synced(t, c))
           /\ Synced(t, c).loaded = t.loaded
           /\ \A x \in Props :
                \/ Synced(t, c).dirty[x] = t.dirty[x]
                \/ Synced(t, c).dirty[x] = Nil /\ t.dirty[x] = Shown(x)
<1>1. CASE c = NoThing
  BY <1>1 DEF Synced
<1>2. CASE c # NoThing
  <2> DEFINE v == [x \in Props |-> IF x \in BaseProps \/ c.loaded
                                   THEN c.val[x] ELSE t.val[x]]
             val == [x \in Props |-> IF t.dirty[x] # Nil THEN t.dirty[x] ELSE v[x]]
             dirty == [x \in Props |-> IF t.dirty[x] = v[x] THEN Nil ELSE t.dirty[x]]
  <2>1. c \in Thing /\ row
        /\ \A x \in Props : x \in BaseProps \/ c.loaded => c.val[x] = Shown(x)
    BY <1>2 DEF Current, CleanPartCurrent, Dirty, AllClean
  <2>2. PICK u : u = Synced(t, c)
    OBVIOUS
  <2>3. u = [t EXCEPT !.val = val, !.dirty = dirty]
    BY <1>2, <2>2 DEF Synced
  <2>4. u.val = val /\ u.dirty = dirty /\ u.loaded = t.loaded
    <3> HIDE DEF val, dirty
    <3> QED
      BY <2>3 DEF Thing
  <2>5. \A x \in Props :
          /\ v[x] \in Int /\ v[x] # Nil
          /\ x \in BaseProps \/ c.loaded => v[x] = Shown(x)
          /\ x \in DataProps /\ ~c.loaded => v[x] = t.val[x]
    BY <2>1, StoreConstants DEF Thing, Props
  <2> HIDE DEF v
  <2>6. \A x \in Props : /\ u.val[x] = IF t.dirty[x] # Nil THEN t.dirty[x] ELSE v[x]
                         /\ u.dirty[x] = IF t.dirty[x] = v[x] THEN Nil ELSE t.dirty[x]
    BY <2>4
  <2> HIDE DEF val, dirty
  <2>7. \A x \in Props : u.dirty[x] = Nil /\ (x \in BaseProps \/ u.loaded)
                         => u.val[x] = Shown(x)
    <3> TAKE x \in Props
    <3> HAVE u.dirty[x] = Nil /\ (x \in BaseProps \/ u.loaded)
    <3>1. CASE x \in BaseProps \/ c.loaded
      BY <2>5, <2>6, <3>1
    <3>2. CASE ~(x \in BaseProps \/ c.loaded)
      <4>1. x \in DataProps
        BY <3>2 DEF Props
      <4>2. t.loaded
        BY <2>4, <3>2
      <4>3. t.dirty[x] = Nil /\ t.val[x] = Shown(x)
        BY <1>2, <3>2, <4>1, <4>2
      <4> QED
        BY <2>5, <2>6, <3>2, <4>1, <4>3
    <3> QED
      BY <3>1, <3>2
  <2>8. \A x \in Props : \/ u.dirty[x] = t.dirty[x]
                         \/ u.dirty[x] = Nil /\ t.dirty[x] = Shown(x)
    <3> TAKE x \in Props
    <3>1. CASE x \in BaseProps \/ c.loaded
      BY <2>5, <2>6, <3>1
    <3>2. CASE ~(x \in BaseProps \/ c.loaded)
      <4>1. x \in DataProps /\ t.dirty[x] = Nil
        BY <1>2, <3>2 DEF Props
      <4> QED
        BY <2>5, <2>6, <4>1
    <3> QED
      BY <3>1, <3>2
  <2>9. DirtyShows(u)
    BY <2>6 DEF DirtyShows
  <2> QED
    BY <2>1, <2>2, <2>4, <2>7, <2>8, <2>9 DEF CleanPartCurrent
<1> QED
  BY <1>1, <1>2

\* A step that leaves the database alone, or is made inside the lock, does not
\* disturb the other threads.
LEMMA OthersStayGood ==
    ASSUME TypeOK, Shape, ~overrun, NEW p \in Procs, Step(p),
           UNCHANGED <<row, db>> \/ pc[p] \in Inside,
           NEW q \in Procs \ {p}, Good(q)
    PROVE  Good(q)'
<1>0. /\ self'[q] = self[q]
      /\ pc \in [Procs -> Labels] /\ op \in [Procs -> Op]
      /\ want \in [Procs -> [Props -> Int \cup {Nil}]]
  BY ObjectStep DEF Shape, TypeOK
<1>1. pc'[q] = pc[q] /\ op'[q] = op[q] /\ want'[q] = want[q]
  BY <1>0 DEF Step, NewThing, FetchHit, FetchMiss, NotFound, Build, Load, Fill,
     Forget, SetAttr, StartCommit, Sync, Write, Create, Fail, Publish, Release,
     StartIncr, Incr, Add, Crash, Goto
<1>2. ObjectOK(q)'
  BY <1>0, <1>1 DEF Good, ObjectOK, DirtyShows
<1>3. CASE UNCHANGED <<row, db>>
  <2>1. SyncOK(q)'
    BY <1>0, <1>1, <1>3 DEF Good, SyncOK, Target, Shown, Current, CleanPartCurrent, Dirty
  <2>2. WantOK(q)'
    BY <1>0, <1>1, <1>3 DEF Good, WantOK, Shown
  <2> QED
    BY <1>2, <2>1, <2>2 DEF Good
<1>4. CASE pc[p] \in Inside
  <2>1. pc[q] \notin Inside
    BY <1>4 DEF Shape, LockedInside
  <2>2. op[q] = NoOp
    BY <2>1 DEF Shape, HasWork
  <2>3. SyncOK(q)' /\ WantOK(q)'
    BY <1>1, <2>1, <2>2 DEF SyncOK, WantOK, Inside
  <2> QED
    BY <1>2, <2>3 DEF Good
<1> QED
  BY <1>3, <1>4

\* The facts a step starts from.
Before(p) ==
    /\ TypeOK /\ Shape
    /\ NoSlip /\ CacheOK /\ IncrsConserved /\ RowlessIsEmpty /\ Good(p)

\* Facts about one thread that most steps need.
LEMMA Thread ==
    ASSUME NEW p \in Procs, Before(p)
    PROVE  /\ pc[p] \in Labels /\ op[p] \in Op
           /\ pc \in [Procs -> Labels] /\ op \in [Procs -> Op]
           /\ self \in [Procs -> Thing \cup {NoThing}]
           /\ want \in [Procs -> [Props -> Int \cup {Nil}]]
           /\ cache \in Thing \cup {NoThing}
           /\ pc[p] \notin {"idle", "miss"} => self[p] \in Thing
           /\ self[p] # NoThing => self[p] \in Thing
           /\ pc[p] \notin Inside => op[p] = NoOp
  BY DEF Before, TypeOK, Shape, HasWork

\* Objects come and go.
LEMMA FetchGood ==
    ASSUME NEW p \in Procs, Before(p), NoSlip',
           \/ \E v \in [Settable -> Values] : NewThing(p, v)
           \/ FetchHit(p) \/ FetchMiss(p) \/ NotFound(p) \/ Build(p)
           \/ Load(p) \/ Fill(p) \/ Forget(p) \/ Crash(p)
    PROVE  Good(p)'
<1> USE Thread DEF Goto, Become, Idle, Inside
<1>1. op'[p] = NoOp /\ pc'[p] \in {"idle", "miss", "fill"}
  BY DEF NewThing, FetchHit, FetchMiss, NotFound, Build, Load, Fill, Forget, Crash
<1>2. SyncOK(p)' /\ WantOK(p)'
  BY <1>1 DEF SyncOK, WantOK
<1> SUFFICES ObjectOK(p)'
  BY <1>2 DEF Good
<1>3. ASSUME NEW v \in [Settable -> Values], NewThing(p, v)
      PROVE  ObjectOK(p)'
  <2>1. ASSUME NEW t, t = [created |-> FALSE, loaded |-> TRUE,
              val |-> [x \in Props |-> IF x \in Settable THEN v[x] ELSE 0],
              dirty |-> [x \in Props |-> IF x \in Settable \cap DataProps /\ v[x] # 0
                                         THEN v[x] ELSE Nil]]
        PROVE  DirtyShows(t) /\ \A x \in Counters : t.dirty[x] = Nil
    BY <2>1, Sorts DEF DirtyShows
  <2> QED
    BY <1>3, <2>1 DEF NewThing, ObjectOK
<1>4. CASE FetchHit(p)
  BY <1>4, Sorts DEF FetchHit, ObjectOK, Before, CacheOK, Dirty, AllClean, DirtyShows
<1>5. CASE FetchMiss(p) \/ NotFound(p)
  BY <1>5 DEF FetchMiss, NotFound, ObjectOK, Before, Good, DirtyShows
<1>6. CASE Build(p)
  BY <1>6, Sorts DEF Build, ObjectOK, AllClean, DirtyShows
<1>7. CASE Load(p)
  <2>1. self'[p].dirty = self[p].dirty /\ pc'[p] = "fill" /\ self[p] # NoThing /\ op[p] = NoOp
    BY <1>7 DEF Load, Thing
  <2> QED
    BY <1>1, <2>1 DEF ObjectOK, Before, Good
<1>8. CASE Fill(p)
  <2>1. Current(self[p]) /\ self' = self
    BY <1>8 DEF Fill, Slip, NoSlip
  <2>2. self[p].dirty = AllClean
    BY <2>1 DEF Current, Dirty
  <2> QED
    BY <2>1, <2>2, Sorts DEF ObjectOK, DirtyShows, AllClean
<1>9. CASE Forget(p) \/ Crash(p)
  BY <1>9 DEF Forget, Crash, ObjectOK
<1> QED
  BY <1>3, <1>4, <1>5, <1>6, <1>7, <1>8, <1>9

\* The caller assigns, and goes for the lock.
LEMMA StartGood ==
    ASSUME NEW p \in Procs, Before(p),
           \/ \E x \in Settable, v \in Values : SetAttr(p, x, v)
           \/ StartCommit(p)
           \/ \E x \in Counters, n \in Amounts : StartIncr(p, x, n)
    PROVE  Good(p)'
<1> USE Thread DEF Goto, Become, Idle, Inside
<1>0. self[p] \in Thing /\ ObjectOK(p) /\ op[p] = NoOp
  BY DEF SetAttr, StartCommit, StartIncr, Before, Good
<1>1. ASSUME NEW x \in Settable, NEW v \in Values, SetAttr(p, x, v)
      PROVE  Good(p)'
  <2>1. x \in Props /\ x \notin Counters /\ v \in Int
    BY Sorts
  <2>2. self'[p] = [self[p] EXCEPT !.val[x] = v, !.dirty[x] = v] /\ pc' = pc /\ op' = op
    BY <1>1 DEF SetAttr
  <2>3. \A y \in Props : /\ self'[p].val[y] = IF y = x THEN v ELSE self[p].val[y]
                         /\ self'[p].dirty[y] = IF y = x THEN v ELSE self[p].dirty[y]
    BY <1>0, <2>1, <2>2 DEF Thing
  <2>4. DirtyShows(self[p]) /\ \A y \in Counters : self[p].dirty[y] = Nil
    BY <1>0, <1>1 DEF SetAttr, ObjectOK
  <2>5. ObjectOK(p)'
    BY <2>1, <2>3, <2>4, Sorts DEF ObjectOK, DirtyShows
  <2> QED
    BY <1>0, <1>1, <2>2, <2>5 DEF Good, SyncOK, WantOK, SetAttr
<1>2. CASE StartCommit(p)
  <2>1. /\ self'[p].val = self[p].val /\ self'[p].dirty = self[p].dirty
        /\ self'[p] # NoThing
    <3>1. PICK t \in Thing : t = self[p]
      BY <1>0
    <3>2. self'[p] = t \/ self'[p] = [t EXCEPT !.created = TRUE]
      BY <1>2, <3>1 DEF StartCommit
    <3>3. [t EXCEPT !.created = TRUE] # NoThing
      BY ChangedObjects, Sorts
    <3> QED
      BY <1>0, <3>1, <3>2, <3>3, Sorts DEF Thing
  <2>2. pc'[p] \in {"sync", "create"} /\ op' = op /\ want'[p] = self[p].dirty
    BY <1>0, <1>2 DEF StartCommit
  <2>3. ObjectOK(p)'
    BY <1>0, <1>2, <2>1, <2>2 DEF ObjectOK, DirtyShows, StartCommit
  <2> QED
    BY <1>0, <2>1, <2>2, <2>3 DEF Good, SyncOK, WantOK
<1>3. ASSUME NEW x \in Counters, NEW n \in Amounts, StartIncr(p, x, n)
      PROVE  Good(p)'
  <2>1. /\ self' = self /\ pc'[p] = "incr" /\ op'[p] = [prop |-> x, amt |-> n]
        /\ want'[p] = AllClean /\ ~Dirty(self[p]) /\ (x \in BaseProps \/ self[p].loaded)
    BY <1>3 DEF StartIncr
  <2>2. ObjectOK(p)'
    BY <1>0, <1>3, <2>1 DEF ObjectOK, DirtyShows, StartIncr
  <2>3. SyncOK(p)'
    BY <2>1 DEF SyncOK, Dirty
  <2>4. WantOK(p)'
    BY <2>1, Sorts DEF WantOK, AllClean
  <2> QED
    BY <2>2, <2>3, <2>4 DEF Good
<1> QED
  BY <1>1, <1>2, <1>3

\* Nobody else is inside: while one thread is at "sync" the cache is current.
LEMMA SyncMeetsCurrent ==
    ASSUME NEW p \in Procs, Before(p), pc[p] \in Inside \ {"publish", "republish"}
    PROVE  cache # NoThing => Current(cache)
<1>1. \A q \in Procs : pc[q] \notin {"publish", "republish"}
  BY DEF Before, Shape, LockedInside, NoSlip, Inside
<1> QED
  BY <1>1 DEF Before, CacheOK, Current

\* What a sync that slips nowhere gives the thread.
LEMMA SyncedGood ==
    ASSUME NEW p \in Procs, Before(p), pc[p] \in {"sync", "incr"}, SyncSlips(p), NoSlip'
    PROVE  LET u == Synced(self[p], cache) IN
           /\ u \in Thing
           /\ CleanPartCurrent(u) /\ DirtyShows(u)
           /\ u.loaded = self[p].loaded
           /\ \A x \in Props :
                \/ u.dirty[x] = self[p].dirty[x]
                \/ u.dirty[x] = Nil /\ self[p].dirty[x] = Shown(x)
           /\ \A x \in Props : self[p].dirty[x] # Nil /\ u.dirty[x] = Nil
                => cache # NoThing /\ (x \in BaseProps \/ cache.loaded)
<1>1. self[p] \in Thing /\ cache \in Thing \cup {NoThing}
  BY Thread
<1>2. /\ cache = NoThing => CleanPartCurrent(self[p])
      /\ cache # NoThing /\ ~cache.loaded =>
            \A x \in DataProps : /\ self[p].dirty[x] = Nil
                                 /\ self[p].loaded => self[p].val[x] = Shown(x)
  BY DEF SyncSlips, NoSlip
<1>3. DirtyShows(self[p])
  BY <1>1, Sorts DEF Before, Good, ObjectOK
<1>4. cache # NoThing => Current(cache)
  BY SyncMeetsCurrent DEF Inside
<1>5. TypeOK
  BY DEF Before
<1>6. \A x \in Props : self[p].dirty[x] # Nil /\ Synced(self[p], cache).dirty[x] = Nil
                => cache # NoThing /\ (x \in BaseProps \/ cache.loaded)
  <2> TAKE x \in Props
  <2> HAVE self[p].dirty[x] # Nil /\ Synced(self[p], cache).dirty[x] = Nil
  <2>1. cache # NoThing
    BY DEF Synced
  <2>2. x \in DataProps => cache.loaded
    BY <1>2, <2>1
  <2> QED
    BY <2>1, <2>2 DEF Props
<1> QED
  BY <1>1, <1>2, <1>3, <1>4, <1>5, <1>6, SyncGives, SyncedObject

\* The sync of a _commit, plain or nested in an _incr.
LEMMA SyncIsGood ==
    ASSUME NEW p \in Procs, Before(p), Sync(p), NoSlip'
    PROVE  /\ Good(p)'
           /\ op[p] # NoOp => pc'[p] = "write"
<1>u. PICK u : u = Synced(self[p], cache)
  OBVIOUS
<1>0. /\ pc[p] = "sync" /\ SyncSlips(p) /\ self[p] \in Thing
      /\ self'[p] = u /\ UNCHANGED <<row, db, cache, op, want>>
      /\ IF Dirty(u) THEN pc'[p] = "write" ELSE pc'[p] = "publish"
  BY <1>u, Thread DEF Sync, Become, Goto
<1>1. /\ u \in Thing
      /\ CleanPartCurrent(u) /\ DirtyShows(u)
      /\ u.loaded = self[p].loaded
      /\ \A x \in Props : \/ u.dirty[x] = self[p].dirty[x]
                          \/ u.dirty[x] = Nil /\ self[p].dirty[x] = Shown(x)
  BY <1>u, <1>0, SyncedGood
<1>2. ObjectOK(p) /\ SyncOK(p) /\ WantOK(p) /\ TypeOK
  BY DEF Before, Good
<1>3. CleanPartCurrent(u)'
  BY <1>0, <1>1 DEF CleanPartCurrent, Shown
<1>4. ObjectOK(p)'
  <2>1. op[p] = NoOp => \A x \in Counters : u.dirty[x] = Nil
    BY <1>0, <1>1, <1>2, Sorts DEF ObjectOK
  <2> QED
    BY <1>0, <1>1, <2>1 DEF ObjectOK, DirtyShows
<1>5. ASSUME op[p] # NoOp
      PROVE  /\ u.dirty[op[p].prop] = Target(p)
             /\ \A x \in Counters \ {op[p].prop} : u.dirty[x] = Nil
             /\ Dirty(u)
  <2>1. op[p].prop \in Counters /\ op[p].amt # 0 /\ op[p].amt \in Int
    BY <1>2, <1>5, OpTyped DEF Before, Shape, HasWork
  <2>2. /\ self[p].dirty[op[p].prop] = Target(p)
        /\ \A x \in Counters \ {op[p].prop} : self[p].dirty[x] = Nil
    BY <1>0, <1>2, <1>5 DEF SyncOK
  <2>3. Shown(op[p].prop) \in Int /\ op[p].prop \in Props
    BY <1>2, <2>1, ShownTyped, Sorts
  <2>4. Target(p) # Shown(op[p].prop) /\ Target(p) # Nil
    BY <2>1, <2>3, Sorts DEF Target
  <2>5. u.dirty[op[p].prop] = Target(p)
    BY <1>1, <2>2, <2>3, <2>4
  <2>6. \A x \in Counters \ {op[p].prop} : u.dirty[x] = Nil
    BY <1>1, <2>2, Sorts
  <2>7. Dirty(u)
    BY <2>3, <2>4, <2>5 DEF Dirty, AllClean
  <2> QED
    BY <2>5, <2>6, <2>7
<1>6. SyncOK(p)'
  <2>1. Target(p)' = Target(p)
    BY <1>0 DEF Target, Shown
  <2>2. CASE Dirty(u)
    BY <1>0, <1>3, <1>5, <2>1, <2>2 DEF SyncOK
  <2>3. CASE ~Dirty(u)
    BY <1>0, <1>3, <1>5, <2>3 DEF SyncOK, Current, Dirty
  <2> QED
    BY <2>2, <2>3
<1>7. WantOK(p)'
  <2>1. CASE op[p] # NoOp
    BY <1>0, <1>2, <2>1 DEF WantOK, AllClean
  <2>2. CASE op[p] = NoOp
    <3>1. self[p].dirty = want[p]
      BY <1>0, <1>2, <2>2 DEF SyncOK
    <3>2. \A x \in Props : want[p][x] # Nil =>
            u.dirty[x] = want[p][x] \/ (u.dirty[x] = Nil /\ Shown(x) = want[p][x])
      BY <1>1, <3>1
    <3>3. \A x \in Props : ~Dirty(u) => u.dirty[x] = Nil
      BY DEF Dirty, AllClean
    <3> QED
      BY <1>0, <2>2, <3>2, <3>3 DEF WantOK, Shown
  <2> QED
    BY <2>1, <2>2
<1> QED
  BY <1>0, <1>4, <1>5, <1>6, <1>7 DEF Good

\* The transaction commits: the database has what was dirty, and the rest of
\* the object was current.
LEMMA WriteIsGood ==
    ASSUME NEW p \in Procs, Before(p), Write(p), NoSlip'
    PROVE  Good(p)' /\ IncrsConserved' /\ row
<1>u. PICK t \in Thing : t = self[p]
  BY Thread DEF Write
<1>0. /\ pc[p] = "write" /\ row
      /\ self'[p] = [t EXCEPT !.dirty = AllClean] /\ pc'[p] = "publish"
      /\ UNCHANGED <<row, op, want>>
      /\ db' = [x \in Props |-> IF t.dirty[x] # Nil THEN t.dirty[x] ELSE db[x]]
      /\ applied' = IF op[p] = NoOp THEN applied
                    ELSE [applied EXCEPT ![op[p].prop] = @ + op[p].amt]
  <2>1. row
    BY DEF Write, Slip, NoSlip
  <2> QED
    BY <1>u, <2>1, Thread DEF Write, Become, Goto, Written
<1>1. ObjectOK(p) /\ SyncOK(p) /\ WantOK(p) /\ TypeOK /\ IncrsConserved /\ NoSlip
  BY DEF Before, Good
<1>2. /\ self'[p].val = t.val /\ self'[p].dirty = AllClean /\ self'[p].loaded = t.loaded
  BY <1>0 DEF Thing
<1>3. \A x \in Props : Shown(x)' = IF t.dirty[x] # Nil THEN t.dirty[x] ELSE Shown(x)
  BY <1>0 DEF Shown
<1>4. \A x \in Props :
        /\ t.dirty[x] # Nil => t.val[x] = t.dirty[x]
        /\ t.dirty[x] = Nil /\ (x \in BaseProps \/ t.loaded) => t.val[x] = Shown(x)
  BY <1>u, <1>0, <1>1, Sorts DEF ObjectOK, SyncOK, DirtyShows, CleanPartCurrent
<1>5. Current(self[p])'
  BY <1>0, <1>2, <1>3, <1>4 DEF Current, CleanPartCurrent, Dirty
<1>6. ObjectOK(p)' /\ SyncOK(p)'
  BY <1>0, <1>2, <1>5, Sorts DEF ObjectOK, SyncOK, DirtyShows, AllClean
<1>7. WantOK(p)'
  <2>1. \A x \in Props : want[p][x] # Nil => Shown(x)' = want[p][x]
    BY <1>u, <1>0, <1>1, <1>3 DEF WantOK
  <2> QED
    BY <1>0, <1>1, <2>1 DEF WantOK
<1>8. IncrsConserved'
  <2>1. \A x \in Counters : Shown(x) = applied[x] /\ x \in Props
    BY <1>1, Sorts DEF IncrsConserved
  <2>2. CASE op[p] = NoOp
    <3>1. \A x \in Counters : t.dirty[x] = Nil
      BY <1>u, <1>1, <2>2, Sorts DEF ObjectOK
    <3> QED
      BY <1>0, <1>3, <2>1, <2>2, <3>1 DEF IncrsConserved
  <2>3. CASE op[p] # NoOp
    <3>1. /\ op[p].prop \in Counters
          /\ t.dirty[op[p].prop] = Shown(op[p].prop) + op[p].amt
          /\ t.dirty[op[p].prop] # Nil
          /\ \A x \in Counters \ {op[p].prop} : t.dirty[x] = Nil
      <4>1. op[p].prop \in Counters /\ op[p].amt \in Int
        BY <1>1, <2>3, OpTyped DEF Before, Shape, HasWork
      <4>2. Shown(op[p].prop) \in Int
        BY <1>1, <4>1, ShownTyped, Sorts
      <4>3. /\ t.dirty[op[p].prop] = Shown(op[p].prop) + op[p].amt
            /\ \A x \in Counters \ {op[p].prop} : t.dirty[x] = Nil
        BY <1>u, <1>0, <1>1, <2>3 DEF SyncOK, Target
      <4>4. Shown(op[p].prop) + op[p].amt # Nil
        BY <4>1, <4>2, Sorts
      <4> QED
        BY <4>1, <4>3, <4>4
    <3>2. applied' = [applied EXCEPT ![op[p].prop] = @ + op[p].amt]
      BY <1>0, <2>3
    <3>3. applied \in [Counters -> Int]
      BY <1>1 DEF TypeOK
    <3> QED
      BY <1>3, <2>1, <3>1, <3>2, <3>3 DEF IncrsConserved
  <2> QED
    BY <2>2, <2>3
<1> QED
  BY <1>0, <1>6, <1>7, <1>8 DEF Good

\* A new object appears in the database as it is.
LEMMA CreateIsGood ==
    ASSUME NEW p \in Procs, Before(p), Create(p), NoSlip'
    PROVE  Good(p)' /\ IncrsConserved' /\ row' /\ cache' = NoThing
<1>u. PICK t \in Thing : t = self[p]
  BY Thread DEF Create
<1>0. /\ pc[p] = "create" /\ row' = TRUE
      /\ self'[p] = [t EXCEPT !.dirty = AllClean] /\ pc'[p] = "publish"
      /\ UNCHANGED <<op, want, applied, cache>>
      /\ db' = [x \in Props |-> IF x \in BaseProps THEN t.val[x] ELSE t.dirty[x]]
  BY <1>u, Thread DEF Create, Become, Goto
<1>1. ObjectOK(p) /\ SyncOK(p) /\ WantOK(p) /\ TypeOK /\ IncrsConserved /\ NoSlip /\ RowlessIsEmpty
  BY DEF Before, Good
<1>2. /\ self'[p].val = t.val /\ self'[p].dirty = AllClean /\ self'[p].loaded = t.loaded
  BY <1>0 DEF Thing
<1>3. NewObject(t) /\ ~row /\ cache = NoThing /\ op[p] = NoOp
  BY <1>u, <1>0, Sorts DEF Before, Shape, UnsavedIsAlone, Unsaved, HasWork
<1>4. \A x \in Props :
        /\ t.val[x] \in Int /\ Shown(x)' = t.val[x]
        /\ t.dirty[x] # Nil => Shown(x)' = t.dirty[x]
  <2> TAKE x \in Props
  <2>1. t.val[x] \in Int /\ t.val[x] # Nil
    BY Sorts DEF Thing
  <2>2. t.dirty[x] # Nil => t.val[x] = t.dirty[x]
    BY <1>3 DEF NewObject, DirtyShows
  <2>3. x \notin BaseProps /\ t.dirty[x] = Nil => t.val[x] = 0
    BY <1>3 DEF NewObject, Props
  <2>4. db'[x] = IF x \in BaseProps THEN t.val[x] ELSE t.dirty[x]
    BY <1>0
  <2> QED
    BY <2>1, <2>2, <2>3, <2>4 DEF Shown
<1>5. Current(self[p])'
  BY <1>0, <1>2, <1>4 DEF Current, CleanPartCurrent, Dirty
<1>6. ObjectOK(p)' /\ SyncOK(p)'
  BY <1>0, <1>2, <1>5, Sorts DEF ObjectOK, SyncOK, DirtyShows, AllClean
<1>7. WantOK(p)'
  <2>1. t.dirty = want[p]
    BY <1>u, <1>0, <1>1, <1>3 DEF SyncOK
  <2>2. \A x \in Props : want[p][x] # Nil => Shown(x)' = want[p][x]
    BY <1>4, <2>1
  <2> QED
    BY <1>0, <1>3, <2>2 DEF WantOK
<1>8. IncrsConserved'
  <2>1. \A x \in Counters : x \in Props /\ t.val[x] = 0
    BY <1>3, Sorts DEF NewObject
  <2>2. \A x \in Counters : applied[x] = 0
    BY <1>1, <1>3, <2>1 DEF IncrsConserved, RowlessIsEmpty, Shown
  <2> QED
    BY <1>0, <1>4, <2>1, <2>2 DEF IncrsConserved
<1> QED
  BY <1>0, <1>3, <1>6, <1>7, <1>8 DEF Good

\* The increment that the database makes is the one the object shows already.
LEMMA AddIsGood ==
    ASSUME NEW p \in Procs, Before(p), Add(p), NoSlip'
    PROVE  Good(p)' /\ IncrsConserved' /\ row
<1>u. PICK t \in Thing : t = self[p]
  BY Thread DEF Add
<1>1. ObjectOK(p) /\ SyncOK(p) /\ WantOK(p) /\ TypeOK /\ IncrsConserved /\ NoSlip
  BY DEF Before, Good
<1>x. PICK x \in Counters, n \in Int : x = op[p].prop /\ n = op[p].amt
  BY <1>1, OpTyped DEF Add, Before, Shape, HasWork
<1>0. /\ pc[p] = "add" /\ row /\ x \in Props
      /\ self' = self /\ pc'[p] = "republish"
      /\ UNCHANGED <<row, op, want>>
      /\ db' = [db EXCEPT ![x] = IF @ = Nil THEN Nil ELSE @ + n]
      /\ applied' = [applied EXCEPT ![x] = @ + n]
  BY <1>1, <1>x, Thread, Sorts DEF Add, Added, Goto, SyncOK
<1>2. /\ db[x] # Nil /\ ~Dirty(t) /\ t.val[x] = Shown(x) + n
      /\ \A y \in Props \ {x} : y \in BaseProps \/ t.loaded => t.val[y] = Shown(y)
  BY <1>u, <1>x, <1>0, <1>1 DEF SyncOK, Target
<1>3. db[x] \in Int /\ Shown(x) = db[x] /\ db[x] + n # Nil
  BY <1>0, <1>1, <1>2, Sorts DEF TypeOK, Shown
<1>4. /\ Shown(x)' = Shown(x) + n
      /\ \A y \in Props \ {x} : Shown(y)' = Shown(y)
  <2>1. db'[x] = db[x] + n /\ \A y \in Props \ {x} : db'[y] = db[y]
    BY <1>0, <1>1, <1>2 DEF TypeOK
  <2> QED
    BY <1>3, <2>1 DEF Shown
<1>5. Current(self[p])'
  BY <1>u, <1>0, <1>2, <1>4 DEF Current, CleanPartCurrent, Dirty
<1>6. ObjectOK(p)'
  BY <1>0, <1>1 DEF ObjectOK, DirtyShows
<1>7. SyncOK(p)' /\ WantOK(p)'
  <2>1. op[p] # NoOp
    BY <1>x, Sorts DEF NoOp
  <2> QED
    BY <1>0, <1>1, <1>5, <2>1 DEF SyncOK, WantOK, AllClean
<1>8. IncrsConserved'
  <2>1. \A y \in Counters : Shown(y) = applied[y] /\ y \in Props
    BY <1>1, Sorts DEF IncrsConserved
  <2>2. applied \in [Counters -> Int]
    BY <1>1 DEF TypeOK
  <2> QED
    BY <1>0, <1>4, <2>1, <2>2 DEF IncrsConserved
<1> QED
  BY <1>0, <1>6, <1>7, <1>8 DEF Good

\* An _incr brings its object up to date and decides how to write.
LEMMA IncrIsGood ==
    ASSUME NEW p \in Procs, Before(p), Incr(p), NoSlip'
    PROVE  Good(p)'
<1>u. PICK t \in Thing : t = Synced(self[p], cache)
  BY Thread, SyncedObject DEF Incr
<1>1. ObjectOK(p) /\ SyncOK(p) /\ WantOK(p) /\ TypeOK
  BY DEF Before, Good
<1>x. PICK x \in Counters, n \in Int : x = op[p].prop /\ n = op[p].amt
  BY <1>1, OpTyped DEF Incr, Before, Shape, HasWork
<1>0. /\ pc[p] = "incr" /\ SyncSlips(p) /\ x \in Props /\ t.val[x] \in Int
      /\ UNCHANGED <<row, db, cache, op, want>>
      /\ IF IsAssigned(x, t.val[x])
         THEN /\ self'[p] = [t EXCEPT !.val[x] = t.val[x] + n, !.dirty[x] = t.val[x] + n]
              /\ pc'[p] = "sync"
         ELSE /\ self'[p] = [t EXCEPT !.val[x] = t.val[x] + n]
              /\ pc'[p] = "add"
  <2>1. pc[p] = "incr" /\ SyncSlips(p) /\ UNCHANGED <<row, db, cache, op, want>>
    BY DEF Incr
  <2>2. x \in Props /\ t.val[x] \in Int
    BY Sorts DEF Thing
  <2>3. CASE IsAssigned(x, t.val[x])
    <3>1. /\ Become(p, [t EXCEPT !.val[x] = t.val[x] + n, !.dirty[x] = t.val[x] + n])
          /\ Goto(p, "sync")
      BY <1>u, <1>x, <2>3 DEF Incr
    <3> QED
      BY <2>1, <2>2, <2>3, <3>1, Thread DEF Become, Goto
  <2>4. CASE ~IsAssigned(x, t.val[x])
    <3>1. /\ Become(p, [t EXCEPT !.val[x] = t.val[x] + n])
          /\ Goto(p, "add")
      BY <1>u, <1>x, <2>4 DEF Incr
    <3> QED
      BY <2>1, <2>2, <2>4, <3>1, Thread DEF Become, Goto
  <2> QED
    BY <2>3, <2>4
<1>2. /\ CleanPartCurrent(t) /\ t.loaded = self[p].loaded
      /\ \A y \in Props : t.dirty[y] = Nil
  <2>1. self[p].dirty = AllClean
    BY <1>0, <1>1 DEF SyncOK, Dirty
  <2> QED
    BY <1>u, <1>0, <2>1, SyncedGood DEF AllClean
<1>3. (x \in BaseProps \/ t.loaded) /\ t.val[x] = Shown(x)
  <2>1. x \in BaseProps \/ t.loaded
    BY <1>x, <1>0, <1>1, <1>2 DEF SyncOK
  <2> QED
    BY <1>0, <1>2, <2>1 DEF CleanPartCurrent
<1>4. op[p] # NoOp /\ op[p].prop = x /\ Target(p)' = Shown(x) + n /\ want[p] = AllClean
  BY <1>x, <1>0, <1>1, Sorts DEF NoOp, Target, Shown, WantOK
<1>5. WantOK(p)'
  BY <1>0, <1>4 DEF WantOK, AllClean
<1>6. CASE IsAssigned(x, t.val[x])
  <2>1. \A y \in Props :
          /\ self'[p].val[y] = IF y = x THEN Shown(x) + n ELSE t.val[y]
          /\ self'[p].dirty[y] = IF y = x THEN Shown(x) + n ELSE Nil
    <3>1. PICK v : v = Shown(x) + n
      OBVIOUS
    <3>2. self'[p] = [t EXCEPT !.val[x] = v, !.dirty[x] = v]
      BY <1>0, <1>3, <1>6, <3>1
    <3>3. /\ self'[p].val = [t.val EXCEPT ![x] = v]
          /\ self'[p].dirty = [t.dirty EXCEPT ![x] = v]
      BY <3>2 DEF Thing
    <3> QED
      BY <1>2, <3>1, <3>3 DEF Thing
  <2>2. self'[p].loaded = t.loaded
    BY <1>0, <1>6 DEF Thing
  <2>3. ObjectOK(p)'
    BY <1>0, <1>4, <2>1 DEF ObjectOK, DirtyShows
  <2>4. SyncOK(p)'
    BY <1>0, <1>3, <1>4, <1>6, <2>1, <2>2, Sorts DEF SyncOK
  <2> QED
    BY <1>5, <2>3, <2>4 DEF Good
<1>7. CASE ~IsAssigned(x, t.val[x])
  <2>1. \A y \in Props : self'[p].val[y] = IF y = x THEN Shown(x) + n ELSE t.val[y]
    BY <1>0, <1>3, <1>7 DEF Thing
  <2>2. self'[p].loaded = t.loaded /\ self'[p].dirty = t.dirty
    BY <1>0, <1>7 DEF Thing
  <2>3. self'[p].dirty = AllClean
    <3>1. t.dirty = [y \in Props |-> t.dirty[y]]
      BY DEF Thing
    <3> QED
      BY <1>2, <2>2, <3>1 DEF AllClean
  <2>4. row /\ db[x] # Nil
    <3>1. row
      BY <1>2 DEF CleanPartCurrent
    <3>2. CASE x \in BaseProps
      BY <3>1, <3>2 DEF Before, Shape, RowHasBase
    <3>3. CASE x \notin BaseProps
      <4>1. x \in Defaulted
        BY <1>0, <3>3, StoreConstants DEF Props
      <4>2. Shown(x) # 0
        BY <1>3, <1>7, <4>1 DEF IsAssigned
      <4> QED
        BY <3>1, <4>2 DEF Shown
    <3> QED
      BY <3>1, <3>2, <3>3
  <2>5. ObjectOK(p)'
    BY <1>0, <1>2, <1>4, <2>2, <2>3, Sorts DEF ObjectOK, DirtyShows, AllClean
  <2>6. \A y \in Props \ {x} : y \in BaseProps \/ t.loaded => t.val[y] = Shown(y)
    BY <1>2 DEF CleanPartCurrent
  <2>7. SyncOK(p)'
    <3>1. pc'[p] = "add" /\ row' /\ db'[x] # Nil /\ op'[p] = op[p]
      BY <1>0, <1>7, <2>4
    <3>2. self'[p].val[x] = Target(p)'
      BY <1>0, <1>4, <2>1
    <3>3. \A y \in Props \ {x} : y \in BaseProps \/ self'[p].loaded
             => self'[p].val[y] = Shown(y)'
      BY <1>0, <2>1, <2>2, <2>6 DEF Shown
    <3> QED
      BY <1>4, <2>3, <3>1, <3>2, <3>3 DEF SyncOK, Dirty
  <2> QED
    BY <1>5, <2>5, <2>7 DEF Good
<1> QED
  BY <1>6, <1>7

\* Publishing, leaving, failing.
LEMMA LeaveGood ==
    ASSUME NEW p \in Procs, Before(p), NoSlip',
           Publish(p) \/ Release(p) \/ \E cleared \in BOOLEAN : Fail(p, cleared)
    PROVE  Good(p)'
<1> USE Thread DEF Goto, Become, Inside
<1>0. ObjectOK(p) /\ SyncOK(p) /\ WantOK(p)
  BY DEF Before, Good
<1>1. CASE Publish(p)
  <2>1. /\ pc[p] \in {"publish", "republish"} /\ UNCHANGED <<row, db, self, op, want>>
        /\ pc'[p] \in {"republish", "release"}
    BY <1>1 DEF Publish
  <2>2. Current(self[p])
    BY <1>0, <2>1 DEF SyncOK
  <2>3. ObjectOK(p)'
    BY <1>0, <2>1 DEF ObjectOK, DirtyShows
  <2>4. SyncOK(p)'
    BY <2>1, <2>2 DEF SyncOK, Current, CleanPartCurrent, Dirty, Shown
  <2>5. WantOK(p)'
    BY <1>0, <2>1 DEF WantOK, Shown
  <2> QED
    BY <2>3, <2>4, <2>5 DEF Good
<1>2. CASE Release(p)
  <2>1. /\ pc[p] = "release" /\ self' = self /\ pc'[p] = "idle" /\ op'[p] = NoOp
    BY <1>2 DEF Release
  <2>2. self[p].dirty = AllClean
    BY <1>0, <2>1 DEF SyncOK, Dirty
  <2> QED
    BY <2>1, <2>2, Sorts DEF Good, ObjectOK, SyncOK, WantOK, DirtyShows, AllClean
<1>3. ASSUME NEW cleared \in BOOLEAN, Fail(p, cleared)
      PROVE  Good(p)'
  <2>1. /\ pc[p] \in {"write", "create", "add"} /\ self[p] \in Thing
        /\ pc'[p] = "idle" /\ op'[p] = NoOp
        /\ self'[p] = [self[p] EXCEPT !.dirty = IF cleared THEN AllClean ELSE @]
        /\ ~(pc[p] = "write" /\ op[p] # NoOp /\ ~cleared)
    BY <1>3 DEF Fail, Slip, NoSlip
  <2>2. /\ self'[p].val = self[p].val
        /\ self'[p].dirty = IF cleared THEN AllClean ELSE self[p].dirty
    BY <2>1 DEF Thing
  <2>3. ~cleared => \A x \in Counters : self[p].dirty[x] = Nil
    <3>1. CASE op[p] = NoOp
      BY <1>0, <2>1, <3>1, Sorts DEF ObjectOK
    <3>2. CASE pc[p] = "add"
      BY <1>0, <3>2, Sorts DEF SyncOK, Dirty, AllClean
    <3>3. pc[p] = "create" => op[p] = NoOp
      BY DEF Before, Shape, HasWork
    <3> QED
      BY <2>1, <3>1, <3>2, <3>3
  <2>4. DirtyShows(self[p])
    BY <1>0, <2>1, Sorts DEF ObjectOK
  <2>5. ObjectOK(p)'
    BY <2>1, <2>2, <2>3, <2>4, Sorts DEF ObjectOK, DirtyShows, AllClean
  <2> QED
    BY <2>1, <2>5 DEF Good, SyncOK, WantOK
<1> QED
  BY <1>1, <1>2, <1>3

\* The totals change only together with what the database shows.
LEMMA TotalsKept ==
    ASSUME NEW p \in Procs, Before(p), Step(p), NoSlip'
    PROVE  IncrsConserved'
<1>1. CASE Write(p)
  BY <1>1, WriteIsGood
<1>2. CASE Create(p)
  BY <1>2, CreateIsGood
<1>3. CASE Add(p)
  BY <1>3, AddIsGood
<1>4. CASE Sync(p)
  <2>1. op[p] # NoOp => pc'[p] = "write"
    BY <1>4, SyncIsGood
  <2>2. applied' = applied /\ db' = db
    <3>1. CASE op[p] = NoOp
      BY <1>4, <3>1 DEF Sync
    <3>2. CASE op[p] # NoOp
      BY <1>4, <2>1, <3>2, Thread DEF Sync, Goto
    <3> QED
      BY <3>1, <3>2
  <2> QED
    BY <2>2 DEF Before, IncrsConserved, Shown
<1>5. CASE UNCHANGED <<db, applied>>
  BY <1>5 DEF Before, IncrsConserved, Shown
<1> QED
  BY <1>1, <1>2, <1>3, <1>4, <1>5 DEF Step, NewThing, FetchHit, FetchMiss, NotFound, Build,
     Load, Fill, Forget, SetAttr, StartCommit, Fail, RolledBack, Publish, Release, StartIncr,
     Incr, Crash

\* Only a creation writes while there is no row.
LEMMA RowlessStep ==
    ASSUME NEW p \in Procs, Before(p), Step(p), NoSlip'
    PROVE  RowlessIsEmpty'
<1>1. CASE Write(p)
  BY <1>1, WriteIsGood DEF RowlessIsEmpty, Write
<1>2. CASE Create(p)
  BY <1>2, CreateIsGood DEF RowlessIsEmpty
<1>3. CASE Add(p)
  BY <1>3, AddIsGood DEF RowlessIsEmpty, Add
<1>4. CASE UNCHANGED <<row, db>>
  BY <1>4 DEF Before, RowlessIsEmpty
<1> QED
  BY <1>1, <1>2, <1>3, <1>4 DEF Step, NewThing, FetchHit, FetchMiss, NotFound, Build,
     Load, Fill, Forget, SetAttr, StartCommit, Sync, Fail, RolledBack, Publish, Release,
     StartIncr, Incr, Crash

\* Fills that are not late and publications put what is current into the cache.
LEMMA CacheStep ==
    ASSUME NEW p \in Procs, Before(p), Step(p), NoSlip'
    PROVE  CacheOK'
<1>0. \A q \in Procs \ {p} : pc'[q] = pc[q]
  BY Thread DEF Step, NewThing, FetchHit, FetchMiss, NotFound, Build, Load, Fill,
     Forget, SetAttr, StartCommit, Sync, Write, Create, Fail, Publish, Release,
     StartIncr, Incr, Add, Crash, Goto
<1>1. ASSUME NEW c, cache' = c, c # NoThing => Current(c), UNCHANGED <<row, db>>
      PROVE  CacheOK'
  BY <1>1 DEF CacheOK, Current, CleanPartCurrent, Shown, Dirty
<1>2. CASE Fill(p)
  BY <1>1, <1>2 DEF Fill, Slip, NoSlip
<1>3. CASE Publish(p)
  BY <1>1, <1>3 DEF Publish, Before, Good, SyncOK
<1>4. CASE Write(p) \/ Create(p) \/ Add(p)
  <2>1. pc'[p] \in {"publish", "republish"} /\ cache' = cache
    BY <1>4, Thread DEF Write, Create, Add, Goto
  <2> QED
    BY <2>1 DEF Before, CacheOK, Dirty
<1>5. ASSUME UNCHANGED <<row, db, cache>>,
             pc[p] \in {"publish", "republish"} => pc'[p] \in {"publish", "republish"}
      PROVE  CacheOK'
  <2>1. (\A q \in Procs : pc'[q] \notin {"publish", "republish"})
        => \A q \in Procs : pc[q] \notin {"publish", "republish"}
    BY <1>0, <1>5
  <2> QED
    BY <1>5, <2>1 DEF Before, CacheOK, CleanPartCurrent, Shown, Dirty
<1>6. CASE Crash(p)
  <2>1. pc[p] \notin {"publish", "republish"}
    BY <1>6 DEF Crash, Slip, NoSlip
  <2> QED
    BY <1>5, <1>6, <2>1 DEF Crash
<1>7. CASE \/ \E v \in [Settable -> Values] : NewThing(p, v)
           \/ FetchHit(p) \/ FetchMiss(p) \/ NotFound(p) \/ Build(p)
           \/ Load(p) \/ Forget(p) \/ \E x \in Settable, v \in Values : SetAttr(p, x, v)
           \/ StartCommit(p) \/ Sync(p) \/ Release(p) \/ Incr(p)
           \/ \E cleared \in BOOLEAN : Fail(p, cleared)
           \/ \E x \in Counters, n \in Amounts : StartIncr(p, x, n)
  BY <1>5, <1>7 DEF NewThing, FetchHit, FetchMiss, NotFound, Build, Load, Forget, SetAttr,
     StartCommit, Sync, Release, Incr, Fail, RolledBack, StartIncr, Idle
<1> QED
  BY <1>2, <1>3, <1>4, <1>6, <1>7 DEF Step

LEMMA StepIsGood ==
    ASSUME NEW p \in Procs, Before(p), Step(p), NoSlip'
    PROVE  Good(p)'
  BY FetchGood, StartGood, SyncIsGood, WriteIsGood, CreateIsGood, AddIsGood, IncrIsGood,
     LeaveGood DEF Step

LEMMA StoreInvStep ==
    TypeOK /\ Shape /\ StoreInv /\ [Next]_vars => StoreInv'
<1> SUFFICES ASSUME TypeOK, Shape, StoreInv, [Next]_vars, NoSlip'
             PROVE  (CacheOK /\ IncrsConserved /\ RowlessIsEmpty /\ \A p \in Procs : Good(p))'
  BY DEF StoreInv
<1>0. NoSlip /\ \A p \in Procs : Before(p)
  BY SlipsStay DEF StoreInv, Before
<1>1. ASSUME NEW p \in Procs, Step(p)
      PROVE  (CacheOK /\ IncrsConserved /\ RowlessIsEmpty /\ \A q \in Procs : Good(q))'
  <2>1. UNCHANGED <<row, db>> \/ pc[p] \in Inside
    BY <1>1 DEF Inside, Step, NewThing, FetchHit, FetchMiss, NotFound, Build, Load, Fill,
       Forget, SetAttr, StartCommit, Sync, Write, Create, Fail, RolledBack, Publish, Release,
       StartIncr, Incr, Add, Crash
  <2>2. \A q \in Procs \ {p} : Good(q)'
    BY <1>0, <1>1, <2>1, OthersStayGood DEF Before, NoSlip
  <2>3. Good(p)'
    BY <1>0, <1>1, StepIsGood
  <2> QED
    BY <1>0, <1>1, <2>2, <2>3, CacheStep, TotalsKept, RowlessStep
<1>2. ASSUME UNCHANGED <<row, db, self, pc, op, want, applied>>,
             cache' \in {cache, NoThing}
      PROVE  (CacheOK /\ IncrsConserved /\ RowlessIsEmpty /\ \A q \in Procs : Good(q))'
  <2>1. CacheOK' /\ IncrsConserved' /\ RowlessIsEmpty'
    BY <1>0, <1>2 DEF StoreInv, CacheOK, CleanPartCurrent, Shown, Dirty, IncrsConserved,
       RowlessIsEmpty
  <2>2. ASSUME NEW q \in Procs
        PROVE  Good(q)'
    <3>1. Good(q)
      BY <1>0 DEF Before
    <3>2. ObjectOK(q)' /\ WantOK(q)'
      BY <1>2, <3>1 DEF Good, ObjectOK, WantOK, DirtyShows, Shown
    <3>3. SyncOK(q)'
      BY <1>2, <3>1 DEF Good, SyncOK, Target, Shown, Current, CleanPartCurrent, Dirty
    <3> QED
      BY <3>2, <3>3 DEF Good
  <2> QED
    BY <2>1, <2>2
<1> QED
  BY <1>1, <1>2 DEF Next, Evict, LockLapses, vars

LEMMA StoreInvAlways == Spec => [](TypeOK /\ Shape /\ StoreInv)
<1>1. Init => StoreInv
  <2> SUFFICES ASSUME Init PROVE StoreInv
    OBVIOUS
  <2>1. CacheOK /\ IncrsConserved /\ RowlessIsEmpty
    BY Sorts DEF Init, CacheOK, IncrsConserved, RowlessIsEmpty, Shown
  <2>2. \A p \in Procs : Good(p)
    BY Sorts DEF Init, Good, ObjectOK, SyncOK, WantOK, AllClean
  <2> QED
    BY <2>1, <2>2 DEF StoreInv
<1> QED
  BY <1>1, StoreInvStep, ShapeAlways, PTL DEF Spec

-----------------------------------------------------------------------------
\* Until the first slip, what the cache holds is what the database has, except
\* between a commit and its _cache_myself (thing.py:269-270).
THEOREM CacheIsCurrent == Spec => []CacheCurrent
<1>1. StoreInv => CacheCurrent
  BY DEF StoreInv, CacheOK, CacheCurrent, Current
<1> QED
  BY <1>1, StoreInvAlways, PTL

\* Whoever is about to write, or to publish, works on the latest version:
\* what the lock and _sync_latest are for (thing.py:187-208, 221-224).
THEOREM CommittersAreCurrent == Spec => []CommitterIsCurrent
<1>1. StoreInv => CommitterIsCurrent
  BY DEF StoreInv, Good, SyncOK, CommitterIsCurrent
<1> QED
  BY <1>1, StoreInvAlways, PTL

\* No increment is lost or counted twice (thing.py:310-342), although a counter
\* at its default is assigned and any other is added to.
THEOREM IncrementsAreConserved == Spec => []IncrsConserved
<1>1. StoreInv => IncrsConserved
  BY DEF StoreInv, IncrsConserved
<1> QED
  BY <1>1, StoreInvAlways, PTL

\* When _commit returns, what the caller had assigned is in the database, also
\* if _sync_latest found nothing left to write (thing.py:224-227).
THEOREM CommitsTakeEffect == Spec => CommitTakesEffect
<1>1. TypeOK /\ Shape /\ StoreInv /\ [Next]_vars =>
        [\A p \in Procs : Release(p) /\ NoSlip =>
            \A x \in Props : want[p][x] # Nil => Shown(x) = want[p][x]]_vars
  BY DEF StoreInv, Good, WantOK, Release
<1> QED
  BY <1>1, StoreInvAlways, PTL DEF Spec, CommitTakesEffect

-----------------------------------------------------------------------------
\* What a thread has marked dirty inside the lock is what its caller asked for,
\* slips or not: _sync_latest takes marks away and adds none.
DirtyIsAsked(p) ==
    /\ pc[p] \in {"sync", "write"} /\ op[p] = NoOp =>
           \A x \in Props : self[p].dirty[x] \in {Nil, want[p][x]}
    /\ pc[p] \in {"sync", "write"} /\ op[p] # NoOp =>
           \A x \in Props : self[p].dirty[x] # Nil =>
               x = op[p].prop /\ self[p].dirty[x] = op[p].amt
    /\ pc[p] = "incr" => \A x \in Props : self[p].dirty[x] = Nil

LEMMA SyncAddsNoMark ==
    ASSUME NEW t \in Thing, NEW c \in Thing \cup {NoThing}
    PROVE  \A x \in Props : Synced(t, c).dirty[x] \in {Nil, t.dirty[x]}
<1>1. CASE c = NoThing
  BY <1>1 DEF Synced
<1>2. CASE c # NoThing
  <2> DEFINE v == [x \in Props |-> IF x \in BaseProps \/ c.loaded
                                   THEN c.val[x] ELSE t.val[x]]
             val == [x \in Props |-> IF t.dirty[x] # Nil THEN t.dirty[x] ELSE v[x]]
             dirty == [x \in Props |-> IF t.dirty[x] = v[x] THEN Nil ELSE t.dirty[x]]
  <2>1. Synced(t, c) = [t EXCEPT !.val = val, !.dirty = dirty]
    BY <1>2 DEF Synced
  <2>2. \A x \in Props : dirty[x] \in {Nil, t.dirty[x]}
    OBVIOUS
  <2> HIDE DEF val, dirty
  <2>3. Synced(t, c).dirty = dirty
    BY <2>1 DEF Thing
  <2> QED
    BY <2>2, <2>3
<1> QED
  BY <1>1, <1>2

\* An _incr that finds its counter at the default of 0 assigns the amount alone.
LEMMA IncrIsAsked ==
    ASSUME TypeOK, Shape, NEW p \in Procs, Incr(p), DirtyIsAsked(p)
    PROVE  DirtyIsAsked(p)'
<1>u. PICK t \in Thing : t = Synced(self[p], cache)
  BY SyncedObject DEF Incr, TypeOK, Shape, HasWork
<1>x. PICK x \in Counters, n \in Int : x = op[p].prop /\ n = op[p].amt
  BY OpTyped DEF Incr, Shape, HasWork
<1>0. /\ pc \in [Procs -> Labels] /\ self \in [Procs -> Thing \cup {NoThing}]
      /\ self[p] \in Thing /\ cache \in Thing \cup {NoThing} /\ x \in Props
      /\ pc[p] = "incr" /\ op' = op /\ op[p] # NoOp
  BY <1>x, Sorts DEF Incr, TypeOK, Shape, HasWork, NoOp
<1>1. \A y \in Props : t.dirty[y] = Nil
  BY <1>u, <1>0, SyncAddsNoMark DEF DirtyIsAsked
<1>2. CASE IsAssigned(x, t.val[x])
  <2>1. /\ Become(p, [t EXCEPT !.val[x] = t.val[x] + n, !.dirty[x] = t.val[x] + n])
        /\ Goto(p, "sync")
    BY <1>u, <1>x, <1>2 DEF Incr
  <2>2. t.val[x] + n = n
    BY <1>2 DEF IsAssigned
  <2>3. pc'[p] = "sync" /\ self'[p] = [t EXCEPT !.val[x] = n, !.dirty[x] = n]
    BY <1>0, <2>1, <2>2, Zenon DEF Become, Goto
  <2>4. \A y \in Props : self'[p].dirty[y] = IF y = x THEN n ELSE t.dirty[y]
    BY <1>0, <2>3 DEF Thing
  <2> QED
    BY <1>0, <1>1, <1>x, <2>3, <2>4 DEF DirtyIsAsked
<1>3. CASE ~IsAssigned(x, t.val[x])
  <2>1. Goto(p, "add")
    BY <1>u, <1>x, <1>3 DEF Incr
  <2> QED
    BY <1>0, <2>1 DEF DirtyIsAsked, Goto
<1> QED
  BY <1>2, <1>3

LEMMA AskedStep ==
    TypeOK /\ Shape /\ (\A p \in Procs : DirtyIsAsked(p)) /\ [Next]_vars
        => (\A p \in Procs : DirtyIsAsked(p))'
<1> SUFFICES ASSUME TypeOK, Shape, \A p \in Procs : DirtyIsAsked(p), [Next]_vars
             PROVE  \A q \in Procs : DirtyIsAsked(q)'
  OBVIOUS
<1>0. /\ pc \in [Procs -> Labels] /\ op \in [Procs -> Op]
      /\ self \in [Procs -> Thing \cup {NoThing}] /\ cache \in Thing \cup {NoThing}
      /\ want \in [Procs -> [Props -> Int \cup {Nil}]]
      /\ \A p \in Procs : /\ pc[p] \notin {"idle", "miss"} => self[p] \in Thing
                          /\ pc[p] = "idle" => op[p] = NoOp
  BY DEF TypeOK, Shape, HasWork, Inside
<1>1. ASSUME NEW p \in Procs, Step(p)
      PROVE  DirtyIsAsked(p)'
  <2> USE <1>0 DEF Goto, Become, Idle
  <2>1. CASE StartCommit(p)
    <3>1. op'[p] = NoOp /\ want'[p] = self[p].dirty /\ pc'[p] \in {"sync", "create"}
      BY <2>1 DEF StartCommit
    <3>2. pc'[p] = "sync" => self' = self
      BY <2>1 DEF StartCommit
    <3> QED
      BY <3>1, <3>2 DEF DirtyIsAsked
  <2>2. CASE Sync(p)
    <3>1. /\ self[p] \in Thing /\ self'[p] = Synced(self[p], cache)
          /\ op' = op /\ want' = want /\ pc[p] = "sync" /\ pc'[p] \in {"write", "publish"}
      BY <2>2 DEF Sync
    <3>2. \A x \in Props : self'[p].dirty[x] \in {Nil, self[p].dirty[x]}
      BY <3>1, SyncAddsNoMark
    <3> QED
      BY <3>1, <3>2 DEF DirtyIsAsked
  <2>3. CASE \E x \in Counters, n \in Amounts : StartIncr(p, x, n)
    <3>1. self' = self /\ pc'[p] = "incr" /\ self[p].dirty = AllClean
      BY <2>3 DEF StartIncr, Dirty
    <3> QED
      BY <3>1 DEF DirtyIsAsked, AllClean
  <2>4. CASE Incr(p)
    BY <2>4, IncrIsAsked
  <2>5. CASE pc'[p] \notin {"sync", "write", "incr"}
    BY <2>5 DEF DirtyIsAsked
  <2>6. CASE Write(p) \/ Create(p) \/ Publish(p) \/ Release(p) \/ Add(p)
    <3>1. pc'[p] \in {"publish", "republish", "release", "idle"}
      BY <2>6 DEF Write, Create, Publish, Release, Add
    <3> QED
      BY <2>5, <3>1
  <2>7. CASE \E cleared \in BOOLEAN : Fail(p, cleared)
    <3>1. Goto(p, "idle")
      BY <2>7, Zenon DEF Fail
    <3> QED
      BY <2>5, <3>1
  <2>8. CASE \/ FetchHit(p) \/ FetchMiss(p) \/ NotFound(p) \/ Build(p)
             \/ Fill(p) \/ Forget(p) \/ Crash(p)
    <3>1. pc'[p] \in {"idle", "miss", "fill"}
      BY <2>8 DEF FetchHit, FetchMiss, NotFound, Build, Fill, Forget, Crash
    <3> QED
      BY <2>5, <3>1
  <2>9. CASE \/ \E v \in [Settable -> Values] : NewThing(p, v)
             \/ \E x \in Settable, v \in Values : SetAttr(p, x, v)
             \/ Load(p)
    <3>1. pc'[p] \in {"idle", "fill"}
      <4>1. (pc[p] = "idle" /\ pc' = pc) \/ Goto(p, "fill")
        BY <2>9, Zenon DEF NewThing, SetAttr, Load
      <4> QED
        BY <4>1
    <3> QED
      BY <2>5, <3>1
  <2> QED
    BY <1>1, <2>1, <2>2, <2>3, <2>4, <2>6, <2>7, <2>8, <2>9 DEF Step
<1>2. ASSUME NEW p \in Procs, Step(p), NEW q \in Procs \ {p}
      PROVE  DirtyIsAsked(q)'
  <2>1. self'[q] = self[q]
    BY <1>2, ObjectStep DEF Shape
  <2>2. pc'[q] = pc[q] /\ op'[q] = op[q] /\ want'[q] = want[q]
    BY <1>0, <1>2 DEF Step, NewThing, FetchHit, FetchMiss, NotFound, Build, Load, Fill,
       Forget, SetAttr, StartCommit, Sync, Write, Create, Fail, Publish, Release,
       StartIncr, Incr, Add, Crash, Goto
  <2> QED
    BY <2>1, <2>2 DEF DirtyIsAsked
<1>3. ASSUME Evict \/ LockLapses \/ UNCHANGED vars, NEW q \in Procs
      PROVE  DirtyIsAsked(q)'
  BY <1>3 DEF Evict, LockLapses, vars, DirtyIsAsked
<1> QED
  BY <1>1, <1>2, <1>3 DEF Next

\* Whatever went wrong before, and though the lock has lapsed: no commit and no
\* increment changes what its caller did not ask it to change, so that a stale
\* object never brings back what another thread has replaced
\* (thing.py:187-208, 229-262, 326-339).
THEOREM OthersKept == Spec => OthersAreKept
<1>1. Init => \A p \in Procs : DirtyIsAsked(p)
  BY DEF Init, DirtyIsAsked
<1>2. TypeOK /\ Shape /\ (\A p \in Procs : DirtyIsAsked(p)) /\ [Next]_vars =>
        [row => \A x \in Props : db'[x] # db[x] =>
            \E p \in Procs : Asks(p, x, db[x], db'[x])]_vars
  <2> SUFFICES ASSUME TypeOK, Shape, \A p \in Procs : DirtyIsAsked(p), Next, row,
                      NEW x \in Props, db'[x] # db[x]
               PROVE  \E p \in Procs : Asks(p, x, db[x], db'[x])
    OBVIOUS
  <2>1. PICK p \in Procs : Step(p)
    BY DEF Next, Evict, LockLapses
  <2>2. CASE Write(p)
    <3>1. pc[p] = "write" /\ db'[x] = self[p].dirty[x] /\ self[p].dirty[x] # Nil
      BY <2>2 DEF Write, Written
    <3>2. CASE op[p] = NoOp
      BY <3>1, <3>2 DEF DirtyIsAsked, Asks
    <3>3. CASE op[p] # NoOp
      BY <3>1, <3>3 DEF DirtyIsAsked, Asks
    <3> QED
      BY <3>2, <3>3
  <2>3. CASE Add(p)
    <3>1. pc[p] = "add" /\ x = op[p].prop /\ db'[x] = db[x] + op[p].amt
      BY <2>3 DEF Add, Added, TypeOK
    <3> QED
      BY <3>1 DEF Asks
  <2>4. CASE Create(p)
    BY <2>4 DEF Create, Shape, HasWork, UnsavedIsAlone, Unsaved
  <2>5. CASE UNCHANGED db
    BY <2>5
  <2> QED
    BY <2>1, <2>2, <2>3, <2>4, <2>5 DEF Step, NewThing, FetchHit, FetchMiss, NotFound,
       Build, Load, Fill, Forget, SetAttr, StartCommit, Sync, Fail, RolledBack, Publish,
       Release, StartIncr, Incr, Crash
<1>3. Spec => [](\A p \in Procs : DirtyIsAsked(p))
  BY <1>1, AskedStep, ShapeAlways, PTL DEF Spec
<1> QED
  BY <1>2, <1>3, ShapeAlways, PTL DEF Spec, OthersAreKept

\* Commits and increments take and release commit_<fullname> as r2/lib/lock.py
\* allows it, so that what is proved of the lock holds here (thing.py _commit, _incr).
THEOREM StoreUsesLock == Spec => Lock!LockSpec
<1>1. Init => Lock!LockInit
  BY DEF Init
<1>2. [Next]_vars => [Lock!LockNext]_(Lock!lockVars)
  <2>1. ASSUME NEW p \in Procs, Step(p)
        PROVE  Lock!LockNext \/ UNCHANGED lock
    <3>1. \/ StartCommit(p) \/ (\E x \in Counters, n \in Amounts : StartIncr(p, x, n))
          => Lock!Obtain(p, CommitKey)
      BY Zenon DEF StartCommit, StartIncr
    <3>2. (\E cleared \in BOOLEAN : Fail(p, cleared)) \/ Release(p)
          => Lock!LetGo(p, CommitKey)
      BY Zenon DEF Fail, Release
    <3>3. Crash(p) => Lock!Abandon(p)
      BY Zenon DEF Crash
    <3>4. \/ \E v \in [Settable -> Values] : NewThing(p, v)
          \/ FetchHit(p) \/ FetchMiss(p) \/ NotFound(p) \/ Build(p)
          => UNCHANGED lock
      BY Zenon DEF NewThing, FetchHit, FetchMiss, NotFound, Build
    <3>5. \/ Load(p) \/ Fill(p) \/ Forget(p)
          \/ \E x \in Settable, v \in Values : SetAttr(p, x, v)
          => UNCHANGED lock
      BY Zenon DEF Load, Fill, Forget, SetAttr
    <3>6. \/ Sync(p) \/ Write(p) \/ Create(p) \/ Publish(p) \/ Incr(p) \/ Add(p)
          => UNCHANGED lock
      BY Zenon DEF Sync, Write, Create, Publish, Incr, Add
    <3> QED
      BY <2>1, <3>1, <3>2, <3>3, <3>4, <3>5, <3>6 DEF Step, Lock!LockNext
  <2>2. LockLapses => Lock!LockNext
    BY DEF LockLapses, Lock!LockNext
  <2>3. Evict \/ UNCHANGED vars => UNCHANGED lock
    BY DEF Evict, vars, lock
  <2> QED
    BY <2>1, <2>2, <2>3 DEF Next, lock, Lock!lockVars
<1> QED
  BY <1>1, <1>2, PTL DEF Spec, Lock!LockSpec
=============================================================================

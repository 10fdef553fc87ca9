----------------------------- MODULE ThingStore -----------------------------
(***************************************************************************)
(* One thing of r2/lib/db/thing.py: its rows in the database, its copy in   *)
(* the cache that all processes share, and the Python objects the threads   *)
(* work on.  Reads go through the cache and fill it without a lock; commits *)
(* and increments take the lock commit_<fullname>, bring the object up to   *)
(* date from the cache, write what the thread changed, and publish the      *)
(* whole object.                                                            *)
(*                                                                         *)
(* The lock is AdvisoryLock, the abstraction that MemcacheLock implements.  *)
(* What can make the cache disagree with the database is recorded in slips, *)
(* so that the invariants say exactly what they depend on.                  *)
(***************************************************************************)
EXTENDS Integers, FiniteSets

CONSTANTS
    Procs,      \* threads
    BaseProps,  \* columns of the thing table
    DataProps,  \* keys of the data table, one row each
    Settable,   \* properties that callers assign
    Counters,   \* properties that callers pass to _incr
    Defaulted,  \* counters with an entry in _defaults (always 0)
    Values,     \* what callers assign
    Amounts,    \* what callers pass to _incr
    Nil,        \* no value: a clean property, a data row that is not there
    NoThing,    \* no object
    MaxIncrs,   \* bound: number of _incr calls
    Faults      \* what goes wrong: "evict", "lapse", "crash", "fail"

ASSUME StoreConstants ==
    /\ BaseProps \cap DataProps = {}
    /\ Settable \subseteq BaseProps \cup DataProps
    /\ Counters \subseteq BaseProps \cup DataProps
    /\ Settable \cap Counters = {}
    /\ Defaulted \subseteq Counters
    /\ Counters \cap DataProps \subseteq Defaulted
    /\ Values \subseteq Int /\ 0 \in Values
    /\ Amounts \subseteq Int \ {0}
    /\ Nil \notin Int
    /\ MaxIncrs \in Nat
    /\ Faults \subseteq {"evict", "lapse", "crash", "fail"}

Props == BaseProps \cup DataProps
Thing == [created : BOOLEAN, loaded : BOOLEAN, val : [Props -> Int],
          dirty : [Props -> Int \cup {Nil}]]
Op    == [prop : Counters \cup {Nil}, amt : Amounts \cup {0}]
NoOp  == [prop |-> Nil, amt |-> 0]

ASSUME NilIsNoProp == Nil \notin Props /\ NoThing \notin Thing

VARIABLES
    row,        \* the thing table has the row
    db,         \* db[x]: committed value of property x, Nil if there is none
    cache,      \* what the shared cache holds for the thing
    self,       \* self[p]: the object thread p works on
    pc,         \* pc[p]: where thread p is
    op,         \* op[p]: the _incr it is in, NoOp in a plain _commit
    held, busy, overrun,    \* the lock commit_<fullname>
    want,       \* history: what was dirty when p entered _commit
    applied,    \* history: sum of the increments of each counter
    spent,      \* history: number of _incr calls
    slips       \* history: ways in which cache and database came apart

lock == <<held, busy, overrun>>
vars == <<row, db, cache, self, pc, op, held, busy, overrun,
          want, applied, spent, slips>>

CommitKey == "commit_"
Lock == INSTANCE AdvisoryLock WITH Keys <- {CommitKey}

AllClean == [x \in Props |-> Nil]
Dirty(t) == t.dirty # AllClean

\* What a reader of the database sees: a data property without a row shows its
\* default, 0 here.
Shown(x) == IF db[x] = Nil THEN 0 ELSE db[x]

\* The part of t that is loaded and clean is what the database has.
CleanPartCurrent(t) ==
    /\ row
    /\ \A x \in Props : t.dirty[x] = Nil /\ (x \in BaseProps \/ t.loaded)
                        => t.val[x] = Shown(x)
Current(t) == ~Dirty(t) /\ CleanPartCurrent(t)

Init ==
    /\ row = FALSE
    /\ db = [x \in Props |-> Nil]
    /\ cache = NoThing
    /\ self = [p \in Procs |-> NoThing]
    /\ pc = [p \in Procs |-> "idle"]
    /\ op = [p \in Procs |-> NoOp]
    /\ Lock!LockInit
    /\ want = [p \in Procs |-> AllClean]
    /\ applied = [x \in Counters |-> 0]
    /\ spent = 0
    /\ slips = {}

Idle(p) == pc[p] = "idle" /\ self[p] # NoThing
Goto(p, label) == pc' = [pc EXCEPT ![p] = label]
Become(p, t) == self' = [self EXCEPT ![p] = t]
Slip(cond, name) == slips' = IF cond THEN slips \cup {name} ELSE slips

-----------------------------------------------------------------------------
(* Objects: made new, found in the cache, or built from the database.       *)

\* Thing(...): an object that is not in the database yet.  Data attributes
\* given to the constructor are dirty, base properties are not.
NewThing(p, v) ==
    /\ pc[p] = "idle" /\ self[p] = NoThing
    /\ ~row /\ cache = NoThing /\ \A q \in Procs : self[q] = NoThing
    /\ v \in [Settable -> Values]
    /\ Become(p, [created |-> FALSE, loaded |-> TRUE,
                  val |-> [x \in Props |-> IF x \in Settable THEN v[x] ELSE 0],
                  dirty |-> [x \in Props |->
                      IF x \in Settable \cap DataProps /\ v[x] # 0
                      THEN v[x] ELSE Nil]])
    /\ UNCHANGED <<row, db, cache, pc, op, lock, want, applied, spent, slips>>

\* _byID, the cache has it: the object as it was pickled.
FetchHit(p) ==
    /\ pc[p] = "idle" /\ self[p] = NoThing
    /\ cache # NoThing
    /\ Become(p, cache)
    /\ UNCHANGED <<row, db, cache, pc, op, lock, want, applied, spent, slips>>

\* _byID, the cache does not have it ...
FetchMiss(p) ==
    /\ pc[p] = "idle" /\ self[p] = NoThing
    /\ cache = NoThing
    /\ Goto(p, "miss")
    /\ UNCHANGED <<row, db, cache, self, op, lock, want, applied, spent, slips>>

\* ... and neither has the database ...
NotFound(p) ==
    /\ pc[p] = "miss" /\ ~row
    /\ Goto(p, "idle")
    /\ UNCHANGED <<row, db, cache, self, op, lock, want, applied, spent, slips>>

\* ... or sgm builds it from the thing table ...
Build(p) ==
    /\ pc[p] = "miss" /\ row
    /\ Become(p, [created |-> TRUE, loaded |-> FALSE,
                  val |-> [x \in Props |-> IF x \in BaseProps THEN Shown(x) ELSE 0],
                  dirty |-> AllClean])
    /\ Goto(p, "fill")
    /\ UNCHANGED <<row, db, cache, op, lock, want, applied, spent, slips>>

\* What an object shows once the rows of the data table are in it: a property
\* without a row keeps the value it has.
WithData(t) ==
    [x \in Props |-> IF x \in DataProps /\ db[x] # Nil THEN db[x] ELSE t.val[x]]

\* ... and _load_multi adds the rows of the data table.
Load(p) ==
    /\ Idle(p) /\ self[p].created /\ ~self[p].loaded
    /\ Become(p, [self[p] EXCEPT !.loaded = TRUE, !.val = WithData(self[p])])
    /\ Goto(p, "fill")
    /\ UNCHANGED <<row, db, cache, op, lock, want, applied, spent, slips>>

\* Both then write the object into the cache, without a lock.
Fill(p) ==
    /\ pc[p] = "fill"
    /\ cache' = self[p]
    /\ Slip(~Current(self[p]), "late fill")
    /\ Goto(p, "idle")
    /\ UNCHANGED <<row, db, self, op, lock, want, applied, spent>>

\* __setattr__: a value that differs from the present one is dirty.
SetAttr(p, x, v) ==
    /\ Idle(p)
    /\ self[p].val[x] # v
    /\ Become(p, [self[p] EXCEPT !.val[x] = v, !.dirty[x] = v])
    /\ UNCHANGED <<row, db, cache, pc, op, lock, want, applied, spent, slips>>

\* The request is over.
Forget(p) ==
    /\ Idle(p)
    /\ Become(p, NoThing)
    /\ UNCHANGED <<row, db, cache, pc, op, lock, want, applied, spent, slips>>

-----------------------------------------------------------------------------
(* _commit                                                                 *)

\* The lock is taken; a new object is first inserted into the thing table,
\* which gives it an id and sets _created, inside a transaction.
StartCommit(p) ==
    /\ Idle(p)
    /\ Lock!Obtain(p, CommitKey)
    /\ want' = [want EXCEPT ![p] = self[p].dirty]
    /\ IF self[p].created
       THEN Goto(p, "sync") /\ UNCHANGED self
       ELSE Goto(p, "create") /\ Become(p, [self[p] EXCEPT !.created = TRUE])
    /\ UNCHANGED <<row, db, cache, op, applied, spent, slips>>

\* Mutants: no sync at all; a sync that forgets the data.
MutSyncedNot(t, c) == t
MutSyncedBase(t, c) ==
    IF c = NoThing THEN t
    ELSE [t EXCEPT !.val = [x \in Props |->
              IF x \in BaseProps /\ t.dirty[x] = Nil THEN c.val[x] ELSE t.val[x]]]

\* _sync_latest: take over the cached version, if there is one, and apply what
\* is dirty to it again; what the cache has already is not dirty any more.
Synced(t, c) ==
    IF c = NoThing THEN t
    ELSE LET v == [x \in Props |-> IF x \in BaseProps \/ c.loaded
                                   THEN c.val[x] ELSE t.val[x]]
         IN  [t EXCEPT
                !.val = [x \in Props |-> IF t.dirty[x] # Nil THEN t.dirty[x] ELSE v[x]],
                !.dirty = [x \in Props |-> IF t.dirty[x] = v[x] THEN Nil ELSE t.dirty[x]]]

\* Without a cached version there is nothing to catch up with.  With one that
\* has no data, the thread's own data stays as old as it is, and what is dirty
\* in it is compared with itself and found clean.
SyncSlips(p) ==
    slips' = slips
        \cup (IF cache = NoThing /\ ~CleanPartCurrent(self[p])
              THEN {"blind sync"} ELSE {})
        \cup (IF /\ cache # NoThing /\ ~cache.loaded
                 /\ \E x \in DataProps :
                        \/ self[p].dirty[x] # Nil
                        \/ self[p].loaded /\ self[p].val[x] # Shown(x)
              THEN {"shallow sync"} ELSE {})

Sync(p) ==
    LET t == Synced(self[p], cache) IN
    /\ pc[p] = "sync"
    /\ Become(p, t)
    /\ SyncSlips(p)
    /\ IF Dirty(t)
       THEN Goto(p, "write") /\ UNCHANGED applied
       ELSE /\ Goto(p, "publish")
            /\ applied' = IF op[p] = NoOp THEN applied
                          ELSE [applied EXCEPT ![op[p].prop] = @ + op[p].amt]
    /\ UNCHANGED <<row, db, cache, op, lock, want, spent>>

\* The dirty properties d, nothing else, are written.  An update of the thing
\* table finds no row if the insert was rolled back; rows of the data table
\* are inserted regardless.
MutWritten(d) ==
    [x \in Props |-> IF d[x] # Nil /\ row /\ x \in BaseProps THEN d[x] ELSE db[x]]
Written(d) ==
    [x \in Props |-> IF d[x] # Nil /\ (row \/ x \in DataProps) THEN d[x] ELSE db[x]]

\* After a rollback the database is as before.
RolledBack(d) == db

\* The transaction commits.
Write(p) ==
    /\ pc[p] = "write"
    /\ db' = Written(self[p].dirty)
    /\ Slip(~row, "rowless")
    /\ applied' = IF op[p] = NoOp THEN applied
                  ELSE [applied EXCEPT ![op[p].prop] = @ + op[p].amt]
    /\ Become(p, [self[p] EXCEPT !.dirty = AllClean])
    /\ Goto(p, "publish")
    /\ UNCHANGED <<row, cache, op, lock, want, spent>>

\* The same for a new object: its row and its data appear together.
Create(p) ==
    LET t == self[p] IN
    /\ pc[p] = "create"
    /\ row' = TRUE
    /\ db' = [x \in Props |-> IF x \in BaseProps THEN t.val[x] ELSE t.dirty[x]]
    /\ Become(p, [t EXCEPT !.dirty = AllClean])
    /\ Goto(p, "publish")
    /\ UNCHANGED <<cache, op, lock, want, applied, spent, slips>>

\* A statement or the commit of the transaction fails: an exception, a
\* rollback, and the lock is released.  _dirties was cleared before commit();
\* if a statement failed, a counter that _incr assigned is still dirty.  A
\* counter that was to be added keeps its new value in the object.
Fail(p, cleared) ==
    /\ "fail" \in Faults
    /\ pc[p] \in {"write", "create", "add"}
    /\ Become(p, [self[p] EXCEPT !.dirty = IF cleared THEN AllClean ELSE @])
    /\ Lock!LetGo(p, CommitKey)
    /\ Goto(p, "idle")
    /\ op' = [op EXCEPT ![p] = NoOp]
    /\ db' = RolledBack(self[p].dirty)
    /\ Slip(pc[p] = "write" /\ op[p] # NoOp /\ ~cleared, "leftover incr")
    /\ UNCHANGED <<row, cache, want, applied, spent>>

\* _cache_myself: the whole object, whatever it took over from the cache.  An
\* _incr publishes again after the _commit nested in it.
Publish(p) ==
    /\ pc[p] \in {"publish", "republish"}
    /\ cache' = self[p]
    /\ Goto(p, IF pc[p] = "publish" /\ op[p] # NoOp THEN "republish" ELSE "release")
    /\ UNCHANGED <<row, db, self, op, lock, want, applied, spent, slips>>

Release(p) ==
    /\ pc[p] = "release"
    /\ Lock!LetGo(p, CommitKey)
    /\ Goto(p, "idle")
    /\ op' = [op EXCEPT ![p] = NoOp]
    /\ UNCHANGED <<row, db, cache, self, want, applied, spent, slips>>

-----------------------------------------------------------------------------
(* _incr                                                                   *)

StartIncr(p, x, n) ==
    /\ Idle(p) /\ spent < MaxIncrs
    /\ self[p].created /\ ~Dirty(self[p])
    /\ x \in BaseProps \/ self[p].loaded
    /\ Lock!Obtain(p, CommitKey)
    /\ op' = [op EXCEPT ![p] = [prop |-> x, amt |-> n]]
    /\ want' = [want EXCEPT ![p] = AllClean]
    /\ spent' = spent + 1
    /\ Goto(p, "incr")
    /\ UNCHANGED <<row, db, cache, self, applied, slips>>

MutIsAssigned(x, v) == FALSE
IsAssigned(x, v) == x \in Defaulted /\ v = 0

\* A counter found at its default may have no row to update: it is assigned
\* and committed by a nested _commit, under the same lock.  Any other counter
\* is incremented where it is.
Incr(p) ==
    LET t == Synced(self[p], cache)
        x == op[p].prop
        v == t.val[x] + op[p].amt
    IN
    /\ pc[p] = "incr"
    /\ SyncSlips(p)
    /\ IF IsAssigned(x, t.val[x])
       THEN Become(p, [t EXCEPT !.val[x] = v, !.dirty[x] = v]) /\ Goto(p, "sync")
       ELSE Become(p, [t EXCEPT !.val[x] = v]) /\ Goto(p, "add")
    /\ UNCHANGED <<row, db, cache, op, lock, want, applied, spent>>

\* Mutant: the value the object shows is stored.
MutAdded(p, x) == IF db[x] = Nil THEN Nil ELSE self[p].val[x]

\* value = value + amount, in the database; no row, no increment.
Added(p, x) == IF db[x] = Nil THEN Nil ELSE db[x] + op[p].amt

Add(p) ==
    LET x == op[p].prop IN
    /\ pc[p] = "add"
    /\ db' = [db EXCEPT ![x] = Added(p, x)]
    /\ applied' = [applied EXCEPT ![x] = @ + op[p].amt]
    /\ Goto(p, "republish")
    /\ UNCHANGED <<row, cache, self, op, lock, want, spent, slips>>

-----------------------------------------------------------------------------
(* What goes wrong around it                                               *)

\* memcached drops the thing.
Evict ==
    /\ "evict" \in Faults
    /\ cache # NoThing
    /\ cache' = NoThing
    /\ UNCHANGED <<row, db, self, pc, op, lock, want, applied, spent, slips>>

\* The process dies.  Between a database commit and _cache_myself the cache
\* keeps the old version.
Crash(p) ==
    /\ "crash" \in Faults
    /\ self[p] # NoThing
    /\ Slip(pc[p] \in {"publish", "republish"}, "crash")
    /\ Lock!Abandon(p)
    /\ Become(p, NoThing)
    /\ Goto(p, "idle")
    /\ op' = [op EXCEPT ![p] = NoOp]
    /\ want' = [want EXCEPT ![p] = AllClean]
    /\ UNCHANGED <<row, db, cache, applied, spent>>

\* The lock of a dead holder expires; that of a live one if it is too slow.
LockLapses ==
    /\ "lapse" \in Faults \/ \A p \in Procs : held[p] = {}
    /\ Lock!Lapse(CommitKey)
    /\ UNCHANGED <<row, db, cache, self, pc, op, want, applied, spent, slips>>

Step(p) ==
    \/ \E v \in [Settable -> Values] : NewThing(p, v)
    \/ FetchHit(p) \/ FetchMiss(p) \/ NotFound(p) \/ Build(p)
    \/ Load(p) \/ Fill(p) \/ Forget(p)
    \/ \E x \in Settable, v \in Values : SetAttr(p, x, v)
    \/ StartCommit(p) \/ Sync(p) \/ Write(p) \/ Create(p)
    \/ \E cleared \in BOOLEAN : Fail(p, cleared)
    \/ Publish(p) \/ Release(p)
    \/ \E x \in Counters, n \in Amounts : StartIncr(p, x, n)
    \/ Incr(p) \/ Add(p)
    \/ Crash(p)

Next == (\E p \in Procs : Step(p)) \/ Evict \/ LockLapses

Spec == Init /\ [][Next]_vars

-----------------------------------------------------------------------------
Labels == {"idle", "miss", "fill", "sync", "write", "create", "publish", "republish",
           "release", "incr", "add"}
SlipNames == {"late fill", "blind sync", "shallow sync", "rowless",
              "leftover incr", "crash"}

TypeOK ==
    /\ row \in BOOLEAN
    /\ db \in [Props -> Int \cup {Nil}]
    /\ cache \in Thing \cup {NoThing}
    /\ self \in [Procs -> Thing \cup {NoThing}]
    /\ pc \in [Procs -> Labels]
    /\ op \in [Procs -> Op]
    /\ held \in [Procs -> SUBSET {CommitKey}]
    /\ busy \in SUBSET {CommitKey}
    /\ overrun \in BOOLEAN
    /\ want \in [Procs -> [Props -> Int \cup {Nil}]]
    /\ applied \in [Counters -> Int]
    /\ spent \in 0..MaxIncrs
    /\ slips \in SUBSET SlipNames

\* Nothing happened that the design does not defend against.
NoSlip == slips = {} /\ ~overrun

\* What the cache shows is what the database has, except while a committer is
\* between the two, unless one of the slips happened or the lock was lost.
CacheCurrent ==
    NoSlip /\ cache # NoThing
    /\ (\A p \in Procs : pc[p] \notin {"publish", "republish"})
    => Current(cache)

\* The point of the lock and of _sync_latest: whoever is about to write has
\* the committed value of everything it will not write.
CommitterIsCurrent ==
    NoSlip => \A p \in Procs :
        /\ pc[p] = "write" => CleanPartCurrent(self[p])
        /\ pc[p] \in {"publish", "republish"} => Current(self[p])

\* When _commit returns, what was dirty at its beginning is in the database,
\* also where _sync_latest decided that there was nothing to write.
CommitTakesEffect ==
    [][\A p \in Procs : Release(p) /\ NoSlip =>
          \A x \in Props : want[p][x] # Nil => Shown(x) = want[p][x]]_vars

\* _sync_latest applies what is dirty again, "to make sure we don't overwrite a
\* previous commit" (thing.py:188-189): what is not dirty after it has been
\* committed already, not forgotten.
DirtiesReapplied ==
    [][\A p \in Procs : Sync(p) /\ NoSlip =>
          \A x \in Props : LET d == self[p].dirty[x] IN
              d # Nil => self'[p].dirty[x] = d \/ Shown(x) = d]_vars

\* No increment is lost, whether it was assigned or added.
IncrsConserved ==
    NoSlip => \A x \in Counters : Shown(x) = applied[x]

\* What a thread asks for: what it assigned, the amount added to its counter,
\* or the amount alone if the counter was found at its default.
Asks(p, x, old, new) ==
    \/ pc[p] = "write" /\ op[p] = NoOp /\ new = want[p][x]
    \/ pc[p] = "write" /\ op[p].prop = x /\ new = op[p].amt
    \/ pc[p] = "add" /\ op[p].prop = x /\ new = old + op[p].amt

\* Whatever stale object a thread holds, whatever it takes over from the cache,
\* and though its lock has lapsed: what changes of a thing in the database is
\* what a commit or an increment asks for, so that no commit brings back what
\* another has replaced in a property it did not assign (thing.py:187-208,
\* 229-262, 326-339).  This holds after every slip too.
OthersAreKept ==
    [][row => \A x \in Props : db'[x] # db[x] =>
          \E p \in Procs : Asks(p, x, db[x], db'[x])]_vars
=============================================================================

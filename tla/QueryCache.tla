----------------------------- MODULE QueryCache -----------------------------
(***************************************************************************)
(* The listings of r2/models/query_cache.py: rows of Cassandra with one     *)
(* column for each item and no lock.  Processes collect insertions and      *)
(* deletions in a batch (CachedQueryMutator), send it row by row, and now   *)
(* and then prune what they inserted into, by an earlier look at it.  All   *)
(* that orders what they do is the timestamp each mutation gets when it is  *)
(* put into a batch.                                                        *)
(*                                                                         *)
(* Queries are listings between which items move, as a link between liked   *)
(* and disliked (queries.py:1058-1066): a batch inserts its item into some  *)
(* of them and deletes it from the others.                                  *)
(***************************************************************************)
EXTENDS Integers, FiniteSets

CONSTANTS
    Procs,
    Items,      \* things; as numbers, in the order of their column names
    Queries,    \* row keys of one column family
    Places,     \* the sets of listings an item can be moved to
    MaxItems,   \* MAX_CACHED_ITEMS
    PruneSize,  \* int(MAX_CACHED_ITEMS * PRUNE_CHANCE) * 2
    NoProc,
    MaxDate,    \* bound: how often an item is inserted with a new date
    MaxBatches, \* bound: batches
    MaxFaults   \* bound: blocks that raise, processes that die

ASSUME CacheConstants ==
    /\ Items \subseteq Nat /\ IsFiniteSet(Items) /\ Items # {}
    /\ IsFiniteSet(Queries)
    /\ Places \subseteq SUBSET Queries
    /\ MaxItems \in Nat
    /\ PruneSize \in Nat
    /\ NoProc \notin Procs
    /\ MaxDate \in Nat \ {0}
    /\ MaxBatches \in Nat
    /\ MaxFaults \in Nat

\* A column: what its newest mutation says.  One that was pruned keeps its
\* date for the properties.
Column == [kind : {"none", "live", "deleted", "pruned"}, stamp : Nat, date : Nat]
NoColumn == [kind |-> "none", stamp |-> 0, date |-> 0]
NoRow == [i \in Items |-> NoColumn]
Unknown == [settled |-> FALSE, place |-> {}, date |-> 0]

VARIABLES
    col,        \* col[q][i]: the column of item i in row q
    clock,      \* time, as far as timestamps show it
    date,       \* date[i]: what i is sorted by now
    at,         \* at[p]: what p is doing
    item, place, loaded,    \* the item p moves, where to, and its date
    todo,       \* todo[p]: queries p has yet to insert into or delete from
    stamp,      \* stamp[p][q]: timestamp of what p has in its batch for q, or 0
    toPrune,    \* toPrune[p]: queries p has yet to prune
    seen,       \* seen[p][q]: what it got
    newest,     \* history: newest[i]: whose batch has the newest timestamps
    placed,     \* history: placed[i]: where a completed batch has put i
    setbacks,   \* history: setbacks[q]: items deleted or put behind in q
    batches, faults

batch   == <<at, item, place, loaded, todo, stamp>>
pruning == <<toPrune, seen>>
history == <<newest, placed, setbacks>>
vars    == <<col, clock, date, batch, pruning, history, batches, faults>>

\* The listings hold items from before, all of the same date.
Init ==
    /\ \E start \in [Items -> Places] :
           col = [q \in Queries |-> [i \in Items |->
               IF q \in start[i] THEN [kind |-> "live", stamp |-> 0, date |-> 0]
               ELSE NoColumn]]
    /\ clock = 0
    /\ date = [i \in Items |-> 0]
    /\ at = [p \in Procs |-> "idle"]
    /\ item = [p \in Procs |-> CHOOSE i \in Items : TRUE]
    /\ place = [p \in Procs |-> {}]
    /\ loaded = [p \in Procs |-> 0]
    /\ todo = [p \in Procs |-> {}]
    /\ stamp = [p \in Procs |-> [q \in Queries |-> 0]]
    /\ toPrune = [p \in Procs |-> {}]
    /\ seen = [p \in Procs |-> [q \in Queries |-> NoRow]]
    /\ newest = [i \in Items |-> NoProc]
    /\ placed = [i \in Items |-> Unknown]
    /\ setbacks = [q \in Queries |-> 0]
    /\ batches = 0
    /\ faults = 0

Goto(p, where) == at' = [at EXCEPT ![p] = where]

-----------------------------------------------------------------------------
\* A process has its thing at hand and opens a batch.  The date is that of
\* the thing, as in liked links, or the present time, as in saved ones.
Begin(p, i, to, now) ==
    /\ at[p] = "idle"
    /\ batches < MaxBatches
    /\ now = date[i] \/ \A j \in Items : now > date[j]
    /\ batches' = batches + 1
    /\ date' = [date EXCEPT ![i] = now]
    /\ item' = [item EXCEPT ![p] = i]
    /\ place' = [place EXCEPT ![p] = to]
    /\ loaded' = [loaded EXCEPT ![p] = now]
    /\ todo' = [todo EXCEPT ![p] = Queries]
    /\ Goto(p, "fill")
    /\ UNCHANGED <<col, clock, stamp, pruning, history, faults>>

Halfway(i) == {p \in Procs :
    at[p] = "fill" /\ item[p] = i /\ todo[p] # {} /\ \E q \in Queries : stamp[p][q] > 0}

\* Mutants: items are not deleted from the listings they leave; the time is
\* ahead of the clock.
MutInsertOnly(p, q) == IF q \in place[p] THEN clock + 1 ELSE 0
MutStampAhead(p, q) == clock + 2

StampFor(p, q) == clock + 1

\* insert() or delete() of the mutator: the mutation gets its timestamp, and
\* an insertion may ask for the query to be pruned.
Enqueue(p, q) ==
    /\ at[p] = "fill"
    /\ q \in todo[p]
    /\ clock' = clock + 1
    /\ stamp' = [stamp EXCEPT ![p][q] = StampFor(p, q)]
    /\ todo' = [todo EXCEPT ![p] = @ \ {q}]
    /\ \/ UNCHANGED toPrune
       \/ /\ q \in place[p]
          /\ toPrune' = [toPrune EXCEPT ![p] = @ \cup {q}]
    /\ IF todo[p] = Queries
       THEN /\ newest' = [newest EXCEPT ![item[p]] =
                   IF Halfway(item[p]) = {} THEN p ELSE NoProc]
            /\ placed' = [placed EXCEPT ![item[p]] = Unknown]
       ELSE UNCHANGED <<newest, placed>>
    /\ UNCHANGED <<col, date, at, item, place, loaded, seen, setbacks, batches, faults>>

\* The with block is left: what is in the batch is sent...
Leave(p) ==
    /\ at[p] = "fill"
    /\ todo[p] = {}
    /\ Goto(p, "send")
    /\ UNCHANGED <<col, clock, date, item, place, loaded, todo, stamp, pruning,
                   history, batches, faults>>

Fault == faults < MaxFaults /\ faults' = faults + 1

\* ... also when the block raises before everything is in it.
Raise(p) ==
    /\ at[p] = "fill"
    /\ todo[p] # {}
    /\ Fault
    /\ Goto(p, "send")
    /\ newest' = [newest EXCEPT ![item[p]] = IF @ = p THEN NoProc ELSE @]
    /\ UNCHANGED <<col, clock, date, item, place, loaded, todo, stamp, pruning,
                   placed, setbacks, batches>>

-----------------------------------------------------------------------------
\* Cassandra keeps the mutation with the later timestamp, a deletion if they
\* have the same.
Wins(c, d) == c.stamp > d.stamp \/ (c.stamp = d.stamp /\ c.kind # "live")

Mutation(p, q) ==
    [kind |-> IF q \in place[p] THEN "live" ELSE "deleted",
     stamp |-> stamp[p][q],
     date |-> IF q \in place[p] THEN loaded[p] ELSE 0]

Member(c) == c.kind \in {"live", "pruned"}

\* d instead of c takes an item away or puts it farther behind.
SetsBack(c, d) == Member(c) /\ (~Member(d) \/ d.date < c.date)

Unsent(p) == {q \in Queries : stamp[p][q] > 0}

\* Mutator.send(): the mutations of one row are applied.
SendRow(p, q) ==
    LET i == item[p]
        c == col[q][i]
        d == Mutation(p, q)
    IN
    /\ at[p] = "send"
    /\ q \in Unsent(p)
    /\ stamp' = [stamp EXCEPT ![p][q] = 0]
    /\ IF Wins(d, c)
       THEN /\ col' = [col EXCEPT ![q][i] = d]
            /\ setbacks' = [setbacks EXCEPT ![q] = IF SetsBack(c, d) THEN @ + 1 ELSE @]
       ELSE UNCHANGED <<col, setbacks>>
    /\ placed' = IF Unsent(p) = {q} /\ newest[i] = p
                 THEN [placed EXCEPT ![i] =
                          [settled |-> TRUE, place |-> place[p], date |-> loaded[p]]]
                 ELSE placed
    /\ UNCHANGED <<clock, date, at, item, place, loaded, todo, pruning, newest, batches, faults>>

\* Nothing is left of the batch of p.
Done(p) ==
    /\ Goto(p, "idle")
    /\ item' = [item EXCEPT ![p] = CHOOSE i \in Items : TRUE]
    /\ place' = [place EXCEPT ![p] = {}]
    /\ loaded' = [loaded EXCEPT ![p] = 0]
    /\ todo' = [todo EXCEPT ![p] = {}]
    /\ stamp' = [stamp EXCEPT ![p] = [q \in Queries |-> 0]]
    /\ toPrune' = [toPrune EXCEPT ![p] = {}]
    /\ seen' = [seen EXCEPT ![p] = [q \in Queries |-> NoRow]]

\* _prune_multi() begins with _fetch_multi(), which fills the queries of the
\* one column family all together.
Fetch(p) ==
    /\ at[p] = "send"
    /\ Unsent(p) = {}
    /\ toPrune[p] # {}
    /\ seen' = [seen EXCEPT ![p] =
           [q \in Queries |-> IF q \in toPrune[p] THEN col[q] ELSE NoRow]]
    /\ Goto(p, "prune")
    /\ UNCHANGED <<col, clock, date, item, place, loaded, todo, stamp, toPrune,
                   history, batches, faults>>

Ahead(row, j, i) ==
    row[j].date > row[i].date \/ (row[j].date = row[i].date /\ j < i)

Shown(row) == {i \in Items : row[i].kind = "live"}

\* The items of a row beyond the first MaxItems, as data[MAX_CACHED_ITEMS:].
Extraneous(row) ==
    {i \in Shown(row) : Cardinality({j \in Shown(row) : Ahead(row, j, i)}) >= MaxItems}

\* The last PruneSize of them, as extraneous_ids[-prune_size:], which are all
\* of them if PruneSize is 0.
Doomed(row) ==
    {i \in Extraneous(row) : PruneSize = 0
        \/ Cardinality({j \in Extraneous(row) : Ahead(row, i, j)}) < PruneSize}

\* Mutant: removed as of now.
MutPruned(c) == [c EXCEPT !.kind = "pruned", !.stamp = clock]

\* remove_if_unchanged(): removed as of the timestamp that was seen.
Pruned(c) == [c EXCEPT !.kind = "pruned"]

\* _prune() of one query.
Prune(p, q) ==
    /\ at[p] = "prune"
    /\ q \in toPrune[p]
    /\ toPrune' = [toPrune EXCEPT ![p] = @ \ {q}]
    /\ seen' = [seen EXCEPT ![p][q] = NoRow]
    /\ col' = [col EXCEPT ![q] = [i \in Items |->
           LET d == Pruned(seen[p][q][i]) IN
           IF i \in Doomed(seen[p][q]) /\ Wins(d, @[i]) THEN d ELSE @[i]]]
    /\ UNCHANGED <<clock, date, batch, history, batches, faults>>

\* Everything is sent and pruned.
Finish(p) ==
    /\ at[p] \in {"send", "prune"}
    /\ Unsent(p) = {}
    /\ toPrune[p] = {}
    /\ Done(p)
    /\ UNCHANGED <<col, clock, date, history, batches, faults>>

\* The process dies, or Cassandra fails it: rows that are not sent are lost.
Crash(p) ==
    /\ at[p] # "idle"
    /\ Fault
    /\ Done(p)
    /\ UNCHANGED <<col, clock, date, history, batches>>

Step(p) ==
    \/ \E i \in Items, to \in Places, now \in 0..MaxDate : Begin(p, i, to, now)
    \/ \E q \in Queries : Enqueue(p, q) \/ SendRow(p, q) \/ Prune(p, q)
    \/ Leave(p) \/ Raise(p) \/ Fetch(p) \/ Finish(p) \/ Crash(p)

Next == \E p \in Procs : Step(p)

Spec == Init /\ [][Next]_vars

-----------------------------------------------------------------------------
TypeOK ==
    /\ col \in [Queries -> [Items -> Column]]
    /\ clock \in Nat
    /\ date \in [Items -> 0..MaxDate]
    /\ at \in [Procs -> {"idle", "fill", "send", "prune"}]
    /\ item \in [Procs -> Items]
    /\ place \in [Procs -> SUBSET Queries]
    /\ loaded \in [Procs -> 0..MaxDate]
    /\ todo \in [Procs -> SUBSET Queries]
    /\ stamp \in [Procs -> [Queries -> 0..clock]]
    /\ toPrune \in [Procs -> SUBSET Queries]
    /\ seen \in [Procs -> [Queries -> [Items -> Column]]]
    /\ newest \in [Items -> Procs \cup {NoProc}]
    /\ placed \in [Items -> [settled : BOOLEAN, place : SUBSET Queries, date : 0..MaxDate]]
    /\ setbacks \in [Queries -> Nat]
    /\ batches \in 0..MaxBatches
    /\ faults \in 0..MaxFaults

\* A listing goes without an item that belongs in it only where enough others
\* are ahead of it: MAX_CACHED_ITEMS, but for those that have been deleted or
\* put behind.  So a prune that works from an old look at the row costs the
\* part that is shown nothing that was inserted since (query_cache.py:210-238,
\* 546-556).
TopIsKept ==
    \A q \in Queries, i \in Items :
        col[q][i].kind = "pruned" =>
            Cardinality({j \in Items : Member(col[q][j]) /\ Ahead(col[q], j, i)})
                >= MaxItems - setbacks[q]

\* Once a batch whose timestamps are later than those of all others for its
\* item is sent, the item is in the listings it put it in, with the date it
\* had, and in no other, whatever is sent, pruned or lost after or before.
PlacedWhereMoved ==
    \A i \in Items : placed[i].settled =>
        \A q \in Queries :
            IF q \in placed[i].place
            THEN Member(col[q][i]) /\ col[q][i].date = placed[i].date
            ELSE ~Member(col[q][i])
=============================================================================

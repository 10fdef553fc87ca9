--------------------------- MODULE ListingProofs ---------------------------
(***************************************************************************)
(* Proofs about the two ways in which reddit keeps precomputed listings,    *)
(* for any processes, items and bounds.                                     *)
(*                                                                         *)
(* QueryCache: timestamps are unique, so that of two mutations of a column  *)
(* one wins for good; a prune works with the stamp it saw and can therefore *)
(* only mark what is still the same column.                                 *)
(*                                                                         *)
(* CachedResults: of those who hold the lock there is one; what it starts   *)
(* from is what a quorum wrote last, since any two quorums meet; and what   *)
(* a mutation makes of a listing that is sound and complete is sound and    *)
(* complete with respect to what the mutations have said by then.           *)
(***************************************************************************)
EXTENDS QueryCache, CachedResults, FiniteSetTheorems, WellFoundedInduction, TLAPS

(***************************************************************************)
(*                     The query cache (Cassandra)                          *)
(***************************************************************************)
\* A batch has timestamps for what was put into it, until it is sent.
Batches ==
    \A p \in Procs :
        /\ at[p] \in {"idle", "prune"} => \A q \in Queries : stamp[p][q] = 0
        /\ at[p] = "fill" => \A q \in Queries : stamp[p][q] = 0 <=> q \in todo[p]

\* No mutation that waits has the timestamp of another, or of its column.
Unique ==
    \A q \in Queries : \A p \in Procs : stamp[p][q] > 0 =>
        /\ \A i \in Items : col[q][i].stamp # stamp[p][q]
        /\ \A r \in Procs \ {p} : stamp[r][q] # stamp[p][q]
Timely ==
    \A q \in Queries, i \in Items : col[q][i].stamp <= clock

\* What a prune saw has been replaced since, or is there as it was.
Witnessed ==
    \A p \in Procs, q \in Queries, i \in Items :
        seen[p][q][i].kind = "live" =>
            \/ seen[p][q][i].stamp < col[q][i].stamp
            \/ /\ seen[p][q][i].stamp = col[q][i].stamp
               /\ Member(col[q][i])
               /\ col[q][i].date = seen[p][q][i].date

\* No other batch for item i is half-way, so each that goes on is a new one.
NobodyHalfway(i, p) ==
    \A r \in Procs \ {p} :
        item[r] = i /\ at[r] = "fill" => todo[r] \in {Queries, {}}

\* All that other batches have for the column of i in q is older than n.
Older(i, p, q, n) ==
    \A r \in Procs \ {p} : item[r] = i /\ stamp[r][q] > 0 => stamp[r][q] < n

Says(q, i, to, when) ==
    IF q \in to THEN Member(col[q][i]) /\ col[q][i].date = when
    ELSE ~Member(col[q][i])

\* The newest batch for an item wins wherever it is sent.
Fresh(p) ==
    /\ newest[item[p]] = p
    /\ at[p] = "send" \/ (at[p] = "fill" /\ todo[p] # Queries)

NewestWins ==
    \A p \in Procs : Fresh(p) =>
        /\ at[p] = "send" => todo[p] = {}
        /\ NobodyHalfway(item[p], p)
        /\ \A q \in Queries \ todo[p] :
            IF stamp[p][q] > 0
            THEN /\ col[q][item[p]].stamp < stamp[p][q]
                 /\ Older(item[p], p, q, stamp[p][q])
            ELSE /\ Says(q, item[p], place[p], loaded[p])
                 /\ Older(item[p], p, q, col[q][item[p]].stamp)

\* Where a batch has settled an item, nothing that is under way will move it.
StaysSettled ==
    \A i \in Items : placed[i].settled =>
        /\ NobodyHalfway(i, NoProc)
        /\ \A q \in Queries :
            /\ Says(q, i, placed[i].place, placed[i].date)
            /\ Older(i, NoProc, q, col[q][i].stamp)

\* What a prune saw and is no longer there, or farther behind, was counted.
ItemsMissing(p, q) ==
    {j \in Items :
        /\ seen[p][q][j].kind = "live"
        /\ ~Member(col[q][j]) \/ col[q][j].date < seen[p][q][j].date}

SetbacksCounted ==
    \A p \in Procs, q \in Queries : Cardinality(ItemsMissing(p, q)) <= setbacks[q]

CacheInv ==
    /\ Batches /\ Unique /\ Timely /\ Witnessed
    /\ NewestWins /\ StaysSettled /\ SetbacksCounted

USE CacheConstants

-----------------------------------------------------------------------------
(* Types.                                                                   *)

Placing == [settled : BOOLEAN, place : SUBSET Queries, date : 0..MaxDate]

\* The values that variables begin with, and an idle process has.
LEMMA StartValues ==
    /\ NoColumn \in Column /\ NoColumn.kind = "none" /\ NoColumn.stamp = 0
    /\ NoRow \in [Items -> Column]
    /\ \A i \in Items : NoRow[i] = NoColumn
    /\ Unknown \in Placing /\ Unknown.settled = FALSE
    /\ (CHOOSE i \in Items : TRUE) \in Items
<1>1. NoColumn \in Column /\ NoColumn.kind = "none" /\ NoColumn.stamp = 0
  BY DEF NoColumn, Column
<1>2. NoRow \in [Items -> Column] /\ \A i \in Items : NoRow[i] = NoColumn
  BY <1>1 DEF NoRow
<1>3. Unknown \in Placing /\ Unknown.settled = FALSE
  BY DEF Unknown, Placing
<1> QED
  BY <1>1, <1>2, <1>3

\* The column that a batch writes.
LEMMA MutationTyped ==
    ASSUME TypeOK, NEW p \in Procs, NEW q \in Queries
    PROVE  /\ Mutation(p, q) \in Column
           /\ Mutation(p, q).stamp = stamp[p][q]
           /\ Mutation(p, q).kind = IF q \in place[p] THEN "live" ELSE "deleted"
           /\ q \in place[p] => Mutation(p, q).date = loaded[p]
<1>1. stamp[p][q] \in Nat /\ loaded[p] \in Nat
  BY DEF TypeOK
<1> QED
  BY <1>1 DEF Mutation, Column

\* A column that is pruned.
LEMMA PrunedTyped ==
    ASSUME NEW c \in Column
    PROVE  /\ Pruned(c) \in Column
           /\ Pruned(c).kind = "pruned" /\ Pruned(c).stamp = c.stamp
           /\ Pruned(c).date = c.date
  BY DEF Pruned, Column

\* What a prune makes of a row.
LEMMA PruneRow ==
    ASSUME TypeOK, NEW p \in Procs, NEW q \in Queries, Prune(p, q)
    PROVE  /\ col' \in [Queries -> [Items -> Column]]
           /\ \A r \in Queries, i \in Items :
                \/ col'[r][i] = col[r][i]
                \/ /\ r = q /\ i \in Doomed(seen[p][q])
                   /\ seen[p][q][i] \in Column
                   /\ Wins(Pruned(seen[p][q][i]), col[q][i])
                   /\ col'[r][i] = Pruned(seen[p][q][i])
<1> DEFINE new(i) == LET d == Pruned(seen[p][q][i]) IN
                     IF i \in Doomed(seen[p][q]) /\ Wins(d, col[q][i]) THEN d ELSE col[q][i]
<1>1. col' = [col EXCEPT ![q] = [i \in Items |-> new(i)]]
  BY DEF Prune
<1>2. \A i \in Items : seen[p][q][i] \in Column /\ col[q][i] \in Column
  BY DEF TypeOK
<1>3. \A i \in Items : /\ new(i) \in Column
                       /\ \/ new(i) = col[q][i]
                          \/ /\ i \in Doomed(seen[p][q])
                             /\ Wins(Pruned(seen[p][q][i]), col[q][i])
                             /\ new(i) = Pruned(seen[p][q][i])
  BY <1>2, PrunedTyped
<1> HIDE DEF new
<1>4. /\ col' \in [Queries -> [Items -> Column]]
      /\ \A r \in Queries : r # q => col'[r] = col[r]
      /\ \A i \in Items : col'[q][i] = new(i)
  BY <1>1, <1>3 DEF TypeOK
<1> QED
  BY <1>2, <1>3, <1>4

\* Every step keeps the types.
LEMMA TypesPreserved ==
    ASSUME TypeOK, NEW p \in Procs, Step(p)
    PROVE  TypeOK'
<1>1. ASSUME NEW i \in Items, NEW to \in Places, NEW now \in 0..MaxDate, Begin(p, i, to, now)
      PROVE  TypeOK'
  <2>1. batches' \in 0..MaxBatches
    BY <1>1 DEF Begin, TypeOK
  <2>2. to \in SUBSET Queries
    OBVIOUS
  <2>3. /\ date' \in [Items -> 0..MaxDate] /\ item' \in [Procs -> Items]
        /\ place' \in [Procs -> SUBSET Queries] /\ loaded' \in [Procs -> 0..MaxDate]
        /\ todo' \in [Procs -> SUBSET Queries]
        /\ at' \in [Procs -> {"idle", "fill", "send", "prune"}]
    BY <1>1, <2>2 DEF Begin, Goto, TypeOK
  <2> QED
    BY <1>1, <2>1, <2>3 DEF Begin, pruning, history, TypeOK
<1>2. ASSUME NEW q \in Queries, Enqueue(p, q)
      PROVE  TypeOK'
  <2>1. clock \in Nat /\ clock' = clock + 1
    BY <1>2 DEF Enqueue, TypeOK
  <2>2. stamp' \in [Procs -> [Queries -> 0..clock']]
    <3>1. stamp \in [Procs -> [Queries -> 0..clock']]
      BY <2>1 DEF TypeOK
    <3> QED
      BY <1>2, <2>1, <3>1 DEF Enqueue, StampFor
  <2>3. todo' \in [Procs -> SUBSET Queries]
    BY <1>2 DEF Enqueue, TypeOK
  <2>5. toPrune' \in [Procs -> SUBSET Queries]
    <3>1. toPrune \in [Procs -> SUBSET Queries]
      BY DEF TypeOK
    <3>2. toPrune' = toPrune \/ toPrune' = [toPrune EXCEPT ![p] = @ \cup {q}]
      BY <1>2 DEF Enqueue
    <3> QED
      BY <3>1, <3>2
  <2>4. /\ newest' \in [Items -> Procs \cup {NoProc}]
        /\ placed' \in [Items -> Placing]
    <3>1. newest \in [Items -> Procs \cup {NoProc}] /\ placed \in [Items -> Placing]
      BY DEF TypeOK, Placing
    <3>2. newest' = newest \/ \E r \in Procs \cup {NoProc} :
              newest' = [newest EXCEPT ![item[p]] = r]
      BY <1>2 DEF Enqueue
    <3>3. placed' = placed \/ placed' = [placed EXCEPT ![item[p]] = Unknown]
      BY <1>2 DEF Enqueue
    <3> QED
      BY <3>1, <3>2, <3>3, StartValues
  <2> QED
    BY <1>2, <2>1, <2>2, <2>3, <2>4, <2>5 DEF Enqueue, TypeOK, Placing
<1>3. ASSUME NEW q \in Queries, SendRow(p, q)
      PROVE  TypeOK'
  <2>1. stamp' \in [Procs -> [Queries -> 0..clock]]
    BY <1>3 DEF SendRow, TypeOK
  <2>2. Mutation(p, q) \in Column /\ item[p] \in Items
    BY MutationTyped DEF TypeOK
  <2>3. col' \in [Queries -> [Items -> Column]] /\ setbacks' \in [Queries -> Nat]
    <3>1. col \in [Queries -> [Items -> Column]] /\ setbacks \in [Queries -> Nat]
      BY DEF TypeOK
    <3>2. col' = col \/ col' = [col EXCEPT ![q][item[p]] = Mutation(p, q)]
      BY <1>3 DEF SendRow
    <3>3. setbacks' = setbacks \/ setbacks' = [setbacks EXCEPT ![q] = @ + 1]
      BY <1>3, <3>1 DEF SendRow
    <3> QED
      BY <2>2, <3>1, <3>2, <3>3
  <2>4. placed' \in [Items -> Placing]
    <3>1. [settled |-> TRUE, place |-> place[p], date |-> loaded[p]] \in Placing
      BY DEF TypeOK, Placing
    <3> QED
      BY <1>3, <2>2, <3>1 DEF SendRow, TypeOK, Placing
  <2> QED
    BY <1>3, <2>1, <2>3, <2>4 DEF SendRow, TypeOK, pruning, Placing
<1>4. ASSUME NEW q \in Queries, Prune(p, q)
      PROVE  TypeOK'
  <2>1. col' \in [Queries -> [Items -> Column]]
    BY <1>4, PruneRow
  <2>2. toPrune' \in [Procs -> SUBSET Queries]
    BY <1>4 DEF Prune, TypeOK
  <2>3. seen' \in [Procs -> [Queries -> [Items -> Column]]]
    BY <1>4, StartValues DEF Prune, TypeOK
  <2> QED
    BY <1>4, <2>1, <2>2, <2>3 DEF Prune, TypeOK, batch, history
<1>5. CASE Leave(p)
  BY <1>5 DEF Leave, Goto, pruning, history, TypeOK
<1>6. CASE Raise(p)
  <2>1. newest' \in [Items -> Procs \cup {NoProc}]
    BY <1>6 DEF Raise, TypeOK
  <2>2. faults' \in 0..MaxFaults
    BY <1>6 DEF Raise, Fault, TypeOK
  <2>3. at' \in [Procs -> {"idle", "fill", "send", "prune"}]
    BY <1>6 DEF Raise, Goto, TypeOK
  <2> QED
    BY <1>6, <2>1, <2>2, <2>3 DEF Raise, pruning, TypeOK
<1>7. CASE Fetch(p)
  <2> DEFINE new == [q \in Queries |-> IF q \in toPrune[p] THEN col[q] ELSE NoRow]
  <2>1. new \in [Queries -> [Items -> Column]]
    BY StartValues DEF TypeOK
  <2> HIDE DEF new
  <2>2. seen' = [seen EXCEPT ![p] = new]
    BY <1>7 DEF Fetch, new
  <2>3. seen' \in [Procs -> [Queries -> [Items -> Column]]]
    BY <2>1, <2>2 DEF TypeOK
  <2> QED
    BY <1>7, <2>3 DEF Fetch, Goto, history, TypeOK
<1>8. ASSUME Done(p), UNCHANGED <<col, clock, date, history, batches>>, faults' \in 0..MaxFaults
      PROVE  TypeOK'
  <2>1. /\ at' \in [Procs -> {"idle", "fill", "send", "prune"}]
        /\ item' \in [Procs -> Items]
        /\ place' \in [Procs -> SUBSET Queries] /\ loaded' \in [Procs -> 0..MaxDate]
        /\ todo' \in [Procs -> SUBSET Queries] /\ toPrune' \in [Procs -> SUBSET Queries]
    BY <1>8, StartValues DEF Done, Goto, TypeOK
  <2>2. stamp' \in [Procs -> [Queries -> 0..clock]]
    BY <1>8 DEF Done, TypeOK
  <2>3. seen' \in [Procs -> [Queries -> [Items -> Column]]]
    <3>1. [q \in Queries |-> NoRow] \in [Queries -> [Items -> Column]]
      BY StartValues
    <3> QED
      BY <1>8, <3>1 DEF Done, TypeOK
  <2> QED
    BY <1>8, <2>1, <2>2, <2>3 DEF history, TypeOK
<1>9. CASE Finish(p) \/ Crash(p)
  BY <1>8, <1>9 DEF Finish, Crash, Fault, TypeOK
<1> QED
  BY <1>1, <1>2, <1>3, <1>4, <1>5, <1>6, <1>7, <1>9 DEF Step

\* Every variable has its type (query_cache.py).
THEOREM Typing == Spec => []TypeOK
<1>1. Init => TypeOK
  <2> SUFFICES ASSUME Init PROVE TypeOK
    OBVIOUS
  <2>1. col \in [Queries -> [Items -> Column]]
    <3> DEFINE live == [kind |-> "live", stamp |-> 0, date |-> 0]
    <3>1. live \in Column /\ NoColumn \in Column
      BY StartValues DEF Column
    <3> HIDE DEF live
    <3>2. PICK start \in [Items -> Places] :
            col = [q \in Queries |-> [i \in Items |-> IF q \in start[i] THEN live ELSE NoColumn]]
      BY DEF Init, live
    <3> QED
      BY <3>1, <3>2
  <2>2. seen \in [Procs -> [Queries -> [Items -> Column]]]
    BY StartValues DEF Init
  <2>3. /\ item \in [Procs -> Items]
        /\ placed \in [Items -> Placing]
    BY StartValues DEF Init
  <2>4. stamp \in [Procs -> [Queries -> 0..clock]] /\ clock \in Nat
    BY DEF Init
  <2> QED
    BY <2>1, <2>2, <2>3, <2>4 DEF Init, TypeOK, Placing
<1>2. TypeOK /\ [Next]_vars => TypeOK'
  <2>1. TypeOK /\ UNCHANGED vars => TypeOK'
    BY DEF vars, batch, pruning, history, TypeOK
  <2> QED
    BY <2>1, TypesPreserved DEF Next
<1> QED
  BY <1>1, <1>2, PTL DEF Spec

-----------------------------------------------------------------------------
(* The columns.                                                             *)

\* A prune changes neither the stamp nor the date of a column, nor whether its item
\* is a member (query_cache.py:546-556).
LEMMA PruneKeeps ==
    ASSUME TypeOK, Witnessed, NEW p \in Procs, NEW q \in Queries, Prune(p, q),
           NEW r \in Queries, NEW i \in Items
    PROVE  /\ col'[r][i].stamp = col[r][i].stamp
           /\ col'[r][i].date = col[r][i].date
           /\ Member(col'[r][i]) <=> Member(col[r][i])
           /\ \/ col'[r][i] = col[r][i]
              \/ r = q /\ i \in Doomed(seen[p][q]) /\ col[q][i].date = seen[p][q][i].date
<1>1. CASE col'[r][i] = col[r][i]
  BY <1>1
<1>2. CASE /\ r = q /\ i \in Doomed(seen[p][q])
           /\ seen[p][q][i] \in Column
           /\ Wins(Pruned(seen[p][q][i]), col[q][i])
           /\ col'[r][i] = Pruned(seen[p][q][i])
  <2>1. seen[p][q][i].kind = "live"
    BY <1>2 DEF Doomed, Extraneous, Shown
  <2>2. col[q][i] \in Column
    BY DEF TypeOK
  <2>3. seen[p][q][i].stamp >= col[q][i].stamp
    BY <1>2, <2>2, PrunedTyped DEF Wins, Column
  <2>4. /\ seen[p][q][i].stamp = col[q][i].stamp
        /\ Member(col[q][i])
        /\ col[q][i].date = seen[p][q][i].date
    BY <1>2, <2>1, <2>2, <2>3 DEF Witnessed, Column
  <2>5. /\ col'[r][i].kind = "pruned"
        /\ col'[r][i].stamp = seen[p][q][i].stamp /\ col'[r][i].date = seen[p][q][i].date
    BY <1>2, PrunedTyped
  <2> QED
    BY <1>2, <2>4, <2>5 DEF Member
<1> QED
  BY <1>1, <1>2, PruneRow

\* Sending a row replaces one column, and only by a later mutation.
LEMMA RowSent ==
    ASSUME TypeOK, Unique, NEW p \in Procs, NEW q \in Queries, SendRow(p, q)
    PROVE  /\ item[p] \in Items /\ stamp[p][q] > 0
           /\ col' \in [Queries -> [Items -> Column]]
           /\ \A r \in Queries, i \in Items :
                r # q \/ i # item[p] => col'[r][i] = col[r][i]
           /\ \A r \in Procs, u \in Queries :
                stamp'[r][u] = IF r = p /\ u = q THEN 0 ELSE stamp[r][u]
           /\ IF stamp[p][q] > col[q][item[p]].stamp
              THEN /\ col'[q][item[p]] = Mutation(p, q)
                   /\ setbacks' = [setbacks EXCEPT ![q] =
                          IF SetsBack(col[q][item[p]], Mutation(p, q)) THEN @ + 1 ELSE @]
              ELSE col' = col /\ setbacks' = setbacks
<1>1. /\ item[p] \in Items /\ stamp[p][q] > 0
      /\ stamp \in [Procs -> [Queries -> 0..clock]]
      /\ col \in [Queries -> [Items -> Column]]
  BY DEF SendRow, Unsent, TypeOK
<1>2. /\ Mutation(p, q) \in Column /\ Mutation(p, q).stamp = stamp[p][q]
  BY MutationTyped
<1>3. col[q][item[p]] \in Column
  <2>1. \A i \in Items : col[q][i] \in Column
    BY <1>1
  <2> QED
    BY <1>1, <2>1
<1>4. col[q][item[p]].stamp # stamp[p][q]
  BY <1>1 DEF Unique
<1>5. Wins(Mutation(p, q), col[q][item[p]]) <=> stamp[p][q] > col[q][item[p]].stamp
  BY <1>1, <1>2, <1>3, <1>4 DEF Wins, Column
<1>6. \A r \in Procs, u \in Queries :
                stamp'[r][u] = IF r = p /\ u = q THEN 0 ELSE stamp[r][u]
  BY <1>1 DEF SendRow
<1>7. CASE stamp[p][q] > col[q][item[p]].stamp
  <2>1. /\ col' = [col EXCEPT ![q][item[p]] = Mutation(p, q)]
        /\ setbacks' = [setbacks EXCEPT ![q] =
                          IF SetsBack(col[q][item[p]], Mutation(p, q)) THEN @ + 1 ELSE @]
    BY <1>5, <1>7 DEF SendRow
  <2>2. /\ col' \in [Queries -> [Items -> Column]]
        /\ \A r \in Queries, i \in Items :
                r # q \/ i # item[p] => col'[r][i] = col[r][i]
        /\ col'[q][item[p]] = Mutation(p, q)
    BY <1>1, <1>2, <2>1
  <2> QED
    BY <1>1, <1>6, <1>7, <2>1, <2>2
<1>8. CASE ~(stamp[p][q] > col[q][item[p]].stamp)
  BY <1>1, <1>5, <1>6, <1>8 DEF SendRow
<1> QED
  BY <1>7, <1>8

\* What a process that ends a batch leaves.
LEMMA BatchGone ==
    ASSUME TypeOK, NEW p \in Procs, Done(p)
    PROVE  /\ at' = [at EXCEPT ![p] = "idle"]
           /\ \A q \in Queries : stamp'[p][q] = 0
           /\ \A q \in Queries, i \in Items : seen'[p][q][i].kind = "none"
           /\ \A r \in Procs \ {p} :
                /\ item'[r] = item[r] /\ place'[r] = place[r] /\ loaded'[r] = loaded[r]
                /\ todo'[r] = todo[r] /\ stamp'[r] = stamp[r] /\ seen'[r] = seen[r]
                /\ at'[r] = at[r]
           /\ at'[p] = "idle"
<1>1. \A q \in Queries, i \in Items : seen'[p][q][i].kind = "none"
  BY StartValues DEF Done, TypeOK
<1> QED
  BY <1>1 DEF Done, Goto, TypeOK

LEMMA BatchesPreserved ==
    ASSUME TypeOK, Batches, NEW p \in Procs, Step(p)
    PROVE  Batches'
<1>T. /\ at \in [Procs -> {"idle", "fill", "send", "prune"}]
      /\ stamp \in [Procs -> [Queries -> 0..clock]] /\ clock \in Nat
      /\ todo \in [Procs -> SUBSET Queries]
  BY DEF TypeOK
<1>1. ASSUME NEW i \in Items, NEW to \in Places, NEW now \in 0..MaxDate, Begin(p, i, to, now)
      PROVE  Batches'
  <2>1. /\ at[p] = "idle" /\ at' = [at EXCEPT ![p] = "fill"] /\ stamp' = stamp
        /\ todo' = [todo EXCEPT ![p] = Queries]
    BY <1>1 DEF Begin, Goto
  <2> QED
    BY <1>T, <2>1 DEF Batches
<1>2. ASSUME NEW q \in Queries, Enqueue(p, q)
      PROVE  Batches'
  <2>1. /\ at' = at /\ at[p] = "fill" /\ q \in todo[p]
        /\ stamp' = [stamp EXCEPT ![p][q] = clock + 1]
        /\ todo' = [todo EXCEPT ![p] = @ \ {q}]
    BY <1>2 DEF Enqueue, StampFor
  <2>2. \A r \in Procs, u \in Queries :
            stamp'[r][u] = IF r = p /\ u = q THEN clock + 1 ELSE stamp[r][u]
    BY <1>T, <2>1
  <2>3. clock + 1 # 0
    BY <1>T
  <2> QED
    BY <1>T, <2>1, <2>2, <2>3 DEF Batches
<1>3. ASSUME NEW q \in Queries, SendRow(p, q)
      PROVE  Batches'
  <2>1. /\ at' = at /\ at[p] = "send" /\ todo' = todo
        /\ stamp' = [stamp EXCEPT ![p][q] = 0]
    BY <1>3 DEF SendRow
  <2> QED
    BY <1>T, <2>1 DEF Batches
<1>4. ASSUME NEW q \in Queries, Prune(p, q)
      PROVE  Batches'
  BY <1>4 DEF Prune, batch, Batches
<1>5. CASE Leave(p) \/ Raise(p)
  <2>1. at' = [at EXCEPT ![p] = "send"] /\ UNCHANGED <<stamp, todo>>
    BY <1>5 DEF Leave, Raise, Goto
  <2> QED
    BY <1>T, <2>1 DEF Batches
<1>6. CASE Fetch(p)
  <2>1. at' = [at EXCEPT ![p] = "prune"] /\ UNCHANGED <<stamp, todo>> /\ Unsent(p) = {}
    BY <1>6 DEF Fetch, Goto
  <2>2. \A q \in Queries : stamp[p][q] = 0
    BY <1>T, <2>1 DEF Unsent
  <2> QED
    BY <1>T, <2>1, <2>2 DEF Batches
<1>7. CASE Finish(p) \/ Crash(p)
  <2>1. Done(p)
    BY <1>7 DEF Finish, Crash
  <2> QED
    BY <2>1, <1>T, BatchGone DEF Batches
<1> QED
  BY <1>1, <1>2, <1>3, <1>4, <1>5, <1>6, <1>7 DEF Step

\* Timestamps are taken from a clock that has passed all others.
LEMMA StampsPreserved ==
    ASSUME TypeOK, Unique, Timely, Witnessed, NEW p \in Procs, Step(p)
    PROVE  Unique' /\ Timely'
<1>T. /\ stamp \in [Procs -> [Queries -> 0..clock]] /\ clock \in Nat
      /\ col \in [Queries -> [Items -> Column]]
  BY DEF TypeOK
<1>S. \A q \in Queries, i \in Items : col[q][i].stamp \in Nat
  BY <1>T DEF Column
<1>1. ASSUME UNCHANGED <<clock, stamp>>,
             \A q \in Queries, i \in Items : col'[q][i].stamp = col[q][i].stamp
      PROVE  Unique' /\ Timely'
  BY <1>1 DEF Unique, Timely
<1>2. ASSUME NEW q \in Queries, Enqueue(p, q)
      PROVE  Unique' /\ Timely'
  <2>1. /\ stamp' = [stamp EXCEPT ![p][q] = clock + 1]
        /\ clock' = clock + 1 /\ col' = col
    BY <1>2 DEF Enqueue, StampFor
  <2>2. \A r \in Procs, u \in Queries :
            /\ stamp'[r][u] = IF r = p /\ u = q THEN clock + 1 ELSE stamp[r][u]
            /\ stamp[r][u] \in 0..clock
    BY <1>T, <2>1
  <2>3. Timely'
    BY <1>T, <1>S, <2>1 DEF Timely
  <2>4. \A u \in Queries, i \in Items : col[u][i].stamp \in 0..clock
    BY <1>S, <1>T DEF Timely
  <2>5. Unique'
    BY <1>T, <2>1, <2>2, <2>4 DEF Unique
  <2> QED
    BY <2>3, <2>5
<1>3. ASSUME NEW q \in Queries, SendRow(p, q)
      PROVE  Unique' /\ Timely'
  <2>1. clock' = clock
    BY <1>3 DEF SendRow
  <2>2. \A u \in Queries, i \in Items :
            \/ col'[u][i].stamp = col[u][i].stamp
            \/ u = q /\ col'[u][i].stamp = stamp[p][q]
    BY <1>3, RowSent, MutationTyped
  <2>3. \A r \in Procs, u \in Queries :
                stamp'[r][u] = IF r = p /\ u = q THEN 0 ELSE stamp[r][u]
    BY <1>3, RowSent
  <2>4. Timely'
    BY <1>T, <2>1, <2>2 DEF Timely
  <2>5. Unique'
    BY <1>T, <2>2, <2>3 DEF Unique
  <2> QED
    BY <2>4, <2>5
<1>4. ASSUME NEW q \in Queries, Prune(p, q)
      PROVE  Unique' /\ Timely'
  <2>1. UNCHANGED <<clock, stamp>>
    BY <1>4 DEF Prune, batch
  <2>2. \A u \in Queries, i \in Items : col'[u][i].stamp = col[u][i].stamp
    BY <1>4, PruneKeeps
  <2> QED
    BY <1>1, <2>1, <2>2
<1>5. CASE \/ \E i \in Items, to \in Places, now \in 0..MaxDate : Begin(p, i, to, now)
           \/ Leave(p) \/ Raise(p) \/ Fetch(p)
  <2>1. UNCHANGED <<col, clock, stamp>>
    <3>1. CASE \E i \in Items, to \in Places, now \in 0..MaxDate : Begin(p, i, to, now)
      BY <3>1 DEF Begin
    <3>2. CASE Leave(p) \/ Raise(p) \/ Fetch(p)
      BY <3>2 DEF Leave, Raise, Fetch
    <3> QED
      BY <1>5, <3>1, <3>2
  <2> QED
    BY <1>1, <2>1
<1>6. CASE Finish(p) \/ Crash(p)
  <2>1. Done(p) /\ UNCHANGED <<col, clock>>
    BY <1>6 DEF Finish, Crash
  <2>2. \A r \in Procs, u \in Queries : stamp'[r][u] = stamp[r][u] \/ stamp'[r][u] = 0
    BY <2>1, BatchGone
  <2>3. clock' = clock /\ col' = col
    BY <2>1
  <2>4. Timely'
    BY <2>3 DEF Timely
  <2>5. ASSUME NEW u \in Queries, NEW r \in Procs, stamp'[r][u] > 0
        PROVE  /\ stamp'[r][u] = stamp[r][u] /\ stamp[r][u] > 0
               /\ \A i \in Items : col[u][i].stamp # stamp[r][u]
               /\ \A s \in Procs \ {r} : stamp[s][u] # stamp[r][u]
    <3>1. stamp'[r][u] = stamp[r][u] /\ stamp[r][u] > 0
      BY <2>2, <2>5
    <3> QED
      BY <3>1 DEF Unique
  <2>6. ASSUME NEW u \in Queries, NEW r \in Procs, stamp'[r][u] > 0,
               NEW s \in Procs \ {r}
        PROVE  stamp'[s][u] # stamp'[r][u]
    <3>1. stamp'[s][u] = stamp[s][u] \/ stamp'[s][u] = 0
      BY <2>2
    <3>2. stamp'[r][u] = stamp[r][u] /\ stamp[s][u] # stamp[r][u]
      BY <2>5, <2>6
    <3> QED
      BY <2>6, <3>1, <3>2
  <2>7. ASSUME NEW u \in Queries, NEW r \in Procs, stamp'[r][u] > 0, NEW i \in Items
        PROVE  col'[u][i].stamp # stamp'[r][u]
    BY <2>3, <2>5, <2>7
  <2>8. Unique'
    BY <2>6, <2>7 DEF Unique
  <2> QED
    BY <2>4, <2>8
<1> QED
  BY <1>2, <1>3, <1>4, <1>5, <1>6 DEF Step

LEMMA WitnessedPreserved ==
    ASSUME TypeOK, Unique, Witnessed, NEW p \in Procs, Step(p)
    PROVE  Witnessed'
<1>T. /\ seen \in [Procs -> [Queries -> [Items -> Column]]]
      /\ col \in [Queries -> [Items -> Column]]
      /\ \A q \in Queries, i \in Items : col[q][i].stamp \in Nat
      /\ \A r \in Procs, q \in Queries, i \in Items : seen[r][q][i].stamp \in Nat
  BY DEF TypeOK, Column
<1>1. ASSUME NEW q \in Queries, SendRow(p, q)
      PROVE  Witnessed'
  <2>1. seen' = seen
    BY <1>1 DEF SendRow, pruning
  <2>2. stamp[p][q] \in Nat
    BY DEF TypeOK
  <2>3. \A u \in Queries, i \in Items :
            col'[u][i] = col[u][i] \/ col'[u][i].stamp > col[u][i].stamp
    BY <1>1, RowSent, MutationTyped
  <2>4. \A u \in Queries, i \in Items : col'[u][i].stamp \in Nat
    <3>1. col' \in [Queries -> [Items -> Column]]
      BY <1>1, RowSent
    <3>2. \A u \in Queries, i \in Items : col'[u][i] \in Column
      BY <3>1
    <3> QED
      BY <3>2 DEF Column
  <2>5. ASSUME NEW r \in Procs, NEW u \in Queries, NEW i \in Items,
               seen'[r][u][i].kind = "live"
        PROVE  \/ seen'[r][u][i].stamp < col'[u][i].stamp
               \/ /\ seen'[r][u][i].stamp = col'[u][i].stamp
                  /\ Member(col'[u][i])
                  /\ col'[u][i].date = seen'[r][u][i].date
    <3>0. \/ seen[r][u][i].stamp < col[u][i].stamp
          \/ /\ seen[r][u][i].stamp = col[u][i].stamp
             /\ Member(col[u][i])
             /\ col[u][i].date = seen[r][u][i].date
      BY <2>1, <2>5 DEF Witnessed
    <3>1. CASE col'[u][i] = col[u][i]
      BY <2>1, <3>0, <3>1
    <3>2. CASE col'[u][i].stamp > col[u][i].stamp
      <4>1. seen[r][u][i].stamp <= col[u][i].stamp
        BY <1>T, <3>0
      <4>2. /\ seen[r][u][i].stamp \in Nat /\ col[u][i].stamp \in Nat
            /\ col'[u][i].stamp \in Nat /\ seen'[r][u][i] = seen[r][u][i]
        BY <1>T, <2>1, <2>4
      <4>3. seen'[r][u][i].stamp < col'[u][i].stamp
        BY <3>2, <4>1, <4>2
      <4> QED
        BY <4>3
    <3> QED
      BY <2>3, <3>1, <3>2
  <2> QED
    BY <2>5 DEF Witnessed
<1>2. ASSUME NEW q \in Queries, Prune(p, q)
      PROVE  Witnessed'
  <2>1. \A r \in Procs, u \in Queries, i \in Items :
            seen'[r][u][i] = seen[r][u][i] \/ seen'[r][u][i].kind = "none"
    BY <1>2, <1>T, StartValues DEF Prune
  <2> QED
    BY <1>2, <2>1, PruneKeeps DEF Witnessed
<1>3. CASE Fetch(p)
  <2>1. col' = col
    BY <1>3 DEF Fetch
  <2>2. \A r \in Procs, u \in Queries, i \in Items :
            \/ seen'[r][u][i] = seen[r][u][i] \/ seen'[r][u][i].kind = "none"
            \/ seen'[r][u][i] = col[u][i]
    BY <1>3, <1>T, StartValues DEF Fetch
  <2> QED
    BY <2>1, <2>2 DEF Witnessed, Member
<1>4. CASE Finish(p) \/ Crash(p)
  <2>1. Done(p) /\ col' = col
    BY <1>4 DEF Finish, Crash
  <2>2. \A r \in Procs, u \in Queries, i \in Items :
            seen'[r][u][i] = seen[r][u][i] \/ seen'[r][u][i].kind = "none"
    <3>1. /\ \A u \in Queries, i \in Items : seen'[p][u][i].kind = "none"
          /\ \A r \in Procs \ {p} : seen'[r] = seen[r]
      BY <2>1, BatchGone
    <3>. QED
      BY <3>1
  <2> QED
    BY <2>1, <2>2 DEF Witnessed
<1>5. CASE \/ \E i \in Items, to \in Places, now \in 0..MaxDate : Begin(p, i, to, now)
           \/ \E q \in Queries : Enqueue(p, q)
           \/ Leave(p) \/ Raise(p)
  BY <1>5 DEF Begin, Enqueue, Leave, Raise, pruning, Witnessed
<1> QED
  BY <1>1, <1>2, <1>3, <1>4, <1>5 DEF Step

-----------------------------------------------------------------------------
(* The newest batch for an item.                                            *)

\* Where no batch is half-way and no column has changed but for the better, the
\* promises of a batch hold on.
LEMMA NewestPreserved ==
    ASSUME TypeOK, Batches, Unique, Timely, Witnessed, NewestWins, NEW p \in Procs, Step(p)
    PROVE  NewestWins'
<1>T. /\ stamp \in [Procs -> [Queries -> 0..clock]] /\ clock \in Nat
      /\ todo \in [Procs -> SUBSET Queries] /\ item \in [Procs -> Items]
      /\ at \in [Procs -> {"idle", "fill", "send", "prune"}]
      /\ newest \in [Items -> Procs \cup {NoProc}]
      /\ \A q \in Queries, i \in Items : col[q][i] \in Column
  BY DEF TypeOK
<1>S. \A q \in Queries, i \in Items : col[q][i].stamp \in Nat /\ col[q][i].stamp <= clock
  BY <1>T DEF Column, Timely
<1>1. SUFFICES ASSUME NEW r \in Procs, Fresh(r)'
               PROVE  /\ at'[r] = "send" => todo'[r] = {}
                      /\ NobodyHalfway(item[r], r)'
                      /\ \A q \in Queries \ todo'[r] :
                          IF stamp'[r][q] > 0
                          THEN /\ col'[q][item'[r]].stamp < stamp'[r][q]
                               /\ Older(item[r], r, q, stamp[r][q])'
                          ELSE /\ Says(q, item[r], place[r], loaded[r])'
                               /\ Older(item[r], r, q, col[q][item[r]].stamp)'
  BY DEF NewestWins
<1> DEFINE Goal == /\ at'[r] = "send" => todo'[r] = {}
                   /\ NobodyHalfway(item[r], r)'
                   /\ \A q \in Queries \ todo'[r] :
                          IF stamp'[r][q] > 0
                          THEN /\ col'[q][item'[r]].stamp < stamp'[r][q]
                               /\ Older(item[r], r, q, stamp[r][q])'
                          ELSE /\ Says(q, item[r], place[r], loaded[r])'
                               /\ Older(item[r], r, q, col[q][item[r]].stamp)'
<1> SUFFICES Goal
  OBVIOUS
\* Nothing that r has or meets is different.
<1>2. ASSUME Fresh(r), at'[r] = at[r], item'[r] = item[r], place'[r] = place[r],
             loaded'[r] = loaded[r], todo'[r] = todo[r], stamp'[r] = stamp[r],
             \A q \in Queries, i \in Items :
                /\ col'[q][i].stamp = col[q][i].stamp
                /\ col'[q][i].date = col[q][i].date
                /\ Member(col'[q][i]) <=> Member(col[q][i]),
             \A s \in Procs, q \in Queries :
                stamp'[s][q] > 0 => stamp'[s][q] = stamp[s][q] /\ item'[s] = item[s],
             \A s \in Procs : at'[s] = "fill" =>
                \/ at[s] = "fill" /\ item'[s] = item[s] /\ todo'[s] = todo[s]
                \/ todo'[s] = Queries
      PROVE  Goal
  <2>1. NobodyHalfway(item[r], r)'
    BY <1>2 DEF NewestWins, NobodyHalfway
  <2>2. ASSUME NEW q \in Queries \ todo'[r], stamp'[r][q] > 0
        PROVE  /\ col'[q][item'[r]].stamp < stamp'[r][q]
               /\ Older(item[r], r, q, stamp[r][q])'
    <3>1. /\ col[q][item[r]].stamp < stamp[r][q]
          /\ Older(item[r], r, q, stamp[r][q])
      BY <1>2, <2>2 DEF NewestWins
    <3>2. stamp'[r][q] = stamp[r][q] /\ item'[r] = item[r] /\ item[r] \in Items
      BY <1>2, <1>T
    <3>3. col'[q][item'[r]].stamp < stamp'[r][q]
      <4>1. col'[q][item[r]].stamp = col[q][item[r]].stamp
        BY <1>2, <3>2
      <4> QED
        BY <3>1, <3>2, <4>1
    <3>4. Older(item[r], r, q, stamp[r][q])'
      BY <1>2, <3>1, <3>2 DEF Older
    <3> QED
      BY <3>3, <3>4
  <2>3. ASSUME NEW q \in Queries \ todo'[r], ~(stamp'[r][q] > 0)
        PROVE  /\ Says(q, item[r], place[r], loaded[r])'
               /\ Older(item[r], r, q, col[q][item[r]].stamp)'
    <3>1. /\ Says(q, item[r], place[r], loaded[r])
          /\ Older(item[r], r, q, col[q][item[r]].stamp)
      BY <1>2, <2>3 DEF NewestWins
    <3>0. item'[r] = item[r] /\ item[r] \in Items
      BY <1>2, <1>T
    <3>3. /\ item'[r] = item[r] /\ item[r] \in Items
          /\ col'[q][item[r]].stamp = col[q][item[r]].stamp
      BY <1>2, <2>3, <3>0
    <3>5. /\ col'[q][item[r]].date = col[q][item[r]].date
          /\ Member(col'[q][item[r]]) <=> Member(col[q][item[r]])
          /\ place'[r] = place[r] /\ loaded'[r] = loaded[r]
      BY <1>2, <2>3, <3>0
    <3>2. Says(q, item[r], place[r], loaded[r])'
      BY <3>0, <3>1, <3>5 DEF Says
    <3>4. Older(item[r], r, q, col[q][item[r]].stamp)'
      BY <1>2, <3>1, <3>3 DEF Older
    <3> QED
      BY <3>2, <3>4
  <2>4. at'[r] = "send" => todo'[r] = {}
    BY <1>2 DEF NewestWins
  <2> QED
    BY <2>1, <2>2, <2>3, <2>4
<1>3. ASSUME NEW i \in Items, NEW to \in Places, NEW now \in 0..MaxDate, Begin(p, i, to, now)
      PROVE  Goal
  <2>1. /\ at[p] = "idle" /\ at' = [at EXCEPT ![p] = "fill"]
        /\ item' = [item EXCEPT ![p] = i] /\ todo' = [todo EXCEPT ![p] = Queries]
        /\ place' = [place EXCEPT ![p] = to] /\ loaded' = [loaded EXCEPT ![p] = now]
        /\ UNCHANGED <<col, stamp, newest>>
    BY <1>3 DEF Begin, Goto, history
  <2>2. r # p
    BY <1>T, <1>1, <2>1 DEF Fresh
  <2>3. \A q \in Queries : stamp[p][q] = 0
    BY <2>1 DEF Batches
  <2>4. /\ at'[r] = at[r] /\ item'[r] = item[r] /\ todo'[r] = todo[r]
        /\ place'[r] = place[r] /\ loaded'[r] = loaded[r]
    BY <2>1, <2>2 DEF TypeOK
  <2>5. Fresh(r)
    BY <1>1, <2>1, <2>4 DEF Fresh
  <2>6. \A s \in Procs, q \in Queries :
            stamp'[s][q] > 0 => stamp'[s][q] = stamp[s][q] /\ item'[s] = item[s]
    BY <1>T, <2>1, <2>3
  <2>7. \A s \in Procs : at'[s] = "fill" =>
                \/ at[s] = "fill" /\ item'[s] = item[s] /\ todo'[s] = todo[s]
                \/ todo'[s] = Queries
    BY <1>T, <2>1
  <2> HIDE DEF Goal
  <2> QED
    BY <1>2, <2>1, <2>4, <2>5, <2>6, <2>7
<1>4. ASSUME NEW q \in Queries, Enqueue(p, q)
      PROVE  Goal
  <2>1. /\ at' = at /\ at[p] = "fill" /\ q \in todo[p]
        /\ stamp' = [stamp EXCEPT ![p][q] = clock + 1]
        /\ todo' = [todo EXCEPT ![p] = @ \ {q}]
        /\ UNCHANGED <<col, item, place, loaded>>
        /\ IF todo[p] = Queries
           THEN newest' = [newest EXCEPT ![item[p]] =
                              IF Halfway(item[p]) = {} THEN p ELSE NoProc]
           ELSE newest' = newest
    BY <1>4 DEF Enqueue, StampFor
  <2>2. /\ \A s \in Procs, u \in Queries :
            stamp'[s][u] = IF s = p /\ u = q THEN clock + 1 ELSE stamp[s][u]
        /\ \A s \in Procs : todo'[s] = IF s = p THEN todo[p] \ {q} ELSE todo[s]
    BY <1>T, <2>1
  <2>3. CASE r = p /\ todo[p] = Queries
    <3>1. newest'[item[p]] = IF Halfway(item[p]) = {} THEN p ELSE NoProc
      BY <1>T, <2>1, <2>3
    <3>2. Halfway(item[p]) = {}
      BY <1>1, <2>1, <2>3, <3>1 DEF Fresh
    <3>3. NobodyHalfway(item[p], p)
      <4> SUFFICES ASSUME NEW s \in Procs \ {p}, item[s] = item[p], at[s] = "fill",
                          todo[s] # {}
                   PROVE  todo[s] = Queries
        BY DEF NobodyHalfway
      <4>1. \A u \in Queries : ~(stamp[s][u] > 0)
        BY <3>2 DEF Halfway
      <4>2. \A u \in Queries : stamp[s][u] = 0
        BY <4>1, <1>T
      <4>3. \A u \in Queries : u \in todo[s]
        BY <4>2 DEF Batches
      <4>4. todo[s] \subseteq Queries
        BY <1>T
      <4> QED
        BY <4>3, <4>4
    <3>4. NobodyHalfway(item[r], r)'
      BY <2>1, <2>2, <2>3, <3>3 DEF NobodyHalfway
    <3>5. ASSUME NEW u \in Queries \ todo'[r]
          PROVE  /\ stamp'[r][u] > 0
                 /\ col'[u][item'[r]].stamp < stamp'[r][u]
                 /\ Older(item[r], r, u, stamp[r][u])'
      <4>1. u = q /\ stamp'[r][u] = clock + 1
        BY <2>2, <2>3
      <4>2. col[u][item[r]].stamp <= clock /\ col[u][item[r]].stamp \in Nat
        BY <1>S, <1>T
      <4>3. \A s \in Procs \ {r} : stamp'[s][u] \in 0..clock
        BY <1>T, <2>2, <2>3
      <4> QED
        BY <1>T, <2>1, <4>1, <4>2, <4>3 DEF Older
    <3> QED
      BY <2>1, <2>3, <3>4, <3>5
  <2>4. CASE r = p /\ todo[p] # Queries
    <3>1. Fresh(p)
      BY <1>1, <2>1, <2>4 DEF Fresh
    <3>2. NobodyHalfway(item[r], r)'
      BY <2>1, <2>2, <2>4, <3>1 DEF NobodyHalfway, NewestWins
    <3>3. ASSUME NEW u \in Queries \ todo'[r]
          PROVE  /\ stamp'[r][u] > 0
                 /\ col'[u][item'[r]].stamp < stamp'[r][u]
                 /\ Older(item[r], r, u, stamp[r][u])'
      <4>1. CASE u = q
        <5>1. stamp'[r][u] = clock + 1
          BY <2>2, <2>4, <4>1
        <5>2. col[u][item[r]].stamp <= clock /\ col[u][item[r]].stamp \in Nat
          BY <1>S, <1>T
        <5>3. \A s \in Procs \ {r} : stamp'[s][u] \in 0..clock
          BY <1>T, <2>2, <2>4
        <5> QED
          BY <1>T, <2>1, <5>1, <5>2, <5>3 DEF Older
      <4>2. CASE u # q
        <5>1. u \in Queries \ todo[p] /\ stamp'[p][u] = stamp[p][u]
          BY <2>2, <2>4, <4>2
        <5>2. stamp[p][u] > 0
          BY <5>1, <2>1, <1>T DEF Batches
        <5>3. /\ col[u][item[p]].stamp < stamp[p][u]
              /\ Older(item[p], p, u, stamp[p][u])
          BY <3>1, <5>1, <5>2 DEF NewestWins
        <5> QED
          BY <2>1, <2>2, <2>4, <5>1, <5>2, <5>3 DEF Older
      <4> QED
        BY <4>1, <4>2
    <3> QED
      BY <2>1, <2>4, <3>2, <3>3
  <2>5. CASE r # p
    <3>1. item[r] = item[p] => todo[p] # Queries /\ newest' = newest
      BY <1>T, <1>1, <2>1, <2>5 DEF Fresh
    <3>2. Fresh(r)
      BY <1>T, <1>1, <2>1, <2>2, <2>5, <3>1 DEF Fresh
    <3>3. item[r] # item[p]
      BY <2>1, <2>5, <3>1, <3>2 DEF NewestWins, NobodyHalfway
    <3>4. NobodyHalfway(item[r], r)'
      BY <2>1, <2>2, <3>2, <3>3 DEF NobodyHalfway, NewestWins
    <3>5. \A s \in Procs, u \in Queries : item[s] = item[r] => stamp'[s][u] = stamp[s][u]
      BY <2>2, <3>3
    <3>6. todo'[r] = todo[r]
      BY <2>2, <2>5
    <3>7. ASSUME NEW u \in Queries \ todo[r], stamp[r][u] > 0
          PROVE  /\ col[u][item[r]].stamp < stamp[r][u]
                 /\ Older(item[r], r, u, stamp[r][u])'
      BY <2>1, <3>2, <3>5, <3>7 DEF NewestWins, Older
    <3>8. ASSUME NEW u \in Queries \ todo[r], ~(stamp[r][u] > 0)
          PROVE  /\ Says(u, item[r], place[r], loaded[r])'
                 /\ Older(item[r], r, u, col[u][item[r]].stamp)'
      BY <2>1, <3>2, <3>5, <3>8 DEF NewestWins, Older, Says
    <3>9. at[r] = "send" => todo[r] = {}
      BY <3>2 DEF NewestWins
    <3> QED
      BY <2>1, <3>4, <3>5, <3>6, <3>7, <3>8, <3>9
  <2> QED
    BY <2>3, <2>4, <2>5
<1>5. ASSUME NEW q \in Queries, SendRow(p, q)
      PROVE  Goal
  <2>1. /\ at[p] = "send" /\ UNCHANGED <<at, item, place, loaded, todo, newest>>
    BY <1>5 DEF SendRow
  <2>2. Fresh(r)
    BY <1>1, <2>1 DEF Fresh
  <2>3. NobodyHalfway(item[r], r)' /\ (at'[r] = "send" => todo'[r] = {})
    BY <2>1, <2>2 DEF NobodyHalfway, NewestWins
  <2>4. \A s \in Procs, u \in Queries :
                stamp'[s][u] = IF s = p /\ u = q THEN 0 ELSE stamp[s][u]
    BY <1>5, RowSent
  <2>5. ASSUME NEW u \in Queries \ todo[r], u # q \/ item[r] # item[p]
        PROVE  IF stamp'[r][u] > 0
               THEN /\ col'[u][item'[r]].stamp < stamp'[r][u]
                    /\ Older(item[r], r, u, stamp[r][u])'
               ELSE /\ Says(u, item[r], place[r], loaded[r])'
                    /\ Older(item[r], r, u, col[u][item[r]].stamp)'
    <3>1. col'[u][item[r]] = col[u][item[r]]
      BY <1>5, <2>5, <1>T, RowSent
    <3>2. stamp'[r][u] = stamp[r][u]
      BY <2>4, <2>5
    <3>3. \A s \in Procs : stamp'[s][u] > 0 => stamp'[s][u] = stamp[s][u]
      BY <2>4
    <3>4. CASE stamp[r][u] > 0
      BY <2>1, <2>2, <2>5, <3>1, <3>2, <3>3, <3>4 DEF NewestWins, Older
    <3>5. CASE ~(stamp[r][u] > 0)
      BY <2>1, <2>2, <2>5, <3>1, <3>2, <3>3, <3>5 DEF NewestWins, Older, Says
    <3> QED
      BY <3>4, <3>5
  <2>6. ASSUME q \notin todo[r], r = p
        PROVE  /\ ~(stamp'[r][q] > 0)
               /\ Says(q, item[r], place[r], loaded[r])'
               /\ Older(item[r], r, q, col[q][item[r]].stamp)'
    <3>1. stamp'[p][q] = 0 /\ stamp[p][q] > 0
      BY <1>5, <2>4, RowSent
    <3>2. /\ col[q][item[p]].stamp < stamp[p][q]
          /\ Older(item[p], p, q, stamp[p][q])
      BY <2>2, <2>6, <3>1 DEF NewestWins
    <3>3. col'[q][item[p]] = Mutation(p, q)
      BY <1>5, <3>2, RowSent
    <3>4. Says(q, item[p], place[p], loaded[p])'
      BY <2>1, <3>3, MutationTyped DEF Says, Member
    <3>5. Older(item[p], p, q, col[q][item[p]].stamp)'
      BY <2>1, <2>4, <3>2, <3>3, MutationTyped DEF Older
    <3> QED
      BY <2>6, <3>1, <3>4, <3>5
  <2>7. ASSUME q \notin todo[r], r # p, item[r] = item[p], stamp[r][q] > 0
        PROVE  /\ stamp'[r][q] > 0
               /\ col'[q][item'[r]].stamp < stamp'[r][q]
               /\ Older(item[r], r, q, stamp[r][q])'
    <3>1. /\ col[q][item[r]].stamp < stamp[r][q]
          /\ Older(item[r], r, q, stamp[r][q])
      BY <2>2, <2>7 DEF NewestWins
    <3>2. stamp'[r][q] = stamp[r][q]
      BY <2>4, <2>7
    <3>3. stamp[p][q] < stamp[r][q]
      BY <1>5, <2>7, <3>1, RowSent DEF Older
    <3>4. col'[q][item[r]].stamp < stamp[r][q]
      BY <1>5, <2>7, <3>1, <3>3, RowSent, MutationTyped
    <3>5. Older(item[r], r, q, stamp[r][q])'
      BY <2>1, <2>4, <3>1, <3>2 DEF Older
    <3> QED
      BY <2>1, <2>7, <3>2, <3>4, <3>5
  <2>8. ASSUME q \notin todo[r], r # p, item[r] = item[p], ~(stamp[r][q] > 0)
        PROVE  /\ ~(stamp'[r][q] > 0)
               /\ Says(q, item[r], place[r], loaded[r])'
               /\ Older(item[r], r, q, col[q][item[r]].stamp)'
    <3>1. /\ Says(q, item[r], place[r], loaded[r])
          /\ Older(item[r], r, q, col[q][item[r]].stamp)
      BY <2>2, <2>8 DEF NewestWins
    <3>2. stamp'[r][q] = stamp[r][q]
      BY <2>4, <2>8
    <3>3. stamp[p][q] < col[q][item[p]].stamp /\ stamp[p][q] \in Nat /\ col[q][item[p]].stamp \in Nat
      BY <1>5, <2>8, <3>1, <1>T, <1>S, RowSent DEF Older
    <3>4. ~(stamp[p][q] > col[q][item[p]].stamp)
      BY <3>3
    <3>5. col' = col
      BY <1>5, <3>4, RowSent
    <3>6. Older(item[r], r, q, col[q][item[r]].stamp)'
      BY <2>1, <2>4, <3>1, <3>5 DEF Older
    <3>7. Says(q, item[r], place[r], loaded[r])'
      BY <2>1, <3>1, <3>5 DEF Says
    <3> QED
      BY <2>8, <3>2, <3>6, <3>7
  <2> QED
    BY <2>1, <2>3, <2>5, <2>6, <2>7, <2>8
<1>6. ASSUME NEW q \in Queries, Prune(p, q)
      PROVE  Goal
  <2>1. UNCHANGED <<batch, newest>>
    BY <1>6 DEF Prune, history
  <2>2. Fresh(r)
    BY <1>1, <2>1 DEF Fresh, batch
  <2>3. \A u \in Queries, i \in Items :
                /\ col'[u][i].stamp = col[u][i].stamp
                /\ col'[u][i].date = col[u][i].date
                /\ Member(col'[u][i]) <=> Member(col[u][i])
    BY <1>6, PruneKeeps
  <2> HIDE DEF Goal
  <2> QED
    BY <1>2, <2>1, <2>2, <2>3 DEF batch
<1>7. CASE Leave(p)
  <2>1. /\ at[p] = "fill" /\ at' = [at EXCEPT ![p] = "send"] /\ todo[p] = {}
        /\ UNCHANGED <<col, item, place, loaded, todo, stamp, newest>>
    BY <1>7 DEF Leave, Goto, history
  <2>2. CASE Fresh(r)
    <3>1. NobodyHalfway(item[r], r)'
      BY <1>T, <2>1, <2>2 DEF NewestWins, NobodyHalfway
    <3>2. at'[r] = "send" => todo'[r] = {}
      BY <1>T, <2>1, <2>2 DEF NewestWins
    <3> QED
      BY <2>1, <2>2, <3>1, <3>2 DEF NewestWins, Older, Says
  <2>3. CASE ~Fresh(r)
    <3>1. r = p /\ Queries = {}
      BY <1>T, <1>1, <2>1, <2>3 DEF Fresh
    <3>2. NobodyHalfway(item[r], r)'
      BY <1>T, <2>1, <3>1 DEF NobodyHalfway
    <3> QED
      BY <2>1, <3>1, <3>2
  <2> QED
    BY <2>2, <2>3
<1>8. CASE Raise(p)
  <2>1. /\ at[p] = "fill" /\ at' = [at EXCEPT ![p] = "send"]
        /\ newest' = [newest EXCEPT ![item[p]] = IF @ = p THEN NoProc ELSE @]
        /\ UNCHANGED <<col, item, place, loaded, todo, stamp>>
    BY <1>8 DEF Raise, Goto
  <2>2. r # p /\ newest[item[r]] = r
    BY <1>T, <1>1, <2>1 DEF Fresh
  <2>3. at'[r] = at[r] /\ Fresh(r)
    BY <1>T, <1>1, <2>1, <2>2 DEF Fresh
  <2>4. NobodyHalfway(item[r], r)'
    BY <1>T, <2>1, <2>3 DEF NewestWins, NobodyHalfway
  <2> QED
    BY <2>1, <2>3, <2>4 DEF NewestWins, Older, Says
<1>9. CASE Fetch(p)
  <2>1. /\ at' = [at EXCEPT ![p] = "prune"]
        /\ UNCHANGED <<col, item, place, loaded, todo, stamp, newest>>
    BY <1>9 DEF Fetch, Goto, history
  <2>2. at'[r] = at[r] /\ Fresh(r)
    BY <1>T, <1>1, <2>1 DEF Fresh
  <2>3. NobodyHalfway(item[r], r)'
    BY <1>T, <2>1, <2>2 DEF NewestWins, NobodyHalfway
  <2> QED
    BY <2>1, <2>2, <2>3 DEF NewestWins, Older, Says
<1>10. CASE Finish(p) \/ Crash(p)
  <2>1. Done(p) /\ UNCHANGED <<col, newest>>
    BY <1>10 DEF Finish, Crash, history
  <2>2. r # p
    BY <1>1, <2>1, BatchGone DEF Fresh
  <2>3. Fresh(r)
    BY <1>1, <2>1, <2>2, BatchGone DEF Fresh
  <2>4. \A s \in Procs, q \in Queries :
                stamp'[s][q] > 0 => stamp'[s][q] = stamp[s][q] /\ item'[s] = item[s]
    <3>1. \A q \in Queries : ~(stamp'[p][q] > 0)
      BY <2>1, BatchGone
    <3> QED
      BY <2>1, <3>1, BatchGone
  <2>5. \A s \in Procs : at'[s] = "fill" =>
                at[s] = "fill" /\ item'[s] = item[s] /\ todo'[s] = todo[s]
    BY <2>1, BatchGone
  <2> HIDE DEF Goal
  <2> QED
    BY <1>2, <2>1, <2>2, <2>3, <2>4, <2>5, BatchGone
<1> HIDE DEF Goal
<1> QED
  BY <1>3, <1>4, <1>5, <1>6, <1>7, <1>8, <1>9, <1>10 DEF Step

-----------------------------------------------------------------------------
(* An item that is settled.                                                 *)

LEMMA SettledPreserved ==
    ASSUME TypeOK, Batches, Unique, Timely, Witnessed, NewestWins, NewestWins',
           StaysSettled, NEW p \in Procs, Step(p)
    PROVE  StaysSettled'
<1>T. /\ stamp \in [Procs -> [Queries -> 0..clock]] /\ clock \in Nat
      /\ todo \in [Procs -> SUBSET Queries] /\ item \in [Procs -> Items]
      /\ at \in [Procs -> {"idle", "fill", "send", "prune"}]
      /\ placed \in [Items -> Placing]
      /\ \A q \in Queries, i \in Items : col[q][i].stamp \in Nat
      /\ Procs \ {NoProc} = Procs
  BY DEF TypeOK, Column, Placing
<1> SUFFICES ASSUME NEW i \in Items, placed'[i].settled
             PROVE  /\ NobodyHalfway(i, NoProc)'
                    /\ \A q \in Queries : /\ Says(q, i, placed[i].place, placed[i].date)'
                                          /\ Older(i, NoProc, q, col[q][i].stamp)'
  BY DEF StaysSettled
<1> DEFINE Goal == /\ NobodyHalfway(i, NoProc)'
                   /\ \A q \in Queries : /\ Says(q, i, placed[i].place, placed[i].date)'
                                         /\ Older(i, NoProc, q, col[q][i].stamp)'
<1> SUFFICES Goal
  OBVIOUS
\* Nothing that i has or meets is different.
<1>1. ASSUME placed'[i] = placed[i],
             \A q \in Queries :
                /\ col'[q][i].stamp = col[q][i].stamp
                /\ col'[q][i].date = col[q][i].date
                /\ Member(col'[q][i]) <=> Member(col[q][i]),
             \A s \in Procs, q \in Queries : item'[s] = i /\ stamp'[s][q] > 0 =>
                stamp'[s][q] = stamp[s][q] /\ item[s] = i,
             \A s \in Procs : item'[s] = i /\ at'[s] = "fill" =>
                \/ at[s] = "fill" /\ item[s] = i /\ todo'[s] = todo[s]
                \/ todo'[s] = Queries
      PROVE  Goal
  <2>1. NobodyHalfway(i, NoProc)'
    BY <1>1 DEF StaysSettled, NobodyHalfway
  <2>2. ASSUME NEW q \in Queries
        PROVE  /\ Says(q, i, placed[i].place, placed[i].date)'
               /\ Older(i, NoProc, q, col[q][i].stamp)'
    <3>1. /\ Says(q, i, placed[i].place, placed[i].date)
          /\ Older(i, NoProc, q, col[q][i].stamp)
      BY <1>1 DEF StaysSettled
    <3>2. Says(q, i, placed[i].place, placed[i].date)'
      BY <1>1, <3>1 DEF Says
    <3> QED
      BY <1>1, <3>1, <3>2 DEF Older
  <2> QED
    BY <2>1, <2>2
<1>2. ASSUME NEW j \in Items, NEW to \in Places, NEW now \in 0..MaxDate, Begin(p, j, to, now)
      PROVE  Goal
  <2>1. /\ at[p] = "idle" /\ at' = [at EXCEPT ![p] = "fill"]
        /\ item' = [item EXCEPT ![p] = j] /\ todo' = [todo EXCEPT ![p] = Queries]
        /\ UNCHANGED <<col, stamp, placed>>
    BY <1>2 DEF Begin, Goto, history
  <2>2. \A q \in Queries : stamp[p][q] = 0
    BY <2>1 DEF Batches
  <2>3. \A s \in Procs, q \in Queries : item'[s] = i /\ stamp'[s][q] > 0 =>
                stamp'[s][q] = stamp[s][q] /\ item[s] = i
    BY <1>T, <2>1, <2>2
  <2>4. \A s \in Procs : item'[s] = i /\ at'[s] = "fill" =>
                \/ at[s] = "fill" /\ item[s] = i /\ todo'[s] = todo[s]
                \/ todo'[s] = Queries
    BY <1>T, <2>1
  <2> HIDE DEF Goal
  <2> QED
    BY <1>1, <2>1, <2>3, <2>4
<1>3. ASSUME NEW q \in Queries, Enqueue(p, q)
      PROVE  Goal
  <2>1. /\ at' = at /\ at[p] = "fill" /\ q \in todo[p]
        /\ stamp' = [stamp EXCEPT ![p][q] = clock + 1]
        /\ todo' = [todo EXCEPT ![p] = @ \ {q}]
        /\ UNCHANGED <<col, item>>
        /\ IF todo[p] = Queries
           THEN placed' = [placed EXCEPT ![item[p]] = Unknown]
           ELSE placed' = placed
    BY <1>3 DEF Enqueue, StampFor
  <2>2. item[p] # i
    <3> SUFFICES ASSUME item[p] = i PROVE FALSE
      OBVIOUS
    <3>1. todo[p] # Queries
      BY <1>T, <2>1, StartValues
    <3>2. placed[i].settled
      BY <2>1, <3>1
    <3> QED
      BY <1>T, <2>1, <3>1, <3>2 DEF StaysSettled, NobodyHalfway
  <2>3. placed'[i] = placed[i]
    BY <1>T, <2>1, <2>2
  <2>4. \A s \in Procs, u \in Queries : s # p => stamp'[s][u] = stamp[s][u]
    BY <1>T, <2>1
  <2>5. \A s \in Procs : s # p => todo'[s] = todo[s]
    BY <1>T, <2>1
  <2>6. \A s \in Procs, u \in Queries : item'[s] = i /\ stamp'[s][u] > 0 =>
                stamp'[s][u] = stamp[s][u] /\ item[s] = i
    BY <2>1, <2>2, <2>4
  <2>7. \A s \in Procs : item'[s] = i /\ at'[s] = "fill" =>
                at[s] = "fill" /\ item[s] = i /\ todo'[s] = todo[s]
    BY <2>1, <2>2, <2>5
  <2> HIDE DEF Goal
  <2> QED
    BY <1>1, <2>1, <2>3, <2>6, <2>7
<1>4. ASSUME NEW q \in Queries, SendRow(p, q)
      PROVE  Goal
  <2>1. /\ at[p] = "send" /\ UNCHANGED <<at, item, place, loaded, todo, newest>>
        /\ placed' = IF Unsent(p) = {q} /\ newest[item[p]] = p
                     THEN [placed EXCEPT ![item[p]] =
                              [settled |-> TRUE, place |-> place[p], date |-> loaded[p]]]
                     ELSE placed
    BY <1>4 DEF SendRow
  <2>2. \A s \in Procs, u \in Queries :
                stamp'[s][u] = IF s = p /\ u = q THEN 0 ELSE stamp[s][u]
    BY <1>4, RowSent
  <2>3. CASE i = item[p] /\ Unsent(p) = {q} /\ newest[item[p]] = p
    <3>1. Fresh(p)'
      BY <2>1, <2>3 DEF Fresh
    <3>2. NobodyHalfway(i, p)' /\ todo'[p] = {}
      BY <2>1, <2>3, <3>1 DEF NewestWins
    <3>3. NobodyHalfway(i, NoProc)'
      BY <1>T, <2>1, <3>2 DEF NobodyHalfway
    <3>4. \A u \in Queries : ~(stamp'[p][u] > 0)
      BY <2>2, <2>3 DEF Unsent
    <3>5. placed'[i].place = place[p] /\ placed'[i].date = loaded[p]
      BY <1>T, <2>1, <2>3
    <3>6. ASSUME NEW u \in Queries
          PROVE  /\ Says(u, i, placed[i].place, placed[i].date)'
                 /\ Older(i, NoProc, u, col[u][i].stamp)'
      <4>1. /\ Says(u, item[p], place[p], loaded[p])'
            /\ Older(item[p], p, u, col[u][item[p]].stamp)'
        BY <3>1, <3>2, <3>4 DEF NewestWins
      <4>2. Says(u, i, placed[i].place, placed[i].date)'
        BY <2>1, <2>3, <3>5, <4>1 DEF Says
      <4>3. Older(i, NoProc, u, col[u][i].stamp)'
        BY <2>1, <2>3, <3>4, <4>1 DEF Older
      <4> QED
        BY <4>2, <4>3
    <3> QED
      BY <3>3, <3>6
  <2>4. CASE ~(i = item[p] /\ Unsent(p) = {q} /\ newest[item[p]] = p)
    <3>1. placed'[i] = placed[i]
      BY <1>T, <2>1, <2>4
    <3>2. \A u \in Queries : col'[u][i] = col[u][i]
      <4>1. CASE item[p] # i
        BY <1>4, <4>1, RowSent
      <4>2. CASE item[p] = i
        <5>1. stamp[p][q] > 0 /\ stamp[p][q] \in Nat /\ col[q][i].stamp \in Nat
          BY <1>4, <1>T, RowSent
        <5>2. stamp[p][q] < col[q][i].stamp
          BY <1>T, <3>1, <4>2, <5>1 DEF StaysSettled, Older
        <5>3. ~(stamp[p][q] > col[q][i].stamp)
          BY <5>1, <5>2
        <5> QED
          BY <1>4, <4>2, <5>3, RowSent
      <4> QED
        BY <4>1, <4>2
    <3>3. \A s \in Procs, u \in Queries : item'[s] = i /\ stamp'[s][u] > 0 =>
                stamp'[s][u] = stamp[s][u] /\ item[s] = i
      BY <2>1, <2>2
    <3> HIDE DEF Goal
    <3> QED
      BY <1>1, <2>1, <3>1, <3>2, <3>3
  <2> QED
    BY <2>3, <2>4
<1>5. ASSUME NEW q \in Queries, Prune(p, q)
      PROVE  Goal
  <2>1. UNCHANGED <<batch, placed>>
    BY <1>5 DEF Prune, history
  <2>2. \A u \in Queries :
                /\ col'[u][i].stamp = col[u][i].stamp
                /\ col'[u][i].date = col[u][i].date
                /\ Member(col'[u][i]) <=> Member(col[u][i])
    BY <1>5, PruneKeeps
  <2> HIDE DEF Goal
  <2> QED
    BY <1>1, <2>1, <2>2 DEF batch
<1>6. CASE Leave(p) \/ Raise(p) \/ Fetch(p)
  <2>1. UNCHANGED <<col, item, todo, stamp, placed>>
    BY <1>6 DEF Leave, Raise, Fetch, history
  <2>2. \A s \in Procs : at'[s] = "fill" => at[s] = "fill"
    BY <1>T, <1>6 DEF Leave, Raise, Fetch, Goto
  <2> HIDE DEF Goal
  <2> QED
    BY <1>1, <2>1, <2>2
<1>7. CASE Finish(p) \/ Crash(p)
  <2>1. Done(p) /\ UNCHANGED <<col, placed>>
    BY <1>7 DEF Finish, Crash, history
  <2>2. \A s \in Procs, q \in Queries : item'[s] = i /\ stamp'[s][q] > 0 =>
                stamp'[s][q] = stamp[s][q] /\ item[s] = i
    <3>1. \A q \in Queries : ~(stamp'[p][q] > 0)
      BY <2>1, BatchGone
    <3> QED
      BY <2>1, <3>1, BatchGone
  <2>3. \A s \in Procs : item'[s] = i /\ at'[s] = "fill" =>
                at[s] = "fill" /\ item[s] = i /\ todo'[s] = todo[s]
    BY <2>1, BatchGone
  <2> HIDE DEF Goal
  <2> QED
    BY <1>1, <2>1, <2>2, <2>3
<1> HIDE DEF Goal
<1> QED
  BY <1>2, <1>3, <1>4, <1>5, <1>6, <1>7 DEF Step

-----------------------------------------------------------------------------
(* How many are ahead.                                                      *)

\* Sets of items are counted.
LEMMA ItemsCounted ==
    ASSUME NEW A \in SUBSET Items, NEW B \in SUBSET Items
    PROVE  /\ Cardinality(A) \in Nat
           /\ A \subseteq B => Cardinality(A) <= Cardinality(B)
           /\ Cardinality(A \cup B) <= Cardinality(A) + Cardinality(B)
           /\ \A x : A \subseteq B \cup {x} => Cardinality(A) <= Cardinality(B) + 1
<1>1. IsFiniteSet(A) /\ IsFiniteSet(B) /\ IsFiniteSet(A \cap B)
  <2>1. IsFiniteSet(Items)
    OBVIOUS
  <2>2. A \cap B \in SUBSET Items
    OBVIOUS
  <2> QED
    BY <2>1, <2>2, FS_Subset
<1>2. /\ Cardinality(A) \in Nat /\ Cardinality(B) \in Nat
      /\ Cardinality(A \cap B) \in Nat
  BY <1>1, FS_CardinalityType
<1>3. A \subseteq B => Cardinality(A) <= Cardinality(B)
  BY <1>1, FS_Subset
<1>4. Cardinality(A \cup B) <= Cardinality(A) + Cardinality(B)
  <2>1. Cardinality(A \cup B) = Cardinality(A) + Cardinality(B) - Cardinality(A \cap B)
    BY <1>1, FS_Union
  <2> QED
    BY <1>2, <2>1
<1>5. ASSUME NEW x, A \subseteq B \cup {x}
      PROVE  Cardinality(A) <= Cardinality(B) + 1
  <2>1. IsFiniteSet(B \cup {x}) /\ Cardinality(B \cup {x}) <= Cardinality(B) + 1
    <3>1. /\ IsFiniteSet(B \cup {x})
          /\ Cardinality(B \cup {x}) = IF x \in B THEN Cardinality(B) ELSE Cardinality(B) + 1
      BY <1>1, FS_AddElement
    <3> QED
      BY <1>2, <3>1
  <2>2. Cardinality(A) <= Cardinality(B \cup {x}) /\ Cardinality(B \cup {x}) \in Nat
    BY <1>5, <2>1, FS_Subset, FS_CardinalityType
  <2> QED
    BY <1>2, <2>1, <2>2
<1> QED
  BY <1>2, <1>3, <1>4, <1>5

\* Each item that goes missing from what a prune saw is counted as a setback.
LEMMA SetbacksPreserved ==
    ASSUME TypeOK, Unique, Witnessed, SetbacksCounted, NEW p \in Procs, Step(p)
    PROVE  SetbacksCounted'
<1>T. /\ seen \in [Procs -> [Queries -> [Items -> Column]]]
      /\ col \in [Queries -> [Items -> Column]]
      /\ setbacks \in [Queries -> Nat] /\ setbacks' \in [Queries -> Nat]
      /\ \A q \in Queries, i \in Items : col[q][i].date \in Nat
      /\ \A r \in Procs, q \in Queries, i \in Items : seen[r][q][i].date \in Nat
  BY TypesPreserved DEF TypeOK, Column
<1>1. SUFFICES ASSUME NEW r \in Procs, NEW u \in Queries
               PROVE  Cardinality(ItemsMissing(r, u)') <= setbacks'[u]
  BY DEF SetbacksCounted
<1>2. /\ ItemsMissing(r, u) \in SUBSET Items /\ ItemsMissing(r, u)' \in SUBSET Items
      /\ Cardinality(ItemsMissing(r, u)) <= setbacks[u]
      /\ Cardinality(ItemsMissing(r, u)) \in Nat /\ Cardinality(ItemsMissing(r, u)') \in Nat
      /\ setbacks[u] \in Nat /\ setbacks'[u] \in Nat
  <2>1. ItemsMissing(r, u) \in SUBSET Items /\ ItemsMissing(r, u)' \in SUBSET Items
    BY DEF ItemsMissing
  <2>2. Cardinality(ItemsMissing(r, u)) \in Nat /\ Cardinality(ItemsMissing(r, u)') \in Nat
    BY <2>1, ItemsCounted
  <2> QED
    BY <1>T, <2>1, <2>2 DEF SetbacksCounted
<1>3. ASSUME setbacks'[u] = setbacks[u], ItemsMissing(r, u)' \subseteq ItemsMissing(r, u)
      PROVE  Cardinality(ItemsMissing(r, u)') <= setbacks'[u]
  <2>1. Cardinality(ItemsMissing(r, u)') <= Cardinality(ItemsMissing(r, u))
    BY <1>2, <1>3, ItemsCounted
  <2> QED
    BY <1>2, <1>3, <2>1
<1>4. ASSUME NEW q \in Queries, SendRow(p, q)
      PROVE  Cardinality(ItemsMissing(r, u)') <= setbacks'[u]
  <2>1. seen' = seen
    BY <1>4 DEF SendRow, pruning
  <2> DEFINE c == col[q][item[p]]
             d == Mutation(p, q)
  <2>2. CASE u = q /\ stamp[p][q] > c.stamp /\ SetsBack(c, d)
    <3>1. setbacks'[u] = setbacks[u] + 1
      BY <1>4, <1>T, <2>2, RowSent
    <3>2. ItemsMissing(r, u)' \subseteq ItemsMissing(r, u) \cup {item[p]}
      <4>1. \A j \in Items \ {item[p]} : col'[u][j] = col[u][j]
        BY <1>4, RowSent
      <4> QED
        BY <2>1, <4>1 DEF ItemsMissing
    <3>3. Cardinality(ItemsMissing(r, u)') <= Cardinality(ItemsMissing(r, u)) + 1
      BY <1>2, <3>2, ItemsCounted
    <3> QED
      BY <1>2, <3>1, <3>3
  <2>3. CASE ~(u = q /\ stamp[p][q] > c.stamp /\ SetsBack(c, d))
    <3>1. setbacks'[u] = setbacks[u]
      BY <1>4, <1>T, <2>3, RowSent
    <3>2. ASSUME NEW j \in ItemsMissing(r, u)'
          PROVE  j \in ItemsMissing(r, u)
      <4>0. j \in Items
        BY <3>2 DEF ItemsMissing
      <4>1. CASE col'[u][j] = col[u][j]
        BY <2>1, <3>2, <4>1 DEF ItemsMissing
      <4>2. CASE col'[u][j] # col[u][j]
        <5>1. u = q /\ j = item[p] /\ stamp[p][q] > c.stamp /\ col'[u][j] = d
          <6>1. u = q /\ j = item[p]
            BY <1>4, <4>0, <4>2, RowSent
          <6>2. stamp[p][q] > c.stamp
            BY <1>4, <4>2, <6>1, RowSent
          <6> QED
            BY <1>4, <6>1, <6>2, RowSent
        <5>2. ~SetsBack(c, d) /\ c = col[u][j]
          BY <2>3, <5>1
        <5>3. /\ seen[r][u][j].kind = "live"
              /\ ~Member(d) \/ d.date < seen[r][u][j].date
          BY <2>1, <3>2, <5>1 DEF ItemsMissing
        <5>4. c.date \in Nat /\ d.date \in Nat /\ seen[r][u][j].date \in Nat
          <6>1. d \in Column
            BY MutationTyped
          <6> QED
            BY <1>T, <4>0, <5>2, <6>1 DEF Column
        <5>5. ~Member(c) \/ (Member(d) /\ d.date >= c.date)
          BY <5>2, <5>4 DEF SetsBack
        <5> HIDE DEF c, d
        <5>6. ~Member(c) \/ c.date < seen[r][u][j].date
          BY <5>3, <5>4, <5>5
        <5> QED
          BY <4>0, <5>2, <5>3, <5>6 DEF ItemsMissing
      <4> QED
        BY <4>1, <4>2
    <3> QED
      BY <1>3, <3>1, <3>2
  <2> QED
    BY <2>2, <2>3
<1>5. ASSUME NEW q \in Queries, Prune(p, q)
      PROVE  Cardinality(ItemsMissing(r, u)') <= setbacks'[u]
  <2>1. setbacks' = setbacks
    BY <1>5 DEF Prune, history
  <2>2. \A i \in Items :
            seen'[r][u][i] = seen[r][u][i] \/ seen'[r][u][i].kind = "none"
    BY <1>5, <1>T, StartValues DEF Prune
  <2>3. ItemsMissing(r, u)' \subseteq ItemsMissing(r, u)
    <3>1. \A i \in Items : /\ col'[u][i].date = col[u][i].date
                           /\ Member(col'[u][i]) <=> Member(col[u][i])
      BY <1>5, PruneKeeps
    <3> QED
      BY <2>2, <3>1 DEF ItemsMissing
  <2> QED
    BY <1>3, <2>1, <2>3
<1>6. CASE Fetch(p)
  <2>1. setbacks' = setbacks /\ col' = col
    BY <1>6 DEF Fetch, history
  <2>2. \A i \in Items :
            \/ seen'[r][u][i] = seen[r][u][i] \/ seen'[r][u][i].kind = "none"
            \/ seen'[r][u][i] = col[u][i]
    BY <1>6, <1>T, StartValues DEF Fetch
  <2>3. ASSUME NEW i \in Items, seen'[r][u][i] = col[u][i], col[u][i].kind = "live"
        PROVE  Member(col[u][i]) /\ ~(col[u][i].date < seen'[r][u][i].date)
    <3>1. col[u][i].date \in Nat
      BY <1>T
    <3> QED
      BY <2>3, <3>1 DEF Member
  <2>4. ItemsMissing(r, u)' \subseteq ItemsMissing(r, u)
    BY <2>1, <2>2, <2>3 DEF ItemsMissing
  <2> QED
    BY <1>3, <2>1, <2>4
<1>7. CASE Finish(p) \/ Crash(p)
  <2>1. Done(p) /\ col' = col /\ setbacks' = setbacks
    BY <1>7 DEF Finish, Crash, history
  <2>2. ItemsMissing(r, u)' \subseteq ItemsMissing(r, u)
    BY <2>1, BatchGone DEF ItemsMissing
  <2> QED
    BY <1>3, <2>1, <2>2
<1>8. ASSUME UNCHANGED <<col, seen, setbacks>>
      PROVE  Cardinality(ItemsMissing(r, u)') <= setbacks'[u]
  BY <1>3, <1>8 DEF ItemsMissing
<1>9. ASSUME NEW i \in Items, NEW to \in Places, NEW now \in 0..MaxDate, Begin(p, i, to, now)
      PROVE  UNCHANGED <<col, seen, setbacks>>
  BY <1>9 DEF Begin, pruning, history
<1>10. ASSUME NEW q \in Queries, Enqueue(p, q)
       PROVE  UNCHANGED <<col, seen, setbacks>>
  BY <1>10 DEF Enqueue
<1>11. CASE Leave(p) \/ Raise(p)
  <2>1. UNCHANGED <<col, seen, setbacks>>
    BY <1>11 DEF Leave, Raise, pruning, history
  <2> QED
    BY <1>8, <2>1
<1> QED
  BY <1>4, <1>5, <1>6, <1>7, <1>8, <1>9, <1>10, <1>11 DEF Step

\* The members of row q that are ahead of item i.
InFront(q, i) == {j \in Items : Member(col[q][j]) /\ Ahead(col[q], j, i)}

\* What a prune removes had enough others ahead of it when it looked, and still has
\* those that are not missing.
LEMMA EnoughInFront ==
    ASSUME TypeOK, SetbacksCounted, NEW p \in Procs, NEW q \in Queries,
           NEW i \in Doomed(seen[p][q]), col[q][i].date = seen[p][q][i].date
    PROVE  Cardinality(InFront(q, i)) >= MaxItems - setbacks[q]
<1>T. /\ \A j \in Items : col[q][j].date \in Nat /\ seen[p][q][j].date \in Nat
      /\ setbacks[q] \in Nat
  BY DEF TypeOK, Column
<1> DEFINE A == {j \in Shown(seen[p][q]) : Ahead(seen[p][q], j, i)}
<1>1. Cardinality(A) >= MaxItems /\ i \in Items
  BY DEF Doomed, Extraneous, Shown
<1>2. A \in SUBSET Items /\ ItemsMissing(p, q) \in SUBSET Items /\ InFront(q, i) \in SUBSET Items
  BY DEF Shown, ItemsMissing, InFront
<1>3. ASSUME NEW j \in A, j \notin ItemsMissing(p, q)
      PROVE  j \in InFront(q, i)
  <2>1. /\ j \in Items /\ seen[p][q][j].kind = "live"
        /\ Ahead(seen[p][q], j, i)
    BY DEF Shown
  <2>2. Member(col[q][j]) /\ ~(col[q][j].date < seen[p][q][j].date)
    BY <1>3, <2>1 DEF ItemsMissing
  <2>3. Ahead(col[q], j, i)
    BY <1>1, <1>T, <2>1, <2>2 DEF Ahead
  <2> QED
    BY <2>1, <2>2, <2>3 DEF InFront
<1>4. A \subseteq InFront(q, i) \cup ItemsMissing(p, q)
  BY <1>3
<1> HIDE DEF A
<1>5. Cardinality(A) <= Cardinality(InFront(q, i)) + Cardinality(ItemsMissing(p, q))
  <2>1. InFront(q, i) \cup ItemsMissing(p, q) \in SUBSET Items
    BY <1>2
  <2>2. Cardinality(A) <= Cardinality(InFront(q, i) \cup ItemsMissing(p, q))
    BY <1>2, <1>4, <2>1, ItemsCounted
  <2>3. Cardinality(InFront(q, i) \cup ItemsMissing(p, q))
            <= Cardinality(InFront(q, i)) + Cardinality(ItemsMissing(p, q))
    BY <1>2, ItemsCounted
  <2>4. /\ Cardinality(A) \in Nat /\ Cardinality(InFront(q, i)) \in Nat
        /\ Cardinality(ItemsMissing(p, q)) \in Nat
        /\ Cardinality(InFront(q, i) \cup ItemsMissing(p, q)) \in Nat
    BY <1>2, <2>1, ItemsCounted
  <2> QED
    BY <2>2, <2>3, <2>4
<1>6. /\ Cardinality(A) \in Nat /\ Cardinality(InFront(q, i)) \in Nat
      /\ Cardinality(ItemsMissing(p, q)) \in Nat
  BY <1>2, ItemsCounted
<1>7. Cardinality(ItemsMissing(p, q)) <= setbacks[q]
  BY DEF SetbacksCounted
<1> QED
  BY <1>1, <1>5, <1>6, <1>7, <1>T

LEMMA TopPreserved ==
    ASSUME TypeOK, Unique, Witnessed, SetbacksCounted, TopIsKept, NEW p \in Procs, Step(p)
    PROVE  TopIsKept'
<1>T. /\ col \in [Queries -> [Items -> Column]]
      /\ setbacks \in [Queries -> Nat] /\ setbacks' \in [Queries -> Nat]
      /\ \A q \in Queries, i \in Items : col[q][i].date \in Nat
  BY TypesPreserved DEF TypeOK, Column
<1>1. TopIsKept <=> \A q \in Queries, i \in Items : col[q][i].kind = "pruned" =>
            Cardinality(InFront(q, i)) >= MaxItems - setbacks[q]
  BY DEF TopIsKept, InFront
<1>2. SUFFICES ASSUME NEW u \in Queries, NEW i \in Items, col'[u][i].kind = "pruned"
               PROVE  Cardinality(InFront(u, i)') >= MaxItems - setbacks'[u]
  BY DEF TopIsKept, InFront
<1>3. /\ InFront(u, i) \in SUBSET Items /\ InFront(u, i)' \in SUBSET Items
      /\ Cardinality(InFront(u, i)) \in Nat /\ Cardinality(InFront(u, i)') \in Nat
      /\ setbacks[u] \in Nat /\ setbacks'[u] \in Nat
  <2>1. InFront(u, i) \in SUBSET Items /\ InFront(u, i)' \in SUBSET Items
    BY DEF InFront
  <2> QED
    BY <1>T, <2>1, ItemsCounted
<1>4. ASSUME UNCHANGED <<col, setbacks>>
      PROVE  Cardinality(InFront(u, i)') >= MaxItems - setbacks'[u]
  BY <1>1, <1>2, <1>4 DEF InFront
<1>5. ASSUME NEW q \in Queries, SendRow(p, q)
      PROVE  Cardinality(InFront(u, i)') >= MaxItems - setbacks'[u]
  <2> DEFINE c == col[q][item[p]]
             d == Mutation(p, q)
  <2>1. col'[u][i] = col[u][i]
    <3>1. Mutation(p, q).kind # "pruned"
      BY MutationTyped
    <3> QED
      BY <1>2, <1>5, <3>1, RowSent
  <2>2. Cardinality(InFront(u, i)) >= MaxItems - setbacks[u]
    BY <1>1, <1>2, <2>1
  <2>3. CASE u = q /\ stamp[p][q] > c.stamp /\ SetsBack(c, d)
    <3>1. setbacks'[u] = setbacks[u] + 1
      BY <1>5, <1>T, <2>3, RowSent
    <3>2. InFront(u, i) \subseteq InFront(u, i)' \cup {item[p]}
      <4>1. \A j \in Items \ {item[p]} : col'[u][j] = col[u][j]
        BY <1>5, RowSent
      <4> QED
        BY <2>1, <4>1 DEF InFront, Ahead
    <3>3. Cardinality(InFront(u, i)) <= Cardinality(InFront(u, i)') + 1
      BY <1>3, <3>2, ItemsCounted
    <3> QED
      BY <1>3, <2>2, <3>1, <3>3
  <2>4. CASE ~(u = q /\ stamp[p][q] > c.stamp /\ SetsBack(c, d))
    <3>1. setbacks'[u] = setbacks[u]
      BY <1>5, <1>T, <2>4, RowSent
    <3>2. ASSUME NEW j \in InFront(u, i)
          PROVE  j \in InFront(u, i)'
      <4>0. j \in Items /\ Member(col[u][j]) /\ Ahead(col[u], j, i)
        BY <3>2 DEF InFront
      <4>1. CASE col'[u][j] = col[u][j]
        BY <2>1, <4>0, <4>1 DEF InFront, Ahead
      <4>2. CASE col'[u][j] # col[u][j]
        <5>1. u = q /\ j = item[p] /\ stamp[p][q] > c.stamp /\ col'[u][j] = d
          BY <1>5, <4>0, <4>2, RowSent
        <5>2. ~SetsBack(c, d) /\ c = col[u][j]
          BY <2>4, <5>1
        <5>3. c.date \in Nat /\ d.date \in Nat /\ col[u][i].date \in Nat
          <6>1. d \in Column
            BY MutationTyped
          <6> QED
            BY <1>T, <4>0, <5>2, <6>1 DEF Column
        <5>4. Member(d) /\ d.date >= c.date
          BY <4>0, <5>2, <5>3 DEF SetsBack
        <5> HIDE DEF c, d
        <5>5. Ahead(col'[u], j, i)
          BY <2>1, <4>0, <5>1, <5>2, <5>3, <5>4 DEF Ahead
        <5> QED
          BY <4>0, <5>1, <5>4, <5>5 DEF InFront
      <4> QED
        BY <4>1, <4>2
    <3>3. Cardinality(InFront(u, i)) <= Cardinality(InFront(u, i)')
      BY <1>3, <3>2, ItemsCounted
    <3> QED
      BY <1>3, <2>2, <3>1, <3>3
  <2> QED
    BY <2>3, <2>4
<1>6. ASSUME NEW q \in Queries, Prune(p, q)
      PROVE  Cardinality(InFront(u, i)') >= MaxItems - setbacks'[u]
  <2>1. setbacks' = setbacks
    BY <1>6 DEF Prune, history
  <2>2. InFront(u, i)' = InFront(u, i)
    BY <1>6, PruneKeeps DEF InFront, Ahead
  <2>3. \/ col'[u][i] = col[u][i]
        \/ u = q /\ i \in Doomed(seen[p][q]) /\ col[q][i].date = seen[p][q][i].date
    BY <1>6, PruneKeeps
  <2>4. Cardinality(InFront(u, i)) >= MaxItems - setbacks[u]
    <3>1. CASE col'[u][i] = col[u][i]
      BY <1>1, <1>2, <3>1
    <3>2. CASE u = q /\ i \in Doomed(seen[p][q]) /\ col[q][i].date = seen[p][q][i].date
      BY <3>2, EnoughInFront
    <3> QED
      BY <2>3, <3>1, <3>2
  <2> QED
    BY <2>1, <2>2, <2>4
<1>7. ASSUME NEW j \in Items, NEW to \in Places, NEW now \in 0..MaxDate, Begin(p, j, to, now)
      PROVE  UNCHANGED <<col, setbacks>>
  BY <1>7 DEF Begin, history
<1>8. ASSUME NEW q \in Queries, Enqueue(p, q)
      PROVE  UNCHANGED <<col, setbacks>>
  BY <1>8 DEF Enqueue
<1>9. CASE Leave(p) \/ Raise(p) \/ Fetch(p) \/ Finish(p) \/ Crash(p)
  <2>1. UNCHANGED <<col, setbacks>>
    BY <1>9 DEF Leave, Raise, Fetch, Finish, Crash, history
  <2> QED
    BY <1>4, <2>1
<1> QED
  BY <1>4, <1>5, <1>6, <1>7, <1>8, <1>9 DEF Step

-----------------------------------------------------------------------------
(* The theorems.                                                            *)

\* The inductive invariant.
LEMMA CacheInvariant == Spec => [](TypeOK /\ CacheInv /\ TopIsKept)
<1>1. Init => CacheInv /\ TopIsKept
  <2> SUFFICES ASSUME Init PROVE CacheInv /\ TopIsKept
    OBVIOUS
  <2> DEFINE live == [kind |-> "live", stamp |-> 0, date |-> 0]
  <2>1. \A q \in Queries, i \in Items :
            /\ col[q][i].stamp = 0 /\ col[q][i].kind # "pruned"
    <3>1. live.kind = "live" /\ live.stamp = 0
      OBVIOUS
    <3> HIDE DEF live
    <3>2. PICK start \in [Items -> Places] :
            col = [q \in Queries |-> [i \in Items |-> IF q \in start[i] THEN live ELSE NoColumn]]
      BY DEF Init, live
    <3> QED
      BY <3>1, <3>2, StartValues
  <2>2. /\ \A p \in Procs : at[p] = "idle"
        /\ \A p \in Procs, q \in Queries : stamp[p][q] = 0
        /\ clock = 0
    BY DEF Init
  <2>3. \A p \in Procs, q \in Queries, i \in Items : seen[p][q][i].kind = "none"
    BY StartValues DEF Init
  <2>4. Batches /\ Unique /\ Timely /\ Witnessed /\ NewestWins
    BY <2>1, <2>2, <2>3 DEF Batches, Unique, Timely, Witnessed, NewestWins, Fresh
  <2>5. StaysSettled
    BY StartValues DEF Init, StaysSettled
  <2>6. SetbacksCounted
    <3> SUFFICES ASSUME NEW p \in Procs, NEW q \in Queries
                 PROVE  Cardinality(ItemsMissing(p, q)) <= setbacks[q]
      BY DEF SetbacksCounted
    <3>1. ItemsMissing(p, q) = {}
      BY <2>3 DEF ItemsMissing
    <3>2. Cardinality(ItemsMissing(p, q)) = 0
      BY <3>1, FS_EmptySet
    <3> QED
      BY <3>2 DEF Init
  <2>7. TopIsKept
    BY <2>1 DEF TopIsKept
  <2> QED
    BY <2>4, <2>5, <2>6, <2>7 DEF CacheInv
<1>2. TypeOK /\ CacheInv /\ TopIsKept /\ [Next]_vars => CacheInv' /\ TopIsKept'
  <2>1. ASSUME TypeOK, CacheInv, TopIsKept, NEW p \in Procs, Step(p)
        PROVE  CacheInv' /\ TopIsKept'
    <3>1. Batches' /\ Unique' /\ Timely' /\ Witnessed'
      BY <2>1, BatchesPreserved, StampsPreserved, WitnessedPreserved DEF CacheInv
    <3>2. NewestWins'
      BY <2>1, NewestPreserved DEF CacheInv
    <3>3. StaysSettled'
      BY <2>1, <3>2, SettledPreserved DEF CacheInv
    <3>4. SetbacksCounted' /\ TopIsKept'
      BY <2>1, SetbacksPreserved, TopPreserved DEF CacheInv
    <3> QED
      BY <3>1, <3>2, <3>3, <3>4 DEF CacheInv
  <2>2. CacheInv /\ TopIsKept /\ UNCHANGED vars => CacheInv' /\ TopIsKept'
    <3> SUFFICES ASSUME CacheInv, TopIsKept, UNCHANGED vars
                 PROVE  CacheInv' /\ TopIsKept'
      OBVIOUS
    <3>1. Batches' /\ Unique' /\ Timely' /\ Witnessed'
      BY DEF CacheInv, vars, batch, pruning, Batches, Unique, Timely, Witnessed
    <3>2. NewestWins' /\ StaysSettled'
      BY DEF CacheInv, vars, batch, history, NewestWins, StaysSettled, Fresh, NobodyHalfway,
             Older, Says
    <3>3. SetbacksCounted' /\ TopIsKept'
      BY DEF CacheInv, vars, pruning, history, SetbacksCounted, ItemsMissing, TopIsKept
    <3> QED
      BY <3>1, <3>2, <3>3 DEF CacheInv
  <2> QED
    BY <2>1, <2>2 DEF Next
<1> QED
  BY <1>1, <1>2, Typing, PTL DEF Spec

\* An item is where the batch with its newest timestamps has put it, and nowhere
\* else, whatever is sent, pruned or lost after or before (query_cache.py:546-556).
THEOREM MovedForGood == Spec => []PlacedWhereMoved
<1>1. StaysSettled => PlacedWhereMoved
  BY DEF StaysSettled, Says, PlacedWhereMoved
<1> QED
  BY <1>1, CacheInvariant, PTL DEF CacheInv

\* A prune that works from an old look at the row costs the part of the listing that
\* is shown nothing, but for what was deleted or put behind (query_cache.py:210-238).
THEOREM PrunedBeyondTop == Spec => []TopIsKept
<1> QED
  BY CacheInvariant, PTL

HIDE CacheConstants

(***************************************************************************)
(*             Cached results (memcached in front of Cassandra)             *)
(***************************************************************************)
\* Between obtaining the lock mutate_<key> and releasing it.
Mutating == {"get", "read", "write", "set", "done"}

LockTaken ==
    /\ \A p \in Callers : MutateKey \in held[p] <=> phase[p] \in Mutating
    /\ ~overrun =>
          /\ \A p \in Callers : phase[p] \in Mutating => MutateKey \in busy
          /\ \A p, q \in Callers :
                phase[p] \in Mutating /\ phase[q] \in Mutating => p = q

CallsMade == \A p \in Callers : phase[p] \in Mutating => call[p] \in Calls

\* Any replicas have a newest among them ...
Ranked ==
    \A Q \in (SUBSET Replicas) \ {{}} :
        \E r \in Q : \A s \in Q : rep[s].stamp <= rep[r].stamp

\* ... and what was written at the same time is the same.
Agreed ==
    \A r, s \in Replicas : rep[r].stamp = rep[s].stamp => rep[r] = rep[s]

\* Every quorum has a replica that knows of the last write.
InQuorums ==
    NoSlip => \A Q \in Quorums :
        \E r \in Q : \A s \in Replicas : rep[s].stamp <= rep[r].stamp

\* A mutation starts from the listing that was written last, and memcached has
\* no other when nobody is about to update it.
InStep ==
    NoSlip =>
        /\ \A p \in Callers : phase[p] = "write" => OrEmpty(value[p]) = Current
        /\ \A p \in Callers : phase[p] = "set" => value[p] = Current
        /\ Settled => mem \in {Missing, Current}

\* What was written last is sound and complete.
Sound == NoSlip => \A i \in In(Current) : Current[i] = known[i]

AsGood(i) == {j \in Things \ {i} : known[j] >= known[i]}
Complete ==
    NoSlip => \A i \in In(known) \ In(Current) :
        Cardinality(AsGood(i)) >= Limit - BatchSize - losses

ListingInvariant ==
    /\ ListingTypeOK /\ LockTaken /\ CallsMade
    /\ Ranked /\ Agreed /\ InQuorums
    /\ InStep /\ Sound /\ Complete

-----------------------------------------------------------------------------
\* Of any numbers one is the smallest.
LEMMA SmallestNumber ==
    ASSUME NEW S \in SUBSET Nat, S # {}
    PROVE  \E v \in S : \A w \in S : v <= w
<1>1. PICK v \in S : \A w \in S : <<w, v>> \notin OpToRel(<, Nat)
  BY NatLessThanWellFounded, WFMin, Zenon
<1>2. ASSUME NEW w \in S
      PROVE  v <= w
  <2>1. <<w, v>> \notin OpToRel(<, Nat)
    BY <1>1, Zenon
  <2>2. w \in Nat /\ v \in Nat
    OBVIOUS
  <2>3. ~(w < v)
    BY <2>1, <2>2, Zenon DEF OpToRel
  <2>. QED
    BY <2>2, <2>3
<1>. QED
  BY <1>2

-----------------------------------------------------------------------------
USE ListingConstants, MissingIsNoData

LEMMA MissingIsNoListing == Missing \notin Listing /\ Empty \in Listing /\ Empty \in Data
<1>1. Empty \in Data
  BY DEF Empty, Data, Gone
<1>2. In(Empty) = {}
  BY DEF In, Empty
<1>3. Cardinality({}) = 0
  BY FS_EmptySet
<1>. QED
  BY <1>1, <1>2, <1>3 DEF Listing

\* What Cassandra answers comes from one of those that are asked.
AnswersFound ==
    \A Q \in (SUBSET Replicas) \ {{}} :
        \E r \in Q : /\ Newest(Q) = rep[r]
                     /\ \A s \in Q : rep[s].stamp <= rep[r].stamp

LEMMA NewestIs == Ranked => AnswersFound
<1>. SUFFICES ASSUME Ranked, NEW Q \in (SUBSET Replicas) \ {{}}
              PROVE  \E r \in Q : /\ Newest(Q) = rep[r]
                                  /\ \A s \in Q : rep[s].stamp <= rep[r].stamp
  BY DEF AnswersFound
<1>. DEFINE Have == {rep[r] : r \in Q}
<1>1. \E c \in Have : \A r \in Q : rep[r].stamp <= c.stamp
  BY DEF Ranked
<1>2. /\ Newest(Q) \in Have
      /\ \A r \in Q : rep[r].stamp <= Newest(Q).stamp
  BY <1>1 DEF Newest
<1>. QED
  BY <1>2

LEMMA CurrentIs ==
    ListingTypeOK /\ Ranked =>
        /\ Newest(Replicas) \in [stamp : Nat, data : Listing \cup {Missing}]
        /\ Current \in Listing /\ OrEmpty(Current) = Current
        /\ \A r \in Replicas : rep[r].stamp <= Newest(Replicas).stamp
<1>. SUFFICES ASSUME ListingTypeOK, Ranked
              PROVE  /\ Newest(Replicas) \in [stamp : Nat, data : Listing \cup {Missing}]
                     /\ Current \in Listing /\ OrEmpty(Current) = Current
                     /\ \A r \in Replicas : rep[r].stamp <= Newest(Replicas).stamp
  OBVIOUS
<1>1. Replicas \in (SUBSET Replicas) \ {{}}
  OBVIOUS
<1>2. PICK r \in Replicas : /\ Newest(Replicas) = rep[r]
                            /\ \A s \in Replicas : rep[s].stamp <= rep[r].stamp
  BY <1>1, NewestIs DEF AnswersFound
<1>3. rep[r] \in [stamp : Nat, data : Listing \cup {Missing}]
  BY DEF ListingTypeOK
<1>4. Newest(Replicas).data \in Listing \cup {Missing}
  BY <1>2, <1>3
<1>5. Current \in Listing
  BY <1>4, MissingIsNoListing DEF Current, OrEmpty
<1>6. OrEmpty(Current) = Current
  BY <1>5, MissingIsNoListing DEF OrEmpty
<1>. QED
  BY <1>2, <1>3, <1>5, <1>6

\* A quorum answers what was written last.
LEMMA QuorumAnswers ==
    ListingTypeOK /\ Ranked /\ Agreed /\ InQuorums /\ NoSlip =>
        \A Q \in Quorums : Newest(Q) = Newest(Replicas)
<1>. SUFFICES ASSUME ListingTypeOK, Ranked, Agreed, InQuorums, NoSlip, NEW Q \in Quorums
              PROVE  Newest(Q) = Newest(Replicas)
  OBVIOUS
<1>1. Q \in (SUBSET Replicas) \ {{}} /\ Replicas \in (SUBSET Replicas) \ {{}}
  OBVIOUS
<1>2. PICK r \in Q : /\ Newest(Q) = rep[r]
                     /\ \A s \in Q : rep[s].stamp <= rep[r].stamp
  BY <1>1, NewestIs DEF AnswersFound
<1>3. PICK m \in Replicas : /\ Newest(Replicas) = rep[m]
                            /\ \A s \in Replicas : rep[s].stamp <= rep[m].stamp
  BY <1>1, NewestIs DEF AnswersFound
<1>4. PICK u \in Q : \A s \in Replicas : rep[s].stamp <= rep[u].stamp
  BY DEF InQuorums
<1>5. \A s \in Replicas : rep[s].stamp \in Nat
  BY DEF ListingTypeOK
<1>6. rep[u].stamp <= rep[r].stamp /\ rep[r].stamp <= rep[m].stamp
      /\ rep[m].stamp <= rep[u].stamp
  BY <1>1, <1>2, <1>3, <1>4
<1>7. rep[r].stamp = rep[m].stamp
  BY <1>1, <1>5, <1>6
<1>. QED
  BY <1>1, <1>2, <1>3, <1>7 DEF Agreed

LEMMA ValuesAreNumbers ==
    ASSUME NEW d \in Data, NEW i \in Things
    PROVE  d[i] \in Nat
<1>1. Values \cup {0} \subseteq Nat
  OBVIOUS
<1>2. d[i] \in Values \cup {0}
  BY DEF Data, Gone
<1>. QED
  BY <1>1, <1>2

-----------------------------------------------------------------------------
(* What a mutation makes of a listing.                                      *)

LEMMA InIsFinite ==
    ASSUME NEW d
    PROVE  IsFiniteSet(In(d)) /\ Cardinality(In(d)) \in Nat
<1>1. In(d) \in SUBSET Things
  BY DEF In
<1>2. IsFiniteSet(In(d))
  BY <1>1, FS_Subset
<1>. QED
  BY <1>2, FS_CardinalityType

\* Whatever is called is an insertion or a deletion.
LEMMA CallsAre ==
    ASSUME NEW c \in Calls
    PROVE  /\ c \in Call
           /\ Cardinality(In(c.new)) <= BatchSize
           /\ In(c.new) # {} => c.gone = {}
<1>1. CASE c \in [new : Insertions, gone : {{}}]
  BY <1>1, InIsFinite DEF Insertions, Call
<1>2. CASE c \in [new : {Empty}, gone : {{i} : i \in Things}]
  <2>1. In(Empty) = {} /\ Cardinality({}) = 0
    BY FS_EmptySet DEF In, Empty
  <2>2. c.new = Empty /\ c \in Call
    BY <1>2, MissingIsNoListing DEF Call
  <2>3. In(c.new) = {}
    BY <2>1, <2>2
  <2>4. Cardinality(In(c.new)) <= BatchSize
    BY <2>1, <2>3
  <2>. QED
    BY <2>2, <2>3, <2>4
<1>. QED
  BY <1>1, <1>2 DEF Calls

\* A listing with the items that get into it, before it is cut.
Merged(d, new) == [i \in Things |-> IF i \in Kept(d, new) THEN new[i] ELSE d[i]]

\* The two kinds of mutation.
LEMMA MutatedIs ==
    ASSUME NEW d, NEW c
    PROVE  /\ In(c.new) # {} => Mutated(d, c) = Truncated(Merged(d, c.new))
           /\ In(c.new) = {} =>
                 Mutated(d, c) = {[i \in Things |-> IF i \in c.gone THEN Gone ELSE d[i]]}
BY DEF Mutated, Merged

LEMMA MutatedIsListing ==
    ASSUME NEW d \in Listing, NEW c \in Call, NEW e \in Mutated(d, c)
    PROVE  e \in Listing
<1>1. CASE In(c.new) # {}
  BY <1>1, MutatedIs DEF Truncated
<1>2. CASE In(c.new) = {}
  <2>1. e = [i \in Things |-> IF i \in c.gone THEN Gone ELSE d[i]]
    BY <1>2, MutatedIs
  <2>2. e \in Data
    BY <2>1 DEF Listing, Data
  <2>3. In(e) \in SUBSET In(d)
    BY <2>1 DEF In
  <2>4. Cardinality(In(e)) <= Cardinality(In(d))
    BY <2>3, InIsFinite, FS_Subset
  <2>5. Cardinality(In(d)) <= Limit
    BY DEF Listing
  <2>. QED
    BY <2>2, <2>4, <2>5, InIsFinite DEF Listing
<1>. QED
  BY <1>1, <1>2

LEMMA SaidIs ==
    ASSUME known \in Data, NEW c \in Call
    PROVE  /\ Said(c) \in Data
           /\ Worse(c) \in SUBSET Things
           /\ IsFiniteSet(Worse(c)) /\ Cardinality(Worse(c)) \in Nat
<1>1. Said(c) \in Data
  BY DEF Said, Call, Data
<1>2. Worse(c) \in SUBSET Things
  BY DEF Worse
<1>3. IsFiniteSet(Worse(c))
  BY <1>2, FS_Subset
<1>. QED
  BY <1>1, <1>2, <1>3, FS_CardinalityType

\* What is merged into a sound listing is what the call says.
LEMMA MergedIsSound ==
    ASSUME known \in Data, NEW d \in Listing, NEW c \in Calls, In(c.new) # {},
           \A i \in In(d) : d[i] = known[i]
    PROVE  /\ Merged(d, c.new) \in Data
           /\ \A i \in In(Merged(d, c.new)) : Merged(d, c.new)[i] = Said(c)[i]
<1>. DEFINE f == Merged(d, c.new)
<1>1. c.new \in Data /\ d \in Data /\ c.gone = {}
  BY CallsAre DEF Call, Listing
<1>2. f \in Data
  BY <1>1 DEF Merged, Data
<1>3. ASSUME NEW i \in In(f)
      PROVE  f[i] = Said(c)[i]
  <2>1. i \in Things /\ f[i] # Gone
    BY DEF In
  <2>2. CASE i \in Kept(d, c.new)
    BY <2>1, <2>2 DEF Merged, Kept, Said
  <2>3. CASE i \notin Kept(d, c.new)
    <3>1. f[i] = d[i] /\ i \in In(d)
      BY <2>1, <2>3 DEF Merged, In
    <3>2. i \notin In(c.new)
      BY <2>3, <3>1 DEF Kept
    <3>. QED
      BY <1>1, <2>1, <3>1, <3>2 DEF Said
  <2>. QED
    BY <2>2, <2>3
<1>. QED
  BY <1>2, <1>3

\* A mutation of a sound listing makes a sound listing.
LEMMA MutatedIsSound ==
    ASSUME known \in Data, NEW d \in Listing, NEW c \in Calls, NEW e \in Mutated(d, c),
           \A i \in In(d) : d[i] = known[i]
    PROVE  \A i \in In(e) : e[i] = Said(c)[i]
<1>. SUFFICES ASSUME NEW i \in In(e)
              PROVE  e[i] = Said(c)[i]
  OBVIOUS
<1>0. i \in Things /\ e[i] # Gone
  BY DEF In
<1>1. CASE In(c.new) # {}
  <2>. DEFINE f == Merged(d, c.new)
  <2>1. e \in Truncated(f)
    BY <1>1, MutatedIs
  <2>2. e[i] = f[i] /\ i \in In(f)
    BY <1>0, <2>1 DEF Truncated, In
  <2>. QED
    BY <1>1, <2>2, MergedIsSound
<1>2. CASE In(c.new) = {}
  <2>1. e = [j \in Things |-> IF j \in c.gone THEN Gone ELSE d[j]]
    BY <1>2, MutatedIs
  <2>2. i \notin c.gone /\ e[i] = d[i] /\ i \in In(d)
    BY <1>0, <2>1 DEF In
  <2>. QED
    BY <1>0, <1>2, <2>2 DEF Said
<1>. QED
  BY <1>1, <1>2

-----------------------------------------------------------------------------
(* What it leaves out.                                                      *)

\* Without the members of W at least as many are left.
LEMMA Remaining ==
    ASSUME NEW A, NEW W, NEW B, IsFiniteSet(A), IsFiniteSet(W), IsFiniteSet(B),
           A \ W \subseteq B
    PROVE  Cardinality(B) >= Cardinality(A) - Cardinality(W)
<1>1. IsFiniteSet(A \ W) /\ Cardinality(A \ W) = Cardinality(A) - Cardinality(A \cap W)
  BY FS_Difference
<1>2. Cardinality(A \cap W) <= Cardinality(W) /\ IsFiniteSet(A \cap W)
  BY FS_Intersection
<1>3. Cardinality(A \ W) <= Cardinality(B)
  BY FS_Subset
<1>4. /\ Cardinality(A) \in Nat /\ Cardinality(B) \in Nat /\ Cardinality(W) \in Nat
      /\ Cardinality(A \cap W) \in Nat
  BY <1>2, FS_CardinalityType
<1>. QED
  BY <1>1, <1>2, <1>3, <1>4

\* The least value in a listing is least.
LEMMA SmallestIs ==
    ASSUME NEW d \in Listing, In(d) # {}
    PROVE  Smallest(d) \in Nat /\ \A i \in In(d) : Smallest(d) <= d[i]
<1>. DEFINE Have == {d[i] : i \in In(d)}
<1>0. d \in Data /\ In(d) \subseteq Things
  BY DEF Listing, In
<1>1. Have \in SUBSET Nat /\ Have # {}
  BY <1>0, ValuesAreNumbers
<1>2. \E v \in Have : \A w \in Have : v <= w
  BY <1>1, SmallestNumber
<1>3. \E v \in Have : \A i \in In(d) : v <= d[i]
  BY <1>2
<1>4. Smallest(d) \in Have /\ \A i \in In(d) : Smallest(d) <= d[i]
  BY <1>3 DEF Smallest
<1>. QED
  BY <1>1, <1>4

\* Things that are as good as i by what is known after a call.
AsGoodAfter(c, i) == {j \in Things \ {i} : Said(c)[j] >= Said(c)[i]}

LEMMA AsGoodIs ==
    ASSUME NEW i
    PROVE  /\ IsFiniteSet(AsGood(i)) /\ Cardinality(AsGood(i)) \in Nat
           /\ \A c : IsFiniteSet(AsGoodAfter(c, i)) /\ Cardinality(AsGoodAfter(c, i)) \in Nat
<1>1. AsGood(i) \in SUBSET Things /\ \A c : AsGoodAfter(c, i) \in SUBSET Things
  BY DEF AsGood, AsGoodAfter
<1>2. IsFiniteSet(AsGood(i)) /\ \A c : IsFiniteSet(AsGoodAfter(c, i))
  BY <1>1, FS_Subset
<1>. QED
  BY <1>2, FS_CardinalityType

\* What a call makes no worse is worth as much or more.
LEMMA NotWorse ==
    ASSUME known \in Data, NEW c \in Call, NEW j \in Things, j \notin Worse(c)
    PROVE  Said(c)[j] >= known[j]
<1>1. Said(c)[j] \in Nat /\ known[j] \in Nat
  BY SaidIs, ValuesAreNumbers
<1>. QED
  BY <1>1 DEF Worse

Enough(c, i) ==
    Cardinality(AsGoodAfter(c, i)) >= Limit - BatchSize - (losses + Cardinality(Worse(c)))

\* What was missing already, and the call says nothing of.
LEMMA StillEnough ==
    ASSUME known \in Data, losses \in Nat, NEW c \in Calls, NEW i \in Things,
           Said(c)[i] = known[i],
           Cardinality(AsGood(i)) >= Limit - BatchSize - losses
    PROVE  Enough(c, i)
<1>1. AsGood(i) \ Worse(c) \subseteq AsGoodAfter(c, i)
  <2>. SUFFICES ASSUME NEW j \in AsGood(i) \ Worse(c)
                PROVE  j \in AsGoodAfter(c, i)
    OBVIOUS
  <2>1. j \in Things \ {i} /\ known[j] >= known[i] /\ j \notin Worse(c)
    BY DEF AsGood
  <2>2. Said(c)[j] >= known[j]
    BY <2>1, CallsAre, NotWorse
  <2>3. Said(c)[j] \in Nat /\ known[j] \in Nat /\ known[i] \in Nat
    BY <2>1, CallsAre, SaidIs, ValuesAreNumbers
  <2>4. Said(c)[j] >= Said(c)[i]
    BY <2>1, <2>2, <2>3
  <2>. QED
    BY <2>1, <2>4 DEF AsGoodAfter
<1>2. IsFiniteSet(Worse(c)) /\ Cardinality(Worse(c)) \in Nat
  BY CallsAre, SaidIs
<1>3. Cardinality(AsGoodAfter(c, i)) >= Cardinality(AsGood(i)) - Cardinality(Worse(c))
  BY <1>1, <1>2, AsGoodIs, Remaining
<1>4. Cardinality(AsGood(i)) \in Nat /\ Cardinality(AsGoodAfter(c, i)) \in Nat
  BY AsGoodIs
<1>5. Limit \in Nat /\ BatchSize \in Nat
  OBVIOUS
<1>. QED
  BY <1>2, <1>3, <1>4, <1>5 DEF Enough

\* What is cut off leaves a full listing of better items.
LEMMA EnoughAreKept ==
    ASSUME known \in Data, losses \in Nat, NEW c \in Calls, NEW f \in Data,
           NEW e \in Truncated(f), NEW i \in In(f) \ In(e),
           \A j \in In(f) : f[j] = Said(c)[j]
    PROVE  Enough(c, i)
<1>1. /\ e \in Listing
      /\ \A j \in Things : e[j] \in {f[j], Gone}
      /\ Cardinality(In(e)) = Limit
      /\ \A j \in In(e) : e[j] >= f[i]
  BY DEF Truncated
<1>2. In(e) \subseteq AsGoodAfter(c, i)
  <2>. SUFFICES ASSUME NEW j \in In(e)
                PROVE  j \in AsGoodAfter(c, i)
    OBVIOUS
  <2>1. j \in Things \ {i} /\ e[j] = f[j] /\ j \in In(f)
    BY <1>1 DEF In
  <2>2. Said(c)[j] >= Said(c)[i]
    BY <1>1, <2>1
  <2>. QED
    BY <2>1, <2>2 DEF AsGoodAfter
<1>3. Cardinality(AsGoodAfter(c, i)) >= Limit
  BY <1>1, <1>2, AsGoodIs, FS_Subset
<1>4. Cardinality(Worse(c)) \in Nat
  BY CallsAre, SaidIs
<1>5. Limit \in Nat /\ BatchSize \in Nat /\ Cardinality(AsGoodAfter(c, i)) \in Nat
  BY AsGoodIs
<1>. QED
  BY <1>3, <1>4, <1>5 DEF Enough

\* What does not get in finds a listing that is nearly full of better items.
LEMMA EnoughWereThere ==
    ASSUME known \in Data, losses \in Nat, NEW d \in Listing, NEW c \in Calls,
           \A j \in In(d) : d[j] = known[j],
           NEW i \in In(c.new) \ Kept(d, c.new)
    PROVE  Enough(c, i)
<1>1. c \in Call /\ c.new \in Data /\ c.gone = {} /\ i \in Things /\ d \in Data
  BY CallsAre DEF Call, In, Listing
<1>2. WouldTruncate(d, c.new) /\ i \notin In(d) /\ ~(c.new[i] >= Smallest(d))
  BY DEF Kept
<1>3. Said(c)[i] = c.new[i]
  BY <1>1 DEF Said
<1>4. Cardinality(In(d)) >= Limit - BatchSize
  <2>1. /\ IsFiniteSet(In(d)) /\ Cardinality(In(d)) \in Nat
        /\ IsFiniteSet(In(c.new)) /\ Cardinality(In(c.new)) \in Nat
    BY InIsFinite
  <2>2. Cardinality(In(d) \cup In(c.new))
          = Cardinality(In(d)) + Cardinality(In(c.new)) - Cardinality(In(d) \cap In(c.new))
    BY <2>1, FS_Union
  <2>3. Cardinality(In(d) \cap In(c.new)) \in Nat
    BY <2>1, FS_Intersection, FS_CardinalityType
  <2>4. Cardinality(In(d) \cup In(c.new)) >= Limit
    BY <1>2 DEF WouldTruncate
  <2>5. Cardinality(In(c.new)) <= BatchSize
    BY CallsAre
  <2>6. Limit \in Nat /\ BatchSize \in Nat
    OBVIOUS
  <2>. QED
    BY <2>1, <2>2, <2>3, <2>4, <2>5, <2>6
<1>5. In(d) \ Worse(c) \subseteq AsGoodAfter(c, i)
  <2>. SUFFICES ASSUME NEW j \in In(d) \ Worse(c)
                PROVE  j \in AsGoodAfter(c, i)
    OBVIOUS
  <2>1. j \in Things \ {i} /\ j \notin Worse(c) /\ d[j] = known[j]
    BY <1>2 DEF In
  <2>2. Said(c)[j] >= known[j]
    BY <1>1, <2>1, NotWorse
  <2>3. Smallest(d) \in Nat /\ Smallest(d) <= d[j]
    BY SmallestIs
  <2>4. Said(c)[j] \in Nat /\ d[j] \in Nat /\ c.new[i] \in Nat
    BY <1>1, <2>1, SaidIs, ValuesAreNumbers
  <2>5. Said(c)[j] >= c.new[i]
    BY <1>2, <2>1, <2>2, <2>3, <2>4
  <2>. QED
    BY <1>3, <2>1, <2>5 DEF AsGoodAfter
<1>6. IsFiniteSet(Worse(c)) /\ Cardinality(Worse(c)) \in Nat
  BY <1>1, SaidIs
<1>7. Cardinality(AsGoodAfter(c, i)) >= Cardinality(In(d)) - Cardinality(Worse(c))
  BY <1>5, <1>6, InIsFinite, AsGoodIs, Remaining
<1>8. Cardinality(In(d)) \in Nat /\ Cardinality(AsGoodAfter(c, i)) \in Nat
  BY InIsFinite, AsGoodIs
<1>9. Limit \in Nat /\ BatchSize \in Nat
  OBVIOUS
<1>. QED
  BY <1>4, <1>6, <1>7, <1>8, <1>9 DEF Enough

\* A mutation of a complete listing makes a complete listing.
LEMMA MutatedIsComplete ==
    ASSUME known \in Data, losses \in Nat,
           NEW d \in Listing, NEW c \in Calls, NEW e \in Mutated(d, c),
           \A i \in In(d) : d[i] = known[i],
           \A i \in In(known) \ In(d) :
               Cardinality(AsGood(i)) >= Limit - BatchSize - losses,
           NEW i \in In(Said(c)) \ In(e)
    PROVE  Enough(c, i)
<1>0. i \in Things /\ Said(c)[i] # Gone /\ e[i] = Gone
  BY DEF In
<1>1. CASE In(c.new) # {}
  <2>. DEFINE f == Merged(d, c.new)
  <2>1. e \in Truncated(f)
    BY <1>1, MutatedIs
  <2>2. f \in Data /\ \A j \in In(f) : f[j] = Said(c)[j]
    BY <1>1, MergedIsSound
  <2>3. CASE i \in In(f)
    <3>1. i \in In(f) \ In(e)
      BY <2>3
    <3>. HIDE DEF f
    <3>. QED
      BY <2>1, <2>2, <3>1, EnoughAreKept
  <2>4. CASE i \notin In(f) /\ i \in In(c.new)
    <3>1. i \notin Kept(d, c.new)
      BY <1>0, <2>4 DEF In, Merged
    <3>. QED
      BY <2>4, <3>1, EnoughWereThere
  <2>5. CASE i \notin In(f) /\ i \notin In(c.new)
    <3>1. c.gone = {}
      BY <1>1, CallsAre
    <3>2. Said(c)[i] = known[i] /\ i \in In(known)
      BY <1>0, <2>5, <3>1 DEF Said, In
    <3>3. i \notin In(d)
      BY <1>0, <2>5 DEF In, Merged, Kept
    <3>. QED
      BY <1>0, <3>2, <3>3, StillEnough
  <2>. QED
    BY <2>3, <2>4, <2>5
<1>2. CASE In(c.new) = {}
  <2>1. e = [j \in Things |-> IF j \in c.gone THEN Gone ELSE d[j]]
    BY <1>2, MutatedIs
  <2>2. i \notin c.gone /\ Said(c)[i] = known[i] /\ i \in In(known)
    BY <1>0, <1>2 DEF Said, In
  <2>3. i \notin In(d)
    BY <1>0, <2>1, <2>2 DEF In
  <2>. QED
    BY <1>0, <2>2, <2>3, StillEnough
<1>. QED
  BY <1>1, <1>2

-----------------------------------------------------------------------------
(* Replicas.                                                                *)

\* A write is the newest there is, and everybody who is asked together with one
\* that took it knows.
LEMMA AfterWrite ==
    ASSUME ListingTypeOK, Ranked, Agreed,
           NEW Q \in (SUBSET Replicas) \ {{}}, NEW d \in Listing, WriteTo(Q, d)
    PROVE  /\ rep' \in [Replicas -> [stamp : Nat, data : Listing \cup {Missing}]]
           /\ Ranked' /\ Agreed' /\ Current' = d
           /\ \A R \in SUBSET Replicas : R \cap Q # {} =>
                  \E r \in R : \A s \in Replicas : rep'[s].stamp <= rep'[r].stamp
<1>. DEFINE n == Newest(Replicas).stamp
<1>1. /\ n \in Nat
      /\ \A r \in Replicas : rep[r].stamp \in Nat /\ rep[r].stamp <= n
  <2>1. Newest(Replicas) \in [stamp : Nat, data : Listing \cup {Missing}]
        /\ \A r \in Replicas : rep[r].stamp <= Newest(Replicas).stamp
    BY CurrentIs
  <2>. QED
    BY <2>1 DEF ListingTypeOK
<1>2. rep' = [r \in Replicas |-> IF r \in Q THEN [stamp |-> n + 1, data |-> d] ELSE rep[r]]
  BY DEF WriteTo
<1>. HIDE DEF n
<1>3. rep' \in [Replicas -> [stamp : Nat, data : Listing \cup {Missing}]]
  <2>1. [stamp |-> n + 1, data |-> d] \in [stamp : Nat, data : Listing \cup {Missing}]
    BY <1>1
  <2>2. \A r \in Replicas : rep[r] \in [stamp : Nat, data : Listing \cup {Missing}]
    BY DEF ListingTypeOK
  <2>. QED
    BY <1>2, <2>1, <2>2
<1>4. /\ \A r \in Q : rep'[r] = [stamp |-> n + 1, data |-> d]
      /\ \A r \in Replicas \ Q : rep'[r] = rep[r]
  BY <1>2
<1>5. /\ \A r \in Q : rep'[r].stamp = n + 1
      /\ \A r \in Replicas \ Q : rep'[r].stamp <= n /\ rep'[r].stamp \in Nat
  BY <1>1, <1>4
<1>6. \A r \in Q : \A s \in Replicas : rep'[s].stamp <= rep'[r].stamp
  BY <1>1, <1>5
<1>7. Ranked'
  <2>. SUFFICES ASSUME NEW R \in (SUBSET Replicas) \ {{}}
                PROVE  \E r \in R : \A s \in R : rep'[s].stamp <= rep'[r].stamp
    BY DEF Ranked
  <2>1. CASE R \cap Q # {}
    BY <1>6, <2>1
  <2>2. CASE R \cap Q = {}
    <3>1. PICK r \in R : \A s \in R : rep[s].stamp <= rep[r].stamp
      BY DEF Ranked
    <3>. QED
      BY <1>4, <2>2, <3>1
  <2>. QED
    BY <2>1, <2>2
<1>8. Agreed'
  <2>. SUFFICES ASSUME NEW r \in Replicas, NEW s \in Replicas, rep'[r].stamp = rep'[s].stamp
                PROVE  rep'[r] = rep'[s]
    BY DEF Agreed
  <2>1. r \in Q <=> s \in Q
    BY <1>1, <1>5
  <2>. QED
    BY <1>4, <2>1 DEF Agreed
<1>9. Current' = d
  <2>1. Replicas \in (SUBSET Replicas) \ {{}}
    OBVIOUS
  <2>2. PICK m \in Replicas : /\ Newest(Replicas)' = rep'[m]
                              /\ \A s \in Replicas : rep'[s].stamp <= rep'[m].stamp
    <3>1. AnswersFound'
      BY <1>7, NewestIs, PTL
    <3>2. \A R \in (SUBSET Replicas) \ {{}} :
              \E r \in R : /\ Newest(R)' = rep'[r]
                           /\ \A s \in R : rep'[s].stamp <= rep'[r].stamp
      BY <3>1 DEF AnswersFound
    <3>. QED
      BY <2>1, <3>2
  <2>3. m \in Q
    BY <1>1, <1>5, <2>2
  <2>4. Newest(Replicas)'.data = d
    BY <1>4, <2>2, <2>3
  <2>. QED
    BY <2>4, MissingIsNoListing DEF Current, OrEmpty
<1>. QED
  BY <1>3, <1>6, <1>7, <1>8, <1>9

\* A replica that catches up changes nothing of that.
LEMMA AfterCatchUp ==
    ASSUME ListingTypeOK, Ranked, Agreed, NEW r \in Replicas, CatchUp(r)
    PROVE  /\ rep' \in [Replicas -> [stamp : Nat, data : Listing \cup {Missing}]]
           /\ Ranked' /\ Agreed' /\ Current' = Current
           /\ \A q \in Replicas :
                  (\A s \in Replicas : rep[s].stamp <= rep[q].stamp)
                      => \A s \in Replicas : rep'[s].stamp <= rep'[q].stamp
<1>1. PICK m \in Replicas : /\ Newest(Replicas) = rep[m]
                            /\ \A s \in Replicas : rep[s].stamp <= rep[m].stamp
  <2>1. Replicas \in (SUBSET Replicas) \ {{}}
    OBVIOUS
  <2>. QED
    BY <2>1, NewestIs DEF AnswersFound
<1>2. \A s \in Replicas : rep'[s] = IF s = r THEN rep[m] ELSE rep[s]
  BY <1>1 DEF CatchUp, ListingTypeOK
<1>3. rep' \in [Replicas -> [stamp : Nat, data : Listing \cup {Missing}]]
  BY <1>1 DEF CatchUp, ListingTypeOK
<1>4. \A s \in Replicas : rep[s].stamp \in Nat
  BY DEF ListingTypeOK
<1>5. \A s \in Replicas : rep'[s].stamp <= rep[m].stamp /\ rep[s].stamp <= rep'[s].stamp
  BY <1>1, <1>2, <1>4
<1>6. Ranked'
  <2>. SUFFICES ASSUME NEW R \in (SUBSET Replicas) \ {{}}
                PROVE  \E q \in R : \A s \in R : rep'[s].stamp <= rep'[q].stamp
    BY DEF Ranked
  <2>1. CASE r \in R
    <3>1. rep'[r] = rep[m]
      BY <1>2
    <3>. QED
      BY <1>5, <2>1, <3>1
  <2>2. CASE r \notin R
    <3>1. PICK q \in R : \A s \in R : rep[s].stamp <= rep[q].stamp
      BY DEF Ranked
    <3>. QED
      BY <1>2, <2>2, <3>1
  <2>. QED
    BY <2>1, <2>2
<1>7. Agreed'
  BY <1>2 DEF Agreed
<1>8. \A q \in Replicas :
          (\A s \in Replicas : rep[s].stamp <= rep[q].stamp)
              => \A s \in Replicas : rep'[s].stamp <= rep'[q].stamp
  <2>. SUFFICES ASSUME NEW q \in Replicas, \A s \in Replicas : rep[s].stamp <= rep[q].stamp,
                       NEW s \in Replicas
                PROVE  rep'[s].stamp <= rep'[q].stamp
    OBVIOUS
  <2>1. rep[m].stamp <= rep[q].stamp /\ rep[q].stamp <= rep'[q].stamp
        /\ rep'[s].stamp <= rep[m].stamp
    BY <1>5
  <2>. QED
    BY <1>3, <1>4, <2>1
<1>9. Current' = Current
  <2>1. PICK k \in Replicas : /\ Newest(Replicas)' = rep'[k]
                              /\ \A s \in Replicas : rep'[s].stamp <= rep'[k].stamp
    <3>1. AnswersFound'
      BY <1>6, NewestIs, PTL
    <3>2. \A R \in (SUBSET Replicas) \ {{}} :
              \E q \in R : /\ Newest(R)' = rep'[q]
                           /\ \A s \in R : rep'[s].stamp <= rep'[q].stamp
      BY <3>1 DEF AnswersFound
    <3>3. Replicas \in (SUBSET Replicas) \ {{}}
      OBVIOUS
    <3>. QED
      BY <3>2, <3>3
  <2>2. rep'[m] = rep[m]
    BY <1>2
  <2>3. rep'[k].stamp = rep'[m].stamp
    <3>1. rep'[m].stamp <= rep'[k].stamp /\ rep'[k].stamp <= rep[m].stamp
      BY <1>5, <2>1
    <3>. QED
      BY <1>3, <2>2, <3>1
  <2>4. Newest(Replicas)' = Newest(Replicas)
    BY <1>1, <1>7, <2>1, <2>2, <2>3 DEF Agreed
  <2>. QED
    BY <2>4 DEF Current
<1>. QED
  BY <1>3, <1>6, <1>7, <1>8, <1>9

-----------------------------------------------------------------------------
(* The types.                                                               *)

LEMMA LockTypes ==
    ASSUME ListingTypeOK, NEW p \in Callers,
           \/ Lock!Obtain(p, MutateKey) \/ Lock!LetGo(p, MutateKey)
           \/ Lock!Abandon(p) \/ Lock!Lapse(MutateKey) \/ UNCHANGED lock
    PROVE  /\ held' \in [Callers -> SUBSET {MutateKey}]
           /\ busy' \in SUBSET {MutateKey}
           /\ overrun' \in BOOLEAN
<1>0. /\ held \in [Callers -> SUBSET {MutateKey}]
      /\ busy \in SUBSET {MutateKey}
      /\ overrun \in BOOLEAN
  BY DEF ListingTypeOK
<1>1. CASE Lock!Obtain(p, MutateKey)
  BY <1>0, <1>1 DEF Lock!Obtain
<1>2. CASE Lock!LetGo(p, MutateKey)
  BY <1>0, <1>2 DEF Lock!LetGo
<1>3. CASE Lock!Abandon(p)
  BY <1>0, <1>3 DEF Lock!Abandon
<1>4. CASE Lock!Lapse(MutateKey)
  BY <1>0, <1>4 DEF Lock!Lapse
<1>5. CASE UNCHANGED lock
  BY <1>0, <1>5 DEF lock
<1>. QED
  BY <1>1, <1>2, <1>3, <1>4, <1>5

LEMMA ListingTypesKept ==
    ASSUME ListingTypeOK, Ranked, Agreed, [ListingNext]_listingVars
    PROVE  ListingTypeOK'
<1>0. /\ mem \in Listing \cup {Missing}
      /\ rep \in [Replicas -> [stamp : Nat, data : Listing \cup {Missing}]]
      /\ phase \in [Callers -> {"idle", "get", "read", "write", "set", "done", "ask", "fill"}]
      /\ call \in [Callers -> Call]
      /\ value \in [Callers -> Listing \cup {Missing}]
      /\ known \in Data /\ losses \in Nat
      /\ mutations \in 0..MaxMutations
      /\ slips \subseteq {"failed write", "late fill", "crash"}
  BY DEF ListingTypeOK
<1>N. NoCall \in Call
  BY MissingIsNoListing DEF NoCall, Call
<1>1. ASSUME NEW p \in Callers, CallerStep(p)
      PROVE  ListingTypeOK'
  <2>1. CASE \E c \in Calls : StartMutate(p, c)
    <3>1. PICK c \in Calls : StartMutate(p, c)
      BY <2>1
    <3>2. c \in Call
      BY CallsAre
    <3>3. mutations' \in 0..MaxMutations
      <4>1. mutations' = mutations + 1 /\ mutations < MaxMutations
        BY <3>1 DEF StartMutate
      <4>2. mutations \in 0..MaxMutations /\ MaxMutations \in Nat
        BY <1>0
      <4>. QED
        BY <4>1, <4>2
    <3>4. /\ held' \in [Callers -> SUBSET {MutateKey}]
          /\ busy' \in SUBSET {MutateKey} /\ overrun' \in BOOLEAN
      BY <3>1, LockTypes DEF StartMutate
    <3>. QED
      BY <1>0, <3>1, <3>2, <3>3, <3>4 DEF StartMutate, Enter, stores, ListingTypeOK
  <2>2. CASE GetMem(p)
    <3>1. /\ held' \in [Callers -> SUBSET {MutateKey}]
          /\ busy' \in SUBSET {MutateKey} /\ overrun' \in BOOLEAN
      BY <2>2, LockTypes DEF GetMem
    <3>. QED
      BY <1>0, <2>2, <3>1 DEF GetMem, Enter, Keep, stores, records, ListingTypeOK
  <2>3. CASE ReadCassa(p)
    <3>1. /\ held' \in [Callers -> SUBSET {MutateKey}]
          /\ busy' \in SUBSET {MutateKey} /\ overrun' \in BOOLEAN
      BY <2>3, LockTypes DEF ReadCassa
    <3>2. PICK Q \in Quorums : Keep(p, Newest(Q).data)
      BY <2>3 DEF ReadCassa, Asked
    <3>3. Newest(Q).data \in Listing \cup {Missing}
      <4>1. Q \in (SUBSET Replicas) \ {{}}
        OBVIOUS
      <4>2. PICK r \in Q : Newest(Q) = rep[r]
        BY <4>1, NewestIs DEF AnswersFound
      <4>. QED
        BY <1>0, <4>1, <4>2
    <3>4. value' \in [Callers -> Listing \cup {Missing}]
      BY <1>0, <3>2, <3>3 DEF Keep
    <3>. QED
      BY <1>0, <2>3, <3>1, <3>4 DEF ReadCassa, Enter, stores, records, ListingTypeOK
  <2>4. CASE WriteCassa(p)
    <3>1. /\ held' \in [Callers -> SUBSET {MutateKey}]
          /\ busy' \in SUBSET {MutateKey} /\ overrun' \in BOOLEAN
      BY <2>4, LockTypes DEF WriteCassa
    <3>2. PICK d \in Mutated(OrEmpty(value[p]), call[p]), Q \in Quorums :
              /\ IF d = value[p] THEN UNCHANGED rep ELSE WriteTo(Q, d)
              /\ Keep(p, d)
      BY <2>4 DEF WriteCassa
    <3>3. OrEmpty(value[p]) \in Listing /\ call[p] \in Call
      BY <1>0, MissingIsNoListing DEF OrEmpty
    <3>4. d \in Listing
      BY <3>3, MutatedIsListing
    <3>5. rep' \in [Replicas -> [stamp : Nat, data : Listing \cup {Missing}]]
      <4>1. Q \in (SUBSET Replicas) \ {{}}
        OBVIOUS
      <4>2. CASE UNCHANGED rep
        BY <1>0, <4>2
      <4>3. CASE WriteTo(Q, d)
        BY <3>4, <4>1, <4>3, AfterWrite
      <4>. QED
        BY <3>2, <4>2, <4>3
    <3>6. known' \in Data /\ losses' \in Nat
      <4>1. /\ known' = Said(call[p])
            /\ losses' = losses + Cardinality(Worse(call[p]))
        BY <2>4 DEF WriteCassa
      <4>2. Said(call[p]) \in Data /\ Cardinality(Worse(call[p])) \in Nat
        BY <1>0, <3>3, SaidIs
      <4>3. losses \in Nat
        BY <1>0
      <4>. QED
        BY <4>1, <4>2, <4>3
    <3>7. value' \in [Callers -> Listing \cup {Missing}]
      BY <1>0, <3>2, <3>4 DEF Keep
    <3>. QED
      BY <1>0, <2>4, <3>1, <3>5, <3>6, <3>7 DEF WriteCassa, Enter, ListingTypeOK
  <2>5. CASE WriteFails(p)
    <3>1. /\ held' \in [Callers -> SUBSET {MutateKey}]
          /\ busy' \in SUBSET {MutateKey} /\ overrun' \in BOOLEAN
      BY <2>5, LockTypes DEF WriteFails
    <3>2. PICK d \in Mutated(OrEmpty(value[p]), call[p]), Q \in SUBSET Replicas : WriteTo(Q, d)
      BY <2>5 DEF WriteFails
    <3>3. OrEmpty(value[p]) \in Listing /\ call[p] \in Call
      BY <1>0, MissingIsNoListing DEF OrEmpty
    <3>4. d \in Listing
      BY <3>3, MutatedIsListing
    <3>5. rep' \in [Replicas -> [stamp : Nat, data : Listing \cup {Missing}]]
      <4>1. CASE Q = {}
        BY <1>0, <3>2, <4>1 DEF WriteTo
      <4>2. CASE Q # {}
        BY <3>2, <3>4, <4>2, AfterWrite
      <4>. QED
        BY <4>1, <4>2
    <3>. QED
      BY <1>0, <1>N, <2>5, <3>1, <3>5 DEF WriteFails, Enter, Keep, ListingTypeOK
  <2>6. CASE SetMem(p)
    <3>1. /\ held' \in [Callers -> SUBSET {MutateKey}]
          /\ busy' \in SUBSET {MutateKey} /\ overrun' \in BOOLEAN
      BY <2>6, LockTypes DEF SetMem
    <3>. QED
      BY <1>0, <2>6, <3>1 DEF SetMem, Enter, Keep, records, ListingTypeOK
  <2>7. CASE Unlock(p)
    <3>1. /\ held' \in [Callers -> SUBSET {MutateKey}]
          /\ busy' \in SUBSET {MutateKey} /\ overrun' \in BOOLEAN
      BY <2>7, LockTypes DEF Unlock
    <3>. QED
      BY <1>0, <1>N, <2>7, <3>1 DEF Unlock, Enter, stores, records, ListingTypeOK
  <2>8. CASE Look(p) \/ Ask(p) \/ Fill(p)
    <3>1. /\ held' \in [Callers -> SUBSET {MutateKey}]
          /\ busy' \in SUBSET {MutateKey} /\ overrun' \in BOOLEAN
      BY <2>8, LockTypes DEF Look, Ask, Fill
    <3>2. CASE Look(p)
      BY <1>0, <3>1, <3>2 DEF Look, Enter, stores, records, ListingTypeOK
    <3>3. CASE Ask(p)
      BY <1>0, <3>1, <3>3 DEF Ask, Enter, Keep, stores, records, ListingTypeOK
    <3>4. CASE Fill(p)
      BY <1>0, <3>1, <3>4 DEF Fill, Enter, Keep, ListingTypeOK
    <3>. QED
      BY <2>8, <3>2, <3>3, <3>4
  <2>9. CASE CallerDies(p)
    <3>1. /\ held' \in [Callers -> SUBSET {MutateKey}]
          /\ busy' \in SUBSET {MutateKey} /\ overrun' \in BOOLEAN
      BY <2>9, LockTypes DEF CallerDies
    <3>. QED
      BY <1>0, <1>N, <2>9, <3>1 DEF CallerDies, Enter, Keep, stores, ListingTypeOK
  <2>. QED
    BY <1>1, <2>1, <2>2, <2>3, <2>4, <2>5, <2>6, <2>7, <2>8, <2>9 DEF CallerStep
<1>2. ASSUME NEW r \in Replicas, CatchUp(r)
      PROVE  ListingTypeOK'
  <2>1. rep' \in [Replicas -> [stamp : Nat, data : Listing \cup {Missing}]]
    BY <1>2, AfterCatchUp
  <2>. QED
    BY <1>2, <2>1 DEF CatchUp, procs, lock, records, ListingTypeOK
<1>3. CASE Evict
  BY <1>3 DEF Evict, procs, lock, records, ListingTypeOK
<1>4. CASE LockLapses
  <2>1. /\ held' \in [Callers -> SUBSET {MutateKey}]
        /\ busy' \in SUBSET {MutateKey} /\ overrun' \in BOOLEAN
    BY <1>4 DEF LockLapses, Lock!Lapse, ListingTypeOK
  <2>. QED
    BY <1>4, <2>1 DEF LockLapses, stores, procs, records, ListingTypeOK
<1>5. CASE UNCHANGED listingVars
  BY <1>5 DEF listingVars, stores, procs, lock, records, ListingTypeOK
<1>. QED
  BY <1>1, <1>2, <1>3, <1>4, <1>5 DEF ListingNext

-----------------------------------------------------------------------------
(* The lock.                                                                *)

LEMMA LockKept ==
    ASSUME ListingTypeOK, LockTaken, CallsMade, [ListingNext]_listingVars
    PROVE  LockTaken' /\ CallsMade'
<1>0. /\ phase \in [Callers -> {"idle", "get", "read", "write", "set", "done", "ask", "fill"}]
      /\ held \in [Callers -> SUBSET {MutateKey}] /\ busy \in SUBSET {MutateKey}
      /\ call \in [Callers -> Call] /\ overrun \in BOOLEAN
  BY DEF ListingTypeOK
<1>1. ASSUME NEW p \in Callers, CallerStep(p)
      PROVE  LockTaken' /\ CallsMade'
  <2>1. CASE \E c \in Calls : StartMutate(p, c)
    <3>1. PICK c \in Calls : StartMutate(p, c)
      BY <2>1
    <3>2. /\ phase' = [phase EXCEPT ![p] = "get"] /\ call' = [call EXCEPT ![p] = c]
          /\ held' = [held EXCEPT ![p] = @ \cup {MutateKey}]
          /\ busy' = busy \cup {MutateKey} /\ MutateKey \notin busy /\ overrun' = overrun
      BY <3>1 DEF StartMutate, Enter, Lock!Obtain
    <3>3. ~overrun => \A q \in Callers : phase[q] \notin Mutating
      BY <3>2 DEF LockTaken
    <3>4. LockTaken'
      BY <1>0, <3>2, <3>3 DEF LockTaken, Mutating
    <3>5. CallsMade'
      BY <1>0, <3>2 DEF CallsMade
    <3>. QED
      BY <3>4, <3>5
  <2>2. CASE /\ phase[p] \in Mutating /\ phase' = [phase EXCEPT ![p] = phase'[p]]
             /\ phase'[p] \in Mutating /\ UNCHANGED <<call, lock>>
    BY <1>0, <2>2 DEF LockTaken, CallsMade, lock
  <2>3. CASE /\ phase[p] \notin Mutating /\ phase' = [phase EXCEPT ![p] = phase'[p]]
             /\ phase'[p] \notin Mutating /\ UNCHANGED <<call, lock>>
    BY <1>0, <2>3 DEF LockTaken, CallsMade, lock
  <2>4. CASE /\ Lock!LetGo(p, MutateKey) /\ phase' = [phase EXCEPT ![p] = "idle"]
             /\ call' = [call EXCEPT ![p] = NoCall]
    <3>1. /\ held' = [held EXCEPT ![p] = @ \ {MutateKey}] /\ busy' = busy \ {MutateKey}
          /\ overrun' = overrun /\ MutateKey \in held[p]
      BY <2>4 DEF Lock!LetGo
    <3>2. ~overrun => \A q \in Callers \ {p} : phase[q] \notin Mutating
      BY <3>1 DEF LockTaken
    <3>3. LockTaken'
      BY <1>0, <2>4, <3>1, <3>2 DEF LockTaken, Mutating
    <3>4. CallsMade'
      BY <1>0, <2>4 DEF CallsMade, Mutating
    <3>. QED
      BY <3>3, <3>4
  <2>5. CASE CallerDies(p)
    <3>1. /\ held' = [held EXCEPT ![p] = {}] /\ busy' = busy /\ overrun' = overrun
          /\ phase' = [phase EXCEPT ![p] = "idle"] /\ call' = [call EXCEPT ![p] = NoCall]
      BY <2>5 DEF CallerDies, Enter, Lock!Abandon
    <3>2. LockTaken'
      BY <1>0, <3>1 DEF LockTaken, Mutating
    <3>3. CallsMade'
      BY <1>0, <3>1 DEF CallsMade, Mutating
    <3>. QED
      BY <3>2, <3>3
  <2>6. GetMem(p) \/ ReadCassa(p) \/ WriteCassa(p) \/ SetMem(p) =>
          /\ phase[p] \in Mutating /\ phase' = [phase EXCEPT ![p] = phase'[p]]
          /\ phase'[p] \in Mutating /\ UNCHANGED <<call, lock>>
    BY <1>0 DEF GetMem, ReadCassa, WriteCassa, SetMem, Enter, Mutating
  <2>7. Look(p) \/ Ask(p) \/ Fill(p) =>
          /\ phase[p] \notin Mutating /\ phase' = [phase EXCEPT ![p] = phase'[p]]
          /\ phase'[p] \notin Mutating /\ UNCHANGED <<call, lock>>
    BY <1>0 DEF Look, Ask, Fill, Enter, Mutating
  <2>8. WriteFails(p) \/ Unlock(p) =>
          /\ Lock!LetGo(p, MutateKey) /\ phase' = [phase EXCEPT ![p] = "idle"]
          /\ call' = [call EXCEPT ![p] = NoCall]
    BY DEF WriteFails, Unlock, Enter
  <2>. QED
    BY <1>1, <2>1, <2>2, <2>3, <2>4, <2>5, <2>6, <2>7, <2>8 DEF CallerStep
<1>2. CASE UNCHANGED <<phase, call, lock>>
  BY <1>2 DEF lock, LockTaken, CallsMade
<1>3. CASE LockLapses
  <2>1. /\ busy' = busy \ {MutateKey} /\ held' = held
        /\ overrun' = (overrun \/ \E p \in Callers : MutateKey \in held[p])
        /\ phase' = phase /\ call' = call
    BY <1>3 DEF LockLapses, Lock!Lapse, procs
  <2>2. ~overrun' => ~overrun /\ \A p \in Callers : phase[p] \notin Mutating
    BY <2>1 DEF LockTaken
  <2>. QED
    BY <2>1, <2>2 DEF LockTaken, CallsMade
<1>4. \A r \in Replicas : CatchUp(r) => UNCHANGED <<phase, call, lock>>
  BY DEF CatchUp, procs
<1>5. Evict \/ UNCHANGED listingVars => UNCHANGED <<phase, call, lock>>
  BY DEF Evict, procs, listingVars
<1>. QED
  BY <1>1, <1>2, <1>3, <1>4, <1>5 DEF ListingNext

-----------------------------------------------------------------------------
(* What the listing is.                                                     *)

LEMMA SlipsStay ==
    ASSUME ListingTypeOK, [ListingNext]_listingVars, NoSlip'
    PROVE  NoSlip
<1>0. overrun \in BOOLEAN
  BY DEF ListingTypeOK
<1>1. slips \subseteq slips'
  <2>1. \A p \in Callers : CallerStep(p) => slips \subseteq slips'
    BY DEF CallerStep, StartMutate, GetMem, ReadCassa, WriteCassa, WriteFails, SetMem,
           Unlock, Look, Ask, Fill, CallerDies, records
  <2>. QED
    BY <2>1 DEF ListingNext, CatchUp, Evict, LockLapses, listingVars, records
<1>2. overrun => overrun'
  <2>1. \A p \in Callers : CallerStep(p) => (overrun => overrun')
    BY DEF CallerStep, StartMutate, GetMem, ReadCassa, WriteCassa, WriteFails, SetMem,
           Unlock, Look, Ask, Fill, CallerDies, lock,
           Lock!Obtain, Lock!LetGo, Lock!Abandon
  <2>. QED
    BY <2>1 DEF ListingNext, CatchUp, Evict, LockLapses, Lock!Lapse, listingVars, lock
<1>. QED
  BY <1>0, <1>1, <1>2 DEF NoSlip

\* As long as nothing slips, a caller's step leaves what is written alone, or it is
\* the step of the mutation that a quorum confirms.
LEMMA OnlyMutationsWrite ==
    ASSUME ListingTypeOK, NEW p \in Callers, CallerStep(p), NoSlip', ~WriteCassa(p)
    PROVE  UNCHANGED <<rep, known, losses>>
<1>1. ~WriteFails(p)
  BY DEF WriteFails, NoSlip
<1>. QED
  BY <1>1 DEF CallerStep, StartMutate, GetMem, ReadCassa, SetMem, Unlock, Look, Ask, Fill,
              CallerDies, stores, records

Written == InQuorums /\ InStep /\ Sound /\ Complete

\* The facts about what is written last do not depend on anything else.
LEMMA WrittenAlone ==
    ASSUME Sound, Complete, NoSlip, Current' = Current, UNCHANGED <<known, losses>>
    PROVE  Sound' /\ Complete'
<1>1. \A i : AsGood(i)' = AsGood(i)
  BY DEF AsGood
<1>2. In(Current') = In(Current) /\ In(known') = In(known)
  OBVIOUS
<1>. QED
  BY <1>1, <1>2 DEF Sound, Complete, In

\* The write of a mutation.
LEMMA WrittenByMutation ==
    ASSUME ListingInvariant, NEW p \in Callers, WriteCassa(p), NoSlip, NoSlip'
    PROVE  Written'
<1>0. /\ phase \in [Callers -> {"idle", "get", "read", "write", "set", "done", "ask", "fill"}]
      /\ value \in [Callers -> Listing \cup {Missing}]
      /\ known \in Data /\ losses \in Nat
  BY DEF ListingInvariant, ListingTypeOK
<1>1. /\ phase[p] = "write" /\ phase' = [phase EXCEPT ![p] = "set"]
      /\ known' = Said(call[p])
      /\ losses' = losses + Cardinality(Worse(call[p]))
      /\ mem' = mem
  BY DEF WriteCassa, Enter
<1>2. PICK d \in Mutated(OrEmpty(value[p]), call[p]), Q \in Quorums :
          /\ IF d = value[p] THEN UNCHANGED rep ELSE WriteTo(Q, d)
          /\ Keep(p, d)
  BY DEF WriteCassa
<1>3. OrEmpty(value[p]) = Current /\ Current \in Listing /\ call[p] \in Calls
  BY <1>0, <1>1, CurrentIs DEF ListingInvariant, InStep, CallsMade, Mutating
<1>4. d \in Listing /\ d \in Mutated(Current, call[p])
  BY <1>2, <1>3, CallsAre, MutatedIsListing
<1>5. Current' = d
  <2>1. CASE d = value[p]
    <3>1. Current' = Current
      BY <1>2, <2>1 DEF Current, Newest
    <3>. QED
      BY <1>3, <1>4, <2>1, <3>1, MissingIsNoListing DEF OrEmpty
  <2>2. CASE d # value[p]
    <3>1. Q \in (SUBSET Replicas) \ {{}} /\ WriteTo(Q, d)
      BY <1>2, <2>2
    <3>. QED
      BY <1>4, <3>1, AfterWrite DEF ListingInvariant
  <2>. QED
    BY <2>1, <2>2
<1>6. InQuorums'
  <2>. SUFFICES ASSUME NEW R \in Quorums
                PROVE  \E r \in R : \A s \in Replicas : rep'[s].stamp <= rep'[r].stamp
    BY DEF InQuorums
  <2>1. CASE d = value[p]
    BY <1>2, <2>1 DEF ListingInvariant, InQuorums
  <2>2. CASE d # value[p]
    <3>1. Q \in (SUBSET Replicas) \ {{}} /\ WriteTo(Q, d)
      BY <1>2, <2>2
    <3>2. R \in SUBSET Replicas /\ R \cap Q # {}
      OBVIOUS
    <3>. QED
      BY <1>4, <3>1, <3>2, AfterWrite DEF ListingInvariant
  <2>. QED
    BY <2>1, <2>2
<1>7. InStep'
  <2>1. \A q \in Callers \ {p} : phase[q] \notin Mutating
    BY <1>1 DEF ListingInvariant, LockTaken, Mutating, NoSlip
  <2>2. phase'[p] = "set" /\ \A q \in Callers \ {p} : phase'[q] \notin {"write", "set"}
    BY <1>0, <1>1, <2>1 DEF Mutating
  <2>3. value'[p] = d
    BY <1>0, <1>2 DEF Keep
  <2>. QED
    BY <1>5, <2>2, <2>3 DEF InStep, Settled
<1>8. \A i \in In(Current) : Current[i] = known[i]
  BY DEF ListingInvariant, Sound
<1>9. Sound'
  <2>1. \A i \in In(d) : d[i] = Said(call[p])[i]
    BY <1>0, <1>3, <1>4, <1>8, MutatedIsSound
  <2>. QED
    BY <1>1, <1>5, <2>1 DEF Sound
<1>10. Complete'
  <2>1. \A i \in In(known) \ In(Current) :
            Cardinality(AsGood(i)) >= Limit - BatchSize - losses
    BY DEF ListingInvariant, Complete
  <2>2. \A i \in In(Said(call[p])) \ In(d) : Enough(call[p], i)
    BY <1>0, <1>3, <1>4, <1>8, <2>1, MutatedIsComplete
  <2>3. \A i : AsGood(i)' = AsGoodAfter(call[p], i)
    BY <1>1 DEF AsGood, AsGoodAfter
  <2>. QED
    BY <1>1, <1>5, <2>2, <2>3 DEF Complete, Enough
<1>. QED
  BY <1>6, <1>7, <1>9, <1>10 DEF Written

\* The other steps of a mutation, and those of readers.
LEMMA WrittenByOthers ==
    ASSUME ListingInvariant, NEW p \in Callers, CallerStep(p), ~WriteCassa(p), NoSlip, NoSlip'
    PROVE  Written'
<1>0. /\ phase \in [Callers -> {"idle", "get", "read", "write", "set", "done", "ask", "fill"}]
      /\ value \in [Callers -> Listing \cup {Missing}]
      /\ mem \in Listing \cup {Missing}
  BY DEF ListingInvariant, ListingTypeOK
<1>1. UNCHANGED <<rep, known, losses>>
  BY OnlyMutationsWrite DEF ListingInvariant
<1>2. Current' = Current
  BY <1>1 DEF Current, Newest
<1>3. Sound' /\ Complete'
  BY <1>1, <1>2, WrittenAlone DEF ListingInvariant
<1>4. InQuorums'
  BY <1>1 DEF ListingInvariant, InQuorums
<1>5. InStep'
  <2>0. /\ \A q \in Callers : phase[q] = "write" => OrEmpty(value[q]) = Current
        /\ \A q \in Callers : phase[q] = "set" => value[q] = Current
        /\ Settled => mem \in {Missing, Current}
    BY DEF ListingInvariant, InStep
  <2>1. phase[p] \in Mutating => \A q \in Callers \ {p} : phase[q] \notin Mutating
    BY DEF ListingInvariant, LockTaken, NoSlip
  <2>2. OrEmpty(Current) = Current
    BY CurrentIs DEF ListingInvariant
  <2>3. CASE (\E c \in Calls : StartMutate(p, c)) \/ Unlock(p) \/ Look(p) \/ Ask(p)
    <3>1. /\ mem' = mem
          /\ \A q \in Callers : phase'[q] \in {"write", "set"} =>
                 phase'[q] = phase[q] /\ value'[q] = value[q]
          /\ \A q \in Callers : phase[q] = "set" => phase'[q] = "set"
      BY <1>0, <2>3 DEF StartMutate, Unlock, Look, Ask, Enter, Keep, stores
    <3>. QED
      BY <1>2, <2>0, <3>1 DEF InStep, Settled
  <2>4. CASE GetMem(p)
    <3>1. /\ mem' = mem /\ phase[p] = "get"
          /\ phase' = [phase EXCEPT ![p] = IF mem = Missing THEN "read" ELSE "write"]
          /\ value' = [value EXCEPT ![p] = mem]
      BY <2>4 DEF GetMem, Enter, Keep, stores
    <3>2. Settled /\ \A q \in Callers \ {p} : phase[q] \notin {"write", "set"}
      BY <2>1, <3>1 DEF Settled, Mutating
    <3>3. /\ \A q \in Callers \ {p} : phase'[q] \notin {"write", "set"}
          /\ phase'[p] # "set"
          /\ phase'[p] = "write" => value'[p] = mem /\ mem # Missing
      BY <1>0, <3>1, <3>2
    <3>. QED
      BY <1>2, <2>0, <2>2, <3>1, <3>2, <3>3 DEF InStep, Settled
  <2>5. CASE ReadCassa(p)
    <3>1. PICK Q \in Quorums : value' = [value EXCEPT ![p] = Newest(Q).data]
      BY <2>5 DEF ReadCassa, Asked, Keep
    <3>2. Newest(Q) = Newest(Replicas)
      BY QuorumAnswers DEF ListingInvariant
    <3>3. /\ mem' = mem /\ phase[p] = "read" /\ phase' = [phase EXCEPT ![p] = "write"]
      BY <2>5 DEF ReadCassa, Enter, stores
    <3>4. Settled /\ \A q \in Callers \ {p} : phase[q] \notin {"write", "set"}
      BY <2>1, <3>3 DEF Settled, Mutating
    <3>5. /\ \A q \in Callers \ {p} : phase'[q] \notin {"write", "set"}
          /\ phase'[p] = "write"
          /\ OrEmpty(value'[p]) = Current
      BY <1>0, <3>1, <3>2, <3>3, <3>4 DEF Current
    <3>. QED
      BY <1>2, <2>0, <3>3, <3>4, <3>5 DEF InStep, Settled
  <2>6. CASE SetMem(p)
    <3>1. /\ mem' = value[p] /\ phase[p] = "set" /\ phase' = [phase EXCEPT ![p] = "done"]
      BY <2>6 DEF SetMem, Enter
    <3>2. \A q \in Callers : phase'[q] \notin {"write", "set"}
      BY <1>0, <2>1, <3>1 DEF Mutating
    <3>. QED
      BY <1>2, <2>0, <3>1, <3>2 DEF InStep
  <2>7. CASE Fill(p)
    <3>1. /\ mem' = value[p] /\ phase[p] = "fill" /\ phase' = [phase EXCEPT ![p] = "idle"]
          /\ value' = [value EXCEPT ![p] = Missing]
      BY <2>7 DEF Fill, Enter, Keep
    <3>2. value[p] = Current \/ \E q \in Callers : phase[q] = "set"
      BY <2>7 DEF Fill, NoSlip
    <3>3. /\ \A q \in Callers : phase'[q] \in {"write", "set"} =>
                 phase'[q] = phase[q] /\ value'[q] = value[q]
          /\ \A q \in Callers : phase[q] = "set" => phase'[q] = "set"
      BY <1>0, <3>1
    <3>. QED
      BY <1>2, <2>0, <3>1, <3>2, <3>3 DEF InStep, Settled
  <2>8. CASE CallerDies(p)
    <3>1. /\ mem' = mem /\ phase' = [phase EXCEPT ![p] = "idle"]
          /\ value' = [value EXCEPT ![p] = Missing] /\ phase[p] # "set"
      BY <2>8 DEF CallerDies, Enter, Keep, stores, NoSlip
    <3>2. /\ \A q \in Callers : phase'[q] \in {"write", "set"} =>
                 phase'[q] = phase[q] /\ value'[q] = value[q]
          /\ \A q \in Callers : phase[q] = "set" => phase'[q] = "set"
      BY <1>0, <3>1
    <3>. QED
      BY <1>2, <2>0, <3>1, <3>2 DEF InStep, Settled
  <2>9. ~WriteFails(p)
    BY DEF WriteFails, NoSlip
  <2>. QED
    BY <2>3, <2>4, <2>5, <2>6, <2>7, <2>8, <2>9 DEF CallerStep
<1>. QED
  BY <1>3, <1>4, <1>5 DEF Written

\* Replicas that catch up, evictions and locks that lapse.
LEMMA WrittenElsewhere ==
    ASSUME ListingInvariant, NoSlip, NoSlip',
           \/ \E r \in Replicas : CatchUp(r)
           \/ Evict \/ LockLapses \/ UNCHANGED listingVars
    PROVE  Written'
<1>1. /\ UNCHANGED <<phase, value, known, losses>>
      /\ mem' \in {mem, Missing}
  BY DEF CatchUp, Evict, LockLapses, listingVars, procs, stores, records
<1>2. Current' = Current /\ InQuorums'
  <2>1. CASE \E r \in Replicas : CatchUp(r)
    <3>1. PICK r \in Replicas : CatchUp(r)
      BY <2>1
    <3>2. /\ Current' = Current
          /\ \A q \in Replicas :
                 (\A s \in Replicas : rep[s].stamp <= rep[q].stamp)
                     => \A s \in Replicas : rep'[s].stamp <= rep'[q].stamp
      BY <3>1, AfterCatchUp DEF ListingInvariant
    <3>3. \A Q \in Quorums : \E r1 \in Q : \A s \in Replicas : rep[s].stamp <= rep[r1].stamp
      BY DEF ListingInvariant, InQuorums
    <3>4. \A Q \in Quorums : Q \subseteq Replicas
      OBVIOUS
    <3>5. InQuorums'
      BY <3>2, <3>3, <3>4 DEF InQuorums
    <3>. QED
      BY <3>2, <3>5
  <2>2. CASE UNCHANGED rep
    BY <2>2 DEF Current, Newest, ListingInvariant, InQuorums
  <2>. QED
    BY <2>1, <2>2 DEF Evict, LockLapses, listingVars, stores
<1>3. Sound' /\ Complete'
  BY <1>1, <1>2, WrittenAlone DEF ListingInvariant
<1>4. InStep'
  BY <1>1, <1>2 DEF ListingInvariant, InStep, Settled
<1>. QED
  BY <1>2, <1>3, <1>4 DEF Written

LEMMA RanksKept ==
    ASSUME ListingTypeOK, Ranked, Agreed, [ListingNext]_listingVars
    PROVE  Ranked' /\ Agreed'
<1>1. CASE UNCHANGED rep
  BY <1>1 DEF Ranked, Agreed
<1>2. ASSUME NEW r \in Replicas, CatchUp(r)
      PROVE  Ranked' /\ Agreed'
  BY <1>2, AfterCatchUp
<1>3. ASSUME NEW p \in Callers, WriteCassa(p) \/ WriteFails(p)
      PROVE  Ranked' /\ Agreed'
  <2>1. OrEmpty(value[p]) \in Listing /\ call[p] \in Call
    <3>1. value[p] \in Listing \cup {Missing} /\ call[p] \in Call
      BY DEF ListingTypeOK
    <3>. QED
      BY <3>1, MissingIsNoListing DEF OrEmpty
  <2>2. CASE UNCHANGED rep
    BY <2>2, <1>1
  <2>3. CASE ~UNCHANGED rep
    <3>1. PICK d \in Mutated(OrEmpty(value[p]), call[p]), Q \in SUBSET Replicas : WriteTo(Q, d)
      BY <1>3, <2>3 DEF WriteCassa, WriteFails
    <3>2. Q # {}
      BY <2>3, <3>1 DEF WriteTo, ListingTypeOK
    <3>3. d \in Listing
      BY <2>1, MutatedIsListing
    <3>. QED
      BY <3>1, <3>2, <3>3, AfterWrite
  <2>. QED
    BY <2>2, <2>3
<1>4. \A p \in Callers :
          CallerStep(p) => WriteCassa(p) \/ WriteFails(p) \/ UNCHANGED rep
  BY DEF CallerStep, StartMutate, GetMem, ReadCassa, SetMem, Unlock, Look, Ask, Fill,
         CallerDies, stores
<1>5. Evict \/ LockLapses \/ UNCHANGED listingVars => UNCHANGED rep
  BY DEF Evict, LockLapses, listingVars, stores
<1>. QED
  BY <1>1, <1>2, <1>3, <1>4, <1>5 DEF ListingNext

LEMMA ListingStarts == ListingInit => ListingInvariant
<1>. SUFFICES ASSUME ListingInit
              PROVE  ListingInvariant
  OBVIOUS
<1>1. /\ mem = Missing
      /\ rep = [r \in Replicas |-> [stamp |-> 0, data |-> Missing]]
      /\ phase = [p \in Callers |-> "idle"]
      /\ call = [p \in Callers |-> NoCall]
      /\ value = [p \in Callers |-> Missing]
      /\ held = [p \in Callers |-> {}] /\ busy = {} /\ overrun = FALSE
      /\ known = Empty /\ losses = 0 /\ mutations = 0 /\ slips = {}
  BY DEF ListingInit, Lock!LockInit
<1>2. ListingTypeOK
  <2>1. NoCall \in Call
    BY MissingIsNoListing DEF NoCall, Call
  <2>2. 0 \in 0..MaxMutations
    OBVIOUS
  <2>3. Empty \in Data
    BY MissingIsNoListing
  <2>. QED
    BY <1>1, <2>1, <2>2, <2>3 DEF ListingTypeOK
<1>3. LockTaken /\ CallsMade
  BY <1>1 DEF LockTaken, CallsMade, Mutating
<1>4. \A r, s \in Replicas : rep[r] = rep[s] /\ rep[r].stamp = 0 /\ rep[r].data = Missing
  BY <1>1
<1>5. Ranked /\ Agreed /\ InQuorums
  <2>1. \A r, s \in Replicas : rep[s].stamp <= rep[r].stamp
    BY <1>4
  <2>2. \A Q \in (SUBSET Replicas) \ {{}} : \E r \in Q : \A s \in Replicas : rep[s].stamp <= rep[r].stamp
    BY <2>1
  <2>3. \A Q \in Quorums : Q \in (SUBSET Replicas) \ {{}}
    OBVIOUS
  <2>. QED
    BY <1>4, <2>2, <2>3 DEF Ranked, Agreed, InQuorums
<1>6. InStep
  BY <1>1 DEF InStep, Settled
<1>7. In(known) = {}
  BY <1>1 DEF In, Empty
<1>8. In(Current) = {}
  <2>1. Replicas \in (SUBSET Replicas) \ {{}}
    OBVIOUS
  <2>2. Newest(Replicas).data = Missing
    BY <1>4, <1>5, <2>1, NewestIs DEF AnswersFound
  <2>. QED
    BY <2>2 DEF Current, OrEmpty, In, Empty
<1>. QED
  BY <1>2, <1>3, <1>5, <1>6, <1>7, <1>8 DEF ListingInvariant, Sound, Complete

LEMMA ListingKept == ListingInvariant /\ [ListingNext]_listingVars => ListingInvariant'
<1>. SUFFICES ASSUME ListingInvariant, [ListingNext]_listingVars
              PROVE  ListingInvariant'
  OBVIOUS
<1>1. ListingTypeOK' /\ LockTaken' /\ CallsMade' /\ Ranked' /\ Agreed'
  BY ListingTypesKept, LockKept, RanksKept DEF ListingInvariant
<1>2. Written'
  <2>1. CASE ~NoSlip'
    BY <2>1 DEF Written, InQuorums, InStep, Sound, Complete
  <2>2. CASE NoSlip'
    <3>1. NoSlip
      BY <2>2, SlipsStay DEF ListingInvariant
    <3>2. \A p \in Callers : CallerStep(p) => Written'
      BY <2>2, <3>1, WrittenByMutation, WrittenByOthers
    <3>. QED
      BY <2>2, <3>1, <3>2, WrittenElsewhere DEF ListingNext
  <2>. QED
    BY <2>1, <2>2
<1>. QED
  BY <1>1, <1>2 DEF ListingInvariant, Written

LEMMA ListingAlways == ListingSpec => []ListingInvariant
BY ListingStarts, ListingKept, PTL DEF ListingSpec

\* What each mutation makes, and whatever memcached and the replicas have, is a
\* listing of at most precompute_limit items (queries.py:203-211).
THEOREM ListingTyping == ListingSpec => []ListingTypeOK
BY ListingAlways, PTL DEF ListingInvariant

\* As long as no mutation fails half-way, no lock lapses under its holder and no
\* reader puts back what is out of date, a listing shows its items as the last
\* mutation left them: no mutation starts from a listing without the earlier ones
\* (cache.py:644-689).
THEOREM ListingSound == ListingSpec => []ListingIsSound
<1>1. ListingInvariant => ListingIsSound
  <2>. SUFFICES ASSUME ListingInvariant, NoSlip, Settled, NEW i \in In(Effective)
                PROVE  Effective[i] = known[i]
    BY DEF ListingIsSound
  <2>1. Effective = Current
    BY DEF ListingInvariant, InStep, Effective
  <2>. QED
    BY <2>1 DEF ListingInvariant, Sound
<1>. QED
  BY <1>1, ListingAlways, PTL

\* Under the same conditions, what it does not show has enough items beside it that
\* are as good: precompute_limit, but for those that a call inserts at a time and
\* those that were deleted or made worse (queries.py:180-213).
THEOREM ListingComplete == ListingSpec => []ListingIsComplete
<1>1. ListingInvariant => ListingIsComplete
  <2>. SUFFICES ASSUME ListingInvariant, NoSlip, Settled,
                       NEW i \in In(known) \ In(Effective)
                PROVE  Cardinality({j \in Things \ {i} : known[j] >= known[i]})
                           >= Limit - BatchSize - losses
    BY DEF ListingIsComplete
  <2>1. Effective = Current
    BY DEF ListingInvariant, InStep, Effective
  <2>. QED
    BY <2>1 DEF ListingInvariant, Complete, AsGood
<1>. QED
  BY <1>1, ListingAlways, PTL

\* The cache chain takes and releases mutate_<key> as r2/lib/lock.py allows it, so
\* that what is proved of the lock holds here (cache.py:644-646, lock.py:60-106).
THEOREM ListingUsesLock == ListingSpec => Lock!LockSpec
<1>1. ListingInit => Lock!LockInit
  BY DEF ListingInit
<1>2. [ListingNext]_listingVars => [Lock!LockNext]_(Lock!lockVars)
  <2>1. ASSUME NEW p \in Callers, CallerStep(p)
        PROVE  Lock!LockNext \/ UNCHANGED lock
    <3>1. \/ Lock!Obtain(p, MutateKey) \/ Lock!LetGo(p, MutateKey)
          \/ Lock!Abandon(p) \/ UNCHANGED lock
      BY <2>1 DEF CallerStep, StartMutate, GetMem, ReadCassa, WriteCassa, WriteFails,
                  SetMem, Unlock, Look, Ask, Fill, CallerDies
    <3>. QED
      BY <3>1 DEF Lock!LockNext
  <2>2. LockLapses => Lock!LockNext
    BY DEF LockLapses, Lock!LockNext
  <2>3. (\E r \in Replicas : CatchUp(r)) \/ Evict \/ UNCHANGED listingVars => UNCHANGED lock
    BY DEF CatchUp, Evict, listingVars
  <2>. QED
    BY <2>1, <2>2, <2>3 DEF ListingNext, lock, Lock!lockVars
<1>. QED
  BY <1>1, <1>2, PTL DEF ListingSpec, Lock!LockSpec
=============================================================================

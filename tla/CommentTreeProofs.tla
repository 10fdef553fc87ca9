------------------------- MODULE CommentTreeProofs -------------------------
(***************************************************************************)
(* Proofs about CommentTree for any comments, consumers, viewers and        *)
(* bounds.  Two arguments that share only the types and the places:         *)
(*                                                                         *)
(*   - what is in a tree, or on its way out of and back into one, only      *)
(*     grows: with version 1 because the lock keeps the tree a process has  *)
(*     loaded current until it writes it, with version 3 because columns    *)
(*     are added one by one and a rebuild brings back what it queried;      *)
(*   - num_comments differs from the number of comments by the deletions    *)
(*     that are committed and not yet counted, wherever they are: with a    *)
(*     request, in the queue, or in a batch whose handler has yet to get    *)
(*     to them.                                                             *)
(***************************************************************************)
EXTENDS CommentTree, FiniteSetTheorems, SequenceTheorems, TLAPS

-----------------------------------------------------------------------------
(* Where a process is, and what it does there.                              *)

Modes(p) ==
    /\ at[p] \in {"idle", "enter", "load", "add", "delete", "ack"} => mode[p] = "add"
    /\ at[p] \in {"query", "remove", "insert", "recount"} => mode[p] # "add"
    /\ at[p] = "again" => mode[p] = "rebuild"
    /\ at[p] = "idle" => batch[p] = <<>>
    /\ IF Locked THEN at[p] \notin {"remove", "insert"}
       ELSE at[p] \notin {"enter", "parents", "tree", "again"} /\ mode[p] # "nested"

\* Deletions are left to be counted by a handler that adds, or will add.
Leftover(p) ==
    /\ dead[p] \subseteq Range(batch[p]) \cap Deleted
    /\ left[p] > 0 => dead[p] # {} /\ mode[p] # "rebuild" /\ at[p] \notin {"idle", "ack"}

Fits == \A p \in Procs : Modes(p) /\ Leftover(p)

\* The comments whose message has been sent.
Sent == {c \in Comments : phase[c] = "posted"} \cup Deleted

\* Whatever is anywhere was written, and what it replies to before it.
AllWritten ==
    /\ Range(queue) \subseteq Sent
    /\ InTree \cup lost \subseteq Written
    /\ \A p \in Procs : Range(batch[p]) \subseteq Sent /\ tree[p] \subseteq Written
    /\ \A c \in Comments : phase[c] # "new" => Parent[c] \in {Top} \cup Written

-----------------------------------------------------------------------------
(* The tree.                                                                *)

Inside == {"load", "add", "parents", "tree", "delete", "query", "recount"}

OneHolder ==
    Locked =>
        /\ \A p \in Procs : at[p] \in Inside => Link \in held[p]
        /\ \A p \in Procs : Link \in held[p] => Link \in busy
        /\ \A p, q \in Procs : Link \in held[p] /\ Link \in held[q] => p = q

\* What is in the tree, or has been removed from it.
Kept == InTree \cup lost \cup UNION {tree[p] : p \in Replacing}

KeptClosed == \A c \in InTree : Parent[c] \in {Top} \cup Kept

\* A process is done with the comments of its batch that are in the tree.
BatchKept ==
    \A p \in Procs :
        at[p] \in {"delete", "ack"} \/ (at[p] = "recount" /\ mode[p] = "rebuild") =>
            \A c \in Range(batch[p]) : phase[c] = "posted" => c \in Kept

\* What a process is about to store has its batch and is a tree.
Storing(p) ==
    /\ Fresh(p) \subseteq tree[p]
    /\ \A c \in tree[p] : Parent[c] \in {Top} \cup tree[p]

\* What it has loaded is still there.
Adding(p) ==
    /\ tree[p] \subseteq Kept
    /\ \A c \in tree[p] : Parent[c] \in {Top} \cup Kept

\* Version 1: nobody else has stored anything.
Current(p) ==
    /\ tree[p] \subseteq DOMAIN par[p]
    /\ at[p] = "add" \/ (at[p] = "recount" /\ mode[p] = "nested") => tree[p] = stored
    /\ at[p] \in {"parents", "tree"} => InTree \subseteq tree[p]
    /\ at[p] = "tree" => tree[p] \subseteq DOMAIN fathers

TreeInv ==
    /\ OneHolder /\ KeptClosed /\ BatchKept
    /\ \A p \in Procs :
        /\ at[p] \in {"parents", "tree", "remove", "insert"} => Storing(p)
        /\ at[p] = "add" => Adding(p)
        /\ Locked => Current(p)
    /\ Locked => lost = {} /\ InTree \subseteq DOMAIN fathers
    /\ TreeIsComplete

-----------------------------------------------------------------------------
(* The count.                                                               *)

Deleting == {c \in Comments : phase[c] = "deleting"}

\* The deletions that handlers have yet to count: as many of each of S as f says.
OwedBy(S, f) == {d \in S \X (1..BatchSize) : d[2] <= f[d[1]]}
Owing == OwedBy(Procs, left)

\* A rebuild has not thrown away deletions that it is about to count.
NothingDropped ==
    \A p \in Procs : mode[p] = "rebuild" => Range(batch[p]) \cap Deleted = {}

Account ==
    num = Cardinality(Live) + Cardinality(Deleting)
            + Cardinality(Deletions(queue)) + Cardinality(Owing)

CountInv == ~uncounted /\ NothingDropped => Account

TreesInv == Fits /\ AllWritten /\ CountInv /\ (~overrun => TreeInv)

USE TreeConstants

-----------------------------------------------------------------------------
(* Types.                                                                   *)

LEMMA Empties ==
    /\ NoParents \in Fathers /\ DOMAIN NoParents = {}
    /\ <<>> \in Seq(Comments) /\ Range(<<>>) = {}
    /\ NoTree \notin SUBSET Comments
<1>1. NoParents \in [{} -> Comments \cup {Top}] /\ DOMAIN NoParents = {}
  BY DEF NoParents
<1>2. NoParents \in Fathers
  BY <1>1 DEF Fathers
<1>3. NoTree \notin SUBSET Comments
  BY DEF NoTree, Top, Comments
<1>4. <<>> \in Seq(Comments) /\ Range(<<>>) = {}
  BY DEF Range
<1> QED
  BY <1>1, <1>2, <1>3, <1>4

\* What a process does with the lock.
LockStep(p) ==
    \/ Lock!Obtain(p, Link) \/ Lock!LetGo(p, Link) \/ Lock!Abandon(p)
    \/ UNCHANGED lock

LEMMA LockTyped ==
    ASSUME TypeOK, NEW p \in Procs, LockStep(p) \/ Lock!Lapse(Link)
    PROVE  /\ held' \in [Procs -> SUBSET {Link}]
           /\ busy' \subseteq {Link}
           /\ overrun' \in BOOLEAN
<1>0. held \in [Procs -> SUBSET {Link}] /\ busy \subseteq {Link} /\ overrun \in BOOLEAN
  BY DEF TypeOK
<1>1. CASE Lock!Obtain(p, Link)
  BY <1>0, <1>1 DEF Lock!Obtain
<1>2. CASE Lock!LetGo(p, Link)
  BY <1>0, <1>2 DEF Lock!LetGo
<1>3. CASE Lock!Abandon(p)
  BY <1>0, <1>3 DEF Lock!Abandon
<1>4. CASE UNCHANGED lock
  BY <1>0, <1>4 DEF lock
<1>5. CASE Lock!Lapse(Link)
  BY <1>0, <1>5 DEF Lock!Lapse
<1> QED
  BY <1>1, <1>2, <1>3, <1>4, <1>5 DEF LockStep

LEMMA DiscardTyped ==
    ASSUME TypeOK, NEW p \in Procs, Discard(p)
    PROVE  /\ dead' \in [Procs -> SUBSET Comments] /\ left' \in [Procs -> 0..BatchSize]
           /\ tree' \in [Procs -> SUBSET Comments] /\ par' \in [Procs -> Fathers]
           /\ gone' \in [Procs -> SUBSET Comments]
  BY Empties DEF TypeOK, Discard

LEMMA DiscardAllTyped ==
    ASSUME TypeOK, NEW p \in Procs, DiscardAll(p)
    PROVE  /\ seen' \in [Procs -> Int]
           /\ mode' \in [Procs -> {"add", "nested", "rebuild"}]
           /\ Discard(p)
  BY DEF TypeOK, DiscardAll

LEMMA DoneTyped ==
    ASSUME TypeOK, NEW p \in Procs, Done(p)
    PROVE  /\ DiscardAll(p)
           /\ at' \in [Procs -> Places]
           /\ batch' \in [Procs -> Seq(Comments)]
  BY Empties DEF TypeOK, Done, Places

\* A queue and the batch taken from its head.
LEMMA Split ==
    ASSUME NEW s \in Seq(Comments), NEW n \in 1..Len(s)
    PROVE  /\ SubSeq(s, 1, n) \in Seq(Comments) /\ Len(SubSeq(s, 1, n)) = n
           /\ SubSeq(s, n + 1, Len(s)) \in Seq(Comments)
           /\ s = SubSeq(s, 1, n) \o SubSeq(s, n + 1, Len(s))
<1>1. Len(s) \in Nat /\ \A i \in 1..Len(s) : s[i] \in Comments
  OBVIOUS
<1>2. SubSeq(s, 1, n) \in Seq(Comments) /\ Len(SubSeq(s, 1, n)) = n
  BY <1>1, SubSeqProperties
<1>3. SubSeq(s, n + 1, Len(s)) \in Seq(Comments)
  BY <1>1, SubSeqProperties
<1>4. SubSeq(s, 1, n) \o SubSeq(s, n + 1, Len(s)) = SubSeq(s, 1, Len(s))
  <2>1. 1 \in 1..Len(s) + 1 /\ n \in (1 - 1)..Len(s) /\ Len(s) \in n..Len(s)
    BY <1>1
  <2> QED
    BY <2>1, ConcatAdjacentSubSeq
<1>5. SubSeq(s, 1, Len(s)) = s
  BY SubSeqFull
<1> QED
  BY <1>2, <1>3, <1>4, <1>5

\* What two sequences have in them, one after the other.
LEMMA Concat ==
    ASSUME NEW s \in Seq(Comments), NEW t \in Seq(Comments)
    PROVE  /\ s \o t \in Seq(Comments)
           /\ Range(s \o t) = Range(s) \cup Range(t)
<1>1. s \o t \in Seq(Comments) /\ Len(s \o t) = Len(s) + Len(t)
  OBVIOUS
<1>2. ASSUME NEW c \in Range(s \o t) PROVE c \in Range(s) \cup Range(t)
  <2>1. PICK i \in 1..(Len(s) + Len(t)) : c = (s \o t)[i]
    BY <1>1 DEF Range
  <2>2. CASE i <= Len(s)
    BY <2>1, <2>2 DEF Range
  <2>3. CASE i > Len(s)
    <3>1. i - Len(s) \in DOMAIN t /\ c = t[i - Len(s)]
      BY <2>1, <2>3
    <3> QED
      BY <3>1 DEF Range
  <2> QED
    BY <2>1, <2>2, <2>3
<1>3. ASSUME NEW c \in Range(s) PROVE c \in Range(s \o t)
  <2>1. PICK i \in DOMAIN s : c = s[i]
    BY DEF Range
  <2>2. i \in DOMAIN (s \o t) /\ (s \o t)[i] = c
    BY <2>1
  <2> QED
    BY <2>2 DEF Range
<1>4. ASSUME NEW c \in Range(t) PROVE c \in Range(s \o t)
  <2>1. PICK i \in DOMAIN t : c = t[i]
    BY DEF Range
  <2>2. i + Len(s) \in DOMAIN (s \o t) /\ (s \o t)[i + Len(s)] = c
    BY <2>1
  <2> QED
    BY <2>2 DEF Range
<1> QED
  BY <1>1, <1>2, <1>3, <1>4

LEMMA UpTo ==
    ASSUME NEW n \in Nat
    PROVE  IsFiniteSet(1..n) /\ Cardinality(1..n) = n
<1>1. /\ IsFiniteSet(1..n)
      /\ Cardinality(1..n) = IF 1 > n THEN 0 ELSE n - 1 + 1
  BY FS_Interval
<1>2. (IF 1 > n THEN 0 ELSE n - 1 + 1) = n
  OBVIOUS
<1> QED
  BY <1>1, <1>2

\* The messages about deletions in a sequence.
LEMMA DeletionsFinite ==
    ASSUME NEW s \in Seq(Comments)
    PROVE  /\ IsFiniteSet(Deletions(s))
           /\ Cardinality(Deletions(s)) \in 0..Len(s)
<1>1. /\ Len(s) \in Nat /\ Deletions(s) \in SUBSET (1..Len(s))
  BY DEF Deletions
<1>2. IsFiniteSet(1..Len(s)) /\ Cardinality(1..Len(s)) = Len(s)
  BY <1>1, UpTo
<1>3. IsFiniteSet(Deletions(s)) /\ Cardinality(Deletions(s)) <= Len(s)
  BY <1>1, <1>2, FS_Subset
<1> QED
  BY <1>1, <1>3, FS_CardinalityType

\* Requests.
LEMMA RequestTyped ==
    ASSUME TypeOK, NEW c \in Comments, Request(c)
    PROVE  TypeOK'
<1>1. /\ UNCHANGED <<version, store, lock, at, work, lost>>
      /\ phase' \in [Comments -> Phases]
  BY DEF TypeOK, Phases, Phase, Request, Count, Write, Post, Delete, PostDeletion, RequestDies,
         history
<1>2. num' \in Int
  BY DEF TypeOK, Request, Count, Write, Post, Delete, PostDeletion, RequestDies
<1>3. queue' \in Seq(Comments)
  <2>1. Append(queue, c) \in Seq(Comments)
    BY AppendProperties DEF TypeOK
  <2>2. queue' \in {queue, Append(queue, c)}
    BY DEF Request, Count, Write, Post, Delete, PostDeletion, RequestDies
  <2> QED
    BY <2>1, <2>2 DEF TypeOK
<1>4. uncounted' \in BOOLEAN
  <2>1. CASE Delete(c)
    BY <2>1 DEF TypeOK, Delete
  <2>2. CASE RequestDies(c)
    BY <2>2 DEF TypeOK, RequestDies
  <2>3. CASE Count(c) \/ Write(c) \/ Post(c) \/ PostDeletion(c)
    BY <2>3 DEF TypeOK, Count, Write, Post, PostDeletion, history
  <2> QED
    BY <2>1, <2>2, <2>3 DEF Request
<1>5. mishaps' \in 0..MaxMishaps
  BY DEF TypeOK, Request, Count, Write, Post, Delete, PostDeletion, RequestDies, history, Mishap
<1> QED
  BY <1>1, <1>2, <1>3, <1>4, <1>5 DEF TypeOK, store, lock, work, job, object, Locked

\* What a step of a process leaves alone in any case.
StepParts(p) ==
    /\ UNCHANGED <<version, phase>>
    /\ LockStep(p)
    /\ at' \in [Procs -> Places] /\ mode' \in [Procs -> {"add", "nested", "rebuild"}]
    /\ batch' \in [Procs -> Seq(Comments)] /\ queue' \in Seq(Comments)
    /\ dead' \in [Procs -> SUBSET Comments] /\ left' \in [Procs -> 0..BatchSize]
    /\ seen' \in [Procs -> Int] /\ num' \in Int
    /\ tree' \in [Procs -> SUBSET Comments] /\ par' \in [Procs -> Fathers]
    /\ gone' \in [Procs -> SUBSET Comments]
    /\ stored' \in (SUBSET Comments) \cup {NoTree} /\ fathers' \in Fathers
    /\ ~Locked => fathers' = NoParents /\ stored' # NoTree
    /\ lost' \subseteq Comments /\ uncounted' \in BOOLEAN
    /\ mishaps' \in 0..MaxMishaps

LEMMA PartsAreTyped ==
    ASSUME TypeOK, NEW p \in Procs, StepParts(p)
    PROVE  TypeOK'
<1>1. held' \in [Procs -> SUBSET {Link}] /\ busy' \subseteq {Link} /\ overrun' \in BOOLEAN
  BY LockTyped DEF StepParts
<1> QED
  BY <1>1 DEF StepParts, TypeOK, Locked

\* The batch that is taken.
LEMMA GetTakes ==
    ASSUME TypeOK, NEW p \in Procs, Get(p)
    PROVE  /\ at[p] = "idle" /\ queue = batch'[p] \o queue'
           /\ batch'[p] \in Seq(Comments) /\ queue' \in Seq(Comments)
           /\ Len(batch'[p]) \in 1..BatchSize
           /\ batch' = [batch EXCEPT ![p] = batch'[p]]
<1>0. queue \in Seq(Comments) /\ batch \in [Procs -> Seq(Comments)]
  BY DEF TypeOK
<1>1. PICK n \in 1..BatchSize :
          /\ n <= Len(queue)
          /\ batch' = [batch EXCEPT ![p] = SubSeq(queue, 1, n)]
          /\ queue' = SubSeq(queue, n + 1, Len(queue))
  BY DEF Get
<1>2. n \in 1..Len(queue)
  BY <1>0, <1>1
<1>3. batch'[p] = SubSeq(queue, 1, n)
  BY <1>0, <1>1
<1>4. at[p] = "idle"
  BY DEF Get
<1> QED
  BY <1>0, <1>1, <1>2, <1>3, <1>4, Split

LEMMA GetTyped ==
    ASSUME TypeOK, NEW p \in Procs, Get(p)
    PROVE  StepParts(p)
<1>0. /\ UNCHANGED <<site, num, store, lock, tree, par, gone, history>>
      /\ seen' = [seen EXCEPT ![p] = num] /\ mode' = [mode EXCEPT ![p] = "add"]
      /\ at' = [at EXCEPT ![p] = IF Locked THEN "enter" ELSE "load"]
      /\ dead' = [dead EXCEPT ![p] = Range(batch'[p]) \cap Deleted]
      /\ left' = [left EXCEPT ![p] = Cardinality(Deletions(batch'[p]))]
  BY DEF Get, Start, Goto
<1>1. batch' \in [Procs -> Seq(Comments)] /\ queue' \in Seq(Comments)
  BY GetTakes DEF TypeOK
<1>2. left' \in [Procs -> 0..BatchSize]
  <2>1. Cardinality(Deletions(batch'[p])) \in 0..BatchSize
    <3>1. Cardinality(Deletions(batch'[p])) \in 0..Len(batch'[p])
      BY GetTakes, DeletionsFinite
    <3> QED
      BY <3>1, GetTakes
  <2> QED
    BY <1>0, <2>1 DEF TypeOK
<1>3. dead' \in [Procs -> SUBSET Comments]
  <2>1. Range(batch'[p]) \cap Deleted \subseteq Comments
    BY DEF Deleted
  <2> QED
    BY <1>0, <2>1 DEF TypeOK
<1>4. at' \in [Procs -> Places] /\ mode' \in [Procs -> {"add", "nested", "rebuild"}]
  BY <1>0 DEF TypeOK, Places
<1> QED
  BY <1>0, <1>1, <1>2, <1>3, <1>4 DEF TypeOK, StepParts, LockStep, site, store, lock, history

\* The parents of what is added.
LEMMA WithParentsTyped ==
    ASSUME NEW known \in Fathers, NEW old \in SUBSET Comments, NEW new \in SUBSET Comments
    PROVE  /\ WithParents(known, old, new) \in Fathers
           /\ DOMAIN WithParents(known, old, new) = DOMAIN known \cup new
<1>1. DOMAIN known \in SUBSET Comments /\ known \in [DOMAIN known -> Comments \cup {Top}]
  BY DEF Fathers
<1>2. WithParents(known, old, new) \in [DOMAIN known \cup new -> Comments \cup {Top}]
  BY <1>1 DEF WithParents
<1> QED
  BY <1>1, <1>2 DEF Fathers

LEMMA AddTyped ==
    ASSUME TypeOK, NEW p \in Procs, Add(p)
    PROVE  StepParts(p)
<1>0. /\ UNCHANGED <<site, num, queue, fathers, lock, job, gone, mode, uncounted, mishaps>>
      /\ at' = [at EXCEPT ![p] = at'[p]] /\ at'[p] \in Places
  BY DEF Add, Goto, TypeOK, Places
<1>1. Fresh(p) \subseteq Comments
  BY DEF Fresh, Range, TypeOK
<1>2. CASE Locked
  <2>1. /\ UNCHANGED <<stored, lost>> /\ tree' = [tree EXCEPT ![p] = tree[p] \cup Fresh(p)]
        /\ par' = [par EXCEPT ![p] = WithParents(par[p], tree[p], Fresh(p))]
    BY <1>2 DEF Add, TypeOK
  <2>2. WithParents(par[p], tree[p], Fresh(p)) \in Fathers
    BY <1>1, WithParentsTyped DEF TypeOK
  <2>3. tree' \in [Procs -> SUBSET Comments] /\ par' \in [Procs -> Fathers]
    BY <1>1, <2>1, <2>2 DEF TypeOK
  <2> QED
    BY <1>0, <1>2, <2>1, <2>3 DEF TypeOK, StepParts, LockStep, site, lock, job
<1>3. CASE ~Locked
  <2>1. /\ stored' = stored \cup Fresh(p) /\ lost' = lost \ Fresh(p)
        /\ tree' = [tree EXCEPT ![p] = {}] /\ par' = par
    BY <1>3 DEF Add
  <2>2. stored \in SUBSET Comments
    BY <1>3 DEF TypeOK
  <2>3. stored' \in SUBSET Comments /\ lost' \subseteq Comments
    BY <1>1, <2>1, <2>2 DEF TypeOK
  <2>4. tree' \in [Procs -> SUBSET Comments] /\ stored' # NoTree
    BY <2>1, <2>3, Empties DEF TypeOK
  <2> QED
    BY <1>0, <1>3, <2>1, <2>3, <2>4 DEF TypeOK, StepParts, LockStep, site, lock, job
<1> QED
  BY <1>2, <1>3

LEMMA WritesTyped ==
    ASSUME TypeOK, NEW p \in Procs, Modes(p),
           WriteParents(p) \/ WriteTree(p) \/ Remove(p) \/ Insert(p)
    PROVE  StepParts(p)
<1>0. /\ UNCHANGED <<site, num, queue, lock, work, uncounted, mishaps>>
      /\ at' = [at EXCEPT ![p] = at'[p]] /\ at'[p] \in Places
  <2>1. CASE WriteParents(p)
    BY <2>1 DEF WriteParents, Goto, TypeOK, Places, history
  <2>2. CASE WriteTree(p)
    BY <2>2 DEF WriteTree, Goto, TypeOK, Places, history
  <2>3. CASE Remove(p) \/ Insert(p)
    BY <2>3 DEF Remove, Insert, Goto, TypeOK, Places
  <2> QED
    BY <2>1, <2>2, <2>3
<1>1. stored' \in (SUBSET Comments) \cup {NoTree} /\ fathers' \in Fathers /\ lost' \subseteq Comments
  <2>1. CASE WriteParents(p)
    BY <2>1 DEF WriteParents, TypeOK, history
  <2>2. CASE WriteTree(p)
    <3>1. stored' = tree[p] /\ fathers' = fathers /\ lost' = lost
      BY <2>2 DEF WriteTree, history
    <3>2. tree[p] \in SUBSET Comments /\ fathers \in Fathers /\ lost \subseteq Comments
      BY DEF TypeOK
    <3>3. stored' \in SUBSET Comments
      BY <3>1, <3>2
    <3>4. fathers' \in Fathers /\ lost' \subseteq Comments
      BY <3>1, <3>2
    <3> QED
      BY <3>3, <3>4
  <2>3. CASE Remove(p)
    <3>1. stored \in SUBSET Comments
      BY <2>3 DEF Remove, Modes, TypeOK
    <3> QED
      BY <2>3, <3>1 DEF Remove, TypeOK
  <2>4. CASE Insert(p)
    <3>1. stored \in SUBSET Comments
      BY <2>4 DEF Insert, Modes, TypeOK
    <3> QED
      BY <2>4, <3>1 DEF Insert, TypeOK
  <2> QED
    BY <2>1, <2>2, <2>3, <2>4
<1>2. ~Locked => fathers' = NoParents /\ stored' # NoTree
  <2>1. CASE WriteParents(p) \/ WriteTree(p)
    BY <2>1 DEF WriteParents, WriteTree, Modes
  <2>2. ASSUME ~Locked, Remove(p)
        PROVE  fathers' = NoParents /\ stored' # NoTree
    BY <2>2 DEF Remove, TypeOK, NoTree
  <2>3. ASSUME ~Locked, Insert(p)
        PROVE  fathers' = NoParents /\ stored' # NoTree
    <3>1. stored' \in SUBSET Comments
      BY <2>3 DEF Insert, TypeOK
    <3> QED
      BY <2>3, <3>1, Empties DEF Insert, TypeOK
  <2> QED
    BY <2>1, <2>2, <2>3
<1> QED
  BY <1>0, <1>1, <1>2 DEF TypeOK, StepParts, LockStep, site, lock, work, job, object

LEMMA RecountTyped ==
    ASSUME TypeOK, NEW p \in Procs, Recount(p)
    PROVE  StepParts(p)
<1>0. /\ UNCHANGED <<site, queue, store, batch, lost, mishaps>>
  BY DEF Recount
<1>1. Counted(p) \in Nat
  <2>1. IsFiniteSet(Comments)
    BY FS_Interval DEF Comments
  <2>2. tree[p] \ gone[p] \in SUBSET Comments
    BY DEF TypeOK
  <2> QED
    BY <2>1, <2>2, FS_Subset, FS_CardinalityType DEF Counted
<1>2. num' \in Int
  BY <1>1 DEF Recount, TypeOK
<1>3. uncounted' \in BOOLEAN
  BY Zenon DEF Recount, Disturbed
<1>4. CASE mode[p] = "nested"
  <2>1. /\ seen' = [seen EXCEPT ![p] = Counted(p)] /\ mode' = [mode EXCEPT ![p] = "add"]
        /\ at' = [at EXCEPT ![p] = "add"] /\ UNCHANGED <<lock, dead, left, tree, par, gone>>
    BY <1>4 DEF Recount, Start, Goto
  <2>2. /\ seen' \in [Procs -> Int] /\ mode' \in [Procs -> {"add", "nested", "rebuild"}]
        /\ at' \in [Procs -> Places]
    BY <1>1, <2>1 DEF TypeOK, Places
  <2> QED
    BY <1>0, <1>2, <1>3, <2>1, <2>2 DEF TypeOK, StepParts, LockStep, site, store
<1>5. CASE mode[p] # "nested"
  <2>1. /\ DiscardAll(p) /\ at' = [at EXCEPT ![p] = "ack"] /\ LockStep(p)
    BY <1>5 DEF Recount, Goto, LockStep
  <2>2. at' \in [Procs -> Places]
    BY <2>1 DEF TypeOK, Places
  <2> QED
    BY <1>0, <1>2, <1>3, <2>1, <2>2, DiscardAllTyped, DiscardTyped DEF TypeOK, StepParts, site, store
<1> QED
  BY <1>4, <1>5

\* A process that dies or gives up.
LEMMA GivesBackTyped ==
    ASSUME TypeOK, NEW p \in Procs, Crash(p) \/ TimesOut(p)
    PROVE  StepParts(p)
<1>1. /\ UNCHANGED <<site, num, store>> /\ LockStep(p) /\ Done(p)
      /\ queue' = batch[p] \o queue
      /\ uncounted' = (uncounted \/ Range(batch[p]) \cap Deleted # {})
  BY DEF Crash, TimesOut, GivesBack, LockStep
<1>2. queue' \in Seq(Comments)
  BY <1>1, ConcatProperties DEF TypeOK
<1>3. uncounted' \in BOOLEAN
  BY <1>1, Zenon DEF TypeOK
<1>4. mishaps' \in 0..MaxMishaps
  BY DEF Crash, TimesOut, Mishap, TypeOK
<1>5. lost' \subseteq Comments
  <2>1. tree[p] \in SUBSET Comments /\ lost \subseteq Comments
    BY DEF TypeOK
  <2>2. lost' \in {lost, lost \cup (tree[p] \ stored)}
    BY DEF Crash, TimesOut
  <2> QED
    BY <2>1, <2>2
<1> QED
  BY <1>1, <1>2, <1>3, <1>4, <1>5, DoneTyped, DiscardAllTyped, DiscardTyped
     DEF TypeOK, StepParts, site, store

LEMMA StepTyped ==
    ASSUME TypeOK, NEW p \in Procs, Modes(p),
           Work(p) \/ View(p) \/ Crash(p) \/ TimesOut(p)
    PROVE  StepParts(p)
<1>1. CASE Enter(p) \/ Again(p)
  <2>1. /\ UNCHANGED <<site, num, queue, store, work, history>> /\ LockStep(p)
        /\ at' \in [Procs -> Places]
    BY <1>1 DEF Enter, Again, LockStep, Goto, TypeOK, Places
  <2> QED
    BY <2>1 DEF TypeOK, StepParts, site, store, work, job, object, history
<1>2. CASE Contended(p) \/ AddFails(p)
  <2>1. /\ UNCHANGED <<site, num, queue, store, batch, seen, history>> /\ LockStep(p)
        /\ Discard(p)
        /\ at' \in [Procs -> Places] /\ mode' \in [Procs -> {"add", "nested", "rebuild"}]
    BY <1>2 DEF Contended, AddFails, LockStep, Start, Goto, TypeOK, Places
  <2> QED
    BY <2>1, DiscardTyped DEF TypeOK, StepParts, site, store, history
<1>3. CASE Load(p)
  <2>1. /\ UNCHANGED <<site, num, queue, store, lock, job, gone, history>>
        /\ at' \in [Procs -> Places] /\ mode' \in [Procs -> {"add", "nested", "rebuild"}]
    <3>1. /\ UNCHANGED <<site, num, queue, store, lock, job, gone, history>>
          /\ at' \in {[at EXCEPT ![p] = "query"], [at EXCEPT ![p] = "add"]}
          /\ mode' \in {mode, [mode EXCEPT ![p] = "nested"]}
      BY <1>3 DEF Load, Start, Goto
    <3>2. at' \in [Procs -> Places]
      BY <3>1 DEF TypeOK, Places
    <3>3. mode' \in [Procs -> {"add", "nested", "rebuild"}]
      BY <3>1 DEF TypeOK
    <3> QED
      BY <3>1, <3>2, <3>3
  <2>2. tree' \in [Procs -> SUBSET Comments] /\ par' \in [Procs -> Fathers]
    <3>1. CASE stored = NoTree
      BY <1>3, <3>1 DEF Load, TypeOK
    <3>2. CASE stored # NoTree
      <4>1. stored \in SUBSET Comments /\ fathers \in Fathers
        BY <3>2 DEF TypeOK
      <4>2. tree' = [tree EXCEPT ![p] = stored] /\ par' = [par EXCEPT ![p] = fathers]
        BY <1>3, <3>2 DEF Load
      <4>3. tree' \in [Procs -> SUBSET Comments]
        BY <4>1, <4>2 DEF TypeOK
      <4>4. par' \in [Procs -> Fathers]
        BY <4>1, <4>2 DEF TypeOK
      <4> QED
        BY <4>3, <4>4
    <3> QED
      BY <3>1, <3>2
  <2> QED
    BY <2>1, <2>2 DEF TypeOK, StepParts, LockStep, site, store, lock, job, history
<1>4. CASE CountDeletion(p)
  <2>1. /\ UNCHANGED <<site, queue, store, lock, at, batch, dead, seen, object, history>>
        /\ left' = [left EXCEPT ![p] = left[p] - 1] /\ left[p] > 0 /\ num' = num - 1
    BY <1>4 DEF CountDeletion
  <2>2. left' \in [Procs -> 0..BatchSize] /\ num' \in Int
    <3>1. left[p] - 1 \in 0..BatchSize
      BY <2>1 DEF TypeOK
    <3> QED
      BY <2>1, <3>1 DEF TypeOK
  <2> QED
    BY <2>1, <2>2 DEF TypeOK, StepParts, LockStep, site, store, lock, object, history
<1>5. CASE Leave(p)
  <2>1. /\ UNCHANGED <<site, num, queue, store, batch, history>> /\ LockStep(p)
        /\ DiscardAll(p) /\ at' \in [Procs -> Places]
    BY <1>5 DEF Leave, LockStep, Goto, TypeOK, Places
  <2> QED
    BY <2>1, DiscardAllTyped, DiscardTyped DEF TypeOK, StepParts, site, store, history
<1>6. CASE Ack(p)
  <2>1. UNCHANGED <<site, num, queue, store, lock, history>> /\ Done(p)
    BY <1>6 DEF Ack
  <2> QED
    BY <2>1, DoneTyped, DiscardAllTyped, DiscardTyped
       DEF TypeOK, StepParts, LockStep, site, store, history
<1>7. CASE View(p)
  <2>1. /\ UNCHANGED <<site, num, queue, store, lock, batch, dead, left, tree, par, gone, history>>
        /\ at' \in [Procs -> Places] /\ mode' \in [Procs -> {"add", "nested", "rebuild"}]
        /\ seen' \in [Procs -> Int]
    BY <1>7 DEF View, Start, Goto, TypeOK, Places
  <2> QED
    BY <2>1 DEF TypeOK, StepParts, LockStep, site, store, history
<1>8. CASE Query(p)
  <2>1. /\ UNCHANGED <<site, num, queue, store, lock, job, mode, history>>
        /\ at' \in [Procs -> Places]
    BY <1>8 DEF Query, Goto, TypeOK, Places
  <2>2. Written \in SUBSET Comments /\ Deleted \in SUBSET Comments
    BY DEF Written, Deleted
  <2>3. tree' \in [Procs -> SUBSET Comments] /\ gone' \in [Procs -> SUBSET Comments]
    BY <1>8, <2>2 DEF Query, TypeOK
  <2>4. par' \in [Procs -> Fathers]
    <3>1. [c \in Written |-> Parent[c]] \in [Written -> Comments \cup {Top}]
      BY <2>2
    <3>2. [c \in Written |-> Parent[c]] \in Fathers
      BY <2>2, <3>1 DEF Fathers
    <3> QED
      BY <1>8, <3>2 DEF Query, TypeOK
  <2> QED
    BY <2>1, <2>3, <2>4 DEF TypeOK, StepParts, LockStep, site, store, lock, job, history
<1> QED
  BY <1>1, <1>2, <1>3, <1>4, <1>5, <1>6, <1>7, <1>8, GetTyped, AddTyped, WritesTyped,
     RecountTyped, GivesBackTyped DEF Work

-----------------------------------------------------------------------------
(* Where a process is, and what it does there.                              *)

\* Nobody else is moved.
LEMMA Alone ==
    ASSUME TypeOK, NEW p \in Procs, Work(p) \/ View(p) \/ Crash(p) \/ TimesOut(p),
           NEW q \in Procs \ {p}
    PROVE  /\ at'[q] = at[q] /\ batch'[q] = batch[q] /\ dead'[q] = dead[q]
           /\ left'[q] = left[q] /\ tree'[q] = tree[q] /\ par'[q] = par[q]
           /\ mode'[q] = mode[q]
<1> USE DEF TypeOK, Goto, Start, Done, DiscardAll, Discard, work, job, object
<1>1. CASE Get(p)
  <2>1. batch' = [batch EXCEPT ![p] = batch'[p]]
    BY <1>1, GetTakes
  <2> QED
    BY <1>1, <2>1 DEF Get
<1>2. CASE Enter(p) \/ Contended(p) \/ Load(p) \/ AddFails(p)
  BY <1>2 DEF Enter, Contended, Load, AddFails
<1>3. CASE Add(p)
  BY <1>3 DEF Add
<1>4. CASE WriteParents(p) \/ WriteTree(p) \/ CountDeletion(p)
  BY <1>4 DEF WriteParents, WriteTree, CountDeletion
<1>5. CASE Leave(p) \/ Ack(p) \/ Again(p)
  BY <1>5 DEF Leave, Ack, Again
<1>6. CASE Query(p) \/ Remove(p) \/ Insert(p)
  BY <1>6 DEF Query, Remove, Insert
<1>7. CASE Recount(p)
  BY <1>7 DEF Recount
<1>8. CASE View(p) \/ Crash(p) \/ TimesOut(p)
  BY <1>8 DEF View, Crash, TimesOut, GivesBack
<1> QED
  BY <1>1, <1>2, <1>3, <1>4, <1>5, <1>6, <1>7, <1>8 DEF Work

\* What is empty after Discard.
LEMMA Emptied ==
    ASSUME TypeOK, NEW p \in Procs, Discard(p)
    PROVE  /\ dead'[p] = {} /\ left'[p] = 0 /\ tree'[p] = {} /\ par'[p] = NoParents
  BY DEF TypeOK, Discard

\* Each step of a process leads where it should, with what it should have.
LEMMA FitsOne ==
    ASSUME TypeOK, NEW p \in Procs, Modes(p), Leftover(p),
           Work(p) \/ View(p) \/ Crash(p) \/ TimesOut(p)
    PROVE  Modes(p)' /\ Leftover(p)'
<1> USE DEF TypeOK, Goto, Start, Locked
<1>V. version' = version /\ Deleted' = Deleted
  BY StepTyped DEF StepParts, Deleted
<1>1. CASE Get(p)
  <2>1. /\ at'[p] = IF Locked THEN "enter" ELSE "load"
        /\ mode'[p] = "add" /\ dead'[p] = Range(batch'[p]) \cap Deleted
        /\ left'[p] = Cardinality(Deletions(batch'[p])) /\ batch'[p] \in Seq(Comments)
    BY <1>1, GetTakes DEF Get
  <2>2. ASSUME left'[p] > 0 PROVE dead'[p] # {}
    <3>1. Cardinality(Deletions(batch'[p])) # 0
      BY <2>1, <2>2
    <3>2. PICK i \in Deletions(batch'[p]) : TRUE
      BY <3>1, FS_EmptySet
    <3>3. batch'[p][i] \in Range(batch'[p]) \cap Deleted
      BY <3>2 DEF Deletions, Range
    <3> QED
      BY <2>1, <3>3
  <2>3. Leftover(p)'
    BY <1>V, <2>1, <2>2 DEF Leftover
  <2>4. Modes(p)'
    BY <1>V, <2>1 DEF Modes
  <2> QED
    BY <2>3, <2>4
<1>2. CASE Contended(p) \/ AddFails(p)
  <2>1. /\ mode'[p] = "rebuild" /\ batch' = batch
        /\ at'[p] \in IF Locked THEN {"again"} ELSE {"query"}
    BY <1>2 DEF Contended, AddFails, Modes
  <2>2. dead'[p] = {} /\ left'[p] = 0
    BY <1>2, Emptied DEF Contended, AddFails
  <2> QED
    BY <1>V, <2>1, <2>2 DEF Modes, Leftover
<1>3. CASE Enter(p) \/ Again(p) \/ Load(p) \/ Query(p)
  <2>1. UNCHANGED <<batch, dead, left>>
    BY <1>3 DEF Enter, Again, Load, Query, work, job
  <2>2. Modes(p)'
    <3>1. CASE Enter(p) \/ Again(p)
      BY <1>V, <2>1, <3>1 DEF Enter, Again, Modes, work, object
    <3>2. CASE Load(p)
      BY <1>V, <2>1, <3>2 DEF Load, Modes
    <3>3. CASE Query(p)
      BY <1>V, <2>1, <3>3 DEF Query, Modes
    <3> QED
      BY <1>3, <3>1, <3>2, <3>3
  <2>3. Leftover(p)'
    <3>1. left'[p] > 0 => mode'[p] # "rebuild" /\ at'[p] \notin {"idle", "ack"}
      <4>1. CASE Enter(p) \/ Again(p) \/ Query(p)
        BY <2>1, <4>1 DEF Enter, Again, Query, Leftover, work, object
      <4>2. CASE Load(p)
        BY <2>1, <4>2 DEF Load, Leftover
      <4> QED
        BY <1>3, <4>1, <4>2
    <3> QED
      BY <1>V, <2>1, <3>1 DEF Leftover
  <2> QED
    BY <2>2, <2>3
<1>4. CASE Add(p) \/ WriteParents(p) \/ WriteTree(p) \/ Remove(p) \/ Insert(p)
  <2>1. UNCHANGED <<batch, dead, left, mode>>
    BY <1>4 DEF Add, WriteParents, WriteTree, Remove, Insert, work, job, object
  <2>2. at[p] \notin {"idle", "ack"} /\ at'[p] \notin {"idle", "ack"}
    BY <1>4 DEF Add, WriteParents, WriteTree, Remove, Insert
  <2>3. Leftover(p)'
    BY <1>V, <2>1, <2>2 DEF Leftover
  <2>4. Modes(p)'
    <3>1. CASE Add(p)
      BY <1>V, <2>1, <3>1 DEF Add, Modes
    <3>2. CASE WriteParents(p)
      BY <1>V, <2>1, <3>2 DEF WriteParents, Modes
    <3>3. CASE WriteTree(p)
      BY <1>V, <2>1, <3>3 DEF WriteTree, Modes
    <3>4. CASE Remove(p) \/ Insert(p)
      BY <1>V, <2>1, <3>4 DEF Remove, Insert, Modes
    <3> QED
      BY <1>4, <3>1, <3>2, <3>3, <3>4
  <2> QED
    BY <2>3, <2>4
<1>5. CASE CountDeletion(p)
  <2>1. UNCHANGED <<at, batch, dead, mode>> /\ left'[p] = left[p] - 1
    BY <1>5 DEF CountDeletion, object
  <2> QED
    BY <1>V, <1>5, <2>1 DEF CountDeletion, Modes, Leftover
<1>6. CASE Leave(p) \/ (Recount(p) /\ mode[p] # "nested")
  <2>1. /\ at'[p] = "ack" /\ DiscardAll(p) /\ batch' = batch
    BY <1>6 DEF Leave, Recount
  <2>2. mode'[p] = "add" /\ dead'[p] = {} /\ left'[p] = 0
    BY <2>1, Emptied DEF DiscardAll
  <2> QED
    BY <1>V, <2>1, <2>2 DEF Modes, Leftover
<1>7. CASE Recount(p) /\ mode[p] = "nested"
  <2>1. at'[p] = "add" /\ mode'[p] = "add" /\ UNCHANGED <<batch, dead, left>>
    BY <1>7 DEF Recount
  <2> QED
    BY <1>V, <1>7, <2>1 DEF Modes, Leftover, Recount
<1>8. CASE Ack(p) \/ Crash(p) \/ TimesOut(p)
  <2>1. Done(p)
    BY <1>8 DEF Ack, Crash, TimesOut, GivesBack
  <2>2. /\ at'[p] = "idle" /\ batch'[p] = <<>> /\ mode'[p] = "add"
        /\ dead'[p] = {} /\ left'[p] = 0
    BY <2>1, Emptied DEF Done, DiscardAll
  <2> QED
    BY <1>V, <2>2 DEF Modes, Leftover
<1>9. CASE View(p)
  <2>1. /\ UNCHANGED <<batch, dead, left>> /\ at'[p] = "again" /\ mode'[p] = "rebuild"
        /\ Locked /\ at[p] = "idle"
    BY <1>9 DEF View
  <2> QED
    BY <1>V, <2>1 DEF Modes, Leftover
<1> QED
  BY <1>1, <1>2, <1>3, <1>4, <1>5, <1>6, <1>7, <1>8, <1>9 DEF Work

\* What requests do to the site and to the queue: comments go on, and one that
\* has become "posted" is in the queue.
LEMMA RequestEffect ==
    ASSUME TypeOK, NEW c \in Comments, Request(c)
    PROVE  /\ UNCHANGED <<version, stored, fathers, held, busy, overrun, at, lost>>
           /\ UNCHANGED <<batch, dead, seen, left, tree, par, gone, mode>>
           /\ Written \subseteq Written' /\ Deleted \subseteq Deleted' /\ Sent \subseteq Sent'
           /\ Range(queue) \subseteq Range(queue')
           /\ Range(queue') \subseteq Range(queue) \cup Sent'
           /\ \A d \in Comments : phase'[d] = "posted" =>
                  phase[d] = "posted" \/ (d \in Range(queue') /\ d \notin Sent)
           /\ \A d \in Comments : phase'[d] # "new" =>
                  phase[d] # "new" \/ Parent[d] \in {Top} \cup Written
<1>0. phase \in [Comments -> Phases] /\ queue \in Seq(Comments)
  BY DEF TypeOK
<1>1. /\ UNCHANGED <<version, stored, fathers, held, busy, overrun, at, lost>>
      /\ UNCHANGED <<batch, dead, seen, left, tree, par, gone, mode>>
  BY DEF Request, Count, Write, Post, Delete, PostDeletion, RequestDies, store, lock, work,
         job, object, history
<1>2. /\ Append(queue, c) \in Seq(Comments)
      /\ Range(Append(queue, c)) = Range(queue) \cup {c}
  <2>1. Append(queue, c) = queue \o <<c>> /\ Append(queue, c) \in Seq(Comments)
    BY <1>0, AppendIsConcat, AppendProperties
  <2>2. <<c>> \in Seq(Comments) /\ Range(<<c>>) = {c}
    BY DEF Range
  <2>3. Range(queue \o <<c>>) = Range(queue) \cup Range(<<c>>)
    BY <1>0, <2>2, Concat
  <2> QED
    BY <2>1, <2>2, <2>3
<1>3. Written \subseteq Written' /\ Deleted \subseteq Deleted'
  BY <1>0 DEF Written, Deleted, Request, Count, Write, Post, Delete, PostDeletion, RequestDies, Phase
<1>8. Sent \subseteq Sent'
  BY <1>0 DEF Sent, Deleted, Request, Count, Write, Post, Delete, PostDeletion, RequestDies, Phase
<1>4. \/ queue' = queue
      \/ queue' = Append(queue, c) /\ c \in Sent'
  BY <1>0 DEF Request, Count, Write, Post, Delete, PostDeletion, RequestDies, Phase, Sent, Deleted
<1>5. ASSUME NEW d \in Comments, phase'[d] = "posted", phase[d] # "posted"
      PROVE  d \in Range(queue') /\ d \notin Sent
  <2>1. Post(c) /\ c = d
    BY <1>0, <1>5 DEF Request, Count, Write, Post, Delete, PostDeletion, RequestDies, Phase
  <2>2. queue' = Append(queue, c) /\ phase[c] = "written"
    BY <2>1 DEF Post, Phase
  <2> QED
    BY <1>2, <2>1, <2>2 DEF Sent, Deleted
<1>6. \A d \in Comments : phase'[d] # "new" =>
          phase[d] # "new" \/ Parent[d] \in {Top} \cup Written
  BY <1>0 DEF Request, Count, Write, Post, Delete, PostDeletion, RequestDies, Phase, Written
<1>7. Range(queue) \subseteq Range(queue') /\ Range(queue') \subseteq Range(queue) \cup Sent'
  <2>1. CASE queue' = queue
    BY <2>1
  <2>2. CASE queue' = Append(queue, c) /\ c \in Sent'
    <3>1. Range(queue') = Range(queue) \cup {c}
      BY <1>2, <2>2
    <3> QED
      BY <2>2, <3>1
  <2> QED
    BY <1>4, <2>1, <2>2
<1> QED
  BY <1>1, <1>3, <1>5, <1>6, <1>7, <1>8

LEMMA FitsPreserved == TypeOK /\ Fits /\ [Next]_vars => TypeOK' /\ Fits'
<1> SUFFICES ASSUME TypeOK, Fits, [Next]_vars PROVE TypeOK' /\ Fits'
  OBVIOUS
<1>1. ASSUME NEW c \in Comments, Request(c) PROVE TypeOK' /\ Fits'
  <2>1. Deleted \subseteq Deleted' /\ UNCHANGED <<version, at, mode, batch, dead, left>>
    BY <1>1, RequestEffect
  <2>2. Fits'
    BY <2>1 DEF Fits, Modes, Leftover, Locked
  <2> QED
    BY <1>1, <2>2, RequestTyped
<1>2. ASSUME NEW p \in Procs, Work(p) \/ View(p) \/ Crash(p) \/ TimesOut(p)
      PROVE  TypeOK' /\ Fits'
  <2>1. Modes(p) /\ Leftover(p)
    BY DEF Fits
  <2>2. TypeOK' /\ UNCHANGED <<version, phase>>
    BY <1>2, <2>1, StepTyped, PartsAreTyped DEF StepParts
  <2>3. Modes(p)' /\ Leftover(p)'
    BY <1>2, <2>1, FitsOne
  <2>4. ASSUME NEW q \in Procs \ {p} PROVE Modes(q)' /\ Leftover(q)'
    <3>1. /\ at'[q] = at[q] /\ batch'[q] = batch[q] /\ dead'[q] = dead[q]
          /\ left'[q] = left[q] /\ mode'[q] = mode[q]
      BY <1>2, Alone
    <3>2. Modes(q) /\ Leftover(q)
      BY DEF Fits
    <3>3. Modes(q)'
      BY <2>2, <3>1, <3>2 DEF Modes, Locked
    <3>4. Leftover(q)'
      BY <2>2, <3>1, <3>2 DEF Leftover, Deleted
    <3> QED
      BY <3>3, <3>4
  <2>5. Fits'
    BY <2>3, <2>4 DEF Fits
  <2> QED
    BY <2>2, <2>5
<1>3. CASE Lapse
  <2>1. UNCHANGED <<site, num, queue, store, at, work, lost, uncounted>>
    BY <1>3 DEF Lapse
  <2>2. /\ held' \in [Procs -> SUBSET {Link}] /\ busy' \subseteq {Link} /\ overrun' \in BOOLEAN
    BY <1>3 DEF Lapse, Lock!Lapse, TypeOK
  <2>3. mishaps' \in 0..MaxMishaps
    BY <1>3 DEF Lapse, Mishap, TypeOK
  <2>4. TypeOK'
    BY <2>1, <2>2, <2>3 DEF TypeOK, site, store, work, job, object, Locked
  <2>5. Fits'
    BY <2>1 DEF Fits, Modes, Leftover, site, work, job, object, Locked, Deleted
  <2> QED
    BY <2>4, <2>5
<1>4. CASE UNCHANGED vars
  <2>1. TypeOK'
    BY <1>4 DEF TypeOK, vars, site, store, lock, work, job, object, history, Locked
  <2>2. Fits'
    BY <1>4 DEF Fits, Modes, Leftover, vars, site, work, job, object, Locked, Deleted
  <2> QED
    BY <2>1, <2>2
<1> QED
  BY <1>1, <1>2, <1>3, <1>4 DEF Next

\* Every variable has its type, and only links of version 1 have a parents value
\* (models/comment_tree.py:403-438); and a process is where its handler leads, with
\* deletions to count only while it is to count them.
THEOREM Typing == Spec => [](TypeOK /\ Fits)
<1>1. Init => TypeOK
  <2> SUFFICES ASSUME Init PROVE TypeOK
    OBVIOUS
  <2>1. /\ stored \in (SUBSET Comments) \cup {NoTree}
        /\ ~Locked => stored # NoTree
    BY Empties DEF Init, NoTree
  <2>2. held \in [Procs -> SUBSET {Link}] /\ busy \subseteq {Link} /\ overrun \in BOOLEAN
    BY DEF Init, Lock!LockInit
  <2>3. /\ version \in Versions /\ phase \in [Comments -> Phases] /\ num \in Int
        /\ queue \in Seq(Comments) /\ fathers \in Fathers /\ fathers = NoParents
        /\ lost \subseteq Comments /\ uncounted \in BOOLEAN /\ mishaps \in 0..MaxMishaps
    <3>1. fathers \in Fathers /\ fathers = NoParents /\ queue \in Seq(Comments)
      BY Empties DEF Init
    <3>2. version \in Versions /\ phase \in [Comments -> Phases] /\ num \in Int
      BY DEF Init, Phases
    <3>3. lost = {} /\ uncounted = FALSE /\ mishaps = 0
      BY DEF Init
    <3>4. 0 \in 0..MaxMishaps
      OBVIOUS
    <3> QED
      BY <3>1, <3>2, <3>3, <3>4
  <2>4. /\ at \in [Procs -> Places] /\ batch \in [Procs -> Seq(Comments)]
        /\ seen \in [Procs -> Int] /\ left \in [Procs -> 0..BatchSize]
        /\ mode \in [Procs -> {"add", "nested", "rebuild"}]
    BY Empties DEF Init, Places
  <2>5. /\ dead \in [Procs -> SUBSET Comments] /\ tree \in [Procs -> SUBSET Comments]
        /\ gone \in [Procs -> SUBSET Comments] /\ par \in [Procs -> Fathers]
    BY Empties DEF Init
  <2> QED
    BY <2>1, <2>2, <2>3, <2>4, <2>5 DEF TypeOK
<1>2. Init => Fits
  BY Empties DEF Init, Fits, Modes, Leftover, Locked
<1> QED
  BY <1>1, <1>2, FitsPreserved, PTL DEF Spec

-----------------------------------------------------------------------------
(* Whatever is anywhere was written.                                        *)

\* Messages go from the queue into a batch and back, and nowhere else before
\* they are acknowledged.
LEMMA Messages ==
    ASSUME TypeOK, NEW p \in Procs, Modes(p), Work(p) \/ View(p) \/ Crash(p) \/ TimesOut(p)
    PROVE  /\ Range(queue') \cup Range(batch'[p]) \subseteq Range(queue) \cup Range(batch[p])
           /\ ~Ack(p) => Range(queue') \cup Range(batch'[p]) = Range(queue) \cup Range(batch[p])
           /\ ~(Get(p) \/ Ack(p) \/ Crash(p) \/ TimesOut(p)) => queue' = queue /\ batch' = batch
<1>0. queue \in Seq(Comments) /\ batch \in [Procs -> Seq(Comments)]
  BY DEF TypeOK
<1>1. CASE Get(p)
  <2>1. /\ queue = batch'[p] \o queue' /\ batch'[p] \in Seq(Comments) /\ queue' \in Seq(Comments)
        /\ at[p] = "idle"
    BY <1>1, GetTakes
  <2>2. Range(queue) = Range(batch'[p]) \cup Range(queue')
    BY <2>1, Concat
  <2>3. Range(batch[p]) = {}
    BY <2>1, Empties DEF Modes
  <2> QED
    BY <1>1, <2>2, <2>3
<1>2. CASE Ack(p)
  <2>1. queue' = queue /\ batch'[p] = <<>>
    BY <1>0, <1>2 DEF Ack, Done
  <2> QED
    BY <1>2, <2>1, Empties
<1>3. CASE Crash(p) \/ TimesOut(p)
  <2>1. queue' = batch[p] \o queue /\ batch'[p] = <<>>
    BY <1>0, <1>3 DEF Crash, TimesOut, GivesBack, Done
  <2>2. Range(queue') = Range(batch[p]) \cup Range(queue)
    BY <1>0, <2>1, Concat
  <2> QED
    BY <1>3, <2>1, <2>2, Empties
<1>4. CASE ~(Get(p) \/ Ack(p) \/ Crash(p) \/ TimesOut(p))
  <2>1. queue' = queue /\ batch' = batch
    BY <1>4 DEF Work, View, Enter, Contended, Load, AddFails, Add, WriteParents, WriteTree,
       CountDeletion, Leave, Again, Query, Remove, Insert, Recount, work, job
  <2> QED
    BY <2>1
<1> QED
  BY <1>1, <1>2, <1>3, <1>4

\* What a process takes for the tree.
LEMMA TreeStep ==
    ASSUME TypeOK, NEW p \in Procs, Work(p) \/ View(p) \/ Crash(p) \/ TimesOut(p)
    PROVE  \/ tree' = tree
           \/ tree'[p] = {}
           \/ Load(p) /\ tree'[p] = stored /\ stored # NoTree
           \/ Add(p) /\ Locked /\ tree'[p] = tree[p] \cup Fresh(p)
           \/ Query(p) /\ tree'[p] = Written
<1>0. tree \in [Procs -> SUBSET Comments]
  BY DEF TypeOK
<1>1. CASE Load(p)
  BY <1>0, <1>1 DEF Load
<1>2. CASE Add(p)
  BY <1>0, <1>2 DEF Add
<1>3. CASE Query(p)
  BY <1>0, <1>3 DEF Query
<1>4. CASE Contended(p) \/ AddFails(p) \/ Leave(p) \/ Ack(p) \/ Crash(p) \/ TimesOut(p)
  <2>1. Discard(p)
    BY <1>4 DEF Contended, AddFails, Leave, Ack, Crash, TimesOut, GivesBack, Done, DiscardAll
  <2> QED
    BY <2>1, Emptied
<1>5. CASE Recount(p)
  <2>1. tree' = tree \/ Discard(p)
    BY <1>5 DEF Recount, DiscardAll
  <2> QED
    BY <2>1, Emptied
<1>6. CASE \/ Get(p) \/ Enter(p) \/ WriteParents(p) \/ WriteTree(p) \/ CountDeletion(p)
           \/ Again(p) \/ Remove(p) \/ Insert(p) \/ View(p)
  BY <1>6 DEF Get, Enter, WriteParents, WriteTree, CountDeletion, Again, Remove, Insert, View,
     work, object
<1> QED
  BY <1>1, <1>2, <1>3, <1>4, <1>5, <1>6 DEF Work

\* What it does to what is stored.
LEMMA StoreStep ==
    ASSUME TypeOK, NEW p \in Procs, Modes(p),
           Work(p) \/ View(p) \/ Crash(p) \/ TimesOut(p)
    PROVE  \/ stored' = stored /\ lost' = lost
           \/ /\ Add(p) /\ ~Locked /\ stored \in SUBSET Comments
              /\ stored' = stored \cup Fresh(p) /\ lost' = lost \ Fresh(p)
           \/ WriteTree(p) /\ Locked /\ stored' = tree[p] /\ lost' = lost
           \/ /\ Remove(p) /\ ~Locked /\ stored \in SUBSET Comments
              /\ stored' = {} /\ lost' = lost \cup (stored \ tree[p])
           \/ /\ Insert(p) /\ ~Locked /\ stored \in SUBSET Comments
              /\ stored' = stored \cup tree[p] /\ lost' = lost \ tree[p]
           \/ /\ Crash(p) /\ at[p] = "insert" /\ ~Locked /\ stored \in SUBSET Comments
              /\ stored' = stored /\ lost' = lost \cup (tree[p] \ stored)
<1>1. ~Locked => stored \in SUBSET Comments
  BY DEF TypeOK
<1>2. CASE Add(p)
  BY <1>1, <1>2 DEF Add
<1>3. CASE WriteTree(p)
  BY <1>3 DEF WriteTree, Modes, history
<1>4. CASE Remove(p)
  BY <1>1, <1>4 DEF Remove, Modes
<1>5. CASE Insert(p)
  BY <1>1, <1>5 DEF Insert, Modes
<1>6. CASE Crash(p)
  BY <1>1, <1>6 DEF Crash, Modes, store
<1>7. CASE \/ Get(p) \/ Enter(p) \/ Contended(p) \/ Load(p) \/ AddFails(p) \/ WriteParents(p)
           \/ CountDeletion(p) \/ Leave(p) \/ Ack(p) \/ Again(p) \/ Query(p) \/ Recount(p)
           \/ View(p) \/ TimesOut(p)
  BY <1>7 DEF Get, Enter, Contended, Load, AddFails, WriteParents, CountDeletion, Leave, Ack,
     Again, Query, Recount, View, TimesOut, store, history
<1> QED
  BY <1>2, <1>3, <1>4, <1>5, <1>6, <1>7 DEF Work

LEMMA WrittenPreserved ==
    ASSUME TypeOK, Fits, AllWritten, [Next]_vars
    PROVE  AllWritten'
<1>T. /\ phase \in [Comments -> Phases] /\ tree \in [Procs -> SUBSET Comments]
      /\ InTree \subseteq Comments
      /\ \A q \in Procs : Modes(q)
      /\ Sent \subseteq Written
  BY DEF TypeOK, InTree, Fits, Sent, Written
<1>1. ASSUME NEW c \in Comments, Request(c) PROVE AllWritten'
  <2>1. /\ UNCHANGED <<stored, lost, batch, tree>>
        /\ Written \subseteq Written' /\ Sent \subseteq Sent'
        /\ Range(queue') \subseteq Range(queue) \cup Sent'
        /\ \A d \in Comments : phase'[d] # "new" =>
               phase[d] # "new" \/ Parent[d] \in {Top} \cup Written
    BY <1>1, RequestEffect
  <2> QED
    BY <2>1 DEF AllWritten, InTree
<1>2. ASSUME NEW p \in Procs, Work(p) \/ View(p) \/ Crash(p) \/ TimesOut(p)
      PROVE  AllWritten'
  <2>1. Written' = Written /\ Sent' = Sent /\ phase' = phase
    BY <1>2, <1>T, StepTyped DEF StepParts, Written, Sent, Deleted
  <2>2. Range(queue') \cup Range(batch'[p]) \subseteq Sent
    BY <1>2, <1>T, Messages DEF AllWritten
  <2>3. tree[p] \subseteq Written /\ Fresh(p) \subseteq Written
    BY <1>T DEF AllWritten, Fresh
  <2>4. tree'[p] \subseteq Written
    <3>1. stored # NoTree => stored \subseteq Written
      BY DEF AllWritten, InTree
    <3> QED
      BY <1>2, <2>3, <3>1, TreeStep
  <2>5. InTree' \cup lost' \subseteq Written
    <3>1. InTree \cup lost \subseteq Written
      BY DEF AllWritten
    <3>2. stored \in SUBSET Comments => InTree = stored
      BY Empties DEF InTree
    <3>3. stored' = stored => InTree' = InTree
      BY DEF InTree
    <3>4. stored' \in SUBSET Comments => InTree' = stored'
      BY Empties DEF InTree
    <3>5. Fresh(p) \subseteq Comments /\ tree[p] \subseteq Comments
      BY <2>3, <1>T DEF Written, Deleted
    <3> QED
      BY <1>2, <1>T, <2>3, <3>1, <3>2, <3>3, <3>4, <3>5, StoreStep
  <2>6. ASSUME NEW q \in Procs \ {p}
        PROVE  Range(batch'[q]) \subseteq Sent /\ tree'[q] \subseteq Written
    <3>1. batch'[q] = batch[q] /\ tree'[q] = tree[q]
      BY <1>2, Alone
    <3> QED
      BY <3>1 DEF AllWritten
  <2> QED
    BY <2>1, <2>2, <2>4, <2>5, <2>6 DEF AllWritten
<1>3. CASE Lapse
  BY <1>3 DEF Lapse, AllWritten, InTree, Written, Sent, Deleted, site, store, work, job, object
<1>4. CASE UNCHANGED vars
  BY <1>4 DEF vars, AllWritten, InTree, Written, Sent, Deleted, site, store, work, job, object, history
<1> QED
  BY <1>1, <1>2, <1>3, <1>4 DEF Next

-----------------------------------------------------------------------------
(* The lock of version 1.                                                   *)

LEMMA LockMoves ==
    ASSUME TypeOK, NEW p \in Procs, Modes(p), Locked,
           Work(p) \/ View(p) \/ Crash(p) \/ TimesOut(p)
    PROVE  \/ UNCHANGED lock /\ (at'[p] \in Inside => at[p] \in Inside)
           \/ Lock!Obtain(p, Link)
           \/ (Lock!LetGo(p, Link) \/ Lock!Abandon(p)) /\ at'[p] \notin Inside
<1> USE DEF TypeOK, Goto, Start, Inside
<1>1. CASE Enter(p) \/ Again(p)
  BY <1>1 DEF Enter, Again
<1>2. CASE AddFails(p) \/ Leave(p) \/ Recount(p)
  BY <1>2 DEF AddFails, Leave, Recount
<1>3. CASE Crash(p)
  BY <1>3 DEF Crash, GivesBack, Done
<1>4. CASE Get(p) \/ Contended(p) \/ Load(p)
  BY <1>4 DEF Get, Contended, Load
<1>5. CASE Add(p) \/ WriteParents(p) \/ WriteTree(p) \/ CountDeletion(p)
  BY <1>5 DEF Add, WriteParents, WriteTree, CountDeletion
<1>6. CASE Ack(p) \/ View(p) \/ TimesOut(p)
  BY <1>6 DEF Ack, View, TimesOut, GivesBack, Done
<1>7. CASE Query(p) \/ Remove(p) \/ Insert(p)
  BY <1>7 DEF Query, Remove, Insert, Modes
<1> QED
  BY <1>1, <1>2, <1>3, <1>4, <1>5, <1>6, <1>7 DEF Work

\* The lock that has not lapsed under a holder still excludes.
LEMMA OneHolderPreserved ==
    ASSUME TypeOK, Fits, ~overrun => OneHolder, [Next]_vars, ~overrun'
    PROVE  OneHolder' /\ ~overrun
<1>T. /\ held \in [Procs -> SUBSET {Link}] /\ busy \subseteq {Link}
      /\ \A q \in Procs : Modes(q)
  BY DEF TypeOK, Fits
<1>1. ASSUME NEW c \in Comments, Request(c) PROVE OneHolder' /\ ~overrun
  BY <1>1, RequestEffect DEF OneHolder, Locked
<1>2. ASSUME NEW p \in Procs, Work(p) \/ View(p) \/ Crash(p) \/ TimesOut(p)
      PROVE  OneHolder' /\ ~overrun
  <2>1. LockStep(p) /\ version' = version
    BY <1>2, <1>T, StepTyped DEF StepParts
  <2>2. ~overrun
    BY <2>1 DEF LockStep, Lock!Obtain, Lock!LetGo, Lock!Abandon, lock
  <2>3. CASE ~Locked
    BY <2>1, <2>2, <2>3 DEF OneHolder, Locked
  <2>4. CASE Locked
    <3>1. /\ \A q \in Procs : at[q] \in Inside => Link \in held[q]
          /\ \A q \in Procs : Link \in held[q] => Link \in busy
          /\ \A q, r \in Procs : Link \in held[q] /\ Link \in held[r] => q = r
      BY <2>2, <2>4 DEF OneHolder
    <3>2. \A q \in Procs \ {p} : at'[q] = at[q]
      BY <1>2, Alone
    <3>3. CASE UNCHANGED lock /\ (at'[p] \in Inside => at[p] \in Inside)
      BY <2>2, <3>1, <3>2, <3>3 DEF OneHolder, lock
    <3>4. CASE Lock!Obtain(p, Link)
      BY <1>T, <2>2, <3>1, <3>2, <3>4 DEF OneHolder, Lock!Obtain
    <3>5. CASE Lock!LetGo(p, Link) /\ at'[p] \notin Inside
      BY <1>T, <2>2, <3>1, <3>2, <3>5 DEF OneHolder, Lock!LetGo
    <3>6. CASE Lock!Abandon(p) /\ at'[p] \notin Inside
      BY <1>T, <2>2, <3>1, <3>2, <3>6 DEF OneHolder, Lock!Abandon
    <3> QED
      BY <1>2, <1>T, <2>4, <3>3, <3>4, <3>5, <3>6, LockMoves
  <2> QED
    BY <2>3, <2>4
<1>3. CASE Lapse
  <2>1. /\ UNCHANGED <<version, at, held>> /\ busy' = busy \ {Link}
        /\ overrun' = (overrun \/ \E q \in Procs : Link \in held[q])
    BY <1>3 DEF Lapse, Lock!Lapse, site
  <2>2. ~overrun
    BY <2>1
  <2>3. \A q \in Procs : Link \notin held[q]
    BY <2>1
  <2> QED
    BY <2>1, <2>2, <2>3 DEF OneHolder, Locked
<1>4. CASE UNCHANGED vars
  BY <1>4 DEF vars, lock, site, OneHolder, Locked
<1> QED
  BY <1>1, <1>2, <1>3, <1>4 DEF Next

\* While one is inside, so that it may be storing, nobody else is.
LEMMA OnlyOneInside ==
    ASSUME OneHolder, Locked, NEW p \in Procs, NEW q \in Procs \ {p}, at[p] \in Inside
    PROVE  at[q] \notin Inside
  BY DEF OneHolder

-----------------------------------------------------------------------------
(* What a process has in its tree stays in the tree, and is a tree.         *)

\* What other rebuilds of version 3 have removed and are writing again.
Others(p) == UNION {tree[q] : q \in Replacing \ {p}}

Returning(p) == IF at[p] = "insert" THEN tree[p] ELSE {}

LEMMA KeptParts ==
    ASSUME NEW p \in Procs
    PROVE  Kept = InTree \cup lost \cup Others(p) \cup Returning(p)
  BY DEF Kept, Others, Returning, Replacing

\* The sets above after a step of p.
LEMMA KeptPartsAfter ==
    ASSUME TypeOK, NEW p \in Procs, Work(p) \/ View(p) \/ Crash(p) \/ TimesOut(p)
    PROVE  /\ Kept' = InTree' \cup lost' \cup Others(p) \cup Returning(p)'
           /\ at[p] = "insert" => Insert(p) \/ Crash(p)
           /\ at'[p] = "insert" => Remove(p)
<1>1. \A q \in Procs \ {p} : at'[q] = at[q] /\ tree'[q] = tree[q]
  BY Alone
<1>2. Others(p)' = Others(p)
  BY <1>1 DEF Others, Replacing
<1>3. Kept' = InTree' \cup lost' \cup Others(p)' \cup Returning(p)'
  BY DEF Kept, Others, Returning, Replacing
<1>4. at[p] = "insert" => Insert(p) \/ Crash(p)
  BY DEF Work, Get, Enter, Contended, Load, AddFails, Add, WriteParents, WriteTree,
     CountDeletion, Leave, Ack, Again, Query, Remove, Recount, View, TimesOut
<1>5. ASSUME at'[p] = "insert" PROVE Remove(p)
  <2> USE DEF TypeOK, Goto, Start, Done
  <2>1. ~(Get(p) \/ Enter(p) \/ Contended(p) \/ Load(p) \/ AddFails(p))
    BY <1>5 DEF Get, Enter, Contended, Load, AddFails
  <2>2. ~(Add(p) \/ WriteParents(p) \/ WriteTree(p) \/ CountDeletion(p) \/ Leave(p))
    BY <1>5 DEF Add, WriteParents, WriteTree, CountDeletion, Leave
  <2>3. ~(Ack(p) \/ Again(p) \/ Query(p) \/ Insert(p) \/ Recount(p))
    BY <1>5 DEF Ack, Again, Query, Insert, Recount
  <2>4. ~(View(p) \/ Crash(p) \/ TimesOut(p))
    BY <1>5 DEF View, Crash, TimesOut, GivesBack
  <2> QED
    BY <2>1, <2>2, <2>3, <2>4 DEF Work
<1> QED
  BY <1>2, <1>3, <1>4, <1>5

\* A reply of the batch has its parent in the tree or in the batch, if it did
\* not fail.
LEMMA Parented ==
    ASSUME TypeOK, NEW p \in Procs, ~Orphaned(p), NEW c \in Fresh(p) \ tree[p]
    PROVE  Parent[c] \in {Top} \cup tree[p] \cup Fresh(p)
<1>1. batch[p] \in Seq(Comments)
  BY DEF TypeOK
<1>2. PICK i \in DOMAIN batch[p] : c = batch[p][i]
  BY DEF Fresh, Range
<1>3. Parent[c] \in {Top} \cup tree[p] \cup ({batch[p][j] : j \in 1..(i - 1)} \ dead[p])
  BY <1>2 DEF Orphaned
<1>4. {batch[p][j] : j \in 1..(i - 1)} \subseteq Range(batch[p])
  <2>1. i \in 1..Len(batch[p])
    BY <1>1, <1>2
  <2>2. \A j \in 1..(i - 1) : j \in DOMAIN batch[p]
    BY <1>1, <2>1
  <2> QED
    BY <2>2 DEF Range
<1> QED
  BY <1>3, <1>4 DEF Fresh

\* With version 1 nothing is on its way out of the tree.
LEMMA KeptIsTree ==
    ASSUME TypeOK, Fits, Locked, lost = {}
    PROVE  Kept = InTree /\ Replacing = {}
  BY DEF Fits, Modes, Replacing, Kept

\* What a process may count on when it takes a step.
Ready(p) ==
    /\ at[p] \in {"parents", "tree", "remove", "insert"} => Storing(p)
    /\ at[p] = "add" => Adding(p)
    /\ Locked => Current(p) /\ lost = {} /\ InTree \subseteq DOMAIN fathers

LEMMA StoredInTree ==
    /\ stored \in SUBSET Comments => InTree = stored
    /\ stored = NoTree => InTree = {}
    /\ stored # NoTree => InTree = stored
  BY Empties DEF InTree

LEMMA KeptGrows ==
    ASSUME TypeOK, Fits, KeptClosed, NEW p \in Procs, Ready(p),
           Work(p) \/ View(p) \/ Crash(p) \/ TimesOut(p)
    PROVE  Kept \subseteq Kept' /\ KeptClosed'
<1> DEFINE K == Kept
           K1 == InTree' \cup lost' \cup Others(p) \cup Returning(p)'
<1>0. K = InTree \cup lost \cup Others(p) \cup Returning(p) /\ Kept' = K1
  BY KeptParts, KeptPartsAfter
<1>1. Modes(p) /\ tree[p] \in SUBSET Comments /\ tree \in [Procs -> SUBSET Comments]
  BY DEF Fits, TypeOK
<1>2. /\ at[p] = "insert" => Insert(p) \/ Crash(p)
      /\ at'[p] = "insert" => Remove(p)
  BY KeptPartsAfter
<1>3. \A c \in InTree : Parent[c] \in {Top} \cup K
  BY DEF KeptClosed
<1>4. SUFFICES K \subseteq K1 /\ \A c \in InTree' : Parent[c] \in {Top} \cup K1
  BY <1>0 DEF KeptClosed
<1>5. CASE stored' = stored /\ lost' = lost /\ at[p] # "insert"
  <2>1. InTree' = InTree /\ Returning(p) = {}
    BY <1>5 DEF InTree, Returning
  <2> HIDE DEF K
  <2>2. K \subseteq K1
    BY <1>0, <1>5, <2>1
  <2> QED
    BY <1>3, <2>1, <2>2
<1>6. CASE Add(p) /\ ~Locked /\ stored \in SUBSET Comments
           /\ stored' = stored \cup Fresh(p) /\ lost' = lost \ Fresh(p)
  <2>1. at[p] = "add" /\ ~Orphaned(p) /\ Adding(p)
    BY <1>6 DEF Add, Ready
  <2>2. Fresh(p) \subseteq Comments
    BY DEF Fresh, Range, TypeOK
  <2>3. InTree = stored /\ InTree' = InTree \cup Fresh(p)
    BY <1>6, <2>2, StoredInTree, Empties DEF InTree
  <2>4. Returning(p) = {}
    BY <2>1 DEF Returning
  <2>5. K \subseteq K1 /\ Fresh(p) \subseteq K1
    BY <1>0, <1>6, <2>3, <2>4
  <2>6. ASSUME NEW c \in Fresh(p) PROVE Parent[c] \in {Top} \cup K1
    <3>1. tree[p] \subseteq K1 /\ \A d \in tree[p] : Parent[d] \in {Top} \cup K1
      BY <2>1, <2>5 DEF Adding
    <3>2. CASE c \in tree[p]
      BY <3>1, <3>2
    <3>3. CASE c \notin tree[p]
      <4>1. Parent[c] \in {Top} \cup tree[p] \cup Fresh(p)
        BY <2>1, <3>3, Parented
      <4> QED
        BY <2>5, <3>1, <4>1
    <3> QED
      BY <3>2, <3>3
  <2> HIDE DEF K1, K
  <2> QED
    BY <1>3, <2>3, <2>5, <2>6
<1>7. CASE WriteTree(p) /\ Locked /\ stored' = tree[p] /\ lost' = lost
  <2>1. at[p] = "tree" /\ Storing(p) /\ Current(p) /\ lost = {}
    BY <1>7 DEF WriteTree, Ready
  <2>2. K = InTree
    BY <1>7, <2>1, KeptIsTree
  <2>3. InTree' = tree[p]
    BY <1>1, <1>7, Empties DEF InTree
  <2>4. InTree \subseteq tree[p] /\ \A c \in tree[p] : Parent[c] \in {Top} \cup tree[p]
    BY <2>1 DEF Current, Storing
  <2> QED
    BY <2>2, <2>3, <2>4
<1>8. CASE Remove(p) /\ ~Locked /\ stored \in SUBSET Comments
           /\ stored' = {} /\ lost' = lost \cup (stored \ tree[p])
  <2>1. at[p] = "remove" /\ at'[p] = "insert" /\ tree' = tree
    BY <1>8 DEF Remove, Goto, TypeOK, work, object
  <2>2. InTree = stored /\ InTree' = {}
    BY <1>8, StoredInTree, Empties DEF InTree
  <2>3. Returning(p) = {} /\ Returning(p)' = tree[p]
    BY <2>1 DEF Returning
  <2> QED
    BY <1>0, <1>8, <2>2, <2>3
<1>9. CASE Insert(p) /\ ~Locked /\ stored \in SUBSET Comments
           /\ stored' = stored \cup tree[p] /\ lost' = lost \ tree[p]
  <2>1. at[p] = "insert" /\ Storing(p)
    BY <1>9 DEF Insert, Ready
  <2>2. InTree = stored /\ InTree' = InTree \cup tree[p]
    BY <1>1, <1>9, StoredInTree, Empties DEF InTree
  <2>3. Returning(p) = tree[p]
    BY <2>1 DEF Returning
  <2>4. K \subseteq K1
    BY <1>0, <1>9, <2>2, <2>3
  <2>5. \A c \in tree[p] : Parent[c] \in {Top} \cup InTree'
    BY <2>1, <2>2 DEF Storing
  <2>6. \A c \in tree[p] : Parent[c] \in {Top} \cup K1
    BY <2>5
  <2> HIDE DEF K, K1
  <2> QED
    BY <1>3, <2>2, <2>4, <2>6
<1>10. CASE Crash(p) /\ at[p] = "insert" /\ ~Locked /\ stored \in SUBSET Comments
            /\ stored' = stored /\ lost' = lost \cup (tree[p] \ stored)
  <2>1. InTree = stored /\ InTree' = InTree
    BY <1>10, StoredInTree DEF InTree
  <2>2. Returning(p) = tree[p]
    BY <1>10 DEF Returning
  <2>3. K \subseteq K1
    BY <1>0, <1>10, <2>1, <2>2
  <2> HIDE DEF K, K1
  <2> QED
    BY <1>3, <2>1, <2>3
<1> QED
  <2>1. CASE at[p] # "insert"
    BY <1>1, <1>5, <1>6, <1>7, <1>8, <1>9, <1>10, <2>1, StoreStep
  <2>2. CASE at[p] = "insert"
    <3>1. ~Locked /\ stored \in SUBSET Comments
      BY <1>1, <2>2 DEF Modes, TypeOK
    <3>2. Insert(p) \/ Crash(p)
      BY <1>2, <2>2
    <3>3. CASE Insert(p)
      BY <1>9, <3>1, <3>3 DEF Insert
    <3>4. CASE Crash(p)
      BY <1>10, <2>2, <3>1, <3>4 DEF Crash, store
    <3> QED
      BY <3>2, <3>3, <3>4
  <2> QED
    BY <2>1, <2>2

\* A process is done with its batch only when that is in the tree.
LEMMA BatchOfOne ==
    ASSUME TypeOK, Fits, BatchKept, NEW p \in Procs, Ready(p), Kept \subseteq Kept',
           Work(p) \/ View(p) \/ Crash(p) \/ TimesOut(p),
           at'[p] \in {"delete", "ack"} \/ (at'[p] = "recount" /\ mode'[p] = "rebuild"),
           NEW c \in Range(batch'[p]), phase'[c] = "posted"
    PROVE  c \in Kept'
<1>0. Modes(p) /\ Leftover(p) /\ tree[p] \in SUBSET Comments /\ phase' = phase
  BY StepTyped DEF Fits, TypeOK, StepParts
<1>1. c \notin Deleted
  BY <1>0 DEF Deleted
<1>2. ~(Get(p) \/ Crash(p) \/ TimesOut(p) \/ Ack(p))
  BY DEF Get, Crash, TimesOut, Ack, GivesBack, Done, Goto, Start, TypeOK
<1>3. batch' = batch /\ c \in Range(batch[p])
  BY <1>0, <1>2, Messages
<1>4. c \in Fresh(p)
  BY <1>0, <1>1, <1>3 DEF Fresh, Leftover
<1>5. CASE Add(p)
  <2>1. CASE Locked
    BY <1>4, <1>5, <2>1 DEF Add, Goto, TypeOK
  <2>2. CASE ~Locked
    <3>1. stored' = stored \cup Fresh(p) /\ stored \in SUBSET Comments
      BY <1>5, <2>2 DEF Add, TypeOK
    <3>2. Fresh(p) \subseteq Comments
      BY DEF Fresh, Range, TypeOK
    <3>3. InTree' = stored'
      BY <3>1, <3>2, Empties DEF InTree
    <3> QED
      BY <1>4, <3>1, <3>3 DEF Kept
  <2> QED
    BY <2>1, <2>2
<1>6. CASE WriteTree(p)
  <2>1. Fresh(p) \subseteq tree[p] /\ stored' = tree[p]
    BY <1>6 DEF WriteTree, Ready, Storing
  <2>2. InTree' = tree[p]
    BY <1>0, <2>1, Empties DEF InTree
  <2> QED
    BY <1>4, <2>1, <2>2 DEF Kept
<1>7. CASE Insert(p)
  <2>1. /\ Fresh(p) \subseteq tree[p] /\ stored' = stored \cup tree[p]
        /\ stored \in SUBSET Comments
    BY <1>0, <1>7 DEF Insert, Ready, Storing, Modes, TypeOK
  <2>2. InTree' = stored \cup tree[p]
    BY <1>0, <2>1, Empties DEF InTree
  <2> QED
    BY <1>4, <2>1, <2>2 DEF Kept
<1>8. CASE CountDeletion(p) \/ Leave(p) \/ Recount(p)
  <2>1. at[p] = "delete" \/ (at[p] = "recount" /\ mode[p] = "rebuild")
    <3>1. at[p] = "delete" \/ (at[p] = "recount" /\ (mode[p] = "nested" => at'[p] = "add"))
      BY <1>8 DEF CountDeletion, Leave, Recount, Goto, Start, TypeOK
    <3>2. mode[p] \in {"add", "nested", "rebuild"}
      BY DEF TypeOK
    <3> QED
      BY <1>0, <3>1, <3>2 DEF Modes
  <2>2. c \in Kept
    BY <1>0, <1>3, <2>1 DEF BatchKept
  <2> QED
    BY <2>2
<1>9. ~(\/ Enter(p) \/ Contended(p) \/ Load(p) \/ AddFails(p) \/ WriteParents(p)
        \/ Again(p) \/ Query(p) \/ Remove(p) \/ View(p))
  <2> USE DEF Goto, Start, TypeOK
  <2>1. ~(Enter(p) \/ Contended(p) \/ Load(p) \/ AddFails(p) \/ WriteParents(p))
    BY DEF Enter, Contended, Load, AddFails, WriteParents
  <2>2. ~(Again(p) \/ Query(p) \/ Remove(p) \/ View(p))
    BY DEF Again, Query, Remove, View
  <2> QED
    BY <2>1, <2>2
<1> QED
  BY <1>2, <1>5, <1>6, <1>7, <1>8, <1>9 DEF Work

\* What p is about to store, after its step.
LEMMA StoringOne ==
    ASSUME TypeOK, Fits, AllWritten, NEW p \in Procs, Ready(p),
           Work(p) \/ View(p) \/ Crash(p) \/ TimesOut(p),
           at'[p] \in {"parents", "tree", "remove", "insert"}
    PROVE  Storing(p)'
<1>0. Modes(p) /\ tree[p] \in SUBSET Comments /\ phase' = phase
  BY StepTyped DEF Fits, TypeOK, StepParts
<1>1. CASE Add(p)
  <2>1. Locked /\ ~Orphaned(p) /\ Adding(p) /\ Current(p) /\ lost = {} /\ at[p] = "add"
    BY <1>1 DEF Add, Ready, Goto, TypeOK
  <2>2. tree'[p] = tree[p] \cup Fresh(p) /\ Fresh(p)' = Fresh(p)
    BY <1>1, <2>1 DEF Add, TypeOK, job, Fresh
  <2>3. Kept = tree[p]
    <3>1. tree[p] = stored /\ Kept = InTree
      BY <2>1, KeptIsTree DEF Current
    <3> QED
      BY <1>0, <3>1, StoredInTree
  <2>4. \A c \in tree[p] : Parent[c] \in {Top} \cup tree[p]
    BY <2>1, <2>3 DEF Adding
  <2>5. \A c \in Fresh(p) \ tree[p] : Parent[c] \in {Top} \cup tree[p] \cup Fresh(p)
    BY <2>1, Parented
  <2> QED
    BY <2>2, <2>4, <2>5 DEF Storing
<1>2. CASE Query(p)
  <2>1. tree'[p] = Written /\ Fresh(p)' = Fresh(p)
    BY <1>2 DEF Query, TypeOK, job, Fresh
  <2>2. Fresh(p) \subseteq Written
    BY DEF AllWritten, Fresh, Sent, Written
  <2>3. \A c \in Written : Parent[c] \in {Top} \cup Written
    BY DEF AllWritten, Written, Deleted
  <2> QED
    BY <2>1, <2>2, <2>3 DEF Storing
<1>3. CASE WriteParents(p) \/ Remove(p)
  <2>1. Storing(p) /\ UNCHANGED <<tree, batch, dead>>
    BY <1>3 DEF WriteParents, Remove, Ready, work, job, object
  <2> QED
    BY <2>1 DEF Storing, Fresh
<1>4. ~(\/ Get(p) \/ Enter(p) \/ Contended(p) \/ Load(p) \/ AddFails(p) \/ WriteTree(p)
        \/ CountDeletion(p) \/ Leave(p) \/ Ack(p) \/ Again(p) \/ Insert(p) \/ Recount(p)
        \/ View(p) \/ Crash(p) \/ TimesOut(p))
  <2> USE DEF Goto, Start, TypeOK, Done
  <2>1. ~(Get(p) \/ Enter(p) \/ Contended(p) \/ Load(p) \/ AddFails(p) \/ WriteTree(p))
    BY DEF Get, Enter, Contended, Load, AddFails, WriteTree
  <2>2. ~(CountDeletion(p) \/ Leave(p) \/ Ack(p) \/ Again(p))
    BY DEF CountDeletion, Leave, Ack, Again
  <2>3. ~Insert(p)
    BY DEF Insert
  <2>4. ~Recount(p)
    <3>1. Recount(p) => at' = [at EXCEPT ![p] = "add"] \/ at' = [at EXCEPT ![p] = "ack"]
      BY DEF Recount
    <3> QED
      BY <3>1
  <2>5. ~(View(p) \/ Crash(p) \/ TimesOut(p))
    BY DEF View, Crash, TimesOut, GivesBack
  <2> QED
    BY <2>1, <2>2, <2>3, <2>4, <2>5
<1> QED
  BY <1>1, <1>2, <1>3, <1>4 DEF Work

\* The tree that p has loaded, after its step.
LEMMA AddingOne ==
    ASSUME TypeOK, Fits, KeptClosed, Kept \subseteq Kept', NEW p \in Procs, Ready(p),
           Work(p) \/ View(p) \/ Crash(p) \/ TimesOut(p),
           at'[p] = "add"
    PROVE  Adding(p)'
<1>0. Modes(p) /\ tree[p] \in SUBSET Comments
  BY DEF Fits, TypeOK
<1>1. CASE Load(p)
  <2>1. tree'[p] = stored /\ stored # NoTree
    BY <1>1 DEF Load, Goto, Start, TypeOK
  <2>2. tree'[p] = InTree /\ InTree \subseteq Kept
    BY <2>1, StoredInTree DEF Kept
  <2> QED
    BY <2>2 DEF Adding, KeptClosed
<1>2. CASE Recount(p)
  <2>1. mode[p] = "nested" /\ at[p] = "recount" /\ tree' = tree
    BY <1>2 DEF Recount, Goto, TypeOK
  <2>2. tree[p] = stored
    BY <1>0, <2>1 DEF Ready, Current, Modes
  <2>3. tree'[p] = InTree /\ InTree \subseteq Kept
    BY <1>0, <2>1, <2>2, StoredInTree DEF Kept
  <2> QED
    BY <2>3 DEF Adding, KeptClosed
<1>3. ~(\/ Get(p) \/ Enter(p) \/ Contended(p) \/ AddFails(p) \/ Add(p) \/ WriteParents(p)
        \/ WriteTree(p) \/ CountDeletion(p) \/ Leave(p) \/ Ack(p) \/ Again(p) \/ Query(p)
        \/ Remove(p) \/ Insert(p) \/ View(p) \/ Crash(p) \/ TimesOut(p))
  <2> USE DEF Goto, Start, TypeOK, Done
  <2>1. ~(Get(p) \/ Enter(p) \/ Contended(p) \/ AddFails(p) \/ Add(p) \/ WriteParents(p))
    BY DEF Get, Enter, Contended, AddFails, Add, WriteParents
  <2>2. ~(WriteTree(p) \/ CountDeletion(p) \/ Leave(p) \/ Ack(p) \/ Again(p) \/ Query(p))
    BY DEF WriteTree, CountDeletion, Leave, Ack, Again, Query
  <2>3. ~(Remove(p) \/ Insert(p) \/ View(p) \/ Crash(p) \/ TimesOut(p))
    BY DEF Remove, Insert, View, Crash, TimesOut, GivesBack
  <2> QED
    BY <2>1, <2>2, <2>3
<1> QED
  BY <1>1, <1>2, <1>3 DEF Work

\* Version 1: the tree that p has is the stored one with its additions.
LEMMA CurrentOne ==
    ASSUME TypeOK, Fits, AllWritten, NEW p \in Procs, Ready(p), Locked,
           Work(p) \/ View(p) \/ Crash(p) \/ TimesOut(p)
    PROVE  Current(p)'
<1>0. /\ Modes(p) /\ tree[p] \in SUBSET Comments /\ Current(p)
      /\ InTree \subseteq DOMAIN fathers
      /\ tree \in [Procs -> SUBSET Comments] /\ par \in [Procs -> Fathers]
      /\ at \in [Procs -> Places]
  BY DEF Fits, TypeOK, Ready
<1>1. CASE Get(p) \/ Enter(p) \/ View(p) \/ Again(p) \/ CountDeletion(p)
  <2>1. /\ UNCHANGED <<tree, par>>
        /\ at'[p] \notin {"add", "recount", "parents", "tree"}
    BY <1>0, <1>1 DEF Get, Enter, View, Again, CountDeletion, Goto, Start, work, object
  <2> QED
    BY <1>0, <2>1 DEF Current
<1>2. CASE \/ Contended(p) \/ AddFails(p) \/ Leave(p) \/ Ack(p) \/ Crash(p) \/ TimesOut(p)
           \/ (Recount(p) /\ mode[p] # "nested")
  <2>1. Discard(p) /\ at'[p] \notin {"add", "recount", "parents", "tree"}
    BY <1>0, <1>2 DEF Contended, AddFails, Leave, Ack, Crash, TimesOut, Recount, GivesBack,
       Done, DiscardAll, Goto, Start
  <2> QED
    BY <2>1, Emptied DEF Current
<1>3. CASE Load(p)
  <2>1. CASE stored = NoTree
    <3>1. UNCHANGED <<tree, par>> /\ at'[p] = "query"
      BY <1>0, <1>3, <2>1 DEF Load, Goto, Start
    <3> QED
      BY <1>0, <3>1 DEF Current
  <2>2. CASE stored # NoTree
    <3>1. /\ tree'[p] = stored /\ par'[p] = fathers /\ at'[p] = "add"
          /\ stored' = stored
      BY <1>0, <1>3, <2>2 DEF Load, Goto, Start, store
    <3>2. InTree = stored
      BY <2>2, StoredInTree
    <3> QED
      BY <1>0, <3>1, <3>2 DEF Current
  <2> QED
    BY <2>1, <2>2
<1>4. CASE Add(p)
  <2>1. /\ tree'[p] = tree[p] \cup Fresh(p) /\ stored' = stored
        /\ par'[p] = WithParents(par[p], tree[p], Fresh(p))
        /\ at[p] = "add" /\ at'[p] \in {"delete", "parents"}
    BY <1>0, <1>4 DEF Add, Goto
  <2>2. Fresh(p) \subseteq Comments
    BY DEF Fresh, Range, TypeOK
  <2>3. DOMAIN WithParents(par[p], tree[p], Fresh(p)) = DOMAIN par[p] \cup Fresh(p)
    BY <1>0, <2>2, WithParentsTyped
  <2>4. tree[p] = stored /\ tree[p] \subseteq DOMAIN par[p]
    BY <1>0, <2>1 DEF Current
  <2>5. InTree' = InTree /\ InTree = tree[p]
    BY <1>0, <2>1, <2>4, StoredInTree DEF InTree
  <2> QED
    BY <2>1, <2>3, <2>4, <2>5 DEF Current
<1>5. CASE WriteParents(p)
  <2>1. /\ UNCHANGED <<tree, par, stored>> /\ fathers' = par[p]
        /\ at[p] = "parents" /\ at'[p] = "tree"
    BY <1>0, <1>5 DEF WriteParents, Goto, work, object
  <2>2. InTree' = InTree
    BY <2>1 DEF InTree
  <2> QED
    BY <1>0, <2>1, <2>2 DEF Current
<1>6. CASE WriteTree(p)
  <2>1. /\ UNCHANGED <<tree, par>> /\ stored' = tree[p]
        /\ at'[p] \in {"delete", "recount"}
    BY <1>0, <1>6 DEF WriteTree, Goto, work, object
  <2> QED
    BY <1>0, <2>1 DEF Current
<1>7. CASE Query(p)
  <2>1. /\ tree'[p] = Written /\ par'[p] = [c \in Written |-> Parent[c]]
        /\ stored' = stored /\ at'[p] = "parents"
    BY <1>0, <1>7 DEF Query, Goto, store
  <2>2. InTree' = InTree /\ InTree \subseteq Written
    BY <2>1 DEF InTree, AllWritten
  <2>3. DOMAIN par'[p] = Written
    BY <2>1
  <2> QED
    BY <2>1, <2>2, <2>3 DEF Current
<1>8. CASE Recount(p) /\ mode[p] = "nested"
  <2>1. /\ UNCHANGED <<tree, par, stored>> /\ at[p] = "recount" /\ at'[p] = "add"
    BY <1>0, <1>8 DEF Recount, Goto, Start, store
  <2> QED
    BY <1>0, <1>8, <2>1 DEF Current
<1>9. ~(Remove(p) \/ Insert(p))
  BY <1>0 DEF Remove, Insert, Modes
<1> QED
  BY <1>1, <1>2, <1>3, <1>4, <1>5, <1>6, <1>7, <1>8, <1>9 DEF Work

\* Who is inside keeps the others from changing the two values.
LEMMA OthersKeep ==
    ASSUME TypeOK, Fits, NEW p \in Procs, Locked,
           Work(p) \/ View(p) \/ Crash(p) \/ TimesOut(p)
    PROVE  /\ stored' = stored \/ (WriteTree(p) /\ at[p] = "tree" /\ stored' = tree[p])
           /\ fathers' = fathers \/ (WriteParents(p) /\ at[p] = "parents" /\ fathers' = par[p])
           /\ lost' = lost
<1>1. Modes(p)
  BY DEF Fits
<1>2. stored' = stored \/ (WriteTree(p) /\ at[p] = "tree" /\ stored' = tree[p])
  <2>1. stored' = stored \/ WriteTree(p)
    BY <1>1, StoreStep
  <2> QED
    BY <2>1 DEF WriteTree
<1>3. lost' = lost
  <2>1. ~(Remove(p) \/ Insert(p)) /\ at[p] # "insert"
    BY <1>1 DEF Remove, Insert, Modes
  <2> QED
    BY <1>1, <2>1, StoreStep
<1>4. fathers' = fathers \/ WriteParents(p)
  BY DEF Work, Get, Enter, Contended, Load, AddFails, Add, WriteTree, CountDeletion, Leave,
     Ack, Again, Query, Remove, Insert, Recount, View, Crash, TimesOut, store
<1> QED
  BY <1>2, <1>3, <1>4 DEF WriteParents

LEMMA TreeInvOfStep ==
    ASSUME TypeOK, Fits, AllWritten, TreeInv, ~overrun, NEW p \in Procs, OneHolder',
           Work(p) \/ View(p) \/ Crash(p) \/ TimesOut(p)
    PROVE  TreeInv'
<1>T. /\ \A q \in Procs : Modes(q) /\ Ready(q)
      /\ KeptClosed /\ BatchKept /\ OneHolder
      /\ tree[p] \in SUBSET Comments
  BY DEF TreeInv, Fits, Ready, TypeOK
<1>P. version' = version /\ phase' = phase
  BY <1>T, StepTyped DEF StepParts
<1>A. \A q \in Procs \ {p} :
          /\ at'[q] = at[q] /\ batch'[q] = batch[q] /\ dead'[q] = dead[q]
          /\ tree'[q] = tree[q] /\ par'[q] = par[q] /\ mode'[q] = mode[q]
  BY Alone
<1>1. Kept \subseteq Kept' /\ KeptClosed'
  BY <1>T, KeptGrows
<1>2. BatchKept'
  <2>1. ASSUME NEW q \in Procs,
               at'[q] \in {"delete", "ack"} \/ (at'[q] = "recount" /\ mode'[q] = "rebuild"),
               NEW c \in Range(batch'[q]), phase'[c] = "posted"
        PROVE  c \in Kept'
    <3>1. CASE q = p
      BY <1>T, <1>1, <2>1, <3>1, BatchOfOne
    <3>2. CASE q # p
      <4>1. c \in Kept
        BY <1>T, <1>P, <1>A, <2>1, <3>2 DEF BatchKept
      <4> QED
        BY <1>1, <4>1
    <3> QED
      BY <3>1, <3>2
  <2> QED
    BY <2>1 DEF BatchKept
<1>3. ASSUME NEW q \in Procs, at'[q] \in {"parents", "tree", "remove", "insert"}
      PROVE  Storing(q)'
  <2>1. CASE q = p
    BY <1>T, <1>3, <2>1, StoringOne
  <2>2. CASE q # p
    <3>1. Storing(q) /\ Fresh(q)' = Fresh(q) /\ tree'[q] = tree[q]
      BY <1>T, <1>A, <1>3, <2>2 DEF Ready, Fresh
    <3> QED
      BY <3>1 DEF Storing
  <2> QED
    BY <2>1, <2>2
<1>4. ASSUME NEW q \in Procs, at'[q] = "add" PROVE Adding(q)'
  <2>1. CASE q = p
    BY <1>T, <1>1, <1>4, <2>1, AddingOne
  <2>2. CASE q # p
    <3>1. Adding(q) /\ tree'[q] = tree[q]
      BY <1>T, <1>A, <1>4, <2>2 DEF Ready
    <3> QED
      BY <1>1, <3>1 DEF Adding
  <2> QED
    BY <2>1, <2>2
<1>5. ASSUME Locked, NEW q \in Procs PROVE Current(q)'
  <2>1. CASE q = p
    BY <1>T, <1>5, <2>1, CurrentOne
  <2>2. CASE q # p
    <3>1. /\ Current(q) /\ tree'[q] = tree[q] /\ par'[q] = par[q] /\ at'[q] = at[q]
          /\ mode'[q] = mode[q]
      BY <1>T, <1>A, <1>5, <2>2 DEF Ready
    <3>2. CASE at[q] \in Inside
      <4>1. at[p] \notin {"tree", "parents"}
        BY <1>T, <1>5, <2>2, <3>2, OnlyOneInside DEF Inside
      <4>2. stored' = stored /\ fathers' = fathers
        BY <1>5, <4>1, OthersKeep
      <4>3. InTree' = InTree
        BY <4>2 DEF InTree
      <4> QED
        BY <3>1, <4>2, <4>3 DEF Current
    <3>3. CASE at[q] \notin Inside
      BY <3>1, <3>3 DEF Current, Inside
    <3> QED
      BY <3>2, <3>3
  <2> QED
    BY <2>1, <2>2
<1>6. ASSUME Locked PROVE lost' = {} /\ InTree' \subseteq DOMAIN fathers'
  <2>1. lost = {} /\ InTree \subseteq DOMAIN fathers /\ Current(p)
    BY <1>T, <1>6 DEF Ready
  <2>2. lost' = {}
    BY <1>6, <2>1, OthersKeep
  <2>3. CASE stored' = stored /\ fathers' = fathers
    BY <2>1, <2>2, <2>3 DEF InTree
  <2>4. CASE WriteTree(p) /\ at[p] = "tree" /\ stored' = tree[p]
    <3>1. fathers' = fathers /\ tree[p] \subseteq DOMAIN fathers
      BY <2>1, <2>4 DEF WriteTree, Current
    <3>2. InTree' = tree[p]
      BY <1>T, <2>4, Empties DEF InTree
    <3> QED
      BY <2>2, <3>1, <3>2
  <2>5. CASE WriteParents(p) /\ at[p] = "parents" /\ fathers' = par[p]
    <3>1. /\ stored' = stored /\ InTree \subseteq tree[p] /\ tree[p] \subseteq DOMAIN par[p]
      BY <2>1, <2>5 DEF WriteParents, Current
    <3>2. InTree' = InTree
      BY <3>1 DEF InTree
    <3> QED
      BY <2>2, <2>5, <3>1, <3>2
  <2> QED
    BY <1>6, <2>3, <2>4, <2>5, OthersKeep
<1>7. TreeIsComplete'
  <2> SUFFICES ASSUME NEW c \in Comments, phase'[c] = "posted", c \notin Pending' PROVE c \in Kept'
    BY DEF TreeIsComplete, Kept
  <2>1. CASE c \notin Pending
    <3>1. c \in Kept
      BY <1>P, <2>1 DEF TreeInv, TreeIsComplete, Kept
    <3> QED
      BY <1>1, <3>1
  <2>2. CASE c \in Pending
    <3>1. c \notin Range(queue') /\ \A q \in Procs : c \notin Range(batch'[q])
      BY DEF Pending
    <3>2. c \in Range(queue) \cup Range(batch[p])
      BY <1>A, <2>2, <3>1 DEF Pending
    <3>3. Ack(p)
      BY <1>T, <3>1, <3>2, Messages
    <3>4. at[p] = "ack" /\ c \in Range(batch[p])
      BY <3>1, <3>2, <3>3 DEF Ack
    <3>5. c \in Kept
      BY <1>T, <1>P, <3>4 DEF BatchKept
    <3> QED
      BY <1>1, <3>5
  <2> QED
    BY <2>1, <2>2
<1> QED
  BY <1>1, <1>2, <1>3, <1>4, <1>5, <1>6, <1>7, <1>P DEF TreeInv, Locked

LEMMA TreeInvPreserved ==
    ASSUME TypeOK, Fits, AllWritten, ~overrun => TreeInv, [Next]_vars
    PROVE  ~overrun' => TreeInv'
<1> SUFFICES ASSUME ~overrun' PROVE TreeInv'
  OBVIOUS
<1>1. OneHolder' /\ ~overrun /\ TreeInv
  <2>1. ~overrun => OneHolder
    BY DEF TreeInv
  <2> QED
    BY <2>1, OneHolderPreserved
<1>2. ASSUME NEW c \in Comments, Request(c) PROVE TreeInv'
  <2>1. /\ UNCHANGED <<version, stored, fathers, at, lost>>
        /\ UNCHANGED <<batch, dead, tree, par, mode>>
    BY <1>2, RequestEffect
  <2>2. Kept' = Kept /\ InTree' = InTree /\ KeptClosed'
    BY <1>1, <2>1 DEF TreeInv, Kept, InTree, Replacing, KeptClosed
  <2>3. BatchKept'
    <3> SUFFICES ASSUME NEW p \in Procs,
                        at[p] \in {"delete", "ack"} \/ (at[p] = "recount" /\ mode[p] = "rebuild"),
                        NEW c1 \in Range(batch[p]), phase'[c1] = "posted"
                 PROVE  c1 \in Kept
      BY <2>1, <2>2 DEF BatchKept
    <3>1. c1 \in Sent /\ c1 \in Comments
      BY DEF AllWritten, Sent, Deleted
    <3>2. phase[c1] = "posted"
      BY <1>2, <3>1, RequestEffect
    <3> QED
      BY <1>1, <3>2 DEF TreeInv, BatchKept
  <2>4. ASSUME NEW p \in Procs
        PROVE  /\ at'[p] \in {"parents", "tree", "remove", "insert"} => Storing(p)'
               /\ at'[p] = "add" => Adding(p)'
               /\ Locked' => Current(p)'
    <3>1. Storing(p)' = Storing(p)
      BY <2>1 DEF Storing, Fresh
    <3>2. Adding(p)' = Adding(p)
      BY <2>1, <2>2 DEF Adding
    <3>3. Current(p)' = Current(p)
      BY <2>1, <2>2 DEF Current
    <3> QED
      BY <1>1, <2>1, <3>1, <3>2, <3>3 DEF TreeInv, Locked
  <2>5. Locked' => lost' = {} /\ InTree' \subseteq DOMAIN fathers'
    BY <1>1, <2>1, <2>2 DEF TreeInv, Locked
  <2>6. TreeIsComplete'
    <3> SUFFICES ASSUME NEW d \in Comments, phase'[d] = "posted", d \notin Pending'
                 PROVE  d \in Kept'
      BY DEF TreeIsComplete, Kept
    <3>1. d \notin Range(queue') /\ d \notin Pending
      BY <1>2, <2>1, RequestEffect DEF Pending
    <3>2. phase[d] = "posted"
      BY <1>2, <3>1, RequestEffect
    <3> QED
      BY <1>1, <2>2, <3>1, <3>2 DEF TreeInv, TreeIsComplete, Kept
  <2> QED
    BY <1>1, <2>2, <2>3, <2>4, <2>5, <2>6 DEF TreeInv
<1>3. ASSUME NEW p \in Procs, Work(p) \/ View(p) \/ Crash(p) \/ TimesOut(p) PROVE TreeInv'
  BY <1>1, <1>3, TreeInvOfStep
<1>4. CASE UNCHANGED <<site, num, queue, store, at, work, lost, uncounted>>
  <2>1. UNCHANGED <<version, phase, queue, stored, fathers, at, lost, batch, dead, tree, par, mode>>
    BY <1>4 DEF site, store, work, job, object
  <2>2. Kept' = Kept /\ InTree' = InTree /\ KeptClosed' /\ BatchKept'
    BY <1>1, <2>1 DEF TreeInv, Kept, InTree, Replacing, KeptClosed, BatchKept
  <2>3. ASSUME NEW p \in Procs
        PROVE  /\ at'[p] \in {"parents", "tree", "remove", "insert"} => Storing(p)'
               /\ at'[p] = "add" => Adding(p)'
               /\ Locked' => Current(p)'
    <3>1. Storing(p)' = Storing(p)
      BY <2>1 DEF Storing, Fresh
    <3>2. Adding(p)' = Adding(p)
      BY <2>1, <2>2 DEF Adding
    <3>3. Current(p)' = Current(p)
      BY <2>1, <2>2 DEF Current
    <3> QED
      BY <1>1, <2>1, <3>1, <3>2, <3>3 DEF TreeInv, Locked
  <2>4. TreeIsComplete'
    BY <1>1, <2>1 DEF TreeInv, TreeIsComplete, Pending, InTree, Replacing
  <2>5. Locked' => lost' = {} /\ InTree' \subseteq DOMAIN fathers'
    BY <1>1, <2>1, <2>2 DEF TreeInv, Locked
  <2> QED
    BY <1>1, <2>2, <2>3, <2>4, <2>5 DEF TreeInv
<1> QED
  BY <1>2, <1>3, <1>4 DEF Next, Lapse, vars, history

LEMMA TreeInvInit == Init => AllWritten /\ TreeInv
<1> SUFFICES ASSUME Init PROVE AllWritten /\ TreeInv
  OBVIOUS
<1>1. /\ InTree = {} /\ lost = {} /\ Replacing = {} /\ queue = <<>>
      /\ \A p \in Procs : batch[p] = <<>> /\ tree[p] = {} /\ at[p] = "idle"
      /\ \A c \in Comments : phase[c] = "new"
  BY DEF Init, InTree, Replacing
<1>2. AllWritten
  BY <1>1, Empties DEF AllWritten
<1>3. OneHolder
  BY <1>1 DEF Init, OneHolder, Inside, Lock!LockInit
<1>4. KeptClosed /\ BatchKept /\ TreeIsComplete
  BY <1>1 DEF KeptClosed, BatchKept, TreeIsComplete
<1>5. \A p \in Procs : Current(p)
  BY <1>1 DEF Current
<1> QED
  BY <1>1, <1>2, <1>3, <1>4, <1>5 DEF TreeInv

LEMMA Trees == Spec => [](TypeOK /\ Fits /\ AllWritten /\ (~overrun => TreeInv))
<1>1. TypeOK /\ Fits /\ AllWritten /\ (~overrun => TreeInv) /\ [Next]_vars
          => AllWritten' /\ (~overrun' => TreeInv')
  BY TreeInvPreserved, WrittenPreserved
<1> QED
  BY <1>1, TreeInvInit, Typing, PTL DEF Spec

\* Once a posted comment's messages are acknowledged it is in the stored tree, or
\* on its way out of it with a rebuild: a batch is acknowledged only when what it
\* adds is there, and what is there is only ever removed by a rebuild of version 3,
\* which keeps account of it (queries.py:1485-1504, comment_tree.py:51-84,
\* models/comment_tree.py:173-195 and 431-438).
THEOREM TreesComplete == Spec => []TreeIsComplete
<1>1. (~overrun => TreeInv) => TreeIsComplete
  BY DEF TreeInv, TreeIsComplete
<1> QED
  BY <1>1, Trees, PTL

\* A page can be built from what is stored: with every comment its parent, unless a
\* rebuild has lost that, and with version 1 an entry for each in the parents value,
\* because that is written first and both under the lock
\* (models/comment_tree.py:61-95 and 403-438).
THEOREM TreesReadable == Spec => []TreeIsReadable
<1>1. (~overrun => TreeInv) => TreeIsReadable
  <2> SUFFICES ASSUME ~overrun, TreeInv PROVE TreeIsReadable
    BY DEF TreeIsReadable
  <2>1. ASSUME Replacing = {}, NEW c \in InTree
        PROVE  Parent[c] \in {Top} \cup InTree \cup lost
    BY <2>1 DEF TreeInv, KeptClosed, Kept
  <2>2. Locked => InTree \subseteq DOMAIN fathers
    BY DEF TreeInv
  <2> QED
    BY <2>1, <2>2 DEF TreeIsReadable
<1> QED
  BY <1>1, Trees, PTL

-----------------------------------------------------------------------------
(* The numbers in the count.                                                *)

LEMMA SameNumber ==
    ASSUME NEW S, IsFiniteSet(S), NEW T, NEW f \in [S -> T],
           \A x, y \in S : f[x] = f[y] => x = y,
           \A t \in T : \E x \in S : f[x] = t
    PROVE  IsFiniteSet(T) /\ Cardinality(T) = Cardinality(S)
<1>1. f \in Bijection(S, T)
  BY DEF Bijection, Injection, Surjection, IsInjective
<1>2. ExistsBijection(S, T)
  BY <1>1 DEF ExistsBijection
<1> QED
  BY <1>2, FS_Bijection

LEMMA Apart ==
    ASSUME NEW S, IsFiniteSet(S), NEW T, IsFiniteSet(T), S \cap T = {}
    PROVE  /\ IsFiniteSet(S \cup T)
           /\ Cardinality(S \cup T) = Cardinality(S) + Cardinality(T)
           /\ Cardinality(S) \in Nat /\ Cardinality(T) \in Nat
<1>1. Cardinality(S \cap T) = 0
  BY FS_EmptySet
<1>2. Cardinality(S) \in Nat /\ Cardinality(T) \in Nat
  BY FS_CardinalityType
<1>3. /\ IsFiniteSet(S \cup T)
      /\ Cardinality(S \cup T) = Cardinality(S) + Cardinality(T) - Cardinality(S \cap T)
  BY FS_Union
<1> QED
  BY <1>1, <1>2, <1>3

\* The messages about deletions of two sequences are those of the first and, at
\* later places, those of the second.
LEMMA DeletionsAdd ==
    ASSUME NEW s \in Seq(Comments), NEW t \in Seq(Comments)
    PROVE  /\ Cardinality(Deletions(s \o t)) = Cardinality(Deletions(s)) + Cardinality(Deletions(t))
           /\ Cardinality(Deletions(s)) \in Nat /\ Cardinality(Deletions(t)) \in Nat
<1> DEFINE D == Deletions(s)
           E == Deletions(t)
           Shifted == {i \in (Len(s) + 1)..(Len(s) + Len(t)) : (s \o t)[i] \in Deleted}
           f == [i \in E |-> i + Len(s)]
<1>1. /\ Len(s) \in Nat /\ Len(t) \in Nat /\ s \o t \in Seq(Comments)
      /\ Len(s \o t) = Len(s) + Len(t)
      /\ \A i \in 1..Len(s) : (s \o t)[i] = s[i]
      /\ \A i \in 1..Len(t) : (s \o t)[i + Len(s)] = t[i]
  OBVIOUS
<1>2. IsFiniteSet(D) /\ IsFiniteSet(E)
  BY DeletionsFinite
<1>3. D = {i \in 1..Len(s) : s[i] \in Deleted} /\ E = {i \in 1..Len(t) : t[i] \in Deleted}
  BY DEF Deletions
<1>4. Deletions(s \o t) = D \cup Shifted
  <2>1. Deletions(s \o t) = {i \in 1..(Len(s) + Len(t)) : (s \o t)[i] \in Deleted}
    BY <1>1 DEF Deletions
  <2> HIDE DEF D
  <2>2. \A i : i \in 1..(Len(s) + Len(t)) <=>
               i \in 1..Len(s) \/ i \in (Len(s) + 1)..(Len(s) + Len(t))
    BY <1>1
  <2> QED
    BY <1>1, <1>3, <2>1, <2>2
<1>5. D \cap Shifted = {}
  <2>1. \A i \in 1..Len(s) : i \notin (Len(s) + 1)..(Len(s) + Len(t))
    BY <1>1
  <2> HIDE DEF D
  <2> QED
    BY <1>3, <2>1
<1>6. IsFiniteSet(Shifted) /\ Cardinality(Shifted) = Cardinality(E)
  <2> HIDE DEF E
  <2>1. f \in [E -> Shifted]
    <3> SUFFICES ASSUME NEW i \in E PROVE i + Len(s) \in Shifted
      OBVIOUS
    <3>1. i \in 1..Len(t) /\ t[i] \in Deleted
      BY <1>3
    <3>2. i + Len(s) \in (Len(s) + 1)..(Len(s) + Len(t))
      BY <1>1, <3>1
    <3>3. (s \o t)[i + Len(s)] = t[i]
      BY <1>1, <3>1
    <3> QED
      BY <3>1, <3>2, <3>3
  <2>2. \A i, j \in E : f[i] = f[j] => i = j
    BY <1>1, <1>3
  <2>3. ASSUME NEW k \in Shifted PROVE \E i \in E : f[i] = k
    <3>1. k \in (Len(s) + 1)..(Len(s) + Len(t)) /\ (s \o t)[k] \in Deleted
      OBVIOUS
    <3>2. k - Len(s) \in 1..Len(t) /\ (k - Len(s)) + Len(s) = k
      BY <1>1, <3>1
    <3>3. t[k - Len(s)] \in Deleted
      BY <1>1, <3>1, <3>2
    <3>4. k - Len(s) \in E
      BY <1>3, <3>2, <3>3
    <3> QED
      BY <3>2, <3>4
  <2> HIDE DEF Shifted, f
  <2> QED
    BY <1>2, <2>1, <2>2, <2>3, SameNumber
<1> HIDE DEF D, E, Shifted
<1>7. /\ Cardinality(D \cup Shifted) = Cardinality(D) + Cardinality(Shifted)
      /\ Cardinality(D) \in Nat /\ Cardinality(Shifted) \in Nat
  BY <1>2, <1>5, <1>6, Apart
<1>8. Cardinality(Deletions(s \o t)) = Cardinality(D) + Cardinality(E) /\ Cardinality(E) \in Nat
  BY <1>4, <1>6, <1>7
<1> QED
  BY <1>7, <1>8 DEF D, E

\* Handlers owe what the others owe and what one of them does.
LEMMA OwedParts ==
    ASSUME NEW f \in [Procs -> 0..BatchSize], NEW p \in Procs
    PROVE  /\ Cardinality(OwedBy(Procs, f)) = Cardinality(OwedBy(Procs \ {p}, f)) + f[p]
           /\ Cardinality(OwedBy(Procs \ {p}, f)) \in Nat
<1> DEFINE Rest == OwedBy(Procs \ {p}, f)
           Mine == {d \in {p} \X (1..BatchSize) : d[2] <= f[p]}
           g == [i \in 1..f[p] |-> <<p, i>>]
<1>1. IsFiniteSet(Rest)
  <2>1. IsFiniteSet(Procs \ {p})
    BY FS_Difference
  <2>2. IsFiniteSet(1..BatchSize)
    BY FS_Interval
  <2>3. IsFiniteSet((Procs \ {p}) \X (1..BatchSize))
    BY <2>1, <2>2, FS_Product
  <2>4. Rest \in SUBSET ((Procs \ {p}) \X (1..BatchSize))
    BY DEF OwedBy
  <2> QED
    BY <2>3, <2>4, FS_Subset
<1>2. f[p] \in Nat /\ f[p] <= BatchSize /\ BatchSize \in Nat
  OBVIOUS
<1>3. IsFiniteSet(1..f[p]) /\ Cardinality(1..f[p]) = f[p]
  BY <1>2, UpTo
<1>4. IsFiniteSet(Mine) /\ Cardinality(Mine) = f[p]
  <2>1. g \in [1..f[p] -> Mine]
    BY <1>2
  <2>2. \A i, j \in 1..f[p] : g[i] = g[j] => i = j
    OBVIOUS
  <2>3. \A d \in Mine : \E i \in 1..f[p] : g[i] = d
    <3> SUFFICES ASSUME NEW d \in Mine PROVE \E i \in 1..f[p] : g[i] = d
      OBVIOUS
    <3>1. d = <<p, d[2]>> /\ d[2] \in 1..BatchSize /\ d[2] <= f[p]
      OBVIOUS
    <3>2. d[2] \in 1..f[p]
      BY <1>2, <3>1
    <3> QED
      BY <3>1, <3>2
  <2> HIDE DEF Mine, g
  <2>4. IsFiniteSet(Mine) /\ Cardinality(Mine) = Cardinality(1..f[p])
    BY <1>3, <2>1, <2>2, <2>3, SameNumber
  <2> QED
    BY <1>3, <2>4
<1>5. OwedBy(Procs, f) = Rest \cup Mine /\ Rest \cap Mine = {}
  BY DEF OwedBy
<1> HIDE DEF Mine
<1>6. Cardinality(Rest \cup Mine) = Cardinality(Rest) + Cardinality(Mine) /\ Cardinality(Rest) \in Nat
  BY <1>1, <1>4, <1>5, Apart
<1> QED
  BY <1>4, <1>5, <1>6

\* They owe what they did, but for what one of them has taken or settled.
LEMMA OwedChange ==
    ASSUME NEW f \in [Procs -> 0..BatchSize], NEW g \in [Procs -> 0..BatchSize],
           NEW p \in Procs, \A q \in Procs \ {p} : g[q] = f[q]
    PROVE  /\ Cardinality(OwedBy(Procs, g)) = Cardinality(OwedBy(Procs, f)) - f[p] + g[p]
           /\ Cardinality(OwedBy(Procs, f)) \in Nat
<1>1. OwedBy(Procs \ {p}, g) = OwedBy(Procs \ {p}, f)
  BY DEF OwedBy
<1>2. f[p] \in Nat /\ g[p] \in Nat
  OBVIOUS
<1>3. /\ Cardinality(OwedBy(Procs, f)) = Cardinality(OwedBy(Procs \ {p}, f)) + f[p]
      /\ Cardinality(OwedBy(Procs \ {p}, f)) \in Nat
  BY OwedParts
<1>4. Cardinality(OwedBy(Procs, g)) = Cardinality(OwedBy(Procs \ {p}, f)) + g[p]
  BY <1>1, OwedParts
<1> QED
  BY <1>2, <1>3, <1>4

LEMMA Sizes ==
    ASSUME NEW S \in SUBSET Comments
    PROVE  IsFiniteSet(S) /\ Cardinality(S) \in Nat
<1>1. IsFiniteSet(Comments)
  BY FS_Interval DEF Comments
<1> QED
  BY <1>1, FS_Subset, FS_CardinalityType

LEMMA Numbers ==
    ASSUME TypeOK
    PROVE  /\ IsFiniteSet(Live) /\ Cardinality(Live) \in Nat
           /\ IsFiniteSet(Deleting) /\ Cardinality(Deleting) \in Nat
           /\ Cardinality(Deletions(queue)) \in Nat
           /\ Cardinality(Owing) \in Nat
<1>1. Live \in SUBSET Comments /\ Deleting \in SUBSET Comments
  BY DEF Live, Deleting
<1>2. /\ IsFiniteSet(Live) /\ Cardinality(Live) \in Nat
      /\ IsFiniteSet(Deleting) /\ Cardinality(Deleting) \in Nat
  BY <1>1, Sizes
<1>3. Cardinality(Deletions(queue)) \in Nat
  BY DeletionsAdd DEF TypeOK
<1>4. Cardinality(Owing) \in Nat
  <2>1. IsFiniteSet(Procs \X (1..BatchSize))
    <3>1. IsFiniteSet(1..BatchSize)
      BY FS_Interval
    <3> QED
      BY <3>1, FS_Product
  <2>2. Owing \in SUBSET (Procs \X (1..BatchSize))
    BY DEF Owing, OwedBy
  <2> QED
    BY <2>1, <2>2, FS_Subset, FS_CardinalityType
<1> QED
  BY <1>2, <1>3, <1>4

\* A message put on the queue is one about a deletion, or not.
LEMMA OneMore ==
    ASSUME TypeOK, NEW c \in Comments
    PROVE  Cardinality(Deletions(Append(queue, c)))
               = Cardinality(Deletions(queue)) + (IF c \in Deleted THEN 1 ELSE 0)
<1>1. queue \in Seq(Comments) /\ <<c>> \in Seq(Comments)
  BY DEF TypeOK
<1>2. Append(queue, c) = queue \o <<c>>
  BY <1>1, AppendIsConcat
<1>3. Cardinality(Deletions(<<c>>)) = IF c \in Deleted THEN 1 ELSE 0
  <2>1. CASE c \in Deleted
    <3>1. Deletions(<<c>>) = {1}
      BY <2>1 DEF Deletions
    <3> QED
      BY <2>1, <3>1, FS_Singleton
  <2>2. CASE c \notin Deleted
    <3>1. Deletions(<<c>>) = {}
      BY <2>2 DEF Deletions
    <3> QED
      BY <2>2, <3>1, FS_EmptySet
  <2> QED
    BY <2>1, <2>2
<1> QED
  BY <1>1, <1>2, <1>3, DeletionsAdd

\* A request changes num_comments and what it has to be by the same.
LEMMA CountOfRequest ==
    ASSUME TypeOK, CountInv, NEW c \in Comments, Request(c), ~uncounted', NothingDropped'
    PROVE  Account'
<1>0. phase \in [Comments -> Phases] /\ queue \in Seq(Comments) /\ num \in Int
  BY DEF TypeOK
<1>1. Owing' = Owing /\ Deleted \subseteq Deleted'
  BY RequestEffect DEF Owing
<1>2. NothingDropped
  BY RequestEffect DEF NothingDropped
<1>3. ~uncounted
  BY DEF Request, Count, Write, Post, Delete, PostDeletion, RequestDies, history
<1>4. Account
  BY <1>2, <1>3 DEF CountInv
<1>5. CASE Count(c)
  <2>1. /\ Live' = Live \cup {c} /\ c \notin Live /\ Deleting' = Deleting
        /\ Deleted' = Deleted /\ queue' = queue /\ num' = num + 1
    BY <1>0, <1>5 DEF Count, Phase, Live, Deleting, Deleted
  <2>2. Deletions(queue)' = Deletions(queue)
    BY <2>1 DEF Deletions
  <2>3. Cardinality(Live \cup {c}) = Cardinality(Live) + 1
    BY <2>1, Numbers, FS_AddElement
  <2> QED
    BY <1>0, <1>1, <1>4, <2>1, <2>2, <2>3, Numbers DEF Account
<1>6. CASE Write(c) \/ (RequestDies(c) /\ phase[c] = "written")
  <2>1. /\ Live' = Live /\ Deleting' = Deleting
        /\ Deleted' = Deleted /\ queue' = queue /\ num' = num
    BY <1>0, <1>6 DEF Write, RequestDies, Phase, Live, Deleting, Deleted
  <2>2. Deletions(queue)' = Deletions(queue)
    BY <2>1 DEF Deletions
  <2> QED
    BY <1>1, <1>4, <2>1, <2>2 DEF Account
<1>7. CASE Post(c)
  <2>1. /\ Live' = Live /\ Deleting' = Deleting
        /\ Deleted' = Deleted /\ queue' = Append(queue, c) /\ num' = num /\ c \notin Deleted
    BY <1>0, <1>7 DEF Post, Phase, Live, Deleting, Deleted
  <2>2. Deletions(queue)' = Deletions(Append(queue, c))
    BY <2>1 DEF Deletions
  <2>3. Cardinality(Deletions(Append(queue, c))) = Cardinality(Deletions(queue))
    BY <2>1, OneMore, Numbers
  <2> QED
    BY <1>1, <1>4, <2>1, <2>2, <2>3 DEF Account
<1>8. CASE Delete(c)
  <2>1. /\ Live' = Live \ {c} /\ c \in Live /\ Deleting' = Deleting \cup {c} /\ c \notin Deleting
        /\ Deleted' = Deleted \cup {c} /\ queue' = queue /\ num' = num
    BY <1>0, <1>8 DEF Delete, Phase, Live, Deleting, Deleted
  <2>2. c \notin Range(queue)
    BY <1>8 DEF Delete
  <2>3. Deletions(queue)' = Deletions(queue)
    BY <2>1, <2>2 DEF Deletions, Range
  <2>4. Cardinality(Live \ {c}) = Cardinality(Live) - 1
    BY <2>1, Numbers, FS_RemoveElement
  <2>5. Cardinality(Deleting \cup {c}) = Cardinality(Deleting) + 1
    BY <2>1, Numbers, FS_AddElement
  <2> QED
    BY <1>0, <1>1, <1>4, <2>1, <2>3, <2>4, <2>5, Numbers DEF Account
<1>9. CASE PostDeletion(c)
  <2>1. /\ Live' = Live /\ Deleting' = Deleting \ {c} /\ c \in Deleting /\ c \in Deleted
        /\ Deleted' = Deleted /\ queue' = Append(queue, c) /\ num' = num
    BY <1>0, <1>9 DEF PostDeletion, Phase, Live, Deleting, Deleted
  <2>2. Deletions(queue)' = Deletions(Append(queue, c))
    BY <2>1 DEF Deletions
  <2>3. Cardinality(Deletions(Append(queue, c))) = Cardinality(Deletions(queue)) + 1
    BY <2>1, OneMore
  <2>4. Cardinality(Deleting \ {c}) = Cardinality(Deleting) - 1
    BY <2>1, Numbers, FS_RemoveElement
  <2> QED
    BY <1>0, <1>1, <1>4, <2>1, <2>2, <2>3, <2>4, Numbers DEF Account
<1>10. RequestDies(c) => phase[c] = "written"
  BY DEF RequestDies, Phase
<1> QED
  BY <1>5, <1>6, <1>7, <1>8, <1>9, <1>10 DEF Request

\* Whoever rebuilds goes on with its batch until it is done.
LEMMA StillRebuilds ==
    ASSUME TypeOK, Fits, NEW p \in Procs, mode[p] = "rebuild",
           Work(p) \/ View(p), ~Recount(p)
    PROVE  mode'[p] = "rebuild" /\ batch'[p] = batch[p]
<1>1. at[p] \notin {"idle", "enter", "load", "add", "delete", "ack"}
  BY DEF Fits, Modes
<1>2. ~(\/ Get(p) \/ Enter(p) \/ Contended(p) \/ Load(p) \/ AddFails(p) \/ Add(p)
        \/ CountDeletion(p) \/ Leave(p) \/ Ack(p) \/ View(p))
  BY <1>1 DEF Get, Enter, Contended, Load, AddFails, Add, CountDeletion, Leave, Ack, View
<1>3. CASE WriteParents(p) \/ WriteTree(p) \/ Again(p)
  BY <1>3 DEF WriteParents, WriteTree, Again, work, job, object
<1>4. CASE Query(p) \/ Remove(p) \/ Insert(p)
  BY <1>4 DEF Query, Remove, Insert, work, job, object
<1> QED
  BY <1>2, <1>3, <1>4 DEF Work

\* A rebuild that nothing disturbed settles the account.
LEMMA CountOfRecount ==
    ASSUME TypeOK, Fits, NEW p \in Procs, Recount(p), ~uncounted'
    PROVE  Account'
<1>0. /\ UNCHANGED <<version, phase, queue, batch>> /\ at[p] = "recount"
      /\ Leftover(p) /\ left' \in [Procs -> 0..BatchSize] /\ num \in Int
  BY StepTyped DEF Recount, site, Fits, StepParts, Work, TypeOK
<1>1. ~Disturbed(p) /\ (Counted(p) = seen[p] => num = Counted(p))
  BY DEF Recount
<1>2. num' = Cardinality(Live)
  <2>1. num' = Counted(p)
    BY <1>1 DEF Recount
  <2>2. tree[p] \ gone[p] = Live
    BY <1>1 DEF Disturbed
  <2> QED
    BY <2>1, <2>2 DEF Counted
<1>3. Deleting = {}
  BY <1>1 DEF Disturbed, Deleting, Deleted
<1>4. Deletions(queue) = {}
  <2>1. \A c \in Deleted : c \notin Range(queue)
    BY <1>1 DEF Disturbed
  <2> QED
    BY <2>1 DEF Deletions, Range
<1>5. ASSUME NEW q \in Procs PROVE left'[q] = 0
  <2>1. left'[q] \in Nat
    BY <1>0
  <2>2. CASE q # p
    <3>1. left'[q] = left[q] /\ Leftover(q)
      BY <2>2, Alone DEF Fits, Work
    <3>2. ASSUME left[q] > 0 PROVE FALSE
      <4>1. PICK c \in dead[q] : c \in Range(batch[q]) \cap Deleted
        BY <3>1, <3>2 DEF Leftover
      <4>2. at[q] # "ack"
        BY <3>1, <3>2 DEF Leftover
      <4> QED
        BY <1>1, <2>2, <4>1, <4>2 DEF Disturbed
    <3> QED
      BY <2>1, <3>1, <3>2
  <2>3. CASE q = p /\ mode[p] = "nested"
    <3>1. left' = left
      BY <2>3 DEF Recount
    <3>2. ASSUME left[p] > 0 PROVE FALSE
      <4>1. PICK c \in dead[p] : c \in Deleted
        BY <1>0, <3>2 DEF Leftover
      <4> QED
        BY <1>1, <2>3, <4>1 DEF Disturbed
    <3> QED
      BY <2>1, <2>3, <3>1, <3>2
  <2>4. CASE q = p /\ mode[p] # "nested"
    <3>1. Discard(p)
      BY <2>4 DEF Recount, DiscardAll
    <3> QED
      BY <2>4, <3>1, Emptied
  <2> QED
    BY <2>2, <2>3, <2>4
<1>6. Owing' = {}
  BY <1>5 DEF Owing, OwedBy
<1>7. Live' = Live /\ Deleting' = {} /\ Deletions(queue)' = {}
  BY <1>0, <1>3, <1>4 DEF Live, Deleting, Deletions, Deleted
<1>8. Cardinality({}) = 0 /\ Cardinality(Live) \in Nat
  BY FS_EmptySet, Numbers
<1> QED
  BY <1>2, <1>6, <1>7, <1>8 DEF Account

LEMMA CountOfStep ==
    ASSUME TypeOK, Fits, CountInv, NEW p \in Procs,
           Work(p) \/ View(p) \/ Crash(p) \/ TimesOut(p), ~Recount(p),
           ~uncounted', NothingDropped'
    PROVE  Account'
<1>T. /\ queue \in Seq(Comments) /\ num \in Int /\ left \in [Procs -> 0..BatchSize]
      /\ batch \in [Procs -> Seq(Comments)]
      /\ Modes(p) /\ Leftover(p)
      /\ left[p] \in Nat /\ left'[p] \in Nat /\ left' \in [Procs -> 0..BatchSize]
      /\ phase' = phase
  <2>1. /\ queue \in Seq(Comments) /\ num \in Int /\ left \in [Procs -> 0..BatchSize]
        /\ batch \in [Procs -> Seq(Comments)]
    BY DEF TypeOK
  <2>2. Modes(p) /\ Leftover(p)
    BY DEF Fits
  <2>3. left' \in [Procs -> 0..BatchSize] /\ phase' = phase
    BY <2>2, StepTyped DEF StepParts
  <2>4. left[p] \in Nat /\ left'[p] \in Nat
    BY <2>1, <2>3
  <2> QED
    BY <2>1, <2>2, <2>3, <2>4
<1>A. \A q \in Procs \ {p} : batch'[q] = batch[q] /\ left'[q] = left[q] /\ mode'[q] = mode[q]
  BY Alone
<1>1. Live' = Live /\ Deleting' = Deleting /\ Deleted' = Deleted
  BY <1>T DEF Live, Deleting, Deleted
<1>2. Cardinality(Owing') = Cardinality(Owing) - left[p] + left'[p]
  <2>1. Owing' = OwedBy(Procs, left') /\ Owing = OwedBy(Procs, left)
    BY DEF Owing, OwedBy
  <2>2. Cardinality(OwedBy(Procs, left')) = Cardinality(OwedBy(Procs, left)) - left[p] + left'[p]
    <3>1. left \in [Procs -> 0..BatchSize] /\ left' \in [Procs -> 0..BatchSize]
      BY <1>T
    <3>2. \A q \in Procs \ {p} : left'[q] = left[q]
      BY <1>A
    <3> HIDE DEF OwedBy
    <3> QED
      BY <3>1, <3>2, OwedChange
  <2> QED
    BY <2>1, <2>2
<1>3. Deletions(queue)' = Deletions(queue')
  BY <1>1 DEF Deletions
<1>4. ~uncounted /\ (Crash(p) \/ TimesOut(p) => Range(batch[p]) \cap Deleted = {})
  <2>1. CASE Crash(p) \/ TimesOut(p)
    <3>1. uncounted' = (uncounted \/ Range(batch[p]) \cap Deleted # {})
      BY <2>1 DEF Crash, TimesOut, GivesBack
    <3> QED
      BY <3>1, Zenon
  <2>2. CASE ~(Crash(p) \/ TimesOut(p))
    <3>1. uncounted' = uncounted
      BY <2>2 DEF Work, Get, Enter, Contended, Load, AddFails, Add, WriteParents, WriteTree,
         CountDeletion, Leave, Ack, Again, Query, Remove, Insert, View, history
    <3> QED
      BY <2>2, <3>1
  <2> QED
    BY <2>1, <2>2
<1>5. NothingDropped
  <2> SUFFICES ASSUME NEW q \in Procs, mode[q] = "rebuild"
               PROVE  Range(batch[q]) \cap Deleted = {}
    BY DEF NothingDropped
  <2>1. CASE q # p
    BY <1>A, <1>1, <2>1 DEF NothingDropped
  <2>2. CASE q = p /\ (Crash(p) \/ TimesOut(p))
    BY <1>4, <2>2
  <2>3. CASE q = p /\ ~(Crash(p) \/ TimesOut(p))
    <3>1. mode'[p] = "rebuild" /\ batch'[p] = batch[p]
      BY <2>3, StillRebuilds
    <3> QED
      BY <1>1, <2>3, <3>1 DEF NothingDropped
  <2> QED
    BY <2>1, <2>2, <2>3
<1> DEFINE Here == Cardinality(Live) + Cardinality(Deleting)
           Queued == Cardinality(Deletions(queue))
           Owed == Cardinality(Owing)
<1>6. num = Here + Queued + Owed
  BY <1>4, <1>5 DEF CountInv, Account
<1>N. /\ Here \in Nat /\ Queued \in Nat /\ Owed \in Nat
      /\ left[p] \in Nat /\ left'[p] \in Nat
  BY <1>T, Numbers
<1>S. SUFFICES num' = Here + Cardinality(Deletions(queue')) + (Owed - left[p] + left'[p])
  BY <1>1, <1>2, <1>3 DEF Account
<1> HIDE DEF Here, Queued, Owed
<1>7. CASE num' = num /\ queue' = queue /\ left'[p] = left[p]
  <2>1. Cardinality(Deletions(queue')) = Queued
    BY <1>7 DEF Queued
  <2> QED
    BY <1>6, <1>7, <1>N, <2>1
<1>8. CASE Get(p)
  <2>1. /\ queue = batch'[p] \o queue' /\ batch'[p] \in Seq(Comments) /\ queue' \in Seq(Comments)
        /\ at[p] = "idle"
    BY <1>8, GetTakes
  <2>2. left'[p] = Cardinality(Deletions(batch'[p])) /\ num' = num
    BY <1>8 DEF Get, TypeOK
  <2>3. left[p] = 0
    BY <1>T, <2>1 DEF Leftover
  <2>4. /\ Queued = left'[p] + Cardinality(Deletions(queue'))
        /\ Cardinality(Deletions(queue')) \in Nat
    BY <2>1, <2>2, DeletionsAdd DEF Queued
  <2> QED
    BY <1>6, <1>N, <2>2, <2>3, <2>4
<1>9. CASE CountDeletion(p)
  <2>1. left'[p] = left[p] - 1 /\ num' = num - 1 /\ queue' = queue
    BY <1>9, <1>T DEF CountDeletion
  <2>2. Cardinality(Deletions(queue')) = Queued
    BY <2>1 DEF Queued
  <2> QED
    BY <1>6, <1>N, <2>1, <2>2
<1>10. CASE Contended(p) \/ AddFails(p)
  <2>1. mode'[p] = "rebuild" /\ batch' = batch /\ num' = num /\ queue' = queue /\ Discard(p)
    BY <1>10 DEF Contended, AddFails, Start, TypeOK
  <2>2. Range(batch[p]) \cap Deleted = {}
    BY <1>1, <2>1 DEF NothingDropped
  <2>3. left[p] = 0
    BY <1>T, <2>2 DEF Leftover
  <2>4. left'[p] = 0
    BY <2>1, Emptied
  <2> QED
    BY <1>7, <2>1, <2>3, <2>4
<1>11. CASE Leave(p) \/ Ack(p)
  <2>1. num' = num /\ queue' = queue /\ Discard(p) /\ (at[p] = "ack" \/ left[p] = 0)
    BY <1>11 DEF Leave, Ack, Done, DiscardAll
  <2>2. left[p] = 0
    BY <1>T, <2>1 DEF Leftover
  <2>3. left'[p] = 0
    BY <2>1, Emptied
  <2> QED
    BY <1>7, <2>1, <2>2, <2>3
<1>12. CASE Crash(p) \/ TimesOut(p)
  <2>1. num' = num /\ queue' = batch[p] \o queue /\ Discard(p)
    BY <1>12 DEF Crash, TimesOut, GivesBack, Done, DiscardAll
  <2>2. left[p] = 0 /\ left'[p] = 0
    BY <1>4, <1>12, <1>T, <2>1, Emptied DEF Leftover
  <2>3. Deletions(batch[p]) = {}
    BY <1>4, <1>12 DEF Deletions, Range
  <2>4. Cardinality(Deletions(queue')) = Queued
    <3>1. Cardinality(Deletions(batch[p])) = 0
      BY <2>3, FS_EmptySet
    <3>2. Cardinality(Deletions(batch[p] \o queue))
              = Cardinality(Deletions(batch[p])) + Cardinality(Deletions(queue))
      BY <1>T, DeletionsAdd
    <3> QED
      BY <1>N, <2>1, <3>1, <3>2 DEF Queued
  <2> QED
    BY <1>6, <1>N, <2>1, <2>2, <2>4
<1>13. CASE Enter(p) \/ Load(p) \/ Add(p) \/ WriteParents(p) \/ WriteTree(p)
  BY <1>7, <1>13 DEF Enter, Load, Add, WriteParents, WriteTree, work, job
<1>14. CASE Again(p) \/ Query(p) \/ Remove(p) \/ Insert(p) \/ View(p)
  BY <1>7, <1>14 DEF Again, Query, Remove, Insert, View, work, job
<1> QED
  BY <1>8, <1>9, <1>10, <1>11, <1>12, <1>13, <1>14 DEF Work

LEMMA CountPreserved ==
    ASSUME TypeOK, Fits, CountInv, [Next]_vars
    PROVE  CountInv'
<1> SUFFICES ASSUME ~uncounted', NothingDropped' PROVE Account'
  BY DEF CountInv
<1>1. ASSUME NEW c \in Comments, Request(c) PROVE Account'
  BY <1>1, CountOfRequest
<1>2. ASSUME NEW p \in Procs, Work(p) \/ View(p) \/ Crash(p) \/ TimesOut(p) PROVE Account'
  BY <1>2, CountOfRecount, CountOfStep
<1>3. CASE UNCHANGED <<site, num, queue, store, at, work, lost, uncounted>>
  <2>1. UNCHANGED <<phase, num, queue, batch, left, mode, uncounted>>
    BY <1>3 DEF site, work, job, object
  <2>2. /\ Live' = Live /\ Deleting' = Deleting /\ Owing' = Owing
        /\ Deletions(queue)' = Deletions(queue)
    BY <2>1 DEF Live, Deleting, Owing, Deletions, Deleted
  <2>3. NothingDropped
    BY <2>1 DEF NothingDropped, Deleted
  <2>4. Account
    BY <2>1, <2>3 DEF CountInv
  <2> QED
    BY <2>1, <2>2, <2>4 DEF Account
<1> QED
  BY <1>1, <1>2, <1>3 DEF Next, Lapse, vars, history

LEMMA CountInit == Init => CountInv
<1> SUFFICES ASSUME Init PROVE Account
  BY DEF CountInv
<1>1. num = 0 /\ Live = {} /\ Deleting = {}
  BY DEF Init, Live, Deleting
<1>2. Deletions(queue) = {}
  BY DEF Init, Deletions
<1>3. Owing = {}
  BY DEF Init, Owing, OwedBy
<1>4. Cardinality({}) = 0
  BY FS_EmptySet
<1> QED
  BY <1>1, <1>2, <1>3, <1>4 DEF Account

\* When nothing is under way, num_comments is the number of comments that are not
\* deleted: a request counts its comment, a handler each deletion of its batch, and
\* a rebuild that nothing disturbed counts them all (models/link.py:805,
\* comment_tree.py:61-75, models/comment_tree.py:497-521).
THEOREM CountsRight == Spec => []CountIsRight
<1>1. TypeOK /\ Fits /\ CountInv => CountIsRight
  <2> SUFFICES ASSUME TypeOK, Fits, CountInv, queue = <<>>, ~uncounted,
                      \A p \in Procs : at[p] = "idle",
                      \A c \in Comments : phase[c] # "deleting"
               PROVE  num = Cardinality(Live)
    BY DEF CountIsRight
  <2>1. \A p \in Procs : mode[p] = "add" /\ left[p] = 0
    BY DEF Fits, Modes, Leftover, TypeOK
  <2>2. Account
    BY <2>1 DEF CountInv, NothingDropped
  <2>3. Deleting = {}
    BY DEF Deleting
  <2>4. Deletions(queue) = {}
    BY DEF Deletions
  <2>5. Owing = {}
    <3> SUFFICES ASSUME NEW d \in Procs \X (1..BatchSize), d[2] <= left[d[1]] PROVE FALSE
      BY DEF Owing, OwedBy
    <3>1. left[d[1]] = 0 /\ d[2] \in 1..BatchSize
      BY <2>1
    <3> QED
      BY <3>1
  <2>6. Cardinality({}) = 0 /\ Cardinality(Live) \in Nat
    BY FS_EmptySet, Numbers
  <2>7. num = Cardinality(Live) + Cardinality({}) + Cardinality({}) + Cardinality({})
    BY <2>2, <2>3, <2>4, <2>5 DEF Account
  <2> QED
    BY <2>6, <2>7
<1>2. TypeOK /\ Fits /\ CountInv /\ [Next]_vars => CountInv'
  BY CountPreserved
<1> QED
  BY <1>1, <1>2, CountInit, Typing, PTL DEF Spec

\* Handlers, rebuilds and page views take and release the lock of a link of version 1
\* as r2/lib/lock.py allows it, so that what is proved of the lock holds here
\* (comment_tree.py mutation_context, add_comments, link_comments_and_sort).
THEOREM TreeUsesLock == Spec => Lock!LockSpec
<1>1. Init => Lock!LockInit
  BY DEF Init
<1>2. [Next]_vars => [Lock!LockNext]_(Lock!lockVars)
  <2>1. ASSUME NEW p \in Procs, Work(p) \/ View(p) \/ Crash(p) \/ TimesOut(p)
        PROVE  Lock!LockNext \/ UNCHANGED lock
    <3>1. \/ Lock!Obtain(p, Link) \/ Lock!LetGo(p, Link)
          \/ Lock!Abandon(p) \/ UNCHANGED lock
      BY <2>1 DEF Work, Get, Enter, Contended, Load, AddFails, Add, WriteParents,
                  WriteTree, CountDeletion, Leave, Ack, Again, Query, Remove, Insert,
                  Recount, View, Crash, TimesOut
    <3> QED
      BY <3>1 DEF Lock!LockNext
  <2>2. Lapse => Lock!LockNext
    BY DEF Lapse, Lock!LockNext
  <2>3. (\E c \in Comments : Request(c)) \/ UNCHANGED vars => UNCHANGED lock
    BY DEF Request, Count, Write, Post, Delete, PostDeletion, RequestDies, vars
  <2> QED
    BY <2>1, <2>2, <2>3 DEF Next, lock, Lock!lockVars
<1> QED
  BY <1>1, <1>2, PTL DEF Spec, Lock!LockSpec
=============================================================================

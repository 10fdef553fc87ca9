---------------------------- MODULE CommentTree ----------------------------
(***************************************************************************)
(* The tree of the comments on one link: r2/lib/comment_tree.py and         *)
(* r2/models/comment_tree.py.  A comment is committed by the application    *)
(* server that got it and put on a queue; consumers (run_commentstree) add  *)
(* what they find there to the stored tree.  A deletion takes the same      *)
(* way, as the same message: what a message means is what its comment says  *)
(* when it is handled.  A consumer that meets a reply before its parent     *)
(* computes the tree and the link's num_comments from scratch, beside       *)
(* whatever the others are doing.                                           *)
(*                                                                         *)
(* Links of version 1 have their tree in one value, changed under a lock,   *)
(* and the parents in another.  Links of version 3 have a column for each   *)
(* comment and no lock.  A comment's place in the tree follows from         *)
(* parent_id, so that a stored tree is the set of its comments.             *)
(***************************************************************************)
EXTENDS Integers, Sequences, FiniteSets, Functions

CONSTANTS
    N,          \* comments have the ids 1..N
    Parent,     \* Parent[c]: what c replies to, or Top
    Consumers,  \* processes running run_commentstree
    Viewers,    \* application servers that show the link
    Versions,   \* comment_tree_version of the link: 1 or 3
    BatchSize,  \* the limit of handle_items
    MaxPosts,   \* bound: comments made, for each version
    MaxOpen,    \* bound: requests under way at a time
    MaxDeletes, \* bound: comments deleted
    MaxMishaps  \* bound: deaths, lapses and timeouts

Comments == 1..N
Top      == 0       \* parent_id of a top-level comment
NoTree   == {Top}   \* version 1, before anything was stored
Link     == "link"  \* the key of the lock comment_lock_<link>
Procs    == Consumers \cup Viewers

\* A reply is committed after its parent, so it has the greater id.
ASSUME TreeConstants ==
    /\ N \in Nat
    /\ Parent \in [Comments -> Comments \cup {Top}]
    /\ \A c \in Comments : Parent[c] < c
    /\ Versions \subseteq {1, 3}
    /\ BatchSize \in Nat \ {0}
    /\ MaxPosts \in [Versions -> Nat]
    /\ MaxOpen \in Nat
    /\ MaxDeletes \in Nat
    /\ MaxMishaps \in Nat
    /\ Consumers \cap Viewers = {}
    /\ IsFiniteSet(Procs)

VARIABLES
    version,    \* link.comment_tree_version
    phase,      \* phase[c]: how far the request that makes or deletes c is
    num,        \* link.num_comments
    queue,      \* the ids in commentstree_q, oldest first
    stored,     \* the comments in the stored tree, or NoTree
    fathers,    \* version 1: the value at comments_parents_<link>
    held, busy, overrun,    \* the lock
    at,         \* at[p]: where process p is
    batch,      \* batch[p]: the messages it handles
    dead,       \* dead[p]: their comments that were deleted when it fetched them
    seen,       \* seen[p]: num_comments in its link object
    tree, par,  \* the CommentTree object: its cids, and its parents
    gone,       \* gone[p]: what was deleted when it queried all comments
    mode,       \* mode[p]: it adds, rebuilds, or rebuilds in order to add
    left,       \* left[p]: deletions of the batch still to be counted
    lost,       \* history: columns a rebuild removed and did not write again
    uncounted,  \* history: num_comments may be wrong, see below
    mishaps

Lock == INSTANCE AdvisoryLock WITH Keys <- {Link}

site    == <<version, phase>>
lock    == <<held, busy, overrun>>
store   == <<stored, fathers>>
job     == <<batch, dead, seen, left>>
object  == <<tree, par, gone, mode>>
work    == <<job, object>>
history == <<lost, uncounted, mishaps>>
vars    == <<site, num, queue, store, lock, at, work, history>>

Locked   == version = 1
Live     == {c \in Comments : phase[c] \in {"counted", "written", "silent", "posted"}}
Deleted  == {c \in Comments : phase[c] \in {"deleting", "deleted"}}
Written  == {c \in Comments : phase[c] \in {"written", "silent", "posted"}} \cup Deleted
Deletions(s) == {i \in DOMAIN s : s[i] \in Deleted}  \* the messages in s
Pending  == Range(queue) \cup UNION {Range(batch[p]) : p \in Procs}

NoParents == [c \in {} |-> Top]
Fathers == UNION {[S -> Comments \cup {Top}] : S \in SUBSET Comments}

Init ==
    /\ version \in Versions
    /\ phase = [c \in Comments |-> "new"]
    /\ num = 0
    /\ queue = <<>>
    /\ stored = IF Locked THEN NoTree ELSE {}
    /\ fathers = NoParents
    /\ Lock!LockInit
    /\ at = [p \in Procs |-> "idle"]
    /\ batch = [p \in Procs |-> <<>>]
    /\ dead = [p \in Procs |-> {}]
    /\ seen = [p \in Procs |-> 0]
    /\ tree = [p \in Procs |-> {}]
    /\ par = [p \in Procs |-> NoParents]
    /\ gone = [p \in Procs |-> {}]
    /\ mode = [p \in Procs |-> "add"]
    /\ left = [p \in Procs |-> 0]
    /\ lost = {}
    /\ uncounted = FALSE
    /\ mishaps = 0

\* The CommentTree object, and what is left to do with it, end with the with
\* block; nothing but the batch is read after a handler's last one.
Discard(p) ==
    /\ dead' = [dead EXCEPT ![p] = {}]
    /\ left' = [left EXCEPT ![p] = 0]
    /\ tree' = [tree EXCEPT ![p] = {}]
    /\ par' = [par EXCEPT ![p] = NoParents]
    /\ gone' = [gone EXCEPT ![p] = {}]

DiscardAll(p) ==
    /\ Discard(p)
    /\ seen' = [seen EXCEPT ![p] = 0]
    /\ mode' = [mode EXCEPT ![p] = "add"]

Done(p) ==
    /\ DiscardAll(p)
    /\ at' = [at EXCEPT ![p] = "idle"]
    /\ batch' = [batch EXCEPT ![p] = <<>>]

Goto(p, where) == at' = [at EXCEPT ![p] = where]
Start(p, what, where) == mode' = [mode EXCEPT ![p] = what] /\ Goto(p, where)
Phase(c, from, to) == phase[c] = from /\ phase' = [phase EXCEPT ![c] = to]
Mishap == mishaps < MaxMishaps /\ mishaps' = mishaps + 1

-----------------------------------------------------------------------------
(***************************************************************************)
(* Requests.  Comment._new increments num_comments before it commits the    *)
(* comment; the request then queues it.  One can reply to, and delete, what *)
(* was posted; a deletion is committed and then queued.                     *)
(***************************************************************************)
Open == {c \in Comments : phase[c] \in {"counted", "written", "deleting"}}

Count(c) ==
    /\ Cardinality({d \in Comments : phase[d] # "new"}) < MaxPosts[version]
    /\ Cardinality(Open) < MaxOpen
    /\ Parent[c] # Top => phase[Parent[c]] = "posted"
    /\ Phase(c, "new", "counted")
    /\ num' = num + 1
    /\ UNCHANGED <<version, queue, store, lock, at, work, history>>

Write(c) ==
    /\ Phase(c, "counted", "written")
    /\ UNCHANGED <<version, num, queue, store, lock, at, work, history>>

Post(c) ==
    /\ Phase(c, "written", "posted")
    /\ queue' = Append(queue, c)
    /\ UNCHANGED <<version, num, store, lock, at, work, history>>

\* If the comment's first message is still to be fetched, it will be taken for
\* another deletion.
Delete(c) ==
    /\ Cardinality(Open) < MaxOpen
    /\ Cardinality(Deleted) < MaxDeletes
    /\ Phase(c, "posted", "deleting")
    /\ uncounted' = (uncounted \/ c \in Range(queue))
    /\ UNCHANGED <<version, num, queue, store, lock, at, work, lost, mishaps>>

PostDeletion(c) ==
    /\ Phase(c, "deleting", "deleted")
    /\ queue' = Append(queue, c)
    /\ UNCHANGED <<version, num, store, lock, at, work, history>>

\* The application server dies between two of these steps.
RequestDies(c) ==
    /\ \/ Phase(c, "counted", "never") /\ uncounted' = TRUE
       \/ Phase(c, "written", "silent") /\ UNCHANGED uncounted
       \/ Phase(c, "deleting", "deleted") /\ uncounted' = TRUE
    /\ Mishap
    /\ UNCHANGED <<version, num, queue, store, lock, at, work, lost>>

-----------------------------------------------------------------------------
(***************************************************************************)
(* A consumer takes a batch and fetches its comments and the link.  A       *)
(* contended lock fails at once, as mutation_context has timeout=None; any  *)
(* failure in the with block leads to a rebuild.                            *)
(***************************************************************************)
Get(p) ==
    /\ p \in Consumers
    /\ at[p] = "idle"
    /\ \E n \in 1..BatchSize :
        /\ n <= Len(queue)
        /\ batch' = [batch EXCEPT ![p] = SubSeq(queue, 1, n)]
        /\ queue' = SubSeq(queue, n + 1, Len(queue))
    /\ dead' = [dead EXCEPT ![p] = Range(batch'[p]) \cap Deleted]
    /\ left' = [left EXCEPT ![p] = Cardinality(Deletions(batch'[p]))]
    /\ seen' = [seen EXCEPT ![p] = num]
    /\ Start(p, "add", IF Locked THEN "enter" ELSE "load")
    /\ UNCHANGED <<site, num, store, lock, tree, par, gone, history>>

Enter(p) ==
    /\ at[p] = "enter"
    /\ Lock!Obtain(p, Link)
    /\ Goto(p, "load")
    /\ UNCHANGED <<site, num, queue, store, work, history>>

Contended(p) ==
    /\ at[p] = "enter"
    /\ Link \in busy
    /\ Discard(p)
    /\ Start(p, "rebuild", "again")
    /\ UNCHANGED <<site, num, queue, store, lock, batch, seen, history>>

\* get_comment_tree(): a missing tree is rebuilt on the spot.
Load(p) ==
    /\ at[p] = "load"
    /\ IF stored = NoTree
       THEN /\ Start(p, "nested", "query")
            /\ UNCHANGED <<tree, par>>
       ELSE /\ Goto(p, "add")
            /\ tree' = [tree EXCEPT ![p] = stored]
            /\ par' = [par EXCEPT ![p] = fathers]
            /\ UNCHANGED mode
    /\ UNCHANGED <<site, num, queue, store, lock, job, gone, history>>

\* What the batch adds.
Fresh(p) == Range(batch[p]) \ dead[p]

\* Mutant: an unknown parent is taken for no parent.
MutOrphaned(p) == FALSE

\* depth[p_id] raises KeyError: a reply whose parent is neither in the tree nor
\* before it in the batch.
Orphaned(p) ==
    \E i \in DOMAIN batch[p] :
        LET c == batch[p][i]
            before == {batch[p][j] : j \in 1..(i - 1)} \ dead[p]
        IN  /\ c \in Fresh(p) \ tree[p]
            /\ Parent[c] \notin {Top} \cup tree[p] \cup before

\* Mutant: the failure is logged, and that is all.
MutAddFails(p) ==
    /\ at[p] = "add"
    /\ Orphaned(p)
    /\ IF Locked THEN Lock!LetGo(p, Link) ELSE UNCHANGED lock
    /\ Goto(p, "ack")
    /\ UNCHANGED <<site, num, queue, store, work, history>>

AddFails(p) ==
    /\ at[p] = "add"
    /\ Orphaned(p)
    /\ IF Locked THEN Lock!LetGo(p, Link) ELSE UNCHANGED lock
    /\ Discard(p)
    /\ Start(p, "rebuild", IF Locked THEN "again" ELSE "query")
    /\ UNCHANGED <<site, num, queue, store, batch, seen, history>>

\* The new comments get their parent; one that was in the tree before has no
\* entry in new_parents and gets None.
WithParents(known, old, new) ==
    [c \in DOMAIN known \cup new |->
        IF c \notin new THEN known[c]
        ELSE IF c \in old THEN Top ELSE Parent[c]]

\* Version 3 writes its columns here, version 1 its two values below.
Add(p) ==
    LET new == Fresh(p)
    IN  /\ at[p] = "add"
        /\ ~Orphaned(p)
        /\ IF Locked
           THEN /\ Goto(p, IF new = {} THEN "delete" ELSE "parents")
                /\ tree' = [tree EXCEPT ![p] = @ \cup new]
                /\ par' = [par EXCEPT ![p] = WithParents(@, tree[p], new)]
                /\ UNCHANGED <<stored, lost>>
           ELSE /\ Goto(p, "delete")
                /\ stored' = stored \cup new
                /\ lost' = lost \ new
                /\ tree' = [tree EXCEPT ![p] = {}]  \* not read again
                /\ UNCHANGED par
        /\ UNCHANGED <<site, num, queue, fathers, lock, job, gone, mode, uncounted, mishaps>>

\* "for read safety write parents first"
WriteParents(p) ==
    /\ at[p] = "parents"
    /\ Goto(p, "tree")
    /\ fathers' = par[p]
    /\ UNCHANGED <<site, num, queue, stored, lock, work, history>>

WriteTree(p) ==
    /\ at[p] = "tree"
    /\ Goto(p, IF mode[p] = "add" THEN "delete" ELSE "recount")
    /\ stored' = tree[p]
    /\ UNCHANGED <<site, num, queue, fathers, lock, work, history>>

\* Mutant: the deletions are counted once too often.
MutCountDeletion(p) ==
    /\ at[p] = "delete"
    /\ left[p] >= 0
    /\ left' = [left EXCEPT ![p] = @ - 1]
    /\ num' = num - 1
    /\ UNCHANGED <<site, queue, store, lock, at, batch, dead, seen, object, history>>

\* CommentTree.delete_comment() changes the stored tree of neither version.
CountDeletion(p) ==
    /\ at[p] = "delete"
    /\ left[p] > 0
    /\ left' = [left EXCEPT ![p] = @ - 1]
    /\ num' = num - 1
    /\ UNCHANGED <<site, queue, store, lock, at, batch, dead, seen, object, history>>

Leave(p) ==
    /\ at[p] = "delete"
    /\ left[p] = 0
    /\ IF Locked THEN Lock!LetGo(p, Link) ELSE UNCHANGED lock
    /\ DiscardAll(p)
    /\ Goto(p, "ack")
    /\ UNCHANGED <<site, num, queue, store, batch, history>>

\* The batch is acknowledged; a viewer has its page.
Ack(p) ==
    /\ at[p] = "ack"
    /\ Done(p)
    /\ UNCHANGED <<site, num, queue, store, lock, history>>

-----------------------------------------------------------------------------
(***************************************************************************)
(* A rebuild: query all comments, store their tree, and set num_comments to *)
(* the number of those that are not deleted.  A viewer of a link of version *)
(* 1 that has no tree makes one.                                            *)
(***************************************************************************)
View(p) ==
    /\ p \in Viewers
    /\ at[p] = "idle"
    /\ stored = NoTree
    /\ seen' = [seen EXCEPT ![p] = num]
    /\ Start(p, "rebuild", "again")
    /\ UNCHANGED <<site, num, queue, store, lock, batch, dead, left, tree, par, gone, history>>

\* The lock is now waited for (timeout=180).
Again(p) ==
    /\ at[p] = "again"
    /\ Lock!Obtain(p, Link)
    /\ Goto(p, "query")
    /\ UNCHANGED <<site, num, queue, store, work, history>>

Query(p) ==
    /\ at[p] = "query"
    /\ tree' = [tree EXCEPT ![p] = Written]
    /\ par' = [par EXCEPT ![p] = IF Locked THEN [c \in Written |-> Parent[c]] ELSE @]
    /\ gone' = [gone EXCEPT ![p] = Deleted]
    /\ Goto(p, IF Locked THEN "parents" ELSE "remove")
    /\ UNCHANGED <<site, num, queue, store, lock, job, mode, history>>

\* Version 3 removes the row and then writes the columns of what it found.
Remove(p) ==
    /\ at[p] = "remove"
    /\ Goto(p, "insert")
    /\ stored' = {}
    /\ lost' = lost \cup (stored \ tree[p])
    /\ UNCHANGED <<site, num, queue, fathers, lock, work, uncounted, mishaps>>

Insert(p) ==
    /\ at[p] = "insert"
    /\ Goto(p, "recount")
    /\ stored' = stored \cup tree[p]
    /\ lost' = lost \ tree[p]
    /\ UNCHANGED <<site, num, queue, fathers, lock, work, uncounted, mishaps>>

\* Something was under way that num_comments already says, or will be made to.
Disturbed(p) ==
    \/ tree[p] \ gone[p] # Live
    \/ \E c \in Deleted :
        \/ phase[c] = "deleting"
        \/ c \in Range(queue)
        \/ \E q \in Procs \ {p} : at[q] # "ack" /\ c \in Range(batch[q])
        \/ mode[p] = "nested" /\ c \in dead[p]

\* Mutant: deleted comments are counted too.
MutCounted(p) == Cardinality(tree[p])

Counted(p) == Cardinality(tree[p] \ gone[p])

\* The assignment is no change, and is not committed, if it is what the link
\* object says.
Recount(p) ==
    LET n == Counted(p)
    IN  /\ at[p] = "recount"
        /\ IF n # seen[p] THEN num' = n ELSE UNCHANGED num
        /\ IF mode[p] = "nested"
           THEN /\ seen' = [seen EXCEPT ![p] = n]
                /\ Start(p, "add", "add")
                /\ UNCHANGED <<lock, dead, left, tree, par, gone>>
           ELSE /\ IF Locked THEN Lock!LetGo(p, Link) ELSE UNCHANGED lock
                /\ DiscardAll(p)
                /\ Goto(p, "ack")
        /\ uncounted' = \/ Disturbed(p)
                         \/ (n = seen[p] /\ (uncounted \/ num # n))
        /\ UNCHANGED <<site, queue, store, batch, lost, mishaps>>

-----------------------------------------------------------------------------
(***************************************************************************)
(* A process dies, or waits too long for the lock of the rebuild; what it   *)
(* had not acknowledged is delivered again.  The lock lapses.               *)
(***************************************************************************)
GivesBack(p) ==
    /\ Done(p)
    /\ queue' = batch[p] \o queue
    /\ uncounted' = (uncounted \/ Range(batch[p]) \cap Deleted # {})

Crash(p) ==
    /\ at[p] # "idle"
    /\ Mishap
    /\ GivesBack(p)
    /\ Lock!Abandon(p)
    /\ lost' = IF at[p] = "insert" THEN lost \cup (tree[p] \ stored) ELSE lost
    /\ UNCHANGED <<site, num, store>>

TimesOut(p) ==
    /\ at[p] = "again"
    /\ Link \in busy
    /\ Mishap
    /\ GivesBack(p)
    /\ UNCHANGED <<site, num, store, lock, lost>>

\* Of a process that died, or of one that took longer than the expiry.
Lapse ==
    /\ Lock!Lapse(Link)
    /\ IF overrun' # overrun THEN Mishap ELSE UNCHANGED mishaps
    /\ UNCHANGED <<site, num, queue, store, at, work, lost, uncounted>>

-----------------------------------------------------------------------------
Request(c) ==
    Count(c) \/ Write(c) \/ Post(c) \/ Delete(c) \/ PostDeletion(c) \/ RequestDies(c)

Work(p) ==
    \/ Get(p) \/ Enter(p) \/ Contended(p) \/ Load(p) \/ AddFails(p) \/ Add(p)
    \/ WriteParents(p) \/ WriteTree(p) \/ CountDeletion(p) \/ Leave(p) \/ Ack(p)
    \/ Again(p) \/ Query(p) \/ Remove(p) \/ Insert(p) \/ Recount(p)

Next ==
    \/ \E c \in Comments : Request(c)
    \/ \E p \in Procs : Work(p) \/ View(p) \/ Crash(p) \/ TimesOut(p)
    \/ Lapse

Spec == Init /\ [][Next]_vars

-----------------------------------------------------------------------------
Phases == {"new", "counted", "written", "posted", "silent", "never", "deleting", "deleted"}
Places == {"idle", "enter", "load", "add", "parents", "tree", "delete", "ack",
           "again", "query", "remove", "insert", "recount"}

\* Every variable has its type, and only links of version 1 have a parents value.
TypeOK ==
    /\ version \in Versions
    /\ phase \in [Comments -> Phases]
    /\ num \in Int
    /\ queue \in Seq(Comments)
    /\ stored \in (SUBSET Comments) \cup {NoTree}
    /\ fathers \in Fathers
    /\ ~Locked => fathers = NoParents /\ stored # NoTree
    /\ held \in [Procs -> SUBSET {Link}]
    /\ busy \subseteq {Link}
    /\ overrun \in BOOLEAN
    /\ at \in [Procs -> Places]
    /\ batch \in [Procs -> Seq(Comments)]
    /\ dead \in [Procs -> SUBSET Comments]
    /\ left \in [Procs -> 0..BatchSize]
    /\ seen \in [Procs -> Int]
    /\ tree \in [Procs -> SUBSET Comments]
    /\ par \in [Procs -> Fathers]
    /\ gone \in [Procs -> SUBSET Comments]
    /\ mode \in [Procs -> {"add", "nested", "rebuild"}]
    /\ lost \subseteq Comments
    /\ uncounted \in BOOLEAN
    /\ mishaps \in 0..MaxMishaps

InTree    == IF stored = NoTree THEN {} ELSE stored
Replacing == {p \in Procs : at[p] = "insert"}

\* No comment is missed: once a posted comment's messages are acknowledged it is
\* in the stored tree, over redelivered and reordered batches, replies that are
\* handled before their parents and rebuilds beside additions.  The exceptions
\* are what a rebuild of version 3 has removed without having found it, and
\* trees of version 1 whose lock lapsed under its holder.
TreeIsComplete ==
    ~overrun =>
        \A c \in Comments :
            phase[c] = "posted" /\ c \notin Pending =>
                c \in InTree \cup lost \cup UNION {tree[p] : p \in Replacing}

\* A page can be built from what is stored: a comment's parent is in the tree,
\* and a version 1 tree has no comment without an entry in the parents value
\* ("for read safety write parents first").
TreeIsReadable ==
    ~overrun =>
        /\ Replacing = {} => \A c \in InTree : Parent[c] \in {Top} \cup InTree \cup lost
        /\ Locked => InTree \subseteq DOMAIN fathers

\* When nothing is under way, num_comments is the number of comments that are
\* not deleted: each post and each deletion was counted once, by its own
\* increment or by a rebuild that saw it.  It may be wrong from a death, a
\* deletion that overtakes its comment or a rebuild beside any of them, and
\* until a rebuild that changes it.
CountIsRight ==
    /\ queue = <<>>
    /\ \A p \in Procs : at[p] = "idle"
    /\ \A c \in Comments : phase[c] # "deleting"
    /\ ~uncounted
    => num = Cardinality(Live)

\* "parents: dict of int to int; each entry in cids has a key in this dict, and
\* the corresponding value is the ID of that comment's parent".
ParentsAgree == \A c \in DOMAIN fathers : fathers[c] = Parent[c]
=============================================================================

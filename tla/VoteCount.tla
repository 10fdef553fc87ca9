----------------------------- MODULE VoteCount -----------------------------
(***************************************************************************)
(* Votes on one link or comment: the queue consumers of r2/lib/db/queries.py*)
(* (process_votes, handle_vote) run Vote.vote of r2/models/vote.py, which   *)
(* looks up the voter's vote, writes it, and then adds what changed to the  *)
(* score, to the author's karma and to the voter's likes, one store after   *)
(* the other with nothing that joins them.  Nothing keeps the order of the  *)
(* votes either: queue_vote picks one of several queues by live config, and *)
(* every consumer prefetches ten, so the votes that wait are a set and each *)
(* has the number of its cast.                                              *)
(*                                                                         *)
(* A vote is a row [voter, name] of the relation table, unique for the two; *)
(* its name is the direction.  Relation._fast_query finds it through one    *)
(* cache key for each name, which also remembers that there is none.  Rows  *)
(* and counters have the guarantees of ThingStore: a commit is atomic, an   *)
(* increment adds, and an object fetched by id is the committed one.        *)
(***************************************************************************)
EXTENDS Integers, FiniteSets

CONSTANTS
    Voters,
    Author,     \* the voter who made the thing
    Consumers,  \* processes consuming the vote queue
    Floor,      \* the author's karma while the attribute is not set
    SelfLink,   \* the thing is a self post
    MaxRels,    \* bound: rows ever made
    MaxCasts,   \* bound: votes cast, besides the author's own first one
    MaxMishaps  \* bound: crashes, evictions and marked voters

ASSUME VoteConstants ==
    /\ Author \in Voters
    /\ Floor \in Nat
    /\ SelfLink \in BOOLEAN
    /\ MaxRels \in Nat
    /\ MaxCasts \in Nat
    /\ MaxMishaps \in Nat

Names   == {-1, 0, 1}               \* directions, and names of the relation
Nothing == 0                        \* a key that says there is no such row
Absent  == -1                       \* a key that is not in the cache
Rels    == 1..MaxRels
Vote    == [voter : Voters, name : Names, no : 0..MaxCasts]
Row     == [voter : Voters, name : Names, valid : BOOLEAN]
Answers == {Nothing, Absent} \cup Rels

VARIABLES
    queue,      \* the votes that wait, in any queue or consumer's buffer
    rels,       \* rels[i]: row i, for i <= made
    made,       \* the number of rows
    keys,       \* keys[v][n]: the fast-query cache: Absent, Nothing or a row
    ups, downs, \* the score of the thing
    karma,      \* the author's karma attribute...
    karmaSet,   \* ... if there is one
    likes,      \* likes[v]: the direction Cassandra has, or NoLike
    spam,       \* voters marked as spammers
    at,         \* at[c]: where consumer c is
    vote,       \* vote[c]: the vote it handles
    got,        \* got[c]: what _fast_query has for each name
    lack,       \* lack[c]: the names the cache did not know
    rel, name, valid,   \* v._id (Nothing if not committed), v._name, v.valid_user
    isNew, old, \* is_new, oldamount
    kept,       \* history: karma of votes made before their voter was a spammer
    began,      \* history: the direction of the author's first row, or NoLike
    last,       \* history: last[v]: the last vote v cast
    slip,       \* history: a consumer died with a vote half counted, or two
                \* handled votes of one voter, or made the karma attribute, at once
    overtaken,  \* history: voters of whom a vote was begun before an older
                \* one was acknowledged
    casts, mishaps

store   == <<rels, made, keys>>
counts  == <<ups, downs, karma, karmaSet, kept>>
found   == <<vote, got, lack>>
object  == <<rel, name, valid, isNew, old>>
history == <<began, last, slip, overtaken, casts, mishaps>>
vars    == <<queue, store, counts, likes, spam, at, found, object, history>>

NoLike == 2
NoVote == [voter |-> Author, name |-> 0, no |-> 0]
AutomaticVote == [voter |-> Author, name |-> 1, no |-> 0]

\* The thing was made with _ups = 1, and its author's vote is queued.
Init ==
    /\ queue = {AutomaticVote}
    /\ rels = [i \in Rels |-> [voter |-> Author, name |-> 0, valid |-> FALSE]]
    /\ made = 0
    /\ keys = [v \in Voters |-> [n \in Names |-> Absent]]
    /\ ups = 1
    /\ downs = 0
    /\ karma = Floor
    /\ karmaSet = FALSE
    /\ likes = [v \in Voters |-> NoLike]
    /\ spam = {}
    /\ at = [c \in Consumers |-> "idle"]
    /\ vote = [c \in Consumers |-> NoVote]
    /\ got = [c \in Consumers |-> [n \in Names |-> Absent]]
    /\ lack = [c \in Consumers |-> {}]
    /\ rel = [c \in Consumers |-> Nothing]
    /\ name = [c \in Consumers |-> 0]
    /\ valid = [c \in Consumers |-> FALSE]
    /\ isNew = [c \in Consumers |-> FALSE]
    /\ old = [c \in Consumers |-> 0]
    /\ kept = 0
    /\ began = NoLike
    /\ last = [v \in Voters |-> IF v = Author THEN 1 ELSE NoLike]
    /\ slip = FALSE
    /\ overtaken = {}
    /\ casts = 0
    /\ mishaps = 0

Goto(c, where) == at' = [at EXCEPT ![c] = where]
Voter(c)  == vote[c].voter
Amount(c) == vote[c].name

\* score_changes() of vote.py: what a change of direction does to _ups and
\* to _downs.
UpChange(n, o) == (IF n > 0 /\ o <= 0 THEN n ELSE 0) - (IF o > 0 /\ n <= 0 THEN o ELSE 0)
DownChange(n, o) == (IF o < 0 /\ n >= 0 THEN o ELSE 0) - (IF n < 0 /\ o >= 0 THEN n ELSE 0)

-----------------------------------------------------------------------------
\* queue_vote(), by any of the application servers, to any of the queues.
Cast(v, n) ==
    /\ casts < MaxCasts
    /\ casts' = casts + 1
    /\ queue' = queue \cup {[voter |-> v, name |-> n, no |-> casts + 1]}
    /\ last' = [last EXCEPT ![v] = n]
    /\ UNCHANGED <<store, counts, likes, spam, at, found, object, began, slip, overtaken,
                   mishaps>>

Mishap == mishaps < MaxMishaps /\ mishaps' = mishaps + 1

\* A moderator marks a voter.
Ban(v) ==
    /\ v \notin spam
    /\ Mishap
    /\ spam' = spam \cup {v}
    /\ UNCHANGED <<queue, store, counts, likes, at, found, object, began, last, slip,
                   overtaken, casts>>

\* memcached loses a key.
Evict(v, n) ==
    /\ keys[v][n] # Absent
    /\ Mishap
    /\ keys' = [keys EXCEPT ![v][n] = Absent]
    /\ UNCHANGED <<queue, rels, made, counts, likes, spam, at, found, object, began, last,
                   slip, overtaken, casts>>

Beside(v) == {c \in Consumers : at[c] # "idle" /\ Voter(c) = v}

\* The votes of v that are not acknowledged, and those of them cast before x.
Outstanding(v) == {x \in queue : x.voter = v} \cup {vote[c] : c \in Beside(v)}
Older(x) == {y \in Outstanding(x.voter) : y.no < x.no}

\* A consumer begins any vote that waits.  Two of them may have votes of one
\* voter, and a newer one may come before an older one.
Take(c) ==
    /\ at[c] = "idle"
    /\ \E x \in queue :
           /\ queue' = queue \ {x}
           /\ vote' = [vote EXCEPT ![c] = x]
           /\ slip' = (slip \/ \E d \in Beside(x.voter) : at[d] # "ack")
           /\ overtaken' = IF Older(x) = {} THEN overtaken ELSE overtaken \cup {x.voter}
    /\ Goto(c, "lookup")
    /\ UNCHANGED <<store, counts, likes, spam, got, lack, object, began, last, casts, mishaps>>

-----------------------------------------------------------------------------
\* _fast_query() for the three names: what the cache says...
Lookup(c) ==
    /\ at[c] = "lookup"
    /\ got' = [got EXCEPT ![c] = keys[Voter(c)]]
    /\ lack' = [lack EXCEPT ![c] = {n \in Names : keys[Voter(c)][n] = Absent}]
    /\ Goto(c, IF lack'[c] = {} THEN "decide" ELSE "query")
    /\ UNCHANGED <<queue, store, counts, likes, spam, vote, object, history>>

RowsOf(v, n) == {i \in 1..made : rels[i].voter = v /\ rels[i].name = n}

\* There is one at most: (voter, thing, name) is unique.
RowFound(v, n) ==
    IF RowsOf(v, n) = {} THEN Nothing ELSE CHOOSE i \in RowsOf(v, n) : TRUE

\* ... and for the names it does not know, what the database says.
Query(c) ==
    /\ at[c] = "query"
    /\ got' = [got EXCEPT ![c] = [n \in Names |->
           IF n \in lack[c] THEN RowFound(Voter(c), n) ELSE @[n]]]
    /\ Goto(c, "decide")
    /\ UNCHANGED <<queue, store, counts, likes, spam, vote, lack, object, history>>

Rows(c) == {got[c][n] : n \in Names} \ {Nothing, Absent}

\* What the database said is cached, that there is no row too; v is one of
\* the rows found, or a new one.
Decide(c) ==
    /\ at[c] = "decide"
    /\ keys' = [keys EXCEPT ![Voter(c)] =
           [n \in Names |-> IF n \in lack[c] THEN got[c][n] ELSE @[n]]]
    /\ \E i \in IF Rows(c) = {} THEN {Nothing} ELSE Rows(c) :
           /\ rel' = [rel EXCEPT ![c] = i]
           /\ isNew' = [isNew EXCEPT ![c] = i = Nothing]
           /\ old' = [old EXCEPT ![c] = IF i = Nothing THEN 0 ELSE rels[i].name]
           /\ valid' = [valid EXCEPT ![c] =
                  /\ Voter(c) \notin spam
                  /\ IF i = Nothing THEN ~SelfLink ELSE rels[i].valid]
    /\ Goto(c, "commit")
    /\ UNCHANGED <<queue, rels, made, counts, likes, spam, found, name, history>>

\* v._commit() inserts the row...
Insert(c) ==
    /\ isNew[c]
    /\ made < MaxRels
    /\ RowsOf(Voter(c), Amount(c)) = {}
    /\ rels' = [rels EXCEPT ![made + 1] =
           [voter |-> Voter(c), name |-> Amount(c), valid |-> valid[c]]]
    /\ made' = made + 1
    /\ rel' = [rel EXCEPT ![c] = made + 1]
    /\ name' = [name EXCEPT ![c] = Amount(c)]
    /\ began' = IF Voter(c) = Author /\ began = NoLike THEN Amount(c) ELSE began
    /\ UNCHANGED <<valid, kept>>

\* Mutant: the new direction is added to the old one.
MutRenamed(c) == old[c] + Amount(c)

\* The name _sync_latest() leaves v with: one that was assigned but is what v
\* had already is not dirty, and gives way to the committed one.
Renamed(c) == IF Amount(c) = old[c] THEN rels[rel[c]].name ELSE Amount(c)

\* ... or updates it.
Update(c) ==
    LET i == rel[c]
        ok == rels[i].valid /\ valid[c]
    IN
    /\ ~isNew[c]
    /\ RowsOf(Voter(c), Renamed(c)) \subseteq {i}
    /\ rels' = [rels EXCEPT ![i] = [@ EXCEPT !.name = Renamed(c), !.valid = ok]]
    /\ name' = [name EXCEPT ![c] = Renamed(c)]
    /\ valid' = [valid EXCEPT ![c] = ok]
    /\ kept' = IF rels[i].valid /\ ~ok THEN kept + rels[i].name ELSE kept
    /\ UNCHANGED <<made, rel, began>>

Commit(c) ==
    /\ at[c] = "commit"
    /\ Insert(c) \/ Update(c)
    /\ Goto(c, "key")
    /\ UNCHANGED <<queue, keys, ups, downs, karma, karmaSet, likes, spam, found,
                   isNew, old, last, slip, overtaken, casts, mishaps>>

\* Another row of the voter has that name: CreationError or IntegrityError,
\* and handle_vote() logs a duplicate and leaves it at that.
Duplicate(c) ==
    /\ at[c] = "commit"
    /\ IF isNew[c] THEN RowsOf(Voter(c), Amount(c)) # {}
       ELSE ~(RowsOf(Voter(c), Renamed(c)) \subseteq {rel[c]})
    /\ Goto(c, "ack")
    /\ UNCHANGED <<queue, store, counts, likes, spam, found, object, history>>

\* Mutant: the key of the new name is not set.
MutNewKey(c) == keys[Voter(c)][name[c]]

NewKey(c) == rel[c]

\* Relation._commit() sets the key of the name v has now.  The key of its
\* former name goes on pointing to the row.
SetKey(c) ==
    /\ at[c] = "key"
    /\ keys' = [keys EXCEPT ![Voter(c)][name[c]] = NewKey(c)]
    /\ Goto(c, "ups")
    /\ UNCHANGED <<queue, rels, made, counts, likes, spam, found, object, history>>

-----------------------------------------------------------------------------
\* Mutant: the author's own vote is counted like any other.
MutCheckedIn(c) == FALSE

\* The author's initial automatic vote: it was checked in with _ups = 1.
CheckedIn(c) == isNew[c] /\ Voter(c) = Author /\ Amount(c) = 1

\* update_score() increments _ups...
IncrUps(c) ==
    /\ at[c] = "ups"
    /\ ups' = IF CheckedIn(c) THEN ups ELSE ups + UpChange(Amount(c), old[c])
    /\ Goto(c, "downs")
    /\ UNCHANGED <<queue, store, downs, karma, karmaSet, kept, likes, spam, found,
                   object, history>>

\* ... and then _downs.
IncrDowns(c) ==
    /\ at[c] = "downs"
    /\ downs' = IF CheckedIn(c) THEN downs ELSE downs + DownChange(Amount(c), old[c])
    /\ Goto(c, "karma")
    /\ UNCHANGED <<queue, store, ups, karma, karmaSet, kept, likes, spam, found,
                   object, history>>

\* Mutant: a downvote counts for the author.
MutKarmaChange(c) == UpChange(Amount(c), old[c]) + DownChange(Amount(c), old[c])

KarmaChange(c) == UpChange(Amount(c), old[c]) - DownChange(Amount(c), old[c])

\* incr_karma() of an author who has the attribute; nothing for a vote that
\* is not valid.
IncrKarma(c) ==
    /\ at[c] = "karma"
    /\ ~valid[c] \/ karmaSet
    /\ karma' = IF valid[c] THEN karma + KarmaChange(c) ELSE karma
    /\ Goto(c, "copy")
    /\ UNCHANGED <<queue, store, ups, downs, karmaSet, kept, likes, spam, found,
                   object, history>>

\* It has none...
NoKarma(c) ==
    /\ at[c] = "karma"
    /\ valid[c]
    /\ ~karmaSet
    /\ Goto(c, "first")
    /\ slip' = (slip \/ \E d \in Consumers : at[d] = "first")
    /\ UNCHANGED <<queue, store, counts, likes, spam, found, object, began, last, overtaken,
                   casts, mishaps>>

\* ... so it is assigned, whatever has become of it, and committed.
FirstKarma(c) ==
    /\ at[c] = "first"
    /\ karma' = Floor + KarmaChange(c)
    /\ karmaSet' = TRUE
    /\ Goto(c, "copy")
    /\ UNCHANGED <<queue, store, ups, downs, kept, likes, spam, found, object, history>>

\* Mutant: only new votes are copied.
MutCopied(c) == IF isNew[c] THEN name[c] ELSE likes[Voter(c)]

Copied(c) == name[c]

\* VotesByAccount.copy_from()
Copy(c) ==
    /\ at[c] = "copy"
    /\ likes' = [likes EXCEPT ![Voter(c)] = Copied(c)]
    /\ Goto(c, "ack")
    /\ UNCHANGED <<queue, store, counts, spam, found, object, history>>

\* The consumer is ready for the next vote; its local variables are gone.
Reset(c) ==
    /\ Goto(c, "idle")
    /\ vote' = [vote EXCEPT ![c] = NoVote]
    /\ got' = [got EXCEPT ![c] = [n \in Names |-> Absent]]
    /\ lack' = [lack EXCEPT ![c] = {}]
    /\ rel' = [rel EXCEPT ![c] = Nothing]
    /\ name' = [name EXCEPT ![c] = 0]
    /\ valid' = [valid EXCEPT ![c] = FALSE]
    /\ isNew' = [isNew EXCEPT ![c] = FALSE]
    /\ old' = [old EXCEPT ![c] = 0]

\* The callback has returned and the vote is acknowledged.
Ack(c) ==
    /\ at[c] = "ack"
    /\ Reset(c)
    /\ UNCHANGED <<queue, store, counts, likes, spam, history>>

Counting == {"key", "ups", "downs", "karma", "first"}

\* Its vote is written and what it changes is not all counted.
HalfCounted(c) == at[c] \in Counting /\ (isNew[c] \/ Amount(c) # old[c])

\* It dies, or raises, and the vote waits again, to be delivered to any.
Crash(c) ==
    /\ at[c] # "idle"
    /\ Mishap
    /\ queue' = queue \cup {vote[c]}
    /\ slip' = (slip \/ HalfCounted(c))
    /\ Reset(c)
    /\ UNCHANGED <<store, counts, likes, spam, began, last, overtaken, casts>>

-----------------------------------------------------------------------------
Handle(c) ==
    \/ Take(c) \/ Lookup(c) \/ Query(c) \/ Decide(c)
    \/ Commit(c) \/ Duplicate(c) \/ SetKey(c)
    \/ IncrUps(c) \/ IncrDowns(c) \/ IncrKarma(c) \/ NoKarma(c) \/ FirstKarma(c)
    \/ Copy(c) \/ Ack(c) \/ Crash(c)

Next ==
    \/ \E v \in Voters, n \in Names : Cast(v, n) \/ Evict(v, n)
    \/ \E v \in Voters : Ban(v)
    \/ \E c \in Consumers : Handle(c)

Spec == Init /\ [][Next]_vars

-----------------------------------------------------------------------------
Places == Counting \cup {"idle", "lookup", "query", "decide", "commit", "copy", "ack"}

TypeOK ==
    /\ queue \in SUBSET Vote
    /\ rels \in [Rels -> Row]
    /\ made \in 0..MaxRels
    /\ keys \in [Voters -> [Names -> Answers]]
    /\ {ups, downs, karma, kept} \subseteq Int
    /\ karmaSet \in BOOLEAN
    /\ likes \in [Voters -> Names \cup {NoLike}]
    /\ spam \in SUBSET Voters
    /\ at \in [Consumers -> Places]
    /\ vote \in [Consumers -> Vote]
    /\ got \in [Consumers -> [Names -> Answers]]
    /\ lack \in [Consumers -> SUBSET Names]
    /\ rel \in [Consumers -> {Nothing} \cup Rels]
    /\ name \in [Consumers -> Names]
    /\ valid \in [Consumers -> BOOLEAN]
    /\ isNew \in [Consumers -> BOOLEAN]
    /\ old \in [Consumers -> Names]
    /\ began \in Names \cup {NoLike}
    /\ last \in [Voters -> Names \cup {NoLike}]
    /\ slip \in BOOLEAN
    /\ overtaken \in SUBSET Voters
    /\ casts \in 0..MaxCasts
    /\ mishaps \in 0..MaxMishaps

Settled == \A c \in Consumers : at[c] \notin Counting

\* A voter has one row, and the next _fast_query() finds it, under whichever
\* of its past names: neither the keys that remember there is no row nor
\* evictions, renamed rows and redelivered votes make a second row of it
\* (thing.py:768-771, 842-846; vote.py:174-186).
OneRowEach ==
    ~slip => \A i \in 1..made :
        /\ \A j \in 1..made : rels[j].voter = rels[i].voter => j = i
        /\ Settled =>
               \/ \E n \in Names : keys[rels[i].voter][n] = i
               \/ keys[rels[i].voter][rels[i].name] = Absent

Named(n) == Cardinality({i \in 1..made : rels[i].name = n})
Valid(n) == Cardinality({i \in 1..made : rels[i].name = n /\ rels[i].valid})

\* The score is the votes: each voter counts once, with the direction of the
\* row, though votes are changed, withdrawn, delivered again and handled out
\* of order and beside others'.  The thing's first up is the author's as long
\* as their first row is an upvote; when another of their votes comes first,
\* it stays on top of all rows for good (vote.py:207-217).
ScoreIsVotes ==
    ~slip /\ Settled =>
        /\ ups = Named(1) + IF began = 1 THEN 0 ELSE 1
        /\ downs = Named(-1)

\* The author's karma is the directions of the valid votes, with what voters
\* had given before they were marked as spammers (vote.py:219-222;
\* account.py:176-187).
KarmaIsVotes ==
    ~slip /\ Settled =>
        (IF karmaSet THEN karma ELSE Floor) = Floor + kept + Valid(1) - Valid(-1)

Idle == queue = {} /\ \A c \in Consumers : at[c] = "idle"

\* When all is handled, a voter is shown the direction that the score counts,
\* in whatever order their votes came; and it is the last one they cast,
\* unless that was begun before an older one was acknowledged
\* (vote.py:207-256; amqp.py:214-221; queries.py:1517-1535).
LastVoteShows ==
    ~slip /\ Idle =>
        \A v \in {w \in Voters : last[w] # NoLike} :
            /\ RowsOf(v, likes[v]) # {}
            /\ v \notin overtaken => likes[v] = last[v]
=============================================================================

--------------------------- MODULE VoteCountProofs ---------------------------
(***************************************************************************)
(* Proofs about VoteCount for any voters, consumers and bounds.  The        *)
(* counters lag behind the rows, so the invariant says by how much: it      *)
(* gives each row the direction a counter has of it, which is the row's     *)
(* name, or the consumer's old one while that consumer has yet to count.    *)
(* It also says what a lookup knows at each step, so that a voter's row is  *)
(* found, and which of a voter's votes is the last.                         *)
(***************************************************************************)
EXTENDS VoteCount, FiniteSetTheorems, TLAPS

OwnRow(v, i) == i \in 1..made /\ rels[i].voter = v

\* Whatever says where a voter's row is names a row of that voter.
Rooted ==
    /\ \A v \in Voters, n \in Names :
           keys[v][n] \in {Nothing, Absent} \/ OwnRow(v, keys[v][n])
    /\ \A c \in Consumers : at[c] \in {"query", "decide"} => \A n \in Names :
           got[c][n] \in {Nothing, Absent} \/ OwnRow(Voter(c), got[c][n])
    /\ \A c \in Consumers : at[c] = "commit" =>
           IF isNew[c] THEN rel[c] = Nothing ELSE OwnRow(Voter(c), rel[c])
    /\ \A c \in Consumers : at[c] \in Counting \cup {"copy"} => OwnRow(Voter(c), rel[c])

Active(c) == at[c] \notin {"idle", "ack"}

\* Until the first slip a voter is in one hand.
Alone ==
    \A c, d \in Consumers : Active(c) /\ Active(d) /\ Voter(c) = Voter(d) => c = d

OneRow == \A i, j \in 1..made : rels[i].voter = rels[j].voter => i = j

\* The key of the name a row has, unless the consumer that renamed it has yet to set it.
KeyFound ==
    \A i \in 1..made :
        \/ keys[rels[i].voter][rels[i].name] \in {i, Absent}
        \/ \E c \in Consumers : at[c] = "key" /\ rel[c] = i /\ HalfCounted(c)

\* What a consumer knows of its voter's row: the lookup does not miss it...
Looks(c) ==
    /\ at[c] = "query" =>
           /\ lack[c] = {n \in Names : got[c][n] = Absent}
           /\ \A i \in 1..made : rels[i].voter = Voter(c) => got[c][rels[i].name] \in {i, Absent}
    /\ at[c] = "decide" =>
           \A i \in 1..made : rels[i].voter = Voter(c) => got[c][rels[i].name] = i

\* ... and what it decided on is so until the row is written, and after.
Knows(c) ==
    /\ at[c] = "commit" /\ isNew[c] =>
           old[c] = 0 /\ \A i \in 1..made : rels[i].voter # Voter(c)
    /\ at[c] = "commit" /\ ~isNew[c] => old[c] = rels[rel[c]].name
    /\ at[c] \in Counting \cup {"copy"} =>
           /\ name[c] = Amount(c)
           /\ rels[rel[c]].name = Amount(c)
           /\ rels[rel[c]].valid = valid[c]
           /\ isNew[c] => old[c] = 0
    /\ at[c] = "ack" => \E i \in 1..made : rels[i].voter = Voter(c)

AuthorVoted == \E i \in 1..made : rels[i].voter = Author

\* The author's first row is there once it is said to be.
Began == began # NoLike => AuthorVoted

\* A counter does not have c's vote yet: c has still to leave the places L.  The
\* score has the author's automatic vote from the start.
Waits(c, L, score) == at[c] \in L /\ ~(score /\ CheckedIn(c))

\* The direction n is what the counter has of row i: its name, or the old one.
CountedAs(L, score, i, n) ==
    IF \E c \in Consumers : Waits(c, L, score) /\ rel[c] = i
    THEN \E c \in Consumers : Waits(c, L, score) /\ rel[c] = i /\ old[c] = n
    ELSE rels[i].name = n

Scored(L, n) == {i \in 1..made : CountedAs(L, TRUE, i, n)}
Credited(n)  == {i \in 1..made : CountedAs(Counting, FALSE, i, n) /\ rels[i].valid}

BeforeUps   == {"key", "ups"}
BeforeDowns == {"key", "ups", "downs"}
Befores     == {BeforeUps, BeforeDowns, Counting}

UpsLag   == ups = Cardinality(Scored(BeforeUps, 1)) + IF began = 1 THEN 0 ELSE 1
DownsLag == downs = Cardinality(Scored(BeforeDowns, -1))
KarmaLag ==
    (IF karmaSet THEN karma ELSE Floor)
        = Floor + kept + Cardinality(Credited(1)) - Cardinality(Credited(-1))

\* One consumer at a time makes the karma attribute, which is not there yet.
FirstKarmaAlone ==
    \A c \in Consumers : at[c] = "first" =>
        /\ ~karmaSet /\ valid[c]
        /\ \A d \in Consumers : at[d] = "first" => d = c

Found == OneRow /\ KeyFound /\ \A c \in Consumers : Looks(c) /\ Knows(c)
Calm  == Alone /\ Found /\ Began /\ UpsLag /\ DownsLag /\ FirstKarmaAlone /\ KarmaLag

\* Votes that are not acknowledged have numbers of their own.
Numbered ==
    /\ \A x \in queue : x.no <= casts
    /\ \A x, y \in queue : x.no = y.no => x = y
    /\ \A c \in Consumers : at[c] # "idle" =>
           /\ vote[c].no <= casts
           /\ \A x \in queue : x.no # vote[c].no
           /\ \A d \in Consumers : at[d] # "idle" /\ vote[d].no = vote[c].no => d = c

\* A voter who voted has a vote that waits or is handled, or is shown the row.
ShownRow(v) ==
    \/ \E c \in Consumers : Active(c) /\ Voter(c) = v
    \/ \E x \in queue : x.voter = v
    \/ last[v] = NoLike
    \/ RowsOf(v, likes[v]) # {}

\* Of a voter who was not overtaken the vote in hand is the oldest there is,...
InTurn(v) == \A c \in Beside(v) : Older(vote[c]) = {}

\* ... the last one is the newest there is, or is shown,...
IsNewest(v, x) == x.name = last[v] /\ \A y \in Outstanding(v) : y.no <= x.no
LastKnown(v) ==
    \/ \E x \in Outstanding(v) : IsNewest(v, x)
    \/ Outstanding(v) = {} /\ (last[v] # NoLike => likes[v] = last[v])

\* ... and a vote is shown before it is acknowledged.
AckShown(v) == \A c \in Beside(v) : at[c] = "ack" => likes[v] = Amount(c)

AllShown == \A v \in Voters : ShownRow(v)
InOrder  == \A v \in Voters \ overtaken : InTurn(v) /\ LastKnown(v) /\ AckShown(v)

VoteInv == Rooted /\ Numbered /\ (~slip => Calm /\ AllShown /\ InOrder)

USE VoteConstants DEF Nothing, Absent, NoLike

-----------------------------------------------------------------------------
(* Types.                                                                   *)

\* The initial state is well typed, and says nothing about rows.
LEMMA BaseInit == Init => TypeOK /\ Rooted
<1>1. SUFFICES ASSUME Init PROVE TypeOK /\ Rooted
    OBVIOUS
<1>2. NoVote \in Vote
    BY DEF NoVote, Vote, Names
<1>3. queue \in SUBSET Vote /\ began \in Names \cup {NoLike}
  <2>1. AutomaticVote \in Vote
    BY DEF AutomaticVote, Vote, Names
  <2> QED
    BY <1>1, <2>1 DEF Init
<1>4. /\ rels \in [Rels -> Row]
      /\ made \in 0..MaxRels
      /\ keys \in [Voters -> [Names -> Answers]]
    BY <1>1 DEF Init, Row, Names, Answers
<1>5. /\ ups \in Int /\ downs \in Int /\ karma \in Int /\ kept \in Int
      /\ casts \in 0..MaxCasts
      /\ mishaps \in 0..MaxMishaps
    BY <1>1 DEF Init
<1>6. /\ at \in [Consumers -> Places]
      /\ vote \in [Consumers -> Vote]
      /\ got \in [Consumers -> [Names -> Answers]]
      /\ lack \in [Consumers -> SUBSET Names]
    BY <1>1, <1>2 DEF Init, Places, Answers
<1>7. /\ rel \in [Consumers -> {Nothing} \cup Rels]
      /\ name \in [Consumers -> Names]
      /\ valid \in [Consumers -> BOOLEAN]
      /\ isNew \in [Consumers -> BOOLEAN]
      /\ old \in [Consumers -> Names]
    BY <1>1 DEF Init, Names
<1>8. /\ likes \in [Voters -> Names \cup {NoLike}]
      /\ last \in [Voters -> Names \cup {NoLike}]
  <2>1. likes \in [Voters -> Names \cup {NoLike}]
    BY <1>1 DEF Init
  <2>2. last \in [Voters -> Names \cup {NoLike}]
    <3>1. \A v \in Voters : (IF v = Author THEN 1 ELSE NoLike) \in Names \cup {NoLike}
        BY DEF Names
    <3> QED
        BY <1>1, <3>1 DEF Init
  <2> QED
    BY <2>1, <2>2
<1>9. /\ slip \in BOOLEAN
      /\ overtaken \in SUBSET Voters
      /\ karmaSet \in BOOLEAN
      /\ spam \in SUBSET Voters
    BY <1>1 DEF Init
<1>10. Rooted
    BY <1>1 DEF Init, Rooted, Counting
<1> QED
    BY <1>3, <1>4, <1>5, <1>6, <1>7, <1>8, <1>9, <1>10 DEF TypeOK

\* What a consumer has in hand.
LEMMA HandTyped ==
    ASSUME TypeOK, NEW c \in Consumers
    PROVE  /\ at[c] \in Places
           /\ vote[c] = [voter |-> Voter(c), name |-> Amount(c), no |-> vote[c].no]
           /\ vote[c].no \in 0..MaxCasts
           /\ vote[c] \in Vote /\ Voter(c) \in Voters /\ Amount(c) \in Names
           /\ rel[c] \in {Nothing} \cup Rels /\ name[c] \in Names /\ old[c] \in Names
           /\ valid[c] \in BOOLEAN /\ isNew[c] \in BOOLEAN
           /\ got[c] \in [Names -> Answers] /\ lack[c] \in SUBSET Names
    BY DEF TypeOK, Vote, Voter, Amount

\* The rows there are.
LEMMA RowTyped ==
    ASSUME TypeOK, NEW i \in 1..made
    PROVE  /\ i \in Rels /\ rels[i] \in Row
           /\ rels[i].voter \in Voters /\ rels[i].name \in Names /\ rels[i].valid \in BOOLEAN
<1>1. i \in Rels
    BY DEF TypeOK, Rels
<1>2. rels[i] \in Row
    BY <1>1 DEF TypeOK
<1> QED
    BY <1>1, <1>2 DEF Row

\* score_changes() for directions: one more of the new one, one less of the old one.
LEMMA ScoreChanges ==
    ASSUME NEW n \in Names, NEW o \in Names
    PROVE  /\ UpChange(n, o) = (IF n = 1 THEN 1 ELSE 0) - (IF o = 1 THEN 1 ELSE 0)
           /\ DownChange(n, o) = (IF n = -1 THEN 1 ELSE 0) - (IF o = -1 THEN 1 ELSE 0)
           /\ UpChange(n, o) - DownChange(n, o) = n - o
           /\ UpChange(n, o) \in Int /\ DownChange(n, o) \in Int
    BY DEF UpChange, DownChange, Names

\* Counters are integers; what they count may not be.
LEMMA CountersTyped == TypeOK => ups \in Int /\ downs \in Int /\ karma \in Int /\ kept \in Int
    BY DEF TypeOK

\* The rows a lookup has found.
LEMMA RowsTyped ==
    ASSUME TypeOK, NEW c \in Consumers
    PROVE  Rows(c) \subseteq Rels
<1>1. \A n \in Names : got[c][n] \in Answers
    BY HandTyped
<1> QED
    BY <1>1 DEF Rows, Answers

\* What the database finds is a row of the voter with the name.
LEMMA FoundIsRow ==
    ASSUME NEW v, NEW n
    PROVE  \/ RowFound(v, n) = Nothing /\ RowsOf(v, n) = {}
           \/ RowFound(v, n) \in RowsOf(v, n) /\ RowFound(v, n) \in 1..made
                  /\ OwnRow(v, RowFound(v, n)) /\ rels[RowFound(v, n)].name = n
    BY DEF RowFound, RowsOf, OwnRow

\* An idle consumer has the vote NoVote in hand.
LEMMA NoVoteTyped == NoVote \in Vote
    BY DEF NoVote, Vote, Names

\* Every action keeps the types; an update needs that its row is there.
LEMMA TypesPreserved == TypeOK /\ Rooted /\ [Next]_vars => TypeOK'
<1> SUFFICES ASSUME TypeOK, Rooted, [Next]_vars PROVE TypeOK'
    OBVIOUS
<1> USE DEF store, counts, found, object, history, Goto, Mishap
<1>1. ASSUME NEW v \in Voters, NEW n \in Names, Cast(v, n)
      PROVE TypeOK'
  <2>1. UNCHANGED <<rels, made, keys, ups, downs, karma, karmaSet, kept, likes, spam, at,
          vote, got, lack, rel, name, valid, isNew, old, slip, overtaken, began,
          mishaps>>
    BY <1>1 DEF Cast
  <2>2. casts' \in 0..MaxCasts
    BY <1>1 DEF TypeOK, Cast
  <2>3. queue' \in SUBSET Vote
    BY <1>1 DEF TypeOK, Cast, Vote
  <2>4. last' \in [Voters -> Names \cup {NoLike}]
    BY <1>1 DEF TypeOK, Cast
  <2> QED
    BY <2>1, <2>2, <2>3, <2>4 DEF TypeOK
<1>2. ASSUME NEW v \in Voters, NEW n \in Names, Evict(v, n)
      PROVE TypeOK'
  <2>1. UNCHANGED <<queue, rels, made, ups, downs, karma, karmaSet, kept, likes, spam, at,
          vote, got, lack, rel, name, valid, isNew, old, last, slip, overtaken, began,
          casts>>
    BY <1>2 DEF Evict
  <2>2. mishaps' \in 0..MaxMishaps
    BY <1>2 DEF TypeOK, Evict
  <2>3. keys' \in [Voters -> [Names -> Answers]]
    BY <1>2 DEF TypeOK, Evict, Answers
  <2> QED
    BY <2>1, <2>2, <2>3 DEF TypeOK
<1>3. ASSUME NEW v \in Voters, Ban(v)
      PROVE TypeOK'
  <2>1. UNCHANGED <<queue, rels, made, keys, ups, downs, karma, karmaSet, kept, likes, at,
          vote, got, lack, rel, name, valid, isNew, old, last, slip, overtaken, began,
          casts>>
    BY <1>3 DEF Ban
  <2>2. mishaps' \in 0..MaxMishaps
    BY <1>3 DEF TypeOK, Ban
  <2>3. spam' \in SUBSET Voters
    BY <1>3 DEF TypeOK, Ban
  <2> QED
    BY <2>1, <2>2, <2>3 DEF TypeOK
<1>4. ASSUME NEW c \in Consumers, Take(c)
      PROVE TypeOK'
  <2>1. UNCHANGED <<rels, made, keys, ups, downs, karma, karmaSet, kept, likes, spam, got,
          lack, rel, name, valid, isNew, old, last, began, casts, mishaps>>
    BY <1>4 DEF Take
  <2>2. queue' \in SUBSET Vote
    BY <1>4 DEF TypeOK, Take
  <2>3. vote' \in [Consumers -> Vote]
    BY <1>4 DEF TypeOK, Take
  <2>4. at' \in [Consumers -> Places]
    BY <1>4 DEF TypeOK, Take, Places, Counting
  <2>5. slip' \in BOOLEAN
    BY <1>4 DEF TypeOK, Take
  <2>6. overtaken' \in SUBSET Voters
    BY <1>4 DEF TypeOK, Take, Vote
  <2> QED
    BY <2>1, <2>2, <2>3, <2>4, <2>5, <2>6 DEF TypeOK
<1>5. ASSUME NEW c \in Consumers, Lookup(c)
      PROVE TypeOK'
  <2>1. UNCHANGED <<queue, rels, made, keys, ups, downs, karma, karmaSet, kept, likes,
          spam, vote, rel, name, valid, isNew, old, last, slip, overtaken, began,
          casts, mishaps>>
    BY <1>5 DEF Lookup
  <2>2. got' \in [Consumers -> [Names -> Answers]]
    BY <1>5, HandTyped DEF TypeOK, Lookup
  <2>3. lack' \in [Consumers -> SUBSET Names]
    BY <1>5 DEF TypeOK, Lookup
  <2>4. at' \in [Consumers -> Places]
    BY <1>5 DEF TypeOK, Lookup, Places, Counting
  <2> QED
    BY <2>1, <2>2, <2>3, <2>4 DEF TypeOK
<1>6. ASSUME NEW c \in Consumers, Query(c)
      PROVE TypeOK'
  <2>1. UNCHANGED <<queue, rels, made, keys, ups, downs, karma, karmaSet, kept, likes,
          spam, vote, lack, rel, name, valid, isNew, old, last, slip, overtaken, began,
          casts, mishaps>>
    BY <1>6 DEF Query
  <2>2. got' \in [Consumers -> [Names -> Answers]]
    BY <1>6, FoundIsRow, HandTyped DEF TypeOK, Query, Answers, Rels
  <2>3. at' \in [Consumers -> Places]
    BY <1>6 DEF TypeOK, Query, Places, Counting
  <2> QED
    BY <2>1, <2>2, <2>3 DEF TypeOK
<1>7. ASSUME NEW c \in Consumers, Decide(c)
      PROVE TypeOK'
  <2>1. UNCHANGED <<queue, rels, made, ups, downs, karma, karmaSet, kept, likes, spam,
          vote, got, lack, name, last, slip, overtaken, began, casts, mishaps>>
    BY <1>7 DEF Decide
  <2>2. keys' \in [Voters -> [Names -> Answers]]
    BY <1>7, HandTyped DEF TypeOK, Decide
  <2>9. PICK i \in IF Rows(c) = {} THEN {Nothing} ELSE Rows(c) :
             /\ rel' = [rel EXCEPT ![c] = i]
             /\ old' = [old EXCEPT ![c] = IF i = Nothing THEN 0 ELSE rels[i].name]
    BY <1>7 DEF Decide
  <2>10. i \in {Nothing} \cup Rels
    BY <2>9, RowsTyped, <1>7
  <2>11. (IF i = Nothing THEN 0 ELSE rels[i].name) \in Names
    BY <2>10 DEF TypeOK, Row, Names, Rels
  <2>3. rel' \in [Consumers -> {Nothing} \cup Rels]
    BY <2>9, <2>10 DEF TypeOK
  <2>4. isNew' \in [Consumers -> BOOLEAN]
    BY <1>7 DEF TypeOK, Decide
  <2>5. old' \in [Consumers -> Names]
    BY <2>9, <2>11 DEF TypeOK
  <2>6. valid' \in [Consumers -> BOOLEAN]
    BY <1>7 DEF TypeOK, Decide
  <2>7. at' \in [Consumers -> Places]
    BY <1>7 DEF TypeOK, Decide, Places, Counting
  <2> QED
    BY <2>1, <2>2, <2>3, <2>4, <2>5, <2>6, <2>7 DEF TypeOK
<1>8. ASSUME NEW c \in Consumers, Commit(c), Insert(c)
      PROVE TypeOK'
  <2>1. UNCHANGED <<queue, keys, ups, downs, karma, karmaSet, kept, likes, spam, vote,
          got, lack, valid, isNew, old, last, slip, overtaken, casts, mishaps>>
    BY <1>8 DEF Commit, Insert
  <2>2. rels' \in [Rels -> Row]
    BY <1>8, HandTyped DEF TypeOK, Commit, Insert, Row, Rels
  <2>3. made' \in 0..MaxRels
    BY <1>8 DEF TypeOK, Commit, Insert
  <2>4. rel' \in [Consumers -> {Nothing} \cup Rels]
    BY <1>8, HandTyped DEF TypeOK, Commit, Insert, Rels
  <2>5. name' \in [Consumers -> Names]
    BY <1>8, HandTyped DEF TypeOK, Commit, Insert
  <2>6. at' \in [Consumers -> Places]
    BY <1>8 DEF TypeOK, Commit, Insert, Places, Counting
  <2>7. began' \in Names \cup {NoLike}
    BY <1>8, HandTyped DEF TypeOK, Commit, Insert
  <2> QED
    BY <2>1, <2>2, <2>3, <2>4, <2>5, <2>6, <2>7 DEF TypeOK
<1>9. ASSUME NEW c \in Consumers, Commit(c), Update(c)
      PROVE TypeOK'
  <2>1. UNCHANGED <<queue, made, keys, ups, downs, karma, karmaSet, likes, spam, vote,
          got, lack, rel, isNew, old, last, slip, overtaken, began, casts, mishaps>>
    BY <1>9 DEF Commit, Update
  <2>2. rel[c] \in 1..made /\ Renamed(c) \in Names /\ rels[rel[c]].name \in Names
    BY <1>9, HandTyped, RowTyped DEF Commit, Update, Rooted, OwnRow, Renamed
  <2>3. rels' \in [Rels -> Row]
    <3>1. rel[c] \in Rels /\ rels[rel[c]] \in Row
        BY <2>2, RowTyped
    <3>2. [rels[rel[c]] EXCEPT !.name = Renamed(c), !.valid = @ /\ valid[c]] \in Row
        BY <2>2, <3>1 DEF Row
    <3> QED
        BY <1>9, <3>1, <3>2 DEF TypeOK, Commit, Update, Row
  <2>4. name' \in [Consumers -> Names]
    BY <1>9, HandTyped, <2>2 DEF TypeOK, Commit, Update
  <2>5. valid' \in [Consumers -> BOOLEAN]
    BY <1>9 DEF TypeOK, Commit, Update
  <2>6. kept' \in Int
    BY <1>9, CountersTyped, <2>2 DEF TypeOK, Commit, Update, Names
  <2>7. at' \in [Consumers -> Places]
    BY <1>9 DEF TypeOK, Commit, Update, Places, Counting
  <2> QED
    BY <2>1, <2>2, <2>3, <2>4, <2>5, <2>6, <2>7 DEF TypeOK
<1>10. ASSUME NEW c \in Consumers, Duplicate(c)
      PROVE TypeOK'
  <2>1. UNCHANGED <<queue, rels, made, keys, ups, downs, karma, karmaSet, kept, likes,
          spam, vote, got, lack, rel, name, valid, isNew, old, last, slip,
          overtaken, began, casts, mishaps>>
    BY <1>10 DEF Duplicate
  <2>2. at' \in [Consumers -> Places]
    BY <1>10 DEF TypeOK, Duplicate, Places, Counting
  <2> QED
    BY <2>1, <2>2 DEF TypeOK
<1>11. ASSUME NEW c \in Consumers, SetKey(c)
      PROVE TypeOK'
  <2>1. UNCHANGED <<queue, rels, made, ups, downs, karma, karmaSet, kept, likes, spam,
          vote, got, lack, rel, name, valid, isNew, old, last, slip, overtaken, began,
          casts, mishaps>>
    BY <1>11 DEF SetKey
  <2>2. keys' \in [Voters -> [Names -> Answers]]
    BY <1>11, HandTyped DEF TypeOK, SetKey, NewKey, Answers
  <2>3. at' \in [Consumers -> Places]
    BY <1>11 DEF TypeOK, SetKey, Places, Counting
  <2> QED
    BY <2>1, <2>2, <2>3 DEF TypeOK
<1>12. ASSUME NEW c \in Consumers, IncrUps(c)
      PROVE TypeOK'
  <2>1. UNCHANGED <<queue, rels, made, keys, downs, karma, karmaSet, kept, likes, spam,
          vote, got, lack, rel, name, valid, isNew, old, last, slip, overtaken, began,
          casts, mishaps>>
    BY <1>12 DEF IncrUps
  <2>2. ups' \in Int
    <3>1. Amount(c) \in Names /\ old[c] \in Names
        BY <1>12, HandTyped
    <3>2. UpChange(Amount(c), old[c]) \in Int
        BY <3>1, ScoreChanges
    <3> QED
        BY <1>12, <3>2, CountersTyped DEF IncrUps
  <2>3. at' \in [Consumers -> Places]
    BY <1>12 DEF TypeOK, IncrUps, Places, Counting
  <2> QED
    BY <2>1, <2>2, <2>3 DEF TypeOK
<1>13. ASSUME NEW c \in Consumers, IncrDowns(c)
      PROVE TypeOK'
  <2>1. UNCHANGED <<queue, rels, made, keys, ups, karma, karmaSet, kept, likes, spam,
          vote, got, lack, rel, name, valid, isNew, old, last, slip, overtaken, began,
          casts, mishaps>>
    BY <1>13 DEF IncrDowns
  <2>2. downs' \in Int
    <3>1. Amount(c) \in Names /\ old[c] \in Names
        BY <1>13, HandTyped
    <3>2. DownChange(Amount(c), old[c]) \in Int
        BY <3>1, ScoreChanges
    <3> QED
        BY <1>13, <3>2, CountersTyped DEF IncrDowns
  <2>3. at' \in [Consumers -> Places]
    BY <1>13 DEF TypeOK, IncrDowns, Places, Counting
  <2> QED
    BY <2>1, <2>2, <2>3 DEF TypeOK
<1>14. ASSUME NEW c \in Consumers, IncrKarma(c)
      PROVE TypeOK'
  <2>1. UNCHANGED <<queue, rels, made, keys, ups, downs, karmaSet, kept, likes, spam,
          vote, got, lack, rel, name, valid, isNew, old, last, slip, overtaken, began,
          casts, mishaps>>
    BY <1>14 DEF IncrKarma
  <2>2. karma' \in Int
    <3>1. Amount(c) \in Names /\ old[c] \in Names
        BY <1>14, HandTyped
    <3>2. UpChange(Amount(c), old[c]) \in Int /\ DownChange(Amount(c), old[c]) \in Int
        BY <3>1, ScoreChanges
    <3>3. KarmaChange(c) \in Int /\ karma \in Int
        BY <3>2, CountersTyped DEF KarmaChange
    <3>4. karma' = karma \/ karma' = karma + KarmaChange(c)
        BY <1>14 DEF IncrKarma
    <3> QED
        BY <3>3, <3>4
  <2>3. at' \in [Consumers -> Places]
    BY <1>14 DEF TypeOK, IncrKarma, Places, Counting
  <2> QED
    BY <2>1, <2>2, <2>3 DEF TypeOK
<1>15. ASSUME NEW c \in Consumers, NoKarma(c)
      PROVE TypeOK'
  <2>1. UNCHANGED <<queue, rels, made, keys, ups, downs, karma, karmaSet, kept, likes,
          spam, vote, got, lack, rel, name, valid, isNew, old, last, began, overtaken,
          casts, mishaps>>
    BY <1>15 DEF NoKarma
  <2>2. at' \in [Consumers -> Places]
    BY <1>15 DEF TypeOK, NoKarma, Places, Counting
  <2>3. slip' \in BOOLEAN
    BY <1>15 DEF TypeOK, NoKarma
  <2> QED
    BY <2>1, <2>2, <2>3 DEF TypeOK
<1>16. ASSUME NEW c \in Consumers, FirstKarma(c)
      PROVE TypeOK'
  <2>1. UNCHANGED <<queue, rels, made, keys, ups, downs, kept, likes, spam, vote, got,
          lack, rel, name, valid, isNew, old, last, slip, overtaken, began, casts,
          mishaps>>
    BY <1>16 DEF FirstKarma
  <2>2. karma' \in Int
    <3>1. Amount(c) \in Names /\ old[c] \in Names
        BY <1>16, HandTyped
    <3>2. KarmaChange(c) \in Int
        BY <3>1, ScoreChanges DEF KarmaChange
    <3> QED
        BY <1>16, <3>2 DEF FirstKarma
  <2>3. karmaSet' \in BOOLEAN
    BY <1>16 DEF TypeOK, FirstKarma
  <2>4. at' \in [Consumers -> Places]
    BY <1>16 DEF TypeOK, FirstKarma, Places, Counting
  <2> QED
    BY <2>1, <2>2, <2>3, <2>4 DEF TypeOK
<1>17. ASSUME NEW c \in Consumers, Copy(c)
      PROVE TypeOK'
  <2>1. UNCHANGED <<queue, rels, made, keys, ups, downs, karma, karmaSet, kept, spam,
          vote, got, lack, rel, name, valid, isNew, old, last, slip, overtaken, began,
          casts, mishaps>>
    BY <1>17 DEF Copy
  <2>2. likes' \in [Voters -> Names \cup {NoLike}]
    BY <1>17, HandTyped DEF TypeOK, Copy, Copied
  <2>3. at' \in [Consumers -> Places]
    BY <1>17 DEF TypeOK, Copy, Places, Counting
  <2> QED
    BY <2>1, <2>2, <2>3 DEF TypeOK
<1>18. ASSUME NEW c \in Consumers, Ack(c)
      PROVE TypeOK'
  <2>1. UNCHANGED <<queue, rels, made, keys, ups, downs, karma, karmaSet, kept, likes,
          spam, last, slip, overtaken, began, casts, mishaps>>
    BY <1>18 DEF Ack, Reset
  <2>2. at' \in [Consumers -> Places]
    BY <1>18 DEF TypeOK, Ack, Reset, Places, Counting
  <2>3. vote' \in [Consumers -> Vote]
    BY <1>18, NoVoteTyped DEF TypeOK, Ack, Reset
  <2>4. got' \in [Consumers -> [Names -> Answers]]
    BY <1>18 DEF TypeOK, Ack, Reset, Answers
  <2>5. lack' \in [Consumers -> SUBSET Names]
    BY <1>18 DEF TypeOK, Ack, Reset
  <2>6. rel' \in [Consumers -> {Nothing} \cup Rels]
    BY <1>18 DEF TypeOK, Ack, Reset
  <2>7. name' \in [Consumers -> Names]
    BY <1>18 DEF TypeOK, Ack, Reset, Names
  <2>8. valid' \in [Consumers -> BOOLEAN]
    BY <1>18 DEF TypeOK, Ack, Reset
  <2>9. isNew' \in [Consumers -> BOOLEAN]
    BY <1>18 DEF TypeOK, Ack, Reset
  <2>10. old' \in [Consumers -> Names]
    BY <1>18 DEF TypeOK, Ack, Reset, Names
  <2> QED
    BY <2>1, <2>2, <2>3, <2>4, <2>5, <2>6, <2>7, <2>8, <2>9, <2>10 DEF TypeOK
<1>19. ASSUME NEW c \in Consumers, Crash(c)
      PROVE TypeOK'
  <2>1. UNCHANGED <<rels, made, keys, ups, downs, karma, karmaSet, kept, likes, spam,
          last, began, overtaken, casts>>
    BY <1>19 DEF Crash, Reset
  <2>2. mishaps' \in 0..MaxMishaps
    BY <1>19 DEF TypeOK, Crash, Reset
  <2>3. queue' \in SUBSET Vote
    BY <1>19, HandTyped DEF TypeOK, Crash, Reset
  <2>4. slip' \in BOOLEAN
    BY <1>19 DEF TypeOK, Crash, Reset
  <2>5. at' \in [Consumers -> Places]
    BY <1>19 DEF TypeOK, Crash, Reset, Places, Counting
  <2>6. vote' \in [Consumers -> Vote]
    BY <1>19, NoVoteTyped DEF TypeOK, Crash, Reset
  <2>7. got' \in [Consumers -> [Names -> Answers]]
    BY <1>19 DEF TypeOK, Crash, Reset, Answers
  <2>8. lack' \in [Consumers -> SUBSET Names]
    BY <1>19 DEF TypeOK, Crash, Reset
  <2>9. rel' \in [Consumers -> {Nothing} \cup Rels]
    BY <1>19 DEF TypeOK, Crash, Reset
  <2>10. name' \in [Consumers -> Names]
    BY <1>19 DEF TypeOK, Crash, Reset, Names
  <2>11. valid' \in [Consumers -> BOOLEAN]
    BY <1>19 DEF TypeOK, Crash, Reset
  <2>12. isNew' \in [Consumers -> BOOLEAN]
    BY <1>19 DEF TypeOK, Crash, Reset
  <2>13. old' \in [Consumers -> Names]
    BY <1>19 DEF TypeOK, Crash, Reset, Names
  <2> QED
    BY <2>1, <2>2, <2>3, <2>4, <2>5, <2>6, <2>7, <2>8, <2>9, <2>10, <2>11, <2>12, <2>13 DEF TypeOK
<1>90. CASE UNCHANGED vars
    BY <1>90 DEF TypeOK, vars
<1> QED
    BY <1>1, <1>2, <1>3, <1>4, <1>5, <1>6, <1>7, <1>8, <1>9, <1>10, <1>11, <1>12, <1>13, <1>14, <1>15, <1>16, <1>17, <1>18, <1>19, <1>90 DEF Next, Handle, Commit

-----------------------------------------------------------------------------
(* Steps: what a consumer's step leaves alone, and where it comes from.     *)

Local(c) ==
    <<at[c], vote[c], got[c], lack[c], rel[c], name[c], valid[c], isNew[c], old[c]>>

\* The steps of application servers, moderators and memcached.
Outside ==
    \/ \E v \in Voters, n \in Names : Cast(v, n) \/ Evict(v, n)
    \/ \E v \in Voters : Ban(v)
    \/ UNCHANGED vars

LEMMA OutsideStep ==
    ASSUME TypeOK, Outside
    PROVE  /\ UNCHANGED <<rels, made, counts, likes, found, at, object, slip, overtaken, began>>
           /\ UNCHANGED <<queue, last>> \/ UNCHANGED keys
           /\ \A w \in Voters, m \in Names : keys'[w][m] \in {keys[w][m], Absent}
<1> USE DEF store, counts, found, object, history, Mishap
<1>1. ASSUME NEW v \in Voters, NEW n \in Names, Cast(v, n)
      PROVE  /\ UNCHANGED <<rels, made, counts, likes, found, at, object, slip, overtaken, began>>
             /\ UNCHANGED <<queue, last>> \/ UNCHANGED keys
             /\ \A w \in Voters, m \in Names : keys'[w][m] \in {keys[w][m], Absent}
    BY <1>1 DEF Cast
<1>2. ASSUME NEW v \in Voters, NEW n \in Names, Evict(v, n)
      PROVE  /\ UNCHANGED <<rels, made, counts, likes, found, at, object, slip, overtaken, began>>
             /\ UNCHANGED <<queue, last>> \/ UNCHANGED keys
             /\ \A w \in Voters, m \in Names : keys'[w][m] \in {keys[w][m], Absent}
    BY <1>2 DEF Evict, TypeOK
<1>3. ASSUME NEW v \in Voters, Ban(v)
      PROVE  /\ UNCHANGED <<rels, made, counts, likes, found, at, object, slip, overtaken, began>>
             /\ UNCHANGED <<queue, last>> \/ UNCHANGED keys
             /\ \A w \in Voters, m \in Names : keys'[w][m] \in {keys[w][m], Absent}
    BY <1>3 DEF Ban
<1>4. CASE UNCHANGED vars
    BY <1>4 DEF vars
<1> QED
    BY <1>1, <1>2, <1>3, <1>4 DEF Outside

\* A step is one consumer's or it is outside.
LEMMA StepIs == [Next]_vars => Outside \/ \E c \in Consumers : Handle(c)
    BY DEF Next, Outside

\* The other consumers keep what they have.
LEMMA OthersStay ==
    ASSUME TypeOK, NEW c \in Consumers, Handle(c)
    PROVE  \A d \in Consumers \ {c} : UNCHANGED Local(d)
<1> USE DEF found, object, history, Goto, Local, Reset, Insert, Update
<1>1. CASE Take(c)
    BY <1>1 DEF TypeOK, Take
<1>2. CASE Lookup(c)
    BY <1>2 DEF TypeOK, Lookup
<1>3. CASE Query(c)
    BY <1>3 DEF TypeOK, Query
<1>4. CASE Decide(c)
    BY <1>4 DEF TypeOK, Decide
<1>5. CASE Commit(c)
    BY <1>5 DEF TypeOK, Commit
<1>6. CASE Duplicate(c)
    BY <1>6 DEF TypeOK, Duplicate
<1>7. CASE SetKey(c)
    BY <1>7 DEF TypeOK, SetKey
<1>8. CASE IncrUps(c)
    BY <1>8 DEF TypeOK, IncrUps
<1>9. CASE IncrDowns(c)
    BY <1>9 DEF TypeOK, IncrDowns
<1>10. CASE IncrKarma(c)
    BY <1>10 DEF TypeOK, IncrKarma
<1>11. CASE NoKarma(c)
    BY <1>11 DEF TypeOK, NoKarma
<1>12. CASE FirstKarma(c)
    BY <1>12 DEF TypeOK, FirstKarma
<1>13. CASE Copy(c)
    BY <1>13 DEF TypeOK, Copy
<1>14. CASE Ack(c)
    BY <1>14 DEF TypeOK, Ack
<1>15. CASE Crash(c)
    BY <1>15 DEF TypeOK, Crash
<1> QED
    BY <1>1, <1>2, <1>3, <1>4, <1>5, <1>6, <1>7, <1>8, <1>9, <1>10, <1>11, <1>12, <1>13, <1>14, <1>15 DEF Handle

\* Where a consumer is, and by which step it got there.
CameTo(c) ==
    /\ at'[c] \in Places
    /\ at'[c] = "idle" => Ack(c) \/ Crash(c)
    /\ at'[c] = "lookup" => Take(c)
    /\ at'[c] = "query" => Lookup(c)
    /\ at'[c] = "decide" => Lookup(c) \/ Query(c)
    /\ at'[c] = "commit" => Decide(c)
    /\ at'[c] = "key" => Commit(c)
    /\ at'[c] = "ups" => SetKey(c)
    /\ at'[c] = "downs" => IncrUps(c)
    /\ at'[c] = "karma" => IncrDowns(c)
    /\ at'[c] = "first" => NoKarma(c)
    /\ at'[c] = "copy" => IncrKarma(c) \/ FirstKarma(c)
    /\ at'[c] = "ack" => Copy(c) \/ Duplicate(c)

LEMMA StepGoes ==
    ASSUME TypeOK, NEW c \in Consumers, Handle(c)
    PROVE  CameTo(c)
<1> USE DEF Goto, Reset, CameTo, Places, Counting
<1>1. CASE Take(c)
    BY <1>1 DEF TypeOK, Take
<1>2. CASE Lookup(c)
    BY <1>2 DEF TypeOK, Lookup
<1>3. CASE Query(c)
    BY <1>3 DEF TypeOK, Query
<1>4. CASE Decide(c)
    BY <1>4 DEF TypeOK, Decide
<1>5. CASE Commit(c)
    BY <1>5 DEF TypeOK, Commit
<1>6. CASE Duplicate(c)
    BY <1>6 DEF TypeOK, Duplicate
<1>7. CASE SetKey(c)
    BY <1>7 DEF TypeOK, SetKey
<1>8. CASE IncrUps(c)
    BY <1>8 DEF TypeOK, IncrUps
<1>9. CASE IncrDowns(c)
    BY <1>9 DEF TypeOK, IncrDowns
<1>10. CASE IncrKarma(c)
    BY <1>10 DEF TypeOK, IncrKarma
<1>11. CASE NoKarma(c)
    BY <1>11 DEF TypeOK, NoKarma
<1>12. CASE FirstKarma(c)
    BY <1>12 DEF TypeOK, FirstKarma
<1>13. CASE Copy(c)
    BY <1>13 DEF TypeOK, Copy
<1>14. CASE Ack(c)
    BY <1>14 DEF TypeOK, Ack
<1>15. CASE Crash(c)
    BY <1>15 DEF TypeOK, Crash
<1> QED
    BY <1>1, <1>2, <1>3, <1>4, <1>5, <1>6, <1>7, <1>8, <1>9, <1>10, <1>11, <1>12, <1>13, <1>14, <1>15 DEF Handle

\* A consumer keeps its vote until it is done with it.
LEMMA VoteStays ==
    ASSUME TypeOK, NEW c \in Consumers, Handle(c)
    PROVE  Take(c) \/ at'[c] = "idle" \/ UNCHANGED vote
<1> USE DEF found, Goto, Reset
<1>1. CASE Take(c)
    BY <1>1 DEF TypeOK, Take
<1>2. CASE Lookup(c)
    BY <1>2 DEF TypeOK, Lookup
<1>3. CASE Query(c)
    BY <1>3 DEF TypeOK, Query
<1>4. CASE Decide(c)
    BY <1>4 DEF TypeOK, Decide
<1>5. CASE Commit(c)
    BY <1>5 DEF TypeOK, Commit
<1>6. CASE Duplicate(c)
    BY <1>6 DEF TypeOK, Duplicate
<1>7. CASE SetKey(c)
    BY <1>7 DEF TypeOK, SetKey
<1>8. CASE IncrUps(c)
    BY <1>8 DEF TypeOK, IncrUps
<1>9. CASE IncrDowns(c)
    BY <1>9 DEF TypeOK, IncrDowns
<1>10. CASE IncrKarma(c)
    BY <1>10 DEF TypeOK, IncrKarma
<1>11. CASE NoKarma(c)
    BY <1>11 DEF TypeOK, NoKarma
<1>12. CASE FirstKarma(c)
    BY <1>12 DEF TypeOK, FirstKarma
<1>13. CASE Copy(c)
    BY <1>13 DEF TypeOK, Copy
<1>14. CASE Ack(c)
    BY <1>14 DEF TypeOK, Ack
<1>15. CASE Crash(c)
    BY <1>15 DEF TypeOK, Crash
<1> QED
    BY <1>1, <1>2, <1>3, <1>4, <1>5, <1>6, <1>7, <1>8, <1>9, <1>10, <1>11, <1>12, <1>13, <1>14, <1>15 DEF Handle

\* Rows change by commits only.
LEMMA RowsChange ==
    ASSUME TypeOK, NEW c \in Consumers, Handle(c)
    PROVE  Commit(c) \/ UNCHANGED <<rels, made, kept, began>>
<1> USE DEF store, counts, history
<1>1. CASE Take(c)
    BY <1>1 DEF Take
<1>2. CASE Lookup(c)
    BY <1>2 DEF Lookup
<1>3. CASE Query(c)
    BY <1>3 DEF Query
<1>4. CASE Decide(c)
    BY <1>4 DEF Decide
<1>6. CASE Duplicate(c)
    BY <1>6 DEF Duplicate
<1>7. CASE SetKey(c)
    BY <1>7 DEF SetKey
<1>8. CASE IncrUps(c)
    BY <1>8 DEF IncrUps
<1>9. CASE IncrDowns(c)
    BY <1>9 DEF IncrDowns
<1>10. CASE IncrKarma(c)
    BY <1>10 DEF IncrKarma
<1>11. CASE NoKarma(c)
    BY <1>11 DEF NoKarma
<1>12. CASE FirstKarma(c)
    BY <1>12 DEF FirstKarma
<1>13. CASE Copy(c)
    BY <1>13 DEF Copy
<1>14. CASE Ack(c)
    BY <1>14 DEF Ack
<1>15. CASE Crash(c)
    BY <1>15 DEF Crash
<1> QED
    BY <1>1, <1>2, <1>3, <1>4, <1>6, <1>7, <1>8, <1>9, <1>10, <1>11, <1>12, <1>13, <1>14, <1>15 DEF Handle

\* Keys change when a lookup is cached and when the key of a new name is set.
LEMMA KeysChange ==
    ASSUME TypeOK, NEW c \in Consumers, Handle(c)
    PROVE  Decide(c) \/ SetKey(c) \/ UNCHANGED keys
<1> USE DEF store
<1>1. CASE Take(c)
    BY <1>1 DEF Take
<1>2. CASE Lookup(c)
    BY <1>2 DEF Lookup
<1>3. CASE Query(c)
    BY <1>3 DEF Query
<1>5. CASE Commit(c)
    BY <1>5 DEF Commit, Insert, Update
<1>6. CASE Duplicate(c)
    BY <1>6 DEF Duplicate
<1>8. CASE IncrUps(c)
    BY <1>8 DEF IncrUps
<1>9. CASE IncrDowns(c)
    BY <1>9 DEF IncrDowns
<1>10. CASE IncrKarma(c)
    BY <1>10 DEF IncrKarma
<1>11. CASE NoKarma(c)
    BY <1>11 DEF NoKarma
<1>12. CASE FirstKarma(c)
    BY <1>12 DEF FirstKarma
<1>13. CASE Copy(c)
    BY <1>13 DEF Copy
<1>14. CASE Ack(c)
    BY <1>14 DEF Ack
<1>15. CASE Crash(c)
    BY <1>15 DEF Crash
<1> QED
    BY <1>1, <1>2, <1>3, <1>5, <1>6, <1>8, <1>9, <1>10, <1>11, <1>12, <1>13, <1>14, <1>15 DEF Handle

\* A commit writes one row, of its voter: a new one...
LEMMA Inserts ==
    ASSUME TypeOK, Rooted, NEW c \in Consumers, Commit(c), isNew[c]
    PROVE  /\ Insert(c) /\ made' = made + 1 /\ rel'[c] = made' /\ kept' = kept
           /\ rels'[made'].voter = Voter(c) /\ rels'[made'].name = Amount(c)
           /\ rels'[made'].valid = valid[c]
           /\ \A i \in 1..made : rels'[i] = rels[i]
           /\ name'[c] = Amount(c) /\ valid'[c] = valid[c]
<1>1. Insert(c)
    BY DEF Commit, Update
<1>2. made \in Nat /\ made + 1 \in Rels /\ made' = made + 1
    BY <1>1 DEF TypeOK, Insert, Rels
<1> QED
    BY <1>1, <1>2 DEF TypeOK, Insert

\* ... or the one it found.
LEMMA Updates ==
    ASSUME TypeOK, Rooted, NEW c \in Consumers, Commit(c), ~isNew[c]
    PROVE  /\ Update(c) /\ made' = made /\ rel' = rel /\ OwnRow(Voter(c), rel[c])
           /\ rels'[rel[c]].voter = Voter(c) /\ rels'[rel[c]].name = Renamed(c)
           /\ rels'[rel[c]].valid = (rels[rel[c]].valid /\ valid[c])
           /\ \A i \in 1..made : i # rel[c] => rels'[i] = rels[i]
           /\ name'[c] = Renamed(c) /\ valid'[c] = (rels[rel[c]].valid /\ valid[c])
<1>1. Update(c)
    BY DEF Commit, Insert
<1>2. OwnRow(Voter(c), rel[c])
    BY DEF Commit, Rooted
<1>3. rel[c] \in Rels /\ rels[rel[c]] \in Row
    BY <1>2, RowTyped DEF OwnRow
<1>4. rels[rel[c]].voter = Voter(c)
    BY <1>2 DEF OwnRow
<1>5. PICK ok \in BOOLEAN :
          /\ ok = (rels[rel[c]].valid /\ valid[c])
          /\ rels' = [rels EXCEPT ![rel[c]] = [rels[rel[c]] EXCEPT !.name = Renamed(c), !.valid = ok]]
    BY <1>1 DEF Update
<1>6. /\ rels'[rel[c]].voter = Voter(c) /\ rels'[rel[c]].name = Renamed(c)
      /\ rels'[rel[c]].valid = ok
  <2>1. rels'[rel[c]] = [rels[rel[c]] EXCEPT !.name = Renamed(c), !.valid = ok]
    BY <1>3, <1>5 DEF TypeOK
  <2> QED
    BY <2>1, <1>3, <1>4 DEF Row
<1>7. \A i \in 1..made : i # rel[c] => rels'[i] = rels[i]
    BY <1>5, RowTyped DEF TypeOK
<1>8. made' = made /\ rel' = rel
    BY <1>1 DEF Update
<1>9. name'[c] = Renamed(c) /\ valid'[c] = (rels[rel[c]].valid /\ valid[c])
    BY <1>1 DEF Update, TypeOK
<1> QED
    BY <1>1, <1>2, <1>5, <1>6, <1>7, <1>8, <1>9

\* Rows stay, with their voters; new ones are of the voter at work.
LEMMA RowsStay ==
    ASSUME TypeOK, Rooted, NEW c \in Consumers, Handle(c)
    PROVE  /\ \A v, i : OwnRow(v, i) => OwnRow(v, i)'
           /\ \A i \in 1..made' : rels'[i].voter # Voter(c) => i \in 1..made /\ rels'[i] = rels[i]
           /\ ~Commit(c) \/ ~isNew[c] => made' = made
           /\ made \in Nat /\ made' \in Nat
<1>0. made \in Nat
    BY DEF TypeOK
<1>1. CASE Commit(c) /\ isNew[c]
  <2>1. /\ made' = made + 1 /\ rels'[made'].voter = Voter(c)
        /\ \A i \in 1..made : rels'[i] = rels[i]
    BY <1>1, Inserts
  <2>2. \A i \in 1..made' : i \in 1..made \/ i = made'
    BY <1>0, <2>1
  <2>3. \A i \in 1..made : i \in 1..made'
    BY <1>0, <2>1
  <2>4. \A v, i : OwnRow(v, i) => OwnRow(v, i)'
    BY <2>1, <2>3 DEF OwnRow
  <2> QED
    BY <1>0, <1>1, <2>1, <2>2, <2>4
<1>2. CASE Commit(c) /\ ~isNew[c]
  <2>1. /\ made' = made /\ rels'[rel[c]].voter = Voter(c) /\ rels[rel[c]].voter = Voter(c)
        /\ \A i \in 1..made : i # rel[c] => rels'[i] = rels[i]
    BY <1>2, Updates DEF OwnRow
  <2>2. \A v, i : OwnRow(v, i) => OwnRow(v, i)'
    BY <2>1 DEF OwnRow
  <2> QED
    BY <1>0, <2>1, <2>2
<1>3. CASE ~Commit(c)
    BY <1>0, <1>3, RowsChange DEF OwnRow
<1> QED
    BY <1>1, <1>2, <1>3

\* What a lookup caches, and the key of a new name.
LEMMA KeysWritten ==
    ASSUME TypeOK, NEW c \in Consumers
    PROVE  /\ Decide(c) => \A v \in Voters, n \in Names : keys'[v][n] =
                  IF v = Voter(c) /\ n \in lack[c] THEN got[c][n] ELSE keys[v][n]
           /\ SetKey(c) => \A v \in Voters, n \in Names : keys'[v][n] =
                  IF v = Voter(c) /\ n = name[c] THEN rel[c] ELSE keys[v][n]
<1>1. Voter(c) \in Voters /\ name[c] \in Names
    BY HandTyped
<1>2. ASSUME Decide(c), NEW v \in Voters, NEW n \in Names
      PROVE  keys'[v][n] = IF v = Voter(c) /\ n \in lack[c] THEN got[c][n] ELSE keys[v][n]
    BY <1>1, <1>2 DEF Decide, TypeOK
<1>3. ASSUME SetKey(c), NEW v \in Voters, NEW n \in Names
      PROVE  keys'[v][n] = IF v = Voter(c) /\ n = name[c] THEN rel[c] ELSE keys[v][n]
    BY <1>1, <1>3 DEF SetKey, NewKey, TypeOK
<1> QED
    BY <1>2, <1>3

\* Rows' names are kept in keys, in what a lookup got, and in a consumer's rel.
LEMMA RootedPreserved == TypeOK /\ Rooted /\ [Next]_vars => Rooted'
<1> SUFFICES ASSUME TypeOK, Rooted, [Next]_vars PROVE Rooted'
    OBVIOUS
<1>1. CASE Outside
  <2>1. /\ UNCHANGED <<rels, made, counts, likes, found, at, object, slip, overtaken, began>>
        /\ \A v \in Voters, n \in Names : keys'[v][n] \in {keys[v][n], Absent}
    BY <1>1, OutsideStep
  <2> QED
    BY <2>1 DEF Rooted, OwnRow, found, object, Counting, Voter
<1>2. ASSUME NEW c \in Consumers, Handle(c)
      PROVE  Rooted'
  <2> USE <1>2
  <2>1. \A v, i : OwnRow(v, i) => OwnRow(v, i)'
    BY RowsStay
  <2>2. ASSUME NEW v \in Voters, NEW n \in Names
        PROVE  keys'[v][n] \in {Nothing, Absent} \/ OwnRow(v, keys[v][n])'
    <3>0. keys[v][n] \in {Nothing, Absent} \/ OwnRow(v, keys[v][n])
        BY DEF Rooted
    <3>1. CASE Decide(c)
        <4>1. got[c][n] \in {Nothing, Absent} \/ OwnRow(Voter(c), got[c][n])
            BY <3>1 DEF Rooted, Decide
        <4>2. keys'[v][n] = IF v = Voter(c) /\ n \in lack[c] THEN got[c][n] ELSE keys[v][n]
            BY <3>1, KeysWritten
        <4> QED
            BY <4>1, <4>2, <3>0, <2>1
    <3>2. CASE SetKey(c)
        <4>1. OwnRow(Voter(c), rel[c])
            BY <3>2 DEF Rooted, SetKey, Counting
        <4>2. keys'[v][n] = IF v = Voter(c) /\ n = name[c] THEN rel[c] ELSE keys[v][n]
            BY <3>2, KeysWritten
        <4> QED
            BY <4>1, <4>2, <3>0, <2>1
    <3>3. CASE UNCHANGED keys
        BY <3>0, <3>3, <2>1
    <3> QED
        BY <3>1, <3>2, <3>3, KeysChange
  <2>3. ASSUME NEW d \in Consumers \ {c}
        PROVE  /\ at'[d] \in {"query", "decide"} => \A n \in Names :
                      got'[d][n] \in {Nothing, Absent} \/ OwnRow(Voter(d), got[d][n])'
               /\ at'[d] = "commit" =>
                      IF isNew'[d] THEN rel'[d] = Nothing ELSE OwnRow(Voter(d), rel[d])'
               /\ at'[d] \in Counting \cup {"copy"} => OwnRow(Voter(d), rel[d])'
    <3>1. UNCHANGED Local(d)
        BY OthersStay
    <3>2. /\ at'[d] = at[d] /\ got'[d] = got[d] /\ isNew'[d] = isNew[d] /\ rel'[d] = rel[d]
          /\ Voter(d)' = Voter(d)
        BY <3>1 DEF Local, Voter
    <3> QED
        BY <2>1, <3>2 DEF Rooted
  <2>4. Voter(c)' = Voter(c) \/ at'[c] = "lookup" \/ at'[c] = "idle"
    BY VoteStays DEF Take, Goto, TypeOK, Voter
  <2>5. CameTo(c)
    BY StepGoes
  <2>6. ASSUME at'[c] \in {"query", "decide"}, NEW n \in Names
        PROVE  got'[c][n] \in {Nothing, Absent} \/ OwnRow(Voter(c), got[c][n])'
    <3>1. Voter(c)' = Voter(c) /\ Voter(c) \in Voters
        BY <2>4, <2>6, HandTyped
    <3>2. CASE Lookup(c)
        <4>1. got'[c][n] = keys[Voter(c)][n]
            BY <3>2 DEF Lookup, TypeOK
        <4> QED
            BY <4>1, <3>1, <2>1 DEF Rooted
    <3>3. CASE Query(c)
        <4>1. got'[c][n] = IF n \in lack[c] THEN RowFound(Voter(c), n) ELSE got[c][n]
            BY <3>3 DEF Query, TypeOK
        <4>2. got[c][n] \in {Nothing, Absent} \/ OwnRow(Voter(c), got[c][n])
            BY <3>3 DEF Query, Rooted
        <4>3. RowFound(Voter(c), n) = Nothing \/ OwnRow(Voter(c), RowFound(Voter(c), n))
            BY FoundIsRow
        <4> QED
            BY <4>1, <4>2, <4>3, <3>1, <2>1
    <3> QED
        BY <2>5, <2>6, <3>2, <3>3 DEF CameTo
  <2>7. ASSUME at'[c] = "commit"
        PROVE  IF isNew'[c] THEN rel'[c] = Nothing ELSE OwnRow(Voter(c), rel[c])'
    <3>1. Voter(c)' = Voter(c) /\ Decide(c)
        BY <2>4, <2>5, <2>7 DEF CameTo
    <3>2. PICK i \in IF Rows(c) = {} THEN {Nothing} ELSE Rows(c) :
             /\ rel' = [rel EXCEPT ![c] = i]
             /\ isNew' = [isNew EXCEPT ![c] = (i = Nothing)]
        BY <3>1 DEF Decide
    <3>3. rel'[c] = i /\ (isNew'[c] <=> i = Nothing)
        BY <3>2 DEF TypeOK
    <3>4. i = Nothing \/ OwnRow(Voter(c), i)
        BY <3>1, <3>2 DEF Rows, Rooted, Decide
    <3> QED
        BY <3>1, <3>3, <3>4, <2>1
  <2>8. ASSUME at'[c] \in Counting \cup {"copy"}
        PROVE  OwnRow(Voter(c), rel[c])'
    <3>1. Voter(c)' = Voter(c)
        BY <2>4, <2>8 DEF Counting
    <3>2. CASE Commit(c) /\ isNew[c]
        BY <3>1, <3>2, Inserts, RowsStay DEF OwnRow
    <3>3. CASE Commit(c) /\ ~isNew[c]
        BY <3>1, <3>3, Updates, <2>1
    <3>4. CASE SetKey(c) \/ IncrUps(c) \/ IncrDowns(c) \/ IncrKarma(c) \/ NoKarma(c) \/ FirstKarma(c)
        <4>1. at[c] \in Counting /\ rel' = rel
            BY <3>4 DEF SetKey, IncrUps, IncrDowns, IncrKarma, NoKarma, FirstKarma, Counting, object
        <4> QED
            BY <4>1, <3>1, <2>1 DEF Rooted
    <3> QED
        BY <2>5, <2>8, <3>2, <3>3, <3>4 DEF CameTo, Counting
  <2> QED
    BY <2>2, <2>3, <2>6, <2>7, <2>8 DEF Rooted
<1> QED
    BY <1>1, <1>2, StepIs

\* In every state the types are right and row names lead to rows of the voter.
LEMMA BaseInvariant == Spec => [](TypeOK /\ Rooted)
<1>1. TypeOK /\ Rooted /\ [Next]_vars => (TypeOK /\ Rooted)'
    BY TypesPreserved, RootedPreserved
<1> QED
    BY <1>1, BaseInit, PTL DEF Spec

\* The types of all variables of VoteCount (vote.py, queries.py:1582-1674).
THEOREM Typing == Spec => []TypeOK
    BY BaseInvariant, PTL

-----------------------------------------------------------------------------
(* Until the first slip: one hand for each voter, one row, and keys that    *)
(* lead to it.                                                              *)

\* A step that is not a slip, or does not overtake.
LEMMA SlipsStay ==
    ASSUME TypeOK, [Next]_vars
    PROVE  (slip => slip') /\ overtaken \subseteq overtaken'
<1>1. CASE Outside
    BY <1>1, OutsideStep
<1>2. ASSUME NEW c \in Consumers, Handle(c)
      PROVE  (slip => slip') /\ overtaken \subseteq overtaken'
  <2> USE DEF history
  <2>1. CASE Take(c)
    BY <2>1 DEF Take
  <2>2. CASE NoKarma(c)
    BY <2>2 DEF NoKarma
  <2>3. CASE Crash(c)
    BY <2>3 DEF Crash
  <2>4. CASE Lookup(c) \/ Query(c) \/ Decide(c) \/ Commit(c) \/ Duplicate(c) \/ SetKey(c)
    BY <2>4 DEF Lookup, Query, Decide, Commit, Duplicate, SetKey
  <2>5. CASE IncrUps(c) \/ IncrDowns(c) \/ IncrKarma(c) \/ FirstKarma(c) \/ Copy(c) \/ Ack(c)
    BY <2>5 DEF IncrUps, IncrDowns, IncrKarma, FirstKarma, Copy, Ack
  <2> QED
    BY <1>2, <2>1, <2>2, <2>3, <2>4, <2>5 DEF Handle
<1> QED
    BY <1>1, <1>2, StepIs

\* A consumer becomes active by taking a vote, and stays so until it is done.
LEMMA ActiveStays ==
    ASSUME TypeOK, NEW c \in Consumers, Handle(c), Active(c)'
    PROVE  Take(c) \/ Active(c)
<1>1. CameTo(c) /\ at'[c] \notin {"idle", "ack"}
    BY StepGoes DEF Active
<1>2. at'[c] \in {"query", "decide"} => at[c] \in {"lookup", "query"}
    BY <1>1 DEF CameTo, Lookup, Query
<1>3. at'[c] \in {"commit", "key"} => at[c] \in {"decide", "commit"}
    BY <1>1 DEF CameTo, Decide, Commit
<1>4. at'[c] \in {"ups", "downs", "karma", "first"} => at[c] \in {"key", "ups", "downs", "karma"}
    BY <1>1 DEF CameTo, SetKey, IncrUps, IncrDowns, NoKarma
<1>5. at'[c] = "copy" => at[c] \in {"karma", "first"}
    BY <1>1 DEF CameTo, IncrKarma, FirstKarma
<1>6. at'[c] = "lookup" => Take(c)
    BY <1>1 DEF CameTo
<1> QED
    BY <1>1, <1>2, <1>3, <1>4, <1>5, <1>6 DEF CameTo, Places, Counting, Active

\* So with each of their variables, and what is said of them.
LEMMA OthersSame ==
    ASSUME TypeOK, NEW c \in Consumers, Handle(c), NEW d \in Consumers, d # c
    PROVE  /\ at'[d] = at[d] /\ got'[d] = got[d] /\ lack'[d] = lack[d] /\ rel'[d] = rel[d]
           /\ name'[d] = name[d] /\ valid'[d] = valid[d] /\ isNew'[d] = isNew[d] /\ old'[d] = old[d]
           /\ vote'[d] = vote[d]
           /\ Voter(d)' = Voter(d) /\ Amount(d)' = Amount(d)
           /\ (Active(d)' <=> Active(d)) /\ (HalfCounted(d)' <=> HalfCounted(d))
           /\ (CheckedIn(d)' <=> CheckedIn(d))
<1>1. UNCHANGED Local(d)
    BY OthersStay
<1>2. /\ at'[d] = at[d] /\ got'[d] = got[d] /\ lack'[d] = lack[d] /\ rel'[d] = rel[d]
      /\ name'[d] = name[d] /\ valid'[d] = valid[d] /\ isNew'[d] = isNew[d] /\ old'[d] = old[d]
      /\ vote'[d] = vote[d]
    BY <1>1 DEF Local
<1> QED
    BY <1>2 DEF Voter, Amount, Active, HalfCounted, CheckedIn

\* Outside steps: every consumer is as it was.
LEMMA OutsideSame ==
    ASSUME TypeOK, Outside
    PROVE  /\ UNCHANGED <<rels, made, ups, downs, karma, karmaSet, kept, likes, slip, overtaken, began>>
           /\ UNCHANGED <<at, vote, got, lack, rel, name, valid, isNew, old>>
           /\ \A d : /\ Voter(d)' = Voter(d) /\ Amount(d)' = Amount(d)
                     /\ (Active(d)' <=> Active(d)) /\ (HalfCounted(d)' <=> HalfCounted(d))
                     /\ (CheckedIn(d)' <=> CheckedIn(d))
<1>1. /\ UNCHANGED <<rels, made, ups, downs, karma, karmaSet, kept, likes, slip, overtaken, began>>
      /\ UNCHANGED <<at, vote, got, lack, rel, name, valid, isNew, old>>
    BY OutsideStep DEF counts, found, object
<1> QED
    BY <1>1 DEF Voter, Amount, Active, HalfCounted, CheckedIn

\* What it is to take the vote x.
TakesUp(c, x) ==
    /\ at[c] = "idle" /\ at' = [at EXCEPT ![c] = "lookup"]
    /\ queue' = queue \ {x} /\ vote' = [vote EXCEPT ![c] = x]
    /\ vote'[c] = x /\ at'[c] = "lookup"
    /\ slip' = (slip \/ \E d \in Beside(x.voter) : at[d] # "ack")
    /\ overtaken' = IF Older(x) = {} THEN overtaken ELSE overtaken \cup {x.voter}
    /\ UNCHANGED <<rels, made, likes, last, casts>>

LEMMA Takes ==
    ASSUME TypeOK, NEW c \in Consumers, Take(c)
    PROVE  \E x \in queue : TakesUp(c, x)
    BY DEF Take, TakesUp, Goto, TypeOK, store

\* Taking a vote beside an active consumer of its voter would be a slip.
LEMMA AlonePreserved ==
    ASSUME TypeOK, Alone, [Next]_vars, ~slip'
    PROVE  Alone'
<1>1. CASE Outside
    BY <1>1, OutsideSame DEF Alone
<1>2. ASSUME NEW c \in Consumers, Handle(c)
      PROVE  Alone'
  <2> USE <1>2
  <2>1. ASSUME NEW d \in Consumers, d # c, Active(c)', Active(d)', Voter(c)' = Voter(d)'
        PROVE  FALSE
    <3>1. Active(d) /\ Voter(d)' = Voter(d)
        BY <2>1, OthersSame
    <3>2. CASE Take(c)
        <4>1. PICK x \in queue : TakesUp(c, x)
            BY <3>2, Takes
        <4>2. d \in Beside(x.voter) /\ at[d] # "ack"
            BY <4>1, <3>1, <2>1 DEF TakesUp, Beside, Active, Voter
        <4> QED
            BY <4>1, <4>2 DEF TakesUp
    <3>3. CASE Active(c) /\ ~Take(c)
        <4>1. UNCHANGED vote
            BY <3>3, <2>1, VoteStays DEF Active
        <4> QED
            BY <4>1, <3>1, <3>3, <2>1 DEF Alone, Voter
    <3> QED
        BY <3>2, <3>3, <2>1, ActiveStays
  <2>2. ASSUME NEW d \in Consumers, NEW e \in Consumers, d # c, e # c,
               Active(d)', Active(e)', Voter(d)' = Voter(e)'
        PROVE  d = e
    BY <2>2, OthersSame DEF Alone
  <2> QED
    BY <2>1, <2>2 DEF Alone
<1> QED
    BY <1>1, <1>2, StepIs

\* What is known of a row when its voter is in another hand: that is as it was.
LEMMA RowsElsewhere ==
    ASSUME TypeOK, Rooted, Alone, NEW c \in Consumers, Handle(c),
           NEW d \in Consumers, d # c, Active(d)
    PROVE  \A i : OwnRow(Voter(d), i)' => OwnRow(Voter(d), i) /\ rels'[i] = rels[i]
<1>1. Voter(d)' = Voter(d)
    BY OthersSame
<1>2. CASE Commit(c)
  <2>1. Voter(d) # Voter(c)
    BY <1>2 DEF Alone, Active, Commit
  <2> QED
    BY <1>1, <2>1, RowsStay DEF OwnRow
<1>3. CASE UNCHANGED <<rels, made, kept>>
    BY <1>1, <1>3 DEF OwnRow
<1> QED
    BY <1>2, <1>3, RowsChange

\* What Found says of one consumer.
LEMMA Known ==
    ASSUME Found, NEW c \in Consumers
    PROVE  Looks(c) /\ Knows(c)
    BY DEF Found

\* The others go on knowing what they know.
LEMMA OthersKnow ==
    ASSUME TypeOK, Rooted, Alone, Found, NEW c \in Consumers, Handle(c),
           NEW d \in Consumers, d # c
    PROVE  Looks(d)' /\ Knows(d)'
<1>1. /\ at'[d] = at[d] /\ got'[d] = got[d] /\ lack'[d] = lack[d] /\ rel'[d] = rel[d]
      /\ name'[d] = name[d] /\ valid'[d] = valid[d] /\ isNew'[d] = isNew[d] /\ old'[d] = old[d]
      /\ Voter(d)' = Voter(d) /\ Amount(d)' = Amount(d)
    BY OthersSame
<1>2. \A v, i : OwnRow(v, i) => OwnRow(v, i)'
    BY RowsStay
<1>3. CASE Active(d)
  <2>1. \A i : OwnRow(Voter(d), i)' => OwnRow(Voter(d), i) /\ rels'[i] = rels[i]
    BY <1>3, RowsElsewhere
  <2>2. \A i \in 1..made' : rels'[i].voter = Voter(d) =>
            i \in 1..made /\ rels[i].voter = Voter(d) /\ rels'[i] = rels[i]
    BY <2>1, <1>1 DEF OwnRow
  <2>3. Looks(d)'
    BY <1>1, <2>2, Known DEF Looks
  <2>4. ASSUME OwnRow(Voter(d), rel[d])
        PROVE  rels'[rel[d]] = rels[rel[d]]
    BY <1>1, <1>2, <2>1, <2>4
  <2>5. at[d] \in Counting \cup {"copy"} \/ (at[d] = "commit" /\ ~isNew[d])
            => rels'[rel[d]] = rels[rel[d]]
    BY <2>4 DEF Rooted
  <2>6. Knows(d)'
    BY <1>1, <1>3, <2>2, <2>5, Known DEF Knows, Active
  <2> QED
    BY <2>3, <2>6
<1>4. CASE ~Active(d)
  <2>1. at[d] = "ack" => \E i \in 1..made : OwnRow(Voter(d), i)
    BY Known DEF Knows, OwnRow
  <2>2. at[d] = "ack" => \E i \in 1..made' : rels'[i].voter = Voter(d)
    BY <2>1, <1>1, <1>2 DEF OwnRow
  <2> QED
    BY <1>1, <1>4, <2>2 DEF Active, Looks, Knows, Counting
<1> QED
    BY <1>3, <1>4

\* The one row of a voter is what a consumer finds, decides on and writes.
LEMMA LooksOn ==
    ASSUME TypeOK, Rooted, Alone, Found, NEW c \in Consumers, Handle(c)
    PROVE  Looks(c)'
<1>1. CameTo(c) /\ Voter(c) \in Voters
    BY StepGoes, HandTyped
<1>2. ASSUME at'[c] \in {"query", "decide"}
      PROVE  Voter(c)' = Voter(c) /\ UNCHANGED <<rels, made>>
    BY <1>1, <1>2 DEF CameTo, Lookup, Query, Voter, found, store
<1>3. ASSUME Lookup(c), NEW i \in 1..made, rels[i].voter = Voter(c)
      PROVE  keys[Voter(c)][rels[i].name] \in {i, Absent}
  <2>1. ASSUME NEW d \in Consumers, at[d] = "key", rel[d] = i
        PROVE  FALSE
    <3>1. Voter(d) = Voter(c)
        BY <2>1, <1>3 DEF Rooted, OwnRow, Counting
    <3>2. Active(c) /\ Active(d) /\ d # c
        BY <2>1, <1>3 DEF Lookup, Active
    <3> QED
        BY <3>1, <3>2 DEF Alone
  <2> QED
    BY <1>3, <2>1 DEF Found, KeyFound
<1>4. ASSUME Lookup(c)
      PROVE  /\ got'[c] = keys[Voter(c)]
             /\ lack'[c] = {n \in Names : got'[c][n] = Absent}
             /\ at'[c] = IF lack'[c] = {} THEN "decide" ELSE "query"
    BY <1>4 DEF Lookup, TypeOK, Goto
<1>5. ASSUME at'[c] = "query"
      PROVE  Looks(c)'
    BY <1>1, <1>2, <1>3, <1>4, <1>5 DEF CameTo, Looks
<1>6. ASSUME at'[c] = "decide", NEW i \in 1..made, rels[i].voter = Voter(c)
      PROVE  got'[c][rels[i].name] = i
  <2>1. rels[i].name \in Names
    BY RowTyped
  <2>2. CASE Lookup(c)
    <3>1. {n \in Names : got'[c][n] = Absent} = {}
        BY <2>2, <1>4, <1>6
    <3> QED
        BY <3>1, <2>1, <2>2, <1>3, <1>4, <1>6
  <2>3. CASE Query(c)
    <3>1. got'[c][rels[i].name] =
              IF rels[i].name \in lack[c] THEN RowFound(Voter(c), rels[i].name) ELSE got[c][rels[i].name]
        BY <2>1, <2>3 DEF Query, TypeOK
    <3>2. i \in RowsOf(Voter(c), rels[i].name)
        BY <1>6 DEF RowsOf
    <3>3. RowFound(Voter(c), rels[i].name) = i
        BY <3>2, <1>6, FoundIsRow DEF Found, OneRow, OwnRow
    <3>4. lack[c] = {n \in Names : got[c][n] = Absent} /\ got[c][rels[i].name] \in {i, Absent}
        BY <2>3, <1>6, Known DEF Looks, Query
    <3> QED
        BY <2>1, <3>1, <3>3, <3>4
  <2> QED
    BY <2>2, <2>3, <1>1, <1>6 DEF CameTo
<1>7. ASSUME at'[c] = "decide"
      PROVE  Looks(c)'
    BY <1>2, <1>6, <1>7 DEF Looks
<1> QED
    BY <1>5, <1>7 DEF Looks

\* A commit leaves the row with the vote's direction.
LEMMA Written ==
    ASSUME TypeOK, Rooted, Found, NEW c \in Consumers, Commit(c)
    PROVE  /\ name'[c] = Amount(c)
           /\ OwnRow(Voter(c), rel[c])'
           /\ rels'[rel'[c]].name = Amount(c)
           /\ rels'[rel'[c]].valid = valid'[c]
           /\ isNew'[c] = isNew[c] /\ old'[c] = old[c]
           /\ vote'[c] = vote[c] /\ Voter(c)' = Voter(c) /\ Amount(c)' = Amount(c)
           /\ at'[c] = "key"
<1>1. /\ isNew'[c] = isNew[c] /\ old'[c] = old[c]
      /\ vote'[c] = vote[c] /\ Voter(c)' = Voter(c) /\ Amount(c)' = Amount(c)
      /\ at'[c] = "key"
    BY DEF Commit, found, Goto, TypeOK, Voter, Amount
<1>2. CASE isNew[c]
  <2>1. /\ made' = made + 1 /\ rel'[c] = made'
        /\ rels'[made'].voter = Voter(c) /\ rels'[made'].name = Amount(c)
        /\ rels'[made'].valid = valid[c] /\ valid'[c] = valid[c] /\ name'[c] = Amount(c)
    BY <1>2, Inserts
  <2>2. made' \in 1..made'
    BY <2>1 DEF TypeOK
  <2> QED
    BY <1>1, <2>1, <2>2 DEF OwnRow
<1>3. CASE ~isNew[c]
  <2>1. old[c] = rels[rel[c]].name
    BY <1>3, Known DEF Knows, Commit
  <2>2. Renamed(c) = Amount(c)
    BY <2>1 DEF Renamed
  <2>3. /\ made' = made /\ rel' = rel /\ OwnRow(Voter(c), rel[c])
        /\ rels'[rel[c]].voter = Voter(c) /\ rels'[rel[c]].name = Renamed(c)
        /\ rels'[rel[c]].valid = (rels[rel[c]].valid /\ valid[c])
        /\ name'[c] = Renamed(c) /\ valid'[c] = (rels[rel[c]].valid /\ valid[c])
    BY <1>3, Updates
  <2> QED
    BY <1>1, <2>2, <2>3 DEF OwnRow
<1> QED
    BY <1>2, <1>3

\* What the consumer of a step has decided on or written.
LEMMA KnowsOn ==
    ASSUME TypeOK, Rooted, Alone, Found, NEW c \in Consumers, Handle(c)
    PROVE  Knows(c)'
<1>1. CameTo(c)
    BY StepGoes
<1>2. ASSUME at'[c] = "commit"
      PROVE  Knows(c)'
  <2>1. /\ Decide(c) /\ at[c] = "decide" /\ UNCHANGED <<rels, made>>
        /\ Voter(c)' = Voter(c)
    BY <1>1, <1>2 DEF CameTo, Decide, Voter, found
  <2>2. PICK i \in IF Rows(c) = {} THEN {Nothing} ELSE Rows(c) :
             /\ rel' = [rel EXCEPT ![c] = i]
             /\ isNew' = [isNew EXCEPT ![c] = (i = Nothing)]
             /\ old' = [old EXCEPT ![c] = IF i = Nothing THEN 0 ELSE rels[i].name]
    BY <2>1 DEF Decide
  <2>3. /\ rel'[c] = i /\ (isNew'[c] <=> i = Nothing)
        /\ old'[c] = IF i = Nothing THEN 0 ELSE rels[i].name
    BY <2>2 DEF TypeOK
  <2>4. ASSUME i = Nothing, NEW j \in 1..made, rels[j].voter = Voter(c)
        PROVE  FALSE
    <3>1. got[c][rels[j].name] = j /\ rels[j].name \in Names /\ j \notin {Nothing, Absent}
        BY <2>1, <2>4, Known, RowTyped DEF Looks
    <3>2. j \in Rows(c)
        BY <3>1 DEF Rows
    <3> QED
        BY <2>2, <2>4, <3>2 DEF Rows
  <2> QED
    BY <1>2, <2>1, <2>3, <2>4 DEF Knows, Counting
<1>3. CASE Commit(c)
    BY <1>3, Written, Known DEF Knows, Commit, Counting
<1>4. ASSUME at'[c] \in {"ups", "downs", "karma", "first", "copy"}
      PROVE  Knows(c)'
  <2>1. SetKey(c) \/ IncrUps(c) \/ IncrDowns(c) \/ IncrKarma(c) \/ NoKarma(c) \/ FirstKarma(c)
    BY <1>1, <1>4 DEF CameTo
  <2>2. /\ at[c] \in Counting /\ UNCHANGED <<rels, made, rel, name, valid, isNew, old, vote>>
    BY <2>1 DEF SetKey, IncrUps, IncrDowns, IncrKarma, NoKarma, FirstKarma, Counting, object,
                found, store
  <2> QED
    BY <1>4, <2>2, Known DEF Knows, Voter, Amount
<1>5. ASSUME at'[c] = "ack"
      PROVE  \E i \in 1..made' : rels'[i].voter = Voter(c)'
  <2>1. Copy(c) \/ Duplicate(c)
    BY <1>1, <1>5 DEF CameTo
  <2>2. UNCHANGED <<rels, made, vote>>
    BY <2>1 DEF Copy, Duplicate, store, found
  <2>3. CASE Copy(c) \/ ~isNew[c]
    BY <2>1, <2>2, <2>3 DEF Copy, Duplicate, Rooted, OwnRow, Voter
  <2>4. CASE Duplicate(c) /\ isNew[c]
    BY <2>2, <2>4 DEF Duplicate, RowsOf, Voter
  <2> QED
    BY <2>1, <2>3, <2>4
<1>6. CASE at'[c] \notin Counting \cup {"commit", "copy", "ack"}
    BY <1>6 DEF Knows
<1>7. at'[c] = "key" => Commit(c)
    BY <1>1 DEF CameTo
<1> QED
    BY <1>2, <1>3, <1>4, <1>5, <1>6, <1>7 DEF Knows, Counting

\* A second row would need a consumer that missed the first.
LEMMA OneRowPreserved ==
    ASSUME TypeOK, Rooted, Alone, Found, NEW c \in Consumers, Handle(c)
    PROVE  OneRow'
<1>1. CASE Commit(c) /\ isNew[c]
  <2>1. \A i \in 1..made : rels[i].voter # Voter(c)
    BY <1>1, Known DEF Knows, Commit
  <2>2. /\ made' = made + 1 /\ rels'[made'].voter = Voter(c)
        /\ \A i \in 1..made : rels'[i] = rels[i]
    BY <1>1, Inserts
  <2>3. \A i \in 1..made' : i \in 1..made \/ i = made'
    BY <2>2 DEF TypeOK
  <2> QED
    BY <2>1, <2>2, <2>3 DEF Found, OneRow
<1>2. CASE Commit(c) /\ ~isNew[c]
  <2>1. /\ made' = made /\ rels'[rel[c]].voter = rels[rel[c]].voter
        /\ \A i \in 1..made : i # rel[c] => rels'[i] = rels[i]
    BY <1>2, Updates DEF OwnRow
  <2> QED
    BY <2>1 DEF Found, OneRow
<1>3. CASE UNCHANGED <<rels, made, kept>>
    BY <1>3 DEF Found, OneRow
<1> QED
    BY <1>1, <1>2, <1>3, RowsChange

\* A row's key goes wrong only while the consumer that renamed the row is at it.
LEMMA KeyFoundPreserved ==
    ASSUME TypeOK, Rooted, Alone, Found, NEW c \in Consumers, Handle(c), ~slip'
    PROVE  KeyFound'
<1> DEFINE Late(d, i) == at[d] = "key" /\ rel[d] = i /\ HalfCounted(d)
<1>1. ASSUME NEW d \in Consumers, d # c
      PROVE  \A i : Late(d, i) => Late(d, i)'
    BY <1>1, OthersSame
<1>2. ASSUME NEW i \in 1..made
      PROVE  \/ keys[rels[i].voter][rels[i].name] \in {i, Absent}
             \/ \E d \in Consumers : Late(d, i)
    BY DEF Found, KeyFound
<1>3. SUFFICES ASSUME NEW i \in 1..made'
               PROVE  \/ keys'[rels'[i].voter][rels'[i].name] \in {i, Absent}
                      \/ \E d \in Consumers : Late(d, i)'
    BY DEF KeyFound
<1>4. CASE Commit(c)
  <2>1. keys' = keys /\ at[c] = "commit" /\ at'[c] = "key"
    BY <1>4, Written DEF Commit, Insert, Update
  <2>2. CASE i = rel'[c] /\ HalfCounted(c)'
    BY <2>1, <2>2
  <2>3. CASE i = rel'[c] /\ ~HalfCounted(c)'
    <3>1. ~isNew[c] /\ Amount(c) = old[c]
        BY <1>4, <2>1, <2>3, Written DEF HalfCounted, Counting
    <3>2. /\ i = rel[c] /\ OwnRow(Voter(c), i)
          /\ rels'[i].voter = Voter(c) /\ rels'[i].name = Renamed(c)
        BY <1>4, <2>3, <3>1, Updates
    <3>3. Renamed(c) = rels[i].name
        BY <3>1, <3>2 DEF Renamed
    <3>4. ASSUME NEW d \in Consumers, Late(d, i)
          PROVE  d # c
        BY <2>1, <3>4
    <3> QED
        BY <1>1, <1>2, <2>1, <3>2, <3>3, <3>4 DEF OwnRow
  <2>4. CASE i # rel'[c]
    <3>1. i \in 1..made /\ rels'[i] = rels[i]
      <4>1. CASE isNew[c]
        <5>1. made' = made + 1 /\ rel'[c] = made' /\ \A j \in 1..made : rels'[j] = rels[j]
            BY <1>4, <4>1, Inserts
        <5>2. made \in Nat /\ i \in 1..(made + 1) /\ i # made + 1
            BY <5>1, <2>4 DEF TypeOK
        <5>3. i \in 1..made
            BY <5>2
        <5> QED
            BY <5>1, <5>3
      <4>2. CASE ~isNew[c]
            BY <1>4, <4>2, <2>4, Updates
      <4> QED
        BY <4>1, <4>2
    <3>2. ASSUME NEW d \in Consumers, Late(d, i)
          PROVE  d # c
        BY <2>1, <3>2
    <3> QED
        BY <1>1, <1>2, <2>1, <3>1, <3>2
  <2> QED
    BY <2>2, <2>3, <2>4
<1>5. CASE ~Commit(c)
  <2>1. rels' = rels /\ made' = made /\ i \in 1..made
    BY <1>5, RowsChange
  <2>2. rels[i].voter \in Voters /\ rels[i].name \in Names
    BY <2>1, RowTyped
  <2>3. CASE Decide(c)
    <3>1. keys'[rels[i].voter][rels[i].name] =
              IF rels[i].voter = Voter(c) /\ rels[i].name \in lack[c] THEN got[c][rels[i].name]
              ELSE keys[rels[i].voter][rels[i].name]
        BY <2>2, <2>3, KeysWritten
    <3>2. rels[i].voter = Voter(c) => got[c][rels[i].name] = i
        BY <2>1, <2>3, Known DEF Looks, Decide
    <3>3. ASSUME NEW d \in Consumers, Late(d, i)
          PROVE  d # c
        BY <2>3, <3>3 DEF Decide
    <3> QED
        BY <1>1, <1>2, <2>1, <3>1, <3>2, <3>3
  <2>4. CASE SetKey(c)
    <3>1. keys'[rels[i].voter][rels[i].name] =
              IF rels[i].voter = Voter(c) /\ rels[i].name = name[c] THEN rel[c]
              ELSE keys[rels[i].voter][rels[i].name]
        BY <2>2, <2>4, KeysWritten
    <3>2. OwnRow(Voter(c), rel[c]) /\ rels[rel[c]].name = name[c]
        BY <2>4, Known DEF Rooted, Knows, SetKey, Counting
    <3>3. CASE rels[i].voter = Voter(c)
        <4>1. i = rel[c]
            BY <3>2, <3>3, <2>1 DEF Found, OneRow, OwnRow
        <4> QED
            BY <4>1, <3>1, <3>2, <3>3, <2>1
    <3>4. CASE rels[i].voter # Voter(c)
        <4>1. ASSUME NEW d \in Consumers, Late(d, i)
              PROVE  d # c
            BY <3>2, <3>4, <4>1 DEF OwnRow
        <4> QED
            BY <1>1, <1>2, <2>1, <3>1, <3>4, <4>1
    <3> QED
        BY <3>3, <3>4
  <2>5. CASE UNCHANGED keys /\ ~SetKey(c)
    <3>1. ASSUME NEW d \in Consumers, Late(d, i)
          PROVE  d # c
      <4>1. SUFFICES ASSUME d = c
                     PROVE  FALSE
        OBVIOUS
      <4>2. at[c] = "key" /\ HalfCounted(c)
        BY <3>1, <4>1
      <4>3. Crash(c)
        BY <4>2, <2>5 DEF Handle, Take, Lookup, Query, Decide, Commit, Duplicate, IncrUps, IncrDowns,
                          IncrKarma, NoKarma, FirstKarma, Copy, Ack
      <4> QED
        BY <4>2, <4>3 DEF Crash
    <3> QED
        BY <1>1, <1>2, <2>1, <2>5, <3>1
  <2> QED
    BY <2>3, <2>4, <2>5, KeysChange
<1> QED
    BY <1>4, <1>5

\* One row for each voter, found by whoever looks.
LEMMA FoundPreserved ==
    ASSUME TypeOK, Rooted, Alone, Found, [Next]_vars, ~slip'
    PROVE  Found'
<1>1. CASE Outside
  <2>1. /\ UNCHANGED <<rels, made>>
        /\ UNCHANGED <<at, vote, got, lack, rel, name, valid, isNew, old>>
        /\ \A d : HalfCounted(d)' <=> HalfCounted(d)
        /\ \A v \in Voters, n \in Names : keys'[v][n] \in {keys[v][n], Absent}
    BY <1>1, OutsideStep, OutsideSame
  <2>2. OneRow'
    BY <2>1 DEF Found, OneRow
  <2>3. KeyFound'
    <3>1. ASSUME NEW i \in 1..made
          PROVE  rels[i].voter \in Voters /\ rels[i].name \in Names
        BY RowTyped
    <3> QED
        BY <2>1, <3>1 DEF Found, KeyFound
  <2>4. ASSUME NEW d \in Consumers
        PROVE  Looks(d)' /\ Knows(d)'
    BY <2>1, Known DEF Looks, Knows, Voter, Amount
  <2> QED
    BY <2>2, <2>3, <2>4 DEF Found
<1>2. ASSUME NEW c \in Consumers, Handle(c)
      PROVE  Found'
  <2>1. ASSUME NEW d \in Consumers
        PROVE  Looks(d)' /\ Knows(d)'
    BY <1>2, <2>1, OthersKnow, LooksOn, KnowsOn
  <2>2. OneRow' /\ KeyFound'
    BY <1>2, OneRowPreserved, KeyFoundPreserved
  <2> QED
    BY <2>1, <2>2 DEF Found
<1> QED
    BY <1>1, <1>2, StepIs

-----------------------------------------------------------------------------
(* The author's first row.                                                  *)

\* It is made by a commit, and stays.
LEMMA BeganPreserved ==
    ASSUME TypeOK, Rooted, Began, [Next]_vars
    PROVE  Began'
<1>1. CASE Outside
    BY <1>1, OutsideSame DEF Began, AuthorVoted
<1>2. ASSUME NEW c \in Consumers, Handle(c)
      PROVE  Began'
  <2> USE <1>2
  <2>1. AuthorVoted => AuthorVoted'
    BY RowsStay DEF AuthorVoted, OwnRow
  <2>2. CASE ~Commit(c)
    BY <2>1, <2>2, RowsChange DEF Began
  <2>3. CASE Commit(c) /\ isNew[c]
    <3>1. /\ made' \in 1..made' /\ rels'[made'].voter = Voter(c)
          /\ began' = IF Voter(c) = Author /\ began = NoLike THEN Amount(c) ELSE began
        <4>1. made \in Nat /\ made' = made + 1 /\ Insert(c) /\ rels'[made'].voter = Voter(c)
            BY <2>3, Inserts DEF TypeOK
        <4> QED
            BY <4>1 DEF Insert
    <3>2. CASE Voter(c) = Author
        BY <3>1, <3>2 DEF Began, AuthorVoted
    <3>3. CASE Voter(c) # Author
        BY <2>1, <3>1, <3>3 DEF Began
    <3> QED
        BY <3>2, <3>3
  <2>4. CASE Commit(c) /\ ~isNew[c]
    BY <2>1, <2>4 DEF Began, Commit, Insert, Update
  <2> QED
    BY <2>2, <2>3, <2>4
<1> QED
    BY <1>1, <1>2, StepIs

-----------------------------------------------------------------------------
(* Counters: each lacks exactly what consumers have yet to count.           *)

\* One element more or less.
LEMMA OneElement ==
    ASSUME NEW S, NEW T, NEW x, IsFiniteSet(S), IsFiniteSet(T),
           \A y : y # x => (y \in S <=> y \in T)
    PROVE  /\ Cardinality(S) \in Nat /\ Cardinality(T) \in Nat
           /\ Cardinality(T) = Cardinality(S) + (IF x \in T THEN 1 ELSE 0)
                                              - (IF x \in S THEN 1 ELSE 0)
<1>1. Cardinality(S) \in Nat /\ Cardinality(T) \in Nat
    BY FS_CardinalityType
<1>2. CASE x \in S /\ x \notin T
  <2>1. S = T \cup {x}
    BY <1>2
  <2> QED
    BY <1>1, <1>2, <2>1, FS_AddElement
<1>3. CASE x \notin S /\ x \in T
  <2>1. T = S \cup {x}
    BY <1>3
  <2> QED
    BY <1>1, <1>3, <2>1, FS_AddElement
<1>4. CASE x \in S <=> x \in T
  <2>1. S = T
    BY <1>4
  <2> QED
    BY <1>1, <1>4, <2>1
<1> QED
    BY <1>2, <1>3, <1>4

\* The rows a counter has in some direction.
AllFinite == \A L, n : IsFiniteSet(Scored(L, n)) /\ IsFiniteSet(Credited(n))

LEMMA RowsFinite == TypeOK => AllFinite
<1> SUFFICES ASSUME TypeOK, NEW L, NEW n
             PROVE  IsFiniteSet(Scored(L, n)) /\ IsFiniteSet(Credited(n))
    BY DEF AllFinite
<1>1. IsFiniteSet(1..made)
    BY FS_Interval DEF TypeOK
<1>2. Scored(L, n) \subseteq 1..made /\ Credited(n) \subseteq 1..made
    BY DEF Scored, Credited
<1> QED
    BY <1>1, <1>2, FS_Subset

\* Of a voter's row a counter has what the one consumer of the voter says.
OwnCounted ==
    \A L \in SUBSET Counting, score \in BOOLEAN, c \in Consumers : \A n, i :
        Active(c) /\ OwnRow(Voter(c), i) =>
            (CountedAs(L, score, i, n) <=>
                IF Waits(c, L, score) /\ rel[c] = i THEN old[c] = n ELSE rels[i].name = n)

LEMMA OwnerCounts == Rooted /\ Alone => OwnCounted
<1> SUFFICES ASSUME Rooted, Alone, NEW L \in SUBSET Counting, NEW score \in BOOLEAN,
                    NEW c \in Consumers, NEW n, NEW i, Active(c), OwnRow(Voter(c), i)
             PROVE  CountedAs(L, score, i, n) <=>
                        IF Waits(c, L, score) /\ rel[c] = i THEN old[c] = n ELSE rels[i].name = n
    BY DEF OwnCounted
<1>1. ASSUME NEW d \in Consumers, Waits(d, L, score), rel[d] = i
      PROVE  d = c
  <2>1. at[d] \in Counting
    BY <1>1 DEF Waits
  <2>2. Active(d) /\ OwnRow(Voter(d), i)
    BY <1>1, <2>1 DEF Active, Rooted, Counting
  <2> QED
    BY <2>2 DEF Alone, OwnRow
<1> QED
    BY <1>1 DEF CountedAs

\* A step that is not c's commit changes only what counters have of c's own row.
LEMMA CountedElsewhere ==
    ASSUME TypeOK, NEW c \in Consumers, Handle(c),
           NEW L \in SUBSET Counting, NEW score \in BOOLEAN, NEW n,
           NEW i, rels'[i].name = rels[i].name,
           Waits(c, L, score) => rel[c] # i,
           Waits(c, L, score)' => rel'[c] # i
    PROVE  CountedAs(L, score, i, n)' <=> CountedAs(L, score, i, n)
<1>1. \A d \in Consumers : d # c =>
          /\ Waits(d, L, score)' <=> Waits(d, L, score)
          /\ rel'[d] = rel[d] /\ old'[d] = old[d]
    BY OthersSame DEF Waits
<1>2. \A d \in Consumers :
          (Waits(d, L, score) /\ rel[d] = i) <=> (Waits(d, L, score)' /\ rel'[d] = i)
    BY <1>1
<1>3. \A d \in Consumers :
          (Waits(d, L, score) /\ rel[d] = i /\ old[d] = n)
              <=> (Waits(d, L, score)' /\ rel'[d] = i /\ old'[d] = n)
    BY <1>1
<1> QED
    BY <1>2, <1>3 DEF CountedAs

\* Outside steps change nothing of that.
LEMMA CountedOutside ==
    ASSUME TypeOK, Outside, NEW L, NEW score, NEW n, NEW i
    PROVE  CountedAs(L, score, i, n)' <=> CountedAs(L, score, i, n)
<1>1. /\ UNCHANGED <<rels, at, rel, old>>
      /\ \A d : CheckedIn(d)' <=> CheckedIn(d)
    BY OutsideSame
<1> QED
    BY <1>1 DEF CountedAs, Waits

\* c leaves a place of L for the next one: it counts its vote.
Counts(c, L, score) == Waits(c, L, score) /\ ~Waits(c, L, score)' /\ at'[c] # "idle"

\* Without a commit the counter's rows change only by the vote that is counted.
LEMMA CountedStep ==
    ASSUME TypeOK, Rooted, Alone, Found, Rooted', Alone', NEW c \in Consumers, Handle(c),
           ~Commit(c), ~slip',
           NEW L \in Befores, NEW score \in BOOLEAN, NEW n, NEW i \in 1..made
    PROVE  /\ made' = made /\ rels' = rels
           /\ Counts(c, L, score) /\ i = rel[c] =>
                  /\ CountedAs(L, score, i, n) <=> old[c] = n
                  /\ CountedAs(L, score, i, n)' <=> Amount(c) = n
           /\ ~(Counts(c, L, score) /\ i = rel[c]) =>
                  (CountedAs(L, score, i, n)' <=> CountedAs(L, score, i, n))
<1>0. L \in SUBSET Counting
    BY DEF Befores, BeforeUps, BeforeDowns, Counting
<1>1. made' = made /\ rels' = rels
    BY RowsChange
<1>2. OwnCounted /\ OwnCounted'
    BY OwnerCounts, PTL
<1>3. CASE at[c] \in Counting /\ i = rel[c] /\ ~Crash(c)
  <2>1. SetKey(c) \/ IncrUps(c) \/ IncrDowns(c) \/ IncrKarma(c) \/ NoKarma(c) \/ FirstKarma(c)
    BY <1>3 DEF Handle, Counting, Take, Lookup, Query, Decide, Commit, Duplicate, Copy, Ack
  <2>2. /\ UNCHANGED <<rel, name, valid, isNew, old, vote>>
        /\ at'[c] \in Counting \cup {"copy"}
    BY <2>1, StepGoes DEF SetKey, IncrUps, IncrDowns, IncrKarma, NoKarma, FirstKarma, object,
                          found, store, Goto, TypeOK, Counting
  <2>3. Active(c) /\ Active(c)' /\ OwnRow(Voter(c), i) /\ OwnRow(Voter(c), i)'
    BY <1>1, <1>3, <2>2 DEF Active, Counting, Rooted, OwnRow, Voter
  <2>4. rels[i].name = Amount(c)
    BY <1>3, Known DEF Knows
  <2>5. /\ CountedAs(L, score, i, n) <=>
               IF Waits(c, L, score) /\ rel[c] = i THEN old[c] = n ELSE rels[i].name = n
        /\ CountedAs(L, score, i, n)' <=>
               IF Waits(c, L, score)' /\ rel'[c] = i THEN old'[c] = n ELSE rels'[i].name = n
    BY <1>0, <1>2, <2>3 DEF OwnCounted
  <2>6. Waits(c, L, score)' => Waits(c, L, score)
    <3>1. CheckedIn(c)' <=> CheckedIn(c)
        BY <2>2 DEF CheckedIn, Voter, Amount
    <3>2. at'[c] \in L => at[c] \in L
        BY <2>1, StepGoes DEF CameTo, Befores, BeforeUps, BeforeDowns, Counting,
                              SetKey, IncrUps, IncrDowns, IncrKarma, NoKarma, FirstKarma
    <3> QED
        BY <3>1, <3>2 DEF Waits
  <2> QED
    BY <1>1, <1>3, <2>2, <2>4, <2>5, <2>6 DEF Counts, Counting
<1>4. CASE at[c] \in Counting /\ i = rel[c] /\ Crash(c)
  <2>1. Amount(c) = old[c] /\ at'[c] = "idle"
    BY <1>4 DEF Crash, Reset, Goto, TypeOK, HalfCounted
  <2>2. OwnRow(Voter(c), i) /\ Active(c) /\ rels[i].name = Amount(c)
    BY <1>4, Known DEF Rooted, Active, Counting, Knows
  <2>3. CountedAs(L, score, i, n) <=> rels[i].name = n
    <3>0. OwnCounted /\ OwnRow(Voter(c), i) /\ Active(c)
        BY <1>2, <2>2
    <3>1. CountedAs(L, score, i, n) <=>
              IF Waits(c, L, score) /\ rel[c] = i THEN old[c] = n ELSE rels[i].name = n
        BY <1>0, <3>0 DEF OwnCounted
    <3> QED
        BY <2>1, <2>2, <3>1
  <2>4. ASSUME NEW d \in Consumers
        PROVE  ~(Waits(d, L, score)' /\ rel'[d] = i)
    <3>1. CASE d = c
        BY <1>0, <2>1, <3>1 DEF Waits, Counting
    <3>2. CASE d # c
      <4>1. SUFFICES ASSUME Waits(d, L, score)', rel'[d] = i
                     PROVE  FALSE
        OBVIOUS
      <4>2. at[d] \in Counting /\ rel[d] = i
        BY <1>0, <3>2, <4>1, OthersSame DEF Waits
      <4>3. Active(d) /\ OwnRow(Voter(d), i)
        BY <4>2 DEF Active, Counting, Rooted
      <4> QED
        BY <2>2, <3>2, <4>3 DEF Alone, OwnRow
    <3> QED
        BY <3>1, <3>2
  <2>5. CountedAs(L, score, i, n)' <=> rels'[i].name = n
    BY <2>4 DEF CountedAs
  <2> QED
    BY <1>1, <2>1, <2>3, <2>5 DEF Counts
<1>5. CASE at[c] \in Counting /\ i # rel[c]
  <2>1. Waits(c, L, score)' => rel'[c] = rel[c]
    BY <1>0, <1>5, StepGoes DEF CameTo, Waits, Counting, Commit, SetKey, IncrUps, IncrDowns, NoKarma, object
  <2> QED
    BY <1>0, <1>1, <1>5, <2>1, CountedElsewhere DEF Counts
<1>6. CASE at[c] \notin Counting
  <2>1. ~Waits(c, L, score) /\ ~Waits(c, L, score)'
    BY <1>0, <1>6, StepGoes DEF CameTo, Waits, Counting, SetKey, IncrUps, IncrDowns, NoKarma
  <2> QED
    BY <1>0, <1>1, <2>1, CountedElsewhere DEF Counts
<1> QED
    BY <1>3, <1>4, <1>5, <1>6

\* A commit leaves to the counters what they had: no row of that voter, or the old name.
LEMMA CountedCommit ==
    ASSUME TypeOK, Rooted, Alone, Found, Rooted', Alone', NEW c \in Consumers, Commit(c),
           NEW L \in SUBSET Counting, "key" \in L, NEW score \in BOOLEAN, NEW n \in Names
    PROVE  /\ \A i \in 1..made : CountedAs(L, score, i, n)' <=> CountedAs(L, score, i, n)
           /\ isNew[c] =>
                  (CountedAs(L, score, made, n)' <=> n = IF score /\ CheckedIn(c) THEN 1 ELSE 0)
<1>1. Handle(c)
    BY DEF Handle
<1>2. OwnCounted /\ OwnCounted'
    BY OwnerCounts, PTL
<1>3. /\ at[c] = "commit" /\ at'[c] = "key" /\ (CheckedIn(c)' <=> CheckedIn(c))
      /\ OwnRow(Voter(c), rel[c])' /\ rels'[rel'[c]].name = Amount(c) /\ old'[c] = old[c]
      /\ Voter(c)' = Voter(c)
    BY Written DEF Commit, CheckedIn
<1>4. Active(c) /\ Active(c)' /\ ~Waits(c, L, score)
      /\ (Waits(c, L, score)' <=> ~(score /\ CheckedIn(c)))
    BY <1>3 DEF Active, Waits, Counting
<1>5. CountedAs(L, score, rel[c], n)' <=>
          IF score /\ CheckedIn(c) THEN Amount(c) = n ELSE old[c] = n
    BY <1>2, <1>3, <1>4 DEF OwnCounted
<1>6. CASE isNew[c]
  <2>1. /\ made' = made + 1 /\ rel'[c] = made' /\ \A j \in 1..made : rels'[j] = rels[j]
        /\ made \in Nat
    BY <1>6, Inserts DEF TypeOK
  <2>2. ASSUME NEW i \in 1..made
        PROVE  CountedAs(L, score, i, n)' <=> CountedAs(L, score, i, n)
    BY <1>1, <1>4, <2>1, CountedElsewhere
  <2>3. old[c] = 0
    BY <1>3, <1>6, Known DEF Knows
  <2> QED
    BY <1>5, <2>1, <2>2, <2>3 DEF CheckedIn
<1>7. CASE ~isNew[c]
  <2>1. /\ rel' = rel /\ OwnRow(Voter(c), rel[c]) /\ made' = made
        /\ \A j \in 1..made : j # rel[c] => rels'[j] = rels[j]
    BY <1>7, Updates
  <2>2. old[c] = rels[rel[c]].name
    BY <1>3, <1>7, Known DEF Knows
  <2>3. CountedAs(L, score, rel[c], n) <=> rels[rel[c]].name = n
    BY <1>2, <1>4, <2>1 DEF OwnCounted
  <2>4. ASSUME NEW i \in 1..made, i # rel[c]
        PROVE  CountedAs(L, score, i, n)' <=> CountedAs(L, score, i, n)
    BY <1>1, <1>4, <2>1, <2>4, CountedElsewhere
  <2> QED
    BY <1>5, <1>7, <2>1, <2>2, <2>3, <2>4 DEF CheckedIn
<1> QED
    BY <1>6, <1>7

\* The three counters' places.
LEMMA BeforesTyped ==
    /\ BeforeUps \in Befores /\ BeforeDowns \in Befores /\ Counting \in Befores
    /\ \A L \in Befores : L \in SUBSET Counting /\ "key" \in L
    BY DEF Befores, BeforeUps, BeforeDowns, Counting

\* How a counter of the score lags: by the vote that c counts, or by none.
LEMMA ScoredStep ==
    ASSUME TypeOK, Rooted, Alone, Found, TypeOK', Rooted', Alone', NEW c \in Consumers, Handle(c),
           ~Commit(c), ~slip', NEW L \in Befores, NEW n \in Names
    PROVE  /\ Cardinality(Scored(L, n)) \in Nat
           /\ Counts(c, L, TRUE) =>
                  Cardinality(Scored(L, n)') = Cardinality(Scored(L, n))
                      + (IF Amount(c) = n THEN 1 ELSE 0) - (IF old[c] = n THEN 1 ELSE 0)
           /\ ~Counts(c, L, TRUE) => Cardinality(Scored(L, n)') = Cardinality(Scored(L, n))
<1>1. /\ made' = made /\ rels' = rels
    BY RowsChange
<1>2. \A i \in 1..made :
          /\ Counts(c, L, TRUE) /\ i = rel[c] =>
                 /\ CountedAs(L, TRUE, i, n) <=> old[c] = n
                 /\ CountedAs(L, TRUE, i, n)' <=> Amount(c) = n
          /\ ~(Counts(c, L, TRUE) /\ i = rel[c]) =>
                 (CountedAs(L, TRUE, i, n)' <=> CountedAs(L, TRUE, i, n))
    BY CountedStep
<1>3. \A i : /\ i \in Scored(L, n) <=> i \in 1..made /\ CountedAs(L, TRUE, i, n)
             /\ i \in Scored(L, n)' <=> i \in 1..made /\ CountedAs(L, TRUE, i, n)'
    BY <1>1 DEF Scored
<1>4. IsFiniteSet(Scored(L, n)) /\ IsFiniteSet(Scored(L, n)')
  <2>1. AllFinite /\ AllFinite'
    BY RowsFinite, PTL
  <2> QED
    BY <2>1 DEF AllFinite
<1>5. CASE Counts(c, L, TRUE)
  <2>1. rel[c] \in 1..made
    BY <1>5, BeforesTyped DEF Counts, Waits, Rooted, OwnRow
  <2>2. \A i : i # rel[c] => (i \in Scored(L, n) <=> i \in Scored(L, n)')
    BY <1>2, <1>3
  <2>3. /\ rel[c] \in Scored(L, n) <=> old[c] = n
        /\ rel[c] \in Scored(L, n)' <=> Amount(c) = n
    BY <1>2, <1>3, <1>5, <2>1
  <2> QED
    <3>1. /\ Cardinality(Scored(L, n)) \in Nat
          /\ Cardinality(Scored(L, n)') = Cardinality(Scored(L, n))
                 + (IF rel[c] \in Scored(L, n)' THEN 1 ELSE 0)
                 - (IF rel[c] \in Scored(L, n) THEN 1 ELSE 0)
        BY <1>4, <2>2, OneElement
    <3> QED
        BY <1>5, <2>3, <3>1
<1>6. CASE ~Counts(c, L, TRUE)
  <2>1. Scored(L, n)' = Scored(L, n)
    BY <1>2, <1>3, <1>6
  <2> QED
    BY <1>4, <1>6, <2>1, FS_CardinalityType
<1> QED
    BY <1>5, <1>6

\* A commit changes it by the author's automatic vote only.
LEMMA ScoredCommit ==
    ASSUME TypeOK, Rooted, Alone, Found, TypeOK', Rooted', Alone', NEW c \in Consumers, Commit(c),
           NEW L \in Befores, NEW n \in {1, -1}
    PROVE  /\ Cardinality(Scored(L, n)) \in Nat
           /\ Cardinality(Scored(L, n)') = Cardinality(Scored(L, n))
                  + IF CheckedIn(c) /\ n = 1 THEN 1 ELSE 0
<1>1. L \in SUBSET Counting /\ "key" \in L /\ n \in Names
    BY BeforesTyped DEF Names
<1>2. /\ \A i \in 1..made : CountedAs(L, TRUE, i, n)' <=> CountedAs(L, TRUE, i, n)
      /\ isNew[c] => (CountedAs(L, TRUE, made, n)' <=> n = IF CheckedIn(c) THEN 1 ELSE 0)
    BY <1>1, CountedCommit
<1>3. IsFiniteSet(Scored(L, n)) /\ IsFiniteSet(Scored(L, n)')
  <2>1. AllFinite /\ AllFinite'
    BY RowsFinite, PTL
  <2> QED
    BY <2>1 DEF AllFinite
<1>4. made \in Nat /\ made' = IF isNew[c] THEN made + 1 ELSE made
  <2>1. made \in Nat
    BY DEF TypeOK
  <2> QED
    BY <2>1, Inserts, Updates
<1>5. \A i : i # made + 1 => (i \in Scored(L, n) <=> i \in Scored(L, n)')
  <2>1. \A i : i # made + 1 => (i \in 1..made <=> i \in 1..made')
    <3>1. CASE isNew[c]
        BY <1>4, <3>1
    <3>2. CASE ~isNew[c]
        BY <1>4, <3>2
    <3> QED
        BY <3>1, <3>2
  <2> QED
    BY <1>2, <2>1 DEF Scored
<1>6. made + 1 \notin Scored(L, n)
  <2>1. made + 1 \notin 1..made
    BY <1>4
  <2> QED
    BY <2>1 DEF Scored
<1>7. made + 1 \in Scored(L, n)' <=> CheckedIn(c) /\ n = 1
  <2>1. CASE isNew[c]
    <3>1. made' = made + 1 /\ made' \in 1..made'
        BY <1>4, <2>1
    <3>2. made' \in Scored(L, n)' <=> CountedAs(L, TRUE, made, n)'
        BY <3>1 DEF Scored
    <3>3. CountedAs(L, TRUE, made, n)' <=> n = IF CheckedIn(c) THEN 1 ELSE 0
        BY <1>2, <2>1
    <3>4. CountedAs(L, TRUE, made, n)' <=> CheckedIn(c) /\ n = 1
      <4>1. n # 0
        OBVIOUS
      <4>2. CASE CheckedIn(c)
        BY <3>3, <4>2
      <4>3. CASE ~CheckedIn(c)
        BY <3>3, <4>1, <4>3
      <4> QED
        BY <4>2, <4>3
    <3> QED
        BY <3>1, <3>2, <3>4
  <2>2. CASE ~isNew[c]
    <3>1. made + 1 \notin 1..made' /\ ~CheckedIn(c)
        BY <1>4, <2>2 DEF CheckedIn
    <3> QED
        BY <3>1 DEF Scored
  <2> QED
    BY <2>1, <2>2
<1> QED
    BY <1>3, <1>5, <1>6, <1>7, OneElement

\* Nor does the number of rows it has in a direction.
LEMMA ScoredOutside ==
    ASSUME TypeOK, Outside
    PROVE  /\ \A L, n : Scored(L, n)' = Scored(L, n)
           /\ \A n : Credited(n)' = Credited(n)
<1>1. rels' = rels /\ made' = made
    BY OutsideSame
<1>2. \A L, score, n, i : CountedAs(L, score, i, n)' <=> CountedAs(L, score, i, n)
    BY CountedOutside
<1> QED
    BY <1>1, <1>2 DEF Scored, Credited

\* Each counter changes by its own step.
LEMMA CountersChange ==
    ASSUME TypeOK, NEW c \in Consumers, Handle(c)
    PROVE  /\ IncrUps(c) \/ ups' = ups
           /\ IncrDowns(c) \/ downs' = downs
           /\ IncrKarma(c) \/ FirstKarma(c) \/ UNCHANGED <<karma, karmaSet>>
<1> USE DEF counts
<1>1. CASE Take(c)
    BY <1>1 DEF Take
<1>2. CASE Lookup(c)
    BY <1>2 DEF Lookup
<1>3. CASE Query(c)
    BY <1>3 DEF Query
<1>4. CASE Decide(c)
    BY <1>4 DEF Decide
<1>5. CASE Commit(c)
    BY <1>5 DEF Commit
<1>6. CASE Duplicate(c)
    BY <1>6 DEF Duplicate
<1>7. CASE SetKey(c)
    BY <1>7 DEF SetKey
<1>8. CASE IncrUps(c)
    BY <1>8 DEF IncrUps
<1>9. CASE IncrDowns(c)
    BY <1>9 DEF IncrDowns
<1>10. CASE IncrKarma(c)
    BY <1>10 DEF IncrKarma
<1>11. CASE NoKarma(c)
    BY <1>11 DEF NoKarma
<1>12. CASE FirstKarma(c)
    BY <1>12 DEF FirstKarma
<1>13. CASE Copy(c)
    BY <1>13 DEF Copy
<1>14. CASE Ack(c)
    BY <1>14 DEF Ack
<1>15. CASE Crash(c)
    BY <1>15 DEF Crash
<1> QED
    BY <1>1, <1>2, <1>3, <1>4, <1>5, <1>6, <1>7, <1>8, <1>9, <1>10, <1>11, <1>12, <1>13, <1>14, <1>15 DEF Handle

\* It is then that c counts its vote.
LEMMA WhoCounts ==
    ASSUME TypeOK, NEW c \in Consumers, Handle(c), ~Commit(c)
    PROVE  /\ Counts(c, BeforeUps, TRUE) <=> IncrUps(c) /\ ~CheckedIn(c)
           /\ Counts(c, BeforeDowns, TRUE) <=> IncrDowns(c) /\ ~CheckedIn(c)
           /\ Counts(c, Counting, FALSE) <=> IncrKarma(c) \/ FirstKarma(c)
<1>1. CASE at[c] \in Counting /\ ~Crash(c)
  <2>1. SetKey(c) \/ IncrUps(c) \/ IncrDowns(c) \/ IncrKarma(c) \/ NoKarma(c) \/ FirstKarma(c)
    BY <1>1 DEF Handle, Counting, Take, Lookup, Query, Decide, Commit, Duplicate, Copy, Ack
  <2>2. CheckedIn(c)' <=> CheckedIn(c)
    BY <2>1 DEF SetKey, IncrUps, IncrDowns, IncrKarma, NoKarma, FirstKarma, object, found,
                CheckedIn, Voter, Amount
  <2>3. /\ SetKey(c) => at[c] = "key" /\ at'[c] = "ups"
        /\ IncrUps(c) => at[c] = "ups" /\ at'[c] = "downs"
        /\ IncrDowns(c) => at[c] = "downs" /\ at'[c] = "karma"
        /\ NoKarma(c) => at[c] = "karma" /\ at'[c] = "first"
        /\ IncrKarma(c) => at[c] = "karma" /\ at'[c] = "copy"
        /\ FirstKarma(c) => at[c] = "first" /\ at'[c] = "copy"
    BY DEF SetKey, IncrUps, IncrDowns, IncrKarma, NoKarma, FirstKarma, Goto, TypeOK
  <2> QED
    BY <2>1, <2>2, <2>3 DEF Counts, Waits, BeforeUps, BeforeDowns, Counting
<1>2. CASE at[c] \notin Counting \/ Crash(c)
  <2>1. at[c] \notin Counting \/ at'[c] = "idle"
    BY <1>2 DEF Crash, Reset, Goto, TypeOK
  <2>2. ~IncrUps(c) /\ ~IncrDowns(c) /\ ~IncrKarma(c) /\ ~FirstKarma(c)
    BY <2>1, StepGoes DEF IncrUps, IncrDowns, IncrKarma, FirstKarma, Counting, Goto, TypeOK
  <2> QED
    BY <2>1, <2>2 DEF Counts, Waits, BeforeUps, BeforeDowns, Counting
<1> QED
    BY <1>1, <1>2

\* The author has a row once the automatic vote is written, and not before.
LEMMA AuthorBegins ==
    ASSUME TypeOK, Rooted, Found, Began, NEW c \in Consumers, Commit(c)
    PROVE  /\ CheckedIn(c) => began # 1 /\ began' = 1
           /\ ~CheckedIn(c) => (began' = 1 <=> began = 1)
<1>1. CASE isNew[c]
  <2>1. began' = IF Voter(c) = Author /\ began = NoLike THEN Amount(c) ELSE began
    BY <1>1, Inserts DEF Insert
  <2>2. ASSUME CheckedIn(c)
        PROVE  began = NoLike /\ began' = 1
    <3>1. Voter(c) = Author /\ Amount(c) = 1
        BY <2>2 DEF CheckedIn
    <3>2. ~AuthorVoted
        BY <1>1, <3>1, Known DEF Knows, Commit, AuthorVoted
    <3> QED
        BY <2>1, <3>1, <3>2 DEF Began
  <2>3. CASE ~CheckedIn(c)
    BY <1>1, <2>1, <2>3 DEF CheckedIn
  <2> QED
    BY <2>2, <2>3
<1>2. CASE ~isNew[c]
    BY <1>2 DEF Commit, Insert, Update, CheckedIn
<1> QED
    BY <1>1, <1>2

\* A vote that is counted adds its direction to the score and takes the old one away.
LEMMA ScoreAdds ==
    ASSUME TypeOK, NEW c \in Consumers
    PROVE  /\ UpChange(Amount(c), old[c])
                 = (IF Amount(c) = 1 THEN 1 ELSE 0) - (IF old[c] = 1 THEN 1 ELSE 0)
           /\ DownChange(Amount(c), old[c])
                 = (IF Amount(c) = -1 THEN 1 ELSE 0) - (IF old[c] = -1 THEN 1 ELSE 0)
           /\ KarmaChange(c) = Amount(c) - old[c]
           /\ Amount(c) \in {-1, 0, 1} /\ old[c] \in {-1, 0, 1}
<1>1. Amount(c) \in Names /\ old[c] \in Names
    BY HandTyped
<1> QED
    BY <1>1, ScoreChanges DEF KarmaChange, Names

\* Every step keeps the lag of _ups...
LEMMA UpsPreserved ==
    ASSUME TypeOK, Rooted, Alone, Found, Began, UpsLag, TypeOK', Rooted', Alone',
           [Next]_vars, ~slip'
    PROVE  UpsLag'
<1>1. CASE Outside
  <2>1. ups' = ups /\ began' = began
    BY <1>1, OutsideSame
  <2> QED
    BY <1>1, <2>1, ScoredOutside DEF UpsLag
<1>2. ASSUME NEW c \in Consumers, Handle(c)
      PROVE  UpsLag'
  <2> USE <1>2
  <2>0. BeforeUps \in Befores /\ 1 \in Names /\ ups \in Int
    BY BeforesTyped, CountersTyped DEF Names
  <2>1. CASE Commit(c)
    <3>1. /\ Cardinality(Scored(BeforeUps, 1)) \in Nat
          /\ Cardinality(Scored(BeforeUps, 1)') = Cardinality(Scored(BeforeUps, 1))
                 + IF CheckedIn(c) THEN 1 ELSE 0
        BY <2>0, <2>1, ScoredCommit
    <3>2. ups' = ups
        BY <2>1, CountersChange DEF IncrUps, Commit
    <3>3. UpsLag' <=> ups' = Cardinality(Scored(BeforeUps, 1)') + IF began' = 1 THEN 0 ELSE 1
        BY DEF UpsLag, BeforeUps
    <3>4. CASE CheckedIn(c)
        BY <2>1, <3>1, <3>2, <3>3, <3>4, AuthorBegins DEF UpsLag
    <3>5. CASE ~CheckedIn(c)
        BY <2>1, <3>1, <3>2, <3>3, <3>5, AuthorBegins DEF UpsLag
    <3> QED
        BY <3>4, <3>5
  <2>2. CASE ~Commit(c)
    <3>1. began' = began
        BY <2>2, RowsChange
    <3>2. /\ Cardinality(Scored(BeforeUps, 1)) \in Nat
          /\ Counts(c, BeforeUps, TRUE) =>
                 Cardinality(Scored(BeforeUps, 1)') = Cardinality(Scored(BeforeUps, 1))
                     + (IF Amount(c) = 1 THEN 1 ELSE 0) - (IF old[c] = 1 THEN 1 ELSE 0)
          /\ ~Counts(c, BeforeUps, TRUE) =>
                 Cardinality(Scored(BeforeUps, 1)') = Cardinality(Scored(BeforeUps, 1))
        BY <2>0, <2>2, ScoredStep
    <3>3. Counts(c, BeforeUps, TRUE) <=> IncrUps(c) /\ ~CheckedIn(c)
        BY <2>2, WhoCounts
    <3>4. UpsLag' <=> ups' = Cardinality(Scored(BeforeUps, 1)') + IF began' = 1 THEN 0 ELSE 1
        BY DEF UpsLag, BeforeUps
    <3>5. CASE IncrUps(c) /\ ~CheckedIn(c)
        <4>1. ups' = ups + UpChange(Amount(c), old[c])
            BY <3>5 DEF IncrUps
        <4>2. ups' = ups + (IF Amount(c) = 1 THEN 1 ELSE 0) - (IF old[c] = 1 THEN 1 ELSE 0)
            BY <2>0, <4>1, ScoreAdds
        <4>3. Cardinality(Scored(BeforeUps, 1)') = Cardinality(Scored(BeforeUps, 1))
                  + (IF Amount(c) = 1 THEN 1 ELSE 0) - (IF old[c] = 1 THEN 1 ELSE 0)
            BY <3>2, <3>3, <3>5
        <4>4. ups = Cardinality(Scored(BeforeUps, 1)) + IF began = 1 THEN 0 ELSE 1
            BY DEF UpsLag
        <4>5. ups' = Cardinality(Scored(BeforeUps, 1)') + IF began = 1 THEN 0 ELSE 1
            BY <3>2, <4>2, <4>3, <4>4
        <4> QED
            BY <3>1, <3>4, <4>5
    <3>6. CASE ~(IncrUps(c) /\ ~CheckedIn(c))
        <4>1. ups' = ups
            BY <3>6, CountersChange DEF IncrUps
        <4> QED
            BY <3>1, <3>2, <3>3, <3>4, <3>6, <4>1 DEF UpsLag
    <3> QED
        BY <3>5, <3>6
  <2> QED
    BY <2>1, <2>2
<1> QED
    BY <1>1, <1>2, StepIs

\* ... and of _downs...
LEMMA DownsPreserved ==
    ASSUME TypeOK, Rooted, Alone, Found, DownsLag, TypeOK', Rooted', Alone', [Next]_vars, ~slip'
    PROVE  DownsLag'
<1>1. CASE Outside
    BY <1>1, OutsideSame, ScoredOutside DEF DownsLag
<1>2. ASSUME NEW c \in Consumers, Handle(c)
      PROVE  DownsLag'
  <2> USE <1>2
  <2>0. BeforeDowns \in Befores /\ -1 \in Names /\ -1 # 1 /\ downs \in Int
    BY BeforesTyped, CountersTyped DEF Names
  <2>1. DownsLag' <=> downs' = Cardinality(Scored(BeforeDowns, -1)')
    BY DEF DownsLag, BeforeDowns
  <2>2. CASE Commit(c)
    <3>1. /\ Cardinality(Scored(BeforeDowns, -1)) \in Nat
          /\ Cardinality(Scored(BeforeDowns, -1)') = Cardinality(Scored(BeforeDowns, -1)) + 0
        BY <2>0, <2>2, ScoredCommit
    <3>2. downs' = downs
        BY <2>2, CountersChange DEF IncrDowns, Commit
    <3> QED
        BY <2>1, <3>1, <3>2 DEF DownsLag
  <2>3. CASE ~Commit(c)
    <3>1. /\ Cardinality(Scored(BeforeDowns, -1)) \in Nat
          /\ Counts(c, BeforeDowns, TRUE) =>
                 Cardinality(Scored(BeforeDowns, -1)') = Cardinality(Scored(BeforeDowns, -1))
                     + (IF Amount(c) = -1 THEN 1 ELSE 0) - (IF old[c] = -1 THEN 1 ELSE 0)
          /\ ~Counts(c, BeforeDowns, TRUE) =>
                 Cardinality(Scored(BeforeDowns, -1)') = Cardinality(Scored(BeforeDowns, -1))
        BY <2>0, <2>3, ScoredStep
    <3>2. Counts(c, BeforeDowns, TRUE) <=> IncrDowns(c) /\ ~CheckedIn(c)
        BY <2>3, WhoCounts
    <3>3. CASE IncrDowns(c) /\ ~CheckedIn(c)
        <4>1. downs' = downs + DownChange(Amount(c), old[c])
            BY <3>3 DEF IncrDowns
        <4>2. downs' = downs + (IF Amount(c) = -1 THEN 1 ELSE 0) - (IF old[c] = -1 THEN 1 ELSE 0)
            BY <2>0, <4>1, ScoreAdds
        <4> QED
            BY <2>0, <2>1, <3>1, <3>2, <3>3, <4>2 DEF DownsLag
    <3>4. CASE ~(IncrDowns(c) /\ ~CheckedIn(c))
        <4>1. downs' = downs
            BY <3>4, CountersChange DEF IncrDowns
        <4> QED
            BY <2>1, <3>1, <3>2, <3>4, <4>1 DEF DownsLag
    <3> QED
        BY <3>3, <3>4
  <2> QED
    BY <2>2, <2>3
<1> QED
    BY <1>1, <1>2, StepIs

\* How the karma lags.
LEMMA CreditedStep ==
    ASSUME TypeOK, Rooted, Alone, Found, TypeOK', Rooted', Alone', NEW c \in Consumers, Handle(c),
           ~Commit(c), ~slip', NEW n \in Names
    PROVE  /\ Cardinality(Credited(n)) \in Nat
           /\ Counts(c, Counting, FALSE) /\ valid[c] =>
                  Cardinality(Credited(n)') = Cardinality(Credited(n))
                      + (IF Amount(c) = n THEN 1 ELSE 0) - (IF old[c] = n THEN 1 ELSE 0)
           /\ ~(Counts(c, Counting, FALSE) /\ valid[c]) =>
                  Cardinality(Credited(n)') = Cardinality(Credited(n))
<1>1. /\ made' = made /\ rels' = rels
    BY RowsChange
<1>2. \A i \in 1..made :
          /\ Counts(c, Counting, FALSE) /\ i = rel[c] =>
                 /\ CountedAs(Counting, FALSE, i, n) <=> old[c] = n
                 /\ CountedAs(Counting, FALSE, i, n)' <=> Amount(c) = n
          /\ ~(Counts(c, Counting, FALSE) /\ i = rel[c]) =>
                 (CountedAs(Counting, FALSE, i, n)' <=> CountedAs(Counting, FALSE, i, n))
    BY CountedStep, BeforesTyped
<1>3. \A i : /\ i \in Credited(n) <=>
                    i \in 1..made /\ CountedAs(Counting, FALSE, i, n) /\ rels[i].valid
             /\ i \in Credited(n)' <=>
                    i \in 1..made /\ CountedAs(Counting, FALSE, i, n)' /\ rels[i].valid
    BY <1>1 DEF Credited
<1>4. IsFiniteSet(Credited(n)) /\ IsFiniteSet(Credited(n)')
  <2>1. AllFinite /\ AllFinite'
    BY RowsFinite, PTL
  <2> QED
    BY <2>1 DEF AllFinite
<1>5. CASE Counts(c, Counting, FALSE)
  <2>1. rel[c] \in 1..made /\ (rels[rel[c]].valid <=> valid[c])
    BY <1>5, Known DEF Counts, Waits, Rooted, OwnRow, Knows
  <2>2. \A i : i # rel[c] => (i \in Credited(n) <=> i \in Credited(n)')
    BY <1>2, <1>3
  <2>3. /\ rel[c] \in Credited(n) <=> old[c] = n /\ valid[c]
        /\ rel[c] \in Credited(n)' <=> Amount(c) = n /\ valid[c]
    BY <1>2, <1>3, <1>5, <2>1
  <2>4. /\ Cardinality(Credited(n)) \in Nat
        /\ Cardinality(Credited(n)') = Cardinality(Credited(n))
               + (IF rel[c] \in Credited(n)' THEN 1 ELSE 0)
               - (IF rel[c] \in Credited(n) THEN 1 ELSE 0)
    BY <1>4, <2>2, OneElement
  <2>5. ASSUME valid[c]
        PROVE  Cardinality(Credited(n)') = Cardinality(Credited(n))
                   + (IF Amount(c) = n THEN 1 ELSE 0) - (IF old[c] = n THEN 1 ELSE 0)
    BY <2>3, <2>4, <2>5
  <2>6. ASSUME ~valid[c]
        PROVE  Cardinality(Credited(n)') = Cardinality(Credited(n))
    BY <2>3, <2>4, <2>6
  <2> QED
    BY <1>5, <2>4, <2>5, <2>6
<1>6. CASE ~Counts(c, Counting, FALSE)
  <2>1. Credited(n)' = Credited(n)
    BY <1>2, <1>3, <1>6
  <2>2. Cardinality(Credited(n)) \in Nat /\ Cardinality(Credited(n)') = Cardinality(Credited(n))
    BY <1>4, <2>1, FS_CardinalityType
  <2> QED
    BY <1>6, <2>2
<1> QED
    BY <1>5, <1>6

\* A commit takes away what a voter who has become a spammer had given.
Lost(c) == ~isNew[c] /\ rels[rel[c]].valid /\ ~valid[c]

LEMMA CreditedCommit ==
    ASSUME TypeOK, Rooted, Alone, Found, TypeOK', Rooted', Alone', NEW c \in Consumers, Commit(c),
           NEW n \in {1, -1}
    PROVE  /\ Cardinality(Credited(n)) \in Nat
           /\ Cardinality(Credited(n)') = Cardinality(Credited(n))
                  - IF Lost(c) /\ rels[rel[c]].name = n THEN 1 ELSE 0
<1>1. Counting \in SUBSET Counting /\ "key" \in Counting /\ n \in Names /\ n # 0
    BY DEF Names, Counting
<1>2. /\ \A i \in 1..made :
             CountedAs(Counting, FALSE, i, n)' <=> CountedAs(Counting, FALSE, i, n)
      /\ isNew[c] => (CountedAs(Counting, FALSE, made, n)' <=> n = 0)
    BY <1>1, CountedCommit
<1>3. IsFiniteSet(Credited(n)) /\ IsFiniteSet(Credited(n)')
  <2>1. AllFinite /\ AllFinite'
    BY RowsFinite, PTL
  <2> QED
    BY <2>1 DEF AllFinite
<1>4. CASE isNew[c]
  <2>1. /\ made \in Nat /\ made' = made + 1
        /\ \A i \in 1..made : rels'[i] = rels[i]
    BY <1>4, Inserts DEF TypeOK
  <2>2. \A i : i \in 1..made' <=> i \in 1..made \/ i = made'
    BY <2>1
  <2>3. made' \notin Credited(n)'
    BY <1>1, <1>2, <1>4 DEF Credited
  <2>4. \A i \in 1..made : i \in Credited(n) <=> i \in Credited(n)'
    BY <1>2, <2>1, <2>2 DEF Credited
  <2>5. \A i : i \in Credited(n) <=> i \in Credited(n)'
    BY <2>2, <2>3, <2>4 DEF Credited
  <2>6. Credited(n) = Credited(n)'
    BY <2>5
  <2>7. Cardinality(Credited(n)) \in Nat
    BY <1>3, FS_CardinalityType
  <2> QED
    BY <1>4, <2>6, <2>7 DEF Lost
<1>5. CASE ~isNew[c]
  <2>1. /\ made' = made /\ rel' = rel /\ OwnRow(Voter(c), rel[c])
        /\ rels'[rel[c]].valid = (rels[rel[c]].valid /\ valid[c])
        /\ \A i \in 1..made : i # rel[c] => rels'[i] = rels[i]
    BY <1>5, Updates
  <2>2. Active(c) /\ ~Waits(c, Counting, FALSE)
    BY DEF Commit, Active, Waits, Counting
  <2>3. CountedAs(Counting, FALSE, rel[c], n) <=> rels[rel[c]].name = n
    <3>1. ASSUME NEW score \in BOOLEAN, ~Waits(c, Counting, score)
          PROVE  CountedAs(Counting, score, rel[c], n) <=> rels[rel[c]].name = n
        BY <1>1, <2>1, <2>2, <3>1, OwnerCounts DEF OwnCounted
    <3> QED
        BY <2>2, <3>1
  <2>4. rel[c] \in Credited(n) <=> rels[rel[c]].name = n /\ rels[rel[c]].valid
    BY <2>1, <2>3 DEF Credited, OwnRow
  <2>5. rel[c] \in 1..made
    BY <2>1 DEF OwnRow
  <2>6. rel[c] \in Credited(n)' <=>
            CountedAs(Counting, FALSE, rel[c], n)' /\ rels'[rel[c]].valid
    BY <2>1, <2>5 DEF Credited
  <2>7. rel[c] \in Credited(n)' <=> rels[rel[c]].name = n /\ rels[rel[c]].valid /\ valid[c]
    BY <1>2, <2>1, <2>3, <2>5, <2>6
  <2>8. \A i : i # rel[c] => (i \in Credited(n) <=> i \in Credited(n)')
    BY <1>2, <2>1 DEF Credited
  <2>9. /\ Cardinality(Credited(n)) \in Nat
        /\ Cardinality(Credited(n)') = Cardinality(Credited(n))
               + (IF rel[c] \in Credited(n)' THEN 1 ELSE 0)
               - (IF rel[c] \in Credited(n) THEN 1 ELSE 0)
    BY <1>3, <2>8, OneElement
  <2>10. CASE Lost(c) /\ rels[rel[c]].name = n
    BY <2>4, <2>7, <2>9, <2>10 DEF Lost
  <2>11. CASE ~(Lost(c) /\ rels[rel[c]].name = n)
    <3>1. rel[c] \in Credited(n)' <=> rel[c] \in Credited(n)
        BY <1>5, <2>4, <2>7, <2>11 DEF Lost
    <3> QED
        BY <2>9, <2>11, <3>1
  <2> QED
    BY <2>10, <2>11
<1> QED
    BY <1>4, <1>5

\* What it had given is kept.
LEMMA KeptCommit ==
    ASSUME TypeOK, Rooted, NEW c \in Consumers, Commit(c)
    PROVE  /\ Lost(c) => kept' = kept + rels[rel[c]].name /\ rels[rel[c]].name \in {-1, 0, 1}
           /\ ~Lost(c) => kept' = kept
<1>1. CASE isNew[c]
    BY <1>1, Inserts DEF Lost
<1>2. CASE ~isNew[c]
  <2>1. Update(c) /\ rel[c] \in 1..made
    BY <1>2, Updates DEF OwnRow
  <2>2. rels[rel[c]] \in Row
    BY <2>1, RowTyped
  <2>3. kept' = IF rels[rel[c]].valid /\ ~(rels[rel[c]].valid /\ valid[c])
                THEN kept + rels[rel[c]].name ELSE kept
    BY <2>1 DEF Update
  <2> QED
    BY <1>2, <2>2, <2>3 DEF Lost, Row, Names
<1> QED
    BY <1>1, <1>2

\* A second consumer that finds no karma attribute is a slip.
LEMMA FirstKarmaAlonePreserved ==
    ASSUME TypeOK, FirstKarmaAlone, [Next]_vars, ~slip'
    PROVE  FirstKarmaAlone'
<1>1. CASE Outside
    BY <1>1, OutsideSame DEF FirstKarmaAlone
<1>2. ASSUME NEW c \in Consumers, Handle(c)
      PROVE  FirstKarmaAlone'
  <2> USE <1>2
  <2>1. \A d \in Consumers : d # c => at'[d] = at[d] /\ valid'[d] = valid[d]
    BY OthersSame
  <2>2. CASE NoKarma(c)
    <3>1. /\ ~karmaSet /\ karmaSet' = karmaSet
          /\ valid[c] /\ valid' = valid
          /\ \A d \in Consumers : at[d] # "first"
        BY <2>2 DEF NoKarma, counts, object
    <3> QED
        BY <2>1, <3>1 DEF FirstKarmaAlone
  <2>3. CASE FirstKarma(c)
    <3>1. at[c] = "first" /\ at'[c] # "first"
        BY <2>3 DEF FirstKarma, Goto, TypeOK
    <3> QED
        BY <2>1, <3>1 DEF FirstKarmaAlone
  <2>4. CASE ~NoKarma(c) /\ ~FirstKarma(c)
    <3>1. at'[c] # "first"
        BY <2>4, StepGoes DEF CameTo
    <3>2. karmaSet' = karmaSet
        BY <2>4, CountersChange DEF IncrKarma
    <3> QED
        BY <2>1, <3>1, <3>2 DEF FirstKarmaAlone
  <2> QED
    BY <2>2, <2>3, <2>4
<1> QED
    BY <1>1, <1>2, StepIs

\* The author's karma without the attribute is the floor.
Karma == IF karmaSet THEN karma ELSE Floor

\* What a vote does to it.
LEMMA KarmaAdds ==
    ASSUME TypeOK, FirstKarmaAlone, NEW c \in Consumers, Handle(c)
    PROVE  /\ Karma \in Int
           /\ (IncrKarma(c) \/ FirstKarma(c)) /\ valid[c] => Karma' = Karma + (Amount(c) - old[c])
           /\ ~((IncrKarma(c) \/ FirstKarma(c)) /\ valid[c]) => Karma' = Karma
<1>1. karma \in Int /\ karmaSet \in BOOLEAN
    BY CountersTyped DEF TypeOK
<1>2. Karma \in Int
    BY <1>1 DEF Karma
<1>3. CASE IncrKarma(c)
  <2>1. karmaSet' = karmaSet
    BY <1>3 DEF IncrKarma
  <2>2. ASSUME valid[c] PROVE karmaSet /\ karma' = karma + (Amount(c) - old[c])
    BY <1>3, <2>2, ScoreAdds DEF IncrKarma
  <2>3. ASSUME ~valid[c] PROVE karma' = karma
    BY <1>3, <2>3 DEF IncrKarma
  <2>4. ASSUME valid[c] PROVE Karma' = Karma + (Amount(c) - old[c])
    BY <2>1, <2>2, <2>4 DEF Karma
  <2>5. ASSUME ~valid[c] PROVE Karma' = Karma
    BY <2>1, <2>3, <2>5 DEF Karma
  <2> QED
    BY <1>2, <1>3, <2>4, <2>5
<1>4. CASE FirstKarma(c)
  <2>1. ~karmaSet /\ valid[c]
    BY <1>4 DEF FirstKarma, FirstKarmaAlone
  <2>2. karmaSet' /\ karma' = Floor + (Amount(c) - old[c])
    BY <1>4, ScoreAdds DEF FirstKarma
  <2> QED
    BY <1>2, <1>4, <2>1, <2>2 DEF Karma
<1>5. CASE ~IncrKarma(c) /\ ~FirstKarma(c)
  <2>1. karma' = karma /\ karmaSet' = karmaSet
    BY <1>5, CountersChange
  <2> QED
    BY <1>2, <1>5, <2>1 DEF Karma
<1> QED
    BY <1>3, <1>4, <1>5

\* ... and of the karma.
LEMMA KarmaPreserved ==
    ASSUME TypeOK, Rooted, Alone, Found, FirstKarmaAlone, KarmaLag, TypeOK', Rooted', Alone',
           [Next]_vars, ~slip'
    PROVE  KarmaLag'
<1>0. /\ KarmaLag  <=> Karma = Floor + kept + Cardinality(Credited(1)) - Cardinality(Credited(-1))
      /\ KarmaLag' <=> Karma' = Floor + kept' + Cardinality(Credited(1)')
                                 - Cardinality(Credited(-1)')
      /\ kept \in Int
    BY CountersTyped DEF KarmaLag, Karma
<1>1. CASE Outside
    BY <1>1, OutsideSame, ScoredOutside DEF KarmaLag
<1>2. ASSUME NEW c \in Consumers, Handle(c)
      PROVE  KarmaLag'
  <2> USE <1>2
  <2>1. CASE Commit(c)
    <3>1. -1 # 1
        OBVIOUS
    <3>2. /\ Cardinality(Credited(1)) \in Nat
          /\ Cardinality(Credited(1)') = Cardinality(Credited(1))
                 - IF Lost(c) /\ rels[rel[c]].name = 1 THEN 1 ELSE 0
        BY <2>1, CreditedCommit
    <3>3. /\ Cardinality(Credited(-1)) \in Nat
          /\ Cardinality(Credited(-1)') = Cardinality(Credited(-1))
                 - IF Lost(c) /\ rels[rel[c]].name = -1 THEN 1 ELSE 0
        BY <2>1, CreditedCommit
    <3>4. ~IncrKarma(c) /\ ~FirstKarma(c)
        BY <2>1 DEF Commit, IncrKarma, FirstKarma
    <3>5. Karma' = Karma /\ Karma \in Int
        BY <3>4, KarmaAdds
    <3>6. CASE Lost(c)
        <4>1. kept' = kept + rels[rel[c]].name /\ rels[rel[c]].name \in {-1, 0, 1}
            BY <2>1, <3>6, KeptCommit
        <4> QED
            BY <1>0, <3>1, <3>2, <3>3, <3>5, <3>6, <4>1
    <3>7. CASE ~Lost(c)
        BY <1>0, <2>1, <3>2, <3>3, <3>5, <3>7, KeptCommit
    <3> QED
        BY <3>6, <3>7
  <2>2. CASE ~Commit(c)
    <3>1. kept' = kept
        BY <2>2, RowsChange
    <3>2. Counts(c, Counting, FALSE) <=> IncrKarma(c) \/ FirstKarma(c)
        BY <2>2, WhoCounts
    <3>3. 1 \in Names /\ -1 \in Names /\ -1 # 1
        BY DEF Names
    <3>4. CASE Counts(c, Counting, FALSE) /\ valid[c]
        <4>1. /\ Cardinality(Credited(1)) \in Nat
              /\ Cardinality(Credited(1)') = Cardinality(Credited(1))
                     + (IF Amount(c) = 1 THEN 1 ELSE 0) - (IF old[c] = 1 THEN 1 ELSE 0)
            BY <2>2, <3>3, <3>4, CreditedStep
        <4>2. /\ Cardinality(Credited(-1)) \in Nat
              /\ Cardinality(Credited(-1)') = Cardinality(Credited(-1))
                     + (IF Amount(c) = -1 THEN 1 ELSE 0) - (IF old[c] = -1 THEN 1 ELSE 0)
            BY <2>2, <3>3, <3>4, CreditedStep
        <4>3. Karma' = Karma + (Amount(c) - old[c]) /\ Karma \in Int
            BY <3>2, <3>4, KarmaAdds
        <4>4. Amount(c) \in {-1, 0, 1} /\ old[c] \in {-1, 0, 1}
            BY ScoreAdds
        <4>5. (IF Amount(c) = 1 THEN 1 ELSE 0) - (IF Amount(c) = -1 THEN 1 ELSE 0) = Amount(c)
            BY <4>4
        <4>6. (IF old[c] = 1 THEN 1 ELSE 0) - (IF old[c] = -1 THEN 1 ELSE 0) = old[c]
            BY <4>4
        <4>7. Karma = Floor + kept + Cardinality(Credited(1)) - Cardinality(Credited(-1))
            BY <1>0
        <4> QED
            BY <1>0, <3>1, <4>1, <4>2, <4>3, <4>4, <4>5, <4>6, <4>7
    <3>5. CASE ~(Counts(c, Counting, FALSE) /\ valid[c])
        <4>1. /\ Cardinality(Credited(1)') = Cardinality(Credited(1))
              /\ Cardinality(Credited(-1)') = Cardinality(Credited(-1))
            BY <2>2, <3>3, <3>5, CreditedStep
        <4>2. Karma' = Karma
            BY <3>2, <3>5, KarmaAdds
        <4> QED
            BY <1>0, <3>1, <4>1, <4>2
    <3> QED
        BY <3>4, <3>5
  <2> QED
    BY <2>1, <2>2
<1> QED
    BY <1>1, <1>2, StepIs

-----------------------------------------------------------------------------
(* Until the first slip all this holds.                                     *)

\* At first there is the author's vote in the score, and no row.
LEMMA CalmInit == Init => Calm
<1>1. SUFFICES ASSUME Init PROVE Calm
    OBVIOUS
<1>2. /\ made = 0 /\ ups = 1 /\ downs = 0 /\ kept = 0 /\ karmaSet = FALSE
      /\ began = NoLike
    BY <1>1 DEF Init
<1>3. \A c \in Consumers : at[c] = "idle"
    BY <1>1 DEF Init
<1>4. 1..made = {}
    BY <1>2
<1>5. Alone /\ FirstKarmaAlone
    BY <1>3 DEF Alone, Active, FirstKarmaAlone
<1>6. Found
  <2>1. ASSUME NEW c \in Consumers
        PROVE  Looks(c) /\ Knows(c)
    BY <1>3, <2>1 DEF Looks, Knows, Counting
  <2> QED
    BY <1>4, <2>1 DEF Found, OneRow, KeyFound
<1>7. Began
    BY <1>2 DEF Began
<1>8. \A L, n : Scored(L, n) = {} /\ Credited(n) = {}
    BY <1>4 DEF Scored, Credited
<1>9. UpsLag /\ DownsLag
    BY <1>2, <1>8, FS_EmptySet DEF UpsLag, DownsLag
<1>10. KarmaLag
  <2>1. Cardinality(Credited(1)) = 0 /\ Cardinality(Credited(-1)) = 0
    BY <1>8, FS_EmptySet
  <2>2. (IF karmaSet THEN karma ELSE Floor) = Floor + kept + 0 - 0
    BY <1>2
  <2> QED
    BY <2>1, <2>2 DEF KarmaLag
<1> QED
    BY <1>5, <1>6, <1>7, <1>9, <1>10 DEF Calm

\* A step that is not a slip leaves it so.
LEMMA CalmPreserved ==
    ASSUME TypeOK, Rooted, Calm, TypeOK', Rooted', [Next]_vars, ~slip'
    PROVE  Calm'
<1>1. Alone /\ Found /\ Began /\ UpsLag /\ DownsLag /\ FirstKarmaAlone /\ KarmaLag
    BY DEF Calm
<1>2. Alone'
    BY <1>1, AlonePreserved
<1>3. Found' /\ Began'
    BY <1>1, FoundPreserved, BeganPreserved
<1>4. UpsLag' /\ DownsLag'
    BY <1>1, <1>2, UpsPreserved, DownsPreserved
<1>5. FirstKarmaAlone' /\ KarmaLag'
    BY <1>1, <1>2, FirstKarmaAlonePreserved, KarmaPreserved
<1> QED
    BY <1>2, <1>3, <1>4, <1>5 DEF Calm

CalmUntilSlip == ~slip => Calm

LEMMA CalmInvariant == Spec => [](TypeOK /\ Rooted /\ CalmUntilSlip)
<1>1. Init => TypeOK /\ Rooted /\ CalmUntilSlip
    BY BaseInit, CalmInit DEF CalmUntilSlip
<1>2. TypeOK /\ Rooted /\ CalmUntilSlip /\ TypeOK' /\ Rooted' /\ [Next]_vars => CalmUntilSlip'
    BY CalmPreserved, SlipsStay DEF CalmUntilSlip
<1> QED
    BY <1>1, <1>2, BaseInvariant, PTL DEF Spec

\* Once all is counted, the counters have the rows' names.
LEMMA SettledCounts ==
    ASSUME Settled, NEW n
    PROVE  /\ \A L \in SUBSET Counting : Scored(L, n) = {i \in 1..made : rels[i].name = n}
           /\ Credited(n) = {i \in 1..made : rels[i].name = n /\ rels[i].valid}
<1>1. \A L \in SUBSET Counting, score \in BOOLEAN : \A i :
          CountedAs(L, score, i, n) <=> rels[i].name = n
    BY DEF Settled, CountedAs, Waits
<1>2. \A i : CountedAs(Counting, FALSE, i, n) <=> rels[i].name = n
    BY <1>1
<1>3. \A L \in SUBSET Counting : \A i : CountedAs(L, TRUE, i, n) <=> rels[i].name = n
    BY <1>1
<1> QED
    BY <1>2, <1>3 DEF Scored, Credited

\* The properties follow where nobody is at work on a counter.
LEMMA CalmShows ==
    ASSUME TypeOK, Rooted, CalmUntilSlip
    PROVE  OneRowEach /\ ScoreIsVotes /\ KarmaIsVotes
<1>1. SUFFICES ASSUME ~slip PROVE OneRowEach /\ ScoreIsVotes /\ KarmaIsVotes
    BY DEF OneRowEach, ScoreIsVotes, KarmaIsVotes
<1>2. Calm
    BY <1>1 DEF CalmUntilSlip
<1>3. OneRowEach
  <2>1. OneRow /\ KeyFound
    BY <1>2 DEF Calm, Found
  <2>2. ASSUME NEW i \in 1..made, Settled
        PROVE  \/ \E n \in Names : keys[rels[i].voter][n] = i
               \/ keys[rels[i].voter][rels[i].name] = Absent
    <3>1. rels[i].name \in Names
        BY RowTyped
    <3> QED
        BY <2>1, <2>2, <3>1 DEF KeyFound, Settled, Counting
  <2> QED
    BY <2>1, <2>2 DEF OneRowEach, OneRow
<1>4. ASSUME Settled PROVE ScoreIsVotes /\ KarmaIsVotes
  <2>1. BeforeUps \in SUBSET Counting /\ BeforeDowns \in SUBSET Counting
    BY BeforesTyped
  <2>2. Cardinality(Scored(BeforeUps, 1)) = Named(1)
    BY <1>4, <2>1, SettledCounts DEF Named
  <2>3. Cardinality(Scored(BeforeDowns, -1)) = Named(-1)
    BY <1>4, <2>1, SettledCounts DEF Named
  <2>4. Cardinality(Credited(1)) = Valid(1) /\ Cardinality(Credited(-1)) = Valid(-1)
    BY <1>4, SettledCounts DEF Valid
  <2> QED
    BY <1>2, <2>2, <2>3, <2>4 DEF Calm, UpsLag, DownsLag, KarmaLag, ScoreIsVotes, KarmaIsVotes
<1> QED
    BY <1>3, <1>4 DEF ScoreIsVotes, KarmaIsVotes

\* Until the first slip a voter has one row however votes are delivered, and
\* the key of its name leads to it, or is not cached, once all is counted.
THEOREM OneRowForEach == Spec => []OneRowEach
    BY CalmInvariant, CalmShows, PTL

\* Until the first slip the score is the number of rows of either direction
\* once all is counted, in whatever order votes come: of votes changed,
\* withdrawn or redelivered, none is counted twice or lost.  The thing's first
\* up is the author's if their first row was an upvote, and else one more.
THEOREM ScoreIsRight == Spec => []ScoreIsVotes
    BY CalmInvariant, CalmShows, PTL

\* Until the first slip the author's karma is the valid votes, with what those
\* had given whose voters are spammers now, once all is counted.
THEOREM KarmaIsRight == Spec => []KarmaIsVotes
    BY CalmInvariant, CalmShows, PTL

-----------------------------------------------------------------------------
(* The numbers of votes, and what is outstanding.                           *)

\* Between taking a vote and its acknowledgement a consumer has its vote.
LEMMA MiddleStep ==
    ASSUME TypeOK, NEW c \in Consumers, Handle(c), ~Take(c), ~Crash(c), ~Ack(c)
    PROVE  UNCHANGED <<queue, vote, last, casts>> /\ at[c] # "idle" /\ at'[c] # "idle"
<1> USE DEF found, history
<1>1. CASE Lookup(c) \/ Query(c) \/ Decide(c) \/ Commit(c) \/ Duplicate(c) \/ SetKey(c)
    BY <1>1, StepGoes DEF CameTo, Lookup, Query, Decide, Commit, Duplicate, SetKey
<1>2. CASE IncrUps(c) \/ IncrDowns(c) \/ IncrKarma(c) \/ NoKarma(c) \/ FirstKarma(c) \/ Copy(c)
    BY <1>2, StepGoes DEF CameTo, IncrUps, IncrDowns, IncrKarma, NoKarma, FirstKarma, Copy
<1> QED
    BY <1>1, <1>2 DEF Handle

\* Outside, the votes that wait grow when one is cast.
LEMMA QueueOutside ==
    ASSUME TypeOK, Outside
    PROVE  UNCHANGED <<queue, last, casts>> \/ \E v \in Voters, n \in Names : Cast(v, n)
    BY DEF Outside, Evict, Ban, vars, history

\* A vote that is given up waits again; one that is acknowledged is gone.
LEMMA GivesUp ==
    ASSUME TypeOK, NEW c \in Consumers, Crash(c)
    PROVE  /\ at[c] # "idle" /\ at'[c] = "idle" /\ queue' = queue \cup {vote[c]}
           /\ UNCHANGED <<rels, made, likes, last, casts>>
    BY DEF Crash, Reset, Goto, TypeOK, store

LEMMA IsDone ==
    ASSUME TypeOK, NEW c \in Consumers, Ack(c)
    PROVE  /\ at[c] = "ack" /\ at'[c] = "idle"
           /\ UNCHANGED <<queue, rels, made, likes, last, casts, overtaken>>
    BY DEF Ack, Reset, Goto, TypeOK, store, history

\* What an outstanding vote is.
LEMMA IsOutstanding ==
    ASSUME NEW v, NEW y
    PROVE  y \in Outstanding(v) <=>
               \/ y \in queue /\ y.voter = v
               \/ \E c \in Consumers : at[c] # "idle" /\ vote[c].voter = v /\ y = vote[c]
    BY DEF Outstanding, Beside, Voter

\* Outstanding votes are votes, with numbers that have been given.
LEMMA OutstandingTyped ==
    ASSUME TypeOK, Numbered, NEW v, NEW y \in Outstanding(v)
    PROVE  y \in Vote /\ y.voter = v /\ y.no \in Nat /\ y.no <= casts
<1>1. y \in Vote
    BY IsOutstanding DEF TypeOK
<1>2. y.no <= casts /\ y.voter = v
    BY IsOutstanding DEF Numbered
<1> QED
    BY <1>1, <1>2 DEF Vote

\* Whether it waits or is handled, a vote is outstanding until it is
\* acknowledged.
LEMMA OutstandingStays ==
    ASSUME TypeOK, NEW c \in Consumers, Handle(c), ~Ack(c), NEW v
    PROVE  Outstanding(v)' = Outstanding(v)
<1>1. SUFFICES ASSUME NEW y
               PROVE  y \in Outstanding(v)' <=> y \in Outstanding(v)
    BY SetExtensionality
<1>2. y \in Outstanding(v)' <=>
          \/ y \in queue' /\ y.voter = v
          \/ \E d \in Consumers : at'[d] # "idle" /\ vote'[d].voter = v /\ y = vote'[d]
    BY DEF Outstanding, Beside, Voter
<1>3. \A d \in Consumers : d # c => at'[d] = at[d] /\ vote'[d] = vote[d]
    BY OthersSame
<1>4. CASE Take(c)
  <2>1. PICK x \in queue : TakesUp(c, x)
    BY <1>4, Takes
  <2>2. at[c] = "idle" /\ at'[c] = "lookup" /\ vote'[c] = x /\ queue' = queue \ {x}
    BY <2>1 DEF TakesUp
  <2> QED
    BY <1>2, <1>3, <2>2, IsOutstanding
<1>5. CASE Crash(c)
    BY <1>2, <1>3, <1>5, IsOutstanding, GivesUp
<1>6. CASE ~Take(c) /\ ~Crash(c)
    BY <1>2, <1>3, <1>6, IsOutstanding, MiddleStep
<1> QED
    BY <1>4, <1>5, <1>6

LEMMA OutstandingAcked ==
    ASSUME TypeOK, Numbered, NEW c \in Consumers, Ack(c), NEW v
    PROVE  Outstanding(v)' = Outstanding(v) \ {vote[c]}
<1>1. SUFFICES ASSUME NEW y
               PROVE  y \in Outstanding(v)' <=> y \in Outstanding(v) /\ y # vote[c]
    BY SetExtensionality
<1>2. y \in Outstanding(v)' <=>
          \/ y \in queue' /\ y.voter = v
          \/ \E d \in Consumers : at'[d] # "idle" /\ vote'[d].voter = v /\ y = vote'[d]
    BY DEF Outstanding, Beside, Voter
<1>3. \A d \in Consumers : d # c => at'[d] = at[d] /\ vote'[d] = vote[d]
    BY OthersSame DEF Handle
<1>4. at[c] # "idle" /\ at'[c] = "idle" /\ queue' = queue
    BY IsDone
<1>5. vote[c] \notin queue /\ \A d \in Consumers : at[d] # "idle" /\ vote[d] = vote[c] => d = c
    BY <1>4 DEF Numbered
<1> QED
    BY <1>2, <1>3, <1>4, <1>5, IsOutstanding

\* A vote that is cast gets the next number.
LEMMA OutstandingCast ==
    ASSUME TypeOK, NEW v \in Voters, NEW n \in Names, Cast(v, n), NEW w
    PROVE  /\ w # v => Outstanding(w)' = Outstanding(w)
           /\ w = v => Outstanding(w)' =
                  Outstanding(w) \cup {[voter |-> v, name |-> n, no |-> casts + 1]}
<1>1. SUFFICES ASSUME NEW y
               PROVE  y \in Outstanding(w)' <=>
                          y \in Outstanding(w) \/ (w = v /\ y = [voter |-> v, name |-> n, no |-> casts + 1])
  <2> DEFINE More == Outstanding(w) \cup {[voter |-> v, name |-> n, no |-> casts + 1]}
  <2>1. w # v => Outstanding(w)' = Outstanding(w)
    BY <1>1, SetExtensionality
  <2>2. w = v => Outstanding(w)' = More
    BY <1>1, SetExtensionality
  <2> QED
    BY <2>1, <2>2
<1>2. y \in Outstanding(w)' <=>
          \/ y \in queue' /\ y.voter = w
          \/ \E d \in Consumers : at'[d] # "idle" /\ vote'[d].voter = w /\ y = vote'[d]
    BY DEF Outstanding, Beside, Voter
<1>3. queue' = queue \cup {[voter |-> v, name |-> n, no |-> casts + 1]} /\ at' = at /\ vote' = vote
    BY DEF Cast, found
<1> QED
    BY <1>2, <1>3, IsOutstanding

\* Otherwise what goes on outside leaves them as they are.
LEMMA OutsideOutstanding ==
    ASSUME TypeOK, Outside, UNCHANGED queue, NEW v
    PROVE  Outstanding(v)' = Outstanding(v) /\ Beside(v)' = Beside(v)
    BY OutsideSame DEF Outstanding, Beside

\* Numbers stay different.
LEMMA NumberedPreserved ==
    ASSUME TypeOK, Numbered, [Next]_vars
    PROVE  Numbered'
<1>0. casts \in Nat /\ (\A x \in queue : x.no \in Nat) /\ \A c \in Consumers : vote[c].no \in Nat
    BY DEF TypeOK, Vote
<1>1. CASE Outside
  <2>1. UNCHANGED <<at, vote>>
    BY <1>1, OutsideSame
  <2>2. CASE UNCHANGED <<queue, casts>>
    BY <2>1, <2>2 DEF Numbered
  <2>3. ASSUME NEW v \in Voters, NEW n \in Names, Cast(v, n)
        PROVE  Numbered'
    <3>1. /\ queue' = queue \cup {[voter |-> v, name |-> n, no |-> casts + 1]}
          /\ casts' = casts + 1
        BY <2>3 DEF Cast
    <3>2. /\ \A x \in queue' : x.no <= casts'
          /\ \A x, y \in queue' : x.no = y.no => x = y
        BY <1>0, <3>1 DEF Numbered
    <3>3. ASSUME NEW c \in Consumers, at'[c] # "idle"
          PROVE  /\ vote'[c].no <= casts'
                 /\ \A x \in queue' : x.no # vote'[c].no
                 /\ \A d \in Consumers : at'[d] # "idle" /\ vote'[d].no = vote'[c].no => d = c
        BY <1>0, <2>1, <3>1, <3>3 DEF Numbered
    <3> QED
        BY <3>2, <3>3 DEF Numbered
  <2> QED
    BY <1>1, <2>2, <2>3, QueueOutside
<1>2. ASSUME NEW c \in Consumers, Handle(c)
      PROVE  Numbered'
  <2> USE <1>2
  <2>1. \A d \in Consumers : d # c => at'[d] = at[d] /\ vote'[d] = vote[d]
    BY OthersSame
  <2>2. CASE Take(c)
    <3>1. PICK x \in queue : TakesUp(c, x)
        BY <2>2, Takes
    <3>2. /\ at[c] = "idle" /\ at'[c] = "lookup" /\ vote'[c] = x /\ queue' = queue \ {x}
          /\ casts' = casts
        BY <3>1 DEF TakesUp
    <3> QED
        BY <2>1, <3>2 DEF Numbered
  <2>3. CASE Crash(c)
    <3>1. at[c] # "idle" /\ at'[c] = "idle" /\ queue' = queue \cup {vote[c]} /\ casts' = casts
        BY <2>3, GivesUp
    <3> QED
        BY <2>1, <3>1 DEF Numbered
  <2>4. CASE Ack(c)
    BY <2>1, <2>4, IsDone DEF Numbered
  <2>5. CASE ~Take(c) /\ ~Crash(c) /\ ~Ack(c)
    <3>1. UNCHANGED <<queue, vote, casts>> /\ at[c] # "idle" /\ at'[c] # "idle"
        BY <2>5, MiddleStep
    <3> QED
        BY <2>1, <3>1 DEF Numbered
  <2> QED
    BY <2>2, <2>3, <2>4, <2>5
<1> QED
    BY <1>1, <1>2, StepIs

-----------------------------------------------------------------------------
(* What voters are shown: a row, and if they were not overtaken the last.   *)

\* Likes change when a vote is copied.
LEMMA LikesChange ==
    ASSUME NEW c \in Consumers, Handle(c)
    PROVE  likes' = likes \/ Copy(c)
<1>1. CASE Take(c) \/ Lookup(c) \/ Query(c) \/ Decide(c) \/ Commit(c) \/ Duplicate(c) \/ SetKey(c)
    BY <1>1 DEF Take, Lookup, Query, Decide, Commit, Duplicate, SetKey
<1>2. CASE IncrUps(c) \/ IncrDowns(c) \/ IncrKarma(c) \/ NoKarma(c) \/ FirstKarma(c)
    BY <1>2 DEF IncrUps, IncrDowns, IncrKarma, NoKarma, FirstKarma
<1>3. CASE Ack(c) \/ Crash(c)
    BY <1>3 DEF Ack, Crash
<1> QED
    BY <1>1, <1>2, <1>3 DEF Handle

\* What other voters are shown and what rows they have stays as it is.
LEMMA OthersShow ==
    ASSUME TypeOK, Rooted, NEW c \in Consumers, Handle(c), NEW v, v # Voter(c)
    PROVE  likes'[v] = likes[v] /\ \A n : RowsOf(v, n)' = RowsOf(v, n)
<1>1. \A n : RowsOf(v, n)' = RowsOf(v, n)
  <2>1. /\ \A i : OwnRow(v, i) => OwnRow(v, i)'
        /\ \A i \in 1..made' : rels'[i].voter # Voter(c) => i \in 1..made /\ rels'[i] = rels[i]
    BY RowsStay
  <2>2. \A n, i : i \in RowsOf(v, n)' <=> i \in RowsOf(v, n)
    BY <2>1 DEF RowsOf, OwnRow
  <2>3. ASSUME NEW n PROVE RowsOf(v, n)' = RowsOf(v, n)
    BY <2>2, SetExtensionality
  <2> QED
    BY <2>3
<1>2. likes' = likes \/ Copy(c)
    BY LikesChange
<1>3. Copy(c) => likes'[v] = likes[v]
    BY DEF Copy, TypeOK
<1> QED
    BY <1>1, <1>2, <1>3

\* With one row for each voter, no vote is a duplicate.
LEMMA NoDuplicate ==
    ASSUME TypeOK, Rooted, Found, NEW c \in Consumers
    PROVE  ~Duplicate(c)
<1>1. SUFFICES ASSUME Duplicate(c) PROVE FALSE
    OBVIOUS
<1>2. at[c] = "commit"
    BY <1>1 DEF Duplicate
<1>3. CASE isNew[c]
  <2>1. \A i \in 1..made : rels[i].voter # Voter(c)
    BY <1>2, <1>3, Known DEF Knows
  <2> QED
    BY <1>1, <1>3, <2>1 DEF Duplicate, RowsOf
<1>4. CASE ~isNew[c]
  <2>1. OwnRow(Voter(c), rel[c])
    BY <1>2, <1>4 DEF Rooted
  <2>2. RowsOf(Voter(c), Renamed(c)) \subseteq {rel[c]}
    BY <2>1 DEF RowsOf, OwnRow, Found, OneRow
  <2> QED
    BY <1>1, <1>4, <2>2 DEF Duplicate
<1> QED
    BY <1>3, <1>4

\* A consumer that has finished its part has copied the row's name.
LEMMA CopiesRow ==
    ASSUME TypeOK, Rooted, Found, NEW c \in Consumers, Copy(c)
    PROVE  /\ likes'[Voter(c)] = Amount(c) /\ RowsOf(Voter(c), Amount(c)) # {}
           /\ UNCHANGED <<rels, made, last, queue, vote, overtaken>>
<1>1. /\ at[c] = "copy" /\ likes'[Voter(c)] = name[c]
      /\ UNCHANGED <<rels, made, last, queue, vote, overtaken>>
    BY HandTyped DEF Copy, Copied, TypeOK, found, store, history
<1>2. name[c] = Amount(c) /\ rels[rel[c]].name = Amount(c) /\ OwnRow(Voter(c), rel[c])
    BY <1>1, Known DEF Knows, Rooted
<1>3. rel[c] \in RowsOf(Voter(c), Amount(c))
    BY <1>2 DEF OwnRow, RowsOf
<1> QED
    BY <1>1, <1>2, <1>3

\* A voter's row is shown unless a vote of theirs is still to be copied.
LEMMA ShownRowPreserved ==
    ASSUME TypeOK, Rooted, Found, NEW v \in Voters, ShownRow(v), [Next]_vars
    PROVE  ShownRow(v)'
<1>1. CASE Outside
  <2>1. /\ UNCHANGED <<rels, made, at, vote, likes>>
        /\ \A d : Voter(d)' = Voter(d) /\ (Active(d)' <=> Active(d))
    BY <1>1, OutsideSame
  <2>2. CASE UNCHANGED <<queue, last>>
    BY <2>1, <2>2 DEF ShownRow, RowsOf
  <2>3. ASSUME NEW w \in Voters, NEW n \in Names, Cast(w, n)
        PROVE  ShownRow(v)'
    <3>1. /\ queue' = queue \cup {[voter |-> w, name |-> n, no |-> casts + 1]}
          /\ last' = [last EXCEPT ![w] = n]
        BY <2>3 DEF Cast
    <3>2. CASE w = v
        <4> DEFINE x == [voter |-> w, name |-> n, no |-> casts + 1]
        <4>1. x \in queue' /\ x.voter = v
            BY <3>1, <3>2
        <4> HIDE DEF x
        <4> QED
            BY <4>1 DEF ShownRow
    <3>3. CASE w # v
        <4>1. last'[v] = last[v] /\ queue \subseteq queue'
            BY <3>1, <3>3 DEF TypeOK
        <4> QED
            BY <2>1, <4>1 DEF ShownRow, RowsOf
    <3> QED
        BY <3>2, <3>3
  <2> QED
    BY <1>1, <2>2, <2>3, QueueOutside
<1>2. ASSUME NEW c \in Consumers, Handle(c)
      PROVE  ShownRow(v)'
  <2> USE <1>2
  <2>1. ASSUME NEW d \in Consumers, Active(d), Voter(d) = v, d # c
        PROVE  ShownRow(v)'
    BY <2>1, OthersSame DEF ShownRow
  <2>2. ASSUME Active(c), Voter(c) = v
        PROVE  ShownRow(v)'
    <3>1. CASE Crash(c)
        BY <2>2, <3>1, GivesUp DEF ShownRow, Voter
    <3>2. CASE Copy(c)
        <4>1. /\ likes'[v] = Amount(c) /\ RowsOf(v, Amount(c)) # {}
              /\ UNCHANGED <<rels, made>>
            BY <2>2, <3>2, CopiesRow
        <4>2. {i \in 1..made' : rels'[i].voter = v /\ rels'[i].name = likes'[v]} # {}
            BY <4>1 DEF RowsOf
        <4> QED
            BY <4>2 DEF ShownRow, RowsOf
    <3>3. CASE ~Crash(c) /\ ~Copy(c)
        <4>1. at'[c] \notin {"idle", "ack"}
            BY <2>2, <3>3, StepGoes, NoDuplicate DEF CameTo, Ack, Active
        <4>2. Voter(c)' = v
            BY <2>2, <4>1, VoteStays DEF Take, Active, Voter
        <4> QED
            BY <4>1, <4>2 DEF ShownRow, Active
    <3> QED
        BY <3>1, <3>2, <3>3
  <2>3. SUFFICES ASSUME \A d \in Consumers : Active(d) => Voter(d) # v
                 PROVE  ShownRow(v)'
    BY <2>1, <2>2
  <2>4. CASE Take(c)
    <3>1. PICK x \in queue : TakesUp(c, x)
        BY <2>4, Takes
    <3>2. CASE x.voter = v
        BY <3>1, <3>2 DEF TakesUp, ShownRow, Active, Voter
    <3>3. CASE x.voter # v
        BY <2>3, <3>1, <3>3 DEF TakesUp, ShownRow, RowsOf
    <3> QED
        BY <3>2, <3>3
  <2>5. CASE ~Take(c)
    <3>1. queue \subseteq queue' /\ last' = last
        BY <2>5, MiddleStep, GivesUp, IsDone
    <3>2. likes'[v] = likes[v] /\ \A n : RowsOf(v, n)' = RowsOf(v, n)
        <4>1. CASE Voter(c) # v
            BY <4>1, OthersShow
        <4>2. CASE Voter(c) = v
            <5>1. ~Commit(c) /\ ~Copy(c)
                BY <2>3, <4>2 DEF Commit, Copy, Active
            <5> QED
                BY <5>1, LikesChange, RowsChange DEF RowsOf
        <4> QED
            BY <4>1, <4>2
    <3>3. RowsOf(v, likes[v]) # {} =>
              {i \in 1..made' : rels'[i].voter = v /\ rels'[i].name = likes'[v]} # {}
        <4>1. \A n : {i \in 1..made' : rels'[i].voter = v /\ rels'[i].name = n} = RowsOf(v, n)
            BY <3>2 DEF RowsOf
        <4> QED
            BY <3>2, <4>1
    <3> QED
        BY <2>3, <3>1, <3>3 DEF ShownRow, RowsOf
  <2> QED
    BY <2>4, <2>5
<1> QED
    BY <1>1, <1>2, StepIs

\* A voter who was not overtaken is in one hand at most.
LEMMA OneAtATime ==
    ASSUME TypeOK, Numbered, NEW v, InTurn(v), NEW c \in Beside(v), NEW d \in Beside(v)
    PROVE  c = d
<1>1. /\ vote[c] \in Outstanding(v) /\ vote[d] \in Outstanding(v)
      /\ vote[c].voter = v /\ vote[d].voter = v
    BY DEF Outstanding, Beside, Voter
<1>2. ~(vote[c].no < vote[d].no) /\ ~(vote[d].no < vote[c].no)
    BY <1>1 DEF InTurn, Older
<1>3. vote[c].no \in Nat /\ vote[d].no \in Nat
    BY <1>1, OutstandingTyped
<1>4. vote[c].no = vote[d].no
    BY <1>2, <1>3
<1> QED
    BY <1>4 DEF Numbered, Beside

\* A vote is begun when there is no older one, or it overtakes.
LEMMA InTurnPreserved ==
    ASSUME TypeOK, Numbered, NEW v \in Voters, InTurn(v), [Next]_vars, v \notin overtaken'
    PROVE  InTurn(v)'
<1>0. SUFFICES ASSUME NEW d \in Consumers, d \in Beside(v)',
                      NEW y, y \in Outstanding(v)', y.no < vote'[d].no
               PROVE  FALSE
    BY DEF InTurn, Older, Beside, Voter
<1>1. ASSUME d \in Beside(v), vote'[d] = vote[d], y \in Outstanding(v)
      PROVE  FALSE
    BY <1>0, <1>1 DEF InTurn, Older, Beside, Voter
<1>2. CASE Outside
  <2>1. d \in Beside(v) /\ vote'[d] = vote[d]
    BY <1>0, <1>2, OutsideSame DEF Beside
  <2>2. CASE UNCHANGED queue
    BY <1>0, <1>1, <1>2, <2>1, <2>2, OutsideOutstanding
  <2>3. ASSUME NEW w \in Voters, NEW n \in Names, Cast(w, n)
        PROVE  y \in Outstanding(v)
    <3>1. vote[d] \in Outstanding(v)
        BY <2>1 DEF Outstanding
    <3>2. vote[d].no \in Nat /\ vote[d].no <= casts /\ casts \in Nat
        BY <3>1, OutstandingTyped DEF TypeOK
    <3>3. y \in Outstanding(v) \/ y.no = casts + 1
        BY <1>0, <2>3, OutstandingCast
    <3> QED
        BY <1>0, <2>1, <3>2, <3>3
  <2> QED
    BY <1>1, <1>2, <2>1, <2>2, <2>3, QueueOutside
<1>3. ASSUME NEW c \in Consumers, Handle(c)
      PROVE  FALSE
  <2> USE <1>3
  <2>1. y \in Outstanding(v)
    BY <1>0, OutstandingStays, OutstandingAcked
  <2>2. CASE d # c
    BY <1>0, <1>1, <2>1, <2>2, OthersSame DEF Beside
  <2>3. CASE d = c /\ Take(c)
    <3>1. PICK x \in queue : TakesUp(c, x)
        BY <2>3, Takes
    <3>2. x.voter = v /\ vote'[d] = x
        BY <1>0, <2>3, <3>1 DEF TakesUp, Beside, Voter
    <3>3. Older(x) = {}
        BY <3>1, <3>2 DEF TakesUp
    <3> QED
        BY <1>0, <2>1, <3>2, <3>3 DEF Older
  <2>4. CASE d = c /\ ~Take(c)
    <3>1. at'[c] # "idle" /\ Voter(c)' = v
        BY <1>0, <2>4 DEF Beside
    <3>2. UNCHANGED vote /\ at[c] # "idle"
        BY <2>4, <3>1, GivesUp, IsDone, MiddleStep
    <3> QED
        BY <1>1, <2>1, <2>4, <3>1, <3>2 DEF Beside, Voter
  <2> QED
    BY <2>2, <2>3, <2>4
<1> QED
    BY <1>2, <1>3, StepIs

\* A vote is the newest when it is cast, and shown when it is acknowledged.
LEMMA LastKnownPreserved ==
    ASSUME TypeOK, Numbered, NEW v \in Voters, InTurn(v), AckShown(v), LastKnown(v), [Next]_vars
    PROVE  LastKnown(v)'
<1>1. ASSUME Outstanding(v)' = Outstanding(v), last'[v] = last[v],
             Outstanding(v) = {} => likes'[v] = likes[v]
      PROVE  LastKnown(v)'
    BY <1>1 DEF LastKnown, IsNewest
<1>2. CASE Outside
  <2>1. likes' = likes
    BY <1>2, OutsideSame
  <2>2. CASE UNCHANGED <<queue, last>>
    BY <1>1, <1>2, <2>1, <2>2, OutsideOutstanding
  <2>3. ASSUME NEW w \in Voters, NEW n \in Names, Cast(w, n)
        PROVE  LastKnown(v)'
    <3>1. last' = [last EXCEPT ![w] = n]
        BY <2>3 DEF Cast
    <3>2. CASE w # v
        <4>1. Outstanding(v)' = Outstanding(v)
            BY <2>3, <3>2, OutstandingCast
        <4>2. last'[v] = last[v]
            BY <3>1, <3>2 DEF TypeOK
        <4> QED
            BY <1>1, <2>1, <4>1, <4>2
    <3>3. CASE w = v
        <4> DEFINE x == [voter |-> v, name |-> n, no |-> casts + 1]
        <4>1. Outstanding(v)' = Outstanding(v) \cup {x} /\ last'[v] = n
            BY <2>3, <3>1, <3>3, OutstandingCast DEF TypeOK
        <4>2. casts \in Nat /\ \A y \in Outstanding(v) : y.no \in Nat /\ y.no <= casts
            BY OutstandingTyped DEF TypeOK
        <4>3. x.name = n /\ x.no = casts + 1 /\ x \in Outstanding(v)'
            BY <4>1
        <4>4. \A y \in Outstanding(v)' : y.no <= x.no
            BY <4>1, <4>2, <4>3
        <4> QED
            BY <4>1, <4>3, <4>4 DEF LastKnown, IsNewest
    <3> QED
        BY <3>2, <3>3
  <2> QED
    BY <1>2, <2>2, <2>3, QueueOutside
<1>3. ASSUME NEW c \in Consumers, Handle(c), ~Ack(c)
      PROVE  LastKnown(v)'
  <2>1. last' = last
    <3>1. Take(c) => last' = last
        BY Takes, <1>3 DEF TakesUp
    <3> QED
        BY <1>3, <3>1, GivesUp, MiddleStep
  <2>2. ASSUME Outstanding(v) = {}
        PROVE  likes'[v] = likes[v]
    <3>1. ~(at[c] # "idle" /\ Voter(c) = v)
        BY <2>2 DEF Outstanding, Beside
    <3>2. Copy(c) => likes'[v] = likes[v]
        BY <3>1 DEF Copy, TypeOK
    <3> QED
        BY <1>3, <3>2, LikesChange
  <2> QED
    BY <1>1, <1>3, <2>1, <2>2, OutstandingStays
<1>4. ASSUME NEW c \in Consumers, Ack(c)
      PROVE  LastKnown(v)'
  <2>1. /\ at[c] = "ack" /\ last' = last /\ likes' = likes
        /\ Outstanding(v)' = Outstanding(v) \ {vote[c]}
    BY <1>4, IsDone, OutstandingAcked
  <2>2. CASE Outstanding(v) = {}
    BY <1>1, <2>1, <2>2
  <2>3. ASSUME NEW x \in Outstanding(v), IsNewest(v, x), x # vote[c]
        PROVE  LastKnown(v)'
    BY <2>1, <2>3 DEF LastKnown, IsNewest
  <2>4. ASSUME NEW x \in Outstanding(v), IsNewest(v, x), x = vote[c]
        PROVE  LastKnown(v)'
    <3>1. c \in Beside(v) /\ x.name = last[v]
        BY <2>1, <2>4, OutstandingTyped DEF Beside, Voter, IsNewest
    <3>2. likes[v] = last[v]
        BY <2>1, <2>4, <3>1 DEF AckShown, Amount
    <3>3. ASSUME NEW y \in Outstanding(v)
          PROVE  y = x
        <4>1. y.no <= x.no /\ ~(y.no < x.no) /\ y.no \in Nat /\ x.no \in Nat
            BY <2>4, <3>1, OutstandingTyped DEF IsNewest, InTurn, Older
        <4>2. y.no = x.no
            BY <4>1
        <4> QED
            BY <2>1, <2>4, <4>2, IsOutstanding DEF Numbered
    <3>4. Outstanding(v)' = {}
        BY <2>1, <2>4, <3>3
    <3> QED
        BY <2>1, <3>2, <3>4 DEF LastKnown
  <2> QED
    BY <2>2, <2>3, <2>4 DEF LastKnown
<1> QED
    BY <1>2, <1>3, <1>4, StepIs

\* A vote is acknowledged when its voter is shown it.
LEMMA AckShownPreserved ==
    ASSUME TypeOK, Rooted, Found, Numbered, NEW v \in Voters, InTurn(v), AckShown(v), [Next]_vars
    PROVE  AckShown(v)'
<1>1. CASE Outside
    BY <1>1, OutsideSame DEF AckShown, Beside
<1>2. ASSUME NEW c \in Consumers, Handle(c)
      PROVE  AckShown(v)'
  <2> USE <1>2
  <2>1. ASSUME NEW d \in Consumers, d # c, Voter(d)' = v, at'[d] = "ack"
        PROVE  likes'[v] = Amount(d)'
    <3>1. d \in Beside(v) /\ at[d] = "ack" /\ Amount(d)' = Amount(d)
        BY <2>1, OthersSame DEF Beside
    <3>2. likes[v] = Amount(d)
        BY <3>1 DEF AckShown
    <3>3. Copy(c) => Voter(c) # v
        BY <2>1, <3>1, OneAtATime DEF Beside, Copy
    <3>4. Copy(c) => likes'[v] = likes[v]
        BY <3>3 DEF Copy, TypeOK
    <3> QED
        BY <3>1, <3>2, <3>4, LikesChange
  <2>2. ASSUME Voter(c)' = v, at'[c] = "ack"
        PROVE  likes'[v] = Amount(c)'
    <3>1. Copy(c)
        BY <2>2, StepGoes, NoDuplicate DEF CameTo
    <3> QED
        BY <2>2, <3>1, CopiesRow DEF Voter, Amount
  <2> QED
    BY <2>1, <2>2 DEF AckShown, Beside
<1> QED
    BY <1>1, <1>2, StepIs

\* At first only the author has a vote, and it waits.
LEMMA OrderInit == Init => Numbered /\ AllShown /\ InOrder
<1>1. SUFFICES ASSUME Init PROVE Numbered /\ AllShown /\ InOrder
    OBVIOUS
<1>2. /\ queue = {AutomaticVote} /\ casts = 0
      /\ \A c \in Consumers : at[c] = "idle"
      /\ \A v \in Voters : likes[v] = NoLike /\ last[v] = IF v = Author THEN 1 ELSE NoLike
    BY <1>1 DEF Init
<1>3. AutomaticVote.voter = Author /\ AutomaticVote.name = 1 /\ AutomaticVote.no = 0
    BY DEF AutomaticVote
<1>4. Numbered /\ AllShown
    BY <1>2, <1>3 DEF Numbered, AllShown, ShownRow
<1>5. ASSUME NEW v \in Voters PROVE InTurn(v) /\ AckShown(v) /\ LastKnown(v)
  <2>1. Beside(v) = {}
    BY <1>2 DEF Beside
  <2>2. Outstanding(v) = IF v = Author THEN {AutomaticVote} ELSE {}
    BY <1>2, <1>3, <2>1 DEF Outstanding
  <2> QED
    BY <1>2, <1>3, <2>1, <2>2 DEF InTurn, AckShown, LastKnown, IsNewest
<1> QED
    BY <1>4, <1>5 DEF InOrder

ShownUntilSlip == ~slip => AllShown /\ InOrder

\* The whole invariant.
LEMMA VoteInvariant == Spec => [](TypeOK /\ VoteInv)
<1>1. Init => Numbered /\ ShownUntilSlip
    BY OrderInit DEF ShownUntilSlip
<1>2. TypeOK /\ Numbered /\ [Next]_vars => Numbered'
    BY NumberedPreserved
<1>3. TypeOK /\ Rooted /\ CalmUntilSlip /\ Numbered /\ ShownUntilSlip /\ [Next]_vars
          => ShownUntilSlip'
  <2>1. SUFFICES ASSUME TypeOK, Rooted, CalmUntilSlip, Numbered, ShownUntilSlip, [Next]_vars,
                        ~slip'
                 PROVE  AllShown' /\ InOrder'
    BY DEF ShownUntilSlip
  <2>2. Found /\ AllShown /\ InOrder
    BY <2>1, SlipsStay DEF CalmUntilSlip, Calm, ShownUntilSlip
  <2>3. AllShown'
    BY <2>1, <2>2, ShownRowPreserved DEF AllShown
  <2>4. ASSUME NEW v \in Voters, v \notin overtaken'
        PROVE  InTurn(v)' /\ LastKnown(v)' /\ AckShown(v)'
    <3>1. InTurn(v) /\ LastKnown(v) /\ AckShown(v)
        BY <2>1, <2>2, <2>4, SlipsStay DEF InOrder
    <3>2. InTurn(v)'
        BY <2>1, <2>4, <3>1, InTurnPreserved
    <3>3. LastKnown(v)'
        BY <2>1, <3>1, LastKnownPreserved
    <3>4. AckShown(v)'
        BY <2>1, <2>2, <3>1, AckShownPreserved
    <3> QED
        BY <3>2, <3>3, <3>4
  <2>5. InOrder'
    BY <2>4 DEF InOrder
  <2> QED
    BY <2>3, <2>5
<1>4. Rooted /\ Numbered /\ CalmUntilSlip /\ ShownUntilSlip => VoteInv
    BY DEF CalmUntilSlip, ShownUntilSlip, VoteInv
<1> QED
    BY <1>1, <1>2, <1>3, <1>4, CalmInvariant, PTL DEF Spec

\* When all is handled, in whatever order, voters are shown the direction
\* that the score has of them; and the last one they cast, redelivered or
\* not, unless that was begun before an older one was acknowledged.
THEOREM LastShows == Spec => []LastVoteShows
<1>1. TypeOK /\ VoteInv => LastVoteShows
  <2>1. SUFFICES ASSUME VoteInv, ~slip, queue = {}, \A c \in Consumers : at[c] = "idle",
                        NEW v \in Voters, last[v] # NoLike
                 PROVE  RowsOf(v, likes[v]) # {} /\ (v \notin overtaken => likes[v] = last[v])
    BY DEF LastVoteShows, Idle
  <2>2. ShownRow(v) /\ (v \notin overtaken => LastKnown(v))
    BY <2>1 DEF VoteInv, AllShown, InOrder
  <2>3. RowsOf(v, likes[v]) # {}
    BY <2>1, <2>2 DEF ShownRow, Active
  <2>4. Outstanding(v) = {}
    BY <2>1 DEF Outstanding, Beside
  <2> QED
    BY <2>1, <2>2, <2>3, <2>4 DEF LastKnown
<1> QED
    BY <1>1, VoteInvariant, PTL
=============================================================================

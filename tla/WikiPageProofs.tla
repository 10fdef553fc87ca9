--------------------------- MODULE WikiPageProofs ---------------------------
(***************************************************************************)
(* Proofs about WikiPage for any processes, lines, words and bounds.  Three *)
(* things hold together: what a request has in hand (its copy, the revision *)
(* it made) fits what is stored; a request that is alone has the page and   *)
(* the attribute as they are; and one that has written the page will write  *)
(* the attribute too, or die.                                               *)
(***************************************************************************)
EXTENDS WikiPage, SequenceTheorems, TLAPS

\* A row as the code leaves it: no content without a revision, else its content.
Fits(x) ==
    IF x.revision = NoRevision THEN x.content = Empty ELSE x.content = revs[x.revision]

\* The rows: a page that is not there has nothing, one that requests work on is there.
Rows ==
    /\ ~page.exists => page = NoPage
    /\ \A p \in Procs : pc[p] \in {"revise", "page", "site"} => page.exists
    /\ page.content \in {Empty} \cup Range(revs)
    /\ ~crossed => Fits(page) /\ \A p \in Procs : Fits(copy[p])

\* The revision a request has made is what it merged, without a conflict.
Made ==
    \A p \in Procs :
        /\ pc[p] \in {"idle", "read", "check", "create", "revise"} => made[p] = NoRevision
        /\ pc[p] = "page" =>
              /\ made[p] # NoRevision
              /\ revs[made[p]] = NewContent(p)
              /\ ~Clashes(p)

\* A request that is alone: nothing has changed since it read it, but by itself.
Alone ==
    \A p \in Procs : alone[p] =>
        /\ pc[p] # "idle"
        /\ \A q \in Procs \ {p} : pc[q] = "idle"
        /\ shown[p] = site
        /\ pc[p] \in {"revise", "page"} => page.content = copy[p].content
        /\ pc[p] = "site" =>
              page.content = IF made[p] = NoRevision THEN text[p] ELSE revs[made[p]]

\* It ends by writing the attribute of a special page, or dies: no conflict any more.
WillSave(p) ==
    \/ pc[p] \in {"page", "site"}
    \/ pc[p] = "revise" /\ copy[p].revision = NoRevision

Settled ==
    special /\ settled => site = page.content \/ \E p \in Procs : WillSave(p)

WikiInv == Rows /\ Made /\ Alone /\ Settled

USE WikiConstants DEF NoRevision, Absent

-----------------------------------------------------------------------------
(* Types.                                                                   *)

Row == [exists : BOOLEAN, content : Text, revision : 0 .. Len(revs)]

LEMMA EmptyTyped ==
    /\ Empty \in Text
    /\ NoPage \in [exists : BOOLEAN, content : Text, revision : {0}]
    /\ NoPage.exists = FALSE /\ NoPage.content = Empty /\ NoPage.revision = 0
<1>1. Empty \in Text
  BY DEF Text, Empty
<1>2. /\ NoPage \in [exists : BOOLEAN, content : Text, revision : {0}]
      /\ NoPage.exists = FALSE /\ NoPage.content = Empty /\ NoPage.revision = 0
  BY <1>1 DEF NoPage
<1> QED
  BY <1>1, <1>2

\* Rows with some columns written.
LEMMA RowUpdates ==
    ASSUME NEW S, NEW x \in [exists : BOOLEAN, content : Text, revision : S],
           NEW n \in S, NEW c \in Text
    PROVE  /\ LET y == [x EXCEPT !.exists = TRUE]
              IN  /\ y \in [exists : BOOLEAN, content : Text, revision : S]
                  /\ y.exists = TRUE /\ y.content = x.content /\ y.revision = x.revision
           /\ LET y == [x EXCEPT !.exists = TRUE, !.content = c]
              IN  /\ y \in [exists : BOOLEAN, content : Text, revision : S]
                  /\ y.exists = TRUE /\ y.content = c /\ y.revision = x.revision
           /\ LET y == [x EXCEPT !.revision = n, !.content = c]
              IN  /\ y \in [exists : BOOLEAN, content : Text, revision : S]
                  /\ y.exists = x.exists /\ y.content = c /\ y.revision = n
  OBVIOUS

LEMMA NewPage ==
    LET y == [NoPage EXCEPT !.exists = TRUE]
    IN  /\ y \in [exists : BOOLEAN, content : Text, revision : {0}]
        /\ y.exists = TRUE /\ y.content = Empty /\ y.revision = 0
  BY EmptyTyped, RowUpdates

\* What a request is about to store is a text.
LEMMA NewContentTyped ==
    ASSUME TypeOK, NEW p \in Procs
    PROVE  NewContent(p) \in Text
<1>1. text[p] \in Text /\ copy[p].content \in Text
  BY DEF TypeOK
<1>2. Merge(Original(p), text[p], copy[p].content) \in Text
  BY <1>1 DEF Merge, Text
<1> QED
  BY <1>1, <1>2 DEF NewContent

\* Revisions are added and never changed.
LEMMA RevisionsGrow ==
    ASSUME TypeOK, NEW p \in Procs, Step(p)
    PROVE  /\ revs' \in Seq(Text) /\ Len(revs') <= MaxRevs
           /\ Len(revs) \in Nat /\ Len(revs') \in Nat /\ Len(revs) <= Len(revs')
           /\ \A n \in 1 .. Len(revs) : revs'[n] = revs[n]
<1>0. revs \in Seq(Text) /\ Len(revs) \in Nat /\ Len(revs) <= MaxRevs
  BY LenProperties DEF TypeOK
<1>1. CASE MakeRevision(p)
  <2>1. revs' = Append(revs, NewContent(p)) /\ Len(revs) < MaxRevs
    BY <1>1 DEF MakeRevision, WithRevision
  <2>2. /\ revs' \in Seq(Text) /\ Len(revs') = Len(revs) + 1
        /\ \A n \in 1 .. Len(revs) : revs'[n] = revs[n]
    BY <1>0, <2>1, NewContentTyped, AppendProperties
  <2> QED
    BY <1>0, <2>1, <2>2
<1>2. CASE ~MakeRevision(p)
  <2>1. revs' = revs
    BY <1>2 DEF Step, Begin, ReadPage, PageNotFound, MayNotCreate, CheckPage, PageExists,
                CreatePage, Unchanged, Conflict, SavePage, Done, SaveSite, Crash, stored
  <2> QED
    BY <1>0, <2>1
<1> QED
  BY <1>1, <1>2

\* Nothing in hand.
LEMMA EndsTyped ==
    ASSUME TypeOK, NEW p \in Procs, Ends(p), revs' = revs
    PROVE  /\ pc' \in [Procs -> {"idle", "read", "check", "create", "revise", "page", "site"}]
           /\ text' \in [Procs -> Text] /\ shown' \in [Procs -> Text]
           /\ previous' \in [Procs -> {Absent} \cup 0 .. Len(revs')]
           /\ copy' \in [Procs -> Row']
           /\ made' \in [Procs -> 0 .. Len(revs')]
           /\ alone' \in [Procs -> BOOLEAN]
<1>1. NoPage \in Row'
  BY LenProperties, EmptyTyped DEF Row, TypeOK
<1>2. Len(revs) \in Nat
  BY LenProperties DEF TypeOK
<1> QED
  BY <1>1, <1>2, EmptyTyped DEF Ends, Goto, TypeOK, Row

\* A request that is about to save the page has made a revision.
HasMade == \A p \in Procs : pc[p] = "page" => made[p] # NoRevision

LEMMA TypesPreserved ==
    ASSUME TypeOK, HasMade, NEW p \in Procs, Step(p)
    PROVE  TypeOK'
<1>0. /\ revs' \in Seq(Text) /\ Len(revs') <= MaxRevs
      /\ Len(revs) \in Nat /\ Len(revs') \in Nat /\ Len(revs) <= Len(revs')
  BY RevisionsGrow
<1>1. ASSUME NEW r \in {Absent, NoRevision} \cup DOMAIN revs, NEW x \in Text, Begin(p, r, x)
      PROVE  TypeOK'
  <2>1. r \in {Absent} \cup 0 .. Len(revs)
    BY <1>0 DEF TypeOK
  <2> QED
    BY <1>0, <1>1, <2>1 DEF Begin, Goto, TypeOK, stored
<1>2. CASE PageNotFound(p) \/ CheckPage(p) \/ Unchanged(p)
  BY <1>0, <1>2 DEF PageNotFound, CheckPage, Unchanged, Goto, TypeOK, stored, request, history
<1>9. CASE ReadPage(p)
  BY <1>0, <1>9 DEF ReadPage, Goto, TypeOK, stored, history
<1>3. CASE MayNotCreate(p) \/ PageExists(p) \/ Conflict(p) \/ Done(p)
  <2>1. Ends(p) /\ UNCHANGED <<stored, history, ops>>
    BY <1>3 DEF MayNotCreate, PageExists, Conflict, Done
  <2>2. revs' = revs
    BY <2>1 DEF stored
  <2> QED
    BY <1>0, <2>1, <2>2, EndsTyped DEF TypeOK, Row, stored, history
<1>4. CASE SaveSite(p)
  <2>1. Ends(p) /\ revs' = revs /\ site' \in Text
    BY <1>4 DEF SaveSite, Stored, TypeOK
  <2> QED
    BY <1>0, <1>4, <2>1, EndsTyped DEF SaveSite, TypeOK, Row
<1>5. CASE Crash(p)
  <2>1. Ends(p) /\ revs' = revs /\ UNCHANGED stored
    BY <1>5 DEF Crash, stored
  <2>2. deaths' \in 0 .. MaxDeaths /\ settled' = FALSE /\ UNCHANGED <<crossed, ops>>
    BY <1>5 DEF Crash, TypeOK
  <2> QED
    BY <1>0, <2>1, <2>2, EndsTyped DEF TypeOK, Row, stored
<1>6. CASE CreatePage(p)
  <2>1. [NoPage EXCEPT !.exists = TRUE] \in Row'
    BY <1>0, NewPage DEF Row
  <2>2. [page EXCEPT !.exists = TRUE, !.content = Empty] \in Row'
    BY <1>0, <1>6, EmptyTyped DEF Row, TypeOK, CreatePage
  <2> QED
    BY <1>0, <1>6, <2>1, <2>2 DEF CreatePage, Writes, Goto, TypeOK, Row
<1>7. CASE MakeRevision(p)
  <2>1. Len(revs') = Len(revs) + 1
    BY <1>7, NewContentTyped, AppendProperties DEF MakeRevision, WithRevision, TypeOK
  <2>2. Len(revs) + 1 \in 0 .. Len(revs')
    BY <1>0, <2>1
  <2>3. /\ \A x \in 0 .. Len(revs) : x \in 0 .. Len(revs')
        /\ Row \subseteq Row'
    BY <1>0 DEF Row
  <2> QED
    BY <1>0, <1>7, <2>2, <2>3 DEF MakeRevision, Goto, TypeOK, history, Row
<1>8. CASE SavePage(p)
  <2>1. Written(p) \in Row'
    <3>1. revs' = revs /\ page \in Row /\ made[p] \in 1 .. Len(revs)
      BY <1>0, <1>8 DEF SavePage, TypeOK, Row, HasMade
    <3>2. revs[made[p]] \in Text /\ page.content \in Text
      BY <1>0, <3>1, ElementOfSeq DEF TypeOK, Row
    <3>3. Written(p) = [page EXCEPT !.revision = made[p],
              !.content = IF revs[made[p]] = copy[p].content THEN page.content ELSE revs[made[p]]]
      BY DEF Written
    <3> DEFINE c == IF revs[made[p]] = copy[p].content THEN page.content ELSE revs[made[p]]
    <3>4. c \in Text
      BY <3>2
    <3> HIDE DEF c
    <3>5. [page EXCEPT !.revision = made[p], !.content = c] \in Row
      <4>1. made[p] \in 0 .. Len(revs)
        BY <1>0, <3>1
      <4> QED
        BY <3>1, <3>4, <4>1 DEF Row
    <3> QED
      BY <3>1, <3>3, <3>5 DEF Row, c
  <2> QED
    BY <1>0, <1>8, <2>1 DEF SavePage, Writes, Goto, TypeOK, request, Row
<1> QED
  BY <1>1, <1>2, <1>3, <1>4, <1>5, <1>6, <1>7, <1>8, <1>9 DEF Step

\* Every variable keeps its type (wiki.py:160-373).
THEOREM Typing == Spec => [](TypeOK /\ HasMade)
<1>1. Init => TypeOK /\ HasMade
  <2> SUFFICES ASSUME Init PROVE TypeOK /\ HasMade
    OBVIOUS
  <2>1. page \in Row /\ revs \in Seq(Text) /\ Len(revs) <= MaxRevs /\ Len(revs) \in Nat /\ site \in Text
    <3>1. ASSUME NEW x \in Text,
                 page = [exists |-> TRUE, content |-> x, revision |-> 1], revs = <<x>>,
                 site = IF special THEN x ELSE Empty
          PROVE  page \in Row /\ revs \in Seq(Text) /\ Len(revs) <= MaxRevs /\ Len(revs) \in Nat /\ site \in Text
      BY <3>1, EmptyTyped DEF Row
    <3>2. ASSUME page = NoPage, revs = <<>>, site \in IF special THEN Text ELSE {Empty}
          PROVE  page \in Row /\ revs \in Seq(Text) /\ Len(revs) <= MaxRevs /\ Len(revs) \in Nat /\ site \in Text
      BY <3>2, EmptyTyped DEF Row
    <3> QED
      BY <3>1, <3>2 DEF Init
  <2>2. NoPage \in Row
    BY <2>1, EmptyTyped DEF Row
  <2>3. settled \in BOOLEAN
    <3>1. page.exists \in BOOLEAN
      BY <2>1 DEF Row
    <3> QED
      BY <3>1 DEF Init
  <2>4. /\ copy \in [Procs -> Row] /\ previous \in [Procs -> {Absent} \cup 0 .. Len(revs)]
        /\ made \in [Procs -> 0 .. Len(revs)]
    BY <2>1, <2>2 DEF Init
  <2>5. HasMade
    BY DEF Init, HasMade
  <2>6. /\ text \in [Procs -> Text] /\ shown \in [Procs -> Text]
        /\ pc \in [Procs -> {"idle", "read", "check", "create", "revise", "page", "site"}]
        /\ alone \in [Procs -> BOOLEAN]
    BY EmptyTyped DEF Init
  <2>7. special \in BOOLEAN /\ crossed \in BOOLEAN
    BY DEF Init
  <2>8. ops \in 0 .. MaxOps /\ deaths \in 0 .. MaxDeaths
    BY DEF Init
  <2> QED
    BY <2>1, <2>3, <2>4, <2>5, <2>6, <2>7, <2>8 DEF TypeOK, Row
<1>2. TypeOK /\ HasMade /\ [Next]_vars => TypeOK' /\ HasMade'
  <2>1. TypeOK /\ HasMade /\ UNCHANGED vars => TypeOK' /\ HasMade'
    BY DEF vars, stored, request, history, TypeOK, HasMade
  <2>2. ASSUME TypeOK, HasMade, NEW p \in Procs, Step(p)
        PROVE  HasMade'
    <3>1. Len(revs) + 1 # NoRevision
      BY <2>2, RevisionsGrow
    <3> QED
      BY <2>2, <3>1 DEF Step, Begin, ReadPage, PageNotFound, MayNotCreate, CheckPage, PageExists,
             CreatePage, Unchanged, Conflict, MakeRevision, SavePage, Done, SaveSite, Crash,
             Ends, Goto, request, TypeOK, HasMade
  <2> QED
    BY <2>1, <2>2, TypesPreserved DEF Next
<1> QED
  BY <1>1, <1>2, PTL DEF Spec

-----------------------------------------------------------------------------
(* Rows.                                                                    *)

\* A row that fits goes on fitting; what was in the history is still there.
LEMMA StillFits ==
    ASSUME TypeOK, NEW p \in Procs, Step(p)
    PROVE  /\ Range(revs) \subseteq Range(revs')
           /\ \A x \in Row : Fits(x) =>
                IF x.revision = NoRevision THEN x.content = Empty
                                           ELSE x.content = revs'[x.revision]
<1>1. /\ Len(revs) \in Nat /\ Len(revs') \in Nat /\ Len(revs) <= Len(revs')
      /\ \A n \in 1 .. Len(revs) : revs'[n] = revs[n]
      /\ DOMAIN revs = 1 .. Len(revs) /\ DOMAIN revs' = 1 .. Len(revs')
  BY RevisionsGrow, LenProperties DEF TypeOK
<1>2. Range(revs) \subseteq Range(revs')
  BY <1>1 DEF Range
<1>3. ASSUME NEW x \in Row, Fits(x)
      PROVE  IF x.revision = NoRevision THEN x.content = Empty
                                        ELSE x.content = revs'[x.revision]
  <2>1. x.revision \in 0 .. Len(revs)
    BY DEF Row
  <2> QED
    BY <1>1, <1>3, <2>1 DEF Fits
<1> QED
  BY <1>2, <1>3

LEMMA RowsPreserved ==
    ASSUME TypeOK, HasMade, Rows, NEW p \in Procs, Step(p)
    PROVE  Rows'
<1>0. /\ Range(revs) \subseteq Range(revs')
      /\ \A x \in Row : Fits(x) =>
           IF x.revision = NoRevision THEN x.content = Empty ELSE x.content = revs'[x.revision]
  BY StillFits
<1>T. /\ page \in Row /\ copy \in [Procs -> Row]
      /\ pc \in [Procs -> {"idle", "read", "check", "create", "revise", "page", "site"}]
      /\ revs \in Seq(Text)
  BY DEF TypeOK, Row
<1>1. CASE CreatePage(p)
  <2>1. /\ page' = [page EXCEPT !.exists = TRUE, !.content = Empty]
        /\ copy' = [copy EXCEPT ![p] = [NoPage EXCEPT !.exists = TRUE]]
        /\ crossed' = (crossed \/ page.exists)
    BY <1>1 DEF CreatePage
  <2>2. page'.exists = TRUE /\ page'.content = Empty /\ page'.revision = page.revision
    BY <2>1, <1>T, EmptyTyped, RowUpdates DEF Row
  <2>3. copy'[p].content = Empty /\ copy'[p].revision = 0
    BY <2>1, <1>T, NewPage
  <2>4. ~crossed' => ~crossed /\ page.revision = 0
    BY <2>1, EmptyTyped DEF Rows
  <2> QED
    BY <2>1, <2>2, <2>3, <2>4, <1>0, <1>T DEF Rows, Fits
<1>2. CASE SavePage(p)
  <2>1. /\ page' = Written(p) /\ copy' = copy /\ revs' = revs /\ pc' = [pc EXCEPT ![p] = "site"]
        /\ crossed' = (crossed \/ copy[p].revision # page.revision)
        /\ page.exists
    BY <1>2 DEF SavePage, Goto, request, Rows
  <2>2. made[p] \in 1 .. Len(revs) /\ revs[made[p]] \in Text /\ page.content \in Text
    <3>1. made[p] \in 0 .. Len(revs) /\ made[p] # 0 /\ Len(revs) \in Nat
      BY <1>2, <1>T, LenProperties DEF SavePage, TypeOK, HasMade
    <3> QED
      BY <3>1, <1>T, ElementOfSeq DEF Row
  <2> DEFINE c == IF revs[made[p]] = copy[p].content THEN page.content ELSE revs[made[p]]
  <2>3. page' = [page EXCEPT !.revision = made[p], !.content = c]
    BY <2>1 DEF Written
  <2>4. c \in Text
    BY <2>2
  <2>5. revs[made[p]] \in Range(revs)
    BY <2>2, <1>T, LenProperties DEF Range
  <2>6. c \in {Empty} \cup Range(revs)
    BY <2>5 DEF Rows
  <2>7. ~crossed' => ~crossed /\ c = revs[made[p]]
    BY <2>1 DEF Rows, Fits
  <2> HIDE DEF c
  <2>8. page'.exists = TRUE /\ page'.content = c /\ page'.revision = made[p]
    <3>1. made[p] \in 0 .. Len(revs)
      BY <2>2, <1>T, LenProperties
    <3> QED
      BY <2>1, <2>3, <2>4, <3>1, <1>T DEF Row
  <2> QED
    BY <2>1, <2>2, <2>6, <2>7, <2>8, <1>0, <1>T DEF Rows, Fits
<1>3. ASSUME ~CreatePage(p), ~SavePage(p)
      PROVE  Rows'
  <2>1. page' = page /\ crossed' = crossed
    BY <1>3 DEF Step, Begin, ReadPage, PageNotFound, MayNotCreate, CheckPage, PageExists,
         Unchanged, Conflict, MakeRevision, Done, SaveSite, Crash, stored, history
  <2>2. /\ \A q \in Procs : copy'[q] \in {copy[q], page, NoPage}
        /\ \A q \in Procs : pc'[q] \in {"revise", "page", "site"} =>
                pc[q] \in {"revise", "page", "site"} \/ page.exists
    BY <1>3, <1>T DEF Step, Begin, ReadPage, PageNotFound, MayNotCreate, CheckPage, PageExists,
         Unchanged, Conflict, MakeRevision, Done, SaveSite, Crash, Ends, Goto, request
  <2>3. \A q \in Procs : pc'[q] \in {"revise", "page", "site"} => page.exists
    BY <2>2 DEF Rows
  <2>4. NoPage \in Row /\ Fits(NoPage)
    BY EmptyTyped, <1>T, LenProperties DEF Row, Fits
  <2>5. ASSUME ~crossed', NEW x \in {page, NoPage} \cup {copy[q] : q \in Procs}
        PROVE  IF x.revision = NoRevision THEN x.content = Empty
                                          ELSE x.content = revs'[x.revision]
    <3>1. x \in Row /\ Fits(x)
      BY <2>1, <2>4, <2>5, <1>T DEF Rows
    <3> QED
      BY <3>1, <1>0
  <2>6. ~crossed' => Fits(page)' /\ \A q \in Procs : Fits(copy[q])'
    BY <2>1, <2>2, <2>5 DEF Fits
  <2> QED
    BY <2>1, <2>3, <2>6, <1>0 DEF Rows
<1> QED
  BY <1>1, <1>2, <1>3

-----------------------------------------------------------------------------
(* What requests have made.                                                 *)

LEMMA MadePreserved ==
    ASSUME TypeOK, HasMade, Made, NEW p \in Procs, Step(p)
    PROVE  Made'
<1>0. /\ Len(revs) \in Nat /\ Len(revs') \in Nat /\ Len(revs) <= Len(revs')
      /\ Len(revs) <= MaxRevs /\ Len(revs') <= MaxRevs
      /\ revs \in Seq(Text) /\ revs' \in Seq(Text)
      /\ \A n \in 1 .. Len(revs) : revs'[n] = revs[n]
  BY RevisionsGrow DEF TypeOK
<1>1. ASSUME NEW q \in Procs, pc'[q] = "page", pc[q] = "page"
      PROVE  made'[q] # NoRevision /\ revs'[made'[q]] = NewContent(q)' /\ ~Clashes(q)'
  <2>1. text'[q] = text[q] /\ previous'[q] = previous[q] /\ copy'[q] = copy[q] /\ made'[q] = made[q]
    BY <1>1 DEF Step, Begin, ReadPage, PageNotFound, MayNotCreate, CheckPage, PageExists,
         CreatePage, Unchanged, Conflict, MakeRevision, SavePage, Done, SaveSite, Crash,
         Ends, Goto, request, TypeOK
  <2>2. made[q] \in 1 .. Len(revs) /\ previous[q] \in {Absent} \cup 0 .. Len(revs)
    BY <1>0, <1>1 DEF TypeOK, HasMade
  <2>3. revs'[made[q]] = revs[made[q]]
    BY <2>2, <1>0
  <2>4. previous[q] \in Revs => previous[q] \in 1 .. Len(revs)
    BY <2>2, <1>0 DEF Revs
  <2>5. Original(q)' = Original(q)
    BY <2>1, <2>4, <1>0 DEF Original
  <2>6. NewContent(q)' = NewContent(q) /\ Clashes(q)' = Clashes(q)
    BY <2>1, <2>5 DEF NewContent, Clashes, MustMerge
  <2> QED
    BY <1>1, <2>1, <2>3, <2>6 DEF Made
<1>2. ASSUME NEW q \in Procs, pc'[q] = "page", pc[q] # "page"
      PROVE  made'[q] # NoRevision /\ revs'[made'[q]] = NewContent(q)' /\ ~Clashes(q)'
  <2>1. q = p /\ MakeRevision(p)
    BY <1>2 DEF Step, Begin, ReadPage, PageNotFound, MayNotCreate, CheckPage, PageExists,
         CreatePage, Unchanged, Conflict, MakeRevision, SavePage, Done, SaveSite, Crash,
         Ends, Goto, request, TypeOK
  <2>2. /\ text' = text /\ previous' = previous /\ copy' = copy
        /\ made'[q] = Len(revs) + 1 /\ revs' = Append(revs, NewContent(q)) /\ ~Clashes(q)
    BY <2>1 DEF MakeRevision, WithRevision, TypeOK
  <2>3. revs'[Len(revs) + 1] = NewContent(q)
    BY <2>2, <1>0, NewContentTyped, AppendProperties
  <2>4. previous[q] \in {Absent} \cup 0 .. Len(revs)
    BY DEF TypeOK
  <2>5. previous[q] \in Revs => previous[q] \in 1 .. Len(revs)
    BY <2>4, <1>0 DEF Revs
  <2>6. Original(q)' = Original(q)
    BY <2>2, <2>5, <1>0 DEF Original
  <2>7. NewContent(q)' = NewContent(q) /\ Clashes(q)' = Clashes(q)
    BY <2>2, <2>6 DEF NewContent, Clashes, MustMerge
  <2> QED
    BY <2>2, <2>3, <2>7, <1>0
<1>3. ASSUME NEW q \in Procs, pc'[q] \in {"idle", "read", "check", "create", "revise"}
      PROVE  made'[q] = NoRevision
  BY <1>3 DEF Step, Begin, ReadPage, PageNotFound, MayNotCreate, CheckPage, PageExists,
         CreatePage, Unchanged, Conflict, MakeRevision, SavePage, Done, SaveSite, Crash,
         Ends, Goto, request, TypeOK, Made
<1> QED
  BY <1>1, <1>2, <1>3 DEF Made

-----------------------------------------------------------------------------
(* Requests that are alone, and what they leave.                            *)

LEMMA AlonePreserved ==
    ASSUME TypeOK, HasMade, Rows, Made, Alone, NEW p \in Procs, Step(p)
    PROVE  Alone'
<1> SUFFICES ASSUME NEW q \in Procs, alone'[q]
             PROVE  /\ pc'[q] # "idle"
                    /\ \A r \in Procs \ {q} : pc'[r] = "idle"
                    /\ shown'[q] = site'
                    /\ pc'[q] \in {"revise", "page"} => page'.content = copy'[q].content
                    /\ pc'[q] = "site" =>
                          page'.content = IF made'[q] = NoRevision THEN text'[q]
                                                                   ELSE revs'[made'[q]]
  BY DEF Alone
<1>T. /\ page \in Row /\ copy \in [Procs -> Row] /\ text \in [Procs -> Text]
      /\ shown \in [Procs -> Text] /\ alone \in [Procs -> BOOLEAN]
      /\ made \in [Procs -> 0 .. Len(revs)]
      /\ pc \in [Procs -> {"idle", "read", "check", "create", "revise", "page", "site"}]
  BY DEF TypeOK, Row
<1>1. CASE \E r \in {Absent, NoRevision} \cup DOMAIN revs, x \in Text : Begin(p, r, x)
  <2>1. PICK r \in {Absent, NoRevision} \cup DOMAIN revs, x \in Text : Begin(p, r, x)
    BY <1>1
  <2>2. q = p /\ Others(p) = {}
    BY <2>1 DEF Begin
  <2>3. \A s \in Procs \ {p} : pc[s] = "idle"
    BY <2>2 DEF Others
  <2> QED
    BY <2>1, <2>2, <2>3, <1>T DEF Begin, Goto, stored
<1>2. ASSUME ~\E r \in {Absent, NoRevision} \cup DOMAIN revs, x \in Text : Begin(p, r, x)
      PROVE  /\ q = p /\ alone[p] /\ ~Ends(p)
             /\ \A r \in Procs \ {p} : pc[r] = "idle" /\ pc'[r] = "idle"
             /\ shown[p] = site
             /\ pc[p] \in {"revise", "page"} => page.content = copy[p].content
  <2>1. alone[q]
    BY <1>2, <1>T DEF Step, ReadPage, PageNotFound, MayNotCreate, CheckPage, PageExists,
         CreatePage, Unchanged, Conflict, MakeRevision, SavePage, Done, SaveSite, Crash, Ends
  <2>2. pc[p] # "idle"
    BY <1>2 DEF Step, ReadPage, PageNotFound, MayNotCreate, CheckPage, PageExists,
         CreatePage, Unchanged, Conflict, MakeRevision, SavePage, Done, SaveSite, Crash
  <2>3. q = p
    BY <2>1, <2>2 DEF Alone
  <2>4. ~Ends(p)
    BY <2>3, <1>T DEF Ends
  <2>5. \A r \in Procs \ {p} : pc'[r] = pc[r]
    BY <1>2, <1>T DEF Step, ReadPage, PageNotFound, MayNotCreate, CheckPage, PageExists,
         CreatePage, Unchanged, Conflict, MakeRevision, SavePage, Done, SaveSite, Crash, Ends, Goto
  <2> QED
    BY <2>1, <2>3, <2>4, <2>5 DEF Alone
<1>3. CASE ReadPage(p) \/ PageNotFound(p) \/ CheckPage(p)
  <2>1. ~\E r \in {Absent, NoRevision} \cup DOMAIN revs, x \in Text : Begin(p, r, x)
    BY <1>3 DEF ReadPage, PageNotFound, CheckPage, Begin
  <2>2. /\ pc'[p] \in {"revise", "check", "create"}
        /\ pc'[p] = "revise" => copy'[p] = page
        /\ UNCHANGED <<page, site, shown>>
    BY <1>3, <1>T DEF ReadPage, PageNotFound, CheckPage, Goto, stored, request
  <2> QED
    BY <1>2, <2>1, <2>2
<1>4. CASE CreatePage(p)
  <2>1. ~\E r \in {Absent, NoRevision} \cup DOMAIN revs, x \in Text : Begin(p, r, x)
    BY <1>4 DEF CreatePage, Begin
  <2>2. /\ pc'[p] = "revise" /\ UNCHANGED <<site, shown>>
        /\ page' = [page EXCEPT !.exists = TRUE, !.content = Empty]
        /\ copy'[p] = [NoPage EXCEPT !.exists = TRUE]
    BY <1>4, <1>T DEF CreatePage, Goto
  <2>3. page'.content = Empty /\ copy'[p].content = Empty
    BY <2>2, <1>T, EmptyTyped, NewPage, RowUpdates DEF Row
  <2> QED
    BY <1>2, <2>1, <2>2, <2>3
<1>5. CASE Unchanged(p) \/ MakeRevision(p)
  <2>1. ~\E r \in {Absent, NoRevision} \cup DOMAIN revs, x \in Text : Begin(p, r, x)
    BY <1>5 DEF Unchanged, MakeRevision, Begin
  <2>2. /\ UNCHANGED <<page, site, shown, copy, text>>
        /\ pc[p] = "revise"
        /\ pc'[p] = "page" \/ (pc'[p] = "site" /\ made'[p] = made[p] /\ text[p] = copy[p].content)
    BY <1>5, <1>T DEF Unchanged, MakeRevision, Goto, stored, request
  <2>3. made[p] = NoRevision
    BY <2>2 DEF Made
  <2> QED
    BY <1>2, <2>1, <2>2, <2>3
<1>6. CASE SavePage(p)
  <2>1. ~\E r \in {Absent, NoRevision} \cup DOMAIN revs, x \in Text : Begin(p, r, x)
    BY <1>6 DEF SavePage, Begin
  <2>2. /\ UNCHANGED <<revs, site, shown, made>> /\ pc[p] = "page" /\ pc'[p] = "site"
        /\ page' = Written(p) /\ made[p] # NoRevision
    BY <1>6, <1>T DEF SavePage, Goto, request, HasMade
  <2>3. page.content = copy[p].content
    BY <1>2, <2>1, <2>2
  <2> DEFINE c == IF revs[made[p]] = copy[p].content THEN page.content ELSE revs[made[p]]
  <2>4. page' = [page EXCEPT !.revision = made[p], !.content = c]
    BY <2>2 DEF Written
  <2>5. c = revs[made[p]]
    BY <2>3
  <2> HIDE DEF c
  <2>6. page'.content = c
    BY <2>4, <1>T DEF Row
  <2> QED
    BY <1>2, <2>1, <2>2, <2>5, <2>6
<1>7. CASE MayNotCreate(p) \/ PageExists(p) \/ Conflict(p) \/ Done(p) \/ SaveSite(p) \/ Crash(p)
  <2>1. Ends(p)
    BY <1>7 DEF MayNotCreate, PageExists, Conflict, Done, SaveSite, Crash
  <2>2. pc[p] # "idle"
    BY <1>7 DEF MayNotCreate, PageExists, Conflict, Done, SaveSite, Crash
  <2>3. ~\E r \in {Absent, NoRevision} \cup DOMAIN revs, x \in Text : Begin(p, r, x)
    BY <2>2 DEF Begin
  <2> QED
    BY <1>2, <2>1, <2>3
<1> QED
  BY <1>1, <1>3, <1>4, <1>5, <1>6, <1>7 DEF Step

LEMMA SettledPreserved ==
    ASSUME TypeOK, HasMade, Rows, Made, Alone, Settled, NEW p \in Procs, Step(p)
    PROVE  Settled'
<1> SUFFICES ASSUME special', settled'
             PROVE  site' = page'.content \/ \E q \in Procs : WillSave(q)'
  BY DEF Settled
<1>T. /\ page \in Row /\ copy \in [Procs -> Row] /\ alone \in [Procs -> BOOLEAN]
      /\ pc \in [Procs -> {"idle", "read", "check", "create", "revise", "page", "site"}]
  BY DEF TypeOK, Row
<1>1. special
  BY DEF Step, Begin, ReadPage, PageNotFound, MayNotCreate, CheckPage, PageExists, CreatePage,
         Unchanged, Conflict, MakeRevision, SavePage, Done, SaveSite, Crash, stored
<1>2. CASE SaveSite(p)
  <2>1. /\ alone[p] /\ (made[p] # NoRevision => revs[made[p]] = text[p])
        /\ pc[p] = "site" /\ site' = Stored(p) /\ page' = page
    BY <1>2 DEF SaveSite
  <2>2. shown[p] = site /\ page.content = text[p]
    BY <2>1 DEF Alone
  <2> QED
    BY <2>1, <2>2 DEF Stored
<1>3. CASE CreatePage(p)
  <2>1. pc'[p] = "revise" /\ copy'[p] = [NoPage EXCEPT !.exists = TRUE]
    BY <1>3, <1>T DEF CreatePage, Goto
  <2> QED
    BY <2>1, NewPage DEF WillSave
<1>4. CASE SavePage(p)
  BY <1>4, <1>T DEF SavePage, Goto, WillSave
<1>5. ASSUME ~SaveSite(p), ~CreatePage(p), ~SavePage(p)
      PROVE  site' = page'.content \/ \E q \in Procs : WillSave(q)'
  <2>1. settled /\ site' = site /\ page' = page /\ ~Crash(p)
    BY <1>5 DEF Step, Begin, ReadPage, PageNotFound, MayNotCreate, CheckPage, PageExists,
         Unchanged, Conflict, MakeRevision, Done, Crash, stored, history
  <2>2. ASSUME NEW q \in Procs, WillSave(q)
        PROVE  WillSave(q)'
    <3>1. ~Conflict(p) \/ q # p
      BY <2>2 DEF Conflict, WillSave, Clashes, MustMerge
    <3> QED
      BY <1>1, <1>5, <2>1, <2>2, <3>1, <1>T DEF Step, Begin, ReadPage, PageNotFound,
         MayNotCreate, CheckPage, PageExists, Unchanged, Conflict, MakeRevision, Done,
         Ends, Goto, request, WillSave
  <2> QED
    BY <1>1, <2>1, <2>2 DEF Settled
<1> QED
  BY <1>2, <1>3, <1>4, <1>5

-----------------------------------------------------------------------------
(* The theorems.                                                            *)

\* The inductive invariant.
LEMMA WikiInvariant == Spec => [](TypeOK /\ HasMade /\ WikiInv)
<1>1. Init => WikiInv
  <2> SUFFICES ASSUME Init PROVE WikiInv
    OBVIOUS
  <2> DEFINE Row0 == /\ ~page.exists => page = NoPage
                     /\ page.content \in {Empty} \cup Range(revs)
                     /\ Fits(page)
                     /\ special /\ settled => site = page.content
  <2>1. Row0
    <3>1. ASSUME NEW x \in Text,
                 page = [exists |-> TRUE, content |-> x, revision |-> 1], revs = <<x>>,
                 site = IF special THEN x ELSE Empty
          PROVE  Row0
      BY <3>1 DEF Range, Fits
    <3>2. ASSUME page = NoPage, revs = <<>>, ~settled
          PROVE  Row0
      BY <3>2, EmptyTyped DEF Fits
    <3>3. page = NoPage => ~settled
      BY EmptyTyped DEF Init
    <3> QED
      BY <3>1, <3>2, <3>3 DEF Init
  <2>2. \A p \in Procs : Fits(copy[p])
    BY EmptyTyped DEF Init, Fits
  <2> QED
    BY <2>1, <2>2 DEF Init, WikiInv, Rows, Made, Alone, Settled
<1>2. TypeOK /\ HasMade /\ WikiInv /\ [Next]_vars => WikiInv'
  <2>1. ASSUME TypeOK, HasMade, WikiInv, NEW p \in Procs, Step(p)
        PROVE  WikiInv'
    BY <2>1, RowsPreserved, MadePreserved, AlonePreserved, SettledPreserved DEF WikiInv
  <2>2. WikiInv /\ UNCHANGED vars => WikiInv'
    BY DEF vars, stored, request, history, WikiInv, Rows, Fits, Made, NewContent, Clashes,
           MustMerge, Original, Alone, Settled, WillSave
  <2> QED
    BY <2>1, <2>2 DEF Next
<1> QED
  BY <1>1, <1>2, Typing, PTL DEF Spec

\* What the page says is in its history, and is the revision it names unless it was
\* written from an old copy (wiki.py:347-368).
THEOREM PageHasRevision == Spec => []PageIsItsRevision
<1>1. Rows => PageIsItsRevision
  BY DEF Rows, Fits, PageIsItsRevision
<1> QED
  BY <1>1, WikiInvariant, PTL DEF WikiInv

\* A special page and the subreddit's copy agree after a request that ran alone and
\* did not merge, whatever happened before (controllers/wiki.py:386-391).
THEOREM SiteAgrees == Spec => []SiteShowsPage
<1>1. Settled => SiteShowsPage
  BY DEF Settled, WillSave, SiteShowsPage
<1> QED
  BY <1>1, WikiInvariant, PTL DEF WikiInv

\* What an edit replaces its author had seen, and what he wrote is in
\* (wiki.py:347-362).
THEOREM NothingUnseenIsReplaced == Spec => SeenIfReplaced
<1> DEFINE Seen(p) ==
        /\ pc[p] = "page" /\ pc'[p] = "site"
        /\ previous[p] # Absent
        /\ copy[p] = page /\ page.revision # NoRevision
        => \A l \in Lines :
            /\ page'.content[l] # page.content[l] => Original(p)[l] = page.content[l]
            /\ text[p][l] # Original(p)[l] => page'.content[l] = text[p][l]
<1>1. ASSUME TypeOK, Rows, Made, NEW q \in Procs, Step(q), NEW p \in Procs
      PROVE  Seen(p)
  <2> SUFFICES ASSUME pc[p] = "page", pc'[p] = "site", previous[p] # Absent,
                      copy[p] = page, page.revision # NoRevision,
                      NEW l \in Lines
               PROVE  /\ page'.content[l] # page.content[l] => Original(p)[l] = page.content[l]
                      /\ text[p][l] # Original(p)[l] => page'.content[l] = text[p][l]
    OBVIOUS
  <2>T. page \in Row /\ pc \in [Procs -> {"idle", "read", "check", "create", "revise", "page", "site"}]
    BY <1>1 DEF TypeOK, Row
  <2>1. SavePage(p)
    BY <1>1, <2>T DEF Step, Begin, ReadPage, PageNotFound, MayNotCreate, CheckPage, PageExists,
         CreatePage, Unchanged, Conflict, MakeRevision, SavePage, Done, SaveSite, Crash,
         Ends, Goto
  <2>2. revs[made[p]] = Merge(Original(p), text[p], page.content)
    BY <1>1 DEF Made, NewContent, MustMerge
  <2>3. ~Conflicts(Original(p), text[p], page.content)
    BY <1>1 DEF Made, Clashes, MustMerge
  <2> DEFINE c == IF revs[made[p]] = copy[p].content THEN page.content ELSE revs[made[p]]
  <2>4. page' = [page EXCEPT !.revision = made[p], !.content = c]
    BY <2>1 DEF SavePage, Written
  <2>5. c = revs[made[p]]
    OBVIOUS
  <2> HIDE DEF c
  <2>6. page'.content = Merge(Original(p), text[p], page.content)
    BY <2>2, <2>4, <2>5, <2>T DEF Row
  <2> QED
    BY <2>3, <2>6 DEF Merge, Conflicts
<1>2. TypeOK /\ Rows /\ Made /\ [Next]_vars => [\A p \in Procs : Seen(p)]_vars
  BY <1>1 DEF Next
<1> QED
  BY <1>2, WikiInvariant, PTL DEF Spec, WikiInv, SeenIfReplaced
=============================================================================

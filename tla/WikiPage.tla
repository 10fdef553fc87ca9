------------------------------ MODULE WikiPage ------------------------------
(***************************************************************************)
(* A wiki page that several people edit (r2/models/wiki.py,                 *)
(* controllers/wiki.py).  A client sends a text and the revision it began   *)
(* with; the server merges it with what the page has become since, with     *)
(* diff3, or answers that they conflict.  Nothing is locked: a request      *)
(* works on the copy of the page that it read.                              *)
(*                                                                         *)
(* A special page (config/sidebar and its like) is stored on the subreddit  *)
(* as well, from where it is shown, and is also written by the settings     *)
(* form.  A text is a function from lines to words; lines lie far enough    *)
(* apart for diff3 to treat them one by one.                                *)
(***************************************************************************)
EXTENDS Integers, Sequences, SequencesExt

CONSTANTS
    Procs,      \* web processes
    Lines,
    Words,      \* what a line can say
    Blank,      \* the word of an empty text
    MaxRevs,    \* bound: revisions
    MaxOps,     \* bound: requests
    MaxDeaths   \* bound: processes that die in one

ASSUME WikiConstants ==
    /\ Blank \in Words
    /\ MaxRevs \in Nat \ {0} /\ MaxOps \in Nat /\ MaxDeaths \in Nat

NoRevision == 0     \* `previous' is '', or the page has no `revision'
Absent     == -1    \* `previous' is None
Revs       == 1 .. MaxRevs
Text       == [Lines -> Words]
Empty      == [l \in Lines |-> Blank]
NoPage     == [exists |-> FALSE, content |-> Empty, revision |-> NoRevision]

VARIABLES
    special,    \* whether the page is one of special_pages
    page,       \* the row of the page in Cassandra
    revs,       \* revs[n]: the content of the n-th WikiRevision of the page
    site,       \* the attribute of the subreddit that shows a special page
    pc,         \* pc[p]: where process p is
    text,       \* text[p]: the text that was sent
    previous,   \* previous[p]: the revision that was sent with it
    copy,       \* copy[p]: its copy of the page
    shown,      \* shown[p]: the attribute in its copy of the subreddit
    made,       \* made[p]: the revision it has made
    alone,      \* history: alone[p]: no other request has run beside p's
    settled,    \* history: nothing has set page and attribute apart
    crossed,    \* history: the page was written from an old copy
    ops, deaths \* history: what the bounds count

request == <<text, previous, copy, shown, made>>
stored  == <<special, page, revs, site>>
history == <<settled, crossed, deaths>>
vars    == <<stored, pc, request, alone, history, ops>>

\* The page is there, as its author wrote it, or not yet.
Init ==
    /\ special \in BOOLEAN
    /\ \/ \E x \in Text :
            /\ page = [exists |-> TRUE, content |-> x, revision |-> 1]
            /\ revs = <<x>>
            /\ site = IF special THEN x ELSE Empty
       \/ /\ page = NoPage /\ revs = <<>>
          /\ site \in IF special THEN Text ELSE {Empty}
    /\ pc = [p \in Procs |-> "idle"]
    /\ text = [p \in Procs |-> Empty]
    /\ previous = [p \in Procs |-> Absent]
    /\ copy = [p \in Procs |-> NoPage]
    /\ shown = [p \in Procs |-> Empty]
    /\ made = [p \in Procs |-> NoRevision]
    /\ alone = [p \in Procs |-> FALSE]
    /\ settled = page.exists
    /\ crossed = FALSE
    /\ ops = 0 /\ deaths = 0

Goto(p, label) == pc' = [pc EXCEPT ![p] = label]
Others(p) == {q \in Procs \ {p} : pc[q] # "idle"}

\* The text that p's author began with.
Original(p) == IF previous[p] \in Revs THEN revs[previous[p]] ELSE Empty

\* What somebody sends: a text he knows with at most one line changed.
Drafts(r) ==
    {[x EXCEPT ![l] = w] : l \in Lines, w \in Words,
        x \in CASE r = NoRevision -> {Empty}
                [] r = Absent     -> {Empty} \cup Range(revs)
                [] OTHER          -> {revs[r]}}

\* A request ends; its copies are gone.
Ends(p) ==
    /\ Goto(p, "idle")
    /\ text' = [text EXCEPT ![p] = Empty]
    /\ previous' = [previous EXCEPT ![p] = Absent]
    /\ copy' = [copy EXCEPT ![p] = NoPage]
    /\ shown' = [shown EXCEPT ![p] = Empty]
    /\ made' = [made EXCEPT ![p] = NoRevision]
    /\ alone' = [alone EXCEPT ![p] = FALSE]

\* Page or attribute is written; it is as before only if p is alone.
Writes(p) == settled' = (settled /\ alone[p])

-----------------------------------------------------------------------------
\* A request arrives and loads the subreddit: POST_wiki_edit with or without
\* `previous', POST_wiki_revision_revert and the settings form without.
Begin(p, r, x) ==
    /\ pc[p] = "idle"
    /\ ops < MaxOps
    /\ x \in Drafts(r)
    /\ ops' = ops + 1
    /\ Goto(p, "read")
    /\ text' = [text EXCEPT ![p] = x]
    /\ previous' = [previous EXCEPT ![p] = r]
    /\ shown' = [shown EXCEPT ![p] = site]
    /\ alone' = [q \in Procs |-> q = p /\ Others(p) = {}]
    /\ UNCHANGED <<stored, copy, made, settled, crossed, deaths>>

\* It reads the page.
ReadPage(p) ==
    /\ pc[p] = "read"
    /\ page.exists
    /\ copy' = [copy EXCEPT ![p] = page]
    /\ Goto(p, "revise")
    /\ UNCHANGED <<stored, text, previous, shown, made, alone, history, ops>>

\* There is none, and it may create one: a special one only from the settings.
PageNotFound(p) ==
    /\ pc[p] = "read"
    /\ ~page.exists
    /\ ~special \/ previous[p] = Absent
    /\ Goto(p, "check")
    /\ UNCHANGED <<stored, request, alone, history, ops>>

\* WIKI_CREATE_ERROR.
MayNotCreate(p) ==
    /\ pc[p] = "read"
    /\ ~page.exists
    /\ special /\ previous[p] # Absent
    /\ Ends(p)
    /\ UNCHANGED <<stored, history, ops>>

\* WikiPage._commit looks once more.
CheckPage(p) ==
    /\ pc[p] = "check"
    /\ ~page.exists
    /\ Goto(p, "create")
    /\ UNCHANGED <<stored, request, alone, history, ops>>

\* WikiPageExists: nobody catches it.
PageExists(p) ==
    /\ pc[p] = "check"
    /\ page.exists
    /\ Ends(p)
    /\ UNCHANGED <<stored, history, ops>>

\* WikiPage.create writes an empty content, and no revision.
CreatePage(p) ==
    /\ pc[p] = "create"
    /\ page' = [page EXCEPT !.exists = TRUE, !.content = Empty]
    /\ copy' = [copy EXCEPT ![p] = [NoPage EXCEPT !.exists = TRUE]]
    /\ crossed' = (crossed \/ page.exists)
    /\ Writes(p)
    /\ Goto(p, "revise")
    /\ UNCHANGED <<special, revs, site, text, previous, shown, made, alone, deaths, ops>>

-----------------------------------------------------------------------------
\* threewaymerge: what a and b make of the original.
Merge(original, a, b) == [l \in Lines |-> IF a[l] = original[l] THEN b[l] ELSE a[l]]

\* Mutant: the exit status of diff3 is not looked at.
MutConflicts(original, a, b) == FALSE
\* diff3 --merge fails where both differ from the original, even if they agree.
Conflicts(original, a, b) ==
    \E l \in Lines : a[l] # original[l] /\ b[l] # original[l]

\* revise() merges unless it is forced or there is no revision yet.  A
\* `previous' that was found comes as a UUID, which differs from every string,
\* so it merges with the revision it began with, too.
MustMerge(p) == previous[p] # Absent /\ copy[p].revision # NoRevision

Clashes(p) == MustMerge(p) /\ Conflicts(Original(p), text[p], copy[p].content)

NewContent(p) ==
    IF MustMerge(p) THEN Merge(Original(p), text[p], copy[p].content) ELSE text[p]

\* The page has that content already.
Unchanged(p) ==
    /\ pc[p] = "revise"
    /\ text[p] = copy[p].content
    /\ Goto(p, "site")
    /\ UNCHANGED <<stored, request, alone, history, ops>>

\* EDIT_CONFLICT.
Conflict(p) ==
    /\ pc[p] = "revise"
    /\ text[p] # copy[p].content
    /\ Clashes(p)
    /\ Ends(p)
    /\ UNCHANGED <<stored, history, ops>>

\* Mutant: the new WikiRevision is not committed.
MutWithRevision(p) == revs
WithRevision(p) == Append(revs, NewContent(p))

\* WikiRevision.create.
MakeRevision(p) ==
    /\ pc[p] = "revise"
    /\ text[p] # copy[p].content
    /\ ~Clashes(p)
    /\ Len(revs) < MaxRevs
    /\ revs' = WithRevision(p)
    /\ made' = [made EXCEPT ![p] = Len(revs) + 1]
    /\ Goto(p, "page")
    /\ UNCHANGED <<special, page, site, text, previous, copy, shown, alone, history, ops>>

\* Mutant: the page gets what was sent, not what it was merged into.
MutWritten(p) == [page EXCEPT !.revision = made[p], !.content = text[p]]
\* The columns that _commit writes: those that differ from the copy.
Written(p) ==
    [page EXCEPT !.revision = made[p],
                 !.content = IF revs[made[p]] = copy[p].content THEN @ ELSE revs[made[p]]]

SavePage(p) ==
    /\ pc[p] = "page"
    /\ page' = Written(p)
    /\ crossed' = (crossed \/ copy[p].revision # page.revision)
    /\ Writes(p)
    /\ Goto(p, "site")
    /\ UNCHANGED <<special, revs, site, request, alone, deaths, ops>>

\* A page that is not special is done.
Done(p) ==
    /\ pc[p] = "site"
    /\ ~special
    /\ Ends(p)
    /\ UNCHANGED <<stored, history, ops>>

\* Mutant: nothing is stored if there was nothing to revise.
MutStored(p) == IF made[p] = NoRevision THEN site ELSE text[p]
\* setattr(c.site, ...): what was sent, not what it was merged into, and only if
\* the copy of the subreddit had something else.
Stored(p) == IF text[p] = shown[p] THEN site ELSE text[p]

\* c.site._commit().
SaveSite(p) ==
    /\ pc[p] = "site"
    /\ special
    /\ site' = Stored(p)
    /\ settled' = (alone[p] /\ (made[p] # NoRevision => revs[made[p]] = text[p]))
    /\ Ends(p)
    /\ UNCHANGED <<special, page, revs, crossed, deaths, ops>>

\* The process dies, or Cassandra or the database fails it.
Crash(p) ==
    /\ pc[p] # "idle"
    /\ deaths < MaxDeaths
    /\ deaths' = deaths + 1
    /\ settled' = FALSE
    /\ Ends(p)
    /\ UNCHANGED <<stored, crossed, ops>>

Step(p) ==
    \/ \E r \in {Absent, NoRevision} \cup DOMAIN revs, x \in Text : Begin(p, r, x)
    \/ ReadPage(p) \/ PageNotFound(p) \/ MayNotCreate(p)
    \/ CheckPage(p) \/ PageExists(p) \/ CreatePage(p)
    \/ Unchanged(p) \/ Conflict(p) \/ MakeRevision(p) \/ SavePage(p)
    \/ Done(p) \/ SaveSite(p) \/ Crash(p)

Next == \E p \in Procs : Step(p)

Spec == Init /\ [][Next]_vars

-----------------------------------------------------------------------------
TypeOK ==
    /\ special \in BOOLEAN
    /\ page \in [exists : BOOLEAN, content : Text, revision : 0 .. Len(revs)]
    /\ revs \in Seq(Text) /\ Len(revs) <= MaxRevs
    /\ site \in Text
    /\ pc \in [Procs -> {"idle", "read", "check", "create", "revise", "page", "site"}]
    /\ text \in [Procs -> Text]
    /\ previous \in [Procs -> {Absent} \cup 0 .. Len(revs)]
    /\ copy \in [Procs -> [exists : BOOLEAN, content : Text, revision : 0 .. Len(revs)]]
    /\ shown \in [Procs -> Text]
    /\ made \in [Procs -> 0 .. Len(revs)]
    /\ alone \in [Procs -> BOOLEAN]
    /\ settled \in BOOLEAN /\ crossed \in BOOLEAN
    /\ ops \in 0 .. MaxOps /\ deaths \in 0 .. MaxDeaths

\* An edit that was sent with the revision it began with replaces a line only if
\* its author saw what it replaces, whatever others have made of the page since,
\* and all he changed is in (wiki.py:347-362).  It may not be so if the page was saved
\* by another while this request had its copy.
SeenIfReplaced ==
    [][\A p \in Procs :
        /\ pc[p] = "page" /\ pc'[p] = "site"
        /\ previous[p] # Absent
        /\ copy[p] = page /\ page.revision # NoRevision
        => \A l \in Lines :
            /\ page'.content[l] # page.content[l] => Original(p)[l] = page.content[l]
            /\ text[p][l] # Original(p)[l] => page'.content[l] = text[p][l]]_vars

\* What the page says is in its history, whoever dies: a revision is saved before
\* the page (wiki.py:361-368).  It is that of the page's revision unless the page
\* was written from an old copy: then the content can be of one edit and the
\* revision of another.
PageIsItsRevision ==
    /\ page.content \in {Empty} \cup Range(revs)
    /\ page.revision # NoRevision /\ ~crossed => revs[page.revision] = page.content

\* The subreddit shows what its special page says (controllers/wiki.py:386-391,
\* api.py:2064-2073), when the last request ran alone, to its end and without
\* merging: then it also sets right what an earlier one left behind.
SiteShowsPage ==
    special /\ settled /\ (\A p \in Procs : pc[p] = "idle") => site = page.content
=============================================================================

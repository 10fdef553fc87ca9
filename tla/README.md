# A verification of the reddit stores and queues

TLA+ models of the parts of this program that several processes change at once:
the memcached lock, the cached database objects, the message queue helpers, the
counting of votes, the two kinds of listings in Cassandra, the comment trees,
the delivery of gold, self-serve promotion and the editing of wiki pages. TLC
checks each model on small instances, and TLAPS proves theorems about every one
of them for every value of its constants: of the properties that hold, only
liveness rests on the instances alone.

The program is a Pylons application (`r2/r2`) that runs as many identical
processes without shared memory: application servers and queue consumers. They
meet only in PostgreSQL, Cassandra, memcached and RabbitMQ. Nearly every
invariant of the data is kept by conventions over these four (a lock here, a
conditional write there), and nearly every convention has a step at which a
process can die, be overtaken, or read something old. Those steps are what is
modelled.

Contents:

1. the system's parts and what each must guarantee
2. what each module models, and how it corresponds to the code
3. what each run checks, its bounds, and what it shows
4. fairness
5. what is proved
6. what the runs found in the code
7. what is only model-checked, and what is left out
8. the plan

## 1. The system's parts

| part | state | operations | who else it meets | what is hard | what makes it correct |
| --- | --- | --- | --- | --- | --- |
| global lock, `lib/lock.py` | one memcached entry for each key, a thread-local set of owned keys, the nested `with` blocks | `acquire`, `release` | everything below that says `g.make_lock` | expiry and eviction under a live holder, dead holders, nesting, the timeout against the expiry | mutual exclusion while no entry is lost under its owner; only the outermost block frees a key; every `acquire()` ends |
| things, `lib/db/thing.py`, `tdb_sql.py` | thing row and data rows, the copy in the shared cache, Python objects with `_t` and `_dirties` | `_byID`, fill the cache, `_load`, `__setattr__`, `_commit`, `_incr` | the lock, memcached, PostgreSQL | unlocked cache fills beside locked commits, evictions, failed transactions, deaths between commit and cache | cache and committer are current, increments add up, a commit writes what it was asked to write |
| message queues, `lib/amqp.py`, `lib/queues.py` | a worker thread's queue, the broker's queues, unacknowledged items | `add_item`, the worker, `consume_items`, `handle_items`, `dedup_queue` | every offline job of the application | lost connections, deaths before an acknowledgement, a worker that no longer counts down | nothing that was added is forgotten; whatever a callback added is published before its process ends |
| votes, `models/vote.py`, `db/queries.py`, the `Relation` part of `thing.py`, `account.py` | relation rows, the fast-query cache, `_ups`/`_downs`, karma, likes | `queue_vote`, `handle_vote`, `Vote.vote`, `_fast_query`, `incr_karma` | queues, things, Cassandra | redelivery, deaths between two counters, stale fast-query keys, two consumers on one voter | one row for each voter; score, karma and likes are those of the rows |
| query cache, `models/query_cache.py` | a Cassandra row for each listing, the batch of a `CachedQueryMutator` | `insert`, `delete`, `send`, `_prune` | `db/queries.py` | no lock, batches sent in another order than filled or by halves, pruning from an old read | the newest complete batch decides where an item is; a prune never costs the part that is shown |
| cached results, `db/queries.py`, and the Cassandra cache chain, `lib/cache.py` | lists of at most `precompute_limit` items in memcached and replicas | `insert`, `delete`, `_replace`, `update`, `fetch`; `mutate`, `get_multi` | the amqp worker, the lock | fills from one replica beside mutations, failed quorum writes, truncation at the limit | the listing shows the items as the last mutation left them, and the best of them |
| comment trees, `lib/comment_tree.py`, `models/comment_tree.py`, `models/link.py` | `cids`, `parents` and `num_comments` of a link, messages in `commentstree_q` | `Comment._new`, `add_comments`, `delete_comment`, `link_comments_and_sort`, rebuild | a queue, the lock, permacache or Cassandra | replies before their parents, rebuilds beside additions, deletions that are the same message, redelivery | nothing is missing from the tree, a page can be built from it, `num_comments` is right |
| gold, `controllers/ipn.py`, `models/gold.py`, `POST_claimgold` | rows of `reddit_gold`, `payment_blob`s, expiration and creddits of accounts | webhooks of Stripe, Coinbase and invoices, PayPal's IPN, spending creddits, renewals, claims, reversals | things, two kinds of locks | notifications twice, late, reordered or beside each other; deaths half-way; absolute values committed without a lock | no purchase is delivered twice, the table tells what was given, accounts add up |
| self-serve promotion, `lib/promote.py`, `models/bidding.py`, `promotecontroller.py` | `promote_status` of a link, `trans_id` of campaigns, `bids`, the schedule, the processor's holds and charges | pay, edit, delete, terminate, accept, reject, the daily job | things, Authorize.net | no lock at all: requests and job decide on the copies they loaded; a void that the processor refuses | only an approved link runs; the books are those of the processor |
| wiki, `models/wiki.py`, `controllers/wiki.py` | a page, its revisions, the copy of a special page on the subreddit | edit, revert, create, the settings form | Cassandra, things | edits of the same revision, saves from old copies, creation twice | an edit replaces only what its author saw; page, history and subreddit agree |
| other cache chains, `lib/cache.py` | a list of caches, slowest last | `get`, `set`, `add`, `incr`, `delete` | everything | refilling a fast cache with an old value | a value read was written |
| everything else | | | | | see section 7 |

How they interact: a vote is put on a queue by an application server
(`queue_vote`), a consumer handles it under at-least-once delivery
(`MessageQueue`), writes a relation row (`VoteCount`), increments counters of
things through `Thing._incr` (`ThingStore`), which takes the commit lock of the
thing (`MemcacheLock`). Each module assumes what the one beneath it guarantees:
`ThingStore` uses `AdvisoryLock`, which `MemcacheLock` is checked and proved to
implement; `VoteCount` takes a commit as atomic and an increment as additive,
which is what `ThingStore` establishes, and redelivers a vote whenever a consumer
ends before its acknowledgement, which is what `MessageQueue` leaves possible.
Having counted it, the consumer moves the link between the voter's liked and
disliked listings (`QueryCache`) and inserts it into the listings by hotness and
score (`CachedResults`, again on `AdvisoryLock`). A comment goes to
`commentstree_q` and from there into its link's tree (`CommentTree`), under a lock
(`AdvisoryLock`) for links of version 1. Gold takes the locks of accounts and
blobs (`AdvisoryLock`), and gold, promotion and wiki commit things: like
`ThingStore` they write the attributes that differ from the copy that was
loaded, so that what two of them write to one attribute is lost for one.

## 2. The modules

### `AdvisoryLock`, `MemcacheLock` (`lib/lock.py`)

`AdvisoryLock` is the lock as its callers know it: somebody holds a key, somebody
else may not, and a key can lapse under its holder. `MemcacheLock` is the class:

| model | code |
| --- | --- |
| `entry`, `age` | what `add` stored for a key in memcached, and for how long |
| `locks` | `self.locks`, the thread-local set |
| `frame`, `depth` | the `MemcacheLock` objects of the blocks a thread is in, with `have_lock` |
| `trying` | the polling loop of an `acquire()` that has not returned |
| `EnterOwned` | lines 70-72, a nested block on an owned key |
| `StartTrying`, `Acquire`, `GiveUp` | lines 74-94 |
| `Release`, `Drop` | lines 96-107 |
| `Expire` | memcached forgets: `time=30`, an eviction or a restart |
| `Crash` | the process dies inside a block or while polling |
| `Tick` | a second |

A history variable, `overrun`, says whether an entry ever went while a thread
still owned its key. Exclusion is promised only until then, and the module says
so rather than leaving expiry out.

### `ThingStore` (`lib/db/thing.py`, `tdb_sql.py`)

One thing, several threads.

| model | code |
| --- | --- |
| `row`, `db` | thing row and data rows, `Nil` for a data row that is not there |
| `cache` | the copy `_cache_myself` or `_byID` put into the shared cache |
| `self[p]` | the object: `_created`, `_loaded`, `_t`, `_dirties` |
| the actions of the reader | `_byID` from the cache, from the database, the later fill of the cache, `_load` |
| the actions of the committer | the lock, `_sync_latest`, what it wants to write, the insert or the updates, `_cache_myself`, the release |
| the actions of `_incr` | its own lock, the nested `_commit`, the increment in the database, the cache |
| `slips` | history: which of the named ways for cache and database to come apart has happened |

The slips are: a reader filled the cache with what it had read before a commit;
a committer found nothing in the cache to synchronise with, or a version without
data; the lock lapsed; a process died between a commit and the cache; a statement
failed and left a counter dirty; an object whose creation was rolled back was committed
again. All properties but `OthersAreKept` are stated for behaviours without a slip. So the module states the exact conditions under which the
scheme of the code is right, and every condition is one the code does not enforce.

### `MessageQueue` (`lib/amqp.py`, `lib/queues.py`)

| model | code |
| --- | --- |
| `tasks`, `undone` | `Worker.q` and its count of unfinished tasks |
| `ready`, `held` | items at the broker: waiting, or delivered and unacknowledged |
| `AddItem`, `Publish`, `Drop`, `Retry`, `Raise` | `add_item`, and what becomes of `_add_item` in the worker thread: published, lost without a confirmation, EPIPE, any other exception |
| `Deliver` ... `Close` | `consume_items`: prefetch, callback, acknowledgement, and the `finally` block with `worker.join()` |
| `Get`, `CallBatch`, `AckBatch`, `BatchFails`, `Die` | `handle_items`, without `drain` and with `ack` |
| `StopGetting`, `AddAgain`, `AddAgainLater`, `AckAll` | `dedup_queue` |
| `Crash`, `Restart` | a process ends anyhow; upstart respawns it |
| `owed`, `lost`, `failed` | history: added and not yet handled; publications that vanished or died with their process; a task raised |

Bodies are abstract; `Out` says what the callback for a body adds to other
queues, and `OutOfBatch` what the callback for a batch does, which in the
instance is what it adds for each. In the instance a vote adds a search change, as `vote.py:236` does.

### `VoteCount` (`models/vote.py`, `db/queries.py`, `db/thing.py`, `account.py`)

One thing with an author, several voters, several consumers.

| model | code |
| --- | --- |
| `Cast`, `Take`, `Ack`, `Crash` | `queue_vote`, a consumer's callback for any vote that waits, its acknowledgement, a redelivery |
| `Lookup`, `Query`, `Decide` | `_fast_query`: the cache, the database for what is missing, caching also that there is nothing; then lines 174-205 of `Vote.vote` |
| `Commit` (`Insert`, `Update`), `Duplicate`, `SetKey` | `Relation._commit`, the unique constraint, the cache key of the row's name |
| `IncrUps`, `IncrDowns` | `update_score` with `score_changes`, except for the author's automatic vote |
| `IncrKarma`, `NoKarma`, `FirstKarma` | `Account.incr_karma`, with its default on first use |
| `Copy` | `VotesByAccount.copy_from` |
| `Ban`, `Evict` | a voter becomes a spammer; memcached loses a key |
| `slip`, `overtaken`, `kept`, `last` | history: see the comments in the module |

`slip` becomes true when a consumer dies with a vote written and not all
counted, when two consumers are handling votes of one voter, or when two first
karmas are being assigned. The code has no transaction around these steps, and
its recount jobs are not part of the application.

The votes that wait are a set, since nothing keeps their order: `queue_vote`
picks the fast lane, a shard or the plain queue by live configuration
(queries.py:1517-1535), a publication passes through its process's worker, and
every consumer prefetches ten votes (amqp.py:214-221), so that one can wait in a
busy consumer's buffer while another handles a newer one. Each vote has the
number of its cast, and `overtaken` is the voters of whom one was begun before an
older one was acknowledged: for them the last vote cast need not be what shows.
Nothing else that is promised depends on the order, except that `ups` depends on
which vote of the author made the row (`began`).

### `QueryCache` (`models/query_cache.py`)

Several processes and several items, and the listings between which the items move.

| model | code |
| --- | --- |
| `col[q][i]` | the column of an item in the row of a query: live, deleted or never written, with the timestamp and the date it is sorted by |
| `clock` | `time.time()` as timestamps show it, one tick for each `insert` or `delete` |
| `Begin`, `Enqueue`, `Leave`, `Raise` | the `with CachedQueryMutator()` block: a mutation gets its timestamp when it enters the batch, and `__exit__` sends also when the block raised |
| `SendRow`, `Wins` | `Mutator.send()`, row by row, and what Cassandra makes of it |
| `Fetch`, `Extraneous`, `Doomed`, `Pruned`, `Prune` | `_prune_multi`: the rows are read, and later what was extraneous then is removed as of the timestamp it had |
| `Crash` | the process dies, or the send fails, between two rows |
| `newest`, `placed`, `setbacks` | history: whose batch is the newest for an item, where a complete one put it, what left a listing otherwise than by a prune |

The order of the dates and names of items is `ThingTupleComparator`'s. The rows are
those of one column family, as of a user's liked and disliked links.

### `CachedResults` (`db/queries.py`, `lib/cache.py`)

One listing, several processes.

| model | code |
| --- | --- |
| `mem`, `rep` | what memcached and each replica of the column family `permacache` have |
| `StartMutate` ... `Unlock` | `CassandraCacheChain.mutate`: the lock, memcached, else a quorum read, the mutation function, the quorum write if it changed anything, memcached |
| `Kept`, `Truncated`, `Mutated` | the functions `_mutate` inside `_insert_tuples` and `delete` |
| `WriteFails` | too few replicas answered: some have the value, and the call raises |
| `Look`, `Ask`, `Fill` | `fetch_multi` through `simple_get_multi`: memcached, one replica, memcached is filled |
| `CatchUp`, `Evict`, `CallerDies`, `LockLapses` | a replica repaired, a key forgotten, a process that dies, a lock that expires |
| `known`, `losses`, `slips` | history: what the mutations said of each item; how many of those made one worse; what made memcached and Cassandra differ |

`Quorums` are the sets of replicas that satisfy `cassandra_wcl`. Any two of them
meet: that is so with the consistency level QUORUM, and with ONE only if there is
one replica.

The slips are a reader that fills memcached with what is not current (the edge
case named in cache.py:653-658), a write that failed, and a process that died
between Cassandra and memcached. Like those of `ThingStore` they are conditions
that the code does not enforce, and the invariants are stated up to the first.
That a read of `cassandra_wcl` meets a write of `cassandra_wcl` is an assumption
on `Quorums`. It holds for `QUORUM` and for a single replica, as in `example.ini`.

### `CommentTree` (`lib/comment_tree.py`, `models/comment_tree.py`, `models/link.py`)

One link, of version 1 or 3.

| model | code |
| --- | --- |
| `phase[c]` | how far the request that makes or deletes a comment is: counted, committed, queued |
| `Count`, `Write`, `Post`, `Delete`, `PostDeletion`, `RequestDies` | `Comment._new`, its caller's `queue_comment...`, `POST_del` |
| `queue`, `Get`, `Ack`, `GivesBack` | `commentstree_q` and `handle_items` |
| `Enter`, `Contended`, `Load`, `Leave` | `CommentTree.mutation_context` and `by_link`; what a handler has read and will not read again is discarded |
| `Orphaned`, `AddFails`, `Add`, `WriteParents`, `WriteTree` | `add_comments`: the `KeyError` of a reply whose parent is not there, the batch, "write parents first" |
| `CountDeletion` | `delete_comment` and the decrement |
| `View` | a page finds no tree |
| `Query`, `Remove`, `Insert`, `Recount` | `rebuild` and `link._commit` of `num_comments` |
| `Crash`, `TimesOut`, `Lapse` | a death, a lock that cannot be had, one that expires |
| `lost`, `uncounted` | history: columns removed by a rebuild that had not found them; `num_comments` may be wrong |

A stored tree is a set of comments: depths, children and sorts follow from
`parent_id`.

### `GoldPurchase` (`controllers/ipn.py`, `models/gold.py`, `POST_claimgold`)

Several purchases, each of one way of paying, one kind and a number of months, a
buyer and a friend. All payments of the buyer's PayPal subscription are purchases
of their own and name one blob.

| model | code |
| --- | --- |
| `subscr` | `gold_subscr_id` of the buyer, which `finish` commits with the gold and a cancellation removes |
| `Succeeded`, `Refunded`, `Cancelled` | `process_webhook` of Stripe, invoices and Coinbase |
| `Ipn`, `Renewal` | PayPal's `POST_ipn`: each notification of a subscription's payment goes to the blob or is a renewal by what `existing_subscription` finds on the account then |
| `Spend`, `Unsubscribe` | `POST_spendcreddits`, `cancel_subscription` |
| `ClaimRequest`, `Claim` | `POST_claimgold`, `claim_gold` |
| `GoldLock`, `LockBlob`, `BlobFound`, `BlobRefused`, `MarkBlob`, `Load` | `gold_lock`, the blob's lock and status, `_sync_latest` |
| `GiveGold`, `Apply`, `GiveCreddits`, `InsertCode`, `Tell`, `Record` | `admintools.engolden`, the creddits, `create_gold_code`, the message, the row of `reddit_gold` |
| `Fund`, `Settle`, `BlobProcessed` | creddits into escrow, out of escrow, the blob |
| `TakeBack`, `MarkReversed`, `ReversalUntold` | `reverse_gold_purchase` |
| `Die`, `LockLapses`, `TimesOut` | faults |
| `Days`, `Worth`, `Taken` | `days_from_months`, what is given, and what `reverse_gold_purchase` takes back: a creddit for every 31 days |
| `given`, `total`, `credits` | history: days or creddits given for each purchase less those taken, and what accounts and creddits should be |
| `loose`, `mixed`, `spoilt` | history: where row and gift came apart, where two writers met without the lock |

`loose` are the purchases of which a webhook's notifications overlapped or came
after the reversal, at which a process died or a message failed between two writes
that belong together, or whose first payment of the subscription was repeated between
the commit that stores the subscription (ipn.py:529) and the row (595): that repeat
is taken for a renewal and passes by the locked blob.

### `Promotion` (`lib/promote.py`, `models/bidding.py`, `lib/authorize/interaction.py`)

A link with its campaigns, the requests about them and the daily job.

| model | code |
| --- | --- |
| `UpdatePay`, `EditCampaign`, `DeleteCampaign`, `Terminate`, `Accept`, `Reject`, `EditPromo`, `RunJob` | the handlers of `promotecontroller.py`, `make_daily_promotions` |
| `VoidBid`, `GatewayVoid`, `DropTrans` | `void_campaign`, `void_transaction` |
| `Authorise`, `NewBid`, `RaiseStatus`, `NewTrans`, `AuthRefused` | `auth_campaign` |
| `Select`, `Take`, `PassDone` | the passes of the job: charge, promote, expire |
| `ChargeNeeded`, `Capture`, `Book`, `SetPending`, `HoldGone`, `Lose`, `Forget` | `charge_campaign`, `charge_transaction` |
| `FindPromoted` | the query for promoted links that have no campaign today |
| `Promote`, `Expire`, `DecideAccept`, `DecideReject`, `DecideEdit` | the changes of `promote_status`, each on the copy in hand |
| `gate` | what Authorize.net knows: an external system, modelled by what the code relies on |
| `approved`, `old`, `crossed`, `torn`, `astray` | history: see the comments in the module |

### `WikiPage` (`models/wiki.py`, `controllers/wiki.py`, `lib/merge.py`)

| model | code |
| --- | --- |
| `page`, `revs`, `site` | the row of the page, its revisions, the subreddit's attribute for a special page |
| `Begin`, `ReadPage` | a request loads the subreddit, then the page: an edit with or without `previous`, a revert, the settings form |
| `PageNotFound`, `CheckPage`, `PageExists`, `CreatePage` | `WikiPage.create` and the check in `_commit` |
| `Merge`, `Conflicts` | `threewaymerge`, line by line; `diff3 --merge` reports a conflict also where both made the same change |
| `Unchanged`, `Conflict`, `MakeRevision`, `SavePage` | `revise` |
| `SaveSite`, `Stored` | `setattr(c.site, ...)` and the commit |
| `alone`, `settled`, `crossed` | history: requests that overlapped, what set page and attribute apart, a page written from an old copy |

The special pages are those stored by `setattr`. The page `config/stylesheet`, which
`change_css` parses and stores in another way (controllers/wiki.py:374-381), is left out.

## 3. The runs

| run | module | checks | bounds, and why they are enough |
| --- | --- | --- | --- |
| `lock` | `MCMemcacheLock` | `MutualExclusion`, `OutermostOwns`, `NoLeak`, `TimeoutOnlyAfterHandover`, `WaiterResolves`, `ImplementsAdvisory` | two threads nesting two deep on two keys: enough for opposite orders, for a block within a block on the same key, and for a third party in the form of expiry. An expiry of 2 seconds, timeouts of 0, 2 and None: one shorter than the expiry, one equal to it, like the defaults, and the one that Python 2 compares as less than any number. |
| `store` | `MCThingStore` | `CacheCurrent`, `CommitterIsCurrent`, `IncrsConserved`, `CommitTakesEffect`, `OthersAreKept` | two threads; a base column that is a counter, a data property that is assigned, a data property that is a counter with a default (its first increment inserts a row, the later ones update it); two increments of +1 or -1; all four faults. `OthersAreKept` speaks of every state, the other properties of those before the first slip, and a slip is never taken back. After a late fill (`Explored`) what two threads do with stale objects is explored further, one thread inside `_commit` or `_incr` at a time and no second increment beside an assignment; after any other slip states are cut, and the proof of `OthersKept` covers them. |
| `store_sync` | `MCThingStore` | `DirtiesReapplied`, violated | the same without faults |
| `amqp` | `MCMessageQueue` | `NotForgotten`, `OwedIsPaid` | an application server, a consumer with prefetch 2, a batcher with a limit and a minimum of 2, a deduper; two calls of `add_item` and two faults of any kind. Two faults are needed for a retry during the shutdown of a consumer that was itself interrupted. |
| `votes` | `MCVoteCount` | `OneRowEach`, `ScoreIsVotes`, `KarmaIsVotes`, `LastVoteShows` | two consumers, the author and another voter, the author's automatic vote and two more, two mishaps (crash, eviction, ban). Two votes of one voter are a change, and with the redelivery of either the ABA cases occur. Three rows, one more than can be made without a slip. Votes are taken in any order. After the second mishap or a slip one vote is handled at a time (`Explored`), while before it two are; what follows a slip, where nothing is promised, is explored without another mishap. |
| `querycache` | `MCQueryCache` | `TopIsKept`, `PlacedWhereMoved` | two processes, two items that move between liked, disliked and nowhere, from any start; a listing shows one item, so that two make a prune; two batches, one new date, one block that raises or process that dies. Two batches can be filled in one order and sent in the other, and a prune of one can straddle the other. |
| `cachedresults` | `MCCachedResults` | `ListingIsSound`, `ListingIsComplete` | two processes, three items of two values in a listing of two, one inserted at a time, three replicas of which any two are a quorum, four mutations: enough to fill the listing, truncate it, delete and insert again. States after the first slip are cut, as in `store`. |
| `commenttree` | `MCCommentTree` | `TreeIsComplete`, `TreeIsReadable`, `CountIsRight` | two consumers and a page view; two comments for version 1 (whose handlers take turns), three for version 3, one of them a reply; batches of two, one request at a time, one deletion, one mishap. A reply and its parent can be in different batches, before, between and after a rebuild. States in which a lock has lapsed are cut: the properties say nothing there. |
| `commenttree_parents` | `MCCommentTree` | `ParentsAgree`, violated | version 1, one consumer, no mishap |
| `gold` | `MCGoldPurchase` | `AtMostOnce`, `RecordTells`, `AccountsAddUp` | two purchases of any of twelve deals, three web processes, four requests, one death: enough for two notifications of each purchase, for a success, a reversal and a late success, and for three who meet. The deals have every way and kind, a year of gold and a year of creddits; two payments of the subscription are a first one and a renewal, or two that are both first. |
| `promotion` | `MCPromotion` | `LiveIsApproved`, `BooksMatch` | two campaigns in every stage of payment and review, two requests or one and the daily job, three transactions, one death. Three transactions are two that are there and a new one, or one that is replaced twice. |
| `wiki` | `MCWikiPage` | `SeenIfReplaced`, `PageIsItsRevision`, `SiteShowsPage` | a page, special or not, there or not, of two lines with one of three words; two processes, three requests, three revisions, one death. Each text differs from one its author knows in at most a line; two lines and three words are what merges and conflicts need, and three requests make an edit of the revision before the last. |

Each passing run checks one type invariant as well, but for `lock` and `store`,
whose type invariants are proved. No run replaces a definition. The
runs that turn off the deadlock check are those of systems that may stop: the
calls, faults, votes, batches, mutations and requests are bounded, and an empty queue is a
good end. Symmetry is used in runs without liveness only, over processes,
replicas, and items, listings, purchases, campaigns, lines or words that the model does not
tell apart.

What they show:

- The lock excludes as long as no entry is lost under a live owner, with nested
  blocks and deaths; a key that a dead process left lapses; no `acquire()` waits
  for ever, though two threads may wait for each other. With the default
  `timeout=30`, `time=30` a waiter never fails because of a single slow or dead holder.
- The cache and every committer are current, increments are conserved and every
  commit writes what was dirty, exactly as long as none of the slips happens.
  Slips or not, a commit or an increment from a stale object changes in the database
  only what its caller asked for: it never brings back an older value of another property.
- At-least-once delivery holds over crashes, interrupts, rejections and
  deduplication, except for publications that vanish in a lost connection. What
  keeps an item from being handled is exactly: a lost publication, a consumer
  that hangs in `worker.join()` because a task raised (`amqp.py:69-72`), or a
  batcher with fewer than `min_size` items.
- A vote counts once, in whatever order votes are handled and however often they
  are delivered, as long as no consumer died between the row and the counters and
  no voter was in two hands. Voters are shown the direction that counts, which is
  the last one they cast unless it was begun before an older one was acknowledged.
- An item is where its newest batch put it once that batch is sent whole, in
  whatever order batches are sent and prunes happen. When two batches for one item
  get interleaved timestamps, or one is sent by halves, nothing is promised, and
  the item can be listed twice or not at all.
- A prune from an old read never removes what was inserted again since, because
  it removes as of the timestamp it saw; what it costs beyond the tail is at most what was
  deleted or put behind in the meantime.
- A listing of `CachedResults` shows every item as the last mutation left it, or
  not at all, and does without an item only for `precompute_limit` others, less
  one insertion's worth (see section 6) and less what was deleted or
  made worse: truncated items do not come back.
- Once its messages are acknowledged, a comment is in its link's tree, whatever
  was redelivered, reordered or rebuilt, and its parent with it. What can be
  missing is what a rebuild of a version 3 tree removed without having found it.
  `num_comments` is right once all is quiet, unless a process died, a deletion
  overtook its comment or a rebuild ran beside either.
- A purchase is given once where a code or a blob of its own decides,
  whatever is repeated or dies; for the webhooks, which read the row before they take
  the lock and write it after they gave, once unless notifications overlapped, one
  died half-way or a success came after the reversal. A payment of the subscription
  is given once, however first payments, renewals, repeats and cancellations are
  ordered, unless a process died half-way or a first payment was repeated before its
  row was there. A reversal leaves one of a year's twelve creddits, and nothing of
  anything else but a code. Accounts add up unless one of two writers who meet does
  without the lock.
- A link runs only if a sponsor accepted it last, unless somebody decided on an
  old copy. Bids and holds agree except for a transaction that two worked on, that
  somebody died on or that had settled; `trans_id` names every live
  transaction unless it was written from an old copy.
- An edit with the revision it began with never replaces what its author had
  not seen, unless two saves overlap. The page's text is always in its history;
  it is that of the page's revision unless the page was written from an old copy.
  A special page is what the subreddit shows after any request that ran alone, to its
  end and without merging.

## 4. Fairness

- `MemcacheLock!FairSpec`: a polling loop keeps polling (weak fairness of
  `Acquire \/ GiveUp`, whichever the state enables), time passes, memcached
  expires what is due. Nobody is obliged to enter or to leave a block, and
  nobody is obliged not to crash: a holder may stay for ever.
- `MessageQueue!FairSpec`: worker threads publish, main threads go on, upstart
  respawns consumers (`upstart/reddit-consumer-*.conf` say `respawn`). Delivery is
  strongly fair: a consumer with room for an item comes and goes with its channel,
  and the broker serves it when it is there again and again. Nobody is
  obliged to add anything or to run a deduper, and no fault has to occur.
- The other modules have safety and action properties only.

## 5. What is proved

The proofs about a component are in the module of its name with `Proofs` at the
end, with two exceptions that hold the proofs about two: `ListingProofs` about the
two kinds of listings in Cassandra, `QueryCache` and `CachedResults`, and
`PaymentProofs` about money that comes in, `GoldPurchase` and `Promotion`. Each of
these extends both components, which is why the definitions of `CachedResults` and
`Promotion` have names of their own (`ListingSpec`, `PromoSpec`, and so on).

The assumptions are those named in `LockConstants`, `StoreConstants`,
`NilIsNoProp`, `QueueConstants`, `OneKindEach`, `VoteConstants`, `CacheConstants`,
`ListingConstants`, `MissingIsNoData`, `TreeConstants`, `GoldConstants`, `WholeYears`,
`PromotionConstants` and `WikiConstants`, which TLC evaluates on every run.
They say which sets the constants are in, that the kinds of processes are different
sets, that the values standing for nothing are no data, and that there is an item or
a word at all. Beyond that, for comments: a reply has a greater id than its parent,
and processes are finitely many. For cached results: items and replicas are finitely
many, there is a replica, any two quorums meet, and what is inserted at once is less
than a listing. For promotion: campaigns are finitely many, and no more than the
transactions (each begins with one). Each strengthening was first checked by TLC as
an invariant of its run.

Every component has a theorem that its variables have their types: `Typing`, for
cached results `ListingTyping` and for promotion `PromoTyping`.

### The lock, for any threads, keys, nesting depth, expiry and timeouts

- `Reentrancy`: `OutermostOwns`. It is inductive with `TypeOK`; the work is in
  blocks that are pushed on and popped off the end of a thread's list.
- `Exclusion`: `MutualExclusion`. By itself it is not inductive, since `Acquire`
  looks at memcached and not at other threads' sets. The strengthening is that
  unless an entry was lost under its owner, whoever owns a key is the one whose
  entry is in memcached, and it needs `OutermostOwns` so that `Drop` deletes its own entry.
- `Accounting`: `NoLeak`, from the same facts.
- `Handover`: `TimeoutOnlyAfterHandover`, from the invariant that no entry is
  older than the expiry time.
- `Implements`: every step of `MemcacheLock` is a step of `AdvisoryLock` or a stutter.

From above, `StoreUsesLock`, `ListingUsesLock`, `TreeUsesLock` and `GoldUsesLock` prove
the same of the four components that take locks: whatever they do with `held`, `busy`
and `overrun` is a behaviour of `AdvisoryLock` for their keys. For gold that
needs to know where requests can be, since keys are made of what a request has in hand.

### Things, for any threads, properties, values and increments

- `CacheIsCurrent`, `CommittersAreCurrent`, `IncrementsAreConserved`: the three
  invariants of the run.
- `CommitsTakeEffect`, `OthersKept`: the action properties of the run, the second in
  every state, whatever has slipped.

The inductive invariant has two parts. `Shape` holds always: where each thread
can be, and what its lock, object and operation look like there. `StoreInv`
holds until the first slip: cache, committers and readers that have not been
overtaken agree with the database. `OthersKept` needs no `StoreInv`: beside `Shape` it
rests on `DirtyIsAsked`, that what is dirty in an object inside the lock is what its
caller assigned or the amount of its increment. `IncrsConserved` needs `StoreInv` only for
counters that have no data row yet, where the increment is an assignment.

### Queues, for any processes, queues, items, limits and callbacks

- `AtLeastOnce`: `NotForgotten`. It is not inductive: it counts what a deduper has
  yet to add and what the deduper's worker has yet to publish, and a crash loses
  both. But then the broker still has the deduper's unacknowledged messages.
  `OwedIsSomewhere` therefore leaves out what a deduper that holds the item
  has added, and `Quiet` says that a process without a channel holds nothing.
- `Typing` proves `TasksCounted` with it: a worker has never more tasks than
  `join()` waits for.

What a callback adds for a batch is the constant `OutOfBatch`, since what a
recursive definition computes from a sequence of any length is beyond the provers.

### Votes, for any voters, consumers and bounds

- `OneRowForEach`, `ScoreIsRight`, `KarmaIsRight`, `LastShows`: the four
  invariants of the run.

The properties speak of states in which all is counted, and none is inductive. The
strengthening `VoteInv` says at every step by how much each counter lags: a row
counts with its name, or, while the consumer that wrote it has still to pass
the counter, with the direction it had before (`CountedAs`). `UpsLag`, `DownsLag` and
`KarmaLag` are equations between a counter and the cardinality of a set of rows so counted,
and every step changes that set by one row at most (`OneElement`). They need
`Alone` (a voter is in one hand), `Found` (one row, and whoever is
looking for it will find it, by the cache or the database) and `Began` (what the
author's first row began as is known once there is one). Votes that wait or are in
hand have different numbers (`Numbered`). Of a voter who was not overtaken the vote in hand is
the oldest there is (`InTurn`), and the last one cast is the newest there is, or
none is left and it shows (`LastKnown`).

### The query cache, for any processes, items, listings and limits

- `MovedForGood`: `PlacedWhereMoved`; `PrunedBeyondTop`: `TopIsKept`.

The heart of `CacheInv` is that no two mutations of a column have one timestamp
(`Unique`, `Timely`), so that a winner stays (`NewestWins`, `StaysSettled`). For prunes it
keeps a witness of the look: whatever a prune is about to
remove was beyond the top then, and what made the others fewer since is counted
as a setback (`Witnessed`, `SetbacksCounted`).

### Cached results, for any processes, items, values, replicas, quorums and limits

- `ListingSound`: `ListingIsSound`; `ListingComplete`: `ListingIsComplete`.

The properties speak of what a page shows once nobody is about to update
memcached, and neither is inductive. `ListingInvariant` follows the listing through a
mutation. While no lock lapsed, one process at most is between taking it and
releasing it (`LockTaken`). What was written last is at one replica of every quorum
(`InQuorums`), since any two of them meet, and equal timestamps mean equal data
(`Agreed`); so a quorum read finds it, and what memcached or the process that
mutates has is the same (`InStep`). With that a mutation starts from a listing that
is sound and complete (`Sound`, `Complete`), and it remains to show that insertion,
truncation and deletion keep it so. For `Complete` that is counting: the items at
least as good as the one that was left out or truncated are the listing's, and each
one that a call made worse is in `losses`.

The smallest value in a listing exists because a set of naturals has a minimum.
`SmallestNumber` has that from the well-foundedness of `<`, without an induction.

### Comment trees, for any comments, replies, consumers, viewers and bounds

- `TreesComplete`: `TreeIsComplete`; `TreesReadable`: `TreeIsReadable`;
  `CountsRight`: `CountIsRight`.

Two arguments that share `Typing`, which also says where a process can be with which
mode (`Fits`), and `AllWritten`: whatever is stored, loaded or queued was committed.

`TreeInv` is about what is in the stored tree or on its way out of it with a rebuild
(`Kept`). No step makes it smaller (`KeptGrows`), and with every comment it has the
parent (`KeptClosed`). For version 3 that is so because columns are added one by one
and `lost` keeps account of removals. For version 1 it needs the lock: at most one
process is inside (`OneHolder`), so that the tree it has loaded is still the stored one
when it writes its own (`Current`). A process is at "delete", "ack" or the end of a
rebuild only with its batch in the tree (`BatchKept`), so that an acknowledged
comment is there.

`CountInv` is an account: `num_comments` is the number of comments that are not
deleted, and of the deletions that requests, the queue and the handlers have yet to
count. It is not inductive without `NothingDropped`: a rebuild whose batch
has deletions counts them before it says so, and until then the account is not kept.

### Gold, for any processes, purchases, accounts and bounds

- `DeliveredOnce`: `AtMostOnce`; `RecordIsTrue`: `RecordTells`;
  `AccountsRight`: `AccountsAddUp`.

`Base` says at which places a request of each kind can be, who holds which lock,
and, for each way of paying, what stands between a purchase and its second
delivery: the claimed code, the blob, the row that is written first, or, for
webhooks, only that no other notification was there. For payments of the subscription
(`SubscrGuards`) it is the blob for a first payment and the row for a renewal, and what
connects the two (`FirstOnly`): the blob lets one first payment through, to which nothing
was given before, and until its row is there it counts as `loose` once repeated.
`Accounted` and `PurseKept` compare what a request has loaded with the account it will
assign to. `WholeYears`, that what is paid for is less than a year or whole years
(asserted in `days_from_months`), is there for the deals to be real; no proof needs it.

### Self-serve promotion, for any workers, campaigns and transactions

- `PromoInvariance`: `PromoInvariant`; from it `LiveApproved`: `LiveIsApproved`, and
  `BooksKept`: `BooksMatch`.

`LiveIsApproved` is not inductive, since the job charges and promotes on the status
it read when it loaded the link. `WorkRoutes` and `Eyes` say where a request or the
job can be with what in hand, and that it charges or promotes only a link that it saw
accepted; `LinkKnown` says that what it saw is still the status, unless the link was
changed since (`old`, and `crossed` once it decided on that).

`BooksMatch` is not inductive either: between an answer of the processor and the
commit of the bid the two differ. `Steps` says so for each transaction nobody else
touched: bid and processor agree, or one worker is between the two. `Named` says that a
campaign names the transaction of its bids, or a worker is about to write the name.
Both need that a new transaction is in one hand only (`Fresh`), that whatever
is named, in the table or in a copy, is a bid of that campaign (`Owns`), and that
copies differ from the table only where somebody wrote since (`Copied`).

### Wiki pages, for any processes, lines, words and bounds

- `PageHasRevision`: `PageIsItsRevision`; `SiteAgrees`: `SiteShowsPage`.
- `NothingUnseenIsReplaced`: the action property `SeenIfReplaced`.

`WikiInv` says that what a request has in hand fits what is stored (`Rows`,
`Made`), that a request that is alone has the page as it is (`Alone`), and that one
that has written the page of a special page will write the subreddit too (`Settled`).

Liveness (`WaiterResolves`, `OwedIsPaid`) stays with TLC: it rests on fairness and
`ENABLED`, which the prover does not handle.

## 6. What was found in the code

Shown by a run:

- `store_sync`: a commit that meets a cached version without data loses the data
  properties it was to write. No fault is needed, only another request that has
  just read the thing without its data.
- `commenttree_parents`: when `add_comments` meets comments that are in the
  tree, it writes `None` as the parent of replies, and their permalinks lose
  their context.

Met while modelling, and part of the models where they say so:

- lock: with `timeout=None` a waiter is refused at its first failed poll, since in
  Python 2 every integer is greater than `None` (lock.py:79; in `GiveUp`). The
  default of `mutation_context` is `None`, so that any contention on a version 1
  tree leads to a rebuild.
- amqp: an item retried after EPIPE (amqp.py:183) loses its delivery mode, headers
  and exchange. Bodies have none of these in `MessageQueue`.
- query cache: `_fetch_multi` fills the queries of the last model only, since an inner
  loop reuses the name of the argument (query_cache.py:176). `QueryCache` has one model.
- votes: the author's automatic upvote is told from others as the author's first
  upvote to be handled (vote.py:213-215). When a later vote of the author is handled
  before it, `_ups` stays one above the number of upvotes for good (`ScoreIsVotes`
  counts it); when votes of one voter are handled out of order, the older one stays.
- cached results: an insertion that would make a listing exactly
  `precompute_limit` long is treated as one that would be truncated
  (queries.py:189; in `WouldTruncate`).
- comment trees: version 3 "does not require locking for updates", but its rebuild
  loses a comment added between its query and its removal of the rows (`lost`); a
  comment deleted before its first message is handled is counted down twice;
  a rebuild does not write a `num_comments` that its old link object has already
  (both in `uncounted`).
- gold: reversing a gift splits its secret at "-" (ipn.py:1304-1308), which fails for
  recipients with a dash; after a reversal a late success fails on
  `gold_lock(None)`, except for an invoice, where gold is given again under a
  row that stays `reversed`; of a year of creddits eleven are taken back, since
  366 days are divided by 31 (ipn.py:1297); a repeat of a subscription's first payment
  before its row is there gives it twice; a Coinbase cancellation of an unclaimed code raises;
  cancelling a claimed code takes nothing back; a repeated cancellation takes
  twice; a blob stays `locked` after any death or error, so PayPal's retries are
  dropped. All but the dash are in `GoldPurchase`.
- promotion: trans_id is "the most recent" transaction (promote.py:198-205) only if
  no payment meets another or the job (`astray`); the answer to a void is not
  looked at, so a settled charge is forgotten and the customer charged again
  (`torn`); `charge_transaction` can return a bare `True` (interaction.py:208) that
  its caller unpacks (`AlreadyCharged` ends the request or the job). Refunds, which
  are not modelled, overwrite `refund_amount` instead of adding to it.
- wiki: of an edit of a special page that was merged, the subreddit shows what
  was sent (controllers/wiki.py:390), without the other's change (`settled`);
  saving any subreddit setting writes the sidebar that the form held, whatever it
  has become since (api.py:2069 sends no `previous`).

## 7. Only model-checked, and left out

Only model-checked: liveness, which rests on fairness and `ENABLED`, and that the
code does not do what the documentation says (section 6), which takes one
behaviour and no proof. Every other property of a run is a theorem.

Left out of the modelled parts:

- `MessageQueue`: tasks other than `add_item`; `handle_items` with `drain=True` or
  `ack=False`; `empty_queue` and `black_hole`.
- `ThingStore` and `VoteCount`: slave databases that lag behind (a read sees what is
  committed); `_incr` of things without a lock; the expiry of memcached entries by
  anything but time, loss and deletion; votes on several things at once, whose
  states are disjoint but for the author's karma.
- `QueryCache`: precomputed queries, which batch jobs fill, reads by
  `MergedCachedQuery`, mutators over several column families.
- `CachedResults`: `_replace`, `update`, the `LocalCache` of a request; mutations
  that give up waiting for their lock, which change nothing; calls that insert
  `precompute_limit` items or more at once (`BatchSize` is less).
- `CommentTree`: version 2, upgrades between versions, the values of sorts, the
  `fastlane` queue, two requests that delete one comment.
- `GoldPurchase`: how blobs are made and that they expire, Stripe's customers,
  PayPal subscriptions that are recognised by `paying_id` or belong to deleted
  accounts, gildings, employees, prices, gold that runs out, codes of the old
  "cr_" form. A living process keeps its locks.
- `Promotion`: creation, freebies and house campaigns, duplicate transactions,
  refunds and finalisation, inventory and roadblocks, the serving of ads.
- `WikiPage`: the page `config/stylesheet`, who may edit, hidden and deleted revisions, permission levels, the
  views of pages and revisions, limits on names and lengths.
- everywhere: clocks that differ between hosts.

Parts that are not modelled, each with its reason in `PROJECT.json`: the other
cache chains have a state worth modelling; hardcache, permissions, accounts,
live configuration and message trees are thin layers over the stores above;
jobs, search, media, traffic and statistics are input and output; pages,
templates, controllers and the course import compute without shared state. Most
of the repository's lines are of these last kinds.

## 8. The plan

1. `AdvisoryLock`, `MemcacheLock` and its proofs (done)
2. `ThingStore` on top of `AdvisoryLock`, and its proofs (done)
3. `MessageQueue` and its proofs (done)
4. `VoteCount` and its proofs (done)
5. `QueryCache` and its proofs (done)
6. `CachedResults` and its proofs (done)
7. `CommentTree` and its proofs (done)
8. `GoldPurchase` and its proofs (done)
9. `Promotion` and its proofs (done)
10. `WikiPage` and its proofs (done)
11. `CacheChain`: a chain of caches, refilled from slower ones beside writes

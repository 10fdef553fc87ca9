---------------------------- MODULE GoldPurchase ----------------------------
(***************************************************************************)
(* How reddit gold is paid for and delivered (r2/controllers/ipn.py,        *)
(* r2/models/gold.py, POST_claimgold).  Several web processes handle the    *)
(* notifications of the payment processors, which may come twice, late or   *)
(* in another order, requests that spend creddits, and claims of codes.     *)
(*                                                                         *)
(* A purchase is guarded against being delivered twice by its row in        *)
(* reddit_gold (primary key trans_id), by the status of its payment_blob,   *)
(* or by both, and an account by the lock gold_<id>, which only the         *)
(* webhooks take.  Account objects are committed with the absolute values   *)
(* their holder computed; _incr adds to what is stored (see ThingStore).    *)
(* Gold is counted in days, and a creddit is a month; no gold runs out here.*)
(*                                                                         *)
(* All payments of the buyer's one PayPal subscription name the same blob,  *)
(* and each is a transaction, a purchase, of its own.                       *)
(***************************************************************************)
EXTENDS Integers, FiniteSets

CONSTANTS
    Procs,        \* web processes
    Purchases,    \* what is bought, each with its transaction and its blob
    Subscription, \* the blob of the PayPal subscription
    Deals,        \* the <<way, kind, months>> that a purchase may be
    Buyer, Friend,  \* who pays, and who is given a gift
    Nil,          \* no account, no purchase
    StartCreds,   \* creddits the buyer may have at the start
    MaxRequests,  \* bound: requests and notifications
    MaxDeaths     \* bound: processes that die in a request

Ways     == {"stripe", "invoice", "coinbase", "ipn", "subscr", "spend"}
Kinds    == {"onetime", "creddits", "gift", "code"}
Accounts == {Buyer, Friend}

ASSUME GoldConstants ==
    /\ Deals \subseteq Ways \X Kinds \X (Nat \ {0})
    /\ \A d \in Deals : d[1] \in {"subscr", "invoice"} => d[2] = "onetime"
    /\ \A d \in Deals : d[1] = "spend" => d[2] \in {"gift", "code"}
    /\ Buyer # Friend /\ Nil \notin Accounts \cup Purchases
    /\ Subscription \notin Purchases
    /\ StartCreds \subseteq Nat /\ MaxRequests \in Nat /\ MaxDeaths \in Nat

ASSUME WholeYears == \A d \in Deals : d[1] # "spend" => d[3] < 12 \/ d[3] % 12 = 0

VARIABLES
    deal,       \* deal[x]: how purchase x is paid for, its goldtype, its months
    row,        \* row[x]: status and account_id in reddit_gold
    blob,       \* blob[b]: status of the payment_blob
    subscr,     \* gold_subscr_id of the buyer names the PayPal subscription
    told,       \* the codes that were messaged to their buyers
    days,       \* days[a]: days of gold left in gold_expiration
    purse,      \* the buyer's gold_creddits and gold_creddit_escrow
    pc,         \* pc[p]: where process p is
    on,         \* on[p]: the purchase its request is about
    who,        \* who[p]: the account whose gold it changes
    seen,       \* seen[p]: gold_expiration in its copy of that account
    mine,       \* mine[p]: the purse in its copy of the buyer
    held, busy, overrun,    \* the locks gold_<id> and payment_blob_lock-<code>
    given,      \* history: days or creddits given for a purchase less those taken
    total,      \* history: gold of each account, change by change
    credits,    \* history: creddits got less creddits spent
    loose,      \* history: purchases whose row came apart from what was given
    mixed,      \* history: accounts changed between another's read and write
    spoilt,     \* history: the purse changed between a spender's read and write
    requests, deaths    \* history: what the bounds count

locks   == <<held, busy, overrun>>
stored  == <<row, blob, subscr, told, days, purse>>
local   == <<on, who, seen, mine>>
history == <<given, total, credits, loose, mixed, spoilt>>
counts  == <<requests, deaths>>
vars    == <<deal, stored, pc, local, locks, history, counts>>

Blobs == Purchases \cup {Subscription}
Lock  == INSTANCE AdvisoryLock WITH Keys <- Accounts \cup Blobs

NoPurse == [creds |-> 0, escrow |-> 0]
NoRow == [status |-> "none", account |-> Nil]
Statuses == {"none", "processed", "instagift", "unclaimed", "claimed", "reversed"}

Way(x)    == deal[x][1]
Kind(x)   == deal[x][2]
Months(x) == deal[x][3]
Webhook(x) == Way(x) \in {"stripe", "invoice", "coinbase"}
Custom(x) == IF Way(x) = "subscr" THEN Subscription ELSE x
To(x) == IF Kind(x) = "gift" THEN Friend ELSE Buyer

\* A month has 31 days, a year that is paid for 366; gold that has run out is
\* extended from now on.
Days(x) == IF Way(x) = "spend" \/ Months(x) < 12
           THEN 31 * Months(x) ELSE 366 * (Months(x) \div 12)
Plus(n, d) == (IF n < 0 THEN 0 ELSE n) + d

\* What is given for a purchase, and what a reversal takes back: of creddits
\* one for every 31 days, so that one of each year's twelve is left.
Worth(x) == IF Kind(x) = "creddits" THEN Months(x) ELSE Days(x)
Taken(x) == CASE Kind(x) = "creddits" -> Days(x) \div 31
              [] Kind(x) = "code"     -> 0
              [] OTHER                -> Days(x)

Init ==
    /\ deal \in [Purchases -> Deals]
    /\ row = [x \in Purchases |-> NoRow]
    \* If there is a subscription it is set up, or was begun by an earlier payment.
    /\ subscr \in BOOLEAN /\ (subscr => \E x \in Purchases : Way(x) = "subscr")
    /\ blob = [b \in Blobs |-> IF b = Subscription /\ subscr
                               THEN "processed" ELSE "initialized"]
    /\ told = {}
    /\ days = [a \in Accounts |-> 0]
    /\ \E n \in StartCreds : /\ purse = [creds |-> n, escrow |-> 0]
                             /\ credits = n
    /\ pc = [p \in Procs |-> "idle"]
    /\ on = [p \in Procs |-> Nil]
    /\ who = [p \in Procs |-> Nil]
    /\ seen = [p \in Procs |-> 0]
    /\ mine = [p \in Procs |-> NoPurse]
    /\ Lock!LockInit
    /\ given = [x \in Purchases |-> 0]
    /\ total = [a \in Accounts |-> 0]
    /\ loose = {} /\ mixed = {} /\ spoilt = FALSE
    /\ requests = 0 /\ deaths = 0

Goto(p, label) == pc' = [pc EXCEPT ![p] = label]
Ends(p) ==
    /\ Goto(p, "idle")
    /\ on' = [on EXCEPT ![p] = Nil]
    /\ who' = [who EXCEPT ![p] = Nil]
    /\ seen' = [seen EXCEPT ![p] = 0]
    /\ mine' = [mine EXCEPT ![p] = NoPurse]
AtWorkOn(x) == {p \in Procs : pc[p] # "idle" /\ on[p] = x}

\* A request about x begins in p with a copy of account a.
Begin(p, x, a, label) ==
    /\ pc[p] = "idle" /\ requests < MaxRequests
    /\ requests' = requests + 1
    /\ Goto(p, label)
    /\ on' = [on EXCEPT ![p] = x]
    /\ who' = [who EXCEPT ![p] = a]
    /\ seen' = [seen EXCEPT ![p] = days[a]]
    /\ mine' = [mine EXCEPT ![p] = purse]
    /\ UNCHANGED <<deal, stored, locks, given, total, credits, mixed,
                   spoilt, deaths>>

\* The row is read before the lock is taken: nothing keeps two notifications
\* of one purchase apart, or a second reversal from a first.
Loosen(x, badly) == loose' = IF badly THEN loose \cup {x} ELSE loose

-----------------------------------------------------------------------------
(* Requests.                                                                *)

\* process_webhook 'succeeded': skipped when the row says it was done.  With a
\* row that is reversed the blob is not loaded, so only the notification of an
\* invoice, which names the buyer, gets on; others fail on gold_lock(None).
Succeeded(p, x) ==
    /\ Webhook(x)
    /\ row[x] = NoRow \/ (Way(x) = "invoice" /\ row[x].status = "reversed")
    /\ Begin(p, x, To(x), IF Kind(x) = "code" THEN "code" ELSE "lock")
    /\ Loosen(x, AtWorkOn(x) # {} \/ row[x].status = "reversed")

\* Mutant: any row is reversed, whatever its status.
MutRefunded(p, x) ==
    /\ Way(x) \in {"stripe", "invoice"} /\ row[x] # NoRow /\ row[x].account # Nil
    /\ Begin(p, x, To(x), "unlock")
    /\ Loosen(x, AtWorkOn(x) # {})

\* process_webhook 'refunded' (Stripe): only what is processed.  Nothing happens
\* either when the secret of a gift splits into more than three pieces, which a
\* dash in the recipient's name or the passthrough is enough for.
Refunded(p, x) ==
    /\ Way(x) \in {"stripe", "invoice"} /\ row[x].status = "processed"
    /\ Begin(p, x, To(x), "unlock")
    /\ Loosen(x, AtWorkOn(x) # {})

\* process_webhook 'cancelled' (Coinbase): whatever the status; int(None) fails
\* for a code that nobody has claimed.
Cancelled(p, x) ==
    /\ Way(x) = "coinbase" /\ row[x] # NoRow /\ row[x].account # Nil
    /\ Begin(p, x, IF Kind(x) = "code" THEN row[x].account ELSE To(x), "unlock")
    /\ Loosen(x, AtWorkOn(x) # {} \/ row[x].status = "reversed")

\* POST_spendcreddits: c.user is as it was loaded when the request came.
Spend(p, x) ==
    /\ Way(x) = "spend" /\ Begin(p, x, To(x), "blob") /\ UNCHANGED loose

\* POST_ipn, when no account has the subscription, or there is none: there is a
\* blob, and finish goes on with it.
Ipn(p, x) ==
    /\ Way(x) = "ipn" \/ (Way(x) = "subscr" /\ ~subscr)
    /\ Begin(p, x, To(x), "blob") /\ UNCHANGED loose

\* POST_ipn, when an account has it (existing_subscription): finish has stored
\* it there before it inserts the row of the first payment, so that a repeat of
\* that payment may be taken for a renewal.
Renewal(p, x) ==
    /\ Way(x) = "subscr" /\ subscr /\ Begin(p, x, Buyer, "renew")
    /\ Loosen(x, \E q \in AtWorkOn(x) : pc[q] = "record")

\* POST_claimgold by somebody who has been told the code.
ClaimRequest(p, x, a) ==
    /\ x \in told /\ Begin(p, x, a, "claim") /\ UNCHANGED loose

-----------------------------------------------------------------------------
(* Locks and blobs.                                                         *)

\* Mutant: the copy that was loaded before the lock is used.
MutGoldLock(p, label, next) ==
    /\ pc[p] = label
    /\ Lock!Obtain(p, who[p])
    /\ Goto(p, next)
    /\ UNCHANGED <<deal, stored, local, history, counts>>

GoldLock(p, label, next) ==
    /\ pc[p] = label
    /\ Lock!Obtain(p, who[p])
    \* _sync_latest
    /\ seen' = [seen EXCEPT ![p] = days[who[p]]]
    /\ Goto(p, next)
    /\ UNCHANGED <<deal, stored, on, who, mine, history, counts>>
LockToGive(p) == GoldLock(p, "lock", "give")
LockToTake(p) == GoldLock(p, "unlock", "take")

\* get_blob takes the lock of the blob ...
LockBlob(p) ==
    /\ pc[p] = "blob"
    /\ Lock!Obtain(p, Custom(on[p]))
    /\ Goto(p, "status")
    /\ UNCHANGED <<deal, stored, local, history, counts>>

\* Mutant: the lock is not released when the blob is refused.
MutBlobRefused(p) ==
    /\ pc[p] = "status" /\ blob[Custom(on[p])] # "initialized"
    /\ Ends(p)
    /\ UNCHANGED <<deal, stored, locks, history, counts>>

\* ... looks at its status: a ValueError ends the request ...
BlobRefused(p) ==
    /\ pc[p] = "status" /\ blob[Custom(on[p])] # "initialized"
    /\ Lock!LetGo(p, Custom(on[p]))
    /\ Ends(p)
    /\ UNCHANGED <<deal, stored, history, counts>>
BlobFound(p) ==
    /\ pc[p] = "status" /\ blob[Custom(on[p])] = "initialized"
    /\ Goto(p, "mark")
    /\ UNCHANGED <<deal, stored, local, locks, history, counts>>

\* ... and marks it.
MarkBlob(p) ==
    /\ pc[p] = "mark"
    /\ blob' = [blob EXCEPT ![Custom(on[p])] = "locked"]
    /\ Lock!LetGo(p, Custom(on[p]))
    /\ Goto(p, "load")
    /\ UNCHANGED <<deal, row, subscr, told, days, purse, local, history, counts>>

\* The accounts named in the blob are fetched, without the lock gold_<id>.
Load(p) ==
    /\ pc[p] = "load"
    /\ seen' = [seen EXCEPT ![p] = days[who[p]]]
    /\ Goto(p, IF Way(on[p]) = "spend" THEN "fund"
               ELSE IF Kind(on[p]) = "code" THEN "code" ELSE "give")
    /\ UNCHANGED <<deal, stored, on, who, mine, locks, history, counts>>

\* A lock is waited for 30 seconds, then TimeoutExpired ends the request.
TimesOut(p) ==
    /\ \/ pc[p] = "blob" /\ Custom(on[p]) \in busy
       \/ pc[p] \in {"lock", "unlock"} /\ who[p] \in busy
    /\ Ends(p)
    /\ UNCHANGED <<deal, stored, locks, history, counts>>

-----------------------------------------------------------------------------
(* What is delivered.                                                       *)

\* q has read the gold of account a and will commit what it makes of it.
Reading(q, a) ==
    /\ who[q] = a
    /\ \/ pc[q] \in {"give", "take", "renew", "claim", "apply"}
       \/ pc[q] = "fund" /\ Kind(on[q]) = "gift"
Locked(q) == who[q] \in held[q]
Mix(p) == mixed' =
    IF \E q \in Procs \ {p} : Reading(q, who[p]) /\ ~(Locked(p) /\ Locked(q))
    THEN mixed \cup {who[p]} ELSE mixed

\* engolden: the account is committed with the expiration computed from the
\* copy that p has.
Engolden(p) ==
    /\ days' = [days EXCEPT ![who[p]] = Plus(seen[p], Days(on[p]))]
    /\ total' = [total EXCEPT ![who[p]] = Plus(@, Days(on[p]))]
    /\ given' = [given EXCEPT ![on[p]] = @ + Days(on[p])]
    /\ Mix(p)

\* Before the row is inserted.  The commit of a PayPal subscriber stores the
\* subscription too.
GiveGold(p) ==
    /\ pc[p] = "give" /\ Kind(on[p]) # "creddits"
    /\ Engolden(p)
    /\ subscr' = (subscr \/ Way(on[p]) = "subscr")
    /\ Goto(p, IF Way(on[p]) = "spend" THEN "settle" ELSE "record")
    /\ UNCHANGED <<deal, row, blob, told, purse, local, locks, credits, loose,
                   spoilt, counts>>

\* After it, for a renewal or the claim of a code.
Apply(p) ==
    /\ pc[p] = "apply"
    /\ Engolden(p)
    /\ Ends(p)
    /\ UNCHANGED <<deal, row, blob, subscr, told, purse, locks, credits, loose,
                   spoilt, counts>>

\* A spender holds a copy of the purse from its request's start to its end.
Spending(q) ==
    pc[q] \notin {"idle", "claim", "apply", "done"} /\ Way(on[q]) = "spend"
NotFunded(q) == Spending(q) /\ pc[q] \in {"blob", "status", "mark", "load", "fund"}
Spoil(cond) == spoilt' = (spoilt \/ cond)

\* _incr('gold_creddits', n).
AddCreddits(p, n) ==
    /\ purse' = [purse EXCEPT !.creds = @ + n]
    /\ credits' = credits + n
    /\ Spoil(\E q \in Procs : NotFunded(q))

GiveCreddits(p) ==
    /\ pc[p] = "give" /\ Kind(on[p]) = "creddits"
    /\ AddCreddits(p, Months(on[p]))
    /\ given' = [given EXCEPT ![on[p]] = @ + Months(on[p])]
    /\ Goto(p, "record")
    /\ UNCHANGED <<deal, row, blob, subscr, told, days, local, locks, total, loose,
                   mixed, counts>>

\* create_gold_code: a transaction that has its row is an IntegrityError.
InsertCode(p) ==
    /\ pc[p] = "code" /\ row[on[p]] = NoRow
    /\ row' = [row EXCEPT ![on[p]] = [status |-> "unclaimed", account |-> Nil]]
    /\ Goto(p, "tell")
    /\ UNCHANGED <<deal, blob, subscr, told, days, purse, local, locks, history,
                   counts>>
CodeExists(p) ==
    /\ pc[p] = "code" /\ row[on[p]] # NoRow
    /\ Ends(p)
    /\ UNCHANGED <<deal, stored, locks, history, counts>>

\* The code is messaged to the buyer, or a MessageError ends the request.
Tell(p) ==
    /\ pc[p] = "tell"
    /\ told' = told \cup {on[p]}
    /\ CASE Way(on[p]) = "spend" -> Goto(p, "settle") /\ UNCHANGED local
         [] Way(on[p]) = "ipn"   -> Goto(p, "done") /\ UNCHANGED local
         [] OTHER                -> Ends(p)
    /\ UNCHANGED <<deal, row, blob, subscr, days, purse, locks, history, counts>>
TellFails(p) ==
    /\ pc[p] = "tell"
    /\ Ends(p)
    /\ loose' = loose \cup {on[p]}
    /\ UNCHANGED <<deal, stored, locks, given, total, credits, mixed, spoilt,
                   counts>>

\* create_claimed_gold.  With a row that is there webhooks log the
\* IntegrityError, and finish is ended by it; the block with the lock ends.
Record(p) ==
    LET x == on[p] IN
    /\ pc[p] = "record"
    /\ row' = IF row[x] # NoRow THEN row ELSE
              [row EXCEPT ![x] = [status  |-> IF Way(x) = "ipn" /\ Kind(x) = "gift"
                                              THEN "instagift" ELSE "processed",
                                  account |-> Buyer]]
    /\ IF Webhook(x)
       THEN Ends(p) /\ Lock!LetGo(p, who[p])
       ELSE /\ UNCHANGED locks
            /\ IF row[x] = NoRow THEN Goto(p, "done") /\ UNCHANGED local ELSE Ends(p)
    /\ UNCHANGED <<deal, blob, subscr, told, days, purse, history, counts>>

\* A renewal is recorded first: a second notification finds the row.
RecordRenewal(p) ==
    /\ pc[p] = "renew" /\ row[on[p]] = NoRow
    /\ row' = [row EXCEPT ![on[p]] = [status |-> "claimed", account |-> Buyer]]
    /\ Goto(p, "apply")
    /\ UNCHANGED <<deal, blob, subscr, told, days, purse, local, locks, history,
                   counts>>
RenewalExists(p) ==
    /\ pc[p] = "renew" /\ row[on[p]] # NoRow
    /\ Ends(p)
    /\ UNCHANGED <<deal, stored, locks, history, counts>>

\* Mutant: the UPDATE does not ask for the status.
MutClaim(p) ==
    /\ pc[p] = "claim" /\ row[on[p]] # NoRow
    /\ row' = [row EXCEPT ![on[p]] = [status |-> "claimed", account |-> who[p]]]
    /\ Goto(p, "apply")
    /\ UNCHANGED <<deal, blob, subscr, told, days, purse, local, locks, history,
                   counts>>

\* claim_gold: the conditional UPDATE decides who claims a code.
Claim(p) ==
    /\ pc[p] = "claim" /\ row[on[p]].status = "unclaimed"
    /\ row' = [row EXCEPT ![on[p]] = [status |-> "claimed", account |-> who[p]]]
    /\ Goto(p, "apply")
    /\ UNCHANGED <<deal, blob, subscr, told, days, purse, local, locks, history,
                   counts>>
AlreadyClaimed(p) ==
    /\ pc[p] = "claim" /\ row[on[p]].status # "unclaimed"
    /\ Ends(p)
    /\ UNCHANGED <<deal, stored, locks, history, counts>>

-----------------------------------------------------------------------------
(* Spending creddits.                                                       *)

\* The balance in the copy of the buyer is enough: creddits go to escrow.
Fund(p) ==
    /\ pc[p] = "fund" /\ mine[p].creds >= Months(on[p])
    /\ mine' = [mine EXCEPT ![p] = [creds  |-> @.creds - Months(on[p]),
                                    escrow |-> @.escrow + Months(on[p])]]
    /\ purse' = mine'[p]
    /\ Spoil(\E q \in Procs \ {p} : Spending(q))
    /\ Goto(p, IF Kind(on[p]) = "gift" THEN "give" ELSE "code")
    /\ UNCHANGED <<deal, row, blob, subscr, told, days, on, who, seen, locks, given,
                   total, credits, loose, mixed, counts>>

\* It is not: a ValueError, and the blob stays locked.
NotEnough(p) ==
    /\ pc[p] = "fund" /\ mine[p].creds < Months(on[p])
    /\ Ends(p)
    /\ UNCHANGED <<deal, stored, locks, history, counts>>

\* What was in escrow is gone; only the escrow is dirty.
Settle(p) ==
    /\ pc[p] = "settle"
    /\ purse' = [purse EXCEPT !.escrow = mine[p].escrow - Months(on[p])]
    /\ credits' = credits - Months(on[p])
    /\ Spoil(\E q \in Procs \ {p} : Spending(q))
    /\ Goto(p, "done")
    /\ UNCHANGED <<deal, row, blob, subscr, told, days, local, locks, given, total,
                   loose, mixed, counts>>

BlobProcessed(p) ==
    /\ pc[p] = "done"
    /\ blob' = [blob EXCEPT ![Custom(on[p])] = "processed"]
    /\ Ends(p)
    /\ UNCHANGED <<deal, row, subscr, told, days, purse, locks, history, counts>>

-----------------------------------------------------------------------------
(* Reversals and faults.                                                    *)

\* reverse_gold_purchase, in the block with the lock: nothing is taken from who
\* claimed a code.
TakeBack(p) ==
    LET x == on[p] IN
    /\ pc[p] = "take"
    /\ given' = [given EXCEPT ![x] = @ - Taken(x)]
    /\ CASE Kind(x) \in {"onetime", "gift"} ->
                /\ days' = [days EXCEPT ![who[p]] = seen[p] - Taken(x)]
                /\ total' = [total EXCEPT ![who[p]] = @ - Taken(x)]
                /\ Mix(p)
                /\ UNCHANGED <<purse, credits, spoilt>>
         [] Kind(x) = "creddits" ->
                AddCreddits(p, -Taken(x)) /\ UNCHANGED <<days, total, mixed>>
         [] OTHER ->
                UNCHANGED <<days, total, mixed, purse, credits, spoilt>>
    /\ Lock!LetGo(p, who[p])
    /\ Goto(p, "reversed")
    /\ UNCHANGED <<deal, row, blob, subscr, told, local, loose, counts>>

\* update_gold_transaction.
MarkReversed(p) ==
    /\ pc[p] = "reversed"
    /\ row' = [row EXCEPT ![on[p]].status = "reversed"]
    /\ Ends(p)
    /\ UNCHANGED <<deal, blob, subscr, told, days, purse, locks, history, counts>>

\* The message about a gift that was taken back fails: the row is not updated.
ReversalUntold(p) ==
    /\ pc[p] = "reversed" /\ Kind(on[p]) = "gift"
    /\ Ends(p)
    /\ loose' = loose \cup {on[p]}
    /\ UNCHANGED <<deal, stored, locks, given, total, credits, mixed, spoilt,
                   counts>>

\* cancel_subscription, when PayPal says so.
Unsubscribe ==
    /\ subscr
    /\ subscr' = FALSE
    /\ UNCHANGED <<deal, row, blob, told, days, purse, pc, local, locks, history,
                   counts>>

\* A process dies in a request; between two writes that belong together the row
\* of its purchase no longer tells what was given.
Die(p) ==
    /\ pc[p] # "idle" /\ deaths < MaxDeaths
    /\ deaths' = deaths + 1
    /\ loose' = IF pc[p] \in {"record", "apply", "reversed", "tell"}
                THEN loose \cup {on[p]} ELSE loose
    /\ Lock!Abandon(p)
    /\ Ends(p)
    /\ UNCHANGED <<deal, stored, given, total, credits, mixed, spoilt, requests>>

\* The lock of a dead process lapses; that of a live one is taken to last.
LockLapses ==
    /\ \E k \in busy : (\A p \in Procs : k \notin held[p]) /\ Lock!Lapse(k)
    /\ UNCHANGED <<deal, stored, pc, local, history, counts>>

Request(p) ==
    \E x \in Purchases :
        \/ Succeeded(p, x) \/ Refunded(p, x) \/ Cancelled(p, x)
        \/ Ipn(p, x) \/ Spend(p, x) \/ Renewal(p, x)
        \/ \E a \in Accounts : ClaimRequest(p, x, a)

Step(p) ==
    \/ LockToGive(p) \/ LockToTake(p) \/ LockBlob(p) \/ BlobRefused(p)
    \/ BlobFound(p) \/ MarkBlob(p) \/ Load(p) \/ TimesOut(p)
    \/ GiveGold(p) \/ Apply(p) \/ GiveCreddits(p) \/ InsertCode(p) \/ CodeExists(p)
    \/ Tell(p) \/ TellFails(p) \/ Record(p) \/ RecordRenewal(p)
    \/ RenewalExists(p) \/ Claim(p) \/ AlreadyClaimed(p)
    \/ Fund(p) \/ NotEnough(p) \/ Settle(p) \/ BlobProcessed(p)
    \/ TakeBack(p) \/ MarkReversed(p) \/ ReversalUntold(p)

Next ==
    \/ \E p \in Procs : Request(p) \/ Step(p) \/ Die(p)
    \/ Unsubscribe \/ LockLapses

Spec == Init /\ [][Next]_vars

-----------------------------------------------------------------------------
(* Properties.                                                              *)

\* The state has its shape; a process that holds a lock is in a request.
TypeOK ==
    /\ deal \in [Purchases -> Deals]
    /\ row \in [Purchases -> [status : Statuses, account : Accounts \cup {Nil}]]
    /\ blob \in [Blobs -> {"initialized", "locked", "processed"}]
    /\ subscr \in BOOLEAN
    /\ told \subseteq Purchases
    /\ days \in [Accounts -> Int]
    /\ purse \in [creds : Int, escrow : Int]
    /\ pc \in [Procs -> {"idle", "lock", "unlock", "blob", "status", "mark", "load",
                         "give", "apply", "code", "tell", "record", "renew", "claim",
                         "fund", "settle", "done", "take", "reversed"}]
    /\ \A p \in Procs : pc[p] = "idle" => on[p] = Nil /\ held[p] = {}

\* No purchase is delivered twice (process_webhook, POST_ipn, finish,
\* POST_spendcreddits, claim_gold): whatever is redelivered, overlaps or dies
\* where a blob of its own or the claim of a code decides; else, unless a webhook
\* overlapped another, a success came after the reversal, a process died half-way,
\* or a subscription's first payment was repeated before its row was inserted.
AtMostOnce ==
    \A x \in Purchases :
        (~(Webhook(x) \/ Way(x) = "subscr") \/ Kind(x) = "code" \/ x \notin loose)
        => given[x] \in {0, Worth(x), Worth(x) - Taken(x)}

\* When nobody is at work on it, the row and the blob of a purchase tell what its
\* buyer got: nothing without a row or for an unclaimed code, which the buyer
\* knows; all of it once it is processed or claimed; what the reversal leaves
\* once reversed.  Support reads the table for this.
RecordTells ==
    \A x \in Purchases : AtWorkOn(x) = {} /\ x \notin loose =>
        LET status == row[x].status IN
        /\ status = "none" /\ Way(x) # "spend"         => given[x] = 0
        /\ status = "unclaimed"                        => given[x] = 0 /\ x \in told
        /\ status \in {"processed", "instagift", "claimed"} => given[x] = Worth(x)
        /\ status = "reversed" => given[x] = Worth(x) - Taken(x)
        /\ Way(x) = "spend" /\ blob[x] = "initialized" => given[x] = 0
        /\ Way(x) = "spend" /\ blob[x] = "processed"   =>
               given[x] = Worth(x) \/ status = "unclaimed"

\* gold_lock with _sync_latest, the lock of the blob and the escrow keep accounts
\* right: an account has all the gold that was added to it less what was taken,
\* unless one of two writers that met did without the lock; the buyer's creddits
\* and escrow are what was bought and not yet spent, unless the purse changed
\* under a request that spends.
AccountsAddUp ==
    /\ \A a \in Accounts \ mixed : days[a] = total[a]
    /\ ~spoilt => purse.creds + purse.escrow = credits
=============================================================================

--------------------------- MODULE PaymentProofs ---------------------------
(***************************************************************************)
(* Proofs about the two ways in which money comes in, for any processes,    *)
(* purchases, campaigns, transactions and bounds.                           *)
(*                                                                         *)
(* GoldPurchase: what keeps a purchase from being delivered twice differs   *)
(* with the way it is paid for and with its kind, so that the invariant has *)
(* a part for each: the claim of a code, the blob, the row that is written  *)
(* first, and, for webhooks, only that notifications do not overlap.        *)
(*                                                                         *)
(* Promotion: what a worker has in hand follows from where it is; a link is *)
(* charged and promoted only by who has seen it accepted; and as long as no *)
(* two work on a transaction, bids and the processor differ only between    *)
(* two steps of the one that does.                                          *)
(***************************************************************************)
EXTENDS GoldPurchase, Promotion, FiniteSetTheorems, TLAPS

(***************************************************************************)
(*                          Purchases of gold                               *)
(***************************************************************************)
Work == {"lock", "unlock", "blob", "status", "mark", "load", "give", "code", "tell",
         "record", "renew", "claim", "apply", "fund", "settle", "done", "take", "reversed"}
Names == Accounts \cup Blobs
Row   == [status : Statuses, account : Accounts \cup {Nil}]
Purse == [creds : Int, escrow : Int]

\* The types of all variables.
Typed ==
    /\ deal \in [Purchases -> Deals]
    /\ row \in [Purchases -> Row]
    /\ blob \in [Blobs -> {"initialized", "locked", "processed"}]
    /\ subscr \in BOOLEAN
    /\ told \subseteq Purchases
    /\ days \in [Accounts -> Int] /\ total \in [Accounts -> Int]
    /\ purse \in Purse /\ credits \in Int
    /\ pc \in [Procs -> Work \cup {"idle"}]
    /\ on \in [Procs -> Purchases \cup {Nil}]
    /\ who \in [Procs -> Accounts \cup {Nil}]
    /\ seen \in [Procs -> Int] /\ mine \in [Procs -> Purse]
    /\ held \in [Procs -> SUBSET Names] /\ busy \subseteq Names
    /\ given \in [Purchases -> Int]
    /\ loose \subseteq Purchases /\ mixed \subseteq Accounts /\ spoilt \in BOOLEAN
    /\ \A p \in Procs : pc[p] = "idle" => on[p] = Nil

\* What a blob of its own guards.
ByBlob(x) == Way(x) \in {"ipn", "spend"}

\* Where requests of each way and kind go.
Routes ==
    \A p \in Procs : pc[p] # "idle" =>
        /\ on[p] \in Purchases /\ who[p] \in Accounts
        /\ pc[p] = "lock" => Webhook(on[p]) /\ Kind(on[p]) # "code"
        /\ pc[p] \in {"unlock", "take", "reversed"} => Webhook(on[p])
        /\ pc[p] \in {"blob", "status", "mark", "load", "done"} => ~Webhook(on[p])
        /\ pc[p] \in {"fund", "settle"} => Way(on[p]) = "spend"
        /\ pc[p] = "renew" => Way(on[p]) = "subscr"
        /\ pc[p] \in {"code", "tell", "claim"} => Kind(on[p]) = "code"
        /\ pc[p] = "apply" => Kind(on[p]) = "code" \/ Way(on[p]) = "subscr"
        /\ pc[p] = "give" => Kind(on[p]) # "code"
        /\ pc[p] = "record" => Kind(on[p]) # "code" /\ Way(on[p]) # "spend"

CodesTold == \A x \in told : Kind(x) = "code"

\* The lock that a process holds.
Holds(p) ==
    IF pc[p] \in {"status", "mark"} THEN {Custom(on[p])}
    ELSE IF pc[p] = "take" \/ (pc[p] \in {"give", "record"} /\ Webhook(on[p]))
         THEN {who[p]}
         ELSE {}

Exclusive ==
    /\ \A p \in Procs : held[p] = Holds(p) /\ held[p] \subseteq busy
    /\ \A p, q \in Procs : held[p] \cap held[q] # {} => p = q

\* Somebody, at most one, is at work on x at one of some places.
SomeAt(x, places) == \E p \in Procs : on[p] = x /\ pc[p] \in places
OneAt(x, places) ==
    \A p, q \in Procs :
        on[p] = x /\ on[q] = x /\ pc[p] \in places /\ pc[q] \in places => p = q

\* Past the blob a request delivers; of a code, it only makes the code.
Making     == {"load", "fund", "code", "tell", "record", "settle", "done"}
Delivering == Making \cup {"give"}

\* The blob of x lets one delivery through.
Passed(x, places) == (SomeAt(x, places) => blob[x] = "locked") /\ OneAt(x, places)

BlobGuards(x) ==
    ByBlob(x) =>
        /\ blob[x] = "initialized" => row[x].status = "none" /\ given[x] = 0
        /\ SomeAt(x, {"mark"}) => blob[x] = "initialized"
        /\ Kind(x) = "code" => Passed(x, Making)
        /\ Kind(x) # "code" => Passed(x, Delivering)

\* A code is claimed once.
CodeGuards(x) ==
    Kind(x) = "code" =>
        /\ row[x].status \in {"none", "unclaimed", "claimed", "reversed"}
        /\ row[x].account = Nil <=> row[x].status \in {"none", "unclaimed"}
        /\ given[x] \in {0, Worth(x)}
        /\ row[x].status \in {"none", "unclaimed"} =>
               given[x] = 0 /\ ~SomeAt(x, {"apply", "unlock", "take", "reversed"})
        /\ row[x].status = "none" =>
               x \notin told /\ ~SomeAt(x, {"tell", "claim", "settle", "done"})
        /\ SomeAt(x, {"apply"}) => given[x] = 0
        /\ OneAt(x, {"apply"})
        /\ ByBlob(x) /\ blob[x] = "processed" => row[x].status # "none"
        /\ x \notin loose =>
            /\ row[x].status = "unclaimed" => x \in told \/ SomeAt(x, {"tell"})
            /\ row[x].status \in {"claimed", "reversed"} =>
                   given[x] = Worth(x) \/ SomeAt(x, {"apply"})

\* What a blob of its own guards and is no code.
DirectGuards(x) ==
    ByBlob(x) /\ Kind(x) # "code" =>
        /\ row[x].status \in {"none", "processed", "instagift"}
        /\ given[x] \in {0, Worth(x)}
        /\ row[x].status # "none" => given[x] = Worth(x)
        /\ blob[x] = "processed" => given[x] = Worth(x)
        /\ SomeAt(x, {"load", "fund", "give"}) => given[x] = 0 /\ row[x].status = "none"
        /\ SomeAt(x, {"record", "settle", "done"}) => given[x] = Worth(x)
        /\ x \notin loose /\ Way(x) = "ipn" /\ row[x].status = "none" =>
               given[x] = 0 \/ SomeAt(x, {"record"})

\* A payment of the subscription is recorded once: a first one after it is
\* delivered, which a repeat must not overlap, a renewal before.
SubscrGuards(x) ==
    Way(x) = "subscr" =>
        /\ row[x].status \in {"none", "processed", "claimed"}
        /\ row[x].status = "none" => ~SomeAt(x, {"apply"})
        /\ OneAt(x, {"apply"})
        /\ x \notin loose =>
            /\ SomeAt(x, {"record"}) =>
                  /\ row[x].status = "none" /\ given[x] = Worth(x)
                  /\ ~SomeAt(x, {"renew"})
            /\ OneAt(x, {"record"})
            /\ SomeAt(x, {"apply"}) => row[x].status = "claimed" /\ given[x] = 0
            /\ row[x].status = "none" => given[x] = 0 \/ SomeAt(x, {"record"})
            /\ row[x].status = "processed" => given[x] = Worth(x)
            /\ row[x].status = "claimed" => given[x] = Worth(x) \/ SomeAt(x, {"apply"})

\* Notifications of webhooks that do not overlap.
HookGuards(x) ==
    Webhook(x) /\ Kind(x) # "code" =>
        /\ row[x].status \in {"none", "processed", "reversed"}
        /\ x \notin loose =>
            /\ OneAt(x, Work)
            /\ SomeAt(x, {"lock", "give"}) => row[x].status = "none" /\ given[x] = 0
            /\ SomeAt(x, {"record"}) => row[x].status = "none" /\ given[x] = Worth(x)
            /\ SomeAt(x, {"unlock", "take"}) =>
                   row[x].status = "processed" /\ given[x] = Worth(x)
            /\ SomeAt(x, {"reversed"}) =>
                   row[x].status = "processed" /\ given[x] = Worth(x) - Taken(x)
            /\ ~SomeAt(x, Work) =>
                   CASE row[x].status = "none"      -> given[x] = 0
                     [] row[x].status = "processed" -> given[x] = Worth(x)
                     [] OTHER                       -> given[x] = Worth(x) - Taken(x)

Guards(x) ==
    BlobGuards(x) /\ CodeGuards(x) /\ DirectGuards(x) /\ SubscrGuards(x) /\ HookGuards(x)

RowsFit == \A x \in Purchases : row[x].status = "none" => row[x] = NoRow
Guarded == \A x \in Purchases : Guards(x)

\* The subscription's blob lets one payment through before there is a
\* subscription, and while nothing was given for any.
Joins(p, places) == on[p] \in Purchases /\ Way(on[p]) = "subscr" /\ pc[p] \in places
Joining(places)  == \E p \in Procs : Joins(p, places)
NoneGiven ==
    /\ ~subscr
    /\ \A x \in Purchases : Way(x) = "subscr" =>
           row[x].status = "none" /\ given[x] = 0
    /\ ~Joining({"record", "renew", "apply", "done"})
FirstOnly ==
    /\ blob[Subscription] = "initialized" \/ Joining({"load", "give"}) => NoneGiven
    /\ Joining({"mark"}) => blob[Subscription] = "initialized"
    /\ Joining({"load", "give"}) => blob[Subscription] = "locked"
    /\ \A p, q \in Procs :
           Joins(p, {"load", "give"}) /\ Joins(q, {"load", "give"}) => p = q

\* Who will write an account's gold has read it as it is.
Accounted ==
    \A a \in Accounts \ mixed :
        /\ days[a] = total[a]
        /\ \A p \in Procs : Reading(p, a) => seen[p] = days[a]

\* Who will write the purse has read it as it is.
PurseKept ==
    ~spoilt =>
        /\ purse.creds + purse.escrow = credits
        /\ \A p \in Procs :
            /\ Spending(p) => mine[p].escrow = purse.escrow
            /\ NotFunded(p) => mine[p] = purse

USE GoldConstants DEF Accounts

-----------------------------------------------------------------------------
(* One process at a time.                                                   *)

\* How purchases can be paid for.
LEMMA DealKinds ==
    ASSUME Typed, NEW x \in Purchases
    PROVE  /\ Way(x) \in Ways /\ Kind(x) \in Kinds
           /\ Way(x) \in {"subscr", "invoice"} => Kind(x) = "onetime"
           /\ Way(x) = "spend" => Kind(x) \in {"gift", "code"}
           /\ Months(x) \in Nat
           /\ To(x) \in Accounts
<1>1. deal[x] \in Deals
  BY DEF Typed
<1>2. deal[x] \in Ways \X Kinds \X (Nat \ {0})
  BY <1>1
<1>3. Way(x) \in Ways /\ Kind(x) \in Kinds /\ Months(x) \in Nat
  BY <1>2 DEF Way, Kind, Months
<1> QED
  BY <1>1, <1>3 DEF Way, Kind, To

\* What is given for them, and taken back.
LEMMA Amounts ==
    ASSUME Typed, NEW x \in Purchases
    PROVE  /\ Days(x) \in Int /\ Months(x) \in Int
           /\ Worth(x) \in Int /\ Taken(x) \in Int
           /\ Kind(x) = "creddits" => Worth(x) = Months(x)
           /\ Kind(x) # "creddits" => Worth(x) = Days(x)
           /\ Kind(x) = "code" => Taken(x) = 0
<1>1. Months(x) \in Nat /\ Kind(x) \in Kinds
  BY DealKinds
<1>2. Days(x) \in Int
  BY <1>1 DEF Days
<1>3. Days(x) \div 31 \in Int
  BY <1>2
<1>4. CASE Kind(x) = "creddits"
  BY <1>1, <1>2, <1>3, <1>4 DEF Worth, Taken
<1>5. CASE Kind(x) = "code"
  BY <1>1, <1>2, <1>5 DEF Worth, Taken
<1>6. CASE Kind(x) \notin {"creddits", "code"}
  BY <1>1, <1>2, <1>6 DEF Worth, Taken
<1> QED
  BY <1>4, <1>5, <1>6

\* A purchase and its blob.
LEMMA Customs ==
    ASSUME NEW x \in Purchases
    PROVE  /\ Custom(x) \in Blobs /\ Custom(x) \in Names
           /\ Way(x) = "subscr" => Custom(x) = Subscription
           /\ Way(x) # "subscr" => Custom(x) = x /\ Custom(x) # Subscription
  BY DEF Custom, Blobs, Names

LEMMA Constants ==
    /\ NoPurse \in Purse
    /\ NoRow \in Row /\ NoRow.status = "none" /\ NoRow.account = Nil
    /\ \A x \in Row : x.status \in Statuses /\ x.account \in Accounts \cup {Nil}
    /\ \A x \in Purse : x.creds \in Int /\ x.escrow \in Int
  BY DEF NoPurse, Purse, NoRow, Row, Statuses

\* What is a process's own has its type and is nobody else's business.
OwnTyped ==
    /\ pc \in [Procs -> Work \cup {"idle"}]
    /\ on \in [Procs -> Purchases \cup {Nil}]
    /\ who \in [Procs -> Accounts \cup {Nil}]
    /\ seen \in [Procs -> Int] /\ mine \in [Procs -> Purse]
    /\ \A p \in Procs : pc[p] = "idle" => on[p] = Nil

Only(p) ==
    \A q \in Procs \ {p} :
        /\ pc'[q] = pc[q] /\ on'[q] = on[q] /\ who'[q] = who[q]
        /\ seen'[q] = seen[q] /\ mine'[q] = mine[q]

LEMMA EndsOwn ==
    ASSUME OwnTyped, NEW p \in Procs, Ends(p)
    PROVE  /\ OwnTyped' /\ Only(p)
           /\ pc'[p] = "idle" /\ on'[p] = Nil /\ who'[p] = Nil
<1>1. /\ pc' = [pc EXCEPT ![p] = "idle"] /\ on' = [on EXCEPT ![p] = Nil]
      /\ who' = [who EXCEPT ![p] = Nil] /\ seen' = [seen EXCEPT ![p] = 0]
      /\ mine' = [mine EXCEPT ![p] = NoPurse]
  BY DEF Ends, Goto
<1>2. Only(p) /\ pc'[p] = "idle" /\ on'[p] = Nil /\ who'[p] = Nil
  BY <1>1 DEF Only, OwnTyped
<1>3. OwnTyped'
  BY <1>1, Constants DEF OwnTyped
<1> QED
  BY <1>2, <1>3

\* A step to another place.
LEMMA GotoOwn ==
    ASSUME OwnTyped, NEW p \in Procs, pc[p] # "idle", NEW l \in Work, Goto(p, l),
           UNCHANGED <<on, who>>,
           \/ UNCHANGED <<seen, mine>>
           \/ UNCHANGED mine /\ \E n \in Int : seen' = [seen EXCEPT ![p] = n]
           \/ UNCHANGED seen /\ \E m \in Purse : mine' = [mine EXCEPT ![p] = m]
    PROVE  OwnTyped' /\ Only(p) /\ pc'[p] = l
<1>1. pc' = [pc EXCEPT ![p] = l]
  BY DEF Goto
<1>2. pc' \in [Procs -> Work \cup {"idle"}] /\ pc'[p] = l
      /\ \A q \in Procs \ {p} : pc'[q] = pc[q]
  BY <1>1 DEF OwnTyped
<1>3. /\ seen' \in [Procs -> Int] /\ \A q \in Procs \ {p} : seen'[q] = seen[q]
      /\ mine' \in [Procs -> Purse] /\ \A q \in Procs \ {p} : mine'[q] = mine[q]
  BY DEF OwnTyped
<1>4. l # "idle"
  BY DEF Work
<1> QED
  BY <1>2, <1>3, <1>4 DEF OwnTyped, Only

LEMMA BeginOwn ==
    ASSUME Typed, NEW p \in Procs, NEW x \in Purchases, NEW a \in Accounts, NEW l \in Work,
           Begin(p, x, a, l)
    PROVE  /\ OwnTyped' /\ Only(p)
           /\ pc[p] = "idle" /\ pc'[p] = l /\ on'[p] = x /\ who'[p] = a
           /\ seen'[p] = days[a] /\ mine'[p] = purse
           /\ UNCHANGED <<deal, stored, locks, given, total, credits, mixed, spoilt>>
<1>1. /\ pc[p] = "idle" /\ pc' = [pc EXCEPT ![p] = l] /\ on' = [on EXCEPT ![p] = x]
      /\ who' = [who EXCEPT ![p] = a] /\ seen' = [seen EXCEPT ![p] = days[a]]
      /\ mine' = [mine EXCEPT ![p] = purse]
      /\ UNCHANGED <<deal, stored, locks, given, total, credits, mixed, spoilt>>
  BY DEF Begin, Goto
<1>2. days[a] \in Int /\ purse \in Purse /\ l # "idle"
  BY DEF Typed, Work
<1>3. Only(p) /\ pc'[p] = l /\ on'[p] = x /\ who'[p] = a
      /\ seen'[p] = days[a] /\ mine'[p] = purse
  BY <1>1 DEF Typed, Only
<1>4. /\ pc' \in [Procs -> Work \cup {"idle"}]
      /\ on' \in [Procs -> Purchases \cup {Nil}]
      /\ who' \in [Procs -> Accounts \cup {Nil}]
      /\ seen' \in [Procs -> Int] /\ mine' \in [Procs -> Purse]
  BY <1>1, <1>2 DEF Typed
<1>5. \A q \in Procs : pc'[q] = "idle" => on'[q] = Nil
  BY <1>1, <1>2 DEF Typed
<1> QED
  BY <1>1, <1>3, <1>4, <1>5 DEF OwnTyped

\* Each request is a beginning, about a purchase that it is for.
Fit(x, l) ==
    /\ loose' = loose \/ loose' = loose \cup {x}
    /\ l = "blob" => ~Webhook(x)
    /\ l = "renew" => Way(x) = "subscr" /\ subscr
    /\ l = "renew" /\ SomeAt(x, {"record"}) => x \in loose'
    /\ l = "claim" => x \in told
    /\ l = "code" => Kind(x) = "code" /\ Webhook(x)
    /\ l = "lock" => Webhook(x) /\ Kind(x) # "code" /\ (row[x] = NoRow \/ x \in loose')
    /\ l = "unlock" => /\ Webhook(x) /\ row[x] # NoRow
                       /\ row[x].account # Nil \/ row[x].status = "processed"
                       /\ row[x].status = "reversed" => x \in loose'
    /\ l \in {"lock", "unlock"} /\ AtWorkOn(x) # {} => x \in loose'

LEMMA RequestBegins ==
    ASSUME Typed, NEW p \in Procs, NEW x \in Purchases,
           \/ Succeeded(p, x) \/ Refunded(p, x) \/ Cancelled(p, x)
           \/ Ipn(p, x) \/ Spend(p, x) \/ Renewal(p, x)
           \/ \E a \in Accounts : ClaimRequest(p, x, a)
    PROVE  \E a \in Accounts, l \in {"code", "lock", "unlock", "blob", "renew", "claim"} :
              Begin(p, x, a, l) /\ Fit(x, l)
<1>T. To(x) \in Accounts /\ Buyer \in Accounts
  BY DealKinds
<1>1. CASE Succeeded(p, x)
  BY <1>1, <1>T DEF Succeeded, Loosen, Fit
<1>2. CASE Refunded(p, x)
  <2>1. /\ row[x].status = "processed" /\ Webhook(x) /\ Begin(p, x, To(x), "unlock")
        /\ loose' = IF AtWorkOn(x) # {} THEN loose \cup {x} ELSE loose
    BY <1>2 DEF Refunded, Loosen, Webhook
  <2>2. row[x] # NoRow
    BY <2>1, Constants
  <2>3. Fit(x, "unlock")
    BY <2>1, <2>2 DEF Fit
  <2> QED
    BY <1>T, <2>1, <2>3
<1>3. CASE Cancelled(p, x)
  <2>1. row[x].account \in Accounts
    <3>1. row[x] \in Row
      BY DEF Typed
    <3> QED
      BY <1>3, <3>1, Constants DEF Cancelled
  <2> QED
    BY <1>3, <1>T, <2>1 DEF Cancelled, Loosen, Webhook, Fit
<1>4. CASE Ipn(p, x) \/ Spend(p, x)
  BY <1>4, <1>T DEF Ipn, Spend, Webhook, Fit
<1>5. CASE Renewal(p, x)
  <2>1. SomeAt(x, {"record"}) => \E q \in AtWorkOn(x) : pc[q] = "record"
    BY DEF SomeAt, AtWorkOn
  <2>2. Fit(x, "renew")
    BY <1>5, <2>1 DEF Renewal, Loosen, Fit
  <2> QED
    BY <1>5, <1>T, <2>2 DEF Renewal
<1>6. CASE \E a \in Accounts : ClaimRequest(p, x, a)
  BY <1>6 DEF ClaimRequest, Fit
<1> QED
  BY <1>1, <1>2, <1>3, <1>4, <1>5, <1>6

\* The ways through a request.
Goes(p, from, to) == pc[p] = from /\ pc'[p] = to
Path(p) ==
    \/ Goes(p, "lock", "give") \/ Goes(p, "unlock", "take")
    \/ Goes(p, "blob", "status") \/ Goes(p, "status", "mark") \/ Goes(p, "mark", "load")
    \/ Goes(p, "load", "fund") /\ Way(on[p]) = "spend"
    \/ Goes(p, "load", "code") /\ Way(on[p]) # "spend" /\ Kind(on[p]) = "code"
    \/ Goes(p, "load", "give") /\ Way(on[p]) # "spend" /\ Kind(on[p]) # "code"
    \/ Goes(p, "fund", "give") /\ Kind(on[p]) = "gift"
    \/ Goes(p, "fund", "code") /\ Kind(on[p]) # "gift"
    \/ Goes(p, "give", "settle") /\ Way(on[p]) = "spend" /\ Kind(on[p]) # "code"
    \/ Goes(p, "give", "record") /\ Way(on[p]) # "spend" /\ Kind(on[p]) # "code"
    \/ Goes(p, "code", "tell")
    \/ Goes(p, "tell", "settle") /\ Way(on[p]) = "spend"
    \/ Goes(p, "tell", "done") /\ Way(on[p]) = "ipn"
    \/ Goes(p, "record", "done") /\ ~Webhook(on[p])
    \/ Goes(p, "renew", "apply") \/ Goes(p, "claim", "apply")
    \/ Goes(p, "settle", "done") \/ Goes(p, "take", "reversed")

LEMMA StepOwn ==
    ASSUME Typed, Routes, NEW p \in Procs, Step(p) \/ Die(p)
    PROVE  /\ pc[p] # "idle" /\ on[p] \in Purchases /\ who[p] \in Accounts
           /\ OwnTyped' /\ Only(p) /\ deal' = deal
           /\ \/ pc'[p] = "idle" /\ on'[p] = Nil /\ who'[p] = Nil
              \/ on'[p] = on[p] /\ who'[p] = who[p] /\ Path(p)
<1> DEFINE Goal == /\ pc[p] # "idle" /\ on[p] \in Purchases /\ who[p] \in Accounts
                   /\ OwnTyped' /\ Only(p) /\ deal' = deal
                   /\ \/ pc'[p] = "idle" /\ on'[p] = Nil /\ who'[p] = Nil
                      \/ on'[p] = on[p] /\ who'[p] = who[p] /\ Path(p)
<1> SUFFICES Goal
  OBVIOUS
<1>O. OwnTyped
  BY DEF Typed, OwnTyped
<1>E. ASSUME Ends(p), pc[p] # "idle", deal' = deal
      PROVE  Goal
  BY <1>E, <1>O, EndsOwn DEF Routes
<1>G. ASSUME NEW l \in Work, Goto(p, l), pc[p] # "idle", deal' = deal, UNCHANGED <<on, who>>,
             \/ UNCHANGED <<seen, mine>>
             \/ UNCHANGED mine /\ \E n \in Int : seen' = [seen EXCEPT ![p] = n]
             \/ UNCHANGED seen /\ \E m \in Purse : mine' = [mine EXCEPT ![p] = m],
             pc'[p] = l => Path(p)
      PROVE  Goal
  <2>1. OwnTyped' /\ Only(p) /\ pc'[p] = l
    BY <1>G, <1>O, GotoOwn
  <2> QED
    BY <1>G, <2>1 DEF Routes
<1>W. \A l \in {"lock", "unlock", "blob", "status", "mark", "load", "give", "code", "tell",
         "record", "renew", "claim", "apply", "fund", "settle", "done", "take", "reversed"} : l \in Work
  BY DEF Work
<1>K. on[p] \in Purchases => /\ Kind(on[p]) \in Kinds /\ Way(on[p]) \in Ways
                             /\ Way(on[p]) = "spend" => Kind(on[p]) \in {"gift", "code"}
                             /\ Months(on[p]) \in Nat
  BY DealKinds
<1>D. \A a \in Accounts : days[a] \in Int
  BY DEF Typed
<1>R. pc[p] # "idle" => on[p] \in Purchases /\ who[p] \in Accounts
  BY DEF Routes
<1> HIDE DEF Goal
<1>1. CASE LockToGive(p) \/ LockToTake(p)
  <2>1. ASSUME NEW from \in {"lock", "unlock"}, NEW to \in {"give", "take"},
               GoldLock(p, from, to), Goes(p, from, to) => Path(p)
        PROVE  Goal
    <3>1. /\ pc[p] = from /\ Goto(p, to) /\ deal' = deal /\ UNCHANGED <<on, who, mine>>
          /\ seen' = [seen EXCEPT ![p] = days[who[p]]]
      BY <2>1 DEF GoldLock
    <3>2. pc[p] # "idle"
      BY <3>1
    <3>3. \E n \in Int : seen' = [seen EXCEPT ![p] = n]
      BY <1>D, <1>R, <3>1, <3>2
    <3>4. pc'[p] = to => Path(p)
      BY <2>1, <3>1 DEF Goes
    <3> QED
      BY <1>G, <1>W, <3>1, <3>2, <3>3, <3>4
  <2>2. Goes(p, "lock", "give") \/ Goes(p, "unlock", "take") => Path(p)
    BY DEF Path
  <2> QED
    BY <1>1, <2>1, <2>2 DEF LockToGive, LockToTake
<1>2. CASE LockBlob(p) \/ BlobFound(p) \/ MarkBlob(p)
  <2>1. /\ \/ pc[p] = "blob" /\ Goto(p, "status")
           \/ pc[p] = "status" /\ Goto(p, "mark")
           \/ pc[p] = "mark" /\ Goto(p, "load")
        /\ deal' = deal /\ UNCHANGED <<on, who, seen, mine>>
    BY <1>2 DEF LockBlob, BlobFound, MarkBlob, local
  <2> QED
    BY <1>G, <1>W, <2>1 DEF Path, Goes
<1>3. CASE BlobRefused(p) \/ TimesOut(p) \/ CodeExists(p) \/ TellFails(p) \/ RenewalExists(p)
           \/ AlreadyClaimed(p) \/ NotEnough(p) \/ BlobProcessed(p) \/ MarkReversed(p)
           \/ ReversalUntold(p) \/ Apply(p) \/ Die(p)
  <2>1. Ends(p) /\ deal' = deal /\ pc[p] # "idle"
    BY <1>3 DEF Apply, BlobRefused, TimesOut, CodeExists, TellFails, RenewalExists, AlreadyClaimed,
         NotEnough, BlobProcessed, MarkReversed, ReversalUntold, Die
  <2> QED
    BY <1>E, <2>1
<1>4. CASE Load(p)
  <2>1. PICK l \in {"fund", "code", "give"} :
            /\ Goto(p, l) /\ pc[p] = "load"
            /\ l = "fund" => Way(on[p]) = "spend"
            /\ l = "code" => Way(on[p]) # "spend" /\ Kind(on[p]) = "code"
            /\ l = "give" => Way(on[p]) # "spend" /\ Kind(on[p]) # "code"
    <3>1. CASE Way(on[p]) = "spend"
      <4>1. Goto(p, "fund") /\ pc[p] = "load"
        BY <1>4, <3>1 DEF Load
      <4> QED
        BY <3>1, <4>1
    <3>2. CASE Way(on[p]) # "spend" /\ Kind(on[p]) = "code"
      <4>1. Goto(p, "code") /\ pc[p] = "load"
        BY <1>4, <3>2 DEF Load
      <4> QED
        BY <3>2, <4>1
    <3>3. CASE Way(on[p]) # "spend" /\ Kind(on[p]) # "code"
      <4>1. Goto(p, "give") /\ pc[p] = "load"
        BY <1>4, <3>3 DEF Load
      <4> QED
        BY <3>3, <4>1
    <3> QED
      BY <3>1, <3>2, <3>3
  <2>2. /\ deal' = deal /\ UNCHANGED <<on, who, mine>>
        /\ seen' = [seen EXCEPT ![p] = days[who[p]]]
    BY <1>4 DEF Load
  <2>3. \E n \in Int : seen' = [seen EXCEPT ![p] = n]
    BY <1>D, <1>R, <2>1, <2>2
  <2>4. pc'[p] = l => Path(p)
    BY <2>1 DEF Path, Goes
  <2> QED
    BY <1>G, <1>W, <2>1, <2>2, <2>3, <2>4
<1>5. CASE GiveGold(p) \/ GiveCreddits(p)
  <2>1. pc[p] = "give" /\ deal' = deal
    BY <1>5 DEF GiveGold, GiveCreddits
  <2>2. Kind(on[p]) # "code"
    BY <2>1 DEF Routes
  <2>3. CASE GiveGold(p)
    <3>1. UNCHANGED <<on, who, seen, mine>>
      BY <2>3 DEF GiveGold, local
    <3>2. CASE Way(on[p]) = "spend"
      BY <1>G, <1>W, <2>1, <2>2, <2>3, <3>1, <3>2 DEF GiveGold, Path, Goes
    <3>3. CASE Way(on[p]) # "spend"
      BY <1>G, <1>W, <2>1, <2>2, <2>3, <3>1, <3>3 DEF GiveGold, Path, Goes
    <3> QED
      BY <3>2, <3>3
  <2>4. CASE GiveCreddits(p)
    <3>1. UNCHANGED <<on, who, seen, mine>> /\ Kind(on[p]) = "creddits" /\ Goto(p, "record")
      BY <2>4 DEF GiveCreddits, local
    <3>2. Way(on[p]) # "spend"
      BY <1>K, <1>R, <2>1, <3>1
    <3> QED
      BY <1>G, <1>W, <2>1, <3>1, <3>2 DEF Path, Goes
  <2> QED
    BY <1>5, <2>3, <2>4
<1>6. CASE InsertCode(p) \/ RecordRenewal(p) \/ Claim(p) \/ Settle(p) \/ TakeBack(p)
  <2>1. /\ \/ pc[p] = "code" /\ Goto(p, "tell")
           \/ pc[p] = "renew" /\ Goto(p, "apply")
           \/ pc[p] = "claim" /\ Goto(p, "apply")
           \/ pc[p] = "settle" /\ Goto(p, "done")
           \/ pc[p] = "take" /\ Goto(p, "reversed")
        /\ deal' = deal /\ UNCHANGED <<on, who, seen, mine>>
    BY <1>6 DEF InsertCode, RecordRenewal, Claim, Settle, TakeBack, local
  <2> QED
    BY <1>G, <1>W, <2>1 DEF Path, Goes
<1>7. CASE Tell(p)
  <2>1. pc[p] = "tell" /\ deal' = deal
    BY <1>7 DEF Tell
  <2>2. \/ Way(on[p]) = "spend" /\ Goto(p, "settle") /\ UNCHANGED local
        \/ Way(on[p]) = "ipn" /\ Goto(p, "done") /\ UNCHANGED local
        \/ Ends(p)
    BY <1>7 DEF Tell
  <2> QED
    BY <1>G, <1>E, <1>W, <2>1, <2>2 DEF Path, Goes, local
<1>8. CASE Record(p)
  <2>1. pc[p] = "record" /\ deal' = deal
    BY <1>8 DEF Record
  <2>2. \/ ~Webhook(on[p]) /\ Goto(p, "done") /\ UNCHANGED local
        \/ Ends(p)
    BY <1>8 DEF Record
  <2> QED
    BY <1>G, <1>E, <1>W, <2>1, <2>2 DEF Path, Goes, local
<1>9. CASE Fund(p)
  <2>1. /\ pc[p] = "fund" /\ deal' = deal /\ UNCHANGED <<on, who, seen>>
        /\ mine' = [mine EXCEPT ![p] = [creds  |-> @.creds - Months(on[p]),
                                       escrow |-> @.escrow + Months(on[p])]]
    BY <1>9 DEF Fund
  <2>2. \E m \in Purse : mine' = [mine EXCEPT ![p] = m]
    <3>1. mine[p] \in Purse
      BY DEF Typed
    <3>2. [creds  |-> mine[p].creds - Months(on[p]),
           escrow |-> mine[p].escrow + Months(on[p])] \in Purse
      BY <3>1, <1>K, <1>R, <2>1 DEF Purse
    <3> QED
      BY <2>1, <3>2
  <2>3. CASE Kind(on[p]) = "gift"
    BY <1>9, <1>G, <1>W, <2>1, <2>2, <2>3 DEF Fund, Path, Goes
  <2>4. CASE Kind(on[p]) # "gift"
    BY <1>9, <1>G, <1>W, <2>1, <2>2, <2>4 DEF Fund, Path, Goes
  <2> QED
    BY <2>3, <2>4
<1> QED
  BY <1>1, <1>2, <1>3, <1>4, <1>5, <1>6, <1>7, <1>8, <1>9 DEF Step

LEMMA RoutesPreserved ==
    ASSUME Typed, Routes, CodesTold, NEW p \in Procs, Request(p) \/ Step(p) \/ Die(p)
    PROVE  Routes'
<1>T. /\ pc \in [Procs -> Work \cup {"idle"}] /\ on \in [Procs -> Purchases \cup {Nil}]
  BY DEF Typed
<1> DEFINE Right(q) == pc[q] # "idle" =>
        /\ on[q] \in Purchases /\ who[q] \in Accounts
        /\ pc[q] = "lock" => Webhook(on[q]) /\ Kind(on[q]) # "code"
        /\ pc[q] \in {"unlock", "take", "reversed"} => Webhook(on[q])
        /\ pc[q] \in {"blob", "status", "mark", "load", "done"} => ~Webhook(on[q])
        /\ pc[q] \in {"fund", "settle"} => Way(on[q]) = "spend"
        /\ pc[q] = "renew" => Way(on[q]) = "subscr"
        /\ pc[q] \in {"code", "tell", "claim"} => Kind(on[q]) = "code"
        /\ pc[q] = "apply" => Kind(on[q]) = "code" \/ Way(on[q]) = "subscr"
        /\ pc[q] = "give" => Kind(on[q]) # "code"
        /\ pc[q] = "record" => Kind(on[q]) # "code" /\ Way(on[q]) # "spend"
<1>1. ASSUME Only(p), deal' = deal, Right(p)'
      PROVE  Routes'
  <2>1. ASSUME NEW q \in Procs, q # p
        PROVE  Right(q)'
    BY <1>1, <2>1 DEF Routes, Only, Way, Kind, Webhook, ByBlob
  <2> QED
    BY <1>1, <2>1 DEF Routes
<1>2. CASE Request(p)
  <2>1. PICK x \in Purchases, a \in Accounts, l \in {"code", "lock", "unlock", "blob", "renew", "claim"} :
              Begin(p, x, a, l) /\ Fit(x, l)
    BY <1>2, RequestBegins DEF Request
  <2>2. l \in Work
    BY DEF Work
  <2>3. Only(p) /\ deal' = deal /\ pc'[p] = l /\ on'[p] = x /\ who'[p] = a
    BY <2>1, <2>2, BeginOwn
  <2>4. l = "claim" => Kind(x) = "code"
    BY <2>1 DEF CodesTold, Fit
  <2>5. Right(p)'
    BY <2>1, <2>3, <2>4 DEF Fit, Way, Kind, Webhook, ByBlob
  <2> QED
    BY <1>1, <2>3, <2>5
<1>3. CASE Step(p) \/ Die(p)
  <2>1. /\ pc[p] # "idle" /\ on[p] \in Purchases /\ who[p] \in Accounts
        /\ Only(p) /\ deal' = deal
    BY <1>3, StepOwn
  <2>2. CASE pc'[p] = "idle"
    BY <1>1, <2>1, <2>2
  <2>3. CASE on'[p] = on[p] /\ who'[p] = who[p] /\ Path(p)
    <3>1. /\ Way(on[p]) \in Ways
          /\ Way(on[p]) = "spend" => Kind(on[p]) \in {"gift", "code"}
      BY <2>1, DealKinds
    <3>2. /\ Way(on[p])' = Way(on[p]) /\ Kind(on[p])' = Kind(on[p])
          /\ Webhook(on[p])' <=> Webhook(on[p])
          /\ ByBlob(on[p])' <=> ByBlob(on[p])
      BY <2>1, <2>3 DEF Way, Kind, Webhook, ByBlob
    <3>3. Right(p)
      BY DEF Routes
    <3>4. Right(p)'
      BY <2>1, <2>3, <3>1, <3>2, <3>3 DEF Path, Goes, Webhook, ByBlob, Ways
    <3> QED
      BY <1>1, <2>1, <3>4
  <2> QED
    BY <1>3, <2>2, <2>3, StepOwn
<1> QED
  BY <1>2, <1>3

-----------------------------------------------------------------------------
(* Who is at work on a purchase.                                            *)

\* The others at work on x, and that no two of them are at some places.
Other(p, x, places) == \E q \in Procs \ {p} : on[q] = x /\ pc[q] \in places
Apart(p, x, places) ==
    \A q, r \in Procs \ {p} :
        on[q] = x /\ on[r] = x /\ pc[q] \in places /\ pc[r] \in places => q = r

\* A step of p leaves the others where they are.
LEMMA OthersStay ==
    ASSUME NEW p \in Procs, Only(p), NEW x, NEW places
    PROVE  /\ SomeAt(x, places) <=> (on[p] = x /\ pc[p] \in places) \/ Other(p, x, places)
           /\ SomeAt(x, places)' <=> (on'[p] = x /\ pc'[p] \in places) \/ Other(p, x, places)
           /\ OneAt(x, places) <=>
                 /\ Apart(p, x, places)
                 /\ on[p] = x /\ pc[p] \in places => ~Other(p, x, places)
           /\ OneAt(x, places)' <=>
                 /\ Apart(p, x, places)
                 /\ on'[p] = x /\ pc'[p] \in places => ~Other(p, x, places)
<1>1. SomeAt(x, places) <=> (on[p] = x /\ pc[p] \in places) \/ Other(p, x, places)
  BY DEF SomeAt, Other
<1>2. SomeAt(x, places)' <=> (on'[p] = x /\ pc'[p] \in places) \/ Other(p, x, places)
  BY DEF SomeAt, Other, Only
<1>3. OneAt(x, places) <=>
                 /\ Apart(p, x, places)
                 /\ on[p] = x /\ pc[p] \in places => ~Other(p, x, places)
  BY DEF OneAt, Apart, Other
<1>4. OneAt(x, places)' <=>
                 /\ Apart(p, x, places)
                 /\ on'[p] = x /\ pc'[p] \in places => ~Other(p, x, places)
  BY DEF OneAt, Apart, Other, Only
<1> QED
  BY <1>1, <1>2, <1>3, <1>4

\* What is bought does not change.
LEMMA SameDeals ==
    ASSUME deal' = deal, NEW x
    PROVE  /\ Way(x)' = Way(x) /\ Kind(x)' = Kind(x) /\ Months(x)' = Months(x)
           /\ ByBlob(x)' <=> ByBlob(x)
           /\ Webhook(x)' <=> Webhook(x)
           /\ Custom(x)' = Custom(x)
           /\ Days(x)' = Days(x) /\ Worth(x)' = Worth(x) /\ Taken(x)' = Taken(x)
  BY DEF Way, Kind, Months, ByBlob, Webhook, Custom, Days, Worth, Taken

\* What p does not touch stays guarded.
LEMMA GuardsElsewhere ==
    ASSUME NEW p \in Procs, NEW x, Only(p), deal' = deal, on[p] # x, on'[p] # x,
           row'[x] = row[x], ByBlob(x) => blob'[x] = blob[x], given'[x] = given[x],
           x \in told' <=> x \in told, x \in loose' <=> x \in loose, Guards(x)
    PROVE  Guards(x)'
<1>1. \A places : SomeAt(x, places)' <=> SomeAt(x, places)
  BY OthersStay
<1>2. \A places : OneAt(x, places)' <=> OneAt(x, places)
  BY OthersStay
<1>3. /\ Way(x)' = Way(x) /\ Kind(x)' = Kind(x)
      /\ ByBlob(x)' <=> ByBlob(x)
      /\ Webhook(x)' <=> Webhook(x)
      /\ Worth(x)' = Worth(x) /\ Taken(x)' = Taken(x)
  BY SameDeals
<1>4. BlobGuards(x)'
  BY <1>1, <1>2, <1>3 DEF Guards, BlobGuards, Passed
<1>5. CodeGuards(x)'
  BY <1>1, <1>2, <1>3 DEF Guards, CodeGuards
<1>6. DirectGuards(x)'
  BY <1>1, <1>2, <1>3 DEF Guards, DirectGuards
<1>7. SubscrGuards(x)'
  BY <1>1, <1>2, <1>3 DEF Guards, SubscrGuards
<1>8. HookGuards(x)'
  BY <1>1, <1>2, <1>3 DEF Guards, HookGuards
<1> QED
  BY <1>4, <1>5, <1>6, <1>7, <1>8 DEF Guards

-----------------------------------------------------------------------------
(* What a step does to its purchase.                                        *)

After(x, r, b, g) == row'[x] = r /\ blob'[Custom(x)] = b /\ given'[x] = g
SameTold(x)  == x \in told' <=> x \in told
SameLoose(x) == x \in loose' <=> x \in loose
Quits(p)     == pc'[p] = "idle" /\ on'[p] = Nil

\* From place to place, and nothing written.
Moves(p, x) ==
    /\ After(x, row[x], blob[Custom(x)], given[x]) /\ SameTold(x) /\ SameLoose(x)
    /\ on'[p] = x
    /\ \/ Goes(p, "lock", "give") \/ Goes(p, "unlock", "take") \/ Goes(p, "blob", "status")
       \/ Goes(p, "status", "mark") /\ blob[Custom(x)] = "initialized"
       \/ Goes(p, "load", "fund") \/ Goes(p, "load", "code")
       \/ Goes(p, "load", "give") /\ Kind(x) # "code"
       \/ Goes(p, "fund", "give") /\ Kind(x) = "gift"
       \/ Goes(p, "fund", "code")
       \/ Goes(p, "settle", "done")

\* The end of a request, and where it comes between two writes.
EndsWell(p, x) ==
    /\ After(x, row[x], blob[Custom(x)], given[x]) /\ SameTold(x) /\ SameLoose(x)
    /\ Quits(p) /\ pc[p] \notin {"record", "reversed", "tell", "apply"}
EndsBadly(p, x) ==
    /\ After(x, row[x], blob[Custom(x)], given[x]) /\ SameTold(x) /\ x \in loose'
    /\ Quits(p)

Marks(p, x) ==
    /\ After(x, row[x], "locked", given[x]) /\ SameTold(x) /\ SameLoose(x)
    /\ on'[p] = x /\ Goes(p, "mark", "load")
Gives(p, x) ==
    /\ After(x, row[x], blob[Custom(x)], given[x] + Worth(x)) /\ SameTold(x) /\ SameLoose(x)
    /\ \/ pc[p] = "apply" /\ Quits(p)
       \/ on'[p] = x /\ Goes(p, "give", "settle") /\ Way(x) = "spend"
       \/ on'[p] = x /\ Goes(p, "give", "record") /\ Way(x) # "spend"
Inserts(p, x) ==
    /\ row[x].status = "none" /\ row'[x].status = "unclaimed" /\ row'[x].account = Nil
    /\ After(x, row'[x], blob[Custom(x)], given[x]) /\ SameTold(x) /\ SameLoose(x)
    /\ on'[p] = x /\ Goes(p, "code", "tell")
Tells(p, x) ==
    /\ After(x, row[x], blob[Custom(x)], given[x]) /\ x \in told' /\ SameLoose(x)
    /\ pc[p] = "tell"
    /\ Quits(p) \/ (on'[p] = x /\ pc'[p] \in {"settle", "done"})
Records(p, x) ==
    /\ row[x].status # "none" => row'[x] = row[x]
    /\ row[x].status = "none" =>
           row'[x].status = IF Way(x) = "ipn" /\ Kind(x) = "gift" THEN "instagift" ELSE "processed"
    /\ After(x, row'[x], blob[Custom(x)], given[x]) /\ SameTold(x) /\ SameLoose(x)
    /\ pc[p] = "record"
    /\ IF ~Webhook(x) /\ row[x].status = "none"
       THEN on'[p] = x /\ pc'[p] = "done" ELSE Quits(p)
RecordsRenewal(p, x) ==
    /\ row[x].status = "none" /\ row'[x].status = "claimed"
    /\ After(x, row'[x], blob[Custom(x)], given[x]) /\ SameTold(x) /\ SameLoose(x)
    /\ on'[p] = x /\ Goes(p, "renew", "apply")
Claims(p, x) ==
    /\ row[x].status = "unclaimed" /\ row'[x].status = "claimed" /\ row'[x].account # Nil
    /\ After(x, row'[x], blob[Custom(x)], given[x]) /\ SameTold(x) /\ SameLoose(x)
    /\ on'[p] = x /\ Goes(p, "claim", "apply")
Processed(p, x) ==
    /\ After(x, row[x], "processed", given[x]) /\ SameTold(x) /\ SameLoose(x)
    /\ Quits(p) /\ pc[p] = "done"
TakesBack(p, x) ==
    /\ After(x, row[x], blob[Custom(x)], given[x] - Taken(x)) /\ SameTold(x) /\ SameLoose(x)
    /\ on'[p] = x /\ Goes(p, "take", "reversed")
Reverses(p, x) ==
    /\ row'[x].status = "reversed" /\ row'[x].account = row[x].account
    /\ After(x, row'[x], blob[Custom(x)], given[x]) /\ SameTold(x) /\ SameLoose(x)
    /\ Quits(p) /\ pc[p] = "reversed"

Effect(p, x) ==
    \/ Moves(p, x) \/ EndsWell(p, x) \/ EndsBadly(p, x) \/ Marks(p, x) \/ Gives(p, x)
    \/ Inserts(p, x) \/ Tells(p, x) \/ Records(p, x) \/ RecordsRenewal(p, x)
    \/ Claims(p, x) \/ Processed(p, x) \/ TakesBack(p, x) \/ Reverses(p, x)

\* A step does one of these to its purchase.
LEMMA Effects ==
    ASSUME Typed, Routes, RowsFit, NEW p \in Procs, NEW x, on[p] = x, Step(p) \/ Die(p)
    PROVE  Effect(p, x)
<1>P. /\ pc[p] # "idle" /\ x \in Purchases /\ who[p] \in Accounts /\ OwnTyped' /\ deal' = deal
      /\ \/ Quits(p)
         \/ on'[p] = x /\ Path(p)
  <2>1. /\ pc[p] # "idle" /\ on[p] \in Purchases /\ who[p] \in Accounts
        /\ OwnTyped' /\ deal' = deal
        /\ \/ pc'[p] = "idle" /\ on'[p] = Nil /\ who'[p] = Nil
           \/ on'[p] = on[p] /\ who'[p] = who[p] /\ Path(p)
    BY StepOwn
  <2> QED
    BY <2>1 DEF Quits
<1>E. ASSUME Ends(p)
      PROVE  Quits(p)
  <2>1. OwnTyped
    BY DEF Typed, OwnTyped
  <2> QED
    BY <1>E, <2>1, EndsOwn DEF Quits
<1>K. /\ Kind(x) \in Kinds /\ Way(x) \in Ways
      /\ Way(x) = "spend" => Kind(x) \in {"gift", "code"}
      /\ Kind(x) = "creddits" => Worth(x) = Months(x)
      /\ Kind(x) # "creddits" => Worth(x) = Days(x)
      /\ Custom(x) \in Blobs
  BY <1>P, DealKinds, Amounts, Customs
<1>G. /\ row \in [Purchases -> Row] /\ blob \in [Blobs -> {"initialized", "locked", "processed"}]
      /\ given \in [Purchases -> Int] /\ row[x] \in Row /\ (row[x] = NoRow <=> row[x].status = "none")
  BY <1>P, Constants DEF Typed, RowsFit
<1>O. pc \in [Procs -> Work \cup {"idle"}]
  BY DEF Typed
<1>F. \A l : Goto(p, l) => pc'[p] = l
  BY <1>O DEF Goto
<1>S. ASSUME UNCHANGED <<row, blob, given, told>>
      PROVE  After(x, row[x], blob[Custom(x)], given[x]) /\ SameTold(x)
  BY <1>S DEF After, SameTold
<1>L. ASSUME UNCHANGED loose
      PROVE  SameLoose(x)
  BY <1>L DEF SameLoose
<1>1. CASE LockToGive(p) \/ LockToTake(p) \/ LockBlob(p) \/ BlobFound(p) \/ Settle(p)
  <2>1. /\ UNCHANGED <<row, blob, given, told, loose>>
        /\ \/ Goes(p, "lock", "give") \/ Goes(p, "unlock", "take") \/ Goes(p, "blob", "status")
           \/ Goes(p, "status", "mark") /\ blob[Custom(x)] = "initialized"
           \/ Goes(p, "settle", "done")
    BY <1>1, <1>F DEF LockToGive, LockToTake, GoldLock, LockBlob, BlobFound, Settle, stored,
         history, Goes
  <2>2. on'[p] = x
    BY <1>P, <2>1 DEF Quits, Goes
  <2> QED
    BY <1>S, <1>L, <2>1, <2>2 DEF Moves, Effect
<1>2. CASE BlobRefused(p) \/ TimesOut(p) \/ CodeExists(p) \/ RenewalExists(p)
           \/ AlreadyClaimed(p) \/ NotEnough(p)
  <2>1. UNCHANGED <<row, blob, given, told, loose>> /\ Ends(p)
    BY <1>2 DEF BlobRefused, TimesOut, CodeExists, RenewalExists, AlreadyClaimed, NotEnough,
         stored, history
  <2>2. pc[p] \notin {"record", "reversed", "tell", "apply"}
    BY <1>2 DEF BlobRefused, TimesOut, CodeExists, RenewalExists, AlreadyClaimed, NotEnough
  <2> QED
    BY <1>E, <1>S, <1>L, <2>1, <2>2 DEF EndsWell, Effect
<1>3. CASE TellFails(p) \/ ReversalUntold(p)
  <2>1. UNCHANGED <<row, blob, given, told>> /\ Ends(p) /\ x \in loose'
    BY <1>3 DEF TellFails, ReversalUntold, stored
  <2> QED
    BY <1>E, <1>S, <2>1 DEF EndsBadly, Effect
<1>4. CASE Die(p)
  <2>1. UNCHANGED <<row, blob, given, told>> /\ Ends(p)
    BY <1>4 DEF Die, stored
  <2>2. \/ x \in loose'
        \/ loose' = loose /\ pc[p] \notin {"record", "reversed", "tell", "apply"}
    BY <1>4 DEF Die
  <2> QED
    BY <1>E, <1>S, <1>L, <2>1, <2>2 DEF EndsBadly, EndsWell, Effect
<1>5. CASE MarkBlob(p)
  <2>1. UNCHANGED <<row, given, told, loose>> /\ blob' = [blob EXCEPT ![Custom(x)] = "locked"]
        /\ Goes(p, "mark", "load")
    BY <1>5, <1>F DEF MarkBlob, history, Goes
  <2>2. on'[p] = x
    BY <1>P, <2>1 DEF Quits, Goes
  <2>3. Marks(p, x)
    BY <1>P, <1>G, <1>K, <1>L, <2>1, <2>2 DEF Marks, After, SameTold
  <2> QED
    BY <2>3 DEF Effect
<1>6. CASE Load(p)
  <2>1. UNCHANGED <<row, blob, given, told, loose>> /\ pc[p] = "load"
    BY <1>6 DEF Load, stored, history
  <2>2. \/ Goes(p, "load", "fund") \/ Goes(p, "load", "code")
        \/ Goes(p, "load", "give") /\ Kind(x) # "code"
    BY <1>6, <1>F, <2>1 DEF Load, Goes
  <2>3. on'[p] = x
    BY <1>P, <2>2 DEF Quits, Goes
  <2> QED
    BY <1>S, <1>L, <2>1, <2>2, <2>3 DEF Moves, Effect
<1>7. CASE GiveGold(p) \/ GiveCreddits(p) \/ Apply(p)
  <2>1. UNCHANGED <<row, blob, told, loose>> /\ pc[p] \in {"give", "apply"}
    BY <1>7 DEF GiveGold, GiveCreddits, Apply
  <2>2. pc[p] = "apply" => Kind(x) # "creddits"
    BY <1>P, DealKinds DEF Routes
  <2>3. given' = [given EXCEPT ![x] = @ + Worth(x)]
    BY <1>7, <1>K, <2>1, <2>2 DEF GiveGold, GiveCreddits, Apply, Engolden
  <2>4. \/ pc[p] = "apply" /\ Quits(p)
        \/ Goes(p, "give", "settle") /\ Way(x) = "spend"
        \/ Goes(p, "give", "record") /\ Way(x) # "spend"
    BY <1>7, <1>F, <1>E, <1>K DEF GiveGold, GiveCreddits, Apply, Goes
  <2>5. After(x, row[x], blob[Custom(x)], given[x] + Worth(x)) /\ SameTold(x)
    BY <1>P, <1>G, <2>1, <2>3 DEF After, SameTold
  <2>6. Gives(p, x)
    BY <1>P, <1>L, <2>1, <2>4, <2>5 DEF Gives, Quits, Goes
  <2> QED
    BY <2>6 DEF Effect
<1>8. CASE Fund(p)
  <2>1. UNCHANGED <<row, blob, given, told, loose>> /\ pc[p] = "fund"
    BY <1>8 DEF Fund
  <2>2. (Goes(p, "fund", "give") /\ Kind(x) = "gift") \/ Goes(p, "fund", "code")
    BY <1>8, <1>F, <2>1 DEF Fund, Goes
  <2>3. on'[p] = x
    BY <1>P, <2>2 DEF Quits, Goes
  <2> QED
    BY <1>S, <1>L, <2>1, <2>2, <2>3 DEF Moves, Effect
<1>9. CASE InsertCode(p) \/ RecordRenewal(p) \/ Claim(p)
  <2>1. UNCHANGED <<blob, given, told, loose>>
    BY <1>9 DEF InsertCode, RecordRenewal, Claim, history
  <2>2. SameTold(x) /\ After(x, row'[x], blob[Custom(x)], given[x])
    BY <2>1 DEF SameTold, After
  <2>3. CASE InsertCode(p)
    <3>1. /\ row[x] = NoRow /\ Goes(p, "code", "tell")
          /\ row' = [row EXCEPT ![x] = [status |-> "unclaimed", account |-> Nil]]
      BY <2>3, <1>F DEF InsertCode, Goes
    <3>2. row'[x] = [status |-> "unclaimed", account |-> Nil] /\ on'[p] = x
      BY <1>P, <1>G, <3>1 DEF Quits, Goes
    <3>3. Inserts(p, x)
      BY <1>G, <1>L, <2>1, <2>2, <3>1, <3>2 DEF Inserts
    <3> QED
      BY <3>3 DEF Effect
  <2>4. CASE RecordRenewal(p)
    <3>1. /\ row[x] = NoRow /\ Goes(p, "renew", "apply")
          /\ row' = [row EXCEPT ![x] = [status |-> "claimed", account |-> Buyer]]
      BY <2>4, <1>F DEF RecordRenewal, Goes
    <3>2. row'[x] = [status |-> "claimed", account |-> Buyer] /\ on'[p] = x
      BY <1>P, <1>G, <3>1 DEF Quits, Goes
    <3>3. RecordsRenewal(p, x)
      BY <1>G, <1>L, <2>1, <2>2, <3>1, <3>2 DEF RecordsRenewal
    <3> QED
      BY <3>3 DEF Effect
  <2>5. CASE Claim(p)
    <3>1. /\ row[x].status = "unclaimed" /\ Goes(p, "claim", "apply")
          /\ row' = [row EXCEPT ![x] = [status |-> "claimed", account |-> who[p]]]
      BY <2>5, <1>F DEF Claim, Goes
    <3>2. row'[x] = [status |-> "claimed", account |-> who[p]] /\ on'[p] = x
      BY <1>P, <1>G, <3>1 DEF Quits, Goes
    <3>3. who[p] # Nil
      BY <1>P
    <3>4. Claims(p, x)
      BY <1>L, <2>1, <2>2, <3>1, <3>2, <3>3 DEF Claims
    <3> QED
      BY <3>4 DEF Effect
  <2> QED
    BY <1>9, <2>3, <2>4, <2>5
<1>10. CASE Tell(p)
  <2>1. /\ UNCHANGED <<row, blob, given, loose>> /\ x \in told' /\ pc[p] = "tell"
        /\ pc'[p] = "settle" \/ pc'[p] = "done" \/ Quits(p)
    BY <1>10, <1>F, <1>E DEF Tell, history
  <2>2. on'[p] = x \/ Quits(p)
    BY <1>P
  <2>3. After(x, row[x], blob[Custom(x)], given[x])
    BY <2>1 DEF After
  <2>4. Quits(p) \/ (on'[p] = x /\ pc'[p] \in {"settle", "done"})
    BY <2>1, <2>2
  <2>5. Tells(p, x)
    BY <1>L, <2>1, <2>3, <2>4 DEF Tells
  <2> QED
    BY <2>5 DEF Effect
<1>11. CASE Record(p)
  <2>1. UNCHANGED <<blob, given, told, loose>> /\ pc[p] = "record"
    BY <1>11 DEF Record, history
  <2>2. SameTold(x) /\ After(x, row'[x], blob[Custom(x)], given[x])
    BY <2>1 DEF SameTold, After
  <2>3. IF ~Webhook(x) /\ row[x].status = "none" THEN pc'[p] = "done" ELSE Quits(p)
    BY <1>11, <1>F, <1>E, <1>G DEF Record
  <2>4. IF ~Webhook(x) /\ row[x].status = "none"
        THEN on'[p] = x /\ pc'[p] = "done" ELSE Quits(p)
    BY <1>P, <2>3 DEF Quits
  <2>5. row[x].status # "none" => row'[x] = row[x]
    BY <1>11, <1>G DEF Record
  <2>6. ASSUME row[x].status = "none"
        PROVE  row'[x].status = IF Way(x) = "ipn" /\ Kind(x) = "gift" THEN "instagift" ELSE "processed"
    <3>1. row' = [row EXCEPT ![x] = [status |-> IF Way(x) = "ipn" /\ Kind(x) = "gift"
                                              THEN "instagift" ELSE "processed",
                                  account |-> Buyer]]
      BY <1>11, <2>6, <1>G DEF Record
    <3> QED
      BY <3>1, <1>P, <1>G
  <2>7. Records(p, x)
    BY <1>L, <2>1, <2>2, <2>4, <2>5, <2>6 DEF Records
  <2> QED
    BY <2>7 DEF Effect
<1>12. CASE BlobProcessed(p)
  <2>1. UNCHANGED <<row, given, told, loose>> /\ blob' = [blob EXCEPT ![Custom(x)] = "processed"]
        /\ pc[p] = "done" /\ Ends(p)
    BY <1>12 DEF BlobProcessed, history
  <2>2. Processed(p, x)
    BY <1>P, <1>E, <1>G, <1>K, <1>L, <2>1 DEF Processed, After, SameTold
  <2> QED
    BY <2>2 DEF Effect
<1>13. CASE TakeBack(p)
  <2>1. UNCHANGED <<row, blob, told, loose>> /\ Goes(p, "take", "reversed")
    BY <1>13, <1>F DEF TakeBack, Goes
  <2>2. given' = [given EXCEPT ![x] = @ - Taken(x)]
    BY <1>13 DEF TakeBack
  <2>3. After(x, row[x], blob[Custom(x)], given[x] - Taken(x)) /\ SameTold(x)
    BY <1>P, <1>G, <2>1, <2>2 DEF After, SameTold
  <2>4. on'[p] = x
    BY <1>P, <2>1 DEF Quits, Goes
  <2> QED
    BY <1>L, <2>1, <2>3, <2>4 DEF TakesBack, Effect
<1>14. CASE MarkReversed(p)
  <2>1. UNCHANGED <<blob, given, told, loose>> /\ pc[p] = "reversed" /\ Ends(p)
        /\ row' = [row EXCEPT ![x].status = "reversed"]
    BY <1>14 DEF MarkReversed, history
  <2>2. row'[x] = [row[x] EXCEPT !.status = "reversed"]
    BY <1>P, <1>G, <2>1
  <2>3. row'[x].status = "reversed" /\ row'[x].account = row[x].account
    BY <1>G, <2>2 DEF Row
  <2>4. After(x, row'[x], blob[Custom(x)], given[x]) /\ SameTold(x)
    BY <2>1 DEF After, SameTold
  <2> QED
    BY <1>E, <1>L, <2>1, <2>3, <2>4 DEF Reverses, Effect
<1> QED
  BY <1>1, <1>2, <1>3, <1>4, <1>5, <1>6, <1>7, <1>8, <1>9, <1>10, <1>11, <1>12, <1>13, <1>14
     DEF Step

-----------------------------------------------------------------------------
(* The guards of the purchase that a step is about.                         *)

\* Where p may be with purchase x.
Placed(p, x) ==
    /\ on[p] = x /\ x # Nil /\ pc[p] \in Work
    /\ Kind(x) \in Kinds /\ Way(x) \in Ways
    /\ Way(x) \in {"subscr", "invoice"} => Kind(x) = "onetime"
    /\ Way(x) = "spend" => Kind(x) \in {"gift", "code"}
    /\ given[x] \in Int /\ Worth(x) \in Int /\ Taken(x) \in Int
    /\ Kind(x) = "code" => Taken(x) = 0
    /\ ByBlob(x) => Custom(x) = x
    /\ x \in told => Kind(x) = "code"
    /\ pc[p] = "lock" => Webhook(x) /\ Kind(x) # "code"
    /\ pc[p] \in {"unlock", "take", "reversed"} => Webhook(x)
    /\ pc[p] \in {"blob", "status", "mark", "load", "done"} => ~Webhook(x)
    /\ pc[p] \in {"fund", "settle"} => Way(x) = "spend"
    /\ pc[p] = "renew" => Way(x) = "subscr"
    /\ pc[p] \in {"code", "tell", "claim"} => Kind(x) = "code"
    /\ pc[p] = "apply" => Kind(x) = "code" \/ Way(x) = "subscr"
    /\ pc[p] = "give" => Kind(x) # "code"
    /\ pc[p] = "record" => Kind(x) # "code" /\ Way(x) # "spend"
    /\ pc[p] = "mark" => ~Other(p, x, {"mark"})
    /\ pc[p] = "give" /\ Way(x) = "subscr" =>
           /\ row[x].status = "none" /\ given[x] = 0
           /\ ~Other(p, x, {"record"}) /\ ~Other(p, x, {"renew"}) /\ ~Other(p, x, {"apply"})

\* A process in a request is there.
LEMMA PlacedAtWork ==
    ASSUME Typed, Routes, CodesTold, Exclusive, FirstOnly, NEW p \in Procs, pc[p] # "idle"
    PROVE  Placed(p, on[p])
<1>1. on[p] \in Purchases
  BY DEF Routes
<1>2. /\ Kind(on[p]) \in Kinds /\ Way(on[p]) \in Ways
      /\ Way(on[p]) \in {"subscr", "invoice"} => Kind(on[p]) = "onetime"
      /\ Way(on[p]) = "spend" => Kind(on[p]) \in {"gift", "code"}
      /\ Worth(on[p]) \in Int /\ Taken(on[p]) \in Int
      /\ Kind(on[p]) = "code" => Taken(on[p]) = 0
      /\ ByBlob(on[p]) => Custom(on[p]) = on[p]
  BY <1>1, DealKinds, Amounts, Customs DEF ByBlob
<1>3. given[on[p]] \in Int /\ pc[p] \in Work /\ on[p] # Nil
  BY <1>1 DEF Typed
<1>4. on[p] \in told => Kind(on[p]) = "code"
  BY DEF CodesTold
<1>5. ASSUME pc[p] = "mark", Other(p, on[p], {"mark"})
      PROVE  FALSE
  <2>1. PICK q \in Procs \ {p} : on[q] = on[p] /\ pc[q] = "mark"
    BY <1>5 DEF Other
  <2>2. held[p] = {Custom(on[p])} /\ held[q] = {Custom(on[p])}
    BY <1>5, <2>1 DEF Exclusive, Holds
  <2> QED
    BY <2>1, <2>2 DEF Exclusive
<1>6. ASSUME pc[p] = "give", Way(on[p]) = "subscr"
      PROVE  /\ row[on[p]].status = "none" /\ given[on[p]] = 0
             /\ ~Other(p, on[p], {"record"}) /\ ~Other(p, on[p], {"renew"})
             /\ ~Other(p, on[p], {"apply"})
  <2>1. NoneGiven
    BY <1>1, <1>6 DEF FirstOnly, Joining, Joins
  <2> QED
    BY <1>1, <1>6, <2>1 DEF NoneGiven, Joining, Joins, Other
<1>7. /\ pc[p] = "lock" => Webhook(on[p]) /\ Kind(on[p]) # "code"
      /\ pc[p] \in {"unlock", "take", "reversed"} => Webhook(on[p])
      /\ pc[p] \in {"blob", "status", "mark", "load", "done"} => ~Webhook(on[p])
      /\ pc[p] \in {"fund", "settle"} => Way(on[p]) = "spend"
      /\ pc[p] = "renew" => Way(on[p]) = "subscr"
      /\ pc[p] \in {"code", "tell", "claim"} => Kind(on[p]) = "code"
      /\ pc[p] = "apply" => Kind(on[p]) = "code" \/ Way(on[p]) = "subscr"
      /\ pc[p] = "give" => Kind(on[p]) # "code"
      /\ pc[p] = "record" => Kind(on[p]) # "code" /\ Way(on[p]) # "spend"
  BY DEF Routes
<1> QED
  BY <1>1, <1>2, <1>3, <1>4, <1>5, <1>6, <1>7 DEF Placed

\* The others at work on x at some of the places are at work at all of them.
LEMMA OthersMore ==
    ASSUME NEW p, NEW x, NEW few, NEW many, few \subseteq many, Other(p, x, few)
    PROVE  Other(p, x, many)
  BY DEF Other

LEMMA OthersElsewhere ==
    ASSUME NEW p, NEW x
    PROVE  /\ Other(p, x, {"give"}) => Other(p, x, Delivering)
           /\ Other(p, x, {"load", "fund", "give"}) => Other(p, x, Delivering)
           /\ Other(p, x, {"record", "settle", "done"}) => Other(p, x, Delivering)
           /\ Other(p, x, {"record"}) => Other(p, x, Delivering)
           /\ Other(p, x, {"tell"}) => Other(p, x, Making)
           /\ Other(p, x, {"apply"}) => Other(p, x, {"apply", "unlock", "take", "reversed"})
           /\ Other(p, x, {"lock", "give"}) => Other(p, x, Work)
           /\ Other(p, x, {"record"}) => Other(p, x, Work)
           /\ Other(p, x, {"unlock", "take"}) => Other(p, x, Work)
           /\ Other(p, x, {"reversed"}) => Other(p, x, Work)
  BY OthersMore DEF Making, Delivering, Work

\* What the guards of x before and after a step of p have in common.
Around(p, x) ==
    /\ \A places :
        /\ SomeAt(x, places) <=> (on[p] = x /\ pc[p] \in places) \/ Other(p, x, places)
        /\ SomeAt(x, places)' <=> (on'[p] = x /\ pc'[p] \in places) \/ Other(p, x, places)
        /\ OneAt(x, places) <=>
              /\ Apart(p, x, places)
              /\ on[p] = x /\ pc[p] \in places => ~Other(p, x, places)
        /\ OneAt(x, places)' <=>
              /\ Apart(p, x, places)
              /\ on'[p] = x /\ pc'[p] \in places => ~Other(p, x, places)
    /\ Way(x)' = Way(x) /\ Kind(x)' = Kind(x)
    /\ ByBlob(x)' <=> ByBlob(x)
    /\ Webhook(x)' <=> Webhook(x)
    /\ Worth(x)' = Worth(x) /\ Taken(x)' = Taken(x)
    /\ Webhook(x) => ~ByBlob(x) /\ Way(x) \notin {"ipn", "spend", "subscr"}
    /\ Way(x) \in Ways => (Webhook(x) \/ ByBlob(x) \/ Way(x) = "subscr")
    /\ ByBlob(x) <=> Way(x) \in {"ipn", "spend"}
    /\ Other(p, x, {"give"}) => Other(p, x, Delivering)
    /\ Other(p, x, {"load", "fund", "give"}) => Other(p, x, Delivering)
    /\ Other(p, x, {"record", "settle", "done"}) => Other(p, x, Delivering)
    /\ Other(p, x, {"record"}) => Other(p, x, Delivering)
    /\ Other(p, x, {"tell"}) => Other(p, x, Making)
    /\ Other(p, x, {"apply"}) => Other(p, x, {"apply", "unlock", "take", "reversed"})
    /\ Other(p, x, {"lock", "give"}) => Other(p, x, Work)
    /\ Other(p, x, {"record"}) => Other(p, x, Work)
    /\ Other(p, x, {"unlock", "take"}) => Other(p, x, Work)
    /\ Other(p, x, {"reversed"}) => Other(p, x, Work)
    /\ BlobGuards(x) /\ CodeGuards(x) /\ DirectGuards(x) /\ SubscrGuards(x) /\ HookGuards(x)

LEMMA AroundStep ==
    ASSUME NEW p \in Procs, NEW x, Only(p), deal' = deal, Guards(x)
    PROVE  Around(p, x)
<1>1. /\ Way(x)' = Way(x) /\ Kind(x)' = Kind(x)
      /\ ByBlob(x)' <=> ByBlob(x)
      /\ Webhook(x)' <=> Webhook(x)
      /\ Worth(x)' = Worth(x) /\ Taken(x)' = Taken(x)
      /\ Webhook(x) => ~ByBlob(x) /\ Way(x) \notin {"ipn", "spend", "subscr"}
      /\ Way(x) \in Ways => (Webhook(x) \/ ByBlob(x) \/ Way(x) = "subscr")
      /\ ByBlob(x) <=> Way(x) \in {"ipn", "spend"}
  BY SameDeals DEF ByBlob, Webhook, Ways
<1> QED
  BY <1>1, OthersStay, OthersElsewhere DEF Around, Guards

\* The blob's guard holds after a step.
LEMMA BlobStep ==
    ASSUME NEW p, NEW x, Around(p, x), Placed(p, x), Effect(p, x)
    PROVE  BlobGuards(x)'
<1> DEFINE Goal == BlobGuards(x)'
<1> SUFFICES Goal
  OBVIOUS
<1> USE DEF Around, Placed, After, SameTold, SameLoose, Quits, Goes,
            BlobGuards, CodeGuards, DirectGuards, Passed, Making, Delivering
<1> HIDE DEF Goal
<1>1. CASE Moves(p, x)
  BY <1>1 DEF Goal, Moves
<1>2. CASE EndsWell(p, x)
  BY <1>2 DEF Goal, EndsWell
<1>3. CASE EndsBadly(p, x)
  BY <1>3 DEF Goal, EndsBadly
<1>4. CASE Marks(p, x)
  BY <1>4 DEF Goal, Marks
<1>5. CASE Gives(p, x)
  BY <1>5 DEF Goal, Gives
<1>6. CASE Inserts(p, x)
  BY <1>6 DEF Goal, Inserts
<1>7. CASE Tells(p, x)
  BY <1>7 DEF Goal, Tells
<1>8. CASE Records(p, x)
  BY <1>8 DEF Goal, Records
<1>9. CASE RecordsRenewal(p, x)
  BY <1>9 DEF Goal, RecordsRenewal
<1>10. CASE Claims(p, x)
  BY <1>10 DEF Goal, Claims
<1>11. CASE Processed(p, x)
  BY <1>11 DEF Goal, Processed
<1>12. CASE TakesBack(p, x)
  BY <1>12 DEF Goal, TakesBack
<1>13. CASE Reverses(p, x)
  BY <1>13 DEF Goal, Reverses
<1> QED
  BY <1>1, <1>2, <1>3, <1>4, <1>5, <1>6, <1>7, <1>8, <1>9, <1>10, <1>11, <1>12, <1>13 DEF Effect

\* A code's guard holds after a step.
LEMMA CodeStep ==
    ASSUME NEW p, NEW x, Around(p, x), Placed(p, x), Effect(p, x)
    PROVE  CodeGuards(x)'
<1> DEFINE Goal == CodeGuards(x)'
<1> SUFFICES Goal
  OBVIOUS
<1> USE DEF Around, Placed, After, SameTold, SameLoose, Quits, Goes,
            CodeGuards, BlobGuards, Passed, Making, Delivering, Kinds
<1> HIDE DEF Goal
<1>1. CASE Moves(p, x)
  BY <1>1 DEF Goal, Moves
<1>2. CASE EndsWell(p, x)
  BY <1>2 DEF Goal, EndsWell
<1>3. CASE EndsBadly(p, x)
  BY <1>3 DEF Goal, EndsBadly
<1>4. CASE Marks(p, x)
  BY <1>4 DEF Goal, Marks
<1>5. CASE Gives(p, x)
  BY <1>5 DEF Goal, Gives
<1>6. CASE Inserts(p, x)
  BY <1>6 DEF Goal, Inserts
<1>7. CASE Tells(p, x)
  BY <1>7 DEF Goal, Tells
<1>8. CASE Records(p, x)
  BY <1>8 DEF Goal, Records
<1>9. CASE RecordsRenewal(p, x)
  BY <1>9 DEF Goal, RecordsRenewal
<1>10. CASE Claims(p, x)
  BY <1>10 DEF Goal, Claims
<1>11. CASE Processed(p, x)
  BY <1>11 DEF Goal, Processed
<1>12. CASE TakesBack(p, x)
  BY <1>12 DEF Goal, TakesBack
<1>13. CASE Reverses(p, x)
  BY <1>13 DEF Goal, Reverses
<1> QED
  BY <1>1, <1>2, <1>3, <1>4, <1>5, <1>6, <1>7, <1>8, <1>9, <1>10, <1>11, <1>12, <1>13 DEF Effect

\* So does that of what is paid for and delivered at once, ...
LEMMA DirectStep ==
    ASSUME NEW p, NEW x, Around(p, x), Placed(p, x), Effect(p, x)
    PROVE  DirectGuards(x)'
<1> DEFINE Goal == DirectGuards(x)'
<1> SUFFICES Goal
  OBVIOUS
<1> USE DEF Around, Placed, After, SameTold, SameLoose, Quits, Goes,
            DirectGuards, BlobGuards, Passed, Making, Delivering
<1> HIDE DEF Goal
<1>1. CASE Moves(p, x)
  BY <1>1 DEF Goal, Moves
<1>2. CASE EndsWell(p, x)
  BY <1>2 DEF Goal, EndsWell
<1>3. CASE EndsBadly(p, x)
  BY <1>3 DEF Goal, EndsBadly
<1>4. CASE Marks(p, x)
  BY <1>4 DEF Goal, Marks
<1>5. CASE Gives(p, x)
  BY <1>5 DEF Goal, Gives
<1>6. CASE Inserts(p, x)
  BY <1>6 DEF Goal, Inserts
<1>7. CASE Tells(p, x)
  BY <1>7 DEF Goal, Tells
<1>8. CASE Records(p, x)
  BY <1>8 DEF Goal, Records
<1>9. CASE RecordsRenewal(p, x)
  BY <1>9 DEF Goal, RecordsRenewal
<1>10. CASE Claims(p, x)
  BY <1>10 DEF Goal, Claims
<1>11. CASE Processed(p, x)
  BY <1>11 DEF Goal, Processed
<1>12. CASE TakesBack(p, x)
  BY <1>12 DEF Goal, TakesBack
<1>13. CASE Reverses(p, x)
  BY <1>13 DEF Goal, Reverses
<1> QED
  BY <1>1, <1>2, <1>3, <1>4, <1>5, <1>6, <1>7, <1>8, <1>9, <1>10, <1>11, <1>12, <1>13 DEF Effect

\* ... that of the subscription's payments ...
LEMMA SubscrStep ==
    ASSUME NEW p, NEW x, Around(p, x), Placed(p, x), Effect(p, x)
    PROVE  SubscrGuards(x)'
<1> DEFINE Goal == SubscrGuards(x)'
<1> SUFFICES Goal
  OBVIOUS
<1> USE DEF Around, Placed, After, SameTold, SameLoose, Quits, Goes,
            SubscrGuards
<1> HIDE DEF Goal
<1>1. CASE Moves(p, x)
  BY <1>1 DEF Goal, Moves
<1>2. CASE EndsWell(p, x)
  BY <1>2 DEF Goal, EndsWell
<1>3. CASE EndsBadly(p, x)
  BY <1>3 DEF Goal, EndsBadly
<1>4. CASE Marks(p, x)
  BY <1>4 DEF Goal, Marks
<1>5. CASE Gives(p, x)
  BY <1>5 DEF Goal, Gives
<1>6. CASE Inserts(p, x)
  BY <1>6 DEF Goal, Inserts
<1>7. CASE Tells(p, x)
  BY <1>7 DEF Goal, Tells
<1>8. CASE Records(p, x)
  BY <1>8 DEF Goal, Records
<1>9. CASE RecordsRenewal(p, x)
  BY <1>9 DEF Goal, RecordsRenewal
<1>10. CASE Claims(p, x)
  BY <1>10 DEF Goal, Claims
<1>11. CASE Processed(p, x)
  BY <1>11 DEF Goal, Processed
<1>12. CASE TakesBack(p, x)
  BY <1>12 DEF Goal, TakesBack
<1>13. CASE Reverses(p, x)
  BY <1>13 DEF Goal, Reverses
<1> QED
  BY <1>1, <1>2, <1>3, <1>4, <1>5, <1>6, <1>7, <1>8, <1>9, <1>10, <1>11, <1>12, <1>13 DEF Effect

\* ... and that of webhooks.
LEMMA HookStep ==
    ASSUME NEW p, NEW x, Around(p, x), Placed(p, x), Effect(p, x)
    PROVE  HookGuards(x)'
<1> DEFINE Goal == HookGuards(x)'
<1> SUFFICES Goal
  OBVIOUS
<1> USE DEF Around, Placed, After, SameTold, SameLoose, Quits, Goes,
            HookGuards, Work
<1> HIDE DEF Goal
<1>1. CASE Moves(p, x)
  BY <1>1 DEF Goal, Moves
<1>2. CASE EndsWell(p, x)
  BY <1>2 DEF Goal, EndsWell
<1>3. CASE EndsBadly(p, x)
  BY <1>3 DEF Goal, EndsBadly
<1>4. CASE Marks(p, x)
  BY <1>4 DEF Goal, Marks
<1>5. CASE Gives(p, x)
  BY <1>5 DEF Goal, Gives
<1>6. CASE Inserts(p, x)
  BY <1>6 DEF Goal, Inserts
<1>7. CASE Tells(p, x)
  BY <1>7 DEF Goal, Tells
<1>8. CASE Records(p, x)
  BY <1>8 DEF Goal, Records
<1>9. CASE RecordsRenewal(p, x)
  BY <1>9 DEF Goal, RecordsRenewal
<1>10. CASE Claims(p, x)
  BY <1>10 DEF Goal, Claims
<1>11. CASE Processed(p, x)
  BY <1>11 DEF Goal, Processed
<1>12. CASE TakesBack(p, x)
  BY <1>12 DEF Goal, TakesBack
<1>13. CASE Reverses(p, x)
  BY <1>13 DEF Goal, Reverses
<1> QED
  BY <1>1, <1>2, <1>3, <1>4, <1>5, <1>6, <1>7, <1>8, <1>9, <1>10, <1>11, <1>12, <1>13 DEF Effect

\* The guards let a request begin.
LEMMA BeginGuarded ==
    ASSUME Typed, CodesTold, RowsFit, NEW p \in Procs, NEW x \in Purchases, NEW a \in Accounts,
           NEW l \in {"code", "lock", "unlock", "blob", "renew", "claim"},
           Begin(p, x, a, l), Fit(x, l), Guards(x)
    PROVE  Guards(x)'
<1>1. /\ Only(p) /\ pc[p] = "idle" /\ pc'[p] = l /\ on'[p] = x
      /\ UNCHANGED <<deal, stored, given>>
  <2>1. l \in Work
    BY DEF Work
  <2> QED
    BY <2>1, BeginOwn
<1>2. Around(p, x)
  BY <1>1, AroundStep
<1>3. on[p] # x
  BY <1>1 DEF Typed
<1>4. /\ row'[x] = row[x] /\ blob'[x] = blob[x] /\ given'[x] = given[x] /\ SameTold(x)
      /\ x \in loose => x \in loose'
      /\ x \in told => Kind(x) = "code"
  BY <1>1 DEF SameTold, stored, Fit, CodesTold
<1>5. /\ Kind(x) \in Kinds /\ Way(x) \in Ways
      /\ row[x].status = "none" => row[x] = NoRow
      /\ row[x] = NoRow => row[x].status = "none" /\ row[x].account = Nil
  BY DealKinds, Constants DEF RowsFit
<1>6. l \in {"lock", "unlock"} /\ Other(p, x, Work) => x \in loose'
  <2>1. Other(p, x, Work) => AtWorkOn(x) # {}
    BY DEF Other, AtWorkOn, Work
  <2> QED
    BY <2>1 DEF Fit
<1>7. l = "claim" => Kind(x) = "code"
  BY DEF Fit, CodesTold
<1> USE DEF Around, SameTold, Passed, Making, Delivering, Fit
<1>8. BlobGuards(x)'
  BY <1>1, <1>2, <1>3, <1>4, <1>5, <1>7 DEF BlobGuards
<1>9. CodeGuards(x)'
  BY <1>1, <1>2, <1>3, <1>4, <1>5, <1>7 DEF CodeGuards
<1>10. DirectGuards(x)'
  BY <1>1, <1>2, <1>3, <1>4, <1>5, <1>7 DEF DirectGuards
<1>11. SubscrGuards(x)'
  BY <1>1, <1>2, <1>3, <1>4, <1>5, <1>7 DEF SubscrGuards
<1>12. HookGuards(x)'
  BY <1>1, <1>2, <1>3, <1>4, <1>5, <1>6, <1>7 DEF HookGuards, Work
<1> QED
  BY <1>8, <1>9, <1>10, <1>11, <1>12 DEF Guards

-----------------------------------------------------------------------------
(* Types.                                                                   *)

\* What a step writes belongs to its purchase and its account.
LEMMA Writes ==
    ASSUME Typed, Routes, NEW p \in Procs, Step(p) \/ Die(p)
    PROVE  /\ row' = row \/ \E r \in Row : row' = [row EXCEPT ![on[p]] = r]
           /\ \/ blob' = blob
              \/ \E b \in {"locked", "processed"} : blob' = [blob EXCEPT ![Custom(on[p])] = b]
           /\ subscr' = subscr \/ (pc[p] = "give" /\ Way(on[p]) = "subscr" /\ subscr' = TRUE)
           /\ given' = given \/ \E g \in Int : given' = [given EXCEPT ![on[p]] = g]
           /\ told' = told \/ (told' = told \cup {on[p]} /\ Kind(on[p]) = "code")
           /\ loose' = loose \/ loose' = loose \cup {on[p]}
           /\ mixed' = mixed \/ mixed' = mixed \cup {who[p]}
           /\ days' = days \/ \E n \in Int : days' = [days EXCEPT ![who[p]] = n]
           /\ total' = total \/ \E n \in Int : total' = [total EXCEPT ![who[p]] = n]
           /\ purse' \in Purse /\ credits' \in Int /\ spoilt' \in BOOLEAN
<1>P. pc[p] # "idle" /\ on[p] \in Purchases /\ who[p] \in Accounts
  BY StepOwn
<1>W. /\ Days(on[p]) \in Int /\ Worth(on[p]) \in Int /\ Taken(on[p]) \in Int
      /\ Months(on[p]) \in Int
  BY <1>P, Amounts
<1>T. /\ row \in [Purchases -> Row] /\ given \in [Purchases -> Int] /\ days \in [Accounts -> Int]
      /\ total \in [Accounts -> Int] /\ purse \in Purse /\ credits \in Int /\ spoilt \in BOOLEAN
      /\ seen[p] \in Int /\ mine[p] \in Purse /\ purse.creds \in Int /\ purse.escrow \in Int
      /\ mine[p].creds \in Int /\ mine[p].escrow \in Int
  BY Constants DEF Typed
<1>R. \A r \in Row : r.account \in Accounts \cup {Nil}
  BY Constants
<1>A. \A s \in Statuses, a \in Accounts \cup {Nil} : [status |-> s, account |-> a] \in Row
  BY DEF Row
<1>B. \A m, n \in Int : [creds |-> m, escrow |-> n] \in Purse
  BY DEF Purse
<1>M. Mix(p) => mixed' = mixed \/ mixed' = mixed \cup {who[p]}
  BY DEF Mix
<1>S. \A c \in BOOLEAN : spoilt' = (spoilt \/ c) => spoilt' \in BOOLEAN
  BY <1>T
<1>1. CASE LockToGive(p) \/ LockToTake(p) \/ LockBlob(p) \/ BlobRefused(p) \/ BlobFound(p)
           \/ Load(p) \/ TimesOut(p) \/ CodeExists(p) \/ RenewalExists(p) \/ AlreadyClaimed(p)
           \/ NotEnough(p)
  <2>1. UNCHANGED <<row, blob, subscr, given, told, loose, mixed, days, total, purse, credits, spoilt>>
    BY <1>1 DEF LockToGive, LockToTake, GoldLock, LockBlob, BlobRefused, BlobFound, Load, TimesOut,
       CodeExists, RenewalExists, AlreadyClaimed, NotEnough, stored, history
  <2> QED
    BY <2>1, <1>T
<1>2. CASE TellFails(p) \/ ReversalUntold(p) \/ Die(p)
  <2>1. UNCHANGED <<row, blob, subscr, given, told, mixed, days, total, purse, credits, spoilt>>
    BY <1>2 DEF TellFails, ReversalUntold, Die, stored
  <2>2. loose' = loose \/ loose' = loose \cup {on[p]}
    BY <1>2 DEF TellFails, ReversalUntold, Die
  <2> QED
    BY <2>1, <2>2, <1>T
<1>3. CASE MarkBlob(p) \/ BlobProcessed(p)
  <2>1. UNCHANGED <<row, subscr, given, told, loose, mixed, days, total, purse, credits, spoilt>>
    BY <1>3 DEF MarkBlob, BlobProcessed, history
  <2>2. \E b \in {"locked", "processed"} : blob' = [blob EXCEPT ![Custom(on[p])] = b]
    BY <1>3 DEF MarkBlob, BlobProcessed
  <2> QED
    BY <2>1, <2>2, <1>T
<1>4. CASE InsertCode(p) \/ Record(p) \/ RecordRenewal(p) \/ Claim(p) \/ MarkReversed(p)
  <2>1. UNCHANGED <<blob, subscr, given, told, loose, mixed, days, total, purse, credits, spoilt>>
    BY <1>4 DEF InsertCode, Record, RecordRenewal, Claim, MarkReversed, history
  <2>2. row' = row \/ \E s \in Statuses, a \in Accounts \cup {Nil} :
                         row' = [row EXCEPT ![on[p]] = [status |-> s, account |-> a]]
    <3>1. CASE InsertCode(p)
      BY <3>1 DEF InsertCode, Statuses
    <3>2. CASE Record(p)
      <4>1. row' = row \/ row' = [row EXCEPT ![on[p]] =
                 [status  |-> IF Way(on[p]) = "ipn" /\ Kind(on[p]) = "gift"
                              THEN "instagift" ELSE "processed",
                  account |-> Buyer]]
        BY <3>2 DEF Record
      <4> QED
        BY <4>1 DEF Statuses
    <3>3. CASE RecordRenewal(p)
      BY <3>3 DEF RecordRenewal, Statuses
    <3>4. CASE Claim(p)
      BY <3>4, <1>P DEF Claim, Statuses
    <3>5. CASE MarkReversed(p)
      <4>1. row' = [row EXCEPT ![on[p]] = [row[on[p]] EXCEPT !.status = "reversed"]]
        BY <3>5 DEF MarkReversed
      <4>2. row[on[p]] \in Row
        BY <1>P, <1>T
      <4>3. [row[on[p]] EXCEPT !.status = "reversed"]
                = [status |-> "reversed", account |-> row[on[p]].account]
        BY <4>2 DEF Row
      <4> QED
        BY <4>1, <4>2, <4>3, <1>R DEF Statuses
    <3> QED
      BY <1>4, <3>1, <3>2, <3>3, <3>4, <3>5
  <2>3. row' = row \/ \E r \in Row : row' = [row EXCEPT ![on[p]] = r]
    BY <2>2, <1>A
  <2> QED
    BY <2>1, <2>3, <1>T
<1>5. CASE Tell(p)
  <2>1. UNCHANGED <<row, blob, subscr, given, loose, mixed, days, total, purse, credits, spoilt>>
        /\ told' = told \cup {on[p]} /\ Kind(on[p]) = "code"
    BY <1>5 DEF Tell, history, Routes
  <2> QED
    BY <2>1, <1>T
<1>6. CASE GiveGold(p) \/ Apply(p)
  <2>1. UNCHANGED <<row, blob, told, loose, purse, credits, spoilt>>
    BY <1>6 DEF GiveGold, Apply
  <2>2. /\ given' = [given EXCEPT ![on[p]] = given[on[p]] + Days(on[p])] /\ Mix(p)
        /\ days' = [days EXCEPT ![who[p]] = Plus(seen[p], Days(on[p]))]
        /\ total' = [total EXCEPT ![who[p]] = Plus(total[who[p]], Days(on[p]))]
    BY <1>6 DEF GiveGold, Apply, Engolden
  <2>3. /\ given[on[p]] + Days(on[p]) \in Int /\ Plus(seen[p], Days(on[p])) \in Int
        /\ Plus(total[who[p]], Days(on[p])) \in Int
    BY <1>P, <1>T, <1>W DEF Plus
  <2>4. subscr' = subscr \/ (pc[p] = "give" /\ Way(on[p]) = "subscr" /\ subscr' = TRUE)
    <3>1. CASE Apply(p)
      BY <3>1 DEF Apply
    <3>2. CASE GiveGold(p) /\ Way(on[p]) = "subscr"
      BY <3>2 DEF GiveGold
    <3>3. CASE GiveGold(p) /\ Way(on[p]) # "subscr"
      <4>1. subscr' = (subscr \/ Way(on[p]) = "subscr") /\ subscr \in BOOLEAN
        BY <3>3 DEF GiveGold, Typed
      <4> QED
        BY <3>3, <4>1
    <3> QED
      BY <1>6, <3>1, <3>2, <3>3
  <2> QED
    BY <2>1, <2>2, <2>3, <2>4, <1>M, <1>T
<1>7. CASE GiveCreddits(p)
  <2>1. UNCHANGED <<row, blob, subscr, told, days, total, loose, mixed>>
    BY <1>7 DEF GiveCreddits
  <2>2. /\ given' = [given EXCEPT ![on[p]] = given[on[p]] + Months(on[p])]
        /\ AddCreddits(p, Months(on[p]))
    BY <1>7 DEF GiveCreddits
  <2>3. given[on[p]] + Months(on[p]) \in Int
    BY <1>P, <1>T, <1>W
  <2>4. purse' \in Purse /\ credits' \in Int
    BY <2>2, <1>T, <1>W DEF AddCreddits, Purse
  <2>5. spoilt' \in BOOLEAN
    BY <2>2, <1>T DEF AddCreddits, Spoil
  <2> QED
    BY <2>1, <2>2, <2>3, <2>4, <2>5
<1>8. CASE Fund(p)
  <2>1. UNCHANGED <<row, blob, subscr, told, days, given, total, credits, loose, mixed>>
    BY <1>8 DEF Fund
  <2>2. /\ purse' = mine'[p]
        /\ mine' = [mine EXCEPT ![p] = [creds  |-> mine[p].creds - Months(on[p]),
                                       escrow |-> mine[p].escrow + Months(on[p])]]
    BY <1>8 DEF Fund
  <2>3. purse' = [creds  |-> mine[p].creds - Months(on[p]),
                  escrow |-> mine[p].escrow + Months(on[p])]
    BY <2>2 DEF Typed
  <2>4. purse' \in Purse
    BY <2>3, <1>T, <1>W, <1>B
  <2>5. spoilt' \in BOOLEAN
    BY <1>8, <1>T DEF Fund, Spoil
  <2> QED
    BY <2>1, <2>4, <2>5, <1>T
<1>9. CASE Settle(p)
  <2>1. UNCHANGED <<row, blob, subscr, told, days, given, total, loose, mixed>>
    BY <1>9 DEF Settle
  <2>2. purse' \in Purse /\ credits' \in Int
    BY <1>9, <1>T, <1>W DEF Settle, Purse
  <2>3. spoilt' \in BOOLEAN
    BY <1>9, <1>T DEF Settle, Spoil
  <2> QED
    BY <2>1, <2>2, <2>3
<1>10. CASE TakeBack(p)
  <2>1. UNCHANGED <<row, blob, subscr, told, loose>>
    BY <1>10 DEF TakeBack
  <2>2. Kind(on[p]) \in Kinds
    BY <1>P, DealKinds
  <2>3. /\ given[on[p]] - Taken(on[p]) \in Int /\ seen[p] - Taken(on[p]) \in Int
        /\ total[who[p]] - Taken(on[p]) \in Int
        /\ given' = [given EXCEPT ![on[p]] = given[on[p]] - Taken(on[p])]
    BY <1>10, <1>P, <1>T, <1>W DEF TakeBack
  <2>4. CASE Kind(on[p]) \in {"onetime", "gift"}
    <3>1. /\ days' = [days EXCEPT ![who[p]] = seen[p] - Taken(on[p])]
          /\ total' = [total EXCEPT ![who[p]] = total[who[p]] - Taken(on[p])]
          /\ Mix(p) /\ UNCHANGED <<purse, credits, spoilt>>
      BY <1>10, <2>4 DEF TakeBack
    <3> QED
      BY <2>1, <2>3, <3>1, <1>M, <1>T
  <2>5. CASE Kind(on[p]) = "creddits"
    <3>1. AddCreddits(p, -Taken(on[p])) /\ UNCHANGED <<days, total, mixed>>
      BY <1>10, <2>5 DEF TakeBack
    <3>2. purse' \in Purse /\ credits' \in Int
      BY <3>1, <1>T, <1>W DEF AddCreddits, Purse
    <3>3. spoilt' \in BOOLEAN
      BY <3>1, <1>T DEF AddCreddits, Spoil
    <3> QED
      BY <2>1, <2>3, <3>1, <3>2, <3>3
  <2>6. CASE Kind(on[p]) = "code"
    <3>1. UNCHANGED <<days, total, mixed, purse, credits, spoilt>>
      BY <1>10, <2>6 DEF TakeBack
    <3> QED
      BY <2>1, <2>3, <3>1, <1>T
  <2> QED
    BY <2>2, <2>4, <2>5, <2>6 DEF Kinds
<1> QED
  BY <1>1, <1>2, <1>3, <1>4, <1>5, <1>6, <1>7, <1>8, <1>9, <1>10 DEF Step

-----------------------------------------------------------------------------
(* Locks.                                                                   *)

\* What a process holds is what its place calls for, before a step and after.
LEMMA HoldsStep ==
    ASSUME Typed, Routes, Exclusive, NEW p \in Procs, Step(p) \/ Die(p)
    PROVE  \/ held' = held /\ busy' = busy /\ Holds(p)' = Holds(p)
           \/ \E k \in Names : Lock!Obtain(p, k) /\ Holds(p)' = Holds(p) \cup {k}
           \/ \E k \in Names : Lock!LetGo(p, k) /\ Holds(p)' = Holds(p) \ {k}
           \/ Lock!Abandon(p) /\ Holds(p)' = {}
<1> DEFINE Goal ==
           \/ held' = held /\ busy' = busy /\ Holds(p)' = Holds(p)
           \/ \E k \in Names : Lock!Obtain(p, k) /\ Holds(p)' = Holds(p) \cup {k}
           \/ \E k \in Names : Lock!LetGo(p, k) /\ Holds(p)' = Holds(p) \ {k}
           \/ Lock!Abandon(p) /\ Holds(p)' = {}
<1> SUFFICES Goal
  OBVIOUS
<1> DEFINE x == on[p]
<1>P. /\ pc[p] # "idle" /\ x \in Purchases /\ who[p] \in Accounts /\ deal' = deal
      /\ \/ pc'[p] = "idle"
         \/ on'[p] = x /\ who'[p] = who[p] /\ Path(p)
  BY StepOwn
<1>N. Custom(x) \in Names /\ who[p] \in Names
  BY <1>P, Customs DEF Names
<1>B. Holds(p) = IF pc[p] \in {"status", "mark"} THEN {Custom(x)}
                 ELSE IF pc[p] = "take" \/ (pc[p] \in {"give", "record"} /\ Webhook(x))
                      THEN {who[p]} ELSE {}
  BY DEF Holds
<1>I. pc'[p] = "idle" => Holds(p)' = {}
  BY DEF Holds
<1>A. on'[p] = x /\ who'[p] = who[p] =>
          Holds(p)' = IF pc'[p] \in {"status", "mark"} THEN {Custom(x)}
                      ELSE IF pc'[p] = "take" \/ (pc'[p] \in {"give", "record"} /\ Webhook(x))
                           THEN {who[p]} ELSE {}
  BY <1>P DEF Holds, Webhook, Way, Custom
<1>R. /\ pc[p] = "lock" => Webhook(x)
      /\ pc[p] \in {"load", "status"} => ~Webhook(x)
      /\ pc[p] = "fund" => ~Webhook(x)
      /\ pc[p] = "renew" => ~Webhook(x)
      /\ Way(x) \in {"spend", "ipn", "subscr"} => ~Webhook(x)
  BY <1>P DEF Routes, Webhook
<1>F. \A l : Goto(p, l) => pc'[p] = l
  BY DEF Goto, Typed
<1>E. Ends(p) => pc'[p] = "idle"
  BY <1>F DEF Ends
<1> HIDE DEF Goal, x
<1>1. CASE LockToGive(p) \/ LockToTake(p)
  <2>1. /\ Lock!Obtain(p, who[p])
        /\ Goes(p, "lock", "give") \/ Goes(p, "unlock", "take")
    BY <1>1, <1>F DEF LockToGive, LockToTake, GoldLock, Goes
  <2>2. on'[p] = x /\ who'[p] = who[p]
    BY <1>P, <2>1 DEF Goes
  <2>3. Holds(p) = {} /\ Holds(p)' = {who[p]}
    BY <1>B, <1>A, <1>R, <2>1, <2>2 DEF Goes
  <2> QED
    BY <1>N, <2>1, <2>3 DEF Goal
<1>2. CASE LockBlob(p)
  <2>1. Lock!Obtain(p, Custom(x)) /\ Goes(p, "blob", "status")
    BY <1>2, <1>F DEF LockBlob, Goes, x
  <2>2. on'[p] = x /\ who'[p] = who[p]
    BY <1>P, <2>1 DEF Goes
  <2>3. Holds(p) = {} /\ Holds(p)' = {Custom(x)}
    BY <1>B, <1>A, <1>R, <2>1, <2>2 DEF Goes
  <2> QED
    BY <1>N, <2>1, <2>3 DEF Goal
<1>3. CASE BlobRefused(p) \/ MarkBlob(p)
  <2>1. /\ Lock!LetGo(p, Custom(x)) /\ pc[p] \in {"status", "mark"}
        /\ pc'[p] = "idle" \/ Goes(p, "mark", "load")
    BY <1>3, <1>F, <1>E DEF BlobRefused, MarkBlob, Goes, x
  <2>2. Holds(p) = {Custom(x)} /\ Holds(p)' = {}
    BY <1>P, <1>I, <1>B, <1>A, <2>1 DEF Goes
  <2> QED
    BY <1>N, <2>1, <2>2 DEF Goal
<1>4. CASE BlobFound(p) \/ Load(p)
  <2>1. held' = held /\ busy' = busy
    BY <1>4 DEF BlobFound, Load, locks
  <2>2. Goes(p, "status", "mark") \/ Goes(p, "load", "fund") \/ Goes(p, "load", "code")
        \/ Goes(p, "load", "give")
    BY <1>4, <1>F DEF BlobFound, Load, Goes
  <2>3. on'[p] = x /\ who'[p] = who[p]
    BY <1>P, <2>2 DEF Goes
  <2>4. Holds(p)' = Holds(p)
    BY <1>B, <1>A, <1>R, <2>2, <2>3 DEF Goes
  <2> QED
    BY <2>1, <2>4 DEF Goal
<1>5. CASE TimesOut(p) \/ CodeExists(p) \/ TellFails(p) \/ RenewalExists(p) \/ AlreadyClaimed(p)
           \/ NotEnough(p) \/ BlobProcessed(p) \/ MarkReversed(p) \/ ReversalUntold(p) \/ Apply(p)
  <2>1. held' = held /\ busy' = busy /\ Ends(p)
    BY <1>5 DEF TimesOut, CodeExists, TellFails, RenewalExists, AlreadyClaimed, NotEnough,
       BlobProcessed, MarkReversed, ReversalUntold, Apply, locks
  <2>2. pc[p] \in {"blob", "lock", "unlock", "code", "tell", "renew", "claim", "apply", "fund",
                   "done", "reversed"}
    BY <1>5 DEF TimesOut, CodeExists, TellFails, RenewalExists, AlreadyClaimed, NotEnough,
       BlobProcessed, MarkReversed, ReversalUntold, Apply
  <2>3. Holds(p) = {} /\ Holds(p)' = {}
    BY <1>B, <1>E, <1>I, <2>1, <2>2
  <2> QED
    BY <2>1, <2>3 DEF Goal
<1>6. CASE GiveGold(p) \/ GiveCreddits(p)
  <2>1. held' = held /\ busy' = busy /\ pc[p] = "give"
    BY <1>6 DEF GiveGold, GiveCreddits, locks
  <2>2. \/ Goes(p, "give", "settle") /\ Way(x) = "spend"
        \/ Goes(p, "give", "record")
    BY <1>6, <1>F, <1>E, <2>1 DEF GiveGold, GiveCreddits, Goes, x
  <2>3. Holds(p)' = Holds(p)
    BY <1>P, <1>B, <1>A, <1>I, <1>R, <2>1, <2>2 DEF Goes
  <2> QED
    BY <2>1, <2>3 DEF Goal
<1>7. CASE InsertCode(p) \/ Tell(p) \/ RecordRenewal(p) \/ Claim(p) \/ Fund(p) \/ Settle(p)
  <2>1. held' = held /\ busy' = busy
    BY <1>7 DEF InsertCode, Tell, RecordRenewal, Claim, Fund, Settle, locks
  <2>2. pc[p] \in {"code", "tell", "renew", "claim", "fund", "settle"}
    BY <1>7 DEF InsertCode, Tell, RecordRenewal, Claim, Fund, Settle
  <2>3. Holds(p) = {} /\ Holds(p)' = {}
    BY <1>P, <1>B, <1>A, <1>I, <1>R, <2>2 DEF Goes, Path
  <2> QED
    BY <2>1, <2>3 DEF Goal
<1>8. CASE Record(p)
  <2>1. pc[p] = "record"
    BY <1>8 DEF Record
  <2>2. CASE ~Webhook(x)
    <3>1. held' = held /\ busy' = busy /\ (pc'[p] = "done" \/ pc'[p] = "idle")
      BY <1>8, <1>F, <1>E, <2>2 DEF Record, locks, x
    <3>2. Holds(p) = {} /\ Holds(p)' = {}
      BY <1>P, <1>B, <1>A, <1>I, <2>1, <2>2, <3>1
    <3> QED
      BY <3>1, <3>2 DEF Goal
  <2>3. CASE Webhook(x)
    <3>1. Lock!LetGo(p, who[p]) /\ pc'[p] = "idle"
      BY <1>8, <1>E, <2>3 DEF Record, x
    <3>2. Holds(p) = {who[p]} /\ Holds(p)' = {}
      BY <1>B, <1>I, <2>1, <2>3, <3>1
    <3> QED
      BY <1>N, <3>1, <3>2 DEF Goal
  <2> QED
    BY <2>2, <2>3
<1>9. CASE TakeBack(p)
  <2>1. Lock!LetGo(p, who[p]) /\ Goes(p, "take", "reversed")
    BY <1>9, <1>F DEF TakeBack, Goes
  <2>2. Holds(p) = {who[p]} /\ Holds(p)' = {}
    BY <1>P, <1>B, <1>A, <2>1 DEF Goes
  <2> QED
    BY <1>N, <2>1, <2>2 DEF Goal
<1>10. CASE Die(p)
  <2>1. Lock!Abandon(p) /\ Ends(p)
    BY <1>10 DEF Die
  <2> QED
    BY <1>E, <1>I, <2>1 DEF Goal
<1> QED
  BY <1>1, <1>2, <1>3, <1>4, <1>5, <1>6, <1>7, <1>8, <1>9, <1>10 DEF Step

\* No two hold one lock.
LEMMA ExclusivePreserved ==
    ASSUME Typed, Routes, Exclusive, NEW p \in Procs, Step(p) \/ Die(p)
    PROVE  Exclusive' /\ held' \in [Procs -> SUBSET Names] /\ busy' \subseteq Names
<1>1. Only(p) /\ deal' = deal
  BY StepOwn
<1>2. \A q \in Procs \ {p} : Holds(q)' = Holds(q)
  BY <1>1 DEF Only, Holds, Webhook, Way, Custom
<1>3. held \in [Procs -> SUBSET Names] /\ busy \subseteq Names
  BY DEF Typed
<1>4. /\ \A q \in Procs : held[q] = Holds(q) /\ held[q] \subseteq busy
      /\ \A q, r \in Procs : held[q] \cap held[r] # {} => q = r
  BY DEF Exclusive
<1> DEFINE Fine == /\ held' \in [Procs -> SUBSET Names] /\ busy' \subseteq Names
                   /\ \A q \in Procs : held'[q] = Holds(q)' /\ held'[q] \subseteq busy'
                   /\ \A q, r \in Procs : held'[q] \cap held'[r] # {} => q = r
<1> SUFFICES Fine
  BY DEF Exclusive
<1>5. CASE held' = held /\ busy' = busy /\ Holds(p)' = Holds(p)
  <2>1. \A q \in Procs : held'[q] = Holds(q)'
    BY <1>2, <1>4, <1>5
  <2> QED
    BY <1>3, <1>4, <1>5, <2>1
<1>6. ASSUME NEW k \in Names, Lock!Obtain(p, k), Holds(p)' = Holds(p) \cup {k}
      PROVE  Fine
  <2>1. k \notin busy /\ busy' = busy \cup {k} /\ held' = [held EXCEPT ![p] = held[p] \cup {k}]
    BY <1>6 DEF Lock!Obtain
  <2>2. held'[p] = held[p] \cup {k} /\ \A q \in Procs \ {p} : held'[q] = held[q]
    BY <1>3, <2>1
  <2>3. \A q \in Procs : held'[q] = Holds(q)'
    BY <1>2, <1>4, <1>6, <2>2
  <2>4. held' \in [Procs -> SUBSET Names] /\ busy' \subseteq Names
    BY <1>3, <2>1
  <2>5. \A q \in Procs : held'[q] \subseteq busy'
    BY <1>4, <2>1, <2>2
  <2>6. \A q, r \in Procs : held'[q] \cap held'[r] # {} => q = r
    BY <1>4, <2>1, <2>2
  <2> QED
    BY <2>3, <2>4, <2>5, <2>6
<1>7. ASSUME NEW k \in Names, Lock!LetGo(p, k), Holds(p)' = Holds(p) \ {k}
      PROVE  Fine
  <2>1. k \in held[p] /\ busy' = busy \ {k} /\ held' = [held EXCEPT ![p] = held[p] \ {k}]
    BY <1>7 DEF Lock!LetGo
  <2>2. held'[p] = held[p] \ {k} /\ \A q \in Procs \ {p} : held'[q] = held[q]
    BY <1>3, <2>1
  <2>3. \A q \in Procs : held'[q] = Holds(q)'
    BY <1>2, <1>4, <1>7, <2>2
  <2>4. held' \in [Procs -> SUBSET Names] /\ busy' \subseteq Names
    BY <1>3, <2>1
  <2>5. \A q \in Procs \ {p} : k \notin held[q]
    BY <1>4, <2>1
  <2>6. \A q \in Procs : held'[q] \subseteq busy'
    BY <1>4, <2>1, <2>2, <2>5
  <2>7. \A q, r \in Procs : held'[q] \cap held'[r] # {} => q = r
    BY <1>4, <2>2
  <2> QED
    BY <2>3, <2>4, <2>6, <2>7
<1>8. CASE Lock!Abandon(p) /\ Holds(p)' = {}
  <2>1. held' = [held EXCEPT ![p] = {}] /\ busy' = busy
    BY <1>8 DEF Lock!Abandon
  <2>2. held'[p] = {} /\ \A q \in Procs \ {p} : held'[q] = held[q]
    BY <1>3, <2>1
  <2>3. \A q \in Procs : held'[q] = Holds(q)'
    BY <1>2, <1>4, <1>8, <2>2
  <2>4. held' \in [Procs -> SUBSET Names]
    BY <1>3, <2>1
  <2> QED
    BY <1>3, <1>4, <2>1, <2>2, <2>3, <2>4
<1> HIDE DEF Fine
<1> QED
  BY <1>5, <1>6, <1>7, <1>8, HoldsStep

-----------------------------------------------------------------------------
(* Types, rows and guards after a step.                                     *)

\* What concerns one purchase each.
Base == Typed /\ Routes /\ CodesTold /\ Exclusive /\ RowsFit /\ Guarded /\ FirstOnly

\* What a request or a step of p leaves alone.
LEMMA Elsewhere ==
    ASSUME Typed, Routes, NEW p \in Procs, Step(p) \/ Die(p), NEW y \in Purchases, y # on[p]
    PROVE  /\ row'[y] = row[y] /\ blob'[y] = blob[y] /\ given'[y] = given[y]
           /\ Way(on[p]) # "subscr" => blob'[Subscription] = blob[Subscription]
           /\ y \in told' <=> y \in told
           /\ y \in loose' <=> y \in loose
           /\ on'[p] # y
<1>1. /\ row' = row \/ \E r \in Row : row' = [row EXCEPT ![on[p]] = r]
      /\ \/ blob' = blob
         \/ \E b \in {"locked", "processed"} : blob' = [blob EXCEPT ![Custom(on[p])] = b]
      /\ given' = given \/ \E g \in Int : given' = [given EXCEPT ![on[p]] = g]
      /\ told' = told \/ told' = told \cup {on[p]}
      /\ loose' = loose \/ loose' = loose \cup {on[p]}
  BY Writes
<1>2. on'[p] = Nil \/ on'[p] = on[p]
  BY StepOwn
<1>3. row'[y] = row[y]
  BY <1>1 DEF Typed
<1>4. blob'[y] = blob[y] /\ (Way(on[p]) # "subscr" => blob'[Subscription] = blob[Subscription])
  <2>1. y \in Blobs /\ Subscription \in Blobs /\ y # Subscription
    BY DEF Blobs
  <2>2. Custom(on[p]) \in {on[p], Subscription}
        /\ (Way(on[p]) # "subscr" => Custom(on[p]) = on[p]) /\ on[p] \in Purchases
    BY StepOwn DEF Custom
  <2> QED
    BY <1>1, <2>1, <2>2 DEF Typed
<1>5. given'[y] = given[y]
  BY <1>1 DEF Typed
<1> QED
  BY <1>1, <1>2, <1>3, <1>4, <1>5

LEMMA TypedPreserved ==
    ASSUME Base, NEW p \in Procs, Request(p) \/ Step(p) \/ Die(p)
    PROVE  Typed'
<1> USE DEF Base
<1>1. CASE Request(p)
  <2>1. PICK x \in Purchases, a \in Accounts,
             l \in {"code", "lock", "unlock", "blob", "renew", "claim"} :
             Begin(p, x, a, l) /\ Fit(x, l)
    BY <1>1, RequestBegins DEF Request
  <2>2. l \in Work
    BY DEF Work
  <2>3. OwnTyped' /\ UNCHANGED <<deal, stored, locks, given, total, credits, mixed, spoilt>>
    BY <2>1, <2>2, BeginOwn
  <2>4. loose' \subseteq Purchases
    BY <2>1 DEF Fit, Typed
  <2> QED
    BY <2>3, <2>4 DEF Typed, OwnTyped, stored, locks
<1>2. CASE Step(p) \/ Die(p)
  <2>1. OwnTyped' /\ deal' = deal /\ on[p] \in Purchases /\ who[p] \in Accounts
    BY <1>2, StepOwn
  <2>2. held' \in [Procs -> SUBSET Names] /\ busy' \subseteq Names
    BY <1>2, ExclusivePreserved
  <2>3. /\ row' = row \/ \E r \in Row : row' = [row EXCEPT ![on[p]] = r]
        /\ \/ blob' = blob
           \/ \E b \in {"locked", "processed"} : blob' = [blob EXCEPT ![Custom(on[p])] = b]
        /\ subscr' = subscr \/ subscr' = TRUE
        /\ given' = given \/ \E g \in Int : given' = [given EXCEPT ![on[p]] = g]
        /\ told' = told \/ told' = told \cup {on[p]}
        /\ loose' = loose \/ loose' = loose \cup {on[p]}
        /\ mixed' = mixed \/ mixed' = mixed \cup {who[p]}
        /\ days' = days \/ \E n \in Int : days' = [days EXCEPT ![who[p]] = n]
        /\ total' = total \/ \E n \in Int : total' = [total EXCEPT ![who[p]] = n]
        /\ purse' \in Purse /\ credits' \in Int /\ spoilt' \in BOOLEAN
    BY <1>2, Writes
  <2>4. row' \in [Purchases -> Row]
    BY <2>3 DEF Typed
  <2>5. blob' \in [Blobs -> {"initialized", "locked", "processed"}]
    BY <2>3 DEF Typed
  <2>S. subscr' \in BOOLEAN
    BY <2>3 DEF Typed
  <2>6. given' \in [Purchases -> Int]
    BY <2>3 DEF Typed
  <2>7. days' \in [Accounts -> Int]
    BY <2>3 DEF Typed
  <2>8. total' \in [Accounts -> Int]
    BY <2>3 DEF Typed
  <2>9. told' \subseteq Purchases /\ loose' \subseteq Purchases /\ mixed' \subseteq Accounts
    BY <2>1, <2>3 DEF Typed
  <2> QED
    BY <2>1, <2>2, <2>3, <2>4, <2>5, <2>S, <2>6, <2>7, <2>8, <2>9 DEF Typed, OwnTyped
<1> QED
  BY <1>1, <1>2

\* A row with the status none is no row.
LEMMA RowsPreserved ==
    ASSUME Base, NEW p \in Procs, Request(p) \/ Step(p) \/ Die(p)
    PROVE  CodesTold' /\ RowsFit'
<1> USE DEF Base
<1>1. CASE Request(p)
  <2>1. PICK x \in Purchases, a \in Accounts,
             l \in {"code", "lock", "unlock", "blob", "renew", "claim"} :
             Begin(p, x, a, l) /\ Fit(x, l)
    BY <1>1, RequestBegins DEF Request
  <2>2. UNCHANGED <<deal, stored>>
    BY <2>1 DEF Begin
  <2> QED
    BY <2>2 DEF stored, CodesTold, RowsFit, Kind
<1>2. CASE Step(p) \/ Die(p)
  <2>1. deal' = deal /\ pc[p] # "idle" /\ on[p] \in Purchases
    BY <1>2, StepOwn
  <2>2. told' = told \/ (told' = told \cup {on[p]} /\ Kind(on[p]) = "code")
    BY <1>2, Writes
  <2>3. CodesTold'
    BY <2>1, <2>2 DEF CodesTold, Kind
  <2>4. Effect(p, on[p])
    BY <1>2, Effects
  <2>5. row'[on[p]].status = "none" => row'[on[p]] = row[on[p]]
    BY <2>4 DEF Effect, After, Moves, EndsWell, EndsBadly, Marks, Gives, Inserts, Tells, Records,
       RecordsRenewal, Claims, Processed, TakesBack, Reverses
  <2>6. \A y \in Purchases : y # on[p] => row'[y] = row[y]
    BY <1>2, Elsewhere
  <2>7. RowsFit'
    BY <2>1, <2>5, <2>6 DEF RowsFit
  <2> QED
    BY <2>3, <2>7
<1> QED
  BY <1>1, <1>2

\* Every purchase stays guarded.
LEMMA GuardedPreserved ==
    ASSUME Base, NEW p \in Procs, Request(p) \/ Step(p) \/ Die(p)
    PROVE  Guarded'
<1> USE DEF Base
<1> SUFFICES ASSUME NEW y \in Purchases
             PROVE  Guards(y)'
  BY DEF Guarded
<1>G. Guards(y)
  BY DEF Guarded
<1>1. CASE Request(p)
  <2>1. PICK x \in Purchases, a \in Accounts,
             l \in {"code", "lock", "unlock", "blob", "renew", "claim"} :
             Begin(p, x, a, l) /\ Fit(x, l)
    BY <1>1, RequestBegins DEF Request
  <2>2. CASE y = x
    BY <1>G, <2>1, <2>2, BeginGuarded
  <2>3. CASE y # x
    <3>1. l \in Work
      BY DEF Work
    <3>2. /\ Only(p) /\ deal' = deal /\ UNCHANGED <<stored, given>>
          /\ pc[p] = "idle" /\ on'[p] = x
      BY <2>1, <3>1, BeginOwn
    <3>3. on[p] # y
      BY <3>2 DEF Typed
    <3>4. y \in loose' <=> y \in loose
      BY <2>1, <2>3 DEF Fit
    <3>5. row' = row /\ blob' = blob /\ given' = given /\ told' = told
      BY <3>2 DEF stored
    <3> QED
      BY <1>G, <2>3, <3>2, <3>3, <3>4, <3>5, GuardsElsewhere
  <2> QED
    BY <2>2, <2>3
<1>2. CASE Step(p) \/ Die(p)
  <2>1. Only(p) /\ deal' = deal /\ pc[p] # "idle"
    BY <1>2, StepOwn
  <2>2. CASE y = on[p]
    <3>1. Placed(p, y)
      BY <2>1, <2>2, PlacedAtWork
    <3>2. Around(p, y)
      BY <1>G, <2>1, AroundStep
    <3>3. Effect(p, y)
      BY <1>2, <2>2, Effects
    <3> QED
      BY <3>1, <3>2, <3>3, BlobStep, CodeStep, DirectStep, SubscrStep, HookStep DEF Guards
  <2>3. CASE y # on[p]
    <3>1. /\ row'[y] = row[y] /\ blob'[y] = blob[y] /\ given'[y] = given[y]
          /\ y \in told' <=> y \in told
          /\ y \in loose' <=> y \in loose
          /\ on'[p] # y
      BY <1>2, <2>3, Elsewhere
    <3> QED
      BY <1>G, <2>1, <2>3, <3>1, GuardsElsewhere
  <2> QED
    BY <2>2, <2>3
<1> QED
  BY <1>1, <1>2

\* The subscription's blob lets one first payment through.
LEMMA FirstPreserved ==
    ASSUME Base, NEW p \in Procs, Request(p) \/ Step(p) \/ Die(p)
    PROVE  FirstOnly'
<1> USE DEF Base
<1>T. Typed'
  BY TypedPreserved
<1>O. ASSUME Only(p), deal' = deal
      PROVE  \A q \in Procs \ {p} : \A places : Joins(q, places)' <=> Joins(q, places)
  BY <1>O DEF Only, Joins, Way
<1>1. CASE Request(p)
  <2>1. PICK x \in Purchases, a \in Accounts,
             l \in {"code", "lock", "unlock", "blob", "renew", "claim"} :
             Begin(p, x, a, l) /\ Fit(x, l)
    BY <1>1, RequestBegins DEF Request
  <2>2. l \in Work
    BY DEF Work
  <2>3. /\ Only(p) /\ deal' = deal /\ UNCHANGED <<row, blob, subscr, given>>
        /\ pc[p] = "idle" /\ pc'[p] = l
    BY <2>1, <2>2, BeginOwn DEF stored
  <2>4. ~Joins(p, {"load", "give"})' /\ ~Joins(p, {"mark"})'
        /\ ~Joins(p, {"load", "give"}) /\ ~Joins(p, {"mark"})
    BY <2>3 DEF Joins
  <2>5. /\ Joining({"load", "give"})' <=> Joining({"load", "give"})
        /\ Joining({"mark"})' <=> Joining({"mark"})
    BY <1>O, <2>3, <2>4 DEF Joining
  <2>6. ASSUME NoneGiven
        PROVE  NoneGiven'
    <3>1. l # "renew"
      BY <2>1, <2>6 DEF Fit, NoneGiven
    <3>2. ~Joins(p, {"record", "renew", "apply", "done"})'
      BY <2>3, <3>1 DEF Joins
    <3>3. ~Joining({"record", "renew", "apply", "done"})'
      BY <1>O, <2>3, <2>6, <3>2 DEF NoneGiven, Joining
    <3> QED
      BY <2>3, <2>6, <3>3 DEF NoneGiven, Way
  <2> QED
    BY <1>O, <2>3, <2>4, <2>5, <2>6 DEF FirstOnly
<1>2. CASE Step(p) \/ Die(p)
  <2> DEFINE x == on[p]
  <2>1. /\ Only(p) /\ deal' = deal /\ pc[p] # "idle" /\ x \in Purchases
        /\ on'[p] = Nil \/ on'[p] = x
    BY <1>2, StepOwn
  <2>2. Effect(p, x)
    BY <1>2, Effects
  <2>3. /\ subscr' = subscr \/ (pc[p] = "give" /\ Way(x) = "subscr" /\ subscr' = TRUE)
    BY <1>2, Writes
  <2>4. \A y \in Purchases : y # x => row'[y] = row[y] /\ given'[y] = given[y]
    BY <1>2, Elsewhere
  <2>N. Nil \notin Purchases
    OBVIOUS
  <2>W. \A y : Way(y)' = Way(y)
    BY <2>1, SameDeals
  <2>5. \A places : /\ Joining(places) <=> Joins(p, places) \/ \E q \in Procs \ {p} : Joins(q, places)
                    /\ Joining(places)' <=> Joins(p, places)' \/ \E q \in Procs \ {p} : Joins(q, places)
    BY <1>O, <2>1 DEF Joining
  <2> HIDE DEF x
  <2>6. CASE Way(x) # "subscr"
    <3>1. \A places : ~Joins(p, places) /\ ~Joins(p, places)'
      BY <2>1, <2>N, <2>W, <2>6 DEF Joins, x
    <3>2. blob'[Subscription] = blob[Subscription] /\ subscr' = subscr
      <4>1. /\ blob' = blob \/ \E b \in {"locked", "processed"} :
                                   blob' = [blob EXCEPT ![Custom(x)] = b]
        BY <1>2, Writes DEF x
      <4>2. Custom(x) # Subscription
        BY <2>1, <2>6, Customs
      <4>3. Subscription \in Blobs
        BY DEF Blobs
      <4> QED
        BY <2>3, <2>6, <4>1, <4>2, <4>3 DEF Typed
    <3>3. \A places : Joining(places)' <=> Joining(places)
      BY <2>5, <3>1
    <3>4. NoneGiven' <=> NoneGiven
      BY <2>4, <2>6, <2>W, <3>2, <3>3 DEF NoneGiven
    <3> QED
      BY <1>O, <2>1, <3>1, <3>2, <3>3, <3>4 DEF FirstOnly
  <2>7. CASE Way(x) = "subscr"
    <3>1. \A places : Joins(p, places) <=> pc[p] \in places
      BY <2>1, <2>7 DEF Joins, x
    <3>2. \A places : Joins(p, places)' <=> on'[p] = x /\ pc'[p] \in places
      BY <2>1, <2>7, <2>N, <2>W DEF Joins
    <3>C. Custom(x) = Subscription /\ ~ByBlob(x) /\ ~Webhook(x) /\ Kind(x) = "onetime"
      BY <2>1, <2>7, Customs, DealKinds DEF ByBlob, Webhook
    <3>P. Placed(p, x)
      BY <2>1, PlacedAtWork DEF x
    <3>3. CASE ~NoneGiven
      <4>1. /\ blob[Subscription] # "initialized"
            /\ ~Joining({"load", "give"}) /\ ~Joining({"mark"})
        BY <3>3 DEF FirstOnly
      <4>2. pc[p] \notin {"load", "give", "mark"}
        BY <2>5, <3>1, <4>1
      <4>3. /\ blob'[Subscription] # "initialized"
            /\ ~Joins(p, {"load", "give"})' /\ ~Joins(p, {"mark"})'
        BY <2>2, <3>2, <3>C, <3>P, <4>1, <4>2
           DEF Effect, Moves, EndsWell, EndsBadly, Marks, Gives, Inserts, Tells, Records,
               RecordsRenewal, Claims, Processed, TakesBack, Reverses, After, Quits, Goes, Placed
      <4> QED
        BY <1>O, <2>1, <2>5, <4>1, <4>3 DEF FirstOnly
    <3>4. CASE NoneGiven
      <4>1. /\ ~subscr /\ row[x].status = "none" /\ given[x] = 0
            /\ ~Joining({"record", "renew", "apply", "done"})
        BY <2>1, <2>7, <3>4 DEF NoneGiven
      <4>2. pc[p] \notin {"record", "renew", "apply", "done"}
        BY <2>5, <3>1, <4>1
      <4>3. CASE pc[p] = "give" /\ pc'[p] = "record"
        <5>1. Joins(p, {"load", "give"})
          BY <3>1, <4>3
        <5>2. blob[Subscription] = "locked" /\ ~Joining({"mark"})
          BY <5>1 DEF FirstOnly, Joining
        <5>3. \A q \in Procs \ {p} : ~Joins(q, {"load", "give"})
          BY <5>1 DEF FirstOnly
        <5>4. blob'[Subscription] = "locked"
          BY <2>2, <3>C, <4>3, <5>2
             DEF Effect, Moves, EndsWell, EndsBadly, Marks, Gives, Inserts, Tells, Records,
                 RecordsRenewal, Claims, Processed, TakesBack, Reverses, After, Quits, Goes
        <5>5. ~Joins(p, {"load", "give"})' /\ ~Joins(p, {"mark"})'
          BY <3>2, <4>3
        <5> QED
          BY <1>O, <2>1, <2>5, <5>2, <5>3, <5>4, <5>5 DEF FirstOnly
      <4>4. CASE ~(pc[p] = "give" /\ pc'[p] = "record")
        <5>1. /\ row'[x] = row[x] /\ given'[x] = given[x]
              /\ ~Joins(p, {"record", "renew", "apply", "done"})'
              /\ \/ /\ blob'[Subscription] = blob[Subscription]
                    /\ Joins(p, {"mark"})' => blob[Subscription] = "initialized"
                    /\ Joins(p, {"load", "give"})' => Joins(p, {"load", "give"})
                 \/ /\ pc[p] = "mark" /\ blob'[Subscription] = "locked"
                    /\ ~Joins(p, {"mark"})'
          BY <2>2, <2>7, <3>1, <3>2, <3>C, <3>P, <4>2, <4>4
             DEF Effect, Moves, EndsWell, EndsBadly, Marks, Gives, Inserts, Tells, Records,
                 RecordsRenewal, Claims, Processed, TakesBack, Reverses, After, Quits, Goes, Placed
        <5>2. subscr' = subscr
          <6>1. CASE GiveGold(p)
            BY <2>7, <4>4, <6>1 DEF GiveGold, Goto, Typed, x
          <6>2. CASE ~GiveGold(p)
            BY <1>2, <6>2 DEF Step, LockToGive, LockToTake, GoldLock, LockBlob, BlobRefused,
               BlobFound, MarkBlob, Load, TimesOut, Apply, GiveCreddits, InsertCode, CodeExists,
               Tell, TellFails, Record, RecordRenewal, RenewalExists, Claim, AlreadyClaimed, Fund,
               NotEnough, Settle, BlobProcessed, TakeBack, MarkReversed, ReversalUntold, Die, stored
          <6> QED
            BY <6>1, <6>2
        <5>3. ~Joining({"record", "renew", "apply", "done"})'
          BY <2>5, <4>1, <5>1
        <5>4. NoneGiven'
          BY <2>4, <2>W, <3>4, <5>1, <5>2, <5>3 DEF NoneGiven
        <5>5. CASE /\ blob'[Subscription] = blob[Subscription]
                   /\ Joins(p, {"mark"})' => blob[Subscription] = "initialized"
                   /\ Joins(p, {"load", "give"})' => Joins(p, {"load", "give"})
          BY <1>O, <2>1, <2>5, <5>4, <5>5 DEF FirstOnly
        <5>6. CASE pc[p] = "mark" /\ blob'[Subscription] = "locked" /\ ~Joins(p, {"mark"})'
          <6>1. blob[Subscription] = "initialized" /\ ~Joining({"load", "give"})
            BY <2>5, <3>1, <5>6 DEF FirstOnly
          <6>2. ASSUME NEW q \in Procs \ {p}, Joins(q, {"mark"})
                PROVE  FALSE
            <7>1. held[q] = {Subscription} /\ held[p] = {Subscription}
              BY <3>C, <5>6, <6>2, Customs DEF Joins, Exclusive, Holds, x
            <7> QED
              BY <7>1 DEF Exclusive
          <6> QED
            BY <1>O, <2>1, <2>5, <5>4, <5>6, <6>1, <6>2 DEF FirstOnly
        <5> QED
          BY <5>1, <5>5, <5>6
      <4> QED
        BY <4>3, <4>4
    <3> QED
      BY <3>3, <3>4
  <2> QED
    BY <2>6, <2>7
<1> QED
  BY <1>1, <1>2

-----------------------------------------------------------------------------
(* The purchases' invariant.                                                *)

LEMMA BaseInit == Init => Base
<1> SUFFICES ASSUME Init
             PROVE  Base
  OBVIOUS
<1>1. /\ deal \in [Purchases -> Deals]
      /\ row = [x \in Purchases |-> NoRow]
      /\ subscr \in BOOLEAN
      /\ blob = [b \in Blobs |-> IF b = Subscription /\ subscr
                                 THEN "processed" ELSE "initialized"]
      /\ told = {} /\ days = [a \in Accounts |-> 0]
      /\ \E n \in StartCreds : purse = [creds |-> n, escrow |-> 0] /\ credits = n
      /\ pc = [p \in Procs |-> "idle"] /\ on = [p \in Procs |-> Nil]
      /\ who = [p \in Procs |-> Nil] /\ seen = [p \in Procs |-> 0]
      /\ mine = [p \in Procs |-> NoPurse]
      /\ held = [p \in Procs |-> {}] /\ busy = {}
      /\ given = [x \in Purchases |-> 0] /\ total = [a \in Accounts |-> 0]
      /\ loose = {} /\ mixed = {} /\ spoilt = FALSE
  BY DEF Init, Lock!LockInit
<1>2. Typed
  <2>1. purse \in Purse /\ credits \in Int
    <3>1. PICK n \in StartCreds : purse = [creds |-> n, escrow |-> 0] /\ credits = n
      BY <1>1
    <3>2. n \in Int
      BY <3>1
    <3> QED
      BY <3>1, <3>2 DEF Purse
  <2>2. /\ row \in [Purchases -> Row]
        /\ mine \in [Procs -> Purse]
    BY <1>1, Constants
  <2>3. /\ blob \in [Blobs -> {"initialized", "locked", "processed"}]
        /\ days \in [Accounts -> Int] /\ total \in [Accounts -> Int]
        /\ given \in [Purchases -> Int] /\ seen \in [Procs -> Int]
    BY <1>1
  <2>4. /\ pc \in [Procs -> Work \cup {"idle"}]
        /\ on \in [Procs -> Purchases \cup {Nil}]
        /\ who \in [Procs -> Accounts \cup {Nil}]
        /\ held \in [Procs -> SUBSET Names]
    BY <1>1
  <2>5. \A p \in Procs : pc[p] = "idle" => on[p] = Nil
    BY <1>1
  <2> QED
    BY <1>1, <2>1, <2>2, <2>3, <2>4, <2>5 DEF Typed
<1>3. Routes /\ CodesTold /\ RowsFit
  BY <1>1 DEF Routes, CodesTold, RowsFit
<1>4. Exclusive
  BY <1>1 DEF Exclusive, Holds
<1>5. ASSUME NEW x \in Purchases
      PROVE  Guards(x)
  <2>1. /\ row[x].status = "none" /\ row[x].account = Nil /\ blob[x] = "initialized"
        /\ given[x] = 0 /\ x \notin told
    BY <1>1, Constants DEF Blobs
  <2>2. ~SomeAt(x, Work) /\ OneAt(x, Work)
    BY <1>1 DEF SomeAt, OneAt, Work
  <2>3. /\ ~SomeAt(x, {"mark"}) /\ ~SomeAt(x, Making) /\ ~SomeAt(x, Delivering)
        /\ ~SomeAt(x, {"apply"}) /\ ~SomeAt(x, {"apply", "unlock", "take", "reversed"})
        /\ ~SomeAt(x, {"tell", "claim", "settle", "done"})
        /\ ~SomeAt(x, {"load", "fund", "give"}) /\ ~SomeAt(x, {"record", "settle", "done"})
        /\ ~SomeAt(x, {"lock", "give"}) /\ ~SomeAt(x, {"record"})
        /\ ~SomeAt(x, {"unlock", "take"}) /\ ~SomeAt(x, {"reversed"})
    BY <1>1 DEF SomeAt, Making, Delivering
  <2>4. OneAt(x, Making) /\ OneAt(x, Delivering) /\ OneAt(x, {"apply"}) /\ OneAt(x, {"record"})
    BY <1>1 DEF OneAt, Making, Delivering
  <2> QED
    BY <2>1, <2>2, <2>3, <2>4 DEF Guards, BlobGuards, Passed, CodeGuards, DirectGuards,
       SubscrGuards, HookGuards
<1>6. FirstOnly
  <2>1. \A places : "idle" \notin places => ~Joining(places)
    BY <1>1 DEF Joining, Joins
  <2>2. subscr => blob[Subscription] # "initialized"
    BY <1>1 DEF Blobs
  <2>3. ASSUME NEW x \in Purchases
        PROVE  row[x].status = "none" /\ given[x] = 0
    BY <1>1, Constants
  <2>4. ~Joining({"load", "give"}) /\ ~Joining({"mark"})
        /\ ~Joining({"record", "renew", "apply", "done"})
    BY <2>1
  <2>5. \A q \in Procs : ~Joins(q, {"load", "give"})
    BY <2>4 DEF Joining
  <2> QED
    BY <2>2, <2>3, <2>4, <2>5 DEF FirstOnly, NoneGiven
<1> QED
  BY <1>2, <1>3, <1>4, <1>5, <1>6 DEF Base, Guarded

LEMMA BaseNext == Base /\ [Next]_vars => Base'
<1> SUFFICES ASSUME Base, [Next]_vars
             PROVE  Base'
  OBVIOUS
<1>1. ASSUME NEW p \in Procs, Request(p) \/ Step(p) \/ Die(p)
      PROVE  Base'
  <2>1. Typed' /\ CodesTold' /\ RowsFit' /\ Guarded' /\ FirstOnly'
    BY <1>1, TypedPreserved, RowsPreserved, GuardedPreserved, FirstPreserved
  <2>2. Routes'
    BY <1>1, RoutesPreserved DEF Base
  <2>3. Exclusive'
    <3>1. CASE Request(p)
      <4>1. PICK x \in Purchases, a \in Accounts,
                 l \in {"code", "lock", "unlock", "blob", "renew", "claim"} : Begin(p, x, a, l)
        BY <3>1, RequestBegins DEF Request, Base
      <4>2. l \in Work
        BY DEF Work
      <4>3. /\ Only(p) /\ deal' = deal /\ held' = held /\ busy' = busy
            /\ pc[p] = "idle" /\ pc'[p] = l
        BY <4>1, <4>2, BeginOwn DEF Base, locks
      <4>4. \A q \in Procs \ {p} : Holds(q)' = Holds(q)
        BY <4>3 DEF Only, Holds, Webhook, Way, Custom
      <4>5. Holds(p)' = {} /\ Holds(p) = {}
        BY <4>3 DEF Holds
      <4> QED
        BY <4>3, <4>4, <4>5 DEF Base, Exclusive
    <3>2. CASE Step(p) \/ Die(p)
      BY <3>2, ExclusivePreserved DEF Base
    <3> QED
      BY <1>1, <3>1, <3>2
  <2> QED
    BY <2>1, <2>2, <2>3 DEF Base
<1>2. ASSUME UNCHANGED <<deal, row, blob, told, days, purse, pc, local, history, held>>,
             subscr' = subscr \/ (subscr /\ ~subscr'),
             subscr' \in BOOLEAN,
             busy' \subseteq busy, \A p \in Procs : held[p] \subseteq busy'
      PROVE  Base'
  <2>1. UNCHANGED <<deal, row, blob, told, days, purse, pc, on, who, seen, mine, given, total,
                    credits, loose, mixed, spoilt, held>>
    BY <1>2 DEF local, history
  <2>2. Typed'
    BY <1>2, <2>1 DEF Base, Typed
  <2>3. Routes' /\ CodesTold' /\ RowsFit'
    BY <2>1 DEF Base, Routes, CodesTold, RowsFit, Webhook, Way, Kind
  <2>4. \A p \in Procs : Holds(p)' = Holds(p)
    BY <2>1 DEF Holds, Webhook, Way, Custom
  <2>5. Exclusive'
    BY <1>2, <2>1, <2>4 DEF Base, Exclusive
  <2>6. ASSUME NEW x \in Purchases
        PROVE  Guards(x)'
    <3>1. \A places : SomeAt(x, places)' <=> SomeAt(x, places)
      BY <2>1 DEF SomeAt
    <3>2. \A places : OneAt(x, places)' <=> OneAt(x, places)
      BY <2>1 DEF OneAt
    <3>3. /\ Way(x)' = Way(x) /\ Kind(x)' = Kind(x)
          /\ ByBlob(x)' <=> ByBlob(x)
          /\ Webhook(x)' <=> Webhook(x)
          /\ Worth(x)' = Worth(x) /\ Taken(x)' = Taken(x)
      BY <2>1, SameDeals
    <3> QED
      BY <2>1, <3>1, <3>2, <3>3 DEF Base, Guarded, Guards, BlobGuards, Passed, CodeGuards,
         DirectGuards, SubscrGuards, HookGuards
  <2>7. FirstOnly'
    <3>1. \A q \in Procs : \A places : Joins(q, places)' <=> Joins(q, places)
      BY <2>1 DEF Joins, Way
    <3>2. \A places : Joining(places)' <=> Joining(places)
      BY <3>1 DEF Joining
    <3>3. NoneGiven => NoneGiven'
      BY <1>2, <2>1, <3>2 DEF NoneGiven, Way
    <3> QED
      BY <2>1, <3>1, <3>2, <3>3 DEF Base, FirstOnly
  <2> QED
    BY <2>2, <2>3, <2>5, <2>6, <2>7 DEF Base, Guarded
<1>3. CASE LockLapses \/ Unsubscribe
  <2>1. \A p \in Procs : held[p] \subseteq busy
    BY DEF Base, Exclusive
  <2>2. subscr \in BOOLEAN
    BY DEF Base, Typed
  <2>3. CASE LockLapses
    <3>1. held' = held /\ \E k \in busy : busy' = busy \ {k} /\ \A p \in Procs : k \notin held[p]
      BY <2>3 DEF LockLapses, Lock!Lapse
    <3>2. UNCHANGED <<deal, row, blob, subscr, told, days, purse, pc, local, history>>
      BY <2>3 DEF LockLapses, stored
    <3> QED
      BY <1>2, <2>1, <2>2, <3>1, <3>2
  <2>4. CASE Unsubscribe
    <3>1. UNCHANGED <<deal, row, blob, told, days, purse, pc, local, history, held, busy>>
          /\ subscr /\ subscr' = FALSE
      BY <2>4 DEF Unsubscribe, locks
    <3> QED
      BY <1>2, <2>1, <3>1
  <2> QED
    BY <1>3, <2>3, <2>4
<1>4. CASE UNCHANGED vars
  <2>1. UNCHANGED <<deal, row, blob, subscr, told, days, purse, pc, local, history, held, busy>>
    BY <1>4 DEF vars, locks, stored
  <2>2. subscr \in BOOLEAN
    BY DEF Base, Typed
  <2> QED
    BY <1>2, <2>1, <2>2 DEF Base, Exclusive
<1> QED
  BY <1>1, <1>3, <1>4 DEF Next

\* The purchases' invariant holds throughout.
LEMMA BaseInvariant == Spec => []Base
<1>1. Init => Base
  BY BaseInit
<1>2. Base /\ [Next]_vars => Base'
  BY BaseNext
<1> QED
  BY <1>1, <1>2, PTL DEF Spec

\* The state has its shape, and the histories; who is idle holds no lock.
THEOREM Typing == Spec => []TypeOK
<1>1. Base => TypeOK
  <2> SUFFICES ASSUME Base
               PROVE  TypeOK
    OBVIOUS
  <2>1. \A p \in Procs : pc[p] = "idle" => on[p] = Nil /\ held[p] = {}
    BY DEF Base, Typed, Exclusive, Holds
  <2>2. Work \cup {"idle"} =
            {"idle", "lock", "unlock", "blob", "status", "mark", "load",
             "give", "code", "tell", "record", "renew", "claim", "apply", "fund",
             "settle", "done", "take", "reversed"}
    BY DEF Work
  <2>3. pc \in [Procs -> Work \cup {"idle"}]
    BY DEF Base, Typed
  <2>4. /\ deal \in [Purchases -> Deals]
        /\ row \in [Purchases -> [status : Statuses, account : Accounts \cup {Nil}]]
        /\ blob \in [Blobs -> {"initialized", "locked", "processed"}]
        /\ subscr \in BOOLEAN
        /\ told \subseteq Purchases
        /\ days \in [Accounts -> Int]
        /\ purse \in [creds : Int, escrow : Int]
    BY DEF Base, Typed, Row, Purse
  <2> QED
    BY <2>1, <2>2, <2>3, <2>4 DEF TypeOK
<1> QED
  BY <1>1, BaseInvariant, PTL

\* Nobody at work is nobody at some places.
LEMMA NobodyAt ==
    ASSUME NEW x, AtWorkOn(x) = {}, NEW places, places \subseteq Work
    PROVE  ~SomeAt(x, places)
  BY DEF AtWorkOn, SomeAt, Work

\* However often it is notified, claimed or asked for, and wherever requests
\* overlap or die, no purchase is delivered twice where a blob of its own or the
\* claim of a code decides, nor another whose notifications did not overlap, did
\* not die half-way, nor came again before the row of a first payment was there
\* (process_webhook, POST_ipn, finish, POST_spendcreddits, claim_gold).
THEOREM DeliveredOnce == Spec => []AtMostOnce
<1>1. ASSUME Base
      PROVE  AtMostOnce
  <2> SUFFICES ASSUME NEW x \in Purchases,
                      ~(Webhook(x) \/ Way(x) = "subscr") \/ Kind(x) = "code" \/ x \notin loose
               PROVE  given[x] \in {0, Worth(x), Worth(x) - Taken(x)}
    BY DEF AtMostOnce
  <2>1. Way(x) \in Ways
    BY <1>1, DealKinds DEF Base
  <2>2. BlobGuards(x) /\ CodeGuards(x) /\ DirectGuards(x) /\ SubscrGuards(x) /\ HookGuards(x)
    BY <1>1 DEF Base, Guarded, Guards
  <2>3. CASE Kind(x) = "code"
    BY <2>2, <2>3 DEF CodeGuards
  <2>4. CASE Kind(x) # "code" /\ ByBlob(x)
    BY <2>2, <2>4 DEF DirectGuards
  <2>5. CASE Kind(x) # "code" /\ Way(x) = "subscr" /\ x \notin loose
    BY <2>2, <2>5 DEF SubscrGuards
  <2>6. CASE Kind(x) # "code" /\ Webhook(x) /\ x \notin loose
    <3>1. CASE ~SomeAt(x, Work)
      BY <2>2, <2>6, <3>1 DEF HookGuards
    <3>2. CASE SomeAt(x, Work)
      <4>1. PICK p \in Procs : on[p] = x /\ pc[p] \in Work
        BY <3>2 DEF SomeAt
      <4>2. pc[p] # "idle" /\ Way(x) \notin {"spend", "subscr"}
        BY <2>6, <4>1 DEF Work, Webhook
      <4>3. pc[p] \in {"lock", "give", "record", "unlock", "take", "reversed"}
        BY <1>1, <2>6, <4>1, <4>2 DEF Base, Routes, Work
      <4>4. SomeAt(x, {"lock", "give"}) \/ SomeAt(x, {"record"}) \/ SomeAt(x, {"unlock", "take"})
            \/ SomeAt(x, {"reversed"})
        BY <4>1, <4>3 DEF SomeAt
      <4> QED
        BY <2>2, <2>6, <4>4 DEF HookGuards
    <3> QED
      BY <3>1, <3>2
  <2> QED
    BY <2>1, <2>3, <2>4, <2>5, <2>6 DEF ByBlob, Webhook, Ways
<1> QED
  BY <1>1, BaseInvariant, PTL

\* When nobody is at work on a purchase and its row did not come apart from what
\* was given, the table that support reads and the blob tell what the buyer got:
\* nothing, all of it, or what a reversal leaves of it.
THEOREM RecordIsTrue == Spec => []RecordTells
<1>1. ASSUME Base
      PROVE  RecordTells
  <2> SUFFICES ASSUME NEW x \in Purchases, AtWorkOn(x) = {}, x \notin loose
               PROVE  /\ row[x].status = "none" /\ Way(x) # "spend" => given[x] = 0
                      /\ row[x].status = "unclaimed" => given[x] = 0 /\ x \in told
                      /\ row[x].status \in {"processed", "instagift", "claimed"} =>
                             given[x] = Worth(x)
                      /\ row[x].status = "reversed" => given[x] = Worth(x) - Taken(x)
                      /\ Way(x) = "spend" /\ blob[x] = "initialized" => given[x] = 0
                      /\ Way(x) = "spend" /\ blob[x] = "processed" =>
                             given[x] = Worth(x) \/ row[x].status = "unclaimed"
    BY DEF RecordTells
  <2>1. Way(x) \in Ways
    BY <1>1, DealKinds DEF Base
  <2>2. BlobGuards(x) /\ CodeGuards(x) /\ DirectGuards(x) /\ SubscrGuards(x) /\ HookGuards(x)
    BY <1>1 DEF Base, Guarded, Guards
  <2>3. ~SomeAt(x, {"tell"}) /\ ~SomeAt(x, {"apply"}) /\ ~SomeAt(x, {"record"}) /\ ~SomeAt(x, Work)
    BY NobodyAt DEF Work
  <2>4. CASE Kind(x) = "code"
    <3>1. Worth(x) - Taken(x) = Worth(x)
      BY <1>1, <2>4, Amounts DEF Base
    <3> QED
      BY <2>1, <2>2, <2>3, <2>4, <3>1 DEF BlobGuards, CodeGuards, ByBlob
  <2>5. CASE Kind(x) # "code" /\ Webhook(x)
    BY <2>2, <2>3, <2>5 DEF HookGuards, Webhook
  <2>6. CASE Kind(x) # "code" /\ ByBlob(x)
    BY <2>2, <2>3, <2>6 DEF BlobGuards, DirectGuards, ByBlob
  <2>7. CASE Kind(x) # "code" /\ Way(x) = "subscr"
    BY <2>2, <2>3, <2>7 DEF SubscrGuards
  <2> QED
    BY <2>1, <2>4, <2>5, <2>6, <2>7 DEF ByBlob, Webhook, Ways
<1> QED
  BY <1>1, BaseInvariant, PTL

-----------------------------------------------------------------------------
(* Accounts and the purse.                                                  *)

\* Other processes read and spend as before.
LEMMA OthersRead ==
    ASSUME NEW p \in Procs, Only(p), deal' = deal
    PROVE  /\ \A q \in Procs \ {p} : \A a : Reading(q, a)' <=> Reading(q, a)
           /\ \A q \in Procs \ {p} : Spending(q)' <=> Spending(q)
           /\ \A q \in Procs \ {p} : NotFunded(q)' <=> NotFunded(q)
           /\ \A q \in Procs \ {p} : seen'[q] = seen[q] /\ mine'[q] = mine[q]
<1>1. \A q \in Procs \ {p} : \A a : Reading(q, a)' <=> Reading(q, a)
  BY DEF Only, Reading, Kind
<1>2. \A q \in Procs \ {p} : Spending(q)' <=> Spending(q)
  BY DEF Only, Spending, Way, Kind
<1>3. \A q \in Procs \ {p} : NotFunded(q)' <=> NotFunded(q)
  BY <1>2 DEF Only, NotFunded
<1> QED
  BY <1>1, <1>2, <1>3 DEF Only

\* Who reads after a step has read before it or reads the account as it is.
LEMMA ReadsOn ==
    ASSUME Base, NEW p \in Procs, Step(p) \/ Die(p), NEW a \in Accounts, Reading(p, a)'
    PROVE  \/ seen'[p] = days[a]
           \/ Reading(p, a) /\ seen'[p] = seen[p]
<1> USE DEF Base
<1>1. /\ pc[p] # "idle" /\ on[p] \in Purchases /\ who[p] \in Accounts /\ deal' = deal
      /\ \/ pc'[p] = "idle" /\ on'[p] = Nil /\ who'[p] = Nil
         \/ on'[p] = on[p] /\ who'[p] = who[p] /\ Path(p)
  BY StepOwn
<1>2. on'[p] = on[p] /\ who'[p] = a /\ who[p] = a /\ Path(p)
  BY <1>1 DEF Reading
<1>3. pc'[p] \in {"give", "take", "renew", "claim", "apply"} \/ (pc'[p] = "fund" /\ Kind(on[p]) = "gift")
  BY <1>1, <1>2 DEF Reading, Kind
<1>4. \/ pc[p] \in {"lock", "unlock", "load"}
      \/ pc[p] = "fund" /\ Kind(on[p]) = "gift"
      \/ pc[p] \in {"renew", "claim"}
  BY <1>2, <1>3 DEF Path, Goes
<1>5. CASE pc[p] \in {"lock", "unlock", "load"}
  <2>1. LockToGive(p) \/ LockToTake(p) \/ Load(p) \/ Ends(p)
    BY <1>5 DEF Step, LockBlob, BlobRefused, BlobFound, MarkBlob, TimesOut, GiveGold, GiveCreddits,
       Apply, InsertCode, CodeExists, Tell, TellFails, Record, RecordRenewal, RenewalExists, Claim,
       AlreadyClaimed, Fund, NotEnough, Settle, BlobProcessed, TakeBack, MarkReversed,
       ReversalUntold, Die
  <2>2. ~Ends(p)
    BY <1>3 DEF Ends, Goto, Typed
  <2>3. seen' = [seen EXCEPT ![p] = days[who[p]]]
    BY <2>1, <2>2 DEF LockToGive, LockToTake, GoldLock, Load
  <2> QED
    BY <1>2, <2>3 DEF Typed
<1>6. CASE pc[p] \in {"fund", "renew", "claim"} /\ (pc[p] = "fund" => Kind(on[p]) = "gift")
  <2>1. RecordRenewal(p) \/ Claim(p) \/ Fund(p) \/ Ends(p)
    BY <1>6 DEF Step, LockToGive, LockToTake, GoldLock, LockBlob, BlobRefused, BlobFound, MarkBlob,
       Load, TimesOut, GiveGold, GiveCreddits, Apply, InsertCode, CodeExists, Tell, TellFails, Record,
       RenewalExists, AlreadyClaimed, NotEnough, Settle, BlobProcessed, TakeBack, MarkReversed,
       ReversalUntold, Die
  <2>2. ~Ends(p)
    BY <1>3 DEF Ends, Goto, Typed
  <2>3. seen' = seen
    BY <2>1, <2>2 DEF RecordRenewal, Claim, Fund, local
  <2> QED
    BY <1>2, <1>6, <2>3 DEF Reading
<1> QED
  BY <1>4, <1>5, <1>6

\* Who writes an account has read it as it is, or the account is mixed.
LEMMA AccountedPreserved ==
    ASSUME Base, Accounted, [Next]_vars
    PROVE  Accounted'
<1> USE DEF Base
<1> DEFINE Right(a) == /\ days'[a] = total'[a]
                       /\ \A q \in Procs : Reading(q, a)' => seen'[q] = days'[a]
<1> SUFFICES ASSUME NEW a \in Accounts, a \notin mixed'
             PROVE  Right(a)
  BY DEF Accounted
<1>T. days \in [Accounts -> Int] /\ total \in [Accounts -> Int] /\ seen \in [Procs -> Int]
  BY DEF Typed
<1>A. a \notin mixed => /\ days[a] = total[a]
                        /\ \A q \in Procs : Reading(q, a) => seen[q] = days[a]
  BY DEF Accounted
<1> HIDE DEF Right
<1>1. ASSUME NEW p \in Procs, Only(p), deal' = deal, UNCHANGED <<days, total, mixed>>,
             Reading(p, a)' => seen'[p] = days[a] \/ (Reading(p, a) /\ seen'[p] = seen[p])
      PROVE  Right(a)
  BY <1>A, <1>1, OthersRead DEF Right
<1>2. ASSUME NEW p \in Procs, Request(p)
      PROVE  Right(a)
  <2>1. PICK x \in Purchases, b \in Accounts,
             l \in {"code", "lock", "unlock", "blob", "renew", "claim"} : Begin(p, x, b, l)
    BY <1>2, RequestBegins DEF Request
  <2>2. l \in Work
    BY DEF Work
  <2>3. /\ Only(p) /\ deal' = deal /\ UNCHANGED <<days, total, mixed>>
        /\ who'[p] = b /\ seen'[p] = days[b]
    BY <2>1, <2>2, BeginOwn DEF stored
  <2>4. Reading(p, a)' => b = a
    BY <2>3 DEF Reading
  <2> QED
    BY <1>1, <2>3, <2>4
<1>3. ASSUME NEW p \in Procs, Step(p) \/ Die(p)
      PROVE  Right(a)
  <2>1. /\ pc[p] # "idle" /\ on[p] \in Purchases /\ who[p] \in Accounts /\ Only(p) /\ deal' = deal
    BY <1>3, StepOwn
  <2>2. CASE UNCHANGED <<days, total, mixed>>
    BY <1>1, <1>3, <2>1, <2>2, ReadsOn
  <2>3. ASSUME NEW m, NEW n,
               days' = [days EXCEPT ![who[p]] = m], total' = [total EXCEPT ![who[p]] = n],
               seen[p] = total[who[p]] => m = n, Mix(p), pc[p] \in {"give", "apply", "take"},
               pc'[p] \notin {"give", "take", "renew", "claim", "apply", "fund"}
        PROVE  Right(a)
    <3>1. Reading(p, who[p]) /\ ~Reading(p, a)'
      BY <2>3 DEF Reading
    <3>2. CASE a # who[p]
      <4>1. a \notin mixed
        BY <2>3, <3>2 DEF Mix
      <4>2. days'[a] = days[a] /\ total'[a] = total[a]
        BY <1>T, <2>3, <3>2
      <4> QED
        BY <1>A, <2>1, <3>1, <4>1, <4>2, OthersRead DEF Right
    <3>3. CASE a = who[p]
      <4>1. a \notin mixed /\ \A q \in Procs \ {p} : Reading(q, a) => Locked(p) /\ Locked(q)
        BY <2>3, <3>3 DEF Mix
      <4>2. ASSUME NEW q \in Procs \ {p}, Reading(q, a)
            PROVE  FALSE
        <5>1. a \in held[p] /\ a \in held[q]
          BY <3>3, <4>1, <4>2 DEF Locked, Reading
        <5> QED
          BY <5>1 DEF Exclusive
      <4>3. seen[p] = days[a] /\ days[a] = total[a]
        BY <1>A, <3>1, <3>3, <4>1
      <4>4. days'[a] = total'[a]
        BY <1>T, <2>3, <3>3, <4>3
      <4> QED
        BY <2>1, <3>1, <4>2, <4>4, OthersRead DEF Right
    <3> QED
      BY <3>2, <3>3
  <2>4. CASE GiveGold(p) \/ Apply(p)
    <3>1. /\ days' = [days EXCEPT ![who[p]] = Plus(seen[p], Days(on[p]))]
          /\ total' = [total EXCEPT ![who[p]] = Plus(total[who[p]], Days(on[p]))]
          /\ Mix(p) /\ pc[p] \in {"give", "apply"}
      BY <2>4 DEF GiveGold, Apply, Engolden
    <3>2. pc'[p] \in {"idle", "settle", "record"}
      BY <2>4 DEF GiveGold, Apply, Ends, Goto, Typed
    <3> QED
      BY <2>3, <3>1, <3>2
  <2>5. CASE TakeBack(p)
    <3>1. pc[p] = "take" /\ pc'[p] = "reversed" /\ Kind(on[p]) \in Kinds
      BY <2>1, <2>5, DealKinds DEF TakeBack, Goto, Typed
    <3>2. CASE Kind(on[p]) \in {"onetime", "gift"}
      <4>1. /\ days' = [days EXCEPT ![who[p]] = seen[p] - Taken(on[p])]
            /\ total' = [total EXCEPT ![who[p]] = total[who[p]] - Taken(on[p])] /\ Mix(p)
        BY <2>5, <3>2 DEF TakeBack
      <4> QED
        BY <2>3, <3>1, <4>1
    <3>3. CASE Kind(on[p]) \notin {"onetime", "gift"}
      <4>1. UNCHANGED <<days, total, mixed>>
        <5>1. CASE Kind(on[p]) = "creddits"
          BY <2>5, <5>1 DEF TakeBack
        <5>2. CASE Kind(on[p]) = "code"
          BY <2>5, <5>2 DEF TakeBack
        <5> QED
          BY <3>1, <3>3, <5>1, <5>2 DEF Kinds
      <4> QED
        BY <2>2, <4>1
    <3> QED
      BY <3>2, <3>3
  <2>6. CASE ~GiveGold(p) /\ ~Apply(p) /\ ~TakeBack(p)
    <3>1. UNCHANGED <<days, total, mixed>>
      BY <1>3, <2>6 DEF Step, LockToGive, LockToTake, GoldLock, LockBlob, BlobRefused, BlobFound,
         MarkBlob, Load, TimesOut, GiveCreddits, InsertCode, CodeExists, Tell, TellFails, Record,
         RecordRenewal, RenewalExists, Claim, AlreadyClaimed, Fund, NotEnough, Settle,
         BlobProcessed, MarkReversed, ReversalUntold, Die, stored, history
    <3> QED
      BY <2>2, <3>1
  <2> QED
    BY <2>4, <2>5, <2>6
<1>4. ASSUME UNCHANGED <<deal, days, total, mixed, pc, on, who, seen>>
      PROVE  Right(a)
  <2>1. \A q \in Procs : Reading(q, a)' <=> Reading(q, a)
    BY <1>4 DEF Reading, Kind
  <2> QED
    BY <1>A, <1>4, <2>1 DEF Right
<1>5. CASE LockLapses \/ Unsubscribe \/ UNCHANGED vars
  <2>1. UNCHANGED <<deal, days, total, mixed, pc, on, who, seen>>
    BY <1>5 DEF LockLapses, Unsubscribe, vars, stored, local, history
  <2> QED
    BY <1>4, <2>1
<1> QED
  BY <1>2, <1>3, <1>5 DEF Next

\* Who writes the purse has read it as it is, or the purse is spoilt.
LEMMA PurseKeptPreserved ==
    ASSUME Base, PurseKept, [Next]_vars
    PROVE  PurseKept'
<1> USE DEF Base
<1> DEFINE Sum     == purse'.creds + purse'.escrow = credits'
           Fits(q) == /\ Spending(q)' => mine'[q].escrow = purse'.escrow
                      /\ NotFunded(q)' => mine'[q] = purse'
<1> SUFFICES ASSUME ~spoilt'
             PROVE  Sum /\ \A q \in Procs : Fits(q)
  BY DEF PurseKept
<1>T. /\ purse \in Purse /\ credits \in Int /\ purse.creds \in Int /\ purse.escrow \in Int
      /\ mine \in [Procs -> Purse]
      /\ \A q \in Procs : mine[q].creds \in Int /\ mine[q].escrow \in Int
  BY Constants DEF Typed
<1>A. ~spoilt => /\ purse.creds + purse.escrow = credits
                 /\ \A q \in Procs : /\ Spending(q) => mine[q].escrow = purse.escrow
                                     /\ NotFunded(q) => mine[q] = purse
  BY DEF PurseKept
<1> DEFINE Goal == Sum /\ \A q \in Procs : Fits(q)
<1> SUFFICES Goal
  OBVIOUS
<1>1. ASSUME NEW p \in Procs, Only(p), deal' = deal, UNCHANGED <<purse, credits, spoilt>>,
             \/ mine'[p] = purse
             \/ /\ mine'[p] = mine[p]
                /\ Spending(p)' => Spending(p)
                /\ NotFunded(p)' => NotFunded(p)
      PROVE  Goal
  <2>1. \A q \in Procs \ {p} : Fits(q)
    BY <1>A, <1>1, OthersRead
  <2>2. Fits(p)
    <3>1. purse' = purse /\ ~spoilt
      BY <1>1
    <3>2. CASE mine'[p] = purse
      BY <3>1, <3>2
    <3>3. CASE /\ mine'[p] = mine[p]
               /\ Spending(p)' => Spending(p)
               /\ NotFunded(p)' => NotFunded(p)
      <4>1. mine'[p] = mine[p] /\ purse' = purse
        BY <3>1, <3>3
      <4>2. ASSUME Spending(p)'
            PROVE  mine'[p].escrow = purse'.escrow
        BY <1>A, <3>1, <3>3, <4>1, <4>2
      <4>3. ASSUME NotFunded(p)'
            PROVE  mine'[p] = purse'
        BY <1>A, <3>1, <3>3, <4>1, <4>3
      <4> QED
        BY <4>2, <4>3
    <3> QED
      BY <1>1, <3>2, <3>3
  <2> QED
    BY <1>A, <1>1, <2>1, <2>2
<1> HIDE DEF Goal
<1>2. ASSUME NEW p \in Procs, Request(p)
      PROVE  Goal
  <2>1. PICK x \in Purchases, b \in Accounts,
             l \in {"code", "lock", "unlock", "blob", "renew", "claim"} : Begin(p, x, b, l)
    BY <1>2, RequestBegins DEF Request
  <2>2. l \in Work
    BY DEF Work
  <2>3. /\ Only(p) /\ deal' = deal /\ UNCHANGED <<purse, credits, spoilt>> /\ mine'[p] = purse
    BY <2>1, <2>2, BeginOwn DEF stored
  <2> QED
    BY <1>1, <2>3
<1>3. ASSUME NEW p \in Procs, Step(p) \/ Die(p)
      PROVE  Goal
  <2>1. /\ pc[p] # "idle" /\ on[p] \in Purchases /\ Only(p) /\ deal' = deal
        /\ \/ pc'[p] = "idle"
           \/ on'[p] = on[p] /\ Path(p)
    BY <1>3, StepOwn
  <2>2. Months(on[p]) \in Int /\ Taken(on[p]) \in Int
    BY <2>1, Amounts
  <2>3. /\ Spending(p)' => Spending(p)
        /\ NotFunded(p)' => NotFunded(p)
    <3>1. CASE pc'[p] = "idle"
      BY <3>1 DEF Spending, NotFunded
    <3>2. CASE on'[p] = on[p] /\ Path(p)
      <4>1. Way(on[p])' = Way(on[p]) /\ Kind(on[p])' = Kind(on[p])
        BY <2>1, <3>2 DEF Way, Kind
      <4>2. /\ pc[p] = "renew" => Way(on[p]) = "subscr"
            /\ pc[p] = "claim" => Kind(on[p]) = "code"
            /\ pc[p] \in {"lock", "unlock"} => Way(on[p]) # "spend"
            /\ pc[p] = "load" /\ Way(on[p]) # "spend" => ~Spending(p)
        BY <2>1 DEF Routes, Webhook, Spending
      <4>3. Spending(p)' => Spending(p)
        BY <3>2, <4>1, <4>2 DEF Spending, Path, Goes
      <4>4. NotFunded(p)' => NotFunded(p)
        BY <3>2, <4>1, <4>2, <4>3 DEF NotFunded, Path, Goes
      <4> QED
        BY <4>3, <4>4
    <3> QED
      BY <2>1, <3>1, <3>2
  <2>4. ASSUME NEW n \in Int, AddCreddits(p, n), mine' = mine, ~NotFunded(p)'
        PROVE  Goal
    <3>1. /\ purse' = [purse EXCEPT !.creds = purse.creds + n] /\ credits' = credits + n
          /\ ~spoilt /\ \A q \in Procs : ~NotFunded(q)
      BY <2>4 DEF AddCreddits, Spoil
    <3>2. purse'.creds = purse.creds + n /\ purse'.escrow = purse.escrow
      BY <1>T, <3>1 DEF Purse
    <3>3. Sum
      BY <1>A, <1>T, <3>1, <3>2
    <3>4. \A q \in Procs : Spending(q)' => Spending(q)
      BY <2>1, <2>3, OthersRead
    <3>5. \A q \in Procs : ~NotFunded(q)'
      BY <2>1, <2>4, <3>1, OthersRead
    <3>6. \A q \in Procs : Fits(q)
      BY <1>A, <2>4, <3>1, <3>2, <3>4, <3>5
    <3> QED
      BY <3>3, <3>6 DEF Goal
  <2>5. CASE GiveCreddits(p)
    <3>1. AddCreddits(p, Months(on[p])) /\ mine' = mine /\ pc'[p] = "record"
      BY <2>5 DEF GiveCreddits, local, Goto, Typed
    <3>2. ~NotFunded(p)'
      BY <3>1 DEF NotFunded
    <3> QED
      BY <2>2, <2>4, <3>1, <3>2
  <2>6. CASE TakeBack(p)
    <3>1. pc'[p] = "reversed" /\ mine' = mine /\ Kind(on[p]) \in Kinds
      BY <2>1, <2>6, DealKinds DEF TakeBack, local, Goto, Typed
    <3>2. ~NotFunded(p)'
      BY <3>1 DEF NotFunded
    <3>3. CASE Kind(on[p]) = "creddits"
      <4>1. AddCreddits(p, -Taken(on[p])) /\ -Taken(on[p]) \in Int
        BY <2>2, <2>6, <3>3 DEF TakeBack
      <4> QED
        BY <2>4, <3>1, <3>2, <4>1
    <3>4. CASE Kind(on[p]) # "creddits"
      <4>1. UNCHANGED <<purse, credits, spoilt>>
        <5>1. CASE Kind(on[p]) \in {"onetime", "gift"}
          BY <2>6, <5>1 DEF TakeBack
        <5>2. CASE Kind(on[p]) = "code"
          BY <2>6, <5>2 DEF TakeBack
        <5> QED
          BY <3>1, <3>4, <5>1, <5>2 DEF Kinds
      <4> QED
        BY <1>1, <2>1, <2>3, <3>1, <4>1
    <3> QED
      BY <3>3, <3>4
  <2>7. CASE Fund(p)
    <3>1. /\ pc[p] = "fund" /\ purse' = mine'[p] /\ credits' = credits
          /\ mine' = [mine EXCEPT ![p] = [creds  |-> mine[p].creds - Months(on[p]),
                                         escrow |-> mine[p].escrow + Months(on[p])]]
          /\ pc'[p] \in {"give", "code"}
          /\ ~spoilt /\ \A q \in Procs \ {p} : ~Spending(q)
      BY <2>7 DEF Fund, Spoil, Goto, Typed
    <3>2. mine'[p] = [creds  |-> mine[p].creds - Months(on[p]),
                      escrow |-> mine[p].escrow + Months(on[p])]
      BY <1>T, <3>1
    <3>3. NotFunded(p)
      BY <3>1 DEF NotFunded, Spending, Routes
    <3>4. Sum
      BY <1>A, <1>T, <2>2, <3>1, <3>2, <3>3
    <3>5. Fits(p)
      BY <3>1
    <3>6. \A q \in Procs \ {p} : Fits(q)
      BY <2>1, <3>1, OthersRead DEF NotFunded
    <3> QED
      BY <3>4, <3>5, <3>6 DEF Goal
  <2>8. CASE Settle(p)
    <3>1. /\ pc[p] = "settle" /\ pc'[p] = "done" /\ credits' = credits - Months(on[p])
          /\ purse' = [purse EXCEPT !.escrow = mine[p].escrow - Months(on[p])]
          /\ ~spoilt /\ \A q \in Procs \ {p} : ~Spending(q)
      BY <2>8 DEF Settle, Spoil, Goto, Typed
    <3>2. purse'.creds = purse.creds /\ purse'.escrow = mine[p].escrow - Months(on[p])
      BY <1>T, <3>1 DEF Purse
    <3>3. Spending(p)
      BY <3>1 DEF Spending, Routes
    <3>4. Sum
      BY <1>A, <1>T, <2>2, <3>1, <3>2, <3>3
    <3>5. ~Spending(p)' /\ ~NotFunded(p)'
      BY <3>1 DEF Spending, NotFunded
    <3>6. \A q \in Procs \ {p} : ~Spending(q)' /\ ~NotFunded(q)'
      BY <2>1, <3>1, OthersRead DEF NotFunded
    <3> QED
      BY <3>4, <3>5, <3>6 DEF Goal
  <2>9. CASE Ends(p) /\ UNCHANGED <<purse, credits, spoilt>>
    <3>1. pc'[p] = "idle"
      BY <2>9 DEF Ends, Goto, Typed
    <3>2. /\ \A q \in Procs \ {p} : Fits(q)
          /\ Fits(p) /\ Sum
      BY <1>A, <2>1, <2>9, <3>1, OthersRead DEF Spending, NotFunded
    <3> QED
      BY <3>2 DEF Goal
  <2>10. CASE ~GiveCreddits(p) /\ ~TakeBack(p) /\ ~Fund(p) /\ ~Settle(p)
    <3>1. UNCHANGED <<purse, credits, spoilt>> /\ (Ends(p) \/ mine' = mine)
      BY <1>3, <2>10 DEF Step, LockToGive, LockToTake, GoldLock, LockBlob, BlobRefused, BlobFound,
         MarkBlob, Load, TimesOut, GiveGold, Apply, InsertCode, CodeExists, Tell, TellFails, Record,
         RecordRenewal, RenewalExists, Claim, AlreadyClaimed, NotEnough,
         BlobProcessed, MarkReversed, ReversalUntold, Die, stored, history, local
    <3> QED
      BY <1>1, <2>1, <2>3, <2>9, <3>1
  <2> QED
    BY <2>5, <2>6, <2>7, <2>8, <2>10
<1>4. CASE LockLapses \/ Unsubscribe \/ UNCHANGED vars
  <2>1. UNCHANGED <<deal, purse, credits, spoilt, pc, on, mine>>
    BY <1>4 DEF LockLapses, Unsubscribe, vars, stored, local, history
  <2>2. \A q \in Procs : Spending(q)' <=> Spending(q)
    BY <2>1 DEF Spending, Way, Kind
  <2>3. \A q \in Procs : NotFunded(q)' <=> NotFunded(q)
    BY <2>1, <2>2 DEF NotFunded
  <2> QED
    BY <1>A, <2>1, <2>2, <2>3 DEF Goal
<1> QED
  BY <1>2, <1>3, <1>4 DEF Next

LEMMA GoldInvariant == Spec => [](Base /\ Accounted /\ PurseKept)
<1>1. Init => Accounted /\ PurseKept
  <2> SUFFICES ASSUME Init
               PROVE  Accounted /\ PurseKept
    OBVIOUS
  <2>1. /\ days = [a \in Accounts |-> 0] /\ total = [a \in Accounts |-> 0]
        /\ pc = [p \in Procs |-> "idle"]
        /\ \E n \in StartCreds : purse = [creds |-> n, escrow |-> 0] /\ credits = n
    BY DEF Init
  <2>2. Accounted
    BY <2>1 DEF Accounted, Reading
  <2>3. PurseKept
    BY <2>1 DEF PurseKept, Spending, NotFunded
  <2> QED
    BY <2>2, <2>3
<1>2. Base /\ Accounted /\ [Next]_vars => Accounted'
  BY AccountedPreserved
<1>3. Base /\ PurseKept /\ [Next]_vars => PurseKept'
  BY PurseKeptPreserved
<1> QED
  BY <1>1, <1>2, <1>3, BaseInit, BaseNext, PTL DEF Spec

\* gold_lock with _sync_latest, the lock of the blob and the escrow keep accounts
\* right: an account has the gold that was added less what was taken, unless two
\* writers met and one had no lock; the creddits and the escrow are what was
\* bought and not spent, unless the purse changed under a request that spends.
THEOREM AccountsRight == Spec => []AccountsAddUp
<1>1. Accounted /\ PurseKept => AccountsAddUp
  BY DEF Accounted, PurseKept, AccountsAddUp
<1> QED
  BY <1>1, GoldInvariant, PTL

\* Whoever delivers, takes back or looks at a blob takes and releases gold_<id> and
\* payment_blob_lock-<code> as r2/lib/lock.py allows it, so that what is proved of
\* the lock holds here (r2/models/gold.py gold_lock, controllers/ipn.py get_blob).
THEOREM GoldUsesLock == Spec => Lock!LockSpec
<1>1. Init => Lock!LockInit
  BY DEF Init
<1>2. Base /\ [Next]_vars => [Lock!LockNext]_(Lock!lockVars)
  <2>1. ASSUME Base, NEW p \in Procs, Step(p)
        PROVE  Lock!LockNext \/ UNCHANGED locks
    <3>1. pc[p] # "idle" => who[p] \in Names /\ Custom(on[p]) \in Names
      BY <2>1, Customs DEF Base, Routes, Names
    <3>2. \/ UNCHANGED locks
          \/ /\ pc[p] # "idle"
             /\ \E k \in {who[p], Custom(on[p])} : Lock!Obtain(p, k) \/ Lock!LetGo(p, k)
      BY <2>1 DEF Step, LockToGive, LockToTake, GoldLock, LockBlob, BlobRefused,
                  BlobFound, MarkBlob, Load, TimesOut, GiveGold, GiveCreddits,
                  Apply, InsertCode, CodeExists, Tell, TellFails, Record, RecordRenewal,
                  RenewalExists, Claim, AlreadyClaimed, Fund, NotEnough, Settle,
                  BlobProcessed, TakeBack, MarkReversed, ReversalUntold
    <3> QED
      BY <3>1, <3>2 DEF Lock!LockNext, Names
  <2>2. ASSUME NEW p \in Procs, Request(p)
        PROVE  UNCHANGED locks
    BY <2>2 DEF Request, Succeeded, Refunded, Cancelled, Ipn, Renewal, Spend,
                ClaimRequest, Begin
  <2>3. ASSUME NEW p \in Procs, Die(p)
        PROVE  Lock!LockNext
    BY <2>3 DEF Die, Lock!LockNext
  <2>4. ASSUME Base, LockLapses
        PROVE  Lock!LockNext
    <3>1. PICK k \in busy : Lock!Lapse(k)
      BY <2>4 DEF LockLapses
    <3>2. k \in Accounts \cup Blobs
      BY <2>4 DEF Base, Typed, Names
    <3> QED
      BY <3>1, <3>2 DEF Lock!LockNext
  <2>5. Unsubscribe \/ UNCHANGED vars => UNCHANGED locks
    BY DEF Unsubscribe, vars
  <2> QED
    BY <2>1, <2>2, <2>3, <2>4, <2>5 DEF Next, locks, Lock!lockVars
<1> QED
  BY <1>1, <1>2, BaseInvariant, PTL DEF Spec, Lock!LockSpec

HIDE GoldConstants DEF Accounts

(***************************************************************************)
(*                        Self-serve promotion                              *)
(***************************************************************************)
\* Where a campaign is worked on, and where the link is.
OnOne  == {"void", "gwvoid", "drop", "auth", "newbid", "raise", "settrans",
           "unschedule", "schedule", "delete", "cut", "others",
           "charge", "capture", "booked", "pending", "lost", "forget", "promote"}
OnAll  == {"decide", "select", "expire", "finish"}
Places == OnOne \cup OnAll \cup {"idle", "each", "end"}
PromoteStatuses == Unpaid .. Finished
Running  == {AcceptedStatus, Pending, Promoted, Finished}

\* The types of all variables that matter to what is proved.
Shapes ==
    /\ status \in PromoteStatuses
    /\ camp \in [Campaigns -> [trans : 0 .. MaxTrans, when : Whens,
                               scheduled : BOOLEAN, deleted : BOOLEAN]]
    /\ bids \in [Trans -> [campaign : Campaigns \cup {NoCampaign},
                           status : {"none", "AUTH", "CHARGE", "VOID"}]]
    /\ gate \in [Trans -> {"none", "authed", "captured", "settled", "voided", "expired"}]
    /\ doing \in [Workers -> Places] /\ op \in [Workers -> Ops]
    /\ at \in [Workers -> Campaigns \cup {NoCampaign}]
    /\ trans \in [Workers -> [Campaigns -> 0 .. MaxTrans]]
    /\ link \in [Workers -> PromoteStatuses] /\ t \in [Workers -> 0 .. MaxTrans]
    /\ stage \in [Workers -> {"none", "today", "tomorrow", "promote"}]
    /\ todo \in [Workers -> SUBSET Campaigns] /\ live \in [Workers -> BOOLEAN]
    /\ old \in [Workers -> BOOLEAN] /\ moved \in [Workers -> SUBSET Campaigns]
    /\ approved \in BOOLEAN /\ crossed \in BOOLEAN

\* What a worker has in hand where.
HasTrans == {"gwvoid", "drop", "charge", "capture", "booked", "lost", "forget"}
HasPaid  == {"newbid", "raise", "settrans"}
Charging == {"charge", "capture", "booked", "pending", "lost", "forget", "promote"}

Route(p) ==
    /\ doing[p] = "idle" => /\ at[p] = NoCampaign /\ todo[p] = {}
                            /\ trans[p] = NoCopy /\ t[p] = NoTransaction
    /\ doing[p] \in OnOne => at[p] \in Campaigns
    /\ doing[p] \in OnAll => at[p] = NoCampaign
    /\ doing[p] \in {"decide", "expire", "finish"} => todo[p] = {}
    /\ doing[p] \in {"void", "gwvoid", "drop"} => op[p] \in {"pay", "edit", "delete"}
    /\ doing[p] = "unschedule" => op[p] \in {"edit", "delete", "terminate"}
    /\ doing[p] \in {"auth"} \cup HasPaid => Mine(p) = NoTransaction
    /\ doing[p] \in HasTrans => Mine(p) # NoTransaction
    /\ doing[p] \in HasPaid => t[p] # NoTransaction
    /\ t[p] # NoTransaction => doing[p] \in HasPaid \cup {"end"}
    /\ \A c \in todo[p] : c # at[p] /\ trans[p][c] # NoTransaction

WorkRoutes == \A p \in Workers : Route(p)

\* Only what has been accepted is charged and promoted, in a worker's own eyes; only
\* what runs is terminated.
Eye(p) ==
    /\ todo[p] # {} \/ doing[p] \in Charging => Accepted(link[p])
    /\ \/ doing[p] \in {"cut", "others", "finish"}
       \/ doing[p] = "unschedule" /\ op[p] = "terminate"
       => link[p] = Promoted

Eyes == \A p \in Workers : Eye(p)

\* A transaction that has just been authorised is its worker's own.
Fresh ==
    /\ \A n \in Trans : /\ bids[n].status = "none" => bids[n] = NoBid
                        /\ bids[n].status # "none" =>
                               gate[n] # "none" /\ bids[n].campaign \in Campaigns
    /\ \A p, q \in Workers : t[p] = t[q] /\ t[p] # NoTransaction => p = q
    /\ \A p \in Workers :
        /\ t[p] # NoTransaction => gate[t[p]] # "none"
        /\ doing[p] = "newbid" => bids[t[p]] = NoBid /\ gate[t[p]] = "authed"
        /\ doing[p] \in {"raise", "settrans"} => bids[t[p]].campaign = at[p]

\* trans_id names a bid of the campaign, in what is stored and in every copy.
Owned(n, c) ==
    n # NoTransaction => bids[n].status # "none" /\ bids[n].campaign = c

Owns ==
    /\ \A c \in Campaigns : Owned(camp[c].trans, c)
    /\ \A p \in Workers, c \in Campaigns : Owned(trans[p][c], c)

\* Copies differ from what is stored only where somebody has written since.
Copied ==
    \A p \in Workers : doing[p] # "idle" =>
        \A c \in Campaigns \ moved[p] : trans[p][c] = camp[c].trans

\* p is at one of these places with transaction n.
With(p, places, n) == doing[p] \in places /\ Mine(p) = n

\* What is under way with transaction n, as long as nobody else touches it.
Stands(n) ==
    /\ gate[n] # "settled"
    /\ \/ Agree(n)
       \/ \E p \in Workers : \/ doing[p] = "newbid" /\ t[p] = n
                             \/ With(p, {"gwvoid", "booked"}, n)
    /\ \A p \in Workers :
        /\ With(p, {"gwvoid", "drop", "forget"}, n) => bids[n].status = "VOID"
        /\ With(p, {"booked"}, n) => bids[n].status = "AUTH" /\ gate[n] = "captured"
        /\ With(p, {"lost"}, n) => gate[n] \in {"voided", "expired"}

Steps == \A n \in Trans \ torn : Stands(n)

\* A campaign names what its bids hold or charged, or is about to.
HasName(n) ==
    bids[n].status \in {"AUTH", "CHARGE"} /\ bids[n].campaign \notin astray =>
        \/ camp[bids[n].campaign].trans = n
        \/ \E p \in Workers : doing[p] \in {"raise", "settrans"} /\ t[p] = n

Named == \A n \in Trans \ torn : HasName(n)

\* What is accepted, runs or has run was approved, and whoever has the latest copy
\* of the link knows its status.
LinkKnown ==
    ~crossed =>
        /\ status \in Running => approved
        /\ \A p \in Workers :
               doing[p] \notin {"idle", "end"} /\ ~old[p] => link[p] = status

PromoInvariant ==
    /\ Shapes /\ WorkRoutes /\ Eyes /\ Fresh /\ Owns /\ Copied
    /\ Steps /\ Named /\ LinkKnown

-----------------------------------------------------------------------------
USE PromotionConstants

\* What the parts of actions do.
LEMMA StatusSet ==
    ASSUME Shapes, NEW p \in Workers, NEW s \in PromoteStatuses, SetStatus(p, s)
    PROVE  /\ link' = [link EXCEPT ![p] = s]
           /\ status' \in PromoteStatuses /\ old' \in [Workers -> BOOLEAN]
           /\ crossed' \in BOOLEAN
<1>0. /\ status \in PromoteStatuses /\ link \in [Workers -> PromoteStatuses]
      /\ old \in [Workers -> BOOLEAN] /\ crossed \in BOOLEAN
  BY DEF Shapes
<1>1. crossed' = (crossed \/ old[p])
  BY DEF SetStatus
<1>2. crossed' \in BOOLEAN
  BY <1>0, <1>1
<1>3. CASE s = link[p]
  <2>1. UNCHANGED <<status, link, old>>
    BY <1>3 DEF SetStatus
  <2>2. link' = [link EXCEPT ![p] = s]
    BY <1>0, <1>3, <2>1
  <2>. QED
    BY <1>0, <1>2, <2>1, <2>2
<1>4. CASE s # link[p]
  <2>1. /\ status' = s /\ link' = [link EXCEPT ![p] = s]
        /\ old' = [q \in Workers |-> q # p /\ doing[q] # "idle"]
    BY <1>4 DEF SetStatus
  <2>2. old' \in [Workers -> BOOLEAN]
    BY <2>1
  <2>. QED
    BY <1>2, <2>1, <2>2
<1>. QED
  BY <1>3, <1>4

\* Writing trans_id keeps the types.
LEMMA TransSet ==
    ASSUME Shapes, NEW p \in Workers, at[p] \in Campaigns, NEW n \in 0 .. MaxTrans,
           SetTrans(p, n)
    PROVE  /\ trans' = [trans EXCEPT ![p][at[p]] = n]
           /\ trans' \in [Workers -> [Campaigns -> 0 .. MaxTrans]]
           /\ camp' \in [Campaigns -> [trans : 0 .. MaxTrans, when : Whens,
                                       scheduled : BOOLEAN, deleted : BOOLEAN]]
           /\ moved' \in [Workers -> SUBSET Campaigns]
<1>0. /\ camp \in [Campaigns -> [trans : 0 .. MaxTrans, when : Whens,
                                 scheduled : BOOLEAN, deleted : BOOLEAN]]
      /\ trans \in [Workers -> [Campaigns -> 0 .. MaxTrans]]
      /\ moved \in [Workers -> SUBSET Campaigns]
  BY DEF Shapes
<1>1. trans' = [trans EXCEPT ![p][at[p]] = n]
  BY DEF SetTrans
<1>2. trans' \in [Workers -> [Campaigns -> 0 .. MaxTrans]]
  BY <1>0, <1>1
<1>3. CASE n = Mine(p)
  BY <1>0, <1>1, <1>2, <1>3 DEF SetTrans
<1>4. CASE n # Mine(p)
  <2>1. /\ camp' = [camp EXCEPT ![at[p]].trans = n]
        /\ moved' = [q \in Workers |->
              IF q = p THEN moved[q] \ {at[p]}
              ELSE IF doing[q] # "idle" THEN moved[q] \cup {at[p]} ELSE {}]
    BY <1>4 DEF SetTrans
  <2>2. camp' \in [Campaigns -> [trans : 0 .. MaxTrans, when : Whens,
                                 scheduled : BOOLEAN, deleted : BOOLEAN]]
    BY <1>0, <2>1
  <2>3. moved' \in [Workers -> SUBSET Campaigns]
    BY <1>0, <2>1
  <2>. QED
    BY <1>1, <1>2, <2>2, <2>3
<1>. QED
  BY <1>3, <1>4

\* Who ends has nothing in hand.
LEMMA Gone ==
    ASSUME Shapes, NEW p \in Workers, Leaves(p)
    PROVE  /\ doing' = [doing EXCEPT ![p] = "idle"] /\ doing' \in [Workers -> Places]
           /\ op' \in [Workers -> Ops]
           /\ at' \in [Workers -> Campaigns \cup {NoCampaign}]
           /\ trans' \in [Workers -> [Campaigns -> 0 .. MaxTrans]]
           /\ link' \in [Workers -> PromoteStatuses] /\ t' \in [Workers -> 0 .. MaxTrans]
           /\ stage' \in [Workers -> {"none", "today", "tomorrow", "promote"}]
           /\ todo' \in [Workers -> SUBSET Campaigns] /\ live' \in [Workers -> BOOLEAN]
           /\ old' \in [Workers -> BOOLEAN] /\ moved' \in [Workers -> SUBSET Campaigns]
           /\ Route(p)' /\ Eye(p)'
<1>0. /\ doing \in [Workers -> Places] /\ op \in [Workers -> Ops]
      /\ at \in [Workers -> Campaigns \cup {NoCampaign}]
      /\ trans \in [Workers -> [Campaigns -> 0 .. MaxTrans]]
      /\ link \in [Workers -> PromoteStatuses] /\ t \in [Workers -> 0 .. MaxTrans]
      /\ stage \in [Workers -> {"none", "today", "tomorrow", "promote"}]
      /\ todo \in [Workers -> SUBSET Campaigns] /\ live \in [Workers -> BOOLEAN]
      /\ old \in [Workers -> BOOLEAN] /\ moved \in [Workers -> SUBSET Campaigns]
  BY DEF Shapes
<1>1. /\ doing' = [doing EXCEPT ![p] = "idle"] /\ op' = [op EXCEPT ![p] = "none"]
      /\ at' = [at EXCEPT ![p] = NoCampaign] /\ trans' = [trans EXCEPT ![p] = NoCopy]
      /\ link' = [link EXCEPT ![p] = Unpaid] /\ t' = [t EXCEPT ![p] = NoTransaction]
      /\ stage' = [stage EXCEPT ![p] = "none"] /\ todo' = [todo EXCEPT ![p] = {}]
      /\ live' = [live EXCEPT ![p] = FALSE] /\ old' = [old EXCEPT ![p] = FALSE]
      /\ moved' = [moved EXCEPT ![p] = {}]
  BY DEF Leaves, Go
<1>2. /\ NoCopy \in [Campaigns -> 0 .. MaxTrans] /\ Unpaid \in PromoteStatuses
      /\ NoTransaction \in 0 .. MaxTrans /\ "idle" \in Places /\ "none" \in Ops
  BY DEF NoCopy, NoTransaction, Unpaid, PromoteStatuses, Finished, Places, Ops
<1>3. /\ doing' \in [Workers -> Places] /\ op' \in [Workers -> Ops]
      /\ at' \in [Workers -> Campaigns \cup {NoCampaign}]
      /\ stage' \in [Workers -> {"none", "today", "tomorrow", "promote"}]
  BY <1>0, <1>1, <1>2
<1>4. /\ trans' \in [Workers -> [Campaigns -> 0 .. MaxTrans]]
      /\ link' \in [Workers -> PromoteStatuses] /\ t' \in [Workers -> 0 .. MaxTrans]
  BY <1>0, <1>1, <1>2
<1>5. /\ todo' \in [Workers -> SUBSET Campaigns]
      /\ moved' \in [Workers -> SUBSET Campaigns]
  BY <1>0, <1>1
<1>6. live' \in [Workers -> BOOLEAN] /\ old' \in [Workers -> BOOLEAN]
  BY <1>0, <1>1
<1>7. /\ doing'[p] = "idle" /\ at'[p] = NoCampaign /\ todo'[p] = {} /\ trans'[p] = NoCopy
      /\ t'[p] = NoTransaction
  BY <1>0, <1>1
<1>8. Route(p)' /\ Eye(p)'
  BY <1>7 DEF Route, Eye, OnOne, OnAll, HasTrans, HasPaid, Charging
<1>. QED
  BY <1>1, <1>3, <1>4, <1>5, <1>6, <1>8

-----------------------------------------------------------------------------
(* What a step leaves alone.                                                *)

OthersWait(p) ==
    \A q \in Workers \ {p} :
        /\ doing'[q] = doing[q] /\ op'[q] = op[q] /\ at'[q] = at[q]
        /\ trans'[q] = trans[q] /\ link'[q] = link[q] /\ t'[q] = t[q]
        /\ todo'[q] = todo[q]

\* Beginning, ending and every step leave the other workers alone.
LEMMA Loaded ==
    ASSUME Shapes, NEW p \in Workers, NEW what, NEW c, NEW label,
           LoadLink(p, what, c, label)
    PROVE  OthersWait(p)
BY DEF Shapes, LoadLink, OthersWait, Go, books, records

LEMMA Parted ==
    ASSUME Shapes, NEW p \in Workers, Leaves(p)
    PROVE  OthersWait(p)
BY DEF Shapes, Leaves, OthersWait, Go

LEMMA StepAlone ==
    ASSUME Shapes, NEW p \in Workers, PromoStep(p)
    PROVE  OthersWait(p)
<1>0. /\ doing \in [Workers -> Places] /\ op \in [Workers -> Ops]
      /\ at \in [Workers -> Campaigns \cup {NoCampaign}]
      /\ trans \in [Workers -> [Campaigns -> 0 .. MaxTrans]]
      /\ link \in [Workers -> PromoteStatuses] /\ t \in [Workers -> 0 .. MaxTrans]
      /\ todo \in [Workers -> SUBSET Campaigns]
  BY DEF Shapes
<1>1. CASE NothingToVoid(p)
  BY <1>0, <1>1 DEF NothingToVoid, OthersWait, Go, books, copies, records, tally
<1>2. CASE VoidBid(p)
  BY <1>0, <1>2 DEF VoidBid, OthersWait, Go, books, copies, records, tally
<1>3. CASE GatewayVoid(p)
  BY <1>0, <1>3 DEF GatewayVoid, OthersWait, Go, books, copies, records, tally
<1>4. CASE DropTrans(p)
  BY <1>0, <1>4 DEF DropTrans, OthersWait, Go, books, copies, records, tally, SetTrans
<1>5. CASE Authorise(p)
  BY <1>0, <1>5 DEF Authorise, OthersWait, Go, books, copies, records, tally
<1>6. CASE AuthRefused(p)
  BY <1>6, Parted DEF AuthRefused
<1>7. CASE NewBid(p)
  BY <1>0, <1>7 DEF NewBid, OthersWait, Go, books, copies, records, tally
<1>8. CASE RaiseStatus(p)
  BY <1>0, <1>8 DEF RaiseStatus, OthersWait, Go, books, copies, records, tally,
     SetStatus
<1>9. CASE NewTrans(p)
  BY <1>0, <1>9 DEF NewTrans, OthersWait, Go, books, copies, records, tally, SetTrans
<1>10. CASE Unschedule(p)
  BY <1>0, <1>10 DEF Unschedule, OthersWait, Go, books, copies, records, tally
<1>11. CASE Schedule(p)
  BY <1>0, <1>11 DEF Schedule, OthersWait, Go, books, copies, records, tally
<1>12. CASE Delete(p)
  BY <1>0, <1>12 DEF Delete, OthersWait, Go, books, copies, records, tally
<1>13. CASE CutShort(p)
  BY <1>0, <1>13 DEF CutShort, OthersWait, Go, books, copies, records, tally
<1>14. CASE FinishLink(p)
  BY <1>0, <1>14 DEF FinishLink, OthersWait, Go, books, copies, records, tally,
     SetStatus
<1>15. CASE DecideAccept(p)
  BY <1>0, <1>15 DEF DecideAccept, OthersWait, Go, books, copies, records, tally,
     SetStatus
<1>16. CASE SelectAccepted(p)
  BY <1>0, <1>16 DEF SelectAccepted, OthersWait, Go, books, copies, records, tally
<1>17. CASE DecideReject(p)
  BY <1>0, <1>17 DEF DecideReject, OthersWait, Go, books, copies, records, tally,
     SetStatus
<1>18. CASE DecideEdit(p)
  BY <1>0, <1>18 DEF DecideEdit, OthersWait, Go, books, copies, records, tally,
     SetStatus
<1>19. CASE Select(p)
  BY <1>0, <1>19 DEF Select, OthersWait, Go, books, copies, records, tally
<1>20. CASE PassDone(p)
  BY <1>0, <1>20 DEF PassDone, OthersWait, Go, books, copies, records, tally
<1>21. CASE ChargeNeeded(p)
  BY <1>0, <1>21 DEF ChargeNeeded, OthersWait, Go, books, copies, records, tally
<1>22. CASE AlreadyCharged(p)
  BY <1>22, Parted DEF AlreadyCharged
<1>23. CASE Capture(p)
  BY <1>0, <1>23 DEF Capture, OthersWait, Go, books, copies, records, tally
<1>24. CASE HoldGone(p)
  BY <1>0, <1>24 DEF HoldGone, OthersWait, Go, books, copies, records, tally
<1>25. CASE CaptureRefused(p)
  BY <1>0, <1>25 DEF CaptureRefused, OthersWait, Go, books, copies, records, tally
<1>26. CASE Book(p)
  BY <1>0, <1>26 DEF Book, OthersWait, Go, books, copies, records, tally
<1>27. CASE SetPending(p)
  BY <1>0, <1>27 DEF SetPending, OthersWait, Go, books, copies, records, tally,
     SetStatus
<1>28. CASE Lose(p)
  BY <1>0, <1>28 DEF Lose, OthersWait, Go, books, copies, records, tally
<1>29. CASE Forget(p)
  BY <1>0, <1>29 DEF Forget, OthersWait, Go, books, copies, records, tally, SetTrans
<1>30. CASE Promote(p)
  BY <1>0, <1>30 DEF Promote, OthersWait, Go, books, copies, records, tally, SetStatus
<1>31. CASE Expire(p)
  BY <1>0, <1>31 DEF Expire, OthersWait, Go, books, copies, records, tally, SetStatus
<1>32. CASE EndRequest(p)
  BY <1>32, Parted DEF EndRequest
<1>34. CASE FindPromoted(p)
  BY <1>0, <1>34 DEF FindPromoted, OthersWait, Go, books, copies, records, tally
<1>33. CASE \E c \in Campaigns : Take(p, c)
  BY <1>0, <1>33 DEF Take, OthersWait, Go, books, copies, records, tally
<1>. QED
  BY <1>1, <1>2, <1>3, <1>4, <1>5, <1>6, <1>7, <1>8, <1>9, <1>10, <1>11, <1>12, <1>13,
     <1>14, <1>15, <1>16, <1>17, <1>18, <1>19, <1>20, <1>21, <1>22, <1>23, <1>24, <1>25,
     <1>26, <1>27, <1>28, <1>29, <1>30, <1>31, <1>32, <1>33, <1>34 DEF PromoStep

LEMMA RequestAlone ==
    ASSUME Shapes, NEW p \in Workers, PromoRequest(p)
    PROVE  OthersWait(p)
BY Loaded DEF PromoRequest, UpdatePay, EditCampaign, DeleteCampaign, Terminate, Accept,
              Reject, EditPromo, RunJob, OnCampaign, OnLink

-----------------------------------------------------------------------------
(* Types, and what a worker has in hand.                                    *)

\* A decision, or none, keeps the types.
LEMMA StatusTyped ==
    ASSUME Shapes, NEW p \in Workers,
           \/ \E s \in PromoteStatuses : SetStatus(p, s)
           \/ UNCHANGED <<status, link, old, crossed>>
    PROVE  /\ status' \in PromoteStatuses /\ link' \in [Workers -> PromoteStatuses]
           /\ old' \in [Workers -> BOOLEAN] /\ crossed' \in BOOLEAN
<1>0. /\ status \in PromoteStatuses /\ link \in [Workers -> PromoteStatuses]
      /\ old \in [Workers -> BOOLEAN] /\ crossed \in BOOLEAN
  BY DEF Shapes
<1>. QED
  BY <1>0, StatusSet

\* Every step, and every request, keeps the types.
LEMMA StepShapes ==
    ASSUME Shapes, NEW p \in Workers, Route(p), PromoStep(p)
    PROVE  Shapes'
<1>0. /\ status \in PromoteStatuses
      /\ camp \in [Campaigns -> [trans : 0 .. MaxTrans, when : Whens,
                                  scheduled : BOOLEAN, deleted : BOOLEAN]]
      /\ bids \in [Trans -> [campaign : Campaigns \cup {NoCampaign},
                            status : {"none", "AUTH", "CHARGE", "VOID"}]]
      /\ gate \in [Trans -> {"none", "authed", "captured", "settled", "voided", "expired"}]
      /\ doing \in [Workers -> Places]
      /\ op \in [Workers -> Ops]
      /\ at \in [Workers -> Campaigns \cup {NoCampaign}]
      /\ trans \in [Workers -> [Campaigns -> 0 .. MaxTrans]]
      /\ link \in [Workers -> PromoteStatuses]
      /\ t \in [Workers -> 0 .. MaxTrans]
      /\ stage \in [Workers -> {"none", "today", "tomorrow", "promote"}]
      /\ todo \in [Workers -> SUBSET Campaigns]
      /\ live \in [Workers -> BOOLEAN]
      /\ old \in [Workers -> BOOLEAN]
      /\ moved \in [Workers -> SUBSET Campaigns]
      /\ approved \in BOOLEAN
      /\ crossed \in BOOLEAN
  BY DEF Shapes
<1>a. camp \in [Campaigns -> [trans : 0 .. MaxTrans, when : Whens,
                                  scheduled : BOOLEAN, deleted : BOOLEAN]]
  BY <1>0
<1>b. bids \in [Trans -> [campaign : Campaigns \cup {NoCampaign},
                            status : {"none", "AUTH", "CHARGE", "VOID"}]]
  BY <1>0
<1>1. CASE NothingToVoid(p)
  <2>1. UNCHANGED <<status, camp, bids, gate, op, at, trans, link, t, stage,
                    todo, live, old, moved, approved, crossed>>
    BY <1>1 DEF NothingToVoid, Go, books, copies, records, tally
  <2>2. doing' \in [Workers -> Places]
    BY <1>0, <1>1 DEF NothingToVoid, Go, Places, OnOne, OnAll, AfterVoid, Route
  <2>. QED
    BY <1>0, <2>1, <2>2 DEF Shapes
<1>2. CASE VoidBid(p)
  <2>1. UNCHANGED <<status, camp, gate, op, at, trans, link, t, stage, todo,
                    live, old, moved, approved, crossed>>
    BY <1>2 DEF VoidBid, Go, books, copies, records, tally
  <2>2. doing' \in [Workers -> Places]
    BY <1>0, <1>2 DEF VoidBid, Go, Places, OnOne, OnAll
  <2>3. bids' = [bids EXCEPT ![Mine(p)].status = "VOID"] /\ at[p] \in Campaigns
    BY <1>2 DEF VoidBid, Route, OnOne
  <2>4. bids' \in [Trans -> [campaign : Campaigns \cup {NoCampaign},
                            status : {"none", "AUTH", "CHARGE", "VOID"}]]
    BY <1>b, <2>3
  <2>. QED
    BY <1>0, <2>1, <2>2, <2>3, <2>4 DEF Shapes
<1>3. CASE GatewayVoid(p)
  <2>1. UNCHANGED <<status, camp, bids, op, at, trans, link, t, stage, todo,
                    live, old, moved, approved, crossed>>
    BY <1>3 DEF GatewayVoid, Go, books, copies, records, tally
  <2>2. doing' \in [Workers -> Places]
    BY <1>0, <1>3 DEF GatewayVoid, Go, Places, OnOne, OnAll
  <2>3. gate' \in [Trans -> {"none", "authed", "captured", "settled", "voided", "expired"}]
    BY <1>0, <1>3, <2>1 DEF GatewayVoid, PromoteStatuses, Unpaid, Finished, Whens,
       Trans, Route, OnOne
  <2>. QED
    BY <1>0, <2>1, <2>2, <2>3 DEF Shapes
<1>4. CASE DropTrans(p)
  <2>1. UNCHANGED <<status, bids, gate, op, at, link, t, stage, todo, live,
                    old, approved, crossed>>
    BY <1>4 DEF DropTrans, Go, books, copies, records, tally, SetTrans
  <2>2. doing' \in [Workers -> Places]
    BY <1>0, <1>4 DEF DropTrans, Go, Places, OnOne, OnAll, AfterVoid, Route
  <2>3. at[p] \in Campaigns
    BY <1>4 DEF DropTrans, Route, OnOne
  <2>4. NoTransaction \in 0 .. MaxTrans
    BY <1>0 DEF NoTransaction
  <2>5. /\ camp' \in [Campaigns -> [trans : 0 .. MaxTrans, when : Whens,
                                  scheduled : BOOLEAN, deleted : BOOLEAN]]
        /\ trans' \in [Workers -> [Campaigns -> 0 .. MaxTrans]]
        /\ moved' \in [Workers -> SUBSET Campaigns]
    BY <1>4, <2>3, <2>4, TransSet DEF DropTrans
  <2>. QED
    BY <1>0, <2>1, <2>2, <2>3, <2>4, <2>5 DEF Shapes
<1>5. CASE Authorise(p)
  <2>1. UNCHANGED <<status, camp, bids, op, at, trans, link, stage, todo,
                    live, old, moved, approved, crossed>>
    BY <1>5 DEF Authorise, Go, books, copies, records, tally
  <2>2. doing' \in [Workers -> Places]
    BY <1>0, <1>5 DEF Authorise, Go, Places, OnOne, OnAll
  <2>3. gate' \in [Trans -> {"none", "authed", "captured", "settled", "voided", "expired"}]
    BY <1>0, <1>5, <2>1 DEF Authorise, PromoteStatuses, Unpaid, Finished, Whens, Trans,
       Route, OnOne
  <2>4. t' \in [Workers -> 0 .. MaxTrans]
    BY <1>0, <1>5, <2>1 DEF Authorise, PromoteStatuses, Unpaid, Finished, Whens, Trans,
       Route, OnOne
  <2>. QED
    BY <1>0, <2>1, <2>2, <2>3, <2>4 DEF Shapes
<1>6. CASE AuthRefused(p)
  BY <1>0, <1>6, Gone DEF AuthRefused, Shapes, books
<1>7. CASE NewBid(p)
  <2>1. UNCHANGED <<status, camp, gate, op, at, trans, link, t, stage, todo,
                    live, old, moved, approved, crossed>>
    BY <1>7 DEF NewBid, Go, books, copies, records, tally
  <2>2. doing' \in [Workers -> Places]
    BY <1>0, <1>7 DEF NewBid, Go, Places, OnOne, OnAll
  <2>0. [campaign |-> at[p], status |-> "AUTH"] \in
          [campaign : Campaigns \cup {NoCampaign}, status : {"none", "AUTH", "CHARGE", "VOID"}]
    BY <1>0
  <2>3. /\ bids' = [bids EXCEPT ![t[p]] = [campaign |-> at[p], status |-> "AUTH"]]
        /\ at[p] \in Campaigns
    BY <1>7 DEF NewBid, Route, OnOne
  <2>4. bids' \in [Trans -> [campaign : Campaigns \cup {NoCampaign},
                            status : {"none", "AUTH", "CHARGE", "VOID"}]]
    BY <1>b, <2>3, <2>0
  <2>. QED
    BY <1>0, <2>1, <2>2, <2>3, <2>4 DEF Shapes
<1>8. CASE RaiseStatus(p)
  <2>1. UNCHANGED <<camp, bids, gate, op, at, trans, t, stage, todo, live,
                    moved, approved>>
    BY <1>8 DEF RaiseStatus, Go, books, copies, records, tally
  <2>2. doing' \in [Workers -> Places]
    BY <1>0, <1>8 DEF RaiseStatus, Go, Places, OnOne, OnAll
  <2>3. \E s \in PromoteStatuses : SetStatus(p, s)
    <3>1. /\ link[p] \in PromoteStatuses /\ AcceptedStatus \in PromoteStatuses
          /\ Unseen \in PromoteStatuses
      BY <1>0 DEF PromoteStatuses, Unpaid, Unseen, AcceptedStatus, Finished
    <3>2. (CASE link[p] = Finished -> AcceptedStatus
             [] link[p] < Unseen   -> Unseen
             [] OTHER              -> link[p]) \in PromoteStatuses
      BY <3>1
    <3>. QED
      BY <1>8, <3>2 DEF RaiseStatus
  <2>4. /\ status' \in PromoteStatuses /\ link' \in [Workers -> PromoteStatuses]
        /\ old' \in [Workers -> BOOLEAN] /\ crossed' \in BOOLEAN
    BY <1>0, <2>3, StatusTyped
  <2>. QED
    BY <1>0, <2>1, <2>2, <2>3, <2>4 DEF Shapes
<1>9. CASE NewTrans(p)
  <2>1. UNCHANGED <<status, bids, gate, op, at, link, t, stage, todo, live,
                    old, approved, crossed>>
    BY <1>9 DEF NewTrans, Go, books, copies, records, tally, SetTrans
  <2>2. doing' \in [Workers -> Places]
    BY <1>0, <1>9 DEF NewTrans, Go, Places, OnOne, OnAll
  <2>3. at[p] \in Campaigns
    BY <1>9 DEF NewTrans, Route, OnOne
  <2>4. t[p] \in 0 .. MaxTrans
    BY <1>0 DEF NoTransaction
  <2>5. /\ camp' \in [Campaigns -> [trans : 0 .. MaxTrans, when : Whens,
                                  scheduled : BOOLEAN, deleted : BOOLEAN]]
        /\ trans' \in [Workers -> [Campaigns -> 0 .. MaxTrans]]
        /\ moved' \in [Workers -> SUBSET Campaigns]
    BY <1>9, <2>3, <2>4, TransSet DEF NewTrans
  <2>. QED
    BY <1>0, <2>1, <2>2, <2>3, <2>4, <2>5 DEF Shapes
<1>10. CASE Unschedule(p)
  <2>1. UNCHANGED <<status, bids, gate, op, at, trans, link, t, stage, todo,
                    live, old, moved, approved, crossed>>
    BY <1>10 DEF Unschedule, Go, books, copies, records, tally
  <2>2. doing' \in [Workers -> Places]
    BY <1>0, <1>10 DEF Unschedule, Go, Places, OnOne, OnAll, Route
  <2>3. camp' = [camp EXCEPT ![at[p]].scheduled = FALSE] /\ at[p] \in Campaigns
    BY <1>10 DEF Unschedule, Route, OnOne
  <2>4. camp' \in [Campaigns -> [trans : 0 .. MaxTrans, when : Whens,
                                  scheduled : BOOLEAN, deleted : BOOLEAN]]
    BY <1>a, <2>3
  <2>. QED
    BY <1>0, <2>1, <2>2, <2>3, <2>4 DEF Shapes
<1>11. CASE Schedule(p)
  <2>1. UNCHANGED <<status, bids, gate, op, at, trans, link, t, stage, todo,
                    live, old, moved, approved, crossed>>
    BY <1>11 DEF Schedule, Go, books, copies, records, tally
  <2>2. doing' \in [Workers -> Places]
    BY <1>0, <1>11 DEF Schedule, Go, Places, OnOne, OnAll
  <2>3. camp' = [camp EXCEPT ![at[p]].scheduled = TRUE] /\ at[p] \in Campaigns
    BY <1>11 DEF Schedule, Route, OnOne
  <2>4. camp' \in [Campaigns -> [trans : 0 .. MaxTrans, when : Whens,
                                  scheduled : BOOLEAN, deleted : BOOLEAN]]
    BY <1>a, <2>3
  <2>. QED
    BY <1>0, <2>1, <2>2, <2>3, <2>4 DEF Shapes
<1>12. CASE Delete(p)
  <2>1. UNCHANGED <<status, bids, gate, op, at, trans, link, t, stage, todo,
                    live, old, moved, approved, crossed>>
    BY <1>12 DEF Delete, Go, books, copies, records, tally
  <2>2. doing' \in [Workers -> Places]
    BY <1>0, <1>12 DEF Delete, Go, Places, OnOne, OnAll
  <2>3. camp' = [camp EXCEPT ![at[p]].deleted = TRUE] /\ at[p] \in Campaigns
    BY <1>12 DEF Delete, Route, OnOne
  <2>4. camp' \in [Campaigns -> [trans : 0 .. MaxTrans, when : Whens,
                                  scheduled : BOOLEAN, deleted : BOOLEAN]]
    BY <1>a, <2>3
  <2>. QED
    BY <1>0, <2>1, <2>2, <2>3, <2>4 DEF Shapes
<1>13. CASE CutShort(p)
  <2>1. UNCHANGED <<status, bids, gate, op, at, trans, link, t, stage, todo,
                    live, old, moved, approved, crossed>>
    BY <1>13 DEF CutShort, Go, books, copies, records, tally
  <2>2. doing' \in [Workers -> Places]
    BY <1>0, <1>13 DEF CutShort, Go, Places, OnOne, OnAll
  <2>3. camp' = [camp EXCEPT ![at[p]].when = "past"] /\ at[p] \in Campaigns
    BY <1>13 DEF CutShort, Route, OnOne
  <2>4. camp' \in [Campaigns -> [trans : 0 .. MaxTrans, when : Whens,
                                  scheduled : BOOLEAN, deleted : BOOLEAN]]
    BY <1>a, <2>3 DEF Whens
  <2>. QED
    BY <1>0, <2>1, <2>2, <2>3, <2>4 DEF Shapes
<1>14. CASE FinishLink(p)
  <2>1. UNCHANGED <<camp, bids, gate, op, at, trans, t, stage, todo, live,
                    moved, approved>>
    BY <1>14 DEF FinishLink, Go, books, copies, records, tally
  <2>2. doing' \in [Workers -> Places]
    BY <1>0, <1>14 DEF FinishLink, Go, Places, OnOne, OnAll
  <2>3. \/ \E s \in PromoteStatuses : SetStatus(p, s)
        \/ UNCHANGED <<status, link, old, crossed>>
    BY <1>0, <1>14 DEF FinishLink, PromoteStatuses, Unpaid, Unseen, AcceptedStatus,
       Rejected,
       Pending, Promoted, Finished
  <2>4. /\ status' \in PromoteStatuses /\ link' \in [Workers -> PromoteStatuses]
        /\ old' \in [Workers -> BOOLEAN] /\ crossed' \in BOOLEAN
    BY <1>0, <2>3, StatusTyped
  <2>. QED
    BY <1>0, <2>1, <2>2, <2>3, <2>4 DEF Shapes
<1>15. CASE DecideAccept(p)
  <2>1. UNCHANGED <<camp, bids, gate, op, at, trans, t, stage, todo, live,
                    moved>>
    BY <1>15 DEF DecideAccept, Go, books, copies, records, tally
  <2>2. doing' \in [Workers -> Places]
    BY <1>0, <1>15 DEF DecideAccept, Go, Places, OnOne, OnAll
  <2>3. (\E s \in PromoteStatuses : SetStatus(p, s))
    BY <1>0, <1>15 DEF DecideAccept, PromoteStatuses, Unpaid, Unseen, AcceptedStatus,
       Rejected,
       Pending, Promoted, Finished
  <2>4. /\ status' \in PromoteStatuses /\ link' \in [Workers -> PromoteStatuses]
        /\ old' \in [Workers -> BOOLEAN] /\ crossed' \in BOOLEAN
    BY <1>0, <2>3, StatusTyped
  <2>5. approved' \in BOOLEAN
    BY <1>0, <1>15, <2>1 DEF DecideAccept, PromoteStatuses, Unpaid, Finished, Whens,
       Trans, Route, OnOne
  <2>. QED
    BY <1>0, <2>1, <2>2, <2>3, <2>4, <2>5 DEF Shapes
<1>16. CASE SelectAccepted(p)
  <2>1. UNCHANGED <<status, camp, bids, gate, op, at, link, t, stage, live,
                    old, approved, crossed>>
    BY <1>16 DEF SelectAccepted, Go, books, copies, records, tally
  <2>2. doing' \in [Workers -> Places]
    BY <1>0, <1>16 DEF SelectAccepted, Go, Places, OnOne, OnAll
  <2>3. trans' \in [Workers -> [Campaigns -> 0 .. MaxTrans]]
    BY <1>0, <1>16, <2>1 DEF SelectAccepted, PromoteStatuses, Unpaid, Finished, Whens,
       Trans, Route, OnOne
  <2>4. moved' \in [Workers -> SUBSET Campaigns]
    BY <1>0, <1>16, <2>1 DEF SelectAccepted, PromoteStatuses, Unpaid, Finished, Whens,
       Trans, Route, OnOne
  <2>5. todo' \in [Workers -> SUBSET Campaigns]
    BY <1>0, <1>16, <2>1 DEF SelectAccepted, PromoteStatuses, Unpaid, Finished, Whens,
       Trans, Route, OnOne
  <2>. QED
    BY <1>0, <2>1, <2>2, <2>3, <2>4, <2>5 DEF Shapes
<1>17. CASE DecideReject(p)
  <2>1. UNCHANGED <<camp, bids, gate, op, at, trans, t, stage, todo, live,
                    moved>>
    BY <1>17 DEF DecideReject, Go, books, copies, records, tally
  <2>2. doing' \in [Workers -> Places]
    BY <1>0, <1>17 DEF DecideReject, Go, Places, OnOne, OnAll
  <2>3. (\E s \in PromoteStatuses : SetStatus(p, s))
    BY <1>0, <1>17 DEF DecideReject, PromoteStatuses, Unpaid, Unseen, AcceptedStatus,
       Rejected,
       Pending, Promoted, Finished
  <2>4. /\ status' \in PromoteStatuses /\ link' \in [Workers -> PromoteStatuses]
        /\ old' \in [Workers -> BOOLEAN] /\ crossed' \in BOOLEAN
    BY <1>0, <2>3, StatusTyped
  <2>5. approved' \in BOOLEAN
    BY <1>0, <1>17, <2>1 DEF DecideReject, PromoteStatuses, Unpaid, Finished, Whens,
       Trans, Route, OnOne
  <2>. QED
    BY <1>0, <2>1, <2>2, <2>3, <2>4, <2>5 DEF Shapes
<1>18. CASE DecideEdit(p)
  <2>1. UNCHANGED <<camp, bids, gate, op, at, trans, t, stage, todo, live,
                    moved>>
    BY <1>18 DEF DecideEdit, Go, books, copies, records, tally
  <2>2. doing' \in [Workers -> Places]
    BY <1>0, <1>18 DEF DecideEdit, Go, Places, OnOne, OnAll
  <2>3. (\E s \in PromoteStatuses : SetStatus(p, s))
    BY <1>0, <1>18 DEF DecideEdit, PromoteStatuses, Unpaid, Unseen, AcceptedStatus,
       Rejected,
       Pending, Promoted, Finished
  <2>4. /\ status' \in PromoteStatuses /\ link' \in [Workers -> PromoteStatuses]
        /\ old' \in [Workers -> BOOLEAN] /\ crossed' \in BOOLEAN
    BY <1>0, <2>3, StatusTyped
  <2>5. approved' \in BOOLEAN
    BY <1>0, <1>18, <2>1 DEF DecideEdit, PromoteStatuses, Unpaid, Finished, Whens,
       Trans, Route, OnOne
  <2>. QED
    BY <1>0, <2>1, <2>2, <2>3, <2>4, <2>5 DEF Shapes
<1>19. CASE Select(p)
  <2>1. UNCHANGED <<status, camp, bids, gate, op, at, t, stage, live,
                    approved, crossed>>
    BY <1>19 DEF Select, Go, books, copies, records, tally
  <2>2. doing' \in [Workers -> Places]
    BY <1>0, <1>19 DEF Select, Go, Places, OnOne, OnAll
  <2>3. trans' \in [Workers -> [Campaigns -> 0 .. MaxTrans]]
    BY <1>0, <1>19, <2>1 DEF Select, PromoteStatuses, Unpaid, Finished, Whens, Trans,
       Route, OnOne
  <2>4. link' \in [Workers -> PromoteStatuses]
    BY <1>0, <1>19, <2>1 DEF Select, PromoteStatuses, Unpaid, Finished, Whens, Trans,
       Route, OnOne
  <2>5. old' \in [Workers -> BOOLEAN]
    BY <1>0, <1>19, <2>1 DEF Select, PromoteStatuses, Unpaid, Finished, Whens, Trans,
       Route, OnOne
  <2>6. moved' \in [Workers -> SUBSET Campaigns]
    BY <1>0, <1>19, <2>1 DEF Select, PromoteStatuses, Unpaid, Finished, Whens, Trans,
       Route, OnOne
  <2>7. todo' \in [Workers -> SUBSET Campaigns]
    BY <1>0, <1>19, <2>1 DEF Select, PromoteStatuses, Unpaid, Finished, Whens, Trans,
       Route, OnOne
  <2>. QED
    BY <1>0, <2>1, <2>2, <2>3, <2>4, <2>5, <2>6, <2>7 DEF Shapes
<1>20. CASE PassDone(p)
  <2>1. UNCHANGED <<status, camp, bids, gate, op, trans, link, t, todo, live,
                    old, moved, approved, crossed>>
    BY <1>20 DEF PassDone, Go, books, copies, records, tally
  <2>2. doing' \in [Workers -> Places]
    BY <1>0, <1>20 DEF PassDone, Go, Places, OnOne, OnAll
  <2>3. at' \in [Workers -> Campaigns \cup {NoCampaign}]
    BY <1>0, <1>20, <2>1 DEF PassDone, PromoteStatuses, Unpaid, Finished, Whens, Trans,
       Route, OnOne
  <2>4. stage' \in [Workers -> {"none", "today", "tomorrow", "promote"}]
    BY <1>0, <1>20, <2>1 DEF PassDone, PromoteStatuses, Unpaid, Finished, Whens, Trans,
       Route, OnOne
  <2>. QED
    BY <1>0, <2>1, <2>2, <2>3, <2>4 DEF Shapes
<1>21. CASE ChargeNeeded(p)
  <2>1. UNCHANGED <<status, camp, bids, gate, op, at, trans, link, t, stage,
                    todo, live, old, moved, approved, crossed>>
    BY <1>21 DEF ChargeNeeded, Go, books, copies, records, tally
  <2>2. doing' \in [Workers -> Places]
    BY <1>0, <1>21 DEF ChargeNeeded, Go, Places, OnOne, OnAll, AfterCharge
  <2>. QED
    BY <1>0, <2>1, <2>2 DEF Shapes
<1>22. CASE AlreadyCharged(p)
  BY <1>0, <1>22, Gone DEF AlreadyCharged, Shapes, books
<1>23. CASE Capture(p)
  <2>1. UNCHANGED <<status, camp, bids, op, at, trans, link, t, stage, todo,
                    live, old, moved, approved, crossed>>
    BY <1>23 DEF Capture, Go, books, copies, records, tally
  <2>2. doing' \in [Workers -> Places]
    BY <1>0, <1>23 DEF Capture, Go, Places, OnOne, OnAll
  <2>3. gate' \in [Trans -> {"none", "authed", "captured", "settled", "voided", "expired"}]
    BY <1>0, <1>23, <2>1 DEF Capture, PromoteStatuses, Unpaid, Finished, Whens, Trans,
       Route, OnOne
  <2>. QED
    BY <1>0, <2>1, <2>2, <2>3 DEF Shapes
<1>24. CASE HoldGone(p)
  <2>1. UNCHANGED <<status, camp, bids, op, at, trans, link, t, stage, todo,
                    live, old, moved, approved, crossed>>
    BY <1>24 DEF HoldGone, Go, books, copies, records, tally
  <2>2. doing' \in [Workers -> Places]
    BY <1>0, <1>24 DEF HoldGone, Go, Places, OnOne, OnAll
  <2>3. gate' \in [Trans -> {"none", "authed", "captured", "settled", "voided", "expired"}]
    BY <1>0, <1>24, <2>1 DEF HoldGone, PromoteStatuses, Unpaid, Finished, Whens, Trans,
       Route, OnOne
  <2>. QED
    BY <1>0, <2>1, <2>2, <2>3 DEF Shapes
<1>25. CASE CaptureRefused(p)
  <2>1. UNCHANGED <<status, camp, bids, gate, op, at, trans, link, t, stage,
                    todo, live, old, moved, approved, crossed>>
    BY <1>25 DEF CaptureRefused, Go, books, copies, records, tally
  <2>2. doing' \in [Workers -> Places]
    BY <1>0, <1>25 DEF CaptureRefused, Go, Places, OnOne, OnAll, AfterCharge
  <2>. QED
    BY <1>0, <2>1, <2>2 DEF Shapes
<1>26. CASE Book(p)
  <2>1. UNCHANGED <<status, camp, gate, op, at, trans, link, t, stage, todo,
                    live, old, moved, approved, crossed>>
    BY <1>26 DEF Book, Go, books, copies, records, tally
  <2>2. doing' \in [Workers -> Places]
    BY <1>0, <1>26 DEF Book, Go, Places, OnOne, OnAll
  <2>3. bids' = [bids EXCEPT ![Mine(p)].status = "CHARGE"] /\ at[p] \in Campaigns
    BY <1>26 DEF Book, Route, OnOne
  <2>4. bids' \in [Trans -> [campaign : Campaigns \cup {NoCampaign},
                            status : {"none", "AUTH", "CHARGE", "VOID"}]]
    BY <1>b, <2>3
  <2>. QED
    BY <1>0, <2>1, <2>2, <2>3, <2>4 DEF Shapes
<1>27. CASE SetPending(p)
  <2>1. UNCHANGED <<camp, bids, gate, op, at, trans, t, stage, todo, live,
                    moved, approved>>
    BY <1>27 DEF SetPending, Go, books, copies, records, tally
  <2>2. doing' \in [Workers -> Places]
    BY <1>0, <1>27 DEF SetPending, Go, Places, OnOne, OnAll, AfterCharge
  <2>3. \/ \E s \in PromoteStatuses : SetStatus(p, s)
        \/ UNCHANGED <<status, link, old, crossed>>
    BY <1>0, <1>27 DEF SetPending, PromoteStatuses, Unpaid, Unseen, AcceptedStatus,
       Rejected,
       Pending, Promoted, Finished
  <2>4. /\ status' \in PromoteStatuses /\ link' \in [Workers -> PromoteStatuses]
        /\ old' \in [Workers -> BOOLEAN] /\ crossed' \in BOOLEAN
    BY <1>0, <2>3, StatusTyped
  <2>. QED
    BY <1>0, <2>1, <2>2, <2>3, <2>4 DEF Shapes
<1>28. CASE Lose(p)
  <2>1. UNCHANGED <<status, camp, gate, op, at, trans, link, t, stage, todo,
                    live, old, moved, approved, crossed>>
    BY <1>28 DEF Lose, Go, books, copies, records, tally
  <2>2. doing' \in [Workers -> Places]
    BY <1>0, <1>28 DEF Lose, Go, Places, OnOne, OnAll
  <2>3. bids' = [bids EXCEPT ![Mine(p)].status = "VOID"] /\ at[p] \in Campaigns
    BY <1>28 DEF Lose, Route, OnOne
  <2>4. bids' \in [Trans -> [campaign : Campaigns \cup {NoCampaign},
                            status : {"none", "AUTH", "CHARGE", "VOID"}]]
    BY <1>b, <2>3
  <2>. QED
    BY <1>0, <2>1, <2>2, <2>3, <2>4 DEF Shapes
<1>29. CASE Forget(p)
  <2>1. UNCHANGED <<status, bids, gate, op, at, link, t, stage, todo, live,
                    old, approved, crossed>>
    BY <1>29 DEF Forget, Go, books, copies, records, tally, SetTrans
  <2>2. doing' \in [Workers -> Places]
    BY <1>0, <1>29 DEF Forget, Go, Places, OnOne, OnAll, AfterCharge
  <2>3. at[p] \in Campaigns
    BY <1>29 DEF Forget, Route, OnOne
  <2>4. NoTransaction \in 0 .. MaxTrans
    BY <1>0 DEF NoTransaction
  <2>5. /\ camp' \in [Campaigns -> [trans : 0 .. MaxTrans, when : Whens,
                                  scheduled : BOOLEAN, deleted : BOOLEAN]]
        /\ trans' \in [Workers -> [Campaigns -> 0 .. MaxTrans]]
        /\ moved' \in [Workers -> SUBSET Campaigns]
    BY <1>29, <2>3, <2>4, TransSet DEF Forget
  <2>. QED
    BY <1>0, <2>1, <2>2, <2>3, <2>4, <2>5 DEF Shapes
<1>30. CASE Promote(p)
  <2>1. UNCHANGED <<camp, bids, gate, op, at, trans, t, stage, todo, moved,
                    approved>>
    BY <1>30 DEF Promote, Go, books, copies, records, tally
  <2>2. doing' \in [Workers -> Places]
    BY <1>0, <1>30 DEF Promote, Go, Places, OnOne, OnAll
  <2>3. \/ \E s \in PromoteStatuses : SetStatus(p, s)
        \/ UNCHANGED <<status, link, old, crossed>>
    BY <1>0, <1>30 DEF Promote, PromoteStatuses, Unpaid, Unseen, AcceptedStatus,
       Rejected, Pending, Promoted, Finished
  <2>4. /\ status' \in PromoteStatuses /\ link' \in [Workers -> PromoteStatuses]
        /\ old' \in [Workers -> BOOLEAN] /\ crossed' \in BOOLEAN
    BY <1>0, <2>3, StatusTyped
  <2>5. live' \in [Workers -> BOOLEAN]
    BY <1>0, <1>30, <2>1 DEF Promote, PromoteStatuses, Unpaid, Finished, Whens, Trans,
       Route, OnOne
  <2>. QED
    BY <1>0, <2>1, <2>2, <2>3, <2>4, <2>5 DEF Shapes
<1>31. CASE Expire(p)
  <2>1. UNCHANGED <<camp, bids, gate, op, at, trans, t, stage, todo, live, moved,
                    approved>>
    BY <1>31 DEF Expire, Go, books, copies, records, tally
  <2>2. doing' \in [Workers -> Places]
    BY <1>0, <1>31 DEF Expire, Go, Places, OnOne, OnAll
  <2>3. \E s \in PromoteStatuses : SetStatus(p, s)
    BY <1>31 DEF Expire, PromoteStatuses, Unpaid, Finished
  <2>4. /\ status' \in PromoteStatuses /\ link' \in [Workers -> PromoteStatuses]
        /\ old' \in [Workers -> BOOLEAN] /\ crossed' \in BOOLEAN
    BY <1>0, <2>3, StatusTyped
  <2>. QED
    BY <1>0, <2>1, <2>2, <2>4 DEF Shapes
<1>34. CASE FindPromoted(p)
  <2>1. UNCHANGED <<status, camp, bids, gate, op, at, trans, t, stage, todo, live,
                    moved, approved, crossed>>
    BY <1>34 DEF FindPromoted, Go, books, copies, records, tally
  <2>2. doing' \in [Workers -> Places]
    BY <1>0, <1>34 DEF FindPromoted, Go, Places, OnOne, OnAll
  <2>3. link' \in [Workers -> PromoteStatuses] /\ old' \in [Workers -> BOOLEAN]
    BY <1>0, <1>34 DEF FindPromoted
  <2>. QED
    BY <1>0, <2>1, <2>2, <2>3 DEF Shapes
<1>32. CASE EndRequest(p)
  BY <1>0, <1>32, Gone DEF EndRequest, Shapes, books
<1>33. CASE \E c \in Campaigns : Take(p, c)
  <2>1. UNCHANGED <<status, camp, bids, gate, op, trans, link, t, stage, live,
                    old, moved, approved, crossed>>
    BY <1>33 DEF Take, Go, books, copies, records, tally
  <2>2. doing' \in [Workers -> Places]
    BY <1>0, <1>33 DEF Take, Go, Places, OnOne, OnAll
  <2>3. at' \in [Workers -> Campaigns \cup {NoCampaign}]
    BY <1>0, <1>33, <2>1 DEF Take, PromoteStatuses, Unpaid, Finished, Whens, Trans,
       Route, OnOne
  <2>4. todo' \in [Workers -> SUBSET Campaigns]
    BY <1>0, <1>33, <2>1 DEF Take, PromoteStatuses, Unpaid, Finished, Whens, Trans,
       Route, OnOne
  <2>. QED
    BY <1>0, <2>1, <2>2, <2>3, <2>4 DEF Shapes
<1>. QED
  BY <1>1, <1>2, <1>3, <1>4, <1>5, <1>6, <1>7, <1>8, <1>9, <1>10, <1>11, <1>12, <1>13,
     <1>14, <1>15, <1>16, <1>17, <1>18, <1>19, <1>20, <1>21, <1>22, <1>23, <1>24, <1>25,
     <1>26, <1>27, <1>28, <1>29, <1>30, <1>31, <1>32, <1>33, <1>34 DEF PromoStep


\* Where a step leads its worker, with what in hand.
LEMMA StepRoute ==
    ASSUME Shapes, NEW p \in Workers, Route(p), Eye(p), PromoStep(p)
    PROVE  Route(p)' /\ Eye(p)'
<1>0. /\ doing \in [Workers -> Places] /\ op \in [Workers -> Ops]
      /\ at \in [Workers -> Campaigns \cup {NoCampaign}]
      /\ trans \in [Workers -> [Campaigns -> 0 .. MaxTrans]]
      /\ link \in [Workers -> PromoteStatuses] /\ t \in [Workers -> 0 .. MaxTrans]
      /\ todo \in [Workers -> SUBSET Campaigns] /\ status \in PromoteStatuses
  BY DEF Shapes
<1>1. CASE NothingToVoid(p)
  <2>1. /\ doing'[p] = AfterVoid(p) /\ op'[p] = op[p] /\ at'[p] = at[p]
        /\ trans'[p] = trans[p] /\ link'[p] = link[p] /\ t'[p] = t[p]
        /\ todo'[p] = todo[p]
    BY <1>0, <1>1 DEF NothingToVoid, Go, books, copies, records, tally
  <2>2. doing[p] = "void" /\ Mine(p) = NoTransaction
    BY <1>1 DEF NothingToVoid
  <2>. QED
    BY <1>0, <2>1, <2>2 DEF Route, Eye, Mine, OnOne, OnAll, HasTrans, HasPaid,
       Charging, Accepted, NoTransaction, PromoteStatuses, Unpaid, Unseen,
       AcceptedStatus, Rejected, Pending, Promoted, Finished, AfterVoid
<1>2. CASE VoidBid(p)
  <2>1. /\ doing'[p] = "gwvoid" /\ op'[p] = op[p] /\ at'[p] = at[p]
        /\ trans'[p] = trans[p] /\ link'[p] = link[p] /\ t'[p] = t[p]
        /\ todo'[p] = todo[p]
    BY <1>0, <1>2 DEF VoidBid, Go, books, copies, records, tally
  <2>2. doing[p] = "void" /\ Mine(p) # NoTransaction
    BY <1>2 DEF VoidBid
  <2>. QED
    BY <1>0, <2>1, <2>2 DEF Route, Eye, Mine, OnOne, OnAll, HasTrans, HasPaid,
       Charging, Accepted, NoTransaction, PromoteStatuses, Unpaid, Unseen,
       AcceptedStatus, Rejected, Pending, Promoted, Finished
<1>3. CASE GatewayVoid(p)
  <2>1. /\ doing'[p] = "drop" /\ op'[p] = op[p] /\ at'[p] = at[p]
        /\ trans'[p] = trans[p] /\ link'[p] = link[p] /\ t'[p] = t[p]
        /\ todo'[p] = todo[p]
    BY <1>0, <1>3 DEF GatewayVoid, Go, books, copies, records, tally
  <2>2. doing[p] = "gwvoid"
    BY <1>3 DEF GatewayVoid
  <2>. QED
    BY <1>0, <2>1, <2>2 DEF Route, Eye, Mine, OnOne, OnAll, HasTrans, HasPaid,
       Charging, Accepted, NoTransaction, PromoteStatuses, Unpaid, Unseen,
       AcceptedStatus, Rejected, Pending, Promoted, Finished
<1>4. CASE DropTrans(p)
  <2>1. /\ doing'[p] = AfterVoid(p) /\ op'[p] = op[p] /\ at'[p] = at[p]
        /\ trans'[p] = [trans[p] EXCEPT ![at[p]] = NoTransaction]
        /\ link'[p] = link[p] /\ t'[p] = t[p] /\ todo'[p] = todo[p]
    BY <1>0, <1>4 DEF DropTrans, Go, books, copies, records, tally, SetTrans, Mine
  <2>2. doing[p] = "drop"
    BY <1>4 DEF DropTrans
  <2>. QED
    BY <1>0, <2>1, <2>2 DEF Route, Eye, Mine, OnOne, OnAll, HasTrans, HasPaid,
       Charging, Accepted, NoTransaction, PromoteStatuses, Unpaid, Unseen,
       AcceptedStatus, Rejected, Pending, Promoted, Finished, AfterVoid
<1>5. CASE Authorise(p)
  <2>1. /\ doing'[p] = "newbid" /\ op'[p] = op[p] /\ at'[p] = at[p]
        /\ trans'[p] = trans[p] /\ link'[p] = link[p] /\ t'[p] \in Trans
        /\ todo'[p] = todo[p]
    BY <1>0, <1>5 DEF Authorise, Go, books, copies, records, tally
  <2>2. doing[p] = "auth"
    BY <1>5 DEF Authorise
  <2>. QED
    BY <1>0, <2>1, <2>2 DEF Route, Eye, Mine, OnOne, OnAll, HasTrans, HasPaid,
       Charging, Accepted, NoTransaction, PromoteStatuses, Unpaid, Unseen,
       AcceptedStatus, Rejected, Pending, Promoted, Finished, Trans
<1>6. CASE AuthRefused(p)
  BY <1>6, Gone DEF AuthRefused
<1>7. CASE NewBid(p)
  <2>1. /\ doing'[p] = "raise" /\ op'[p] = op[p] /\ at'[p] = at[p]
        /\ trans'[p] = trans[p] /\ link'[p] = link[p] /\ t'[p] = t[p]
        /\ todo'[p] = todo[p]
    BY <1>0, <1>7 DEF NewBid, Go, books, copies, records, tally
  <2>2. doing[p] = "newbid"
    BY <1>7 DEF NewBid
  <2>. QED
    BY <1>0, <2>1, <2>2 DEF Route, Eye, Mine, OnOne, OnAll, HasTrans, HasPaid,
       Charging, Accepted, NoTransaction, PromoteStatuses, Unpaid, Unseen,
       AcceptedStatus, Rejected, Pending, Promoted, Finished
<1>8. CASE RaiseStatus(p)
  <2>1. /\ doing'[p] = "settrans" /\ op'[p] = op[p] /\ at'[p] = at[p]
        /\ trans'[p] = trans[p] /\ (Accepted(link[p]) => Accepted(link'[p]))
        /\ t'[p] = t[p] /\ todo'[p] = todo[p]
    BY <1>0, <1>8 DEF RaiseStatus, Go, books, copies, records, tally, SetStatus,
       Accepted, NoTransaction, PromoteStatuses, Unpaid, Unseen, AcceptedStatus,
       Rejected, Pending, Promoted, Finished
  <2>2. doing[p] = "raise"
    BY <1>8 DEF RaiseStatus
  <2>. QED
    BY <1>0, <2>1, <2>2 DEF Route, Eye, Mine, OnOne, OnAll, HasTrans, HasPaid,
       Charging, Accepted, NoTransaction, PromoteStatuses, Unpaid, Unseen,
       AcceptedStatus, Rejected, Pending, Promoted, Finished
<1>9. CASE NewTrans(p)
  <2>1. /\ doing'[p] = "end" /\ op'[p] = op[p] /\ at'[p] = at[p]
        /\ trans'[p] = [trans[p] EXCEPT ![at[p]] = t[p]] /\ link'[p] = link[p]
        /\ t'[p] = t[p] /\ todo'[p] = todo[p]
    BY <1>0, <1>9 DEF NewTrans, Go, books, copies, records, tally, SetTrans, Mine
  <2>2. doing[p] = "settrans"
    BY <1>9 DEF NewTrans
  <2>. QED
    BY <1>0, <2>1, <2>2 DEF Route, Eye, Mine, OnOne, OnAll, HasTrans, HasPaid,
       Charging, Accepted, NoTransaction, PromoteStatuses, Unpaid, Unseen,
       AcceptedStatus, Rejected, Pending, Promoted, Finished
<1>10. CASE Unschedule(p)
  <2>1. /\ doing'[p] = (CASE op[p] = "delete"    -> "void"
                          [] op[p] = "terminate" -> "cut"
                          [] op[p] = "edit"      -> "schedule")
        /\ op'[p] = op[p] /\ at'[p] = at[p] /\ trans'[p] = trans[p]
        /\ link'[p] = link[p] /\ t'[p] = t[p] /\ todo'[p] = todo[p]
    BY <1>0, <1>10 DEF Unschedule, Go, books, copies, records, tally
  <2>2. doing[p] = "unschedule"
    BY <1>10 DEF Unschedule
  <2>. QED
    BY <1>0, <2>1, <2>2 DEF Route, Eye, Mine, OnOne, OnAll, HasTrans, HasPaid,
       Charging, Accepted, NoTransaction, PromoteStatuses, Unpaid, Unseen,
       AcceptedStatus, Rejected, Pending, Promoted, Finished
<1>11. CASE Schedule(p)
  <2>1. /\ doing'[p] = "end" /\ op'[p] = op[p] /\ at'[p] = at[p]
        /\ trans'[p] = trans[p] /\ link'[p] = link[p] /\ t'[p] = t[p]
        /\ todo'[p] = todo[p]
    BY <1>0, <1>11 DEF Schedule, Go, books, copies, records, tally
  <2>2. doing[p] = "schedule"
    BY <1>11 DEF Schedule
  <2>. QED
    BY <1>0, <2>1, <2>2 DEF Route, Eye, Mine, OnOne, OnAll, HasTrans, HasPaid,
       Charging, Accepted, NoTransaction, PromoteStatuses, Unpaid, Unseen,
       AcceptedStatus, Rejected, Pending, Promoted, Finished
<1>12. CASE Delete(p)
  <2>1. /\ doing'[p] = "end" /\ op'[p] = op[p] /\ at'[p] = at[p]
        /\ trans'[p] = trans[p] /\ link'[p] = link[p] /\ t'[p] = t[p]
        /\ todo'[p] = todo[p]
    BY <1>0, <1>12 DEF Delete, Go, books, copies, records, tally
  <2>2. doing[p] = "delete"
    BY <1>12 DEF Delete
  <2>. QED
    BY <1>0, <2>1, <2>2 DEF Route, Eye, Mine, OnOne, OnAll, HasTrans, HasPaid,
       Charging, Accepted, NoTransaction, PromoteStatuses, Unpaid, Unseen,
       AcceptedStatus, Rejected, Pending, Promoted, Finished
<1>13. CASE CutShort(p)
  <2>1. /\ doing'[p] = "others" /\ op'[p] = op[p] /\ at'[p] = at[p]
        /\ trans'[p] = trans[p] /\ link'[p] = link[p] /\ t'[p] = t[p]
        /\ todo'[p] = todo[p]
    BY <1>0, <1>13 DEF CutShort, Go, books, copies, records, tally
  <2>2. doing[p] = "cut"
    BY <1>13 DEF CutShort
  <2>. QED
    BY <1>0, <2>1, <2>2 DEF Route, Eye, Mine, OnOne, OnAll, HasTrans, HasPaid,
       Charging, Accepted, NoTransaction, PromoteStatuses, Unpaid, Unseen,
       AcceptedStatus, Rejected, Pending, Promoted, Finished
<1>14. CASE FinishLink(p)
  <2>1. /\ doing'[p] = "end" /\ op'[p] = op[p] /\ at'[p] = at[p]
        /\ trans'[p] = trans[p] /\ link'[p] \in {link[p], Finished} /\ t'[p] = t[p]
        /\ todo'[p] = todo[p]
    BY <1>0, <1>14 DEF FinishLink, Go, books, copies, records, tally, SetStatus
  <2>2. doing[p] = "others"
    BY <1>14 DEF FinishLink
  <2>. QED
    BY <1>0, <2>1, <2>2 DEF Route, Eye, Mine, OnOne, OnAll, HasTrans, HasPaid,
       Charging, Accepted, NoTransaction, PromoteStatuses, Unpaid, Unseen,
       AcceptedStatus, Rejected, Pending, Promoted, Finished
<1>15. CASE DecideAccept(p)
  <2>1. /\ doing'[p] = "select" /\ op'[p] = op[p] /\ at'[p] = at[p]
        /\ trans'[p] = trans[p] /\ link'[p] = AcceptedStatus /\ t'[p] = t[p]
        /\ todo'[p] = todo[p]
    BY <1>0, <1>15 DEF DecideAccept, Go, books, copies, records, tally, SetStatus
  <2>2. doing[p] = "decide"
    BY <1>15 DEF DecideAccept
  <2>. QED
    BY <1>0, <2>1, <2>2 DEF Route, Eye, Mine, OnOne, OnAll, HasTrans, HasPaid,
       Charging, Accepted, NoTransaction, PromoteStatuses, Unpaid, Unseen,
       AcceptedStatus, Rejected, Pending, Promoted, Finished
<1>16. CASE SelectAccepted(p)
  <2>1. /\ doing'[p] = "each" /\ op'[p] = op[p] /\ at'[p] = at[p]
        /\ trans'[p] = [c \in Campaigns |-> camp[c].trans] /\ link'[p] = link[p]
        /\ t'[p] = t[p]
        /\ \A c \in todo'[p] : Accepted(link[p]) /\ c \in Campaigns /\ camp[c].trans # NoTransaction
    BY <1>0, <1>16 DEF SelectAccepted, Go, books, copies, records, tally
  <2>2. doing[p] = "select"
    BY <1>16 DEF SelectAccepted
  <2>. QED
    BY <1>0, <2>1, <2>2 DEF Route, Eye, Mine, OnOne, OnAll, HasTrans, HasPaid,
       Charging, Accepted, NoTransaction, PromoteStatuses, Unpaid, Unseen,
       AcceptedStatus, Rejected, Pending, Promoted, Finished
<1>17. CASE DecideReject(p)
  <2>1. /\ doing'[p] = "end" /\ op'[p] = op[p] /\ at'[p] = at[p]
        /\ trans'[p] = trans[p] /\ t'[p] = t[p] /\ todo'[p] = todo[p]
    BY <1>0, <1>17 DEF DecideReject, Go, books, copies, records, tally, SetStatus
  <2>2. doing[p] = "decide"
    BY <1>17 DEF DecideReject
  <2>. QED
    BY <1>0, <2>1, <2>2 DEF Route, Eye, Mine, OnOne, OnAll, HasTrans, HasPaid,
       Charging, Accepted, NoTransaction, PromoteStatuses, Unpaid, Unseen,
       AcceptedStatus, Rejected, Pending, Promoted, Finished
<1>18. CASE DecideEdit(p)
  <2>1. /\ doing'[p] = "end" /\ op'[p] = op[p] /\ at'[p] = at[p]
        /\ trans'[p] = trans[p] /\ t'[p] = t[p] /\ todo'[p] = todo[p]
    BY <1>0, <1>18 DEF DecideEdit, Go, books, copies, records, tally, SetStatus
  <2>2. doing[p] = "decide"
    BY <1>18 DEF DecideEdit
  <2>. QED
    BY <1>0, <2>1, <2>2 DEF Route, Eye, Mine, OnOne, OnAll, HasTrans, HasPaid,
       Charging, Accepted, NoTransaction, PromoteStatuses, Unpaid, Unseen,
       AcceptedStatus, Rejected, Pending, Promoted, Finished
<1>19. CASE Select(p)
  <2>1. /\ doing'[p] = "each" /\ op'[p] = op[p] /\ at'[p] = at[p]
        /\ trans'[p] = [c \in Campaigns |-> camp[c].trans] /\ link'[p] = status
        /\ t'[p] = t[p]
        /\ \A c \in todo'[p] : Accepted(status) /\ c \in Campaigns /\ camp[c].trans # NoTransaction
    BY <1>0, <1>19 DEF Select, Go, books, copies, records, tally
  <2>2. doing[p] = "select"
    BY <1>19 DEF Select
  <2>. QED
    BY <1>0, <2>1, <2>2 DEF Route, Eye, Mine, OnOne, OnAll, HasTrans, HasPaid,
       Charging, Accepted, NoTransaction, PromoteStatuses, Unpaid, Unseen,
       AcceptedStatus, Rejected, Pending, Promoted, Finished
<1>20. CASE PassDone(p)
  <2>1. /\ doing'[p] \in {"end", "expire", "select"} /\ op'[p] = op[p]
        /\ at'[p] = NoCampaign /\ trans'[p] = trans[p] /\ link'[p] = link[p]
        /\ t'[p] = t[p] /\ todo'[p] = todo[p]
    BY <1>0, <1>20 DEF PassDone, Go, books, copies, records, tally
  <2>2. doing[p] = "each" /\ todo[p] = {}
    BY <1>20 DEF PassDone
  <2>. QED
    BY <1>0, <2>1, <2>2 DEF Route, Eye, Mine, OnOne, OnAll, HasTrans, HasPaid,
       Charging, Accepted, NoTransaction, PromoteStatuses, Unpaid, Unseen,
       AcceptedStatus, Rejected, Pending, Promoted, Finished
<1>21. CASE ChargeNeeded(p)
  <2>1. /\ doing'[p] \in {AfterCharge(p), "capture"} /\ op'[p] = op[p]
        /\ at'[p] = at[p] /\ trans'[p] = trans[p] /\ link'[p] = link[p]
        /\ t'[p] = t[p] /\ todo'[p] = todo[p]
    BY <1>0, <1>21 DEF ChargeNeeded, Go, books, copies, records, tally
  <2>2. doing[p] = "charge"
    BY <1>21 DEF ChargeNeeded
  <2>. QED
    BY <1>0, <2>1, <2>2 DEF Route, Eye, Mine, OnOne, OnAll, HasTrans, HasPaid,
       Charging, Accepted, NoTransaction, PromoteStatuses, Unpaid, Unseen,
       AcceptedStatus, Rejected, Pending, Promoted, Finished, AfterCharge
<1>22. CASE AlreadyCharged(p)
  BY <1>22, Gone DEF AlreadyCharged
<1>23. CASE Capture(p)
  <2>1. /\ doing'[p] = "booked" /\ op'[p] = op[p] /\ at'[p] = at[p]
        /\ trans'[p] = trans[p] /\ link'[p] = link[p] /\ t'[p] = t[p]
        /\ todo'[p] = todo[p]
    BY <1>0, <1>23 DEF Capture, Go, books, copies, records, tally
  <2>2. doing[p] = "capture"
    BY <1>23 DEF Capture
  <2>. QED
    BY <1>0, <2>1, <2>2 DEF Route, Eye, Mine, OnOne, OnAll, HasTrans, HasPaid,
       Charging, Accepted, NoTransaction, PromoteStatuses, Unpaid, Unseen,
       AcceptedStatus, Rejected, Pending, Promoted, Finished
<1>24. CASE HoldGone(p)
  <2>1. /\ doing'[p] = "lost" /\ op'[p] = op[p] /\ at'[p] = at[p]
        /\ trans'[p] = trans[p] /\ link'[p] = link[p] /\ t'[p] = t[p]
        /\ todo'[p] = todo[p]
    BY <1>0, <1>24 DEF HoldGone, Go, books, copies, records, tally
  <2>2. doing[p] = "capture"
    BY <1>24 DEF HoldGone
  <2>. QED
    BY <1>0, <2>1, <2>2 DEF Route, Eye, Mine, OnOne, OnAll, HasTrans, HasPaid,
       Charging, Accepted, NoTransaction, PromoteStatuses, Unpaid, Unseen,
       AcceptedStatus, Rejected, Pending, Promoted, Finished
<1>25. CASE CaptureRefused(p)
  <2>1. /\ doing'[p] = AfterCharge(p) /\ op'[p] = op[p] /\ at'[p] = at[p]
        /\ trans'[p] = trans[p] /\ link'[p] = link[p] /\ t'[p] = t[p]
        /\ todo'[p] = todo[p]
    BY <1>0, <1>25 DEF CaptureRefused, Go, books, copies, records, tally
  <2>2. doing[p] = "capture"
    BY <1>25 DEF CaptureRefused
  <2>. QED
    BY <1>0, <2>1, <2>2 DEF Route, Eye, Mine, OnOne, OnAll, HasTrans, HasPaid,
       Charging, Accepted, NoTransaction, PromoteStatuses, Unpaid, Unseen,
       AcceptedStatus, Rejected, Pending, Promoted, Finished, AfterCharge
<1>26. CASE Book(p)
  <2>1. /\ doing'[p] = "pending" /\ op'[p] = op[p] /\ at'[p] = at[p]
        /\ trans'[p] = trans[p] /\ link'[p] = link[p] /\ t'[p] = t[p]
        /\ todo'[p] = todo[p]
    BY <1>0, <1>26 DEF Book, Go, books, copies, records, tally
  <2>2. doing[p] = "booked"
    BY <1>26 DEF Book
  <2>. QED
    BY <1>0, <2>1, <2>2 DEF Route, Eye, Mine, OnOne, OnAll, HasTrans, HasPaid,
       Charging, Accepted, NoTransaction, PromoteStatuses, Unpaid, Unseen,
       AcceptedStatus, Rejected, Pending, Promoted, Finished
<1>27. CASE SetPending(p)
  <2>1. /\ doing'[p] = AfterCharge(p) /\ op'[p] = op[p] /\ at'[p] = at[p]
        /\ trans'[p] = trans[p] /\ link'[p] \in {Promoted, Pending} /\ t'[p] = t[p]
        /\ todo'[p] = todo[p]
    BY <1>0, <1>27 DEF SetPending, Go, books, copies, records, tally, SetStatus
  <2>2. doing[p] = "pending"
    BY <1>27 DEF SetPending
  <2>. QED
    BY <1>0, <2>1, <2>2 DEF Route, Eye, Mine, OnOne, OnAll, HasTrans, HasPaid,
       Charging, Accepted, NoTransaction, PromoteStatuses, Unpaid, Unseen,
       AcceptedStatus, Rejected, Pending, Promoted, Finished, AfterCharge
<1>28. CASE Lose(p)
  <2>1. /\ doing'[p] = "forget" /\ op'[p] = op[p] /\ at'[p] = at[p]
        /\ trans'[p] = trans[p] /\ link'[p] = link[p] /\ t'[p] = t[p]
        /\ todo'[p] = todo[p]
    BY <1>0, <1>28 DEF Lose, Go, books, copies, records, tally
  <2>2. doing[p] = "lost"
    BY <1>28 DEF Lose
  <2>. QED
    BY <1>0, <2>1, <2>2 DEF Route, Eye, Mine, OnOne, OnAll, HasTrans, HasPaid,
       Charging, Accepted, NoTransaction, PromoteStatuses, Unpaid, Unseen,
       AcceptedStatus, Rejected, Pending, Promoted, Finished
<1>29. CASE Forget(p)
  <2>1. /\ doing'[p] = AfterCharge(p) /\ op'[p] = op[p] /\ at'[p] = at[p]
        /\ trans'[p] = [trans[p] EXCEPT ![at[p]] = NoTransaction]
        /\ link'[p] = link[p] /\ t'[p] = t[p] /\ todo'[p] = todo[p]
    BY <1>0, <1>29 DEF Forget, Go, books, copies, records, tally, SetTrans, Mine
  <2>2. doing[p] = "forget"
    BY <1>29 DEF Forget
  <2>. QED
    BY <1>0, <2>1, <2>2 DEF Route, Eye, Mine, OnOne, OnAll, HasTrans, HasPaid,
       Charging, Accepted, NoTransaction, PromoteStatuses, Unpaid, Unseen,
       AcceptedStatus, Rejected, Pending, Promoted, Finished, AfterCharge
<1>30. CASE Promote(p)
  <2>1. /\ doing'[p] = "each" /\ op'[p] = op[p] /\ at'[p] = at[p]
        /\ trans'[p] = trans[p] /\ link'[p] \in {link[p], Promoted} /\ t'[p] = t[p]
        /\ todo'[p] = todo[p]
    BY <1>0, <1>30 DEF Promote, Go, books, copies, records, tally, SetStatus
  <2>2. doing[p] = "promote"
    BY <1>30 DEF Promote
  <2>. QED
    BY <1>0, <2>1, <2>2 DEF Route, Eye, Mine, OnOne, OnAll, HasTrans, HasPaid,
       Charging, Accepted, NoTransaction, PromoteStatuses, Unpaid, Unseen,
       AcceptedStatus, Rejected, Pending, Promoted, Finished
<1>31. CASE Expire(p)
  <2>1. /\ doing'[p] = "end" /\ op'[p] = op[p] /\ at'[p] = at[p]
        /\ trans'[p] = trans[p] /\ link'[p] = Finished /\ t'[p] = t[p]
        /\ todo'[p] = todo[p]
    BY <1>0, <1>31 DEF Expire, Go, books, copies, records, tally, SetStatus
  <2>2. doing[p] = "finish"
    BY <1>31 DEF Expire
  <2>. QED
    BY <1>0, <2>1, <2>2 DEF Route, Eye, Mine, OnOne, OnAll, HasTrans, HasPaid,
       Charging, Accepted, NoTransaction, PromoteStatuses, Unpaid, Unseen,
       AcceptedStatus, Rejected, Pending, Promoted, Finished
<1>34. CASE FindPromoted(p)
  <2>1. /\ doing'[p] = (IF status = Promoted /\ ~live[p] THEN "finish" ELSE "end")
        /\ op'[p] = op[p] /\ at'[p] = at[p] /\ trans'[p] = trans[p]
        /\ link'[p] = status /\ t'[p] = t[p] /\ todo'[p] = todo[p]
    BY <1>0, <1>34 DEF FindPromoted, Go, books, copies, records, tally
  <2>2. doing[p] = "expire"
    BY <1>34 DEF FindPromoted
  <2>. QED
    BY <1>0, <2>1, <2>2 DEF Route, Eye, Mine, OnOne, OnAll, HasTrans, HasPaid,
       Charging, Accepted, NoTransaction, PromoteStatuses, Unpaid, Unseen,
       AcceptedStatus, Rejected, Pending, Promoted, Finished
<1>32. CASE EndRequest(p)
  BY <1>32, Gone DEF EndRequest
<1>33. CASE \E c \in Campaigns : Take(p, c)
  <2>0. PICK c \in Campaigns : Take(p, c)
    BY <1>33
  <2>1. /\ doing'[p] \in {"promote", "charge"} /\ op'[p] = op[p] /\ at'[p] = c
        /\ trans'[p] = trans[p] /\ link'[p] = link[p] /\ t'[p] = t[p]
        /\ todo'[p] = todo[p] \ {c}
    BY <1>0, <2>0 DEF Take, Go, books, copies, records, tally
  <2>2. doing[p] = "each" /\ c \in todo[p]
    BY <2>0 DEF Take
  <2>. QED
    BY <1>0, <2>1, <2>2 DEF Route, Eye, Mine, OnOne, OnAll, HasTrans, HasPaid,
       Charging, Accepted, NoTransaction, PromoteStatuses, Unpaid, Unseen,
       AcceptedStatus, Rejected, Pending, Promoted, Finished
<1>. QED
  BY <1>1, <1>2, <1>3, <1>4, <1>5, <1>6, <1>7, <1>8, <1>9, <1>10, <1>11, <1>12, <1>13,
     <1>14, <1>15, <1>16, <1>17, <1>18, <1>19, <1>20, <1>21, <1>22, <1>23, <1>24, <1>25,
     <1>26, <1>27, <1>28, <1>29, <1>30, <1>31, <1>32, <1>33, <1>34 DEF PromoStep


LEMMA RequestShapes ==
    ASSUME Shapes, NEW p \in Workers, PromoRequest(p)
    PROVE  Shapes'
<1>1. ASSUME NEW what \in Ops, NEW c \in Campaigns \cup {NoCampaign}, NEW label \in Places,
             LoadLink(p, what, c, label),
             stage' \in [Workers -> {"none", "today", "tomorrow", "promote"}]
      PROVE  Shapes'
  <2>0. /\ doing \in [Workers -> Places] /\ op \in [Workers -> Ops]
        /\ at \in [Workers -> Campaigns \cup {NoCampaign}]
        /\ trans \in [Workers -> [Campaigns -> 0 .. MaxTrans]]
        /\ link \in [Workers -> PromoteStatuses] /\ status \in PromoteStatuses
    BY DEF Shapes
  <2>1. camp \in [Campaigns -> [trans : 0 .. MaxTrans, when : Whens,
                                scheduled : BOOLEAN, deleted : BOOLEAN]]
    BY DEF Shapes
  <2>2. [d \in Campaigns |-> camp[d].trans] \in [Campaigns -> 0 .. MaxTrans]
    BY <2>1
  <2>3. /\ doing' \in [Workers -> Places] /\ op' \in [Workers -> Ops]
        /\ at' \in [Workers -> Campaigns \cup {NoCampaign}]
        /\ trans' \in [Workers -> [Campaigns -> 0 .. MaxTrans]]
        /\ link' \in [Workers -> PromoteStatuses]
    BY <1>1, <2>0, <2>2 DEF LoadLink, Go
  <2>4. UNCHANGED <<status, camp, bids, gate, t, todo, live, old, moved, approved, crossed>>
    BY <1>1 DEF LoadLink, books, records
  <2>. QED
    BY <1>1, <2>3, <2>4 DEF Shapes
<1>2. stage \in [Workers -> {"none", "today", "tomorrow", "promote"}]
  BY DEF Shapes
<1>3. {"void", "unschedule", "decide", "select"} \subseteq Places
  BY DEF Places, OnOne, OnAll
<1>. QED
  BY <1>1, <1>2, <1>3 DEF PromoRequest, UpdatePay, EditCampaign, DeleteCampaign,
     Terminate,
     Accept, Reject, EditPromo, RunJob, OnCampaign, OnLink, Ops

\* Where a request begins.
LEMMA RequestRoute ==
    ASSUME Shapes, NEW p \in Workers, Route(p), PromoRequest(p)
    PROVE  Route(p)' /\ Eye(p)'
<1>0. /\ doing \in [Workers -> Places] /\ op \in [Workers -> Ops]
      /\ at \in [Workers -> Campaigns \cup {NoCampaign}]
      /\ trans \in [Workers -> [Campaigns -> 0 .. MaxTrans]]
      /\ link \in [Workers -> PromoteStatuses]
  BY DEF Shapes
<1>1. ASSUME NEW what, NEW c, NEW label, LoadLink(p, what, c, label)
      PROVE  /\ doing'[p] = label /\ op'[p] = what /\ at'[p] = c /\ link'[p] = status
             /\ t'[p] = NoTransaction /\ todo'[p] = {}
  <2>1. doing[p] = "idle"
    BY <1>1 DEF LoadLink
  <2>2. t[p] = NoTransaction /\ todo[p] = {}
    BY <2>1 DEF Route
  <2>. QED
    BY <1>0, <1>1, <2>2 DEF LoadLink, Go
<1>2. ASSUME NEW c \in Campaigns,
             \/ OnCampaign(p, "pay", c, "void") \/ OnCampaign(p, "edit", c, "void")
             \/ OnCampaign(p, "delete", c, "unschedule")
             \/ LivePromo(c) /\ OnCampaign(p, "terminate", c, "unschedule")
      PROVE  Route(p)' /\ Eye(p)'
  <2>1. /\ doing'[p] \in {"void", "unschedule"}
        /\ op'[p] \in {"pay", "edit", "delete", "terminate"}
        /\ doing'[p] = "void" => op'[p] \in {"pay", "edit"}
        /\ doing'[p] = "unschedule" => op'[p] \in {"delete", "terminate"}
        /\ at'[p] = c /\ t'[p] = NoTransaction /\ todo'[p] = {}
    BY <1>1, <1>2 DEF OnCampaign
  <2>2. op'[p] = "terminate" => link'[p] = Promoted
    BY <1>1, <1>2 DEF OnCampaign, LivePromo
  <2>. QED
    BY <2>1, <2>2 DEF Route, Eye, OnOne, OnAll, HasTrans, HasPaid, Charging
<1>3. ASSUME \/ LoadLink(p, "job", NoCampaign, "select")
             \/ \E what \in {"accept", "reject", "editpromo"} :
                    LoadLink(p, what, NoCampaign, "decide")
      PROVE  Route(p)' /\ Eye(p)'
  <2>1. /\ doing'[p] \in {"select", "decide"} /\ at'[p] = NoCampaign
        /\ t'[p] = NoTransaction /\ todo'[p] = {}
    BY <1>1, <1>3
  <2>. QED
    BY <2>1 DEF Route, Eye, OnOne, OnAll, HasTrans, HasPaid, Charging
<1>. QED
  BY <1>2, <1>3 DEF PromoRequest, UpdatePay, EditCampaign, DeleteCampaign, Terminate,
     Accept, Reject, EditPromo, RunJob, OnLink

\* Who does nothing in a step stays where he is.
LEMMA OthersRoute ==
    ASSUME NEW p \in Workers, OthersWait(p), WorkRoutes, Eyes, Route(p)', Eye(p)'
    PROVE  WorkRoutes' /\ Eyes'
<1>1. ASSUME NEW q \in Workers, q # p
      PROVE  Route(q)' /\ Eye(q)'
  <2>1. /\ doing'[q] = doing[q] /\ op'[q] = op[q] /\ at'[q] = at[q]
        /\ trans'[q] = trans[q] /\ link'[q] = link[q] /\ t'[q] = t[q]
        /\ todo'[q] = todo[q]
    BY <1>1 DEF OthersWait
  <2>2. Route(q) /\ Eye(q)
    BY DEF WorkRoutes, Eyes
  <2>. QED
    BY <2>1, <2>2 DEF Route, Eye, Mine
<1>. QED
  BY <1>1 DEF WorkRoutes, Eyes

\* A step of a worker: where it leads, and that the others stay.
LEMMA Walk ==
    ASSUME Shapes, WorkRoutes, Eyes, NEW p \in Workers,
           PromoRequest(p) \/ PromoStep(p) \/ WorkerDies(p)
    PROVE  /\ OthersWait(p) /\ Route(p)' /\ Eye(p)'
           /\ Shapes' /\ WorkRoutes' /\ Eyes'
<1>0. Route(p) /\ Eye(p)
  BY DEF WorkRoutes, Eyes
<1>1. CASE PromoRequest(p)
  BY <1>0, <1>1, RequestAlone, RequestShapes, RequestRoute, OthersRoute
<1>2. CASE PromoStep(p)
  BY <1>0, <1>2, StepAlone, StepShapes, StepRoute, OthersRoute
<1>3. CASE WorkerDies(p)
  <2>1. /\ Leaves(p) /\ UNCHANGED <<status, camp, bids, gate, approved, crossed>>
    BY <1>3 DEF WorkerDies, books
  <2>2. Shapes' /\ Route(p)' /\ Eye(p)'
    BY <2>1, Gone DEF Shapes
  <2>. QED
    BY <2>1, <2>2, Parted, OthersRoute
<1>. QED
  BY <1>1, <1>2, <1>3

\* The days pass for campaigns only.
LEMMA DayWalk ==
    ASSUME Shapes, WorkRoutes, Eyes, NEW c \in Campaigns, DayPasses(c)
    PROVE  Shapes' /\ WorkRoutes' /\ Eyes'
<1>1. /\ UNCHANGED <<status, bids, gate, doing, op, at, trans, link, t, stage, todo,
                     live, approved, old, moved, crossed>>
      /\ camp' = [camp EXCEPT ![c].when = IF @ = "tomorrow" THEN "today" ELSE "past"]
  BY DEF DayPasses, books, copies, records
<1>2. camp \in [Campaigns -> [trans : 0 .. MaxTrans, when : Whens,
                              scheduled : BOOLEAN, deleted : BOOLEAN]]
  BY DEF Shapes
<1>3. camp' \in [Campaigns -> [trans : 0 .. MaxTrans, when : Whens,
                               scheduled : BOOLEAN, deleted : BOOLEAN]]
  BY <1>1, <1>2 DEF Whens
<1>. QED
  BY <1>1, <1>3 DEF Shapes, WorkRoutes, Route, Mine, Eyes, Eye

-----------------------------------------------------------------------------
(* The link's status.                                                       *)

\* A decision on the latest copy: all other copies are old afterwards.
LEMMA DecidedLink ==
    ASSUME Shapes, LinkKnown, NEW p \in Workers, doing[p] \notin {"idle", "end"},
           OthersWait(p), NEW s, SetStatus(p, s),
           ~crossed' => (s \in Running => approved')
    PROVE  LinkKnown'
<1>0. /\ link \in [Workers -> PromoteStatuses] /\ old \in [Workers -> BOOLEAN]
  BY DEF Shapes
<1>. SUFFICES ASSUME ~crossed'
     PROVE  /\ status' \in Running => approved'
            /\ \A q \in Workers :
                   doing'[q] \notin {"idle", "end"} /\ ~old'[q] => link'[q] = status'
  BY DEF LinkKnown
<1>1. ~crossed /\ ~old[p]
  BY DEF SetStatus
<1>2. link[p] = status
  BY <1>1 DEF LinkKnown
<1>3. CASE s = link[p]
  <2>1. UNCHANGED <<status, link, old>>
    BY <1>3 DEF SetStatus
  <2>2. status' = s
    BY <1>2, <1>3, <2>1
  <2>3. ASSUME NEW q \in Workers, doing'[q] \notin {"idle", "end"}, ~old'[q]
        PROVE  link'[q] = status'
    BY <1>1, <1>2, <2>1, <2>3 DEF OthersWait, LinkKnown
  <2>. QED
    BY <2>2, <2>3
<1>4. CASE s # link[p]
  <2>1. /\ status' = s /\ link' = [link EXCEPT ![p] = s]
        /\ old' = [q \in Workers |-> q # p /\ doing[q] # "idle"]
    BY <1>4 DEF SetStatus
  <2>2. ASSUME NEW q \in Workers, doing'[q] \notin {"idle", "end"}, ~old'[q]
        PROVE  link'[q] = status'
    <3>1. q = p
      BY <2>1, <2>2 DEF OthersWait
    <3>. QED
      BY <1>0, <2>1, <3>1
  <2>. QED
    BY <2>1, <2>2
<1>. QED
  BY <1>3, <1>4

\* A step that decides nothing.
LEMMA KnownLink ==
    ASSUME LinkKnown, NEW p \in Workers, OthersWait(p),
           status' = status, crossed' = crossed, approved' = approved,
           \A q \in Workers \ {p} : old'[q] = old[q],
           \/ doing'[p] = "idle" \/ link'[p] = status
           \/ /\ doing[p] \notin {"idle", "end"}
              /\ link'[p] = link[p] /\ old'[p] = old[p]
    PROVE  LinkKnown'
BY DEF LinkKnown, OthersWait

\* Of the decisions, only the acceptance makes a link run that did not.
LEMMA StepLink ==
    ASSUME Shapes, LinkKnown, NEW p \in Workers, Route(p), Eye(p), PromoStep(p),
           OthersWait(p)
    PROVE  LinkKnown'
<1>0. /\ link \in [Workers -> PromoteStatuses] /\ old \in [Workers -> BOOLEAN]
      /\ doing \in [Workers -> Places] /\ status \in PromoteStatuses
  BY DEF Shapes
<1>a. ~crossed /\ ~old[p] /\ doing[p] \notin {"idle", "end"} =>
          link[p] = status /\ (status \in Running => approved)
  BY DEF LinkKnown
<1>b. \A s : SetStatus(p, s) => (~crossed' => ~crossed /\ ~old[p])
  BY DEF SetStatus
<1>1. CASE NothingToVoid(p)
  <2>1. /\ UNCHANGED <<status, crossed, approved, link, old>>
        /\ doing[p] \notin {"idle", "end"}
    BY <1>1 DEF NothingToVoid, copies, records
  <2>. QED
    BY <2>1, KnownLink
<1>2. CASE VoidBid(p)
  <2>1. /\ UNCHANGED <<status, crossed, approved, link, old>>
        /\ doing[p] \notin {"idle", "end"}
    BY <1>2 DEF VoidBid, copies, records
  <2>. QED
    BY <2>1, KnownLink
<1>3. CASE GatewayVoid(p)
  <2>1. /\ UNCHANGED <<status, crossed, approved, link, old>>
        /\ doing[p] \notin {"idle", "end"}
    BY <1>3 DEF GatewayVoid, copies, records
  <2>. QED
    BY <2>1, KnownLink
<1>4. CASE DropTrans(p)
  <2>1. /\ UNCHANGED <<status, crossed, approved, link, old>>
        /\ doing[p] \notin {"idle", "end"}
    BY <1>4 DEF DropTrans, copies, records, SetTrans
  <2>. QED
    BY <2>1, KnownLink
<1>5. CASE Authorise(p)
  <2>1. /\ UNCHANGED <<status, crossed, approved, link, old>>
        /\ doing[p] \notin {"idle", "end"}
    BY <1>5 DEF Authorise, copies, records
  <2>. QED
    BY <2>1, KnownLink
<1>6. CASE AuthRefused(p)
  <2>1. UNCHANGED <<status, crossed, approved>> /\ Leaves(p)
    BY <1>6 DEF AuthRefused
  <2>2. doing'[p] = "idle" /\ \A q \in Workers \ {p} : old'[q] = old[q]
    BY <1>0, <2>1 DEF Leaves, Go
  <2>. QED
    BY <2>1, <2>2, KnownLink
<1>7. CASE NewBid(p)
  <2>1. /\ UNCHANGED <<status, crossed, approved, link, old>>
        /\ doing[p] \notin {"idle", "end"}
    BY <1>7 DEF NewBid, copies, records
  <2>. QED
    BY <2>1, KnownLink
<1>8. CASE RaiseStatus(p)
  <2>1. doing[p] \notin {"idle", "end"} /\ approved' = approved
    BY <1>8 DEF RaiseStatus
  <2>2. PICK s : /\ SetStatus(p, s)
                 /\ \/ link[p] = Finished /\ s = AcceptedStatus
                    \/ s = Unseen
                    \/ s = link[p]
    BY <1>8 DEF RaiseStatus
  <2>3. ~crossed' => (s \in Running => approved')
    BY <1>a, <1>b, <2>1, <2>2 DEF Running, Unpaid, Unseen, AcceptedStatus, Rejected,
       Pending, Promoted, Finished
  <2>. QED
    BY <2>1, <2>2, <2>3, DecidedLink
<1>9. CASE NewTrans(p)
  <2>1. /\ UNCHANGED <<status, crossed, approved, link, old>>
        /\ doing[p] \notin {"idle", "end"}
    BY <1>9 DEF NewTrans, copies, records, SetTrans
  <2>. QED
    BY <2>1, KnownLink
<1>10. CASE Unschedule(p)
  <2>1. /\ UNCHANGED <<status, crossed, approved, link, old>>
        /\ doing[p] \notin {"idle", "end"}
    BY <1>10 DEF Unschedule, copies, records
  <2>. QED
    BY <2>1, KnownLink
<1>11. CASE Schedule(p)
  <2>1. /\ UNCHANGED <<status, crossed, approved, link, old>>
        /\ doing[p] \notin {"idle", "end"}
    BY <1>11 DEF Schedule, copies, records
  <2>. QED
    BY <2>1, KnownLink
<1>12. CASE Delete(p)
  <2>1. /\ UNCHANGED <<status, crossed, approved, link, old>>
        /\ doing[p] \notin {"idle", "end"}
    BY <1>12 DEF Delete, copies, records
  <2>. QED
    BY <2>1, KnownLink
<1>13. CASE CutShort(p)
  <2>1. /\ UNCHANGED <<status, crossed, approved, link, old>>
        /\ doing[p] \notin {"idle", "end"}
    BY <1>13 DEF CutShort, copies, records
  <2>. QED
    BY <2>1, KnownLink
<1>14. CASE FinishLink(p)
  <2>1. doing[p] \notin {"idle", "end"} /\ approved' = approved
    BY <1>14 DEF FinishLink
  <2>2. link[p] = Promoted
    BY <1>14 DEF FinishLink, Eye, Charging
  <2>3. ASSUME SetStatus(p, Finished)
        PROVE  ~crossed' => (Finished \in Running => approved')
    BY <1>0, <1>a, <1>b, <2>1, <2>2, <2>3 DEF Running, Accepted, PromoteStatuses,
       Unpaid, Unseen, AcceptedStatus, Rejected, Pending, Promoted, Finished
  <2>4. SetStatus(p, Finished) \/ UNCHANGED <<status, link, old, crossed>>
    BY <1>14 DEF FinishLink
  <2>. QED
    BY <2>1, <2>3, <2>4, DecidedLink, KnownLink
<1>15. CASE DecideAccept(p)
  <2>1. doing[p] \notin {"idle", "end"} /\ approved'
    BY <1>15 DEF DecideAccept
  <2>2. SetStatus(p, AcceptedStatus)
    BY <1>15 DEF DecideAccept
  <2>3. ASSUME SetStatus(p, AcceptedStatus)
        PROVE  ~crossed' => (AcceptedStatus \in Running => approved')
    BY <1>0, <1>a, <1>b, <2>1, <2>2, <2>3 DEF Running, Accepted, PromoteStatuses,
       Unpaid, Unseen, AcceptedStatus, Rejected, Pending, Promoted, Finished
  <2>. QED
    BY <2>1, <2>2, <2>3, DecidedLink
<1>16. CASE SelectAccepted(p)
  <2>1. /\ UNCHANGED <<status, crossed, approved, link, old>>
        /\ doing[p] \notin {"idle", "end"}
    BY <1>16 DEF SelectAccepted, copies, records
  <2>. QED
    BY <2>1, KnownLink
<1>17. CASE DecideReject(p)
  <2>1. doing[p] \notin {"idle", "end"}
    BY <1>17 DEF DecideReject
  <2>2. SetStatus(p, Rejected)
    BY <1>17 DEF DecideReject
  <2>3. ASSUME SetStatus(p, Rejected)
        PROVE  ~crossed' => (Rejected \in Running => approved')
    BY <1>0, <1>a, <1>b, <2>1, <2>2, <2>3 DEF Running, Accepted, PromoteStatuses,
       Unpaid, Unseen, AcceptedStatus, Rejected, Pending, Promoted, Finished
  <2>. QED
    BY <2>1, <2>2, <2>3, DecidedLink
<1>18. CASE DecideEdit(p)
  <2>1. doing[p] \notin {"idle", "end"}
    BY <1>18 DEF DecideEdit
  <2>2. SetStatus(p, (IF link[p] \in {Unpaid, Finished} THEN Unpaid ELSE Unseen))
    BY <1>18 DEF DecideEdit
  <2>3. ASSUME SetStatus(p, (IF link[p] \in {Unpaid, Finished} THEN Unpaid ELSE Unseen))
        PROVE  ~crossed' => ((IF link[p] \in {Unpaid, Finished} THEN Unpaid ELSE Unseen) \in Running => approved')
    BY <1>0, <1>a, <1>b, <2>1, <2>2, <2>3 DEF Running, Accepted, PromoteStatuses,
       Unpaid, Unseen, AcceptedStatus, Rejected, Pending, Promoted, Finished
  <2>. QED
    BY <2>1, <2>2, <2>3, DecidedLink
<1>19. CASE Select(p)
  <2>1. /\ UNCHANGED <<status, crossed, approved>> /\ link' = [link EXCEPT ![p] = status]
        /\ old' = [old EXCEPT ![p] = FALSE]
    BY <1>19 DEF Select
  <2>2. link'[p] = status /\ \A q \in Workers \ {p} : old'[q] = old[q]
    BY <1>0, <2>1
  <2>. QED
    BY <2>1, <2>2, KnownLink
<1>20. CASE PassDone(p)
  <2>1. /\ UNCHANGED <<status, crossed, approved, link, old>>
        /\ doing[p] \notin {"idle", "end"}
    BY <1>20 DEF PassDone, copies, records
  <2>. QED
    BY <2>1, KnownLink
<1>21. CASE ChargeNeeded(p)
  <2>1. /\ UNCHANGED <<status, crossed, approved, link, old>>
        /\ doing[p] \notin {"idle", "end"}
    BY <1>21 DEF ChargeNeeded, copies, records
  <2>. QED
    BY <2>1, KnownLink
<1>22. CASE AlreadyCharged(p)
  <2>1. UNCHANGED <<status, crossed, approved>> /\ Leaves(p)
    BY <1>22 DEF AlreadyCharged
  <2>2. doing'[p] = "idle" /\ \A q \in Workers \ {p} : old'[q] = old[q]
    BY <1>0, <2>1 DEF Leaves, Go
  <2>. QED
    BY <2>1, <2>2, KnownLink
<1>23. CASE Capture(p)
  <2>1. /\ UNCHANGED <<status, crossed, approved, link, old>>
        /\ doing[p] \notin {"idle", "end"}
    BY <1>23 DEF Capture, copies, records
  <2>. QED
    BY <2>1, KnownLink
<1>24. CASE HoldGone(p)
  <2>1. /\ UNCHANGED <<status, crossed, approved, link, old>>
        /\ doing[p] \notin {"idle", "end"}
    BY <1>24 DEF HoldGone, copies, records
  <2>. QED
    BY <2>1, KnownLink
<1>25. CASE CaptureRefused(p)
  <2>1. /\ UNCHANGED <<status, crossed, approved, link, old>>
        /\ doing[p] \notin {"idle", "end"}
    BY <1>25 DEF CaptureRefused, copies, records
  <2>. QED
    BY <2>1, KnownLink
<1>26. CASE Book(p)
  <2>1. /\ UNCHANGED <<status, crossed, approved, link, old>>
        /\ doing[p] \notin {"idle", "end"}
    BY <1>26 DEF Book, copies, records
  <2>. QED
    BY <2>1, KnownLink
<1>27. CASE SetPending(p)
  <2>1. doing[p] \notin {"idle", "end"} /\ approved' = approved
    BY <1>27 DEF SetPending
  <2>2. Accepted(link[p])
    BY <1>27 DEF SetPending, Eye, Charging
  <2>3. ASSUME SetStatus(p, Pending)
        PROVE  ~crossed' => (Pending \in Running => approved')
    BY <1>0, <1>a, <1>b, <2>1, <2>2, <2>3 DEF Running, Accepted, PromoteStatuses,
       Unpaid, Unseen, AcceptedStatus, Rejected, Pending, Promoted, Finished
  <2>4. SetStatus(p, Pending) \/ UNCHANGED <<status, link, old, crossed>>
    BY <1>27 DEF SetPending
  <2>. QED
    BY <2>1, <2>3, <2>4, DecidedLink, KnownLink
<1>28. CASE Lose(p)
  <2>1. /\ UNCHANGED <<status, crossed, approved, link, old>>
        /\ doing[p] \notin {"idle", "end"}
    BY <1>28 DEF Lose, copies, records
  <2>. QED
    BY <2>1, KnownLink
<1>29. CASE Forget(p)
  <2>1. /\ UNCHANGED <<status, crossed, approved, link, old>>
        /\ doing[p] \notin {"idle", "end"}
    BY <1>29 DEF Forget, copies, records, SetTrans
  <2>. QED
    BY <2>1, KnownLink
<1>30. CASE Promote(p)
  <2>1. doing[p] \notin {"idle", "end"} /\ approved' = approved
    BY <1>30 DEF Promote
  <2>2. Accepted(link[p])
    BY <1>30 DEF Promote, Eye, Charging
  <2>3. ASSUME SetStatus(p, Promoted)
        PROVE  ~crossed' => (Promoted \in Running => approved')
    BY <1>0, <1>a, <1>b, <2>1, <2>2, <2>3 DEF Running, Accepted, PromoteStatuses,
       Unpaid, Unseen, AcceptedStatus, Rejected, Pending, Promoted, Finished
  <2>4. SetStatus(p, Promoted) \/ UNCHANGED <<status, link, old, crossed>>
    BY <1>30 DEF Promote
  <2>. QED
    BY <2>1, <2>3, <2>4, DecidedLink, KnownLink
<1>31. CASE Expire(p)
  <2>1. doing[p] \notin {"idle", "end"} /\ approved' = approved
    BY <1>31 DEF Expire
  <2>2. link[p] = Promoted
    BY <1>31 DEF Expire, Eye
  <2>3. SetStatus(p, Finished)
    BY <1>31 DEF Expire
  <2>4. ~crossed' => (Finished \in Running => approved')
    BY <1>0, <1>a, <1>b, <2>1, <2>2, <2>3 DEF Running, Accepted, PromoteStatuses,
       Unpaid, Unseen, AcceptedStatus, Rejected, Pending, Promoted, Finished
  <2>. QED
    BY <2>1, <2>3, <2>4, DecidedLink
<1>34. CASE FindPromoted(p)
  <2>1. /\ UNCHANGED <<status, crossed, approved>> /\ link' = [link EXCEPT ![p] = status]
        /\ old' = [old EXCEPT ![p] = FALSE]
    BY <1>34 DEF FindPromoted
  <2>2. link'[p] = status /\ \A q \in Workers \ {p} : old'[q] = old[q]
    BY <1>0, <2>1
  <2>. QED
    BY <2>1, <2>2, KnownLink
<1>32. CASE EndRequest(p)
  <2>1. UNCHANGED <<status, crossed, approved>> /\ Leaves(p)
    BY <1>32 DEF EndRequest
  <2>2. doing'[p] = "idle" /\ \A q \in Workers \ {p} : old'[q] = old[q]
    BY <1>0, <2>1 DEF Leaves, Go
  <2>. QED
    BY <2>1, <2>2, KnownLink
<1>33. CASE \E c \in Campaigns : Take(p, c)
  <2>1. /\ UNCHANGED <<status, crossed, approved, link, old>>
        /\ doing[p] \notin {"idle", "end"}
    BY <1>33 DEF Take, records
  <2>. QED
    BY <2>1, KnownLink
<1>. QED
  BY <1>1, <1>2, <1>3, <1>4, <1>5, <1>6, <1>7, <1>8, <1>9, <1>10, <1>11, <1>12, <1>13,
     <1>14, <1>15, <1>16, <1>17, <1>18, <1>19, <1>20, <1>21, <1>22, <1>23, <1>24, <1>25,
     <1>26, <1>27, <1>28, <1>29, <1>30, <1>31, <1>32, <1>33, <1>34 DEF PromoStep

LEMMA WalkLink ==
    ASSUME Shapes, LinkKnown, NEW p \in Workers, Route(p), Eye(p), OthersWait(p),
           PromoRequest(p) \/ PromoStep(p) \/ WorkerDies(p)
    PROVE  LinkKnown'
<1>0. /\ link \in [Workers -> PromoteStatuses] /\ doing \in [Workers -> Places]
      /\ old \in [Workers -> BOOLEAN]
  BY DEF Shapes
<1>1. CASE PromoRequest(p)
  <2>1. ASSUME NEW what, NEW c, NEW label, LoadLink(p, what, c, label)
        PROVE  LinkKnown'
    <3>1. UNCHANGED <<status, crossed, approved, old>> /\ link'[p] = status
      BY <1>0, <2>1 DEF LoadLink, records
    <3>. QED
      BY <3>1, KnownLink
  <2>. QED
    BY <1>1, <2>1 DEF PromoRequest, UpdatePay, EditCampaign, DeleteCampaign, Terminate,
       Accept, Reject, EditPromo, RunJob, OnCampaign, OnLink
<1>2. CASE PromoStep(p)
  BY <1>2, StepLink
<1>3. CASE WorkerDies(p)
  <2>1. UNCHANGED <<status, crossed, approved>> /\ Leaves(p)
    BY <1>3 DEF WorkerDies
  <2>2. doing'[p] = "idle" /\ \A q \in Workers \ {p} : old'[q] = old[q]
    BY <1>0, <2>1 DEF Leaves, Go
  <2>. QED
    BY <2>1, <2>2, KnownLink
<1>. QED
  BY <1>1, <1>2, <1>3

LEMMA DayLink ==
    ASSUME LinkKnown, NEW c \in Campaigns, DayPasses(c)
    PROVE  LinkKnown'
BY DEF DayPasses, copies, records, LinkKnown

-----------------------------------------------------------------------------
(* Transactions.  Most steps touch none.                                    *)

InHand == {"gwvoid", "drop", "newbid", "raise", "settrans", "booked", "lost", "forget"}

\* Transaction n is as it was, and p has nothing to do with it.
LEMMA Untouched ==
    ASSUME Steps, NEW p \in Workers, OthersWait(p), torn \subseteq torn',
           NEW n \in Trans \ torn', bids'[n] = bids[n], gate'[n] = gate[n],
           ~(doing[p] = "newbid" /\ t[p] = n), ~With(p, {"gwvoid", "booked"}, n),
           ~With(p, {"gwvoid", "drop", "forget", "booked", "lost"}, n)'
    PROVE  Stands(n)'
<1>1. Stands(n)
  BY DEF Steps
<1>2. Agree(n)' = Agree(n)
  BY DEF Agree
<1>3. ASSUME NEW q \in Workers, q # p
      PROVE  doing'[q] = doing[q] /\ t'[q] = t[q] /\ Mine(q)' = Mine(q)
  BY <1>3 DEF OthersWait, Mine
<1>4. gate'[n] # "settled"
  BY <1>1 DEF Stands
<1>5. \/ Agree(n)'
      \/ \E q \in Workers : \/ doing'[q] = "newbid" /\ t'[q] = n
                            \/ With(q, {"gwvoid", "booked"}, n)'
  <2>1. CASE Agree(n)
    BY <1>2, <2>1
  <2>2. ASSUME NEW q \in Workers, \/ doing[q] = "newbid" /\ t[q] = n
                                  \/ With(q, {"gwvoid", "booked"}, n)
        PROVE  \/ doing'[q] = "newbid" /\ t'[q] = n
               \/ With(q, {"gwvoid", "booked"}, n)'
    BY <1>3, <2>2 DEF With
  <2>. QED
    BY <1>1, <2>1, <2>2 DEF Stands
<1>6. ASSUME NEW q \in Workers
      PROVE  /\ With(q, {"gwvoid", "drop", "forget"}, n)' => bids'[n].status = "VOID"
             /\ With(q, {"booked"}, n)' => bids'[n].status = "AUTH" /\ gate'[n] = "captured"
             /\ With(q, {"lost"}, n)' => gate'[n] \in {"voided", "expired"}
  <2>1. CASE q = p
    BY <2>1 DEF With
  <2>2. CASE q # p
    BY <1>1, <1>3, <2>2 DEF With, Stands
  <2>. QED
    BY <2>1, <2>2
<1>. QED
  BY <1>4, <1>5, <1>6 DEF Stands

\* The campaign still names transaction n, or is still about to.
LEMMA StillNamed ==
    ASSUME Named, NEW p \in Workers, OthersWait(p), torn \subseteq torn', astray \subseteq astray',
           NEW n \in Trans \ torn', bids'[n].campaign = bids[n].campaign,
           bids'[n].status \in {"AUTH", "CHARGE"} => bids[n].status \in {"AUTH", "CHARGE"},
           camp'[bids[n].campaign].trans = camp[bids[n].campaign].trans,
           doing[p] \in {"raise", "settrans"} /\ t[p] = n =>
               \/ doing'[p] \in {"raise", "settrans"} /\ t'[p] = n
               \/ bids[n].campaign \in astray'
    PROVE  HasName(n)'
<1>1. HasName(n)
  BY DEF Named
<1>2. ASSUME NEW q \in Workers, doing[q] \in {"raise", "settrans"}, t[q] = n
      PROVE  \/ doing'[q] \in {"raise", "settrans"} /\ t'[q] = n
             \/ bids[n].campaign \in astray'
  BY <1>2 DEF OthersWait
<1>. QED
  BY <1>1, <1>2 DEF HasName

PromoRecords == Fresh /\ Owns /\ Copied /\ Steps /\ Named

\* p touches no transaction.
Calm(p) ==
    /\ bids' = bids /\ gate' = gate /\ t' = t /\ torn' = torn /\ astray' = astray
    /\ \A c \in Campaigns : camp'[c].trans = camp[c].trans
    /\ \A q \in Workers \ {p} : moved'[q] = moved[q]
    /\ \/ doing[p] # "idle" /\ trans'[p] = trans[p] /\ moved'[p] = moved[p]
       \/ \A c \in Campaigns : trans'[p][c] = camp[c].trans
    /\ \/ doing[p] \notin InHand /\ doing'[p] \notin InHand
       \/ doing[p] = "raise" /\ doing'[p] = "settrans" /\ at'[p] = at[p]

\* A step that touches no transaction and writes no trans_id.
LEMMA CalmKeeps ==
    ASSUME Shapes, NEW p \in Workers, OthersWait(p), PromoRecords, Calm(p)
    PROVE  PromoRecords'
<1>1. Fresh'
  BY DEF PromoRecords, Fresh, Calm, OthersWait, InHand
<1>2. Owns'
  <2>1. ASSUME NEW c \in Campaigns
        PROVE  Owned(camp[c].trans, c)'
    BY DEF PromoRecords, Owns, Owned, Calm
  <2>2. ASSUME NEW q \in Workers, NEW c \in Campaigns
        PROVE  Owned(trans[q][c], c)'
    BY DEF PromoRecords, Owns, Owned, Calm, OthersWait
  <2>. QED
    BY <2>1, <2>2 DEF Owns
<1>3. Copied'
  BY DEF PromoRecords, Copied, Calm, OthersWait
<1>4. ASSUME NEW n \in Trans \ torn'
      PROVE  Stands(n)'
  <2>1. /\ ~(doing[p] = "newbid" /\ t[p] = n) /\ ~With(p, {"gwvoid", "booked"}, n)
        /\ ~With(p, {"gwvoid", "drop", "forget", "booked", "lost"}, n)'
    BY DEF Calm, InHand, With
  <2>2. torn \subseteq torn' /\ bids'[n] = bids[n] /\ gate'[n] = gate[n]
    BY DEF Calm
  <2>. QED
    BY <2>1, <2>2, Untouched DEF PromoRecords
<1>5. ASSUME NEW n \in Trans \ torn'
      PROVE  HasName(n)'
  <2>1. /\ torn' = torn /\ astray' = astray /\ bids' = bids
        /\ doing[p] \in {"raise", "settrans"} /\ t[p] = n =>
               doing'[p] \in {"raise", "settrans"} /\ t'[p] = n
    BY DEF Calm, InHand
  <2>2. CASE bids[n].status \in {"AUTH", "CHARGE"}
    <3>1. bids[n].campaign \in Campaigns
      BY <2>2 DEF PromoRecords, Fresh
    <3>2. camp'[bids[n].campaign].trans = camp[bids[n].campaign].trans
      BY <3>1 DEF Calm
    <3>. QED
      BY <2>1, <3>2, StillNamed DEF PromoRecords
  <2>3. CASE bids[n].status \notin {"AUTH", "CHARGE"}
    BY <2>1, <2>3 DEF HasName
  <2>. QED
    BY <2>2, <2>3
<1>. QED
  BY <1>1, <1>2, <1>3, <1>4, <1>5 DEF PromoRecords, Steps, Named

\* p gives up or dies; what it had in hand is noted.
LEMMA LeavingKeeps ==
    ASSUME Shapes, NEW p \in Workers, OthersWait(p), PromoRecords, Leaves(p),
           UNCHANGED <<camp, bids, gate>>, torn \subseteq torn', astray \subseteq astray',
           doing[p] \in {"gwvoid", "booked"} => Mine(p) \in torn',
           doing[p] = "newbid" => t[p] \in torn',
           doing[p] \in {"raise", "settrans"} => at[p] \in astray'
    PROVE  PromoRecords'
<1>0. /\ doing'[p] = "idle" /\ trans'[p] = NoCopy /\ t'[p] = NoTransaction
      /\ \A q \in Workers \ {p} : moved'[q] = moved[q]
  BY DEF Shapes, Leaves, Go
<1>1. Fresh'
  BY <1>0 DEF PromoRecords, Fresh, OthersWait
<1>2. Owns'
  <2>1. ASSUME NEW c \in Campaigns
        PROVE  Owned(camp[c].trans, c)'
    BY DEF PromoRecords, Owns, Owned
  <2>2. ASSUME NEW q \in Workers, NEW c \in Campaigns
        PROVE  Owned(trans[q][c], c)'
    BY <1>0 DEF PromoRecords, Owns, Owned, OthersWait, NoCopy
  <2>. QED
    BY <2>1, <2>2 DEF Owns
<1>3. Copied'
  BY <1>0 DEF PromoRecords, Copied, OthersWait
<1>4. ASSUME NEW n \in Trans \ torn'
      PROVE  Stands(n)'
  <2>1. /\ ~(doing[p] = "newbid" /\ t[p] = n) /\ ~With(p, {"gwvoid", "booked"}, n)
        /\ ~With(p, {"gwvoid", "drop", "forget", "booked", "lost"}, n)'
    BY <1>0 DEF With
  <2>. QED
    BY <2>1, Untouched DEF PromoRecords
<1>5. ASSUME NEW n \in Trans \ torn'
      PROVE  HasName(n)'
  <2>1. doing[p] \in {"raise", "settrans"} /\ t[p] = n => bids[n].campaign \in astray'
    BY DEF PromoRecords, Fresh
  <2>. QED
    BY <2>1, StillNamed DEF PromoRecords
<1>. QED
  BY <1>1, <1>2, <1>3, <1>4, <1>5 DEF PromoRecords, Steps, Named


\* p writes a trans_id: the one of a transaction that it gives up or has begun.
LEMMA WritingKeeps ==
    ASSUME Shapes, NEW p \in Workers, OthersWait(p), PromoRecords, Route(p),
           NEW m \in 0 .. MaxTrans, SetTrans(p, m), UNCHANGED <<bids, gate, t, at, torn>>,
           \/ m = NoTransaction /\ doing[p] \in {"drop", "forget"}
           \/ m = t[p] /\ doing[p] = "settrans",
           doing'[p] \notin InHand
    PROVE  PromoRecords'
<1> DEFINE c0 == at[p]
<1>0. /\ c0 \in Campaigns /\ trans \in [Workers -> [Campaigns -> 0 .. MaxTrans]]
      /\ camp \in [Campaigns -> [trans : 0 .. MaxTrans, when : Whens,
                                 scheduled : BOOLEAN, deleted : BOOLEAN]]
      /\ moved \in [Workers -> SUBSET Campaigns] /\ t \in [Workers -> 0 .. MaxTrans]
  BY DEF Shapes, Route, OnOne
<1>1. trans' = [trans EXCEPT ![p][c0] = m] /\ trans'[p] = [trans[p] EXCEPT ![c0] = m]
  BY <1>0 DEF SetTrans
<1>2. \/ /\ m = Mine(p) /\ UNCHANGED <<camp, moved, astray>>
      \/ /\ m # Mine(p) /\ camp' = [camp EXCEPT ![c0].trans = m]
         /\ astray' = IF c0 \in moved[p] THEN astray \cup {c0} ELSE astray
         /\ moved' = [q \in Workers |->
               IF q = p THEN moved[q] \ {c0}
               ELSE IF doing[q] # "idle" THEN moved[q] \cup {c0} ELSE {}]
  BY DEF SetTrans
<1>3. /\ \A c \in Campaigns \ {c0} : /\ camp'[c].trans = camp[c].trans
                                     /\ trans'[p][c] = trans[p][c]
      /\ trans'[p][c0] = m /\ camp'[c0].trans \in {m, camp[c0].trans}
      /\ m # Mine(p) => camp'[c0].trans = m
  BY <1>0, <1>1, <1>2
<1>4. Owned(m, c0)
  <2>1. CASE m = NoTransaction
    BY <2>1 DEF Owned
  <2>2. CASE m = t[p] /\ m # NoTransaction
    <3>1. m \in Trans /\ bids[m].campaign = c0
      BY <1>0, <2>2 DEF Trans, NoTransaction, PromoRecords, Fresh
    <3>2. bids[m].status # "none"
      BY <1>0, <3>1 DEF PromoRecords, Fresh, NoBid
    <3>. QED
      BY <3>1, <3>2 DEF Owned
  <2>. QED
    BY <2>1, <2>2
<1>5. Fresh'
  BY DEF PromoRecords, Fresh, OthersWait, InHand
<1>6. Owns'
  <2>1. ASSUME NEW n, NEW c
        PROVE  Owned(n, c)' = Owned(n, c)
    BY DEF Owned
  <2>2. ASSUME NEW c \in Campaigns
        PROVE  Owned(camp'[c].trans, c)
    <3>1. Owned(camp[c].trans, c)
      BY DEF PromoRecords, Owns
    <3>. QED
      BY <1>3, <1>4, <3>1
  <2>3. ASSUME NEW q \in Workers, NEW c \in Campaigns
        PROVE  Owned(trans'[q][c], c)
    <3>1. Owned(trans[q][c], c)
      BY DEF PromoRecords, Owns
    <3>2. q # p => trans'[q] = trans[q]
      BY DEF OthersWait
    <3>. QED
      BY <1>3, <1>4, <3>1, <3>2
  <2>4. \A n, c : Owned(n, c) => (n # NoTransaction => bids'[n].status # "none" /\ bids'[n].campaign = c)
    BY DEF Owned
  <2>. QED
    BY <2>2, <2>3, <2>4 DEF Owns, Owned
<1>7. Copied'
  <2>1. ASSUME NEW q \in Workers, doing'[q] # "idle", NEW c \in Campaigns \ moved'[q]
        PROVE  trans'[q][c] = camp'[c].trans
    <3>1. CASE q = p
      <4>1. doing[p] # "idle"
        OBVIOUS
      <4>2. CASE c = c0 /\ m # Mine(p)
        BY <1>3, <3>1, <4>2
      <4>3. CASE c = c0 /\ m = Mine(p)
        <5>1. c \notin moved[p] /\ camp'[c] = camp[c]
          BY <1>2, <2>1, <3>1, <4>3
        <5>2. trans[p][c] = camp[c].trans
          BY <4>1, <5>1 DEF PromoRecords, Copied
        <5>. QED
          BY <1>3, <3>1, <4>3, <5>1, <5>2 DEF Mine
      <4>4. CASE c # c0
        <5>1. c \notin moved[p]
          BY <1>2, <2>1, <3>1, <4>4
        <5>2. trans[p][c] = camp[c].trans
          BY <4>1, <5>1 DEF PromoRecords, Copied
        <5>. QED
          BY <1>3, <3>1, <4>4, <5>2
      <4>. QED
        BY <4>2, <4>3, <4>4
    <3>2. CASE q # p
      <4>1. doing[q] # "idle" /\ trans'[q] = trans[q]
        BY <2>1, <3>2 DEF OthersWait
      <4>2. c \notin moved[q] /\ camp'[c].trans = camp[c].trans
        BY <1>2, <1>3, <2>1, <3>2, <4>1
      <4>. QED
        BY <4>1, <4>2 DEF PromoRecords, Copied
    <3>. QED
      BY <3>1, <3>2
  <2>. QED
    BY <2>1 DEF Copied
<1>8. ASSUME NEW n \in Trans \ torn'
      PROVE  Stands(n)'
  <2>1. /\ ~(doing[p] = "newbid" /\ t[p] = n) /\ ~With(p, {"gwvoid", "booked"}, n)
        /\ ~With(p, {"gwvoid", "drop", "forget", "booked", "lost"}, n)'
    BY DEF InHand, With
  <2>. QED
    BY <2>1, Untouched DEF PromoRecords
<1>9. ASSUME NEW n \in Trans \ torn'
      PROVE  HasName(n)'
  <2>. SUFFICES ASSUME bids[n].status \in {"AUTH", "CHARGE"}, bids[n].campaign \notin astray'
                PROVE  HasName(n)'
    BY DEF HasName
  <2>0. bids[n].campaign \in Campaigns /\ n # NoTransaction
    BY DEF PromoRecords, Fresh, Trans, NoTransaction
  <2>1. astray \subseteq astray'
    BY <1>2
  <2>2. CASE bids[n].campaign # c0
    <3>1. ~(doing[p] \in {"raise", "settrans"} /\ t[p] = n)
      BY <2>2 DEF PromoRecords, Fresh
    <3>2. camp'[bids[n].campaign].trans = camp[bids[n].campaign].trans
      BY <1>3, <2>0, <2>2
    <3>. QED
      BY <2>1, <3>1, <3>2, StillNamed DEF PromoRecords
  <2>3. CASE bids[n].campaign = c0 /\ n = m
    <3>1. m = t[p] /\ doing[p] = "settrans"
      BY <2>0, <2>3
    <3>2. m # Mine(p)
      BY <2>0, <2>3, <3>1 DEF Route, HasPaid
    <3>3. camp'[c0].trans = n
      BY <1>3, <2>3, <3>2
    <3>. QED
      BY <2>3, <3>3 DEF HasName
  <2>4. CASE bids[n].campaign = c0 /\ n # m
    <3>1. ~(doing[p] \in {"raise", "settrans"} /\ t[p] = n)
      BY <2>4
    <3>2. CASE m = Mine(p)
      <4>1. camp' = camp
        BY <1>2, <3>2
      <4>. QED
        BY <2>1, <3>1, <4>1, StillNamed DEF PromoRecords
    <3>3. CASE m # Mine(p)
      <4>1. c0 \notin moved[p]
        BY <1>2, <2>4, <3>3
      <4>2. camp[c0].trans = Mine(p)
        BY <1>0, <4>1 DEF PromoRecords, Copied, Mine
      <4>3. Mine(p) # n
        <5>1. CASE doing[p] = "settrans"
          BY <2>0, <5>1 DEF Route, HasPaid
        <5>2. CASE doing[p] \in {"drop", "forget"}
          <6>1. With(p, {"gwvoid", "drop", "forget"}, n) => bids[n].status = "VOID"
            BY DEF PromoRecords, Steps, Stands
          <6>. QED
            BY <5>2, <6>1 DEF With
        <5>. QED
          BY <5>1, <5>2
      <4>4. PICK q \in Workers : doing[q] \in {"raise", "settrans"} /\ t[q] = n
        <5>1. HasName(n)
          BY DEF PromoRecords, Named
        <5>. QED
          BY <2>1, <2>4, <4>2, <4>3, <5>1 DEF HasName
      <4>5. doing'[q] \in {"raise", "settrans"} /\ t'[q] = n
        BY <3>1, <4>4 DEF OthersWait
      <4>. QED
        BY <4>5 DEF HasName
    <3>. QED
      BY <3>2, <3>3
  <2>. QED
    BY <2>2, <2>3, <2>4
<1>. QED
  BY <1>5, <1>6, <1>7, <1>8, <1>9 DEF PromoRecords, Steps, Named


\* What the money steps of p have in common.
Pays(p) ==
    /\ OthersWait(p) /\ doing[p] # "idle"
    /\ UNCHANGED <<camp, trans, at, moved, astray>>

\* If q has transaction n in hand, n has a bid.
LEMMA InHandHasBid ==
    ASSUME Shapes, WorkRoutes, PromoRecords, NEW q \in Workers, NEW n \in Trans,
           With(q, OnOne, n)
    PROVE  /\ at[q] \in Campaigns /\ bids[n].status # "none" /\ gate[n] # "none"
           /\ bids[n].campaign = at[q]
<1>1. at[q] \in Campaigns /\ trans[q][at[q]] = n /\ n # NoTransaction
  BY DEF WorkRoutes, Route, With, Mine, Trans, NoTransaction
<1>2. Owned(n, at[q])
  BY <1>1 DEF PromoRecords, Owns
<1>. QED
  BY <1>1, <1>2 DEF Owned, PromoRecords, Fresh

\* VoidBid, Book and Lose mark the bid of the transaction in hand.
LEMMA MarkingKeeps ==
    ASSUME Shapes, WorkRoutes, NEW p \in Workers, Pays(p), PromoRecords, NEW n \in Trans,
           With(p, {"void", "booked", "lost"}, n), NEW s \in {"VOID", "CHARGE"},
           bids' = [bids EXCEPT ![n].status = s], UNCHANGED <<gate, t>>,
           torn \subseteq torn', doing'[p] \in {"gwvoid", "pending", "forget"},
           s = "CHARGE" /\ n \notin torn' => bids[n].status \in {"AUTH", "CHARGE"}
    PROVE  /\ Fresh' /\ Owns' /\ Copied' /\ Named'
           /\ \A m \in Trans \ torn' : m # n => Stands(m)'
           /\ bids'[n].status = s
<1>0. bids \in [Trans -> [campaign : Campaigns \cup {NoCampaign},
                          status : {"none", "AUTH", "CHARGE", "VOID"}]]
  BY DEF Shapes
<1>1. /\ \A m \in Trans : /\ bids'[m].campaign = bids[m].campaign
                          /\ m # n => bids'[m] = bids[m]
      /\ bids'[n].status = s
  BY <1>0
<1>2. bids[n].status # "none" /\ gate[n] # "none"
  BY InHandHasBid DEF With, OnOne
<1>3. \A m \in Trans : bids'[m].status = "none" <=> bids[m].status = "none"
  BY <1>1, <1>2
<1>4. Fresh'
  <2>1. ASSUME NEW m \in Trans
        PROVE  /\ bids'[m].status = "none" => bids'[m] = NoBid
               /\ bids'[m].status # "none" => gate'[m] # "none" /\ bids'[m].campaign \in Campaigns
    BY <1>1, <1>2, <1>3 DEF PromoRecords, Fresh
  <2>2. t' = t /\ \A q \in Workers : doing'[q] \in {"newbid", "raise", "settrans"} =>
            doing[q] = doing'[q] /\ at'[q] = at[q]
    BY DEF Pays, OthersWait
  <2>3. ASSUME NEW q \in Workers, doing'[q] = "newbid"
        PROVE  bids'[t'[q]] = NoBid /\ gate'[t'[q]] = "authed"
    <3>1. bids[t[q]] = NoBid /\ gate[t[q]] = "authed" /\ t[q] # n
      BY <1>2, <2>2, <2>3 DEF PromoRecords, Fresh, NoBid
    <3>2. bids'[t[q]] = bids[t[q]]
      BY <1>0, <3>1
    <3>. QED
      BY <2>2, <3>1, <3>2
  <2>4. ASSUME NEW q \in Workers, doing'[q] \in {"raise", "settrans"}
        PROVE  bids'[t'[q]].campaign = at'[q]
    <3>1. t[q] \in Trans /\ bids[t[q]].campaign = at[q]
      BY <2>2, <2>4 DEF PromoRecords, Fresh, Shapes, WorkRoutes, Route, HasPaid, Trans,
         NoTransaction
    <3>. QED
      BY <1>1, <2>2, <2>4, <3>1
  <2>. QED
    BY <2>1, <2>2, <2>3, <2>4 DEF PromoRecords, Fresh
<1>5. ASSUME NEW m \in 0 .. MaxTrans, NEW c, Owned(m, c)
      PROVE  Owned(m, c)'
  BY <1>1, <1>3, <1>5 DEF Owned, Trans, NoTransaction
<1>6. Owns'
  BY <1>5 DEF PromoRecords, Owns, Owned, Pays, Shapes
<1>7. Copied'
  BY DEF PromoRecords, Copied, Pays, OthersWait
<1>8. ASSUME NEW m \in Trans \ torn'
      PROVE  HasName(m)'
  <2>1. \/ bids'[m].status \in {"AUTH", "CHARGE"} => bids[m].status \in {"AUTH", "CHARGE"}
    BY <1>1
  <2>. QED
    BY <1>1, <2>1, StillNamed DEF PromoRecords, Pays, With
<1>9. ASSUME NEW m \in Trans \ torn', m # n
      PROVE  Stands(m)'
  <2>1. Mine(p) = n /\ Mine(p)' = n
    BY DEF With, Pays, Mine
  <2>. QED
    BY <1>1, <1>9, <2>1, Untouched DEF PromoRecords, Pays, With
<1>. QED
  BY <1>1, <1>4, <1>6, <1>7, <1>8, <1>9 DEF Named

\* GatewayVoid, Capture and HoldGone change what the processor knows of it.
LEMMA AnsweredKeeps ==
    ASSUME Shapes, WorkRoutes, NEW p \in Workers, Pays(p), PromoRecords, NEW n \in Trans,
           With(p, {"gwvoid", "capture"}, n),
           NEW g \in {"authed", "captured", "settled", "voided", "expired"},
           gate' = [gate EXCEPT ![n] = g], UNCHANGED <<bids, t>>,
           torn \subseteq torn', doing'[p] \in {"drop", "booked", "lost"}
    PROVE  /\ Fresh' /\ Owns' /\ Copied' /\ Named'
           /\ \A m \in Trans \ torn' : m # n => Stands(m)'
           /\ gate'[n] = g
<1>0. gate \in [Trans -> {"none", "authed", "captured", "settled", "voided", "expired"}]
  BY DEF Shapes
<1>1. gate'[n] = g /\ \A m \in Trans : m # n => gate'[m] = gate[m]
  BY <1>0
<1>2. bids[n].status # "none" /\ gate[n] # "none"
  BY InHandHasBid DEF With, OnOne
<1>4. Fresh'
  <2>1. ASSUME NEW m \in Trans
        PROVE  /\ bids'[m].status = "none" => bids'[m] = NoBid
               /\ bids'[m].status # "none" => gate'[m] # "none" /\ bids'[m].campaign \in Campaigns
    BY <1>1, <1>2 DEF PromoRecords, Fresh
  <2>2. t' = t /\ \A q \in Workers : doing'[q] \in {"newbid", "raise", "settrans"} =>
            doing[q] = doing'[q] /\ at'[q] = at[q]
    BY DEF Pays, OthersWait
  <2>3. ASSUME NEW q \in Workers, doing'[q] = "newbid"
        PROVE  bids'[t'[q]] = NoBid /\ gate'[t'[q]] = "authed"
    <3>1. bids[t[q]] = NoBid /\ gate[t[q]] = "authed" /\ t[q] # n
      BY <1>2, <2>2, <2>3 DEF PromoRecords, Fresh, NoBid
    <3>2. t[q] \in Trans
      BY <2>2, <2>3 DEF Shapes, WorkRoutes, Route, HasPaid, Trans, NoTransaction
    <3>. QED
      BY <1>1, <2>2, <3>1, <3>2
  <2>4. ASSUME NEW q \in Workers, doing'[q] \in {"raise", "settrans"}
        PROVE  bids'[t'[q]].campaign = at'[q]
    BY <2>2, <2>4 DEF PromoRecords, Fresh
  <2>5. ASSUME NEW q \in Workers, t'[q] # NoTransaction
        PROVE  gate'[t'[q]] # "none"
    <3>1. gate[t[q]] # "none" /\ t[q] \in Trans
      BY <2>2, <2>5 DEF PromoRecords, Fresh, Shapes, Trans, NoTransaction
    <3>. QED
      BY <1>1, <2>2, <3>1
  <2>. QED
    BY <2>1, <2>2, <2>3, <2>4, <2>5 DEF PromoRecords, Fresh
<1>6. Owns'
  BY DEF PromoRecords, Owns, Owned, Pays
<1>7. Copied'
  BY DEF PromoRecords, Copied, Pays, OthersWait
<1>8. ASSUME NEW m \in Trans \ torn'
      PROVE  HasName(m)'
  BY StillNamed DEF PromoRecords, Pays, With
<1>9. ASSUME NEW m \in Trans \ torn', m # n
      PROVE  Stands(m)'
  <2>1. Mine(p) = n /\ Mine(p)' = n
    BY DEF With, Pays, Mine
  <2>. QED
    BY <1>1, <1>9, <2>1, Untouched DEF PromoRecords, Pays, With
<1>. QED
  BY <1>1, <1>4, <1>6, <1>7, <1>8, <1>9 DEF Named


\* Nobody else is at work with transaction n, or it is torn from now on.
LEMMA Torn ==
    ASSUME NEW p \in Workers, NEW n, Tear(p, n)
    PROVE  /\ torn \subseteq torn'
           /\ n \notin torn' => \A q \in Workers \ {p} :
                                    ~With(q, {"gwvoid", "capture", "booked", "lost"}, n)
BY DEF Tear, With

\* The steps that touch a transaction, one by one.
LEMMA VoidBidKeeps ==
    ASSUME Shapes, WorkRoutes, NEW p \in Workers, OthersWait(p), PromoRecords, VoidBid(p)
    PROVE  PromoRecords'
<1>n. PICK n : n = Mine(p)
  OBVIOUS
<1>1. /\ n \in Trans /\ With(p, {"void", "booked", "lost"}, n)
  BY <1>n DEF VoidBid, With, Mine, WorkRoutes, Route, OnOne, Shapes, Trans,
     NoTransaction
<1>2. /\ bids' = [bids EXCEPT ![n].status = "VOID"] /\ UNCHANGED <<gate, t, trans, at>>
      /\ Tear(p, n) /\ doing'[p] = "gwvoid" /\ Pays(p)
  BY <1>n DEF VoidBid, Go, copies, Pays, Shapes
<1>3. /\ torn \subseteq torn'
      /\ n \notin torn' => \A q \in Workers \ {p} :
                               ~With(q, {"gwvoid", "capture", "booked", "lost"}, n)
  BY <1>2, Torn
<1>4. /\ Fresh' /\ Owns' /\ Copied' /\ Named'
      /\ \A m \in Trans \ torn' : m # n => Stands(m)'
      /\ bids'[n].status = "VOID"
  BY <1>1, <1>2, <1>3, MarkingKeeps
<1>5. ASSUME n \notin torn'
      PROVE  Stands(n)'
  <2>0. Mine(p)' = n
    BY <1>n, <1>2 DEF Mine
  <2>1. gate'[n] # "settled"
    BY <1>1, <1>2, <1>3, <1>5 DEF PromoRecords, Steps, Stands
  <2>2. With(p, {"gwvoid", "booked"}, n)'
    BY <1>2, <2>0 DEF With
  <2>3. ASSUME NEW q \in Workers
        PROVE  ~With(q, {"booked", "lost"}, n)'
    BY <1>2, <1>3, <1>5 DEF With, OthersWait, Mine
  <2>. QED
    BY <1>4, <2>0, <2>1, <2>2, <2>3 DEF Stands, With
<1>. QED
  BY <1>4, <1>5 DEF PromoRecords, Steps

LEMMA GatewayVoidKeeps ==
    ASSUME Shapes, WorkRoutes, NEW p \in Workers, OthersWait(p), PromoRecords, GatewayVoid(p)
    PROVE  PromoRecords'
<1>n. PICK n : n = Mine(p)
  OBVIOUS
<1>1. n \in Trans /\ With(p, {"gwvoid", "capture"}, n) /\ With(p, OnOne, n)
  BY <1>n DEF GatewayVoid, With, Mine, WorkRoutes, Route, OnOne, HasTrans, Shapes,
     Trans, NoTransaction
<1>0. gate[n] \in {"authed", "captured", "settled", "voided", "expired"}
  BY <1>1, InHandHasBid DEF Shapes
<1>2. PICK g \in {"authed", "captured", "settled", "voided", "expired"} :
        /\ gate' = [gate EXCEPT ![n] = g]
        /\ IF g = "settled" THEN torn' = torn \cup {n} ELSE Tear(p, n)
        /\ \/ gate[n] = "authed" /\ g = "voided"
           \/ gate[n] = "captured" /\ g \in {"voided", "settled"}
           \/ gate[n] \notin {"authed", "captured"} /\ g = gate[n]
  <2>1. PICK g \in CASE gate[n] = "authed"   -> {"voided"}
                     [] gate[n] = "captured" -> {"voided", "settled"}
                     [] OTHER                -> {gate[n]} :
          /\ gate' = [gate EXCEPT ![n] = g]
          /\ IF g = "settled" THEN torn' = torn \cup {n} ELSE Tear(p, n)
    BY <1>n DEF GatewayVoid
  <2>. QED
    BY <1>0, <2>1
<1>3. UNCHANGED <<bids, t, trans, at>> /\ doing'[p] = "drop" /\ Pays(p)
  BY <1>n DEF GatewayVoid, Go, copies, Pays, Shapes
<1>4. /\ torn \subseteq torn'
      /\ n \notin torn' => /\ g # "settled"
                           /\ \A q \in Workers \ {p} :
                                ~With(q, {"gwvoid", "capture", "booked", "lost"}, n)
  BY <1>2, Torn
<1>5. /\ Fresh' /\ Owns' /\ Copied' /\ Named'
      /\ \A m \in Trans \ torn' : m # n => Stands(m)'
      /\ gate'[n] = g
  BY <1>1, <1>2, <1>3, <1>4, AnsweredKeeps
<1>6. ASSUME n \notin torn'
      PROVE  Stands(n)'
  <2>0. Mine(p)' = n
    BY <1>n, <1>3 DEF Mine
  <2>1. Stands(n)
    BY <1>1, <1>4, <1>6 DEF PromoRecords, Steps
  <2>2. bids'[n].status = "VOID"
    BY <1>n, <1>3, <2>1 DEF Stands, With, GatewayVoid
  <2>3. gate'[n] \in {"voided", "expired"}
    BY <1>0, <1>2, <1>4, <1>5, <1>6
  <2>4. ASSUME NEW q \in Workers
        PROVE  ~With(q, {"booked", "lost"}, n)'
    BY <1>3, <1>4, <1>6 DEF With, OthersWait, Mine
  <2>. QED
    BY <2>2, <2>3, <2>4 DEF Stands, With, Agree
<1>. QED
  BY <1>5, <1>6 DEF PromoRecords, Steps

LEMMA CaptureKeeps ==
    ASSUME Shapes, WorkRoutes, NEW p \in Workers, OthersWait(p), PromoRecords, Capture(p)
    PROVE  PromoRecords'
<1>n. PICK n : n = Mine(p)
  OBVIOUS
<1>1. n \in Trans /\ With(p, {"gwvoid", "capture"}, n) /\ With(p, OnOne, n)
  BY <1>n DEF Capture, With, Mine, WorkRoutes, Route, OnOne, HasTrans, Shapes, Trans,
     NoTransaction
<1>2. gate[n] = "authed" /\ gate' = [gate EXCEPT ![n] = "captured"] /\ Tear(p, n)
  BY <1>n DEF Capture
<1>3. /\ UNCHANGED <<bids, t, trans, at>> /\ doing[p] = "capture"
      /\ doing'[p] = "booked" /\ Pays(p)
  BY <1>n DEF Capture, Go, copies, Pays, Shapes
<1>4. /\ torn \subseteq torn'
      /\ n \notin torn' => \A q \in Workers \ {p} :
                               ~With(q, {"gwvoid", "capture", "booked", "lost"}, n)
  BY <1>2, Torn
<1>5. /\ Fresh' /\ Owns' /\ Copied' /\ Named'
      /\ \A m \in Trans \ torn' : m # n => Stands(m)'
      /\ gate'[n] = "captured"
  BY <1>1, <1>2, <1>3, <1>4, AnsweredKeeps
<1>6. ASSUME n \notin torn'
      PROVE  Stands(n)'
  <2>0. Mine(p)' = n
    BY <1>n, <1>3 DEF Mine
  <2>1. Stands(n)
    BY <1>1, <1>4, <1>6 DEF PromoRecords, Steps
  <2>2. Agree(n)
    <3>1. ASSUME NEW q \in Workers, doing[q] = "newbid", t[q] = n
          PROVE  FALSE
      <4>1. bids[n].status = "none"
        BY <3>1 DEF PromoRecords, Fresh, NoBid
      <4>. QED
        BY <1>1, <4>1, InHandHasBid
    <3>2. ASSUME NEW q \in Workers, With(q, {"gwvoid", "booked"}, n)
          PROVE  FALSE
      BY <1>3, <1>4, <1>6, <3>2 DEF With
    <3>. QED
      BY <2>1, <3>1, <3>2 DEF Stands
  <2>3. bids'[n].status = "AUTH"
    <3>1. bids[n].status \in {"none", "AUTH", "CHARGE", "VOID"}
      BY <1>1 DEF Shapes
    <3>. QED
      BY <1>2, <1>3, <2>2, <3>1 DEF Agree
  <2>4. With(p, {"gwvoid", "booked"}, n)'
    BY <1>3, <2>0 DEF With
  <2>5. ASSUME NEW q \in Workers
        PROVE  /\ ~With(q, {"gwvoid", "drop", "forget"}, n)'
               /\ ~With(q, {"lost"}, n)'
    <3>1. CASE q = p
      BY <1>3, <3>1 DEF With
    <3>2. CASE q # p
      <4>1. /\ doing'[q] = doing[q] /\ Mine(q)' = Mine(q)
        BY <3>2 DEF OthersWait, Mine
      <4>2. ~With(q, {"gwvoid", "drop", "forget"}, n)
        BY <1>3, <2>1, <2>3 DEF Stands
      <4>. QED
        BY <1>4, <1>6, <3>2, <4>1, <4>2 DEF With
    <3>. QED
      BY <3>1, <3>2
  <2>. QED
    BY <1>5, <2>3, <2>4, <2>5 DEF Stands
<1>. QED
  BY <1>5, <1>6 DEF PromoRecords, Steps

LEMMA HoldGoneKeeps ==
    ASSUME Shapes, WorkRoutes, NEW p \in Workers, OthersWait(p), PromoRecords, HoldGone(p)
    PROVE  PromoRecords'
<1>n. PICK n : n = Mine(p)
  OBVIOUS
<1>g. PICK g : g = IF gate[n] = "authed" THEN "expired" ELSE gate[n]
  OBVIOUS
<1>1. n \in Trans /\ With(p, {"gwvoid", "capture"}, n) /\ With(p, OnOne, n)
  BY <1>n DEF HoldGone, With, Mine, WorkRoutes, Route, OnOne, HasTrans, Shapes, Trans,
     NoTransaction
<1>2. gate[n] \in {"authed", "expired", "voided"} /\ gate' = [gate EXCEPT ![n] = g]
  BY <1>n, <1>g DEF HoldGone
<1>3. /\ UNCHANGED <<bids, t, trans, at, torn>> /\ doing[p] = "capture"
      /\ doing'[p] = "lost"
      /\ Pays(p)
  BY DEF HoldGone, Go, copies, records, Pays, Shapes
<1>4. g \in {"expired", "voided"} /\ torn \subseteq torn'
  BY <1>g, <1>2, <1>3
<1>5. /\ Fresh' /\ Owns' /\ Copied' /\ Named'
      /\ \A m \in Trans \ torn' : m # n => Stands(m)'
      /\ gate'[n] = g
  BY <1>1, <1>2, <1>3, <1>4, AnsweredKeeps
<1>6. ASSUME n \notin torn'
      PROVE  Stands(n)'
  <2>0. Mine(p)' = n
    BY <1>n, <1>3 DEF Mine
  <2>1. Stands(n)
    BY <1>1, <1>3, <1>6 DEF PromoRecords, Steps
  <2>2. ASSUME NEW q \in Workers
        PROVE  ~(doing[q] = "newbid" /\ t[q] = n) /\ ~With(q, {"booked"}, n)
    <3>1. bids[n].status # "none"
      BY <1>1, InHandHasBid
    <3>2. ~With(q, {"booked"}, n)
      BY <1>2, <2>1 DEF Stands
    <3>. QED
      BY <3>1, <3>2 DEF PromoRecords, Fresh, NoBid
  <2>3. \A q \in Workers \ {p} : doing'[q] = doing[q] /\ Mine(q)' = Mine(q)
    BY DEF OthersWait, Mine
  <2>4. Agree(n) => Agree(n)'
    <3>1. bids[n].status \in {"none", "AUTH", "CHARGE", "VOID"} /\ bids' = bids
      BY <1>1, <1>3 DEF Shapes
    <3>. QED
      BY <1>g, <1>2, <1>5, <3>1 DEF Agree
  <2>5. \A q \in Workers : With(q, {"gwvoid"}, n) => With(q, {"gwvoid", "booked"}, n)'
    BY <1>3, <2>3 DEF With
  <2>6. \/ Agree(n)'
        \/ \E q \in Workers : With(q, {"gwvoid", "booked"}, n)'
    BY <2>1, <2>2, <2>4, <2>5 DEF Stands, With
  <2>7. ASSUME NEW q \in Workers
        PROVE  /\ With(q, {"gwvoid", "drop", "forget"}, n)' => bids'[n].status = "VOID"
               /\ ~With(q, {"booked"}, n)'
    <3>1. CASE q = p
      BY <1>3, <3>1 DEF With
    <3>2. CASE q # p
      BY <1>3, <2>1, <2>2, <2>3, <3>2 DEF With, Stands
    <3>. QED
      BY <3>1, <3>2
  <2>. QED
    BY <1>4, <1>5, <2>6, <2>7 DEF Stands
<1>. QED
  BY <1>5, <1>6 DEF PromoRecords, Steps


LEMMA BookKeeps ==
    ASSUME Shapes, WorkRoutes, NEW p \in Workers, OthersWait(p), PromoRecords, Book(p)
    PROVE  PromoRecords'
<1>n. PICK n : n = Mine(p)
  OBVIOUS
<1>1. n \in Trans /\ With(p, {"void", "booked", "lost"}, n) /\ With(p, {"booked"}, n)
  BY <1>n DEF Book, With, Mine, WorkRoutes, Route, OnOne, HasTrans, Shapes, Trans,
     NoTransaction
<1>2. /\ bids' = [bids EXCEPT ![n].status = "CHARGE"] /\ UNCHANGED <<gate, t, trans, at>>
      /\ Tear(p, n) /\ doing'[p] = "pending" /\ Pays(p)
  BY <1>n DEF Book, Go, copies, Pays, Shapes
<1>3. /\ torn \subseteq torn'
      /\ n \notin torn' => \A q \in Workers \ {p} :
                               ~With(q, {"gwvoid", "capture", "booked", "lost"}, n)
  BY <1>2, Torn
<1>4. n \notin torn' => bids[n].status = "AUTH" /\ gate[n] = "captured"
  BY <1>1, <1>3 DEF PromoRecords, Steps, Stands
<1>5. /\ Fresh' /\ Owns' /\ Copied' /\ Named'
      /\ \A m \in Trans \ torn' : m # n => Stands(m)'
      /\ bids'[n].status = "CHARGE"
  BY <1>1, <1>2, <1>3, <1>4, MarkingKeeps
<1>6. ASSUME n \notin torn'
      PROVE  Stands(n)'
  <2>1. gate'[n] = "captured"
    BY <1>2, <1>4, <1>6
  <2>2. ASSUME NEW q \in Workers
        PROVE  ~With(q, {"gwvoid", "drop", "forget", "booked", "lost"}, n)'
    <3>1. CASE q = p
      BY <1>2, <3>1 DEF With
    <3>2. CASE q # p
      <4>1. doing'[q] = doing[q] /\ Mine(q)' = Mine(q)
        BY <3>2 DEF OthersWait, Mine
      <4>2. ~With(q, {"gwvoid", "drop", "forget"}, n)
        BY <1>1, <1>3, <1>4, <1>6 DEF PromoRecords, Steps, Stands
      <4>. QED
        BY <1>3, <1>6, <3>2, <4>1, <4>2 DEF With
    <3>. QED
      BY <3>1, <3>2
  <2>. QED
    BY <1>5, <2>1, <2>2 DEF Stands, Agree, With
<1>. QED
  BY <1>5, <1>6 DEF PromoRecords, Steps

LEMMA LoseKeeps ==
    ASSUME Shapes, WorkRoutes, NEW p \in Workers, OthersWait(p), PromoRecords, Lose(p)
    PROVE  PromoRecords'
<1>n. PICK n : n = Mine(p)
  OBVIOUS
<1>1. n \in Trans /\ With(p, {"void", "booked", "lost"}, n) /\ With(p, {"lost"}, n)
  BY <1>n DEF Lose, With, Mine, WorkRoutes, Route, OnOne, HasTrans, Shapes, Trans,
     NoTransaction
<1>2. /\ bids' = [bids EXCEPT ![n].status = "VOID"] /\ UNCHANGED <<gate, t, trans, at>>
      /\ Tear(p, n) /\ doing'[p] = "forget" /\ Pays(p)
  BY <1>n DEF Lose, Go, copies, Pays, Shapes
<1>3. /\ torn \subseteq torn'
      /\ n \notin torn' => \A q \in Workers \ {p} :
                               ~With(q, {"gwvoid", "capture", "booked", "lost"}, n)
  BY <1>2, Torn
<1>5. /\ Fresh' /\ Owns' /\ Copied' /\ Named'
      /\ \A m \in Trans \ torn' : m # n => Stands(m)'
      /\ bids'[n].status = "VOID"
  BY <1>1, <1>2, <1>3, MarkingKeeps
<1>6. ASSUME n \notin torn'
      PROVE  Stands(n)'
  <2>1. gate'[n] \in {"voided", "expired"}
    BY <1>1, <1>2, <1>3, <1>6 DEF PromoRecords, Steps, Stands
  <2>2. ASSUME NEW q \in Workers
        PROVE  ~With(q, {"booked"}, n)'
    BY <1>2, <1>3, <1>6 DEF With, OthersWait, Mine
  <2>. QED
    BY <1>5, <2>1, <2>2 DEF Stands, Agree
<1>. QED
  BY <1>5, <1>6 DEF PromoRecords, Steps

LEMMA AuthoriseKeeps ==
    ASSUME Shapes, WorkRoutes, NEW p \in Workers, OthersWait(p), PromoRecords, Authorise(p)
    PROVE  PromoRecords'
<1>0. /\ gate \in [Trans -> {"none", "authed", "captured", "settled", "voided", "expired"}]
      /\ t \in [Workers -> 0 .. MaxTrans] /\ doing \in [Workers -> Places]
  BY DEF Shapes
<1>1. PICK n \in Trans : /\ gate[n] = "none" /\ gate' = [gate EXCEPT ![n] = "authed"]
                         /\ t' = [t EXCEPT ![p] = n]
  BY DEF Authorise
<1>2. /\ UNCHANGED <<camp, bids, at, trans, moved, torn, astray>>
      /\ doing[p] = "auth" /\ doing'[p] = "newbid" /\ t[p] = NoTransaction
  BY <1>0 DEF Authorise, Go, records, WorkRoutes, Route, HasPaid
<1>3. /\ bids[n] = NoBid /\ n # NoTransaction
      /\ \A q \in Workers : t[q] # n
  BY <1>1 DEF PromoRecords, Fresh, Trans, NoTransaction
<1>4. /\ t'[p] = n /\ \A q \in Workers : q # p => t'[q] = t[q]
      /\ gate'[n] = "authed" /\ \A m \in Trans : m # n => gate'[m] = gate[m]
  BY <1>0, <1>1
<1>5. Fresh'
  <2>1. ASSUME NEW m \in Trans
        PROVE  /\ bids'[m].status = "none" => bids'[m] = NoBid
               /\ bids'[m].status # "none" => gate'[m] # "none" /\ bids'[m].campaign \in Campaigns
    BY <1>1, <1>2, <1>3, <1>4 DEF PromoRecords, Fresh
  <2>2. ASSUME NEW q \in Workers, NEW r \in Workers, t'[q] = t'[r], t'[q] # NoTransaction
        PROVE  q = r
    BY <1>3, <1>4, <2>2 DEF PromoRecords, Fresh
  <2>3. ASSUME NEW q \in Workers
        PROVE  /\ t'[q] # NoTransaction => gate'[t'[q]] # "none"
               /\ doing'[q] = "newbid" => bids'[t'[q]] = NoBid /\ gate'[t'[q]] = "authed"
               /\ doing'[q] \in {"raise", "settrans"} => bids'[t'[q]].campaign = at'[q]
    <3>1. CASE q = p
      BY <1>2, <1>3, <1>4, <3>1
    <3>2. CASE q # p
      <4>1. doing'[q] = doing[q] /\ t'[q] = t[q] /\ t[q] # n
        BY <1>3, <1>4, <3>2 DEF OthersWait
      <4>2. t[q] # NoTransaction => t[q] \in Trans /\ gate'[t[q]] = gate[t[q]]
        BY <1>0, <1>4, <4>1 DEF Trans, NoTransaction
      <4>3. doing[q] = "newbid" => t[q] # NoTransaction
        BY DEF WorkRoutes, Route, HasPaid
      <4>. QED
        BY <1>2, <4>1, <4>2, <4>3 DEF PromoRecords, Fresh
    <3>. QED
      BY <3>1, <3>2
  <2>. QED
    BY <2>1, <2>2, <2>3 DEF Fresh
<1>6. Owns'
  BY <1>2 DEF PromoRecords, Owns, Owned
<1>7. Copied'
  BY <1>2 DEF PromoRecords, Copied, OthersWait
<1>8. ASSUME NEW m \in Trans \ torn'
      PROVE  Stands(m)'
  <2>1. CASE m # n
    BY <1>2, <1>4, <2>1, Untouched DEF PromoRecords, With
  <2>2. CASE m = n
    <3>1. doing'[p] = "newbid" /\ t'[p] = n
      BY <1>2, <1>4
    <3>2. ASSUME NEW q \in Workers
          PROVE  ~With(q, {"gwvoid", "drop", "forget", "booked", "lost"}, n)'
      <4>1. CASE q = p
        BY <1>2, <4>1 DEF With
      <4>2. CASE q # p
        <5>1. doing'[q] = doing[q] /\ Mine(q)' = Mine(q)
          BY <4>2 DEF OthersWait, Mine
        <5>2. ~With(q, OnOne, n)
          BY <1>3, InHandHasBid DEF NoBid
        <5>. QED
          BY <5>1, <5>2 DEF With, OnOne
      <4>. QED
        BY <4>1, <4>2
    <3>. QED
      BY <1>4, <2>2, <3>1, <3>2 DEF Stands, With
  <2>. QED
    BY <2>1, <2>2
<1>9. ASSUME NEW m \in Trans \ torn'
      PROVE  HasName(m)'
  BY <1>2, StillNamed DEF PromoRecords
<1>. QED
  BY <1>5, <1>6, <1>7, <1>8, <1>9 DEF PromoRecords, Steps, Named

LEMMA NewBidKeeps ==
    ASSUME Shapes, WorkRoutes, NEW p \in Workers, OthersWait(p), PromoRecords, NewBid(p)
    PROVE  PromoRecords'
<1>0. /\ bids \in [Trans -> [campaign : Campaigns \cup {NoCampaign},
                             status : {"none", "AUTH", "CHARGE", "VOID"}]]
      /\ t \in [Workers -> 0 .. MaxTrans] /\ doing \in [Workers -> Places]
  BY DEF Shapes
<1>n. PICK n : n = t[p]
  OBVIOUS
<1>1. /\ UNCHANGED <<camp, gate, t, at, trans, moved, torn, astray>>
      /\ bids' = [bids EXCEPT ![n] = [campaign |-> at[p], status |-> "AUTH"]]
      /\ doing[p] = "newbid" /\ doing'[p] = "raise"
  BY <1>n, <1>0 DEF NewBid, Go, copies, records
<1>2. /\ n \in Trans /\ at[p] \in Campaigns /\ bids[n] = NoBid /\ gate[n] = "authed"
      /\ \A q \in Workers : q # p => t[q] # n
  BY <1>n, <1>0, <1>1 DEF PromoRecords, Fresh, WorkRoutes, Route, HasPaid, OnOne, Trans,
     NoTransaction
<1>3. /\ bids'[n] = [campaign |-> at[p], status |-> "AUTH"]
      /\ \A m \in Trans : m # n => bids'[m] = bids[m]
  BY <1>0, <1>1, <1>2
<1>4. ASSUME NEW m \in 0 .. MaxTrans, NEW c, Owned(m, c)
      PROVE  Owned(m, c)'
  <2>1. m # n
    BY <1>2, <1>4 DEF Owned, NoBid, Trans, NoTransaction
  <2>. QED
    BY <1>3, <1>4, <2>1 DEF Owned, Trans, NoTransaction
<1>5. Fresh'
  <2>1. ASSUME NEW m \in Trans
        PROVE  /\ bids'[m].status = "none" => bids'[m] = NoBid
               /\ bids'[m].status # "none" => gate'[m] # "none" /\ bids'[m].campaign \in Campaigns
    BY <1>1, <1>2, <1>3 DEF PromoRecords, Fresh
  <2>3. ASSUME NEW q \in Workers
        PROVE  /\ t'[q] # NoTransaction => gate'[t'[q]] # "none"
               /\ doing'[q] = "newbid" => bids'[t'[q]] = NoBid /\ gate'[t'[q]] = "authed"
               /\ doing'[q] \in {"raise", "settrans"} => bids'[t'[q]].campaign = at'[q]
    <3>1. CASE q = p
      BY <1>n, <1>1, <1>2, <1>3, <3>1
    <3>2. CASE q # p
      <4>1. doing'[q] = doing[q] /\ t[q] # n
        BY <1>2, <3>2 DEF OthersWait
      <4>2. doing[q] \in HasPaid => t[q] \in Trans
        BY <1>0 DEF WorkRoutes, Route, Trans, NoTransaction
      <4>3. doing[q] \in HasPaid => bids'[t[q]] = bids[t[q]]
        BY <1>3, <4>1, <4>2
      <4>. QED
        BY <1>1, <4>1, <4>3 DEF PromoRecords, Fresh, HasPaid
    <3>. QED
      BY <3>1, <3>2
  <2>. QED
    BY <1>1, <2>1, <2>3 DEF PromoRecords, Fresh
<1>6. Owns'
  <2>1. ASSUME NEW c \in Campaigns
        PROVE  Owned(camp[c].trans, c)'
    <3>1. Owned(camp[c].trans, c) /\ camp[c].trans \in 0 .. MaxTrans
      BY DEF PromoRecords, Owns, Shapes
    <3>. QED
      BY <1>1, <1>4, <3>1 DEF Owned
  <2>2. ASSUME NEW q \in Workers, NEW c \in Campaigns
        PROVE  Owned(trans[q][c], c)'
    <3>1. Owned(trans[q][c], c) /\ trans[q][c] \in 0 .. MaxTrans
      BY DEF PromoRecords, Owns, Shapes
    <3>. QED
      BY <1>1, <1>4, <3>1 DEF Owned
  <2>. QED
    BY <2>1, <2>2 DEF Owns
<1>7. Copied'
  BY <1>1 DEF PromoRecords, Copied, OthersWait
<1>8. ASSUME NEW m \in Trans \ torn'
      PROVE  Stands(m)'
  <2>1. CASE m # n
    BY <1>n, <1>1, <1>3, <2>1, Untouched DEF PromoRecords, With
  <2>2. CASE m = n
    <3>1. ASSUME NEW q \in Workers
          PROVE  ~With(q, {"gwvoid", "drop", "forget", "booked", "lost"}, n)'
      <4>1. CASE q = p
        BY <1>1, <4>1 DEF With
      <4>2. CASE q # p
        <5>1. doing'[q] = doing[q] /\ Mine(q)' = Mine(q)
          BY <4>2 DEF OthersWait, Mine
        <5>2. ~With(q, OnOne, n)
          BY <1>2, InHandHasBid DEF NoBid
        <5>. QED
          BY <5>1, <5>2 DEF With, OnOne
      <4>. QED
        BY <4>1, <4>2
    <3>2. bids'[n].status = "AUTH" /\ gate'[n] = "authed"
      BY <1>1, <1>2, <1>3
    <3>3. Agree(n)'
      BY <3>2 DEF Agree
    <3>. QED
      BY <2>2, <3>1, <3>2, <3>3 DEF Stands, With
  <2>. QED
    BY <2>1, <2>2
<1>9. ASSUME NEW m \in Trans \ torn'
      PROVE  HasName(m)'
  <2>1. CASE m # n
    BY <1>n, <1>1, <1>3, <2>1, StillNamed DEF PromoRecords
  <2>2. CASE m = n
    BY <1>n, <1>1, <2>2 DEF HasName
  <2>. QED
    BY <2>1, <2>2
<1>. QED
  BY <1>5, <1>6, <1>7, <1>8, <1>9 DEF PromoRecords, Steps, Named


\* Every step keeps what the records say.
LEMMA StepKeeps ==
    ASSUME Shapes, WorkRoutes, NEW p \in Workers, OthersWait(p), PromoRecords, PromoStep(p)
    PROVE  PromoRecords'
<1>0. /\ doing \in [Workers -> Places] /\ op \in [Workers -> Ops]
      /\ trans \in [Workers -> [Campaigns -> 0 .. MaxTrans]]
      /\ moved \in [Workers -> SUBSET Campaigns] /\ t \in [Workers -> 0 .. MaxTrans]
  BY DEF Shapes
<1>c. camp \in [Campaigns -> [trans : 0 .. MaxTrans, when : Whens,
                              scheduled : BOOLEAN, deleted : BOOLEAN]]
  BY DEF Shapes
<1>r. Route(p)
  BY DEF WorkRoutes
<1>1. CASE NothingToVoid(p)
  <2>1. bids' = bids /\ gate' = gate /\ t' = t /\ torn' = torn /\ astray' = astray
    BY <1>1 DEF NothingToVoid, books, copies, records
  <2>2. \A c \in Campaigns : camp'[c].trans = camp[c].trans
    BY <1>1 DEF NothingToVoid
  <2>3. doing[p] # "idle" /\ trans' = trans /\ moved' = moved
    BY <1>1 DEF NothingToVoid, copies, records
  <2>4. doing[p] \notin InHand /\ doing'[p] \notin InHand
    BY <1>0, <1>r, <1>1 DEF NothingToVoid, Go, InHand, AfterVoid, Route
  <2>. QED
    BY <2>1, <2>2, <2>3, <2>4, CalmKeeps DEF Calm
<1>2. CASE VoidBid(p)
  BY <1>2, VoidBidKeeps
<1>3. CASE GatewayVoid(p)
  BY <1>3, GatewayVoidKeeps
<1>4. CASE DropTrans(p)
  <2>1. /\ SetTrans(p, NoTransaction) /\ doing[p] = "drop"
        /\ UNCHANGED <<bids, gate, t, at, torn>>
    BY <1>4 DEF DropTrans, books
  <2>2. doing'[p] \notin InHand
    BY <1>0, <1>r, <1>4 DEF DropTrans, Go, InHand, Route, AfterVoid
  <2>3. NoTransaction \in 0 .. MaxTrans
    BY <1>0 DEF NoTransaction
  <2>. QED
    BY <1>r, <2>1, <2>2, <2>3, WritingKeeps
<1>5. CASE Authorise(p)
  BY <1>5, AuthoriseKeeps
<1>6. CASE AuthRefused(p)
  <2>1. /\ Leaves(p) /\ doing[p] = "auth" /\ UNCHANGED <<camp, bids, gate>>
        /\ torn \subseteq torn' /\ astray \subseteq astray'
    BY <1>6 DEF AuthRefused, books
  <2>. QED
    BY <2>1, LeavingKeeps
<1>7. CASE NewBid(p)
  BY <1>7, NewBidKeeps
<1>8. CASE RaiseStatus(p)
  <2>1. bids' = bids /\ gate' = gate /\ t' = t /\ torn' = torn /\ astray' = astray
    BY <1>8 DEF RaiseStatus, books, copies, records
  <2>2. \A c \in Campaigns : camp'[c].trans = camp[c].trans
    BY <1>8 DEF RaiseStatus
  <2>3. doing[p] # "idle" /\ trans' = trans /\ moved' = moved
    BY <1>8 DEF RaiseStatus, copies, records
  <2>4. doing[p] = "raise" /\ doing'[p] = "settrans" /\ at'[p] = at[p]
    BY <1>0, <1>8 DEF RaiseStatus, Go
  <2>. QED
    BY <2>1, <2>2, <2>3, <2>4, CalmKeeps DEF Calm
<1>9. CASE NewTrans(p)
  <2>1. /\ SetTrans(p, t[p]) /\ doing[p] = "settrans"
        /\ UNCHANGED <<bids, gate, t, at, torn>>
    BY <1>9 DEF NewTrans, books
  <2>2. doing'[p] \notin InHand
    BY <1>0, <1>r, <1>9 DEF NewTrans, Go, InHand, Route
  <2>3. t[p] \in 0 .. MaxTrans
    BY <1>0 DEF NoTransaction
  <2>. QED
    BY <1>r, <2>1, <2>2, <2>3, WritingKeeps
<1>10. CASE Unschedule(p)
  <2>1. bids' = bids /\ gate' = gate /\ t' = t /\ torn' = torn /\ astray' = astray
    BY <1>10 DEF Unschedule, books, copies, records
  <2>2. \A c \in Campaigns : camp'[c].trans = camp[c].trans
    BY <1>c, <1>10 DEF Unschedule
  <2>3. doing[p] # "idle" /\ trans' = trans /\ moved' = moved
    BY <1>10 DEF Unschedule, copies, records
  <2>4. doing[p] \notin InHand /\ doing'[p] \notin InHand
    BY <1>0, <1>r, <1>10 DEF Unschedule, Go, InHand, Route
  <2>. QED
    BY <2>1, <2>2, <2>3, <2>4, CalmKeeps DEF Calm
<1>11. CASE Schedule(p)
  <2>1. bids' = bids /\ gate' = gate /\ t' = t /\ torn' = torn /\ astray' = astray
    BY <1>11 DEF Schedule, books, copies, records
  <2>2. \A c \in Campaigns : camp'[c].trans = camp[c].trans
    BY <1>c, <1>11 DEF Schedule
  <2>3. doing[p] # "idle" /\ trans' = trans /\ moved' = moved
    BY <1>11 DEF Schedule, copies, records
  <2>4. doing[p] \notin InHand /\ doing'[p] \notin InHand
    BY <1>0, <1>r, <1>11 DEF Schedule, Go, InHand
  <2>. QED
    BY <2>1, <2>2, <2>3, <2>4, CalmKeeps DEF Calm
<1>12. CASE Delete(p)
  <2>1. bids' = bids /\ gate' = gate /\ t' = t /\ torn' = torn /\ astray' = astray
    BY <1>12 DEF Delete, books, copies, records
  <2>2. \A c \in Campaigns : camp'[c].trans = camp[c].trans
    BY <1>c, <1>12 DEF Delete
  <2>3. doing[p] # "idle" /\ trans' = trans /\ moved' = moved
    BY <1>12 DEF Delete, copies, records
  <2>4. doing[p] \notin InHand /\ doing'[p] \notin InHand
    BY <1>0, <1>r, <1>12 DEF Delete, Go, InHand
  <2>. QED
    BY <2>1, <2>2, <2>3, <2>4, CalmKeeps DEF Calm
<1>13. CASE CutShort(p)
  <2>1. bids' = bids /\ gate' = gate /\ t' = t /\ torn' = torn /\ astray' = astray
    BY <1>13 DEF CutShort, books, copies, records
  <2>2. \A c \in Campaigns : camp'[c].trans = camp[c].trans
    BY <1>c, <1>13 DEF CutShort
  <2>3. doing[p] # "idle" /\ trans' = trans /\ moved' = moved
    BY <1>13 DEF CutShort, copies, records
  <2>4. doing[p] \notin InHand /\ doing'[p] \notin InHand
    BY <1>0, <1>r, <1>13 DEF CutShort, Go, InHand
  <2>. QED
    BY <2>1, <2>2, <2>3, <2>4, CalmKeeps DEF Calm
<1>14. CASE FinishLink(p)
  <2>1. bids' = bids /\ gate' = gate /\ t' = t /\ torn' = torn /\ astray' = astray
    BY <1>14 DEF FinishLink, books, copies, records
  <2>2. \A c \in Campaigns : camp'[c].trans = camp[c].trans
    BY <1>14 DEF FinishLink
  <2>3. doing[p] # "idle" /\ trans' = trans /\ moved' = moved
    BY <1>14 DEF FinishLink, copies, records
  <2>4. doing[p] \notin InHand /\ doing'[p] \notin InHand
    BY <1>0, <1>r, <1>14 DEF FinishLink, Go, InHand
  <2>. QED
    BY <2>1, <2>2, <2>3, <2>4, CalmKeeps DEF Calm
<1>15. CASE DecideAccept(p)
  <2>1. bids' = bids /\ gate' = gate /\ t' = t /\ torn' = torn /\ astray' = astray
    BY <1>15 DEF DecideAccept, books, copies, records
  <2>2. \A c \in Campaigns : camp'[c].trans = camp[c].trans
    BY <1>15 DEF DecideAccept
  <2>3. doing[p] # "idle" /\ trans' = trans /\ moved' = moved
    BY <1>15 DEF DecideAccept, copies, records
  <2>4. doing[p] \notin InHand /\ doing'[p] \notin InHand
    BY <1>0, <1>r, <1>15 DEF DecideAccept, Go, InHand
  <2>. QED
    BY <2>1, <2>2, <2>3, <2>4, CalmKeeps DEF Calm
<1>16. CASE SelectAccepted(p)
  <2>1. bids' = bids /\ gate' = gate /\ t' = t /\ torn' = torn /\ astray' = astray
    BY <1>16 DEF SelectAccepted, books, copies, records
  <2>2. \A c \in Campaigns : camp'[c].trans = camp[c].trans
    BY <1>16 DEF SelectAccepted
  <2>3. /\ \A q \in Workers \ {p} : moved'[q] = moved[q]
        /\ \A c \in Campaigns : trans'[p][c] = camp[c].trans
    BY <1>0, <1>16 DEF SelectAccepted
  <2>4. doing[p] \notin InHand /\ doing'[p] \notin InHand
    BY <1>0, <1>r, <1>16 DEF SelectAccepted, Go, InHand
  <2>. QED
    BY <2>1, <2>2, <2>3, <2>4, CalmKeeps DEF Calm
<1>17. CASE DecideReject(p)
  <2>1. bids' = bids /\ gate' = gate /\ t' = t /\ torn' = torn /\ astray' = astray
    BY <1>17 DEF DecideReject, books, copies, records
  <2>2. \A c \in Campaigns : camp'[c].trans = camp[c].trans
    BY <1>17 DEF DecideReject
  <2>3. doing[p] # "idle" /\ trans' = trans /\ moved' = moved
    BY <1>17 DEF DecideReject, copies, records
  <2>4. doing[p] \notin InHand /\ doing'[p] \notin InHand
    BY <1>0, <1>r, <1>17 DEF DecideReject, Go, InHand
  <2>. QED
    BY <2>1, <2>2, <2>3, <2>4, CalmKeeps DEF Calm
<1>18. CASE DecideEdit(p)
  <2>1. bids' = bids /\ gate' = gate /\ t' = t /\ torn' = torn /\ astray' = astray
    BY <1>18 DEF DecideEdit, books, copies, records
  <2>2. \A c \in Campaigns : camp'[c].trans = camp[c].trans
    BY <1>18 DEF DecideEdit
  <2>3. doing[p] # "idle" /\ trans' = trans /\ moved' = moved
    BY <1>18 DEF DecideEdit, copies, records
  <2>4. doing[p] \notin InHand /\ doing'[p] \notin InHand
    BY <1>0, <1>r, <1>18 DEF DecideEdit, Go, InHand
  <2>. QED
    BY <2>1, <2>2, <2>3, <2>4, CalmKeeps DEF Calm
<1>19. CASE Select(p)
  <2>1. bids' = bids /\ gate' = gate /\ t' = t /\ torn' = torn /\ astray' = astray
    BY <1>19 DEF Select, books, copies, records
  <2>2. \A c \in Campaigns : camp'[c].trans = camp[c].trans
    BY <1>19 DEF Select
  <2>3. /\ \A q \in Workers \ {p} : moved'[q] = moved[q]
        /\ \A c \in Campaigns : trans'[p][c] = camp[c].trans
    BY <1>0, <1>19 DEF Select
  <2>4. doing[p] \notin InHand /\ doing'[p] \notin InHand
    BY <1>0, <1>r, <1>19 DEF Select, Go, InHand
  <2>. QED
    BY <2>1, <2>2, <2>3, <2>4, CalmKeeps DEF Calm
<1>20. CASE PassDone(p)
  <2>1. bids' = bids /\ gate' = gate /\ t' = t /\ torn' = torn /\ astray' = astray
    BY <1>20 DEF PassDone, books, copies, records
  <2>2. \A c \in Campaigns : camp'[c].trans = camp[c].trans
    BY <1>20 DEF PassDone
  <2>3. doing[p] # "idle" /\ trans' = trans /\ moved' = moved
    BY <1>20 DEF PassDone, copies, records
  <2>4. doing[p] \notin InHand /\ doing'[p] \notin InHand
    BY <1>0, <1>r, <1>20 DEF PassDone, Go, InHand
  <2>. QED
    BY <2>1, <2>2, <2>3, <2>4, CalmKeeps DEF Calm
<1>21. CASE ChargeNeeded(p)
  <2>1. bids' = bids /\ gate' = gate /\ t' = t /\ torn' = torn /\ astray' = astray
    BY <1>21 DEF ChargeNeeded, books, copies, records
  <2>2. \A c \in Campaigns : camp'[c].trans = camp[c].trans
    BY <1>21 DEF ChargeNeeded
  <2>3. doing[p] # "idle" /\ trans' = trans /\ moved' = moved
    BY <1>21 DEF ChargeNeeded, copies, records
  <2>4. doing[p] \notin InHand /\ doing'[p] \notin InHand
    BY <1>0, <1>r, <1>21 DEF ChargeNeeded, Go, InHand, AfterCharge
  <2>. QED
    BY <2>1, <2>2, <2>3, <2>4, CalmKeeps DEF Calm
<1>22. CASE AlreadyCharged(p)
  <2>1. /\ Leaves(p) /\ doing[p] = "capture" /\ UNCHANGED <<camp, bids, gate>>
        /\ torn \subseteq torn' /\ astray \subseteq astray'
    BY <1>22 DEF AlreadyCharged, books
  <2>. QED
    BY <2>1, LeavingKeeps
<1>23. CASE Capture(p)
  BY <1>23, CaptureKeeps
<1>24. CASE HoldGone(p)
  BY <1>24, HoldGoneKeeps
<1>25. CASE CaptureRefused(p)
  <2>1. bids' = bids /\ gate' = gate /\ t' = t /\ torn' = torn /\ astray' = astray
    BY <1>25 DEF CaptureRefused, books, copies, records
  <2>2. \A c \in Campaigns : camp'[c].trans = camp[c].trans
    BY <1>25 DEF CaptureRefused
  <2>3. doing[p] # "idle" /\ trans' = trans /\ moved' = moved
    BY <1>25 DEF CaptureRefused, copies, records
  <2>4. doing[p] \notin InHand /\ doing'[p] \notin InHand
    BY <1>0, <1>r, <1>25 DEF CaptureRefused, Go, InHand, AfterCharge
  <2>. QED
    BY <2>1, <2>2, <2>3, <2>4, CalmKeeps DEF Calm
<1>26. CASE Book(p)
  BY <1>26, BookKeeps
<1>27. CASE SetPending(p)
  <2>1. bids' = bids /\ gate' = gate /\ t' = t /\ torn' = torn /\ astray' = astray
    BY <1>27 DEF SetPending, books, copies, records
  <2>2. \A c \in Campaigns : camp'[c].trans = camp[c].trans
    BY <1>27 DEF SetPending
  <2>3. doing[p] # "idle" /\ trans' = trans /\ moved' = moved
    BY <1>27 DEF SetPending, copies, records
  <2>4. doing[p] \notin InHand /\ doing'[p] \notin InHand
    BY <1>0, <1>r, <1>27 DEF SetPending, Go, InHand, AfterCharge
  <2>. QED
    BY <2>1, <2>2, <2>3, <2>4, CalmKeeps DEF Calm
<1>28. CASE Lose(p)
  BY <1>28, LoseKeeps
<1>29. CASE Forget(p)
  <2>1. /\ SetTrans(p, NoTransaction) /\ doing[p] = "forget"
        /\ UNCHANGED <<bids, gate, t, at, torn>>
    BY <1>29 DEF Forget, books
  <2>2. doing'[p] \notin InHand
    BY <1>0, <1>r, <1>29 DEF Forget, Go, InHand, Route, AfterCharge
  <2>3. NoTransaction \in 0 .. MaxTrans
    BY <1>0 DEF NoTransaction
  <2>. QED
    BY <1>r, <2>1, <2>2, <2>3, WritingKeeps
<1>30. CASE Promote(p)
  <2>1. bids' = bids /\ gate' = gate /\ t' = t /\ torn' = torn /\ astray' = astray
    BY <1>30 DEF Promote, books, copies, records
  <2>2. \A c \in Campaigns : camp'[c].trans = camp[c].trans
    BY <1>30 DEF Promote
  <2>3. doing[p] # "idle" /\ trans' = trans /\ moved' = moved
    BY <1>30 DEF Promote, copies, records
  <2>4. doing[p] \notin InHand /\ doing'[p] \notin InHand
    BY <1>0, <1>r, <1>30 DEF Promote, Go, InHand
  <2>. QED
    BY <2>1, <2>2, <2>3, <2>4, CalmKeeps DEF Calm
<1>31. CASE Expire(p)
  <2>1. bids' = bids /\ gate' = gate /\ t' = t /\ torn' = torn /\ astray' = astray
    BY <1>31 DEF Expire, books, copies, records
  <2>2. \A c \in Campaigns : camp'[c].trans = camp[c].trans
    BY <1>31 DEF Expire
  <2>3. doing[p] # "idle" /\ trans' = trans /\ moved' = moved
    BY <1>31 DEF Expire, copies, records
  <2>4. doing[p] \notin InHand /\ doing'[p] \notin InHand
    BY <1>0, <1>r, <1>31 DEF Expire, Go, InHand
  <2>. QED
    BY <2>1, <2>2, <2>3, <2>4, CalmKeeps DEF Calm
<1>34. CASE FindPromoted(p)
  <2>1. bids' = bids /\ gate' = gate /\ t' = t /\ torn' = torn /\ astray' = astray
    BY <1>34 DEF FindPromoted, books, copies, records
  <2>2. \A c \in Campaigns : camp'[c].trans = camp[c].trans
    BY <1>34 DEF FindPromoted
  <2>3. doing[p] # "idle" /\ trans' = trans /\ moved' = moved
    BY <1>34 DEF FindPromoted, copies, records
  <2>4. doing[p] \notin InHand /\ doing'[p] \notin InHand
    BY <1>0, <1>r, <1>34 DEF FindPromoted, Go, InHand
  <2>. QED
    BY <2>1, <2>2, <2>3, <2>4, CalmKeeps DEF Calm
<1>32. CASE EndRequest(p)
  <2>1. /\ Leaves(p) /\ doing[p] = "end" /\ UNCHANGED <<camp, bids, gate>>
        /\ torn \subseteq torn' /\ astray \subseteq astray'
    BY <1>32 DEF EndRequest, books
  <2>. QED
    BY <2>1, LeavingKeeps
<1>33. CASE \E c \in Campaigns : Take(p, c)
  <2>1. bids' = bids /\ gate' = gate /\ t' = t /\ torn' = torn /\ astray' = astray
    BY <1>33 DEF Take, books, records
  <2>2. \A c \in Campaigns : camp'[c].trans = camp[c].trans
    BY <1>33 DEF Take
  <2>3. doing[p] # "idle" /\ trans' = trans /\ moved' = moved
    BY <1>33 DEF Take, records
  <2>4. doing[p] \notin InHand /\ doing'[p] \notin InHand
    BY <1>0, <1>33 DEF Take, Go, InHand
  <2>. QED
    BY <2>1, <2>2, <2>3, <2>4, CalmKeeps DEF Calm
<1>. QED
  BY <1>1, <1>2, <1>3, <1>4, <1>5, <1>6, <1>7, <1>8, <1>9, <1>10, <1>11, <1>12, <1>13,
     <1>14, <1>15, <1>16, <1>17, <1>18, <1>19, <1>20, <1>21, <1>22, <1>23, <1>24, <1>25,
     <1>26, <1>27, <1>28, <1>29, <1>30, <1>31, <1>32, <1>33, <1>34 DEF PromoStep

LEMMA WalkKeeps ==
    ASSUME Shapes, WorkRoutes, NEW p \in Workers, OthersWait(p), PromoRecords,
           PromoRequest(p) \/ PromoStep(p) \/ WorkerDies(p)
    PROVE  PromoRecords'
<1>0. doing \in [Workers -> Places] /\ trans \in [Workers -> [Campaigns -> 0 .. MaxTrans]]
  BY DEF Shapes
<1>1. CASE PromoRequest(p)
  <2>1. ASSUME NEW what, NEW c, NEW label, LoadLink(p, what, c, label), label \notin InHand
        PROVE  Calm(p)
    <3>1. /\ bids' = bids /\ gate' = gate /\ t' = t /\ torn' = torn /\ astray' = astray
          /\ camp' = camp /\ moved' = moved /\ doing[p] = "idle"
      BY <2>1 DEF LoadLink, books, records
    <3>2. /\ \A d \in Campaigns : trans'[p][d] = camp[d].trans
          /\ doing'[p] = label
      BY <1>0, <2>1 DEF LoadLink, Go
    <3>. QED
      BY <2>1, <3>1, <3>2 DEF Calm, InHand
  <2>2. "void" \notin InHand /\ "unschedule" \notin InHand /\ "decide" \notin InHand
        /\ "select" \notin InHand
    BY DEF InHand
  <2>. QED
    BY <1>1, <2>1, <2>2, CalmKeeps DEF PromoRequest, UpdatePay, EditCampaign,
       DeleteCampaign,
       Terminate, Accept, Reject, EditPromo, RunJob, OnCampaign, OnLink
<1>2. CASE PromoStep(p)
  BY <1>2, StepKeeps
<1>3. CASE WorkerDies(p)
  <2>1. Leaves(p) /\ UNCHANGED <<camp, bids, gate>>
    BY <1>3 DEF WorkerDies, books
  <2>2. /\ torn \subseteq torn'
        /\ doing[p] \in {"gwvoid", "booked"} => Mine(p) \in torn'
        /\ doing[p] = "newbid" => t[p] \in torn'
    BY <1>3 DEF WorkerDies
  <2>3. /\ astray \subseteq astray'
        /\ doing[p] \in {"raise", "settrans"} => at[p] \in astray'
    BY <1>3 DEF WorkerDies
  <2>. QED
    BY <2>1, <2>2, <2>3, LeavingKeeps
<1>. QED
  BY <1>1, <1>2, <1>3

LEMMA DayKeeps ==
    ASSUME Shapes, PromoRecords, NEW c \in Campaigns, DayPasses(c)
    PROVE  PromoRecords'
<1>1. UNCHANGED <<bids, gate, doing, at, trans, t, moved, torn, astray>>
  BY DEF DayPasses, books, copies, records
<1>2. \A d \in Campaigns : camp'[d].trans = camp[d].trans
  BY DEF DayPasses, Shapes
<1>3. Fresh'
  BY <1>1 DEF PromoRecords, Fresh
<1>4. Owns' /\ Copied'
  BY <1>1, <1>2 DEF PromoRecords, Owns, Owned, Copied
<1>5. ASSUME NEW n \in Trans \ torn'
      PROVE  Stands(n)'
  <2>1. /\ Stands(n) /\ Agree(n)' = Agree(n)
        /\ \A q \in Workers : \A places : With(q, places, n)' = With(q, places, n)
    BY <1>1 DEF PromoRecords, Steps, Agree, With, Mine
  <2>. QED
    BY <1>1, <2>1 DEF Stands
<1>6. ASSUME NEW n \in Trans \ torn'
      PROVE  HasName(n)'
  <2>1. HasName(n)
    BY <1>1 DEF PromoRecords, Named
  <2>2. bids[n].status \in {"AUTH", "CHARGE"} => bids[n].campaign \in Campaigns
    BY DEF PromoRecords, Fresh
  <2>. QED
    BY <1>1, <1>2, <2>1, <2>2 DEF HasName
<1>. QED
  BY <1>3, <1>4, <1>5, <1>6 DEF PromoRecords, Steps, Named

-----------------------------------------------------------------------------
(* The invariant, and what follows.                                         *)

\* What holds at the start, and what every step keeps.
LEMMA InitInvariant ==
    ASSUME PromoInit
    PROVE  PromoInvariant
<1>1. PICK n \in [Campaigns -> 0 .. Cardinality(Campaigns)],
           w \in [Campaigns -> {"tomorrow", "today"}] :
        LET Of(m) == {c \in Campaigns : n[c] = m} IN
        /\ \A c \in Campaigns : \A m \in 1 .. n[c] : Cardinality(Of(m)) = 1
        /\ camp = [c \in Campaigns |-> [trans |-> n[c], when |-> w[c],
                                       scheduled |-> TRUE, deleted |-> FALSE]]
        /\ bids = [m \in Trans |->
             IF Of(m) = {} THEN NoBid
             ELSE [campaign |-> CHOOSE c \in Of(m) : TRUE, status |-> "AUTH"]]
        /\ gate = [m \in Trans |-> IF Of(m) = {} THEN "none" ELSE "authed"]
        /\ status \in IF Of(NoTransaction) = Campaigns THEN {Unpaid, Finished}
                      ELSE {Unseen, AcceptedStatus}
  BY DEF PromoInit
<1> DEFINE Of(m) == {c \in Campaigns : n[c] = m}
<1>2. /\ camp = [c \in Campaigns |-> [trans |-> n[c], when |-> w[c],
                                     scheduled |-> TRUE, deleted |-> FALSE]]
      /\ bids = [m \in Trans |->
           IF Of(m) = {} THEN NoBid
           ELSE [campaign |-> CHOOSE c \in Of(m) : TRUE, status |-> "AUTH"]]
      /\ gate = [m \in Trans |-> IF Of(m) = {} THEN "none" ELSE "authed"]
      /\ \A c \in Campaigns : \A m \in 1 .. n[c] : Cardinality(Of(m)) = 1
  BY <1>1
<1>3. Cardinality(Campaigns) \in Nat
  BY FS_CardinalityType
<1>4. \A c \in Campaigns : n[c] \in 0 .. MaxTrans
  BY <1>3
<1>5. ASSUME NEW c \in Campaigns, n[c] # NoTransaction
      PROVE  n[c] \in Trans /\ Of(n[c]) = {c}
  <2>1. n[c] \in 1 .. n[c] /\ n[c] \in Trans
    BY <1>4, <1>5 DEF Trans, NoTransaction
  <2>2. Cardinality(Of(n[c])) = 1
    BY <1>2, <2>1
  <2>3. IsFiniteSet(Of(n[c]))
    BY FS_Subset
  <2>4. PICK d : Of(n[c]) = {d}
    BY <2>2, <2>3, FS_Singleton
  <2>5. c \in Of(n[c])
    OBVIOUS
  <2>6. d = c
    BY <2>4, <2>5
  <2>. QED
    BY <2>1, <2>4, <2>6
<1>6. ASSUME NEW c \in Campaigns, n[c] # NoTransaction
      PROVE  /\ n[c] \in Trans /\ gate[n[c]] = "authed"
             /\ bids[n[c]] = [campaign |-> c, status |-> "AUTH"]
  <2>1. n[c] \in Trans /\ Of(n[c]) = {c}
    BY <1>5, <1>6
  <2>2. (CHOOSE d \in Of(n[c]) : TRUE) = c
    BY <2>1
  <2>3. Of(n[c]) # {}
    BY <2>1
  <2>. HIDE DEF Of
  <2>. QED
    BY <1>2, <2>1, <2>2, <2>3
<1>7. ASSUME NEW m \in Trans
      PROVE  \/ bids[m] = NoBid /\ gate[m] = "none"
             \/ \E c \in Campaigns : /\ n[c] = m /\ gate[m] = "authed"
                                     /\ bids[m] = [campaign |-> c, status |-> "AUTH"]
  <2>1. CASE Of(m) = {}
    BY <1>2, <2>1
  <2>2. CASE Of(m) # {}
    <3>1. PICK c \in Campaigns : n[c] = m
      BY <2>2
    <3>2. n[c] # NoTransaction
      BY <3>1 DEF Trans, NoTransaction
    <3>. QED
      BY <1>6, <3>1, <3>2
  <2>. QED
    BY <2>1, <2>2
<1>. HIDE DEF Of
<1>8. /\ status \in {Unpaid, Finished, Unseen, AcceptedStatus}
      /\ approved = (status >= AcceptedStatus) /\ crossed = FALSE /\ torn = {}
  BY <1>1 DEF PromoInit
<1>a. approved \in BOOLEAN /\ (status \in Running => approved)
  <2>0. status \in {Unpaid, Finished, Unseen, AcceptedStatus}
    BY <1>8
  <2>1. approved = (status >= AcceptedStatus)
    BY <1>8
  <2>2. CASE status \in {Unpaid, Unseen}
    <3>1. (status >= AcceptedStatus) = FALSE /\ status \notin Running
      BY <2>2 DEF Running, Unpaid, Unseen, AcceptedStatus, Pending, Promoted, Finished
    <3>2. approved = FALSE
      BY <2>1, <3>1, Zenon
    <3>. QED
      BY <3>1, <3>2
  <2>3. CASE status \in {Finished, AcceptedStatus}
    <3>1. (status >= AcceptedStatus) = TRUE
      BY <2>3 DEF AcceptedStatus, Finished
    <3>2. approved = TRUE
      BY <2>1, <3>1, Zenon
    <3>. QED
      BY <3>2
  <2>. QED
    BY <2>0, <2>2, <2>3
<1>b. ASSUME NEW m \in Trans
      PROVE  \/ /\ bids[m] = NoBid /\ bids[m].status = "none" /\ gate[m] = "none"
                /\ bids[m].campaign = NoCampaign
             \/ /\ bids[m].status = "AUTH" /\ gate[m] = "authed"
                /\ bids[m].campaign \in Campaigns /\ n[bids[m].campaign] = m
                /\ bids[m] = [campaign |-> bids[m].campaign, status |-> "AUTH"]
  <2>1. CASE bids[m] = NoBid /\ gate[m] = "none"
    BY <2>1 DEF NoBid
  <2>2. ASSUME NEW c \in Campaigns, n[c] = m, gate[m] = "authed",
               bids[m] = [campaign |-> c, status |-> "AUTH"]
        PROVE  /\ bids[m].status = "AUTH" /\ gate[m] = "authed"
               /\ bids[m].campaign \in Campaigns /\ n[bids[m].campaign] = m
               /\ bids[m] = [campaign |-> bids[m].campaign, status |-> "AUTH"]
    <3>1. bids[m].status = "AUTH" /\ bids[m].campaign = c
      BY <2>2
    <3>. QED
      BY <2>2, <3>1
  <2>. QED
    BY <1>7, <2>1, <2>2
<1>9. /\ doing = [p \in Workers |-> "idle"] /\ op = [p \in Workers |-> "none"]
      /\ at = [p \in Workers |-> NoCampaign] /\ trans = [p \in Workers |-> NoCopy]
      /\ link = [p \in Workers |-> Unpaid] /\ t = [p \in Workers |-> NoTransaction]
      /\ stage = [p \in Workers |-> "none"] /\ todo = [p \in Workers |-> {}]
      /\ live = [p \in Workers |-> FALSE] /\ old = [p \in Workers |-> FALSE]
      /\ moved = [p \in Workers |-> {}]
  BY DEF PromoInit
<1>10. Shapes
  <2>1. camp \in [Campaigns -> [trans : 0 .. MaxTrans, when : Whens,
                                scheduled : BOOLEAN, deleted : BOOLEAN]]
    BY <1>2, <1>4 DEF Whens
  <2>2. bids \in [Trans -> [campaign : Campaigns \cup {NoCampaign},
                            status : {"none", "AUTH", "CHARGE", "VOID"}]]
    <3>1. \A m \in Trans : bids[m] \in [campaign : Campaigns \cup {NoCampaign},
                                        status : {"none", "AUTH", "CHARGE", "VOID"}]
      <4>1. ASSUME NEW m \in Trans
            PROVE  bids[m] \in [campaign : Campaigns \cup {NoCampaign},
                                status : {"none", "AUTH", "CHARGE", "VOID"}]
        <5>1. CASE bids[m] = NoBid
          BY <5>1 DEF NoBid
        <5>2. CASE /\ bids[m].campaign \in Campaigns
                   /\ bids[m] = [campaign |-> bids[m].campaign, status |-> "AUTH"]
          BY <5>2
        <5>. QED
          BY <1>b, <5>1, <5>2
      <4>. QED
        BY <4>1
    <3>2. bids = [m \in Trans |-> bids[m]]
      BY <1>2
    <3>. QED
      BY <3>1, <3>2
  <2>3. gate \in [Trans -> {"none", "authed", "captured", "settled", "voided", "expired"}]
    BY <1>2
  <2>4. status \in PromoteStatuses
    <3>1. status \in {Unpaid, Finished, Unseen, AcceptedStatus}
      BY <1>8
    <3>. QED
      BY <3>1 DEF PromoteStatuses, Unpaid, Unseen, AcceptedStatus, Finished
  <2>8. approved \in BOOLEAN /\ crossed \in BOOLEAN
    <3>1. crossed = FALSE
      BY <1>8
    <3>. QED
      BY <1>a, <3>1
  <2>5. /\ doing \in [Workers -> Places] /\ op \in [Workers -> Ops]
        /\ at \in [Workers -> Campaigns \cup {NoCampaign}]
        /\ link \in [Workers -> PromoteStatuses] /\ t \in [Workers -> 0 .. MaxTrans]
        /\ stage \in [Workers -> {"none", "today", "tomorrow", "promote"}]
    BY <1>9 DEF Places, Ops, PromoteStatuses, Unpaid, Finished, NoTransaction
  <2>6. NoCopy \in [Campaigns -> 0 .. MaxTrans]
    BY DEF NoCopy, NoTransaction
  <2>7. /\ trans \in [Workers -> [Campaigns -> 0 .. MaxTrans]]
        /\ todo \in [Workers -> SUBSET Campaigns] /\ live \in [Workers -> BOOLEAN]
        /\ old \in [Workers -> BOOLEAN] /\ moved \in [Workers -> SUBSET Campaigns]
    BY <1>9, <2>6
  <2>. QED
    BY <2>1, <2>2, <2>3, <2>4, <2>5, <2>7, <2>8 DEF Shapes
<1>11. WorkRoutes /\ Eyes
  BY <1>9 DEF WorkRoutes, Route, Eyes, Eye, OnOne, OnAll, HasTrans, HasPaid, Charging
<1>12. Fresh
  <2>1. ASSUME NEW m \in Trans
        PROVE  /\ bids[m].status = "none" => bids[m] = NoBid
               /\ bids[m].status # "none" => gate[m] # "none" /\ bids[m].campaign \in Campaigns
    BY <1>b
  <2>. QED
    BY <1>9, <2>1 DEF Fresh
<1>13. Owns
  <2>1. \A c \in Campaigns : camp[c].trans = n[c]
    BY <1>2
  <2>2. \A p \in Workers, c \in Campaigns : trans[p][c] = NoTransaction
    BY <1>9 DEF NoCopy
  <2>3. ASSUME NEW c \in Campaigns
        PROVE  Owned(n[c], c)
    <3>1. CASE n[c] # NoTransaction
      <4>1. bids[n[c]] = [campaign |-> c, status |-> "AUTH"]
        BY <1>6, <3>1
      <4>2. bids[n[c]].status = "AUTH" /\ bids[n[c]].campaign = c
        BY <4>1
      <4>. QED
        BY <4>2 DEF Owned
    <3>. QED
      BY <3>1 DEF Owned
  <2>4. \A c : Owned(NoTransaction, c)
    BY DEF Owned
  <2>. QED
    BY <2>1, <2>2, <2>3, <2>4 DEF Owns
<1>14. Copied
  BY <1>9 DEF Copied
<1>15. Steps
  <2>1. ASSUME NEW m \in Trans
        PROVE  gate[m] # "settled" /\ Agree(m)
    BY <1>b DEF Agree
  <2>. QED
    BY <1>9, <2>1 DEF Steps, Stands, With
<1>16. Named
  <2>1. \A c \in Campaigns : camp[c].trans = n[c]
    BY <1>2
  <2>. QED
    BY <1>b, <2>1 DEF Named, HasName
<1>17. LinkKnown
  BY <1>9, <1>a DEF LinkKnown
<1>. QED
  BY <1>10, <1>11, <1>12, <1>13, <1>14, <1>15, <1>16, <1>17 DEF PromoInvariant

LEMMA StepInvariant ==
    ASSUME PromoInvariant, [PromoNext]_promoVars
    PROVE  PromoInvariant'
<1>1. ASSUME NEW p \in Workers, PromoRequest(p) \/ PromoStep(p) \/ WorkerDies(p)
      PROVE  PromoInvariant'
  <2>1. OthersWait(p) /\ Shapes' /\ WorkRoutes' /\ Eyes'
    BY <1>1, Walk DEF PromoInvariant
  <2>2. Route(p) /\ Eye(p)
    BY DEF PromoInvariant, WorkRoutes, Eyes
  <2>3. LinkKnown'
    BY <1>1, <2>1, <2>2, WalkLink DEF PromoInvariant
  <2>4. PromoRecords'
    BY <1>1, <2>1, WalkKeeps DEF PromoInvariant, PromoRecords
  <2>. QED
    BY <2>1, <2>3, <2>4 DEF PromoInvariant, PromoRecords
<1>2. ASSUME NEW c \in Campaigns, DayPasses(c)
      PROVE  PromoInvariant'
  <2>1. Shapes' /\ WorkRoutes' /\ Eyes'
    BY <1>2, DayWalk DEF PromoInvariant
  <2>2. LinkKnown'
    BY <1>2, DayLink DEF PromoInvariant
  <2>3. PromoRecords'
    BY <1>2, DayKeeps DEF PromoInvariant, PromoRecords
  <2>. QED
    BY <2>1, <2>2, <2>3 DEF PromoInvariant, PromoRecords
<1>3. CASE UNCHANGED promoVars
  <2>1. UNCHANGED <<status, camp, bids, gate, doing, op, at, trans, link, t, stage, todo,
                    live, approved, old, moved, crossed, torn, astray>>
    BY <1>3 DEF promoVars, books, copies, records
  <2>2. Shapes' /\ WorkRoutes' /\ Eyes'
    BY <2>1 DEF PromoInvariant, Shapes, WorkRoutes, Route, Eyes, Eye, Mine
  <2>3. Fresh' /\ Owns' /\ Copied' /\ LinkKnown'
    BY <2>1 DEF PromoInvariant, Fresh, Owns, Owned, Copied, LinkKnown
  <2>4. ASSUME NEW n \in Trans \ torn'
        PROVE  Stands(n)'
    <3>1. /\ Stands(n) /\ Agree(n)' = Agree(n)
          /\ \A q \in Workers : \A places : With(q, places, n)' = With(q, places, n)
      BY <2>1 DEF PromoInvariant, Steps, Agree, With, Mine
    <3>. QED
      BY <2>1, <3>1 DEF Stands
  <2>5. Named'
    BY <2>1 DEF PromoInvariant, Named, HasName
  <2>. QED
    BY <2>2, <2>3, <2>4, <2>5 DEF PromoInvariant, Steps
<1>. QED
  BY <1>1, <1>2, <1>3 DEF PromoNext

\* The invariant of self-serve promotion: what a request or the job has in hand
\* where it is, that a link is charged and promoted only by who saw it accepted, that
\* trans_id names bids of its campaign, and that bids and processor differ only
\* between two steps of one worker (r2/lib/promote.py:318-388, 529-609).
THEOREM PromoInvariance == PromoSpec => []PromoInvariant
<1>1. PromoInit => PromoInvariant
  BY InitInvariant
<1>2. PromoInvariant /\ [PromoNext]_promoVars => PromoInvariant'
  BY StepInvariant
<1>. QED
  BY <1>1, <1>2, PTL DEF PromoSpec

\* The state of link, campaigns, bids and workers has its shape for any number of
\* campaigns, workers and transactions (r2/models/bidding.py Bid, PROMOTE_STATUS).
THEOREM PromoTyping == PromoSpec => []PromoTypeOK
<1>1. PromoInvariant => PromoTypeOK
  <2>. SUFFICES ASSUME PromoInvariant PROVE PromoTypeOK
    OBVIOUS
  <2>1. \A n \in Trans : bids[n] # NoBid => bids[n].campaign # NoCampaign
    BY DEF PromoInvariant, Fresh
  <2>2. \A p \in Workers : doing[p] = "idle" => at[p] = NoCampaign /\ todo[p] = {}
    BY DEF PromoInvariant, WorkRoutes, Route
  <2>. QED
    BY <2>1, <2>2 DEF PromoInvariant, Shapes, PromoTypeOK, PromoteStatuses
<1>. QED
  BY <1>1, PromoInvariance, PTL

\* Whatever requests, runs of the job and deaths interleave, a link that runs or
\* will run was accepted by a sponsor and not edited or rejected since, unless a
\* status was decided on an old copy of it (promote.py is_accepted,
\* unapprove_promotion, auth_campaign, promote_link).
THEOREM LiveApproved == PromoSpec => []LiveIsApproved
<1>1. PromoInvariant => LiveIsApproved
  BY DEF PromoInvariant, LinkKnown, LiveIsApproved, Running
<1>. QED
  BY <1>1, PromoInvariance, PTL

\* For any number of campaigns, workers and transactions, what the table bids says
\* of a transaction nobody works on is what the processor knows, and trans_id names
\* every hold and charge of the campaign's bids, unless two worked on it at once,
\* somebody died on it, it had settled when voided or trans_id was written from an
\* old copy (promote.py void_campaign, auth_campaign, charge_campaign).
THEOREM BooksKept == PromoSpec => []BooksMatch
<1>1. PromoInvariant => BooksMatch
  <2>. SUFFICES ASSUME PromoInvariant, NEW n \in Trans \ torn
                PROVE  /\ AtRest(n) => Agree(n)
                       /\ /\ bids[n].status \in {"AUTH", "CHARGE"}
                          /\ bids[n].campaign \notin astray
                          /\ Busy(bids[n].campaign) = {}
                          => camp[bids[n].campaign].trans = n
    BY DEF BooksMatch
  <2>0. Shapes /\ WorkRoutes /\ PromoRecords /\ Stands(n) /\ HasName(n)
    BY DEF PromoInvariant, PromoRecords, Steps, Named
  <2>1. ASSUME AtRest(n)
        PROVE  Agree(n)
    <3>1. ASSUME NEW p \in Workers, With(p, {"gwvoid", "booked"}, n)
          PROVE  FALSE
      <4>1. With(p, OnOne, n)
        BY <3>1 DEF With, OnOne
      <4>2. at[p] \in Campaigns /\ bids[n].campaign = at[p]
        BY <2>0, <4>1, InHandHasBid
      <4>3. p \in Busy(bids[n].campaign)
        BY <3>1, <4>2 DEF Busy, With
      <4>. QED
        BY <2>1, <4>2, <4>3 DEF AtRest
    <3>. QED
      BY <2>0, <2>1, <3>1 DEF Stands, AtRest
  <2>2. ASSUME bids[n].status \in {"AUTH", "CHARGE"}, bids[n].campaign \notin astray,
               Busy(bids[n].campaign) = {}
        PROVE  camp[bids[n].campaign].trans = n
    <3>1. ASSUME NEW p \in Workers, doing[p] \in {"raise", "settrans"}, t[p] = n
          PROVE  FALSE
      <4>1. bids[n].campaign = at[p]
        BY <2>0, <3>1 DEF PromoRecords, Fresh
      <4>. QED
        BY <2>2, <3>1, <4>1 DEF Busy
    <3>. QED
      BY <2>0, <2>2, <3>1 DEF HasName
  <2>. QED
    BY <2>1, <2>2
<1>. QED
  BY <1>1, PromoInvariance, PTL
=============================================================================

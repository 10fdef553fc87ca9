----------------------------- MODULE Promotion ------------------------------
(***************************************************************************)
(* Self-serve promotion: one promoted link and its campaigns                *)
(* (r2/lib/promote.py, r2/models/bidding.py, promotecontroller.py).  The    *)
(* advertiser pays for, edits and deletes campaigns, sponsors accept,       *)
(* reject and terminate, and the hourly job charges, promotes and expires.  *)
(*                                                                         *)
(* Nothing is locked: every request and the job work on copies of the link  *)
(* and the campaigns that they loaded at their start.  A commit writes an   *)
(* attribute when it differs from the copy (see ThingStore).  The payment   *)
(* processor Authorize.net is external: gate is what it knows, and it       *)
(* drops a hold after 30 days, which shows when the money is asked for.      *)
(***************************************************************************)
EXTENDS Integers, FiniteSets

CONSTANTS
    Workers,      \* web processes and the job's
    Campaigns,    \* the campaigns of the link
    NoCampaign,   \* no campaign, no bid
    MaxTrans,     \* bound: transactions at the processor
    MaxOps,       \* bound: requests and runs of the job
    MaxFailures   \* bound: processes that die in one

ASSUME PromotionConstants ==
    /\ IsFiniteSet(Campaigns) /\ NoCampaign \notin Campaigns
    /\ MaxTrans \in Nat /\ Cardinality(Campaigns) <= MaxTrans
    /\ MaxOps \in Nat /\ MaxFailures \in Nat

\* PROMOTE_STATUS, in the order that auth_campaign and is_accepted compare.
Unpaid         == 0
Unseen         == 1
AcceptedStatus == 2
Rejected       == 3
Pending        == 4
Promoted       == 5
Finished       == 6

NoTransaction == 0
Trans   == 1 .. MaxTrans
Whens   == {"tomorrow", "today", "past"}
Ops     == {"none", "pay", "edit", "delete", "terminate", "accept", "reject",
            "editpromo", "job"}

VARIABLES
    status,     \* link.promote_status
    camp,       \* camp[c]: trans_id, when it runs, in PromotionWeights, _deleted
    bids,       \* bids[t]: campaign and status of the row in bids, or NoBid
    gate,       \* gate[t]: what the processor knows of transaction t
    doing,      \* doing[p]: where process p is
    op,         \* op[p]: the request it handles
    at,         \* at[p]: the campaign it works on
    trans,      \* trans[p][c]: trans_id in its copy of campaign c
    link,       \* link[p]: promote_status in its copy of the link
    t,          \* t[p]: the transaction it has just authorised
    stage,      \* stage[p]: which pass of the job
    todo,       \* todo[p]: campaigns the pass has still to look at
    live,       \* live[p]: it has found a campaign that runs
    approved,   \* history: the last decision about the link was to accept it
    old,        \* old[p]: history: its copy of the link is not the latest
    moved,      \* moved[p]: history: campaigns whose trans_id changed since it read
    crossed,    \* history: a status was decided on an old copy
    torn,       \* history: transactions two worked on, died on or could not void
    astray,     \* history: campaigns whose trans_id was written from an old copy
    ops, failures \* history: what the bounds count

books   == <<bids, gate>>
copies  == <<at, trans, link, t, stage, todo, live>>
records == <<approved, old, moved, crossed, torn, astray>>
tally   == <<ops, failures>>

promoVars == <<status, camp, books, doing, op, copies, records, tally>>

NoBid == [campaign |-> NoCampaign, status |-> "none"]
NoCopy == [c \in Campaigns |-> NoTransaction]

\* Some campaigns are paid for, bid n by the owner of transaction n; the link has
\* been accepted or not, or has finished with campaigns that are over.
PromoInit ==
    /\ \E n \in [Campaigns -> 0 .. Cardinality(Campaigns)],
          w \in [Campaigns -> {"tomorrow", "today"}] :
         LET Of(m) == {c \in Campaigns : n[c] = m} IN
         /\ \A c \in Campaigns : \A m \in 1 .. n[c] : Cardinality(Of(m)) = 1
         /\ camp = [c \in Campaigns |-> [trans |-> n[c], when |-> w[c],
                                        scheduled |-> TRUE, deleted |-> FALSE]]
         /\ bids = [m \in Trans |->
              IF Of(m) = {} THEN NoBid
              ELSE [campaign |-> CHOOSE c \in Of(m) : TRUE, status |-> "AUTH"]]
         /\ gate = [m \in Trans |-> IF Of(m) = {} THEN "none" ELSE "authed"]
         /\ status \in IF Of(NoTransaction) = Campaigns THEN {Unpaid, Finished}
                      ELSE {Unseen, AcceptedStatus}
    /\ approved = (status >= AcceptedStatus)
    /\ doing = [p \in Workers |-> "idle"]
    /\ op = [p \in Workers |-> "none"]
    /\ at = [p \in Workers |-> NoCampaign]
    /\ trans = [p \in Workers |-> NoCopy]
    /\ link = [p \in Workers |-> Unpaid]
    /\ t = [p \in Workers |-> NoTransaction]
    /\ stage = [p \in Workers |-> "none"]
    /\ todo = [p \in Workers |-> {}]
    /\ live = [p \in Workers |-> FALSE]
    /\ old = [p \in Workers |-> FALSE]
    /\ moved = [p \in Workers |-> {}]
    /\ crossed = FALSE /\ torn = {} /\ astray = {}
    /\ ops = 0 /\ failures = 0

\* Mutant: a rejected link counts as accepted.
MutAccepted(s) == s >= AcceptedStatus
\* is_accepted.
Accepted(s) == s # Rejected /\ s >= AcceptedStatus
\* is_charged_transaction: looks the bid up each time.
Charged(n) == n # NoTransaction /\ bids[n].status = "CHARGE"
\* is_live_promo, on what is stored.
LivePromo(c) ==
    status = Promoted /\ camp[c].when = "today" /\ Charged(camp[c].trans)

Go(p, label) == doing' = [doing EXCEPT ![p] = label]
Mine(p) == trans[p][at[p]]
Busy(c) == {p \in Workers : doing[p] # "idle" /\ (at[p] = c \/ c \in todo[p])}

\* Process p ends what it was doing; its copies are gone.
Leaves(p) ==
    /\ Go(p, "idle")
    /\ op' = [op EXCEPT ![p] = "none"]
    /\ at' = [at EXCEPT ![p] = NoCampaign]
    /\ trans' = [trans EXCEPT ![p] = NoCopy]
    /\ link' = [link EXCEPT ![p] = Unpaid]
    /\ t' = [t EXCEPT ![p] = NoTransaction]
    /\ stage' = [stage EXCEPT ![p] = "none"]
    /\ todo' = [todo EXCEPT ![p] = {}]
    /\ live' = [live EXCEPT ![p] = FALSE]
    /\ old' = [old EXCEPT ![p] = FALSE]
    /\ moved' = [moved EXCEPT ![p] = {}]

\* set_promote_status on p's copy of the link.
SetStatus(p, s) ==
    /\ crossed' = (crossed \/ old[p])
    /\ IF s = link[p] THEN UNCHANGED <<status, link, old>>
       ELSE /\ status' = s
            /\ link' = [link EXCEPT ![p] = s]
            /\ old' = [q \in Workers |-> q # p /\ doing[q] # "idle"]

\* campaign.trans_id = n; campaign._commit(), on p's copy of its campaign.
SetTrans(p, n) ==
    LET c == at[p] IN
    /\ trans' = [trans EXCEPT ![p][c] = n]
    /\ IF n = Mine(p) THEN UNCHANGED <<camp, moved, astray>>
       ELSE /\ camp' = [camp EXCEPT ![c].trans = n]
            /\ astray' = IF c \in moved[p] THEN astray \cup {c} ELSE astray
            /\ moved' = [q \in Workers |->
                 IF q = p THEN moved[q] \ {c}
                 ELSE IF doing[q] # "idle" THEN moved[q] \cup {c} ELSE {}]

\* p works on transaction n at the processor or in bids while q does.
Tear(p, n) == torn' =
    IF \E q \in Workers \ {p} : /\ doing[q] \in {"gwvoid", "capture", "booked", "lost"}
                              /\ Mine(q) = n
    THEN torn \cup {n} ELSE torn

-----------------------------------------------------------------------------
(* Requests and runs of the job.                                            *)

\* The link and the campaign are loaded and what they show is checked.
LoadLink(p, what, c, label) ==
    /\ doing[p] = "idle" /\ ops < MaxOps
    /\ ops' = ops + 1
    /\ Go(p, label)
    /\ op' = [op EXCEPT ![p] = what]
    /\ at' = [at EXCEPT ![p] = c]
    /\ trans' = [trans EXCEPT ![p] = [d \in Campaigns |-> camp[d].trans]]
    /\ link' = [link EXCEPT ![p] = status]
    /\ UNCHANGED <<status, camp, books, t, todo, live, records, failures>>

OnCampaign(p, what, c, label) ==
    /\ ~camp[c].deleted
    /\ LoadLink(p, what, c, label)
    /\ UNCHANGED stage
OnLink(p, what, label) == LoadLink(p, what, NoCampaign, label) /\ UNCHANGED stage

\* POST_update_pay, POST_edit_campaign with another bid (not for what is live)
\* and POST_delete_campaign, which removes the schedule first.
UpdatePay(p, c)      == OnCampaign(p, "pay", c, "void")
EditCampaign(p, c)   == ~LivePromo(c) /\ OnCampaign(p, "edit", c, "void")
DeleteCampaign(p, c) == OnCampaign(p, "delete", c, "unschedule")
\* POST_terminate_campaign.
Terminate(p, c)      == LivePromo(c) /\ OnCampaign(p, "terminate", c, "unschedule")
\* POST_promote, POST_unpromote, and POST_edit_promo by who is not trusted.
Accept(p)            == OnLink(p, "accept", "decide")
Reject(p)            == OnLink(p, "reject", "decide")
EditPromo(p)         == status # Promoted /\ OnLink(p, "editpromo", "decide")
\* make_daily_promotions begins with charge_pending(offset=0).
RunJob(p) ==
    /\ \A q \in Workers : op[q] # "job"
    /\ LoadLink(p, "job", NoCampaign, "select")
    /\ stage' = [stage EXCEPT ![p] = "today"]

-----------------------------------------------------------------------------
(* Paying, editing and deleting a campaign.                                 *)

AfterVoid(p) == CASE op[p] = "pay"    -> "auth"
                  [] op[p] = "edit"   -> "unschedule"
                  [] op[p] = "delete" -> "delete"

\* void_campaign: nothing to void, or the bid of the copy's trans_id is marked ...
NothingToVoid(p) ==
    /\ doing[p] = "void" /\ Mine(p) = NoTransaction
    /\ Go(p, AfterVoid(p))
    /\ UNCHANGED <<status, camp, books, op, copies, records, tally>>
VoidBid(p) ==
    /\ doing[p] = "void" /\ Mine(p) # NoTransaction
    /\ bids' = [bids EXCEPT ![Mine(p)].status = "VOID"]
    /\ Tear(p, Mine(p))
    /\ Go(p, "gwvoid")
    /\ UNCHANGED <<status, camp, gate, op, copies, approved, old, moved, crossed,
                   astray, tally>>

\* Mutant: the bid is void, the processor keeps the hold.
MutGatewayVoid(p) ==
    /\ doing[p] = "gwvoid"
    /\ Go(p, "drop")
    /\ UNCHANGED <<status, camp, books, op, copies, records, tally>>

\* ... the processor is asked to void it, whatever it answers: a charge that has
\* settled by now cannot be voided ...
GatewayVoid(p) ==
    LET n == Mine(p) IN
    /\ doing[p] = "gwvoid"
    /\ \E answer \in CASE gate[n] = "authed"   -> {"voided"}
                       [] gate[n] = "captured" -> {"voided", "settled"}
                       [] OTHER                -> {gate[n]} :
         /\ gate' = [gate EXCEPT ![n] = answer]
         /\ IF answer = "settled" THEN torn' = torn \cup {n} ELSE Tear(p, n)
    /\ Go(p, "drop")
    /\ UNCHANGED <<status, camp, bids, op, copies, approved, old, moved, crossed,
                   astray, tally>>

\* ... and the campaign has no transaction.
DropTrans(p) ==
    /\ doing[p] = "drop"
    /\ SetTrans(p, NoTransaction)
    /\ Go(p, AfterVoid(p))
    /\ UNCHANGED <<status, books, op, at, link, t, stage, todo, live, approved,
                   old, crossed, torn, tally>>

\* auth_transaction: the processor holds the money ...
Authorise(p) ==
    /\ doing[p] = "auth"
    /\ \E n \in Trans :
         /\ gate[n] = "none" /\ \A m \in 1 .. (n - 1) : gate[m] # "none"
         /\ gate' = [gate EXCEPT ![n] = "authed"]
         /\ t' = [t EXCEPT ![p] = n]
    /\ Go(p, "newbid")
    /\ UNCHANGED <<status, camp, bids, op, at, trans, link, stage, todo, live,
                   records, tally>>

\* ... or refuses: trans_id is 0, as the void has left it.
AuthRefused(p) ==
    /\ doing[p] = "auth"
    /\ Leaves(p)
    /\ UNCHANGED <<status, camp, books, approved, crossed, torn, astray, tally>>

\* Mutant: Bid._new without the campaign, whose default is none.
MutNewBid(p) ==
    /\ doing[p] = "newbid"
    /\ bids' = [bids EXCEPT ![t[p]] = [campaign |-> NoCampaign, status |-> "AUTH"]]
    /\ Go(p, "raise")
    /\ UNCHANGED <<status, camp, gate, op, copies, records, tally>>

NewBid(p) ==
    /\ doing[p] = "newbid"
    /\ bids' = [bids EXCEPT ![t[p]] = [campaign |-> at[p], status |-> "AUTH"]]
    /\ Go(p, "raise")
    /\ UNCHANGED <<status, camp, gate, op, copies, records, tally>>

\* auth_campaign: the link can be reviewed; one that had finished is accepted.
RaiseStatus(p) ==
    /\ doing[p] = "raise"
    /\ SetStatus(p, CASE link[p] = Finished -> AcceptedStatus
                      [] link[p] < Unseen   -> Unseen
                      [] OTHER              -> link[p])
    /\ Go(p, "settrans")
    /\ UNCHANGED <<camp, books, op, at, trans, t, stage, todo, live, approved,
                   moved, torn, astray, tally>>

NewTrans(p) ==
    /\ doing[p] = "settrans"
    /\ SetTrans(p, t[p])
    /\ Go(p, "end")
    /\ UNCHANGED <<status, books, op, at, link, t, stage, todo, live, approved,
                   old, crossed, torn, tally>>

EndRequest(p) ==
    /\ doing[p] = "end"
    /\ Leaves(p)
    /\ UNCHANGED <<status, camp, books, approved, crossed, torn, astray, tally>>

\* PromotionWeights.delete_unfinished, and then add: not for what is deleted, and
\* no day from today on for what is terminated.
Unschedule(p) ==
    /\ doing[p] = "unschedule"
    /\ camp' = [camp EXCEPT ![at[p]].scheduled = FALSE]
    /\ Go(p, CASE op[p] = "delete"    -> "void"
                 [] op[p] = "terminate" -> "cut"
                 [] op[p] = "edit"      -> "schedule")
    /\ UNCHANGED <<status, books, op, copies, records, tally>>
Schedule(p) ==
    /\ doing[p] = "schedule"
    /\ camp' = [camp EXCEPT ![at[p]].scheduled = TRUE]
    /\ Go(p, "end")
    /\ UNCHANGED <<status, books, op, copies, records, tally>>
Delete(p) ==
    /\ doing[p] = "delete"
    /\ camp' = [camp EXCEPT ![at[p]].deleted = TRUE]
    /\ Go(p, "end")
    /\ UNCHANGED <<status, books, op, copies, records, tally>>

\* terminate_campaign: the campaign ends now ...
CutShort(p) ==
    /\ doing[p] = "cut"
    /\ camp' = [camp EXCEPT ![at[p]].when = "past"]
    /\ Go(p, "others")
    /\ UNCHANGED <<status, books, op, copies, records, tally>>

\* ... and the link is finished if none of its other campaigns is live; the link
\* is p's copy.
FinishLink(p) ==
    /\ doing[p] = "others"
    /\ IF link[p] = Promoted
          /\ \E c \in Campaigns \ {at[p]} : /\ ~camp[c].deleted
                                            /\ camp[c].when = "today"
                                            /\ Charged(camp[c].trans)
       THEN UNCHANGED <<status, link, old, crossed>>
       ELSE SetStatus(p, Finished)
    /\ Go(p, "end")
    /\ UNCHANGED <<camp, books, op, at, trans, t, stage, todo, live, approved, moved,
                   torn, astray, tally>>

-----------------------------------------------------------------------------
(* Decisions.                                                               *)

\* accept_promotion looks next at the campaigns that should run now, whether
\* they are scheduled or not.
DecideAccept(p) ==
    /\ doing[p] = "decide" /\ op[p] = "accept"
    /\ SetStatus(p, AcceptedStatus)
    /\ approved' = TRUE
    /\ Go(p, "select")
    /\ UNCHANGED <<camp, books, op, at, trans, t, stage, todo, live, moved, torn,
                   astray, tally>>
SelectAccepted(p) ==
    /\ doing[p] = "select" /\ op[p] = "accept"
    /\ trans' = [trans EXCEPT ![p] = [c \in Campaigns |-> camp[c].trans]]
    /\ moved' = [moved EXCEPT ![p] = {}]
    /\ todo' = [todo EXCEPT ![p] = {c \in Campaigns :
                  /\ ~camp[c].deleted /\ camp[c].when = "today"
                  /\ Accepted(link[p]) /\ camp[c].trans # NoTransaction}]
    /\ Go(p, "each")
    /\ UNCHANGED <<status, camp, books, op, at, link, t, stage, live, approved, old,
                   crossed, torn, astray, tally>>

DecideReject(p) ==
    /\ doing[p] = "decide" /\ op[p] = "reject"
    /\ SetStatus(p, Rejected)
    /\ approved' = FALSE
    /\ Go(p, "end")
    /\ UNCHANGED <<camp, books, op, at, trans, t, stage, todo, live, moved, torn,
                   astray, tally>>

\* unapprove_promotion.
DecideEdit(p) ==
    /\ doing[p] = "decide" /\ op[p] = "editpromo"
    /\ SetStatus(p, IF link[p] \in {Unpaid, Finished} THEN Unpaid ELSE Unseen)
    /\ approved' = FALSE
    /\ Go(p, "end")
    /\ UNCHANGED <<camp, books, op, at, trans, t, stage, todo, live, moved, torn,
                   astray, tally>>

-----------------------------------------------------------------------------
(* The job, and charging.                                                   *)

\* get_promos: what is scheduled for the day of the pass, in fresh copies.
Select(p) ==
    /\ doing[p] = "select" /\ op[p] = "job"
    /\ trans' = [trans EXCEPT ![p] = [c \in Campaigns |-> camp[c].trans]]
    /\ link' = [link EXCEPT ![p] = status]
    /\ old' = [old EXCEPT ![p] = FALSE]
    /\ moved' = [moved EXCEPT ![p] = {}]
    /\ todo' = [todo EXCEPT ![p] = {c \in Campaigns :
                  /\ camp[c].scheduled
                  /\ camp[c].when = (IF stage[p] = "tomorrow" THEN "tomorrow" ELSE "today")
                  /\ Accepted(status) /\ camp[c].trans # NoTransaction}]
    /\ Go(p, "each")
    /\ UNCHANGED <<status, camp, books, op, at, t, stage, live, approved, crossed,
                   torn, astray, tally>>

\* One campaign after the other is charged, or promoted in the last pass.
Take(p, c) ==
    /\ doing[p] = "each" /\ c \in todo[p]
    /\ at' = [at EXCEPT ![p] = c]
    /\ todo' = [todo EXCEPT ![p] = @ \ {c}]
    /\ Go(p, IF stage[p] = "promote" THEN "promote" ELSE "charge")
    /\ UNCHANGED <<status, camp, books, op, trans, link, t, stage, live, records, tally>>

\* An acceptance has one pass, the job has three.
PassDone(p) ==
    /\ doing[p] = "each" /\ todo[p] = {}
    /\ at' = [at EXCEPT ![p] = NoCampaign]
    /\ stage' = [stage EXCEPT ![p] = CASE @ = "today"    -> "tomorrow"
                                       [] @ = "tomorrow" -> "promote"
                                       [] OTHER          -> @]
    /\ Go(p, CASE stage[p] = "none"    -> "end"
               [] stage[p] = "promote" -> "expire"
               [] OTHER                -> "select")
    /\ UNCHANGED <<status, camp, books, op, trans, link, t, todo, live, records, tally>>

AfterCharge(p) == IF op[p] = "accept" THEN "promote" ELSE "each"

\* charge_campaign returns when the copy's transaction is charged.
ChargeNeeded(p) ==
    /\ doing[p] = "charge"
    /\ Go(p, IF Charged(Mine(p)) THEN AfterCharge(p) ELSE "capture")
    /\ UNCHANGED <<status, camp, books, op, copies, records, tally>>

\* charge_transaction looks again; by now charged, it answers with one value where
\* two are unpacked: the request or the run of the job fails.
AlreadyCharged(p) ==
    /\ doing[p] = "capture" /\ Charged(Mine(p))
    /\ Leaves(p)
    /\ UNCHANGED <<status, camp, books, approved, crossed, torn, astray, tally>>

\* The processor takes the money it holds ...
Capture(p) ==
    LET n == Mine(p) IN
    /\ doing[p] = "capture" /\ ~Charged(n)
    /\ gate[n] = "authed"
    /\ gate' = [gate EXCEPT ![n] = "captured"]
    /\ Tear(p, n)
    /\ Go(p, "booked")
    /\ UNCHANGED <<status, camp, bids, op, copies, approved, old, moved, crossed,
                   astray, tally>>

\* ... or answers TRANSACTION_NOT_FOUND for a hold that is gone ...
HoldGone(p) ==
    /\ doing[p] = "capture" /\ ~Charged(Mine(p))
    /\ gate[Mine(p)] \in {"authed", "expired", "voided"}
    /\ gate' = [gate EXCEPT ![Mine(p)] = IF @ = "authed" THEN "expired" ELSE @]
    /\ Go(p, "lost")
    /\ UNCHANGED <<status, camp, bids, op, copies, records, tally>>

\* ... or refuses for another reason.
CaptureRefused(p) ==
    /\ doing[p] = "capture" /\ ~Charged(Mine(p))
    /\ gate[Mine(p)] \in {"authed", "voided", "captured", "settled"}
    /\ Go(p, AfterCharge(p))
    /\ UNCHANGED <<status, camp, books, op, copies, records, tally>>

\* bid.charged().
Book(p) ==
    /\ doing[p] = "booked"
    /\ bids' = [bids EXCEPT ![Mine(p)].status = "CHARGE"]
    /\ Tear(p, Mine(p))
    /\ Go(p, "pending")
    /\ UNCHANGED <<status, camp, gate, op, copies, approved, old, moved, crossed,
                   astray, tally>>
SetPending(p) ==
    /\ doing[p] = "pending"
    /\ IF link[p] = Promoted THEN UNCHANGED <<status, link, old, crossed>>
       ELSE SetStatus(p, Pending)
    /\ Go(p, AfterCharge(p))
    /\ UNCHANGED <<camp, books, op, at, trans, t, stage, todo, live, approved, moved,
                   torn, astray, tally>>

\* bid.void() and trans_id = NO_TRANSACTION for the hold that has expired.
Lose(p) ==
    /\ doing[p] = "lost"
    /\ bids' = [bids EXCEPT ![Mine(p)].status = "VOID"]
    /\ Tear(p, Mine(p))
    /\ Go(p, "forget")
    /\ UNCHANGED <<status, camp, gate, op, copies, approved, old, moved, crossed,
                   astray, tally>>
Forget(p) ==
    /\ doing[p] = "forget"
    /\ SetTrans(p, NoTransaction)
    /\ Go(p, AfterCharge(p))
    /\ UNCHANGED <<status, books, op, at, link, t, stage, todo, live, approved, old,
                   crossed, torn, tally>>

\* promote_link for a campaign that is charged.
Promote(p) ==
    /\ doing[p] = "promote"
    /\ IF Charged(Mine(p))
       THEN /\ live' = [live EXCEPT ![p] = TRUE]
            /\ IF link[p] = Promoted THEN UNCHANGED <<status, link, old, crossed>>
               ELSE SetStatus(p, Promoted)
       ELSE UNCHANGED <<live, status, link, old, crossed>>
    /\ Go(p, "each")
    /\ UNCHANGED <<camp, books, op, at, trans, t, stage, todo, approved, moved, torn,
                   astray, tally>>

\* A link that is promoted and has no campaign today is found by the query, in a
\* fresh copy, and the copy is finished later.
FindPromoted(p) ==
    /\ doing[p] = "expire"
    /\ link' = [link EXCEPT ![p] = status]
    /\ old' = [old EXCEPT ![p] = FALSE]
    /\ Go(p, IF status = Promoted /\ ~live[p] THEN "finish" ELSE "end")
    /\ UNCHANGED <<status, camp, books, op, at, trans, t, stage, todo, live, approved,
                   moved, crossed, torn, astray, tally>>
Expire(p) ==
    /\ doing[p] = "finish"
    /\ SetStatus(p, Finished)
    /\ Go(p, "end")
    /\ UNCHANGED <<camp, books, op, at, trans, t, stage, todo, live, approved, moved,
                   torn, astray, tally>>

-----------------------------------------------------------------------------
(* Time and faults.                                                         *)

DayPasses(c) ==
    /\ camp[c].when # "past"
    /\ camp' = [camp EXCEPT ![c].when = IF @ = "tomorrow" THEN "today" ELSE "past"]
    /\ UNCHANGED <<status, books, doing, op, copies, records, tally>>

\* Between what the processor did and what is recorded, a death leaves the two
\* apart; between the bid and trans_id, the bid is not the campaign's.
WorkerDies(p) ==
    /\ doing[p] # "idle" /\ failures < MaxFailures
    /\ failures' = failures + 1
    /\ torn' = CASE doing[p] \in {"gwvoid", "booked"} -> torn \cup {Mine(p)}
                 [] doing[p] = "newbid"               -> torn \cup {t[p]}
                 [] OTHER                          -> torn
    /\ astray' = IF doing[p] \in {"raise", "settrans"} THEN astray \cup {at[p]} ELSE astray
    /\ Leaves(p)
    /\ UNCHANGED <<status, camp, books, approved, crossed, ops>>

PromoRequest(p) ==
    \/ \E c \in Campaigns : \/ UpdatePay(p, c) \/ EditCampaign(p, c)
                            \/ DeleteCampaign(p, c) \/ Terminate(p, c)
    \/ Accept(p) \/ Reject(p) \/ EditPromo(p) \/ RunJob(p)

PromoStep(p) ==
    \/ NothingToVoid(p) \/ VoidBid(p) \/ GatewayVoid(p) \/ DropTrans(p)
    \/ Authorise(p) \/ AuthRefused(p) \/ NewBid(p) \/ RaiseStatus(p) \/ NewTrans(p)
    \/ Unschedule(p) \/ Schedule(p) \/ Delete(p) \/ CutShort(p) \/ FinishLink(p)
    \/ DecideAccept(p) \/ SelectAccepted(p) \/ DecideReject(p) \/ DecideEdit(p)
    \/ Select(p) \/ PassDone(p) \/ ChargeNeeded(p) \/ AlreadyCharged(p)
    \/ Capture(p) \/ HoldGone(p) \/ CaptureRefused(p) \/ Book(p) \/ SetPending(p)
    \/ Lose(p) \/ Forget(p) \/ Promote(p)
    \/ FindPromoted(p) \/ Expire(p) \/ EndRequest(p)
    \/ \E c \in Campaigns : Take(p, c)

PromoNext ==
    \/ \E p \in Workers : PromoRequest(p) \/ PromoStep(p) \/ WorkerDies(p)
    \/ \E c \in Campaigns : DayPasses(c)

PromoSpec == PromoInit /\ [][PromoNext]_promoVars

-----------------------------------------------------------------------------
(* Properties.                                                              *)

\* The state has its shape; who does nothing has no campaign in hand.
PromoTypeOK ==
    /\ status \in Unpaid .. Finished
    /\ camp \in [Campaigns -> [trans : 0 .. MaxTrans, when : Whens,
                               scheduled : BOOLEAN, deleted : BOOLEAN]]
    /\ bids \in [Trans -> [campaign : Campaigns \cup {NoCampaign},
                           status : {"none", "AUTH", "CHARGE", "VOID"}]]
    /\ gate \in [Trans -> {"none", "authed", "captured", "settled", "voided", "expired"}]
    /\ op \in [Workers -> Ops]
    /\ \A n \in Trans : bids[n] # NoBid => bids[n].campaign # NoCampaign
    /\ \A p \in Workers : doing[p] = "idle" => at[p] = NoCampaign /\ todo[p] = {}

\* A link that runs or will run was accepted by a sponsor and not edited or
\* rejected since (is_accepted, unapprove_promotion, auth_campaign, promote_link),
\* unless somebody decided on an old copy of it.
LiveIsApproved ==
    ~crossed => (status \in {AcceptedStatus, Pending, Promoted} => approved)

\* What the row in bids says of transaction n is what the processor knows.
Agree(n) ==
    CASE bids[n].status = "none"   -> gate[n] = "none"
      [] bids[n].status = "AUTH"   -> gate[n] \in {"authed", "expired"}
      [] bids[n].status = "CHARGE" -> gate[n] \in {"captured", "settled"}
      [] bids[n].status = "VOID"   -> gate[n] \in {"voided", "expired"}

\* Nobody works on transaction n.
AtRest(n) ==
    /\ \A p \in Workers : t[p] # n
    /\ bids[n].campaign # NoCampaign => Busy(bids[n].campaign) = {}

\* The table bids says of every transaction what the processor knows: no hold or
\* charge without a record, none left of what was voided; and of what a campaign's
\* bids hold or charged, trans_id names all.  Except for transactions that two
\* worked on at once, that somebody died on, or that had settled when voided, and
\* campaigns whose trans_id was written over.
BooksMatch ==
    \A n \in Trans \ torn :
        LET c == bids[n].campaign IN
        /\ AtRest(n) => Agree(n)
        /\ bids[n].status \in {"AUTH", "CHARGE"} /\ c \notin astray /\ Busy(c) = {}
              => camp[c].trans = n
=============================================================================

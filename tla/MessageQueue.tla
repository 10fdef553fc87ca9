---------------------------- MODULE MessageQueue ----------------------------
(***************************************************************************)
(* The message queues of r2/lib/amqp.py: add_item() hands an item to the    *)
(* worker thread of its process, whose publications reach a broker that     *)
(* keeps the items of each queue for the processes consuming it.  There are *)
(* four kinds of process:                                                   *)
(*                                                                         *)
(*   Webs        application servers and shells: they only add items        *)
(*   Consumers   in consume_items(), one callback per item                  *)
(*   Batchers    in handle_items(), one callback per batch                  *)
(*   Dedupers    in dedup_queue()                                           *)
(*                                                                         *)
(* An item is its body; the broker counts the copies of it.  A callback is  *)
(* a function of the body or the bodies, so what it owes is one completed call after the  *)
(* item was last added, however many copies there are.                      *)
(***************************************************************************)
EXTENDS Integers, Sequences, FiniteSets

CONSTANTS
    Webs, Consumers, Batchers, Dedupers,
    Bodies,         \* items
    Queues,         \* queue names
    QueueOf,        \* QueueOf[b]: the queue the routing key of b leads to
    Serves,         \* Serves[p]: the queue p works on
    Out,            \* Out[b]: the items a callback for b adds, in order
    OutOfBatch,     \* OutOfBatch[s]: those that a callback for the batch s adds
    Prefetch,       \* prefetch_count of consume_items
    Limit,          \* limit of handle_items
    MinSize,        \* min_size of handle_items
    MaxAsks,        \* bound: items added by Webs
    MaxFaults       \* bound: things that go wrong

Readers == Consumers \cup Batchers \cup Dedupers
Procs   == Webs \cup Readers
Batches == UNION {[1..n -> Bodies] : n \in 1..Limit}

ASSUME QueueConstants ==
    /\ QueueOf \in [Bodies -> Queues]
    /\ Serves \in [Readers -> Queues]
    /\ Out \in [Bodies -> Seq(Bodies)]
    /\ OutOfBatch \in [Batches -> Seq(Bodies)]
    /\ Prefetch \in Nat \ {0}
    /\ Limit \in Nat \ {0}
    /\ MinSize \in 0..Limit
    /\ MaxAsks \in Nat
    /\ MaxFaults \in Nat

ASSUME OneKindEach ==
    /\ Webs \cap Readers = {}
    /\ Consumers \cap (Batchers \cup Dedupers) = {}
    /\ Batchers \cap Dedupers = {}

VARIABLES
    at,         \* at[p]: where the main thread of p is
    held,       \* held[p]: the items delivered to p and not acknowledged
    todo,       \* todo[p]: the bodies dedup_queue() has yet to add again
    tasks,      \* tasks[p]: the worker's queue, the bodies of calls of _add_item
    undone,     \* undone[p]: its count of unfinished tasks
    failed,     \* history: a task of p has raised in the worker
    ready,      \* ready[b]: the copies of b waiting at the broker
    owed,       \* history: items added and not handled since
    lost,       \* history: owed items whose publication was lost
    asks, faults  \* how often items were added and things went wrong

procVars == <<at, held, todo, tasks, undone, failed>>
itemVars == <<owed, lost>>
vars == <<procVars, ready, itemVars, asks, faults>>

Start(p) == IF p \in Consumers THEN "wait" ELSE IF p \in Webs THEN "serve" ELSE "get"

Init ==
    /\ at = [p \in Procs |-> Start(p)]
    /\ held = [p \in Procs |-> <<>>]
    /\ todo = [p \in Procs |-> {}]
    /\ tasks = [p \in Procs |-> <<>>]
    /\ undone = [p \in Procs |-> 0]
    /\ failed = [p \in Procs |-> FALSE]
    /\ ready = [b \in Bodies |-> 0]
    /\ owed = {}
    /\ lost = {}
    /\ asks = 0
    /\ faults = 0

Items(s) == {s[i] : i \in DOMAIN s}
Copies(s, b) == Cardinality({i \in DOMAIN s : s[i] = b})
Queued(p) == Items(tasks[p])

Goto(p, where) == at' = [at EXCEPT ![p] = where]

\* Mutant: put() does not count the task.
MutPut(p, calls) ==
    /\ tasks' = [tasks EXCEPT ![p] = @ \o calls]
    /\ UNCHANGED undone

\* worker.do(): the call is put on the worker's queue.
Put(p, calls) ==
    /\ tasks' = [tasks EXCEPT ![p] = @ \o calls]
    /\ undone' = [undone EXCEPT ![p] = @ + Len(calls)]

\* add_item() of bs in turn, after done has been handled.
Accept(p, bs, done) ==
    /\ Put(p, bs)
    /\ owed' = (owed \ done) \cup Items(bs)
    /\ lost' = (lost \ done) \ Items(bs)

\* Mutant: items acknowledged on delivery.
MutRequeue(p) ==
    /\ held' = [held EXCEPT ![p] = <<>>]
    /\ UNCHANGED ready

\* The items held by p are waiting again: rejected, or its channel is closed.
Requeue(p) ==
    /\ ready' = [b \in Bodies |-> ready[b] + Copies(held[p], b)]
    /\ held' = [held EXCEPT ![p] = <<>>]

\* One more thing goes wrong.
Fault == faults < MaxFaults /\ faults' = faults + 1

-----------------------------------------------------------------------------
(* Adding items: the main thread and the worker.                            *)

AddItem(w, b) ==
    /\ at[w] = "serve"
    /\ asks < MaxAsks
    /\ asks' = asks + 1
    /\ Accept(w, <<b>>, {})
    /\ UNCHANGED <<at, held, todo, failed, ready, faults>>

Busy(p) == at[p] # "down" /\ tasks[p] # <<>>

\* Mutant: task_done() is forgotten.
MutTaskDone(p) ==
    /\ tasks' = [tasks EXCEPT ![p] = Tail(@)]
    /\ UNCHANGED undone

TaskDone(p) ==
    /\ tasks' = [tasks EXCEPT ![p] = Tail(@)]
    /\ undone' = [undone EXCEPT ![p] = @ - 1]

\* basic_publish() reaches the broker.
Publish(p) ==
    /\ Busy(p)
    /\ ready' = [ready EXCEPT ![Head(tasks[p])] = @ + 1]
    /\ TaskDone(p)
    /\ UNCHANGED <<at, held, todo, failed, owed, lost, asks, faults>>

\* basic_publish() returns, but the connection breaks before the broker has
\* the item; nothing confirms publications.
Drop(p) ==
    /\ Busy(p)
    /\ Fault
    /\ TaskDone(p)
    /\ lost' = lost \cup ({Head(tasks[p])} \cap owed)
    /\ UNCHANGED <<at, held, todo, failed, ready, owed, asks>>

\* EPIPE: reconnect, and add_item() with the routing key, the body and the
\* message id alone: the call goes to the end of the worker's own queue
\* before this one counts as done.
Retry(p) ==
    /\ Busy(p)
    /\ Fault
    /\ tasks' = [tasks EXCEPT ![p] = Append(Tail(@), Head(@))]
    /\ UNCHANGED <<at, held, todo, undone, failed, ready, itemVars, asks>>

\* Any other exception: the call is gone, and task_done() is not called.
Raise(p) ==
    /\ Busy(p)
    /\ Fault
    /\ tasks' = [tasks EXCEPT ![p] = Tail(@)]
    /\ failed' = [failed EXCEPT ![p] = TRUE]
    /\ lost' = lost \cup ({Head(tasks[p])} \cap owed)
    /\ UNCHANGED <<at, held, todo, undone, ready, owed, asks>>

\* Mutant: join() is not called.
MutJoined(p) == TRUE

\* worker.join() has returned.
Joined(p) == undone[p] = 0

\* The process of p ends and takes its daemon worker thread with it, and with
\* that the calls of unsent.
End(p, unsent) ==
    /\ Goto(p, "down")
    /\ todo' = [todo EXCEPT ![p] = {}]
    /\ tasks' = [tasks EXCEPT ![p] = <<>>]
    /\ undone' = [undone EXCEPT ![p] = 0]
    /\ failed' = [failed EXCEPT ![p] = FALSE]
    /\ lost' = lost \cup (unsent \cap owed)
    /\ UNCHANGED owed

\* A crash; the broker requeues what the connection had not acknowledged, with a
\* deduper all that it had yet to add.
Crash(p) ==
    /\ at[p] # "down"
    /\ Fault
    /\ End(p, IF p \in Dedupers THEN {} ELSE Queued(p))
    /\ Requeue(p)
    /\ UNCHANGED asks

\* upstart respawns it; an operator runs it again.
Restart(p) ==
    /\ at[p] = "down"
    /\ Goto(p, Start(p))
    /\ UNCHANGED <<held, todo, tasks, undone, failed, ready, itemVars, asks, faults>>

-----------------------------------------------------------------------------
(* consume_items(): one item at a time, acknowledged after its callback.    *)

Open(c) == at[c] \in {"wait", "acking", "join"}

\* The broker pushes an item, whatever the process is doing, as long as
\* prefetch_count are not outstanding.
Deliver(c, b) ==
    /\ Open(c)
    /\ Serves[c] = QueueOf[b]
    /\ Len(held[c]) < Prefetch
    /\ ready[b] > 0
    /\ ready' = [ready EXCEPT ![b] = @ - 1]
    /\ held' = [held EXCEPT ![c] = Append(@, b)]
    /\ UNCHANGED <<at, todo, tasks, undone, failed, itemVars, asks, faults>>

\* The callback returns, having added what it adds.
Callback(c) ==
    /\ at[c] = "wait"
    /\ held[c] # <<>>
    /\ Accept(c, Out[Head(held[c])], {Head(held[c])})
    /\ Goto(c, "acking")
    /\ UNCHANGED <<held, todo, failed, ready, asks, faults>>

\* It raises, having added the first n of them: the loop is left.
CallbackFails(c) ==
    /\ at[c] = "wait"
    /\ held[c] # <<>>
    /\ Fault
    /\ \E n \in 0..Len(Out[Head(held[c])]) :
           Accept(c, SubSeq(Out[Head(held[c])], 1, n), {})
    /\ Goto(c, "join")
    /\ UNCHANGED <<held, todo, failed, ready, asks>>

\* basic_ack() of that item.
Ack(c) ==
    /\ at[c] = "acking"
    /\ held' = [held EXCEPT ![c] = Tail(@)]
    /\ Goto(c, "wait")
    /\ UNCHANGED <<todo, tasks, undone, failed, ready, itemVars, asks, faults>>

\* KeyboardInterrupt: the loop is left, the channel still open.
Interrupt(c) ==
    /\ at[c] \in {"wait", "acking"}
    /\ Fault
    /\ Goto(c, "join")
    /\ UNCHANGED <<held, todo, tasks, undone, failed, ready, itemVars, asks>>

\* The connection of the main thread is lost: the broker takes back what was
\* not acknowledged, and the next use of the channel leaves the loop.
Cut(c) ==
    /\ Open(c)
    /\ Fault
    /\ Requeue(c)
    /\ Goto(c, "cut")
    /\ UNCHANGED <<todo, tasks, undone, failed, itemVars, asks>>

\* finally: worker.join(), chan.close(), and the process ends.
Close(c) ==
    /\ at[c] \in {"join", "cut"}
    /\ Joined(c)
    /\ End(c, {})
    /\ Requeue(c)
    /\ UNCHANGED <<asks, faults>>

-----------------------------------------------------------------------------
(* handle_items(): up to Limit items at a time.                             *)

Get(h, b) ==
    /\ at[h] = "get"
    /\ h \in Batchers => Len(held[h]) < Limit
    /\ Serves[h] = QueueOf[b]
    /\ ready[b] > 0
    /\ ready' = [ready EXCEPT ![b] = @ - 1]
    /\ held' = [held EXCEPT ![h] = Append(@, b)]
    /\ UNCHANGED <<at, todo, tasks, undone, failed, itemVars, asks, faults>>

NothingThere(q) == \A b \in Bodies : QueueOf[b] = q => ready[b] = 0

\* The batch is full, or is large enough and basic_get() finds no more.
BatchIsDue(h) ==
    /\ at[h] = "get"
    /\ held[h] # <<>>
    /\ \/ Len(held[h]) = Limit
       \/ Len(held[h]) >= MinSize /\ NothingThere(Serves[h])

\* The callback of the batch returns.
CallBatch(h) ==
    /\ BatchIsDue(h)
    /\ Accept(h, OutOfBatch[held[h]], Items(held[h]))
    /\ Goto(h, "acking")
    /\ UNCHANGED <<held, todo, failed, ready, asks, faults>>

\* basic_ack() of everything outstanding on the channel.
AckBatch(h) ==
    /\ at[h] = "acking"
    /\ held' = [held EXCEPT ![h] = <<>>]
    /\ Goto(h, "get")
    /\ UNCHANGED <<todo, tasks, undone, failed, ready, itemVars, asks, faults>>

\* The callback raises: every item is rejected, and the exception goes on.
BatchFails(h) ==
    /\ BatchIsDue(h)
    /\ Fault
    /\ \E n \in 0..Len(OutOfBatch[held[h]]) :
           Accept(h, SubSeq(OutOfBatch[held[h]], 1, n), {})
    /\ Requeue(h)
    /\ Goto(h, "ending")
    /\ UNCHANGED <<todo, failed, asks>>

\* It ends the process: nobody joins the worker here.
Die(h) ==
    /\ at[h] = "ending"
    /\ End(h, Queued(h))
    /\ UNCHANGED <<held, ready, asks, faults>>

-----------------------------------------------------------------------------
(* dedup_queue(): take what is there, add each body again, acknowledge.     *)

\* basic_get() finds nothing, or as many as there were at first are here.
StopGetting(d) ==
    /\ at[d] = "get"
    /\ held[d] # <<>>
    /\ todo' = [todo EXCEPT ![d] = Items(held[d])]
    /\ Goto(d, "add")
    /\ UNCHANGED <<held, tasks, undone, failed, ready, itemVars, asks, faults>>

\* _add_item() in the main thread.
AddAgain(d, b) ==
    /\ at[d] = "add"
    /\ b \in todo[d]
    /\ ready' = [ready EXCEPT ![b] = @ + 1]
    /\ todo' = [todo EXCEPT ![d] = @ \ {b}]
    /\ UNCHANGED <<at, held, tasks, undone, failed, itemVars, asks, faults>>

\* It meets EPIPE: the main thread reconnects and hands the call to the
\* worker.  The old connection took the unacknowledged items with it.
AddAgainLater(d, b) ==
    /\ at[d] = "add"
    /\ b \in todo[d]
    /\ Fault
    /\ Put(d, <<b>>)
    /\ Requeue(d)
    /\ todo' = [todo EXCEPT ![d] = @ \ {b}]
    /\ UNCHANGED <<at, failed, itemVars, asks>>

\* worker.join(), then basic_ack() of everything, and the function returns.
AckAll(d) ==
    /\ at[d] = "add"
    /\ todo[d] = {}
    /\ Joined(d)
    /\ End(d, {})
    /\ held' = [held EXCEPT ![d] = <<>>]
    /\ UNCHANGED <<ready, asks, faults>>

-----------------------------------------------------------------------------
WorkerStep(p) == Publish(p) \/ Drop(p) \/ Retry(p) \/ Raise(p)

ConsumerStep(c) ==
    \/ \E b \in Bodies : Deliver(c, b)
    \/ Callback(c) \/ CallbackFails(c) \/ Ack(c)
    \/ Interrupt(c) \/ Cut(c) \/ Close(c)

BatcherStep(h) ==
    \/ \E b \in Bodies : Get(h, b)
    \/ CallBatch(h) \/ AckBatch(h) \/ BatchFails(h) \/ Die(h)

DeduperStep(d) ==
    \/ \E b \in Bodies : Get(d, b) \/ AddAgain(d, b) \/ AddAgainLater(d, b)
    \/ StopGetting(d) \/ AckAll(d)

Next ==
    \/ \E w \in Webs, b \in Bodies : AddItem(w, b)
    \/ \E p \in Procs : WorkerStep(p) \/ Crash(p) \/ Restart(p)
    \/ \E c \in Consumers : ConsumerStep(c)
    \/ \E h \in Batchers : BatcherStep(h)
    \/ \E d \in Dedupers : DeduperStep(d)

Spec == Init /\ [][Next]_vars

\* Worker threads run; the broker does not pass over a consumer with room for
\* ever; main threads go on; upstart respawns consumers.  Nobody has to add
\* anything or to run a deduper, and nothing has to go wrong or right.
FairSpec ==
    /\ Spec
    /\ \A p \in Procs : WF_vars(Publish(p))
    /\ \A c \in Consumers, b \in Bodies : SF_vars(Deliver(c, b))
    /\ \A c \in Consumers : WF_vars(Callback(c)) /\ WF_vars(Ack(c)) /\ WF_vars(Close(c))
    /\ \A h \in Batchers, b \in Bodies : WF_vars(Get(h, b))
    /\ \A h \in Batchers : WF_vars(CallBatch(h)) /\ WF_vars(AckBatch(h)) /\ WF_vars(Die(h))
    /\ \A p \in Consumers \cup Batchers : WF_vars(Restart(p))
    /\ \A d \in Dedupers : WF_vars(StopGetting(d)) /\ WF_vars(AckAll(d))
    /\ \A d \in Dedupers, b \in Bodies : WF_vars(AddAgain(d, b))

-----------------------------------------------------------------------------
Places == {"serve", "wait", "acking", "join", "cut", "get", "ending", "add", "down"}

TypeOK ==
    /\ at \in [Procs -> Places]
    /\ held \in [Procs -> Seq(Bodies)]
    /\ \A c \in Consumers : Len(held[c]) <= Prefetch
    /\ \A h \in Batchers : Len(held[h]) <= Limit
    /\ todo \in [Procs -> SUBSET Bodies]
    /\ tasks \in [Procs -> Seq(Bodies)]
    /\ undone \in [Procs -> Nat]
    /\ failed \in [Procs -> BOOLEAN]
    /\ ready \in [Bodies -> Nat]
    /\ owed \in SUBSET Bodies
    /\ lost \in SUBSET owed
    /\ asks \in 0..MaxAsks
    /\ faults \in 0..MaxFaults

\* The items a process would still handle, or give back, if it went on.
Undecided(p) ==
    CASE p \in Consumers /\ at[p] = "acking" -> Items(Tail(held[p]))
      [] p \in Batchers /\ at[p] = "acking"  -> {}
      [] p \in Dedupers /\ at[p] = "add"     -> todo[p]
      [] OTHER                               -> Items(held[p])

\* At least once: an item somebody added is not forgotten.  Until a callback
\* for it has returned, whatever crashes, is interrupted, retried, rejected or
\* deduplicated, it waits with a worker, at the broker or with a reader; it
\* is gone only if its publication was lost, raised, or died with a process that
\* crashed or gave up a batch.  A consumer that leaves its loop and a deduper that
\* is done lose nothing (amqp.py:158-187, 236-252, 308-320, 374-382).
NotForgotten ==
    \A b \in owed \ lost :
        \/ ready[b] > 0
        \/ \E p \in Procs : b \in Queued(p) \/ b \in Undecided(p)

\* The worker's queue is empty and join() does not return.
Hung(p) == tasks[p] = <<>> /\ undone[p] > 0

HeldUp(b) == \E c \in Consumers :
    Serves[c] = QueueOf[b] /\ at[c] \in {"join", "cut"} /\ Hung(c) /\ failed[c]
TooFew(b) == \E h \in Batchers :
    b \in Items(held[h]) /\ Len(held[h]) < MinSize

\* An item somebody added is handled in the end.  It is not only where its
\* publication was lost, where its consumer hangs in join() for ever because a
\* task has raised (amqp.py:67-72), or where a batcher waits for ever for
\* min_size items to come together.
OwedIsPaid ==
    \A b \in Bodies : b \in owed
        ~> (b \notin owed \/ b \in lost \/ []HeldUp(b) \/ []TooFew(b))
=============================================================================

------------------------- MODULE MessageQueueProofs -------------------------
(***************************************************************************)
(* Proofs about MessageQueue for any processes, queues, items and limits.   *)
(* That an item is not forgotten is not inductive as it stands: it counts   *)
(* what a deduper has yet to add and what the deduper's worker has yet to   *)
(* publish, both of which a crash would lose.  The strengthening is that    *)
(* neither is needed: as long as a deduper holds items they are in its      *)
(* unacknowledged messages, and once the broker has taken these back they   *)
(* are elsewhere.                                                           *)
(***************************************************************************)
EXTENDS MessageQueue, FiniteSetTheorems, SequenceTheorems, TLAPS

\* Where the main thread of each kind of process can be.
Kinds ==
    /\ \A w \in Webs : at[w] \in {"serve", "down"} /\ held[w] = <<>>
    /\ \A c \in Consumers : at[c] \in {"wait", "acking", "join", "cut", "down"}
    /\ \A h \in Batchers : at[h] \in {"get", "acking", "ending", "down"}
    /\ \A d \in Dedupers : at[d] \in {"get", "add", "down"}

\* A process without a channel holds nothing, and one that is down does nothing.
Quiet ==
    /\ \A p \in Procs : at[p] \in {"cut", "ending", "down"} => held[p] = <<>>
    /\ \A c \in Consumers : at[c] = "acking" => held[c] # <<>>

\* join() does not return before every task is done.
TasksCounted == \A p \in Procs : Len(tasks[p]) <= undone[p]

\* What p would handle or give back even if it crashed now.
Kept(p) == IF p \in Dedupers THEN Undecided(p) \cap Items(held[p]) ELSE Undecided(p)

\* What the worker of p has yet to publish, unless others have it, too.
Unsent(p) == IF p \in Dedupers THEN {} ELSE Queued(p)

Somewhere(b) == ready[b] > 0 \/ \E p \in Procs : b \in Unsent(p) \cup Kept(p)

OwedIsSomewhere == \A b \in owed \ lost : Somewhere(b)

QueueInv == Kinds /\ Quiet /\ TasksCounted /\ OwedIsSomewhere

USE QueueConstants, OneKindEach DEF Procs, Readers

-----------------------------------------------------------------------------
(* Sequences of items.                                                      *)

LEMMA ItemsOfEmpty == Items(<<>>) = {}
  BY DEF Items

LEMMA ItemsAreBodies ==
    ASSUME NEW s \in Seq(Bodies)
    PROVE  Items(s) \subseteq Bodies
  BY DEF Items

LEMMA ItemsOfConcat ==
    ASSUME NEW s \in Seq(Bodies), NEW t \in Seq(Bodies)
    PROVE  /\ s \o t \in Seq(Bodies)
           /\ Len(s \o t) = Len(s) + Len(t)
           /\ Items(s \o t) = Items(s) \cup Items(t)
<1>1. s \o t \in Seq(Bodies) /\ Len(s \o t) = Len(s) + Len(t)
  OBVIOUS
<1>2. ASSUME NEW b \in Items(s \o t) PROVE b \in Items(s) \cup Items(t)
  <2>1. PICK i \in 1..(Len(s) + Len(t)) : b = (s \o t)[i]
    BY <1>1 DEF Items
  <2>2. CASE i <= Len(s)
    BY <2>1, <2>2 DEF Items
  <2>3. CASE i > Len(s)
    <3>1. i - Len(s) \in DOMAIN t /\ b = t[i - Len(s)]
      BY <2>1, <2>3
    <3> QED
      BY <3>1 DEF Items
  <2> QED
    BY <2>1, <2>2, <2>3
<1>3. ASSUME NEW b \in Items(s) PROVE b \in Items(s \o t)
  <2>1. PICK i \in DOMAIN s : b = s[i]
    BY DEF Items
  <2>2. i \in DOMAIN (s \o t) /\ (s \o t)[i] = b
    BY <2>1
  <2> QED
    BY <2>2 DEF Items
<1>4. ASSUME NEW b \in Items(t) PROVE b \in Items(s \o t)
  <2>1. PICK i \in DOMAIN t : b = t[i]
    BY DEF Items
  <2>2. i + Len(s) \in DOMAIN (s \o t) /\ (s \o t)[i + Len(s)] = b
    BY <2>1
  <2> QED
    BY <2>2 DEF Items
<1> QED
  BY <1>1, <1>2, <1>3, <1>4

LEMMA ItemsOfAppend ==
    ASSUME NEW s \in Seq(Bodies), NEW b \in Bodies
    PROVE  /\ Append(s, b) \in Seq(Bodies) /\ Append(s, b) # <<>>
           /\ Len(Append(s, b)) = Len(s) + 1
           /\ Items(Append(s, b)) = Items(s) \cup {b}
<1>1. Append(s, b) = s \o <<b>> /\ <<b>> \in Seq(Bodies)
  BY AppendIsConcat
<1>2. Items(<<b>>) = {b} /\ Len(<<b>>) = 1
  BY DEF Items
<1>3. ASSUME NEW t \in Seq(Bodies), t = <<b>>
      PROVE  Len(s \o t) = Len(s) + 1 /\ Items(s \o t) = Items(s) \cup {b}
  <2>1. Len(t) = 1 /\ Items(t) = {b}
    BY <1>2, <1>3
  <2>2. Len(s \o t) = Len(s) + Len(t) /\ Items(s \o t) = Items(s) \cup Items(t)
    BY ItemsOfConcat
  <2> QED
    BY <2>1, <2>2
<1>4. Append(s, b) # <<>>
  <2>1. b \in Items(Append(s, b))
    BY <1>1, <1>3
  <2> QED
    BY <2>1, ItemsOfEmpty
<1> QED
  BY <1>1, <1>3, <1>4, ItemsOfConcat

LEMMA ItemsOfTail ==
    ASSUME NEW s \in Seq(Bodies), s # <<>>
    PROVE  /\ Head(s) \in Bodies /\ Tail(s) \in Seq(Bodies)
           /\ Len(s) \in Nat \ {0}
           /\ Len(Tail(s)) = Len(s) - 1
           /\ Items(s) = {Head(s)} \cup Items(Tail(s))
<1>1. /\ Head(s) \in Bodies /\ Tail(s) \in Seq(Bodies)
      /\ Len(s) \in Nat \ {0}
      /\ Len(Tail(s)) = Len(s) - 1
      /\ \A i \in 1..Len(Tail(s)) : Tail(s)[i] = s[i + 1]
      /\ Head(s) = s[1]
  BY HeadTailProperties, EmptySeq
<1>2. ASSUME NEW b \in Items(s) PROVE b \in {Head(s)} \cup Items(Tail(s))
  <2>1. PICK i \in 1..Len(s) : b = s[i]
    BY DEF Items
  <2>2. CASE i = 1
    BY <1>1, <2>1, <2>2
  <2>3. CASE i # 1
    <3>1. i - 1 \in DOMAIN Tail(s) /\ b = Tail(s)[i - 1]
      BY <1>1, <2>1, <2>3
    <3> QED
      BY <3>1 DEF Items
  <2> QED
    BY <2>2, <2>3
<1>3. ASSUME NEW b \in Items(Tail(s)) PROVE b \in Items(s)
  <2>1. PICK i \in 1..Len(Tail(s)) : b = Tail(s)[i]
    BY <1>1 DEF Items
  <2>2. i + 1 \in DOMAIN s /\ b = s[i + 1]
    BY <1>1, <2>1
  <2> QED
    BY <2>2 DEF Items
<1>4. Head(s) \in Items(s)
  <2>1. 1 \in DOMAIN s
    BY <1>1
  <2> QED
    BY <1>1, <2>1 DEF Items
<1> QED
  BY <1>1, <1>2, <1>3, <1>4

LEMMA PrefixOfItems ==
    ASSUME NEW s \in Seq(Bodies), NEW n \in 0..Len(s)
    PROVE  SubSeq(s, 1, n) \in Seq(Bodies)
  BY SubSeqProperties

LEMMA CopiesOfItems ==
    ASSUME NEW s \in Seq(Bodies), NEW b \in Bodies
    PROVE  Copies(s, b) \in Nat /\ (b \in Items(s) => Copies(s, b) > 0)
<1> DEFINE I == {i \in DOMAIN s : s[i] = b}
<1>1. IsFiniteSet(1..Len(s))
  BY FS_Interval
<1>2. IsFiniteSet(I)
  BY <1>1, FS_Subset
<1>3. Cardinality(I) \in Nat /\ (I # {} => Cardinality(I) # 0)
  BY <1>2, FS_CardinalityType, FS_EmptySet
<1>4. b \in Items(s) => I # {}
  BY DEF Items
<1> QED
  BY <1>3, <1>4 DEF Copies

-----------------------------------------------------------------------------
(* Types.                                                                   *)

\* The kinds of variables that an action changes together.
HeldTyped ==
    /\ held \in [Procs -> Seq(Bodies)]
    /\ \A c \in Consumers : Len(held[c]) <= Prefetch
    /\ \A h \in Batchers : Len(held[h]) <= Limit
    /\ ready \in [Bodies -> Nat]
WorkTyped ==
    /\ tasks \in [Procs -> Seq(Bodies)]
    /\ undone \in [Procs -> Nat]
    /\ \A p \in Procs : Len(tasks[p]) <= undone[p]
MainTyped == at \in [Procs -> Places] /\ todo \in [Procs -> SUBSET Bodies]
OwedTyped == owed \in SUBSET Bodies /\ lost \in SUBSET owed
RestTyped == failed \in [Procs -> BOOLEAN] /\ asks \in 0..MaxAsks /\ faults \in 0..MaxFaults

LEMMA TypeParts ==
    TypeOK /\ TasksCounted <=>
        HeldTyped /\ WorkTyped /\ MainTyped /\ OwedTyped /\ RestTyped
  BY DEF TypeOK, TasksCounted, HeldTyped, WorkTyped, MainTyped, OwedTyped, RestTyped

LEMMA PutTyped ==
    ASSUME WorkTyped, NEW p \in Procs, NEW calls \in Seq(Bodies), Put(p, calls)
    PROVE  /\ WorkTyped'
           /\ tasks'[p] = tasks[p] \o calls
           /\ \A q \in Procs \ {p} : tasks'[q] = tasks[q]
<1>1. /\ tasks' = [tasks EXCEPT ![p] = tasks[p] \o calls]
      /\ undone' = [undone EXCEPT ![p] = undone[p] + Len(calls)]
  BY DEF Put
<1>2. tasks[p] \o calls \in Seq(Bodies) /\ Len(tasks[p] \o calls) = Len(tasks[p]) + Len(calls)
  BY ItemsOfConcat DEF WorkTyped
<1>3. Len(calls) \in Nat /\ \A q \in Procs : Len(tasks[q]) \in Nat
  BY LenProperties DEF WorkTyped
<1> QED
  BY <1>1, <1>2, <1>3 DEF WorkTyped

LEMMA AcceptTyped ==
    ASSUME WorkTyped, OwedTyped, NEW p \in Procs, NEW bs \in Seq(Bodies), NEW done,
           Accept(p, bs, done)
    PROVE  WorkTyped' /\ OwedTyped'
<1>1. WorkTyped'
  BY PutTyped DEF Accept
<1>2. Items(bs) \subseteq Bodies
  BY ItemsAreBodies
<1> QED
  BY <1>1, <1>2 DEF Accept, OwedTyped

LEMMA DoneTyped ==
    ASSUME WorkTyped, NEW p \in Procs, tasks[p] # <<>>, TaskDone(p)
    PROVE  /\ WorkTyped'
           /\ tasks'[p] = Tail(tasks[p])
           /\ \A q \in Procs \ {p} : tasks'[q] = tasks[q]
<1>1. /\ tasks' = [tasks EXCEPT ![p] = Tail(tasks[p])]
      /\ undone' = [undone EXCEPT ![p] = undone[p] - 1]
  BY DEF TaskDone
<1>2. /\ Tail(tasks[p]) \in Seq(Bodies)
      /\ Len(tasks[p]) \in Nat \ {0}
      /\ Len(Tail(tasks[p])) = Len(tasks[p]) - 1
  BY ItemsOfTail DEF WorkTyped
<1>3. undone[p] - 1 \in Nat /\ Len(Tail(tasks[p])) <= undone[p] - 1
  BY <1>2 DEF WorkTyped
<1> QED
  BY <1>1, <1>2, <1>3 DEF WorkTyped

LEMMA RequeueTyped ==
    ASSUME HeldTyped, NEW p \in Procs, Requeue(p)
    PROVE  /\ HeldTyped'
           /\ held'[p] = <<>>
           /\ \A q \in Procs \ {p} : held'[q] = held[q]
           /\ \A b \in Bodies : ready'[b] >= ready[b]
           /\ \A b \in Items(held[p]) : b \in Bodies /\ ready'[b] > 0
<1>1. /\ ready' = [b \in Bodies |-> ready[b] + Copies(held[p], b)]
      /\ held' = [held EXCEPT ![p] = <<>>]
  BY DEF Requeue
<1>2. \A b \in Bodies : /\ Copies(held[p], b) \in Nat
                        /\ b \in Items(held[p]) => Copies(held[p], b) > 0
  BY CopiesOfItems DEF HeldTyped
<1>3. ready' \in [Bodies -> Nat]
  BY <1>1, <1>2 DEF HeldTyped
<1>4. <<>> \in Seq(Bodies) /\ Len(<<>>) = 0
  OBVIOUS
<1>5. HeldTyped'
  BY <1>1, <1>3, <1>4 DEF HeldTyped
<1>6. \A b \in Bodies : ready'[b] >= ready[b] /\ (b \in Items(held[p]) => ready'[b] > 0)
  BY <1>1, <1>2 DEF HeldTyped
<1>7. Items(held[p]) \subseteq Bodies
  BY ItemsAreBodies DEF HeldTyped
<1> QED
  BY <1>1, <1>5, <1>6, <1>7 DEF HeldTyped

LEMMA TakeTyped ==
    ASSUME HeldTyped, NEW p \in Procs, NEW b \in Bodies, ready[b] > 0,
           p \in Consumers => Len(held[p]) < Prefetch,
           p \in Batchers => Len(held[p]) < Limit,
           ready' = [ready EXCEPT ![b] = @ - 1],
           held' = [held EXCEPT ![p] = Append(@, b)]
    PROVE  HeldTyped'
<1>1. Append(held[p], b) \in Seq(Bodies) /\ Len(Append(held[p], b)) = Len(held[p]) + 1
  BY ItemsOfAppend DEF HeldTyped
<1>2. Len(held[p]) \in Nat
  BY LenProperties DEF HeldTyped
<1> QED
  BY <1>1, <1>2 DEF HeldTyped

LEMMA EndTyped ==
    ASSUME MainTyped, WorkTyped, OwedTyped, failed \in [Procs -> BOOLEAN],
           NEW p \in Procs, NEW unsent, End(p, unsent)
    PROVE  MainTyped' /\ WorkTyped' /\ OwedTyped' /\ failed' \in [Procs -> BOOLEAN]
<1>1. <<>> \in Seq(Bodies) /\ Len(<<>>) = 0
  OBVIOUS
<1> QED
  BY <1>1 DEF End, Goto, Places, MainTyped, WorkTyped, OwedTyped

Types == HeldTyped /\ WorkTyped /\ MainTyped /\ OwedTyped /\ RestTyped

LEMMA BatchOutput ==
    ASSUME HeldTyped, NEW h \in Batchers, BatchIsDue(h)
    PROVE  OutOfBatch[held[h]] \in Seq(Bodies)
<1>1. /\ held[h] \in Seq(Bodies) /\ held[h] # <<>>
      /\ Len(held[h]) \in 1..Limit
  <2>1. held[h] \in Seq(Bodies) /\ held[h] # <<>> /\ Len(held[h]) <= Limit
    BY DEF HeldTyped, BatchIsDue
  <2>2. Len(held[h]) \in Nat \ {0}
    BY <2>1, EmptySeq
  <2> QED
    BY <2>1, <2>2
<1>2. held[h] \in [1..Len(held[h]) -> Bodies]
  BY <1>1, LenProperties
<1>3. held[h] \in Batches
  BY <1>1, <1>2 DEF Batches
<1> QED
  BY <1>3

LEMMA TypesPreserved == Types /\ [Next]_vars => Types'
<1> SUFFICES ASSUME Types, [Next]_vars PROVE Types'
  OBVIOUS
<1> USE DEF Types
<1>F. Fault => faults' \in 0..MaxFaults
  BY DEF Fault, RestTyped
<1>1. ASSUME NEW w \in Webs, NEW b \in Bodies, AddItem(w, b)
      PROVE  Types'
  <2>1. <<b>> \in Seq(Bodies)
    OBVIOUS
  <2>2. WorkTyped' /\ OwedTyped'
    BY <1>1, <2>1, AcceptTyped DEF AddItem
  <2> QED
    BY <1>1, <2>2 DEF AddItem, HeldTyped, MainTyped, RestTyped
<1>2. ASSUME NEW p \in Procs, WorkerStep(p)
      PROVE  Types'
  <2>1. /\ Head(tasks[p]) \in Bodies /\ Tail(tasks[p]) \in Seq(Bodies)
        /\ Len(tasks[p]) \in Nat \ {0}
        /\ Len(Tail(tasks[p])) = Len(tasks[p]) - 1
    BY <1>2, ItemsOfTail DEF WorkerStep, Publish, Drop, Retry, Raise, Busy, WorkTyped
  <2>2. CASE Publish(p)
    <3>1. WorkTyped'
      BY <2>2, DoneTyped DEF Publish, Busy
    <3> QED
      BY <2>1, <2>2, <3>1 DEF Publish, HeldTyped, MainTyped, OwedTyped, RestTyped
  <2>3. CASE Drop(p)
    <3>1. WorkTyped'
      BY <2>3, DoneTyped DEF Drop, Busy
    <3> QED
      BY <2>3, <3>1, <1>F DEF Drop, HeldTyped, MainTyped, OwedTyped, RestTyped
  <2>4. CASE Retry(p)
    <3>1. /\ Append(Tail(tasks[p]), Head(tasks[p])) \in Seq(Bodies)
          /\ Len(Append(Tail(tasks[p]), Head(tasks[p]))) = Len(tasks[p])
      BY <2>1, ItemsOfAppend
    <3>2. WorkTyped'
      BY <2>4, <3>1 DEF Retry, WorkTyped
    <3> QED
      BY <2>4, <3>2, <1>F DEF Retry, HeldTyped, MainTyped, OwedTyped, RestTyped, itemVars
  <2>5. CASE Raise(p)
    <3>1. WorkTyped'
      BY <2>1, <2>5 DEF Raise, WorkTyped
    <3> QED
      BY <2>5, <3>1, <1>F DEF Raise, HeldTyped, MainTyped, OwedTyped, RestTyped
  <2> QED
    BY <1>2, <2>2, <2>3, <2>4, <2>5 DEF WorkerStep
<1>3. ASSUME NEW p \in Procs, Crash(p)
      PROVE  Types'
  <2>1. HeldTyped'
    BY <1>3, RequeueTyped DEF Crash
  <2>2. MainTyped' /\ WorkTyped' /\ OwedTyped' /\ failed' \in [Procs -> BOOLEAN]
    BY <1>3, EndTyped DEF Crash, RestTyped
  <2> QED
    BY <1>3, <2>1, <2>2, <1>F DEF Crash, RestTyped
<1>4. ASSUME NEW p \in Procs, Restart(p)
      PROVE  Types'
  BY <1>4 DEF Restart, Goto, Start, Places, HeldTyped, WorkTyped, MainTyped, OwedTyped,
              RestTyped, itemVars
<1>5. ASSUME NEW c \in Consumers, ConsumerStep(c)
      PROVE  Types'
  <2>1. ASSUME NEW b \in Bodies, Deliver(c, b) PROVE Types'
    <3>1. HeldTyped'
      BY <2>1, TakeTyped DEF Deliver
    <3> QED
      BY <2>1, <3>1 DEF Deliver, WorkTyped, MainTyped, OwedTyped, RestTyped, itemVars
  <2>2. CASE Callback(c)
    <3>1. Out[Head(held[c])] \in Seq(Bodies)
      BY <2>2, ItemsOfTail DEF Callback, HeldTyped
    <3>2. WorkTyped' /\ OwedTyped'
      BY <2>2, <3>1, AcceptTyped DEF Callback
    <3> QED
      BY <2>2, <3>2 DEF Callback, Goto, Places, HeldTyped, MainTyped, RestTyped
  <2>3. CASE CallbackFails(c)
    <3>1. PICK n \in 0..Len(Out[Head(held[c])]) :
              Accept(c, SubSeq(Out[Head(held[c])], 1, n), {})
      BY <2>3 DEF CallbackFails
    <3>2. SubSeq(Out[Head(held[c])], 1, n) \in Seq(Bodies)
      BY <2>3, ItemsOfTail, PrefixOfItems DEF CallbackFails, HeldTyped
    <3>3. WorkTyped' /\ OwedTyped'
      BY <3>1, <3>2, AcceptTyped
    <3> QED
      BY <2>3, <3>3, <1>F DEF CallbackFails, Goto, Places, HeldTyped, MainTyped, RestTyped
  <2>4. CASE Ack(c)
    <3>1. HeldTyped'
      <4>1. CASE held[c] # <<>>
        <5>1. Tail(held[c]) \in Seq(Bodies) /\ Len(Tail(held[c])) = Len(held[c]) - 1
          BY <4>1, ItemsOfTail DEF HeldTyped
        <5> QED
          BY <2>4, <5>1 DEF Ack, HeldTyped
      <4>2. CASE held[c] = <<>>
        BY <2>4, <4>2 DEF Ack, HeldTyped
      <4> QED
        BY <4>1, <4>2
    <3> QED
      BY <2>4, <3>1 DEF Ack, Goto, Places, WorkTyped, MainTyped, OwedTyped, RestTyped, itemVars
  <2>5. CASE Interrupt(c)
    BY <2>5, <1>F DEF Interrupt, Goto, Places, HeldTyped, WorkTyped, MainTyped, OwedTyped,
                      RestTyped, itemVars
  <2>6. CASE Cut(c)
    <3>1. HeldTyped'
      BY <2>6, RequeueTyped DEF Cut
    <3> QED
      BY <2>6, <3>1, <1>F DEF Cut, Goto, Places, WorkTyped, MainTyped, OwedTyped, RestTyped,
                             itemVars
  <2>7. CASE Close(c)
    <3>1. HeldTyped'
      BY <2>7, RequeueTyped DEF Close
    <3>2. MainTyped' /\ WorkTyped' /\ OwedTyped' /\ failed' \in [Procs -> BOOLEAN]
      BY <2>7, EndTyped DEF Close, RestTyped
    <3> QED
      BY <2>7, <3>1, <3>2 DEF Close, RestTyped
  <2> QED
    BY <1>5, <2>1, <2>2, <2>3, <2>4, <2>5, <2>6, <2>7 DEF ConsumerStep
<1>G. ASSUME NEW p \in Batchers \cup Dedupers, NEW b \in Bodies, Get(p, b)
      PROVE  Types'
  <2>1. HeldTyped'
    BY <1>G, TakeTyped DEF Get
  <2> QED
    BY <1>G, <2>1 DEF Get, WorkTyped, MainTyped, OwedTyped, RestTyped, itemVars
<1>6. ASSUME NEW h \in Batchers, BatcherStep(h)
      PROVE  Types'
  <2>1. CASE CallBatch(h)
    <3>1. WorkTyped' /\ OwedTyped'
      BY <2>1, BatchOutput, AcceptTyped DEF CallBatch
    <3> QED
      BY <2>1, <3>1 DEF CallBatch, Goto, Places, HeldTyped, MainTyped, RestTyped
  <2>2. CASE AckBatch(h)
    <3>1. <<>> \in Seq(Bodies) /\ Len(<<>>) = 0
      OBVIOUS
    <3> QED
      BY <2>2, <3>1 DEF AckBatch, Goto, Places, HeldTyped, WorkTyped, MainTyped, OwedTyped,
                        RestTyped, itemVars
  <2>3. CASE BatchFails(h)
    <3>1. PICK n \in 0..Len(OutOfBatch[held[h]]) :
              Accept(h, SubSeq(OutOfBatch[held[h]], 1, n), {})
      BY <2>3 DEF BatchFails
    <3>2. SubSeq(OutOfBatch[held[h]], 1, n) \in Seq(Bodies)
      BY <2>3, BatchOutput, PrefixOfItems DEF BatchFails
    <3>3. WorkTyped' /\ OwedTyped'
      BY <3>1, <3>2, AcceptTyped
    <3>4. HeldTyped'
      BY <2>3, RequeueTyped DEF BatchFails
    <3> QED
      BY <2>3, <3>3, <3>4, <1>F DEF BatchFails, Goto, Places, MainTyped, RestTyped
  <2>4. CASE Die(h)
    <3>1. MainTyped' /\ WorkTyped' /\ OwedTyped' /\ failed' \in [Procs -> BOOLEAN]
      BY <2>4, EndTyped DEF Die, RestTyped
    <3> QED
      BY <2>4, <3>1 DEF Die, HeldTyped, RestTyped
  <2> QED
    BY <1>6, <1>G, <2>1, <2>2, <2>3, <2>4 DEF BatcherStep
<1>7. ASSUME NEW d \in Dedupers, DeduperStep(d)
      PROVE  Types'
  <2>1. CASE StopGetting(d)
    <3>1. Items(held[d]) \subseteq Bodies
      BY ItemsAreBodies DEF HeldTyped
    <3> QED
      BY <2>1, <3>1 DEF StopGetting, Goto, Places, HeldTyped, WorkTyped, MainTyped, OwedTyped,
                        RestTyped, itemVars
  <2>2. ASSUME NEW b \in Bodies, AddAgain(d, b) PROVE Types'
    BY <2>2 DEF AddAgain, HeldTyped, WorkTyped, MainTyped, OwedTyped, RestTyped, itemVars
  <2>3. ASSUME NEW b \in Bodies, AddAgainLater(d, b) PROVE Types'
    <3>1. <<b>> \in Seq(Bodies)
      OBVIOUS
    <3>2. WorkTyped' /\ HeldTyped'
      BY <2>3, <3>1, PutTyped, RequeueTyped DEF AddAgainLater
    <3> QED
      BY <2>3, <3>2, <1>F DEF AddAgainLater, MainTyped, OwedTyped, RestTyped, itemVars
  <2>4. CASE AckAll(d)
    <3>1. <<>> \in Seq(Bodies) /\ Len(<<>>) = 0
      OBVIOUS
    <3>2. MainTyped' /\ WorkTyped' /\ OwedTyped' /\ failed' \in [Procs -> BOOLEAN]
      BY <2>4, EndTyped DEF AckAll, RestTyped
    <3> QED
      BY <2>4, <3>1, <3>2 DEF AckAll, HeldTyped, RestTyped
  <2> QED
    BY <1>7, <1>G, <2>1, <2>2, <2>3, <2>4 DEF DeduperStep
<1>8. CASE UNCHANGED vars
  BY <1>8 DEF vars, procVars, itemVars, HeldTyped, WorkTyped, MainTyped, OwedTyped, RestTyped
<1> QED
  BY <1>1, <1>2, <1>3, <1>4, <1>5, <1>6, <1>7, <1>8 DEF Next

\* Every variable keeps its type; no consumer holds more than its prefetch count and no
\* batcher more than its limit; and no worker has more tasks than join() waits
\* for (amqp.py:61-79, 208-221, 284-298).
THEOREM Typing == Spec => [](TypeOK /\ TasksCounted)
<1>1. Init => Types
  <2>1. <<>> \in Seq(Bodies) /\ Len(<<>>) = 0
    OBVIOUS
  <2> QED
    BY <2>1 DEF Init, Start, Places, Types, HeldTyped, WorkTyped, MainTyped, OwedTyped, RestTyped
<1>2. Types => TypeOK /\ TasksCounted
  BY TypeParts DEF Types
<1> QED
  BY <1>1, <1>2, TypesPreserved, PTL DEF Spec

-----------------------------------------------------------------------------
(* Where main threads are, and what they hold there.                        *)

\* No step of a kind of process leads to a place of another, and whoever
\* leaves its channel leaves nothing on it.
LEMMA PlacesPreserved == Types /\ Kinds /\ Quiet /\ [Next]_vars => Kinds' /\ Quiet'
<1> SUFFICES ASSUME Types, Kinds, Quiet, [Next]_vars PROVE Kinds' /\ Quiet'
  OBVIOUS
<1> USE DEF Kinds, Quiet, Types, HeldTyped, MainTyped, Goto
<1>1. ASSUME NEW w \in Webs, NEW b \in Bodies, AddItem(w, b)
      PROVE  Kinds' /\ Quiet'
  BY <1>1 DEF AddItem
<1>2. ASSUME NEW p \in Procs, WorkerStep(p)
      PROVE  Kinds' /\ Quiet'
  BY <1>2 DEF WorkerStep, Publish, Drop, Retry, Raise
<1>3. ASSUME NEW p \in Procs, Crash(p)
      PROVE  Kinds' /\ Quiet'
  BY <1>3 DEF Crash, End, Requeue
<1>4. ASSUME NEW p \in Procs, Restart(p)
      PROVE  Kinds' /\ Quiet'
  BY <1>4 DEF Restart, Start
<1>5. ASSUME NEW c \in Consumers, ConsumerStep(c)
      PROVE  Kinds' /\ Quiet'
  <2>1. ASSUME NEW b \in Bodies, Deliver(c, b) PROVE Kinds' /\ Quiet'
    <3>1. Append(held[c], b) # <<>>
      BY ItemsOfAppend
    <3> QED
      BY <2>1, <3>1 DEF Deliver, Open
  <2>2. CASE Callback(c) \/ CallbackFails(c) \/ Interrupt(c)
    BY <2>2 DEF Callback, CallbackFails, Interrupt
  <2>3. CASE Ack(c)
    BY <2>3 DEF Ack
  <2>4. CASE Cut(c)
    BY <2>4 DEF Cut, Requeue
  <2>5. CASE Close(c)
    BY <2>5 DEF Close, Requeue, End
  <2> QED
    BY <1>5, <2>1, <2>2, <2>3, <2>4, <2>5 DEF ConsumerStep
<1>G. ASSUME NEW p \in Batchers \cup Dedupers, NEW b \in Bodies, Get(p, b)
      PROVE  Kinds' /\ Quiet'
  BY <1>G DEF Get
<1>6. ASSUME NEW h \in Batchers, BatcherStep(h)
      PROVE  Kinds' /\ Quiet'
  <2>1. CASE CallBatch(h)
    BY <2>1 DEF CallBatch, BatchIsDue
  <2>2. CASE AckBatch(h)
    BY <2>2 DEF AckBatch
  <2>3. CASE BatchFails(h)
    BY <2>3 DEF BatchFails, BatchIsDue, Requeue
  <2>4. CASE Die(h)
    BY <2>4 DEF Die, End
  <2> QED
    BY <1>6, <1>G, <2>1, <2>2, <2>3, <2>4 DEF BatcherStep
<1>7. ASSUME NEW d \in Dedupers, DeduperStep(d)
      PROVE  Kinds' /\ Quiet'
  <2>1. ASSUME NEW b \in Bodies, AddAgain(d, b) PROVE Kinds' /\ Quiet'
    BY <2>1 DEF AddAgain
  <2>2. ASSUME NEW b \in Bodies, AddAgainLater(d, b) PROVE Kinds' /\ Quiet'
    BY <2>2 DEF AddAgainLater, Requeue
  <2>3. CASE StopGetting(d)
    BY <2>3 DEF StopGetting
  <2>4. CASE AckAll(d)
    BY <2>4 DEF AckAll, End
  <2> QED
    BY <1>7, <1>G, <2>1, <2>2, <2>3, <2>4 DEF DeduperStep
<1>8. CASE UNCHANGED vars
  BY <1>8 DEF vars, procVars
<1> QED
  BY <1>1, <1>2, <1>3, <1>4, <1>5, <1>6, <1>7, <1>8 DEF Next

\* What a process keeps, for each kind of process.
LEMMA KeptOf ==
    /\ \A w \in Webs :
          Kept(w) = Items(held[w]) /\ Kept(w)' = Items(held'[w])
    /\ \A c \in Consumers :
          /\ Kept(c) = IF at[c] = "acking" THEN Items(Tail(held[c])) ELSE Items(held[c])
          /\ Kept(c)' = IF at'[c] = "acking" THEN Items(Tail(held'[c])) ELSE Items(held'[c])
    /\ \A h \in Batchers :
          /\ Kept(h) = IF at[h] = "acking" THEN {} ELSE Items(held[h])
          /\ Kept(h)' = IF at'[h] = "acking" THEN {} ELSE Items(held'[h])
    /\ \A d \in Dedupers :
          /\ Kept(d) = Items(held[d]) \cap (IF at[d] = "add" THEN todo[d] ELSE Items(held[d]))
          /\ Kept(d)' = Items(held'[d]) \cap (IF at'[d] = "add" THEN todo'[d] ELSE Items(held'[d]))
  BY DEF Kept, Undecided

LEMMA KeptIsHeld ==
    ASSUME Types, Quiet, NEW p \in Procs
    PROVE  Kept(p) \subseteq Items(held[p])
<1>1. CASE p \in Consumers /\ at[p] = "acking"
  <2>1. Items(Tail(held[p])) \subseteq Items(held[p])
    BY <1>1, ItemsOfTail DEF Quiet, Types, HeldTyped
  <2> QED
    BY <1>1, <2>1, KeptOf
<1>2. CASE ~(p \in Consumers /\ at[p] = "acking")
  BY <1>2, KeptOf
<1> QED
  BY <1>1, <1>2

-----------------------------------------------------------------------------
(* At least once.                                                           *)

\* What a step of p has to show for an item: the others keep what they have.
LEMMA Elsewhere ==
    ASSUME NEW p \in Procs, NEW b, Somewhere(b),
           \A q \in Procs \ {p} : /\ at'[q] = at[q] /\ held'[q] = held[q]
                                  /\ todo'[q] = todo[q] /\ tasks'[q] = tasks[q],
           ready[b] > 0 => Somewhere(b)',
           b \in Unsent(p) \cup Kept(p) => Somewhere(b)'
    PROVE  Somewhere(b)'
<1>1. CASE ready[b] > 0 \/ b \in Unsent(p) \cup Kept(p)
  BY <1>1
<1>2. ASSUME NEW q \in Procs \ {p}, b \in Unsent(q) \cup Kept(q)
      PROVE  Somewhere(b)'
  <2>1. Unsent(q)' = Unsent(q) /\ Kept(q)' = Kept(q)
    BY DEF Unsent, Queued, Kept, Undecided
  <2> QED
    BY <1>2, <2>1 DEF Somewhere
<1> QED
  BY <1>1, <1>2 DEF Somewhere

\* What a callback or a request adds is on its worker's queue; what it has
\* handled is no longer owed.
LEMMA AcceptedIsUnsent ==
    ASSUME Types, NEW p \in Procs \ Dedupers, NEW bs \in Seq(Bodies), NEW done,
           Accept(p, bs, done)
    PROVE  /\ Unsent(p) \subseteq Unsent(p)'
           /\ \A q \in Procs \ {p} : tasks'[q] = tasks[q]
           /\ \A b \in owed' \ lost' :
                 b \in Unsent(p)' \/ (b \in owed \ lost /\ b \notin done)
<1>1. Put(p, bs) /\ WorkTyped
  BY DEF Accept, Types
<1>2. /\ tasks'[p] = tasks[p] \o bs
      /\ \A q \in Procs \ {p} : tasks'[q] = tasks[q]
  BY <1>1, PutTyped
<1>3. Items(tasks'[p]) = Items(tasks[p]) \cup Items(bs)
  BY <1>2, ItemsOfConcat DEF Types, WorkTyped
<1>4. Unsent(p) = Items(tasks[p]) /\ Unsent(p)' = Items(tasks'[p])
  BY DEF Unsent, Queued
<1> QED
  BY <1>2, <1>3, <1>4 DEF Accept

\* A process that gives back what it holds does not forget it.
LEMMA GivenBack ==
    ASSUME Types, Quiet, NEW p \in Procs, Requeue(p), NEW b \in Bodies, Somewhere(b),
           b \in Unsent(p) => b \in Unsent(p)',
           \A q \in Procs \ {p} : /\ at'[q] = at[q] /\ todo'[q] = todo[q]
                                  /\ tasks'[q] = tasks[q]
    PROVE  Somewhere(b)'
<1>1. /\ \A q \in Procs \ {p} : held'[q] = held[q]
      /\ \A x \in Bodies : ready'[x] >= ready[x] /\ ready[x] \in Nat /\ ready'[x] \in Nat
      /\ \A x \in Items(held[p]) : x \in Bodies /\ ready'[x] > 0
  BY RequeueTyped DEF Types, HeldTyped
<1>2. ready[b] > 0 => Somewhere(b)'
  BY <1>1 DEF Somewhere
<1>3. b \in Kept(p) => Somewhere(b)'
  BY <1>1, KeptIsHeld DEF Somewhere
<1>4. b \in Unsent(p) => Somewhere(b)'
  BY DEF Somewhere
<1> QED
  BY <1>1, <1>2, <1>3, <1>4, Elsewhere

LEMMA OwedPreserved ==
    Types /\ Kinds /\ Quiet /\ OwedIsSomewhere /\ [Next]_vars => OwedIsSomewhere'
<1> SUFFICES ASSUME Types, Kinds, Quiet, OwedIsSomewhere, [Next]_vars,
                    NEW b \in owed' \ lost'
             PROVE  Somewhere(b)'
  BY DEF OwedIsSomewhere
<1>T. /\ at \in [Procs -> Places] /\ held \in [Procs -> Seq(Bodies)]
      /\ todo \in [Procs -> SUBSET Bodies] /\ tasks \in [Procs -> Seq(Bodies)]
      /\ undone \in [Procs -> Nat] /\ ready \in [Bodies -> Nat]
      /\ owed \subseteq Bodies /\ lost \subseteq owed
  BY DEF Types, HeldTyped, WorkTyped, MainTyped, OwedTyped
<1>T1. b \in Bodies
  BY TypesPreserved DEF Types, OwedTyped
<1>U. \A p \in Procs :
          /\ Unsent(p) = IF p \in Dedupers THEN {} ELSE Items(tasks[p])
          /\ Unsent(p)' = IF p \in Dedupers THEN {} ELSE Items(tasks'[p])
  BY DEF Unsent, Queued
<1>S. /\ \A p \in Procs : b \in Unsent(p)' \cup Kept(p)' => Somewhere(b)'
      /\ ready'[b] > 0 => Somewhere(b)'
  BY DEF Somewhere
<1>1. ASSUME NEW w \in Webs, NEW x \in Bodies, AddItem(w, x)
      PROVE  Somewhere(b)'
  <2>1. <<x>> \in Seq(Bodies)
    OBVIOUS
  <2>2. /\ Unsent(w) \subseteq Unsent(w)'
        /\ \A q \in Procs \ {w} : tasks'[q] = tasks[q]
        /\ b \in Unsent(w)' \/ b \in owed \ lost
    BY <1>1, <2>1, AcceptedIsUnsent DEF AddItem
  <2>3. CASE b \in owed \ lost
    <3>1. Somewhere(b)
      BY <2>3 DEF OwedIsSomewhere
    <3>2. Kept(w)' = Kept(w)
      BY <1>1, KeptOf DEF AddItem
    <3> QED
      BY <1>1, <2>2, <3>1, <3>2, <1>S, Elsewhere DEF AddItem
  <2> QED
    BY <2>2, <2>3, <1>S
<1>2. ASSUME NEW p \in Procs, WorkerStep(p)
      PROVE  Somewhere(b)'
  <2>1. tasks[p] # <<>> /\ tasks[p] \in Seq(Bodies)
    BY <1>2, <1>T DEF WorkerStep, Publish, Drop, Retry, Raise, Busy
  <2>2. /\ Head(tasks[p]) \in Bodies /\ Tail(tasks[p]) \in Seq(Bodies)
        /\ Items(tasks[p]) = {Head(tasks[p])} \cup Items(Tail(tasks[p]))
    BY <2>1, ItemsOfTail
  <2>3. /\ at' = at /\ held' = held /\ todo' = todo
        /\ \A q \in Procs \ {p} : tasks'[q] = tasks[q]
        /\ ready'[b] >= ready[b] /\ ready'[b] \in Nat
        /\ b \in owed \ lost
    <3>1. /\ at' = at /\ held' = held /\ todo' = todo
          /\ \A q \in Procs \ {p} : tasks'[q] = tasks[q]
      BY <1>2, <1>T DEF WorkerStep, Publish, Drop, Retry, Raise, TaskDone
    <3>2. ready' = ready \/ ready' = [ready EXCEPT ![Head(tasks[p])] = @ + 1]
      BY <1>2 DEF WorkerStep, Publish, Drop, Retry, Raise
    <3>3. ready'[b] >= ready[b] /\ ready'[b] \in Nat
      <4>1. ready[b] \in Nat
        BY <1>T, <1>T1
      <4>2. ready'[b] = ready[b] \/ ready'[b] = ready[b] + 1
        BY <1>T, <1>T1, <2>2, <3>2
      <4> QED
        BY <4>1, <4>2
    <3>4. owed' = owed /\ lost \subseteq lost'
      BY <1>2 DEF WorkerStep, Publish, Drop, Retry, Raise, itemVars
    <3> QED
      BY <3>1, <3>3, <3>4
  <2>4. Somewhere(b) /\ Kept(p)' = Kept(p)
    BY <2>3, KeptOf DEF OwedIsSomewhere, Kept, Undecided
  <2>5. CASE b = Head(tasks[p]) /\ Publish(p)
    BY <2>2, <2>5, <1>T, <1>S DEF Publish
  <2>6. ASSUME ~(b = Head(tasks[p]) /\ Publish(p))
        PROVE  b \in Unsent(p) => b \in Unsent(p)'
    <3>1. CASE Retry(p)
      <4>1. tasks'[p] = Append(Tail(tasks[p]), Head(tasks[p]))
        BY <3>1, <1>T DEF Retry
      <4>2. Items(Append(Tail(tasks[p]), Head(tasks[p]))) =
                Items(Tail(tasks[p])) \cup {Head(tasks[p])}
        BY <2>2, ItemsOfAppend
      <4>3. Items(tasks'[p]) = Items(tasks[p])
        BY <2>2, <4>1, <4>2
      <4> QED
        BY <4>3, <1>U
    <3>2. CASE Publish(p) \/ Drop(p) \/ Raise(p)
      <4>1. tasks'[p] = Tail(tasks[p]) /\ b # Head(tasks[p])
        BY <2>3, <2>6, <3>2, <1>T DEF Publish, Drop, Raise, TaskDone
      <4> QED
        BY <2>2, <4>1, <1>U
    <3> QED
      BY <1>2, <3>1, <3>2 DEF WorkerStep
  <2>7. ready[b] > 0 => ready'[b] > 0
    BY <2>3, <1>T, <1>T1
  <2> QED
    BY <2>3, <2>4, <2>5, <2>6, <2>7, <1>S, Elsewhere
<1>3. ASSUME NEW p \in Procs, Crash(p)
      PROVE  Somewhere(b)'
  <2>1. /\ b \in owed \ lost /\ b \notin Unsent(p) /\ Requeue(p)
        /\ \A q \in Procs \ {p} : /\ at'[q] = at[q] /\ todo'[q] = todo[q]
                                  /\ tasks'[q] = tasks[q]
    BY <1>3, <1>T, <1>U DEF Crash, End, Goto, Queued
  <2>2. Somewhere(b)
    BY <2>1 DEF OwedIsSomewhere
  <2> QED
    BY <2>1, <2>2, <1>T1, GivenBack
<1>4. ASSUME NEW p \in Procs, Restart(p)
      PROVE  Somewhere(b)'
  <2>1. /\ held' = held /\ todo' = todo /\ tasks' = tasks /\ ready' = ready
        /\ b \in owed \ lost
        /\ \A q \in Procs \ {p} : at'[q] = at[q]
    BY <1>4, <1>T DEF Restart, Goto, itemVars
  <2>2. Somewhere(b)
    BY <2>1 DEF OwedIsSomewhere
  <2>3. held[p] = <<>>
    BY <1>4 DEF Restart, Quiet
  <2>4. Kept(p) = {}
    BY <2>3, KeptIsHeld, ItemsOfEmpty
  <2> QED
    BY <2>1, <2>2, <2>4, <1>S, <1>U, Elsewhere
<1>5. ASSUME NEW c \in Consumers, ConsumerStep(c)
      PROVE  Somewhere(b)'
  <2>T. held[c] \in Seq(Bodies) /\ c \in Procs \ Dedupers
    BY <1>T
  <2>1. ASSUME NEW x \in Bodies, Deliver(c, x) PROVE Somewhere(b)'
    <3>1. /\ at' = at /\ todo' = todo /\ tasks' = tasks /\ b \in owed \ lost
          /\ held'[c] = Append(held[c], x)
          /\ \A q \in Procs \ {c} : held'[q] = held[q]
          /\ b # x => ready'[b] = ready[b]
      BY <2>1, <1>T, <1>T1 DEF Deliver, itemVars
    <3>2. Items(held'[c]) = Items(held[c]) \cup {x}
      BY <3>1, <2>T, ItemsOfAppend
    <3>3. x \in Kept(c)' /\ Kept(c) \subseteq Kept(c)'
      <4>1. CASE at[c] = "acking"
        <5>1. held[c] # <<>>
          BY <4>1 DEF Quiet
        <5>2. Tail(held'[c]) = Append(Tail(held[c]), x)
          BY <2>T, <3>1, <5>1, HeadTailAppend
        <5>3. Items(Tail(held'[c])) = Items(Tail(held[c])) \cup {x}
          BY <2>T, <5>1, <5>2, ItemsOfTail, ItemsOfAppend
        <5>4. Kept(c) = Items(Tail(held[c])) /\ Kept(c)' = Items(Tail(held'[c]))
          BY <3>1, <4>1, KeptOf
        <5> QED
          BY <5>3, <5>4
      <4>2. CASE at[c] # "acking"
        <5>1. Kept(c) = Items(held[c]) /\ Kept(c)' = Items(held'[c])
          BY <3>1, <4>2, KeptOf
        <5> QED
          BY <3>2, <5>1
      <4> QED
        BY <4>1, <4>2
    <3>4. Somewhere(b)
      BY <3>1 DEF OwedIsSomewhere
    <3>5. ready[b] > 0 => Somewhere(b)'
      BY <3>1, <3>3, <1>S, <2>T
    <3> QED
      BY <3>1, <3>3, <3>4, <3>5, <1>S, <1>U, <2>T, Elsewhere
  <2>2. ASSUME NEW bs \in Seq(Bodies), NEW done, Accept(c, bs, done),
               done \cap Kept(c) = {} => Kept(c) \subseteq Kept(c)',
               b \in Kept(c) => b \in done \cup Kept(c)',
               \A q \in Procs \ {c} : at'[q] = at[q],
               held' = held, todo' = todo, ready' = ready
        PROVE  Somewhere(b)'
    <3>1. /\ Unsent(c) \subseteq Unsent(c)'
          /\ \A q \in Procs \ {c} : tasks'[q] = tasks[q]
          /\ b \in Unsent(c)' \/ (b \in owed \ lost /\ b \notin done)
      BY <2>2, <2>T, AcceptedIsUnsent
    <3>2. CASE b \in owed \ lost /\ b \notin done
      <4>1. Somewhere(b)
        BY <3>2 DEF OwedIsSomewhere
      <4> QED
        BY <2>2, <3>1, <3>2, <4>1, <1>S, <2>T, Elsewhere
    <3> QED
      BY <3>1, <3>2, <1>S, <2>T
  <2>3. CASE Callback(c)
    <3>1. /\ held[c] # <<>> /\ at[c] = "wait" /\ at'[c] = "acking" /\ held' = held
      BY <2>3, <1>T DEF Callback, Goto
    <3>2. /\ Items(held[c]) = {Head(held[c])} \cup Items(Tail(held[c]))
          /\ Out[Head(held[c])] \in Seq(Bodies)
      BY <2>T, <3>1, ItemsOfTail
    <3>3. b \in Kept(c) => b \in {Head(held[c])} \cup Kept(c)'
      BY <3>1, <3>2, KeptOf
    <3>4. {Head(held[c])} \cap Kept(c) = {} => Kept(c) \subseteq Kept(c)'
      BY <3>1, <3>2, KeptOf
    <3> QED
      BY <2>2, <2>3, <3>2, <3>3, <3>4, <1>T DEF Callback, Goto
  <2>4. CASE CallbackFails(c)
    <3>1. PICK n \in 0..Len(Out[Head(held[c])]) :
              Accept(c, SubSeq(Out[Head(held[c])], 1, n), {})
      BY <2>4 DEF CallbackFails
    <3>2. SubSeq(Out[Head(held[c])], 1, n) \in Seq(Bodies)
      BY <2>4, <2>T, ItemsOfTail, PrefixOfItems DEF CallbackFails
    <3>3. Kept(c) \subseteq Kept(c)'
      BY <2>4, <1>T, KeptOf DEF CallbackFails, Goto
    <3> QED
      BY <2>2, <2>4, <3>1, <3>2, <3>3, <1>T DEF CallbackFails, Goto
  <2>5. CASE Ack(c) \/ Interrupt(c)
    <3>1. /\ todo' = todo /\ tasks' = tasks /\ ready' = ready /\ b \in owed \ lost
          /\ \A q \in Procs \ {c} : at'[q] = at[q] /\ held'[q] = held[q]
      BY <2>5, <1>T DEF Ack, Interrupt, Goto, itemVars
    <3>2. Somewhere(b)
      BY <3>1 DEF OwedIsSomewhere
    <3>3. Kept(c) \subseteq Kept(c)'
      <4>1. CASE Ack(c)
        BY <4>1, <1>T, KeptOf DEF Ack, Goto
      <4>2. CASE Interrupt(c)
        <5>1. at'[c] = "join" /\ held' = held
          BY <4>2, <1>T DEF Interrupt, Goto
        <5> QED
          BY <5>1, KeptOf, KeptIsHeld
      <4> QED
        BY <2>5, <4>1, <4>2
    <3> QED
      BY <3>1, <3>2, <3>3, <1>S, <1>U, <2>T, Elsewhere
  <2>6. CASE Cut(c) \/ Close(c)
    <3>1. /\ b \in owed \ lost /\ Requeue(c)
          /\ \A q \in Procs \ {c} : /\ at'[q] = at[q] /\ todo'[q] = todo[q]
                                    /\ tasks'[q] = tasks[q]
      BY <2>6, <1>T DEF Cut, Close, End, Goto, itemVars
    <3>2. b \in Unsent(c) => b \in Unsent(c)'
      <4>1. CASE Cut(c)
        BY <4>1, <1>U DEF Cut
      <4>2. CASE Close(c)
        <5>1. undone[c] = 0 /\ Len(tasks[c]) \in Nat /\ Len(tasks[c]) <= undone[c]
          BY <4>2, <1>T, LenProperties DEF Close, Joined, Types, WorkTyped
        <5>2. tasks[c] = <<>>
          BY <5>1, <1>T, EmptySeq
        <5> QED
          BY <5>2, <1>U, ItemsOfEmpty
      <4> QED
        BY <2>6, <4>1, <4>2
    <3>3. Somewhere(b)
      BY <3>1 DEF OwedIsSomewhere
    <3> QED
      BY <3>1, <3>2, <3>3, <1>T1, <2>T, GivenBack
  <2> QED
    BY <1>5, <2>1, <2>3, <2>4, <2>5, <2>6 DEF ConsumerStep
<1>G. ASSUME NEW p \in Batchers \cup Dedupers, NEW x \in Bodies, Get(p, x)
      PROVE  Somewhere(b)'
  <2>1. /\ at' = at /\ todo' = todo /\ tasks' = tasks /\ b \in owed \ lost
        /\ held'[p] = Append(held[p], x) /\ held[p] \in Seq(Bodies) /\ p \in Procs
        /\ \A q \in Procs \ {p} : held'[q] = held[q]
        /\ b # x => ready'[b] = ready[b]
    BY <1>G, <1>T, <1>T1 DEF Get, itemVars
  <2>2. Items(held'[p]) = Items(held[p]) \cup {x}
    BY <2>1, ItemsOfAppend
  <2>3. Kept(p) = Items(held[p]) /\ Kept(p)' = Items(held'[p])
    <3>1. at[p] = "get" /\ at'[p] = "get"
      BY <1>G, <2>1 DEF Get
    <3>2. CASE p \in Batchers
      BY <3>1, <3>2, KeptOf
    <3>3. CASE p \in Dedupers
      <4>1. /\ Kept(p) = Items(held[p]) \cap Items(held[p])
            /\ Kept(p)' = Items(held'[p]) \cap Items(held'[p])
        BY <3>1, <3>3, KeptOf
      <4> QED
        BY <4>1
    <3> QED
      BY <3>2, <3>3
  <2>4. Somewhere(b)
    BY <2>1 DEF OwedIsSomewhere
  <2>5. ready[b] > 0 => Somewhere(b)'
    <3>1. b = x => b \in Kept(p)'
      BY <2>2, <2>3
    <3> QED
      BY <2>1, <3>1, <1>S
  <2>6. b \in Unsent(p) \cup Kept(p) => Somewhere(b)'
    <3>1. Unsent(p)' = Unsent(p)
      BY <2>1 DEF Unsent, Queued
    <3>2. Kept(p) \subseteq Kept(p)'
      BY <2>2, <2>3
    <3> QED
      BY <2>1, <3>1, <3>2, <1>S
  <2> QED
    BY <2>1, <2>4, <2>5, <2>6, Elsewhere
<1>6. ASSUME NEW h \in Batchers, BatcherStep(h)
      PROVE  Somewhere(b)'
  <2>T. held[h] \in Seq(Bodies) /\ h \in Procs \ Dedupers
    BY <1>T
  <2>1. CASE CallBatch(h)
    <3>1. /\ Accept(h, OutOfBatch[held[h]], Items(held[h])) /\ BatchIsDue(h)
          /\ held' = held /\ todo' = todo /\ ready' = ready
          /\ \A q \in Procs \ {h} : at'[q] = at[q]
      BY <2>1, <1>T DEF CallBatch, Goto
    <3>2. /\ Unsent(h) \subseteq Unsent(h)'
          /\ \A q \in Procs \ {h} : tasks'[q] = tasks[q]
          /\ b \in Unsent(h)' \/ (b \in owed \ lost /\ b \notin Items(held[h]))
      BY <3>1, <2>T, BatchOutput, AcceptedIsUnsent DEF Types
    <3>3. CASE b \in owed \ lost /\ b \notin Items(held[h])
      <4>1. Somewhere(b)
        BY <3>3 DEF OwedIsSomewhere
      <4>2. b \notin Kept(h)
        BY <3>3, <2>T, KeptIsHeld
      <4> QED
        BY <3>1, <3>2, <4>1, <4>2, <1>S, <2>T, Elsewhere
    <3> QED
      BY <3>2, <3>3, <1>S, <2>T
  <2>2. CASE AckBatch(h)
    <3>1. /\ todo' = todo /\ tasks' = tasks /\ ready' = ready /\ b \in owed \ lost
          /\ \A q \in Procs \ {h} : at'[q] = at[q] /\ held'[q] = held[q]
      BY <2>2, <1>T DEF AckBatch, Goto, itemVars
    <3>2. Somewhere(b)
      BY <3>1 DEF OwedIsSomewhere
    <3>3. Kept(h) = {}
      BY <2>2, KeptOf DEF AckBatch
    <3> QED
      BY <3>1, <3>2, <3>3, <1>S, <1>U, <2>T, Elsewhere
  <2>3. CASE BatchFails(h)
    <3>1. PICK n \in 0..Len(OutOfBatch[held[h]]) :
              Accept(h, SubSeq(OutOfBatch[held[h]], 1, n), {})
      BY <2>3 DEF BatchFails
    <3>2. SubSeq(OutOfBatch[held[h]], 1, n) \in Seq(Bodies)
      BY <2>3, BatchOutput, PrefixOfItems DEF BatchFails, Types
    <3>3. /\ Unsent(h) \subseteq Unsent(h)'
          /\ \A q \in Procs \ {h} : tasks'[q] = tasks[q]
          /\ b \in Unsent(h)' \/ b \in owed \ lost
      BY <3>1, <3>2, <2>T, AcceptedIsUnsent
    <3>4. CASE b \in owed \ lost
      <4>1. Somewhere(b)
        BY <3>4 DEF OwedIsSomewhere
      <4>2. Requeue(h) /\ todo' = todo /\ \A q \in Procs \ {h} : at'[q] = at[q]
        BY <2>3, <1>T DEF BatchFails, Goto
      <4> QED
        BY <3>3, <4>1, <4>2, <1>T1, <2>T, GivenBack
    <3> QED
      BY <3>3, <3>4, <1>S, <2>T
  <2>4. CASE Die(h)
    <3>1. /\ ready' = ready /\ held' = held /\ b \in owed \ lost /\ b \notin Queued(h)
          /\ \A q \in Procs \ {h} : /\ at'[q] = at[q] /\ todo'[q] = todo[q]
                                    /\ tasks'[q] = tasks[q]
      BY <2>4, <1>T DEF Die, End, Goto
    <3>2. Somewhere(b)
      BY <3>1 DEF OwedIsSomewhere
    <3>3. Kept(h) = {}
      <4>1. held[h] = <<>>
        BY <2>4, <2>T DEF Die, Quiet
      <4> QED
        BY <4>1, <2>T, KeptIsHeld, ItemsOfEmpty
    <3>4. b \notin Unsent(h)
      BY <3>1 DEF Unsent
    <3> QED
      BY <3>1, <3>2, <3>3, <3>4, <1>S, <2>T, Elsewhere
  <2> QED
    BY <1>6, <1>G, <2>1, <2>2, <2>3, <2>4 DEF BatcherStep
<1>7. ASSUME NEW d \in Dedupers, DeduperStep(d)
      PROVE  Somewhere(b)'
  <2>0. /\ \/ \E x \in Bodies : Get(d, x)
           \/ StopGetting(d) \/ AckAll(d)
           \/ \E x \in Bodies : AddAgain(d, x) \/ AddAgainLater(d, x)
        /\ d \in Procs
    BY <1>7 DEF DeduperStep
  <2>1. CASE \E x \in Bodies : Get(d, x)
    BY <2>1, <1>G
  <2>2. ASSUME ~\E x \in Bodies : Get(d, x)
        PROVE  /\ b \in owed \ lost /\ Somewhere(b)
               /\ Unsent(d) = {}
               /\ \A q \in Procs \ {d} :
                     /\ at'[q] = at[q] /\ todo'[q] = todo[q] /\ tasks'[q] = tasks[q]
                     /\ held'[q] = held[q]
    <3>1. b \in owed \ lost
      BY <2>0, <2>2, <1>T DEF StopGetting, AckAll, AddAgain, AddAgainLater, End, itemVars
    <3>2. \A q \in Procs \ {d} :
              /\ at'[q] = at[q] /\ todo'[q] = todo[q] /\ tasks'[q] = tasks[q]
              /\ held'[q] = held[q]
      BY <2>0, <2>2, <1>T DEF StopGetting, AckAll, AddAgain, AddAgainLater, End, Goto, Put,
                              Requeue, itemVars
    <3> QED
      BY <3>1, <3>2, <1>U DEF OwedIsSomewhere
  <2>3. CASE StopGetting(d)
    <3>1. at'[d] = "add" /\ at[d] = "get" /\ held' = held /\ todo'[d] = Items(held[d]) /\ ready' = ready
      BY <2>3, <1>T DEF StopGetting, Goto
    <3>2. Kept(d) = Items(held[d]) /\ Kept(d)' = Items(held[d])
      BY <3>1, KeptOf
    <3>3. ~\E x \in Bodies : Get(d, x)
      BY <3>1 DEF Get, Goto
    <3> QED
      BY <2>0, <2>2, <3>1, <3>2, <3>3, <1>S, Elsewhere
  <2>4. ASSUME NEW x \in Bodies, AddAgain(d, x) PROVE Somewhere(b)'
    <3>1. /\ at[d] = "add" /\ at' = at /\ held' = held /\ todo'[d] = todo[d] \ {x}
          /\ ready'[x] = ready[x] + 1 /\ ready'[b] >= ready[b] /\ ready'[b] \in Nat
      BY <2>4, <1>T, <1>T1 DEF AddAgain
    <3>2. Kept(d) \subseteq Kept(d)' \cup {x}
      BY <3>1, KeptOf
    <3>3. b = x => ready'[b] > 0
      BY <3>1, <1>T
    <3>4. ready[b] > 0 => ready'[b] > 0
      BY <3>1, <1>T, <1>T1
    <3>5. ~\E y \in Bodies : Get(d, y)
      BY <3>1 DEF Get
    <3> QED
      BY <2>0, <2>2, <3>1, <3>2, <3>3, <3>4, <3>5, <1>S, Elsewhere
  <2>5. ASSUME NEW x \in Bodies, AddAgainLater(d, x) PROVE Somewhere(b)'
    <3>1. Requeue(d) /\ ~\E y \in Bodies : Get(d, y)
      BY <2>5 DEF AddAgainLater, Get
    <3> QED
      BY <2>0, <2>2, <3>1, <1>T1, GivenBack
  <2>6. CASE AckAll(d)
    <3>1. /\ at[d] = "add" /\ todo[d] = {} /\ ready' = ready
          /\ ~\E y \in Bodies : Get(d, y)
      BY <2>6 DEF AckAll, Get
    <3>2. Kept(d) = {}
      BY <3>1, KeptOf
    <3> QED
      BY <2>0, <2>2, <3>1, <3>2, <1>S, Elsewhere
  <2> QED
    BY <2>0, <2>1, <2>3, <2>4, <2>5, <2>6
<1>8. CASE UNCHANGED vars
  BY <1>8 DEF vars, procVars, itemVars, OwedIsSomewhere, Somewhere, Unsent, Queued, Kept,
              Undecided
<1> QED
  BY <1>1, <1>2, <1>3, <1>4, <1>5, <1>6, <1>7, <1>8 DEF Next

\* The inductive invariant.
LEMMA QueueInvariant == Spec => [](Types /\ QueueInv)
<1>1. TypeOK /\ TasksCounted <=> Types
  BY TypeParts DEF Types
<1>2. Init => Kinds /\ Quiet /\ OwedIsSomewhere
  BY DEF Init, Start, Kinds, Quiet, OwedIsSomewhere
<1> QED
  BY <1>1, <1>2, Typing, PlacesPreserved, OwedPreserved, PTL DEF Spec, QueueInv

\* At least once, for any number of processes, whatever crashes, breaks or is
\* interrupted, and in whatever order: an item that is owed is with a worker, at the
\* broker or with a reader (amqp.py:158-187, 236-252, 308-320, 374-382).
THEOREM AtLeastOnce == Spec => []NotForgotten
<1>1. OwedIsSomewhere => NotForgotten
  BY DEF OwedIsSomewhere, Somewhere, Unsent, Kept, NotForgotten
<1> QED
  BY <1>1, QueueInvariant, PTL DEF QueueInv
=============================================================================

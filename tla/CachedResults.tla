--------------------------- MODULE CachedResults ---------------------------
(***************************************************************************)
(* One precomputed listing: CachedResults of r2/lib/db/queries.py in the    *)
(* permanent cache of r2/lib/cache.py, which is memcached in front of a     *)
(* column of Cassandra with several replicas.  Insertions and deletions are *)
(* mutations under a lock, written to a quorum; readers fill memcached from *)
(* whatever replica answers, without a lock.                                *)
(*                                                                         *)
(* A listing is the sort value of each item in it, at most Limit of them.   *)
(* known is what the mutations, one after the other, said of each item: the *)
(* listing should show the best of it.  slips records what makes memcached  *)
(* and Cassandra come apart, so that the invariants say what they rest on.  *)
(***************************************************************************)
EXTENDS Integers, FiniteSets

CONSTANTS
    Callers,        \* processes that read or change the listing
    Things,         \* what may be listed
    Values,         \* what items are sorted by, best last
    Limit,          \* precompute_limit
    BatchSize,      \* how many items a call inserts
    Replicas,
    Quorums,        \* the sets of replicas that satisfy cassandra_wcl: with
                    \* QUORUM any two of them meet, and with ONE only if there
                    \* is one replica
    Missing,        \* no value
    MaxMutations    \* bound: insertions and deletions

ASSUME ListingConstants ==
    /\ IsFiniteSet(Things)
    /\ Values \subseteq Nat \ {0}
    /\ Limit \in Nat
    /\ BatchSize \in 1..(Limit - 1)
    /\ IsFiniteSet(Replicas) /\ Replicas # {}
    /\ Quorums \subseteq (SUBSET Replicas) \ {{}}
    /\ \A Q, R \in Quorums : Q \cap R # {}
    /\ MaxMutations \in Nat

Gone    == 0                        \* not in the listing
Data    == [Things -> Values \cup {Gone}]
Empty   == [i \in Things |-> Gone]
In(d)   == {i \in Things : d[i] # Gone}
Listing == {d \in Data : Cardinality(In(d)) <= Limit}

ASSUME MissingIsNoData == Missing \notin Data

Call    == [new : Data, gone : SUBSET Things]
NoCall  == [new |-> Empty, gone |-> {}]

VARIABLES
    mem,        \* what memcached has
    rep,        \* rep[r]: what replica r has, and the timestamp of that
    phase,      \* phase[p]: where p is
    call,       \* call[p]: what it inserts or deletes
    value,      \* value[p]: the listing it got, or is about to store
    held, busy, overrun,    \* the lock mutate_<key>
    known,      \* history: the last word of the mutations on each item
    losses,     \* history: items deleted or made worse
    mutations,  \* history: the number of mutations begun
    slips       \* history: ways in which memcached and Cassandra came apart

lock    == <<held, busy, overrun>>
stores  == <<mem, rep>>
procs   == <<phase, call, value>>
records == <<known, losses, mutations, slips>>

listingVars == <<stores, procs, lock, records>>

MutateKey == "mutate_"
Lock == INSTANCE AdvisoryLock WITH Procs <- Callers, Keys <- {MutateKey}

ListingInit ==
    /\ mem = Missing
    /\ rep = [r \in Replicas |-> [stamp |-> 0, data |-> Missing]]
    /\ phase = [p \in Callers |-> "idle"]
    /\ call = [p \in Callers |-> NoCall]
    /\ value = [p \in Callers |-> Missing]
    /\ Lock!LockInit
    /\ known = Empty
    /\ losses = 0
    /\ mutations = 0
    /\ slips = {}

Enter(p, where) == phase' = [phase EXCEPT ![p] = where]
Keep(p, d) == value' = [value EXCEPT ![p] = d]

\* What Cassandra answers when the replicas Q are asked, and the timestamp.
Newest(Q) == CHOOSE c \in {rep[r] : r \in Q} : \A r \in Q : rep[r].stamp <= c.stamp

OrEmpty(d) == IF d = Missing THEN Empty ELSE d

\* What was written to Cassandra last.
Current == OrEmpty(Newest(Replicas).data)

-----------------------------------------------------------------------------
(* The mutations: _insert_tuples() and delete().                            *)

Smallest(d) == CHOOSE v \in {d[i] : i \in In(d)} : \A i \in In(d) : v <= d[i]

WouldTruncate(d, new) == Cardinality(In(d) \cup In(new)) >= Limit

\* Mutant: of a full listing only the values are updated.
MutKept(d, new) == {i \in In(new) : WouldTruncate(d, new) => i \in In(d)}

\* The new items that get in.
Kept(d, new) == {i \in In(new) :
    WouldTruncate(d, new) => i \in In(d) \/ new[i] >= Smallest(d)}

\* Mutant: no truncation.
MutTruncated(d) == {d}

\* data[:precompute_limit], after sorting; which of equal items come last is
\* left open.
Truncated(d) ==
    {e \in Listing :
        /\ \A i \in Things : e[i] \in {d[i], Gone}
        /\ In(e) # In(d) => Cardinality(In(e)) = Limit
        /\ \A i \in In(e), j \in In(d) \ In(e) : e[i] >= d[j]}

Mutated(d, c) ==
    IF In(c.new) # {}
    THEN Truncated([i \in Things |-> IF i \in Kept(d, c.new) THEN c.new[i] ELSE d[i]])
    ELSE {[i \in Things |-> IF i \in c.gone THEN Gone ELSE d[i]]}

Said(c) == [i \in Things |->
    IF i \in In(c.new) THEN c.new[i] ELSE IF i \in c.gone THEN Gone ELSE known[i]]

Worse(c) == {i \in Things : Said(c)[i] < known[i]}

-----------------------------------------------------------------------------
(* mutate() of the cache chain.                                             *)

\* The lock is obtained.
StartMutate(p, c) ==
    /\ phase[p] = "idle"
    /\ mutations < MaxMutations
    /\ Lock!Obtain(p, MutateKey)
    /\ mutations' = mutations + 1
    /\ call' = [call EXCEPT ![p] = c]
    /\ Enter(p, "get")
    /\ UNCHANGED <<stores, value, known, losses, slips>>

\* memcached is asked first.
GetMem(p) ==
    /\ phase[p] = "get"
    /\ Keep(p, mem)
    /\ Enter(p, IF mem = Missing THEN "read" ELSE "write")
    /\ UNCHANGED <<stores, call, lock, records>>

\* Mutant: any replica will do.
MutAsked == {{r} : r \in Replicas}

\* The read is at the consistency level of writes.
Asked == Quorums

ReadCassa(p) ==
    /\ phase[p] = "read"
    /\ \E Q \in Asked : Keep(p, Newest(Q).data)
    /\ Enter(p, "write")
    /\ UNCHANGED <<stores, call, lock, records>>

WriteTo(Q, d) ==
    rep' = [r \in Replicas |-> IF r \in Q
                THEN [stamp |-> Newest(Replicas).stamp + 1, data |-> d] ELSE rep[r]]

\* The new listing is made and, if it is another one, written to a quorum.
WriteCassa(p) ==
    /\ phase[p] = "write"
    /\ \E d \in Mutated(OrEmpty(value[p]), call[p]), Q \in Quorums :
           /\ IF d = value[p] THEN UNCHANGED rep ELSE WriteTo(Q, d)
           /\ Keep(p, d)
    /\ known' = Said(call[p])
    /\ losses' = losses + Cardinality(Worse(call[p]))
    /\ Enter(p, "set")
    /\ UNCHANGED <<mem, call, lock, mutations, slips>>

\* Fewer replicas than a quorum have confirmed it in time: cassa.set() raises,
\* and so does mutate().
WriteFails(p) ==
    /\ phase[p] = "write"
    /\ \E d \in Mutated(OrEmpty(value[p]), call[p]), Q \in SUBSET Replicas :
           d # value[p] /\ WriteTo(Q, d)
    /\ slips' = slips \cup {"failed write"}
    /\ Lock!LetGo(p, MutateKey)
    /\ Enter(p, "idle")
    /\ call' = [call EXCEPT ![p] = NoCall]
    /\ Keep(p, Missing)
    /\ UNCHANGED <<mem, known, losses, mutations>>

\* memcached gets the new listing, and the lock is released.
SetMem(p) ==
    /\ phase[p] = "set"
    /\ mem' = value[p]
    /\ Enter(p, "done")
    /\ Keep(p, Missing)
    /\ UNCHANGED <<rep, call, lock, records>>

Unlock(p) ==
    /\ phase[p] = "done"
    /\ Lock!LetGo(p, MutateKey)
    /\ Enter(p, "idle")
    /\ call' = [call EXCEPT ![p] = NoCall]
    /\ UNCHANGED <<stores, value, records>>

-----------------------------------------------------------------------------
(* fetch(): get_multi() of the chain.                                       *)

\* memcached does not have it, and one replica is asked...
Look(p) ==
    /\ phase[p] = "idle"
    /\ mem = Missing
    /\ Enter(p, "ask")
    /\ UNCHANGED <<stores, call, value, lock, records>>

\* ... which may not have it either.
Ask(p) ==
    /\ phase[p] = "ask"
    /\ \E r \in Replicas :
           /\ Keep(p, rep[r].data)
           /\ Enter(p, IF rep[r].data = Missing THEN "idle" ELSE "fill")
    /\ UNCHANGED <<stores, call, lock, records>>

\* What it has is put into memcached, whatever has happened since.  Only a
\* mutation that is about to do the same would make up for an old value.
Fill(p) ==
    /\ phase[p] = "fill"
    /\ mem' = value[p]
    /\ slips' = IF value[p] # Current /\ \A q \in Callers : phase[q] # "set"
                THEN slips \cup {"late fill"} ELSE slips
    /\ Enter(p, "idle")
    /\ Keep(p, Missing)
    /\ UNCHANGED <<rep, call, lock, known, losses, mutations>>

-----------------------------------------------------------------------------
\* A replica learns of the last write.
CatchUp(r) ==
    /\ rep' = [rep EXCEPT ![r] = Newest(Replicas)]
    /\ UNCHANGED <<mem, procs, lock, records>>

Evict ==
    /\ mem' = Missing
    /\ UNCHANGED <<rep, procs, lock, records>>

CallerDies(p) ==
    /\ phase[p] # "idle"
    /\ slips' = IF phase[p] = "set" THEN slips \cup {"crash"} ELSE slips
    /\ Lock!Abandon(p)
    /\ Enter(p, "idle")
    /\ call' = [call EXCEPT ![p] = NoCall]
    /\ Keep(p, Missing)
    /\ UNCHANGED <<stores, known, losses, mutations>>

LockLapses ==
    /\ Lock!Lapse(MutateKey)
    /\ UNCHANGED <<stores, procs, records>>

Insertions == {d \in Data : Cardinality(In(d)) \in 1..BatchSize}
Calls == [new : Insertions, gone : {{}}] \cup [new : {Empty}, gone : {{i} : i \in Things}]

CallerStep(p) ==
    \/ \E c \in Calls : StartMutate(p, c)
    \/ GetMem(p) \/ ReadCassa(p) \/ WriteCassa(p) \/ WriteFails(p) \/ SetMem(p) \/ Unlock(p)
    \/ Look(p) \/ Ask(p) \/ Fill(p)
    \/ CallerDies(p)

ListingNext ==
    \/ \E p \in Callers : CallerStep(p)
    \/ \E r \in Replicas : CatchUp(r)
    \/ Evict \/ LockLapses

ListingSpec == ListingInit /\ [][ListingNext]_listingVars

-----------------------------------------------------------------------------
NoSlip == slips = {} /\ ~overrun

ListingTypeOK ==
    /\ mem \in Listing \cup {Missing}
    /\ rep \in [Replicas -> [stamp : Nat, data : Listing \cup {Missing}]]
    /\ phase \in [Callers -> {"idle", "get", "read", "write", "set", "done", "ask", "fill"}]
    /\ call \in [Callers -> Call]
    /\ value \in [Callers -> Listing \cup {Missing}]
    /\ held \in [Callers -> SUBSET {MutateKey}]
    /\ busy \in SUBSET {MutateKey}
    /\ overrun \in BOOLEAN
    /\ known \in Data
    /\ losses \in Nat
    /\ mutations \in 0..MaxMutations
    /\ slips \subseteq {"failed write", "late fill", "crash"}

\* Nobody has written to Cassandra and not yet to memcached.
Settled == \A p \in Callers : phase[p] # "set"

\* What a reader gets who asks memcached and then everybody.
Effective == IF mem = Missing THEN Current ELSE mem

\* A listing shows nothing but items as the last mutation left them, whatever
\* memcached loses, replicas miss and readers put back: no mutation starts
\* from a listing without the earlier ones (cache.py:644-689).
ListingIsSound ==
    NoSlip /\ Settled =>
        \A i \in In(Effective) : Effective[i] = known[i]

\* It goes without an item only if there are enough others that are as good:
\* precompute_limit, but for those that a call inserts at a time and those
\* that were deleted or made worse (queries.py:180-213).
ListingIsComplete ==
    NoSlip /\ Settled =>
        \A i \in In(known) \ In(Effective) :
            Cardinality({j \in Things \ {i} : known[j] >= known[i]})
                >= Limit - BatchSize - losses
=============================================================================

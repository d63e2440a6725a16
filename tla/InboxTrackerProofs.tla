-------------------------- MODULE InboxTrackerProofs --------------------------
(***************************************************************************)
(* Proofs about the inbox tracker: what its keys may hold, and that the    *)
(* metadata cache agrees with the store at every instant, through reorgs   *)
(* and crashes.  The first part is about lists of writes, which every call *)
(* is made of.                                                             *)
(***************************************************************************)
EXTENDS InboxTracker, InductionLemmas

(***************************************************************************)
(* Keys and lists of writes.                                               *)
(***************************************************************************)

AllKeys == Keys \cup {CacheEntry(n) : n \in Numbers}

Ops(w) == {w[k] : k \in 1 .. Len(w)}

IsWrites(w) == \E V : w \in Seq([key : AllKeys, val : V])

\* No two keys are the same, and the first part of a key tells a cache entry apart.
LEMMA KeysDiffer ==
  /\ \A i, j : Delayed(i) = Delayed(j) => i = j
  /\ \A i, j : Meta(i) = Meta(j) => i = j
  /\ \A i, j : Sequenced(i) = Sequenced(j) => i = j
  /\ \A i, j : CacheEntry(i) = CacheEntry(j) => i = j
  /\ \A i, j : Delayed(i) # Meta(j) /\ Delayed(i) # Sequenced(j) /\ Meta(i) # Sequenced(j)
  /\ \A i : DelayedCount # Delayed(i) /\ DelayedCount # Meta(i) /\ DelayedCount # Sequenced(i)
  /\ \A i : BatchCount # Delayed(i) /\ BatchCount # Meta(i) /\ BatchCount # Sequenced(i)
  /\ \A i : Log # Delayed(i) /\ Log # Meta(i) /\ Log # Sequenced(i)
  /\ DelayedCount # BatchCount /\ DelayedCount # Log /\ BatchCount # Log
  /\ \A n : \A key \in Keys : key # CacheEntry(n)
  /\ \A key \in Keys : key[1] # "cache"
  /\ \A n : CacheEntry(n)[1] = "cache" /\ CacheEntry(n)[2] = n
  BY DEF Delayed, Meta, Sequenced, DelayedCount, BatchCount, Log, CacheEntry, Keys

LEMMA SeqWiden ==
  ASSUME NEW S, NEW T, S \subseteq T, NEW s \in Seq(S)
  PROVE  s \in Seq(T)
<1>1. Len(s) \in Nat /\ s = [k \in 1 .. Len(s) |-> s[k]] /\ \A k \in 1 .. Len(s) : s[k] \in T
  OBVIOUS
<1> QED
  BY <1>1

LEMMA ConcatWrites ==
  ASSUME NEW u, NEW v, IsWrites(u), IsWrites(v)
  PROVE  /\ IsWrites(u \o v)
         /\ Len(u) \in Nat /\ Len(v) \in Nat /\ Len(u \o v) = Len(u) + Len(v)
         /\ \A k \in 1 .. Len(u) : (u \o v)[k] = u[k]
         /\ \A k \in 1 .. Len(v) : (u \o v)[Len(u) + k] = v[k]
         /\ Ops(u \o v) = Ops(u) \cup Ops(v)
<1>1. PICK U : u \in Seq([key : AllKeys, val : U])
  BY DEF IsWrites
<1>2. PICK V : v \in Seq([key : AllKeys, val : V])
  BY DEF IsWrites
<1>3. u \in Seq([key : AllKeys, val : U \cup V]) /\ v \in Seq([key : AllKeys, val : U \cup V])
  <2> DEFINE A == [key : AllKeys, val : U]
             B == [key : AllKeys, val : V]
             S == [key : AllKeys, val : U \cup V]
  <2>1. u \in Seq(A) /\ v \in Seq(B) /\ A \subseteq S /\ B \subseteq S
    BY <1>1, <1>2
  <2> HIDE DEF A, B, S
  <2>2. u \in Seq(S) /\ v \in Seq(S)
    BY <2>1, SeqWiden
  <2> QED
    BY <2>2 DEF S
<1>4. /\ u \o v \in Seq([key : AllKeys, val : U \cup V])
      /\ Len(u) \in Nat /\ Len(v) \in Nat /\ Len(u \o v) = Len(u) + Len(v)
      /\ \A k \in 1 .. Len(u) : (u \o v)[k] = u[k]
      /\ \A k \in 1 .. Len(v) : (u \o v)[Len(u) + k] = v[k]
  <2> DEFINE S == [key : AllKeys, val : U \cup V]
  <2>1. u \in Seq(S) /\ v \in Seq(S)
    BY <1>3
  <2> HIDE DEF S
  <2>2. /\ u \o v \in Seq(S)
        /\ Len(u) \in Nat /\ Len(v) \in Nat /\ Len(u \o v) = Len(u) + Len(v)
        /\ \A k \in 1 .. Len(u) : (u \o v)[k] = u[k]
        /\ \A k \in 1 .. Len(v) : (u \o v)[Len(u) + k] = v[k]
    BY <2>1
  <2> QED
    BY <2>2 DEF S
<1>5. Ops(u \o v) = Ops(u) \cup Ops(v)
  <2> DEFINE w == u \o v
  <2>1. /\ Len(u) \in Nat /\ Len(v) \in Nat /\ Len(w) = Len(u) + Len(v)
        /\ \A k \in 1 .. Len(u) : w[k] = u[k]
        /\ \A k \in 1 .. Len(v) : w[Len(u) + k] = v[k]
    BY <1>4
  <2> HIDE DEF w
  <2>2. ASSUME NEW k \in 1 .. Len(w) PROVE w[k] \in Ops(u) \cup Ops(v)
    <3>1. CASE k <= Len(u)
      BY <2>1, <3>1 DEF Ops
    <3>2. CASE k > Len(u)
      <4>1. k - Len(u) \in 1 .. Len(v) /\ w[k] = v[k - Len(u)]
        BY <2>1, <3>2
      <4> QED
        BY <4>1 DEF Ops
    <3> QED
      BY <2>1, <3>1, <3>2
  <2>3. \A k \in 1 .. Len(u) : k \in 1 .. Len(w) /\ w[k] = u[k]
    BY <2>1
  <2>4. \A k \in 1 .. Len(v) : Len(u) + k \in 1 .. Len(w) /\ w[Len(u) + k] = v[k]
    BY <2>1
  <2>5. Ops(w) \subseteq Ops(u) \cup Ops(v)
    BY <2>2 DEF Ops
  <2>6. Ops(u) \subseteq Ops(w) /\ Ops(v) \subseteq Ops(w)
    BY <2>3, <2>4 DEF Ops
  <2>7. Ops(w) = Ops(u) \cup Ops(v)
    BY <2>5, <2>6
  <2> QED
    BY <2>7 DEF w
<1> QED
  BY <1>4, <1>5 DEF IsWrites

\* A list given by its length and its writes.
LEMMA ListedWrites ==
  ASSUME NEW n \in Nat, NEW w, w = [k \in 1 .. n |-> w[k]],
         \A k \in 1 .. n : w[k] = [key |-> w[k].key, val |-> w[k].val] /\ w[k].key \in AllKeys
  PROVE  IsWrites(w) /\ Len(w) = n
<1> DEFINE V == {w[k].val : k \in 1 .. n}
<1>1. \A k \in 1 .. n : w[k] \in [key : AllKeys, val : V]
  OBVIOUS
<1>2. w \in Seq([key : AllKeys, val : V]) /\ Len(w) = n
  <2> DEFINE S == [key : AllKeys, val : V]
  <2>1. \A k \in 1 .. n : w[k] \in S
    BY <1>1
  <2> HIDE DEF S
  <2>2. w \in Seq(S) /\ Len(w) = n
    BY <2>1
  <2> QED
    BY <2>2 DEF S
<1> QED
  BY <1>2 DEF IsWrites

LEMMA PutWrites ==
  ASSUME NEW key \in AllKeys, NEW val
  PROVE  /\ IsWrites(Put(key, val))
         /\ Len(Put(key, val)) = 1
         /\ Put(key, val)[1] = [key |-> key, val |-> val]
         /\ Ops(Put(key, val)) = {[key |-> key, val |-> val]}
<1>1. Put(key, val) \in Seq([key : AllKeys, val : {val}])
  BY DEF Put
<1>2. Len(Put(key, val)) = 1 /\ Put(key, val)[1] = [key |-> key, val |-> val]
  BY DEF Put
<1>3. 1 .. Len(Put(key, val)) = {1}
  BY <1>2
<1>4. Ops(Put(key, val)) = {[key |-> key, val |-> val]}
  <2> DEFINE w == Put(key, val)
  <2> HIDE DEF w
  <2>1. Ops(w) = {w[1]}
    BY <1>3 DEF Ops, w
  <2> QED
    BY <1>2, <2>1 DEF w
<1> QED
  BY <1>1, <1>2, <1>4, Zenon DEF IsWrites

LEMMA NoWrites == IsWrites(<<>>) /\ Len(<<>>) = 0 /\ Ops(<<>>) = {}
<1>1. <<>> \in Seq([key : AllKeys, val : {}])
  OBVIOUS
<1> QED
  BY <1>1 DEF IsWrites, Ops

LEMMA DeleteWrites ==
  ASSUME NEW first \in Nat, NEW last \in Int, first <= last + 1, NEW prefix,
         \A i \in first .. last : <<prefix, i>> \in AllKeys
  PROVE  /\ IsWrites(DeleteRange(prefix, first, last))
         /\ Ops(DeleteRange(prefix, first, last)) =
              {[key |-> <<prefix, i>>, val |-> Absent] : i \in first .. last}
<1> DEFINE w == DeleteRange(prefix, first, last)
           n == last - first + 1
<1>1. n \in Nat /\ w = [k \in 1 .. n |-> w[k]]
  BY DEF DeleteRange
<1>2. \A k \in 1 .. n : w[k] = [key |-> <<prefix, first + k - 1>>, val |-> Absent]
  BY DEF DeleteRange
<1>3. \A k \in 1 .. n : first + k - 1 \in first .. last
  OBVIOUS
<1>4. IsWrites(w) /\ Len(w) = n
  <2> HIDE DEF w, n
  <2> QED
    BY <1>1, <1>2, <1>3, ListedWrites
<1>5. ASSUME NEW i \in first .. last
      PROVE  i - first + 1 \in 1 .. n /\ w[i - first + 1] = [key |-> <<prefix, i>>, val |-> Absent]
  <2>1. i - first + 1 \in 1 .. n /\ first + (i - first + 1) - 1 = i
    OBVIOUS
  <2> HIDE DEF w, n
  <2> QED
    BY <1>2, <2>1
<1>6. Ops(w) = {[key |-> <<prefix, i>>, val |-> Absent] : i \in first .. last}
  <2> HIDE DEF w, n
  <2> QED
    BY <1>2, <1>3, <1>4, <1>5 DEF Ops
<1> QED
  BY <1>4, <1>6

(***************************************************************************)
(* What the keys may hold.                                                 *)
(***************************************************************************)

MayHold(key, val) ==
  /\ key = DelayedCount => val \in 0 .. MaxDelayed
  /\ key = BatchCount => val \in 0 .. MaxBatches
  /\ \A i \in Positions : key = Delayed(i) => val \in StoredDelayed \cup {Absent}
  /\ \A n \in Numbers : key = Meta(n) => val \in BatchMetadata \cup {Absent}
  /\ \A c \in 1 .. MaxDelayed : key = Sequenced(c) => val \in Numbers \cup {Absent}
  /\ \A n \in Numbers : key = CacheEntry(n) => val \in BatchMetadata

\* A list of writes, each of a value that its key may hold.
Sound(w) == IsWrites(w) /\ \A op \in Ops(w) : MayHold(op.key, op.val)

L1Typed ==
  /\ l1 \in [delayed : Seq(Bodies), batches : Seq(Batches)]
  /\ Len(l1.delayed) \in 0 .. MaxDelayed
  /\ Len(l1.batches) \in 0 .. MaxBatches

StoreTyped == db = [key \in Keys |-> db[key]] /\ \A key \in Keys : MayHold(key, db[key])

CacheTyped == cache \in [Numbers -> BatchMetadata \cup {Absent}]

UsedTyped == used \in [reorgs : Nat, rereads : Nat, crashes : Nat]

Typed == L1Typed /\ StoreTyped /\ CacheTyped /\ Sound(todo) /\ UsedTyped

LEMMA Bounds ==
  /\ MaxDelayed \in Nat /\ MaxBatches \in Nat
  /\ Positions = 0 .. MaxDelayed - 1 /\ Numbers = 0 .. MaxBatches - 1
  BY TrackerAssumption DEF Positions, Numbers

LEMMA KeysAre ==
  /\ DelayedCount \in Keys /\ BatchCount \in Keys /\ Log \in Keys
  /\ \A i \in Positions : Delayed(i) \in Keys
  /\ \A n \in Numbers : Meta(n) \in Keys
  /\ \A c \in 1 .. MaxDelayed : Sequenced(c) \in Keys
  /\ \A n \in Numbers : CacheEntry(n) \in AllKeys
  /\ Keys \subseteq AllKeys
  BY DEF Keys, AllKeys

\* What a typed store holds, key by key.
LEMMA StoredValues ==
  ASSUME StoreTyped
  PROVE  /\ db[DelayedCount] \in 0 .. MaxDelayed
         /\ db[BatchCount] \in 0 .. MaxBatches
         /\ \A i \in Positions : db[Delayed(i)] \in StoredDelayed \cup {Absent}
         /\ \A n \in Numbers : db[Meta(n)] \in BatchMetadata \cup {Absent}
         /\ \A c \in 1 .. MaxDelayed : db[Sequenced(c)] \in Numbers \cup {Absent}
  BY KeysAre DEF StoreTyped, MayHold

\* A value that is right for one kind of key is right for it.
LEMMA MayHoldPut ==
  /\ \A val \in 0 .. MaxDelayed : MayHold(DelayedCount, val)
  /\ \A val \in 0 .. MaxBatches : MayHold(BatchCount, val)
  /\ \A i \in Positions : \A val \in StoredDelayed \cup {Absent} : MayHold(Delayed(i), val)
  /\ \A n \in Numbers : \A val \in BatchMetadata \cup {Absent} : MayHold(Meta(n), val)
  /\ \A c \in 1 .. MaxDelayed : \A val \in Numbers \cup {Absent} : MayHold(Sequenced(c), val)
  /\ \A n \in Numbers : \A val \in BatchMetadata : MayHold(CacheEntry(n), val)
  /\ \A val : MayHold(Log, val)
<1>1. \A n : \A i : CacheEntry(n) # Delayed(i) /\ CacheEntry(n) # Meta(i) /\ CacheEntry(n) # Sequenced(i)
  BY DEF CacheEntry, Delayed, Meta, Sequenced
<1>2. \A n : CacheEntry(n) # DelayedCount /\ CacheEntry(n) # BatchCount /\ CacheEntry(n) # Log
  BY DEF CacheEntry, DelayedCount, BatchCount, Log
<1> QED
  BY <1>1, <1>2, KeysDiffer DEF MayHold

LEMMA SoundConcat ==
  ASSUME NEW u, NEW v, Sound(u), Sound(v)
  PROVE  Sound(u \o v) /\ Ops(u \o v) = Ops(u) \cup Ops(v)
  BY ConcatWrites DEF Sound

LEMMA SoundPut ==
  ASSUME NEW key \in AllKeys, NEW val, MayHold(key, val)
  PROVE  Sound(Put(key, val)) /\ Ops(Put(key, val)) = {[key |-> key, val |-> val]}
<1>1. IsWrites(Put(key, val)) /\ Ops(Put(key, val)) = {[key |-> key, val |-> val]}
  BY PutWrites
<1>2. [key |-> key, val |-> val].key = key /\ [key |-> key, val |-> val].val = val
  OBVIOUS
<1>3. \A op \in Ops(Put(key, val)) : op.key = key /\ op.val = val
  BY <1>1, <1>2, Zenon
<1>4. \A op \in Ops(Put(key, val)) : MayHold(op.key, op.val)
  BY <1>3, Zenon
<1> QED
  BY <1>1, <1>4, Zenon DEF Sound

\* The removals of each prefix.
LEMMA SoundDeletes ==
  /\ \A first \in 0 .. MaxDelayed :
       /\ Sound(DeleteRange("delayed", first, MaxDelayed - 1))
       /\ Ops(DeleteRange("delayed", first, MaxDelayed - 1)) =
            {[key |-> Delayed(i), val |-> Absent] : i \in first .. MaxDelayed - 1}
  /\ \A first \in 0 .. MaxBatches :
       /\ Sound(MetaDeletes(first))
       /\ Ops(MetaDeletes(first)) =
            {[key |-> Meta(n), val |-> Absent] : n \in first .. MaxBatches - 1}
  /\ \A first \in 1 .. MaxDelayed + 1 :
       /\ Sound(DeleteRange("sequenced", first, MaxDelayed))
       /\ Ops(DeleteRange("sequenced", first, MaxDelayed)) =
            {[key |-> Sequenced(c), val |-> Absent] : c \in first .. MaxDelayed}
<1>1. ASSUME NEW first \in 0 .. MaxDelayed
      PROVE  /\ Sound(DeleteRange("delayed", first, MaxDelayed - 1))
             /\ Ops(DeleteRange("delayed", first, MaxDelayed - 1)) =
                  {[key |-> Delayed(i), val |-> Absent] : i \in first .. MaxDelayed - 1}
  <2>1. \A i \in first .. MaxDelayed - 1 : <<"delayed", i>> \in AllKeys /\ MayHold(Delayed(i), Absent)
    <3>1. \A i \in first .. MaxDelayed - 1 : i \in Positions
      BY Bounds
    <3> QED
      BY <3>1, KeysAre, MayHoldPut DEF Delayed
  <2>2. first \in Nat /\ MaxDelayed - 1 \in Int /\ first <= (MaxDelayed - 1) + 1
    BY Bounds
  <2>3. /\ IsWrites(DeleteRange("delayed", first, MaxDelayed - 1))
        /\ Ops(DeleteRange("delayed", first, MaxDelayed - 1)) =
             {[key |-> <<"delayed", i>>, val |-> Absent] : i \in first .. MaxDelayed - 1}
    BY <2>1, <2>2, DeleteWrites
  <2> QED
    BY <2>1, <2>3 DEF Sound, Delayed
<1>2. ASSUME NEW first \in 0 .. MaxBatches
      PROVE  /\ Sound(MetaDeletes(first))
             /\ Ops(MetaDeletes(first)) =
                  {[key |-> Meta(n), val |-> Absent] : n \in first .. MaxBatches - 1}
  <2>1. \A n \in first .. MaxBatches - 1 : <<"meta", n>> \in AllKeys /\ MayHold(Meta(n), Absent)
    <3>1. \A n \in first .. MaxBatches - 1 : n \in Numbers
      BY Bounds
    <3> QED
      BY <3>1, KeysAre, MayHoldPut DEF Meta
  <2>2. first \in Nat /\ MaxBatches - 1 \in Int /\ first <= (MaxBatches - 1) + 1
    BY Bounds
  <2>3. /\ IsWrites(MetaDeletes(first))
        /\ Ops(MetaDeletes(first)) =
             {[key |-> <<"meta", n>>, val |-> Absent] : n \in first .. MaxBatches - 1}
    BY <2>1, <2>2, DeleteWrites DEF MetaDeletes
  <2> QED
    BY <2>1, <2>3 DEF Sound, Meta
<1>3. ASSUME NEW first \in 1 .. MaxDelayed + 1
      PROVE  /\ Sound(DeleteRange("sequenced", first, MaxDelayed))
             /\ Ops(DeleteRange("sequenced", first, MaxDelayed)) =
                  {[key |-> Sequenced(c), val |-> Absent] : c \in first .. MaxDelayed}
  <2>1. \A c \in first .. MaxDelayed : <<"sequenced", c>> \in AllKeys /\ MayHold(Sequenced(c), Absent)
    <3>1. \A c \in first .. MaxDelayed : c \in 1 .. MaxDelayed
      BY Bounds
    <3> QED
      BY <3>1, KeysAre, MayHoldPut DEF Sequenced
  <2>2. first \in Nat /\ MaxDelayed \in Int /\ first <= MaxDelayed + 1
    BY Bounds
  <2>3. /\ IsWrites(DeleteRange("sequenced", first, MaxDelayed))
        /\ Ops(DeleteRange("sequenced", first, MaxDelayed)) =
             {[key |-> <<"sequenced", c>>, val |-> Absent] : c \in first .. MaxDelayed}
    BY <2>1, <2>2, DeleteWrites
  <2> QED
    BY <2>1, <2>3 DEF Sound, Sequenced
<1> QED
  BY <1>1, <1>2, <1>3

(***************************************************************************)
(* What the calls write.                                                   *)
(***************************************************************************)

\* get_batch_count answers with the last batch below the count that has metadata.
LEMMA RepairedIs ==
  ASSUME StoreTyped
  PROVE  /\ Repaired \in 0 .. db[BatchCount]
         /\ Repaired > 0 => db[Meta(Repaired - 1)] # Absent
         /\ \A n \in Numbers : n < db[BatchCount] /\ db[Meta(n)] # Absent => n < Repaired
<1> DEFINE count == db[BatchCount]
           there == {n \in 1 .. count : db[Meta(n - 1)] # Absent}
           IsLast(n) == /\ db[Meta(n - 1)] # Absent
                        /\ \A k \in n + 1 .. count : db[Meta(k - 1)] = Absent
<1>1. count \in Nat
  BY StoredValues, Bounds
<1>2. CASE there = {}
  <2>1. Repaired = 0
    BY <1>2 DEF Repaired
  <2>2. \A n \in Numbers : n < count => n + 1 \in 1 .. count /\ (n + 1) - 1 = n
    BY <1>1, Bounds
  <2>3. \A n \in Numbers : n < count => db[Meta(n)] = Absent
    BY <1>2, <2>2
  <2> QED
    BY <1>1, <2>1, <2>3
<1>3. CASE there # {}
  <2>1. PICK n \in there : \A m \in there : m <= n
    <3>1. there \in SUBSET (0 .. count)
      BY <1>1
    <3> HIDE DEF there, count
    <3> QED
      BY <1>1, <1>3, <3>1, GreatestOf
  <2>2. n \in 1 .. count /\ IsLast(n)
    <3>1. n \in 1 .. count /\ db[Meta(n - 1)] # Absent
      OBVIOUS
    <3>2. ASSUME NEW k \in n + 1 .. count, db[Meta(k - 1)] # Absent PROVE FALSE
      <4>1. k \in 1 .. count /\ k > n
        BY <1>1, <3>1
      <4>2. k \in there
        BY <3>2, <4>1
      <4> HIDE DEF there
      <4> QED
        BY <1>1, <2>1, <3>1, <4>1, <4>2
    <3> QED
      BY <3>1, <3>2
  <2>3. Repaired = CHOOSE m \in 1 .. count : IsLast(m)
    <3>1. \E m \in 1 .. count : db[Meta(m - 1)] # Absent
      BY <1>3
    <3> QED
      BY <3>1, Zenon DEF Repaired
  <2>4. Repaired \in 1 .. count /\ IsLast(Repaired)
    <3> HIDE DEF IsLast, count
    <3> QED
      BY <2>2, <2>3
  <2>5. ASSUME NEW m \in Numbers, m < count, db[Meta(m)] # Absent, ~ (m < Repaired)
        PROVE  FALSE
    <3>1. m + 1 \in Repaired + 1 .. count /\ (m + 1) - 1 = m
      BY <1>1, <2>4, <2>5, Bounds
    <3> QED
      BY <2>4, <2>5, <3>1
  <2> QED
    BY <1>1, <2>4, <2>5
<1> QED
  BY <1>2, <1>3

\* The metadata before the next batch is a recorded one.
LEMMA PrevMetaTyped ==
  ASSUME StoreTyped, CacheTyped, Repaired = db[BatchCount]
  PROVE  PrevMeta(db[BatchCount]) \in BatchMetadata
<1> DEFINE first == db[BatchCount]
<1>1. CASE first = 0
  <2>1. NoBatch \in BatchMetadata
    <3>1. <<>> \in Seq(Batches)
      OBVIOUS
    <3> QED
      BY <3>1, Bounds DEF NoBatch, BatchMetadata
  <2> QED
    BY <1>1, <2>1 DEF PrevMeta
<1>2. CASE first # 0
  <2>1. first \in 1 .. MaxBatches /\ first - 1 \in Numbers
    BY <1>2, StoredValues, Bounds
  <2>2. db[Meta(first - 1)] # Absent
    BY <2>1, RepairedIs
  <2>3. get_batch_metadata(first - 1) \in BatchMetadata
    BY <2>1, <2>2, StoredValues DEF get_batch_metadata, CacheTyped
  <2> QED
    BY <1>2, <2>3 DEF PrevMeta
<1> QED
  BY <1>1, <1>2

\* MessageCounts is the running sum that it is written as.
LEMMA CountsAre ==
  ASSUME L1Typed, NEW first \in Nat, NEW last \in Nat, first <= last, last < Len(l1.batches),
         PrevMeta(first) \in BatchMetadata
  PROVE  /\ \A n \in first - 1 .. last : DelayedUpTo(first, n) \in 0 .. MaxDelayed
         /\ \A n \in first .. last : MessageCounts(first, last)[n] \in Nat
         /\ MessageCounts(first, last)[first - 1] = PrevMeta(first).messages
         /\ \A n \in first .. last :
              /\ L2Count(l1.batches[n + 1]) \in Nat
              /\ Span(l1.batches[n + 1], DelayedUpTo(first, n - 1)) \in Nat
              /\ MessageCounts(first, last)[n] =
                   MessageCounts(first, last)[n - 1]
                   + L2Count(l1.batches[n + 1]) + Span(l1.batches[n + 1], DelayedUpTo(first, n - 1))
<1> DEFINE base == PrevMeta(first).messages
           p == [n \in first .. last |-> L2Count(l1.batches[n + 1])]
           q == [n \in first .. last |-> Span(l1.batches[n + 1], DelayedUpTo(first, n - 1))]
           Is(f) == f = [n \in first - 1 .. last |->
                           IF n = first - 1 THEN PrevMeta(first).messages
                           ELSE MessageCount([messages |-> f[n - 1], delayed |-> DelayedUpTo(first, n - 1)],
                                             l1.batches[n + 1])]
<1>1. \A n \in first .. last : l1.batches[n + 1] \in Batches
  <2>1. l1.batches \in Seq(Batches) /\ Len(l1.batches) \in Nat
    BY Bounds DEF L1Typed
  <2>2. \A n \in first .. last : n + 1 \in 1 .. Len(l1.batches)
    BY <2>1
  <2> QED
    BY <2>1, <2>2
<1>2. base \in Nat /\ PrevMeta(first).delayed \in 0 .. MaxDelayed
  BY DEF BatchMetadata
<1>3. \A n \in first - 1 .. last : DelayedUpTo(first, n) \in 0 .. MaxDelayed
  <2>1. \A n \in first .. last : l1.batches[n + 1].after \in 0 .. MaxDelayed
    BY <1>1 DEF Batches
  <2> QED
    BY <1>2, <2>1 DEF DelayedUpTo
<1>4. ASSUME NEW n \in first .. last PROVE p[n] \in Nat /\ q[n] \in Nat
  <2> DEFINE b == l1.batches[n + 1]
  <2>1. b \in Batches
    BY <1>1
  <2>2. b.segs \in Seq(Segments) /\ b.after \in 0 .. MaxDelayed
    BY <2>1, TrackerAssumption DEF Batches
  <2>3. L2Count(b) \in Nat
    <3>1. Len(b.segs) \in Nat
      BY <2>2
    <3> HIDE DEF b
    <3> QED
      BY <3>1, CountOf DEF L2Count
  <2>4. DelayedUpTo(first, n - 1) \in 0 .. MaxDelayed
    BY <1>3
  <2>5. Span(b, DelayedUpTo(first, n - 1)) \in Nat
    BY SMTT(30), <2>2, <2>4, Bounds DEF Span
  <2> QED
    BY <2>3, <2>5
<1>5. ASSUME NEW f, Is(f), NEW n \in first .. last
      PROVE  f[n] = f[n - 1] + p[n] + q[n]
  <2>1. f[n] = MessageCount([messages |-> f[n - 1], delayed |-> DelayedUpTo(first, n - 1)],
                            l1.batches[n + 1])
    BY <1>5
  <2> QED
    BY <2>1 DEF MessageCount
<1>6. \E f : Is(f)
  <2>1. PICK f : RunningSum(f, first, last, base, p, q)
    <3>1. first \in Int /\ last \in Int /\ first - 1 <= last
      OBVIOUS
    <3>2. p \in [first .. last -> Nat] /\ q \in [first .. last -> Nat]
      BY <1>4
    <3> HIDE DEF p, q, base, Is
    <3> QED
      BY <1>2, <3>1, <3>2, SumExists
  <2>2. ASSUME NEW n \in first - 1 .. last
        PROVE  f[n] = IF n = first - 1 THEN PrevMeta(first).messages
                      ELSE MessageCount([messages |-> f[n - 1], delayed |-> DelayedUpTo(first, n - 1)],
                                        l1.batches[n + 1])
    <3>1. n # first - 1 => n \in first .. last
      OBVIOUS
    <3> QED
      BY <2>1, <3>1 DEF MessageCount, RunningSum
  <2>3. Is(f)
    BY <2>1, <2>2 DEF RunningSum
  <2> QED
    BY <2>3
<1>7. Is(MessageCounts(first, last))
  <2>1. MessageCounts(first, last) = CHOOSE f : Is(f)
    BY DEF MessageCounts
  <2> HIDE DEF Is
  <2> QED
    BY <1>6, <2>1
<1>8. MessageCounts(first, last)[first - 1] = base
  BY <1>7
<1> DEFINE bad == {n \in first .. last : MessageCounts(first, last)[n] \notin Nat}
<1>9. bad = {}
  <2>1. SUFFICES ASSUME bad # {} PROVE FALSE
    OBVIOUS
  <2>2. PICK n \in bad : \A m \in bad : n <= m
    <3>1. bad \in SUBSET Nat
      OBVIOUS
    <3> HIDE DEF bad
    <3> QED
      BY <2>1, <3>1, LeastOf
  <2>3. n \in first .. last /\ MessageCounts(first, last)[n] \notin Nat
    OBVIOUS
  <2>4. MessageCounts(first, last)[n - 1] \in Nat
    <3>1. CASE n = first
      BY <1>2, <1>8, <3>1
    <3>2. CASE n # first
      <4>1. n - 1 \in first .. last /\ ~ (n <= n - 1)
        BY <2>3, <3>2
      <4>2. n - 1 \notin bad
        <5> HIDE DEF bad
        <5> QED
          BY <2>2, <4>1
      <4> QED
        BY <4>1, <4>2
    <3> QED
      BY <3>1, <3>2
  <2>5. MessageCounts(first, last)[n] = MessageCounts(first, last)[n - 1] + p[n] + q[n]
    <3> HIDE DEF Is, p, q
    <3> QED
      BY <1>5, <1>7, <2>3
  <2> HIDE DEF p, q
  <2> QED
    BY <1>4, <2>3, <2>4, <2>5
<1>10. ASSUME NEW n \in first .. last
       PROVE  MessageCounts(first, last)[n] = MessageCounts(first, last)[n - 1] + p[n] + q[n]
  <2> HIDE DEF Is, p, q
  <2> QED
    BY <1>5, <1>7
<1> QED
  BY <1>3, <1>4, <1>8, <1>9, <1>10

LEMMA CountsTyped ==
  ASSUME L1Typed, NEW first \in Nat, NEW last \in Nat, first <= last, last < Len(l1.batches),
         PrevMeta(first) \in BatchMetadata
  PROVE  /\ \A n \in first - 1 .. last : DelayedUpTo(first, n) \in 0 .. MaxDelayed
         /\ \A n \in first .. last : MessageCounts(first, last)[n] \in Nat
  BY CountsAre

\* The batch under the first key at or above first + 1, if there is a key.
LEMMA FirstSequencedIs ==
  ASSUME StoreTyped, NEW first \in 0 .. MaxDelayed
  PROVE  /\ FirstSequenced(first) = {} =>
              \A c \in first + 1 .. MaxDelayed : db[Sequenced(c)] = Absent
         /\ \A n \in FirstSequenced(first) :
              /\ n \in Numbers
              /\ \E c \in first + 1 .. MaxDelayed :
                   /\ db[Sequenced(c)] = n /\ n # Absent
                   /\ \A e \in first + 1 .. MaxDelayed : db[Sequenced(e)] # Absent => c <= e
<1> DEFINE keys == {c \in first + 1 .. MaxDelayed : db[Sequenced(c)] # Absent}
           least == CHOOSE c \in keys : \A e \in keys : c <= e
<1>1. FirstSequenced(first) = IF keys = {} THEN {} ELSE {db[Sequenced(least)]}
  BY DEF FirstSequenced
<1>2. CASE keys = {}
  BY <1>1, <1>2
<1>3. CASE keys # {}
  <2>1. keys \in SUBSET Nat
    BY Bounds
  <2>2. least \in keys /\ \A e \in keys : least <= e
    <3>1. \E c \in keys : \A e \in keys : c <= e
      <4> HIDE DEF keys
      <4> QED
        BY <1>3, <2>1, LeastOf
    <3> HIDE DEF keys
    <3> QED
      BY <3>1
  <2>3. least \in first + 1 .. MaxDelayed /\ db[Sequenced(least)] # Absent
    BY <2>2
  <2>4. \A e \in first + 1 .. MaxDelayed : db[Sequenced(e)] # Absent => least <= e
    <3> HIDE DEF least
    <3> QED
      BY <2>2
  <2>5. least \in 1 .. MaxDelayed
    <3> HIDE DEF least
    <3> QED
      BY <2>3, Bounds
  <2>6. db[Sequenced(least)] \in Numbers
    <3> HIDE DEF least
    <3> QED
      BY <2>3, <2>5, StoredValues
  <2>7. FirstSequenced(first) = {db[Sequenced(least)]}
    BY <1>1, <1>3
  <2> HIDE DEF least, keys
  <2> QED
    BY <2>3, <2>4, <2>6, <2>7
<1> QED
  BY <1>2, <1>3

LEMMA DelayedPutsSound ==
  ASSUME L1Typed, NEW first \in Positions, NEW last \in Positions, first <= last,
         last < Len(l1.delayed)
  PROVE  /\ Sound(DelayedPuts(first, last))
         /\ Ops(DelayedPuts(first, last)) =
              {[key |-> Delayed(i), val |-> [before |-> DelayedAcc(i), body |-> l1.delayed[i + 1]]] :
                 i \in first .. last}
<1> DEFINE val(i) == [before |-> DelayedAcc(i), body |-> l1.delayed[i + 1]]
           w == DelayedPuts(first, last)
           n == last - first + 1
<1>1. first \in Nat /\ last \in Nat /\ n \in Nat /\ \A i \in first .. last : i \in Positions
  BY Bounds
<1>2. \A i \in first .. last : val(i) \in StoredDelayed
  <2>1. l1.delayed \in Seq(Bodies) /\ Len(l1.delayed) \in Nat
    BY Bounds DEF L1Typed
  <2>2. \A i \in first .. last : i + 1 \in 1 .. Len(l1.delayed)
    BY <1>1, <2>1
  <2>3. ASSUME NEW i \in first .. last PROVE DelayedAcc(i) \in Seq(Bodies)
    <3>1. i \in 0 .. Len(l1.delayed)
      BY <1>1, <2>1
    <3> QED
      BY <2>1, <3>1 DEF DelayedAcc
  <2> QED
    BY <2>1, <2>2, <2>3 DEF StoredDelayed
<1>3. w = [k \in 1 .. n |-> w[k]]
  BY DEF DelayedPuts
<1>4. \A k \in 1 .. n : /\ first + k - 1 \in first .. last
                        /\ (first + k - 1) + 1 = first + k
  BY <1>1
<1>5. \A k \in 1 .. n : w[k] = [key |-> Delayed(first + k - 1), val |-> val(first + k - 1)]
  BY <1>4 DEF DelayedPuts
<1>6. IsWrites(w) /\ Len(w) = n
  <2>1. \A i \in first .. last : Delayed(i) \in AllKeys
    BY <1>1, KeysAre
  <2> HIDE DEF w, n, val
  <2> QED
    BY <1>1, <1>3, <1>4, <1>5, <2>1, ListedWrites
<1>7. \A i \in first .. last : i - first + 1 \in 1 .. n /\ first + (i - first + 1) - 1 = i
  BY <1>1
<1>8. Ops(w) = {[key |-> Delayed(i), val |-> val(i)] : i \in first .. last}
  <2> HIDE DEF w, n, val
  <2>1. Ops(w) \subseteq {[key |-> Delayed(i), val |-> val(i)] : i \in first .. last}
    BY <1>4, <1>5, <1>6 DEF Ops
  <2>2. ASSUME NEW i \in first .. last PROVE [key |-> Delayed(i), val |-> val(i)] \in Ops(w)
    <3>1. w[i - first + 1] = [key |-> Delayed(i), val |-> val(i)]
      BY <1>5, <1>7
    <3> QED
      BY <1>6, <1>7, <3>1 DEF Ops
  <2> QED
    BY <2>1, <2>2
<1>9. Sound(w)
  <2>1. \A i \in first .. last : MayHold(Delayed(i), val(i))
    BY <1>1, <1>2, MayHoldPut
  <2> HIDE DEF w, val
  <2> QED
    BY <1>6, <1>8, <2>1 DEF Sound
<1> QED
  BY <1>8, <1>9

LEMMA DelayedWritesSound ==
  ASSUME NEW first \in 0 .. MaxDelayed, NEW count \in 0 .. MaxDelayed, NEW puts, Sound(puts)
  PROVE  /\ Sound(DelayedWrites(first, count, puts))
         /\ Ops(DelayedWrites(first, count, puts)) =
              Ops(puts)
              \cup {[key |-> Delayed(i), val |-> Absent] : i \in count .. MaxDelayed - 1}
              \cup {[key |-> DelayedCount, val |-> count]}
              \cup {[key |-> Sequenced(c), val |-> Absent] : c \in first + 1 .. MaxDelayed}
<1> DEFINE gone == DeleteRange("delayed", count, MaxDelayed - 1)
           free == DeleteRange("sequenced", first + 1, MaxDelayed)
<1>1. Sound(gone) /\ Ops(gone) = {[key |-> Delayed(i), val |-> Absent] : i \in count .. MaxDelayed - 1}
  BY SoundDeletes
<1>2. Sound(free)
      /\ Ops(free) = {[key |-> Sequenced(c), val |-> Absent] : c \in first + 1 .. MaxDelayed}
  <2>1. first + 1 \in 1 .. MaxDelayed + 1
    BY Bounds
  <2> QED
    BY <2>1, SoundDeletes
<1>3. Sound(Put(DelayedCount, count))
      /\ Ops(Put(DelayedCount, count)) = {[key |-> DelayedCount, val |-> count]}
  BY SoundPut, MayHoldPut, KeysAre
<1>4. DelayedWrites(first, count, puts) = ((puts \o gone) \o Put(DelayedCount, count)) \o free
  BY DEF DelayedWrites
<1> HIDE DEF gone, free
<1>5. Sound(puts \o gone) /\ Ops(puts \o gone) = Ops(puts) \cup Ops(gone)
  BY <1>1, SoundConcat
<1>6. /\ Sound((puts \o gone) \o Put(DelayedCount, count))
      /\ Ops((puts \o gone) \o Put(DelayedCount, count)) =
           Ops(puts \o gone) \cup Ops(Put(DelayedCount, count))
  BY <1>3, <1>5, SoundConcat
<1>7. /\ Sound(DelayedWrites(first, count, puts))
      /\ Ops(DelayedWrites(first, count, puts)) =
           Ops((puts \o gone) \o Put(DelayedCount, count)) \cup Ops(free)
  BY <1>2, <1>4, <1>6, SoundConcat
<1> QED
  BY <1>1, <1>2, <1>3, <1>5, <1>6, <1>7

\* With batches to roll back.
LEMMA RollbackSound ==
  ASSUME NEW first \in 0 .. MaxDelayed, NEW count \in 0 .. MaxDelayed, NEW puts, Sound(puts),
         NEW n \in Numbers
  PROVE  /\ Sound(MetaDeletes(n) \o DelayedWrites(first, count, puts) \o Put(BatchCount, n))
         /\ Ops(MetaDeletes(n) \o DelayedWrites(first, count, puts) \o Put(BatchCount, n)) =
              Ops(DelayedWrites(first, count, puts))
              \cup {[key |-> Meta(m), val |-> Absent] : m \in n .. MaxBatches - 1}
              \cup {[key |-> BatchCount, val |-> n]}
<1> DEFINE writes == DelayedWrites(first, count, puts)
<1>1. n \in 0 .. MaxBatches
  BY Bounds
<1>2. Sound(MetaDeletes(n))
      /\ Ops(MetaDeletes(n)) = {[key |-> Meta(m), val |-> Absent] : m \in n .. MaxBatches - 1}
  BY <1>1, SoundDeletes
<1>3. Sound(writes)
  BY DelayedWritesSound
<1>4. Sound(Put(BatchCount, n)) /\ Ops(Put(BatchCount, n)) = {[key |-> BatchCount, val |-> n]}
  BY <1>1, SoundPut, MayHoldPut, KeysAre
<1> HIDE DEF writes
<1>5. /\ Sound(MetaDeletes(n) \o writes)
      /\ Ops(MetaDeletes(n) \o writes) = Ops(MetaDeletes(n)) \cup Ops(writes)
  BY <1>2, <1>3, SoundConcat
<1>6. /\ Sound((MetaDeletes(n) \o writes) \o Put(BatchCount, n))
      /\ Ops((MetaDeletes(n) \o writes) \o Put(BatchCount, n)) =
           Ops(MetaDeletes(n) \o writes) \cup Ops(Put(BatchCount, n))
  BY <1>4, <1>5, SoundConcat
<1>7. /\ Sound(MetaDeletes(n) \o writes \o Put(BatchCount, n))
      /\ Ops(MetaDeletes(n) \o writes \o Put(BatchCount, n)) =
           Ops(writes) \cup {[key |-> Meta(m), val |-> Absent] : m \in n .. MaxBatches - 1}
           \cup {[key |-> BatchCount, val |-> n]}
  BY <1>2, <1>4, <1>5, <1>6
<1> QED
  BY <1>7 DEF writes

\* What a window of batches may rest on: typed L1, and a typed batch before it.
Window(first, last) ==
  /\ L1Typed
  /\ first \in Numbers /\ last \in Numbers /\ first <= last /\ last < Len(l1.batches)
  /\ PrevMeta(first) \in BatchMetadata

LEMMA NewMetaTyped ==
  ASSUME NEW first, NEW last, Window(first, last), NEW n \in first .. last
  PROVE  NewMeta(first, last, n) \in BatchMetadata
<1>1. first \in Nat /\ last \in Nat /\ n \in Nat /\ first <= last /\ last < Len(l1.batches)
  BY Bounds DEF Window
<1>2. MessageCounts(first, last)[n] \in Nat /\ DelayedUpTo(first, n) \in 0 .. MaxDelayed
  BY <1>1, CountsTyped DEF Window
<1>3. BatchAcc(n + 1) \in Seq(Batches)
  <2>1. l1.batches \in Seq(Batches) /\ Len(l1.batches) \in Nat
    BY Bounds DEF Window, L1Typed
  <2>2. n + 1 \in 0 .. Len(l1.batches)
    BY <1>1, <2>1
  <2> QED
    BY <2>1, <2>2 DEF BatchAcc
<1> QED
  BY <1>2, <1>3 DEF NewMeta, BatchMetadata

LEMMA RecordWritesSound ==
  ASSUME NEW first, NEW last, Window(first, last)
  PROVE  /\ Sound(RecordWrites(first, last))
         /\ Len(RecordWrites(first, last)) = 2 * (last - first + 1)
         /\ \A op \in Ops(RecordWrites(first, last)) : \E n \in first .. last :
              \/ op = [key |-> Meta(n), val |-> NewMeta(first, last, n)]
              \/ /\ DelayedUpTo(first, n) > DelayedUpTo(first, n - 1)
                 /\ op = [key |-> Sequenced(DelayedUpTo(first, n)), val |-> n]
         /\ \A n \in first .. last :
              [key |-> Meta(n), val |-> NewMeta(first, last, n)] \in Ops(RecordWrites(first, last))
         /\ \A n \in first .. last :
              DelayedUpTo(first, n) > DelayedUpTo(first, n - 1) =>
                [key |-> Sequenced(DelayedUpTo(first, n)), val |-> n] \in Ops(RecordWrites(first, last))
<1> DEFINE w == RecordWrites(first, last)
           m == 2 * (last - first + 1)
           at(k) == first + (k - 1) \div 2
           record(n) == [key |-> Meta(n), val |-> NewMeta(first, last, n)]
           index(n) == [key |-> Sequenced(DelayedUpTo(first, n)), val |-> n]
           Grows(n) == DelayedUpTo(first, n) > DelayedUpTo(first, n - 1)
<1>1. /\ first \in Nat /\ last \in Nat /\ first <= last /\ last < Len(l1.batches)
      /\ m \in Nat /\ \A n \in first .. last : n \in Numbers
  BY Bounds DEF Window
<1>2. \A n \in first - 1 .. last : DelayedUpTo(first, n) \in 0 .. MaxDelayed
  BY <1>1, CountsTyped DEF Window
<1>3. w = [k \in 1 .. m |-> w[k]]
  BY DEF RecordWrites
<1>4. ASSUME NEW k \in 1 .. m PROVE at(k) \in first .. last
  BY <1>1
<1>5. ASSUME NEW k \in 1 .. m
      PROVE  w[k] = IF k % 2 = 0 /\ Grows(at(k)) THEN index(at(k)) ELSE record(at(k))
  BY DEF RecordWrites
<1>6. ASSUME NEW n \in first .. last
      PROVE  /\ record(n).key \in AllKeys /\ MayHold(record(n).key, record(n).val)
             /\ Grows(n) => index(n).key \in AllKeys /\ MayHold(index(n).key, index(n).val)
  <2>1. NewMeta(first, last, n) \in BatchMetadata
    BY NewMetaTyped
  <2>2. record(n).key \in AllKeys /\ MayHold(record(n).key, record(n).val)
    BY <1>1, <2>1, KeysAre, MayHoldPut
  <2>3. ASSUME Grows(n) PROVE index(n).key \in AllKeys /\ MayHold(index(n).key, index(n).val)
    <3>1. DelayedUpTo(first, n) \in 1 .. MaxDelayed
      <4>1. n - 1 \in first - 1 .. last /\ n \in first - 1 .. last
        BY <1>1
      <4> QED
        BY <1>2, <2>3, <4>1, Bounds
    <3> QED
      BY <1>1, <3>1, KeysAre, MayHoldPut
  <2> QED
    BY <2>2, <2>3
<1>7. ASSUME NEW k \in 1 .. m
      PROVE  /\ w[k] = [key |-> w[k].key, val |-> w[k].val]
             /\ w[k].key \in AllKeys /\ MayHold(w[k].key, w[k].val)
             /\ \E n \in first .. last : w[k] = record(n) \/ (Grows(n) /\ w[k] = index(n))
  <2>1. at(k) \in first .. last
    BY <1>4
  <2>2. w[k] = record(at(k)) \/ (Grows(at(k)) /\ w[k] = index(at(k)))
    <3> HIDE DEF w, record, index, at, m
    <3> QED
      BY <1>5
  <2>3. CASE w[k] = record(at(k))
    <3>1. w[k] = [key |-> w[k].key, val |-> w[k].val]
      BY <2>3
    <3> HIDE DEF w, record, index, at, m
    <3> QED
      BY <1>6, <2>1, <2>3, <3>1
  <2>4. CASE Grows(at(k)) /\ w[k] = index(at(k))
    <3>1. w[k] = [key |-> w[k].key, val |-> w[k].val]
      BY <2>4
    <3> HIDE DEF w, record, index, at, m
    <3> QED
      BY <1>6, <2>1, <2>4, <3>1
  <2> QED
    BY <2>2, <2>3, <2>4
<1>8. IsWrites(w) /\ Len(w) = m
  <2> HIDE DEF w, m, record, index
  <2> QED
    BY <1>1, <1>3, <1>7, ListedWrites
<1>9. ASSUME NEW n \in first .. last PROVE record(n) \in Ops(w)
  <2> DEFINE k == 2 * (n - first) + 1
  <2>1. k \in 1 .. m /\ at(k) = n /\ k % 2 # 0
    BY <1>1
  <2>2. w[k] = record(n)
    <3> HIDE DEF w, m, record, index, at, k
    <3> QED
      BY <1>5, <2>1
  <2> HIDE DEF w, m, record, index, k
  <2> QED
    BY <1>8, <2>1, <2>2 DEF Ops
<1>9a. ASSUME NEW n \in first .. last, Grows(n) PROVE index(n) \in Ops(w)
  <2> DEFINE k == 2 * (n - first) + 2
  <2>1. k \in 1 .. m /\ at(k) = n /\ k % 2 = 0
    BY <1>1
  <2>2. w[k] = index(n)
    <3> HIDE DEF w, m, record, index, at, k
    <3> QED
      BY <1>5, <1>9a, <2>1
  <2> HIDE DEF w, m, record, index, k
  <2> QED
    BY <1>8, <2>1, <2>2 DEF Ops
<1>10. ASSUME NEW op \in Ops(w) PROVE \E k \in 1 .. m : op = w[k]
  <2> HIDE DEF w, m
  <2> QED
    BY <1>8 DEF Ops
<1>11. Sound(w)
  <2> HIDE DEF w, m, record, index
  <2> QED
    BY <1>7, <1>8, <1>10 DEF Sound
<1>12. ASSUME NEW op \in Ops(w)
       PROVE  \E n \in first .. last : op = record(n) \/ (Grows(n) /\ op = index(n))
  <2>1. PICK k \in 1 .. m : op = w[k]
    BY <1>10
  <2>2. PICK n \in first .. last : w[k] = record(n) \/ (Grows(n) /\ w[k] = index(n))
    BY <1>7
  <2> HIDE DEF w, m, record, index
  <2> QED
    BY <2>1, <2>2
<1> QED
  BY <1>8, <1>9, <1>9a, <1>11, <1>12

\* The cache entries come after every key.
CacheLast(w) ==
  \A j, k \in 1 .. Len(w) : \A n \in Numbers :
    w[k].key = CacheEntry(n) /\ w[j].key \in Keys => j < k

LEMMA CacheWritesSound ==
  ASSUME NEW first, NEW last, Window(first, last)
  PROVE  /\ Sound(CacheWrites(first, last))
         /\ Ops(CacheWrites(first, last)) =
              {[key |-> CacheEntry(n), val |-> NewMeta(first, last, n)] : n \in first .. last}
<1> DEFINE w == CacheWrites(first, last)
           m == last - first + 1
           entry(n) == [key |-> CacheEntry(n), val |-> NewMeta(first, last, n)]
<1>1. /\ first \in Nat /\ last \in Nat /\ first <= last
      /\ m \in Nat /\ \A n \in first .. last : n \in Numbers
  BY Bounds DEF Window
<1>2. w = [k \in 1 .. m |-> w[k]]
  BY DEF CacheWrites
<1>3. \A k \in 1 .. m : first + k - 1 \in first .. last
  BY <1>1
<1>4. \A k \in 1 .. m : w[k] = entry(first + k - 1)
  BY DEF CacheWrites
<1>5. ASSUME NEW n \in first .. last
      PROVE  /\ entry(n).key \in AllKeys /\ MayHold(entry(n).key, entry(n).val)
             /\ entry(n) = [key |-> entry(n).key, val |-> entry(n).val]
  BY <1>1, NewMetaTyped, KeysAre, MayHoldPut
<1>6. IsWrites(w) /\ Len(w) = m
  <2> HIDE DEF w, m, entry
  <2>1. \A k \in 1 .. m : w[k] = [key |-> w[k].key, val |-> w[k].val] /\ w[k].key \in AllKeys
    BY <1>3, <1>4, <1>5
  <2> QED
    BY <1>1, <1>2, <2>1, ListedWrites
<1>7. \A n \in first .. last : n - first + 1 \in 1 .. m /\ first + (n - first + 1) - 1 = n
  BY <1>1
<1>8. Ops(w) = {entry(n) : n \in first .. last}
  <2> HIDE DEF w, m, entry
  <2>1. Ops(w) \subseteq {entry(n) : n \in first .. last}
    BY <1>3, <1>4, <1>6 DEF Ops
  <2>2. ASSUME NEW n \in first .. last PROVE entry(n) \in Ops(w)
    <3>1. w[n - first + 1] = entry(n)
      BY <1>4, <1>7
    <3> QED
      BY <1>6, <1>7, <3>1 DEF Ops
  <2> QED
    BY <2>1, <2>2
<1>9. Sound(w)
  <2> HIDE DEF w, m, entry
  <2> QED
    BY <1>5, <1>6, <1>8 DEF Sound
<1> QED
  BY <1>8, <1>9

\* No cache entry is written.
LEMMA CacheLastKeys ==
  ASSUME NEW w, \A op \in Ops(w) : \A n \in Numbers : op.key # CacheEntry(n)
  PROVE  CacheLast(w)
  BY DEF CacheLast, Ops

LEMMA CacheLastConcat ==
  ASSUME NEW u, NEW v, IsWrites(u), IsWrites(v), CacheLast(v),
         \A op \in Ops(u) : \A n \in Numbers : op.key # CacheEntry(n)
  PROVE  CacheLast(u \o v)
<1> DEFINE w == u \o v
<1>1. /\ Len(u) \in Nat /\ Len(v) \in Nat /\ Len(w) = Len(u) + Len(v)
      /\ \A k \in 1 .. Len(u) : w[k] = u[k]
      /\ \A k \in 1 .. Len(v) : w[Len(u) + k] = v[k]
  BY ConcatWrites
<1> HIDE DEF w
<1>2. SUFFICES ASSUME NEW j \in 1 .. Len(w), NEW k \in 1 .. Len(w), NEW n \in Numbers,
                      w[k].key = CacheEntry(n), w[j].key \in Keys
               PROVE  j < k
  BY DEF CacheLast, w
<1>3. ASSUME k <= Len(u) PROVE FALSE
  <2>1. w[k] \in Ops(u)
    BY <1>1, <1>3 DEF Ops
  <2> QED
    BY <1>2, <2>1
<1>4. k > Len(u) /\ k - Len(u) \in 1 .. Len(v) /\ w[k] = v[k - Len(u)]
  <2>1. k > Len(u) /\ k - Len(u) \in 1 .. Len(v) /\ Len(u) + (k - Len(u)) = k
    BY <1>1, <1>3
  <2> QED
    BY <1>1, <2>1
<1>5. CASE j <= Len(u)
  BY <1>1, <1>4, <1>5
<1>6. CASE j > Len(u)
  <2>1. j - Len(u) \in 1 .. Len(v) /\ w[j] = v[j - Len(u)]
    BY <1>1, <1>6
  <2>2. j - Len(u) < k - Len(u)
    BY <1>2, <1>4, <2>1 DEF CacheLast
  <2> QED
    BY <1>1, <2>2
<1> QED
  BY <1>1, <1>5, <1>6

\* Keys of different kinds, when one of them is a cache entry.
LEMMA CacheEntriesDiffer ==
  \A n : /\ \A i : CacheEntry(n) # Delayed(i) /\ CacheEntry(n) # Meta(i) /\ CacheEntry(n) # Sequenced(i)
         /\ CacheEntry(n) # DelayedCount /\ CacheEntry(n) # BatchCount /\ CacheEntry(n) # Log
  BY DEF CacheEntry, Delayed, Meta, Sequenced, DelayedCount, BatchCount, Log

\* The writes that record a window: which keys they touch, with which values.
RecordsWindow(w, first, last) ==
  /\ \A op \in Ops(w) : \A n \in Numbers :
       /\ op.key = Meta(n) => n >= first
       /\ op.key = Meta(n) /\ n <= last => op.val = NewMeta(first, last, n)
       /\ op.key = Meta(n) /\ n > last => op.val = Absent
       /\ op.key = CacheEntry(n) => n \in first .. last /\ op.val = NewMeta(first, last, n)
       /\ op.key = BatchCount => op.val = last + 1
       /\ op.key # DelayedCount /\ \A i : op.key # Delayed(i)
  /\ \A n \in first .. last : \E op \in Ops(w) : op.key = Meta(n)
  /\ \E op \in Ops(w) : op.key = BatchCount

LEMMA BatchWritesSound ==
  ASSUME NEW first, NEW last, Window(first, last)
  PROVE  /\ Sound(BatchWrites(first, last))
         /\ CacheLast(BatchWrites(first, last))
         /\ RecordsWindow(BatchWrites(first, last), first, last)
         /\ \A op \in Ops(BatchWrites(first, last)) : op.key # Log
<1> DEFINE a == MetaDeletes(last + 1)
           b == DeleteRange("sequenced", PrevMeta(first).delayed + 1, MaxDelayed)
           c == RecordWrites(first, last)
           d == Put(BatchCount, last + 1)
           e == CacheWrites(first, last)
           u == ((a \o b) \o c) \o d
<1>1. /\ first \in Nat /\ last \in Nat /\ first <= last /\ last + 1 \in 0 .. MaxBatches
      /\ \A n \in first .. last : n \in Numbers
  BY Bounds DEF Window
<1>2. Sound(a) /\ Ops(a) = {[key |-> Meta(n), val |-> Absent] : n \in last + 1 .. MaxBatches - 1}
  BY <1>1, SoundDeletes
<1>3. /\ Sound(b)
      /\ \A op \in Ops(b) : \E m \in 1 .. MaxDelayed : op.key = Sequenced(m)
  <2>1. PrevMeta(first).delayed \in 0 .. MaxDelayed
    BY DEF Window, BatchMetadata
  <2>2. PrevMeta(first).delayed + 1 \in 1 .. MaxDelayed + 1
    BY <2>1, Bounds
  <2>3. Sound(b)
        /\ Ops(b) = {[key |-> Sequenced(m), val |-> Absent] :
                       m \in PrevMeta(first).delayed + 1 .. MaxDelayed}
    BY <2>2, SoundDeletes
  <2>4. \A m \in PrevMeta(first).delayed + 1 .. MaxDelayed : m \in 1 .. MaxDelayed
    BY <2>1, Bounds
  <2> HIDE DEF b
  <2> QED
    BY <2>3, <2>4
<1>4. /\ Sound(c)
      /\ \A op \in Ops(c) : \E n \in first .. last :
           \/ op = [key |-> Meta(n), val |-> NewMeta(first, last, n)]
           \/ \E m : op.key = Sequenced(m)
      /\ \A n \in first .. last : [key |-> Meta(n), val |-> NewMeta(first, last, n)] \in Ops(c)
  BY RecordWritesSound
<1>5. Sound(d) /\ Ops(d) = {[key |-> BatchCount, val |-> last + 1]}
  BY <1>1, SoundPut, MayHoldPut, KeysAre
<1>6. Sound(e) /\ Ops(e) = {[key |-> CacheEntry(n), val |-> NewMeta(first, last, n)] : n \in first .. last}
  BY CacheWritesSound
<1>7. BatchWrites(first, last) = u \o e
  BY DEF BatchWrites
<1> HIDE DEF a, b, c, d, e
<1>8. Sound(u) /\ Ops(u) = Ops(a) \cup Ops(b) \cup Ops(c) \cup Ops(d)
  <2>1. Sound(a \o b) /\ Ops(a \o b) = Ops(a) \cup Ops(b)
    BY <1>2, <1>3, SoundConcat
  <2>2. Sound((a \o b) \o c) /\ Ops((a \o b) \o c) = Ops(a \o b) \cup Ops(c)
    BY <1>4, <2>1, SoundConcat
  <2>3. Sound(u) /\ Ops(u) = Ops((a \o b) \o c) \cup Ops(d)
    BY <1>5, <2>2, SoundConcat
  <2> QED
    BY <2>1, <2>2, <2>3
<1> HIDE DEF u
<1>9. Sound(u \o e) /\ Ops(u \o e) = Ops(u) \cup Ops(e)
  BY <1>6, <1>8, SoundConcat
<1>10. ASSUME NEW op \in Ops(u)
       PROVE  \/ \E n \in last + 1 .. MaxBatches - 1 : op = [key |-> Meta(n), val |-> Absent]
              \/ \E n \in first .. last : op = [key |-> Meta(n), val |-> NewMeta(first, last, n)]
              \/ \E m : op.key = Sequenced(m)
              \/ op = [key |-> BatchCount, val |-> last + 1]
  BY <1>2, <1>3, <1>4, <1>5, <1>8
<1>11. ASSUME NEW op \in Ops(u), NEW n \in Numbers
       PROVE  /\ op.key # CacheEntry(n)
              /\ op.key = Meta(n) => n >= first
              /\ op.key = Meta(n) /\ n <= last => op.val = NewMeta(first, last, n)
              /\ op.key = Meta(n) /\ n > last => op.val = Absent
              /\ op.key = BatchCount => op.val = last + 1
              /\ op.key # DelayedCount /\ \A i : op.key # Delayed(i)
  <2>1. CASE \E m \in last + 1 .. MaxBatches - 1 : op = [key |-> Meta(m), val |-> Absent]
    <3>1. PICK m \in last + 1 .. MaxBatches - 1 : op = [key |-> Meta(m), val |-> Absent]
      BY <2>1
    <3>2. op.key = Meta(m) /\ op.val = Absent
      BY <3>1
    <3>3. op.key = Meta(n) => n = m
      BY <3>2, KeysDiffer
    <3> QED
      BY <1>1, <3>2, <3>3, KeysDiffer, CacheEntriesDiffer, Bounds
  <2>2. CASE \E m \in first .. last : op = [key |-> Meta(m), val |-> NewMeta(first, last, m)]
    <3>1. PICK m \in first .. last : op = [key |-> Meta(m), val |-> NewMeta(first, last, m)]
      BY <2>2
    <3>2. op.key = Meta(m) /\ op.val = NewMeta(first, last, m)
      BY <3>1
    <3>3. op.key = Meta(n) => n = m
      BY <3>2, KeysDiffer
    <3> QED
      BY <1>1, <3>2, <3>3, KeysDiffer, CacheEntriesDiffer
  <2>3. CASE \E m : op.key = Sequenced(m)
    BY <2>3, KeysDiffer, CacheEntriesDiffer
  <2>4. CASE op = [key |-> BatchCount, val |-> last + 1]
    <3>1. op.key = BatchCount /\ op.val = last + 1
      BY <2>4
    <3> QED
      BY <3>1, KeysDiffer, CacheEntriesDiffer
  <2> QED
    BY <1>10, <2>1, <2>2, <2>3, <2>4
<1>12. ASSUME NEW op \in Ops(e)
       PROVE  \E n \in first .. last : op.key = CacheEntry(n) /\ op.val = NewMeta(first, last, n)
  BY <1>6
<1>13. CacheLast(u \o e)
  <2>1. CacheLast(e)
    <3>1. \A k \in 1 .. Len(e) : e[k].key \notin Keys
      <4>1. \A k \in 1 .. Len(e) : e[k] \in Ops(e)
        BY DEF Ops
      <4> QED
        BY <1>12, <4>1, KeysDiffer
    <3> QED
      BY <3>1 DEF CacheLast
  <2> QED
    BY <1>6, <1>8, <1>11, <2>1, CacheLastConcat DEF Sound
<1>14. RecordsWindow(u \o e, first, last)
  <2>1. ASSUME NEW op \in Ops(u \o e), NEW n \in Numbers
        PROVE  /\ op.key = Meta(n) => n >= first
               /\ op.key = Meta(n) /\ n <= last => op.val = NewMeta(first, last, n)
               /\ op.key = Meta(n) /\ n > last => op.val = Absent
               /\ op.key = CacheEntry(n) => n \in first .. last /\ op.val = NewMeta(first, last, n)
               /\ op.key = BatchCount => op.val = last + 1
               /\ op.key # DelayedCount /\ \A i : op.key # Delayed(i)
    <3>1. CASE op \in Ops(u)
      BY <1>11, <3>1
    <3>2. CASE op \in Ops(e)
      <4>1. PICK m \in first .. last : op.key = CacheEntry(m) /\ op.val = NewMeta(first, last, m)
        BY <1>12, <3>2
      <4>2. op.key = CacheEntry(n) => n = m
        BY <4>1, KeysDiffer
      <4> QED
        BY <4>1, <4>2, CacheEntriesDiffer
    <3> QED
      BY <1>9, <3>1, <3>2
  <2>2. ASSUME NEW n \in first .. last PROVE \E op \in Ops(u \o e) : op.key = Meta(n)
    <3>1. [key |-> Meta(n), val |-> NewMeta(first, last, n)] \in Ops(u \o e)
      BY <1>4, <1>8, <1>9
    <3> QED
      BY <3>1
  <2>3. \E op \in Ops(u \o e) : op.key = BatchCount
    <3>1. [key |-> BatchCount, val |-> last + 1] \in Ops(u \o e)
      BY <1>5, <1>8, <1>9
    <3> QED
      BY <3>1
  <2> QED
    BY <2>1, <2>2, <2>3 DEF RecordsWindow
<1>15. ASSUME NEW op \in Ops(u \o e) PROVE op.key # Log
  <2>1. \/ \E n : op.key = Meta(n)
        \/ \E m : op.key = Sequenced(m)
        \/ \E n : op.key = CacheEntry(n)
        \/ op.key = BatchCount
    BY <1>9, <1>10, <1>12
  <2> QED
    BY <2>1, KeysDiffer, CacheEntriesDiffer
<1> QED
  BY <1>7, <1>9, <1>13, <1>14, <1>15

LEMMA WindowWritesSound ==
  ASSUME NEW first, NEW last, NEW out, Window(first, last)
  PROVE  /\ Sound(WindowWrites(first, last, out))
         /\ CacheLast(WindowWrites(first, last, out))
         /\ IF Accepted(first, last)
            THEN RecordsWindow(WindowWrites(first, last, out), first, last)
            ELSE \A op \in Ops(WindowWrites(first, last, out)) : op.key = Log
<1> DEFINE l == Put(Log, db[Log] \o out)
           r == IF Accepted(first, last) THEN BatchWrites(first, last) ELSE <<>>
           w == l \o r
<1>1. Sound(l) /\ Ops(l) = {[key |-> Log, val |-> db[Log] \o out]}
  BY SoundPut, MayHoldPut, KeysAre
<1>2. \A op \in Ops(l) : op.key = Log
  BY <1>1
<1>3. \A op \in Ops(l) : \A n \in Numbers : op.key # CacheEntry(n)
  BY <1>2, CacheEntriesDiffer
<1>4. Sound(r) /\ CacheLast(r)
  <2>1. Sound(<<>>) /\ CacheLast(<<>>)
    BY NoWrites, CacheLastKeys DEF Sound
  <2> QED
    BY <2>1, BatchWritesSound
<1>5. WindowWrites(first, last, out) = w
  BY DEF WindowWrites
<1> HIDE DEF l
<1>6. Sound(w) /\ Ops(w) = Ops(l) \cup Ops(r)
  <2> HIDE DEF r
  <2> QED
    BY <1>1, <1>4, SoundConcat
<1>7. CacheLast(w)
  <2> HIDE DEF r
  <2> QED
    BY <1>1, <1>3, <1>4, CacheLastConcat DEF Sound
<1>8. ASSUME Accepted(first, last) PROVE RecordsWindow(w, first, last)
  <2>1. r = BatchWrites(first, last)
    BY <1>8
  <2> HIDE DEF r, w
  <2>2. RecordsWindow(r, first, last)
    BY <2>1, BatchWritesSound
  <2>3. \A op \in Ops(l) : /\ op.key # BatchCount /\ op.key # DelayedCount
                           /\ \A n : op.key # Meta(n) /\ op.key # CacheEntry(n) /\ op.key # Delayed(n)
    BY <1>2, KeysDiffer, CacheEntriesDiffer
  <2> QED
    BY <1>6, <2>2, <2>3 DEF RecordsWindow
<1>9. ASSUME ~ Accepted(first, last) PROVE \A op \in Ops(w) : op.key = Log
  <2>1. Ops(r) = {}
    BY <1>9, NoWrites
  <2> HIDE DEF r, w
  <2> QED
    BY <1>2, <1>6, <2>1
<1> QED
  BY <1>5, <1>6, <1>7, <1>8, <1>9

(***************************************************************************)
(* The cache.                                                              *)
(***************************************************************************)

\* A cached entry is the store's, is below the count, and no write of the call under
\* way touches it or lowers the count to it.
EntryHolds(n) ==
  cache[n] # Absent =>
    /\ cache[n] = db[Meta(n)]
    /\ n < db[BatchCount]
    /\ \A op \in Ops(todo) : op.key # Meta(n) /\ (op.key = BatchCount => op.val > n)

\* An entry that is still to be cached is what the store will hold by then.
EntryToCome(n) ==
  \A op \in Ops(todo) : op.key = CacheEntry(n) =>
    /\ \A other \in Ops(todo) :
         /\ other.key = Meta(n) => other.val = op.val
         /\ other.key = BatchCount => other.val > n
    /\ db[Meta(n)] = op.val \/ \E other \in Ops(todo) : other.key = Meta(n)
    /\ db[BatchCount] > n \/ \E other \in Ops(todo) : other.key = BatchCount

CacheInv ==
  /\ Typed
  /\ CacheLast(todo)
  /\ \A n \in Numbers : EntryHolds(n) /\ EntryToCome(n)

LEMMA NothingLeft ==
  ASSUME NEW w, w = <<>>
  PROVE  Sound(w) /\ CacheLast(w) /\ Ops(w) = {}
  BY NoWrites, CacheLastKeys DEF Sound

LEMMA TailWrites ==
  ASSUME NEW w, Sound(w), CacheLast(w), w # <<>>
  PROVE  /\ w[1] \in Ops(w) /\ w[1].key \in AllKeys /\ MayHold(w[1].key, w[1].val)
         /\ Sound(Tail(w)) /\ CacheLast(Tail(w))
         /\ Ops(w) = {w[1]} \cup Ops(Tail(w))
         /\ w[1].key \notin Keys => \A op \in Ops(w) : op.key \notin Keys
<1>1. PICK V : w \in Seq([key : AllKeys, val : V])
  BY DEF Sound, IsWrites
<1> DEFINE S == [key : AllKeys, val : V]
           t == Tail(w)
<1> HIDE DEF S
<1>2. w[1] \in S
  <2>1. w \in Seq(S)
    BY <1>1 DEF S
  <2> QED
    BY <2>1
<1>3. /\ Len(w) \in Nat /\ Len(w) >= 1 /\ t \in Seq(S) /\ Len(t) = Len(w) - 1
      /\ \A k \in 1 .. Len(t) : t[k] = w[k + 1]
  <2>1. w \in Seq(S)
    BY <1>1 DEF S
  <2> QED
    BY <2>1
<1> HIDE DEF t
<1>4. w[1] \in Ops(w)
  BY <1>3 DEF Ops
<1>5. w[1].key \in AllKeys
  BY <1>2 DEF S
<1>6. Ops(w) = {w[1]} \cup Ops(t)
  <2>1. ASSUME NEW k \in 1 .. Len(w), k # 1 PROVE w[k] \in Ops(t)
    <3>1. k - 1 \in 1 .. Len(t) /\ (k - 1) + 1 = k
      BY <1>3, <2>1
    <3>2. w[k] = t[k - 1]
      BY <1>3, <3>1
    <3> QED
      BY <3>1, <3>2 DEF Ops
  <2>2. ASSUME NEW k \in 1 .. Len(t) PROVE t[k] \in Ops(w)
    <3>1. k + 1 \in 1 .. Len(w) /\ t[k] = w[k + 1]
      BY <1>3
    <3> QED
      BY <3>1 DEF Ops
  <2>3. Ops(w) \subseteq {w[1]} \cup Ops(t)
    BY <2>1 DEF Ops
  <2>4. Ops(t) \subseteq Ops(w)
    BY <2>2 DEF Ops
  <2> QED
    BY <1>4, <2>3, <2>4
<1>7. Sound(t)
  <2>1. IsWrites(t)
    BY <1>3 DEF IsWrites, S
  <2> QED
    BY <1>6, <2>1 DEF Sound
<1>8. CacheLast(t)
  <2>1. SUFFICES ASSUME NEW j \in 1 .. Len(t), NEW k \in 1 .. Len(t), NEW n \in Numbers,
                        t[k].key = CacheEntry(n), t[j].key \in Keys
                 PROVE  j < k
    BY DEF CacheLast
  <2>2. j + 1 \in 1 .. Len(w) /\ k + 1 \in 1 .. Len(w) /\ t[j] = w[j + 1] /\ t[k] = w[k + 1]
    BY <1>3
  <2>3. j + 1 < k + 1
    BY <2>1, <2>2 DEF CacheLast
  <2> QED
    BY <1>3, <2>3
<1>9. ASSUME w[1].key \notin Keys, NEW op \in Ops(w), op.key \in Keys PROVE FALSE
  <2>1. PICK n \in Numbers : w[1].key = CacheEntry(n)
    BY <1>5, <1>9 DEF AllKeys
  <2>2. PICK k \in 1 .. Len(w) : op = w[k]
    BY DEF Ops
  <2>3. k < 1
    BY <1>3, <1>9, <2>1, <2>2 DEF CacheLast
  <2> QED
    BY <1>3, <2>2, <2>3
<1>10. MayHold(w[1].key, w[1].val)
  BY <1>4 DEF Sound
<1> QED
  BY <1>4, <1>5, <1>6, <1>7, <1>8, <1>9, <1>10 DEF t

LEMMA InitCache == Init => CacheInv
<1> SUFFICES ASSUME Init PROVE CacheInv
  OBVIOUS
<1>1. L1Typed
  <2>1. <<>> \in Seq(Bodies) /\ <<>> \in Seq(Batches) /\ Len(<<>>) = 0
    OBVIOUS
  <2> QED
    BY <2>1, Bounds DEF Init, L1Typed
<1>2. StoreTyped
  <2>1. db = [key \in Keys |-> db[key]]
    BY DEF Init
  <2>2. \A key \in Keys : db[key] = CASE key \in {DelayedCount, BatchCount} -> 0
                                     [] key = Log -> <<>>
                                     [] OTHER -> Absent
    BY DEF Init
  <2>3. ASSUME NEW key \in Keys, key \notin {DelayedCount, BatchCount, Log}
        PROVE  db[key] = Absent
    BY <2>2, <2>3
  <2>4. ASSUME NEW key \in {DelayedCount, BatchCount} PROVE db[key] = 0
    <3>1. key \in Keys
      BY KeysAre
    <3> QED
      BY <2>2, <3>1, KeysDiffer
  <2>5. ASSUME NEW key \in Keys PROVE MayHold(key, db[key])
    <3>1. CASE key = DelayedCount
      BY <2>4, <3>1, MayHoldPut, Bounds
    <3>2. CASE key = BatchCount
      BY <2>4, <3>2, MayHoldPut, Bounds
    <3>3. CASE key = Log
      BY <3>3, MayHoldPut
    <3>4. CASE key \notin {DelayedCount, BatchCount, Log}
      BY <2>3, <3>4, KeysDiffer DEF MayHold
    <3> QED
      BY <3>1, <3>2, <3>3, <3>4
  <2> QED
    BY <2>1, <2>5 DEF StoreTyped
<1>3. CacheTyped /\ UsedTyped
  BY DEF Init, CacheTyped, UsedTyped
<1>4. todo = <<>>
  BY DEF Init
<1>5. \A n \in Numbers : cache[n] = Absent
  BY DEF Init
<1>6. Sound(todo) /\ CacheLast(todo) /\ Ops(todo) = {}
  BY <1>4, NothingLeft
<1> QED
  BY <1>1, <1>2, <1>3, <1>5, <1>6 DEF CacheInv, Typed, EntryHolds, EntryToCome

\* L1 keeps its types, whatever it does.
LEMMA L1StepTyped ==
  ASSUME L1Typed,
         \/ \E body \in Bodies : L1Delayed(body)
         \/ \E segs \in Contents, after \in 0 .. MaxDelayed : L1Batch(segs, after)
         \/ \E d \in 0 .. MaxDelayed, n \in 0 .. MaxBatches : L1Reorg(d, n)
  PROVE  L1Typed'
<1>1. /\ l1.delayed \in Seq(Bodies) /\ l1.batches \in Seq(Batches)
      /\ l1 = [delayed |-> l1.delayed, batches |-> l1.batches]
      /\ Len(l1.delayed) \in 0 .. MaxDelayed /\ Len(l1.batches) \in 0 .. MaxBatches
  BY DEF L1Typed
<1>2. ASSUME NEW d \in 0 .. Len(l1.delayed)
      PROVE  DelayedAcc(d) \in Seq(Bodies) /\ Len(DelayedAcc(d)) = d
  BY <1>1 DEF DelayedAcc
<1>3. ASSUME NEW n \in 0 .. Len(l1.batches)
      PROVE  BatchAcc(n) \in Seq(Batches) /\ Len(BatchAcc(n)) = n
  BY <1>1 DEF BatchAcc
<1>4. ASSUME NEW body \in Bodies, L1Delayed(body) PROVE L1Typed'
  <2> DEFINE more == Append(l1.delayed, body)
  <2>1. more \in Seq(Bodies) /\ Len(more) = Len(l1.delayed) + 1
    BY <1>1
  <2>2. Len(more) \in 0 .. MaxDelayed
    BY <1>1, <1>4, <2>1, Bounds DEF L1Delayed
  <2>3. l1' = [delayed |-> more, batches |-> l1.batches]
    <3>1. l1' = [l1 EXCEPT !.delayed = more]
      BY <1>4 DEF L1Delayed
    <3> HIDE DEF more
    <3> QED
      BY <1>1, <3>1
  <2> HIDE DEF more
  <2> QED
    BY <1>1, <2>1, <2>2, <2>3 DEF L1Typed
<1>5. ASSUME NEW segs \in Contents, NEW after \in 0 .. MaxDelayed, L1Batch(segs, after)
      PROVE  L1Typed'
  <2> DEFINE new == [id |-> Len(l1.batches), segs |-> segs, after |-> after,
                     delayedAcc |-> DelayedAcc(after)]
             more == Append(l1.batches, new)
  <2>1. new \in Batches
    <3>1. after \in 0 .. Len(l1.delayed)
      BY <1>5 DEF L1Batch
    <3>2. DelayedAcc(after) \in Seq(Bodies) /\ Len(l1.batches) \in Nat
      BY <1>1, <1>2, <3>1, Bounds
    <3> QED
      BY <3>2 DEF Batches
  <2> HIDE DEF new
  <2>2. more \in Seq(Batches) /\ Len(more) = Len(l1.batches) + 1
    BY <1>1, <2>1
  <2>3. Len(more) \in 0 .. MaxBatches
    BY <1>1, <1>5, <2>2, Bounds DEF L1Batch
  <2>4. l1' = [delayed |-> l1.delayed, batches |-> more]
    <3>1. l1' = [l1 EXCEPT !.batches = more]
      BY <1>5 DEF L1Batch, new
    <3> HIDE DEF more
    <3> QED
      BY <1>1, <3>1
  <2> HIDE DEF more
  <2> QED
    BY <1>1, <2>2, <2>3, <2>4 DEF L1Typed
<1>6. ASSUME NEW d \in 0 .. MaxDelayed, NEW n \in 0 .. MaxBatches, L1Reorg(d, n)
      PROVE  L1Typed'
  <2>1. d \in 0 .. Len(l1.delayed) /\ n \in 0 .. Len(l1.batches)
    BY <1>1, <1>6, Bounds DEF L1Reorg
  <2>2. /\ DelayedAcc(d) \in Seq(Bodies) /\ Len(DelayedAcc(d)) = d
        /\ BatchAcc(n) \in Seq(Batches) /\ Len(BatchAcc(n)) = n
    BY <1>2, <1>3, <2>1
  <2>3. l1' = [delayed |-> DelayedAcc(d), batches |-> BatchAcc(n)]
    BY <1>6 DEF L1Reorg
  <2>4. l1'.delayed = DelayedAcc(d) /\ l1'.batches = BatchAcc(n)
    BY <2>3
  <2> QED
    BY <2>2, <2>3, <2>4 DEF L1Typed
<1> QED
  BY <1>4, <1>5, <1>6

\* A call that writes no batch key and no cache entry, or rolls batches back.
LEMMA SetDelayedKeeps ==
  ASSUME CacheInv, Idle, NEW first \in 0 .. MaxDelayed, NEW count \in 0 .. MaxDelayed,
         NEW puts, Sound(puts), \A op \in Ops(puts) : \E i : op.key = Delayed(i),
         SetDelayedCount(first, count, puts), db' = db
  PROVE  /\ Sound(todo') /\ CacheLast(todo') /\ CacheTyped'
         /\ \A n \in Numbers : EntryHolds(n)' /\ EntryToCome(n)'
<1> DEFINE writes == DelayedWrites(first, count, puts)
<1>0. StoreTyped /\ CacheTyped /\ \A n \in Numbers : EntryHolds(n)
  BY DEF CacheInv, Typed
<1>1. Sound(writes)
  BY DelayedWritesSound
<1>2. ASSUME NEW op \in Ops(writes)
      PROVE  /\ op.key # BatchCount
             /\ \A n : op.key # Meta(n) /\ op.key # CacheEntry(n)
  <2>1. \/ \E i : op.key = Delayed(i)
        \/ op.key = DelayedCount
        \/ \E c : op.key = Sequenced(c)
    <3>1. \/ op \in Ops(puts)
          \/ op \in {[key |-> Delayed(i), val |-> Absent] : i \in count .. MaxDelayed - 1}
          \/ op \in {[key |-> DelayedCount, val |-> count]}
          \/ op \in {[key |-> Sequenced(c), val |-> Absent] : c \in first + 1 .. MaxDelayed}
      BY DelayedWritesSound
    <3> QED
      BY <3>1
  <2> QED
    BY <2>1, KeysDiffer, CacheEntriesDiffer
<1>3. CASE FirstSequenced(first) = {}
  <2>1. todo' = writes /\ cache' = cache
    BY <1>3 DEF SetDelayedCount
  <2> HIDE DEF writes
  <2>2. CacheLast(writes)
    BY <1>2, CacheLastKeys
  <2>3. \A n \in Numbers : EntryHolds(n)' /\ EntryToCome(n)'
    BY <1>0, <1>2, <2>1 DEF EntryHolds, EntryToCome
  <2> QED
    BY <1>0, <1>1, <2>1, <2>2, <2>3 DEF CacheTyped
<1>4. CASE FirstSequenced(first) # {}
  <2>1. PICK n \in FirstSequenced(first) :
               /\ todo' = MetaDeletes(n) \o writes \o Put(BatchCount, n)
               /\ cache' = CacheBelow(n)
    BY <1>4 DEF SetDelayedCount
  <2>2. n \in Numbers
    BY <1>0, FirstSequencedIs
  <2>3. /\ Sound(todo')
        /\ Ops(todo') = Ops(writes)
                        \cup {[key |-> Meta(m), val |-> Absent] : m \in n .. MaxBatches - 1}
                        \cup {[key |-> BatchCount, val |-> n]}
    BY <2>1, <2>2, RollbackSound
  <2> HIDE DEF writes
  <2>4. ASSUME NEW op \in Ops(todo'), NEW m \in Numbers
        PROVE  /\ op.key # CacheEntry(m)
               /\ op.key = Meta(m) => m >= n
               /\ op.key = BatchCount => op.val = n
    <3>1. CASE op \in Ops(writes)
      BY <1>2, <3>1
    <3>2. CASE op \in {[key |-> Meta(k), val |-> Absent] : k \in n .. MaxBatches - 1}
      <4>1. PICK k \in n .. MaxBatches - 1 : op = [key |-> Meta(k), val |-> Absent]
        BY <3>2
      <4>2. op.key = Meta(k) /\ k >= n
        BY <2>2, <4>1, Bounds
      <4> QED
        BY <4>2, KeysDiffer, CacheEntriesDiffer
    <3>3. CASE op = [key |-> BatchCount, val |-> n]
      <4>1. op.key = BatchCount /\ op.val = n
        BY <3>3
      <4> QED
        BY <4>1, KeysDiffer, CacheEntriesDiffer
    <3> QED
      BY <2>3, <3>1, <3>2, <3>3
  <2>5. CacheLast(todo')
    BY <2>4, CacheLastKeys
  <2>6. cache' = [m \in Numbers |-> IF m >= n /\ db[Meta(m)] # Absent THEN Absent ELSE cache[m]]
    BY <2>1 DEF CacheBelow
  <2>7. CacheTyped'
    BY <1>0, <2>6 DEF CacheTyped
  <2>8. ASSUME NEW m \in Numbers PROVE EntryHolds(m)' /\ EntryToCome(m)'
    <3>1. cache'[m] # Absent => cache'[m] = cache[m] /\ m < n
      <4>1. cache'[m] = IF m >= n /\ db[Meta(m)] # Absent THEN Absent ELSE cache[m]
        BY <2>6
      <4>2. cache[m] # Absent => db[Meta(m)] # Absent
        BY <1>0 DEF EntryHolds
      <4> QED
        BY <2>2, <4>1, <4>2, Bounds
    <3>2. EntryHolds(m)'
      <4> SUFFICES ASSUME cache'[m] # Absent
                   PROVE  /\ cache'[m] = db'[Meta(m)]
                          /\ m < db'[BatchCount]
                          /\ \A op \in Ops(todo') :
                               op.key # Meta(m) /\ (op.key = BatchCount => op.val > m)
        BY DEF EntryHolds
      <4>1. cache'[m] = cache[m] /\ m < n
        BY <3>1
      <4>2. cache[m] = db[Meta(m)] /\ m < db[BatchCount]
        BY <1>0, <4>1 DEF EntryHolds
      <4> QED
        BY <2>2, <2>4, <4>1, <4>2, Bounds
    <3>3. EntryToCome(m)'
      BY <2>4 DEF EntryToCome
    <3> QED
      BY <3>2, <3>3
  <2> QED
    BY <2>3, <2>5, <2>7, <2>8
<1> QED
  BY <1>3, <1>4

LEMMA WriteKeyKeeps ==
  ASSUME CacheInv, WriteKey
  PROVE  CacheInv'
<1> DEFINE op == todo[1]
           rest == Tail(todo)
<1>0. /\ L1Typed /\ StoreTyped /\ CacheTyped /\ Sound(todo) /\ UsedTyped /\ CacheLast(todo)
      /\ \A n \in Numbers : EntryHolds(n) /\ EntryToCome(n)
  BY DEF CacheInv, Typed
<1>1. todo # <<>> /\ todo' = rest /\ l1' = l1 /\ used' = used
  BY DEF WriteKey
<1>2. /\ op \in Ops(todo) /\ op.key \in AllKeys /\ MayHold(op.key, op.val)
      /\ Sound(rest) /\ CacheLast(rest)
      /\ Ops(todo) = {op} \cup Ops(rest)
      /\ op.key \notin Keys => \A other \in Ops(todo) : other.key \notin Keys
  BY <1>0, <1>1, TailWrites
<1>3. L1Typed' /\ UsedTyped'
  BY <1>0, <1>1 DEF L1Typed, UsedTyped
<1>4. CASE op.key \in Keys
  <2>1. cache' = cache /\ db' = [db EXCEPT ![op.key] = op.val]
    <3>1. op.key[1] # "cache"
      BY <1>4, KeysDiffer
    <3> QED
      BY <3>1 DEF WriteKey
  <2> HIDE DEF op, rest
  <2>2. /\ db' = [key \in Keys |-> db'[key]]
        /\ \A key \in Keys : db'[key] = IF key = op.key THEN op.val ELSE db[key]
    BY <1>0, <2>1 DEF StoreTyped
  <2>3. StoreTyped'
    BY <1>0, <1>2, <2>2 DEF StoreTyped
  <2>4. ASSUME NEW n \in Numbers PROVE EntryHolds(n)'
    <3>1. EntryHolds(n) /\ Meta(n) \in Keys /\ BatchCount \in Keys
      BY <1>0, KeysAre
    <3> QED
      BY <1>1, <1>2, <2>1, <2>2, <3>1 DEF EntryHolds
  <2>5. ASSUME NEW n \in Numbers PROVE EntryToCome(n)'
    <3>1. EntryToCome(n) /\ Meta(n) \in Keys /\ BatchCount \in Keys
      BY <1>0, KeysAre
    <3>2. SUFFICES ASSUME NEW entry \in Ops(rest), entry.key = CacheEntry(n)
                   PROVE  /\ \A other \in Ops(rest) :
                               /\ other.key = Meta(n) => other.val = entry.val
                               /\ other.key = BatchCount => other.val > n
                          /\ db'[Meta(n)] = entry.val \/ \E other \in Ops(rest) : other.key = Meta(n)
                          /\ db'[BatchCount] > n \/ \E other \in Ops(rest) : other.key = BatchCount
      BY <1>1 DEF EntryToCome
    <3>3. /\ \A other \in Ops(todo) :
               /\ other.key = Meta(n) => other.val = entry.val
               /\ other.key = BatchCount => other.val > n
          /\ db[Meta(n)] = entry.val \/ \E other \in Ops(todo) : other.key = Meta(n)
          /\ db[BatchCount] > n \/ \E other \in Ops(todo) : other.key = BatchCount
      BY <1>2, <3>1, <3>2 DEF EntryToCome
    <3>4. db'[Meta(n)] = entry.val \/ \E other \in Ops(rest) : other.key = Meta(n)
      BY <1>2, <2>2, <3>1, <3>3
    <3>5. db'[BatchCount] > n \/ \E other \in Ops(rest) : other.key = BatchCount
      BY <1>2, <2>2, <3>1, <3>3
    <3> QED
      BY <1>2, <3>3, <3>4, <3>5
  <2> QED
    BY <1>0, <1>1, <1>2, <1>3, <2>1, <2>3, <2>4, <2>5 DEF CacheInv, Typed, CacheTyped
<1>5. CASE op.key \notin Keys
  <2>1. PICK n \in Numbers : op.key = CacheEntry(n)
    BY <1>2, <1>5 DEF AllKeys
  <2>2. op.key[1] = "cache" /\ op.key[2] = n
    BY <2>1, KeysDiffer
  <2>3. db' = db /\ cache' = [cache EXCEPT ![n] = op.val]
    BY <2>2 DEF WriteKey
  <2> HIDE DEF op, rest
  <2>4. \A other \in Ops(todo) : other.key # BatchCount /\ \A m \in Numbers : other.key # Meta(m)
    BY <1>2, <1>5, KeysAre
  <2>5. op.val \in BatchMetadata
    BY <1>2, <2>1 DEF MayHold
  <2>6. CacheTyped' /\ StoreTyped'
    BY <1>0, <2>3, <2>5 DEF CacheTyped, StoreTyped
  <2>7. db[Meta(n)] = op.val /\ db[BatchCount] > n
    BY <1>0, <1>2, <2>1, <2>4 DEF EntryToCome
  <2>8. ASSUME NEW m \in Numbers PROVE EntryHolds(m)'
    <3>1. EntryHolds(m) /\ cache'[m] = IF m = n THEN op.val ELSE cache[m]
      BY <1>0, <2>3 DEF CacheTyped
    <3>2. n < db[BatchCount]
      BY <1>0, <2>7, StoredValues, Bounds
    <3> QED
      BY <1>1, <1>2, <2>3, <2>4, <2>7, <3>1, <3>2 DEF EntryHolds
  <2>9. ASSUME NEW m \in Numbers PROVE EntryToCome(m)'
    <3>1. EntryToCome(m)
      BY <1>0
    <3> QED
      BY <1>1, <1>2, <2>3, <2>4, <3>1 DEF EntryToCome
  <2> QED
    BY <1>1, <1>2, <1>3, <2>6, <2>8, <2>9 DEF CacheInv, Typed
<1> QED
  BY <1>4, <1>5

LEMMA AddBatchesKeeps ==
  ASSUME CacheInv, NEW last \in Numbers, AddBatches(last)
  PROVE  CacheInv'
<1> DEFINE first == db[BatchCount]
           w == WindowWrites(first, last, Resolved(Stream(first, last).out, KnownBodies))
<1>0. /\ L1Typed /\ StoreTyped /\ CacheTyped /\ UsedTyped
      /\ \A n \in Numbers : EntryHolds(n)
  BY DEF CacheInv, Typed
<1>1. /\ Repaired = first /\ first <= last /\ last < Len(l1.batches)
      /\ l1' = l1 /\ db' = db /\ used' = used /\ todo' = w
      /\ cache' = [n \in Numbers |->
                     IF Accepted(first, last) /\ n > last /\ db[Meta(n)] # Absent THEN Absent
                     ELSE IF n = first - 1 THEN get_batch_metadata(n)
                     ELSE cache[n]]
  BY DEF AddBatches, Streamable
<1>2. first \in Numbers
  BY <1>0, <1>1, StoredValues, Bounds
<1>3. Window(first, last)
  BY <1>0, <1>1, <1>2, PrevMetaTyped DEF Window
<1>4. /\ Sound(todo') /\ CacheLast(todo')
      /\ IF Accepted(first, last) THEN RecordsWindow(todo', first, last)
         ELSE \A op \in Ops(todo') : op.key = Log
  BY <1>1, <1>3, WindowWritesSound
<1> HIDE DEF w
<1>5. ASSUME NEW n \in Numbers, n = first - 1
      PROVE  get_batch_metadata(n) = db[Meta(n)] /\ db[Meta(n)] \in BatchMetadata
  <2>1. EntryHolds(n)
    BY <1>0
  <2>2. get_batch_metadata(n) = db[Meta(n)]
    BY <2>1 DEF EntryHolds, get_batch_metadata
  <2>3. first > 0 => db[Meta(first - 1)] # Absent
    BY <1>0, <1>1, RepairedIs
  <2> QED
    BY <1>0, <1>2, <1>5, <2>2, <2>3, StoredValues, Bounds
<1>6. CacheTyped'
  <2>1. \A n \in Numbers : cache[n] \in BatchMetadata \cup {Absent}
    BY <1>0 DEF CacheTyped
  <2>2. \A n \in Numbers : n = first - 1 => get_batch_metadata(n) \in BatchMetadata
    BY <1>5
  <2> QED
    BY <1>1, <2>1, <2>2 DEF CacheTyped
<1>7. ASSUME NEW n \in Numbers, cache'[n] # Absent
      PROVE  cache'[n] = db[Meta(n)] /\ n < first
  <2>1. EntryHolds(n)
    BY <1>0
  <2>2. cache'[n] = cache[n] \/ (n = first - 1 /\ cache'[n] = get_batch_metadata(n))
    BY <1>1, <1>7
  <2>3. CASE cache'[n] = cache[n]
    BY <1>7, <2>1, <2>3 DEF EntryHolds
  <2>4. CASE n = first - 1 /\ cache'[n] = get_batch_metadata(n)
    BY <1>2, <1>5, <2>4, Bounds
  <2> QED
    BY <2>2, <2>3, <2>4
<1>8. CASE Accepted(first, last)
  <2>1. RecordsWindow(todo', first, last)
    BY <1>4, <1>8
  <2>2. ASSUME NEW n \in Numbers PROVE EntryHolds(n)'
    <3>1. SUFFICES ASSUME cache'[n] # Absent
                   PROVE  /\ cache'[n] = db'[Meta(n)]
                          /\ n < db'[BatchCount]
                          /\ \A op \in Ops(todo') :
                               op.key # Meta(n) /\ (op.key = BatchCount => op.val > n)
      BY DEF EntryHolds
    <3>2. cache'[n] = db[Meta(n)] /\ n < first
      BY <1>7, <3>1
    <3>3. ASSUME NEW op \in Ops(todo')
          PROVE  op.key # Meta(n) /\ (op.key = BatchCount => op.val > n)
      <4>1. (op.key = Meta(n) => n >= first) /\ (op.key = BatchCount => op.val = last + 1)
        BY <2>1 DEF RecordsWindow
      <4> QED
        BY <1>1, <1>2, <3>2, <4>1, Bounds
    <3> QED
      BY <1>1, <3>2, <3>3
  <2>3. ASSUME NEW n \in Numbers PROVE EntryToCome(n)'
    <3>1. SUFFICES ASSUME NEW op \in Ops(todo'), op.key = CacheEntry(n)
                   PROVE  /\ \A other \in Ops(todo') :
                               /\ other.key = Meta(n) => other.val = op.val
                               /\ other.key = BatchCount => other.val > n
                          /\ \E other \in Ops(todo') : other.key = Meta(n)
                          /\ \E other \in Ops(todo') : other.key = BatchCount
      BY DEF EntryToCome
    <3>2. n \in first .. last /\ op.val = NewMeta(first, last, n)
      BY <2>1, <3>1 DEF RecordsWindow
    <3>3. ASSUME NEW other \in Ops(todo')
          PROVE  /\ other.key = Meta(n) => other.val = op.val
                 /\ other.key = BatchCount => other.val > n
      <4>1. /\ other.key = Meta(n) /\ n <= last => other.val = NewMeta(first, last, n)
            /\ other.key = BatchCount => other.val = last + 1
        BY <2>1 DEF RecordsWindow
      <4>2. n <= last /\ last + 1 > n
        BY <1>2, <3>2, Bounds
      <4> QED
        BY <3>2, <4>1, <4>2
    <3> QED
      BY <2>1, <3>2, <3>3 DEF RecordsWindow
  <2> QED
    BY <1>0, <1>1, <1>4, <1>6, <2>2, <2>3 DEF CacheInv, Typed, L1Typed, StoreTyped, UsedTyped
<1>9. CASE ~ Accepted(first, last)
  <2>1. \A op \in Ops(todo') : op.key = Log
    BY <1>4, <1>9
  <2>2. \A op \in Ops(todo') :
          op.key # BatchCount /\ \A n : op.key # Meta(n) /\ op.key # CacheEntry(n)
    BY <2>1, KeysDiffer, CacheEntriesDiffer
  <2>3. ASSUME NEW n \in Numbers PROVE EntryHolds(n)' /\ EntryToCome(n)'
    BY <1>1, <1>7, <2>2 DEF EntryHolds, EntryToCome
  <2> QED
    BY <1>0, <1>1, <1>4, <1>6, <2>3 DEF CacheInv, Typed, L1Typed, StoreTyped, UsedTyped
<1> QED
  BY <1>8, <1>9

LEMMA NextCacheInv == CacheInv /\ [Next]_vars => CacheInv'
<1> SUFFICES ASSUME CacheInv, [Next]_vars PROVE CacheInv'
  OBVIOUS
<1>0. /\ L1Typed /\ StoreTyped /\ CacheTyped /\ Sound(todo) /\ UsedTyped /\ CacheLast(todo)
      /\ \A n \in Numbers : EntryHolds(n) /\ EntryToCome(n)
  BY DEF CacheInv, Typed
<1>1. CASE UNCHANGED vars
  BY <1>0, <1>1
     DEF vars, CacheInv, Typed, L1Typed, StoreTyped, CacheTyped, UsedTyped, EntryHolds, EntryToCome
<1>2. CASE \/ \E body \in Bodies : L1Delayed(body)
           \/ \E segs \in Contents, after \in 0 .. MaxDelayed : L1Batch(segs, after)
           \/ \E d \in 0 .. MaxDelayed, n \in 0 .. MaxBatches : L1Reorg(d, n)
  <2>1. L1Typed'
    BY <1>0, <1>2, L1StepTyped
  <2>2. db' = db /\ cache' = cache /\ todo' = todo
    BY <1>2 DEF L1Delayed, L1Batch, L1Reorg
  <2>3. UsedTyped'
    <3>1. used' = used \/ used' = [used EXCEPT !.reorgs = @ + 1]
      BY <1>2 DEF L1Delayed, L1Batch, L1Reorg
    <3> QED
      BY <1>0, <3>1 DEF UsedTyped
  <2> QED
    BY <1>0, <2>1, <2>2, <2>3 DEF CacheInv, Typed, StoreTyped, CacheTyped, EntryHolds, EntryToCome
<1>3. ASSUME NEW first \in Positions, NEW last \in Positions, AddDelayed(first, last)
      PROVE  CacheInv'
  <2>1. /\ Idle /\ first <= last /\ last < Len(l1.delayed) /\ l1' = l1 /\ db' = db
        /\ SetDelayedCount(first, last + 1, DelayedPuts(first, last))
        /\ used' = [used EXCEPT !.rereads = IF first < db[DelayedCount] THEN @ + 1 ELSE @]
    BY <1>3 DEF AddDelayed, Reread
  <2>2. first \in 0 .. MaxDelayed /\ last + 1 \in 0 .. MaxDelayed
    BY Bounds
  <2>3. Sound(DelayedPuts(first, last))
        /\ \A op \in Ops(DelayedPuts(first, last)) : \E i : op.key = Delayed(i)
    BY <1>0, <2>1, DelayedPutsSound
  <2>4. /\ Sound(todo') /\ CacheLast(todo') /\ CacheTyped'
        /\ \A n \in Numbers : EntryHolds(n)' /\ EntryToCome(n)'
    BY <2>1, <2>2, <2>3, SetDelayedKeeps
  <2>5. UsedTyped'
    BY <1>0, <2>1 DEF UsedTyped
  <2> QED
    BY <1>0, <2>1, <2>4, <2>5 DEF CacheInv, Typed, L1Typed, StoreTyped
<1>4. CASE ReorgDelayed
  <2>1. /\ Idle /\ l1' = l1 /\ db' = db /\ used' = used
        /\ SetDelayedCount(Len(l1.delayed), Len(l1.delayed), <<>>)
    BY <1>4 DEF ReorgDelayed
  <2>2. Len(l1.delayed) \in 0 .. MaxDelayed
    BY <1>0 DEF L1Typed
  <2>3. Sound(<<>>) /\ Ops(<<>>) = {}
    BY NothingLeft
  <2>4. /\ Sound(todo') /\ CacheLast(todo') /\ CacheTyped'
        /\ \A n \in Numbers : EntryHolds(n)' /\ EntryToCome(n)'
    BY <2>1, <2>2, <2>3, SetDelayedKeeps
  <2> QED
    BY <1>0, <2>1, <2>4 DEF CacheInv, Typed, L1Typed, StoreTyped, UsedTyped
<1>5. CASE GetBatchCount
  <2>1. l1' = l1 /\ db' = db /\ cache' = cache /\ used' = used /\ todo' = Put(BatchCount, Repaired)
    BY <1>5 DEF GetBatchCount
  <2>2. Repaired \in 0 .. MaxBatches
    BY <1>0, RepairedIs, StoredValues, Bounds
  <2>3. Sound(todo') /\ Ops(todo') = {[key |-> BatchCount, val |-> Repaired]}
    BY <2>1, <2>2, SoundPut, MayHoldPut, KeysAre
  <2>4. \A op \in Ops(todo') : op.key = BatchCount /\ op.val = Repaired
    BY <2>3
  <2>5. \A op \in Ops(todo') : \A n : op.key # Meta(n) /\ op.key # CacheEntry(n)
    BY <2>4, KeysDiffer, CacheEntriesDiffer
  <2>6. CacheLast(todo')
    BY <2>5, CacheLastKeys
  <2>7. ASSUME NEW n \in Numbers PROVE EntryHolds(n)'
    <3>1. cache[n] # Absent => n < db[BatchCount] /\ cache[n] = db[Meta(n)]
      BY <1>0 DEF EntryHolds
    <3>2. cache[n] # Absent => n < Repaired
      BY <1>0, <3>1, RepairedIs
    <3> QED
      BY <2>1, <2>2, <2>4, <2>5, <3>1, <3>2, Bounds DEF EntryHolds
  <2>8. ASSUME NEW n \in Numbers PROVE EntryToCome(n)'
    BY <2>5 DEF EntryToCome
  <2> QED
    BY <1>0, <2>1, <2>3, <2>6, <2>7, <2>8
       DEF CacheInv, Typed, L1Typed, StoreTyped, CacheTyped, UsedTyped
<1>6. ASSUME NEW n \in Numbers, GetBatchMetadata(n) PROVE CacheInv'
  <2>1. /\ todo = <<>> /\ n < db[BatchCount] /\ l1' = l1 /\ db' = db /\ todo' = todo /\ used' = used
        /\ db[Meta(n)] # Absent
        /\ cache' = [cache EXCEPT ![n] = db[Meta(n)]]
    BY <1>6 DEF GetBatchMetadata, Idle
  <2>2. Ops(todo') = {} /\ Sound(todo') /\ CacheLast(todo')
    BY <2>1, NothingLeft
  <2>3. CacheTyped'
    BY <1>0, <2>1, StoredValues DEF CacheTyped
  <2>4. ASSUME NEW m \in Numbers PROVE EntryHolds(m)' /\ EntryToCome(m)'
    <3>1. EntryHolds(m) /\ cache'[m] = IF m = n THEN db[Meta(n)] ELSE cache[m]
      BY <1>0, <2>1 DEF CacheTyped
    <3> QED
      BY <2>1, <2>2, <3>1 DEF EntryHolds, EntryToCome
  <2> QED
    BY <1>0, <2>1, <2>2, <2>3, <2>4 DEF CacheInv, Typed, L1Typed, StoreTyped, UsedTyped
<1>7. ASSUME NEW last \in Numbers, AddBatches(last) PROVE CacheInv'
  BY <1>7, AddBatchesKeeps
<1>8. CASE WriteKey
  BY <1>8, WriteKeyKeeps
<1>9. CASE Crash
  <2>1. /\ l1' = l1 /\ db' = db /\ todo' = <<>> /\ cache' = [n \in Numbers |-> Absent]
        /\ used' = [used EXCEPT !.crashes = @ + 1]
    BY <1>9 DEF Crash
  <2>2. Ops(todo') = {} /\ Sound(todo') /\ CacheLast(todo')
    BY <2>1, NothingLeft
  <2>3. CacheTyped' /\ \A n \in Numbers : cache'[n] = Absent
    BY <2>1 DEF CacheTyped
  <2>4. \A n \in Numbers : EntryHolds(n)' /\ EntryToCome(n)'
    BY <2>2, <2>3 DEF EntryHolds, EntryToCome
  <2>5. UsedTyped'
    BY <1>0, <2>1 DEF UsedTyped
  <2> QED
    BY <1>0, <2>1, <2>2, <2>3, <2>4, <2>5 DEF CacheInv, Typed, L1Typed, StoreTyped
<1> QED
  BY <1>1, <1>2, <1>3, <1>4, <1>5, <1>6, <1>7, <1>8, <1>9 DEF Next, Reader

\* Whatever L1 does and wherever the node crashes, every key that a call writes is a
\* key of the store and gets a value of its kind: a count is within what L1 may
\* hold, a delayed key holds a delayed message, a metadata key BatchMetadata.
THEOREM TrackerTypeCorrect == Spec => []Typed
<1>1. CacheInv => Typed
  BY DEF CacheInv
<1> QED
  BY <1>1, InitCache, NextCacheInv, PTL DEF Spec

\* batch_meta_cache never answers with metadata that the store does not hold, at any
\* instant: in the middle of a rollback, of a repair of the count, and after a crash.
THEOREM CacheStaysCoherent == Spec => []CacheCoherent
<1>1. CacheInv => CacheCoherent
  BY DEF CacheInv, EntryHolds, CacheCoherent
<1> QED
  BY <1>1, InitCache, NextCacheInv, PTL DEF Spec

=============================================================================

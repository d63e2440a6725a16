------------------------ MODULE InboxTrackerChainProofs ------------------------
(***************************************************************************)
(* Proofs about what the calls of the inbox tracker leave in the store:    *)
(* until a crash, the delayed messages are one chain, the recorded batches *)
(* are one chain that rests on them, and the records of who read which     *)
(* delayed message are exact, through reorgs of L1.  The argument looks at *)
(* what each key holds once the call under way has written all its keys:   *)
(* WriteKey does not change that, and a call changes it all at once.       *)
(* Then what is recorded is in the log, through crashes too; and last,     *)
(* while nothing is reorged, read again or cut short, the log is how the   *)
(* messages that L1 orders begin, and as long as the last record says.     *)
(***************************************************************************)
EXTENDS InboxTrackerProofs

(***************************************************************************)
(* The last write of a key.                                                *)
(***************************************************************************)

Writes(w, key) == \E op \in Ops(w) : op.key = key

\* The write at k is the last one of key in w.
LastAt(w, key, k) ==
  /\ k \in 1 .. Len(w)
  /\ w[k].key = key
  /\ \A j \in 1 .. Len(w) : w[j].key = key => j <= k

LEMMA NotWritten ==
  ASSUME NEW w, NEW key, NEW old, ~ Writes(w, key)
  PROVE  LastWrite(w, key, old) = old
<1>1. {k \in 1 .. Len(w) : w[k].key = key} = {}
  BY DEF Writes, Ops
<1> QED
  BY <1>1 DEF LastWrite

\* The last write is one of the writes, with none after it.
LEMMA LastWriteIs ==
  ASSUME NEW w, IsWrites(w), NEW key, NEW old, Writes(w, key)
  PROVE  \E k : LastAt(w, key, k) /\ LastWrite(w, key, old) = w[k].val
<1> DEFINE writes == {k \in 1 .. Len(w) : w[k].key = key}
           top == CHOOSE k \in writes : \A j \in writes : j <= k
<1>1. Len(w) \in Nat
  BY DEF IsWrites
<1>2. writes \in SUBSET (0 .. Len(w)) /\ writes # {}
  BY <1>1 DEF Writes, Ops
<1>3. top \in writes /\ \A j \in writes : j <= top
  <2>1. \E k \in writes : \A j \in writes : j <= k
    <3> HIDE DEF writes
    <3> QED
      BY <1>1, <1>2, GreatestOf
  <2> HIDE DEF writes
  <2> QED
    BY <2>1
<1>4. LastWrite(w, key, old) = w[top].val
  BY <1>2 DEF LastWrite
<1> HIDE DEF top
<1>5. LastAt(w, key, top)
  BY <1>3 DEF LastAt
<1> QED
  BY <1>4, <1>5

LEMMA WrittenAs ==
  ASSUME NEW w, IsWrites(w), NEW key, NEW old, NEW val,
         Writes(w, key), \A op \in Ops(w) : op.key = key => op.val = val
  PROVE  LastWrite(w, key, old) = val
<1>1. PICK k : LastAt(w, key, k) /\ LastWrite(w, key, old) = w[k].val
  BY LastWriteIs
<1>2. w[k] \in Ops(w) /\ w[k].key = key
  BY <1>1 DEF LastAt, Ops
<1> QED
  BY <1>1, <1>2

\* Two lists, one after the other.
LEMMA LastWriteConcat ==
  ASSUME NEW u, NEW v, IsWrites(u), IsWrites(v), NEW key, NEW old
  PROVE  LastWrite(u \o v, key, old) = LastWrite(v, key, LastWrite(u, key, old))
<1> DEFINE w == u \o v
<1>1. /\ IsWrites(w) /\ Ops(w) = Ops(u) \cup Ops(v)
      /\ Len(u) \in Nat /\ Len(v) \in Nat /\ Len(w) = Len(u) + Len(v)
      /\ \A k \in 1 .. Len(u) : w[k] = u[k]
      /\ \A k \in 1 .. Len(v) : w[Len(u) + k] = v[k]
  BY ConcatWrites
<1> HIDE DEF w
<1>0. Writes(w, key) <=> Writes(u, key) \/ Writes(v, key)
  BY <1>1 DEF Writes
<1>2. CASE Writes(v, key)
  <2>1. PICK k : LastAt(v, key, k) /\ LastWrite(v, key, LastWrite(u, key, old)) = v[k].val
    BY <1>2, LastWriteIs
  <2>2. PICK m : LastAt(w, key, m) /\ LastWrite(w, key, old) = w[m].val
    BY <1>0, <1>1, <1>2, LastWriteIs
  <2>3. k \in 1 .. Len(v) /\ Len(u) + k \in 1 .. Len(w) /\ w[Len(u) + k] = v[k]
    BY <1>1, <2>1 DEF LastAt
  <2>4. m \in 1 .. Len(w) /\ Len(u) + k <= m
    BY <2>1, <2>2, <2>3 DEF LastAt
  <2>5. m - Len(u) \in 1 .. Len(v) /\ Len(u) + (m - Len(u)) = m
    BY <1>1, <2>3, <2>4
  <2>6. w[m] = v[m - Len(u)]
    BY <1>1, <2>5
  <2>7. m - Len(u) <= k
    BY <2>1, <2>2, <2>5, <2>6 DEF LastAt
  <2>8. m - Len(u) = k
    <3>1. k \in Int /\ m \in Int /\ Len(u) \in Int
      BY <1>1, <2>3, <2>4
    <3> QED
      BY <2>4, <2>7, <3>1
  <2> QED
    BY <2>1, <2>2, <2>6, <2>8 DEF w
<1>3. CASE ~ Writes(v, key)
  <2>1. LastWrite(v, key, LastWrite(u, key, old)) = LastWrite(u, key, old)
    BY <1>3, NotWritten
  <2>2. CASE Writes(u, key)
    <3>1. PICK k : LastAt(u, key, k) /\ LastWrite(u, key, old) = u[k].val
      BY <2>2, LastWriteIs
    <3>2. PICK m : LastAt(w, key, m) /\ LastWrite(w, key, old) = w[m].val
      BY <1>0, <1>1, <2>2, LastWriteIs
    <3>3. m \in 1 .. Len(w) /\ m <= Len(u)
      <4>0. m \in 1 .. Len(w) /\ w[m].key = key
        BY <3>2 DEF LastAt
      <4>1. SUFFICES ASSUME m > Len(u) PROVE FALSE
        BY <1>1, <4>0
      <4>2. m - Len(u) \in 1 .. Len(v) /\ Len(u) + (m - Len(u)) = m
        BY <1>1, <4>0, <4>1
      <4>3. w[m] = v[m - Len(u)]
        BY <1>1, <4>2
      <4>4. w[m] \in Ops(v)
        BY <4>2, <4>3 DEF Ops
      <4> QED
        BY <1>3, <4>0, <4>4 DEF Writes
    <3>4. m \in 1 .. Len(u) /\ w[m] = u[m] /\ k \in 1 .. Len(w) /\ w[k] = u[k]
      BY <1>1, <3>1, <3>3 DEF LastAt
    <3>5. m = k
      <4>1. m <= k /\ k <= m
        BY <3>1, <3>2, <3>4 DEF LastAt
      <4> QED
        BY <1>1, <3>1, <3>4, <4>1 DEF LastAt
    <3> QED
      BY <2>1, <3>1, <3>2, <3>4, <3>5 DEF w
  <2>3. CASE ~ Writes(u, key)
    <3>1. LastWrite(u, key, old) = old /\ LastWrite(w, key, old) = old
      BY <1>0, <1>3, <2>3, NotWritten
    <3> QED
      BY <2>1, <3>1 DEF w
  <2> QED
    BY <2>2, <2>3
<1> QED
  BY <1>2, <1>3

\* The first write and the others.
LEMMA LastWriteTail ==
  ASSUME NEW w, Sound(w), CacheLast(w), w # <<>>, NEW key, NEW old
  PROVE  LastWrite(w, key, old) =
           LastWrite(Tail(w), key, IF w[1].key = key THEN w[1].val ELSE old)
<1> DEFINE head == <<w[1]>>
<1>1. PICK V : w \in Seq([key : AllKeys, val : V])
  BY DEF Sound, IsWrites
<1>2. IsWrites(head) /\ Len(head) = 1 /\ head[1] = w[1]
  <2> DEFINE S == [key : AllKeys, val : V]
  <2>1. w \in Seq(S)
    BY <1>1
  <2> HIDE DEF S
  <2>2. head \in Seq(S) /\ Len(head) = 1 /\ head[1] = w[1]
    BY <2>1
  <2> QED
    BY <2>2 DEF IsWrites, S
<1>3. w = head \o Tail(w)
  <2> DEFINE S == [key : AllKeys, val : V]
  <2>1. w \in Seq(S)
    BY <1>1
  <2> HIDE DEF S
  <2> QED
    BY <2>1
<1>4. IsWrites(Tail(w))
  BY TailWrites DEF Sound
<1> HIDE DEF head
<1>5. Ops(head) = {w[1]}
  <2>1. 1 .. Len(head) = {1}
    BY <1>2
  <2> QED
    BY <1>2, <2>1 DEF Ops
<1>6. LastWrite(head, key, old) = IF w[1].key = key THEN w[1].val ELSE old
  <2>1. CASE w[1].key = key
    <3>1. Writes(head, key) /\ \A op \in Ops(head) : op.key = key => op.val = w[1].val
      BY <1>5, <2>1 DEF Writes
    <3>2. LastWrite(head, key, old) = w[1].val
      BY <1>2, <3>1, WrittenAs
    <3> QED
      BY <2>1, <3>2
  <2>2. CASE w[1].key # key
    <3>1. ~ Writes(head, key)
      BY <1>5, <2>2 DEF Writes
    <3> QED
      BY <2>2, <3>1, NotWritten
  <2> QED
    BY <2>1, <2>2
<1> DEFINE rest == Tail(w)
<1> HIDE DEF rest
<1>7. LastWrite(head \o rest, key, old) = LastWrite(rest, key, LastWrite(head, key, old))
  BY <1>2, <1>4, LastWriteConcat DEF rest
<1>8. LastWrite(w, key, old) = LastWrite(head \o rest, key, old)
  BY <1>3, Zenon DEF rest
<1>9. LastWrite(w, key, old) = LastWrite(rest, key, IF w[1].key = key THEN w[1].val ELSE old)
  BY <1>6, <1>7, <1>8
<1> QED
  BY <1>9 DEF rest

(***************************************************************************)
(* Records that fit together.  D, M and S are the delayed messages, the    *)
(* metadata and the batches by delayed count; dc and bc are the counts.    *)
(***************************************************************************)

AccOf(d) == Append(d.before, d.body)

\* Exactly the delayed messages below dc are stored in D, as one chain.
DelayedGood(D, dc) ==
  \A i \in Positions :
    /\ D[i] # Absent <=> i < dc
    /\ i < dc => Len(D[i].before) = i
    /\ 0 < i /\ i < dc => D[i].before = AccOf(D[i - 1])

\* Batch b was posted on the delayed messages of D.
Rests(D, dc, b) ==
  /\ b.after <= dc
  /\ b.after > 0 => D[b.after - 1] # Absent /\ AccOf(D[b.after - 1]) = b.delayedAcc

\* Exactly the batches below bc have metadata in M, as one chain that never reads
\* fewer delayed messages, and rests on D.
MetasGood(D, dc, M, bc) ==
  \A n \in Numbers :
    /\ M[n] # Absent <=> n < bc
    /\ n < bc =>
         /\ Len(M[n].acc) = n + 1
         /\ M[n].delayed = M[n].acc[n + 1].after
         /\ Rests(D, dc, M[n].acc[n + 1])
         /\ \A m \in 0 .. n : M[m].delayed <= M[n].delayed
         /\ n > 0 => M[n - 1].acc = SubSeq(M[n].acc, 1, n)

\* The batch that first reached c delayed messages is under c in S.
ReachedBy(M, bc, c, n) ==
  /\ n < bc
  /\ M[n].delayed = c
  /\ n > 0 => M[n - 1].delayed < c

SequencedGood(M, bc, S) ==
  \A c \in 1 .. MaxDelayed : \A n \in Numbers : S[c] = n <=> ReachedBy(M, bc, c, n)

\* What a store d holds once the writes w are done.
Result(w, d) == [key \in Keys |-> LastWrite(w, key, d[key])]

DelayedIn(d) == [i \in Positions |-> d[Delayed(i)]]
MetaIn(d) == [n \in Numbers |-> d[Meta(n)]]
SequencedIn(d) == [c \in 1 .. MaxDelayed |-> d[Sequenced(c)]]

RecordsGood(d) ==
  /\ DelayedGood(DelayedIn(d), d[DelayedCount])
  /\ MetasGood(DelayedIn(d), d[DelayedCount], MetaIn(d), d[BatchCount])
  /\ SequencedGood(MetaIn(d), d[BatchCount], SequencedIn(d))

\* Later batches of L1 never read fewer delayed messages.
L1Ordered ==
  \A j, k \in 1 .. Len(l1.batches) : j <= k => l1.batches[j].after <= l1.batches[k].after

\* The records fit together once the call under way is over.
ChainInv == CacheInv /\ L1Ordered /\ (used.crashes = 0 => RecordsGood(Result(todo, db)))

\* The types of the records.
RecordsTyped(D, dc, M, bc, S) ==
  /\ D \in [Positions -> StoredDelayed \cup {Absent}] /\ dc \in 0 .. MaxDelayed
  /\ M \in [Numbers -> BatchMetadata \cup {Absent}] /\ bc \in 0 .. MaxBatches
  /\ S \in [1 .. MaxDelayed -> Numbers \cup {Absent}]

LEMMA AbsentIsNone ==
  /\ \A n \in Numbers : n # Absent
  /\ \A d \in StoredDelayed : d # Absent
  /\ \A m \in BatchMetadata : m # Absent
  BY TrackerAssumption, Bounds

\* What a recorded batch is.
LEMMA RecordedIs ==
  ASSUME NEW D, NEW dc, NEW M, NEW bc, NEW S, RecordsTyped(D, dc, M, bc, S),
         MetasGood(D, dc, M, bc), NEW n \in Numbers, n < bc
  PROVE  /\ M[n] \in BatchMetadata /\ M[n].delayed \in 0 .. MaxDelayed
         /\ Len(M[n].acc) = n + 1 /\ M[n].acc \in Seq(Batches) /\ M[n].acc[n + 1] \in Batches
         /\ M[n].delayed = M[n].acc[n + 1].after
         /\ Rests(D, dc, M[n].acc[n + 1])
         /\ \A m \in 0 .. n : m \in Numbers /\ m < bc /\ M[m].delayed <= M[n].delayed
         /\ n > 0 => n - 1 \in Numbers /\ M[n - 1].acc = SubSeq(M[n].acc, 1, n)
<1>1. /\ M[n] # Absent /\ Len(M[n].acc) = n + 1
      /\ M[n].delayed = M[n].acc[n + 1].after
      /\ Rests(D, dc, M[n].acc[n + 1])
      /\ \A m \in 0 .. n : M[m].delayed <= M[n].delayed
      /\ n > 0 => M[n - 1].acc = SubSeq(M[n].acc, 1, n)
  BY DEF MetasGood
<1>2. M[n] \in BatchMetadata
  BY <1>1 DEF RecordsTyped
<1>3. M[n].acc \in Seq(Batches) /\ M[n].delayed \in 0 .. MaxDelayed
  BY <1>2 DEF BatchMetadata
<1>4. M[n].acc[n + 1] \in Batches
  <2>1. n + 1 \in 1 .. Len(M[n].acc)
    BY <1>1, Bounds
  <2> QED
    BY <1>3, <2>1
<1>5. bc \in Nat /\ n \in Nat
  BY Bounds DEF RecordsTyped
<1>6. \A m \in 0 .. n : m \in Numbers /\ m < bc
  BY <1>5, Bounds
<1>7. n > 0 => n - 1 \in Numbers
  BY Bounds
<1> QED
  BY <1>1, <1>2, <1>3, <1>4, <1>6, <1>7

\* Every count that a recorded batch reached has a batch under it in S.
LEMMA ReachedIsThere ==
  ASSUME NEW D, NEW dc, NEW M, NEW bc, NEW S, RecordsTyped(D, dc, M, bc, S),
         MetasGood(D, dc, M, bc), SequencedGood(M, bc, S),
         NEW m \in Numbers, m < bc, M[m].delayed > 0
  PROVE  S[M[m].delayed] # Absent
<1> DEFINE c == M[m].delayed
           with == {n \in Numbers : n < bc /\ M[n].delayed = c}
<1>1. c \in 1 .. MaxDelayed
  <2>1. c \in 0 .. MaxDelayed
    BY RecordedIs
  <2> QED
    BY <2>1, Bounds
<1>2. m \in with /\ with \in SUBSET Nat
  BY Bounds
<1> HIDE DEF c
<1>3. PICK n \in with : \A k \in with : n <= k
  <2> HIDE DEF with
  <2> QED
    BY <1>2, LeastOf
<1>4. n \in Numbers /\ n < bc /\ M[n].delayed = c
  BY <1>3
<1>5. ASSUME n > 0 PROVE M[n - 1].delayed < c
  <2>1. n - 1 \in Numbers /\ n - 1 \in 0 .. n /\ n - 1 < bc /\ ~ (n <= n - 1)
    BY <1>4, <1>5, Bounds DEF RecordsTyped
  <2>2. M[n - 1].delayed <= c
    BY <1>4, <2>1, RecordedIs
  <2>3. M[n - 1].delayed # c
    BY <1>3, <2>1
  <2>4. M[n - 1].delayed \in 0 .. MaxDelayed
    BY <2>1, RecordedIs
  <2> QED
    BY <1>1, <2>2, <2>3, <2>4, Bounds
<1>6. S[c] = n
  <2>1. ReachedBy(M, bc, c, n)
    BY <1>4, <1>5 DEF ReachedBy
  <2> QED
    BY <1>1, <1>4, <2>1 DEF SequencedGood
<1> QED
  BY <1>4, <1>6, AbsentIsNone DEF c

\* The batches before the one under the first key above first read no more than first
\* delayed messages, and it and the later ones read more.
LEMMA RollbackIsExact ==
  ASSUME NEW D, NEW dc, NEW M, NEW bc, NEW S, RecordsTyped(D, dc, M, bc, S),
         MetasGood(D, dc, M, bc), SequencedGood(M, bc, S), NEW first \in 0 .. MaxDelayed
  PROVE  /\ (\A c \in first + 1 .. MaxDelayed : S[c] = Absent) =>
              \A m \in Numbers : m < bc => M[m].delayed <= first
         /\ \A c \in first + 1 .. MaxDelayed : \A n \in Numbers :
              /\ S[c] = n
              /\ \A e \in first + 1 .. MaxDelayed : S[e] # Absent => c <= e
              => /\ n < bc
                 /\ \A m \in Numbers : m < n => M[m].delayed <= first
                 /\ \A m \in Numbers : n <= m /\ m < bc => M[m].delayed > first
<1>1. ASSUME NEW m \in Numbers, m < bc, ~ (M[m].delayed <= first)
      PROVE  M[m].delayed \in first + 1 .. MaxDelayed /\ S[M[m].delayed] # Absent
  <2>1. M[m].delayed \in 0 .. MaxDelayed
    BY <1>1, RecordedIs
  <2>2. M[m].delayed \in first + 1 .. MaxDelayed /\ M[m].delayed > 0
    BY <1>1, <2>1, Bounds
  <2> QED
    BY <1>1, <2>2, ReachedIsThere
<1>2. ASSUME \A c \in first + 1 .. MaxDelayed : S[c] = Absent, NEW m \in Numbers, m < bc
      PROVE  M[m].delayed <= first
  BY <1>1, <1>2
<1>3. ASSUME NEW c \in first + 1 .. MaxDelayed, NEW n \in Numbers, S[c] = n,
             \A e \in first + 1 .. MaxDelayed : S[e] # Absent => c <= e
      PROVE  /\ n < bc
             /\ \A m \in Numbers : m < n => M[m].delayed <= first
             /\ \A m \in Numbers : n <= m /\ m < bc => M[m].delayed > first
  <2>1. c \in 1 .. MaxDelayed
    BY Bounds
  <2>2. n < bc /\ M[n].delayed = c /\ (n > 0 => M[n - 1].delayed < c)
    BY <1>3, <2>1 DEF SequencedGood, ReachedBy
  <2>3. ASSUME NEW m \in Numbers, m < n PROVE M[m].delayed <= first
    <3>1. n - 1 \in Numbers /\ n - 1 < bc /\ m \in 0 .. n - 1 /\ m < bc /\ n > 0
      BY <2>2, <2>3, Bounds DEF RecordsTyped
    <3>2. M[m].delayed <= M[n - 1].delayed
      BY <3>1, RecordedIs
    <3>3. M[m].delayed \in 0 .. MaxDelayed /\ M[n - 1].delayed \in 0 .. MaxDelayed
      BY <3>1, RecordedIs
    <3>4. M[m].delayed < c
      BY SMTT(30), <2>1, <2>2, <3>1, <3>2, <3>3, Bounds
    <3>5. ASSUME ~ (M[m].delayed <= first) PROVE FALSE
      <4>1. c <= M[m].delayed
        BY <1>1, <1>3, <3>1, <3>5
      <4> QED
        BY <2>1, <3>3, <3>4, <4>1, Bounds
    <3> QED
      BY <3>5
  <2>4. ASSUME NEW m \in Numbers, n <= m, m < bc PROVE M[m].delayed > first
    <3>1. n \in 0 .. m
      BY <2>4, Bounds
    <3>2. c <= M[m].delayed
      BY <2>2, <2>4, <3>1, RecordedIs
    <3>3. M[m].delayed \in 0 .. MaxDelayed
      BY <2>4, RecordedIs
    <3> QED
      BY <3>2, <3>3, Bounds
  <2> QED
    BY <2>2, <2>3, <2>4
<1> QED
  BY <1>2, <1>3

\* The delayed messages from first on are replaced and the batches that read more
\* than first of them are rolled back: the records still fit together.
LEMMA RolledBackGood ==
  ASSUME NEW D, NEW dc, NEW M, NEW bc, NEW S, RecordsTyped(D, dc, M, bc, S),
         MetasGood(D, dc, M, bc), SequencedGood(M, bc, S),
         NEW first \in 0 .. MaxDelayed, NEW count \in 0 .. MaxDelayed, first <= count,
         NEW D2, \A i \in Positions : i < first => D2[i] = D[i],
         NEW kept \in 0 .. MaxBatches, kept <= bc,
         \A m \in Numbers : m < kept => M[m].delayed <= first,
         \A m \in Numbers : kept <= m /\ m < bc => M[m].delayed > first,
         NEW M2, \A m \in Numbers : M2[m] = IF m < kept THEN M[m] ELSE Absent,
         NEW S2, \A c \in 1 .. MaxDelayed : S2[c] = IF c <= first THEN S[c] ELSE Absent
  PROVE  MetasGood(D2, count, M2, kept) /\ SequencedGood(M2, kept, S2)
<1>0. dc \in Nat /\ bc \in Nat /\ kept \in Nat /\ first \in Nat /\ count \in Nat
  BY Bounds DEF RecordsTyped
<1>1. ASSUME NEW n \in Numbers
      PROVE  /\ M2[n] # Absent <=> n < kept
             /\ n < kept =>
                  /\ Len(M2[n].acc) = n + 1
                  /\ M2[n].delayed = M2[n].acc[n + 1].after
                  /\ Rests(D2, count, M2[n].acc[n + 1])
                  /\ \A m \in 0 .. n : M2[m].delayed <= M2[n].delayed
                  /\ n > 0 => M2[n - 1].acc = SubSeq(M2[n].acc, 1, n)
  <2>1. CASE ~ (n < kept)
    BY <2>1
  <2>2. CASE n < kept
    <3>1. n < bc /\ M2[n] = M[n] /\ \A m \in 0 .. n : m \in Numbers /\ M2[m] = M[m]
      BY <1>0, <2>2, Bounds
    <3>2. /\ M[n] \in BatchMetadata /\ M[n].delayed \in 0 .. MaxDelayed
          /\ Len(M[n].acc) = n + 1 /\ M[n].acc[n + 1] \in Batches
          /\ M[n].delayed = M[n].acc[n + 1].after
          /\ Rests(D, dc, M[n].acc[n + 1])
          /\ \A m \in 0 .. n : M[m].delayed <= M[n].delayed
          /\ n > 0 => n - 1 \in Numbers /\ M[n - 1].acc = SubSeq(M[n].acc, 1, n)
      BY <3>1, RecordedIs
    <3>3. Rests(D2, count, M[n].acc[n + 1])
      <4> DEFINE b == M[n].acc[n + 1]
      <4>1. b.after \in 0 .. MaxDelayed /\ b.after <= first
        BY <2>2, <3>2
      <4>2. b.after > 0 => D[b.after - 1] # Absent /\ AccOf(D[b.after - 1]) = b.delayedAcc
        BY <3>2 DEF Rests
      <4> HIDE DEF b
      <4>3. b.after > 0 => D2[b.after - 1] = D[b.after - 1]
        <5>1. b.after > 0 => b.after - 1 \in Positions /\ b.after - 1 < first
          BY <1>0, <4>1, Bounds
        <5> QED
          BY <5>1
      <4>4. b.after <= count
        BY <1>0, <4>1, Bounds
      <4>5. Rests(D2, count, b)
        BY <4>2, <4>3, <4>4 DEF Rests
      <4> QED
        BY <4>5 DEF b
    <3>4. n > 0 => M2[n - 1] = M[n - 1]
      BY <3>1, <3>2, Bounds
    <3> QED
      BY <2>2, <3>1, <3>2, <3>3, <3>4, AbsentIsNone
  <2> QED
    BY <2>1, <2>2
<1>2. ASSUME NEW c \in 1 .. MaxDelayed, NEW n \in Numbers
      PROVE  S2[c] = n <=> ReachedBy(M2, kept, c, n)
  <2>1. S[c] = n <=> ReachedBy(M, bc, c, n)
    BY DEF SequencedGood
  <2>2. CASE n < kept
    <3>1. n < bc /\ M2[n] = M[n] /\ M[n].delayed <= first /\ (n > 0 => M2[n - 1] = M[n - 1])
      <4>1. n > 0 => n - 1 \in Numbers /\ n - 1 < kept
        BY <1>0, <2>2, Bounds
      <4> QED
        BY <1>0, <2>2, <4>1, Bounds
    <3>2. ReachedBy(M2, kept, c, n) <=> ReachedBy(M, bc, c, n)
      BY <2>2, <3>1 DEF ReachedBy
    <3>3. CASE c <= first
      BY <2>1, <3>2, <3>3
    <3>4. CASE ~ (c <= first)
      <4>1. ~ ReachedBy(M, bc, c, n)
        BY <3>1, <3>4 DEF ReachedBy
      <4> QED
        BY <3>2, <3>4, <4>1, AbsentIsNone
    <3> QED
      BY <3>3, <3>4
  <2>3. CASE ~ (n < kept)
    <3>1. ~ ReachedBy(M2, kept, c, n)
      BY <2>3 DEF ReachedBy
    <3>2. ASSUME S2[c] = n PROVE FALSE
      <4>1. c <= first /\ S[c] = n
        BY <3>2, AbsentIsNone
      <4>2. n < bc /\ M[n].delayed = c
        BY <2>1, <4>1 DEF ReachedBy
      <4>3. kept <= n
        BY <1>0, <2>3, Bounds
      <4>4. M[n].delayed > first
        BY <4>2, <4>3
      <4> QED
        BY <1>0, <4>1, <4>2, <4>4
    <3> QED
      BY <3>1, <3>2
  <2> QED
    BY <2>2, <2>3
<1> QED
  BY <1>1, <1>2 DEF MetasGood, SequencedGood

Ascending(B) == \A j, k \in 1 .. Len(B) : j <= k => B[j].after <= B[k].after

\* M2 is M with the metadata of the batches first .. last of B.
AddsMetas(M, M2, B, first, last) ==
  /\ \A n \in Numbers : n < first => M2[n] = M[n]
  /\ \A n \in first .. last :
       M2[n] \in BatchMetadata /\ M2[n].acc = SubSeq(B, 1, n + 1) /\ M2[n].delayed = B[n + 1].after
  /\ \A n \in Numbers : n > last => M2[n] = Absent

\* S2 is S up to the count read, with the batches first .. last under higher ones.
AddsSequenced(S, S2, M2, read, first, last) ==
  /\ \A c \in 1 .. MaxDelayed : c <= read => S2[c] = S[c]
  /\ \A c \in 1 .. MaxDelayed : c > read =>
       /\ \A n \in first .. last : ReachedBy(M2, last + 1, c, n) => S2[c] = n
       /\ S2[c] = Absent \/ \E n \in first .. last : S2[c] = n /\ ReachedBy(M2, last + 1, c, n)

AllRest(D, dc, B, first, last) == \A n \in first .. last : Rests(D, dc, B[n + 1])

\* The batches first .. last of B, which follow the recorded ones and agree with the
\* delayed messages, are recorded: the records still fit together.
LEMMA AddedGood ==
  ASSUME NEW D, NEW dc, NEW M, NEW first, NEW S, RecordsTyped(D, dc, M, first, S),
         MetasGood(D, dc, M, first), SequencedGood(M, first, S),
         NEW last \in Numbers, first <= last,
         NEW B \in Seq(Batches), last < Len(B), Ascending(B),
         NEW prev \in BatchMetadata, prev = IF first = 0 THEN NoBatch ELSE M[first - 1],
         prev.acc = SubSeq(B, 1, first), AllRest(D, dc, B, first, last),
         NEW M2, AddsMetas(M, M2, B, first, last),
         NEW S2, AddsSequenced(S, S2, M2, prev.delayed, first, last)
  PROVE  MetasGood(D, dc, M2, last + 1) /\ SequencedGood(M2, last + 1, S2)
<1> USE DEF Ascending, AddsMetas, AddsSequenced, AllRest
<1>0. /\ dc \in Nat /\ first \in Nat /\ last \in Nat /\ Len(B) \in Nat
      /\ \A n \in Numbers : n \in Nat
  BY Bounds DEF RecordsTyped
<1>1. prev.delayed \in 0 .. MaxDelayed
  BY DEF BatchMetadata
<1>2. \A n \in first .. last : /\ n \in Numbers /\ n + 1 \in 1 .. Len(B)
                               /\ B[n + 1] \in Batches /\ B[n + 1].after \in 0 .. MaxDelayed
  <2>1. \A n \in first .. last : n \in Numbers /\ n + 1 \in 1 .. Len(B)
    BY <1>0, Bounds
  <2>2. \A n \in first .. last : B[n + 1] \in Batches
    BY <2>1
  <2> QED
    BY <2>1, <2>2 DEF Batches
<1>3. ASSUME first > 0
      PROVE  /\ first - 1 \in Numbers /\ M2[first - 1] = M[first - 1] /\ prev = M[first - 1]
             /\ first \in 1 .. Len(B) /\ prev.delayed = B[first].after
  <2>1. first - 1 \in Numbers /\ first - 1 < first /\ first \in 1 .. Len(B) /\ (first - 1) + 1 = first
    BY <1>0, <1>3, Bounds
  <2>2. prev = M[first - 1] /\ M2[first - 1] = M[first - 1]
    BY <1>0, <1>3, <2>1
  <2>3. M[first - 1].delayed = M[first - 1].acc[(first - 1) + 1].after
    BY <2>1, RecordedIs
  <2>4. SubSeq(B, 1, first)[first] = B[first]
    BY <2>1
  <2> QED
    BY <2>1, <2>2, <2>3, <2>4
\* Delayed counts never go back from the last recorded batch on.
<1>4. \A n \in first .. last : prev.delayed <= B[n + 1].after
  <2>1. CASE first = 0
    <3>1. prev.delayed = 0
      BY <2>1 DEF NoBatch
    <3> QED
      BY <1>2, <3>1, Bounds
  <2>2. CASE first > 0
    <3>1. \A n \in first .. last : first <= n + 1
      BY <1>0
    <3> QED
      BY <1>2, <1>3, <2>2, <3>1
  <2> QED
    BY <1>0, <2>1, <2>2
<1>5. \A m \in Numbers : m < first => M[m].delayed <= prev.delayed /\ M[m].delayed \in 0 .. MaxDelayed
  <2>1. ASSUME NEW m \in Numbers, m < first
        PROVE  M[m].delayed <= prev.delayed /\ M[m].delayed \in 0 .. MaxDelayed
    <3>1. first > 0 /\ first - 1 < first /\ m \in 0 .. first - 1
      BY <1>0, <2>1
    <3> QED
      BY <1>3, <2>1, <3>1, RecordedIs
  <2> QED
    BY <2>1
<1>6. ASSUME NEW n \in Numbers, n < first
      PROVE  /\ M2[n] # Absent
             /\ Len(M2[n].acc) = n + 1
             /\ M2[n].delayed = M2[n].acc[n + 1].after
             /\ Rests(D, dc, M2[n].acc[n + 1])
             /\ \A m \in 0 .. n : M2[m].delayed <= M2[n].delayed
             /\ n > 0 => M2[n - 1].acc = SubSeq(M2[n].acc, 1, n)
  <2>1. \A m \in 0 .. n : m \in Numbers /\ m < first
    BY <1>0, <1>6, Bounds
  <2>2. \A m \in 0 .. n : M2[m] = M[m]
    BY <2>1
  <2>3. n \in 0 .. n /\ (n > 0 => n - 1 \in 0 .. n)
    BY <1>0
  <2>4. /\ M[n] \in BatchMetadata
        /\ Len(M[n].acc) = n + 1
        /\ M[n].delayed = M[n].acc[n + 1].after
        /\ Rests(D, dc, M[n].acc[n + 1])
        /\ \A m \in 0 .. n : M[m].delayed <= M[n].delayed
        /\ n > 0 => M[n - 1].acc = SubSeq(M[n].acc, 1, n)
    BY <1>6, RecordedIs
  <2>5. M2[n] = M[n] /\ (n > 0 => M2[n - 1] = M[n - 1])
    BY <2>2, <2>3
  <2> QED
    BY <2>2, <2>4, <2>5, AbsentIsNone
<1>7. ASSUME NEW n \in first .. last
      PROVE  /\ M2[n] # Absent
             /\ Len(M2[n].acc) = n + 1
             /\ M2[n].delayed = M2[n].acc[n + 1].after
             /\ Rests(D, dc, M2[n].acc[n + 1])
             /\ \A m \in 0 .. n : M2[m].delayed <= M2[n].delayed
             /\ n > 0 => M2[n - 1].acc = SubSeq(M2[n].acc, 1, n)
  <2>1. /\ M2[n] \in BatchMetadata /\ M2[n].acc = SubSeq(B, 1, n + 1)
        /\ M2[n].delayed = B[n + 1].after
    OBVIOUS
  <2>2. n + 1 \in 1 .. Len(B) /\ n \in Nat
    BY <1>0, <1>2
  <2>3. Len(SubSeq(B, 1, n + 1)) = n + 1 /\ SubSeq(B, 1, n + 1)[n + 1] = B[n + 1]
    BY <2>2
  <2>4. Rests(D, dc, B[n + 1])
    OBVIOUS
  <2>5. ASSUME NEW m \in 0 .. n PROVE M2[m].delayed <= M2[n].delayed
    <3>1. CASE m < first
      <4>1. m \in Numbers
        BY <1>0, <2>2, <3>1, Bounds DEF RecordsTyped
      <4>2. M2[m] = M[m] /\ M[m].delayed <= prev.delayed /\ M[m].delayed \in 0 .. MaxDelayed
        BY <1>5, <3>1, <4>1
      <4>3. prev.delayed <= B[n + 1].after /\ B[n + 1].after \in 0 .. MaxDelayed
        BY <1>2, <1>4
      <4>4. \A x, y, z \in 0 .. MaxDelayed : x <= y /\ y <= z => x <= z
        BY Bounds
      <4>5. M[m].delayed <= B[n + 1].after
        BY ONLY <1>1, <4>2, <4>3, <4>4
      <4> QED
        BY <2>1, <4>2, <4>5
    <3>2. CASE m >= first
      <4>1. m \in first .. last /\ m + 1 <= n + 1
        BY <1>0, <2>2, <3>2
      <4> QED
        BY <1>2, <2>1, <2>2, <4>1
    <3> QED
      BY <1>0, <3>1, <3>2
  <2>6. ASSUME n > 0 PROVE M2[n - 1].acc = SubSeq(M2[n].acc, 1, n)
    <3>1. SubSeq(SubSeq(B, 1, n + 1), 1, n) = SubSeq(B, 1, n)
      BY <2>2
    <3>2. CASE n = first
      BY <1>3, <2>1, <2>6, <3>1, <3>2
    <3>3. CASE n # first
      <4>1. n - 1 \in first .. last /\ (n - 1) + 1 = n
        BY <1>0, <2>2, <3>3
      <4> QED
        BY <2>1, <3>1, <4>1
    <3> QED
      BY <3>2, <3>3
  <2> QED
    BY <2>1, <2>3, <2>4, <2>5, <2>6, AbsentIsNone
<1>8. \A n \in Numbers : n < first \/ n \in first .. last \/ n > last
  BY <1>0
<1>9. \A n \in Numbers : n < last + 1 <=> n < first \/ n \in first .. last
  BY <1>0
<1>10. MetasGood(D, dc, M2, last + 1)
  <2>1. ASSUME NEW n \in Numbers
        PROVE  /\ M2[n] # Absent <=> n < last + 1
               /\ n < last + 1 =>
                    /\ Len(M2[n].acc) = n + 1
                    /\ M2[n].delayed = M2[n].acc[n + 1].after
                    /\ Rests(D, dc, M2[n].acc[n + 1])
                    /\ \A m \in 0 .. n : M2[m].delayed <= M2[n].delayed
                    /\ n > 0 => M2[n - 1].acc = SubSeq(M2[n].acc, 1, n)
    <3>1. CASE n > last
      <4>1. M2[n] = Absent /\ ~ (n < last + 1)
        BY <1>0, <3>1
      <4> QED
        BY <4>1
    <3>2. CASE n < first \/ n \in first .. last
      <4>1. n < last + 1
        BY <1>9, <3>2
      <4> QED
        BY <1>6, <1>7, <3>2, <4>1
    <3> QED
      BY <1>8, <3>1, <3>2
  <2> QED
    BY <2>1 DEF MetasGood
<1>11. ASSUME NEW c \in 1 .. MaxDelayed, NEW n \in Numbers
       PROVE  S2[c] = n <=> ReachedBy(M2, last + 1, c, n)
  <2>0. c \in Nat /\ c > 0 /\ prev.delayed \in Nat
    BY <1>1, Bounds
  <2>1. CASE n < first
    <3>1. M2[n] = M[n] /\ (n > 0 => M2[n - 1] = M[n - 1]) /\ n < last + 1
      <4>1. n > 0 => n - 1 \in Numbers /\ n - 1 < first
        BY <1>0, <2>1, Bounds
      <4> QED
        BY <1>9, <2>1, <4>1
    <3>2. ReachedBy(M2, last + 1, c, n) <=> ReachedBy(M, first, c, n)
      BY <2>1, <3>1 DEF ReachedBy
    <3>3. S[c] = n <=> ReachedBy(M, first, c, n)
      BY DEF SequencedGood
    <3>4. CASE c <= prev.delayed
      BY <3>2, <3>3, <3>4
    <3>5. CASE c > prev.delayed
      <4>1. ~ ReachedBy(M, first, c, n)
        BY <1>5, <2>0, <2>1, <3>5, Bounds DEF ReachedBy
      <4>2. n \notin first .. last
        BY <1>0, <2>1
      <4>3. S2[c] # n
        BY <3>5, <4>2, AbsentIsNone
      <4> QED
        BY <3>2, <4>1, <4>3
    <3> QED
      BY <2>0, <3>4, <3>5
  <2>2. CASE n \in first .. last
    <3>1. CASE c <= prev.delayed
      <4>1. ~ ReachedBy(M2, last + 1, c, n)
        <5>1. CASE n = first
          <6>1. first = 0 => prev.delayed = 0
            BY DEF NoBatch
          <6>2. first > 0 => M2[first - 1].delayed = prev.delayed
            BY <1>3
          <6> QED
            BY <1>0, <2>0, <3>1, <5>1, <6>1, <6>2 DEF ReachedBy
        <5>2. CASE n # first
          <6>1. n - 1 \in first .. last /\ n > 0
            BY <1>0, <2>2, <5>2
          <6>2. prev.delayed <= M2[n - 1].delayed /\ M2[n - 1].delayed \in 0 .. MaxDelayed
            BY <1>2, <1>4, <6>1
          <6> QED
            BY SMTT(30), <2>0, <3>1, <6>1, <6>2, Bounds DEF ReachedBy
        <5> QED
          BY <5>1, <5>2
      <4>2. S[c] # n
        <5>1. ~ (n < first)
          BY <1>0, <2>2
        <5> QED
          BY <5>1 DEF SequencedGood, ReachedBy
      <4> QED
        BY <3>1, <4>1, <4>2
    <3>2. CASE c > prev.delayed
      <4>1. ReachedBy(M2, last + 1, c, n) => S2[c] = n
        BY <2>2, <3>2
      <4>2. S2[c] = n => ReachedBy(M2, last + 1, c, n)
        BY <3>2, AbsentIsNone
      <4> QED
        BY <4>1, <4>2
    <3> QED
      BY <2>0, <3>1, <3>2
  <2>3. CASE n > last
    <3>1. ~ ReachedBy(M2, last + 1, c, n)
      BY <1>0, <2>3 DEF ReachedBy
    <3>2. S2[c] # n
      <4>0. n \in Nat /\ first \in Nat /\ last \in Nat /\ first <= last
        BY <1>0
      <4>1. ~ (n < first) /\ n \notin first .. last
        BY <2>3, <4>0
      <4>2. S[c] # n
        BY <4>1 DEF SequencedGood, ReachedBy
      <4>3. CASE c <= prev.delayed
        BY <4>2, <4>3
      <4>4. CASE c > prev.delayed
        BY <4>1, <4>4, AbsentIsNone
      <4> QED
        BY <2>0, <4>3, <4>4
    <3> QED
      BY <3>1, <3>2
  <2> QED
    BY <1>8, <2>1, <2>2, <2>3
<1> QED
  BY <1>10, <1>11 DEF SequencedGood


(***************************************************************************)
(* What a list of writes leaves in a store.                                *)
(***************************************************************************)

IsStore(d) == d = [key \in Keys |-> d[key]] /\ \A key \in Keys : MayHold(key, d[key])

LEMMA StoreRecordsTyped ==
  ASSUME NEW d, IsStore(d)
  PROVE  RecordsTyped(DelayedIn(d), d[DelayedCount], MetaIn(d), d[BatchCount], SequencedIn(d))
<1>1. /\ d[DelayedCount] \in 0 .. MaxDelayed
      /\ d[BatchCount] \in 0 .. MaxBatches
      /\ \A i \in Positions : d[Delayed(i)] \in StoredDelayed \cup {Absent}
      /\ \A n \in Numbers : d[Meta(n)] \in BatchMetadata \cup {Absent}
      /\ \A c \in 1 .. MaxDelayed : d[Sequenced(c)] \in Numbers \cup {Absent}
  BY KeysAre DEF IsStore, MayHold
<1> QED
  BY <1>1 DEF RecordsTyped, DelayedIn, MetaIn, SequencedIn

LEMMA ResultIsStore ==
  ASSUME NEW d, IsStore(d), NEW w, Sound(w)
  PROVE  IsStore(Result(w, d))
<1>1. ASSUME NEW key \in Keys PROVE MayHold(key, LastWrite(w, key, d[key]))
  <2>1. CASE Writes(w, key)
    <3>1. PICK k : LastAt(w, key, k) /\ LastWrite(w, key, d[key]) = w[k].val
      BY <2>1, LastWriteIs DEF Sound
    <3>2. w[k] \in Ops(w) /\ w[k].key = key
      BY <3>1 DEF LastAt, Ops
    <3> QED
      BY <3>1, <3>2 DEF Sound
  <2>2. CASE ~ Writes(w, key)
    BY <2>2, NotWritten DEF IsStore
  <2> QED
    BY <2>1, <2>2
<1> QED
  BY <1>1 DEF IsStore, Result

\* No writes leave the store as it is.
LEMMA ResultOfNone ==
  ASSUME NEW d, IsStore(d), NEW w, w = <<>>
  PROVE  Result(w, d) = d
<1>1. \A key : ~ Writes(w, key)
  BY NothingLeft DEF Writes
<1>2. \A key \in Keys : LastWrite(w, key, d[key]) = d[key]
  BY <1>1, NotWritten
<1> QED
  BY <1>2 DEF Result, IsStore

\* A write that is done leaves the same store in the end.
LEMMA ResultOfRest ==
  ASSUME NEW d, NEW e, IsStore(d), IsStore(e), NEW w, Sound(w), CacheLast(w), w # <<>>,
         \A key \in Keys : e[key] = IF w[1].key = key THEN w[1].val ELSE d[key]
  PROVE  Result(Tail(w), e) = Result(w, d)
<1>1. ASSUME NEW key \in Keys
      PROVE  LastWrite(Tail(w), key, e[key]) = LastWrite(w, key, d[key])
  <2>1. LastWrite(w, key, d[key]) =
          LastWrite(Tail(w), key, IF w[1].key = key THEN w[1].val ELSE d[key])
    BY LastWriteTail
  <2> QED
    BY <2>1
<1> QED
  BY <1>1 DEF Result

(***************************************************************************)
(* Delayed messages come and go.                                           *)
(***************************************************************************)

\* The writes of set_delayed_count_reorg_and_write_batch for the messages P from first
\* to count, which leave the batches below kept.
SetsDelayed(w, first, count, P, kept) ==
  /\ \A op \in Ops(w) :
       \/ \E i \in first .. count - 1 : op = [key |-> Delayed(i), val |-> P[i]]
       \/ \E i \in count .. MaxDelayed - 1 : op = [key |-> Delayed(i), val |-> Absent]
       \/ op = [key |-> DelayedCount, val |-> count]
       \/ \E c \in first + 1 .. MaxDelayed : op = [key |-> Sequenced(c), val |-> Absent]
       \/ \E n \in kept .. MaxBatches - 1 : op = [key |-> Meta(n), val |-> Absent]
       \/ op = [key |-> BatchCount, val |-> kept]
  /\ \A i \in first .. MaxDelayed - 1 : Writes(w, Delayed(i))
  /\ Writes(w, DelayedCount)
  /\ \A c \in first + 1 .. MaxDelayed : Writes(w, Sequenced(c))

\* One of those writes: the value that goes with its key.
SetsAs(op, first, count, P, kept) ==
  /\ op.key = DelayedCount => op.val = count
  /\ op.key = BatchCount => op.val = kept
  /\ \A n : op.key = Meta(n) => n >= kept /\ op.val = Absent
  /\ \A c : op.key = Sequenced(c) => c \in first + 1 .. MaxDelayed /\ op.val = Absent
  /\ \A i : op.key = Delayed(i) =>
       \/ i \in first .. count - 1 /\ op.val = P[i]
       \/ i \in count .. MaxDelayed - 1 /\ op.val = Absent

LEMMA SetsDelayedKeys ==
  ASSUME NEW first \in 0 .. MaxDelayed, NEW count \in 0 .. MaxDelayed, NEW P, NEW kept \in Nat, NEW w,
         SetsDelayed(w, first, count, P, kept), NEW op \in Ops(w)
  PROVE  SetsAs(op, first, count, P, kept)
<1>1. CASE \E i \in first .. count - 1 : op = [key |-> Delayed(i), val |-> P[i]]
  <2>1. PICK i \in first .. count - 1 : op = [key |-> Delayed(i), val |-> P[i]]
    BY <1>1
  <2>2. op.key = Delayed(i) /\ op.val = P[i]
    BY <2>1
  <2> QED
    BY <2>2, KeysDiffer DEF SetsAs
<1>2. CASE \E i \in count .. MaxDelayed - 1 : op = [key |-> Delayed(i), val |-> Absent]
  <2>1. PICK i \in count .. MaxDelayed - 1 : op = [key |-> Delayed(i), val |-> Absent]
    BY <1>2
  <2>2. op.key = Delayed(i) /\ op.val = Absent
    BY <2>1
  <2> QED
    BY <2>2, KeysDiffer DEF SetsAs
<1>3. CASE op = [key |-> DelayedCount, val |-> count]
  <2>1. op.key = DelayedCount /\ op.val = count
    BY <1>3
  <2> QED
    BY <2>1, KeysDiffer DEF SetsAs
<1>4. CASE \E c \in first + 1 .. MaxDelayed : op = [key |-> Sequenced(c), val |-> Absent]
  <2>1. PICK c \in first + 1 .. MaxDelayed : op = [key |-> Sequenced(c), val |-> Absent]
    BY <1>4
  <2>2. op.key = Sequenced(c) /\ op.val = Absent
    BY <2>1
  <2> QED
    BY <2>2, KeysDiffer DEF SetsAs
<1>5. CASE \E n \in kept .. MaxBatches - 1 : op = [key |-> Meta(n), val |-> Absent]
  <2>1. PICK n \in kept .. MaxBatches - 1 : op = [key |-> Meta(n), val |-> Absent]
    BY <1>5
  <2>2. op.key = Meta(n) /\ op.val = Absent /\ n >= kept
    BY <2>1, Bounds
  <2> QED
    BY <2>2, KeysDiffer DEF SetsAs
<1>6. CASE op = [key |-> BatchCount, val |-> kept]
  <2>1. op.key = BatchCount /\ op.val = kept
    BY <1>6
  <2> QED
    BY <2>1, KeysDiffer DEF SetsAs
<1> QED
  BY <1>1, <1>2, <1>3, <1>4, <1>5, <1>6 DEF SetsDelayed

\* The messages P from first to count follow the stored ones, as one chain.
Continue(d, first, count, P) ==
  /\ first <= d[DelayedCount]
  /\ \A i \in first .. count - 1 :
       /\ P[i] \in StoredDelayed
       /\ Len(P[i].before) = i
       /\ i > first => P[i].before = AccOf(P[i - 1])
       /\ i = first /\ i > 0 => P[i].before = AccOf(d[Delayed(i - 1)])

\* What such a call leaves under each key.
LEMMA SetsDelayedResult ==
  ASSUME NEW d, IsStore(d), RecordsGood(d),
         NEW first \in 0 .. MaxDelayed, NEW count \in 0 .. MaxDelayed, first <= count, NEW P,
         NEW kept \in 0 .. MaxBatches, kept <= d[BatchCount],
         NEW w, Sound(w), SetsDelayed(w, first, count, P, kept),
         \/ kept = d[BatchCount]
         \/ Writes(w, BatchCount) /\ \A n \in kept .. MaxBatches - 1 : Writes(w, Meta(n))
  PROVE  /\ Result(w, d)[DelayedCount] = count
         /\ Result(w, d)[BatchCount] = kept
         /\ \A i \in Positions :
              /\ i < first => Result(w, d)[Delayed(i)] = d[Delayed(i)]
              /\ i \in first .. count - 1 => Result(w, d)[Delayed(i)] = P[i]
              /\ i >= count => Result(w, d)[Delayed(i)] = Absent
         /\ \A n \in Numbers :
              Result(w, d)[Meta(n)] = IF n < kept THEN d[Meta(n)] ELSE Absent
         /\ \A c \in 1 .. MaxDelayed :
              Result(w, d)[Sequenced(c)] = IF c <= first THEN d[Sequenced(c)] ELSE Absent
<1>0. /\ first \in Nat /\ count \in Nat /\ kept \in Nat
      /\ IsWrites(w)
      /\ \A i \in Positions : i \in Nat
      /\ \A n \in Numbers : n \in Nat
  BY Bounds DEF Sound
<1>1. \A key \in Keys : Result(w, d)[key] = LastWrite(w, key, d[key])
  BY DEF Result
<1>2. ASSUME NEW op \in Ops(w)
      PROVE  SetsAs(op, first, count, P, kept)
  BY <1>0, SetsDelayedKeys
<1>3. Result(w, d)[DelayedCount] = count
  <2>1. LastWrite(w, DelayedCount, d[DelayedCount]) = count
    <3>1. Writes(w, DelayedCount)
      BY DEF SetsDelayed
    <3>2. \A op \in Ops(w) : op.key = DelayedCount => op.val = count
      BY <1>2 DEF SetsAs
    <3> QED
      BY <1>0, <3>1, <3>2, WrittenAs
  <2> QED
    BY <1>1, <2>1, KeysAre
<1>4. Result(w, d)[BatchCount] = kept
  <2>1. LastWrite(w, BatchCount, d[BatchCount]) = kept
    <3>1. \A op \in Ops(w) : op.key = BatchCount => op.val = kept
      BY <1>2 DEF SetsAs
    <3>2. CASE Writes(w, BatchCount)
      BY <1>0, <3>1, <3>2, WrittenAs
    <3>3. CASE ~ Writes(w, BatchCount)
      BY <3>3, NotWritten
    <3> QED
      BY <3>2, <3>3
  <2> QED
    BY <1>1, <2>1, KeysAre
<1>5. ASSUME NEW i \in Positions
      PROVE  /\ i < first => Result(w, d)[Delayed(i)] = d[Delayed(i)]
             /\ i \in first .. count - 1 => Result(w, d)[Delayed(i)] = P[i]
             /\ i >= count => Result(w, d)[Delayed(i)] = Absent
  <2> DEFINE key == Delayed(i)
  <2>1. Result(w, d)[key] = LastWrite(w, key, d[key])
    BY <1>1, KeysAre
  <2>2. i >= first => Writes(w, key)
    <3>1. i >= first => i \in first .. MaxDelayed - 1
      BY <1>0, Bounds
    <3> QED
      BY <3>1 DEF SetsDelayed
  <2>3. \A op \in Ops(w) : op.key = key =>
          \/ i \in first .. count - 1 /\ op.val = P[i]
          \/ i \in count .. MaxDelayed - 1 /\ op.val = Absent
    BY <1>2 DEF SetsAs
  <2> HIDE DEF key
  <2>4. CASE i < first
    <3>1. i \notin first .. count - 1 /\ i \notin count .. MaxDelayed - 1 /\ ~ (i >= count)
      BY <1>0, <2>4
    <3>2. ~ Writes(w, key)
      BY <2>3, <3>1 DEF Writes
    <3>3. LastWrite(w, key, d[key]) = d[key]
      BY <3>2, NotWritten
    <3> QED
      BY <2>1, <3>1, <3>3 DEF key
  <2>5. CASE i \in first .. count - 1
    <3>1. i >= first /\ i \notin count .. MaxDelayed - 1 /\ ~ (i >= count) /\ ~ (i < first)
      BY <1>0, <2>5
    <3>2. \A op \in Ops(w) : op.key = key => op.val = P[i]
      BY <2>3, <3>1
    <3>3. LastWrite(w, key, d[key]) = P[i]
      <4> DEFINE val == P[i]
      <4>1. Writes(w, key) /\ \A op \in Ops(w) : op.key = key => op.val = val
        BY <2>2, <3>1, <3>2
      <4> HIDE DEF val
      <4>2. LastWrite(w, key, d[key]) = val
        BY <1>0, <4>1, WrittenAs
      <4> QED
        BY <4>2 DEF val
    <3> QED
      BY <2>1, <3>1, <3>3 DEF key
  <2>6. CASE i >= count
    <3>1. i >= first /\ i \notin first .. count - 1 /\ ~ (i < first)
      BY <1>0, <2>6
    <3>2. \A op \in Ops(w) : op.key = key => op.val = Absent
      BY <2>3, <3>1
    <3>3. LastWrite(w, key, d[key]) = Absent
      BY <1>0, <2>2, <3>1, <3>2, WrittenAs
    <3> QED
      BY <2>1, <3>1, <3>3 DEF key
  <2>7. i < first \/ i \in first .. count - 1 \/ i >= count
    BY <1>0
  <2> QED
    BY <2>4, <2>5, <2>6, <2>7
<1>6. ASSUME NEW n \in Numbers
      PROVE  Result(w, d)[Meta(n)] = IF n < kept THEN d[Meta(n)] ELSE Absent
  <2> DEFINE key == Meta(n)
  <2>1. Result(w, d)[key] = LastWrite(w, key, d[key])
    BY <1>1, KeysAre
  <2>2. \A op \in Ops(w) : op.key = key => n >= kept /\ op.val = Absent
    BY <1>2 DEF SetsAs
  <2>3. CASE n < kept
    <3>1. ~ (n >= kept)
      BY <1>0, <2>3
    <3>2. ~ Writes(w, key)
      BY <2>2, <3>1 DEF Writes
    <3>3. LastWrite(w, key, d[key]) = d[key]
      BY <3>2, NotWritten
    <3> QED
      BY <2>1, <2>3, <3>3
  <2>4. CASE ~ (n < kept)
    <3>1. n \in kept .. MaxBatches - 1
      BY <1>0, <2>4, Bounds
    <3>2. LastWrite(w, key, d[key]) = Absent
      <4>1. CASE Writes(w, key)
        <5> HIDE DEF key
        <5> QED
          BY <1>0, <2>2, <4>1, WrittenAs
      <4>2. CASE ~ Writes(w, key)
        <5>1. LastWrite(w, key, d[key]) = d[key]
          BY <4>2, NotWritten
        <5>2. kept = d[BatchCount]
          BY <3>1, <4>2
        <5>3. MetaIn(d)[n] = Absent
          BY <2>4, <5>2 DEF RecordsGood, MetasGood
        <5> QED
          BY <5>1, <5>3 DEF MetaIn
      <4> QED
        BY <4>1, <4>2
    <3> QED
      BY <2>1, <2>4, <3>2
  <2> QED
    BY <2>3, <2>4
<1>7. ASSUME NEW c \in 1 .. MaxDelayed
      PROVE  Result(w, d)[Sequenced(c)] = IF c <= first THEN d[Sequenced(c)] ELSE Absent
  <2> DEFINE key == Sequenced(c)
  <2>1. Result(w, d)[key] = LastWrite(w, key, d[key])
    BY <1>1, KeysAre
  <2>2. \A op \in Ops(w) : op.key = key => c \in first + 1 .. MaxDelayed /\ op.val = Absent
    BY <1>2 DEF SetsAs
  <2>3. CASE c <= first
    <3>1. c \notin first + 1 .. MaxDelayed
      BY <1>0, <2>3
    <3>2. ~ Writes(w, key)
      BY <2>2, <3>1 DEF Writes
    <3>3. LastWrite(w, key, d[key]) = d[key]
      BY <3>2, NotWritten
    <3> QED
      BY <2>1, <2>3, <3>3
  <2>4. CASE ~ (c <= first)
    <3>1. c \in first + 1 .. MaxDelayed
      BY <1>0, <2>4, Bounds
    <3>2. Writes(w, key)
      BY <3>1 DEF SetsDelayed
    <3>3. LastWrite(w, key, d[key]) = Absent
      <4> HIDE DEF key
      <4> QED
        BY <1>0, <2>2, <3>2, WrittenAs
    <3> QED
      BY <2>1, <2>4, <3>3
  <2> QED
    BY <2>3, <2>4
<1> QED
  BY <1>3, <1>4, <1>5, <1>6, <1>7

LEMMA SetsDelayedGood ==
  ASSUME NEW d, IsStore(d), RecordsGood(d),
         NEW first \in 0 .. MaxDelayed, NEW count \in 0 .. MaxDelayed, first <= count,
         NEW P, Continue(d, first, count, P),
         NEW kept \in 0 .. MaxBatches, kept <= d[BatchCount],
         \A m \in Numbers : m < kept => MetaIn(d)[m].delayed <= first,
         \A m \in Numbers : kept <= m /\ m < d[BatchCount] => MetaIn(d)[m].delayed > first,
         NEW w, Sound(w), SetsDelayed(w, first, count, P, kept),
         \/ kept = d[BatchCount]
         \/ Writes(w, BatchCount) /\ \A n \in kept .. MaxBatches - 1 : Writes(w, Meta(n))
  PROVE  RecordsGood(Result(w, d))
<1> DEFINE r == Result(w, d)
           D == DelayedIn(d)
           D2 == DelayedIn(r)
<1>1. /\ r[DelayedCount] = count /\ r[BatchCount] = kept
      /\ \A i \in Positions :
           /\ i < first => r[Delayed(i)] = d[Delayed(i)]
           /\ i \in first .. count - 1 => r[Delayed(i)] = P[i]
           /\ i >= count => r[Delayed(i)] = Absent
      /\ \A n \in Numbers : r[Meta(n)] = IF n < kept THEN d[Meta(n)] ELSE Absent
      /\ \A c \in 1 .. MaxDelayed : r[Sequenced(c)] = IF c <= first THEN d[Sequenced(c)] ELSE Absent
  BY SetsDelayedResult
<1> HIDE DEF r
<1>2. /\ \A i \in Positions : D[i] = d[Delayed(i)] /\ D2[i] = r[Delayed(i)]
      /\ \A n \in Numbers : MetaIn(d)[n] = d[Meta(n)] /\ MetaIn(r)[n] = r[Meta(n)]
      /\ \A c \in 1 .. MaxDelayed : /\ SequencedIn(d)[c] = d[Sequenced(c)]
                                    /\ SequencedIn(r)[c] = r[Sequenced(c)]
  BY DEF DelayedIn, MetaIn, SequencedIn
<1>3. RecordsTyped(D, d[DelayedCount], MetaIn(d), d[BatchCount], SequencedIn(d))
  BY StoreRecordsTyped
<1>4. /\ DelayedGood(D, d[DelayedCount])
      /\ MetasGood(D, d[DelayedCount], MetaIn(d), d[BatchCount])
      /\ SequencedGood(MetaIn(d), d[BatchCount], SequencedIn(d))
  BY DEF RecordsGood
<1>0. /\ first \in Nat /\ count \in Nat /\ kept \in Nat /\ d[DelayedCount] \in Nat
      /\ \A i \in Positions : i \in Nat
  BY <1>3, Bounds DEF RecordsTyped
<1> HIDE DEF D, D2
<1>5. MetasGood(D2, count, MetaIn(r), kept) /\ SequencedGood(MetaIn(r), kept, SequencedIn(r))
  <2>1. \A i \in Positions : i < first => D2[i] = D[i]
    BY <1>1, <1>2
  <2>2. \A m \in Numbers : MetaIn(r)[m] = IF m < kept THEN MetaIn(d)[m] ELSE Absent
    BY <1>1, <1>2
  <2>3. \A c \in 1 .. MaxDelayed : SequencedIn(r)[c] = IF c <= first THEN SequencedIn(d)[c] ELSE Absent
    BY <1>1, <1>2
  <2> QED
    BY <1>3, <1>4, <2>1, <2>2, <2>3, RolledBackGood
<1>6. ASSUME NEW i \in Positions
      PROVE  /\ D2[i] # Absent <=> i < count
             /\ i < count => Len(D2[i].before) = i
             /\ 0 < i /\ i < count => D2[i].before = AccOf(D2[i - 1])
  <2>0. (i > 0 => i - 1 \in Positions) /\ i \in Nat
    BY <1>0, Bounds
  <2>1. CASE i < first
    <3>1. i < count /\ i < d[DelayedCount] /\ (i > 0 => i - 1 < first)
      BY <1>0, <2>0, <2>1 DEF Continue
    <3>2. D2[i] = D[i] /\ (i > 0 => D2[i - 1] = D[i - 1])
      BY <1>1, <1>2, <2>0, <2>1, <3>1
    <3>3. /\ D[i] # Absent /\ Len(D[i].before) = i
          /\ i > 0 => D[i].before = AccOf(D[i - 1])
      BY <1>4, <2>0, <3>1 DEF DelayedGood
    <3> QED
      BY <3>1, <3>2, <3>3
  <2>2. CASE i \in first .. count - 1
    <3>1. i < count
      BY <1>0, <2>2
    <3>2. D2[i] = P[i]
      BY <1>1, <1>2, <2>2
    <3>3. D2[i] # Absent /\ Len(D2[i].before) = i
      BY <2>2, <3>2, AbsentIsNone DEF Continue
    <3>4. ASSUME i > 0 PROVE D2[i].before = AccOf(D2[i - 1])
      <4>1. CASE i = first
        <5>1. i - 1 < first
          BY <1>0, <2>0, <4>1
        <5>2. D2[i - 1] = d[Delayed(i - 1)]
          BY <1>1, <1>2, <2>0, <3>4, <5>1
        <5> QED
          BY <2>2, <3>2, <3>4, <4>1, <5>2 DEF Continue
      <4>2. CASE i # first
        <5>1. i > first /\ i - 1 \in first .. count - 1
          BY <1>0, <2>2, <4>2
        <5>2. D2[i - 1] = P[i - 1]
          BY <1>1, <1>2, <2>0, <3>4, <5>1
        <5> QED
          BY <2>2, <3>2, <5>1, <5>2 DEF Continue
      <4> QED
        BY <4>1, <4>2
    <3> QED
      BY <2>0, <3>1, <3>3, <3>4
  <2>3. CASE i >= count
    <3>1. ~ (i < count)
      BY <1>0, <2>0, <2>3
    <3> QED
      BY <1>1, <1>2, <2>3, <3>1
  <2>4. i < first \/ i \in first .. count - 1 \/ i >= count
    BY <1>0
  <2> QED
    BY <2>1, <2>2, <2>3, <2>4
<1>7. DelayedGood(D2, count)
  BY <1>6 DEF DelayedGood
<1> QED
  BY <1>1, <1>5, <1>7 DEF RecordsGood, r, D2

\* The writes of the call are of that kind.
LEMMA DelayedWritesSet ==
  ASSUME NEW first \in 0 .. MaxDelayed, NEW count \in 0 .. MaxDelayed, first <= count, NEW P,
         NEW puts, Sound(puts),
         Ops(puts) = {[key |-> Delayed(i), val |-> P[i]] : i \in first .. count - 1},
         NEW kept, NEW w, Ops(DelayedWrites(first, count, puts)) \subseteq Ops(w),
         \A op \in Ops(w) :
           \/ op \in Ops(DelayedWrites(first, count, puts))
           \/ \E n \in kept .. MaxBatches - 1 : op = [key |-> Meta(n), val |-> Absent]
           \/ op = [key |-> BatchCount, val |-> kept]
  PROVE  SetsDelayed(w, first, count, P, kept)
<1> DEFINE a == {[key |-> Delayed(i), val |-> P[i]] : i \in first .. count - 1}
           b == {[key |-> Delayed(i), val |-> Absent] : i \in count .. MaxDelayed - 1}
           c == {[key |-> DelayedCount, val |-> count]}
           e == {[key |-> Sequenced(x), val |-> Absent] : x \in first + 1 .. MaxDelayed}
<1>1. Ops(DelayedWrites(first, count, puts)) = a \cup b \cup c \cup e
  BY DelayedWritesSound
<1>2. ASSUME NEW op \in Ops(w)
      PROVE  \/ \E i \in first .. count - 1 : op = [key |-> Delayed(i), val |-> P[i]]
             \/ \E i \in count .. MaxDelayed - 1 : op = [key |-> Delayed(i), val |-> Absent]
             \/ op = [key |-> DelayedCount, val |-> count]
             \/ \E x \in first + 1 .. MaxDelayed : op = [key |-> Sequenced(x), val |-> Absent]
             \/ \E n \in kept .. MaxBatches - 1 : op = [key |-> Meta(n), val |-> Absent]
             \/ op = [key |-> BatchCount, val |-> kept]
  <2>1. op \in Ops(DelayedWrites(first, count, puts)) => op \in a \/ op \in b \/ op \in c \/ op \in e
    BY <1>1
  <2> QED
    BY <2>1
<1>3. ASSUME NEW i \in first .. MaxDelayed - 1 PROVE Writes(w, Delayed(i))
  <2>1. i \in first .. count - 1 \/ i \in count .. MaxDelayed - 1
    BY Bounds
  <2>2. CASE i \in first .. count - 1
    <3>1. [key |-> Delayed(i), val |-> P[i]] \in a
      BY <2>2
    <3>2. [key |-> Delayed(i), val |-> P[i]] \in Ops(w)
      BY <1>1, <3>1
    <3> QED
      BY <3>2 DEF Writes
  <2>3. CASE i \in count .. MaxDelayed - 1
    <3>1. [key |-> Delayed(i), val |-> Absent] \in b
      BY <2>3
    <3>2. [key |-> Delayed(i), val |-> Absent] \in Ops(w)
      BY <1>1, <3>1
    <3> QED
      BY <3>2 DEF Writes
  <2> QED
    BY <2>1, <2>2, <2>3
<1>4. Writes(w, DelayedCount)
  <2>1. [key |-> DelayedCount, val |-> count] \in Ops(w)
    BY <1>1
  <2> QED
    BY <2>1 DEF Writes
<1>5. ASSUME NEW x \in first + 1 .. MaxDelayed PROVE Writes(w, Sequenced(x))
  <2>1. [key |-> Sequenced(x), val |-> Absent] \in e
    OBVIOUS
  <2>2. [key |-> Sequenced(x), val |-> Absent] \in Ops(w)
    BY <1>1, <2>1
  <2> QED
    BY <2>2 DEF Writes
<1> QED
  BY <1>2, <1>3, <1>4, <1>5 DEF SetsDelayed

\* set_delayed_count_reorg_and_write_batch rolls back the batches that read what is
\* replaced, and no other.
LEMMA SetDelayedCountGood ==
  ASSUME StoreTyped, RecordsGood(db),
         NEW first \in 0 .. MaxDelayed, NEW count \in 0 .. MaxDelayed, first <= count,
         NEW P, Continue(db, first, count, P), NEW puts, Sound(puts),
         Ops(puts) = {[key |-> Delayed(i), val |-> P[i]] : i \in first .. count - 1},
         SetDelayedCount(first, count, puts)
  PROVE  RecordsGood(Result(todo', db))
<1> DEFINE D == DelayedIn(db)
           M == MetaIn(db)
           S == SequencedIn(db)
           bc == db[BatchCount]
           writes == DelayedWrites(first, count, puts)
<1>1. IsStore(db)
  BY DEF StoreTyped, IsStore
<1>2. RecordsTyped(D, db[DelayedCount], M, bc, S)
  BY <1>1, StoreRecordsTyped
<1>3. MetasGood(D, db[DelayedCount], M, bc) /\ SequencedGood(M, bc, S)
  BY DEF RecordsGood
<1>4. bc \in 0 .. MaxBatches /\ bc \in Nat /\ first \in Nat /\ first <= MaxDelayed
  BY <1>2, Bounds DEF RecordsTyped
<1>5. \A c \in first + 1 .. MaxDelayed : c \in 1 .. MaxDelayed /\ S[c] = db[Sequenced(c)]
  <2>1. \A c \in first + 1 .. MaxDelayed : c \in 1 .. MaxDelayed
    BY <1>4, Bounds
  <2> QED
    BY <2>1 DEF SequencedIn
<1>6. Sound(writes)
  BY DelayedWritesSound
<1> HIDE DEF D, M, S, bc, writes
<1>7. CASE FirstSequenced(first) = {}
  <2>1. todo' = writes
    BY <1>7 DEF SetDelayedCount, writes
  <2>2. \A c \in first + 1 .. MaxDelayed : S[c] = Absent
    BY <1>5, <1>7, FirstSequencedIs
  <2>3. \A m \in Numbers : m < bc => M[m].delayed <= first
    BY <1>2, <1>3, <2>2, RollbackIsExact
  <2>4. \A m \in Numbers : bc <= m /\ m < bc => M[m].delayed > first
    <3>1. \A m \in Numbers : ~ (bc <= m /\ m < bc)
      BY <1>4, Bounds
    <3> QED
      BY <3>1
  <2>5. SetsDelayed(writes, first, count, P, bc)
    BY DelayedWritesSet DEF writes
  <2>6. bc <= bc
    BY <1>4
  <2>7. RecordsGood(Result(writes, db))
    BY <1>1, <1>4, <1>6, <2>3, <2>4, <2>5, <2>6, SetsDelayedGood DEF M, bc
  <2> QED
    BY <2>1, <2>7
<1>8. CASE FirstSequenced(first) # {}
  <2>1. PICK n \in FirstSequenced(first) : todo' = MetaDeletes(n) \o writes \o Put(BatchCount, n)
    BY <1>8 DEF SetDelayedCount, writes
  <2>2. /\ n \in Numbers
        /\ \E c \in first + 1 .. MaxDelayed :
             /\ db[Sequenced(c)] = n /\ n # Absent
             /\ \A e \in first + 1 .. MaxDelayed : db[Sequenced(e)] # Absent => c <= e
    BY FirstSequencedIs
  <2>3. PICK c \in first + 1 .. MaxDelayed :
               S[c] = n /\ \A e \in first + 1 .. MaxDelayed : S[e] # Absent => c <= e
    BY <1>5, <2>2
  <2>4. /\ n < bc
        /\ \A m \in Numbers : m < n => M[m].delayed <= first
        /\ \A m \in Numbers : n <= m /\ m < bc => M[m].delayed > first
    BY <1>2, <1>3, <2>2, <2>3, RollbackIsExact
  <2>5. n \in 0 .. MaxBatches /\ n <= bc
    BY <1>4, <2>2, <2>4, Bounds
  <2> DEFINE w == MetaDeletes(n) \o writes \o Put(BatchCount, n)
             gone == {[key |-> Meta(m), val |-> Absent] : m \in n .. MaxBatches - 1}
  <2>6. Sound(w) /\ Ops(w) = Ops(writes) \cup gone \cup {[key |-> BatchCount, val |-> n]}
    BY <2>2, RollbackSound DEF writes
  <2> HIDE DEF w
  <2>7. SetsDelayed(w, first, count, P, n)
    <3>1. Ops(writes) \subseteq Ops(w)
      BY <2>6
    <3>2. \A op \in Ops(w) :
            \/ op \in Ops(writes)
            \/ \E m \in n .. MaxBatches - 1 : op = [key |-> Meta(m), val |-> Absent]
            \/ op = [key |-> BatchCount, val |-> n]
      BY <2>6
    <3> QED
      BY <3>1, <3>2, DelayedWritesSet DEF writes
  <2>8. Writes(w, BatchCount)
    <3>1. [key |-> BatchCount, val |-> n] \in Ops(w)
      BY <2>6
    <3> QED
      BY <3>1 DEF Writes
  <2>9. ASSUME NEW m \in n .. MaxBatches - 1 PROVE Writes(w, Meta(m))
    <3>1. [key |-> Meta(m), val |-> Absent] \in Ops(w)
      BY <2>6
    <3> QED
      BY <3>1 DEF Writes
  <2>10. RecordsGood(Result(w, db))
    BY <1>1, <2>4, <2>5, <2>6, <2>7, <2>8, <2>9, SetsDelayedGood DEF M, bc
  <2> QED
    BY <2>1, <2>10 DEF w
<1> QED
  BY <1>7, <1>8

\* The L1 messages that a call adds follow the one before them.
LEMMA AddDelayedGood ==
  ASSUME L1Typed, StoreTyped, RecordsGood(db), NEW first \in Positions, NEW last \in Positions,
         AddDelayed(first, last)
  PROVE  RecordsGood(Result(todo', db))
<1> DEFINE P == [i \in Positions |-> [before |-> DelayedAcc(i), body |-> l1.delayed[i + 1]]]
           count == last + 1
           D == DelayedIn(db)
<1>1. /\ first <= last /\ last < Len(l1.delayed) /\ Follows(first)
      /\ SetDelayedCount(first, count, DelayedPuts(first, last))
  BY DEF AddDelayed
<1>2. /\ first \in 0 .. MaxDelayed /\ count \in 0 .. MaxDelayed /\ first <= count
      /\ count - 1 = last /\ first \in Nat /\ last \in Nat /\ Len(l1.delayed) \in Nat
      /\ l1.delayed \in Seq(Bodies)
      /\ db[DelayedCount] \in Nat
      /\ \A i \in first .. last : i \in Positions /\ i \in Nat /\ i + 1 \in 1 .. Len(l1.delayed)
  BY <1>1, StoredValues, Bounds DEF L1Typed
<1>3. /\ Sound(DelayedPuts(first, last))
      /\ Ops(DelayedPuts(first, last)) = {[key |-> Delayed(i), val |-> P[i]] : i \in first .. count - 1}
  <2>1. /\ Sound(DelayedPuts(first, last))
        /\ Ops(DelayedPuts(first, last)) =
             {[key |-> Delayed(i), val |-> [before |-> DelayedAcc(i), body |-> l1.delayed[i + 1]]] :
                i \in first .. last}
    BY <1>1, DelayedPutsSound
  <2> DEFINE val(i) == [before |-> DelayedAcc(i), body |-> l1.delayed[i + 1]]
  <2>2. \A i \in first .. last : P[i] = val(i)
    BY <1>2
  <2>3. first .. count - 1 = first .. last
    BY <1>2
  <2>4. Ops(DelayedPuts(first, last)) = {[key |-> Delayed(i), val |-> val(i)] : i \in first .. last}
    BY <2>1
  <2> HIDE DEF P, val, count
  <2>5. {[key |-> Delayed(i), val |-> val(i)] : i \in first .. last} =
          {[key |-> Delayed(i), val |-> P[i]] : i \in first .. last}
    BY <2>2
  <2> QED
    BY <2>1, <2>3, <2>4, <2>5
<1>4. ASSUME NEW i \in first .. last
      PROVE  /\ P[i] \in StoredDelayed
             /\ P[i].before = SubSeq(l1.delayed, 1, i)
             /\ Len(P[i].before) = i
             /\ AccOf(P[i]) = SubSeq(l1.delayed, 1, i + 1)
  <2>1. P[i] = [before |-> SubSeq(l1.delayed, 1, i), body |-> l1.delayed[i + 1]]
    BY <1>2 DEF DelayedAcc
  <2>2. /\ i \in 0 .. Len(l1.delayed) /\ i + 1 \in 1 .. Len(l1.delayed) /\ i \in Nat
    BY <1>2
  <2>3. /\ SubSeq(l1.delayed, 1, i) \in Seq(Bodies) /\ Len(SubSeq(l1.delayed, 1, i)) = i
        /\ l1.delayed[i + 1] \in Bodies
    BY <1>2, <2>2
  <2>4. Append(SubSeq(l1.delayed, 1, i), l1.delayed[i + 1]) = SubSeq(l1.delayed, 1, i + 1)
    BY <1>2, <2>2
  <2> HIDE DEF P
  <2> QED
    BY <2>1, <2>3, <2>4 DEF StoredDelayed, AccOf
<1>5. first <= db[DelayedCount]
  <2>1. CASE first = 0
    BY <1>2, <2>1
  <2>2. CASE first > 0
    <3>1. first - 1 \in Positions /\ db[Delayed(first - 1)] # Absent
      BY <1>1, <2>2 DEF Follows, HasDelayed
    <3>2. first - 1 < db[DelayedCount]
      BY <3>1 DEF RecordsGood, DelayedGood, DelayedIn
    <3> QED
      BY <1>2, <3>2
  <2> QED
    BY <1>2, <2>1, <2>2
<1>6. Continue(db, first, count, P)
  <2>1. ASSUME NEW i \in first .. last
        PROVE  /\ i > first => P[i].before = AccOf(P[i - 1])
               /\ i = first /\ i > 0 => P[i].before = AccOf(db[Delayed(i - 1)])
    <3>1. ASSUME i > first PROVE P[i].before = AccOf(P[i - 1])
      <4>1. i - 1 \in first .. last /\ (i - 1) + 1 = i
        BY <1>2, <3>1
      <4> HIDE DEF P
      <4> QED
        BY <1>4, <4>1
    <3>2. ASSUME i = first, i > 0 PROVE P[i].before = AccOf(db[Delayed(i - 1)])
      <4>1. AccOf(db[Delayed(i - 1)]) = SubSeq(l1.delayed, 1, i)
        BY <1>1, <3>2 DEF Follows, get_delayed_acc, AccOf, DelayedAcc
      <4> HIDE DEF P
      <4> QED
        BY <1>4, <4>1
    <3> QED
      BY <3>1, <3>2
  <2>2. \A i \in first .. count - 1 : i \in first .. last
    BY <1>2
  <2>3. \A i \in first .. last : P[i] \in StoredDelayed /\ Len(P[i].before) = i
    BY <1>4
  <2> HIDE DEF P, count
  <2> QED
    BY <1>5, <2>1, <2>2, <2>3 DEF Continue
<1> HIDE DEF P, count
<1> QED
  BY <1>1, <1>2, <1>3, <1>6, SetDelayedCountGood

LEMMA ReorgDelayedGood ==
  ASSUME L1Typed, StoreTyped, RecordsGood(db), ReorgDelayed
  PROVE  RecordsGood(Result(todo', db))
<1> DEFINE first == Len(l1.delayed)
           P == <<>>
<1>1. first < db[DelayedCount] /\ SetDelayedCount(first, first, <<>>)
  BY DEF ReorgDelayed
<1>2. first \in 0 .. MaxDelayed /\ first <= first /\ first .. first - 1 = {}
  BY Bounds DEF L1Typed
<1>3. first <= db[DelayedCount]
  BY <1>1, <1>2, StoredValues, Bounds
<1>4. Sound(<<>>) /\ Ops(<<>>) = {}
  BY NothingLeft
<1> HIDE DEF first, P
<1>5. Continue(db, first, first, P)
  BY <1>2, <1>3 DEF Continue
<1>6. Ops(<<>>) = {[key |-> Delayed(i), val |-> P[i]] : i \in first .. first - 1}
  BY <1>2, <1>4
<1> QED
  BY <1>1, <1>2, <1>4, <1>5, <1>6, SetDelayedCountGood

(***************************************************************************)
(* Batches are added.                                                      *)
(***************************************************************************)

\* The batch under a delayed count, after the writes that record a window: those of the
\* window's own batches come after the removals.
LEMMA SequencedLast ==
  ASSUME NEW first, NEW last, NEW out, Window(first, last), Accepted(first, last),
         NEW x \in 1 .. MaxDelayed, NEW old
  PROVE  LastWrite(WindowWrites(first, last, out), Sequenced(x), old) =
           LastWrite(RecordWrites(first, last), Sequenced(x),
                     IF x <= PrevMeta(first).delayed THEN old ELSE Absent)
<1> DEFINE key == Sequenced(x)
           l == Put(Log, db[Log] \o out)
           a == MetaDeletes(last + 1)
           b == DeleteRange("sequenced", PrevMeta(first).delayed + 1, MaxDelayed)
           c == RecordWrites(first, last)
           d == Put(BatchCount, last + 1)
           e == CacheWrites(first, last)
           start == IF x <= PrevMeta(first).delayed THEN old ELSE Absent
<1>0. WindowWrites(first, last, out) = l \o ((((a \o b) \o c) \o d) \o e)
  BY DEF WindowWrites, BatchWrites
<1>1. first \in Nat /\ last \in Nat /\ last + 1 \in 0 .. MaxBatches
  BY Bounds DEF Window
<1>2. IsWrites(l) /\ ~ Writes(l, key)
  <2>1. IsWrites(l) /\ Ops(l) = {[key |-> Log, val |-> db[Log] \o out]}
    BY KeysAre, PutWrites
  <2>2. \A op \in Ops(l) : op.key = Log
    BY <2>1
  <2> HIDE DEF l
  <2> QED
    BY <2>1, <2>2, KeysDiffer DEF Writes
<1>3. IsWrites(a) /\ ~ Writes(a, key)
  <2>1. IsWrites(a) /\ Ops(a) = {[key |-> Meta(n), val |-> Absent] : n \in last + 1 .. MaxBatches - 1}
    BY <1>1, SoundDeletes DEF Sound
  <2>2. \A op \in Ops(a) : \E n : op.key = Meta(n)
    BY <2>1
  <2> HIDE DEF a
  <2> QED
    BY <2>1, <2>2, KeysDiffer DEF Writes
<1>4. IsWrites(d) /\ ~ Writes(d, key)
  <2>1. IsWrites(d) /\ Ops(d) = {[key |-> BatchCount, val |-> last + 1]}
    BY KeysAre, PutWrites
  <2>2. \A op \in Ops(d) : op.key = BatchCount
    BY <2>1
  <2> HIDE DEF d
  <2> QED
    BY <2>1, <2>2, KeysDiffer DEF Writes
<1>5. IsWrites(e) /\ ~ Writes(e, key)
  <2>1. /\ IsWrites(e)
        /\ Ops(e) = {[key |-> CacheEntry(n), val |-> NewMeta(first, last, n)] : n \in first .. last}
    BY CacheWritesSound DEF Sound
  <2>2. \A op \in Ops(e) : \E n : op.key = CacheEntry(n)
    BY <2>1
  <2> HIDE DEF e
  <2> QED
    BY <2>1, <2>2, CacheEntriesDiffer DEF Writes
<1>6. IsWrites(c)
  BY RecordWritesSound DEF Sound
<1>7. IsWrites(b) /\ LastWrite(b, key, old) = start
  <2>1. PrevMeta(first).delayed \in 0 .. MaxDelayed
    BY DEF Window, BatchMetadata
  <2>2. PrevMeta(first).delayed + 1 \in 1 .. MaxDelayed + 1
    BY <2>1, Bounds
  <2>3. /\ IsWrites(b)
        /\ Ops(b) = {[key |-> Sequenced(m), val |-> Absent] : m \in PrevMeta(first).delayed + 1 .. MaxDelayed}
    BY <2>2, SoundDeletes DEF Sound
  <2> HIDE DEF b
  <2>4. \A op \in Ops(b) : \E m \in PrevMeta(first).delayed + 1 .. MaxDelayed :
                             op.key = Sequenced(m) /\ op.val = Absent
    BY <2>3
  <2>5. \A op \in Ops(b) : op.key = key => op.val = Absent /\ x \in PrevMeta(first).delayed + 1 .. MaxDelayed
    BY <2>4, KeysDiffer
  <2>6. CASE x <= PrevMeta(first).delayed
    <3>1. x \notin PrevMeta(first).delayed + 1 .. MaxDelayed
      BY <2>1, <2>6, Bounds
    <3>2. ~ Writes(b, key)
      BY <2>5, <3>1 DEF Writes
    <3>3. LastWrite(b, key, old) = old
      BY <3>2, NotWritten
    <3> QED
      BY <2>3, <2>6, <3>3
  <2>7. CASE ~ (x <= PrevMeta(first).delayed)
    <3>1. x \in PrevMeta(first).delayed + 1 .. MaxDelayed
      BY <2>1, <2>7, Bounds
    <3>2. [key |-> Sequenced(x), val |-> Absent] \in Ops(b)
      BY <2>3, <3>1
    <3>3. Writes(b, key)
      BY <3>2 DEF Writes
    <3>4. LastWrite(b, key, old) = Absent
      <4> HIDE DEF key
      <4> QED
        BY <2>3, <2>5, <3>3, WrittenAs
    <3> QED
      BY <2>3, <2>7, <3>4
  <2> QED
    BY <2>6, <2>7
<1> HIDE DEF key, l, a, b, c, d, e, start
<1>8. /\ IsWrites(a \o b)
      /\ LastWrite(a \o b, key, old) = start
  <2>1. LastWrite(a \o b, key, old) = LastWrite(b, key, LastWrite(a, key, old))
    BY <1>3, <1>7, LastWriteConcat
  <2>2. LastWrite(a, key, old) = old
    BY <1>3, NotWritten
  <2> QED
    BY <1>3, <1>7, <2>1, <2>2, ConcatWrites
<1>9. /\ IsWrites((a \o b) \o c)
      /\ LastWrite((a \o b) \o c, key, old) = LastWrite(c, key, start)
  <2> DEFINE u == a \o b
  <2>1. IsWrites(u) /\ LastWrite(u, key, old) = start
    BY <1>8
  <2> HIDE DEF u
  <2>2. LastWrite(u \o c, key, old) = LastWrite(c, key, start) /\ IsWrites(u \o c)
    BY <1>6, <2>1, LastWriteConcat, ConcatWrites
  <2> QED
    BY <2>2 DEF u
<1>10. /\ IsWrites(((a \o b) \o c) \o d)
       /\ LastWrite(((a \o b) \o c) \o d, key, old) = LastWrite(c, key, start)
  <2> DEFINE u == (a \o b) \o c
             v == LastWrite(c, key, start)
  <2>1. IsWrites(u) /\ LastWrite(u, key, old) = v
    BY <1>9
  <2> HIDE DEF u, v
  <2>2. LastWrite(u \o d, key, old) = LastWrite(d, key, v) /\ IsWrites(u \o d)
    BY <1>4, <2>1, LastWriteConcat, ConcatWrites
  <2>3. LastWrite(d, key, v) = v
    BY <1>4, NotWritten
  <2> QED
    BY <2>2, <2>3 DEF u, v
<1>11. /\ IsWrites((((a \o b) \o c) \o d) \o e)
       /\ LastWrite((((a \o b) \o c) \o d) \o e, key, old) = LastWrite(c, key, start)
  <2> DEFINE u == ((a \o b) \o c) \o d
             v == LastWrite(c, key, start)
  <2>1. IsWrites(u) /\ LastWrite(u, key, old) = v
    BY <1>10
  <2> HIDE DEF u, v
  <2>2. LastWrite(u \o e, key, old) = LastWrite(e, key, v) /\ IsWrites(u \o e)
    BY <1>5, <2>1, LastWriteConcat, ConcatWrites
  <2>3. LastWrite(e, key, v) = v
    BY <1>5, NotWritten
  <2> QED
    BY <2>2, <2>3 DEF u, v
<1>12. LastWrite(l \o ((((a \o b) \o c) \o d) \o e), key, old) = LastWrite(c, key, start)
  <2> DEFINE u == (((a \o b) \o c) \o d) \o e
             v == LastWrite(c, key, start)
  <2>1. IsWrites(u) /\ LastWrite(u, key, old) = v
    BY <1>11
  <2> HIDE DEF u, v
  <2>2. LastWrite(l \o u, key, old) = LastWrite(u, key, LastWrite(l, key, old))
    BY <1>2, <2>1, LastWriteConcat
  <2>3. LastWrite(l, key, old) = old
    BY <1>2, NotWritten
  <2> QED
    BY <2>1, <2>2, <2>3 DEF u, v
<1>13. LastWrite(WindowWrites(first, last, out), key, old) = LastWrite(c, key, start)
  BY <1>0, <1>12
<1> QED
  BY <1>13 DEF key, c, start

\* A batch of the window is the first that reaches x delayed messages.
Reaches(first, x, n) == DelayedUpTo(first, n) = x /\ DelayedUpTo(first, n - 1) < x

LEMMA UpToOrdered ==
  ASSUME NEW first, NEW last, Window(first, last), L1Ordered,
         first > 0 => PrevMeta(first).delayed = l1.batches[first].after,
         first = 0 => PrevMeta(first).delayed = 0
  PROVE  /\ \A n \in first - 1 .. last : DelayedUpTo(first, n) \in 0 .. MaxDelayed
         /\ \A m, n \in first - 1 .. last : m <= n => DelayedUpTo(first, m) <= DelayedUpTo(first, n)
         /\ DelayedUpTo(first, first - 1) = PrevMeta(first).delayed
         /\ \A n \in first .. last : DelayedUpTo(first, n) = l1.batches[n + 1].after
<1>1. /\ first \in Nat /\ last \in Nat /\ first <= last /\ last < Len(l1.batches)
      /\ Len(l1.batches) \in Nat
  BY Bounds DEF Window, L1Typed
<1>2. \A n \in first - 1 .. last : DelayedUpTo(first, n) \in 0 .. MaxDelayed
  BY <1>1, CountsTyped DEF Window
<1>3. DelayedUpTo(first, first - 1) = PrevMeta(first).delayed
  BY <1>1 DEF DelayedUpTo
<1>4. \A n \in first .. last : DelayedUpTo(first, n) = l1.batches[n + 1].after
  BY <1>1 DEF DelayedUpTo
<1>5. ASSUME NEW m \in first - 1 .. last, NEW n \in first - 1 .. last, m <= n
      PROVE  DelayedUpTo(first, m) <= DelayedUpTo(first, n)
  <2>1. CASE m \in first .. last
    <3>1. n \in first .. last /\ m + 1 \in 1 .. Len(l1.batches) /\ n + 1 \in 1 .. Len(l1.batches)
          /\ m + 1 <= n + 1
      BY <1>1, <1>5, <2>1
    <3>2. l1.batches[m + 1].after <= l1.batches[n + 1].after
      BY <3>1 DEF L1Ordered
    <3> QED
      BY <1>4, <2>1, <3>1, <3>2
  <2>2. CASE m = first - 1 /\ n \in first .. last
    <3>1. CASE first = 0
      <4>1. DelayedUpTo(first, m) = 0 /\ DelayedUpTo(first, n) \in 0 .. MaxDelayed
        BY <1>2, <1>3, <2>2, <3>1
      <4> QED
        BY <4>1, Bounds
    <3>2. CASE first > 0
      <4>1. first \in 1 .. Len(l1.batches) /\ n + 1 \in 1 .. Len(l1.batches) /\ first <= n + 1
        BY <1>1, <2>2, <3>2
      <4>2. l1.batches[first].after <= l1.batches[n + 1].after
        BY <4>1 DEF L1Ordered
      <4> QED
        BY <1>3, <1>4, <2>2, <3>2, <4>2
    <3> QED
      BY <1>1, <3>1, <3>2
  <2>3. CASE m = first - 1 /\ n = first - 1
    BY <1>2, <2>3, Bounds
  <2> QED
    BY <1>1, <2>1, <2>2, <2>3
<1> QED
  BY <1>2, <1>3, <1>4, <1>5

\* What the writes of the window's batches leave under a delayed count.
LEMMA RecordedUnder ==
  ASSUME NEW first, NEW last, Window(first, last), L1Ordered,
         first > 0 => PrevMeta(first).delayed = l1.batches[first].after,
         first = 0 => PrevMeta(first).delayed = 0,
         NEW x \in 1 .. MaxDelayed, NEW old
  PROVE  /\ x <= PrevMeta(first).delayed =>
              LastWrite(RecordWrites(first, last), Sequenced(x), old) = old
         /\ \A n \in first .. last : Reaches(first, x, n) =>
              LastWrite(RecordWrites(first, last), Sequenced(x), old) = n
         /\ \/ LastWrite(RecordWrites(first, last), Sequenced(x), old) = old
            \/ \E n \in first .. last :
                 /\ LastWrite(RecordWrites(first, last), Sequenced(x), old) = n
                 /\ Reaches(first, x, n)
<1> DEFINE w == RecordWrites(first, last)
           key == Sequenced(x)
           upTo(n) == DelayedUpTo(first, n)
<1>0. first \in Nat /\ last \in Nat /\ first <= last
  BY Bounds DEF Window
<1>1. /\ \A n \in first - 1 .. last : upTo(n) \in 0 .. MaxDelayed
      /\ \A m, n \in first - 1 .. last : m <= n => upTo(m) <= upTo(n)
      /\ upTo(first - 1) = PrevMeta(first).delayed
  BY UpToOrdered
<1>2. \A n \in first .. last : n \in first - 1 .. last /\ n - 1 \in first - 1 .. last /\ n \in Int
  BY <1>0
<1>3. /\ IsWrites(w)
      /\ \A op \in Ops(w) : \E n \in first .. last :
           \/ op = [key |-> Meta(n), val |-> NewMeta(first, last, n)]
           \/ /\ upTo(n) > upTo(n - 1)
              /\ op = [key |-> Sequenced(upTo(n)), val |-> n]
  BY RecordWritesSound DEF Sound
<1>4. \A n \in first .. last : upTo(n) > upTo(n - 1) => [key |-> Sequenced(upTo(n)), val |-> n] \in Ops(w)
  BY RecordWritesSound
<1> HIDE DEF w
<1>5. ASSUME NEW op \in Ops(w), op.key = key
      PROVE  \E n \in first .. last : op.val = n /\ upTo(n) = x /\ upTo(n - 1) < x
  <2>1. PICK n \in first .. last :
           \/ op = [key |-> Meta(n), val |-> NewMeta(first, last, n)]
           \/ /\ upTo(n) > upTo(n - 1)
              /\ op = [key |-> Sequenced(upTo(n)), val |-> n]
    BY <1>3
  <2>2. op # [key |-> Meta(n), val |-> NewMeta(first, last, n)]
    <3>1. [key |-> Meta(n), val |-> NewMeta(first, last, n)].key = Meta(n)
      OBVIOUS
    <3> QED
      BY <1>5, <3>1, KeysDiffer
  <2>3. op.key = Sequenced(upTo(n)) /\ op.val = n /\ upTo(n) > upTo(n - 1)
    BY <2>1, <2>2
  <2>4. upTo(n) = x
    BY <1>5, <2>3, KeysDiffer
  <2>5. upTo(n) \in 0 .. MaxDelayed /\ upTo(n - 1) \in 0 .. MaxDelayed
    BY <1>1, <1>2
  <2>6. upTo(n - 1) < x
    BY <2>3, <2>4, <2>5, Bounds
  <2> QED
    BY <2>3, <2>4, <2>6
<1> HIDE DEF upTo, key
<1>6. ASSUME x <= PrevMeta(first).delayed PROVE LastWrite(w, key, old) = old
  <2>1. ASSUME NEW op \in Ops(w), op.key = key PROVE FALSE
    <3>1. PICK n \in first .. last : upTo(n - 1) < x
      BY <1>5, <2>1
    <3>2. first - 1 \in first - 1 .. last /\ n - 1 \in first - 1 .. last /\ first - 1 <= n - 1
      BY <1>0
    <3>3. upTo(first - 1) <= upTo(n - 1)
      BY <1>1, <3>2
    <3>4. upTo(first - 1) \in 0 .. MaxDelayed /\ upTo(n - 1) \in 0 .. MaxDelayed
      BY <1>1, <3>2
    <3> QED
      BY <1>1, <1>6, <3>1, <3>3, <3>4, Bounds
  <2>2. ~ Writes(w, key)
    BY <2>1 DEF Writes
  <2> QED
    BY <2>2, NotWritten
<1>7. ASSUME NEW n \in first .. last, upTo(n) = x, upTo(n - 1) < x PROVE LastWrite(w, key, old) = n
  <2>0. upTo(n) \in 0 .. MaxDelayed /\ upTo(n - 1) \in 0 .. MaxDelayed
    BY <1>1, <1>2
  <2>1. Writes(w, key)
    <3>1. upTo(n) > upTo(n - 1)
      BY <1>7, <2>0, Bounds
    <3>2. [key |-> Sequenced(upTo(n)), val |-> n] \in Ops(w)
      BY <1>4, <3>1 DEF upTo
    <3>3. [key |-> Sequenced(upTo(n)), val |-> n].key = key
      BY <1>7 DEF key
    <3> QED
      BY <3>2, <3>3, Zenon DEF Writes
  <2>2. ASSUME NEW op \in Ops(w), op.key = key PROVE op.val = n
    <3>1. PICK m \in first .. last : op.val = m /\ upTo(m) = x /\ upTo(m - 1) < x
      BY <1>5, <2>2
    <3>2. upTo(m) \in 0 .. MaxDelayed /\ upTo(m - 1) \in 0 .. MaxDelayed
      BY <1>1, <1>2
    <3>3. ASSUME m < n PROVE FALSE
      <4>1. m <= n - 1
        BY <1>0, <3>3
      <4>2. upTo(m) <= upTo(n - 1)
        BY <1>1, <1>2, <4>1
      <4> QED
        BY <1>7, <2>0, <3>1, <3>2, <4>2, Bounds
    <3>4. ASSUME n < m PROVE FALSE
      <4>1. n <= m - 1
        BY <1>0, <3>4
      <4>2. upTo(n) <= upTo(m - 1)
        BY <1>1, <1>2, <4>1
      <4> QED
        BY <1>7, <2>0, <3>1, <3>2, <4>2, Bounds
    <3>5. m = n
      BY <1>2, <3>3, <3>4
    <3> QED
      BY <3>1, <3>5
  <2> QED
    BY <1>3, <2>1, <2>2, WrittenAs
<1>8. \/ LastWrite(w, key, old) = old
      \/ \E n \in first .. last : LastWrite(w, key, old) = n /\ upTo(n) = x /\ upTo(n - 1) < x
  <2>1. CASE Writes(w, key)
    <3>1. PICK k : LastAt(w, key, k) /\ LastWrite(w, key, old) = w[k].val
      BY <1>3, <2>1, LastWriteIs
    <3>2. w[k] \in Ops(w) /\ w[k].key = key
      BY <3>1 DEF LastAt, Ops
    <3> QED
      BY <1>5, <3>1, <3>2
  <2>2. CASE ~ Writes(w, key)
    BY <2>2, NotWritten
  <2> QED
    BY <2>1, <2>2
<1> QED
  BY <1>6, <1>7, <1>8 DEF w, key, upTo, Reaches

\* What a window that passes its checks leaves under each key.
LEMMA WindowResult ==
  ASSUME StoreTyped, RecordsGood(db), NEW last, NEW out,
         Window(db[BatchCount], last), Accepted(db[BatchCount], last)
  PROVE  LET first == db[BatchCount]
             r == Result(WindowWrites(first, last, out), db)
         IN  /\ r[DelayedCount] = db[DelayedCount] /\ r[BatchCount] = last + 1
             /\ \A i \in Positions : r[Delayed(i)] = db[Delayed(i)]
             /\ \A n \in Numbers :
                  /\ n < first => r[Meta(n)] = db[Meta(n)]
                  /\ n \in first .. last => r[Meta(n)] = NewMeta(first, last, n)
                  /\ n > last => r[Meta(n)] = Absent
             /\ \A x \in 1 .. MaxDelayed :
                  r[Sequenced(x)] =
                    LastWrite(RecordWrites(first, last), Sequenced(x),
                              IF x <= PrevMeta(first).delayed THEN db[Sequenced(x)] ELSE Absent)
<1> DEFINE first == db[BatchCount]
           w == WindowWrites(first, last, out)
           r == Result(w, db)
<1>0. /\ first \in Nat /\ last \in Nat /\ first <= last /\ last \in Numbers /\ first \in Numbers
      /\ \A n \in Numbers : n \in Nat
  BY Bounds DEF Window
<1>1. IsWrites(w) /\ RecordsWindow(w, first, last)
  BY WindowWritesSound DEF Sound
<1>2. \A x \in 1 .. MaxDelayed : r[Sequenced(x)] =
        LastWrite(RecordWrites(first, last), Sequenced(x),
                  IF x <= PrevMeta(first).delayed THEN db[Sequenced(x)] ELSE Absent)
  <2>1. ASSUME NEW x \in 1 .. MaxDelayed
        PROVE  r[Sequenced(x)] = LastWrite(w, Sequenced(x), db[Sequenced(x)])
    BY KeysAre DEF Result
  <2> QED
    BY <2>1, SequencedLast
<1> HIDE DEF w
<1>3. \A key \in Keys : r[key] = LastWrite(w, key, db[key])
  BY DEF Result
<1> HIDE DEF r, first
<1>4. \A op \in Ops(w) :
        /\ op.key = BatchCount => op.val = last + 1
        /\ op.key # DelayedCount /\ \A i : op.key # Delayed(i)
  BY <1>0, <1>1 DEF RecordsWindow
<1>5. r[DelayedCount] = db[DelayedCount]
  <2>1. ~ Writes(w, DelayedCount)
    BY <1>4 DEF Writes
  <2> QED
    BY <1>3, <2>1, KeysAre, NotWritten
<1>6. r[BatchCount] = last + 1
  <2>1. Writes(w, BatchCount)
    BY <1>1 DEF RecordsWindow, Writes
  <2>2. LastWrite(w, BatchCount, db[BatchCount]) = last + 1
    <3> DEFINE val == last + 1
    <3>1. \A op \in Ops(w) : op.key = BatchCount => op.val = val
      BY <1>4
    <3> HIDE DEF val
    <3>2. LastWrite(w, BatchCount, db[BatchCount]) = val
      BY <1>1, <2>1, <3>1, WrittenAs
    <3> QED
      BY <3>2 DEF val
  <2> QED
    BY <1>3, <2>2, KeysAre
<1>7. ASSUME NEW i \in Positions PROVE r[Delayed(i)] = db[Delayed(i)]
  <2>1. ~ Writes(w, Delayed(i))
    BY <1>4 DEF Writes
  <2> QED
    BY <1>3, <2>1, KeysAre, NotWritten
<1>8. ASSUME NEW n \in Numbers
      PROVE  /\ n < first => r[Meta(n)] = db[Meta(n)]
             /\ n \in first .. last => r[Meta(n)] = NewMeta(first, last, n)
             /\ n > last => r[Meta(n)] = Absent
  <2> DEFINE key == Meta(n)
             val == NewMeta(first, last, n)
  <2>1. \A op \in Ops(w) :
          /\ op.key = key => n >= first
          /\ op.key = key /\ n <= last => op.val = val
          /\ op.key = key /\ n > last => op.val = Absent
    BY <1>1 DEF RecordsWindow
  <2>2. r[key] = LastWrite(w, key, db[key])
    BY <1>3, KeysAre
  <2>3. n \in first .. last => Writes(w, key)
    BY <1>1 DEF RecordsWindow, Writes
  <2>4. n > last => db[key] = Absent
    <3>1. n > last => ~ (n < first)
      BY <1>0
    <3> QED
      BY <3>1 DEF RecordsGood, MetasGood, MetaIn, first
  <2> HIDE DEF key, val
  <2>5. CASE n < first
    <3>1. ~ (n >= first) /\ n \notin first .. last /\ ~ (n > last)
      BY <1>0, <2>5
    <3>2. ~ Writes(w, key)
      BY <2>1, <3>1 DEF Writes
    <3>3. r[key] = db[key]
      BY <2>2, <3>2, NotWritten
    <3> QED
      BY <3>1, <3>3 DEF key
  <2>6. CASE n \in first .. last
    <3>1. n <= last /\ ~ (n > last) /\ ~ (n < first)
      BY <1>0, <2>6
    <3>2. Writes(w, key) /\ \A op \in Ops(w) : op.key = key => op.val = val
      BY <2>1, <2>3, <2>6, <3>1
    <3>3. r[key] = val
      BY <1>1, <2>2, <3>2, WrittenAs
    <3> QED
      BY <3>1, <3>3 DEF key, val
  <2>7. CASE n > last
    <3>1. n \notin first .. last /\ ~ (n < first)
      BY <1>0, <2>7
    <3>2. LastWrite(w, key, db[key]) = Absent
      <4>1. CASE Writes(w, key)
        <5>1. \A op \in Ops(w) : op.key = key => op.val = Absent
          BY <2>1, <2>7
        <5> QED
          BY <1>1, <4>1, <5>1, WrittenAs
      <4>2. CASE ~ Writes(w, key)
        BY <2>4, <2>7, <4>2, NotWritten
      <4> QED
        BY <4>1, <4>2
    <3> QED
      BY <2>2, <3>1, <3>2 DEF key
  <2>8. n < first \/ n \in first .. last \/ n > last
    BY <1>0
  <2> QED
    BY <2>5, <2>6, <2>7, <2>8
<1> QED
  BY <1>2, <1>5, <1>6, <1>7, <1>8 DEF r, w, first

\* A window that passes its checks.
LEMMA AcceptedGood ==
  ASSUME CacheInv, L1Ordered, RecordsGood(db), NEW last, NEW out,
         Window(db[BatchCount], last), Accepted(db[BatchCount], last)
  PROVE  RecordsGood(Result(WindowWrites(db[BatchCount], last, out), db))
<1> DEFINE first == db[BatchCount]
           r == Result(WindowWrites(first, last, out), db)
           D == DelayedIn(db)
           dc == db[DelayedCount]
           M == MetaIn(db)
           S == SequencedIn(db)
           prev == PrevMeta(first)
           B == l1.batches
<1>0. StoreTyped /\ L1Typed /\ IsStore(db) /\ \A n \in Numbers : EntryHolds(n)
  BY DEF CacheInv, Typed, StoreTyped, IsStore
<1>1. /\ first \in Nat /\ last \in Nat /\ first <= last /\ last \in Numbers /\ first \in Numbers
      /\ last < Len(B) /\ Len(B) \in Nat /\ B \in Seq(Batches) /\ prev \in BatchMetadata
      /\ \A n \in Numbers : n \in Nat
  BY <1>0, Bounds DEF Window, L1Typed
<1>2. /\ RecordsTyped(D, dc, M, first, S)
      /\ MetasGood(D, dc, M, first) /\ SequencedGood(M, first, S) /\ DelayedGood(D, dc)
  BY <1>0, StoreRecordsTyped DEF RecordsGood
<1>3. /\ r[DelayedCount] = dc /\ r[BatchCount] = last + 1
      /\ \A i \in Positions : r[Delayed(i)] = db[Delayed(i)]
      /\ \A n \in Numbers :
           /\ n < first => r[Meta(n)] = db[Meta(n)]
           /\ n \in first .. last => r[Meta(n)] = NewMeta(first, last, n)
           /\ n > last => r[Meta(n)] = Absent
      /\ \A x \in 1 .. MaxDelayed :
           r[Sequenced(x)] =
             LastWrite(RecordWrites(first, last), Sequenced(x),
                       IF x <= prev.delayed THEN db[Sequenced(x)] ELSE Absent)
  BY <1>0, WindowResult
<1> HIDE DEF r
<1>4. /\ \A i \in Positions : D[i] = db[Delayed(i)]
      /\ \A n \in Numbers : M[n] = db[Meta(n)] /\ MetaIn(r)[n] = r[Meta(n)]
      /\ \A x \in 1 .. MaxDelayed : /\ S[x] = db[Sequenced(x)]
                                    /\ SequencedIn(r)[x] = r[Sequenced(x)]
  BY DEF DelayedIn, MetaIn, SequencedIn
<1>5. DelayedIn(r) = D
  BY <1>3 DEF DelayedIn
\* The batch before the window, as get_batch_metadata finds it.
<1>6. prev = IF first = 0 THEN NoBatch ELSE M[first - 1]
  <2>1. CASE first = 0
    BY <2>1 DEF PrevMeta
  <2>2. CASE first # 0
    <3>1. first - 1 \in Numbers
      BY <1>1, <2>2, Bounds
    <3>2. EntryHolds(first - 1)
      BY <1>0, <3>1
    <3>3. get_batch_metadata(first - 1) = db[Meta(first - 1)]
      BY <3>2 DEF EntryHolds, get_batch_metadata
    <3> QED
      BY <1>4, <2>2, <3>1, <3>3 DEF PrevMeta
  <2> QED
    BY <2>1, <2>2
<1>7. prev.acc = SubSeq(B, 1, first) /\ \A n \in first .. last : DelayedAgree(B[n + 1])
  BY DEF Accepted, BatchAcc
<1>8. \A n \in first .. last : n + 1 \in 1 .. Len(B) /\ B[n + 1] \in Batches /\ n \in Numbers
  <2>1. \A n \in first .. last : n + 1 \in 1 .. Len(B) /\ n \in Numbers
    BY <1>1, Bounds
  <2> QED
    BY <1>1, <2>1
<1>9. (first > 0 => prev.delayed = B[first].after) /\ (first = 0 => prev.delayed = 0)
  <2>1. first = 0 => prev.delayed = 0
    BY <1>6 DEF NoBatch
  <2>2. ASSUME first > 0 PROVE prev.delayed = B[first].after
    <3>1. first - 1 \in Numbers /\ first - 1 < first /\ first \in 1 .. Len(B) /\ (first - 1) + 1 = first
      BY <1>1, <2>2, Bounds
    <3>2. M[first - 1].delayed = M[first - 1].acc[(first - 1) + 1].after
      <4> HIDE DEF first, D, dc, M, S
      <4> QED
        BY <1>2, <3>1, RecordedIs
    <3>3. prev = M[first - 1]
      BY <1>1, <1>6, <2>2
    <3>4. SubSeq(B, 1, first)[first] = B[first]
      BY <1>1, <3>1
    <3> HIDE DEF first, M, prev, B
    <3> QED
      BY <1>7, <3>1, <3>2, <3>3, <3>4
  <2> QED
    BY <2>1, <2>2
<1>10. ASSUME NEW n \in first .. last PROVE Rests(D, dc, B[n + 1])
  <2> DEFINE b == B[n + 1]
  <2>1. b.after \in 0 .. MaxDelayed /\ b.after \in Nat /\ DelayedAgree(b)
    BY <1>7, <1>8, Bounds DEF Batches
  <2>2. dc \in Nat
    BY <1>2, Bounds DEF RecordsTyped
  <2> HIDE DEF b, B, first, D, dc
  <2>3. CASE b.after = 0
    BY <2>1, <2>2, <2>3 DEF Rests, b
  <2>4. CASE b.after > 0
    <3>1. /\ b.after - 1 \in Positions /\ db[Delayed(b.after - 1)] # Absent
          /\ AccOf(db[Delayed(b.after - 1)]) = b.delayedAcc
      BY <2>1, <2>4 DEF DelayedAgree, HasDelayed, get_delayed_acc, AccOf
    <3>2. D[b.after - 1] = db[Delayed(b.after - 1)]
      BY <1>4, <3>1
    <3>3. b.after - 1 < dc
      BY <1>2, <3>1, <3>2 DEF DelayedGood
    <3>4. b.after <= dc
      BY <2>1, <2>2, <3>3
    <3>5. Rests(D, dc, b)
      BY <3>1, <3>2, <3>4 DEF Rests
    <3> QED
      BY <3>5 DEF b
  <2> QED
    BY <2>1, <2>3, <2>4
<1>11. /\ \A n \in first .. last : DelayedUpTo(first, n) = B[n + 1].after
       /\ DelayedUpTo(first, first - 1) = prev.delayed
  BY <1>9, UpToOrdered
<1>12. ASSUME NEW n \in first .. last
       PROVE  /\ MetaIn(r)[n] \in BatchMetadata
              /\ MetaIn(r)[n].acc = SubSeq(B, 1, n + 1)
              /\ MetaIn(r)[n].delayed = B[n + 1].after
  <2>1. MetaIn(r)[n] = NewMeta(first, last, n)
    BY <1>3, <1>4, <1>8
  <2>2. NewMeta(first, last, n) \in BatchMetadata
    BY NewMetaTyped
  <2>3. NewMeta(first, last, n).acc = SubSeq(B, 1, n + 1) /\ NewMeta(first, last, n).delayed = B[n + 1].after
    BY <1>11 DEF NewMeta, BatchAcc
  <2> QED
    BY <2>1, <2>2, <2>3
<1>13. /\ \A n \in Numbers : n < first => MetaIn(r)[n] = M[n]
       /\ \A n \in Numbers : n > last => MetaIn(r)[n] = Absent
  BY <1>3, <1>4
\* The batch that first reaches x delayed messages, in terms of L1's counts.
<1>14. ASSUME NEW x \in 1 .. MaxDelayed, NEW n \in first .. last, x > prev.delayed
       PROVE  ReachedBy(MetaIn(r), last + 1, x, n) <=> Reaches(first, x, n)
  <2>1. n \in Nat /\ n < last + 1 /\ prev.delayed \in Nat /\ x \in Nat
    BY <1>1, Bounds DEF BatchMetadata
  <2>2. MetaIn(r)[n].delayed = DelayedUpTo(first, n)
    BY <1>11, <1>12
  <2>3. CASE n = first
    <3>1. DelayedUpTo(first, n - 1) < x
      BY <1>11, <1>14, <2>1, <2>3
    <3>2. n > 0 => MetaIn(r)[n - 1].delayed < x
      <4>1. n > 0 => n - 1 \in Numbers /\ n - 1 < first
        BY <1>1, <2>1, <2>3, Bounds
      <4>2. n > 0 => MetaIn(r)[n - 1] = prev
        BY <1>6, <1>13, <2>1, <2>3, <4>1
      <4> QED
        BY <1>14, <2>1, <4>2
    <3> QED
      BY <2>1, <2>2, <3>1, <3>2 DEF ReachedBy, Reaches
  <2>4. CASE n # first
    <3>1. n - 1 \in first .. last /\ n > 0
      BY <1>1, <2>1, <2>4
    <3>2. MetaIn(r)[n - 1].delayed = DelayedUpTo(first, n - 1)
      BY <1>11, <1>12, <3>1
    <3> QED
      BY <2>1, <2>2, <3>1, <3>2 DEF ReachedBy, Reaches
  <2> QED
    BY <2>3, <2>4
<1>15. ASSUME NEW x \in 1 .. MaxDelayed
       PROVE  /\ x <= prev.delayed => SequencedIn(r)[x] = S[x]
              /\ x > prev.delayed =>
                   /\ \A n \in first .. last :
                        ReachedBy(MetaIn(r), last + 1, x, n) => SequencedIn(r)[x] = n
                   /\ \/ SequencedIn(r)[x] = Absent
                      \/ \E n \in first .. last :
                           SequencedIn(r)[x] = n /\ ReachedBy(MetaIn(r), last + 1, x, n)
  <2> DEFINE old == IF x <= prev.delayed THEN db[Sequenced(x)] ELSE Absent
             new == LastWrite(RecordWrites(first, last), Sequenced(x), old)
  <2>1. SequencedIn(r)[x] = new /\ S[x] = db[Sequenced(x)]
    BY <1>3, <1>4
  <2>2. prev.delayed \in Nat /\ x \in Nat
    BY <1>1, Bounds DEF BatchMetadata
  <2>3. /\ x <= prev.delayed => old = db[Sequenced(x)]
        /\ x > prev.delayed => old = Absent
    BY <2>2
  <2> HIDE DEF old
  <2>4. /\ x <= prev.delayed => new = old
        /\ \A n \in first .. last : Reaches(first, x, n) => new = n
        /\ new = old \/ \E n \in first .. last : new = n /\ Reaches(first, x, n)
    BY <1>9, RecordedUnder
  <2> HIDE DEF new, first, prev, S
  <2> QED
    BY <1>14, <2>1, <2>3, <2>4
<1> HIDE DEF first, D, dc, M, S, prev, B
<1>16. MetasGood(D, dc, MetaIn(r), last + 1) /\ SequencedGood(MetaIn(r), last + 1, SequencedIn(r))
  <2> DEFINE M2 == MetaIn(r)
             S2 == SequencedIn(r)
  <2>1. Ascending(B)
    BY DEF Ascending, L1Ordered, B
  <2>2. AddsMetas(M, M2, B, first, last)
    BY <1>12, <1>13 DEF AddsMetas
  <2>3. AddsSequenced(S, S2, M2, prev.delayed, first, last)
    BY <1>15 DEF AddsSequenced
  <2>4. AllRest(D, dc, B, first, last)
    BY <1>10 DEF AllRest
  <2> HIDE DEF M2, S2
  <2>5. /\ last \in Numbers /\ first <= last /\ B \in Seq(Batches) /\ last < Len(B)
        /\ prev \in BatchMetadata /\ prev.acc = SubSeq(B, 1, first)
    BY <1>1, <1>7
  <2>6. MetasGood(D, dc, M2, last + 1) /\ SequencedGood(M2, last + 1, S2)
    BY <1>2, <1>6, <2>1, <2>2, <2>3, <2>4, <2>5, AddedGood
  <2> QED
    BY <2>6 DEF M2, S2
<1> QED
  BY <1>2, <1>3, <1>5, <1>16 DEF RecordsGood, r, first

LEMMA OnlyLogGood ==
  ASSUME NEW d, RecordsGood(d), NEW w, \A op \in Ops(w) : op.key = Log
  PROVE  RecordsGood(Result(w, d))
<1>1. \A key \in Keys : Result(w, d)[key] = LastWrite(w, key, d[key])
  BY DEF Result
<1>2. ASSUME NEW key \in Keys, key # Log PROVE Result(w, d)[key] = d[key]
  <2>1. ~ Writes(w, key)
    BY <1>2 DEF Writes
  <2> QED
    BY <1>1, <2>1, NotWritten
<1>3. /\ \A i \in Positions : Delayed(i) # Log
      /\ \A n \in Numbers : Meta(n) # Log
      /\ \A c \in 1 .. MaxDelayed : Sequenced(c) # Log
      /\ DelayedCount # Log /\ BatchCount # Log
  BY KeysDiffer
<1> DEFINE r == Result(w, d)
<1> HIDE DEF r
<1>4. \A key \in Keys : key # Log => r[key] = d[key]
  BY <1>2 DEF r
<1>5. r[DelayedCount] = d[DelayedCount] /\ r[BatchCount] = d[BatchCount]
  BY <1>3, <1>4, KeysAre
<1>6. DelayedIn(r) = DelayedIn(d)
  BY <1>3, <1>4, KeysAre DEF DelayedIn
<1>7. MetaIn(r) = MetaIn(d)
  BY <1>3, <1>4, KeysAre DEF MetaIn
<1>8. SequencedIn(r) = SequencedIn(d)
  BY <1>3, <1>4, KeysAre DEF SequencedIn
<1> QED
  BY <1>5, <1>6, <1>7, <1>8 DEF RecordsGood, r

LEMMA AddBatchesGood ==
  ASSUME CacheInv, L1Ordered, RecordsGood(db), NEW last \in Numbers, AddBatches(last)
  PROVE  RecordsGood(Result(todo', db))
<1> DEFINE first == db[BatchCount]
           out == Resolved(Stream(first, last).out, KnownBodies)
           w == WindowWrites(first, last, out)
<1>0. L1Typed /\ StoreTyped /\ CacheTyped
  BY DEF CacheInv, Typed
<1>1. Repaired = first /\ first <= last /\ last < Len(l1.batches) /\ todo' = w
  BY DEF AddBatches, Streamable
<1>2. Window(first, last)
  <2>1. first \in Numbers
    BY <1>0, <1>1, StoredValues, Bounds
  <2> QED
    BY <1>0, <1>1, <2>1, PrevMetaTyped DEF Window
<1> HIDE DEF out
<1>3. CASE Accepted(first, last)
  BY <1>1, <1>2, <1>3, AcceptedGood
<1>4. CASE ~ Accepted(first, last)
  <2>1. \A op \in Ops(w) : op.key = Log
    BY <1>2, <1>4, WindowWritesSound
  <2> QED
    BY <1>1, <2>1, OnlyLogGood
<1> QED
  BY <1>3, <1>4

\* When the records fit together, get_batch_count has nothing to repair.
LEMMA CountIsRight ==
  ASSUME StoreTyped, RecordsGood(db)
  PROVE  Repaired = db[BatchCount]
<1> DEFINE bc == db[BatchCount]
<1>1. bc \in 0 .. MaxBatches /\ Repaired \in 0 .. bc /\ bc \in Nat
  BY RepairedIs, StoredValues, Bounds
<1>2. CASE bc = 0
  BY <1>1, <1>2
<1>3. CASE bc > 0
  <2>1. bc - 1 \in Numbers /\ bc - 1 < bc
    BY <1>1, <1>3, Bounds
  <2>2. db[Meta(bc - 1)] # Absent
    BY <2>1 DEF RecordsGood, MetasGood, MetaIn
  <2>3. bc - 1 < Repaired
    BY <2>1, <2>2, RepairedIs
  <2> QED
    BY <1>1, <2>3
<1> QED
  BY <1>1, <1>2, <1>3

\* L1 keeps its batches in order: the bridge's delayed count never goes back, and a
\* reorg keeps a prefix.
LEMMA L1StepOrdered ==
  ASSUME L1Typed, L1Ordered,
         \/ \E body \in Bodies : L1Delayed(body)
         \/ \E segs \in Contents, after \in 0 .. MaxDelayed : L1Batch(segs, after)
         \/ \E d \in 0 .. MaxDelayed, n \in 0 .. MaxBatches : L1Reorg(d, n)
  PROVE  L1Ordered'
<1>1. /\ l1.delayed \in Seq(Bodies) /\ l1.batches \in Seq(Batches)
      /\ l1 = [delayed |-> l1.delayed, batches |-> l1.batches]
      /\ Len(l1.delayed) \in Nat /\ Len(l1.batches) \in Nat
      /\ Len(l1.batches) \in 0 .. MaxBatches
  BY Bounds DEF L1Typed
<1>2. ASSUME NEW body \in Bodies, L1Delayed(body) PROVE L1Ordered'
  <2>1. l1'.batches = l1.batches
    <3> DEFINE more == Append(l1.delayed, body)
    <3>1. l1' = [l1 EXCEPT !.delayed = more]
      BY <1>2 DEF L1Delayed
    <3> HIDE DEF more
    <3> QED
      BY <1>1, <3>1
  <2> QED
    BY <2>1 DEF L1Ordered
<1>3. ASSUME NEW segs \in Contents, NEW after \in 0 .. MaxDelayed, L1Batch(segs, after)
      PROVE  L1Ordered'
  <2> DEFINE new == [id |-> Len(l1.batches), segs |-> segs, after |-> after,
                     delayedAcc |-> DelayedAcc(after)]
             old == l1.batches
             more == Append(old, new)
             top == Len(old) + 1
  <2>1. l1'.batches = more
    <3>1. l1' = [l1 EXCEPT !.batches = more]
      BY <1>3 DEF L1Batch
    <3> HIDE DEF more
    <3> QED
      BY <1>1, <3>1
  <2>2. new.after = after /\ (Len(old) > 0 => old[Len(old)].after <= after)
    <3>1. Len(old) > 0 => old # <<>>
      BY <1>1
    <3>2. Len(old) > 0 => after >= old[Len(old)].after
      BY <1>3, <3>1 DEF L1Batch
    <3>3. Len(old) > 0 => old[Len(old)].after \in 0 .. MaxDelayed
      <4>1. Len(old) > 0 => Len(old) \in 1 .. Len(old)
        BY <1>1
      <4>2. Len(old) > 0 => old[Len(old)] \in Batches
        BY <1>1, <4>1
      <4> QED
        BY <4>2 DEF Batches
    <3> QED
      BY <3>2, <3>3, Bounds
  <2> HIDE DEF new
  <2>3. Len(more) = top /\ more[top] = new /\ \A k \in 1 .. Len(old) : more[k] = old[k]
    BY <1>1
  <2> HIDE DEF more
  <2>4. \A k \in 1 .. Len(old) : old[k].after \in 0 .. MaxDelayed
    <3>1. \A k \in 1 .. Len(old) : old[k] \in Batches
      BY <1>1
    <3> QED
      BY <3>1 DEF Batches
  <2>5. \A k \in 1 .. Len(old) : old[k].after <= after
    <3>1. ASSUME NEW k \in 1 .. Len(old) PROVE old[k].after <= after
      <4>1. Len(old) > 0 /\ Len(old) \in 1 .. Len(old) /\ k <= Len(old)
        BY <1>1
      <4>2. old[k].after <= old[Len(old)].after
        BY <4>1 DEF L1Ordered
      <4>3. old[k].after \in 0 .. MaxDelayed /\ old[Len(old)].after \in 0 .. MaxDelayed
        BY <2>4, <4>1
      <4>4. old[Len(old)].after <= after
        BY <2>2, <4>1
      <4> QED
        BY <4>2, <4>3, <4>4, Bounds
    <3> QED
      BY <3>1
  <2>6. ASSUME NEW j \in 1 .. Len(more), NEW k \in 1 .. Len(more), j <= k
        PROVE  more[j].after <= more[k].after
    <3>1. CASE k \in 1 .. Len(old)
      <4>1. j \in 1 .. Len(old)
        BY <1>1, <2>3, <2>6, <3>1
      <4>2. old[j].after <= old[k].after
        BY <2>6, <3>1, <4>1 DEF L1Ordered
      <4> QED
        BY <2>3, <3>1, <4>1, <4>2
    <3>2. CASE k = top /\ j \in 1 .. Len(old)
      BY <2>2, <2>3, <2>5, <3>2
    <3>3. CASE k = top /\ j = top
      BY <2>2, <2>3, <3>3, Bounds
    <3> QED
      BY <1>1, <2>3, <3>1, <3>2, <3>3
  <2> QED
    BY <2>1, <2>6 DEF L1Ordered
<1>4. ASSUME NEW d \in 0 .. MaxDelayed, NEW n \in 0 .. MaxBatches, L1Reorg(d, n)
      PROVE  L1Ordered'
  <2>1. l1'.batches = SubSeq(l1.batches, 1, n) /\ n \in 0 .. Len(l1.batches)
    BY <1>1, <1>4, Bounds DEF L1Reorg, BatchAcc
  <2>2. /\ Len(SubSeq(l1.batches, 1, n)) = n
        /\ \A k \in 1 .. n : SubSeq(l1.batches, 1, n)[k] = l1.batches[k] /\ k \in 1 .. Len(l1.batches)
    BY <1>1, <2>1
  <2> QED
    BY <2>1, <2>2 DEF L1Ordered
<1> QED
  BY <1>2, <1>3, <1>4

LEMMA InitChain == Init => ChainInv
<1> SUFFICES ASSUME Init PROVE ChainInv
  OBVIOUS
<1>1. CacheInv
  BY InitCache
<1>2. IsStore(db) /\ todo = <<>>
  BY <1>1 DEF CacheInv, Typed, StoreTyped, IsStore, Init
<1>3. Result(todo, db) = db
  BY <1>2, ResultOfNone
<1>4. L1Ordered
  <2>1. Len(l1.batches) = 0
    BY DEF Init
  <2> QED
    BY <2>1 DEF L1Ordered
<1>5. \A key \in Keys : db[key] = CASE key \in {DelayedCount, BatchCount} -> 0
                                    [] key = Log -> <<>>
                                    [] OTHER -> Absent
  BY DEF Init
<1>6. db[DelayedCount] = 0 /\ db[BatchCount] = 0
  BY <1>5, KeysAre, KeysDiffer
<1>7. ASSUME NEW key \in Keys, key # DelayedCount, key # BatchCount, key # Log
      PROVE  db[key] = Absent
  BY <1>5, <1>7
<1>8. /\ \A i \in Positions : DelayedIn(db)[i] = Absent
      /\ \A n \in Numbers : MetaIn(db)[n] = Absent
      /\ \A c \in 1 .. MaxDelayed : SequencedIn(db)[c] = Absent
  BY <1>7, KeysAre, KeysDiffer DEF DelayedIn, MetaIn, SequencedIn
<1>9. \A n \in Numbers \cup Positions : ~ (n < 0)
  BY Bounds
<1>10. RecordsGood(db)
  <2>1. DelayedGood(DelayedIn(db), 0)
    BY <1>8, <1>9 DEF DelayedGood
  <2>2. MetasGood(DelayedIn(db), 0, MetaIn(db), 0)
    BY <1>8, <1>9 DEF MetasGood
  <2>3. SequencedGood(MetaIn(db), 0, SequencedIn(db))
    BY <1>8, <1>9, AbsentIsNone DEF SequencedGood, ReachedBy
  <2> QED
    BY <1>6, <2>1, <2>2, <2>3 DEF RecordsGood
<1> QED
  BY <1>1, <1>3, <1>4, <1>10 DEF ChainInv

\* Writing a key changes nothing of what the call under way leaves in the end.
LEMMA WriteKeyResult ==
  ASSUME CacheInv, CacheInv', WriteKey
  PROVE  Result(todo', db') = Result(todo, db)
<1> DEFINE op == todo[1]
<1>0. IsStore(db) /\ Sound(todo) /\ CacheLast(todo)
  BY DEF CacheInv, Typed, StoreTyped, IsStore
<1>1. todo # <<>> /\ todo' = Tail(todo)
  BY DEF WriteKey
<1>2. IsStore(db')
  BY DEF CacheInv, Typed, StoreTyped, IsStore
<1>3. op.key \in AllKeys
  BY <1>0, <1>1, TailWrites
<1>4. \A key \in Keys : db'[key] = IF op.key = key THEN op.val ELSE db[key]
  <2>1. CASE op.key \in Keys
    <3>1. op.key[1] # "cache"
      BY <2>1, KeysDiffer
    <3>2. db' = [db EXCEPT ![op.key] = op.val]
      BY <3>1 DEF WriteKey
    <3> QED
      BY <1>0, <3>2 DEF IsStore
  <2>2. CASE op.key \notin Keys
    <3>1. op.key[1] = "cache"
      BY <1>3, <2>2, KeysDiffer DEF AllKeys
    <3>2. db' = db
      BY <3>1 DEF WriteKey
    <3> QED
      BY <2>2, <3>2
  <2> QED
    BY <2>1, <2>2
<1>5. Result(Tail(todo), db') = Result(todo, db)
  BY <1>0, <1>1, <1>2, <1>4, ResultOfRest
<1> QED
  BY <1>1, <1>5

LEMMA NextChain == ChainInv /\ [Next]_vars => ChainInv'
<1> SUFFICES ASSUME ChainInv, [Next]_vars PROVE ChainInv'
  OBVIOUS
<1>0. CacheInv /\ L1Ordered /\ L1Typed /\ StoreTyped /\ IsStore(db) /\ UsedTyped
      /\ Sound(todo) /\ CacheLast(todo)
  BY DEF ChainInv, CacheInv, Typed, StoreTyped, IsStore
<1>1. CacheInv'
  BY <1>0, NextCacheInv
<1>2. used.crashes \in Nat
  BY <1>0 DEF UsedTyped
<1>3. ASSUME Idle, used.crashes = 0 PROVE RecordsGood(db)
  <2>1. Result(todo, db) = db
    BY <1>0, <1>3, ResultOfNone DEF Idle
  <2> QED
    BY <1>3, <2>1 DEF ChainInv
<1>4. CASE UNCHANGED vars
  BY <1>1, <1>4 DEF vars, ChainInv, L1Ordered
<1>5. CASE \/ \E body \in Bodies : L1Delayed(body)
           \/ \E segs \in Contents, after \in 0 .. MaxDelayed : L1Batch(segs, after)
           \/ \E d \in 0 .. MaxDelayed, n \in 0 .. MaxBatches : L1Reorg(d, n)
  <2>1. L1Ordered'
    BY <1>0, <1>5, L1StepOrdered
  <2>2. db' = db /\ todo' = todo
    BY <1>5 DEF L1Delayed, L1Batch, L1Reorg
  <2>3. used'.crashes = used.crashes
    <3>1. used' = used \/ used' = [used EXCEPT !.reorgs = @ + 1]
      BY <1>5 DEF L1Delayed, L1Batch, L1Reorg
    <3> QED
      BY <1>0, <3>1 DEF UsedTyped
  <2> QED
    BY <1>1, <2>1, <2>2, <2>3 DEF ChainInv
<1>6. ASSUME NEW first \in Positions, NEW last \in Positions, AddDelayed(first, last)
      PROVE  ChainInv'
  <2>1. Idle /\ l1' = l1 /\ db' = db
        /\ used' = [used EXCEPT !.rereads = IF first < db[DelayedCount] THEN @ + 1 ELSE @]
    BY <1>6 DEF AddDelayed, Reread
  <2>2. used'.crashes = used.crashes
    BY <1>0, <2>1 DEF UsedTyped
  <2>3. used.crashes = 0 => RecordsGood(Result(todo', db))
    BY <1>0, <1>3, <1>6, <2>1, AddDelayedGood
  <2> QED
    BY <1>0, <1>1, <2>1, <2>2, <2>3 DEF ChainInv, L1Ordered
<1>7. CASE ReorgDelayed
  <2>1. Idle /\ l1' = l1 /\ db' = db /\ used' = used
    BY <1>7 DEF ReorgDelayed
  <2>2. used.crashes = 0 => RecordsGood(Result(todo', db))
    BY <1>0, <1>3, <1>7, <2>1, ReorgDelayedGood
  <2> QED
    BY <1>0, <1>1, <2>1, <2>2 DEF ChainInv, L1Ordered
<1>8. CASE GetBatchCount
  <2>1. Idle /\ l1' = l1 /\ used' = used /\ Repaired # db[BatchCount]
    BY <1>8 DEF GetBatchCount
  <2>2. used.crashes # 0
    BY <1>0, <1>3, <2>1, CountIsRight
  <2> QED
    BY <1>0, <1>1, <2>1, <2>2 DEF ChainInv, L1Ordered
<1>9. ASSUME NEW n \in Numbers, GetBatchMetadata(n) PROVE ChainInv'
  <2>1. l1' = l1 /\ db' = db /\ todo' = todo /\ used' = used
    BY <1>9 DEF GetBatchMetadata
  <2> QED
    BY <1>0, <1>1, <2>1 DEF ChainInv, L1Ordered
<1>10. ASSUME NEW last \in Numbers, AddBatches(last) PROVE ChainInv'
  <2>1. Idle /\ l1' = l1 /\ db' = db /\ used' = used
    BY <1>10 DEF AddBatches, Streamable
  <2>2. used.crashes = 0 => RecordsGood(Result(todo', db))
    BY <1>0, <1>3, <1>10, <2>1, AddBatchesGood
  <2> QED
    BY <1>0, <1>1, <2>1, <2>2 DEF ChainInv, L1Ordered
<1>11. CASE WriteKey
  <2>1. l1' = l1 /\ used' = used
    BY <1>11 DEF WriteKey
  <2>2. Result(todo', db') = Result(todo, db)
    BY <1>0, <1>1, <1>11, WriteKeyResult
  <2>3. Result(todo, db)' = Result(todo', db')
    BY DEF Result
  <2> QED
    BY <1>0, <1>1, <2>1, <2>2, <2>3 DEF ChainInv, L1Ordered
<1>12. CASE Crash
  <2>1. l1' = l1 /\ used' = [used EXCEPT !.crashes = @ + 1]
    BY <1>12 DEF Crash
  <2>2. used'.crashes # 0
    BY <1>0, <1>2, <2>1 DEF UsedTyped
  <2> QED
    BY <1>0, <1>1, <2>1, <2>2 DEF ChainInv, L1Ordered
<1> QED
  BY <1>4, <1>5, <1>6, <1>7, <1>8, <1>9, <1>10, <1>11, <1>12 DEF Next, Reader

\* Between calls, until a crash, the store itself fits together.
LEMMA WholeIsGood ==
  ASSUME ChainInv, Whole
  PROVE  RecordsGood(db) /\ Repaired = db[BatchCount]
         /\ RecordsTyped(DelayedIn(db), db[DelayedCount], MetaIn(db), db[BatchCount], SequencedIn(db))
<1>1. IsStore(db) /\ StoreTyped
  BY DEF ChainInv, CacheInv, Typed, StoreTyped, IsStore
<1>2. Result(todo, db) = db
  BY <1>1, ResultOfNone DEF Whole, Idle
<1>3. RecordsGood(db)
  BY <1>2 DEF ChainInv, Whole
<1> QED
  BY <1>1, <1>3, CountIsRight, StoreRecordsTyped

\* Exactly the delayed messages below the count are stored, as one chain, however often
\* add_delayed_messages reads over what is there and reorg_delayed_to cuts it.
THEOREM DelayedStayChained == Spec => []DelayedChained
<1>1. ASSUME ChainInv PROVE DelayedChained
  <2> SUFFICES ASSUME Whole, NEW i \in Positions
               PROVE  /\ HasDelayed(i) <=> i < db[DelayedCount]
                      /\ i < db[DelayedCount] => Len(db[Delayed(i)].before) = i
                      /\ 0 < i /\ i < db[DelayedCount] =>
                           db[Delayed(i)].before = get_delayed_acc(i - 1)
    BY DEF DelayedChained
  <2>1. DelayedGood(DelayedIn(db), db[DelayedCount])
    BY <1>1, WholeIsGood DEF RecordsGood
  <2>2. DelayedIn(db)[i] = db[Delayed(i)] /\ (0 < i => DelayedIn(db)[i - 1] = db[Delayed(i - 1)])
    <3>1. 0 < i => i - 1 \in Positions
      BY Bounds
    <3> QED
      BY <3>1 DEF DelayedIn
  <2> QED
    BY <2>1, <2>2 DEF DelayedGood, HasDelayed, get_delayed_acc, AccOf
<1> QED
  BY <1>1, InitChain, NextChain, PTL DEF Spec

\* Every batch below the count has its metadata, and their accumulators are one chain
\* of L1 batches: add_sequencer_batches never records over a fork it did not notice.
THEOREM BatchesStayChained == Spec => []BatchesChained
<1>1. ASSUME ChainInv PROVE BatchesChained
  <2> SUFFICES ASSUME Whole, NEW n \in Recorded
               PROVE  /\ db[Meta(n)] # Absent
                      /\ Len(db[Meta(n)].acc) = n + 1
                      /\ n > 0 => db[Meta(n - 1)].acc = SubSeq(db[Meta(n)].acc, 1, n)
    BY DEF BatchesChained
  <2>1. /\ MetasGood(DelayedIn(db), db[DelayedCount], MetaIn(db), db[BatchCount])
        /\ Repaired = db[BatchCount] /\ db[BatchCount] \in 0 .. MaxBatches
    BY <1>1, WholeIsGood DEF RecordsGood, RecordsTyped
  <2>2. n \in Numbers /\ n < db[BatchCount] /\ (n > 0 => n - 1 \in Numbers)
    BY <2>1, Bounds DEF Recorded
  <2>3. MetaIn(db)[n] = db[Meta(n)] /\ (n > 0 => MetaIn(db)[n - 1] = db[Meta(n - 1)])
    BY <2>2 DEF MetaIn
  <2>4. /\ MetaIn(db)[n] # Absent /\ Len(MetaIn(db)[n].acc) = n + 1
        /\ n > 0 => MetaIn(db)[n - 1].acc = SubSeq(MetaIn(db)[n].acc, 1, n)
    BY <2>1, <2>2 DEF MetasGood
  <2> QED
    BY <2>3, <2>4
<1> QED
  BY <1>1, InitChain, NextChain, PTL DEF Spec

\* Every recorded batch was posted on the delayed messages that are stored: the search
\* for the first batch to roll back, by the delayed count it reached, misses none.
THEOREM BatchesStayOnDelayed == Spec => []BatchesRestOnDelayed
<1>1. ASSUME ChainInv PROVE BatchesRestOnDelayed
  <2> SUFFICES ASSUME Whole, NEW n \in Recorded
               PROVE  LET b == db[Meta(n)].acc[n + 1]
                      IN  b.after <= db[DelayedCount] /\ DelayedAgree(b)
    BY DEF BatchesRestOnDelayed
  <2> DEFINE b == db[Meta(n)].acc[n + 1]
             D == DelayedIn(db)
             dc == db[DelayedCount]
             M == MetaIn(db)
             bc == db[BatchCount]
  <2>1. /\ MetasGood(D, dc, M, bc) /\ RecordsTyped(D, dc, M, bc, SequencedIn(db))
        /\ Repaired = bc /\ bc \in 0 .. MaxBatches
    BY <1>1, WholeIsGood DEF RecordsGood, RecordsTyped
  <2>2. n \in Numbers /\ n < bc
    BY <2>1, Bounds DEF Recorded
  <2>3. M[n] = db[Meta(n)]
    BY <2>2 DEF MetaIn
  <2>4. Rests(D, dc, M[n].acc[n + 1]) /\ M[n].acc[n + 1] \in Batches
    <3> HIDE DEF D, dc, M, bc
    <3> QED
      BY <2>1, <2>2, RecordedIs
  <2>5. Rests(D, dc, b) /\ b \in Batches
    BY <2>3, <2>4
  <2>6. b.after \in 0 .. MaxDelayed
    BY <2>5 DEF Batches
  <2> HIDE DEF b
  <2>7. b.after > 0 => b.after - 1 \in Positions /\ D[b.after - 1] = db[Delayed(b.after - 1)]
    <3>1. b.after > 0 => b.after - 1 \in Positions
      BY <2>6, Bounds
    <3> QED
      BY <3>1 DEF DelayedIn
  <2>8. b.after <= dc /\ DelayedAgree(b)
    BY <2>5, <2>7 DEF Rests, DelayedAgree, HasDelayed, get_delayed_acc, AccOf
  <2> QED
    BY <2>8 DEF b
<1> QED
  BY <1>1, InitChain, NextChain, PTL DEF Spec

\* DELAYED_SEQUENCED_PREFIX holds exactly the batches that were first to reach a delayed
\* count: what set_delayed_count_reorg_and_write_batch looks the rollback up in.
THEOREM SequencedStaysExact == Spec => []SequencedExact
<1>1. ASSUME ChainInv PROVE SequencedExact
  <2> SUFFICES ASSUME Whole, NEW c \in 1 .. MaxDelayed, NEW n \in Numbers
               PROVE  db[Sequenced(c)] = n <=>
                        /\ n \in Recorded
                        /\ db[Meta(n)].delayed = c
                        /\ n > 0 => db[Meta(n - 1)].delayed < c
    BY DEF SequencedExact
  <2>1. /\ SequencedGood(MetaIn(db), db[BatchCount], SequencedIn(db))
        /\ Repaired = db[BatchCount] /\ db[BatchCount] \in 0 .. MaxBatches
    BY <1>1, WholeIsGood DEF RecordsGood, RecordsTyped
  <2>2. (n \in Recorded <=> n < db[BatchCount]) /\ (n > 0 => n - 1 \in Numbers)
    BY <2>1, Bounds DEF Recorded
  <2>3. /\ MetaIn(db)[n] = db[Meta(n)] /\ (n > 0 => MetaIn(db)[n - 1] = db[Meta(n - 1)])
        /\ SequencedIn(db)[c] = db[Sequenced(c)]
    BY <2>2 DEF MetaIn, SequencedIn
  <2>4. SequencedIn(db)[c] = n <=> ReachedBy(MetaIn(db), db[BatchCount], c, n)
    BY <2>1 DEF SequencedGood
  <2> QED
    BY <2>2, <2>3, <2>4 DEF ReachedBy
<1> QED
  BY <1>1, InitChain, NextChain, PTL DEF Spec

(***************************************************************************)
(* The log.  A batch begins with a message of the sequencer's own when its *)
(* first segment that carries a message is one that can be decoded; it     *)
(* has no segment of a kind that ends the batch early.                     *)
(***************************************************************************)

BeginsWithOwn(segs, at) ==
  /\ at \in 1 .. Len(segs)
  /\ segs[at].kind = "l2"
  /\ \A j \in 1 .. at - 1 : ~ Item(segs[j])

OwnFirst(segs) ==
  /\ \A i \in 1 .. Len(segs) : segs[i].kind # "unknown"
  /\ \E at \in 1 .. Len(segs) : BeginsWithOwn(segs, at)

\* The visible segments, which are counted as L2 messages or are delayed.
VisibleOf(b) == {i \in 1 .. Len(b.segs) : Visible(b.segs[i])}
CountedOf(b) == {i \in 1 .. Len(b.segs) : b.segs[i].kind \in {"l2", "bad"}}
DelayedOf(b) == {i \in 1 .. Len(b.segs) : b.segs[i].kind = "delayed"}

LEMMA BatchTyped ==
  ASSUME NEW b \in Batches
  PROVE  /\ b.segs \in Seq(Segments) /\ Len(b.segs) \in Nat
         /\ b.after \in 0 .. MaxDelayed /\ b.after \in Nat /\ b.id \in Nat
         /\ b.segs \in Contents
<1>1. b.segs \in Contents /\ b.after \in 0 .. MaxDelayed /\ b.id \in Nat
  BY DEF Batches
<1>2. b.segs \in Seq(Segments)
  BY <1>1, TrackerAssumption
<1> QED
  BY <1>1, <1>2, Bounds

LEMMA DelayedBeforeIs ==
  ASSUME NEW b \in Batches, NEW n \in 0 .. Len(b.segs)
  PROVE  DelayedBefore(b, n + 1) \in Nat
<1>1. Len(b.segs) \in Nat
  BY BatchTyped
<1>2. {j \in 1 .. (n + 1) - 1 : b.segs[j].kind = "delayed"} \in SUBSET (1 .. Len(b.segs))
  BY <1>1
<1> QED
  BY <1>1, <1>2, CountOf DEF DelayedBefore

LEMMA VisibleSplits ==
  ASSUME NEW b \in Batches, OwnFirst(b.segs)
  PROVE  /\ Cardinality(VisibleOf(b)) = L2Count(b) + DelayedBefore(b, Len(b.segs) + 1)
         /\ L2Count(b) \in Nat /\ L2Count(b) >= 1
         /\ DelayedBefore(b, Len(b.segs) + 1) \in Nat
         /\ \A i \in VisibleOf(b) : Item(b.segs[i])
<1> DEFINE C == CountedOf(b)
           D == DelayedOf(b)
           N == Len(b.segs)
<1>1. N \in Nat /\ \A i \in 1 .. N : b.segs[i].kind # "unknown"
  BY BatchTyped DEF OwnFirst
<1>2. C \in SUBSET (1 .. N) /\ D \in SUBSET (1 .. N) /\ C \cap D = {} /\ VisibleOf(b) = C \cup D
  BY <1>1 DEF CountedOf, DelayedOf, VisibleOf, Visible, Item
<1>3. \A i \in VisibleOf(b) : Item(b.segs[i])
  BY <1>1 DEF VisibleOf, Visible
<1>4. L2Count(b) = Cardinality(C)
  BY DEF L2Count, CountedOf
<1>5. DelayedBefore(b, N + 1) = Cardinality(D)
  <2>1. 1 .. (N + 1) - 1 = 1 .. N
    BY <1>1
  <2> QED
    BY <2>1 DEF DelayedBefore, DelayedOf
<1>6. C # {}
  BY DEF OwnFirst, BeginsWithOwn, CountedOf
<1> HIDE DEF C, D, N
<1>7. IsFiniteSet(C) /\ IsFiniteSet(D) /\ Cardinality(C) \in Nat /\ Cardinality(D) \in Nat
  <2>1. IsFiniteSet(1 .. N)
    BY <1>1, FS_Interval
  <2>2. IsFiniteSet(C) /\ IsFiniteSet(D)
    BY <1>2, <2>1, FS_Subset
  <2> QED
    BY <2>2, FS_CardinalityType
<1>8. Cardinality(C \cup D) = Cardinality(C) + Cardinality(D)
  <2>1. Cardinality(C \cap D) = 0
    BY <1>2, FS_EmptySet
  <2>2. Cardinality(C \cup D) = Cardinality(C) + Cardinality(D) - Cardinality(C \cap D)
    BY <1>7, FS_Union
  <2> QED
    BY <1>7, <2>1, <2>2
<1>9. Cardinality(C) # 0
  BY <1>6, <1>7, FS_EmptySet
<1> QED
  BY <1>2, <1>3, <1>4, <1>5, <1>7, <1>8, <1>9 DEF N

\* VisibleAt lists the visible segments, the sequencer's own message first.
LEMMA VisibleAtIs ==
  ASSUME NEW b \in Batches, OwnFirst(b.segs), NEW at \in 1 .. Len(b.segs), BeginsWithOwn(b.segs, at)
  PROVE  /\ VisibleAt(b) \in Seq(VisibleOf(b))
         /\ Len(VisibleAt(b)) = Cardinality(VisibleOf(b))
         /\ Len(VisibleAt(b)) >= 1
         /\ VisibleAt(b)[1] = at
         /\ \A i \in VisibleOf(b) : \E k \in 1 .. Len(VisibleAt(b)) : VisibleAt(b)[k] = i
<1> DEFINE P == VisibleOf(b)
           N == Len(b.segs)
           upTo(i) == Cardinality({j \in P : j <= i})
           pick(k) == CHOOSE i \in P : upTo(i) = k
<1>1. N \in Nat /\ P \in SUBSET (1 .. N)
  BY BatchTyped DEF VisibleOf
<1>2. VisibleAt(b) = [k \in 1 .. Cardinality(P) |-> pick(k)]
  BY DEF VisibleAt, VisibleOf
<1>3. Cardinality(P) \in Nat /\ Cardinality(P) >= 1
  BY VisibleSplits
<1>4. at \in P /\ \A j \in P : at <= j
  BY <1>1 DEF VisibleOf, BeginsWithOwn, Visible, Item, OwnFirst
<1> HIDE DEF P, N
<1>5. Cardinality(P) = Upto(P, N)
  <2>1. {i \in 1 .. N : i \in P} = P
    BY <1>1
  <2> QED
    BY <2>1 DEF Upto
<1>6. ASSUME NEW i \in P PROVE upTo(i) = Upto(P, i)
  <2>1. i \in Nat /\ \A j \in P : j \in Nat /\ j >= 1
    BY <1>1
  <2>2. {j \in P : j <= i} = {j \in 1 .. i : j \in P}
    <3>1. \A j \in P : j <= i <=> j \in 1 .. i
      BY <2>1
    <3> QED
      BY <3>1, Zenon
  <2>3. upTo(i) = Cardinality({j \in P : j <= i})
    OBVIOUS
  <2> HIDE DEF upTo
  <2> QED
    BY <2>2, <2>3 DEF Upto
<1>7. ASSUME NEW k \in 1 .. Cardinality(P) PROVE pick(k) \in P /\ upTo(pick(k)) = k
  <2>1. \E i \in 1 .. N : i \in P /\ Upto(P, i) = k
    BY <1>1, <1>5, UptoReaches
  <2>2. \E i \in P : upTo(i) = k
    <3> HIDE DEF upTo
    <3> QED
      BY <1>6, <2>1
  <2> HIDE DEF upTo
  <2> QED
    BY <2>2
<1>8. VisibleAt(b) \in Seq(P) /\ Len(VisibleAt(b)) = Cardinality(P)
  <2> HIDE DEF pick
  <2>1. VisibleAt(b) \in [1 .. Cardinality(P) -> P]
    BY <1>2, <1>7
  <2> QED
    BY <1>3, <2>1, FunctionIsSeq
<1>9. pick(1) = at
  <2> DEFINE i == pick(1)
             S == {j \in P : j <= i}
  <2>1. i \in P /\ Cardinality(S) = 1
    <3>1. 1 \in 1 .. Cardinality(P)
      BY <1>3
    <3>2. pick(1) \in P /\ upTo(pick(1)) = 1
      <4> HIDE DEF pick, upTo
      <4> QED
        BY <1>7, <3>1
    <3> QED
      BY <3>2
  <2> HIDE DEF i
  <2>2. IsFiniteSet(S)
    <3>1. IsFiniteSet(1 .. N)
      BY <1>1, FS_Interval
    <3>2. S \in SUBSET (1 .. N)
      BY <1>1
    <3> HIDE DEF S
    <3> QED
      BY <3>1, <3>2, FS_Subset
  <2>3. i \in S /\ at \in S
    <3>1. i \in P /\ i <= i /\ at \in P /\ at <= i
      <4>1. i \in Int
        BY <1>1, <2>1
      <4> QED
        BY <1>4, <2>1, <4>1
    <3> QED
      BY <3>1
  <2> HIDE DEF S
  <2>4. PICK x : S = {x}
    BY <2>1, <2>2, FS_Singleton
  <2> QED
    BY <2>3, <2>4 DEF i
<1>10. VisibleAt(b)[1] = pick(1)
  <2> HIDE DEF pick
  <2> QED
    BY <1>2, <1>3
<1>11. ASSUME NEW i \in P
       PROVE  upTo(i) \in 1 .. Cardinality(P) /\ pick(upTo(i)) = i
  <2>1. i \in 1 .. N /\ i \in Nat /\ i - 1 \in Nat /\ i - 1 \in 0 .. N /\ i \in 0 .. N
    BY <1>1
  <2>2. /\ Upto(P, i) = Upto(P, i - 1) + 1 /\ Upto(P, i - 1) \in Nat
        /\ Upto(P, i) <= Upto(P, N) /\ Upto(P, N) \in Nat
    <3>1. Upto(P, (i - 1) + 1) = Upto(P, i - 1) + (IF (i - 1) + 1 \in P THEN 1 ELSE 0)
          /\ Upto(P, i - 1) \in Nat
      BY <2>1, UptoIs
    <3>2. Upto(P, i) <= Upto(P, N) /\ Upto(P, N) \in Nat
      BY <1>1, <2>1, UptoIs
    <3>3. (i - 1) + 1 = i
      BY <2>1
    <3> QED
      BY <3>1, <3>2, <3>3
  <2>3. upTo(i) \in 1 .. Cardinality(P)
    <3> HIDE DEF upTo
    <3> QED
      BY <1>5, <1>6, <2>2
  <2> DEFINE k == upTo(i)
             other == pick(k)
  <2> HIDE DEF k
  <2>4. other \in P /\ upTo(other) = k
    <3> HIDE DEF pick, upTo
    <3> QED
      BY <1>7, <2>3 DEF k
  <2> HIDE DEF other
  <2>5. other \in 1 .. N /\ other \in Nat /\ other - 1 \in Nat /\ Upto(P, other) = Upto(P, i)
    <3> HIDE DEF upTo
    <3> QED
      BY <1>1, <1>6, <2>4 DEF k
  <2>6. ~ (other < i)
    <3> SUFFICES ASSUME other < i PROVE FALSE
      OBVIOUS
    <3>1. other \in 0 .. i - 1
      BY <2>1, <2>5
    <3>2. Upto(P, other) <= Upto(P, i - 1) /\ Upto(P, other) \in Nat
      BY <2>1, <3>1, UptoIs
    <3> QED
      BY <2>2, <2>5, <3>2
  <2>7. ~ (i < other)
    <3> SUFFICES ASSUME i < other PROVE FALSE
      OBVIOUS
    <3>1. i \in 0 .. other - 1 /\ (other - 1) + 1 = other
      BY <2>1, <2>5
    <3>2. Upto(P, i) <= Upto(P, other - 1) /\ Upto(P, i) \in Nat
      BY <2>5, <3>1, UptoIs
    <3>3. Upto(P, (other - 1) + 1) = Upto(P, other - 1) + (IF (other - 1) + 1 \in P THEN 1 ELSE 0)
          /\ Upto(P, other - 1) \in Nat
      BY <2>5, UptoIs
    <3> QED
      BY <2>4, <2>5, <3>1, <3>2, <3>3
  <2>8. other = i
    BY <2>1, <2>5, <2>6, <2>7
  <2> QED
    BY <2>3, <2>8 DEF other, k
<1>12. \A i \in P : \E k \in 1 .. Len(VisibleAt(b)) : VisibleAt(b)[k] = i
  <2> HIDE DEF pick, upTo
  <2> QED
    BY <1>2, <1>8, <1>11
<1> QED
  BY <1>3, <1>8, <1>9, <1>10, <1>12 DEF P

(***************************************************************************)
(* What a batch expands to.                                                *)
(***************************************************************************)

\* The slots past the end: the delayed messages that no segment of the batch reads.
Surplus(b, read) ==
  [k \in 1 .. Span(b, read) - DelayedBefore(b, Len(b.segs) + 1) |-> 0]

LEMMA OwnSlots ==
  ASSUME NEW b \in Batches, OwnFirst(b.segs), NEW at \in 1 .. Len(b.segs), BeginsWithOwn(b.segs, at),
         NEW read \in Nat
  PROVE  /\ Span(b, read) \in Nat
         /\ Slots(b, read) \in Seq(VisibleOf(b) \cup {0})
         /\ Len(Slots(b, read)) >= L2Count(b) + Span(b, read)
         /\ DelayedBefore(b, Len(b.segs) + 1) <= Span(b, read) =>
              Len(Slots(b, read)) = L2Count(b) + Span(b, read)
         /\ Slots(b, read)[1] = at
         /\ Slots(b, read) = VisibleAt(b) \o Surplus(b, read)
<1> DEFINE vs == VisibleAt(b)
           V == VisibleOf(b)
           span == Span(b, read)
           before == DelayedBefore(b, Len(b.segs) + 1)
           left == span - before
           count == L2Count(b)
           items == {k \in 1 .. Len(vs) : Item(b.segs[vs[k]])}
           zeros == [k \in 1 .. left |-> 0]
           sl == Slots(b, read)
<1>1. span \in Nat
  <2>1. b.after \in Nat
    BY BatchTyped
  <2> QED
    BY <2>1 DEF Span
<1>2. vs \in Seq(V) /\ Len(vs) = count + before /\ Len(vs) >= 1 /\ vs[1] = at
      /\ count \in Nat /\ before \in Nat /\ \A i \in V : Item(b.segs[i])
  BY VisibleAtIs, VisibleSplits
<1>3. sl = IF left > 0 THEN vs \o zeros ELSE IF vs = <<>> THEN <<0>> ELSE Trimmed(b, vs)
  BY DEF Slots
<1>4. Trimmed(b, vs) =
        SubSeq(vs, 1, IF items = {} THEN 1 ELSE CHOOSE k \in items : \A j \in items : j <= k)
  BY DEF Trimmed
<1>5. Surplus(b, read) = zeros
  BY DEF Surplus
<1> HIDE DEF vs, V, span, before, count, sl
<1>6. CASE left > 0
  <2>1. zeros \in Seq({0}) /\ Len(zeros) = left
    BY <1>1, <1>2, <1>6
  <2> HIDE DEF zeros
  <2>2. sl = vs \o zeros
    BY <1>3, <1>6
  <2>3. vs \in Seq(V \cup {0}) /\ zeros \in Seq(V \cup {0})
    BY <1>2, <2>1
  <2>4. sl \in Seq(V \cup {0}) /\ Len(sl) = Len(vs) + Len(zeros) /\ sl[1] = vs[1]
    <3>1. /\ vs \o zeros \in Seq(V \cup {0}) /\ Len(vs \o zeros) = Len(vs) + Len(zeros)
          /\ \A i \in 1 .. Len(vs) : (vs \o zeros)[i] = vs[i] /\ Len(vs) \in Nat
      BY <2>3, ConcatIs
    <3>2. 1 \in 1 .. Len(vs)
      BY <1>2
    <3> QED
      BY <2>2, <3>1, <3>2
  <2>5. Len(sl) = count + span
    BY <1>1, <1>2, <2>1, <2>4
  <2>6. sl = VisibleAt(b) \o Surplus(b, read)
    BY <1>5, <2>2 DEF vs
  <2>7. sl[1] = at /\ Len(sl) >= count + span
    BY <1>1, <1>2, <2>4, <2>5
  <2> QED
    BY <1>1, <2>4, <2>5, <2>6, <2>7, Zenon DEF V, span, count, sl, before
<1>7. CASE ~ (left > 0)
  <2>1. Len(vs) \in Nat /\ vs # <<>> /\ \A k \in 1 .. Len(vs) : vs[k] \in V
    BY <1>2
  <2>2. items = 1 .. Len(vs)
    BY <1>2, <2>1
  <2> HIDE DEF items
  <2> DEFINE top == CHOOSE k \in items : \A j \in items : j <= k
  <2>3. top = Len(vs)
    <3>1. Len(vs) \in items /\ \A j \in items : j <= Len(vs)
      BY <1>2, <2>1, <2>2
    <3>2. top \in items /\ \A j \in items : j <= top
      BY <3>1
    <3> HIDE DEF top
    <3>3. top \in 1 .. Len(vs) /\ Len(vs) <= top
      BY <2>2, <3>1, <3>2
    <3> QED
      BY <2>1, <3>3
  <2>4. items # {}
    <3>1. 1 \in 1 .. Len(vs)
      BY <1>2, <2>1
    <3> QED
      BY <2>2, <3>1
  <2>5. sl = SubSeq(vs, 1, Len(vs))
    <3> HIDE DEF top
    <3> QED
      BY <1>3, <1>4, <1>7, <2>1, <2>3, <2>4 DEF top
  <2>6. sl = vs
    BY <1>2, <2>5
  <2>7. sl \in Seq(V \cup {0})
    BY <1>2, <2>6
  <2>8. Len(sl) >= count + span
    BY <1>1, <1>2, <1>7, <2>6
  <2>9. before <= span => Len(sl) = count + span
    BY <1>1, <1>2, <1>7, <2>6
  <2>10. sl[1] = at
    BY <1>2, <2>6
  <2>11. VisibleAt(b) \o Surplus(b, read) = sl
    <3>1. zeros = <<>>
      BY <1>1, <1>2, <1>7
    <3>2. vs \o <<>> = vs
      BY <1>2
    <3> HIDE DEF zeros
    <3> QED
      BY <1>5, <2>6, <3>1, <3>2 DEF vs
  <2> QED
    BY <1>1, <2>7, <2>8, <2>9, <2>10, <2>11 DEF V, span, count, sl, before
<1> QED
  BY <1>6, <1>7

\* The messages of a batch, before the expansion looks at what is known.
Made == [kind : {"l2", "bad", "delayed", "invalid"}, id : Seq(Nat), read : Nat]

\* Only a batch with delayed segments of its own makes invalid messages.
LEMMA OwnMessages ==
  ASSUME NEW b \in Batches, OwnFirst(b.segs), NEW read \in Nat
  PROVE  LET msgs == SlotMessages(b, read, Slots(b, read))
         IN  /\ msgs \in Seq(Made)
             /\ Len(msgs) >= L2Count(b) + Span(b, read)
             /\ DelayedBefore(b, Len(b.segs) + 1) <= Span(b, read) =>
                  Len(msgs) = L2Count(b) + Span(b, read)
             /\ Len(msgs) >= 1
             /\ msgs[1].read = read /\ msgs[1].kind = "l2"
<1> DEFINE sl == Slots(b, read)
           span == Span(b, read)
           V == VisibleOf(b)
           n == Len(sl)
           gives(k) == SlotGives(b, read, span, sl[k], SlotsBefore(b, sl, k))
           msgs == SlotMessages(b, read, sl)
<1>1. PICK at \in 1 .. Len(b.segs) : BeginsWithOwn(b.segs, at)
  BY DEF OwnFirst
<1>2. /\ span \in Nat /\ sl \in Seq(V \cup {0}) /\ n >= L2Count(b) + span /\ sl[1] = at
      /\ L2Count(b) \in Nat /\ L2Count(b) >= 1
      /\ DelayedBefore(b, Len(b.segs) + 1) <= span => n = L2Count(b) + span
  BY <1>1, OwnSlots, VisibleSplits
<1>3. n \in Nat /\ n >= 1 /\ \A k \in 1 .. n : sl[k] \in V \cup {0}
  BY <1>2
<1>4. /\ Len(b.segs) \in Nat /\ b.segs \in Seq(Segments) /\ b.id \in Nat /\ b.after \in Nat
      /\ \A i \in V : /\ i \in 1 .. Len(b.segs) /\ i # 0
                      /\ b.segs[i].kind \in {"l2", "bad", "delayed"}
  <2>1. /\ Len(b.segs) \in Nat /\ b.segs \in Seq(Segments) /\ b.id \in Nat /\ b.after \in Nat
    BY BatchTyped
  <2>2. \A i \in V : i \in 1 .. Len(b.segs) /\ Item(b.segs[i])
    BY VisibleSplits DEF VisibleOf
  <2> QED
    BY <2>1, <2>2 DEF Item
<1>5. msgs = [k \in 1 .. n |-> gives(k)]
  BY DEF SlotMessages
<1> HIDE DEF sl, span, V
<1>6. ASSUME NEW k \in 1 .. n PROVE SlotsBefore(b, sl, k) \in Nat
  <2>1. CASE sl[k] # 0
    <3>1. sl[k] \in 1 .. Len(b.segs) /\ SlotsBefore(b, sl, k) = DelayedBefore(b, sl[k])
      BY <1>3, <1>4, <2>1 DEF SlotsBefore
    <3>2. sl[k] - 1 \in 0 .. Len(b.segs) /\ (sl[k] - 1) + 1 = sl[k]
      BY <1>4, <3>1
    <3>3. DelayedBefore(b, (sl[k] - 1) + 1) \in Nat
      BY <3>2, DelayedBeforeIs
    <3> QED
      BY <3>1, <3>2, <3>3
  <2>2. CASE sl[k] = 0
    <3>1. Len(b.segs) \in 0 .. Len(b.segs)
      BY <1>4
    <3>2. DelayedBefore(b, Len(b.segs) + 1) \in Nat
      BY <3>1, DelayedBeforeIs
    <3>3. {j \in 1 .. k - 1 : sl[j] = 0} \in SUBSET (1 .. k) /\ k \in Nat
      BY <1>3
    <3> DEFINE Z == {j \in 1 .. k - 1 : sl[j] = 0}
    <3>4. Cardinality(Z) \in Nat
      <4> HIDE DEF Z
      <4>1. Z \in SUBSET (1 .. k) /\ k \in Nat
        BY <3>3 DEF Z
      <4> QED
        BY <4>1, CountOf
    <3> QED
      BY <2>2, <3>2, <3>4 DEF SlotsBefore
  <2> QED
    BY <2>1, <2>2
<1>7. ASSUME NEW k \in 1 .. n PROVE gives(k) \in Made
  <2> DEFINE i == sl[k]
             before == SlotsBefore(b, sl, k)
  <2>1. before \in Nat /\ (i = 0 \/ (i \in 1 .. Len(b.segs) /\ b.segs[i].kind \in {"l2", "bad", "delayed"}))
    <3>1. i \in V \cup {0}
      BY <1>3
    <3>2. before \in Nat
      BY <1>6
    <3>3. \A j \in V : j \in 1 .. Len(b.segs) /\ b.segs[j].kind \in {"l2", "bad", "delayed"}
      BY <1>4
    <3> HIDE DEF i, before
    <3> QED
      BY <3>1, <3>2, <3>3
  <2> HIDE DEF i, before
  <2> DEFINE own == <<b.id, i>>
             nth == <<read + before>>
             none == <<b.id>>
             r1 == read + (IF before < span THEN before ELSE span)
             r2 == read + before + 1
  <2>2. own \in Seq(Nat) /\ nth \in Seq(Nat) /\ none \in Seq(Nat)
    <3>1. b.id \in Nat /\ i \in Nat /\ read + before \in Nat
      BY <1>4, <2>1
    <3> QED
      BY <3>1
  <2>3. r1 \in Nat /\ r2 \in Nat
    BY <1>2, <2>1
  <2>4. \/ SlotGives(b, read, span, i, before) = [kind |-> "l2", id |-> own, read |-> r1]
        \/ SlotGives(b, read, span, i, before) = [kind |-> "bad", id |-> own, read |-> read]
        \/ SlotGives(b, read, span, i, before) = [kind |-> "delayed", id |-> nth, read |-> r2]
        \/ SlotGives(b, read, span, i, before) = [kind |-> "invalid", id |-> none, read |-> b.after]
    BY <2>1 DEF SlotGives
  <2> HIDE DEF own, nth, none, r1, r2
  <2>5. SlotGives(b, read, span, i, before) \in Made
    BY <1>4, <2>2, <2>3, <2>4 DEF Made
  <2> QED
    BY <2>5 DEF i, before
<1>8. gives(1).read = read /\ gives(1).kind = "l2"
  <2>1. /\ at \in 1 .. Len(b.segs) /\ at # 0 /\ b.segs[at].kind = "l2"
        /\ \A j \in 1 .. at - 1 : b.segs[j].kind # "delayed"
    BY <1>1, <1>4 DEF BeginsWithOwn, Item
  <2>2. {j \in 1 .. at - 1 : b.segs[j].kind = "delayed"} = {}
    BY <2>1
  <2>3. DelayedBefore(b, at) = 0
    BY <2>2, FS_EmptySet DEF DelayedBefore
  <2>4. SlotsBefore(b, sl, 1) = 0
    BY <1>2, <2>1, <2>3 DEF SlotsBefore
  <2>5. gives(1) = [kind |-> "l2", id |-> <<b.id, at>>, read |-> read + (IF 0 < span THEN 0 ELSE span)]
    BY <1>2, <2>1, <2>4 DEF SlotGives
  <2>6. read + (IF 0 < span THEN 0 ELSE span) = read
    BY <1>2
  <2> QED
    BY <2>5, <2>6
<1> HIDE DEF gives, msgs
<1>9. msgs \in [1 .. n -> Made] /\ msgs[1] = gives(1)
  <2>1. 1 \in 1 .. n
    BY <1>3
  <2> QED
    BY <1>5, <1>7, <2>1
<1>10. msgs \in Seq(Made) /\ Len(msgs) = n
  BY <1>3, <1>9, FunctionIsSeq
<1> QED
  BY <1>2, <1>3, <1>8, <1>9, <1>10 DEF msgs, sl, span

\* Messages as the multiplexer hands them out, with the delayed ones among known.
Handed(known) ==
  {m \in [kind : {"l2", "delayed", "invalid"}, id : Seq(Nat), read : Nat] :
     m.kind = "delayed" => m.id[1] \in known}

\* Either all of a batch comes out, or its expansion is an error.
LEMMA OwnExpands ==
  ASSUME NEW b \in Batches, OwnFirst(b.segs), NEW read \in Nat, NEW known
  PROVE  /\ Expand(b, read, known).ends \in {"whole", "error"}
         /\ Expand(b, read, known).ends = "whole" =>
              /\ Expand(b, read, known).out = SlotMessages(b, read, Slots(b, read))
              /\ Expand(b, read, known).out \in Seq(Handed(known))
<1> DEFINE msgs == SlotMessages(b, read, Slots(b, read))
           ends == {k \in 1 .. Len(msgs) :
                      \/ msgs[k].kind \in {"bad", "unknown"}
                      \/ msgs[k].kind = "delayed" /\ msgs[k].id[1] \notin known}
           least == CHOOSE k \in ends : \A j \in ends : k <= j
<1>1. Expand(b, read, known) = IF ends = {} THEN [out |-> msgs, ends |-> "whole"]
                               ELSE [out |-> SubSeq(msgs, 1, least - 1),
                                     ends |-> IF msgs[least].kind = "unknown" THEN "stopped" ELSE "error"]
  BY Zenon DEF Expand, Until
<1>2. msgs \in Seq(Made)
  BY OwnMessages
<1> HIDE DEF msgs
<1>3. Len(msgs) \in Nat /\ \A k \in 1 .. Len(msgs) : msgs[k] \in Made /\ msgs[k].kind # "unknown"
  <2>1. Len(msgs) \in Nat /\ \A k \in 1 .. Len(msgs) : msgs[k] \in Made
    BY <1>2, ElementsOf
  <2> QED
    BY <2>1 DEF Made
<1>4. CASE ends = {}
  <2>1. Expand(b, read, known) = [out |-> msgs, ends |-> "whole"]
    BY <1>1, <1>4
  <2>2. Expand(b, read, known).out = msgs /\ Expand(b, read, known).ends = "whole"
    BY <2>1
  <2>3. \A k \in 1 .. Len(msgs) : msgs[k] \in Handed(known)
    BY <1>3, <1>4 DEF Handed, Made
  <2>4. msgs \in Seq(Handed(known))
    <3>1. msgs = [k \in 1 .. Len(msgs) |-> msgs[k]]
      BY <1>2
    <3>2. msgs \in [1 .. Len(msgs) -> Handed(known)]
      BY <2>3, <3>1, Zenon
    <3> QED
      BY <1>3, <3>2, FunctionIsSeq
  <2> QED
    BY <2>2, <2>4 DEF msgs
<1>5. CASE ends # {}
  <2>1. least \in ends
    <3>1. ends \in SUBSET Nat
      BY <1>3
    <3> HIDE DEF ends
    <3>2. \E k \in ends : \A j \in ends : k <= j
      BY <1>5, <3>1, LeastOf
    <3> QED
      BY <3>2
  <2> HIDE DEF least
  <2>2. msgs[least].kind # "unknown"
    BY <1>3, <2>1
  <2> HIDE DEF ends
  <2> QED
    BY <1>1, <1>5, <2>2
<1> QED
  BY <1>4, <1>5

\* Where batch k of a window reads on from.
ReadsFrom(bs, read, k) == IF k = 1 THEN read ELSE bs[k - 1].after

LEMMA SpanTyped ==
  ASSUME NEW bs \in Seq(Batches), NEW read \in Nat, NEW k \in 1 .. Len(bs)
  PROVE  /\ bs[k] \in Batches
         /\ ReadsFrom(bs, read, k) \in Nat
         /\ Span(bs[k], ReadsFrom(bs, read, k)) \in Nat
<1>1. bs[k] \in Batches /\ (k # 1 => bs[k - 1] \in Batches)
  OBVIOUS
<1>2. bs[k].after \in Nat /\ (k # 1 => bs[k - 1].after \in Nat)
  BY <1>1, BatchTyped
<1>3. ReadsFrom(bs, read, k) \in Nat
  BY <1>2 DEF ReadsFrom
<1> QED
  BY <1>1, <1>2, <1>3 DEF Span

\* What each batch of a window is made into, and all of them.
Makes(bs, read) ==
  [k \in 1 .. Len(bs) |->
     SlotMessages(bs[k], ReadsFrom(bs, read, k), Slots(bs[k], ReadsFrom(bs, read, k)))]

\* A window that is no error expands to all that its batches are made into.
LEMMA WindowIsWhole ==
  ASSUME NEW bs \in Seq(Batches), bs # <<>>, \A k \in 1 .. Len(bs) : OwnFirst(bs[k].segs),
         NEW read \in Nat, NEW known, ExpandAll(bs, read, known).ends # "error"
  PROVE  /\ Makes(bs, read) \in [1 .. Len(bs) -> Seq(Handed(known))]
         /\ ExpandAll(bs, read, known).out = FlattenSeq(Makes(bs, read))
<1> DEFINE n == Len(bs)
           each == [k \in 1 .. n |-> Expand(bs[k], ReadsFrom(bs, read, k), known)]
           ends == {k \in 1 .. n : each[k].ends # "whole"}
           least == CHOOSE k \in ends : \A j \in ends : k <= j
           all == ExpandAll(bs, read, known)
           m == IF ends = {} THEN n ELSE least
<1>1. n \in Nat /\ n >= 1
  OBVIOUS
<1>2. all = Joined(each)
  <2>1. each = [k \in 1 .. n |-> Expand(bs[k], IF k = 1 THEN read ELSE bs[k - 1].after, known)]
    BY DEF ReadsFrom
  <2> QED
    BY <2>1 DEF ExpandAll
<1>3. ASSUME NEW k \in 1 .. n
      PROVE  /\ each[k].ends \in {"whole", "error"}
             /\ each[k].ends = "whole" =>
                  each[k].out = Makes(bs, read)[k] /\ each[k].out \in Seq(Handed(known))
  <2> DEFINE r == ReadsFrom(bs, read, k)
             b == bs[k]
  <2>1. b \in Batches /\ r \in Nat /\ OwnFirst(b.segs)
    BY SpanTyped
  <2>2. each[k] = Expand(b, r, known) /\ Makes(bs, read)[k] = SlotMessages(b, r, Slots(b, r))
    BY DEF Makes
  <2> HIDE DEF each, b, r
  <2> QED
    BY <2>1, <2>2, OwnExpands
<1>4. Len(each) = n
  BY <1>1
<1> HIDE DEF each
<1>5. all = [out |-> FlattenSeq([k \in 1 .. m |-> each[k].out]),
             ends |-> IF ends = {} THEN "whole" ELSE each[m].ends]
  <2> DEFINE e == {k \in 1 .. Len(each) : each[k].ends # "whole"}
             l == IF e = {} THEN Len(each) ELSE CHOOSE k \in e : \A j \in e : k <= j
  <2>1. Joined(each) = [out |-> FlattenSeq([k \in 1 .. l |-> each[k].out]),
                        ends |-> IF e = {} THEN "whole" ELSE each[l].ends]
    BY DEF Joined
  <2>2. e = ends
    BY <1>4
  <2>3. l = m
    <3> HIDE DEF e, ends
    <3> QED
      BY <1>4, <2>2
  <2> HIDE DEF e, l, ends, m, all
  <2> QED
    BY <1>2, <2>1, <2>2, <2>3, Zenon
<1>6. ends = {}
  <2>1. SUFFICES ASSUME ends # {} PROVE FALSE
    OBVIOUS
  <2>2. least \in ends
    <3>1. ends \in SUBSET Nat
      BY <1>1
    <3> HIDE DEF ends
    <3>2. \E k \in ends : \A j \in ends : k <= j
      BY <2>1, <3>1, LeastOf
    <3> QED
      BY <3>2
  <2> HIDE DEF least
  <2>3. each[least].ends = "error"
    BY <1>3, <2>2
  <2>4. m = least
    BY <2>1
  <2> HIDE DEF ends, m
  <2>5. all.ends = each[m].ends
    <3> DEFINE x == FlattenSeq([k \in 1 .. m |-> each[k].out])
    <3>1. all = [out |-> x, ends |-> each[m].ends]
      BY <1>5, <2>1
    <3> HIDE DEF x, all
    <3> QED
      BY <3>1
  <2> QED
    BY <2>3, <2>4, <2>5
<1>7. ASSUME NEW k \in 1 .. n
      PROVE  each[k].out = Makes(bs, read)[k] /\ Makes(bs, read)[k] \in Seq(Handed(known))
  <2>1. each[k].ends = "whole"
    BY <1>6
  <2>2. each[k].out = Makes(bs, read)[k] /\ each[k].out \in Seq(Handed(known))
    BY <1>3, <2>1
  <2> QED
    BY <2>2, Zenon
<1>8. Makes(bs, read) \in [1 .. n -> Seq(Handed(known))]
  <2>1. Makes(bs, read) = [k \in 1 .. n |-> Makes(bs, read)[k]]
    BY DEF Makes
  <2> QED
    BY <1>7, <2>1, Zenon
<1>9. [k \in 1 .. n |-> each[k].out] = Makes(bs, read)
  <2>1. Makes(bs, read) = [k \in 1 .. n |-> Makes(bs, read)[k]]
    BY DEF Makes
  <2> HIDE DEF n
  <2> QED
    BY <1>7, <2>1
<1>10. all.out = FlattenSeq(Makes(bs, read))
  <2>1. m = n
    BY <1>6
  <2>2. [k \in 1 .. m |-> each[k].out] = Makes(bs, read)
    BY <1>9, <2>1
  <2> HIDE DEF m, ends
  <2> DEFINE x == FlattenSeq([k \in 1 .. m |-> each[k].out])
             y == IF ends = {} THEN "whole" ELSE each[m].ends
  <2>3. all = [out |-> x, ends |-> y]
    BY <1>5
  <2>4. x = FlattenSeq(Makes(bs, read))
    BY <2>2
  <2> HIDE DEF x, y, all
  <2> QED
    BY <2>3, <2>4
<1> QED
  BY <1>8, <1>10

\* How much the batches of a window are made into, batch by batch.
SizesOf(size, bs, read) ==
  /\ size[0] = 0
  /\ \A k \in 1 .. Len(bs) :
       /\ size[k] = size[k - 1] + Len(Makes(bs, read)[k])
       /\ Len(Makes(bs, read)[k]) >= L2Count(bs[k]) + Span(bs[k], ReadsFrom(bs, read, k))
       /\ size[k] <= size[Len(bs)]

HasSizes(bs, read, out) ==
  \E size \in [0 .. Len(bs) -> Nat] : SizesOf(size, bs, read) /\ size[Len(bs)] = Len(out)

LEMMA WindowSizes ==
  ASSUME NEW bs \in Seq(Batches), bs # <<>>, \A k \in 1 .. Len(bs) : OwnFirst(bs[k].segs),
         NEW read \in Nat, NEW known, NEW out,
         Makes(bs, read) \in [1 .. Len(bs) -> Seq(Handed(known))], out = FlattenSeq(Makes(bs, read))
  PROVE  /\ out \in Seq(Handed(known)) /\ Len(out) >= 1 /\ out[1].read = read
         /\ HasSizes(bs, read, out)
<1> DEFINE n == Len(bs)
           g == Makes(bs, read)
           flat(k) == FlattenSeq(First(g, k))
           size == [k \in 0 .. n |-> Len(flat(k))]
<1>1. n \in Nat /\ n >= 1 /\ 1 \in 1 .. n /\ n \in 0 .. n
  OBVIOUS
<1>2. ASSUME NEW k \in 1 .. n
      PROVE  /\ g[k] \in Seq(Handed(known))
             /\ Len(g[k]) >= L2Count(bs[k]) + Span(bs[k], ReadsFrom(bs, read, k))
             /\ Len(g[k]) >= 1 /\ g[k][1].read = ReadsFrom(bs, read, k)
  <2> DEFINE r == ReadsFrom(bs, read, k)
             b == bs[k]
  <2>1. b \in Batches /\ r \in Nat /\ OwnFirst(b.segs)
    BY SpanTyped
  <2>2. g[k] = SlotMessages(b, r, Slots(b, r))
    BY DEF Makes
  <2>3. g[k] \in Seq(Handed(known))
    OBVIOUS
  <2> HIDE DEF g, b, r
  <2> QED
    BY <2>1, <2>2, <2>3, OwnMessages DEF b, r
<1> HIDE DEF g
<1>3. g \in [1 .. n -> Seq(Handed(known))] /\ out = FlattenSeq(g)
  BY DEF g
<1>4. ASSUME NEW k \in 0 .. n PROVE flat(k) \in Seq(Handed(known))
  <2>1. First(g, k) \in [1 .. k -> Seq(Handed(known))] /\ k \in Nat
    BY <1>2 DEF First
  <2> QED
    BY <2>1, FlattenType
<1>5. ASSUME NEW k \in 1 .. n PROVE flat(k) = flat(k - 1) \o g[k]
  <2>1. k - 1 \in Nat /\ (k - 1) + 1 = k /\ \A j \in 1 .. k : g[j] \in Seq(Handed(known))
    BY <1>2
  <2> HIDE DEF n
  <2>2. FlattenSeq(First(g, (k - 1) + 1)) = FlattenSeq(First(g, k - 1)) \o g[(k - 1) + 1]
    BY <2>1, FlattenGrows
  <2> QED
    BY <2>1, <2>2
<1>6. ASSUME NEW k \in 0 .. n PROVE Begins(flat(k), flat(n))
  <2>1. n \in Nat /\ n \in k .. n
    BY <1>1
  <2> HIDE DEF n
  <2> QED
    BY <1>3, <2>1, FlattenBegins
<1>7. flat(0) = <<>> /\ flat(n) = out
  <2>1. First(g, n) = g
    BY <1>3 DEF First
  <2> QED
    BY <1>3, <2>1, FlattenNone
<1> HIDE DEF flat
<1>8. size \in [0 .. n -> Nat] /\ size[0] = 0 /\ size[n] = Len(out)
  <2>1. \A k \in 0 .. n : Len(flat(k)) \in Nat
    BY <1>4
  <2>2. Len(flat(0)) = 0
    BY <1>7
  <2> QED
    BY <1>1, <1>7, <2>1, <2>2
<1>9. ASSUME NEW k \in 1 .. n PROVE size[k] = size[k - 1] + Len(g[k]) /\ size[k] <= size[n]
  <2>1. k \in 0 .. n /\ k - 1 \in 0 .. n /\ n \in 0 .. n
    BY <1>1
  <2>2. size[k] = Len(flat(k)) /\ size[k - 1] = Len(flat(k - 1)) /\ size[n] = Len(flat(n))
    BY <2>1
  <2>3. Len(flat(k)) = Len(flat(k - 1)) + Len(g[k])
    <3>1. flat(k - 1) \in Seq(Handed(known)) /\ g[k] \in Seq(Handed(known))
          /\ flat(k) = flat(k - 1) \o g[k]
      BY <1>2, <1>4, <1>5, <2>1
    <3> QED
      BY <3>1
  <2>4. Len(flat(k)) <= Len(flat(n))
    BY <1>6, <2>1 DEF Begins
  <2> HIDE DEF size
  <2> QED
    BY <2>2, <2>3, <2>4
<1>10. out \in Seq(Handed(known)) /\ Len(out) >= 1 /\ out[1].read = read
  <2>1. flat(1) = g[1] /\ g[1] \in Seq(Handed(known)) /\ Len(g[1]) >= 1 /\ g[1][1].read = read
    <3>1. flat(1) = <<>> \o g[1]
      <4>1. flat(1) = flat(1 - 1) \o g[1]
        BY <1>1, <1>5, Zenon
      <4>2. 1 - 1 = 0
        OBVIOUS
      <4> QED
        BY <1>7, <4>1, <4>2
    <3>2. ReadsFrom(bs, read, 1) = read
      BY DEF ReadsFrom
    <3>3. g[1] \in Seq(Handed(known)) /\ Len(g[1]) >= 1 /\ g[1][1].read = read
      BY <1>1, <1>2, <3>2
    <3> QED
      BY <3>1, <3>3
  <2>2. 1 \in 0 .. n
    BY <1>1
  <2>3. Begins(g[1], out) /\ out \in Seq(Handed(known))
    BY <1>1, <1>4, <1>6, <1>7, <2>1, <2>2
  <2> QED
    BY <2>1, <2>3 DEF Begins
<1> HIDE DEF size
<1>11. \A k \in 1 .. n : /\ size[k] = size[k - 1] + Len(g[k])
                         /\ Len(g[k]) >= L2Count(bs[k]) + Span(bs[k], ReadsFrom(bs, read, k))
                         /\ size[k] <= size[n]
  BY <1>2, <1>9
<1>12. SizesOf(size, bs, read)
  BY <1>8, <1>11, Zenon DEF SizesOf, n, g
<1> QED
  BY <1>8, <1>10, <1>12, Zenon DEF HasSizes, n

(***************************************************************************)
(* The log after a window.                                                 *)
(***************************************************************************)

\* Messages of the log: the delayed ones with their content.
Entries == [kind : {"l2", "delayed", "invalid"}, id : Seq(Nat \cup Bodies), read : Nat]

LEMMA ResolvedIs ==
  ASSUME NEW known, NEW bodies \in [known -> Bodies], NEW out \in Seq(Handed(known))
  PROVE  /\ Resolved(out, bodies) \in Seq(Entries) /\ Len(Resolved(out, bodies)) = Len(out)
         /\ \A k \in 1 .. Len(out) :
              /\ Resolved(out, bodies)[k].read = out[k].read /\ out[k].read \in Nat
              /\ Resolved(out, bodies)[k] =
                   IF out[k].kind = "delayed" THEN [out[k] EXCEPT !.id = <<bodies[out[k].id[1]]>>]
                   ELSE out[k]
<1> DEFINE res == Resolved(out, bodies)
<1>1. Len(out) \in Nat /\ \A k \in 1 .. Len(out) : out[k] \in Handed(known)
  BY ElementsOf
<1>2. /\ res = [k \in 1 .. Len(out) |-> res[k]]
      /\ \A k \in 1 .. Len(out) :
           res[k] = IF out[k].kind = "delayed" THEN [out[k] EXCEPT !.id = <<bodies[out[k].id[1]]>>]
                    ELSE out[k]
  BY DEF Resolved
<1> HIDE DEF res
<1>3. ASSUME NEW k \in 1 .. Len(out)
      PROVE  res[k] \in Entries /\ res[k].read = out[k].read /\ out[k].read \in Nat
  <2> DEFINE m == out[k]
  <2>1. m \in Handed(known)
    BY <1>1
  <2> HIDE DEF m
  <2>2. /\ m \in [kind : {"l2", "delayed", "invalid"}, id : Seq(Nat), read : Nat]
        /\ m.kind = "delayed" => m.id[1] \in known
    BY <2>1 DEF Handed
  <2>3. CASE m.kind = "delayed"
    <3> DEFINE i == <<bodies[m.id[1]]>>
    <3>1. bodies[m.id[1]] \in Bodies
      BY <2>2, <2>3
    <3>2. i \in Seq(Nat \cup Bodies)
      BY <3>1
    <3>3. res[k] = [m EXCEPT !.id = i]
      BY <1>2, <2>3 DEF m
    <3> HIDE DEF i
    <3> QED
      BY <2>2, <3>2, <3>3 DEF Entries, m
  <2>4. CASE m.kind # "delayed"
    <3>1. res[k] = m
      BY <1>2, <2>4 DEF m
    <3>2. m.id \in Seq(Nat \cup Bodies)
      BY SMTT(30), <2>2
    <3> QED
      BY <2>2, <3>1, <3>2 DEF Entries, m
  <2> QED
    BY <2>3, <2>4
<1>4. res \in [1 .. Len(out) -> Entries]
  BY <1>2, <1>3, Zenon
<1>5. res \in Seq(Entries) /\ Len(res) = Len(out)
  BY <1>1, <1>4, FunctionIsSeq
<1> QED
  BY <1>2, <1>3, <1>5 DEF res

\* A message of the log reads fewer delayed messages than the log has up to it.
LogRoom(log) == log \in Seq(Entries) /\ \A k \in 1 .. Len(log) : log[k].read < k

\* Numbers that start no higher than l and go up by at most one.
LEMMA StepsFit ==
  ASSUME NEW l \in Nat, NEW n \in Nat, NEW f \in [1 .. n -> Nat], n > 0 => f[1] <= l,
         \A k \in 2 .. n : f[k] <= 1 + f[k - 1]
  PROVE  \A k \in 1 .. n : f[k] < l + k
<1> DEFINE Bad == {k \in 1 .. n : ~(f[k] < l + k)}
<1>1. Bad = {}
  <2>1. SUFFICES ASSUME Bad # {} PROVE FALSE
    OBVIOUS
  <2>2. PICK k \in Bad : \A j \in Bad : k <= j
    <3>1. Bad \in SUBSET Nat
      OBVIOUS
    <3> HIDE DEF Bad
    <3> QED
      BY <2>1, <3>1, LeastOf
  <2>3. k \in 1 .. n /\ ~(f[k] < l + k) /\ f[k] \in Nat
    OBVIOUS
  <2>4. k # 1
    BY <2>3
  <2>5. k \in 2 .. n /\ k - 1 \in 1 .. n /\ f[k - 1] \in Nat
    BY <2>3, <2>4
  <2>6. k - 1 \notin Bad
    <3> HIDE DEF Bad
    <3> QED
      BY <2>2, <2>3
  <2>7. f[k - 1] < l + (k - 1) /\ f[k] <= 1 + f[k - 1]
    BY <2>5, <2>6
  <2> HIDE DEF Bad
  <2> QED
    BY <2>3, <2>5, <2>7
<1> QED
  BY <1>1

\* What the streamer accepts keeps the log so.
LEMMA LogGrows ==
  ASSUME NEW log, LogRoom(log), NEW known, NEW bodies \in [known -> Bodies],
         NEW out \in Seq(Handed(known)), StreamerAccepts(log, out),
         log = <<>> /\ out # <<>> => out[1].read = 0
  PROVE  /\ LogRoom(log \o Resolved(out, bodies))
         /\ Len(log \o Resolved(out, bodies)) = Len(log) + Len(out)
         /\ Len(log) \in Nat /\ Len(out) \in Nat
         /\ out # <<>> => out[1].read <= Len(log)
<1> DEFINE res == Resolved(out, bodies)
           long == log \o res
           l == Len(log)
           n == Len(out)
           reads == [k \in 1 .. n |-> out[k].read]
<1>1. /\ res \in Seq(Entries) /\ Len(res) = n
      /\ \A k \in 1 .. n : res[k].read = out[k].read /\ out[k].read \in Nat
  <2>1. /\ Resolved(out, bodies) \in Seq(Entries) /\ Len(Resolved(out, bodies)) = Len(out)
        /\ \A k \in 1 .. Len(out) :
             /\ Resolved(out, bodies)[k].read = out[k].read /\ out[k].read \in Nat
             /\ Resolved(out, bodies)[k] =
                  IF out[k].kind = "delayed" THEN [out[k] EXCEPT !.id = <<bodies[out[k].id[1]]>>]
                  ELSE out[k]
    BY SMTT(30), bodies \in [known -> Bodies], out \in Seq(Handed(known)), ResolvedIs
  <2> HIDE DEF reads, long
  <2>2. ASSUME NEW k \in 1 .. n PROVE res[k].read = out[k].read /\ out[k].read \in Nat
    BY ONLY <2>1, k \in 1 .. n, Zenon DEF res, n
  <2> QED
    BY ONLY <2>1, <2>2, Zenon DEF res, n
<1>2. log \in Seq(Entries) /\ \A k \in 1 .. l : log[k].read < k
  <2>1. LogRoom(log)
    OBVIOUS
  <2> HIDE DEF res, long, n, reads
  <2> QED
    BY ONLY <2>1 DEF LogRoom, l
<1>3. l \in Nat /\ n \in Nat
  <2> HIDE DEF res
  <2>1. log \in Seq(Entries) /\ res \in Seq(Entries) /\ Len(res) = n
    BY <1>1, <1>2
  <2> QED
    BY <2>1
<1>4. \A k \in 1 .. n : out[k].read <= 1 + (IF k > 1 THEN out[k - 1].read
                                            ELSE IF log = <<>> THEN 0 ELSE log[l].read)
  BY DEF StreamerAccepts
<1> HIDE DEF res
<1>5. n > 0 => out[1].read <= l
  <2>1. SUFFICES ASSUME n > 0 PROVE out[1].read <= l
    OBVIOUS
  <2>2. 1 \in 1 .. n /\ out # <<>> /\ out[1].read \in Nat
    BY <1>1, <1>3, <2>1
  <2>3. CASE log = <<>>
    BY <1>3, <2>2, <2>3
  <2>4. CASE log # <<>>
    <3>1. l \in 1 .. l
      BY <1>2, <2>4
    <3>2. log[l].read < l /\ log[l] \in Entries
      BY <1>2, <3>1
    <3>3. log[l].read \in Nat
      BY <3>2 DEF Entries
    <3>4. out[1].read <= 1 + log[l].read
      BY <1>4, <2>2, <2>4
    <3> HIDE DEF l
    <3> QED
      BY <1>3, <2>2, <3>2, <3>3, <3>4
  <2> QED
    BY <2>3, <2>4
<1>6. \A k \in 1 .. n : res[k].read < l + k
  <2>1. reads \in [1 .. n -> Nat] /\ \A k \in 1 .. n : reads[k] = out[k].read
    BY <1>1
  <2>2. n > 0 => reads[1] <= l
    BY <1>3, <1>5, <2>1
  <2>3. \A k \in 2 .. n : reads[k] <= 1 + reads[k - 1]
    <3>1. SUFFICES ASSUME NEW k \in 2 .. n PROVE reads[k] <= 1 + reads[k - 1]
      OBVIOUS
    <3>2. k \in 1 .. n /\ k - 1 \in 1 .. n /\ k > 1
      BY <1>3
    <3> HIDE DEF reads
    <3> QED
      BY <1>4, <2>1, <3>2
  <2> HIDE DEF reads, l, n
  <2>4. \A k \in 1 .. n : reads[k] < l + k
    BY <1>3, <2>1, <2>2, <2>3, StepsFit
  <2> QED
    BY <1>1, <2>1, <2>4
<1>7. /\ long \in Seq(Entries) /\ Len(long) = l + n
      /\ \A k \in 1 .. l + n : long[k] = IF k <= l THEN log[k] ELSE res[k - l]
  <2>1. log \in Seq(Entries) /\ res \in Seq(Entries) /\ Len(res) = n
    BY <1>1, <1>2
  <2> HIDE DEF n
  <2>2. /\ long \in Seq(Entries) /\ Len(long) = l + n
        /\ \A k \in 1 .. Len(long) : long[k] = IF k <= l THEN log[k] ELSE res[k - l]
    <3>1. /\ log \o res \in Seq(Entries) /\ Len(log \o res) = Len(log) + Len(res)
          /\ \A k \in 1 .. Len(log \o res) : (log \o res)[k] = IF k <= Len(log) THEN log[k] ELSE res[k - Len(log)]
      BY ONLY <2>1, ConcatIs, ConcatAt
    <3> QED
      BY <2>1, <3>1
  <2> QED
    BY <2>2
<1> HIDE DEF long
<1>8. ASSUME NEW k \in 1 .. l + n PROVE long[k].read < k
  <2>1. CASE k <= l
    <3>1. k \in 1 .. l /\ long[k] = log[k]
      BY <1>3, <1>7, <2>1
    <3> QED
      BY <1>2, <3>1
  <2>2. CASE k > l
    <3>1. k - l \in 1 .. n /\ l + (k - l) = k /\ long[k] = res[k - l]
      BY <1>3, <1>7, <2>2
    <3>2. res[k - l].read < l + (k - l)
      BY <1>6, <3>1
    <3> QED
      BY <3>1, <3>2
  <2> QED
    BY <1>3, <2>1, <2>2
<1>9. out # <<>> => n > 0
  BY <1>3
<1> QED
  BY <1>3, <1>5, <1>7, <1>8, <1>9 DEF LogRoom, long, res

\* Two running sums of which one gains at least what the other does.
LEMMA CountsFit ==
  ASSUME NEW n \in Nat, NEW f \in [0 .. n -> Nat], NEW size \in [0 .. n -> Nat], NEW room \in Nat,
         \A k \in 1 .. n : size[k] <= size[n],
         n > 0 => f[1] <= room + size[1],
         \A k \in 2 .. n : \E d \in Nat : f[k] = f[k - 1] + d /\ size[k] >= size[k - 1] + d
  PROVE  \A k \in 1 .. n : f[k] <= room + size[n]
<1> DEFINE Bad == {k \in 1 .. n : ~(f[k] <= room + size[k])}
<1>1. Bad = {}
  <2>1. SUFFICES ASSUME Bad # {} PROVE FALSE
    OBVIOUS
  <2>2. PICK k \in Bad : \A j \in Bad : k <= j
    <3>1. Bad \in SUBSET Nat
      OBVIOUS
    <3> HIDE DEF Bad
    <3> QED
      BY <2>1, <3>1, LeastOf
  <2>3. k \in 1 .. n /\ ~(f[k] <= room + size[k])
    OBVIOUS
  <2>4. k # 1
    BY <2>3
  <2>5. k \in 2 .. n /\ k - 1 \in 1 .. n /\ k - 1 \in 0 .. n /\ k \in 0 .. n
    BY <2>3, <2>4
  <2>6. k - 1 \notin Bad
    <3> HIDE DEF Bad
    <3> QED
      BY <2>2, <2>3
  <2>7. f[k - 1] <= room + size[k - 1]
    BY <2>5, <2>6
  <2>8. PICK d \in Nat : f[k] = f[k - 1] + d /\ size[k] >= size[k - 1] + d
    BY <2>5
  <2>9. f[k - 1] \in Nat /\ size[k - 1] \in Nat /\ f[k] \in Nat /\ size[k] \in Nat
    BY <2>5
  <2> HIDE DEF Bad
  <2> QED
    BY SMTT(30), <2>3, <2>7, <2>8, <2>9
<1>2. ASSUME NEW k \in 1 .. n PROVE f[k] <= room + size[n]
  <2>1. f[k] <= room + size[k] /\ size[k] <= size[n]
    BY <1>1
  <2>2. k \in 0 .. n /\ n \in 0 .. n
    OBVIOUS
  <2>3. f[k] \in Nat /\ size[k] \in Nat /\ size[n] \in Nat
    BY <2>2
  <2> HIDE DEF Bad
  <2> QED
    BY <2>1, <2>3
<1> QED
  BY <1>2

\* A stretch of a sequence.
LEMMA StretchIs ==
  ASSUME NEW S, NEW s \in Seq(S), NEW a \in Nat, NEW b \in Nat, a <= b, b < Len(s)
  PROVE  /\ SubSeq(s, a + 1, b + 1) \in Seq(S) /\ Len(SubSeq(s, a + 1, b + 1)) = b - a + 1
         /\ \A k \in 1 .. b - a + 1 : SubSeq(s, a + 1, b + 1)[k] = s[a + k] /\ s[a + k] \in S
<1>1. Len(s) \in Nat /\ \A k \in 1 .. Len(s) : s[k] \in S
  BY ElementsOf
<1>2. \A i \in a + 1 .. b + 1 : s[i] \in S
  BY <1>1
<1>3. a + 1 \in Int /\ b + 1 \in Int /\ a + 1 <= b + 1 /\ (b + 1) - (a + 1) + 1 = b - a + 1
      /\ \A k \in 1 .. b - a + 1 : (a + 1) + k - 1 = a + k /\ a + k \in a + 1 .. b + 1
  OBVIOUS
<1>4. /\ SubSeq(s, a + 1, b + 1) \in Seq(S)
      /\ Len(SubSeq(s, a + 1, b + 1)) = (b + 1) - (a + 1) + 1
      /\ \A k \in 1 .. (b + 1) - (a + 1) + 1 : SubSeq(s, a + 1, b + 1)[k] = s[(a + 1) + k - 1]
  BY ONLY <1>2, <1>3
<1> QED
  BY <1>2, <1>3, <1>4

\* The batches that a window of L1 is read from.
LEMMA WindowBatches ==
  ASSUME L1Typed, NEW first \in Nat, NEW last \in Nat, first <= last, last < Len(l1.batches),
         NEW bs, bs = SubSeq(l1.batches, first + 1, last + 1)
  PROVE  /\ bs \in Seq(Batches) /\ bs # <<>> /\ Len(bs) = last - first + 1
         /\ \A k \in 1 .. last - first + 1 : bs[k] = l1.batches[first + k] /\ bs[k] \in Batches
<1>1. l1.batches \in Seq(Batches)
  BY DEF L1Typed
<1>2. /\ bs \in Seq(Batches) /\ Len(bs) = last - first + 1
      /\ \A k \in 1 .. last - first + 1 : bs[k] = l1.batches[first + k] /\ bs[k] \in Batches
  BY <1>1, StretchIs
<1>3. bs # <<>>
  <2>1. Len(bs) # 0
    BY <1>2
  <2> QED
    BY <2>1
<1> QED
  BY <1>2, <1>3

\* No batch's contents hold a segment that ends a batch early, and each begins with a
\* message of the sequencer's own.
Owned == \A segs \in Contents : OwnFirst(segs)

\* Where the multiplexer starts, and how that agrees with what is recorded: a window
\* continues the log where the last batch left it, or is the first.
StartsAt(first, log, start) ==
  /\ start \in Nat
  /\ log = <<>> => start = 0
  /\ \/ Len(log) = PrevMeta(first).messages /\ start = PrevMeta(first).delayed
     \/ first = 0

\* A window that the streamer takes brings as many messages as its batches count.
LEMMA WindowFits ==
  ASSUME Owned, NEW first, NEW last, Window(first, last), NEW log, LogRoom(log), NEW start,
         StartsAt(first, log, start), NEW known, NEW bodies \in [known -> Bodies], NEW out,
         ExpandAll(SubSeq(l1.batches, first + 1, last + 1), start, known).ends # "error",
         out = ExpandAll(SubSeq(l1.batches, first + 1, last + 1), start, known).out,
         StreamerAccepts(log, out)
  PROVE  /\ LogRoom(log \o Resolved(out, bodies))
         /\ Len(log) \in Nat /\ Len(log \o Resolved(out, bodies)) \in Nat
         /\ Len(log) <= Len(log \o Resolved(out, bodies))
         /\ \A n \in first .. last :
              MessageCounts(first, last)[n] \in 1 .. Len(log \o Resolved(out, bodies))
<1> DEFINE bs == SubSeq(l1.batches, first + 1, last + 1)
           n == last - first + 1
           grown == log \o Resolved(out, bodies)
           prev == PrevMeta(first)
           counts == MessageCounts(first, last)
           upTo(k) == DelayedUpTo(first, first + k - 1)
<1>1. /\ first \in Nat /\ last \in Nat /\ first <= last /\ last < Len(l1.batches) /\ L1Typed
      /\ prev \in BatchMetadata /\ n \in Nat /\ n >= 1
  BY Bounds DEF Window
<1>2. /\ start \in Nat
      /\ log = <<>> => start = 0
      /\ (Len(log) = prev.messages /\ start = prev.delayed) \/ first = 0
  BY DEF StartsAt
<1> HIDE DEF bs
<1>3. /\ bs \in Seq(Batches) /\ bs # <<>> /\ Len(bs) = n
      /\ \A k \in 1 .. n : bs[k] = l1.batches[first + k] /\ bs[k] \in Batches
  BY <1>1, WindowBatches DEF bs
<1> HIDE DEF n
<1>4. \A k \in 1 .. n : OwnFirst(bs[k].segs)
  BY <1>3, BatchTyped DEF Owned
<1>5. /\ Makes(bs, start) \in [1 .. n -> Seq(Handed(known))]
      /\ out = FlattenSeq(Makes(bs, start))
  <2>1. ExpandAll(bs, start, known).ends # "error" /\ out = ExpandAll(bs, start, known).out
    BY DEF bs
  <2>2. \A k \in 1 .. Len(bs) : OwnFirst(bs[k].segs)
    BY <1>3, <1>4
  <2>3. /\ Makes(bs, start) \in [1 .. Len(bs) -> Seq(Handed(known))]
        /\ ExpandAll(bs, start, known).out = FlattenSeq(Makes(bs, start))
    BY ONLY <1>2, <1>3, <2>1, <2>2, WindowIsWhole
  <2> QED
    BY ONLY <1>3, <2>1, <2>3
<1>6. /\ out \in Seq(Handed(known)) /\ Len(out) >= 1 /\ out[1].read = start
      /\ \E size \in [0 .. n -> Nat] : SizesOf(size, bs, start) /\ size[n] = Len(out)
  <2>1. \A k \in 1 .. Len(bs) : OwnFirst(bs[k].segs)
    BY <1>3, <1>4
  <2>2. /\ Makes(bs, start) \in [1 .. Len(bs) -> Seq(Handed(known))]
        /\ Len(bs) = n
    BY <1>3, <1>5
  <2>3. /\ out \in Seq(Handed(known)) /\ Len(out) >= 1 /\ out[1].read = start
        /\ HasSizes(bs, start, out)
    <3>1. bs \in Seq(Batches) /\ bs # <<>> /\ start \in Nat /\ out = FlattenSeq(Makes(bs, start))
      BY ONLY <1>2, <1>3, <1>5
    <3>2. Makes(bs, start) \in [1 .. Len(bs) -> Seq(Handed(known))]
      BY ONLY <2>2
    <3> QED
      BY ONLY <2>1, <3>1, <3>2, WindowSizes
  <2> QED
    BY ONLY <2>2, <2>3 DEF HasSizes
<1>6a. out \in Seq(Handed(known)) /\ Len(out) >= 1 /\ out[1].read = start
  BY ONLY <1>6
<1>7. /\ LogRoom(grown) /\ Len(grown) = Len(log) + Len(out)
      /\ Len(log) \in Nat /\ Len(out) \in Nat /\ out[1].read <= Len(log)
  <2>1. log = <<>> /\ out # <<>> => out[1].read = 0
    BY ONLY <1>2, <1>6a
  <2>2. out # <<>>
    BY ONLY <1>6a
  <2>3. LogRoom(log) /\ bodies \in [known -> Bodies] /\ StreamerAccepts(log, out)
    OBVIOUS
  <2>4. /\ LogRoom(log \o Resolved(out, bodies))
        /\ Len(log \o Resolved(out, bodies)) = Len(log) + Len(out)
        /\ Len(log) \in Nat /\ Len(out) \in Nat
        /\ out # <<>> => out[1].read <= Len(log)
    BY ONLY <1>6a, <2>1, <2>3, LogGrows
  <2> QED
    BY ONLY <2>2, <2>4 DEF grown
<1>7a. PICK size \in [0 .. n -> Nat] : SizesOf(size, bs, start) /\ size[n] = Len(out)
  BY ONLY <1>6
<1>8. /\ size[0] = 0 /\ size[n] = Len(out)
      /\ \A k \in 1 .. n :
           /\ size[k] = size[k - 1] + Len(Makes(bs, start)[k])
           /\ Len(Makes(bs, start)[k]) >= L2Count(bs[k]) + Span(bs[k], ReadsFrom(bs, start, k))
           /\ size[k] <= size[n]
  <2>1. Len(bs) = n
    BY <1>3
  <2> QED
    BY ONLY <1>7a, <2>1 DEF SizesOf
<1>9. ASSUME NEW k \in 1 .. n
      PROVE  /\ L2Count(bs[k]) \in Nat /\ L2Count(bs[k]) >= 1
             /\ Span(bs[k], ReadsFrom(bs, start, k)) \in Nat
             /\ size[k] >= size[k - 1] + (L2Count(bs[k]) + Span(bs[k], ReadsFrom(bs, start, k)))
             /\ size[k] \in Nat /\ size[k - 1] \in Nat
  <2>1. L2Count(bs[k]) \in Nat /\ L2Count(bs[k]) >= 1
    <3>1. bs[k] \in Batches /\ OwnFirst(bs[k].segs)
      BY <1>3, <1>4
    <3> QED
      BY ONLY <3>1, VisibleSplits
  <2>2. Span(bs[k], ReadsFrom(bs, start, k)) \in Nat
    BY <1>2, <1>3, SpanTyped
  <2>3. k \in 0 .. n /\ k - 1 \in 0 .. n
    BY <1>1
  <2>4. size[k] \in Nat /\ size[k - 1] \in Nat
    BY <2>3
  <2>5. /\ size[k] = size[k - 1] + Len(Makes(bs, start)[k])
        /\ Len(Makes(bs, start)[k]) >= L2Count(bs[k]) + Span(bs[k], ReadsFrom(bs, start, k))
    BY <1>8
  <2>6. Len(Makes(bs, start)[k]) \in Nat
    BY <1>5, ElementsOf
  <2> QED
    BY ONLY <2>1, <2>2, <2>4, <2>5, <2>6
\* The counts, batch by batch.
<1>10. /\ \A m \in first - 1 .. last : DelayedUpTo(first, m) \in 0 .. MaxDelayed
       /\ \A m \in first .. last : counts[m] \in Nat
       /\ counts[first - 1] = prev.messages
       /\ \A m \in first .. last :
            counts[m] = counts[m - 1] + L2Count(l1.batches[m + 1])
                        + Span(l1.batches[m + 1], DelayedUpTo(first, m - 1))
  BY <1>1, CountsAre
<1> HIDE DEF counts, grown
<1>11. prev.messages \in Nat /\ prev.delayed \in Nat
       /\ (first = 0 => prev.messages = 0 /\ prev.delayed = 0)
  <2>1. first = 0 => prev = NoBatch
    BY DEF PrevMeta
  <2> HIDE DEF prev
  <2> QED
    BY <1>1, <2>1, Bounds DEF BatchMetadata, NoBatch
<1> HIDE DEF prev
<1>12. ASSUME NEW k \in 1 .. n
       PROVE  /\ first + k - 1 \in first .. last /\ first + k = (first + k - 1) + 1
              /\ counts[first + k - 1] \in Nat
              /\ counts[first + k - 1] = counts[first + k - 2] + L2Count(bs[k])
                                         + Span(bs[k], DelayedUpTo(first, first + k - 2))
  <2>1. first + k - 1 \in first .. last /\ first + k = (first + k - 1) + 1
        /\ (first + k - 1) - 1 = first + k - 2
    BY <1>1 DEF n
  <2>2. bs[k] = l1.batches[(first + k - 1) + 1]
    BY <1>3, <2>1
  <2> QED
    BY <1>10, <2>1, <2>2
<1>13. ASSUME NEW k \in 2 .. n
       PROVE  ReadsFrom(bs, start, k) = DelayedUpTo(first, first + k - 2)
  <2>1. k - 1 \in 1 .. n /\ k # 1 /\ ~ (first + k - 2 < first)
        /\ (first + k - 2) + 1 = first + (k - 1)
    BY <1>1
  <2>2. bs[k - 1] = l1.batches[(first + k - 2) + 1]
    BY <1>3, <2>1
  <2> QED
    BY <2>1, <2>2 DEF ReadsFrom, DelayedUpTo
<1> DEFINE f == [k \in 0 .. n |-> IF k = 0 THEN 0 ELSE counts[first + k - 1]]
<1>14. f \in [0 .. n -> Nat] /\ \A k \in 1 .. n : f[k] = counts[first + k - 1]
  <2>1. \A k \in 0 .. n : k = 0 \/ k \in 1 .. n
    BY <1>1
  <2>2. \A k \in 1 .. n : k # 0 /\ k \in 0 .. n
    BY <1>1
  <2> QED
    BY <1>12, <2>1, <2>2
<1> HIDE DEF f
<1>15. f[1] <= Len(log) + size[1]
  <2> DEFINE b == bs[1]
             c == L2Count(bs[1])
             s == Span(bs[1], start)
             p == Span(bs[1], prev.delayed)
  <2>1. 1 \in 1 .. n /\ 1 \in 0 .. n
    BY <1>1
  <2>2. /\ c \in Nat /\ s \in Nat /\ size[1] \in Nat /\ size[0] = 0
        /\ size[1] >= size[0] + (c + s)
    <3>1. ReadsFrom(bs, start, 1) = start
      BY DEF ReadsFrom
    <3>2. 1 - 1 = 0
      OBVIOUS
    <3> QED
      BY <1>8, <1>9, <2>1, <3>1, <3>2
  <2>3. f[1] = prev.messages + c + p
    <3>1. DelayedUpTo(first, first - 1) = prev.delayed
      BY <1>1 DEF DelayedUpTo, prev
    <3>2. first + 1 - 1 = first /\ first + 1 - 2 = first - 1
      BY <1>1
    <3> QED
      BY <1>10, <1>12, <1>14, <2>1, <3>1, <3>2
  <2>4. b.after \in Nat
    BY <1>3, <2>1, BatchTyped
  <2>5. p \in Nat /\ (start = prev.delayed => p = s) /\ (prev.delayed = 0 => p <= start + s)
    <3>1. /\ s = IF b.after > start THEN b.after - start ELSE 0
          /\ p = IF b.after > prev.delayed THEN b.after - prev.delayed ELSE 0
      BY DEF Span
    <3> HIDE DEF b, s, p
    <3> QED
      BY ONLY <1>2, <1>11, <2>4, <3>1
  <2>6. start <= Len(log)
    BY ONLY <1>6a, <1>7
  <2>7. CASE Len(log) = prev.messages /\ start = prev.delayed
    <3>1. p = s
      BY <2>5, <2>7
    <3> HIDE DEF c, s, p
    <3> QED
      BY <1>7, <2>2, <2>3, <2>7, <3>1
  <2>8. CASE first = 0
    <3>1. prev.messages = 0 /\ p <= start + s
      BY <1>11, <2>5, <2>8
    <3> HIDE DEF c, s, p
    <3> QED
      BY ONLY <1>2, <1>7, <2>2, <2>3, <2>5, <2>6, <3>1
  <2> QED
    BY <1>2, <2>7, <2>8
<1>16. ASSUME NEW k \in 2 .. n
       PROVE  \E d \in Nat : f[k] = f[k - 1] + d /\ size[k] >= size[k - 1] + d
  <2> DEFINE c == L2Count(bs[k])
             s == Span(bs[k], ReadsFrom(bs, start, k))
  <2>1. k \in 1 .. n /\ k - 1 \in 1 .. n /\ first + (k - 1) - 1 = first + k - 2
    BY <1>1
  <2>2. /\ c \in Nat /\ s \in Nat /\ size[k] >= size[k - 1] + (c + s)
    BY <1>9, <2>1
  <2>3. f[k] = f[k - 1] + c + s /\ f[k - 1] \in Nat
    <3>1. f[k - 1] = counts[first + k - 2] /\ f[k - 1] \in Nat
      BY <1>12, <1>14, <2>1
    <3> QED
      BY <1>12, <1>13, <1>14, <2>1, <3>1
  <2> HIDE DEF c, s
  <2>4. c + s \in Nat /\ f[k] = f[k - 1] + (c + s)
    BY <2>2, <2>3
  <2> QED
    BY <2>2, <2>4
<1>17. \A k \in 1 .. n : f[k] <= Len(log) + size[n]
  <2>1. \A k \in 1 .. n : size[k] <= size[n]
    BY <1>8
  <2>2. n > 0 => f[1] <= Len(log) + size[1]
    BY <1>15
  <2> QED
    BY <1>1, <1>7, <1>14, <1>16, <2>1, <2>2, CountsFit
<1>18. ASSUME NEW m \in first .. last PROVE counts[m] \in 1 .. Len(grown)
  <2> DEFINE k == m - first + 1
  <2>1. k \in 1 .. n /\ first + k - 1 = m
    BY <1>1 DEF n
  <2>2. counts[m] = f[k] /\ counts[m] \in Nat
    BY <1>12, <1>14, <2>1
  <2>3. counts[m] <= Len(grown)
    BY <1>7, <1>8, <1>17, <2>1, <2>2
  <2>4. counts[m] >= 1
    <3>1. /\ L2Count(bs[k]) \in Nat /\ L2Count(bs[k]) >= 1
      BY <1>9, <2>1
    <3>2. counts[m] = counts[m - 1] + L2Count(l1.batches[m + 1])
                      + Span(l1.batches[m + 1], DelayedUpTo(first, m - 1))
      BY <1>10
    <3>3. bs[k] = l1.batches[m + 1]
      <4>1. first + k = m + 1
        BY <1>1
      <4> QED
        BY <1>3, <2>1, <4>1
    <3>4. counts[m - 1] \in Nat
      <4>1. m - 1 = first - 1 \/ m - 1 \in first .. last
        BY <1>1
      <4> QED
        BY <1>10, <1>11, <4>1
    <3>5. Span(l1.batches[m + 1], DelayedUpTo(first, m - 1)) \in Nat
      <4>1. m - 1 \in first - 1 .. last
        BY <1>1
      <4>2. DelayedUpTo(first, m - 1) \in Nat
        BY <1>10, <4>1, Bounds
      <4>3. bs[k] \in Batches /\ bs[k].after \in Nat
        BY <1>3, <2>1, BatchTyped
      <4> QED
        BY <3>3, <4>2, <4>3 DEF Span
    <3> QED
      BY <3>1, <3>2, <3>3, <3>4, <3>5
  <2>5. Len(grown) \in Nat
    BY <1>7
  <2> QED
    BY <2>2, <2>3, <2>4, <2>5
<1> QED
  BY <1>7, <1>18 DEF grown, counts

(***************************************************************************)
(* What is recorded is in the log.                                         *)
(***************************************************************************)

\* The log once the call under way has written it, which it does first.
LogComes == IF todo # <<>> /\ todo[1].key = Log THEN todo[1].val ELSE db[Log]

\* A batch counts at least its own message, and no more than the log has.
CountedIn(val, log) == val # Absent => val.messages \in 1 .. Len(log)

LogInv ==
  /\ CacheInv
  /\ LogRoom(db[Log]) /\ LogRoom(LogComes)
  /\ Len(db[Log]) \in Nat /\ Len(LogComes) \in Nat /\ Len(db[Log]) <= Len(LogComes)
  /\ todo # <<>> => \A op \in Ops(Tail(todo)) : op.key # Log
  /\ \A n \in Numbers : CountedIn(db[Meta(n)], db[Log])
  /\ \A op \in Ops(todo) : \A n \in Numbers : op.key = Meta(n) => CountedIn(op.val, LogComes)

LEMMA LongerCounts ==
  ASSUME NEW val, NEW log, NEW longer, Len(log) \in Nat, Len(longer) \in Nat,
         Len(log) <= Len(longer), CountedIn(val, log)
  PROVE  CountedIn(val, longer)
BY DEF CountedIn

\* A call that leaves the log alone and removes metadata, or leaves it alone.
LEMMA QuietCall ==
  ASSUME LogInv, Idle, CacheInv', db' = db,
         \A op \in Ops(todo') :
           op.key # Log /\ \A n \in Numbers : op.key = Meta(n) => op.val = Absent
  PROVE  LogInv'
<1>1. LogRoom(db[Log]) /\ Len(db[Log]) \in Nat
      /\ \A n \in Numbers : CountedIn(db[Meta(n)], db[Log])
  BY DEF LogInv
<1>2. Sound(todo') /\ CacheLast(todo')
  BY DEF CacheInv, Typed
<1>3. LogComes' = db'[Log]
  <2>1. todo' # <<>> => todo'[1] \in Ops(todo')
    BY <1>2, TailWrites
  <2> QED
    BY <2>1 DEF LogComes
<1>4. todo' # <<>> => \A op \in Ops(Tail(todo')) : op.key # Log
  <2>1. todo' # <<>> => Ops(todo') = {todo'[1]} \cup Ops(Tail(todo'))
    BY <1>2, TailWrites
  <2> QED
    BY <2>1
<1>5. \A op \in Ops(todo') : \A n \in Numbers : op.key = Meta(n) => CountedIn(op.val, LogComes')
  BY DEF CountedIn
<1> QED
  BY <1>1, <1>3, <1>4, <1>5 DEF LogInv

\* add_delayed_messages and reorg_delayed_to do not touch the log.
LEMMA SetDelayedQuiet ==
  ASSUME StoreTyped, NEW first \in 0 .. MaxDelayed, NEW count \in 0 .. MaxDelayed,
         NEW puts, Sound(puts), \A op \in Ops(puts) : \E i : op.key = Delayed(i),
         SetDelayedCount(first, count, puts)
  PROVE  \A op \in Ops(todo') :
           op.key # Log /\ \A n \in Numbers : op.key = Meta(n) => op.val = Absent
<1> DEFINE writes == DelayedWrites(first, count, puts)
<1>1. ASSUME NEW op \in Ops(writes)
      PROVE  op.key # Log /\ \A n : op.key # Meta(n)
  <2>1. \/ op \in Ops(puts)
        \/ op \in {[key |-> Delayed(i), val |-> Absent] : i \in count .. MaxDelayed - 1}
        \/ op \in {[key |-> DelayedCount, val |-> count]}
        \/ op \in {[key |-> Sequenced(c), val |-> Absent] : c \in first + 1 .. MaxDelayed}
    BY DelayedWritesSound
  <2>2. \/ \E i : op.key = Delayed(i)
        \/ op.key = DelayedCount
        \/ \E c : op.key = Sequenced(c)
    BY <2>1
  <2> QED
    BY <2>2, KeysDiffer
<1>2. CASE FirstSequenced(first) = {}
  <2>1. todo' = writes
    BY <1>2 DEF SetDelayedCount
  <2> QED
    BY <1>1, <2>1
<1>3. CASE FirstSequenced(first) # {}
  <2>1. PICK n \in FirstSequenced(first) : todo' = MetaDeletes(n) \o writes \o Put(BatchCount, n)
    BY <1>3 DEF SetDelayedCount
  <2>2. n \in Numbers
    BY FirstSequencedIs
  <2>3. Ops(todo') = Ops(writes)
                     \cup {[key |-> Meta(m), val |-> Absent] : m \in n .. MaxBatches - 1}
                     \cup {[key |-> BatchCount, val |-> n]}
    BY <2>1, <2>2, RollbackSound
  <2> HIDE DEF writes
  <2>4. ASSUME NEW op \in Ops(todo')
        PROVE  op.key # Log /\ \A m \in Numbers : op.key = Meta(m) => op.val = Absent
    <3>1. CASE op \in Ops(writes)
      BY <1>1, <3>1
    <3>2. CASE op \in {[key |-> Meta(m), val |-> Absent] : m \in n .. MaxBatches - 1}
      <4>1. \E m : op.key = Meta(m) /\ op.val = Absent
        BY <3>2
      <4> QED
        BY <4>1, KeysDiffer
    <3>3. CASE op = [key |-> BatchCount, val |-> n]
      <4>1. op.key = BatchCount
        BY <3>3
      <4> QED
        BY <4>1, KeysDiffer
    <3> QED
      BY <2>3, <3>1, <3>2, <3>3
  <2> QED
    BY <2>4
<1> QED
  BY <1>2, <1>3

\* A key is written: the log first, if the call writes it at all.
LEMMA WriteKeyLog ==
  ASSUME LogInv, WriteKey
  PROVE  /\ db'[Log] = LogComes /\ LogComes' = db'[Log]
         /\ \A other \in Ops(Tail(todo)) : other.key # Log
<1> DEFINE op == todo[1]
           rest == Tail(todo)
<1>1. StoreTyped /\ Sound(todo) /\ CacheLast(todo)
  BY DEF LogInv, CacheInv, Typed
<1>2. todo # <<>> /\ todo' = rest
  BY DEF WriteKey
<1>3. Sound(rest) /\ CacheLast(rest)
  BY <1>1, <1>2, TailWrites
<1>4. \A other \in Ops(rest) : other.key # Log
  BY <1>2 DEF LogInv
<1>5. ASSUME NEW key \in Keys
      PROVE  db'[key] = db[key] \/ (op.key = key /\ db'[key] = op.val)
  BY <1>1, <1>5 DEF WriteKey, StoreTyped
<1>6. op.key = Log => db'[Log] = op.val
  <2>1. op.key = Log => op.key[1] # "cache" /\ Log \in Keys
    BY KeysDiffer, KeysAre
  <2> QED
    BY <1>1, <2>1 DEF WriteKey, StoreTyped
<1>7. db'[Log] = LogComes
  <2>1. CASE op.key = Log
    BY <1>2, <1>6, <2>1 DEF LogComes
  <2>2. CASE op.key # Log
    <3>1. db'[Log] = db[Log]
      BY <1>5, <2>2, KeysAre
    <3> QED
      BY <2>2, <3>1 DEF LogComes
  <2> QED
    BY <2>1, <2>2
<1> HIDE DEF op, rest
<1>8. LogComes' = db'[Log]
  <2>1. rest # <<>> => rest[1] \in Ops(rest)
    BY <1>3, TailWrites
  <2> QED
    BY <1>2, <1>4, <2>1 DEF LogComes
<1> QED
  BY <1>4, <1>7, <1>8 DEF rest

LEMMA WriteKeyCounts ==
  ASSUME LogInv, WriteKey, CacheInv'
  PROVE  LogInv'
<1> DEFINE op == todo[1]
           rest == Tail(todo)
<1>1. /\ StoreTyped /\ Sound(todo) /\ CacheLast(todo)
      /\ LogRoom(db[Log]) /\ LogRoom(LogComes)
      /\ Len(db[Log]) \in Nat /\ Len(LogComes) \in Nat /\ Len(db[Log]) <= Len(LogComes)
      /\ \A n \in Numbers : CountedIn(db[Meta(n)], db[Log])
      /\ \A other \in Ops(todo) : \A n \in Numbers : other.key = Meta(n) => CountedIn(other.val, LogComes)
  BY DEF LogInv, CacheInv, Typed
<1>2. todo # <<>> /\ todo' = rest
  BY DEF WriteKey
<1>3. /\ op \in Ops(todo) /\ Ops(todo) = {op} \cup Ops(rest)
      /\ Sound(rest) /\ CacheLast(rest)
  BY <1>1, <1>2, TailWrites
<1>4. \A other \in Ops(rest) : other.key # Log
  BY WriteKeyLog
<1>5. ASSUME NEW key \in Keys
      PROVE  db'[key] = db[key] \/ (op.key = key /\ db'[key] = op.val)
  BY <1>1, <1>5 DEF WriteKey, StoreTyped
<1>7. db'[Log] = LogComes /\ LogComes' = db'[Log]
  BY WriteKeyLog
<1> HIDE DEF op, rest
<1>9. rest # <<>> => \A other \in Ops(Tail(rest)) : other.key # Log
  <2>1. rest # <<>> => Ops(rest) = {rest[1]} \cup Ops(Tail(rest))
    BY <1>3, TailWrites
  <2> QED
    BY <1>4, <2>1
<1>10. ASSUME NEW n \in Numbers PROVE CountedIn(db'[Meta(n)], LogComes)
  <2>1. CASE db'[Meta(n)] = db[Meta(n)]
    BY <1>1, <2>1, LongerCounts
  <2>2. CASE op.key = Meta(n) /\ db'[Meta(n)] = op.val
    BY <1>1, <1>3, <2>2
  <2> QED
    BY <1>5, <2>1, <2>2, KeysAre
<1>11. \A other \in Ops(rest) : \A n \in Numbers : other.key = Meta(n) => CountedIn(other.val, LogComes)
  BY <1>1, <1>3
<1> QED
  BY <1>1, <1>2, <1>7, <1>9, <1>10, <1>11 DEF LogInv

\* The first write of a window is the log's, and the only one.
LEMMA WindowFirst ==
  ASSUME NEW first, NEW last, NEW out, Window(first, last), NEW w, w = WindowWrites(first, last, out)
  PROVE  /\ w # <<>> /\ w[1] = [key |-> Log, val |-> db[Log] \o out]
         /\ \A op \in Ops(Tail(w)) : op.key # Log
<1> DEFINE l == Put(Log, db[Log] \o out)
           r == IF Accepted(first, last) THEN BatchWrites(first, last) ELSE <<>>
<1>1. /\ IsWrites(l) /\ Len(l) = 1 /\ l[1] = [key |-> Log, val |-> db[Log] \o out]
  BY PutWrites, KeysAre
<1>2. IsWrites(r) /\ \A op \in Ops(r) : op.key # Log
  <2>1. CASE Accepted(first, last)
    BY <2>1, BatchWritesSound DEF Sound
  <2>2. CASE ~ Accepted(first, last)
    BY <2>2, NoWrites
  <2> QED
    BY <2>1, <2>2
<1>3. w = l \o r
  BY DEF WindowWrites
<1> HIDE DEF l, r
<1>4. /\ IsWrites(w) /\ Len(r) \in Nat /\ Len(w) = 1 + Len(r)
      /\ w[1] = l[1] /\ \A k \in 1 .. Len(r) : w[1 + k] = r[k]
  <2>1. /\ IsWrites(l \o r) /\ Len(l) \in Nat /\ Len(r) \in Nat /\ Len(l \o r) = Len(l) + Len(r)
        /\ \A k \in 1 .. Len(l) : (l \o r)[k] = l[k]
        /\ \A k \in 1 .. Len(r) : (l \o r)[Len(l) + k] = r[k]
        /\ Ops(l \o r) = Ops(l) \cup Ops(r)
    <3>1. IsWrites(l) /\ IsWrites(r)
      BY <1>1, <1>2
    <3> QED
      BY ONLY <3>1, ConcatWrites
  <2>2. w = l \o r /\ Len(l) = 1 /\ 1 \in 1 .. Len(l)
    BY <1>1, <1>3
  <2> QED
    BY ONLY <2>1, <2>2
<1>5. PICK V : w \in Seq([key : AllKeys, val : V])
  BY <1>4 DEF IsWrites
<1>6. w # <<>> /\ Len(Tail(w)) = Len(r) /\ \A k \in 1 .. Len(r) : Tail(w)[k] = r[k]
  <2> DEFINE S == [key : AllKeys, val : V]
  <2>1. w \in Seq(S) /\ Len(w) >= 1
    BY <1>4, <1>5
  <2> HIDE DEF S
  <2>2. /\ w # <<>> /\ Len(Tail(w)) = Len(w) - 1
        /\ \A k \in 1 .. Len(Tail(w)) : Tail(w)[k] = w[k + 1]
    BY ONLY <2>1
  <2> QED
    BY <1>4, <2>2
<1>7. \A op \in Ops(Tail(w)) : op.key # Log
  BY <1>2, <1>6 DEF Ops
<1> QED
  BY <1>1, <1>4, <1>6, <1>7

\* The batch before the first that is not recorded, as the store has it.
LEMMA PrevIsStored ==
  ASSUME CacheInv, Repaired = db[BatchCount], db[BatchCount] > 0
  PROVE  /\ db[BatchCount] - 1 \in Numbers
         /\ db[Meta(db[BatchCount] - 1)] # Absent
         /\ PrevMeta(db[BatchCount]) = db[Meta(db[BatchCount] - 1)]
<1> DEFINE n == db[BatchCount] - 1
<1>1. StoreTyped /\ \A m \in Numbers : EntryHolds(m)
  BY DEF CacheInv, Typed
<1>2. n \in Numbers
  BY <1>1, StoredValues, Bounds
<1>3. db[Meta(n)] # Absent
  BY <1>1, RepairedIs
<1>4. get_batch_metadata(n) = db[Meta(n)]
  BY <1>1, <1>2 DEF EntryHolds, get_batch_metadata
<1>5. db[BatchCount] # 0
  BY <1>1, StoredValues
<1> QED
  BY <1>2, <1>3, <1>4, <1>5 DEF PrevMeta

LEMMA KnownTyped ==
  ASSUME StoreTyped
  PROVE  KnownBodies \in [KnownDelayed -> Bodies]
<1>1. ASSUME NEW i \in KnownDelayed PROVE db[Delayed(i)].body \in Bodies
  <2>1. i \in Positions /\ db[Delayed(i)] # Absent
    BY DEF KnownDelayed, HasDelayed
  <2>2. db[Delayed(i)] \in StoredDelayed
    BY <2>1, StoredValues
  <2> QED
    BY <2>2 DEF StoredDelayed
<1> QED
  BY <1>1, Zenon DEF KnownBodies

\* A window: where it starts agrees with what is recorded, so it fits.
LEMMA AddBatchesFits ==
  ASSUME LogInv, Owned, NEW last \in Numbers, Streamable(last)
  PROVE  LET first == db[BatchCount]
             grown == db[Log] \o Resolved(Stream(first, last).out, KnownBodies)
         IN  /\ Window(first, last)
             /\ LogRoom(grown) /\ Len(grown) \in Nat /\ Len(db[Log]) <= Len(grown)
             /\ \A n \in first .. last : MessageCounts(first, last)[n] \in 1 .. Len(grown)
<1> DEFINE first == db[BatchCount]
           log == db[Log]
           start == MuxStart(first)
           stream == Stream(first, last)
<1>0. /\ L1Typed /\ StoreTyped /\ CacheTyped /\ CacheInv
      /\ LogRoom(log) /\ Len(log) \in Nat
      /\ \A n \in Numbers : CountedIn(db[Meta(n)], log)
  BY DEF LogInv, CacheInv, Typed
<1>1. /\ Repaired = first /\ first <= last /\ last < Len(l1.batches)
      /\ Aligned(first)
      /\ stream.ends # "error" /\ StreamerAccepts(log, stream.out)
  BY DEF Streamable, Taken
<1>2. first \in Numbers /\ first \in Nat
  BY <1>0, <1>1, StoredValues, Bounds
<1>3. Window(first, last)
  BY <1>0, <1>1, <1>2, PrevMetaTyped DEF Window
<1>4. StartsAt(first, log, start)
  <2>1. /\ PrevMeta(first).delayed \in Nat /\ PrevMeta(first).messages \in Nat
        /\ db[DelayedCount] \in Nat
    BY <1>0, <1>3, StoredValues, Bounds DEF Window, BatchMetadata
  <2>2. start \in Nat
    BY <2>1 DEF MuxStart
  <2>3. CASE ColdStart(first)
    <3>1. first = 0 /\ Len(log) > 0
      BY <2>3 DEF ColdStart
    <3>2. log # <<>>
      BY <3>1
    <3> QED
      BY <2>2, <3>1, <3>2 DEF StartsAt
  <2>4. CASE ~ ColdStart(first)
    <3>1. Len(log) = PrevMeta(first).messages /\ start = PrevMeta(first).delayed
      BY <1>1, <2>4 DEF Aligned, MuxStart
    <3>2. log = <<>> => start = 0
      <4>1. CASE first = 0
        BY <3>1, <4>1 DEF PrevMeta, NoBatch
      <4>2. CASE first > 0
        <5>1. PrevMeta(first) = db[Meta(first - 1)] /\ db[Meta(first - 1)] # Absent /\ first - 1 \in Numbers
          BY <1>0, <1>1, <4>2, PrevIsStored
        <5>2. PrevMeta(first).messages \in 1 .. Len(log)
          BY <1>0, <5>1 DEF CountedIn
        <5>3. log = <<>> => Len(log) = 0
          OBVIOUS
        <5> QED
          BY <1>0, <2>1, <5>2, <5>3
      <4> QED
        BY <1>2, <4>1, <4>2
    <3> QED
      BY <2>2, <3>1, <3>2 DEF StartsAt
  <2> QED
    BY <2>3, <2>4
<1>5. KnownBodies \in [KnownDelayed -> Bodies]
  BY <1>0, KnownTyped
<1>6. stream = ExpandAll(SubSeq(l1.batches, first + 1, last + 1), start, KnownDelayed)
  BY DEF Stream
<1> HIDE DEF first, log, start, stream
<1>7. /\ LogRoom(log \o Resolved(stream.out, KnownBodies))
      /\ Len(log) \in Nat /\ Len(log \o Resolved(stream.out, KnownBodies)) \in Nat
      /\ Len(log) <= Len(log \o Resolved(stream.out, KnownBodies))
      /\ \A n \in first .. last :
           MessageCounts(first, last)[n] \in 1 .. Len(log \o Resolved(stream.out, KnownBodies))
  <2> DEFINE out == stream.out
             known == KnownDelayed
             bodies == KnownBodies
  <2>1. /\ ExpandAll(SubSeq(l1.batches, first + 1, last + 1), start, known).ends # "error"
        /\ out = ExpandAll(SubSeq(l1.batches, first + 1, last + 1), start, known).out
        /\ StreamerAccepts(log, out) /\ bodies \in [known -> Bodies]
    BY <1>1, <1>5, <1>6
  <2> HIDE DEF out, known, bodies
  <2>2. Owned /\ Window(first, last) /\ LogRoom(log) /\ StartsAt(first, log, start)
    BY <1>0, <1>3, <1>4
  <2>3. /\ LogRoom(log \o Resolved(out, bodies))
        /\ Len(log) \in Nat /\ Len(log \o Resolved(out, bodies)) \in Nat
        /\ Len(log) <= Len(log \o Resolved(out, bodies))
        /\ \A n \in first .. last :
             MessageCounts(first, last)[n] \in 1 .. Len(log \o Resolved(out, bodies))
    BY ONLY <2>1, <2>2, WindowFits
  <2> QED
    BY <2>3 DEF out, known, bodies
<1> QED
  BY <1>3, <1>7 DEF first, log, stream

\* The batches are recorded after their messages, with counts that the log reaches.
LEMMA AddBatchesCounts ==
  ASSUME LogInv, Owned, NEW last \in Numbers, AddBatches(last), CacheInv'
  PROVE  LogInv'
<1> DEFINE first == db[BatchCount]
           out == Resolved(Stream(first, last).out, KnownBodies)
           grown == db[Log] \o out
           w == WindowWrites(first, last, out)
<1>0. /\ LogRoom(db[Log]) /\ Len(db[Log]) \in Nat
      /\ \A n \in Numbers : CountedIn(db[Meta(n)], db[Log])
  BY DEF LogInv
<1>1. Streamable(last) /\ todo' = w /\ db' = db
  BY DEF AddBatches
<1>2. /\ Window(first, last)
      /\ LogRoom(grown) /\ Len(grown) \in Nat /\ Len(db[Log]) <= Len(grown)
      /\ \A n \in first .. last : MessageCounts(first, last)[n] \in 1 .. Len(grown)
  BY <1>1, AddBatchesFits
<1> HIDE DEF out
<1>3. /\ w # <<>> /\ w[1] = [key |-> Log, val |-> grown]
      /\ \A op \in Ops(Tail(w)) : op.key # Log
  BY <1>2, WindowFirst
<1>4. IF Accepted(first, last) THEN RecordsWindow(w, first, last)
      ELSE \A op \in Ops(w) : op.key = Log
  BY <1>2, WindowWritesSound
<1> HIDE DEF w, grown
<1>5. LogComes' = grown
  BY <1>1, <1>3 DEF LogComes
<1>6. ASSUME NEW op \in Ops(w), NEW n \in Numbers, op.key = Meta(n)
      PROVE  CountedIn(op.val, grown)
  <2>1. RecordsWindow(w, first, last)
    BY <1>4, <1>6, KeysDiffer
  <2>2. /\ n >= first
        /\ n <= last => op.val = NewMeta(first, last, n)
        /\ n > last => op.val = Absent
    BY <1>6, <2>1 DEF RecordsWindow
  <2>3. CASE n > last
    BY <2>2, <2>3 DEF CountedIn
  <2>4. CASE n <= last
    <3>1. n \in first .. last
      BY <1>2, <2>2, <2>4, Bounds DEF Window
    <3>2. NewMeta(first, last, n).messages = MessageCounts(first, last)[n]
      BY DEF NewMeta
    <3> QED
      BY <1>2, <2>2, <2>4, <3>1, <3>2 DEF CountedIn
  <2> QED
    BY <2>3, <2>4, Bounds
<1> QED
  BY <1>0, <1>1, <1>2, <1>3, <1>5, <1>6 DEF LogInv

LEMMA InitLog == Init => LogInv
<1> SUFFICES ASSUME Init PROVE LogInv
  OBVIOUS
<1>1. CacheInv
  BY InitCache
<1>2. todo = <<>> /\ Ops(todo) = {}
  BY NothingLeft DEF Init
<1>3. \A key \in Keys : db[key] = CASE key \in {DelayedCount, BatchCount} -> 0
                                    [] key = Log -> <<>>
                                    [] OTHER -> Absent
  BY DEF Init
<1>4. db[Log] = <<>>
  BY <1>3, KeysAre, KeysDiffer
<1>5. \A n \in Numbers : db[Meta(n)] = Absent
  BY <1>3, KeysAre, KeysDiffer
<1>6. LogRoom(<<>>) /\ Len(<<>>) = 0
  BY DEF LogRoom
<1>7. LogComes = <<>>
  BY <1>2, <1>4 DEF LogComes
<1> QED
  BY <1>1, <1>2, <1>4, <1>5, <1>6, <1>7 DEF LogInv, CountedIn

LEMMA NextLog ==
  ASSUME Owned, LogInv, [Next]_vars
  PROVE  LogInv'
<1>0. CacheInv /\ L1Typed /\ StoreTyped
  BY DEF LogInv, CacheInv, Typed
<1>a. CacheInv'
  BY <1>0, NextCacheInv
<1>1. CASE UNCHANGED vars
  BY <1>a, <1>1 DEF vars, LogInv, LogComes
<1>2. CASE \/ \E body \in Bodies : L1Delayed(body)
           \/ \E segs \in Contents, after \in 0 .. MaxDelayed : L1Batch(segs, after)
           \/ \E d \in 0 .. MaxDelayed, n \in 0 .. MaxBatches : L1Reorg(d, n)
  <2>1. db' = db /\ todo' = todo
    BY <1>2 DEF L1Delayed, L1Batch, L1Reorg
  <2> QED
    BY <1>a, <2>1 DEF LogInv, LogComes
<1>3. ASSUME NEW first \in Positions, NEW last \in Positions, AddDelayed(first, last)
      PROVE  LogInv'
  <2>1. /\ Idle /\ first <= last /\ last < Len(l1.delayed) /\ db' = db
        /\ SetDelayedCount(first, last + 1, DelayedPuts(first, last))
    BY <1>3 DEF AddDelayed
  <2>2. first \in 0 .. MaxDelayed /\ last + 1 \in 0 .. MaxDelayed
    BY Bounds
  <2>3. Sound(DelayedPuts(first, last))
        /\ \A op \in Ops(DelayedPuts(first, last)) : \E i : op.key = Delayed(i)
    BY <1>0, <2>1, DelayedPutsSound
  <2>4. \A op \in Ops(todo') :
          op.key # Log /\ \A n \in Numbers : op.key = Meta(n) => op.val = Absent
    BY <1>0, <2>1, <2>2, <2>3, SetDelayedQuiet
  <2> QED
    BY <1>a, <2>1, <2>4, QuietCall
<1>4. CASE ReorgDelayed
  <2>1. Idle /\ db' = db /\ SetDelayedCount(Len(l1.delayed), Len(l1.delayed), <<>>)
    BY <1>4 DEF ReorgDelayed
  <2>2. Len(l1.delayed) \in 0 .. MaxDelayed
    BY <1>0 DEF L1Typed
  <2>3. Sound(<<>>) /\ Ops(<<>>) = {}
    BY NothingLeft
  <2>4. \A op \in Ops(todo') :
          op.key # Log /\ \A n \in Numbers : op.key = Meta(n) => op.val = Absent
    BY <1>0, <2>1, <2>2, <2>3, SetDelayedQuiet
  <2> QED
    BY <1>a, <2>1, <2>4, QuietCall
<1>5. CASE GetBatchCount
  <2>1. Idle /\ db' = db /\ todo' = Put(BatchCount, Repaired)
    BY <1>5 DEF GetBatchCount
  <2>2. \A op \in Ops(todo') : op.key = BatchCount
    <3>1. BatchCount \in AllKeys
      BY KeysAre
    <3>2. Ops(Put(BatchCount, Repaired)) = {[key |-> BatchCount, val |-> Repaired]}
      BY ONLY <3>1, PutWrites
    <3> QED
      BY ONLY <2>1, <3>2
  <2>3. \A op \in Ops(todo') :
          op.key # Log /\ \A n \in Numbers : op.key = Meta(n) => op.val = Absent
    BY <2>2, KeysDiffer
  <2> QED
    BY <1>a, <2>1, <2>3, QuietCall
<1>6. ASSUME NEW n \in Numbers, GetBatchMetadata(n) PROVE LogInv'
  <2>1. db' = db /\ todo' = todo
    BY <1>6 DEF GetBatchMetadata
  <2> QED
    BY <1>a, <2>1 DEF LogInv, LogComes
<1>7. ASSUME NEW last \in Numbers, AddBatches(last) PROVE LogInv'
  BY <1>a, <1>7, AddBatchesCounts
<1>8. CASE WriteKey
  BY <1>a, <1>8, WriteKeyCounts
<1>9. CASE Crash
  <2>1. db' = db /\ todo' = <<>>
    BY <1>9 DEF Crash
  <2>2. Ops(todo') = {} /\ LogComes' = db[Log]
    BY <2>1, NothingLeft DEF LogComes
  <2> QED
    BY <1>a, <2>1, <2>2 DEF LogInv
<1> QED
  BY <1>1, <1>2, <1>3, <1>4, <1>5, <1>6, <1>7, <1>8, <1>9 DEF Next, Reader

\* A batch is recorded only when its messages are in the log, wherever the node
\* crashes and whatever L1 does, provided that every batch has a message of the
\* sequencer's own before any other, and no segment of an unknown kind.  A batch
\* that begins with a delayed message can break it: the cold start after a crash
\* reads on from the last delayed message stored, but counts from the first.
THEOREM LogCoversRecords ==
  ASSUME \A segs \in Contents : OwnFirst(segs)
  PROVE  Spec => []LogCoversMetadata
<1>1. Owned
  BY DEF Owned
<1>2. LogInv => LogCoversMetadata
  <2> SUFFICES ASSUME LogInv, NEW n \in Recorded, db[Meta(n)] # Absent
               PROVE  db[Meta(n)].messages <= Len(db[Log])
    BY DEF LogCoversMetadata
  <2>1. StoreTyped /\ \A m \in Numbers : CountedIn(db[Meta(m)], db[Log])
    BY DEF LogInv, CacheInv, Typed
  <2>2. n \in Numbers
    BY <2>1, RepairedIs, StoredValues, Bounds DEF Recorded
  <2> QED
    BY <2>1, <2>2 DEF CountedIn
<1>3. LogInv /\ [Next]_vars => LogInv'
  BY <1>1, NextLog
<1> QED
  BY <1>2, <1>3, InitLog, PTL DEF Spec

(***************************************************************************)
(* While L1 is not reorged, the reader does not read again and the node    *)
(* does not crash, the log is what L1's batches stand for.                 *)
(***************************************************************************)

\* The last delayed message that a batch reads comes out of one of its slots.
LEMMA LastRead ==
  ASSUME NEW b \in Batches, OwnFirst(b.segs), NEW read \in Nat, Span(b, read) > 0
  PROVE  LET msgs == SlotMessages(b, read, Slots(b, read))
         IN  \E k \in 1 .. Len(msgs) : msgs[k].kind = "delayed" /\ msgs[k].id[1] = b.after - 1
<1> DEFINE vs == VisibleAt(b)
           zs == Surplus(b, read)
           sl == Slots(b, read)
           span == Span(b, read)
           N == Len(b.segs)
           D == DelayedOf(b)
           before == DelayedBefore(b, N + 1)
           msgs == SlotMessages(b, read, sl)
           Comes == \E k \in 1 .. Len(msgs) : msgs[k].kind = "delayed" /\ msgs[k].id[1] = b.after - 1
<1> SUFFICES Comes
  OBVIOUS
<1>1. PICK at \in 1 .. Len(b.segs) : BeginsWithOwn(b.segs, at)
  BY DEF OwnFirst
<1>2. /\ span \in Nat /\ sl \in Seq(VisibleOf(b) \cup {0}) /\ sl = vs \o zs
      /\ vs \in Seq(VisibleOf(b))
      /\ \A i \in VisibleOf(b) : \E k \in 1 .. Len(vs) : vs[k] = i
  BY <1>1, OwnSlots, VisibleAtIs
<1>3. /\ N \in Nat /\ b.segs \in Seq(Segments) /\ b.after \in Nat /\ before \in Nat
      /\ D \in SUBSET (1 .. N)
  <2>1. N \in Nat /\ b.segs \in Seq(Segments) /\ b.after \in Nat
    BY BatchTyped
  <2>2. N \in 0 .. N
    BY <2>1
  <2>3. before \in Nat
    BY <2>2, DelayedBeforeIs
  <2> QED
    BY <2>1, <2>3 DEF DelayedOf
<1>4. read + span = b.after /\ read + (span - 1) = b.after - 1 /\ span - 1 < span
  BY <1>3 DEF Span
<1>5. ASSUME NEW n \in 0 .. N PROVE DelayedBefore(b, n + 1) = Upto(D, n)
  <2>1. n \in Nat /\ (n + 1) - 1 = n
    BY <1>3
  <2>2. {j \in 1 .. n : b.segs[j].kind = "delayed"} = {j \in 1 .. n : j \in D}
    BY <1>3, <2>1 DEF DelayedOf
  <2> QED
    BY <2>1, <2>2 DEF DelayedBefore, Upto
<1>6. ASSUME NEW k \in 1 .. Len(sl),
             sl[k] = 0 \/ (sl[k] \in 1 .. N /\ b.segs[sl[k]].kind = "delayed"),
             SlotsBefore(b, sl, k) = span - 1
      PROVE  k \in 1 .. Len(msgs) /\ msgs[k].kind = "delayed" /\ msgs[k].id[1] = b.after - 1
  <2>1. Len(msgs) = Len(sl) /\ msgs[k] = SlotGives(b, read, span, sl[k], SlotsBefore(b, sl, k))
    <3>1. Len(sl) \in Nat
      BY <1>2
    <3> HIDE DEF sl, span
    <3> QED
      BY <3>1 DEF SlotMessages, span
  <2> HIDE DEF sl, msgs
  <2> DEFINE own == <<read + (span - 1)>>
             up == read + (span - 1) + 1
  <2>2. msgs[k] = [kind |-> "delayed", id |-> own, read |-> up]
    <3>1. ~ (sl[k] # 0 /\ b.segs[sl[k]].kind = "l2")
          /\ ~ (sl[k] # 0 /\ b.segs[sl[k]].kind \in {"bad", "unknown"})
      BY <1>6
    <3>2. SlotGives(b, read, span, sl[k], span - 1) = [kind |-> "delayed", id |-> own, read |-> up]
      <4> HIDE DEF span
      <4> QED
        BY <1>4, <3>1 DEF SlotGives
    <3> QED
      BY <1>6, <2>1, <3>2
  <2>3. own[1] = b.after - 1
    BY <1>4
  <2> HIDE DEF own, up
  <2> QED
    BY <2>1, <2>2, <2>3
<1>7. CASE span > before
  <2> DEFINE left == span - before
             k == Len(vs) + left
  <2>1. /\ left \in Nat /\ left >= 1 /\ zs = [i \in 1 .. left |-> 0] /\ Len(vs) \in Nat
        /\ Len(zs) = left
    BY <1>2, <1>3, <1>7 DEF Surplus
  <2>2. /\ Len(sl) = Len(vs) + left
        /\ \A i \in 1 .. Len(vs) : sl[i] = vs[i]
        /\ \A i \in 1 .. left : sl[Len(vs) + i] = zs[i]
    <3>1. vs \in Seq(VisibleOf(b) \cup {0}) /\ zs \in Seq(VisibleOf(b) \cup {0})
      <4>1. zs \in [1 .. left -> {0}]
        BY <2>1
      <4>2. zs \in Seq(VisibleOf(b) \cup {0})
        BY <2>1, <4>1
      <4> QED
        BY <1>2, <4>2
    <3> HIDE DEF vs, zs, sl, left
    <3> QED
      BY <1>2, <2>1, <3>1, ConcatIs
  <2> HIDE DEF vs, sl, zs
  <2>3. /\ \A i \in 1 .. Len(vs) : sl[i] # 0
        /\ \A i \in 1 .. left : sl[Len(vs) + i] = 0
    <3>1. \A i \in 1 .. Len(vs) : vs[i] \in VisibleOf(b)
      BY <1>2
    <3>2. \A i \in VisibleOf(b) : i # 0
      BY <1>3 DEF VisibleOf
    <3> QED
      BY <2>1, <2>2, <3>1, <3>2
  <2>4. k \in 1 .. Len(sl) /\ sl[k] = 0 /\ k \in Nat
    BY <2>1, <2>2, <2>3
  <2>5. {j \in 1 .. k - 1 : sl[j] = 0} = (Len(vs) + 1) .. (k - 1)
    <3>1. ASSUME NEW j \in 1 .. k - 1 PROVE sl[j] = 0 <=> j >= Len(vs) + 1
      <4>1. CASE j <= Len(vs)
        BY <2>1, <2>3, <4>1
      <4>2. CASE j > Len(vs)
        <5>1. j - Len(vs) \in 1 .. left /\ Len(vs) + (j - Len(vs)) = j
          BY <2>1, <4>2
        <5>2. sl[Len(vs) + (j - Len(vs))] = 0
          BY <2>3, <5>1
        <5> QED
          BY <2>1, <4>2, <5>1, <5>2
      <4> QED
        BY <2>1, <4>1, <4>2
    <3> HIDE DEF k
    <3> QED
      BY <2>1, <2>4, <3>1
  <2>6. Cardinality((Len(vs) + 1) .. (k - 1)) = left - 1
    <3>1. (Len(vs) + 1) \in Int /\ k - 1 \in Int /\ (k - 1) - (Len(vs) + 1) + 1 = left - 1
          /\ (Len(vs) + 1 <= k - 1 \/ left - 1 = 0)
      BY <2>1
    <3> DEFINE x == Len(vs) + 1
               y == k - 1
    <3>2. Cardinality(x .. y) = IF x > y THEN 0 ELSE y - x + 1
      <4> HIDE DEF x, y
      <4>1. x \in Int /\ y \in Int
        BY <3>1 DEF x, y
      <4> QED
        BY <4>1, FS_Interval
    <3> QED
      BY <2>1, <3>1, <3>2
  <2>7. SlotsBefore(b, sl, k) = before + (left - 1)
    <3> HIDE DEF k, left, before
    <3> QED
      BY <2>4, <2>5, <2>6 DEF SlotsBefore, before
  <2>8. SlotsBefore(b, sl, k) = span - 1
    BY <1>2, <1>3, <2>7
  <2>9. k \in 1 .. Len(sl) /\ (sl[k] = 0 \/ (sl[k] \in 1 .. N /\ b.segs[sl[k]].kind = "delayed"))
    BY <2>4
  <2> HIDE DEF k, msgs, span, N
  <2> QED
    BY <1>6, <2>8, <2>9
<1>8. CASE ~ (span > before)
  <2>1. before = Upto(D, N)
    <3>1. N \in 0 .. N
      BY <1>3
    <3> QED
      BY <1>5, <3>1
  <2>2. span \in 1 .. Upto(D, N)
    BY <1>2, <1>3, <1>8, <2>1
  <2>3. PICK i \in 1 .. N : i \in D /\ Upto(D, i) = span
    <3> HIDE DEF D, N, span
    <3> QED
      BY <1>3, <2>2, UptoReaches
  <2>4. DelayedBefore(b, i) = span - 1
    <3>1. i - 1 \in Nat /\ i - 1 \in 0 .. N /\ (i - 1) + 1 = i
      BY <1>3
    <3>2. /\ Upto(D, (i - 1) + 1) = Upto(D, i - 1) + (IF (i - 1) + 1 \in D THEN 1 ELSE 0)
          /\ Upto(D, i - 1) \in Nat
      BY <3>1, UptoIs
    <3>3. DelayedBefore(b, (i - 1) + 1) = Upto(D, i - 1)
      BY <1>5, <3>1
    <3> HIDE DEF span, D
    <3> QED
      BY <1>2, <2>3, <3>1, <3>2, <3>3
  <2>5. i \in VisibleOf(b) /\ b.segs[i].kind = "delayed"
    BY <1>3, <2>3 DEF VisibleOf, DelayedOf, Visible, Item
  <2>6. PICK k \in 1 .. Len(vs) : vs[k] = i
    BY <1>2, <2>5
  <2>7. k \in 1 .. Len(sl) /\ sl[k] = i
    <3>1. zs = <<>>
      <4> DEFINE left == span - before
      <4>1. left \in Int /\ ~ (left > 0)
        <5>1. span \in Nat /\ before \in Nat
          BY <1>2, <1>3
        <5> HIDE DEF span, before
        <5> QED
          BY ONLY <1>8, <5>1
      <4> HIDE DEF left
      <4>2. 1 .. left = {}
        BY ONLY <4>1
      <4>3. [j \in 1 .. left |-> 0] = <<>>
        BY ONLY <4>2
      <4> QED
        BY <4>3 DEF Surplus, left
    <3>2. vs \o <<>> = vs
      BY <1>2
    <3> HIDE DEF vs, zs, sl
    <3>3. sl = vs
      BY <1>2, <3>1, <3>2
    <3> QED
      BY <2>6, <3>3
  <2>8. SlotsBefore(b, sl, k) = span - 1
    <3>1. i # 0
      BY <1>3
    <3> HIDE DEF sl, span
    <3> QED
      BY <2>4, <2>7, <3>1 DEF SlotsBefore
  <2>9. sl[k] = 0 \/ (sl[k] \in 1 .. N /\ b.segs[sl[k]].kind = "delayed")
    BY <2>5, <2>7
  <2> HIDE DEF sl, span, msgs, N
  <2> QED
    BY <1>6, <2>7, <2>8, <2>9
<1> QED
  BY <1>7, <1>8

\* A window comes out whole only if the delayed messages that it reads are known.
LEMMA WindowKnown ==
  ASSUME NEW bs \in Seq(Batches), NEW read \in Nat, NEW known,
         Makes(bs, read) \in [1 .. Len(bs) -> Seq(Handed(known))],
         NEW k \in 1 .. Len(bs), OwnFirst(bs[k].segs), bs[k].after > ReadsFrom(bs, read, k)
  PROVE  bs[k].after - 1 \in known
<1> DEFINE b == bs[k]
           r == ReadsFrom(bs, read, k)
           msgs == SlotMessages(b, r, Slots(b, r))
<1>1. b \in Batches /\ r \in Nat /\ b.after \in Nat
  BY SpanTyped, BatchTyped
<1>2. msgs \in Seq(Handed(known))
  <2>1. Makes(bs, read)[k] \in Seq(Handed(known))
    OBVIOUS
  <2>2. Makes(bs, read)[k] = msgs
    BY DEF Makes
  <2> QED
    BY <2>1, <2>2, Zenon
<1>3. Span(b, r) > 0
  <2>1. b.after > r
    OBVIOUS
  <2> HIDE DEF b, r
  <2> QED
    BY <1>1, <2>1 DEF Span
<1>4. OwnFirst(b.segs)
  OBVIOUS
<1> HIDE DEF b, r
<1>5. PICK j \in 1 .. Len(msgs) : msgs[j].kind = "delayed" /\ msgs[j].id[1] = b.after - 1
  BY <1>1, <1>3, <1>4, LastRead
<1>6. msgs[j] \in Handed(known)
  <2> HIDE DEF msgs
  <2> QED
    BY <1>2, ElementsOf
<1> QED
  BY <1>5, <1>6 DEF Handed, b

(***************************************************************************)
(* L1 while it only grows.                                                 *)
(***************************************************************************)

Undisturbed == used.reorgs = 0 /\ used.rereads = 0 /\ used.crashes = 0

\* A batch was posted on the first delayed messages of L1.
Posted ==
  \A k \in 1 .. Len(l1.batches) :
    /\ l1.batches[k].after <= Len(l1.delayed)
    /\ l1.batches[k].delayedAcc = DelayedAcc(l1.batches[k].after)

\* t is s with more at its end.
Continued(s, t) ==
  /\ Len(s) <= Len(t)
  /\ \A i \in 1 .. Len(s) : t[i] = s[i]
  /\ \A i \in 0 .. Len(s) : SubSeq(t, 1, i) = SubSeq(s, 1, i)

LEMMA AppendContinues ==
  ASSUME NEW S, NEW s \in Seq(S), NEW e \in S
  PROVE  Continued(s, Append(s, e)) /\ Continued(s, s)
<1>1. /\ Append(s, e) \in Seq(S) /\ Len(Append(s, e)) = Len(s) + 1 /\ Len(s) \in Nat
      /\ \A i \in 1 .. Len(s) + 1 : Append(s, e)[i] = IF i <= Len(s) THEN s[i] ELSE e
  BY AppendedAt, ElementsOf
<1> DEFINE t == Append(s, e)
<1>2. \A i \in 1 .. Len(s) : t[i] = s[i]
  BY <1>1
<1> HIDE DEF t
<1>3. ASSUME NEW i \in 0 .. Len(s) PROVE SubSeq(t, 1, i) = SubSeq(s, 1, i)
  <2>1. /\ SubSeq(t, 1, i) \in Seq(S) /\ Len(SubSeq(t, 1, i)) = i
        /\ \A j \in 1 .. i : SubSeq(t, 1, i)[j] = t[j]
    <3>1. t \in Seq(S) /\ i \in 0 .. Len(t)
      BY <1>1 DEF t
    <3> QED
      BY <3>1, BeginningOf
  <2>2. /\ SubSeq(s, 1, i) \in Seq(S) /\ Len(SubSeq(s, 1, i)) = i
        /\ \A j \in 1 .. i : SubSeq(s, 1, i)[j] = s[j]
    BY BeginningOf
  <2>3. \A j \in 1 .. i : t[j] = s[j]
    BY <1>1, <1>2
  <2> QED
    BY <2>1, <2>2, <2>3, SameSequence
<1>4. Len(s) <= Len(t)
  BY <1>1 DEF t
<1> QED
  BY <1>1, <1>2, <1>3, <1>4 DEF Continued, t

\* What a message or a batch that is posted leaves: all that was there, and batches
\* that were posted on it.
LEMMA L1Grows ==
  ASSUME L1Typed, Posted,
         \/ \E body \in Bodies : L1Delayed(body)
         \/ \E segs \in Contents, after \in 0 .. MaxDelayed : L1Batch(segs, after)
  PROVE  /\ Continued(l1.delayed, l1'.delayed) /\ Continued(l1.batches, l1'.batches)
         /\ Posted'
<1>1. /\ l1.delayed \in Seq(Bodies) /\ l1.batches \in Seq(Batches)
      /\ l1 = [delayed |-> l1.delayed, batches |-> l1.batches]
      /\ Len(l1.delayed) \in Nat /\ Len(l1.batches) \in Nat /\ Len(l1.delayed) <= MaxDelayed
      /\ \A k \in 1 .. Len(l1.batches) : l1.batches[k] \in Batches
  BY Bounds DEF L1Typed
<1>2. \A k \in 1 .. Len(l1.batches) :
        l1.batches[k].after \in 0 .. Len(l1.delayed) /\ l1.batches[k].after \in Nat
  <2>1. ASSUME NEW k \in 1 .. Len(l1.batches) PROVE l1.batches[k].after \in Nat
    BY <1>1, BatchTyped
  <2> QED
    BY <1>1, <2>1 DEF Posted
<1>3. ASSUME NEW body \in Bodies, L1Delayed(body)
      PROVE  Continued(l1.delayed, l1'.delayed) /\ Continued(l1.batches, l1'.batches) /\ Posted'
  <2> DEFINE more == Append(l1.delayed, body)
  <2>1. l1'.delayed = more /\ l1'.batches = l1.batches
    <3>1. l1' = [l1 EXCEPT !.delayed = more]
      BY <1>3 DEF L1Delayed
    <3> HIDE DEF more
    <3> QED
      BY <1>1, <3>1
  <2>2. Continued(l1.delayed, more)
    BY <1>1, AppendContinues
  <2>3. Continued(l1.batches, l1.batches)
    BY <1>1 DEF Continued
  <2> HIDE DEF more
  <2>4. ASSUME NEW k \in 1 .. Len(l1.batches)
        PROVE  /\ l1.batches[k].after <= Len(more)
               /\ l1.batches[k].delayedAcc = SubSeq(more, 1, l1.batches[k].after)
    <3>1. SubSeq(more, 1, l1.batches[k].after) = SubSeq(l1.delayed, 1, l1.batches[k].after)
      BY <1>2, <2>2 DEF Continued
    <3>2. Len(l1.delayed) <= Len(more) /\ Len(more) = Len(l1.delayed) + 1
      BY <1>1, AppendedAt DEF more
    <3> QED
      BY <1>1, <1>2, <3>1, <3>2 DEF Posted, DelayedAcc
  <2>5. Posted'
    BY <2>1, <2>4 DEF Posted, DelayedAcc
  <2> QED
    BY <2>1, <2>2, <2>3, <2>5
<1>4. ASSUME NEW segs \in Contents, NEW after \in 0 .. MaxDelayed, L1Batch(segs, after)
      PROVE  Continued(l1.delayed, l1'.delayed) /\ Continued(l1.batches, l1'.batches) /\ Posted'
  <2> DEFINE new == [id |-> Len(l1.batches), segs |-> segs, after |-> after,
                     delayedAcc |-> DelayedAcc(after)]
             more == Append(l1.batches, new)
  <2>1. l1'.batches = more /\ l1'.delayed = l1.delayed
    <3>1. l1' = [l1 EXCEPT !.batches = more]
      BY <1>4 DEF L1Batch
    <3> HIDE DEF more
    <3> QED
      BY <1>1, <3>1
  <2>2. after \in 0 .. Len(l1.delayed)
    BY <1>4 DEF L1Batch
  <2>3. new \in Batches /\ new.after = after /\ new.delayedAcc = DelayedAcc(after)
    <3>1. DelayedAcc(after) \in Seq(Bodies)
      BY <1>1, <2>2, BeginningOf DEF DelayedAcc
    <3> QED
      BY <1>1, <3>1 DEF Batches
  <2> HIDE DEF new
  <2>4. /\ Continued(l1.batches, more) /\ Len(more) = Len(l1.batches) + 1
        /\ \A i \in 1 .. Len(l1.batches) + 1 : more[i] = IF i <= Len(l1.batches) THEN l1.batches[i] ELSE new
    BY <1>1, <2>3, AppendContinues, AppendedAt
  <2>5. Continued(l1.delayed, l1.delayed)
    BY <1>1 DEF Continued
  <2> HIDE DEF more
  <2>6. ASSUME NEW k \in 1 .. Len(more)
        PROVE  /\ more[k].after <= Len(l1.delayed)
               /\ more[k].delayedAcc = SubSeq(l1.delayed, 1, more[k].after)
    <3>1. CASE k <= Len(l1.batches)
      <4>1. k \in 1 .. Len(l1.batches) /\ more[k] = l1.batches[k]
        BY <1>1, <2>4, <3>1
      <4> QED
        BY <4>1 DEF Posted, DelayedAcc
    <3>2. CASE k > Len(l1.batches)
      <4>1. more[k] = new
        BY <1>1, <2>4, <3>2
      <4> QED
        BY <1>1, <2>2, <2>3, <4>1 DEF DelayedAcc
    <3> QED
      BY <1>1, <3>1, <3>2
  <2>7. Posted'
    BY <2>1, <2>6 DEF Posted, DelayedAcc
  <2> QED
    BY <2>1, <2>4, <2>5, <2>7
<1> QED
  BY <1>3, <1>4

\* A message with its content, where it is a delayed one.
Content(m, bodies) ==
  IF m.kind = "delayed" THEN [m EXCEPT !.id = <<bodies[m.id[1]]>>] ELSE m

LEMMA ResolvedAt ==
  ASSUME NEW known, NEW bodies \in [known -> Bodies], NEW out \in Seq(Handed(known))
  PROVE  /\ Resolved(out, bodies) \in Seq(Entries) /\ Len(Resolved(out, bodies)) = Len(out)
         /\ \A k \in 1 .. Len(out) : Resolved(out, bodies)[k] = Content(out[k], bodies)
<1>1. Resolved(out, bodies) \in Seq(Entries) /\ Len(Resolved(out, bodies)) = Len(out)
  BY ResolvedIs
<1>2. \A k \in 1 .. Len(out) : Resolved(out, bodies)[k] = Content(out[k], bodies)
  BY DEF Resolved, Content
<1> QED
  BY <1>1, <1>2

\* Delayed messages keep their content when more of them are known.
Extends(grown, more, bodies, known) == \A i \in known : i \in more /\ grown[i] = bodies[i]

LEMMA ResolvedSame ==
  ASSUME NEW known, NEW more, NEW bodies \in [known -> Bodies], NEW grown \in [more -> Bodies],
         Extends(grown, more, bodies, known), NEW out \in Seq(Handed(known))
  PROVE  out \in Seq(Handed(more)) /\ Resolved(out, grown) = Resolved(out, bodies)
<1>1. Handed(known) \subseteq Handed(more)
  BY DEF Handed, Extends
<1>2. out \in Seq(Handed(more))
  BY <1>1, SeqWiden
<1>3. Len(out) \in Nat /\ \A k \in 1 .. Len(out) : out[k] \in Handed(known)
  BY ElementsOf
<1>4. ASSUME NEW k \in 1 .. Len(out) PROVE Content(out[k], grown) = Content(out[k], bodies)
  <2>1. out[k].kind = "delayed" => grown[out[k].id[1]] = bodies[out[k].id[1]]
    BY <1>3 DEF Handed, Extends
  <2> QED
    BY <2>1 DEF Content
<1>5. /\ Resolved(out, grown) \in Seq(Entries) /\ Len(Resolved(out, grown)) = Len(out)
      /\ Resolved(out, bodies) \in Seq(Entries) /\ Len(Resolved(out, bodies)) = Len(out)
      /\ \A k \in 1 .. Len(out) : Resolved(out, grown)[k] = Content(out[k], grown)
      /\ \A k \in 1 .. Len(out) : Resolved(out, bodies)[k] = Content(out[k], bodies)
  BY <1>2, ResolvedAt
<1>6. \A k \in 1 .. Len(out) : Resolved(out, grown)[k] = Resolved(out, bodies)[k]
  BY <1>4, <1>5
<1>7. Resolved(out, grown) = Resolved(out, bodies)
  BY <1>5, <1>6, SameSequence
<1> QED
  BY <1>2, <1>7

LEMMA ResolvedConcat ==
  ASSUME NEW known, NEW bodies \in [known -> Bodies],
         NEW s \in Seq(Handed(known)), NEW t \in Seq(Handed(known))
  PROVE  /\ s \o t \in Seq(Handed(known))
         /\ Resolved(s \o t, bodies) = Resolved(s, bodies) \o Resolved(t, bodies)
<1> DEFINE rs == Resolved(s, bodies)
           rt == Resolved(t, bodies)
           rst == Resolved(s \o t, bodies)
           gives(m) == Content(m, bodies)
<1>1. /\ s \o t \in Seq(Handed(known)) /\ Len(s \o t) = Len(s) + Len(t)
      /\ Len(s) \in Nat /\ Len(t) \in Nat
      /\ \A k \in 1 .. Len(s \o t) : (s \o t)[k] = IF k <= Len(s) THEN s[k] ELSE t[k - Len(s)]
  BY ConcatIs, ConcatAt
<1>2. /\ rs \in Seq(Entries) /\ Len(rs) = Len(s) /\ \A k \in 1 .. Len(s) : rs[k] = gives(s[k])
      /\ rt \in Seq(Entries) /\ Len(rt) = Len(t) /\ \A k \in 1 .. Len(t) : rt[k] = gives(t[k])
      /\ rst \in Seq(Entries) /\ Len(rst) = Len(s \o t)
      /\ \A k \in 1 .. Len(s \o t) : rst[k] = gives((s \o t)[k])
  BY <1>1, ResolvedAt
<1>3. /\ rs \o rt \in Seq(Entries) /\ Len(rs \o rt) = Len(rs) + Len(rt)
      /\ \A k \in 1 .. Len(rs \o rt) : (rs \o rt)[k] = IF k <= Len(rs) THEN rs[k] ELSE rt[k - Len(rs)]
  <2>1. rs \in Seq(Entries) /\ rt \in Seq(Entries)
    BY <1>2
  <2> HIDE DEF rs, rt
  <2> QED
    BY ONLY <2>1, ConcatIs, ConcatAt
<1> HIDE DEF rs, rt, rst, gives
<1>4. ASSUME NEW k \in 1 .. Len(rst) PROVE rst[k] = (rs \o rt)[k]
  <2>1. k \in 1 .. Len(s \o t) /\ k \in 1 .. Len(rs \o rt)
    BY <1>1, <1>2, <1>3
  <2>2. CASE k <= Len(s)
    BY <1>1, <1>2, <1>3, <2>1, <2>2
  <2>3. CASE k > Len(s)
    <3>1. k - Len(s) \in 1 .. Len(t) /\ ~ (k <= Len(s))
      BY <1>1, <2>1, <2>3
    <3> QED
      BY <1>1, <1>2, <1>3, <2>1, <3>1
  <2>4. k <= Len(s) \/ k > Len(s)
    BY <1>1, <2>1
  <2> QED
    BY ONLY <2>2, <2>3, <2>4
<1>5. rst = rs \o rt
  BY <1>1, <1>2, <1>3, <1>4, SameSequence
<1> QED
  BY <1>1, <1>5 DEF rs, rt, rst

(***************************************************************************)
(* What is recorded mirrors L1: l is what L1 holds, d what the keys hold.  *)
(***************************************************************************)

MirrorsDelayed(d, l) ==
  /\ d[DelayedCount] <= Len(l.delayed)
  /\ \A i \in Positions :
       i < d[DelayedCount] =>
         d[Delayed(i)] = [before |-> SubSeq(l.delayed, 1, i), body |-> l.delayed[i + 1]]

MirrorsBatches(d, l) ==
  /\ d[BatchCount] <= Len(l.batches)
  /\ \A n \in Numbers : n < d[BatchCount] => d[Meta(n)].acc = SubSeq(l.batches, 1, n + 1)

Mirrors(d, l) == MirrorsDelayed(d, l) /\ MirrorsBatches(d, l)

\* It still does when there is more on L1.
LEMMA MirrorsMore ==
  ASSUME NEW d, IsStore(d), NEW l, NEW more, Len(l.delayed) \in Nat, Len(l.batches) \in Nat,
         Len(more.delayed) \in Nat, Len(more.batches) \in Nat,
         Continued(l.delayed, more.delayed), Continued(l.batches, more.batches), Mirrors(d, l)
  PROVE  Mirrors(d, more)
<1>1. d[DelayedCount] \in Nat /\ d[BatchCount] \in Nat
  <2>1. d[DelayedCount] \in 0 .. MaxDelayed /\ d[BatchCount] \in 0 .. MaxBatches
    BY KeysAre DEF IsStore, MayHold
  <2> QED
    BY <2>1
<1>2. MirrorsDelayed(d, more)
  <2>1. d[DelayedCount] <= Len(more.delayed)
    BY <1>1 DEF Mirrors, MirrorsDelayed, Continued
  <2>2. ASSUME NEW i \in Positions, i < d[DelayedCount]
        PROVE  d[Delayed(i)] = [before |-> SubSeq(more.delayed, 1, i), body |-> more.delayed[i + 1]]
    <3>1. i \in 0 .. Len(l.delayed) /\ i + 1 \in 1 .. Len(l.delayed)
      <4> DEFINE dc == d[DelayedCount]
                 len == Len(l.delayed)
      <4>1. dc <= len /\ dc \in Nat /\ len \in Nat /\ i < dc /\ i \in Nat
        BY <1>1, <2>2, Bounds DEF Mirrors, MirrorsDelayed
      <4> HIDE DEF dc, len
      <4> QED
        BY ONLY <4>1 DEF len
    <3>2. SubSeq(more.delayed, 1, i) = SubSeq(l.delayed, 1, i) /\ more.delayed[i + 1] = l.delayed[i + 1]
      BY <3>1 DEF Continued
    <3> QED
      BY <2>2, <3>2 DEF Mirrors, MirrorsDelayed
  <2> QED
    BY <2>1, <2>2 DEF MirrorsDelayed
<1>3. MirrorsBatches(d, more)
  <2>1. d[BatchCount] <= Len(more.batches)
    BY <1>1 DEF Mirrors, MirrorsBatches, Continued
  <2>2. ASSUME NEW n \in Numbers, n < d[BatchCount]
        PROVE  d[Meta(n)].acc = SubSeq(more.batches, 1, n + 1)
    <3>1. n + 1 \in 0 .. Len(l.batches)
      BY <1>1, <2>2, Bounds DEF Mirrors, MirrorsBatches
    <3>2. SubSeq(more.batches, 1, n + 1) = SubSeq(l.batches, 1, n + 1)
      BY <3>1 DEF Continued
    <3> QED
      BY <2>2, <3>2 DEF Mirrors, MirrorsBatches
  <2> QED
    BY <2>1, <2>2 DEF MirrorsBatches
<1> QED
  BY <1>2, <1>3 DEF Mirrors

\* Messages that are read for the first time come after those that are stored, so no
\* batch is rolled back.
LEMMA AddDelayedNew ==
  ASSUME L1Typed, StoreTyped, RecordsGood(db), Undisturbed, Undisturbed',
         UsedTyped, NEW first \in Positions, NEW last \in Positions, AddDelayed(first, last)
  PROVE  first = db[DelayedCount] /\ FirstSequenced(first) = {}
<1>1. db[DelayedCount] \in Nat /\ first \in Nat /\ first \in 0 .. MaxDelayed
  BY StoredValues, Bounds
<1>2. ~ (first < db[DelayedCount])
  <2>1. used.rereads = 0 /\ used'.rereads = 0
    BY DEF Undisturbed
  <2>2. Reread(first)
    BY DEF AddDelayed
  <2>3. ASSUME first < db[DelayedCount] PROVE FALSE
    <3>1. used' = [used EXCEPT !.rereads = used.rereads + 1] /\ used.rereads < MaxRereads
      BY <2>2, <2>3 DEF Reread
    <3>2. used'.rereads = 1
      BY <2>1, <3>1 DEF UsedTyped
    <3> QED
      BY <2>1, <3>1, <3>2
  <2> QED
    BY <2>3
<1>3. ~ (first > db[DelayedCount])
  <2>1. ASSUME first > db[DelayedCount] PROVE FALSE
    <3>1. first > 0 /\ Follows(first)
      BY <1>1, <2>1 DEF AddDelayed
    <3>2. first - 1 \in Positions /\ db[Delayed(first - 1)] # Absent
      BY <3>1 DEF Follows, HasDelayed
    <3>3. first - 1 < db[DelayedCount]
      BY <3>2 DEF RecordsGood, DelayedGood, DelayedIn
    <3> QED
      BY <1>1, <2>1, <3>3
  <2> QED
    BY <2>1
<1>4. first = db[DelayedCount]
  BY <1>1, <1>2, <1>3
<1>5. ASSUME NEW n \in FirstSequenced(first) PROVE FALSE
  <2>1. PICK c \in first + 1 .. MaxDelayed : db[Sequenced(c)] = n /\ n \in Numbers
    BY <1>1, FirstSequencedIs
  <2>2. c \in 1 .. MaxDelayed /\ c > first
    BY <1>1, <2>1, Bounds
  <2> DEFINE D == DelayedIn(db)
             M == MetaIn(db)
             S == SequencedIn(db)
             dc == db[DelayedCount]
             bc == db[BatchCount]
  <2>3. /\ RecordsTyped(D, dc, M, bc, S)
        /\ MetasGood(D, dc, M, bc) /\ SequencedGood(M, bc, S) /\ S[c] = n
    <3>1. IsStore(db)
      BY DEF StoreTyped, IsStore
    <3>2. S[c] = n
      BY <2>1, <2>2 DEF SequencedIn
    <3> QED
      BY <3>1, <3>2, StoreRecordsTyped DEF RecordsGood
  <2> HIDE DEF D, M, S, dc, bc
  <2>4. n < bc /\ M[n].delayed = c
    BY <2>1, <2>2, <2>3 DEF SequencedGood, ReachedBy
  <2>5. M[n].delayed = M[n].acc[n + 1].after /\ Rests(D, dc, M[n].acc[n + 1])
    BY <2>1, <2>3, <2>4, RecordedIs
  <2>6. c <= dc
    BY <2>4, <2>5 DEF Rests
  <2> QED
    BY <1>1, <1>4, <2>2, <2>6 DEF dc
<1> QED
  BY <1>4, <1>5

\* P holds the messages of l from first on.
HoldsL1(P, first, count, l) ==
  \A i \in first .. count - 1 :
    P[i] = [before |-> SubSeq(l.delayed, 1, i), body |-> l.delayed[i + 1]]

\* Messages of L1 are stored after those that are there, and no batch goes.
LEMMA SetsDelayedMirrors ==
  ASSUME NEW d, IsStore(d), RecordsGood(d),
         NEW count \in 0 .. MaxDelayed, d[DelayedCount] <= count, NEW P,
         NEW w, Sound(w), SetsDelayed(w, d[DelayedCount], count, P, d[BatchCount]),
         NEW l, Mirrors(d, l), count <= Len(l.delayed), HoldsL1(P, d[DelayedCount], count, l)
  PROVE  /\ Mirrors(Result(w, d), l) /\ Result(w, d)[BatchCount] = d[BatchCount]
         /\ \A n \in Numbers : n < d[BatchCount] => Result(w, d)[Meta(n)] = d[Meta(n)]
<1> DEFINE first == d[DelayedCount]
           kept == d[BatchCount]
           r == Result(w, d)
<1>8. first \in 0 .. MaxDelayed /\ kept \in 0 .. MaxBatches
  BY KeysAre DEF IsStore, MayHold
<1> HIDE DEF first, kept
<1>1. /\ kept <= d[BatchCount]
      /\ \/ kept = d[BatchCount]
         \/ Writes(w, BatchCount) /\ \A n \in kept .. MaxBatches - 1 : Writes(w, Meta(n))
  BY <1>8, Bounds DEF kept
<1>0. IsStore(d) /\ RecordsGood(d) /\ Sound(w) /\ SetsDelayed(w, first, count, P, kept) /\ first <= count
      /\ first \in 0 .. MaxDelayed /\ count \in 0 .. MaxDelayed /\ kept \in 0 .. MaxBatches
  BY <1>8 DEF first, kept
<1>2. /\ r[DelayedCount] = count /\ r[BatchCount] = kept
      /\ \A i \in Positions :
           /\ i < first => r[Delayed(i)] = d[Delayed(i)]
           /\ i \in first .. count - 1 => r[Delayed(i)] = P[i]
           /\ i >= count => r[Delayed(i)] = Absent
      /\ \A n \in Numbers : r[Meta(n)] = IF n < kept THEN d[Meta(n)] ELSE Absent
      /\ \A c \in 1 .. MaxDelayed : r[Sequenced(c)] = IF c <= first THEN d[Sequenced(c)] ELSE Absent
  BY ONLY <1>0, <1>1, SetsDelayedResult
<1> HIDE DEF r
<1>3. ASSUME NEW i \in Positions, i < count
      PROVE  r[Delayed(i)] = [before |-> SubSeq(l.delayed, 1, i), body |-> l.delayed[i + 1]]
  <2>1. CASE i < first
    BY <1>2, <2>1 DEF Mirrors, MirrorsDelayed, first
  <2>2. CASE ~ (i < first)
    <3>1. i \in first .. count - 1
      BY <1>3, <1>8, <2>2, Bounds
    <3> QED
      BY <1>2, <3>1 DEF HoldsL1, first
  <2> QED
    BY <2>1, <2>2
<1>4. MirrorsDelayed(r, l)
  BY <1>2, <1>3 DEF MirrorsDelayed
<1>5. MirrorsBatches(r, l)
  BY <1>2 DEF Mirrors, MirrorsBatches, kept
<1> QED
  BY <1>2, <1>4, <1>5 DEF Mirrors, r, kept

LEMMA AddDelayedMirrors ==
  ASSUME L1Typed, StoreTyped, UsedTyped, RecordsGood(db), Mirrors(db, l1),
         Undisturbed, Undisturbed',
         NEW first \in Positions, NEW last \in Positions, AddDelayed(first, last)
  PROVE  /\ Mirrors(Result(todo', db), l1)
         /\ Result(todo', db)[BatchCount] = db[BatchCount]
         /\ \A n \in Numbers : n < db[BatchCount] => Result(todo', db)[Meta(n)] = db[Meta(n)]
<1> DEFINE val(i) == [before |-> DelayedAcc(i), body |-> l1.delayed[i + 1]]
           P == [i \in Positions |-> val(i)]
           count == last + 1
           bc == db[BatchCount]
           puts == DelayedPuts(first, last)
           w == DelayedWrites(first, count, puts)
           r == Result(w, db)
<1>1. first = db[DelayedCount] /\ FirstSequenced(first) = {}
  BY AddDelayedNew
<1>2. /\ first <= last /\ last < Len(l1.delayed)
      /\ todo' = w
  BY <1>1 DEF AddDelayed, SetDelayedCount
<1>3. /\ first \in 0 .. MaxDelayed /\ count \in 0 .. MaxDelayed /\ first <= count
      /\ first .. count - 1 = first .. last /\ first \in Nat /\ last \in Nat
      /\ Len(l1.delayed) \in Nat /\ bc \in 0 .. MaxBatches /\ bc <= bc
  BY <1>2, StoredValues, Bounds DEF L1Typed
<1>4. \A i \in first .. last : i \in Positions /\ P[i] = val(i)
  BY <1>3, Bounds
<1>5. Sound(puts) /\ Ops(puts) = {[key |-> Delayed(i), val |-> P[i]] : i \in first .. count - 1}
  <2>1. /\ Sound(puts)
        /\ Ops(puts) = {[key |-> Delayed(i), val |-> val(i)] : i \in first .. last}
    BY <1>2, DelayedPutsSound
  <2> HIDE DEF P, val, puts, count
  <2>2. {[key |-> Delayed(i), val |-> val(i)] : i \in first .. last} =
          {[key |-> Delayed(i), val |-> P[i]] : i \in first .. last}
    BY <1>4
  <2> QED
    BY <1>3, <2>1, <2>2
<1>6. Sound(w)
  BY <1>3, <1>5, DelayedWritesSound
<1> HIDE DEF P, puts
<1>7. SetsDelayed(w, first, count, P, bc)
  <2> HIDE DEF count, bc
  <2> QED
    BY <1>3, <1>5, DelayedWritesSet
<1>8. IsStore(db)
  BY DEF StoreTyped, IsStore
<1> HIDE DEF w
<1>9. HoldsL1(P, first, count, l1)
  BY <1>3, <1>4 DEF DelayedAcc, HoldsL1
<1>10. count <= Len(l1.delayed) /\ bc = db[BatchCount]
  BY <1>2, <1>3
<1> HIDE DEF count, bc, r
<1>11. /\ Mirrors(Result(w, db), l1) /\ Result(w, db)[BatchCount] = bc
       /\ \A n \in Numbers : n < bc => Result(w, db)[Meta(n)] = db[Meta(n)]
  <2>1. /\ IsStore(db) /\ RecordsGood(db) /\ Sound(w) /\ Mirrors(db, l1)
        /\ SetsDelayed(w, db[DelayedCount], count, P, db[BatchCount])
        /\ db[DelayedCount] <= count /\ count \in 0 .. MaxDelayed
        /\ count <= Len(l1.delayed) /\ HoldsL1(P, db[DelayedCount], count, l1)
    BY <1>1, <1>3, <1>6, <1>7, <1>8, <1>9, <1>10
  <2>2. /\ Mirrors(Result(w, db), l1) /\ Result(w, db)[BatchCount] = db[BatchCount]
        /\ \A n \in Numbers : n < db[BatchCount] => Result(w, db)[Meta(n)] = db[Meta(n)]
    BY ONLY <2>1, SetsDelayedMirrors
  <2> QED
    BY <1>10, <2>2
<1> QED
  BY <1>2, <1>10, <1>11

(***************************************************************************)
(* The log stands for the batches of L1 that are recorded.                 *)
(***************************************************************************)

OnL1(l) == 0 .. Len(l.delayed) - 1
BodiesOf(l) == [i \in OnL1(l) |-> l.delayed[i + 1]]

\* The log is what the first count batches of l make.
StandsFor(log, count, l) ==
  /\ \A k \in 1 .. count : Makes(l.batches, 0)[k] \in Seq(Handed(OnL1(l)))
  /\ log = Resolved(FlattenSeq(First(Makes(l.batches, 0), count)), BodiesOf(l))

LEMMA BodiesTyped ==
  ASSUME NEW l, l.delayed \in Seq(Bodies)
  PROVE  BodiesOf(l) \in [OnL1(l) -> Bodies]
<1>1. \A i \in OnL1(l) : i + 1 \in 1 .. Len(l.delayed)
  BY DEF OnL1
<1>2. \A i \in OnL1(l) : l.delayed[i + 1] \in Bodies
  BY <1>1, ElementsOf
<1> QED
  BY <1>2 DEF BodiesOf

LEMMA MakesMore ==
  ASSUME NEW bs \in Seq(Batches), NEW more \in Seq(Batches), Continued(bs, more),
         NEW k \in 1 .. Len(bs), NEW read
  PROVE  /\ k \in 1 .. Len(more)
         /\ ReadsFrom(more, read, k) = ReadsFrom(bs, read, k)
         /\ Makes(more, read)[k] = Makes(bs, read)[k]
<1>1. Len(bs) \in Nat /\ Len(more) \in Nat
  BY ElementsOf
<1>2. k \in 1 .. Len(more) /\ more[k] = bs[k]
  BY <1>1 DEF Continued
<1>3. k # 1 => k - 1 \in 1 .. Len(bs) /\ more[k - 1] = bs[k - 1]
  BY <1>1 DEF Continued
<1>4. ReadsFrom(more, read, k) = ReadsFrom(bs, read, k)
  BY <1>3 DEF ReadsFrom
<1>5. Makes(more, read)[k] = Makes(bs, read)[k]
  BY <1>2, <1>4 DEF Makes
<1> QED
  BY <1>2, <1>4, <1>5

\* It still does when there is more on L1.
LEMMA StandsForMore ==
  ASSUME NEW log, NEW count \in Nat, NEW l, NEW more, l.delayed \in Seq(Bodies), more.delayed \in Seq(Bodies),
         l.batches \in Seq(Batches), more.batches \in Seq(Batches), count <= Len(l.batches),
         Continued(l.delayed, more.delayed), Continued(l.batches, more.batches),
         StandsFor(log, count, l)
  PROVE  StandsFor(log, count, more)
<1> DEFINE g == Makes(l.batches, 0)
           h == Makes(more.batches, 0)
           K == OnL1(l)
           J == OnL1(more)
<1>1. \A k \in 1 .. count : k \in 1 .. Len(l.batches) /\ h[k] = g[k] /\ g[k] \in Seq(Handed(K))
  <2>1. \A k \in 1 .. count : k \in 1 .. Len(l.batches)
    <3>1. Len(l.batches) \in Nat
      BY ElementsOf
    <3> QED
      BY <3>1
  <2> QED
    BY <2>1, MakesMore DEF StandsFor
<1> HIDE DEF g, h
<1>2. First(h, count) = First(g, count) /\ First(g, count) \in [1 .. count -> Seq(Handed(K))]
  BY <1>1 DEF First
<1>3. FlattenSeq(First(g, count)) \in Seq(Handed(K))
  BY <1>2, FlattenType
<1>4. /\ BodiesOf(l) \in [K -> Bodies] /\ BodiesOf(more) \in [J -> Bodies]
      /\ \A i \in K : i \in J /\ BodiesOf(more)[i] = BodiesOf(l)[i]
  <2>1. Len(l.delayed) \in Nat /\ Len(more.delayed) \in Nat /\ Len(l.delayed) <= Len(more.delayed)
    BY ElementsOf DEF Continued
  <2>2. \A i \in K : i \in J /\ i + 1 \in 1 .. Len(l.delayed)
    BY <2>1 DEF OnL1
  <2>3. \A i \in K : more.delayed[i + 1] = l.delayed[i + 1]
    BY <2>2 DEF Continued
  <2>4. BodiesOf(l) \in [K -> Bodies] /\ BodiesOf(more) \in [J -> Bodies]
    BY BodiesTyped
  <2>5. \A i \in K : BodiesOf(l)[i] = l.delayed[i + 1] /\ BodiesOf(more)[i] = more.delayed[i + 1]
    BY <2>2 DEF BodiesOf
  <2> QED
    BY <2>2, <2>3, <2>4, <2>5
<1> HIDE DEF K, J
<1> DEFINE out == FlattenSeq(First(g, count))
<1>5. Resolved(out, BodiesOf(more)) = Resolved(out, BodiesOf(l))
  <2>1. out \in Seq(Handed(K))
    BY <1>3
  <2>2. Extends(BodiesOf(more), J, BodiesOf(l), K)
    BY <1>4 DEF Extends
  <2> DEFINE B == BodiesOf(l)
             C == BodiesOf(more)
  <2>3. B \in [K -> Bodies] /\ C \in [J -> Bodies]
    BY <1>4
  <2>4. Extends(C, J, B, K)
    BY <2>2
  <2> HIDE DEF out, B, C
  <2>5. out \in Seq(Handed(J)) /\ Resolved(out, C) = Resolved(out, B)
    BY ONLY <2>1, <2>3, <2>4, ResolvedSame
  <2> QED
    BY <2>5 DEF B, C
<1>6. log = Resolved(FlattenSeq(First(h, count)), BodiesOf(more))
  BY <1>2, <1>5 DEF StandsFor, g, h
<1>7. \A k \in 1 .. count : h[k] \in Seq(Handed(J))
  <2>1. Handed(K) \subseteq Handed(J)
    BY <1>4 DEF Handed
  <2> QED
    BY <1>1, <2>1, SeqWiden
<1> QED
  BY <1>6, <1>7 DEF StandsFor, g, h, J

(***************************************************************************)
(* A window of L1's batches, while what is recorded mirrors L1.            *)
(***************************************************************************)

\* What is recorded is in step with L1 when no call is under way.
InStep ==
  /\ LogInv /\ RecordsGood(db) /\ Mirrors(db, l1)
  /\ StandsFor(db[Log], db[BatchCount], l1)

\* The window starts where the batches before it end.
LEMMA WindowStarts ==
  ASSUME InStep, Owned, NEW last \in Numbers, Streamable(last)
  PROVE  LET first == db[BatchCount]
         IN  /\ Window(first, last)
             /\ MuxStart(first) = ReadsFrom(l1.batches, 0, first + 1)
             /\ MuxStart(first) \in Nat /\ MuxStart(first) <= db[DelayedCount]
             /\ PrevMeta(first).acc = BatchAcc(first)
             /\ PrevMeta(first).delayed = MuxStart(first)
             /\ Len(db[Log]) = PrevMeta(first).messages
<1> DEFINE first == db[BatchCount]
           prev == PrevMeta(first)
           dc == db[DelayedCount]
<1>1. Window(first, last)
  BY AddBatchesFits DEF InStep
<1>2. /\ StoreTyped /\ CacheInv /\ Repaired = first /\ Aligned(first)
      /\ first \in Nat /\ first <= Len(l1.batches) /\ Len(l1.batches) \in Nat /\ L1Typed
      /\ prev \in BatchMetadata /\ prev.delayed \in Nat /\ dc \in Nat
  <2>1. StoreTyped /\ CacheInv
    BY DEF InStep, LogInv, CacheInv, Typed
  <2>2. Repaired = first /\ Aligned(first)
    BY DEF Streamable
  <2>3. first \in Nat /\ first <= Len(l1.batches) /\ Len(l1.batches) \in Nat /\ L1Typed
    BY <1>1, Bounds DEF Window, L1Typed
  <2>4. prev \in BatchMetadata
    BY <1>1 DEF Window
  <2>5. prev.delayed \in Nat /\ dc \in Nat
    BY <2>1, <2>4, StoredValues, Bounds DEF BatchMetadata
  <2> QED
    BY <2>1, <2>2, <2>3, <2>4, <2>5
<1>3. CASE first = 0
  <2>1. First(Makes(l1.batches, 0), first) = <<>>
    BY <1>3 DEF First
  <2>2. FlattenSeq(<<>>) = <<>>
    BY DEF FlattenSeq
  <2>3. db[Log] = Resolved(<<>>, BodiesOf(l1))
    BY <2>1, <2>2 DEF InStep, StandsFor
  <2>4. db[Log] = <<>>
    <3>1. 1 .. Len(<<>>) = {}
      OBVIOUS
    <3> QED
      BY <2>3, <3>1 DEF Resolved
  <2>5. ~ ColdStart(first)
    BY <2>4 DEF ColdStart
  <2>6. Len(db[Log]) = prev.messages /\ MuxStart(first) = prev.delayed
    BY <1>2, <2>5 DEF Aligned, MuxStart
  <2>7. prev.delayed = 0 /\ prev.acc = <<>>
    BY <1>3 DEF PrevMeta, NoBatch
  <2>8. ReadsFrom(l1.batches, 0, first + 1) = 0
    BY <1>3 DEF ReadsFrom
  <2>9. BatchAcc(first) = <<>>
    <3>1. l1.batches \in Seq(Batches) /\ 0 \in 0 .. Len(l1.batches)
      BY <1>2 DEF L1Typed
    <3>2. SubSeq(l1.batches, 1, 0) \in Seq(Batches) /\ Len(SubSeq(l1.batches, 1, 0)) = 0
      BY <3>1, BeginningOf
    <3> QED
      BY <1>3, <3>2 DEF BatchAcc
  <2> QED
    BY <1>1, <1>2, <2>6, <2>7, <2>8, <2>9
<1>4. CASE first # 0
  <2>1. ~ ColdStart(first)
    BY <1>4 DEF ColdStart
  <2>2. Len(db[Log]) = prev.messages /\ MuxStart(first) = prev.delayed
    BY <1>2, <2>1 DEF Aligned, MuxStart
  <2> DEFINE n == first - 1
             M == MetaIn(db)
             D == DelayedIn(db)
             S == SequencedIn(db)
  <2>3. n \in Numbers /\ prev = db[Meta(n)] /\ n < first /\ n + 1 = first /\ n \in Nat
    <3>1. first > 0
      BY <1>2, <1>4
    <3> QED
      BY <1>2, <3>1, PrevIsStored, Bounds
  <2>4. prev.acc = SubSeq(l1.batches, 1, first)
    BY <2>3 DEF InStep, Mirrors, MirrorsBatches
  <2>5. RecordsTyped(D, dc, M, first, S) /\ MetasGood(D, dc, M, first)
    <3>1. IsStore(db)
      BY <1>2 DEF StoreTyped, IsStore
    <3> QED
      BY <3>1, StoreRecordsTyped DEF InStep, RecordsGood
  <2>6. M[n] = prev
    BY <2>3 DEF MetaIn
  <2> HIDE DEF M, D, S, prev, first
  <2>7. M[n].delayed = M[n].acc[n + 1].after /\ Rests(D, dc, M[n].acc[n + 1])
    <3> HIDE DEF n, dc
    <3> QED
      BY <2>3, <2>5, RecordedIs
  <2>8. M[n].acc[n + 1] = l1.batches[first]
    <3>1. l1.batches \in Seq(Batches) /\ first \in 0 .. Len(l1.batches) /\ first \in 1 .. first
      BY <1>2, <1>4 DEF L1Typed
    <3>2. SubSeq(l1.batches, 1, first)[first] = l1.batches[first]
      BY <3>1, BeginningOf
    <3> QED
      BY <2>3, <2>4, <2>6, <3>2
  <2>9. prev.delayed = l1.batches[first].after /\ prev.delayed <= dc
    BY <2>6, <2>7, <2>8 DEF Rests
  <2>10. ReadsFrom(l1.batches, 0, first + 1) = l1.batches[first].after
    <3>1. first + 1 # 1 /\ (first + 1) - 1 = first
      BY <1>2, <1>4
    <3> QED
      BY <3>1 DEF ReadsFrom
  <2> QED
    BY <1>1, <1>2, <2>2, <2>4, <2>9, <2>10 DEF BatchAcc, first, prev, dc
<1> QED
  BY <1>3, <1>4

\* The batches of the window, as they stand among those of L1.
LEMMA WindowMakes ==
  ASSUME InStep, Owned, NEW last \in Numbers, Streamable(last)
  PROVE  LET first == db[BatchCount]
             g == Makes(l1.batches, 0)
             h == [k \in 1 .. last - first + 1 |-> g[first + k]]
         IN  /\ h \in [1 .. last - first + 1 -> Seq(Handed(KnownDelayed))]
             /\ Stream(first, last).out = FlattenSeq(h)
             /\ \A n \in first .. last : l1.batches[n + 1].after <= db[DelayedCount]
<1> DEFINE first == db[BatchCount]
           start == MuxStart(first)
           g == Makes(l1.batches, 0)
           m == last - first + 1
           h == [k \in 1 .. m |-> g[first + k]]
           bs == SubSeq(l1.batches, first + 1, last + 1)
           dc == db[DelayedCount]
<1>1. /\ Window(first, last) /\ start = ReadsFrom(l1.batches, 0, first + 1)
      /\ start \in Nat /\ start <= dc
  BY WindowStarts
<1>2. /\ L1Typed /\ first \in Nat /\ last \in Nat /\ first <= last /\ last < Len(l1.batches)
      /\ l1.batches \in Seq(Batches) /\ Len(l1.batches) \in Nat /\ m \in Nat /\ m >= 1
  <2>1. /\ L1Typed /\ first \in Nat /\ last \in Nat /\ first <= last /\ last < Len(l1.batches)
    BY <1>1, Bounds DEF Window
  <2>2. l1.batches \in Seq(Batches) /\ Len(l1.batches) \in Nat
    BY <2>1 DEF L1Typed
  <2> HIDE DEF first
  <2> QED
    BY ONLY <2>1, <2>2 DEF m
<1>3. dc \in Nat /\ StoreTyped
  <2>1. StoreTyped
    BY DEF InStep, LogInv, CacheInv, Typed
  <2> QED
    BY <2>1, StoredValues, Bounds
<1>4. /\ bs \in Seq(Batches) /\ bs # <<>> /\ Len(bs) = m
      /\ \A k \in 1 .. m : bs[k] = l1.batches[first + k] /\ bs[k] \in Batches
  BY <1>2, WindowBatches
<1>5. \A k \in 1 .. m : OwnFirst(bs[k].segs)
  BY <1>4, BatchTyped DEF Owned
<1> HIDE DEF bs, start
<1>6. /\ Makes(bs, start) \in [1 .. m -> Seq(Handed(KnownDelayed))]
      /\ Stream(first, last).out = FlattenSeq(Makes(bs, start))
  <2>1. Stream(first, last) = ExpandAll(bs, start, KnownDelayed)
    BY DEF Stream, bs, start
  <2>2. ExpandAll(bs, start, KnownDelayed).ends # "error"
    BY <2>1 DEF Streamable, Taken
  <2>3. \A k \in 1 .. Len(bs) : OwnFirst(bs[k].segs)
    BY <1>4, <1>5
  <2>4. /\ Makes(bs, start) \in [1 .. Len(bs) -> Seq(Handed(KnownDelayed))]
        /\ ExpandAll(bs, start, KnownDelayed).out = FlattenSeq(Makes(bs, start))
    BY ONLY <1>1, <1>4, <2>2, <2>3, WindowIsWhole
  <2> QED
    BY <1>4, <2>1, <2>4
<1> HIDE DEF m
<1>7. ASSUME NEW k \in 1 .. m
      PROVE  /\ ReadsFrom(bs, start, k) = ReadsFrom(l1.batches, 0, first + k)
             /\ Makes(bs, start)[k] = g[first + k]
  <2>1. bs[k] = l1.batches[first + k] /\ k \in 1 .. Len(bs) /\ first + k \in 1 .. Len(l1.batches)
    BY <1>2, <1>4 DEF m
  <2>2. ReadsFrom(bs, start, k) = ReadsFrom(l1.batches, 0, first + k)
    <3>1. CASE k = 1
      BY <1>1, <3>1 DEF ReadsFrom
    <3>2. CASE k # 1
      <4>1. k - 1 \in 1 .. m /\ first + k # 1 /\ (first + k) - 1 = first + (k - 1)
        BY <1>2, <3>2
      <4>2. bs[k - 1] = l1.batches[(first + k) - 1]
        BY <1>4, <4>1
      <4> QED
        BY <3>2, <4>1, <4>2 DEF ReadsFrom
    <3> QED
      BY <3>1, <3>2
  <2>3. Makes(bs, start)[k] = g[first + k]
    BY <2>1, <2>2 DEF Makes
  <2> QED
    BY <2>2, <2>3
<1>8. h = Makes(bs, start)
  <2>1. \A k \in 1 .. m : h[k] = Makes(bs, start)[k]
    BY <1>7
  <2> HIDE DEF g
  <2> QED
    BY <1>6, <2>1
<1>9. \A k \in 1 .. m : bs[k].after <= dc
  <2> DEFINE wrong == {k \in 1 .. m : ~ (bs[k].after <= dc)}
  <2> SUFFICES ASSUME wrong # {} PROVE FALSE
    OBVIOUS
  <2>1. PICK k \in wrong : \A j \in wrong : k <= j
    <3>1. wrong \in SUBSET Nat
      OBVIOUS
    <3> HIDE DEF wrong
    <3> QED
      BY <3>1, LeastOf
  <2>2. k \in 1 .. m /\ bs[k] \in Batches /\ ~ (bs[k].after <= dc) /\ bs[k].after \in Nat
    BY <1>4, <2>1, BatchTyped
  <2>3. ReadsFrom(bs, start, k) <= dc /\ ReadsFrom(bs, start, k) \in Nat
    <3>1. ReadsFrom(bs, start, k) \in Nat
      BY <1>1, <1>4, <2>2, SpanTyped
    <3>2. CASE k = 1
      BY <1>1, <3>2 DEF ReadsFrom
    <3>3. CASE k # 1
      <4>1. k - 1 \in 1 .. m /\ ~ (k <= k - 1)
        <5>1. k \in 1 .. m /\ m \in Nat
          BY <1>2, <2>2
        <5> HIDE DEF wrong
        <5> QED
          BY ONLY <3>3, <5>1
      <4>2. bs[k - 1].after <= dc
        <5>1. k - 1 \notin wrong
          <6> HIDE DEF wrong
          <6> QED
            BY ONLY <2>1, <4>1
        <5> QED
          BY <4>1, <5>1
      <4> QED
        BY <3>1, <3>3, <4>2 DEF ReadsFrom
    <3> QED
      BY <3>1, <3>2, <3>3
  <2>4. bs[k].after > ReadsFrom(bs, start, k)
    BY <1>3, <2>2, <2>3
  <2>5. bs[k].after - 1 \in KnownDelayed
    <3>1. /\ bs \in Seq(Batches) /\ start \in Nat /\ k \in 1 .. Len(bs) /\ OwnFirst(bs[k].segs)
          /\ Makes(bs, start) \in [1 .. Len(bs) -> Seq(Handed(KnownDelayed))]
      BY <1>1, <1>4, <1>5, <1>6, <2>2
    <3> QED
      BY ONLY <2>4, <3>1, WindowKnown
  <2>6. bs[k].after - 1 < dc
    <3>1. \A i \in KnownDelayed : i \in Positions /\ db[Delayed(i)] # Absent
      BY DEF KnownDelayed, HasDelayed
    <3>2. \A i \in Positions : db[Delayed(i)] # Absent => i < dc
      BY DEF InStep, RecordsGood, DelayedGood, DelayedIn
    <3> QED
      BY <2>5, <3>1, <3>2
  <2> QED
    BY <1>3, <2>2, <2>6
<1>10. \A n \in first .. last : l1.batches[n + 1].after <= dc
  <2>1. ASSUME NEW n \in first .. last PROVE l1.batches[n + 1].after <= dc
    <3>1. (n - first) + 1 \in 1 .. m /\ first + ((n - first) + 1) = n + 1
      <4>1. n \in Nat /\ first <= n /\ n <= last /\ first \in Nat /\ last \in Nat
        BY <1>2
      <4> HIDE DEF first
      <4> QED
        BY ONLY <4>1 DEF m
    <3>2. bs[(n - first) + 1] = l1.batches[n + 1]
      BY <1>4, <3>1
    <3> QED
      BY <1>9, <3>1, <3>2
  <2> QED
    BY <2>1
<1> HIDE DEF h
<1>11. h \in [1 .. m -> Seq(Handed(KnownDelayed))] /\ Stream(first, last).out = FlattenSeq(h)
  BY <1>6, <1>8
<1> QED
  BY <1>10, <1>11 DEF h, m

\* All the checks of add_sequencer_batches pass.
LEMMA WindowAccepted ==
  ASSUME InStep, Posted, Owned, NEW last \in Numbers, Streamable(last)
  PROVE  Accepted(db[BatchCount], last)
<1> DEFINE first == db[BatchCount]
           dc == db[DelayedCount]
<1>1. Window(first, last) /\ PrevMeta(first).acc = BatchAcc(first)
  BY WindowStarts
<1>2. /\ first \in Nat /\ last < Len(l1.batches) /\ Len(l1.batches) \in Nat
      /\ l1.batches \in Seq(Batches) /\ l1.delayed \in Seq(Bodies) /\ Len(l1.delayed) \in Nat
      /\ last \in Nat
  BY <1>1, Bounds DEF Window, L1Typed
<1>3. dc \in Nat /\ dc <= MaxDelayed /\ dc <= Len(l1.delayed)
  <2>1. StoreTyped
    BY DEF InStep, LogInv, CacheInv, Typed
  <2> QED
    BY <2>1, StoredValues, Bounds DEF InStep, Mirrors, MirrorsDelayed
<1>4. ASSUME NEW n \in first .. last PROVE DelayedAgree(l1.batches[n + 1])
  <2> DEFINE b == l1.batches[n + 1]
             a == b.after
  <2>1. n + 1 \in 1 .. Len(l1.batches) /\ b \in Batches
    BY <1>2
  <2>2. a <= dc /\ a \in Nat
    BY <2>1, WindowMakes, BatchTyped
  <2>3. b.delayedAcc = SubSeq(l1.delayed, 1, a)
    BY <2>1 DEF Posted, DelayedAcc
  <2> HIDE DEF a, b
  <2>4. ASSUME a > 0 PROVE HasDelayed(a - 1) /\ get_delayed_acc(a - 1) = SubSeq(l1.delayed, 1, a)
    <3>1. a - 1 \in Positions /\ a - 1 < dc /\ a - 1 \in Nat /\ (a - 1) + 1 = a /\ a \in 1 .. Len(l1.delayed)
      <4> HIDE DEF dc
      <4>1. Positions = 0 .. MaxDelayed - 1 /\ MaxDelayed \in Nat
        BY Bounds
      <4> QED
        BY ONLY <1>2, <1>3, <2>2, <2>4, <4>1
    <3>2. db[Delayed(a - 1)] # Absent
      BY <3>1 DEF InStep, RecordsGood, DelayedGood, DelayedIn
    <3>3. db[Delayed(a - 1)] = [before |-> SubSeq(l1.delayed, 1, a - 1), body |-> l1.delayed[a]]
      BY <3>1 DEF InStep, Mirrors, MirrorsDelayed
    <3>4. Append(SubSeq(l1.delayed, 1, a - 1), l1.delayed[a]) = SubSeq(l1.delayed, 1, a)
      BY <1>2, <3>1
    <3> QED
      BY <3>1, <3>2, <3>3, <3>4 DEF HasDelayed, get_delayed_acc
  <2> QED
    BY <2>3, <2>4 DEF DelayedAgree, a, b
<1> QED
  BY <1>1, <1>4 DEF Accepted

\* The log stands for the batches of the window too.
LEMMA WindowStands ==
  ASSUME InStep, Owned, NEW last \in Numbers, Streamable(last)
  PROVE  StandsFor(db[Log] \o Resolved(Stream(db[BatchCount], last).out, KnownBodies), last + 1, l1)
<1> DEFINE first == db[BatchCount]
           g == Makes(l1.batches, 0)
           m == last - first + 1
           h == [k \in 1 .. m |-> g[first + k]]
           K == OnL1(l1)
           out == Stream(first, last).out
           front == FlattenSeq(First(g, first))
           whole == FlattenSeq(First(g, last + 1))
           bodies == BodiesOf(l1)
<1>1. /\ h \in [1 .. m -> Seq(Handed(KnownDelayed))] /\ out = FlattenSeq(h)
      /\ Window(first, last)
  BY WindowMakes, WindowStarts
<1>2. /\ first \in Nat /\ last \in Nat /\ first <= last /\ m \in Nat /\ first + m = last + 1
      /\ l1.delayed \in Seq(Bodies) /\ Len(l1.delayed) \in Nat
  <2>1. /\ first \in Nat /\ last \in Nat /\ first <= last
        /\ l1.delayed \in Seq(Bodies) /\ Len(l1.delayed) \in Nat
    BY <1>1, Bounds DEF Window, L1Typed
  <2> HIDE DEF first
  <2> QED
    BY ONLY <2>1 DEF m
<1>3. KnownBodies \in [KnownDelayed -> Bodies] /\ bodies \in [K -> Bodies]
  <2>1. StoreTyped
    BY DEF InStep, LogInv, CacheInv, Typed
  <2> QED
    BY <1>2, <2>1, KnownTyped, BodiesTyped
<1>4. \A i \in KnownDelayed : i \in K /\ bodies[i] = KnownBodies[i]
  <2>1. ASSUME NEW i \in KnownDelayed PROVE i \in K /\ bodies[i] = KnownBodies[i]
    <3>1. i \in Positions /\ db[Delayed(i)] # Absent /\ i \in Nat
      BY Bounds DEF KnownDelayed, HasDelayed
    <3>2. i < db[DelayedCount]
      BY <3>1 DEF InStep, RecordsGood, DelayedGood, DelayedIn
    <3>3. db[DelayedCount] <= Len(l1.delayed) /\ db[DelayedCount] \in Nat
      <4>1. StoreTyped
        BY DEF InStep, LogInv, CacheInv, Typed
      <4> QED
        BY <4>1, StoredValues, Bounds DEF InStep, Mirrors, MirrorsDelayed
    <3>4. i \in K
      BY <1>2, <3>1, <3>2, <3>3 DEF OnL1
    <3>5. db[Delayed(i)].body = l1.delayed[i + 1]
      <4>1. MirrorsDelayed(db, l1)
        BY DEF InStep, Mirrors
      <4>2. db[Delayed(i)] = [before |-> SubSeq(l1.delayed, 1, i), body |-> l1.delayed[i + 1]]
        BY ONLY <3>1, <3>2, <4>1 DEF MirrorsDelayed
      <4> QED
        BY ONLY <4>2
    <3> QED
      BY <3>4, <3>5 DEF BodiesOf, KnownBodies
  <2> QED
    BY <2>1
<1>5. Handed(KnownDelayed) \subseteq Handed(K)
  BY <1>4 DEF Handed
<1> HIDE DEF first, m, K, bodies, g, h
<1>6. out \in Seq(Handed(KnownDelayed))
  BY <1>1, <1>2, FlattenType
<1>7. \A k \in 1 .. first : g[k] \in Seq(Handed(K))
  BY DEF InStep, StandsFor, first, K, g
<1>8. \A k \in 1 .. m : g[first + k] \in Seq(Handed(K))
  <2>1. \A k \in 1 .. m : h[k] \in Seq(Handed(KnownDelayed)) /\ h[k] = g[first + k]
    BY <1>1 DEF h
  <2> QED
    BY <1>5, <2>1, SeqWiden
<1>9. \A k \in 1 .. first + m : g[k] \in Seq(Handed(K))
  <2>1. ASSUME NEW k \in 1 .. first + m PROVE g[k] \in Seq(Handed(K))
    <3>1. CASE k <= first
      BY <1>2, <1>7, <3>1
    <3>2. CASE ~ (k <= first)
      <4>1. k - first \in 1 .. m /\ first + (k - first) = k
        BY <1>2, <3>2
      <4> QED
        BY <1>8, <4>1
    <3> QED
      BY <3>1, <3>2
  <2> QED
    BY <2>1
<1>10. whole = front \o out
  <2>1. FlattenSeq(First(g, first + m)) = FlattenSeq(First(g, first)) \o FlattenSeq(h)
    <3> DEFINE T == Handed(K)
    <3>1. Sequences(g, first + m, T)
      BY <1>9 DEF Sequences
    <3> HIDE DEF T
    <3>2. FlattenSeq(First(g, first + m)) = FlattenSeq(First(g, first)) \o FlattenSeq(After(g, first, m))
      BY ONLY <1>2, <3>1, FlattenSplits
    <3> QED
      BY <3>2 DEF After, h
  <2> QED
    BY <1>1, <1>2, <2>1
<1>11. front \in Seq(Handed(K))
  <2>1. First(g, first) \in [1 .. first -> Seq(Handed(K))]
    BY <1>7 DEF First
  <2> QED
    BY <1>2, <2>1, FlattenType
<1> HIDE DEF out, front, whole
<1>12. out \in Seq(Handed(K)) /\ Resolved(out, bodies) = Resolved(out, KnownBodies)
  <2>1. Extends(bodies, K, KnownBodies, KnownDelayed)
    BY <1>4 DEF Extends
  <2> QED
    BY ONLY <1>3, <1>6, <2>1, ResolvedSame
<1>13. Resolved(front \o out, bodies) = Resolved(front, bodies) \o Resolved(out, bodies)
  BY ONLY <1>3, <1>11, <1>12, ResolvedConcat
<1>14. db[Log] = Resolved(front, bodies)
  BY DEF InStep, StandsFor, front, bodies, g, first
<1>15. db[Log] \o Resolved(out, KnownBodies) = Resolved(whole, bodies)
  BY <1>10, <1>12, <1>13, <1>14
<1> QED
  BY <1>2, <1>9, <1>15 DEF StandsFor, whole, out, bodies, g, K, first

LEMMA WindowMirrors ==
  ASSUME InStep, NEW last, NEW out, Window(db[BatchCount], last), Accepted(db[BatchCount], last)
  PROVE  /\ Mirrors(Result(WindowWrites(db[BatchCount], last, out), db), l1)
         /\ Result(WindowWrites(db[BatchCount], last, out), db)[BatchCount] = last + 1
<1> DEFINE first == db[BatchCount]
           r == Result(WindowWrites(first, last, out), db)
<1>1. StoreTyped /\ RecordsGood(db)
  BY DEF InStep, LogInv, CacheInv, Typed
<1>2. /\ r[DelayedCount] = db[DelayedCount] /\ r[BatchCount] = last + 1
      /\ \A i \in Positions : r[Delayed(i)] = db[Delayed(i)]
      /\ \A n \in Numbers :
           /\ n < first => r[Meta(n)] = db[Meta(n)]
           /\ n \in first .. last => r[Meta(n)] = NewMeta(first, last, n)
           /\ n > last => r[Meta(n)] = Absent
      /\ \A x \in 1 .. MaxDelayed :
           r[Sequenced(x)] =
             LastWrite(RecordWrites(first, last), Sequenced(x),
                       IF x <= PrevMeta(first).delayed THEN db[Sequenced(x)] ELSE Absent)
  BY <1>1, WindowResult
<1> HIDE DEF r
<1>3. first \in Nat /\ last \in Nat /\ last < Len(l1.batches) /\ Len(l1.batches) \in Nat
  BY Bounds DEF Window, L1Typed
<1>4. MirrorsDelayed(r, l1)
  BY <1>2 DEF InStep, Mirrors, MirrorsDelayed
<1>5. ASSUME NEW n \in Numbers, n < last + 1 PROVE r[Meta(n)].acc = SubSeq(l1.batches, 1, n + 1)
  <2>1. CASE n < first
    BY <1>2, <2>1 DEF InStep, Mirrors, MirrorsBatches
  <2>2. CASE ~ (n < first)
    <3>1. n \in first .. last
      BY <1>3, <1>5, <2>2, Bounds
    <3>2. r[Meta(n)] = NewMeta(first, last, n)
      BY <1>2, <3>1
    <3> DEFINE new == NewMeta(first, last, n)
               mc == MessageCounts(first, last)[n]
               up == DelayedUpTo(first, n)
    <3>3. new = [acc |-> BatchAcc(n + 1), messages |-> mc, delayed |-> up]
      BY DEF NewMeta
    <3> HIDE DEF mc, up
    <3>4. new.acc = BatchAcc(n + 1)
      <4> HIDE DEF new
      <4> QED
        BY ONLY <3>3
    <3> HIDE DEF new
    <3>5. r[Meta(n)] = new
      BY <3>2 DEF new
    <3> QED
      BY ONLY <3>4, <3>5 DEF BatchAcc
  <2> QED
    BY <2>1, <2>2
<1>6. MirrorsBatches(r, l1)
  BY <1>2, <1>3, <1>5 DEF MirrorsBatches
<1> QED
  BY <1>2, <1>4, <1>6 DEF Mirrors, r

(***************************************************************************)
(* Step by step, while nothing disturbs the reader.                        *)
(***************************************************************************)

\* Once the call under way has written all its keys, what is recorded mirrors L1 and
\* the log stands for it; until then the log is how that log begins.
InOrder ==
  /\ Posted
  /\ Mirrors(Result(todo, db), l1)
  /\ StandsFor(LogComes, Result(todo, db)[BatchCount], l1)
  /\ Begins(db[Log], LogComes)

CanonInv == LogInv /\ ChainInv /\ (Undisturbed => InOrder)

LEMMA BeginsItself ==
  ASSUME NEW s, Len(s) \in Nat
  PROVE  Begins(s, s)
BY DEF Begins

LEMMA IdleInStep ==
  ASSUME CanonInv, Undisturbed, Idle
  PROVE  InStep /\ Posted
<1>1. IsStore(db) /\ todo = <<>>
  BY DEF CanonInv, LogInv, CacheInv, Typed, StoreTyped, IsStore, Idle
<1>2. Result(todo, db) = db
  BY <1>1, ResultOfNone
<1>3. LogComes = db[Log]
  BY <1>1 DEF LogComes
<1>4. LogInv /\ RecordsGood(db)
  BY <1>2 DEF CanonInv, ChainInv, Undisturbed
<1>5. Posted /\ Mirrors(db, l1) /\ StandsFor(db[Log], db[BatchCount], l1)
  BY <1>2, <1>3 DEF CanonInv, InOrder
<1> QED
  BY <1>4, <1>5 DEF InStep

\* A message or a batch is posted.
LEMMA PostedInOrder ==
  ASSUME CanonInv, InOrder, L1Typed',
         \/ \E body \in Bodies : L1Delayed(body)
         \/ \E segs \in Contents, after \in 0 .. MaxDelayed : L1Batch(segs, after)
  PROVE  InOrder'
<1> DEFINE r == Result(todo, db)
<1>1. L1Typed /\ IsStore(db) /\ Sound(todo)
  BY DEF CanonInv, LogInv, CacheInv, Typed, StoreTyped, IsStore
<1>2. /\ Continued(l1.delayed, l1'.delayed) /\ Continued(l1.batches, l1'.batches)
      /\ Posted'
  BY <1>1, L1Grows DEF InOrder
<1>3. IsStore(r) /\ r[BatchCount] \in Nat
  <2>1. IsStore(r)
    BY <1>1, ResultIsStore
  <2> HIDE DEF r
  <2>2. r[BatchCount] \in 0 .. MaxBatches
    BY <2>1, KeysAre DEF IsStore, MayHold
  <2> QED
    BY <2>1, <2>2
<1>4. /\ l1.delayed \in Seq(Bodies) /\ l1'.delayed \in Seq(Bodies)
      /\ l1.batches \in Seq(Batches) /\ l1'.batches \in Seq(Batches)
      /\ Len(l1.delayed) \in Nat /\ Len(l1'.delayed) \in Nat
      /\ Len(l1.batches) \in Nat /\ Len(l1'.batches) \in Nat
  <2>1. /\ l1.delayed \in Seq(Bodies) /\ l1'.delayed \in Seq(Bodies)
        /\ l1.batches \in Seq(Batches) /\ l1'.batches \in Seq(Batches)
    BY <1>1 DEF L1Typed
  <2> QED
    BY ONLY <2>1, ElementsOf
<1>5. db' = db /\ todo' = todo
  BY DEF L1Delayed, L1Batch
<1> DEFINE log == LogComes
<1>6. Mirrors(r, l1) /\ StandsFor(log, r[BatchCount], l1) /\ Begins(db[Log], log)
  BY DEF InOrder
<1> HIDE DEF r, log
<1>7. Mirrors(r, l1')
  BY ONLY <1>2, <1>3, <1>4, <1>6, MirrorsMore
<1>8. r[BatchCount] <= Len(l1.batches)
  BY <1>6 DEF Mirrors, MirrorsBatches
<1>9. StandsFor(log, r[BatchCount], l1')
  BY ONLY <1>2, <1>3, <1>4, <1>6, <1>8, StandsForMore
<1>10. LogComes' = log /\ Result(todo, db)' = r
  BY <1>5 DEF LogComes, Result, log, r
<1> QED
  BY <1>2, <1>5, <1>6, <1>7, <1>9, <1>10 DEF InOrder

\* Storing delayed messages does not touch the log.
LEMMA StoresNoLog ==
  ASSUME LogInv, LogInv', NEW first \in Positions, NEW last \in Positions, AddDelayed(first, last)
  PROVE  LogComes' = db[Log]
<1>1. /\ db' = db /\ first <= last /\ last < Len(l1.delayed)
      /\ SetDelayedCount(first, last + 1, DelayedPuts(first, last))
  BY DEF AddDelayed
<1>2. first \in 0 .. MaxDelayed /\ last + 1 \in 0 .. MaxDelayed
  BY Bounds
<1>3. StoreTyped /\ Sound(DelayedPuts(first, last))
      /\ \A op \in Ops(DelayedPuts(first, last)) : \E i : op.key = Delayed(i)
  BY <1>1, DelayedPutsSound DEF LogInv, CacheInv, Typed
<1>4. \A op \in Ops(todo') : op.key # Log
  BY <1>1, <1>2, <1>3, SetDelayedQuiet
<1>5. todo' # <<>> => todo'[1] \in Ops(todo')
  <2>1. Sound(todo') /\ CacheLast(todo')
    BY DEF LogInv, CacheInv, Typed
  <2> QED
    BY <2>1, TailWrites
<1> QED
  BY <1>1, <1>4, <1>5 DEF LogComes

\* Messages are stored.
LEMMA StoredInOrder ==
  ASSUME CanonInv, Undisturbed, Undisturbed', LogInv',
         NEW first \in Positions, NEW last \in Positions, AddDelayed(first, last)
  PROVE  InOrder'
<1>1. Idle /\ l1' = l1 /\ db' = db
  BY DEF AddDelayed
<1>2. InStep /\ Posted
  BY <1>1, IdleInStep
<1>3. L1Typed /\ StoreTyped /\ UsedTyped
  BY DEF CanonInv, LogInv, CacheInv, Typed
<1>4. /\ Mirrors(Result(todo', db), l1)
      /\ Result(todo', db)[BatchCount] = db[BatchCount]
  BY <1>2, <1>3, AddDelayedMirrors DEF InStep
<1>5. LogComes' = db[Log]
  BY StoresNoLog DEF CanonInv
<1>6. Begins(db[Log], db[Log])
  BY BeginsItself DEF CanonInv, LogInv
<1>7. StandsFor(db[Log], db[BatchCount], l1)
  BY <1>2 DEF InStep
<1>8. Posted'
  BY <1>1, <1>2 DEF Posted, DelayedAcc
<1>9. Result(todo, db)' = Result(todo', db)
  BY <1>1 DEF Result
<1> QED
  BY <1>1, <1>4, <1>5, <1>6, <1>7, <1>8, <1>9 DEF InOrder

\* A window of batches is streamed and recorded.
LEMMA StreamedInOrder ==
  ASSUME Owned, CanonInv, Undisturbed, NEW last \in Numbers, AddBatches(last)
  PROVE  InOrder'
<1> DEFINE first == db[BatchCount]
           made == Stream(first, last).out
           out == Resolved(made, KnownBodies)
           grown == db[Log] \o out
           w == WindowWrites(first, last, out)
<1>1. Streamable(last) /\ todo' = w /\ db' = db /\ l1' = l1 /\ Idle
  BY DEF AddBatches, Streamable
<1>2. InStep /\ Posted
  BY <1>1, IdleInStep
<1>3. Window(first, last) /\ Accepted(first, last)
  BY <1>1, <1>2, WindowStarts, WindowAccepted
<1>4. Mirrors(Result(w, db), l1) /\ Result(w, db)[BatchCount] = last + 1
  BY <1>2, <1>3, WindowMirrors
<1>5. StandsFor(grown, last + 1, l1)
  BY <1>1, <1>2, WindowStands
<1>6. Begins(db[Log], grown)
  <2>1. made \in Seq(Handed(KnownDelayed))
    <3> DEFINE m == last - first + 1
               h == [k \in 1 .. m |-> Makes(l1.batches, 0)[first + k]]
    <3>1. h \in [1 .. m -> Seq(Handed(KnownDelayed))] /\ made = FlattenSeq(h)
      BY <1>1, <1>2, WindowMakes
    <3>2. m \in Nat
      <4>1. first \in Nat /\ last \in Nat /\ first <= last
        BY <1>3, Bounds DEF Window
      <4> HIDE DEF first
      <4> QED
        BY ONLY <4>1
    <3> HIDE DEF h, m, made
    <3> QED
      BY <3>1, <3>2, FlattenType
  <2>2. KnownBodies \in [KnownDelayed -> Bodies]
    BY KnownTyped DEF CanonInv, LogInv, CacheInv, Typed
  <2> HIDE DEF made
  <2>3. out \in Seq(Entries)
    BY <2>1, <2>2, ResolvedIs
  <2>4. db[Log] \in Seq(Entries)
    BY DEF CanonInv, LogInv, LogRoom
  <2> DEFINE log == db[Log]
  <2> HIDE DEF out, log
  <2>5. log \in Seq(Entries)
    BY <2>4 DEF log
  <2>6. Begins(log, log)
    BY <2>5, BeginsItself, ElementsOf
  <2>7. Begins(log, log \o out)
    BY <2>3, <2>5, <2>6, BeginsConcat
  <2> QED
    BY <2>7 DEF log
<1> HIDE DEF made, out
<1>7. LogComes' = grown
  <2>1. w # <<>> /\ w[1] = [key |-> Log, val |-> grown]
    BY <1>3, WindowFirst
  <2> HIDE DEF w, grown
  <2> QED
    BY <1>1, <2>1 DEF LogComes
<1> HIDE DEF w, grown
<1>8. Posted'
  BY <1>1, <1>2 DEF Posted, DelayedAcc
<1>9. Result(todo, db)' = Result(w, db)
  BY <1>1 DEF Result
<1> QED
  BY <1>1, <1>4, <1>5, <1>6, <1>7, <1>8, <1>9 DEF InOrder

\* A key is written.
LEMMA WrittenInOrder ==
  ASSUME CanonInv, InOrder, LogInv', WriteKey
  PROVE  InOrder'
<1>1. l1' = l1
  BY DEF WriteKey
<1>2. Result(todo, db)' = Result(todo, db)
  <2>1. CacheInv /\ CacheInv'
    BY DEF CanonInv, LogInv
  <2>2. Result(todo', db') = Result(todo, db)
    BY <2>1, WriteKeyResult
  <2>3. Result(todo, db)' = Result(todo', db')
    BY DEF Result
  <2> QED
    BY <2>2, <2>3
<1>3. db'[Log] = LogComes /\ LogComes' = LogComes
  BY WriteKeyLog DEF CanonInv
<1>4. Begins(LogComes, LogComes)
  BY BeginsItself DEF CanonInv, LogInv
<1>5. Posted'
  BY <1>1 DEF Posted, DelayedAcc, InOrder
<1> QED
  BY <1>1, <1>2, <1>3, <1>4, <1>5 DEF InOrder

LEMMA InitCanon == Init => CanonInv
<1> SUFFICES ASSUME Init PROVE CanonInv
  OBVIOUS
<1>1. LogInv /\ ChainInv
  BY InitLog, InitChain
<1>2. todo = <<>> /\ IsStore(db)
  BY <1>1 DEF Init, LogInv, CacheInv, Typed, StoreTyped, IsStore
<1>3. Result(todo, db) = db /\ LogComes = db[Log]
  BY <1>2, ResultOfNone DEF LogComes
<1>4. \A key \in Keys : db[key] = CASE key \in {DelayedCount, BatchCount} -> 0
                                    [] key = Log -> <<>>
                                    [] OTHER -> Absent
  BY DEF Init
<1>5. db[Log] = <<>> /\ db[DelayedCount] = 0 /\ db[BatchCount] = 0
  BY <1>4, KeysAre, KeysDiffer
<1>6. /\ l1.delayed = <<>> /\ l1.batches = <<>>
      /\ Len(l1.delayed) = 0 /\ Len(l1.batches) = 0
  BY DEF Init
<1>7. Posted
  BY <1>6 DEF Posted
<1>8. Mirrors(db, l1)
  <2>1. \A n \in Numbers \cup Positions : ~ (n < 0)
    BY Bounds
  <2> QED
    BY <1>5, <1>6, <2>1 DEF Mirrors, MirrorsDelayed, MirrorsBatches
<1>9. StandsFor(<<>>, 0, l1)
  <2>1. FlattenSeq(First(Makes(l1.batches, 0), 0)) = <<>>
    BY FlattenNone
  <2>2. Resolved(<<>>, BodiesOf(l1)) = <<>>
    BY DEF Resolved
  <2>3. \A k \in 1 .. 0 : Makes(l1.batches, 0)[k] \in Seq(Handed(OnL1(l1)))
    OBVIOUS
  <2> QED
    BY <2>1, <2>2, <2>3 DEF StandsFor
<1>10. Begins(<<>>, <<>>)
  BY BeginsItself
<1> QED
  BY <1>1, <1>3, <1>5, <1>7, <1>8, <1>9, <1>10 DEF CanonInv, InOrder

\* A reorg of L1, messages read again and a crash each spend a bound.
LEMMA StillUndisturbed ==
  ASSUME UsedTyped, [Next]_vars, Undisturbed'
  PROVE  /\ Undisturbed /\ ~ Crash
         /\ \A d \in 0 .. MaxDelayed, n \in 0 .. MaxBatches : ~ L1Reorg(d, n)
<1>1. /\ used.reorgs \in Nat /\ used.rereads \in Nat /\ used.crashes \in Nat
      /\ used = [reorgs |-> used.reorgs, rereads |-> used.rereads, crashes |-> used.crashes]
  BY DEF UsedTyped
<1>2. /\ Crash => used' = [used EXCEPT !.crashes = @ + 1]
      /\ \A d \in 0 .. MaxDelayed, n \in 0 .. MaxBatches :
           L1Reorg(d, n) => used' = [used EXCEPT !.reorgs = @ + 1]
  BY DEF Crash, L1Reorg
<1>3. used' # [used EXCEPT !.crashes = @ + 1] /\ used' # [used EXCEPT !.reorgs = @ + 1]
  BY <1>1 DEF Undisturbed
<1>4. used' = used \/ used' = [used EXCEPT !.rereads = @ + 1]
  <2>1. CASE UNCHANGED vars
    BY <2>1 DEF vars
  <2>2. CASE \/ \E body \in Bodies : L1Delayed(body)
             \/ \E segs \in Contents, after \in 0 .. MaxDelayed : L1Batch(segs, after)
    BY <2>2 DEF L1Delayed, L1Batch
  <2>3. CASE Reader
    <3>1. CASE \E first, last \in Positions : AddDelayed(first, last)
      <4>1. PICK first \in Positions : Reread(first)
        BY <3>1 DEF AddDelayed
      <4>2. used' = [used EXCEPT !.rereads = IF first < db[DelayedCount] THEN @ + 1 ELSE @]
        BY <4>1 DEF Reread
      <4> QED
        BY <1>1, <4>2
    <3>2. CASE ReorgDelayed \/ GetBatchCount \/ WriteKey
      BY <3>2 DEF ReorgDelayed, GetBatchCount, WriteKey
    <3>3. CASE \E n \in Numbers : GetBatchMetadata(n) \/ AddBatches(n)
      BY <3>3 DEF GetBatchMetadata, AddBatches
    <3> QED
      BY <2>3, <3>1, <3>2, <3>3 DEF Reader
  <2> QED
    BY <1>2, <1>3, <2>1, <2>2, <2>3 DEF Next
<1>5. Undisturbed
  BY <1>1, <1>4 DEF Undisturbed
<1> QED
  BY <1>2, <1>3, <1>5

LEMMA NextCanon ==
  ASSUME Owned, CanonInv, [Next]_vars
  PROVE  CanonInv'
<1>1. LogInv' /\ ChainInv'
  BY NextLog, NextChain DEF CanonInv
<1> SUFFICES ASSUME Undisturbed' PROVE InOrder'
  BY <1>1 DEF CanonInv
<1>2. L1Typed /\ StoreTyped /\ UsedTyped /\ L1Typed'
  BY <1>1 DEF CanonInv, LogInv, CacheInv, Typed
<1>3. /\ Undisturbed /\ ~ Crash
      /\ \A d \in 0 .. MaxDelayed, n \in 0 .. MaxBatches : ~ L1Reorg(d, n)
  BY <1>2, StillUndisturbed
<1>4. InOrder
  BY <1>3 DEF CanonInv
<1>5. CASE UNCHANGED vars
  <2>1. l1' = l1 /\ db' = db /\ todo' = todo
    BY <1>5 DEF vars
  <2> QED
    BY <1>4, <2>1 DEF InOrder, LogComes, Result, Posted, DelayedAcc
<1>6. CASE \/ \E body \in Bodies : L1Delayed(body)
           \/ \E segs \in Contents, after \in 0 .. MaxDelayed : L1Batch(segs, after)
  BY <1>2, <1>4, <1>6, PostedInOrder
<1>7. ASSUME NEW first \in Positions, NEW last \in Positions, AddDelayed(first, last)
      PROVE  InOrder'
  BY <1>1, <1>3, <1>7, StoredInOrder
<1>8. CASE ReorgDelayed
  <2>1. Idle /\ Len(l1.delayed) < db[DelayedCount]
    BY <1>8 DEF ReorgDelayed
  <2>2. db[DelayedCount] <= Len(l1.delayed)
    BY <1>3, <2>1, IdleInStep DEF InStep, Mirrors, MirrorsDelayed
  <2>3. db[DelayedCount] \in Nat /\ Len(l1.delayed) \in Nat
    BY <1>2, StoredValues, Bounds DEF L1Typed
  <2> QED
    BY <2>1, <2>2, <2>3
<1>9. CASE GetBatchCount
  <2>1. Idle /\ Repaired # db[BatchCount]
    BY <1>9 DEF GetBatchCount
  <2> QED
    BY <1>2, <1>3, <2>1, IdleInStep, CountIsRight DEF InStep
<1>10. ASSUME NEW n \in Numbers, GetBatchMetadata(n) PROVE InOrder'
  <2>1. l1' = l1 /\ db' = db /\ todo' = todo
    BY <1>10 DEF GetBatchMetadata
  <2> QED
    BY <1>4, <2>1 DEF InOrder, LogComes, Result, Posted, DelayedAcc
<1>11. ASSUME NEW last \in Numbers, AddBatches(last) PROVE InOrder'
  BY <1>3, <1>11, StreamedInOrder
<1>12. CASE WriteKey
  BY <1>1, <1>4, <1>12, WrittenInOrder
<1> QED
  BY <1>3, <1>5, <1>6, <1>7, <1>8, <1>9, <1>10, <1>11, <1>12 DEF Next, Reader

(***************************************************************************)
(* What L1's batches stand for begins with what is recorded.               *)
(***************************************************************************)

\* A batch whose delayed messages are known comes out whole.
LEMMA KnownExpands ==
  ASSUME NEW b \in Batches, OwnFirst(b.segs), NEW read \in Nat, NEW known
  PROVE  LET msgs == SlotMessages(b, read, Slots(b, read))
             e == Expand(b, read, known)
         IN  /\ e.out \in Seq(Made)
             /\ msgs \in Seq(Handed(known)) => e.ends = "whole" /\ e.out = msgs
<1> DEFINE msgs == SlotMessages(b, read, Slots(b, read))
           e == Expand(b, read, known)
           ends == {k \in 1 .. Len(msgs) :
                      \/ msgs[k].kind \in {"bad", "unknown"}
                      \/ msgs[k].kind = "delayed" /\ msgs[k].id[1] \notin known}
           least == CHOOSE k \in ends : \A j \in ends : k <= j
           how == IF msgs[least].kind = "unknown" THEN "stopped" ELSE "error"
<1>1. e = IF ends = {} THEN [out |-> msgs, ends |-> "whole"]
          ELSE [out |-> SubSeq(msgs, 1, least - 1), ends |-> how]
  BY Zenon DEF Expand, Until
<1>2. msgs \in Seq(Made)
  BY OwnMessages
<1> HIDE DEF msgs, e, how
<1>3. Len(msgs) \in Nat
  BY <1>2
<1>4. CASE ends = {}
  <2>1. e = [out |-> msgs, ends |-> "whole"]
    BY <1>1, <1>4
  <2>2. e.out = msgs /\ e.ends = "whole"
    BY ONLY <2>1
  <2> QED
    BY <1>2, <2>2 DEF msgs, e
<1>5. CASE ends # {}
  <2>1. least \in ends
    <3>1. ends \in SUBSET Nat
      BY <1>3
    <3> HIDE DEF ends
    <3>2. \E k \in ends : \A j \in ends : k <= j
      BY <1>5, <3>1, LeastOf
    <3> QED
      BY <3>2
  <2> HIDE DEF least
  <2>2. e = [out |-> SubSeq(msgs, 1, least - 1), ends |-> how]
    BY <1>1, <1>5
  <2>3. e.out = SubSeq(msgs, 1, least - 1)
    BY ONLY <2>2
  <2>4. least - 1 \in 0 .. Len(msgs)
    BY <1>3, <2>1
  <2>5. SubSeq(msgs, 1, least - 1) \in Seq(Made)
    BY <1>2, <2>4, BeginningOf
  <2>6. msgs \notin Seq(Handed(known))
    <3>1. ASSUME msgs \in Seq(Handed(known)) PROVE FALSE
      <4>1. msgs[least] \in Handed(known)
        BY <2>1, <3>1, ElementsOf
      <4> QED
        BY <2>1, <4>1 DEF Handed
    <3> QED
      BY <3>1
  <2> QED
    BY <2>3, <2>5, <2>6 DEF msgs, e
<1> QED
  BY <1>4, <1>5

\* All the batches come out, at least as far as their delayed messages are known.
LEMMA AllExpands ==
  ASSUME NEW bs \in Seq(Batches), \A k \in 1 .. Len(bs) : OwnFirst(bs[k].segs), NEW known,
         NEW count \in 0 .. Len(bs), Sequences(Makes(bs, 0), count, Handed(known))
  PROVE  /\ ExpandAll(bs, 0, known).out \in Seq(Made)
         /\ Begins(FlattenSeq(First(Makes(bs, 0), count)), ExpandAll(bs, 0, known).out)
<1> DEFINE len == Len(bs)
           g == Makes(bs, 0)
           each == [k \in 1 .. len |-> Expand(bs[k], ReadsFrom(bs, 0, k), known)]
           outs == [k \in 1 .. len |-> each[k].out]
           ends == {k \in 1 .. len : each[k].ends # "whole"}
           least == CHOOSE k \in ends : \A j \in ends : k <= j
           n == IF ends = {} THEN len ELSE least
           all == ExpandAll(bs, 0, known)
<1>1. len \in Nat /\ count \in Nat /\ count <= len
  OBVIOUS
<1>2. all.out = FlattenSeq([k \in 1 .. n |-> each[k].out])
  <2>1. Len(each) = len
    <3> HIDE DEF len
    <3> QED
      BY <1>1
  <2>2. all = Joined(each)
    BY DEF ExpandAll, ReadsFrom
  <2> HIDE DEF each
  <2> DEFINE how == IF ends = {} THEN "whole" ELSE each[n].ends
             joined == FlattenSeq([k \in 1 .. n |-> each[k].out])
  <2>3. Joined(each) = [out |-> joined, ends |-> how]
    <3> DEFINE e == {k \in 1 .. Len(each) : each[k].ends # "whole"}
               l == IF e = {} THEN Len(each) ELSE CHOOSE k \in e : \A j \in e : k <= j
    <3>1. Joined(each) = [out |-> FlattenSeq([k \in 1 .. l |-> each[k].out]),
                          ends |-> IF e = {} THEN "whole" ELSE each[l].ends]
      BY DEF Joined
    <3>2. e = ends
      BY <2>1
    <3>3. l = n
      <4> HIDE DEF e, ends
      <4> QED
        BY <2>1, <3>2
    <3> HIDE DEF e, l, ends, n
    <3> QED
      BY <3>1, <3>2, <3>3, Zenon
  <2> HIDE DEF how, joined, all
  <2>4. all.out = joined
    BY ONLY <2>2, <2>3
  <2> QED
    BY <2>4 DEF joined
<1>3. ASSUME NEW k \in 1 .. len
      PROVE  /\ outs[k] \in Seq(Made)
             /\ k <= count => each[k].ends = "whole" /\ outs[k] = g[k]
  <2> DEFINE b == bs[k]
             r == ReadsFrom(bs, 0, k)
             msgs == SlotMessages(b, r, Slots(b, r))
             e == Expand(b, r, known)
  <2>1. b \in Batches /\ r \in Nat /\ OwnFirst(b.segs)
    BY SpanTyped
  <2>2. outs[k] = e.out /\ each[k].ends = e.ends
    OBVIOUS
  <2>3. g[k] = msgs
    BY DEF Makes
  <2>4. k <= count => g[k] \in Seq(Handed(known))
    BY <1>1 DEF Sequences
  <2> HIDE DEF outs, each, g
  <2>5. /\ e.out \in Seq(Made)
        /\ msgs \in Seq(Handed(known)) => e.ends = "whole" /\ e.out = msgs
    <3> HIDE DEF b, r
    <3> QED
      BY <2>1, KnownExpands
  <2> HIDE DEF e, msgs
  <2> QED
    BY <2>2, <2>3, <2>4, <2>5
<1> HIDE DEF each
<1>4. n \in count .. len
  <2>1. CASE ends = {}
    <3> HIDE DEF ends, len
    <3> QED
      BY <1>1, <2>1
  <2>2. CASE ends # {}
    <3>1. least \in ends
      <4>1. ends \in SUBSET Nat
        BY <1>1
      <4> HIDE DEF ends
      <4>2. \E k \in ends : \A j \in ends : k <= j
        BY <2>2, <4>1, LeastOf
      <4> QED
        BY <4>2
    <3> HIDE DEF least
    <3>2. least \in 1 .. len /\ ~ (least <= count)
      BY <1>3, <3>1
    <3>3. n = least
      BY <2>2
    <3> HIDE DEF n, len
    <3> QED
      BY <1>1, <3>2, <3>3
  <2> QED
    BY <2>1, <2>2
<1> HIDE DEF n, outs, len
<1>5. outs \in [1 .. len -> Seq(Made)]
  <2>1. outs = [k \in 1 .. len |-> outs[k]]
    BY DEF outs
  <2> QED
    BY <1>3, <2>1
<1>6. all.out = FlattenSeq(First(outs, n))
  <2>1. \A k \in 1 .. n : k \in 1 .. len
    BY <1>1, <1>4
  <2>2. \A k \in 1 .. n : outs[k] = each[k].out
    BY <2>1 DEF outs
  <2>3. First(outs, n) = [k \in 1 .. n |-> each[k].out]
    BY <2>2 DEF First
  <2> QED
    BY <1>2, <2>3
<1>7. First(outs, count) = First(g, count)
  <2>1. \A k \in 1 .. count : k \in 1 .. len /\ k <= count
    BY <1>1
  <2>2. \A k \in 1 .. count : outs[k] = g[k]
    BY <1>3, <2>1
  <2> HIDE DEF g
  <2> QED
    BY <2>2 DEF First
<1>8. Begins(FlattenSeq(First(outs, count)), FlattenSeq(First(outs, n)))
  <2>1. count \in 0 .. len /\ n \in count .. len
    BY <1>1, <1>4
  <2> QED
    BY ONLY <1>1, <1>5, <2>1, FlattenBegins
<1>9. FlattenSeq(First(outs, n)) \in Seq(Made)
  <2>1. n \in Nat /\ \A k \in 1 .. n : k \in 1 .. len
    BY <1>1, <1>4
  <2>2. First(outs, n) \in [1 .. n -> Seq(Made)]
    BY <1>3, <2>1 DEF First
  <2> QED
    BY <2>1, <2>2, FlattenType
<1> HIDE DEF all, g
<1> QED
  BY <1>6, <1>7, <1>8, <1>9 DEF all, g

LEMMA StandsForBegins ==
  ASSUME Owned, L1Typed, NEW count \in 0 .. Len(l1.batches), NEW log, StandsFor(log, count, l1)
  PROVE  /\ log \in Seq(Entries) /\ Len(Canonical) \in Nat
         /\ Canonical = [k \in 1 .. Len(Canonical) |-> Canonical[k]]
         /\ Begins(log, Canonical)
<1> DEFINE bs == l1.batches
           g == Makes(bs, 0)
           K == OnL1(l1)
           bodies == BodiesOf(l1)
           front == FlattenSeq(First(g, count))
           whole == ExpandAll(bs, 0, Positions).out
<1>1. /\ bs \in Seq(Batches) /\ l1.delayed \in Seq(Bodies) /\ Len(l1.delayed) \in 0 .. MaxDelayed
      /\ \A k \in 1 .. Len(bs) : OwnFirst(bs[k].segs)
  <2>1. bs \in Seq(Batches) /\ l1.delayed \in Seq(Bodies) /\ Len(l1.delayed) \in 0 .. MaxDelayed
    BY DEF L1Typed
  <2>2. \A k \in 1 .. Len(bs) : bs[k] \in Batches
    BY <2>1, ElementsOf
  <2> QED
    BY <2>1, <2>2, BatchTyped DEF Owned
<1>2. Handed(K) \subseteq Handed(Positions)
  <2>1. K \subseteq Positions
    BY <1>1, Bounds DEF OnL1
  <2> HIDE DEF K
  <2> QED
    BY <2>1 DEF Handed
<1>3. bodies \in [K -> Bodies] /\ count \in Nat
  BY <1>1, BodiesTyped
<1> HIDE DEF bs, g, K, bodies
<1>4. \A k \in 1 .. count : g[k] \in Seq(Handed(K))
  BY DEF StandsFor, g, K, bs
<1>5. front \in Seq(Handed(K))
  <2>1. First(g, count) \in [1 .. count -> Seq(Handed(K))]
    BY <1>4 DEF First
  <2> QED
    BY <1>3, <2>1, FlattenType
<1>6. whole \in Seq(Made) /\ Begins(front, whole)
  <2> DEFINE T == Handed(Positions)
  <2>1. Sequences(g, count, T)
    BY <1>2, <1>4, SeqWiden DEF Sequences
  <2>2. count \in 0 .. Len(bs)
    BY DEF bs
  <2>3. Sequences(Makes(bs, 0), count, Handed(Positions))
    BY <2>1 DEF g
  <2> HIDE DEF T
  <2> QED
    BY ONLY <1>1, <2>2, <2>3, AllExpands DEF g
<1> HIDE DEF front, whole
<1>7. /\ Canonical = [k \in 1 .. Len(whole) |-> Content(whole[k], bodies)]
      /\ log = Resolved(front, bodies)
  <2>1. Canonical = Resolved(whole, bodies)
    BY DEF Canonical, whole, bodies, bs, BodiesOf, OnL1
  <2>2. log = Resolved(front, bodies)
    BY DEF StandsFor, front, bodies, bs, g
  <2> QED
    BY <2>1, <2>2 DEF Resolved, Content
<1>8. /\ log \in Seq(Entries) /\ Len(log) = Len(front)
      /\ \A k \in 1 .. Len(front) : log[k] = Content(front[k], bodies)
  BY <1>3, <1>5, <1>7, ResolvedAt
<1>9. Len(whole) \in Nat /\ Len(front) \in Nat /\ Len(front) <= Len(whole)
      /\ \A k \in 1 .. Len(front) : front[k] = whole[k]
  BY <1>5, <1>6, ElementsOf DEF Begins
<1> DEFINE gives(k) == Content(whole[k], bodies)
           all == [k \in 1 .. Len(whole) |-> gives(k)]
<1>10. /\ Canonical = all /\ Len(all) = Len(whole)
       /\ \A k \in 1 .. Len(whole) : all[k] = gives(k)
  <2>1. Canonical = all
    BY <1>7
  <2> HIDE DEF gives
  <2> QED
    BY <1>9, <2>1
<1>11. \A k \in 1 .. Len(front) : all[k] = log[k]
  <2>1. \A k \in 1 .. Len(front) : k \in 1 .. Len(whole)
    BY <1>9
  <2>2. \A k \in 1 .. Len(front) : all[k] = Content(front[k], bodies)
    <3> HIDE DEF all
    <3> QED
      BY <1>9, <1>10, <2>1
  <2> HIDE DEF all
  <2> QED
    BY <1>8, <2>2
<1>12. all = [k \in 1 .. Len(whole) |-> all[k]]
  OBVIOUS
<1> HIDE DEF all, gives
<1>13. Begins(log, all)
  BY <1>8, <1>9, <1>10, <1>11 DEF Begins
<1> QED
  BY <1>8, <1>9, <1>10, <1>12, <1>13

\* While L1 is not reorged, the reader reads on from where it is and the node does
\* not crash, the log is always the beginning of the messages that L1 orders: cutting
\* L1 into windows loses, repeats and makes up no message.  As for LogCoversRecords,
\* every batch has a message of the sequencer's own before any other, and no segment
\* of an unknown kind.
THEOREM LogStaysCanonical ==
  ASSUME \A segs \in Contents : OwnFirst(segs)
  PROVE  Spec => [](Undisturbed => LogIsCanonical)
<1>1. Owned
  BY DEF Owned
<1>2. CanonInv => (Undisturbed => LogIsCanonical)
  <2> SUFFICES ASSUME CanonInv, Undisturbed PROVE LogIsCanonical
    OBVIOUS
  <2> DEFINE r == Result(todo, db)
             log == LogComes
  <2>1. L1Typed /\ IsStore(db) /\ Sound(todo)
    BY DEF CanonInv, LogInv, CacheInv, Typed, StoreTyped, IsStore
  <2>2. Mirrors(r, l1) /\ StandsFor(log, r[BatchCount], l1) /\ Begins(db[Log], log)
    BY DEF CanonInv, InOrder
  <2>3. r[BatchCount] \in 0 .. Len(l1.batches)
    <3>1. IsStore(r)
      BY <2>1, ResultIsStore
    <3>2. Len(l1.batches) \in Nat
      BY <2>1 DEF L1Typed
    <3> HIDE DEF r
    <3>3. r[BatchCount] \in 0 .. MaxBatches
      BY <3>1, KeysAre DEF IsStore, MayHold
    <3> QED
      BY <2>2, <3>2, <3>3, Bounds DEF Mirrors, MirrorsBatches
  <2> HIDE DEF r, log
  <2>4. /\ log \in Seq(Entries) /\ Len(Canonical) \in Nat
        /\ Canonical = [k \in 1 .. Len(Canonical) |-> Canonical[k]]
        /\ Begins(log, Canonical)
    BY <1>1, <2>1, <2>2, <2>3, StandsForBegins
  <2> DEFINE S == Entries \cup {Canonical[k] : k \in 1 .. Len(Canonical)}
             can == Canonical
             now == db[Log]
  <2>5. can \in Seq(S) /\ log \in Seq(S) /\ now \in Seq(S)
    <3>1. Canonical \in [1 .. Len(Canonical) -> S]
      BY <2>4
    <3>2. Canonical \in Seq(S)
      <4> HIDE DEF S
      <4> QED
        BY <2>4, <3>1, FunctionIsSeq
    <3>3. now \in Seq(Entries)
      BY DEF CanonInv, LogInv, LogRoom
    <3>4. Entries \subseteq S
      OBVIOUS
    <3> HIDE DEF S, now
    <3> QED
      BY <2>4, <3>2, <3>3, <3>4, SeqWiden
  <2>6. Begins(now, log) /\ Begins(log, can)
    BY <2>2, <2>4
  <2> HIDE DEF S, can, now
  <2>7. Begins(now, can)
    BY ONLY <2>5, <2>6, BeginsTransitive
  <2>8. IsPrefix(now, can)
    BY ONLY <2>5, <2>7, PrefixBegins
  <2> QED
    BY <2>8 DEF LogIsCanonical, now, can
<1>3. CanonInv /\ [Next]_vars => CanonInv'
  BY <1>1, NextCanon
<1> QED
  BY <1>2, <1>3, InitCanon, PTL DEF Spec

(***************************************************************************)
(* How many messages are recorded.                                         *)
(***************************************************************************)

\* A sequencer's batch has no more delayed segments than delayed messages to read.
SegmentsFit ==
  \A k \in 1 .. Len(l1.batches) :
    LET b == l1.batches[k]
    IN  DelayedBefore(b, Len(b.segs) + 1) <= Span(b, ReadsFrom(l1.batches, 0, k))

\* The message count of the last batch of a store.
LastCount(d) == IF d[BatchCount] = 0 THEN 0 ELSE d[Meta(d[BatchCount] - 1)].messages

\* The count that is recorded for a window is what the log comes to.
LEMMA WindowCounts ==
  ASSUME InStep, Owned, SegmentsFit, NEW last \in Numbers, Streamable(last)
  PROVE  LET first == db[BatchCount]
         IN  MessageCounts(first, last)[last] =
               Len(db[Log] \o Resolved(Stream(first, last).out, KnownBodies))
<1> DEFINE first == db[BatchCount]
           prev == PrevMeta(first)
           m == last - first + 1
           g == Makes(l1.batches, 0)
           h == [k \in 1 .. m |-> g[first + k]]
           made == Stream(first, last).out
           out == Resolved(made, KnownBodies)
           counts == MessageCounts(first, last)
           flat(j) == FlattenSeq(First(h, j))
           S == Handed(KnownDelayed)
           wrong == {j \in 0 .. m : counts[first + j - 1] # prev.messages + Len(flat(j))}
           own(j) == L2Count(l1.batches[first + j + 1])
           span(j) == Span(l1.batches[first + j + 1], DelayedUpTo(first, first + j - 1))
<1>1. /\ Window(first, last) /\ prev.delayed = ReadsFrom(l1.batches, 0, first + 1)
      /\ Len(db[Log]) = prev.messages
  BY WindowStarts
<1>3. h \in [1 .. m -> Seq(S)] /\ made = FlattenSeq(h)
  BY WindowMakes
<1>4. /\ first \in Nat /\ last \in Nat /\ first <= last /\ last < Len(l1.batches)
      /\ Len(l1.batches) \in Nat /\ L1Typed /\ prev \in BatchMetadata /\ m \in Nat /\ m >= 1
  <2>1. /\ first \in Nat /\ last \in Nat /\ first <= last /\ last < Len(l1.batches)
        /\ Len(l1.batches) \in Nat /\ L1Typed /\ prev \in BatchMetadata
    BY <1>1, Bounds DEF Window, L1Typed
  <2> HIDE DEF first, prev
  <2> QED
    BY ONLY <2>1 DEF m
<1> HIDE DEF made, m, S
<1>5. /\ counts[first - 1] = prev.messages
      /\ \A n \in first .. last :
           counts[n] = counts[n - 1] + L2Count(l1.batches[n + 1])
                       + Span(l1.batches[n + 1], DelayedUpTo(first, n - 1))
  BY <1>4, CountsAre
<1>6. ASSUME NEW j \in 0 .. m PROVE flat(j) \in Seq(S) /\ Len(flat(j)) \in Nat
  <2>1. First(h, j) \in [1 .. j -> Seq(S)] /\ j \in Nat
    <3> HIDE DEF h
    <3>1. j \in Nat /\ \A k \in 1 .. j : k \in 1 .. m
      BY <1>4, <1>6
    <3>2. \A k \in 1 .. j : h[k] \in Seq(S)
      BY <1>3, <3>1
    <3> QED
      BY ONLY <3>1, <3>2 DEF First
  <2>2. flat(j) \in Seq(S)
    BY <2>1, FlattenType
  <2> HIDE DEF flat
  <2> QED
    BY <2>2, ElementsOf
\* The messages of the batch at place j + 1 of the window.
<1>7. ASSUME NEW j \in 0 .. m - 1
      PROVE  /\ h[j + 1] \in Seq(S)
             /\ own(j) \in Nat /\ span(j) \in Nat /\ Len(h[j + 1]) = own(j) + span(j)
  <2> DEFINE k == first + j + 1
             b == l1.batches[k]
             r == ReadsFrom(l1.batches, 0, k)
             msgs == SlotMessages(b, r, Slots(b, r))
  <2>1. /\ j + 1 \in 1 .. m /\ first + (j + 1) = k /\ k \in 1 .. Len(l1.batches) /\ j \in Nat
        /\ k - 1 = first + j
    <3> HIDE DEF first
    <3> QED
      BY ONLY <1>4, <1>7 DEF m
  <2>2. l1.batches \in Seq(Batches)
    BY <1>4 DEF L1Typed
  <2> HIDE DEF k
  <2>3. b \in Batches /\ r \in Nat /\ Span(b, r) \in Nat
    BY <2>1, <2>2, SpanTyped
  <2>4. OwnFirst(b.segs)
    BY <2>3, BatchTyped DEF Owned
  <2>5. h[j + 1] = g[k] /\ h[j + 1] \in Seq(S)
    <3>1. h[j + 1] \in Seq(S)
      <4> HIDE DEF h
      <4> QED
        BY <1>3, <2>1
    <3>2. h[j + 1] = g[first + (j + 1)]
      <4> HIDE DEF g
      <4> QED
        BY <2>1
    <3> QED
      BY <2>1, <3>1, <3>2
  <2>6. g[k] = msgs
    BY <2>1 DEF Makes
  <2>7. DelayedBefore(b, Len(b.segs) + 1) <= Span(b, r)
    BY <2>1 DEF SegmentsFit
  <2>8. L2Count(b) \in Nat /\ Len(msgs) = L2Count(b) + Span(b, r)
    <3> HIDE DEF b, r
    <3> QED
      BY <2>3, <2>4, <2>7, OwnMessages, VisibleSplits
  <2>9. DelayedUpTo(first, first + j - 1) = r
    <3>1. CASE j = 0
      <4>1. first + j - 1 < first /\ k = first + 1
        BY <1>4, <2>1, <3>1
      <4> QED
        BY <1>1, <4>1 DEF DelayedUpTo, prev
    <3>2. CASE j # 0
      <4>1. ~ (first + j - 1 < first) /\ (first + j - 1) + 1 = k - 1 /\ k # 1
        BY <1>4, <2>1, <3>2
      <4> QED
        BY <4>1 DEF DelayedUpTo, ReadsFrom
    <3> QED
      BY <3>1, <3>2
  <2> HIDE DEF b, r, h, g, msgs
  <2>10. b = l1.batches[first + j + 1]
    BY DEF b, k
  <2> QED
    BY <2>3, <2>5, <2>6, <2>8, <2>9, <2>10
<1> HIDE DEF h, counts, prev, own, span
<1>8. 0 \notin wrong
  <2>1. Len(flat(0)) = 0 /\ first + 0 - 1 = first - 1
    BY <1>4, FlattenNone
  <2>2. prev.messages \in Nat
    BY <1>4 DEF BatchMetadata
  <2> HIDE DEF flat
  <2> QED
    BY <1>5, <2>1, <2>2
<1>9. ASSUME NEW j \in 0 .. m - 1, j \notin wrong PROVE j + 1 \notin wrong
  <2>1. j \in 0 .. m /\ j \in Nat /\ j + 1 \in 0 .. m
    BY <1>4
  <2>2. counts[first + j - 1] = prev.messages + Len(flat(j))
    BY <1>9, <2>1
  <2> DEFINE n == first + j
             old == counts[n - 1]
             new == counts[n]
             before == flat(j)
             after == flat(j + 1)
             it == h[j + 1]
  <2>3. n \in first .. last /\ n - 1 = first + j - 1 /\ first + (j + 1) - 1 = n
    BY <1>4, <2>1 DEF m
  <2>4. flat(j + 1) = flat(j) \o h[j + 1]
    <3>1. \A k \in 1 .. j + 1 : h[k] \in Seq(S)
      <4>1. \A k \in 1 .. j + 1 : k \in 1 .. m
        BY <1>4, <2>1
      <4> QED
        BY <1>3, <4>1
    <3> QED
      BY <2>1, <3>1, FlattenGrows
  <2>5. /\ it \in Seq(S) /\ own(j) \in Nat /\ span(j) \in Nat
        /\ Len(it) = own(j) + span(j)
    BY <1>7
  <2>6. flat(j) \in Seq(S) /\ Len(flat(j)) \in Nat
    BY <1>6, <2>1
  <2>7. new = old + own(j) + span(j)
    BY <1>5, <2>3 DEF own, span
  <2>8. before \in Seq(S) /\ Len(before) \in Nat /\ after = before \o it
    BY <2>4, <2>6
  <2>9. old = prev.messages + Len(before)
    BY <2>2, <2>3
  <2>10. prev.messages \in Nat
    BY <1>4 DEF BatchMetadata
  <2> DEFINE msgs == prev.messages
             long == Len(before)
             o == own(j)
             s == span(j)
  <2> HIDE DEF old, new, before, after, it
  <2>11. Len(after) = long + (o + s)
    BY <2>5, <2>8, ConcatIs
  <2>12. new = msgs + Len(after)
    <3>1. msgs \in Nat /\ long \in Nat /\ o \in Nat /\ s \in Nat
      BY <2>5, <2>8, <2>10
    <3>2. new = old + o + s /\ old = msgs + long
      BY <2>7, <2>9
    <3> HIDE DEF msgs, long, o, s
    <3> QED
      BY ONLY <2>11, <3>1, <3>2
  <2> HIDE DEF n, flat
  <2>13. counts[first + (j + 1) - 1] = prev.messages + Len(flat(j + 1))
    BY <2>3, <2>12 DEF new, after
  <2> QED
    BY <2>13
<1> HIDE DEF flat
<1>10. wrong = {}
  <2> SUFFICES ASSUME wrong # {} PROVE FALSE
    OBVIOUS
  <2>1. PICK j \in wrong : \A i \in wrong : j <= i
    <3>1. wrong \in SUBSET Nat
      OBVIOUS
    <3> HIDE DEF wrong
    <3> QED
      BY <3>1, LeastOf
  <2>2. j \in 0 .. m /\ j # 0
    BY <1>8, <2>1
  <2>3. j - 1 \in 0 .. m - 1 /\ (j - 1) + 1 = j /\ ~ (j <= j - 1)
    BY <1>4, <2>2
  <2>4. j - 1 \notin wrong
    <3> HIDE DEF wrong
    <3> QED
      BY <2>1, <2>3
  <2>5. j \notin wrong
    <3> HIDE DEF wrong
    <3> QED
      BY <1>9, <2>3, <2>4
  <2> QED
    BY <2>1, <2>5
<1>11. counts[last] = prev.messages + Len(made)
  <2>1. m \in 0 .. m /\ first + m - 1 = last
    BY <1>4 DEF m
  <2>2. counts[first + m - 1] = prev.messages + Len(flat(m))
    BY <1>10, <2>1
  <2>3. First(h, m) = h
    BY <1>3 DEF First
  <2> QED
    BY <1>3, <2>1, <2>2, <2>3 DEF flat
<1>12. /\ made \in Seq(S) /\ KnownBodies \in [KnownDelayed -> Bodies]
       /\ db[Log] \in Seq(Entries)
  <2>1. made \in Seq(S)
    BY <1>3, <1>4, FlattenType
  <2> QED
    BY <2>1, KnownTyped DEF InStep, LogInv, CacheInv, Typed, LogRoom
<1>13. Len(db[Log] \o out) = Len(db[Log]) + Len(made)
  <2>1. out \in Seq(Entries) /\ Len(out) = Len(made)
    BY <1>12, ResolvedIs DEF S
  <2> DEFINE log == db[Log]
  <2> HIDE DEF out, log
  <2>2. log \in Seq(Entries)
    BY <1>12 DEF log
  <2>3. Len(log \o out) = Len(log) + Len(out)
    BY <2>1, <2>2, ConcatIs
  <2> QED
    BY <2>1, <2>3 DEF log
<1> HIDE DEF out
<1>14. counts[last] = Len(db[Log] \o out)
  BY <1>1, <1>11, <1>13
<1> QED
  BY <1>14 DEF counts, out, made

\* Once the call under way has written all its keys, the log ends where the last
\* recorded batch says it does.
CountedInv ==
  CanonInv /\ (Undisturbed /\ SegmentsFit => Len(LogComes) = LastCount(Result(todo, db)))

\* L1 only grows until it is reorged, and a batch reads what it read.
LEMMA StillFit ==
  ASSUME L1Typed, L1Typed', Posted, SegmentsFit',
         \/ \E body \in Bodies : L1Delayed(body)
         \/ \E segs \in Contents, after \in 0 .. MaxDelayed : L1Batch(segs, after)
  PROVE  SegmentsFit
<1> DEFINE bs == l1.batches
           more == l1'.batches
<1>1. Continued(bs, more)
  BY L1Grows
<1>2. bs \in Seq(Batches) /\ more \in Seq(Batches)
  BY DEF L1Typed
<1>3. \A k \in 1 .. Len(more) :
        DelayedBefore(more[k], Len(more[k].segs) + 1) <= Span(more[k], ReadsFrom(more, 0, k))
  BY DEF SegmentsFit
<1> HIDE DEF bs, more
<1>4. ASSUME NEW k \in 1 .. Len(bs)
      PROVE  DelayedBefore(bs[k], Len(bs[k].segs) + 1) <= Span(bs[k], ReadsFrom(bs, 0, k))
  <2>1. k \in 1 .. Len(more) /\ ReadsFrom(more, 0, k) = ReadsFrom(bs, 0, k)
    BY ONLY <1>1, <1>2, <1>4, MakesMore
  <2>2. more[k] = bs[k]
    BY <1>1, <1>4 DEF Continued
  <2> QED
    BY <1>3, <2>1, <2>2
<1> QED
  BY <1>4 DEF SegmentsFit, bs

\* Storing delayed messages leaves the last batch and the log as they are.
LEMMA StoredCounts ==
  ASSUME CanonInv, LogInv', Undisturbed, Undisturbed',
         NEW first \in Positions, NEW last \in Positions, AddDelayed(first, last),
         Len(db[Log]) = LastCount(db)
  PROVE  Len(LogComes') = LastCount(Result(todo', db'))
<1> DEFINE r == Result(todo', db)
<1>1. Idle /\ db' = db
  BY DEF AddDelayed
<1>2. L1Typed /\ StoreTyped /\ UsedTyped
  BY DEF CanonInv, LogInv, CacheInv, Typed
<1>3. /\ r[BatchCount] = db[BatchCount]
      /\ \A n \in Numbers : n < db[BatchCount] => r[Meta(n)] = db[Meta(n)]
  BY <1>1, <1>2, IdleInStep, AddDelayedMirrors DEF InStep
<1>4. LogComes' = db[Log]
  BY StoresNoLog DEF CanonInv
<1> HIDE DEF r
<1>5. LastCount(r) = LastCount(db)
  <2>1. CASE db[BatchCount] = 0
    BY <1>3, <2>1 DEF LastCount
  <2>2. CASE db[BatchCount] # 0
    <3>1. db[BatchCount] - 1 \in Numbers /\ db[BatchCount] - 1 < db[BatchCount]
      <4> DEFINE count == db[BatchCount]
      <4>1. count \in 0 .. MaxBatches /\ count # 0
        BY <1>2, <2>2, StoredValues
      <4> HIDE DEF count
      <4>2. count - 1 \in Numbers /\ count - 1 < count
        BY ONLY <4>1, Bounds
      <4> QED
        BY <4>2 DEF count
    <3>2. r[Meta(db[BatchCount] - 1)] = db[Meta(db[BatchCount] - 1)]
      BY <1>3, <3>1
    <3> QED
      BY <1>3, <2>2, <3>2 DEF LastCount
  <2> QED
    BY <2>1, <2>2
<1> QED
  BY <1>1, <1>4, <1>5 DEF r

\* A window of batches is counted as it is streamed.
LEMMA StreamedCounts ==
  ASSUME Owned, CanonInv, Undisturbed, SegmentsFit, NEW last \in Numbers, AddBatches(last)
  PROVE  Len(LogComes') = LastCount(Result(todo', db'))
<1> DEFINE first == db[BatchCount]
           out == Resolved(Stream(first, last).out, KnownBodies)
           grown == db[Log] \o out
           w == WindowWrites(first, last, out)
           r == Result(w, db)
<1>1. Streamable(last) /\ todo' = w /\ db' = db /\ Idle
  BY DEF AddBatches, Streamable
<1>2. InStep /\ Posted
  BY <1>1, IdleInStep
<1>3. Window(first, last) /\ Accepted(first, last) /\ StoreTyped /\ RecordsGood(db)
  BY <1>1, <1>2, WindowStarts, WindowAccepted DEF InStep, LogInv, CacheInv, Typed
<1>4. MessageCounts(first, last)[last] = Len(grown)
  BY <1>1, <1>2, WindowCounts
<1> HIDE DEF out
<1>5. LogComes' = grown
  <2>1. w # <<>> /\ w[1] = [key |-> Log, val |-> grown]
    BY <1>3, WindowFirst
  <2> HIDE DEF w, grown
  <2> QED
    BY <1>1, <2>1 DEF LogComes
<1>6. first \in Nat /\ last \in Nat /\ first <= last
  BY <1>3, Bounds DEF Window
<1>7. r[BatchCount] = last + 1 /\ r[Meta(last)] = NewMeta(first, last, last)
  <2>1. /\ r[BatchCount] = last + 1
        /\ \A n \in Numbers : n \in first .. last => r[Meta(n)] = NewMeta(first, last, n)
    BY <1>3, WindowResult
  <2>2. last \in first .. last
    BY <1>6
  <2> HIDE DEF r
  <2> QED
    BY <2>1, <2>2
<1> HIDE DEF w, r, grown, first
<1>8. NewMeta(first, last, last).messages = MessageCounts(first, last)[last]
  BY DEF NewMeta
<1>9. LastCount(r) = MessageCounts(first, last)[last]
  <2>1. last + 1 # 0 /\ (last + 1) - 1 = last
    BY <1>6
  <2> QED
    BY <1>7, <1>8, <2>1 DEF LastCount
<1>10. Result(todo', db') = r
  BY <1>1 DEF r
<1> QED
  BY <1>4, <1>5, <1>9, <1>10

LEMMA NextCounted ==
  ASSUME Owned, CountedInv, [Next]_vars
  PROVE  CountedInv'
<1>1. CanonInv /\ CanonInv'
  BY NextCanon DEF CountedInv
<1> SUFFICES ASSUME Undisturbed', SegmentsFit'
             PROVE  Len(LogComes') = LastCount(Result(todo', db'))
  BY <1>1 DEF CountedInv, LastCount, Result
<1>2. /\ L1Typed /\ StoreTyped /\ UsedTyped /\ L1Typed' /\ LogInv /\ LogInv'
      /\ CacheInv /\ CacheInv'
  BY <1>1 DEF CanonInv, LogInv, CacheInv, Typed
<1>3. /\ Undisturbed /\ ~ Crash
      /\ \A d \in 0 .. MaxDelayed, n \in 0 .. MaxBatches : ~ L1Reorg(d, n)
  BY <1>2, StillUndisturbed
<1>4. SegmentsFit => Len(LogComes) = LastCount(Result(todo, db))
  BY <1>3 DEF CountedInv
<1>5. l1' = l1 => SegmentsFit
  BY DEF SegmentsFit
<1>6. ASSUME Idle, SegmentsFit PROVE Len(db[Log]) = LastCount(db)
  <2>1. IsStore(db) /\ todo = <<>>
    BY <1>2, <1>6 DEF StoreTyped, IsStore, Idle
  <2>2. Result(todo, db) = db /\ LogComes = db[Log]
    BY <2>1, ResultOfNone DEF LogComes
  <2> QED
    BY <1>4, <1>6, <2>2
<1>7. CASE SegmentsFit /\ db' = db /\ todo' = todo
  <2>1. LogComes' = LogComes
    BY <1>7 DEF LogComes
  <2> QED
    BY <1>4, <1>7, <2>1
<1>8. CASE UNCHANGED vars
  BY <1>5, <1>7, <1>8 DEF vars
<1>9. CASE \/ \E body \in Bodies : L1Delayed(body)
           \/ \E segs \in Contents, after \in 0 .. MaxDelayed : L1Batch(segs, after)
  <2>1. db' = db /\ todo' = todo
    BY <1>9 DEF L1Delayed, L1Batch
  <2>2. Posted
    BY <1>1, <1>3 DEF CanonInv, InOrder
  <2>3. SegmentsFit
    BY <1>2, <1>9, <2>2, StillFit
  <2> QED
    BY <1>7, <2>1, <2>3
<1>10. ASSUME NEW first \in Positions, NEW last \in Positions, AddDelayed(first, last)
       PROVE  Len(LogComes') = LastCount(Result(todo', db'))
  <2>1. Idle /\ l1' = l1
    BY <1>10 DEF AddDelayed
  <2>2. Len(db[Log]) = LastCount(db)
    BY <1>5, <1>6, <2>1
  <2> QED
    BY <1>1, <1>2, <1>3, <1>10, <2>2, StoredCounts
<1>11. CASE ReorgDelayed
  <2>1. Idle /\ Len(l1.delayed) < db[DelayedCount]
    BY <1>11 DEF ReorgDelayed
  <2>2. db[DelayedCount] <= Len(l1.delayed)
    BY <1>1, <1>3, <2>1, IdleInStep DEF InStep, Mirrors, MirrorsDelayed
  <2>3. db[DelayedCount] \in Nat /\ Len(l1.delayed) \in Nat
    BY <1>2, StoredValues, Bounds DEF L1Typed
  <2> QED
    BY <2>1, <2>2, <2>3
<1>12. CASE GetBatchCount
  <2>1. Idle /\ Repaired # db[BatchCount]
    BY <1>12 DEF GetBatchCount
  <2> QED
    BY <1>1, <1>2, <1>3, <2>1, IdleInStep, CountIsRight DEF InStep
<1>13. ASSUME NEW n \in Numbers, GetBatchMetadata(n)
       PROVE  Len(LogComes') = LastCount(Result(todo', db'))
  BY <1>5, <1>7, <1>13 DEF GetBatchMetadata
<1>14. ASSUME NEW last \in Numbers, AddBatches(last)
       PROVE  Len(LogComes') = LastCount(Result(todo', db'))
  <2>1. SegmentsFit
    BY <1>5, <1>14 DEF AddBatches
  <2> QED
    BY <1>1, <1>3, <1>14, <2>1, StreamedCounts
<1>15. CASE WriteKey
  <2>1. l1' = l1
    BY <1>15 DEF WriteKey
  <2>2. Result(todo', db') = Result(todo, db)
    BY <1>2, <1>15, WriteKeyResult
  <2>3. LogComes' = LogComes
    BY <1>2, <1>15, WriteKeyLog
  <2> QED
    BY <1>4, <1>5, <2>1, <2>2, <2>3
<1> QED
  BY <1>3, <1>8, <1>9, <1>10, <1>11, <1>12, <1>13, <1>14, <1>15 DEF Next, Reader

\* While L1 is not reorged, the reader reads on from where it is and the node does
\* not crash, the log ends between calls where the last recorded batch says it does,
\* so that no window is refused as non-contiguous: the count that the tracker adds
\* up from a batch's segments is the number of messages that the multiplexer makes
\* of them.  Every batch is as for LogStaysCanonical, and has delayed segments only
\* for delayed messages that it adds.
THEOREM LogStaysCounted ==
  ASSUME \A segs \in Contents : OwnFirst(segs)
  PROVE  Spec => [](Undisturbed /\ SegmentsFit => LogMatchesMetadata)
<1>1. Owned
  BY DEF Owned
<1>2. Init => CountedInv
  <2> SUFFICES ASSUME Init PROVE CountedInv
    OBVIOUS
  <2>1. CanonInv
    BY InitCanon
  <2>2. todo = <<>> /\ IsStore(db)
    BY <2>1 DEF Init, CanonInv, LogInv, CacheInv, Typed, StoreTyped, IsStore
  <2>3. Result(todo, db) = db /\ LogComes = db[Log]
    BY <2>2, ResultOfNone DEF LogComes
  <2>4. \A key \in Keys : db[key] = CASE key \in {DelayedCount, BatchCount} -> 0
                                      [] key = Log -> <<>>
                                      [] OTHER -> Absent
    BY DEF Init
  <2>5. db[Log] = <<>> /\ db[BatchCount] = 0
    BY <2>4, KeysAre, KeysDiffer
  <2> QED
    BY <2>1, <2>3, <2>5 DEF CountedInv, LastCount
<1>3. CountedInv => (Undisturbed /\ SegmentsFit => LogMatchesMetadata)
  <2> SUFFICES ASSUME CountedInv, Undisturbed, SegmentsFit, Idle
               PROVE  Len(db[Log]) = IF Repaired = 0 THEN 0 ELSE db[Meta(Repaired - 1)].messages
    BY DEF LogMatchesMetadata
  <2>1. IsStore(db) /\ todo = <<>> /\ StoreTyped
    BY DEF CountedInv, CanonInv, LogInv, CacheInv, Typed, StoreTyped, IsStore, Idle
  <2>2. Result(todo, db) = db /\ LogComes = db[Log]
    BY <2>1, ResultOfNone DEF LogComes
  <2>3. Len(db[Log]) = LastCount(db)
    BY <2>2 DEF CountedInv
  <2>4. Repaired = db[BatchCount]
    BY <2>1, IdleInStep, CountIsRight DEF CountedInv, InStep
  <2> QED
    BY <2>3, <2>4 DEF LastCount
<1>4. CountedInv /\ [Next]_vars => CountedInv'
  BY <1>1, NextCounted
<1> QED
  BY <1>2, <1>3, <1>4, PTL DEF Spec

=============================================================================

------------------------- MODULE InboxReaderProofs -------------------------
(***************************************************************************)
(* Theorems about the inbox reader for every size of its windows, however  *)
(* long L1 is and however often calls fail, L1 reorgs and the node         *)
(* restarts.                                                               *)
(***************************************************************************)
EXTENDS InboxReader, InductionLemmas

(***************************************************************************)
(* What L1 orders.                                                         *)
(***************************************************************************)

Posts == [at : Nat, body : Bodies]

OneMessage == <<[kind |-> "l2", by |-> 0]>>

Posted == [id : Nat, at : Nat, loc : Locations, after : Nat,
           segs : {<<>>, OneMessage}, delayedAcc : Seq(Posts)]

L1Blocks == [delayed : Seq(Posts), batches : Seq(Posted)]

\* Batches as L1 orders them: numbered, each on as many delayed messages as it
\* says, and none on fewer than one before it.
Ordered(bs) ==
  /\ \A k \in 1 .. Len(bs) : /\ bs[k].id = k - 1
                             /\ Len(bs[k].delayedAcc) = bs[k].after
                             /\ bs[k].loc # 2 => bs[k].segs = OneMessage
  /\ \A j, k \in 1 .. Len(bs) : j <= k => bs[j].after <= bs[k].after

\* What the first h blocks of c order.
DelayedOf(c, h) == FlattenSeq(First([k \in 1 .. Len(c) |-> c[k].delayed], h))
BatchesOf(c, h) == FlattenSeq(First([k \in 1 .. Len(c) |-> c[k].batches], h))

\* The blocks of L1: batches know their block, and up to any block are ordered.
ChainOK(c) ==
  /\ c \in Seq(L1Blocks)
  /\ \A h \in 1 .. Len(c) : \A k \in 1 .. Len(c[h].batches) : c[h].batches[k].at = h
  /\ \A h \in 0 .. Len(c) : Ordered(BatchesOf(c, h))

LEMMA OfType ==
  ASSUME NEW c \in Seq(L1Blocks), NEW h \in 0 .. Len(c)
  PROVE  DelayedOf(c, h) \in Seq(Posts) /\ BatchesOf(c, h) \in Seq(Posted)
<1> DEFINE d == [k \in 1 .. Len(c) |-> c[k].delayed]
           b == [k \in 1 .. Len(c) |-> c[k].batches]
<1>1. \A k \in 1 .. Len(c) : c[k] \in L1Blocks
  OBVIOUS
<1>2. First(d, h) \in [1 .. h -> Seq(Posts)] /\ First(b, h) \in [1 .. h -> Seq(Posted)]
  BY <1>1 DEF First, L1Blocks
<1>3. h \in Nat
  OBVIOUS
<1> QED
  BY <1>2, <1>3, FlattenType DEF DelayedOf, BatchesOf

LEMMA OfNone ==
  ASSUME NEW c
  PROVE  DelayedOf(c, 0) = <<>> /\ BatchesOf(c, 0) = <<>>
BY FlattenNone DEF DelayedOf, BatchesOf

LEMMA OfStep ==
  ASSUME NEW c \in Seq(L1Blocks), NEW h \in Nat, h < Len(c)
  PROVE  /\ DelayedOf(c, h + 1) = DelayedOf(c, h) \o c[h + 1].delayed
         /\ BatchesOf(c, h + 1) = BatchesOf(c, h) \o c[h + 1].batches
<1> DEFINE d == [k \in 1 .. Len(c) |-> c[k].delayed]
           b == [k \in 1 .. Len(c) |-> c[k].batches]
<1>1. \A k \in 1 .. Len(c) : c[k] \in L1Blocks
  OBVIOUS
<1>2. \A k \in 1 .. h + 1 : d[k] \in Seq(Posts) /\ b[k] \in Seq(Posted)
  BY <1>1 DEF L1Blocks
<1>3. d[h + 1] = c[h + 1].delayed /\ b[h + 1] = c[h + 1].batches
  OBVIOUS
<1> HIDE DEF d, b
<1>4. FlattenSeq(First(d, h + 1)) = FlattenSeq(First(d, h)) \o d[h + 1]
  BY <1>2, FlattenGrows
<1>5. FlattenSeq(First(b, h + 1)) = FlattenSeq(First(b, h)) \o b[h + 1]
  BY <1>2, FlattenGrows
<1> QED
  BY <1>3, <1>4, <1>5 DEF DelayedOf, BatchesOf, d, b

LEMMA OfBegins ==
  ASSUME NEW c \in Seq(L1Blocks), NEW i \in 0 .. Len(c), NEW j \in i .. Len(c)
  PROVE  /\ Begins(DelayedOf(c, i), DelayedOf(c, j))
         /\ Begins(BatchesOf(c, i), BatchesOf(c, j))
<1> DEFINE d == [k \in 1 .. Len(c) |-> c[k].delayed]
           b == [k \in 1 .. Len(c) |-> c[k].batches]
<1>1. \A k \in 1 .. Len(c) : c[k] \in L1Blocks
  OBVIOUS
<1>2. d \in [1 .. Len(c) -> Seq(Posts)] /\ b \in [1 .. Len(c) -> Seq(Posted)] /\ Len(c) \in Nat
  BY <1>1 DEF L1Blocks
<1> HIDE DEF d, b
<1>3. Begins(FlattenSeq(First(d, i)), FlattenSeq(First(d, j)))
  BY <1>2, FlattenBegins
<1>4. Begins(FlattenSeq(First(b, i)), FlattenSeq(First(b, j)))
  BY <1>2, FlattenBegins
<1> QED
  BY <1>3, <1>4 DEF DelayedOf, BatchesOf, d, b

\* Chains with the same first h blocks.
LEMMA OfSame ==
  ASSUME NEW c \in Seq(L1Blocks), NEW e \in Seq(L1Blocks), NEW h \in Nat,
         h <= Len(c), h <= Len(e), \A k \in 1 .. h : c[k] = e[k]
  PROVE  DelayedOf(c, h) = DelayedOf(e, h) /\ BatchesOf(c, h) = BatchesOf(e, h)
<1>1. First([k \in 1 .. Len(c) |-> c[k].delayed], h) = First([k \in 1 .. Len(e) |-> e[k].delayed], h)
  BY DEF First
<1>2. First([k \in 1 .. Len(c) |-> c[k].batches], h) = First([k \in 1 .. Len(e) |-> e[k].batches], h)
  BY DEF First
<1> QED
  BY <1>1, <1>2 DEF DelayedOf, BatchesOf

\* What the bridges look up.
LEMMA AtIsOf ==
  ASSUME NEW c \in Seq(L1Blocks), NEW h \in Nat
  PROVE  /\ Least(h, Len(c)) \in 0 .. Len(c)
         /\ FlattenSeq([k \in 1 .. Least(h, Len(c)) |-> c[k].delayed]) = DelayedOf(c, Least(h, Len(c)))
         /\ FlattenSeq([k \in 1 .. Least(h, Len(c)) |-> c[k].batches]) = BatchesOf(c, Least(h, Len(c)))
<1> DEFINE m == Least(h, Len(c))
<1>1. m \in 0 .. Len(c)
  BY DEF Least
<1> HIDE DEF m
<1>2. [k \in 1 .. m |-> c[k].delayed] = First([k \in 1 .. Len(c) |-> c[k].delayed], m)
  BY <1>1 DEF First
<1>3. [k \in 1 .. m |-> c[k].batches] = First([k \in 1 .. Len(c) |-> c[k].batches], m)
  BY <1>1 DEF First
<1> QED
  BY <1>1, <1>2, <1>3 DEF DelayedOf, BatchesOf, m

\* A batch of the first h blocks is of one of them.
LEMMA PostedIn ==
  ASSUME NEW c, ChainOK(c), NEW h \in 0 .. Len(c), NEW k \in 1 .. Len(BatchesOf(c, h))
  PROVE  BatchesOf(c, h)[k].at <= h
<1> DEFINE Within(i) == \A n \in 1 .. Len(BatchesOf(c, i)) : BatchesOf(c, i)[n].at <= i
           Bad == {i \in 0 .. Len(c) : ~Within(i)}
<1>1. c \in Seq(L1Blocks)
  BY DEF ChainOK
<1>2. Within(0)
  BY OfNone
<1>3. ASSUME NEW i \in 0 .. Len(c), i > 0, Within(i - 1) PROVE Within(i)
  <2>1. (i - 1) + 1 = i /\ i \in 1 .. Len(c) /\ i - 1 \in Nat /\ i - 1 < Len(c)
        /\ i - 1 \in 0 .. Len(c)
    BY <1>1, <1>3
  <2>2. BatchesOf(c, (i - 1) + 1) = BatchesOf(c, i - 1) \o c[(i - 1) + 1].batches
    BY <1>1, <2>1, OfStep
  <2>3. c[i] \in L1Blocks /\ \A n \in 1 .. Len(c[i].batches) : c[i].batches[n].at = i
    BY <1>1, <2>1 DEF ChainOK
  <2>4. BatchesOf(c, i - 1) \in Seq(Posted) /\ c[i].batches \in Seq(Posted)
    BY <1>1, <2>1, <2>3, OfType DEF L1Blocks
  <2> DEFINE old == BatchesOf(c, i - 1)
             new == c[i].batches
  <2>5. BatchesOf(c, i) = old \o new
    BY <2>2, <2>1
  <2>6. old \in Seq(Posted) /\ new \in Seq(Posted)
        /\ (\A n \in 1 .. Len(old) : old[n].at <= i - 1)
        /\ (\A n \in 1 .. Len(new) : new[n].at = i)
    BY <1>3, <2>3, <2>4
  <2> HIDE DEF old, new
  <2>7. \A n \in 1 .. Len(old) : old[n].at \in Nat
    <3>1. \A n \in 1 .. Len(old) : old[n] \in Posted
      BY <2>6
    <3> QED
      BY <3>1 DEF Posted
  <2>8. ASSUME NEW n \in 1 .. Len(old \o new) PROVE (old \o new)[n].at <= i
    <3>1. CASE n <= Len(old)
      <4>1. (old \o new)[n] = old[n] /\ n \in 1 .. Len(old)
        BY <2>6, <3>1
      <4> QED
        BY <2>1, <2>7, <2>6, <4>1
    <3>2. CASE n > Len(old)
      <4>1. (old \o new)[n] = new[n - Len(old)] /\ n - Len(old) \in 1 .. Len(new)
        BY <2>6, <3>2
      <4> QED
        BY SMTT(30), <2>6, <4>1
    <3> QED
      BY <2>6, <3>1, <3>2
  <2> QED
    BY <2>5, <2>8
<1>4. SUFFICES ASSUME ~Within(h) PROVE FALSE
  OBVIOUS
<1> HIDE DEF Within
<1>5. Bad \in SUBSET Nat /\ Bad # {}
  BY <1>4
<1>6. PICK i \in Bad : \A n \in Bad : i <= n
  <2> HIDE DEF Bad
  <2> QED
    BY <1>5, LeastOf
<1>7. i > 0 /\ i \in 0 .. Len(c) /\ ~Within(i)
  BY <1>2
<1>8. i - 1 \in 0 .. Len(c) /\ Within(i - 1)
  BY <1>6, <1>7
<1> QED
  BY <1>3, <1>7, <1>8

\* A block that L1 may order continues what the blocks before it ordered.
LEMMA BlockContinues ==
  ASSUME NEW h \in Nat, NEW delayed \in Seq(Posts), NEW batches \in Seq(Posted),
         Ordered(batches), NEW b \in Blocks(h, delayed, batches)
  PROVE  /\ b \in L1Blocks
         /\ \A k \in 1 .. Len(b.batches) : b.batches[k].at = h
         /\ Ordered(batches \o b.batches)
<1> DEFINE read == IF batches = <<>> THEN 0 ELSE batches[Len(batches)].after
           msgs == {<<>>} \cup (IF Len(delayed) < MaxDelayed
                                THEN {<<[at |-> h, body |-> x]>> : x \in Bodies} ELSE {})
           New(m, loc, after) ==
             [id |-> Len(batches), at |-> h, loc |-> loc, after |-> after,
              segs |-> IF loc = 2 THEN <<>> ELSE OneMessage,
              delayedAcc |-> SubSeq(delayed \o m, 1, after)]
<1>1. msgs \subseteq Seq(Posts)
  <2>1. ASSUME NEW x \in Bodies PROVE <<[at |-> h, body |-> x]>> \in Seq(Posts)
    <3>1. [at |-> h, body |-> x] \in Posts
      BY DEF Posts
    <3> QED
      BY <3>1
  <2>2. <<>> \in Seq(Posts)
    OBVIOUS
  <2> QED
    BY <2>1, <2>2
<1>2. /\ b.delayed \in msgs
      /\ b = [delayed |-> b.delayed, batches |-> b.batches]
      /\ \/ b.batches = <<>>
         \/ \E loc \in Locations, after \in 0 .. MaxDelayed :
              /\ read <= after /\ after <= Len(delayed) + Len(b.delayed)
              /\ b.batches = <<New(b.delayed, loc, after)>>
  <2>1. \/ \E m \in msgs : b = [delayed |-> m, batches |-> <<>>]
        \/ \E c \in {c \in msgs \X Locations \X (0 .. MaxDelayed) :
                       /\ read <= c[3] /\ c[3] <= Len(delayed) + Len(c[1])
                       /\ c[2] = 2 => read < c[3]} :
             b = [delayed |-> c[1], batches |-> <<New(c[1], c[2], c[3])>>]
    BY Zenon DEF Blocks, OneMessage
  <2> HIDE DEF msgs, read, New
  <2>2. CASE \E m \in msgs : b = [delayed |-> m, batches |-> <<>>]
    BY <2>2
  <2>3. ASSUME NEW c \in msgs \X Locations \X (0 .. MaxDelayed),
               read <= c[3], c[3] <= Len(delayed) + Len(c[1]),
               b = [delayed |-> c[1], batches |-> <<New(c[1], c[2], c[3])>>]
        PROVE  /\ b.delayed \in msgs
               /\ b = [delayed |-> b.delayed, batches |-> b.batches]
               /\ \E loc \in Locations, after \in 0 .. MaxDelayed :
                    /\ read <= after /\ after <= Len(delayed) + Len(b.delayed)
                    /\ b.batches = <<New(b.delayed, loc, after)>>
    <3>1. c[1] \in msgs /\ c[2] \in Locations /\ c[3] \in 0 .. MaxDelayed
      OBVIOUS
    <3>2. b.delayed = c[1] /\ b.batches = <<New(c[1], c[2], c[3])>>
      BY <2>3
    <3> QED
      BY <2>3, <3>1, <3>2
  <2> QED
    BY <2>1, <2>2, <2>3
<1>3. CASE b.batches = <<>>
  <2> HIDE DEF msgs
  <2>1. batches \o b.batches = batches
    BY <1>3
  <2>2. b.delayed \in Seq(Posts) /\ b.batches \in Seq(Posted)
    BY <1>1, <1>2, <1>3
  <2>3. b \in L1Blocks
    BY <1>2, <2>2 DEF L1Blocks
  <2> QED
    BY <1>3, <2>1, <2>3
<1>4. CASE b.batches # <<>>
  <2>1. PICK loc \in Locations, after \in 0 .. MaxDelayed :
          /\ read <= after /\ after <= Len(delayed) + Len(b.delayed)
          /\ b.batches = <<New(b.delayed, loc, after)>>
    BY <1>2, <1>4
  <2> DEFINE new == New(b.delayed, loc, after)
  <2>2. after \in Nat /\ b.delayed \in Seq(Posts)
    BY <1>1, <1>2, ReaderAssumption
  <2>3. delayed \o b.delayed \in Seq(Posts) /\ Len(delayed \o b.delayed) = Len(delayed) + Len(b.delayed)
    BY <2>2
  <2>4. /\ SubSeq(delayed \o b.delayed, 1, after) \in Seq(Posts)
        /\ Len(SubSeq(delayed \o b.delayed, 1, after)) = after
    BY <2>1, <2>2, <2>3
  <2>5. /\ new \in Posted /\ new.id = Len(batches) /\ new.at = h /\ new.after = after
        /\ Len(new.delayedAcc) = after /\ (new.loc # 2 => new.segs = OneMessage)
    <3>1. Len(batches) \in Nat
      OBVIOUS
    <3> QED
      BY <2>2, <2>4, <3>1 DEF Posted
  <2>6. b.batches = <<new>>
    BY <2>1
  <2>7. \A k \in 1 .. Len(batches) : batches[k].after <= read /\ batches[k].after \in Nat
    <3>1. \A k \in 1 .. Len(batches) : batches[k] \in Posted
      OBVIOUS
    <3>2. \A k \in 1 .. Len(batches) : batches[k].after <= batches[Len(batches)].after
      BY DEF Ordered
    <3> QED
      BY SMTT(30), <3>1, <3>2 DEF Posted
  <2>8. read <= after /\ read \in Nat
    <3>1. batches # <<>> => batches[Len(batches)] \in Posted
      OBVIOUS
    <3> QED
      BY <2>1, <3>1 DEF Posted
  <2> HIDE DEF new, read
  <2>9. batches \o b.batches = Append(batches, new)
    BY <2>6
  <2>10. Ordered(Append(batches, new))
    <3>1. /\ Len(Append(batches, new)) = Len(batches) + 1
          /\ Append(batches, new)[Len(batches) + 1] = new
          /\ \A k \in 1 .. Len(batches) : Append(batches, new)[k] = batches[k]
      BY <2>5
    <3> DEFINE all == Append(batches, new)
    <3>2. ASSUME NEW k \in 1 .. Len(batches) + 1
          PROVE  /\ all[k].id = k - 1 /\ Len(all[k].delayedAcc) = all[k].after
                 /\ all[k].loc # 2 => all[k].segs = OneMessage
      <4>1. CASE k = Len(batches) + 1
        BY <2>5, <3>1, <4>1
      <4>2. CASE k # Len(batches) + 1
        <5>1. k \in 1 .. Len(batches) /\ all[k] = batches[k]
          BY <3>1, <4>2
        <5> HIDE DEF all
        <5> QED
          BY <5>1 DEF Ordered
      <4> QED
        BY <4>1, <4>2
    <3>3. ASSUME NEW j \in 1 .. Len(batches) + 1, NEW k \in 1 .. Len(batches) + 1, j <= k
          PROVE  all[j].after <= all[k].after
      <4>1. CASE k = Len(batches) + 1
        <5>1. all[k].after = after
          BY <2>5, <3>1, <4>1
        <5>2. j = k \/ (j \in 1 .. Len(batches) /\ all[j] = batches[j])
          <6>1. j # k => j \in 1 .. Len(batches)
            BY <4>1
          <6> QED
            BY <3>1, <6>1
        <5> HIDE DEF all
        <5>3. j # k => all[j].after <= read /\ all[j].after \in Nat
          BY <2>7, <5>2
        <5> QED
          BY <2>2, <2>8, <5>1, <5>3
      <4>2. CASE k # Len(batches) + 1
        <5>1. k \in 1 .. Len(batches) /\ j \in 1 .. Len(batches) /\ all[k] = batches[k] /\ all[j] = batches[j]
          BY <3>1, <3>3, <4>2
        <5> HIDE DEF all
        <5> QED
          BY <3>3, <5>1 DEF Ordered
      <4> QED
        BY <4>1, <4>2
    <3> HIDE DEF all
    <3>4. Len(all) = Len(batches) + 1
      BY <3>1 DEF all
    <3>5. Ordered(all)
      BY <3>2, <3>3, <3>4 DEF Ordered
    <3> QED
      BY <3>5 DEF all
  <2>11. b \in L1Blocks
    <3>1. b.batches \in Seq(Posted)
      BY <2>5, <2>6
    <3>2. b = [delayed |-> b.delayed, batches |-> b.batches]
      BY <1>2
    <3> QED
      BY <2>2, <3>1, <3>2 DEF L1Blocks
  <2>12. \A k \in 1 .. Len(b.batches) : b.batches[k].at = h
    BY <2>5, <2>6
  <2> QED
    BY <2>9, <2>10, <2>11, <2>12
<1> QED
  BY <1>3, <1>4

\* L1 grows by a block.
LEMMA ChainGrows ==
  ASSUME NEW c, ChainOK(c),
         NEW b \in Blocks(Len(c) + 1, DelayedOf(c, Len(c)), BatchesOf(c, Len(c)))
  PROVE  /\ ChainOK(Append(c, b))
         /\ \A h \in 0 .. Len(c) : DelayedOf(Append(c, b), h) = DelayedOf(c, h)
                                   /\ BatchesOf(Append(c, b), h) = BatchesOf(c, h)
<1> DEFINE e == Append(c, b)
<1>1. c \in Seq(L1Blocks) /\ Len(c) \in Nat /\ Len(c) \in 0 .. Len(c)
  BY DEF ChainOK
<1>2. DelayedOf(c, Len(c)) \in Seq(Posts) /\ BatchesOf(c, Len(c)) \in Seq(Posted)
      /\ Ordered(BatchesOf(c, Len(c)))
  BY <1>1, OfType DEF ChainOK
<1>3. /\ b \in L1Blocks
      /\ \A k \in 1 .. Len(b.batches) : b.batches[k].at = Len(c) + 1
      /\ Ordered(BatchesOf(c, Len(c)) \o b.batches)
  <2>1. Len(c) + 1 \in Nat
    BY <1>1
  <2> QED
    BY <1>2, <2>1, BlockContinues
<1>4. /\ e \in Seq(L1Blocks) /\ Len(e) = Len(c) + 1 /\ e[Len(c) + 1] = b
      /\ \A k \in 1 .. Len(c) : e[k] = c[k]
  BY <1>1, <1>3
<1> HIDE DEF e
<1>5. ASSUME NEW h \in 0 .. Len(c)
      PROVE  DelayedOf(e, h) = DelayedOf(c, h) /\ BatchesOf(e, h) = BatchesOf(c, h)
  <2>1. h \in Nat /\ h <= Len(c) /\ h <= Len(e) /\ \A k \in 1 .. h : e[k] = c[k]
    BY <1>1, <1>4
  <2> QED
    BY <1>1, <1>4, <2>1, OfSame
<1>6. BatchesOf(e, Len(c) + 1) = BatchesOf(c, Len(c)) \o b.batches
  <2>1. Len(c) < Len(e)
    BY <1>1, <1>4
  <2>2. BatchesOf(e, Len(c) + 1) = BatchesOf(e, Len(c)) \o e[Len(c) + 1].batches
    BY <1>1, <1>4, <2>1, OfStep
  <2>3. BatchesOf(e, Len(c)) = BatchesOf(c, Len(c))
    BY <1>1, <1>5
  <2> QED
    BY <1>4, <2>2, <2>3
<1>7. ASSUME NEW h \in 0 .. Len(e) PROVE Ordered(BatchesOf(e, h))
  <2>1. CASE h = Len(c) + 1
    BY <1>3, <1>6, <2>1
  <2>2. CASE h # Len(c) + 1
    <3>1. h \in 0 .. Len(c)
      BY <1>1, <1>4, <2>2
    <3> QED
      BY <1>5, <3>1 DEF ChainOK
  <2> QED
    BY <2>1, <2>2
<1>8. ASSUME NEW h \in 1 .. Len(e), NEW k \in 1 .. Len(e[h].batches) PROVE e[h].batches[k].at = h
  <2>1. CASE h = Len(c) + 1
    BY <1>3, <1>4, <1>8, <2>1
  <2>2. CASE h # Len(c) + 1
    <3>1. h \in 1 .. Len(c) /\ e[h] = c[h]
      BY <1>1, <1>4, <2>2
    <3> QED
      BY <1>8, <3>1 DEF ChainOK
  <2> QED
    BY <2>1, <2>2
<1>9. ChainOK(e)
  BY <1>4, <1>7, <1>8 DEF ChainOK
<1> QED
  BY <1>5, <1>9 DEF e

\* L1 replaces its blocks from h on.
LEMMA ChainReorgs ==
  ASSUME NEW c, ChainOK(c), NEW h \in 1 .. Len(c),
         NEW b \in Blocks(h, DelayedOf(c, h - 1), BatchesOf(c, h - 1)),
         NEW e, e = [k \in 1 .. Len(c) |-> IF k < h THEN c[k] ELSE IF k = h THEN b ELSE Empty]
  PROVE  /\ ChainOK(e) /\ Len(e) = Len(c)
         /\ \A i \in 0 .. h - 1 : DelayedOf(e, i) = DelayedOf(c, i)
                                  /\ BatchesOf(e, i) = BatchesOf(c, i)
<1>1. c \in Seq(L1Blocks) /\ Len(c) \in Nat /\ h - 1 \in 0 .. Len(c) /\ h - 1 \in Nat
  BY DEF ChainOK
<1>2. DelayedOf(c, h - 1) \in Seq(Posts) /\ BatchesOf(c, h - 1) \in Seq(Posted)
      /\ Ordered(BatchesOf(c, h - 1))
  BY <1>1, OfType DEF ChainOK
<1>3. /\ b \in L1Blocks
      /\ \A k \in 1 .. Len(b.batches) : b.batches[k].at = h
      /\ Ordered(BatchesOf(c, h - 1) \o b.batches)
  <2>1. h \in Nat
    BY <1>1
  <2> QED
    BY <1>2, <2>1, BlockContinues
<1>4. Empty \in L1Blocks /\ Empty.batches = <<>>
  BY DEF Empty, L1Blocks
<1>5. e \in Seq(L1Blocks) /\ Len(e) = Len(c)
  <2>1. \A k \in 1 .. Len(c) : c[k] \in L1Blocks
    BY <1>1
  <2>2. e \in [1 .. Len(c) -> L1Blocks]
    BY <1>3, <1>4, <2>1
  <2> QED
    BY <1>1, <2>2
<1>6. /\ \A k \in 1 .. h - 1 : e[k] = c[k]
      /\ e[h] = b
      /\ \A k \in h + 1 .. Len(c) : e[k] = Empty
  BY <1>1
<1>7. ASSUME NEW i \in 0 .. h - 1
      PROVE  DelayedOf(e, i) = DelayedOf(c, i) /\ BatchesOf(e, i) = BatchesOf(c, i)
  <2>1. i \in Nat /\ i <= Len(c) /\ i <= Len(e) /\ \A k \in 1 .. i : e[k] = c[k]
    BY <1>1, <1>5, <1>6
  <2> QED
    BY <1>1, <1>5, <2>1, OfSame
<1>8. ASSUME NEW i \in 1 .. Len(c)
      PROVE  BatchesOf(e, i) = BatchesOf(e, i - 1) \o e[i].batches
             /\ BatchesOf(e, i - 1) \in Seq(Posted)
  <2>1. i - 1 \in Nat /\ i - 1 < Len(e) /\ (i - 1) + 1 = i /\ i - 1 \in 0 .. Len(e)
    BY <1>1, <1>5
  <2>2. BatchesOf(e, (i - 1) + 1) = BatchesOf(e, i - 1) \o e[(i - 1) + 1].batches
    BY <1>5, <2>1, OfStep
  <2> QED
    BY <1>5, <2>1, <2>2, OfType
<1> DEFINE Bad == {i \in 0 .. Len(c) : ~Ordered(BatchesOf(e, i))}
<1>9. Bad = {}
  <2>1. SUFFICES ASSUME Bad # {} PROVE FALSE
    OBVIOUS
  <2>2. PICK i \in Bad : \A n \in Bad : i <= n
    <3>1. Bad \in SUBSET Nat
      OBVIOUS
    <3> HIDE DEF Bad
    <3> QED
      BY <2>1, <3>1, LeastOf
  <2>3. i \in 0 .. Len(c) /\ ~Ordered(BatchesOf(e, i))
    OBVIOUS
  <2>4. CASE i < h
    <3>1. i \in 0 .. h - 1
      BY <1>1, <2>3, <2>4
    <3> QED
      BY <1>7, <2>3, <3>1 DEF ChainOK
  <2>5. CASE i = h
    <3>1. h - 1 \in 0 .. h - 1
      BY <1>1
    <3>2. BatchesOf(e, h) = BatchesOf(c, h - 1) \o b.batches
      BY <1>6, <1>7, <1>8, <3>1
    <3> QED
      BY <1>3, <2>3, <2>5, <3>2
  <2>6. CASE i > h
    <3>1. i \in 1 .. Len(c) /\ i \in h + 1 .. Len(c) /\ i - 1 \in 0 .. Len(c)
      BY <1>1, <2>3, <2>6
    <3>2. BatchesOf(e, i) = BatchesOf(e, i - 1) \o <<>> /\ BatchesOf(e, i - 1) \in Seq(Posted)
      BY <1>4, <1>6, <1>8, <3>1
    <3>3. BatchesOf(e, i) = BatchesOf(e, i - 1)
      BY <3>2
    <3>4. i - 1 \notin Bad
      <4> HIDE DEF Bad
      <4> QED
        BY <1>1, <2>2, <2>3
    <3> QED
      BY <2>3, <3>1, <3>3, <3>4
  <2> QED
    BY <1>1, <2>3, <2>4, <2>5, <2>6
<1>10. ASSUME NEW i \in 1 .. Len(e), NEW k \in 1 .. Len(e[i].batches) PROVE e[i].batches[k].at = i
  <2>1. CASE i < h
    <3>1. i \in 1 .. Len(c) /\ e[i] = c[i]
      BY <1>1, <1>5, <1>6, <2>1
    <3> QED
      BY <1>10, <3>1 DEF ChainOK
  <2>2. CASE i = h
    BY <1>3, <1>6, <1>10, <2>2
  <2>3. CASE i > h
    <3>1. e[i].batches = <<>>
      BY <1>1, <1>4, <1>5, <1>6, <2>3
    <3> QED
      BY <1>10, <3>1
  <2> QED
    BY <1>1, <1>5, <2>1, <2>2, <2>3
<1>11. ChainOK(e)
  <2>1. \A i \in 0 .. Len(e) : Ordered(BatchesOf(e, i))
    BY <1>5, <1>9
  <2> HIDE DEF Bad
  <2> QED
    BY <1>5, <1>10, <2>1 DEF ChainOK
<1> QED
  BY <1>5, <1>7, <1>11

(***************************************************************************)
(* What the tracker records.                                               *)
(***************************************************************************)

Records == [acc : Seq(Posted), messages : Nat, delayed : Nat]

\* The recorded batches are one chain of L1's, each posted on the delayed messages
\* that are stored.
RecordsOK(t) ==
  /\ t = [delayed |-> t.delayed, metas |-> t.metas, log |-> t.log]
  /\ t.delayed \in Seq(Posts)
  /\ t.metas \in Seq(Records)
  /\ \A n \in 1 .. Len(t.metas) :
       /\ Len(t.metas[n].acc) = n
       /\ Ordered(t.metas[n].acc)
       /\ t.metas[n].delayed = t.metas[n].acc[n].after
       /\ Begins(t.metas[n].acc[n].delayedAcc, t.delayed)
  /\ \A i, n \in 1 .. Len(t.metas) : i <= n => Begins(t.metas[i].acc, t.metas[n].acc)

\* Without forced inclusions the log has the messages of the batches recorded, and
\* never has read more delayed messages than it has room for before the first
\* message of a batch.
Logged == [kind : {"l2", "delayed"}, id : Seq(Nat \cup Posts), read : Nat]

LogOK(t) ==
  2 \notin Locations =>
    /\ t.log \in Seq(Logged)
    /\ \A k \in 1 .. Len(t.log) : t.log[k].read < k
    /\ \A n \in 1 .. Len(t.metas) : t.metas[n].messages \in 1 .. Len(t.log)

\* The batches that stay are the first ones, and read only what stays.
LEMMA RolledBackIs ==
  ASSUME NEW metas \in Seq(Records), NEW first \in Nat
  PROVE  \E m \in 0 .. Len(metas) :
           /\ RolledBack(metas, first) = SubSeq(metas, 1, m)
           /\ \A n \in 1 .. m : metas[n].delayed <= first
<1> DEFINE over == {n \in 1 .. Len(metas) : metas[n].delayed > first}
<1>1. \A n \in 1 .. Len(metas) : metas[n].delayed \in Nat
  <2>1. \A n \in 1 .. Len(metas) : metas[n] \in Records
    OBVIOUS
  <2> QED
    BY <2>1 DEF Records
<1>2. CASE over = {}
  <2>1. RolledBack(metas, first) = metas
    BY <1>2 DEF RolledBack
  <2>2. metas = SubSeq(metas, 1, Len(metas)) /\ Len(metas) \in 0 .. Len(metas)
    OBVIOUS
  <2>3. \A n \in 1 .. Len(metas) : metas[n].delayed <= first
    BY <1>1, <1>2
  <2> QED
    BY <2>1, <2>2, <2>3
<1>3. CASE over # {}
  <2> DEFINE least == CHOOSE n \in over : \A m \in over : n <= m
  <2>1. RolledBack(metas, first) = SubSeq(metas, 1, least - 1)
    BY <1>3 DEF RolledBack
  <2>2. over \in SUBSET Nat
    OBVIOUS
  <2>3. least \in over /\ \A m \in over : least <= m
    <3> HIDE DEF over
    <3>1. \E n \in over : \A m \in over : n <= m
      BY <1>3, <2>2, LeastOf
    <3> QED
      BY <3>1
  <2> HIDE DEF least
  <2>4. least \in 1 .. Len(metas) /\ least - 1 \in 0 .. Len(metas)
    BY <2>3
  <2>5. ASSUME NEW n \in 1 .. least - 1 PROVE metas[n].delayed <= first
    <3>1. n \in 1 .. Len(metas) /\ n \notin over
      BY <2>3, <2>4
    <3> QED
      BY <1>1, <3>1
  <2> QED
    BY <2>1, <2>4, <2>5
<1> QED
  BY <1>2, <1>3

\* Replacing delayed messages keeps the records in order.
LEMMA SetDelayedKeeps ==
  ASSUME NEW t, RecordsOK(t), LogOK(t), NEW first \in 0 .. Len(t.delayed), NEW msgs \in Seq(Posts)
  PROVE  /\ RecordsOK(SetDelayed(t, first, msgs)) /\ LogOK(SetDelayed(t, first, msgs))
         /\ \E m \in 0 .. Len(t.metas) : SetDelayed(t, first, msgs).metas = SubSeq(t.metas, 1, m)
         /\ SetDelayed(t, first, msgs).delayed = SubSeq(t.delayed, 1, first) \o msgs
<1> DEFINE u == SetDelayed(t, first, msgs)
           new == SubSeq(t.delayed, 1, first) \o msgs
<1>1. t.delayed \in Seq(Posts) /\ t.metas \in Seq(Records) /\ first \in Nat
  BY DEF RecordsOK
<1>2. PICK m \in 0 .. Len(t.metas) :
        /\ RolledBack(t.metas, first) = SubSeq(t.metas, 1, m)
        /\ \A n \in 1 .. m : t.metas[n].delayed <= first
  BY <1>1, RolledBackIs
<1>3. u = [delayed |-> new, metas |-> SubSeq(t.metas, 1, m), log |-> t.log]
  <2>1. t = [delayed |-> t.delayed, metas |-> t.metas, log |-> t.log]
    BY DEF RecordsOK
  <2>2. u = [t EXCEPT !.delayed = new, !.metas = SubSeq(t.metas, 1, m)]
    BY <1>2 DEF SetDelayed
  <2> QED
    BY <2>1, <2>2
<1>4. u.delayed = new /\ u.metas = SubSeq(t.metas, 1, m) /\ u.log = t.log
      /\ u = [delayed |-> u.delayed, metas |-> u.metas, log |-> u.log]
  BY SMTT(30), <1>3
<1> DEFINE kept == SubSeq(t.metas, 1, m)
<1>5. kept \in Seq(Records) /\ Len(kept) = m /\ \A n \in 1 .. m : kept[n] = t.metas[n]
  BY <1>1
<1>6. new \in Seq(Posts) /\ Len(new) = first + Len(msgs) /\ \A i \in 1 .. first : new[i] = t.delayed[i]
  <2>1. SubSeq(t.delayed, 1, first) \in Seq(Posts) /\ Len(SubSeq(t.delayed, 1, first)) = first
        /\ \A i \in 1 .. first : SubSeq(t.delayed, 1, first)[i] = t.delayed[i]
    BY <1>1
  <2> HIDE DEF new
  <2> QED
    BY <1>1, <2>1 DEF new
<1> HIDE DEF u, new, kept
<1>7. ASSUME NEW n \in 1 .. m
      PROVE  /\ Len(kept[n].acc) = n
             /\ Ordered(kept[n].acc)
             /\ kept[n].delayed = kept[n].acc[n].after
             /\ Begins(kept[n].acc[n].delayedAcc, new)
  <2>1. n \in 1 .. Len(t.metas) /\ kept[n] = t.metas[n] /\ n \in Nat
    <3>1. Len(t.metas) \in Nat
      BY <1>1
    <3> QED
      BY <1>5, <3>1
  <2>2. /\ Len(kept[n].acc) = n
        /\ Ordered(kept[n].acc)
        /\ kept[n].delayed = kept[n].acc[n].after
        /\ Begins(kept[n].acc[n].delayedAcc, t.delayed)
        /\ kept[n].delayed <= first
    BY <1>2, <2>1 DEF RecordsOK
  <2>3. Len(kept[n].acc[n].delayedAcc) = kept[n].acc[n].after
    BY ONLY SMTT(30), <2>2, <2>1 DEF Ordered
  <2>4. Begins(kept[n].acc[n].delayedAcc, new)
    <3> DEFINE d == kept[n].acc[n].delayedAcc
    <3>1. Len(d) <= first /\ \A i \in 1 .. Len(d) : d[i] = t.delayed[i]
      BY <2>2, <2>3 DEF Begins
    <3>2. Len(d) \in Nat
      <4>1. kept[n].acc \in Seq(Posted) /\ n \in 1 .. Len(kept[n].acc)
        <5>1. kept[n] \in Records
          BY <1>5
        <5> QED
          BY <2>1, <2>2, <5>1 DEF Records
      <4>2. kept[n].acc[n] \in Posted
        BY <4>1
      <4> QED
        BY SMTT(30), <4>2 DEF Posted
    <3> HIDE DEF d
    <3>3. Len(msgs) \in Nat
      OBVIOUS
    <3>4. Begins(d, new)
      BY <1>1, <1>6, <3>1, <3>2, <3>3 DEF Begins
    <3> QED
      BY <3>4 DEF d
  <2> QED
    BY <2>2, <2>4
<1>8. \A i, n \in 1 .. m : i <= n => Begins(kept[i].acc, kept[n].acc)
  <2>1. 1 .. m \subseteq 1 .. Len(t.metas)
    BY <1>1
  <2> QED
    BY <1>5, <2>1 DEF RecordsOK
<1>9. RecordsOK(u)
  BY <1>4, <1>5, <1>6, <1>7, <1>8 DEF RecordsOK, kept
<1>10. LogOK(u)
  <2>1. 1 .. m \subseteq 1 .. Len(t.metas)
    BY <1>1
  <2> QED
    BY <1>4, <1>5, <2>1 DEF LogOK, kept
<1> QED
  BY <1>4, <1>9, <1>10 DEF u, new

\* How batches begin is ordered too.
LEMMA OrderedBegins ==
  ASSUME NEW s \in Seq(Posted), NEW t \in Seq(Posted), Begins(s, t), Ordered(t)
  PROVE  Ordered(s)
<1>1. Len(s) <= Len(t) /\ \A i \in 1 .. Len(s) : s[i] = t[i]
  BY DEF Begins
<1>2. 1 .. Len(s) \subseteq 1 .. Len(t)
  BY <1>1
<1>3. \A k \in 1 .. Len(s) : /\ s[k].id = k - 1
                             /\ Len(s[k].delayedAcc) = s[k].after
                             /\ s[k].loc # 2 => s[k].segs = OneMessage
  BY <1>1, <1>2 DEF Ordered
<1>4. \A j, k \in 1 .. Len(s) : j <= k => s[j].after <= s[k].after
  BY <1>1, <1>2 DEF Ordered
<1> QED
  BY <1>3, <1>4 DEF Ordered

LEMMA L2CountType ==
  ASSUME NEW b \in Posted
  PROVE  L2Count(b) \in Nat
<1>1. b.segs \in {<<>>, OneMessage}
  BY DEF Posted
<1>2. Len(b.segs) \in Nat
  BY <1>1 DEF OneMessage
<1>3. {i \in 1 .. Len(b.segs) : b.segs[i].kind \in {"l2", "bad"}} \in SUBSET (1 .. Len(b.segs))
  OBVIOUS
<1> QED
  BY <1>2, <1>3, CountOf DEF L2Count

\* Where batch k of bs starts to read when prev was read before them.
ReadsFrom(bs, prev, k) == IF k = 1 THEN prev ELSE bs[k - 1].after

LEMMA SpanType ==
  ASSUME NEW bs \in Seq(Posted), NEW prev \in Nat, NEW k \in 1 .. Len(bs)
  PROVE  ReadsFrom(bs, prev, k) \in Nat /\ Span(bs[k], ReadsFrom(bs, prev, k)) \in Nat
<1>1. bs[k] \in Posted /\ (k # 1 => bs[k - 1] \in Posted)
  OBVIOUS
<1>2. bs[k].after \in Nat /\ (k # 1 => bs[k - 1].after \in Nat)
  BY <1>1 DEF Posted
<1>3. ReadsFrom(bs, prev, k) \in Nat
  BY <1>2 DEF ReadsFrom
<1> QED
  BY <1>2, <1>3 DEF Span

\* The records of the batches bs have the counts that add up from the one before.
LEMMA MetasForIs ==
  ASSUME NEW prev \in Records, NEW before \in Seq(Posted), NEW bs \in Seq(Posted)
  PROVE  \E f \in [0 .. Len(bs) -> Nat] :
           /\ f[0] = prev.messages
           /\ \A k \in 1 .. Len(bs) :
                f[k] = f[k - 1] + L2Count(bs[k]) + Span(bs[k], ReadsFrom(bs, prev.delayed, k))
           /\ MetasFor(prev, before, bs)
                = [k \in 1 .. Len(bs) |-> [acc |-> before \o SubSeq(bs, 1, k),
                                           messages |-> f[k], delayed |-> bs[k].after]]
<1> DEFINE n == Len(bs)
           p == [k \in 1 .. n |-> L2Count(bs[k])]
           q == [k \in 1 .. n |-> Span(bs[k], ReadsFrom(bs, prev.delayed, k))]
           Step(m, k) == IF k = 0 THEN prev
                         ELSE [acc |-> before \o SubSeq(bs, 1, k),
                               messages |-> MessageCount(m[k - 1], bs[k]),
                               delayed |-> bs[k].after]
           Is(m) == m = [k \in 0 .. n |-> Step(m, k)]
           g == CHOOSE m : Is(m)
<1>0. prev.messages \in Nat /\ prev.delayed \in Nat
  BY DEF Records
<1>1. n \in Nat /\ p \in [1 .. n -> Nat] /\ q \in [1 .. n -> Nat]
  <2>1. \A k \in 1 .. n : bs[k] \in Posted
    OBVIOUS
  <2>2. \A k \in 1 .. n : L2Count(bs[k]) \in Nat
    BY <2>1, L2CountType
  <2>3. \A k \in 1 .. n : Span(bs[k], ReadsFrom(bs, prev.delayed, k)) \in Nat
    BY <1>0, SpanType
  <2> QED
    BY <2>2, <2>3
<1>2. \E h : RunningSum(h, 1, n, prev.messages, p, q)
  <2>1. 1 \in Int /\ n \in Int /\ 1 - 1 <= n
    BY <1>1
  <2> HIDE DEF n, p, q
  <2> QED
    BY <1>0, <1>1, <2>1, SumExists
<1>3. PICK f : RunningSum(f, 1, n, prev.messages, p, q)
  BY <1>2
<1>4. /\ f \in [0 .. n -> Nat] /\ f[0] = prev.messages
      /\ \A k \in 1 .. n : f[k] = f[k - 1] + p[k] + q[k]
  BY <1>3 DEF RunningSum
<1>5. \A k \in 1 .. n : p[k] = L2Count(bs[k]) /\ q[k] = Span(bs[k], ReadsFrom(bs, prev.delayed, k))
  OBVIOUS
<1> DEFINE w == [k \in 0 .. n |-> IF k = 0 THEN prev
                                  ELSE [acc |-> before \o SubSeq(bs, 1, k),
                                        messages |-> f[k], delayed |-> bs[k].after]]
<1>6. MetasFor(prev, before, bs) = [k \in 1 .. n |-> g[k]]
  BY Zenon DEF MetasFor
<1> HIDE DEF n, p, q
<1>7. ASSUME NEW k \in 0 .. n PROVE w[k] = Step(w, k)
  <2>1. CASE k = 0
    BY <2>1
  <2>2. CASE k # 0
    <3>1. k \in 1 .. n /\ k - 1 \in 0 .. n
      BY <1>1, <2>2
    <3>2. w[k - 1].messages = f[k - 1]
      BY <1>4, <3>1
    <3>3. w[k - 1].delayed = ReadsFrom(bs, prev.delayed, k)
      BY <3>1 DEF ReadsFrom
    <3>4. MessageCount(w[k - 1], bs[k]) = f[k]
      <4> HIDE DEF w
      <4> QED
        BY <1>4, <1>5, <3>1, <3>2, <3>3 DEF MessageCount
    <3>5. w[k] = [acc |-> before \o SubSeq(bs, 1, k), messages |-> f[k], delayed |-> bs[k].after]
      BY <2>2
    <3> HIDE DEF w
    <3> QED
      BY <2>2, <3>4, <3>5
  <2> QED
    BY <2>1, <2>2
<1>8. Is(w)
  <2>1. w = [k \in 0 .. n |-> w[k]]
    OBVIOUS
  <2> HIDE DEF w, Step
  <2> QED
    BY <1>7, <2>1
<1>9. Is(g)
  <2> HIDE DEF Is, w
  <2> QED
    BY <1>8
<1> HIDE DEF g
<1>10. \A k \in 0 .. n : g[k] = Step(g, k)
  <2> HIDE DEF Step
  <2> QED
    BY <1>9
<1> DEFINE Bad == {k \in 0 .. n : g[k] # w[k]}
<1> HIDE DEF w, Is
<1>11. Bad = {}
  <2>1. SUFFICES ASSUME Bad # {} PROVE FALSE
    OBVIOUS
  <2>2. PICK k \in Bad : \A j \in Bad : k <= j
    <3>1. Bad \in SUBSET Nat
      OBVIOUS
    <3> HIDE DEF Bad
    <3> QED
      BY <2>1, <3>1, LeastOf
  <2>3. k \in 0 .. n /\ g[k] # w[k] /\ g[k] = Step(g, k) /\ w[k] = Step(w, k)
    BY <1>7, <1>10
  <2>4. k # 0
    BY <2>3
  <2>5. k - 1 \in 0 .. n /\ k - 1 \notin Bad
    <3> HIDE DEF Bad, Step
    <3> QED
      BY <1>1, <2>2, <2>3, <2>4
  <2>6. g[k - 1] = w[k - 1]
    BY <2>5
  <2>7. Step(g, k) = Step(w, k)
    BY <2>4, <2>6
  <2> QED
    BY <2>3, <2>7
<1>12. \A k \in 1 .. n : g[k] = [acc |-> before \o SubSeq(bs, 1, k),
                                 messages |-> f[k], delayed |-> bs[k].after]
  <2>1. \A k \in 1 .. n : k \in 0 .. n /\ k # 0
    BY <1>1
  <2>2. \A k \in 1 .. n : g[k] = w[k]
    BY <1>11, <2>1
  <2> QED
    BY <2>1, <2>2 DEF w
<1>13. MetasFor(prev, before, bs)
         = [k \in 1 .. n |-> [acc |-> before \o SubSeq(bs, 1, k),
                              messages |-> f[k], delayed |-> bs[k].after]]
  BY <1>6, <1>12
<1>14. \A k \in 1 .. n :
         f[k] = f[k - 1] + L2Count(bs[k]) + Span(bs[k], ReadsFrom(bs, prev.delayed, k))
  BY <1>4, <1>5
<1> QED
  BY <1>4, <1>13, <1>14 DEF n

\* The record before the ones added.
LEMMA LastMetaIs ==
  ASSUME NEW t, RecordsOK(t)
  PROVE  /\ LastMeta(t) \in Records
         /\ Len(LastMeta(t).acc) = Len(t.metas)
         /\ t.metas # <<>> => LastMeta(t) = t.metas[Len(t.metas)] /\ Len(t.metas) \in 1 .. Len(t.metas)
         /\ t.metas = <<>> => LastMeta(t) = NoBatch
<1>1. t.metas \in Seq(Records)
  BY DEF RecordsOK
<1>2. CASE t.metas = <<>>
  BY <1>2 DEF LastMeta, NoBatch, Records
<1>3. CASE t.metas # <<>>
  <2>1. Len(t.metas) \in 1 .. Len(t.metas) /\ LastMeta(t) = t.metas[Len(t.metas)]
    BY <1>1, <1>3 DEF LastMeta
  <2> QED
    BY <1>1, <1>3, <2>1 DEF RecordsOK
<1> QED
  BY <1>2, <1>3

\* The batches bs follow the ones recorded, which are before, and rest on the
\* delayed messages stored.
Follow(t, before, bs) ==
  /\ LastMeta(t).acc = before
  /\ Ordered(before \o bs)
  /\ \A k \in 1 .. Len(bs) : Begins(bs[k].delayedAcc, t.delayed)

\* They are recorded.
Recorded(t, before, bs, log) ==
  [delayed |-> t.delayed, metas |-> t.metas \o MetasFor(LastMeta(t), before, bs), log |-> log]

\* Recording them keeps the records in order.
LEMMA FollowingKeeps ==
  ASSUME NEW t, RecordsOK(t), NEW before \in Seq(Posted), NEW bs \in Seq(Posted),
         Follow(t, before, bs), NEW log
  PROVE  /\ RecordsOK(Recorded(t, before, bs, log))
         /\ bs # <<>> => Begins(LastMeta(Recorded(t, before, bs, log)).acc, before \o bs)
<1> DEFINE u == Recorded(t, before, bs, log)
<1> DEFINE m == Len(t.metas)
           new == MetasFor(LastMeta(t), before, bs)
           all == before \o bs
<1> DEFINE prev == LastMeta(t)
<1>0. t.delayed \in Seq(Posts) /\ t.metas \in Seq(Records)
  BY DEF RecordsOK
<1>1. m \in Nat /\ Len(bs) \in Nat
  BY <1>0
<1>2. prev \in Records /\ Len(before) = m
  BY LastMetaIs DEF Follow
<1>3. PICK f \in [0 .. Len(bs) -> Nat] :
        new = [k \in 1 .. Len(bs) |-> [acc |-> before \o SubSeq(bs, 1, k),
                                       messages |-> f[k], delayed |-> bs[k].after]]
  <2> HIDE DEF prev
  <2>1. \E f \in [0 .. Len(bs) -> Nat] :
           /\ f[0] = prev.messages
           /\ \A k \in 1 .. Len(bs) :
                f[k] = f[k - 1] + L2Count(bs[k]) + Span(bs[k], ReadsFrom(bs, prev.delayed, k))
           /\ MetasFor(prev, before, bs)
                = [k \in 1 .. Len(bs) |-> [acc |-> before \o SubSeq(bs, 1, k),
                                           messages |-> f[k], delayed |-> bs[k].after]]
    BY <1>2, MetasForIs
  <2> QED
    BY <2>1, Zenon DEF prev
<1>4. u = [delayed |-> t.delayed, metas |-> t.metas \o new, log |-> log]
  BY DEF Recorded
<1> HIDE DEF new, u, prev
<1>5. u.delayed = t.delayed /\ u.metas = t.metas \o new /\ u.log = log
      /\ u = [delayed |-> u.delayed, metas |-> u.metas, log |-> u.log]
  BY <1>4
<1>6. all \in Seq(Posted) /\ Len(all) = m + Len(bs)
      /\ (\A i \in 1 .. m : all[i] = before[i]) /\ (\A i \in 1 .. Len(bs) : all[m + i] = bs[i])
  <2> HIDE DEF m
  <2> QED
    BY <1>2, ConcatIs
<1>7. \A k \in 1 .. Len(bs) : bs[k] \in Posted
  OBVIOUS
<1> HIDE DEF all, m
<1>8. ASSUME NEW k \in 1 .. Len(bs)
      PROVE  /\ before \o SubSeq(bs, 1, k) \in Seq(Posted)
             /\ Len(before \o SubSeq(bs, 1, k)) = m + k
             /\ \A i \in 1 .. m + k : (before \o SubSeq(bs, 1, k))[i] = all[i]
  <2> DEFINE s == SubSeq(bs, 1, k)
  <2>1. s \in Seq(Posted) /\ Len(s) = k /\ \A i \in 1 .. k : s[i] = bs[i]
    OBVIOUS
  <2> HIDE DEF s
  <2>2. /\ before \o s \in Seq(Posted) /\ Len(before \o s) = m + k
        /\ \A i \in 1 .. m : (before \o s)[i] = before[i]
        /\ \A i \in 1 .. k : (before \o s)[m + i] = s[i]
    <3>1. /\ before \o s \in Seq(Posted) /\ Len(before \o s) = Len(before) + Len(s)
          /\ \A i \in 1 .. Len(before) : (before \o s)[i] = before[i]
          /\ \A i \in 1 .. Len(s) : (before \o s)[Len(before) + i] = s[i]
      BY <2>1, ConcatIs
    <3> QED
      BY <1>2, <2>1, <3>1
  <2>3. ASSUME NEW i \in 1 .. m + k PROVE (before \o s)[i] = all[i]
    <3>1. CASE i <= m
      <4>1. i \in 1 .. m
        BY <1>1, <3>1
      <4> QED
        BY <1>6, <2>2, <4>1
    <3>2. CASE i > m
      <4>1. i - m \in 1 .. k /\ i - m \in 1 .. Len(bs) /\ m + (i - m) = i
        BY <1>1, <3>2
      <4>2. (before \o s)[m + (i - m)] = s[i - m] /\ all[m + (i - m)] = bs[i - m]
        BY <1>6, <2>2, <4>1
      <4> QED
        BY <2>1, <4>1, <4>2
    <3>3. i <= m \/ i > m
      <4>1. k \in Nat /\ i \in 1 .. m + k
        BY <1>1
      <4> QED
        BY <1>1, <4>1
    <3> QED
      BY <3>1, <3>2, <3>3
  <2> QED
    BY <2>2, <2>3 DEF s
<1>9. new \in Seq(Records) /\ Len(new) = Len(bs)
  <2>1. \A k \in 1 .. Len(bs) : bs[k].after \in Nat /\ f[k] \in Nat
    <3>1. \A k \in 1 .. Len(bs) : k \in 0 .. Len(bs)
      BY <1>1
    <3> QED
      BY <1>7, <3>1 DEF Posted
  <2>2. \A k \in 1 .. Len(bs) : [acc |-> before \o SubSeq(bs, 1, k),
                                 messages |-> f[k], delayed |-> bs[k].after] \in Records
    BY <1>8, <2>1 DEF Records
  <2>3. new \in [1 .. Len(bs) -> Records]
    BY <1>3, <2>2
  <2> QED
    BY SMTT(30), <1>1, <2>3
<1>10. /\ u.metas \in Seq(Records) /\ Len(u.metas) = m + Len(bs)
       /\ \A n \in 1 .. m : u.metas[n] = t.metas[n]
       /\ \A k \in 1 .. Len(bs) : u.metas[m + k] = new[k]
  <2>1. /\ t.metas \o new \in Seq(Records) /\ Len(t.metas \o new) = Len(t.metas) + Len(new)
        /\ \A n \in 1 .. Len(t.metas) : (t.metas \o new)[n] = t.metas[n]
        /\ \A k \in 1 .. Len(new) : (t.metas \o new)[Len(t.metas) + k] = new[k]
    <3> DEFINE old == t.metas
    <3>1. old \in Seq(Records) /\ new \in Seq(Records)
      BY <1>0, <1>9
    <3> HIDE DEF old
    <3>2. /\ old \o new \in Seq(Records) /\ Len(old \o new) = Len(old) + Len(new)
          /\ \A n \in 1 .. Len(old) : (old \o new)[n] = old[n]
          /\ \A k \in 1 .. Len(new) : (old \o new)[Len(old) + k] = new[k]
      BY <3>1, ConcatIs
    <3> QED
      BY <3>2 DEF old
  <2> QED
    BY <1>5, <1>9, <2>1 DEF m
<1>11. ASSUME NEW n \in 1 .. m + Len(bs), n > m
       PROVE  /\ Len(u.metas[n].acc) = n
              /\ u.metas[n].acc \in Seq(Posted)
              /\ \A i \in 1 .. n : u.metas[n].acc[i] = all[i]
              /\ u.metas[n].delayed = all[n].after
  <2>1. n - m \in 1 .. Len(bs) /\ m + (n - m) = n
    BY <1>1, <1>11
  <2>2. u.metas[n] = [acc |-> before \o SubSeq(bs, 1, n - m),
                      messages |-> f[n - m], delayed |-> bs[n - m].after]
    <3>1. u.metas[m + (n - m)] = new[n - m]
      BY <1>10, <2>1
    <3> QED
      BY <1>3, <2>1, <3>1
  <2>3. all[n] = bs[n - m]
    <3>1. all[m + (n - m)] = bs[n - m]
      BY <1>6, <2>1
    <3> QED
      BY <2>1, <3>1
  <2>4. u.metas[n].acc = before \o SubSeq(bs, 1, n - m) /\ u.metas[n].delayed = bs[n - m].after
    <3> DEFINE acc == before \o SubSeq(bs, 1, n - m)
               after == bs[n - m].after
    <3>1. u.metas[n] = [acc |-> acc, messages |-> f[n - m], delayed |-> after]
      BY <2>2
    <3> HIDE DEF acc, after
    <3>2. u.metas[n].acc = acc /\ u.metas[n].delayed = after
      BY <3>1
    <3> QED
      BY <3>2 DEF acc, after
  <2> QED
    BY <1>8, <2>1, <2>3, <2>4
<1>12. ASSUME NEW n \in 1 .. m + Len(bs)
       PROVE  /\ Len(u.metas[n].acc) = n
              /\ u.metas[n].acc \in Seq(Posted)
              /\ \A i \in 1 .. n : u.metas[n].acc[i] = all[i]
  <2>1. CASE n > m
    BY <1>11, <2>1
  <2>2. CASE n <= m
    <3>1. n \in 1 .. m /\ n \in Nat /\ m \in 1 .. Len(t.metas) /\ n \in 1 .. Len(t.metas)
      BY <1>1, <2>2 DEF m
    <3>2. u.metas[n] = t.metas[n] /\ Len(t.metas[n].acc) = n /\ Begins(t.metas[n].acc, t.metas[m].acc)
      BY <1>10, <3>1 DEF RecordsOK
    <3>3. t.metas[m].acc = before
      <4>1. t.metas # <<>>
        BY <3>1
      <4> QED
        BY <4>1, LastMetaIs DEF m, Follow
    <3>4. t.metas[n] \in Records
      BY <1>0, <3>1
    <3>5. \A i \in 1 .. n : t.metas[n].acc[i] = before[i] /\ i \in 1 .. m
      BY <1>1, <3>1, <3>2, <3>3 DEF Begins
    <3> QED
      BY <1>6, <3>2, <3>4, <3>5 DEF Records
  <2> QED
    BY <1>1, <2>1, <2>2
<1>13. ASSUME NEW n \in 1 .. m + Len(bs) PROVE Begins(u.metas[n].acc, all)
  <2>1. n <= m + Len(bs)
    BY <1>1, <1>6
  <2> QED
    BY <1>6, <1>12, <2>1 DEF Begins
<1>14. ASSUME NEW n \in 1 .. m + Len(bs)
       PROVE  /\ Ordered(u.metas[n].acc)
              /\ u.metas[n].delayed = u.metas[n].acc[n].after
              /\ Begins(u.metas[n].acc[n].delayedAcc, t.delayed)
  <2>1. Ordered(u.metas[n].acc)
    BY <1>6, <1>12, <1>13, OrderedBegins DEF all, Follow
  <2>2. CASE n > m
    <3>1. n - m \in 1 .. Len(bs) /\ m + (n - m) = n /\ n \in 1 .. n
      BY <1>1, <1>6, <2>2
    <3>2. u.metas[n].acc[n] = all[n] /\ all[n] = bs[n - m] /\ u.metas[n].delayed = all[n].after
      BY <1>6, <1>11, <2>2, <3>1
    <3> QED
      BY <2>1, <3>1, <3>2 DEF Follow
  <2>3. CASE n <= m
    <3>1. n \in 1 .. Len(t.metas) /\ n \in 1 .. m
      BY <1>1, <2>3 DEF m
    <3> QED
      BY <1>10, <2>1, <3>1 DEF RecordsOK
  <2> QED
    BY <1>1, <2>2, <2>3
<1>15. ASSUME NEW i \in 1 .. m + Len(bs), NEW n \in 1 .. m + Len(bs), i <= n
       PROVE  Begins(u.metas[i].acc, u.metas[n].acc)
  <2>1. 1 .. i \subseteq 1 .. n
    BY <1>1, <1>6, <1>15
  <2>2. \A j \in 1 .. i : u.metas[i].acc[j] = all[j] /\ u.metas[n].acc[j] = all[j]
    BY <1>12, <2>1
  <2>3. Len(u.metas[i].acc) = i /\ Len(u.metas[n].acc) = n
    BY <1>12
  <2> QED
    BY <1>15, <2>2, <2>3 DEF Begins
<1>16. RecordsOK(u)
  BY <1>0, <1>5, <1>10, <1>12, <1>14, <1>15 DEF RecordsOK
<1>17. ASSUME bs # <<>> PROVE Begins(LastMeta(u).acc, all)
  <2>1. m + Len(bs) \in 1 .. m + Len(bs) /\ u.metas # <<>>
    <3>1. Len(bs) > 0
      BY <1>17
    <3>2. Len(u.metas) > 0
      BY <1>1, <1>6, <1>10, <3>1
    <3> QED
      BY <1>1, <1>6, <3>1, <3>2
  <2>2. LastMeta(u) = u.metas[m + Len(bs)]
    BY <1>10, <2>1 DEF LastMeta
  <2> QED
    BY <1>13, <2>1, <2>2
<1> QED
  BY <1>16, <1>17 DEF u, all

(***************************************************************************)
(* What batches of one message each expand to.                             *)
(***************************************************************************)

LEMMA OneVisible ==
  ASSUME NEW b \in Posted, b.segs = OneMessage
  PROVE  /\ Len(b.segs) = 1 /\ b.segs[1].kind = "l2"
         /\ VisibleAt(b) = <<1>> /\ Trimmed(b, <<1>>) = <<1>>
         /\ DelayedBefore(b, 1) = 0 /\ DelayedBefore(b, 2) = 0
         /\ L2Count(b) = 1
<1>1. Len(b.segs) = 1 /\ b.segs[1].kind = "l2" /\ 1 .. Len(b.segs) = {1}
  BY DEF OneMessage
<1>2. Cardinality({1}) = 1 /\ Cardinality({}) = 0
  BY FS_Singleton, FS_EmptySet
<1>3. {i \in 1 .. Len(b.segs) : Visible(b.segs[i])} = {1}
  BY <1>1 DEF Visible, Item
<1>4. VisibleAt(b) = <<1>>
  <2> DEFINE places == {i \in 1 .. Len(b.segs) : Visible(b.segs[i])}
  <2>1. VisibleAt(b) = [k \in 1 .. Cardinality(places) |->
                          CHOOSE i \in places : Cardinality({j \in places : j <= i}) = k]
    BY DEF VisibleAt
  <2> HIDE DEF places
  <2>2. places = {1} /\ Cardinality(places) = 1
    BY <1>2, <1>3 DEF places
  <2>3. {j \in places : j <= 1} = {1}
    BY <2>2
  <2>4. (CHOOSE i \in places : Cardinality({j \in places : j <= i}) = 1) = 1
    BY <1>2, <2>2, <2>3
  <2>5. VisibleAt(b) = [k \in {1} |-> 1]
    BY <2>1, <2>2, <2>4
  <2> QED
    BY <2>5
<1>5. Trimmed(b, <<1>>) = <<1>>
  <2> DEFINE items == {k \in 1 .. Len(<<1>>) : Item(b.segs[<<1>>[k]])}
  <2>1. items = {1}
    BY <1>1 DEF Item
  <2>2. Trimmed(b, <<1>>) = SubSeq(<<1>>, 1, IF items = {} THEN 1
                                             ELSE CHOOSE k \in items : \A j \in items : j <= k)
    BY DEF Trimmed
  <2> HIDE DEF items
  <2>3. (CHOOSE k \in items : \A j \in items : j <= k) = 1
    BY <2>1
  <2> QED
    BY <2>1, <2>2, <2>3
<1>6. {j \in 1 .. 1 - 1 : b.segs[j].kind = "delayed"} = {}
      /\ {j \in 1 .. 2 - 1 : b.segs[j].kind = "delayed"} = {}
  BY <1>1
<1>7. DelayedBefore(b, 1) = 0 /\ DelayedBefore(b, 2) = 0
  BY <1>2, <1>6 DEF DelayedBefore
<1>8. {i \in 1 .. Len(b.segs) : b.segs[i].kind \in {"l2", "bad"}} = {1}
  BY <1>1
<1>9. L2Count(b) = 1
  BY <1>2, <1>8 DEF L2Count
<1> QED
  BY <1>1, <1>4, <1>5, <1>7, <1>9

LEMMA OneSlots ==
  ASSUME NEW b \in Posted, b.segs = OneMessage, NEW read \in Nat
  PROVE  /\ Span(b, read) \in Nat
         /\ Slots(b, read) = [k \in 1 .. 1 + Span(b, read) |-> IF k = 1 THEN 1 ELSE 0]
<1> DEFINE span == Span(b, read)
<1>1. span \in Nat
  <2>1. b.after \in Nat
    BY DEF Posted
  <2> QED
    BY <2>1 DEF Span
<1>2. Len(b.segs) + 1 = 2 /\ VisibleAt(b) = <<1>> /\ Trimmed(b, <<1>>) = <<1>> /\ DelayedBefore(b, 2) = 0
  <2>1. Len(b.segs) = 1 /\ VisibleAt(b) = <<1>> /\ Trimmed(b, <<1>>) = <<1>> /\ DelayedBefore(b, 2) = 0
    BY OneVisible, Zenon
  <2> QED
    BY <2>1
<1>3. span - DelayedBefore(b, Len(b.segs) + 1) = span
  BY <1>1, <1>2
<1>4. Slots(b, read) = IF span > 0 THEN <<1>> \o [k \in 1 .. span |-> 0] ELSE <<1>>
  <2> DEFINE left == span - DelayedBefore(b, Len(b.segs) + 1)
  <2>1. Slots(b, read) = IF left > 0 THEN VisibleAt(b) \o [k \in 1 .. left |-> 0]
                         ELSE IF VisibleAt(b) = <<>> THEN <<0>>
                         ELSE Trimmed(b, VisibleAt(b))
    BY DEF Slots
  <2> HIDE DEF left, span
  <2>2. left = span /\ VisibleAt(b) # <<>>
    BY <1>2, <1>3 DEF left
  <2> QED
    BY <1>2, <2>1, <2>2
<1> HIDE DEF span
<1> DEFINE slots == [k \in 1 .. 1 + span |-> IF k = 1 THEN 1 ELSE 0]
           zeros == [k \in 1 .. span |-> 0]
<1>5. zeros \in Seq(Nat) /\ Len(zeros) = span /\ slots \in Seq(Nat) /\ Len(slots) = 1 + span
      /\ <<1>> \in Seq(Nat) /\ Len(<<1>>) = 1
  BY <1>1
<1>6. /\ \A k \in 1 .. span : zeros[k] = 0
      /\ \A k \in 1 .. 1 + span : slots[k] = IF k = 1 THEN 1 ELSE 0
  OBVIOUS
<1>7. <<1>> \o zeros = slots
  <2> HIDE DEF zeros, slots
  <2>1. /\ <<1>> \o zeros \in Seq(Nat) /\ Len(<<1>> \o zeros) = 1 + span
        /\ (<<1>> \o zeros)[1] = 1
        /\ \A i \in 1 .. span : (<<1>> \o zeros)[1 + i] = zeros[i]
    BY <1>1, <1>5
  <2>2. ASSUME NEW k \in 1 .. 1 + span PROVE (<<1>> \o zeros)[k] = slots[k]
    <3>1. k = 1 \/ (k - 1 \in 1 .. span /\ 1 + (k - 1) = k)
      BY <1>1
    <3>2. CASE k = 1
      BY <1>6, <2>1, <3>2
    <3>3. CASE k # 1
      <4>1. (<<1>> \o zeros)[1 + (k - 1)] = zeros[k - 1]
        BY <2>1, <3>1, <3>3
      <4> QED
        BY <1>6, <3>1, <3>3, <4>1
    <3> QED
      BY <3>2, <3>3
  <2> QED
    BY <1>1, <1>5, <2>1, <2>2
<1>8. CASE span > 0
  BY <1>1, <1>4, <1>7, <1>8 DEF span
<1>9. CASE span = 0
  <2>1. slots = <<1>>
    BY <1>9
  <2> QED
    BY <1>1, <1>4, <1>9, <2>1 DEF span
<1> QED
  BY <1>1, <1>8, <1>9

\* Its message first, then the delayed messages that it reads.
LEMMA OneMessages ==
  ASSUME NEW b \in Posted, b.segs = OneMessage, NEW read \in Nat
  PROVE  SlotMessages(b, read, Slots(b, read)) =
           [k \in 1 .. 1 + Span(b, read) |->
              IF k = 1 THEN [kind |-> "l2", id |-> <<b.id, 1>>, read |-> read]
              ELSE [kind |-> "delayed", id |-> <<read + (k - 2)>>, read |-> read + (k - 2) + 1]]
<1> DEFINE span == Span(b, read)
           slots == Slots(b, read)
<1>1. span \in Nat /\ slots = [k \in 1 .. 1 + span |-> IF k = 1 THEN 1 ELSE 0]
  BY OneSlots
<1>2. /\ Len(b.segs) + 1 = 2 /\ b.segs[1].kind = "l2"
      /\ DelayedBefore(b, 1) = 0 /\ DelayedBefore(b, 2) = 0
  <2>1. Len(b.segs) = 1 /\ b.segs[1].kind = "l2" /\ DelayedBefore(b, 1) = 0 /\ DelayedBefore(b, 2) = 0
    BY OneVisible, Zenon
  <2> QED
    BY <2>1
<1>3. SlotMessages(b, read, slots) =
        [k \in 1 .. Len(slots) |-> SlotGives(b, read, span, slots[k], SlotsBefore(b, slots, k))]
  BY DEF SlotMessages
<1> HIDE DEF span, slots
<1>4. Len(slots) = 1 + span /\ \A k \in 1 .. 1 + span : slots[k] = IF k = 1 THEN 1 ELSE 0
  BY <1>1
<1>5. ASSUME NEW k \in 1 .. 1 + span
      PROVE  SlotGives(b, read, span, slots[k], SlotsBefore(b, slots, k)) =
               IF k = 1 THEN [kind |-> "l2", id |-> <<b.id, 1>>, read |-> read]
               ELSE [kind |-> "delayed", id |-> <<read + (k - 2)>>, read |-> read + (k - 2) + 1]
  <2>1. CASE k = 1
    <3>1. slots[k] = 1 /\ SlotsBefore(b, slots, k) = 0
      BY <1>2, <1>4, <2>1 DEF SlotsBefore
    <3>2. SlotGives(b, read, span, 1, 0) =
            [kind |-> "l2", id |-> <<b.id, 1>>, read |-> read + (IF 0 < span THEN 0 ELSE span)]
      BY <1>2 DEF SlotGives
    <3>3. read + (IF 0 < span THEN 0 ELSE span) = read
      BY <1>1
    <3> QED
      BY <2>1, <3>1, <3>2, <3>3
  <2>2. CASE k # 1
    <3>1. slots[k] = 0 /\ k - 2 \in Nat /\ k - 2 < span /\ k - 1 \in Nat
      BY <1>1, <1>4, <2>2
    <3>2. {j \in 1 .. k - 1 : slots[j] = 0} = 2 .. k - 1
      BY <1>1, <1>4
    <3>3. Cardinality(2 .. k - 1) = k - 2
      <4>1. 2 \in Int /\ k - 1 \in Int
        BY <3>1
      <4>2. Cardinality(2 .. k - 1) = IF 2 > k - 1 THEN 0 ELSE (k - 1) - 2 + 1
        BY <4>1, FS_Interval
      <4> QED
        BY <3>1, <4>2
    <3>4. SlotsBefore(b, slots, k) = k - 2
      <4>1. SlotsBefore(b, slots, k)
              = DelayedBefore(b, Len(b.segs) + 1) + Cardinality({j \in 1 .. k - 1 : slots[j] = 0})
        BY <3>1 DEF SlotsBefore
      <4>2. SlotsBefore(b, slots, k) = DelayedBefore(b, 2) + Cardinality(2 .. k - 1)
        BY <1>2, <3>2, <4>1, Zenon
      <4> QED
        BY <1>2, <3>1, <3>3, <4>2
    <3>5. SlotGives(b, read, span, 0, k - 2) =
            [kind |-> "delayed", id |-> <<read + (k - 2)>>, read |-> read + (k - 2) + 1]
      BY <3>1 DEF SlotGives
    <3> QED
      BY <2>2, <3>1, <3>4, <3>5
  <2> QED
    BY <2>1, <2>2
<1> QED
  BY <1>3, <1>4, <1>5 DEF span, slots

\* Messages as the multiplexer hands them out, with the delayed ones among known.
Handed(known) ==
  {m \in [kind : {"l2", "delayed"}, id : Seq(Nat), read : Nat] : m.kind = "delayed" => m.id[1] \in known}

\* Either all of a batch comes out, or its expansion is an error.
LEMMA OneExpands ==
  ASSUME NEW b \in Posted, b.segs = OneMessage, NEW read \in Nat, NEW known
  PROVE  /\ Expand(b, read, known).ends \in {"whole", "error"}
         /\ Expand(b, read, known).ends = "whole" =>
              /\ Expand(b, read, known).out \in Seq(Handed(known))
              /\ Len(Expand(b, read, known).out) = 1 + Span(b, read)
              /\ Expand(b, read, known).out[1].read = read
<1> DEFINE span == Span(b, read)
           msgs == SlotMessages(b, read, Slots(b, read))
           ends == {k \in 1 .. Len(msgs) :
                      \/ msgs[k].kind \in {"bad", "unknown"}
                      \/ msgs[k].kind = "delayed" /\ msgs[k].id[1] \notin known}
           least == CHOOSE k \in ends : \A j \in ends : k <= j
<1>1. span \in Nat
  BY OneSlots
<1>2. msgs = [k \in 1 .. 1 + span |->
                IF k = 1 THEN [kind |-> "l2", id |-> <<b.id, 1>>, read |-> read]
                ELSE [kind |-> "delayed", id |-> <<read + (k - 2)>>, read |-> read + (k - 2) + 1]]
  BY OneMessages
<1>3. Expand(b, read, known) = IF ends = {} THEN [out |-> msgs, ends |-> "whole"]
                               ELSE [out |-> SubSeq(msgs, 1, least - 1),
                                     ends |-> IF msgs[least].kind = "unknown" THEN "stopped" ELSE "error"]
  BY Zenon DEF Expand, Until
<1> HIDE DEF msgs, span
<1>4. Len(msgs) = 1 + span /\ 1 .. Len(msgs) \subseteq Nat
  BY <1>1, <1>2
<1>5. ASSUME NEW k \in 1 .. 1 + span
      PROVE  /\ msgs[k] \in [kind : {"l2", "delayed"}, id : Seq(Nat), read : Nat]
             /\ msgs[k].kind \in {"l2", "delayed"}
             /\ k = 1 => msgs[k].read = read
  <2>1. CASE k = 1
    <3>1. msgs[k] = [kind |-> "l2", id |-> <<b.id, 1>>, read |-> read]
      BY <1>2, <2>1
    <3>2. <<b.id, 1>> \in Seq(Nat)
      BY DEF Posted
    <3> DEFINE i == <<b.id, 1>>
    <3>3. msgs[k] = [kind |-> "l2", id |-> i, read |-> read] /\ i \in Seq(Nat)
      BY <3>1, <3>2
    <3> HIDE DEF i
    <3> QED
      BY <3>3
  <2>2. CASE k # 1
    <3>1. msgs[k] = [kind |-> "delayed", id |-> <<read + (k - 2)>>, read |-> read + (k - 2) + 1]
      BY <1>2, <2>2
    <3>2. read + (k - 2) \in Nat /\ read + (k - 2) + 1 \in Nat
      BY <1>1, <2>2
    <3>3. <<read + (k - 2)>> \in Seq(Nat)
      BY <3>2
    <3> DEFINE i == <<read + (k - 2)>>
               r == read + (k - 2) + 1
    <3>4. msgs[k] = [kind |-> "delayed", id |-> i, read |-> r] /\ i \in Seq(Nat) /\ r \in Nat
      BY <3>1, <3>2, <3>3
    <3> HIDE DEF i, r
    <3> QED
      BY <2>2, <3>4
  <2> QED
    BY <2>1, <2>2
<1>6. CASE ends = {}
  <2>1. Expand(b, read, known) = [out |-> msgs, ends |-> "whole"]
    BY <1>3, <1>6
  <2>2. \A k \in 1 .. 1 + span : msgs[k] \in Handed(known)
    BY <1>4, <1>5, <1>6 DEF Handed
  <2>3. msgs \in [1 .. 1 + span -> Handed(known)]
    BY <1>2, <2>2
  <2>4. msgs \in Seq(Handed(known)) /\ 1 \in 1 .. 1 + span
    BY <1>1, <2>3
  <2>5. msgs[1].read = read
    BY <1>5, <2>4
  <2>6. Expand(b, read, known).out = msgs /\ Expand(b, read, known).ends = "whole"
    BY <2>1
  <2> QED
    BY <1>4, <2>4, <2>5, <2>6 DEF span
<1>7. CASE ends # {}
  <2>1. least \in ends
    <3>1. ends \in SUBSET Nat
      BY <1>4
    <3> HIDE DEF ends
    <3>2. \E k \in ends : \A j \in ends : k <= j
      BY <1>7, <3>1, LeastOf
    <3> QED
      BY <3>2
  <2> HIDE DEF least
  <2>2. msgs[least].kind # "unknown"
    BY <1>4, <1>5, <2>1
  <2>3. Expand(b, read, known).ends = "error"
    <3> HIDE DEF ends
    <3> QED
      BY <1>3, <1>7, <2>2
  <2> QED
    BY <2>3
<1> QED
  BY <1>6, <1>7

\* How much a window of such batches expands to, if it does.
LEMMA WindowExpands ==
  ASSUME NEW bs \in Seq(Posted), bs # <<>>, \A k \in 1 .. Len(bs) : bs[k].segs = OneMessage,
         NEW read \in Nat, NEW known, ExpandAll(bs, read, known).ends # "error"
  PROVE  /\ ExpandAll(bs, read, known).out \in Seq(Handed(known))
         /\ ExpandAll(bs, read, known).out # <<>>
         /\ ExpandAll(bs, read, known).out[1].read = read
         /\ \E size \in [0 .. Len(bs) -> Nat] :
              /\ size[0] = 0 /\ size[Len(bs)] = Len(ExpandAll(bs, read, known).out)
              /\ \A k \in 1 .. Len(bs) :
                   /\ size[k] = size[k - 1] + 1 + Span(bs[k], ReadsFrom(bs, read, k))
                   /\ size[k] <= size[Len(bs)]
<1> DEFINE n == Len(bs)
           each == [k \in 1 .. n |-> Expand(bs[k], ReadsFrom(bs, read, k), known)]
           outs == [k \in 1 .. n |-> each[k].out]
           ends == {k \in 1 .. n : each[k].ends # "whole"}
           least == CHOOSE k \in ends : \A j \in ends : k <= j
           all == ExpandAll(bs, read, known)
<1>1. n \in Nat /\ n >= 1 /\ n \in 1 .. n
  OBVIOUS
<1>2. each = [k \in 1 .. n |-> Expand(bs[k], IF k = 1 THEN read ELSE bs[k - 1].after, known)]
  BY DEF ReadsFrom
<1>3. all = Joined(each)
  BY <1>2 DEF ExpandAll
<1>4. ASSUME NEW k \in 1 .. n
      PROVE  /\ ReadsFrom(bs, read, k) \in Nat /\ Span(bs[k], ReadsFrom(bs, read, k)) \in Nat
             /\ each[k].ends \in {"whole", "error"}
             /\ each[k].ends = "whole" =>
                  /\ each[k].out \in Seq(Handed(known))
                  /\ Len(each[k].out) = 1 + Span(bs[k], ReadsFrom(bs, read, k))
                  /\ each[k].out[1].read = ReadsFrom(bs, read, k)
  <2>1. ReadsFrom(bs, read, k) \in Nat /\ Span(bs[k], ReadsFrom(bs, read, k)) \in Nat
    BY SpanType
  <2>2. bs[k] \in Posted /\ bs[k].segs = OneMessage
    OBVIOUS
  <2>3. each[k] = Expand(bs[k], ReadsFrom(bs, read, k), known)
    OBVIOUS
  <2> HIDE DEF each
  <2> QED
    BY <2>1, <2>2, <2>3, OneExpands
<1>5. Len(each) = n
  BY <1>1
<1>6. each[1] = Expand(bs[1], ReadsFrom(bs, read, 1), known)
  BY <1>1
<1> HIDE DEF each, n
<1>7. all.ends = (IF ends = {} THEN "whole" ELSE each[least].ends)
      /\ (ends = {} => all.out = FlattenSeq(First(outs, n)))
  <2> DEFINE m == IF ends = {} THEN n ELSE least
  <2>1. Joined(each) = [out |-> FlattenSeq([k \in 1 .. m |-> each[k].out]),
                        ends |-> IF ends = {} THEN "whole" ELSE each[m].ends]
    <3> DEFINE e == {k \in 1 .. Len(each) : each[k].ends # "whole"}
               l == IF e = {} THEN Len(each) ELSE CHOOSE k \in e : \A j \in e : k <= j
    <3>1. Joined(each) = [out |-> FlattenSeq([k \in 1 .. l |-> each[k].out]),
                          ends |-> IF e = {} THEN "whole" ELSE each[l].ends]
      BY DEF Joined
    <3>2. e = ends
      BY <1>5
    <3>3. l = m
      <4> HIDE DEF e, ends
      <4> QED
        BY <1>5, <3>2
    <3> HIDE DEF e, l, ends, m
    <3> QED
      BY <3>1, <3>2, <3>3, Zenon
  <2>2. ends = {} => [k \in 1 .. m |-> each[k].out] = First(outs, n)
    BY DEF First
  <2> HIDE DEF ends, outs, least
  <2>3. Joined(each).out = FlattenSeq([k \in 1 .. m |-> each[k].out])
        /\ Joined(each).ends = IF ends = {} THEN "whole" ELSE each[m].ends
    <3> DEFINE x == FlattenSeq([k \in 1 .. m |-> each[k].out])
               y == IF ends = {} THEN "whole" ELSE each[m].ends
    <3>1. Joined(each) = [out |-> x, ends |-> y]
      BY <2>1
    <3> HIDE DEF x, y
    <3>2. Joined(each).out = x /\ Joined(each).ends = y
      BY <3>1
    <3> QED
      BY <3>2 DEF x, y
  <2>4. all.out = Joined(each).out /\ all.ends = Joined(each).ends
    BY <1>3
  <2>5. ends = {} => all.out = FlattenSeq(First(outs, n))
    BY <2>2, <2>3, <2>4
  <2>6. ends # {} => m = least
    OBVIOUS
  <2>7. all.ends = IF ends = {} THEN "whole" ELSE each[least].ends
    BY <2>3, <2>4, <2>6
  <2> QED
    BY <2>5, <2>7
<1>8. ends = {}
  <2>1. SUFFICES ASSUME ends # {} PROVE FALSE
    OBVIOUS
  <2>2. least \in ends
    <3>1. ends \in SUBSET Nat
      BY <1>1
    <3> HIDE DEF ends
    <3>2. \E k \in ends : \A j \in ends : k <= j
      BY <2>1, <3>1, LeastOf
    <3> QED
      BY <3>2
  <2> HIDE DEF least
  <2>3. each[least].ends = "error"
    BY <1>4, <2>2
  <2> HIDE DEF ends
  <2> QED
    BY <1>7, <2>1, <2>3
<1>9. ASSUME NEW k \in 1 .. n
      PROVE  /\ outs[k] \in Seq(Handed(known))
             /\ Len(outs[k]) = 1 + Span(bs[k], ReadsFrom(bs, read, k))
             /\ outs[k][1].read = ReadsFrom(bs, read, k)
  BY <1>4, <1>8
<1>10. outs \in [1 .. n -> Seq(Handed(known))]
  <2>1. \A k \in 1 .. n : each[k].out \in Seq(Handed(known))
    BY <1>9
  <2> QED
    BY <2>1
<1>11. all.out = FlattenSeq(First(outs, n))
  BY <1>7, <1>8
<1> HIDE DEF outs, ends, all
<1> DEFINE flat(k) == FlattenSeq(First(outs, k))
<1>12. ASSUME NEW k \in 0 .. n
       PROVE  flat(k) \in Seq(Handed(known)) /\ Len(flat(k)) \in Nat
  <2>1. First(outs, k) \in [1 .. k -> Seq(Handed(known))] /\ k \in Nat
    BY <1>1, <1>10 DEF First
  <2>2. FlattenSeq(First(outs, k)) \in Seq(Handed(known))
    BY <2>1, FlattenType
  <2> QED
    BY <2>2
<1>13. ASSUME NEW k \in 1 .. n
       PROVE  flat(k) = flat(k - 1) \o outs[k] /\ k - 1 \in 0 .. n
  <2>1. k - 1 \in Nat /\ (k - 1) + 1 = k /\ \A j \in 1 .. (k - 1) + 1 : outs[j] \in Seq(Handed(known))
    BY <1>1, <1>10
  <2>2. FlattenSeq(First(outs, (k - 1) + 1)) = FlattenSeq(First(outs, k - 1)) \o outs[(k - 1) + 1]
    BY <2>1, FlattenGrows
  <2>3. flat(k) = flat(k - 1) \o outs[k]
    BY <2>1, <2>2, Zenon
  <2> QED
    BY <1>1, <2>3
<1>14. ASSUME NEW k \in 1 .. n PROVE Begins(flat(k), flat(n))
  <2>1. k \in 0 .. n /\ n \in k .. n
    BY <1>1
  <2> QED
    BY <1>1, <1>10, <2>1, FlattenBegins
<1>15. flat(0) = <<>>
  BY FlattenNone
<1> HIDE DEF flat
<1> DEFINE size == [k \in 0 .. n |-> Len(flat(k))]
<1>16. size \in [0 .. n -> Nat] /\ size[0] = 0 /\ size[n] = Len(all.out)
  <2>1. size \in [0 .. n -> Nat]
    BY <1>12
  <2>2. size[0] = 0
    BY <1>1, <1>15
  <2>3. size[n] = Len(all.out)
    BY <1>1, <1>11 DEF flat
  <2> QED
    BY <2>1, <2>2, <2>3
<1>17. ASSUME NEW k \in 1 .. n
       PROVE  /\ size[k] = size[k - 1] + 1 + Span(bs[k], ReadsFrom(bs, read, k))
              /\ size[k] <= size[n]
  <2>1. k \in 0 .. n /\ k - 1 \in 0 .. n /\ n \in 0 .. n
    BY <1>1
  <2>2. size[k] = Len(flat(k)) /\ size[k - 1] = Len(flat(k - 1)) /\ size[n] = Len(flat(n))
    BY <2>1
  <2>3. Len(flat(k)) = Len(flat(k - 1)) + Len(outs[k])
    <3>1. flat(k - 1) \in Seq(Handed(known)) /\ outs[k] \in Seq(Handed(known))
          /\ flat(k) = flat(k - 1) \o outs[k]
      BY <1>9, <1>12, <1>13, <2>1
    <3> QED
      BY <3>1
  <2>4. Len(flat(k - 1)) \in Nat /\ Span(bs[k], ReadsFrom(bs, read, k)) \in Nat
    BY <1>4, <1>12, <2>1
  <2>5. Len(flat(k)) <= Len(flat(n))
    BY <1>14 DEF Begins
  <2>6. Len(outs[k]) = 1 + Span(bs[k], ReadsFrom(bs, read, k))
    BY <1>9
  <2> HIDE DEF size
  <2> QED
    BY <2>2, <2>3, <2>4, <2>5, <2>6
<1>18. all.out \in Seq(Handed(known)) /\ all.out # <<>> /\ all.out[1].read = read
  <2>1. 1 \in 1 .. n /\ n \in 0 .. n
    BY <1>1
  <2>2. flat(1) = <<>> \o outs[1] /\ outs[1] \in Seq(Handed(known)) /\ Len(outs[1]) >= 1
        /\ outs[1][1].read = read
    <3>1. flat(1) = flat(0) \o outs[1]
      <4>1. flat(1) = flat(1 - 1) \o outs[1]
        BY <1>13, <2>1, Zenon
      <4>2. 1 - 1 = 0
        OBVIOUS
      <4> QED
        BY <4>1, <4>2
    <3>2. ReadsFrom(bs, read, 1) = read
      BY DEF ReadsFrom
    <3>3. Len(outs[1]) = 1 + Span(bs[1], ReadsFrom(bs, read, 1)) /\ Span(bs[1], ReadsFrom(bs, read, 1)) \in Nat
      BY <1>4, <1>9, <2>1
    <3>4. outs[1] \in Seq(Handed(known)) /\ outs[1][1].read = ReadsFrom(bs, read, 1)
      BY <1>9, <2>1, Zenon
    <3>5. Len(outs[1]) >= 1
      BY <3>3
    <3> QED
      BY <1>15, <3>1, <3>2, <3>4, <3>5, Zenon
  <2>3. flat(1) = outs[1]
    BY <2>2
  <2>4. Begins(outs[1], flat(n))
    BY <1>14, <2>1, <2>3
  <2>5. flat(n) = all.out /\ flat(n) \in Seq(Handed(known))
    BY <1>11, <1>12, <2>1 DEF flat
  <2>6. Len(flat(n)) >= 1 /\ flat(n)[1] = outs[1][1]
    BY <2>2, <2>4, <2>5 DEF Begins
  <2> QED
    BY <2>2, <2>5, <2>6
<1> HIDE DEF size
<1> QED
  BY <1>16, <1>17, <1>18 DEF n, all

LEMMA L2CountOne ==
  ASSUME NEW b \in Posted, b.segs = OneMessage
  PROVE  L2Count(b) = 1
<1>1. {i \in 1 .. Len(b.segs) : b.segs[i].kind \in {"l2", "bad"}} = {1}
  BY DEF OneMessage
<1>2. Cardinality({1}) = 1
  BY FS_Singleton
<1> QED
  BY <1>1, <1>2 DEF L2Count

(***************************************************************************)
(* The messages in the log.                                                *)
(***************************************************************************)

\* The delayed messages by their index.
Indexed(delayed) == [i \in 0 .. Len(delayed) - 1 |-> delayed[i + 1]]

\* Resolving leaves the counts of delayed messages read alone.
LEMMA ResolvedIs ==
  ASSUME NEW delayed \in Seq(Posts), NEW out \in Seq(Handed(0 .. Len(delayed) - 1))
  PROVE  /\ Resolved(out, Indexed(delayed)) \in Seq(Logged)
         /\ Len(Resolved(out, Indexed(delayed))) = Len(out)
         /\ \A k \in 1 .. Len(out) : Resolved(out, Indexed(delayed))[k].read = out[k].read
                                     /\ out[k].read \in Nat
<1> DEFINE bodies == Indexed(delayed)
           n == Len(out)
           Content(m) == IF m.kind = "delayed" THEN [m EXCEPT !.id = <<bodies[m.id[1]]>>] ELSE m
           res == [k \in 1 .. n |-> Content(out[k])]
<1>1. Resolved(out, bodies) = res
  BY DEF Resolved
<1>2. n \in Nat /\ \A k \in 1 .. n : out[k] \in Handed(0 .. Len(delayed) - 1)
  OBVIOUS
<1>3. ASSUME NEW m \in Handed(0 .. Len(delayed) - 1)
      PROVE  Content(m) \in Logged /\ Content(m).read = m.read /\ m.read \in Nat
  <2>1. m \in [kind : {"l2", "delayed"}, id : Seq(Nat), read : Nat]
    BY DEF Handed
  <2>2. CASE m.kind = "delayed"
    <3>1. m.id[1] \in 0 .. Len(delayed) - 1
      BY <2>2 DEF Handed
    <3>2. bodies[m.id[1]] \in Posts
      <4>1. bodies[m.id[1]] = delayed[m.id[1] + 1] /\ m.id[1] + 1 \in 1 .. Len(delayed)
        BY <3>1 DEF Indexed
      <4> QED
        BY <4>1
    <3> DEFINE x == <<bodies[m.id[1]]>>
    <3>3. x \in Seq(Nat \cup Posts)
      BY <3>2
    <3>4. Content(m) = [m EXCEPT !.id = x]
      BY <2>2
    <3> HIDE DEF x, Content
    <3> QED
      BY <2>1, <3>3, <3>4 DEF Logged
  <2>3. CASE m.kind # "delayed"
    <3>1. Content(m) = m
      BY <2>3
    <3>2. m.id \in Seq(Nat) /\ m.id \in Seq(Nat \cup Posts)
      <4> DEFINE s == m.id
      <4>1. s \in Seq(Nat)
        BY <2>1
      <4> HIDE DEF s
      <4>2. s \in Seq(Nat \cup Posts)
        BY SMTT(30), <4>1
      <4> QED
        BY <4>1, <4>2 DEF s
    <3> HIDE DEF Content
    <3> QED
      BY <2>1, <3>1, <3>2 DEF Logged
  <2> QED
    BY <2>2, <2>3
<1> HIDE DEF Content, n
<1>4. \A k \in 1 .. n : res[k] = Content(out[k])
  OBVIOUS
<1>5. res \in [1 .. n -> Logged]
  BY <1>2, <1>3
<1>6. res \in Seq(Logged) /\ Len(res) = n
  BY <1>2, <1>5
<1> HIDE DEF res
<1> QED
  BY <1>1, <1>2, <1>3, <1>4, <1>6 DEF n

\* What the streamer accepts reads one more delayed message at a time.
LEMMA LogGrows ==
  ASSUME NEW log \in Seq(Logged), \A k \in 1 .. Len(log) : log[k].read < k,
         NEW delayed \in Seq(Posts), NEW out \in Seq(Handed(0 .. Len(delayed) - 1)),
         StreamerAccepts(log, out), log = <<>> /\ out # <<>> => out[1].read = 0
  PROVE  /\ log \o Resolved(out, Indexed(delayed)) \in Seq(Logged)
         /\ Len(log \o Resolved(out, Indexed(delayed))) = Len(log) + Len(out)
         /\ \A k \in 1 .. Len(log) + Len(out) : (log \o Resolved(out, Indexed(delayed)))[k].read < k
<1> DEFINE res == Resolved(out, Indexed(delayed))
           l == Len(log)
           n == Len(out)
           Bad == {k \in 1 .. n : ~(out[k].read < l + k)}
<1>1. /\ res \in Seq(Logged) /\ Len(res) = n
      /\ \A k \in 1 .. n : res[k].read = out[k].read /\ out[k].read \in Nat
  BY ResolvedIs
<1>2. l \in Nat /\ n \in Nat
  OBVIOUS
<1>3. \A k \in 1 .. l : log[k].read \in Nat
  <2>1. \A k \in 1 .. l : log[k] \in Logged
    OBVIOUS
  <2> QED
    BY <2>1 DEF Logged
<1>4. \A k \in 1 .. n : out[k].read <= 1 + (IF k > 1 THEN out[k - 1].read
                                            ELSE IF log = <<>> THEN 0 ELSE log[Len(log)].read)
  BY DEF StreamerAccepts
<1>5. ASSUME 1 \in 1 .. n PROVE out[1].read < l + 1
  <2>1. CASE log = <<>>
    BY <1>2, <1>5, <2>1
  <2>2. CASE log # <<>>
    <3>1. l \in 1 .. l
      BY <2>2
    <3>2. log[l].read < l /\ log[l].read \in Nat
      BY <1>3, <3>1
    <3>3. out[1].read <= 1 + log[l].read /\ out[1].read \in Nat
      BY <1>1, <1>4, <1>5, <2>2
    <3> HIDE DEF l
    <3> QED
      BY SMTT(30), <1>2, <3>2, <3>3
  <2> QED
    BY <2>1, <2>2
<1> HIDE DEF res, l, n
<1>6. Bad = {}
  <2>1. SUFFICES ASSUME Bad # {} PROVE FALSE
    OBVIOUS
  <2>2. PICK k \in Bad : \A j \in Bad : k <= j
    <3>1. Bad \in SUBSET Nat
      BY <1>2
    <3> HIDE DEF Bad
    <3> QED
      BY <2>1, <3>1, LeastOf
  <2>3. k \in 1 .. n /\ ~(out[k].read < l + k)
    OBVIOUS
  <2>4. k # 1
    BY <1>5, <2>3
  <2>5. k - 1 \in 1 .. n /\ k > 1
    BY <1>2, <2>3, <2>4
  <2>6. k - 1 \notin Bad
    <3> HIDE DEF Bad
    <3> QED
      BY <1>2, <2>2, <2>3
  <2>7. out[k - 1].read < l + (k - 1)
    BY <2>5, <2>6
  <2>8. out[k].read <= 1 + out[k - 1].read
    BY <1>4, <2>3, <2>5
  <2>9. out[k - 1].read \in Nat /\ out[k].read \in Nat
    BY <1>1, <2>3, <2>5
  <2> DEFINE x == out[k].read
             y == out[k - 1].read
  <2>10. x \in Nat /\ y \in Nat /\ x <= 1 + y /\ y < l + (k - 1) /\ ~(x < l + k) /\ k \in Nat
    BY <1>2, <2>3, <2>7, <2>8, <2>9
  <2> HIDE DEF Bad, x, y
  <2> QED
    BY <1>2, <2>10
<1>7. \A k \in 1 .. n : res[k].read < l + k
  BY <1>1, <1>6
<1> DEFINE long == log \o res
<1>8. /\ long \in Seq(Logged) /\ Len(long) = l + n
      /\ \A i \in 1 .. l : long[i] = log[i]
      /\ \A i \in 1 .. n : long[l + i] = res[i]
  <2>1. log \in Seq(Logged) /\ res \in Seq(Logged)
    BY <1>1
  <2>2. /\ log \o res \in Seq(Logged) /\ Len(log \o res) = Len(log) + Len(res)
        /\ \A i \in 1 .. Len(log) : (log \o res)[i] = log[i]
        /\ \A i \in 1 .. Len(res) : (log \o res)[Len(log) + i] = res[i]
    BY ONLY <2>1, ConcatIs
  <2> QED
    BY <1>1, <2>2 DEF l
<1> HIDE DEF long
<1>9. ASSUME NEW k \in 1 .. l + n PROVE long[k].read < k
  <2>1. CASE k <= l
    <3>1. k \in 1 .. l /\ \A i \in 1 .. l : log[i].read < i
      BY <1>2, <2>1 DEF l
    <3> QED
      BY <1>8, <3>1
  <2>2. CASE k > l
    <3>1. k - l \in 1 .. n /\ l + (k - l) = k
      BY <1>2, <2>2
    <3>2. long[l + (k - l)] = res[k - l] /\ res[k - l].read < l + (k - l)
      BY <1>7, <1>8, <3>1
    <3> QED
      BY <3>1, <3>2
  <2> QED
    BY <1>2, <2>1, <2>2
<1> QED
  BY <1>8, <1>9 DEF res, l, n, long

\* What the multiplexer makes of the batches bs, and the log with it.
Stream(t, bs) == ExpandAll(bs, ReadSoFar(t), 0 .. Len(t.delayed) - 1)
LogWith(t, bs) == t.log \o Resolved(Stream(t, bs).out, Indexed(t.delayed))

\* The batches bs expand and the streamer accepts what they expand to.
Accepted(t, bs) ==
  /\ Continues(t)
  /\ Stream(t, bs).ends # "error"
  /\ StreamerAccepts(t.log, Stream(t, bs).out)

\* A batch that reads nothing more than what the log has room for counts no more
\* messages than the log then has.
LEMMA CountsFit ==
  ASSUME NEW n \in Nat, NEW f \in [0 .. n -> Nat], NEW size \in [0 .. n -> Nat], NEW room \in Nat,
         \A k \in 1 .. n : size[k] <= size[n],
         n > 0 => f[1] <= room + size[1],
         \A k \in 2 .. n : \E d \in Nat : f[k] = f[k - 1] + d /\ size[k] = size[k - 1] + d
  PROVE  \A k \in 1 .. n : f[k] <= room + size[n]
<1> DEFINE Bad == {k \in 1 .. n : ~(f[k] <= room + size[k])}
<1>1. Bad = {}
  <2>1. SUFFICES ASSUME Bad # {} PROVE FALSE
    OBVIOUS
  <2>2. PICK k \in Bad : \A j \in Bad : k <= j
    <3>1. Bad \in SUBSET Nat
      OBVIOUS
    <3> HIDE DEF Bad
    <3> QED
      BY <2>1, <3>1, LeastOf
  <2>3. k \in 1 .. n /\ ~(f[k] <= room + size[k])
    OBVIOUS
  <2>4. k # 1
    BY <2>3
  <2>5. k \in 2 .. n /\ k - 1 \in 1 .. n
    BY <2>3, <2>4
  <2>6. k - 1 \notin Bad
    <3> HIDE DEF Bad
    <3> QED
      BY <2>2, <2>3
  <2>7. f[k - 1] <= room + size[k - 1]
    BY <2>5, <2>6
  <2>8. PICK d \in Nat : f[k] = f[k - 1] + d /\ size[k] = size[k - 1] + d
    BY <2>5
  <2>9. f[k - 1] \in Nat /\ size[k - 1] \in Nat
    <3>1. k - 1 \in 0 .. n
      BY <2>5
    <3> QED
      BY <3>1
  <2> HIDE DEF Bad
  <2> QED
    BY SMTT(30), <2>3, <2>7, <2>8, <2>9
<1>2. ASSUME NEW k \in 1 .. n PROVE f[k] <= room + size[n]
  <2>1. f[k] <= room + size[k] /\ size[k] <= size[n]
    BY <1>1
  <2>2. k \in 0 .. n /\ n \in 0 .. n
    OBVIOUS
  <2>3. f[k] \in Nat /\ size[k] \in Nat /\ size[n] \in Nat
    BY <2>2
  <2> HIDE DEF Bad
  <2> QED
    BY <2>1, <2>3
<1> QED
  BY <1>2

\* Without forced inclusions the log has room for the messages of the batches.
LEMMA LogHasRoom ==
  ASSUME NEW t, RecordsOK(t), LogOK(t), 2 \notin Locations,
         NEW before \in Seq(Posted), NEW bs \in Seq(Posted), bs # <<>>,
         \A k \in 1 .. Len(bs) : bs[k].segs = OneMessage /\ Len(bs[k].delayedAcc) = bs[k].after,
         Accepted(t, bs)
  PROVE  /\ LogWith(t, bs) \in Seq(Logged)
         /\ Len(t.log) <= Len(LogWith(t, bs))
         /\ \A k \in 1 .. Len(LogWith(t, bs)) : LogWith(t, bs)[k].read < k
         /\ Chained(t, before, bs) =>
              \A k \in 1 .. Len(bs) :
                MetasFor(LastMeta(t), before, bs)[k].messages \in 1 .. Len(LogWith(t, bs))
<1> DEFINE read == ReadSoFar(t)
           out == Stream(t, bs).out
           log == t.log
           n == Len(bs)
           prev == LastMeta(t)
<1>1. /\ t.delayed \in Seq(Posts) /\ t.metas \in Seq(Records) /\ Len(t.delayed) \in Nat
      /\ log \in Seq(Logged) /\ Len(log) \in Nat
      /\ \A k \in 1 .. Len(log) : log[k].read < k
      /\ \A k \in 1 .. Len(t.metas) : t.metas[k].messages \in 1 .. Len(log)
  BY DEF RecordsOK, LogOK
<1>2. prev \in Records /\ prev.messages \in Nat /\ prev.delayed \in Nat
  <2>1. prev \in Records
    BY LastMetaIs
  <2> QED
    BY <2>1 DEF Records
<1>3. read \in Nat
  BY <1>1, <1>2 DEF ReadSoFar
<1>4. log = <<>> => t.metas = <<>> /\ read = 0
  <2>1. ASSUME log = <<>> PROVE t.metas = <<>>
    <3>1. SUFFICES ASSUME t.metas # <<>> PROVE FALSE
      OBVIOUS
    <3>2. 1 \in 1 .. Len(t.metas)
      BY <1>1, <3>1
    <3>3. t.metas[1].messages \in 1 .. Len(log) /\ Len(log) = 0
      BY <1>1, <2>1, <3>2
    <3> HIDE DEF log
    <3> QED
      BY <3>3
  <2>2. ASSUME log = <<>> PROVE read = 0
    BY <2>1, <2>2 DEF ReadSoFar, StartsCold, LastMeta, NoBatch
  <2> QED
    BY <2>1, <2>2
<1>5. n \in Nat /\ n >= 1
  OBVIOUS
<1>6. /\ out \in Seq(Handed(0 .. Len(t.delayed) - 1)) /\ out # <<>> /\ out[1].read = read
      /\ \E size \in [0 .. n -> Nat] :
           /\ size[0] = 0 /\ size[n] = Len(out)
           /\ \A k \in 1 .. n : /\ size[k] = size[k - 1] + 1 + Span(bs[k], ReadsFrom(bs, read, k))
                                /\ size[k] <= size[n]
  <2> DEFINE known == 0 .. Len(t.delayed) - 1
  <2>1. ExpandAll(bs, read, known).ends # "error" /\ out = ExpandAll(bs, read, known).out
    BY DEF Accepted, Stream
  <2> HIDE DEF known, read, out, log
  <2>2. \A k \in 1 .. Len(bs) : bs[k].segs = OneMessage
    OBVIOUS
  <2>3. /\ ExpandAll(bs, read, known).out \in Seq(Handed(known))
        /\ ExpandAll(bs, read, known).out # <<>>
        /\ ExpandAll(bs, read, known).out[1].read = read
        /\ \E size \in [0 .. Len(bs) -> Nat] :
             /\ size[0] = 0 /\ size[Len(bs)] = Len(ExpandAll(bs, read, known).out)
             /\ \A k \in 1 .. Len(bs) :
                  /\ size[k] = size[k - 1] + 1 + Span(bs[k], ReadsFrom(bs, read, k))
                  /\ size[k] <= size[Len(bs)]
    <3>1. ExpandAll(bs, read, known).ends # "error" /\ bs \in Seq(Posted) /\ bs # <<>>
      BY <2>1
    <3> QED
      BY ONLY <1>3, <2>2, <3>1, WindowExpands
  <2> DEFINE x == ExpandAll(bs, read, known).out
  <2>4. /\ x \in Seq(Handed(known)) /\ x # <<>> /\ x[1].read = read /\ out = x
        /\ \E size \in [0 .. n -> Nat] :
             /\ size[0] = 0 /\ size[n] = Len(x)
             /\ \A k \in 1 .. n : /\ size[k] = size[k - 1] + 1 + Span(bs[k], ReadsFrom(bs, read, k))
                                  /\ size[k] <= size[n]
    BY <2>1, <2>3, Zenon DEF n
  <2> HIDE DEF x, n
  <2> QED
    BY <2>4, Zenon DEF known
<1>7. PICK size \in [0 .. n -> Nat] :
        /\ size[0] = 0 /\ size[n] = Len(out)
        /\ \A k \in 1 .. n : /\ size[k] = size[k - 1] + 1 + Span(bs[k], ReadsFrom(bs, read, k))
                             /\ size[k] <= size[n]
  BY <1>6
<1>8. StreamerAccepts(log, out)
  BY DEF Accepted
<1> DEFINE long == LogWith(t, bs)
<1>9. long = log \o Resolved(out, Indexed(t.delayed))
  BY DEF LogWith
<1> HIDE DEF long, read, out, log, prev, n
<1>10. /\ long \in Seq(Logged) /\ Len(long) = Len(log) + Len(out)
       /\ \A k \in 1 .. Len(log) + Len(out) : long[k].read < k
  <2> DEFINE delayed == t.delayed
  <2>1. delayed \in Seq(Posts) /\ out \in Seq(Handed(0 .. Len(delayed) - 1))
        /\ (log = <<>> /\ out # <<>> => out[1].read = 0)
    BY <1>1, <1>4, <1>6
  <2>2. long = log \o Resolved(out, Indexed(delayed))
    BY <1>9
  <2> HIDE DEF delayed
  <2> QED
    BY <1>1, <1>8, <2>1, <2>2, LogGrows
<1>11. ASSUME Chained(t, before, bs)
       PROVE  \A k \in 1 .. n : MetasFor(prev, before, bs)[k].messages \in 1 .. Len(long)
  <2>1. PICK f \in [0 .. n -> Nat] :
           /\ f[0] = prev.messages
           /\ \A k \in 1 .. n :
                f[k] = f[k - 1] + L2Count(bs[k]) + Span(bs[k], ReadsFrom(bs, prev.delayed, k))
           /\ MetasFor(prev, before, bs)
                = [k \in 1 .. n |-> [acc |-> before \o SubSeq(bs, 1, k),
                                     messages |-> f[k], delayed |-> bs[k].after]]
    BY <1>2, MetasForIs DEF n
  <2>2. \A k \in 1 .. n : bs[k] \in Posted /\ L2Count(bs[k]) = 1 /\ k \in Nat /\ k - 1 \in 0 .. n /\ k \in 0 .. n
    <3>1. \A k \in 1 .. n : bs[k] \in Posted /\ bs[k].segs = OneMessage
      BY DEF n
    <3>2. \A k \in 1 .. n : L2Count(bs[k]) = 1
      BY <3>1, L2CountOne
    <3>3. \A k \in 1 .. n : k \in Nat /\ k - 1 \in 0 .. n /\ k \in 0 .. n
      BY <1>5
    <3> QED
      BY <3>1, <3>2, <3>3
  <2>3. \A k \in 1 .. n : /\ Span(bs[k], ReadsFrom(bs, prev.delayed, k)) \in Nat
                          /\ Span(bs[k], ReadsFrom(bs, read, k)) \in Nat
    BY <1>2, <1>3, SpanType DEF n
  <2>4. 1 \in 1 .. n /\ f[1] = f[0] + 1 + Span(bs[1], prev.delayed) /\ size[1] = 1 + Span(bs[1], read)
        /\ Span(bs[1], prev.delayed) \in Nat /\ Span(bs[1], read) \in Nat
    <3>1. 1 \in 1 .. n /\ 1 - 1 = 0
      BY <1>5
    <3>2. ReadsFrom(bs, prev.delayed, 1) = prev.delayed /\ ReadsFrom(bs, read, 1) = read
      BY DEF ReadsFrom
    <3>3. f[1] = f[1 - 1] + 1 + Span(bs[1], prev.delayed) /\ size[1] = size[1 - 1] + 1 + Span(bs[1], read)
      BY <1>7, <2>1, <2>2, <3>1, <3>2
    <3>4. Span(bs[1], prev.delayed) \in Nat /\ Span(bs[1], read) \in Nat
      BY <2>3, <3>1, <3>2
    <3> QED
      BY <1>7, <3>1, <3>3, <3>4
  <2>5. f[1] <= Len(log) + size[1]
    <3>1. CASE StartsCold(t)
      <4>1. t.metas = <<>> /\ log # <<>> /\ read = Len(t.delayed) /\ prev = NoBatch
        BY <3>1 DEF StartsCold, ReadSoFar, read, log, prev, LastMeta
      <4>2. f[0] = 0 /\ prev.delayed = 0
        BY <2>1, <4>1 DEF NoBatch
      <4>3. bs[1].after <= Len(t.delayed) /\ bs[1].after \in Nat
        <5>1. IsPrefix(bs[1].delayedAcc, t.delayed) /\ bs[1] \in Posted
              /\ Len(bs[1].delayedAcc) = bs[1].after
          BY <1>11, <2>2, <2>4 DEF Chained, n
        <5>2. bs[1].delayedAcc \in Seq(Posts) /\ bs[1].after \in Nat
          BY <5>1 DEF Posted
        <5>3. Begins(bs[1].delayedAcc, t.delayed)
          <6> DEFINE x == bs[1].delayedAcc
                     y == t.delayed
          <6>1. IsPrefix(x, y) /\ x \in Seq(Posts) /\ y \in Seq(Posts)
            BY <1>1, <5>1, <5>2
          <6> HIDE DEF x, y
          <6>2. Begins(x, y)
            BY <6>1, PrefixBegins
          <6> QED
            BY <6>2 DEF x, y
        <5> QED
          BY <5>1, <5>2, <5>3 DEF Begins
      <4>4. read <= Len(log)
        <5>1. 1 \in 1 .. Len(out)
          BY <1>6
        <5>2. out[1].read <= 1 + log[Len(log)].read
          BY <1>8, <4>1, <5>1 DEF StreamerAccepts
        <5>3. Len(log) \in 1 .. Len(log)
          BY <1>1, <4>1
        <5>4. log[Len(log)] \in Logged /\ log[Len(log)].read < Len(log)
          BY <1>1, <5>3
        <5>5. log[Len(log)].read \in Nat
          BY <5>4 DEF Logged
        <5> QED
          BY <1>1, <1>3, <1>6, <5>2, <5>4, <5>5
      <4>5. Span(bs[1], prev.delayed) = bs[1].after
        BY <4>2, <4>3 DEF Span
      <4> QED
        BY <1>1, <1>3, <2>4, <4>1, <4>2, <4>3, <4>4, <4>5
    <3>2. CASE ~StartsCold(t)
      <4>1. Len(log) = prev.messages /\ read = prev.delayed
        BY <3>2 DEF Accepted, Continues, ReadSoFar, read, log, prev
      <4> QED
        BY <1>2, <2>1, <2>4, <4>1
    <3> QED
      BY <3>1, <3>2
  <2>6. \A k \in 2 .. n : \E d \in Nat : f[k] = f[k - 1] + d /\ size[k] = size[k - 1] + d
    <3>1. SUFFICES ASSUME NEW k \in 2 .. n
                   PROVE  \E d \in Nat : f[k] = f[k - 1] + d /\ size[k] = size[k - 1] + d
      OBVIOUS
    <3>2. k \in 1 .. n /\ k # 1 /\ k - 1 \in 0 .. n
      BY <1>5
    <3>3. ReadsFrom(bs, prev.delayed, k) = ReadsFrom(bs, read, k)
      BY <3>2 DEF ReadsFrom
    <3> DEFINE s == Span(bs[k], ReadsFrom(bs, read, k))
    <3>4. f[k] = f[k - 1] + 1 + s /\ size[k] = size[k - 1] + 1 + s /\ s \in Nat
      BY <1>7, <2>1, <2>2, <2>3, <3>2, <3>3
    <3>5. f[k - 1] \in Nat /\ size[k - 1] \in Nat
      BY <3>2
    <3> HIDE DEF s
    <3>6. f[k] = f[k - 1] + (1 + s) /\ size[k] = size[k - 1] + (1 + s) /\ 1 + s \in Nat
      BY <3>4, <3>5
    <3> QED
      BY <3>6
  <2>7. \A k \in 1 .. n : f[k] <= Len(log) + size[n]
    <3>1. \A k \in 1 .. n : size[k] <= size[n]
      BY <1>7
    <3> DEFINE room == Len(log)
    <3>2. room \in Nat /\ f[1] <= room + size[1]
      BY <1>1, <2>5
    <3> HIDE DEF room
    <3>3. \A k \in 1 .. n : f[k] <= room + size[n]
      BY <1>5, <2>6, <3>1, <3>2, CountsFit
    <3> QED
      BY <3>3 DEF room
  <2>8. ASSUME NEW k \in 1 .. n PROVE f[k] \in 1 .. Len(long)
    <3> DEFINE x == f[k]
               y == Span(bs[k], ReadsFrom(bs, prev.delayed, k))
               z == f[k - 1]
    <3>1. x = z + 1 + y /\ x \in Nat /\ y \in Nat /\ z \in Nat
      BY <2>1, <2>2, <2>3
    <3>2. x <= Len(long) /\ Len(long) \in Nat
      BY <1>7, <1>10, <2>7
    <3> HIDE DEF x, y, z
    <3>3. x \in 1 .. Len(long)
      BY <3>1, <3>2
    <3> QED
      BY <3>3 DEF x
  <2>9. ASSUME NEW k \in 1 .. n PROVE MetasFor(prev, before, bs)[k].messages = f[k]
    <3> DEFINE a == before \o SubSeq(bs, 1, k)
               b == bs[k].after
    <3>1. MetasFor(prev, before, bs)[k] = [acc |-> a, messages |-> f[k], delayed |-> b]
      BY <2>1
    <3> HIDE DEF a, b
    <3> QED
      BY <3>1
  <2> QED
    BY <2>8, <2>9
<1>12. Len(log) <= Len(long)
  BY <1>1, <1>6, <1>10
<1> QED
  BY <1>10, <1>11, <1>12 DEF long, log, prev, n

(***************************************************************************)
(* add_sequencer_batches_and_stream.                                       *)
(***************************************************************************)

\* The messages are streamed and the batches are not recorded.
OnlyStreamed(t, log) == [delayed |-> t.delayed, metas |-> t.metas, log |-> log]

LEMMA AddedIs ==
  ASSUME NEW t, RecordsOK(t), NEW before, NEW bs
  PROVE  LET added == add_sequencer_batches_and_stream(t, before, bs).tr
         IN  \/ added = t
             \/ /\ Accepted(t, bs)
                /\ added = OnlyStreamed(t, LogWith(t, bs))
             \/ /\ Accepted(t, bs) /\ Chained(t, before, bs)
                /\ added = Recorded(t, before, bs, LogWith(t, bs))
<1> DEFINE stream == Stream(t, bs)
           res == Resolved(stream.out, Indexed(t.delayed))
           added == add_sequencer_batches_and_stream(t, before, bs)
<1>1. t = [delayed |-> t.delayed, metas |-> t.metas, log |-> t.log]
  BY DEF RecordsOK
<1>2. CASE ~Continues(t)
  <2>1. added = [ok |-> TRUE, tr |-> t]
    BY <1>2 DEF add_sequencer_batches_and_stream
  <2> QED
    BY <2>1
<1>3. CASE Continues(t)
  <2>1. added = StreamWindow(t, before, bs, stream)
    BY <1>3 DEF add_sequencer_batches_and_stream, Stream
  <2>2. \/ added = [ok |-> FALSE, tr |-> t]
        \/ added = [ok |-> TRUE, tr |-> t]
        \/ /\ stream.ends # "error" /\ StreamerAccepts(t.log, stream.out)
           /\ added = Streamed(t, before, bs, res)
    BY <2>1, Zenon DEF StreamWindow, Indexed
  <2>3. CASE added = [ok |-> FALSE, tr |-> t] \/ added = [ok |-> TRUE, tr |-> t]
    <3> HIDE DEF added
    <3>1. added.tr = t
      BY <2>3
    <3> QED
      BY <3>1 DEF added
  <2>4. CASE /\ stream.ends # "error" /\ StreamerAccepts(t.log, stream.out)
             /\ added = Streamed(t, before, bs, res)
    <3>1. Accepted(t, bs)
      BY <1>3, <2>4 DEF Accepted
    <3> DEFINE new == MetasFor(LastMeta(t), before, bs)
    <3>2. IF Chained(t, before, bs)
          THEN added = [ok |-> TRUE, tr |-> [t EXCEPT !.log = @ \o res, !.metas = @ \o new]]
          ELSE added = [ok |-> FALSE, tr |-> [t EXCEPT !.log = @ \o res]]
      BY <2>4 DEF Streamed
    <3> DEFINE log == t.log \o res
               metas == t.metas \o new
    <3>3. IF Chained(t, before, bs)
          THEN added.tr = [t EXCEPT !.log = log, !.metas = metas]
          ELSE added.tr = [t EXCEPT !.log = log]
      <4> HIDE DEF new, res, added
      <4> QED
        BY <3>2
    <3> HIDE DEF log, metas, added
    <3>4. IF Chained(t, before, bs)
          THEN added.tr = [delayed |-> t.delayed, metas |-> metas, log |-> log]
          ELSE added.tr = [delayed |-> t.delayed, metas |-> t.metas, log |-> log]
      BY <1>1, <3>3
    <3>5. log = LogWith(t, bs) /\ metas = t.metas \o MetasFor(LastMeta(t), before, bs)
      BY DEF log, metas, LogWith
    <3> QED
      BY <3>1, <3>4, <3>5, Zenon DEF added, OnlyStreamed, Recorded
  <2> QED
    BY <2>2, <2>3, <2>4
<1> QED
  BY <1>2, <1>3

\* What it leaves is in order.
LEMMA AddKeeps ==
  ASSUME NEW t, RecordsOK(t), LogOK(t), NEW before \in Seq(Posted), NEW bs \in Seq(Posted),
         bs # <<>>, Ordered(before \o bs), NEW added,
         added = add_sequencer_batches_and_stream(t, before, bs).tr
  PROVE  /\ RecordsOK(added) /\ LogOK(added) /\ added.delayed = t.delayed
         /\ LastMeta(added) = LastMeta(t) \/ Begins(LastMeta(added).acc, before \o bs)
<1> DEFINE log == LogWith(t, bs)
<1>1. /\ t.delayed \in Seq(Posts) /\ t.metas \in Seq(Records)
      /\ t = [delayed |-> t.delayed, metas |-> t.metas, log |-> t.log]
  BY DEF RecordsOK
<1>2. ASSUME NEW k \in 1 .. Len(bs)
      PROVE  /\ bs[k] \in Posted /\ Len(bs[k].delayedAcc) = bs[k].after
             /\ 2 \notin Locations => bs[k].segs = OneMessage
  <2> DEFINE all == before \o bs
  <2>1. Len(all) = Len(before) + Len(bs) /\ all[Len(before) + k] = bs[k]
        /\ Len(before) \in Nat /\ Len(bs) \in Nat
    <3>1. /\ before \o bs \in Seq(Posted) /\ Len(before \o bs) = Len(before) + Len(bs)
          /\ Len(before) \in Nat /\ Len(bs) \in Nat
          /\ \A i \in 1 .. Len(before) : (before \o bs)[i] = before[i]
          /\ \A i \in 1 .. Len(bs) : (before \o bs)[Len(before) + i] = bs[i]
      BY ONLY before \in Seq(Posted), bs \in Seq(Posted), ConcatIs
    <3> QED
      BY <3>1, Zenon
  <2> HIDE DEF all
  <2>2. Len(before) + k \in 1 .. Len(all)
    BY <2>1
  <2>3. Ordered(all)
    BY DEF all
  <2>4. Len(bs[k].delayedAcc) = bs[k].after /\ (bs[k].loc # 2 => bs[k].segs = OneMessage)
    BY <2>1, <2>2, <2>3 DEF Ordered
  <2>5. bs[k] \in Posted
    OBVIOUS
  <2>6. bs[k].loc \in Locations
    BY <2>5 DEF Posted
  <2> QED
    BY <2>4, <2>5, <2>6
<1>3. ASSUME 2 \notin Locations, Accepted(t, bs)
      PROVE  /\ log \in Seq(Logged) /\ Len(t.log) <= Len(log) /\ Len(t.log) \in Nat
             /\ \A k \in 1 .. Len(log) : log[k].read < k
             /\ \A n \in 1 .. Len(t.metas) : t.metas[n].messages \in 1 .. Len(log)
             /\ Chained(t, before, bs) =>
                  \A k \in 1 .. Len(bs) :
                    MetasFor(LastMeta(t), before, bs)[k].messages \in 1 .. Len(log)
  <2>1. \A k \in 1 .. Len(bs) : bs[k].segs = OneMessage /\ Len(bs[k].delayedAcc) = bs[k].after
    BY <1>2, <1>3
  <2>2. /\ log \in Seq(Logged) /\ Len(t.log) <= Len(log)
        /\ \A k \in 1 .. Len(log) : log[k].read < k
        /\ Chained(t, before, bs) =>
             \A k \in 1 .. Len(bs) :
               MetasFor(LastMeta(t), before, bs)[k].messages \in 1 .. Len(log)
    BY <1>3, <2>1, LogHasRoom
  <2> HIDE DEF log
  <2>3. /\ t.log \in Seq(Logged) /\ Len(t.log) \in Nat
        /\ \A n \in 1 .. Len(t.metas) : t.metas[n].messages \in 1 .. Len(t.log)
    BY <1>3 DEF LogOK
  <2>4. Len(log) \in Nat
    BY <2>2
  <2>5. 1 .. Len(t.log) \subseteq 1 .. Len(log)
    BY <2>2, <2>3, <2>4
  <2> QED
    BY <2>2, <2>3, <2>5
<1> HIDE DEF log
<1>4. CASE added = t
  BY <1>4
<1>5. CASE Accepted(t, bs) /\ added = OnlyStreamed(t, log)
  <2>1. added.delayed = t.delayed /\ added.metas = t.metas /\ added.log = log
        /\ added = [delayed |-> added.delayed, metas |-> added.metas, log |-> added.log]
    <3>1. added = [delayed |-> t.delayed, metas |-> t.metas, log |-> log]
      BY <1>5 DEF OnlyStreamed
    <3> QED
      BY ONLY <3>1
  <2>2. RecordsOK(added)
    BY <2>1 DEF RecordsOK
  <2>3. LogOK(added)
    BY <1>3, <1>5, <2>1 DEF LogOK
  <2>4. LastMeta(added) = LastMeta(t)
    BY <2>1 DEF LastMeta
  <2> QED
    BY <2>1, <2>2, <2>3, <2>4
<1>6. CASE Accepted(t, bs) /\ Chained(t, before, bs) /\ added = Recorded(t, before, bs, log)
  <2>1. Follow(t, before, bs)
    <3>1. ASSUME NEW k \in 1 .. Len(bs) PROVE Begins(bs[k].delayedAcc, t.delayed)
      <4> DEFINE x == bs[k].delayedAcc
                 y == t.delayed
      <4>1. IsPrefix(x, y) /\ x \in Seq(Posts) /\ y \in Seq(Posts)
        BY <1>1, <1>2, <1>6 DEF Chained, Posted
      <4> HIDE DEF x, y
      <4>2. Begins(x, y)
        BY <4>1, PrefixBegins
      <4> QED
        BY <4>2 DEF x, y
    <3> QED
      BY <1>6, <3>1 DEF Follow, Chained
  <2>2. RecordsOK(added) /\ Begins(LastMeta(added).acc, before \o bs)
    BY <1>6, <2>1, FollowingKeeps
  <2> DEFINE new == MetasFor(LastMeta(t), before, bs)
  <2>3. added.delayed = t.delayed /\ added.metas = t.metas \o new /\ added.log = log
    <3> DEFINE metas == t.metas \o new
    <3>1. added = [delayed |-> t.delayed, metas |-> metas, log |-> log]
      BY <1>6 DEF Recorded
    <3> HIDE DEF metas
    <3>2. added.delayed = t.delayed /\ added.metas = metas /\ added.log = log
      BY ONLY <3>1
    <3> QED
      BY <3>2 DEF metas
  <2>4. ASSUME 2 \notin Locations
        PROVE  \A n \in 1 .. Len(added.metas) : added.metas[n].messages \in 1 .. Len(log)
    <3>1. new \in Seq(Records) /\ Len(new) = Len(bs)
      <4>1. LastMeta(t) \in Records
        BY LastMetaIs
      <4>2. PICK f \in [0 .. Len(bs) -> Nat] :
              new = [k \in 1 .. Len(bs) |-> [acc |-> before \o SubSeq(bs, 1, k),
                                             messages |-> f[k], delayed |-> bs[k].after]]
        BY <4>1, MetasForIs
      <4> HIDE DEF new
      <4>3. ASSUME NEW k \in 1 .. Len(bs)
            PROVE  [acc |-> before \o SubSeq(bs, 1, k), messages |-> f[k], delayed |-> bs[k].after] \in Records
        <5> DEFINE a == before \o SubSeq(bs, 1, k)
        <5>1. a \in Seq(Posted)
          <6>1. SubSeq(bs, 1, k) \in Seq(Posted)
            OBVIOUS
          <6> QED
            BY ONLY before \in Seq(Posted), <6>1, ConcatIs
        <5>2. f[k] \in Nat /\ bs[k].after \in Nat
          BY <1>2 DEF Posted
        <5> HIDE DEF a
        <5>3. [acc |-> a, messages |-> f[k], delayed |-> bs[k].after] \in Records
          BY <5>1, <5>2 DEF Records
        <5> QED
          BY <5>3 DEF a
      <4>4. new \in [1 .. Len(bs) -> Records]
        BY <4>2, <4>3
      <4> QED
        BY <4>4
    <3>2. \A k \in 1 .. Len(bs) : new[k].messages \in 1 .. Len(log)
      BY <1>3, <1>6, <2>4
    <3>3. \A n \in 1 .. Len(t.metas) : t.metas[n].messages \in 1 .. Len(log)
      BY <1>3, <1>6, <2>4
    <3> DEFINE old == t.metas
               metas == old \o new
    <3>0. old \in Seq(Records)
      BY <1>1
    <3> HIDE DEF new, old
    <3>4. /\ metas \in Seq(Records) /\ Len(metas) = Len(old) + Len(new)
          /\ Len(old) \in Nat /\ Len(new) \in Nat
          /\ \A i \in 1 .. Len(old) : metas[i] = old[i]
          /\ \A i \in 1 .. Len(new) : metas[Len(old) + i] = new[i]
      <4>1. new \in Seq(Records)
        BY <3>1
      <4>2. /\ old \o new \in Seq(Records) /\ Len(old \o new) = Len(old) + Len(new)
            /\ Len(old) \in Nat /\ Len(new) \in Nat
            /\ \A i \in 1 .. Len(old) : (old \o new)[i] = old[i]
            /\ \A i \in 1 .. Len(new) : (old \o new)[Len(old) + i] = new[i]
        BY ONLY <3>0, <4>1, ConcatIs
      <4> QED
        BY <4>2, Zenon
    <3> HIDE DEF metas
    <3>5. ASSUME NEW n \in 1 .. Len(metas) PROVE metas[n].messages \in 1 .. Len(log)
      <4>1. CASE n <= Len(old)
        <5>1. n \in 1 .. Len(old)
          BY <3>4, <4>1
        <5> QED
          BY <3>3, <3>4, <5>1 DEF old
      <4>2. CASE n > Len(old)
        <5>1. n - Len(old) \in 1 .. Len(new) /\ Len(old) + (n - Len(old)) = n
          BY <3>4, <4>2
        <5>2. metas[Len(old) + (n - Len(old))] = new[n - Len(old)]
          BY <3>4, <5>1
        <5> QED
          BY <3>1, <3>2, <5>1, <5>2
      <4> QED
        BY <3>4, <4>1, <4>2
    <3> QED
      BY <2>3, <3>5 DEF metas, old
  <2>5. LogOK(added)
    BY <1>3, <1>6, <2>3, <2>4 DEF LogOK
  <2> QED
    BY <2>2, <2>3, <2>5
<1> QED
  BY <1>4, <1>5, <1>6, AddedIs DEF log

(***************************************************************************)
(* The inductive invariant.                                                *)
(***************************************************************************)

Problems == {"missingDelayed", "reorgingDelayed", "missingBatches", "reorgingBatches"}

Steps == {"begin", "wait", "acc", "bcount", "bacc", "decide", "batches", "data",
          "backfill", "add", "finish", "ended"}

Locals == [pc : Steps, from : Nat, fetch : Nat, height : Nat, to : Nat,
           found : SUBSET Problems, check : Nat, got : Nat,
           prior : Seq(Posted), batches : Seq(Posted)]

\* The reader works on batches that it fetched.
Fetched(r) == r.pc \in {"data", "backfill", "add"}

\* The batches fetched, with those before them on L1.
UpToFetched(r) == r.prior \o r.batches

\* The reader's variables: its window starts at a block and what it fetched is in
\* L1's order, also after L1 has dropped it.
ReaderOK(r) ==
  /\ r \in Locals
  /\ r.pc # "ended" => r.from >= 1
  /\ Fetched(r) => r.batches # <<>> /\ Ordered(UpToFetched(r))

\* All that a reader holds, and reads next, is in the first s blocks of c.
WithinSafe(c, s, t, r) ==
  /\ r.height <= s /\ r.to <= s
  /\ Begins(t.delayed, DelayedOf(c, s))
  /\ Begins(LastMeta(t).acc, BatchesOf(c, s))
  /\ Fetched(r) => Begins(UpToFetched(r), BatchesOf(c, s))

Inv ==
  /\ mode \in {"latest", "safe"}
  /\ ChainOK(chain)
  /\ safe \in 0 .. Len(chain)
  /\ headers \in Seq(Nat)
  /\ RecordsOK(tr)
  /\ LogOK(tr)
  /\ ReaderOK(rd)
  /\ mode = "safe" => WithinSafe(chain, safe, tr, rd)

LEMMA StartIs ==
  ASSUME NEW delayed \in Seq(Posts)
  PROVE  ReaderOK(Start(delayed)) /\ Start(delayed).height = 0 /\ Start(delayed).to = 0
         /\ ~Fetched(Start(delayed))
<1> DEFINE from == IF delayed = <<>> THEN FirstBlock ELSE Most(delayed[Len(delayed)].at, FirstBlock)
<1>1. from \in Nat /\ from >= 1
  <2>1. FirstBlock \in Nat /\ FirstBlock >= 1
    BY ReaderAssumption
  <2>2. delayed # <<>> => delayed[Len(delayed)].at \in Nat
    <3>1. delayed # <<>> => delayed[Len(delayed)] \in Posts
      OBVIOUS
    <3> QED
      BY <3>1 DEF Posts
  <2> QED
    BY <2>1, <2>2 DEF Most
<1>2. DefaultBlocks \in Nat /\ <<>> \in Seq(Posted)
  BY ReaderAssumption
<1>3. Start(delayed) =
        [pc |-> "begin", from |-> from, fetch |-> DefaultBlocks, height |-> 0, to |-> 0,
         found |-> {}, check |-> 0, got |-> 0, prior |-> <<>>, batches |-> <<>>]
  BY DEF Start
<1> HIDE DEF from
<1>4. Start(delayed) \in Locals
  BY <1>1, <1>2, <1>3 DEF Locals, Steps
<1> QED
  BY <1>1, <1>3, <1>4 DEF ReaderOK, Fetched

LEMMA TurnIs ==
  ASSUME NEW from \in Nat, NEW fetch \in Nat
  PROVE  /\ from >= 1 => ReaderOK(Turn(from, fetch))
         /\ Turn(from, fetch).height = 0 /\ Turn(from, fetch).to = 0 /\ ~Fetched(Turn(from, fetch))
         /\ Turn(from, fetch) \in Locals
<1> DEFINE s == Start(<<>>)
<1>1. s \in Locals /\ s.height = 0 /\ s.to = 0 /\ s.pc = "begin"
  <2>1. <<>> \in Seq(Posts)
    OBVIOUS
  <2>2. ReaderOK(s) /\ s.height = 0 /\ s.to = 0
    BY <2>1, StartIs
  <2>3. s.pc = "begin"
    BY DEF Start
  <2> QED
    BY <2>2, <2>3 DEF ReaderOK
<1>2. Turn(from, fetch) = [s EXCEPT !.from = from, !.fetch = fetch]
  BY DEF Turn
<1> HIDE DEF s
<1>3. /\ Turn(from, fetch) \in Locals /\ Turn(from, fetch).from = from
      /\ Turn(from, fetch).height = 0 /\ Turn(from, fetch).to = 0 /\ Turn(from, fetch).pc = "begin"
  BY <1>1, <1>2 DEF Locals
<1> QED
  BY <1>3 DEF ReaderOK, Fetched

LEMMA EndedIs ==
  ReaderOK(Ended) /\ Ended.height = 0 /\ Ended.to = 0 /\ ~Fetched(Ended)
<1> DEFINE s == Turn(0, 0)
<1>1. s \in Locals /\ s.height = 0 /\ s.to = 0
  BY TurnIs
<1>2. Ended = [s EXCEPT !.pc = "ended"]
  BY DEF Ended
<1> HIDE DEF s
<1>3. Ended \in Locals /\ Ended.height = 0 /\ Ended.to = 0 /\ Ended.pc = "ended"
  BY <1>1, <1>2 DEF Locals, Steps
<1> QED
  BY <1>3 DEF ReaderOK, Fetched

\* What the bridges answer, from the blocks.
LEMMA LooksUp ==
  ASSUME ChainOK(chain), NEW h \in Nat
  PROVE  /\ Least(h, Len(chain)) \in 0 .. Len(chain)
         /\ DelayedAt(h) = DelayedOf(chain, Least(h, Len(chain))) /\ DelayedAt(h) \in Seq(Posts)
         /\ BatchesAt(h) = BatchesOf(chain, Least(h, Len(chain))) /\ BatchesAt(h) \in Seq(Posted)
         /\ Ordered(BatchesAt(h))
<1> DEFINE m == Least(h, Len(chain))
<1>1. chain \in Seq(L1Blocks)
  BY DEF ChainOK
<1>2. /\ m \in 0 .. Len(chain)
      /\ DelayedAt(h) = DelayedOf(chain, m)
      /\ BatchesAt(h) = BatchesOf(chain, m)
  BY <1>1, AtIsOf DEF DelayedAt, BatchesAt
<1> HIDE DEF m
<1>3. DelayedOf(chain, m) \in Seq(Posts) /\ BatchesOf(chain, m) \in Seq(Posted)
  BY <1>1, <1>2, OfType
<1>4. Ordered(BatchesOf(chain, m))
  BY <1>2 DEF ChainOK
<1> QED
  BY <1>2, <1>3, <1>4 DEF m

\* Later blocks add to what earlier ones ordered.
LEMMA LooksUpMore ==
  ASSUME ChainOK(chain), NEW g \in Nat, NEW h \in Nat, g <= h
  PROVE  Begins(DelayedAt(g), DelayedAt(h)) /\ Begins(BatchesAt(g), BatchesAt(h))
<1> DEFINE i == Least(g, Len(chain))
           j == Least(h, Len(chain))
<1>1. chain \in Seq(L1Blocks) /\ Len(chain) \in Nat
  BY DEF ChainOK
<1>2. i \in 0 .. Len(chain) /\ j \in i .. Len(chain)
  BY <1>1 DEF Least
<1>3. DelayedAt(g) = DelayedOf(chain, i) /\ BatchesAt(g) = BatchesOf(chain, i)
      /\ DelayedAt(h) = DelayedOf(chain, j) /\ BatchesAt(h) = BatchesOf(chain, j)
  BY LooksUp
<1> HIDE DEF i, j
<1> QED
  BY <1>1, <1>2, <1>3, OfBegins

\* A sequence and what another has past it.
LEMMA RestJoins ==
  ASSUME NEW S, NEW s \in Seq(S), NEW t \in Seq(S), Begins(s, t)
  PROVE  /\ SubSeq(t, Len(s) + 1, Len(t)) \in Seq(S)
         /\ s \o SubSeq(t, Len(s) + 1, Len(t)) = t
<1> DEFINE m == Len(s)
           n == Len(t)
           rest == SubSeq(t, m + 1, n)
<1>1. m \in Nat /\ n \in Nat /\ m <= n /\ \A i \in 1 .. m : s[i] = t[i]
  BY DEF Begins
<1>2. rest \in Seq(S) /\ Len(rest) = n - m /\ \A i \in 1 .. n - m : rest[i] = t[m + i]
  BY <1>1
<1> HIDE DEF rest, m, n
<1>3. /\ s \o rest \in Seq(S) /\ Len(s \o rest) = n
      /\ \A i \in 1 .. m : (s \o rest)[i] = s[i]
      /\ \A i \in 1 .. n - m : (s \o rest)[m + i] = rest[i]
  <2>1. /\ s \o rest \in Seq(S) /\ Len(s \o rest) = Len(s) + Len(rest)
        /\ \A i \in 1 .. Len(s) : (s \o rest)[i] = s[i]
        /\ \A i \in 1 .. Len(rest) : (s \o rest)[Len(s) + i] = rest[i]
    BY <1>2, ConcatIs
  <2> QED
    BY <1>1, <1>2, <2>1 DEF m
<1> DEFINE all == s \o rest
<1> HIDE DEF all
<1>4. ASSUME NEW i \in 1 .. n PROVE all[i] = t[i]
  <2>1. CASE i <= m
    <3>1. i \in 1 .. m
      BY <1>1, <2>1
    <3> QED
      BY <1>1, <1>3, <3>1 DEF all
  <2>2. CASE i > m
    <3>1. i - m \in 1 .. n - m /\ m + (i - m) = i
      BY <1>1, <2>2
    <3>2. all[m + (i - m)] = rest[i - m] /\ rest[i - m] = t[m + (i - m)]
      BY <1>2, <1>3, <3>1 DEF all
    <3> QED
      BY <3>1, <3>2
  <2> QED
    BY <1>1, <2>1, <2>2
<1>5. all \in Seq(S) /\ Len(all) = n /\ Len(t) = n
  BY <1>3 DEF all, n
<1>6. all = t
  BY <1>4, <1>5
<1> QED
  BY <1>2, <1>6 DEF all, rest, m, n

\* Nothing is past a sequence that is as long.
LEMMA NoRest ==
  ASSUME NEW S, NEW s \in Seq(S), NEW t \in Seq(S), Begins(t, s)
  PROVE  SubSeq(t, Len(s) + 1, Len(t)) = <<>>
BY DEF Begins

\* What is found in the blocks first .. last completes what the blocks before had.
LEMMA FoundIs ==
  ASSUME ChainOK(chain), NEW first \in Nat \ {0}, NEW last \in Nat
  PROVE  /\ DelayedIn(first, last) \in Seq(Posts) /\ BatchesIn(first, last) \in Seq(Posted)
         /\ DelayedIn(first, last) # <<>> =>
              DelayedAt(first - 1) \o DelayedIn(first, last) = DelayedAt(last)
         /\ BatchesIn(first, last) # <<>> =>
              BatchesAt(first - 1) \o BatchesIn(first, last) = BatchesAt(last)
<1> DEFINE d == DelayedAt(first - 1)
           e == DelayedAt(last)
           b == BatchesAt(first - 1)
           c == BatchesAt(last)
<1>1. first - 1 \in Nat
  OBVIOUS
<1>2. d \in Seq(Posts) /\ e \in Seq(Posts) /\ b \in Seq(Posted) /\ c \in Seq(Posted)
  BY <1>1, LooksUp
<1>3. DelayedIn(first, last) = SubSeq(e, Len(d) + 1, Len(e))
      /\ BatchesIn(first, last) = SubSeq(c, Len(b) + 1, Len(c))
  BY DEF DelayedIn, BatchesIn
<1>4. CASE first - 1 <= last
  <2>1. Begins(d, e) /\ Begins(b, c)
    BY <1>1, <1>4, LooksUpMore
  <2> HIDE DEF d, e, b, c
  <2>2. SubSeq(e, Len(d) + 1, Len(e)) \in Seq(Posts) /\ d \o SubSeq(e, Len(d) + 1, Len(e)) = e
    BY <1>2, <2>1, RestJoins
  <2>3. SubSeq(c, Len(b) + 1, Len(c)) \in Seq(Posted) /\ b \o SubSeq(c, Len(b) + 1, Len(c)) = c
    BY <1>2, <2>1, RestJoins
  <2> QED
    BY <1>3, <2>2, <2>3, Zenon DEF d, e, b, c
<1>5. CASE last <= first - 1
  <2>1. Begins(e, d) /\ Begins(c, b)
    BY <1>1, <1>5, LooksUpMore
  <2> HIDE DEF d, e, b, c
  <2>2. SubSeq(e, Len(d) + 1, Len(e)) = <<>> /\ SubSeq(c, Len(b) + 1, Len(c)) = <<>>
    BY <1>2, <2>1, NoRest
  <2>3. DelayedIn(first, last) = <<>> /\ BatchesIn(first, last) = <<>>
    BY <1>3, <2>2, Zenon
  <2> QED
    BY <2>3
<1> QED
  BY SMTT(30), <1>1, <1>4, <1>5

\* When batches are taken back, the last one left is one of them.
LEMMA CutLast ==
  ASSUME NEW t, RecordsOK(t), NEW u, NEW m \in 0 .. Len(t.metas), u.metas = SubSeq(t.metas, 1, m)
  PROVE  Begins(LastMeta(u).acc, LastMeta(t).acc)
<1>1. t.metas \in Seq(Records) /\ Len(t.metas) \in Nat
  BY DEF RecordsOK
<1>2. CASE m = 0
  <2>1. u.metas = <<>>
    BY <1>1, <1>2
  <2>2. LastMeta(u).acc = <<>>
    BY <2>1 DEF LastMeta, NoBatch
  <2>3. LastMeta(t) \in Records
    BY LastMetaIs
  <2>4. LastMeta(t).acc \in Seq(Posted)
    BY <2>3 DEF Records
  <2> QED
    BY <2>2, <2>4 DEF Begins
<1>3. CASE m # 0
  <2> DEFINE metas == t.metas
             cut == SubSeq(metas, 1, m)
  <2>1. metas \in Seq(Records) /\ m \in 1 .. Len(metas) /\ u.metas = cut
    BY <1>1, <1>3
  <2> HIDE DEF metas
  <2>2. Len(cut) = m /\ cut[m] = metas[m] /\ cut # <<>>
    BY <2>1
  <2> HIDE DEF cut
  <2>3. LastMeta(u) = metas[m]
    BY <2>1, <2>2 DEF LastMeta
  <2>4. metas # <<>> /\ Len(metas) \in 1 .. Len(metas)
    BY <2>1
  <2>5. LastMeta(t) = metas[Len(metas)]
    BY <2>4 DEF LastMeta, metas
  <2>6. Begins(metas[m].acc, metas[Len(metas)].acc)
    BY <2>1, <2>4 DEF RecordsOK, metas
  <2> QED
    BY <2>3, <2>5, <2>6
<1> QED
  BY <1>2, <1>3

\* add_delayed_messages with what is found on L1.
LEMMA DelayedAdded ==
  ASSUME ChainOK(chain), RecordsOK(tr), LogOK(tr), NEW first \in Nat \ {0}, NEW last \in Nat,
         NEW u, u = AddDelayedIn(first, last).tr
  PROVE  /\ RecordsOK(u) /\ LogOK(u)
         /\ u.delayed = tr.delayed \/ u.delayed = DelayedAt(last)
         /\ Begins(LastMeta(u).acc, LastMeta(tr).acc)
<1> DEFINE before == DelayedAt(first - 1)
           msgs == DelayedIn(first, last)
<1>1. before \in Seq(Posts) /\ msgs \in Seq(Posts) /\ tr.delayed \in Seq(Posts)
      /\ (msgs # <<>> => before \o msgs = DelayedAt(last))
  <2>1. first - 1 \in Nat
    OBVIOUS
  <2>2. before \in Seq(Posts)
    BY <2>1, LooksUp
  <2> QED
    BY <2>2, FoundIs DEF RecordsOK
<1>2. LastMeta(tr) \in Records
  BY LastMetaIs
<1>3. Begins(LastMeta(tr).acc, LastMeta(tr).acc)
  <2>1. LastMeta(tr).acc \in Seq(Posted)
    BY <1>2 DEF Records
  <2> QED
    BY <2>1 DEF Begins
<1>4. CASE ~(msgs # <<>> /\ ExtendsStored(tr, before))
  <2>1. AddDelayedIn(first, last) = [ok |-> FALSE, tr |-> tr]
    BY <1>4 DEF AddDelayedIn, add_delayed_messages
  <2>2. u = tr
    BY <2>1
  <2> QED
    BY <1>3, <2>2
<1>5. CASE msgs # <<>> /\ ExtendsStored(tr, before)
  <2> DEFINE set == SetDelayed(tr, Len(before), msgs)
  <2>1. AddDelayedIn(first, last) = [ok |-> TRUE, tr |-> set]
    BY <1>5 DEF AddDelayedIn, add_delayed_messages
  <2> HIDE DEF set
  <2>2. u = set
    BY <2>1
  <2>3. Begins(before, tr.delayed)
    <3> DEFINE x == tr.delayed
    <3>1. x \in Seq(Posts) /\ IsPrefix(before, x)
      BY <1>1, <1>5 DEF ExtendsStored
    <3> HIDE DEF x, before
    <3>2. Begins(before, x)
      BY <1>1, <3>1, PrefixBegins
    <3> QED
      BY <3>2 DEF x
  <2> HIDE DEF before, msgs
  <2>4. Len(before) \in 0 .. Len(tr.delayed)
    <3>1. before \in Seq(Posts) /\ tr.delayed \in Seq(Posts)
      BY <1>1
    <3>2. Len(before) \in Nat /\ Len(tr.delayed) \in Nat
      BY ONLY <3>1
    <3>3. Len(before) <= Len(tr.delayed)
      BY ONLY <2>3 DEF Begins
    <3> QED
      BY ONLY <3>2, <3>3
  <2>5. /\ RecordsOK(set) /\ LogOK(set)
        /\ \E m \in 0 .. Len(tr.metas) : set.metas = SubSeq(tr.metas, 1, m)
        /\ set.delayed = SubSeq(tr.delayed, 1, Len(before)) \o msgs
    <3> DEFINE n == Len(before)
    <3>1. n \in 0 .. Len(tr.delayed) /\ msgs \in Seq(Posts) /\ RecordsOK(tr) /\ LogOK(tr)
      BY <1>1, <2>4
    <3> HIDE DEF n
    <3>2. /\ RecordsOK(SetDelayed(tr, n, msgs)) /\ LogOK(SetDelayed(tr, n, msgs))
          /\ \E m \in 0 .. Len(tr.metas) : SetDelayed(tr, n, msgs).metas = SubSeq(tr.metas, 1, m)
          /\ SetDelayed(tr, n, msgs).delayed = SubSeq(tr.delayed, 1, n) \o msgs
      BY ONLY <3>1, SetDelayedKeeps
    <3> QED
      BY ONLY <3>2 DEF set, n
  <2>6. SubSeq(tr.delayed, 1, Len(before)) = before
    <3> DEFINE x == SubSeq(tr.delayed, 1, Len(before))
    <3>1. x \in Seq(Posts) /\ Len(x) = Len(before) /\ \A i \in 1 .. Len(before) : x[i] = tr.delayed[i]
      BY <1>1, <2>4
    <3>2. \A i \in 1 .. Len(before) : x[i] = before[i]
      BY <2>3, <3>1 DEF Begins
    <3> HIDE DEF x
    <3>3. x = before
      BY SMTT(30), <1>1, <3>1, <3>2
    <3> QED
      BY <3>3 DEF x
  <2>7. set.delayed = DelayedAt(last)
    BY <1>1, <1>5, <2>5, <2>6
  <2>8. Begins(LastMeta(set).acc, LastMeta(tr).acc)
    BY <2>5, CutLast
  <2> QED
    BY <2>2, <2>5, <2>7, <2>8
<1> QED
  BY <1>4, <1>5

\* More of what a reader of safe blocks holds stays within them.
LEMMA StaysWithin ==
  ASSUME NEW c, ChainOK(c), NEW s \in 0 .. Len(c), NEW t, RecordsOK(t), NEW r, ReaderOK(r),
         WithinSafe(c, s, t, r), NEW e, ChainOK(e), NEW i \in s .. Len(e),
         DelayedOf(e, s) = DelayedOf(c, s), BatchesOf(e, s) = BatchesOf(c, s)
  PROVE  WithinSafe(e, i, t, r)
<1>1. c \in Seq(L1Blocks) /\ e \in Seq(L1Blocks) /\ Len(e) \in Nat /\ s \in Nat /\ s \in 0 .. Len(e)
      /\ i \in 0 .. Len(e)
  BY DEF ChainOK
<1>2. Begins(DelayedOf(e, s), DelayedOf(e, i)) /\ Begins(BatchesOf(e, s), BatchesOf(e, i))
  BY <1>1, OfBegins
<1>3. /\ DelayedOf(e, s) \in Seq(Posts) /\ DelayedOf(e, i) \in Seq(Posts)
      /\ BatchesOf(e, s) \in Seq(Posted) /\ BatchesOf(e, i) \in Seq(Posted)
  BY <1>1, OfType
<1> DEFINE d == DelayedOf(e, s)
           D == DelayedOf(e, i)
           b == BatchesOf(e, s)
           B == BatchesOf(e, i)
           mine == t.delayed
           acc == LastMeta(t).acc
           up == UpToFetched(r)
<1>4. /\ Begins(mine, d) /\ Begins(acc, b) /\ (Fetched(r) => Begins(up, b))
      /\ r.height <= s /\ r.to <= s
  BY DEF WithinSafe
<1>5. mine \in Seq(Posts) /\ acc \in Seq(Posted) /\ up \in Seq(Posted) /\ r.height \in Nat /\ r.to \in Nat
  <2>1. LastMeta(t) \in Records
    BY LastMetaIs
  <2>2. r \in Locals
    BY DEF ReaderOK
  <2>3. r.prior \in Seq(Posted) /\ r.batches \in Seq(Posted) /\ r.height \in Nat /\ r.to \in Nat
    BY <2>2 DEF Locals
  <2>4. up \in Seq(Posted)
    BY <2>3, ConcatIs DEF UpToFetched
  <2> QED
    BY <2>1, <2>3, <2>4 DEF RecordsOK, Records
<1> HIDE DEF d, D, b, B, mine, acc, up
<1>6. Begins(mine, D)
  BY <1>2, <1>3, <1>4, <1>5, BeginsTransitive DEF d, D
<1>7. Begins(acc, B)
  BY <1>2, <1>3, <1>4, <1>5, BeginsTransitive DEF b, B
<1>8. Fetched(r) => Begins(up, B)
  BY <1>2, <1>3, <1>4, <1>5, BeginsTransitive DEF b, B
<1>9. r.height <= i /\ r.to <= i
  BY <1>1, <1>4, <1>5
<1> QED
  BY <1>6, <1>7, <1>8, <1>9 DEF WithinSafe, mine, acc, up, D, B

(***************************************************************************)
(* Every step keeps the invariant.                                         *)
(***************************************************************************)

LEMMA InitInv ==
  Init => Inv
<1>1. SUFFICES ASSUME Init PROVE Inv
  OBVIOUS
<1>2. ChainOK(<<>>)
  <2>1. <<>> \in Seq(L1Blocks)
    OBVIOUS
  <2>2. \A h \in 0 .. Len(<<>>) : Ordered(BatchesOf(<<>>, h))
    <3>1. Ordered(<<>>)
      BY DEF Ordered
    <3>2. \A h \in 0 .. Len(<<>>) : h = 0
      OBVIOUS
    <3> QED
      BY <3>1, <3>2, OfNone
  <2> QED
    BY <2>1, <2>2 DEF ChainOK
<1>3. RecordsOK(Fresh) /\ LogOK(Fresh)
  BY DEF Fresh, RecordsOK, LogOK
<1>4. ReaderOK(Start(<<>>)) /\ Start(<<>>).height = 0 /\ Start(<<>>).to = 0 /\ ~Fetched(Start(<<>>))
  <2>1. <<>> \in Seq(Posts)
    OBVIOUS
  <2> QED
    BY <2>1, StartIs
<1>5. WithinSafe(<<>>, 0, Fresh, Start(<<>>))
  <2>1. DelayedOf(<<>>, 0) = <<>> /\ BatchesOf(<<>>, 0) = <<>>
    BY OfNone
  <2>2. Fresh.delayed = <<>> /\ LastMeta(Fresh).acc = <<>>
    BY DEF Fresh, LastMeta, NoBatch
  <2>3. Begins(<<>>, <<>>)
    BY DEF Begins
  <2> QED
    BY <1>4, <2>1, <2>2, <2>3 DEF WithinSafe
<1>6. mode \in {"latest", "safe"}
  BY <1>1, ReaderAssumption DEF Init
<1>7. chain = <<>> /\ safe = 0 /\ headers = <<>> /\ tr = Fresh /\ rd = Start(<<>>)
  BY <1>1 DEF Init
<1>8. safe \in 0 .. Len(chain) /\ headers \in Seq(Nat)
  BY <1>7
<1> QED
  BY <1>2, <1>3, <1>4, <1>5, <1>6, <1>7, <1>8 DEF Inv

\* L1 moves.
LEMMA L1BlockInv ==
  ASSUME Inv, L1Block
  PROVE  Inv'
<1>1. /\ ChainOK(chain) /\ chain \in Seq(L1Blocks) /\ Len(chain) \in Nat
      /\ safe \in 0 .. Len(chain) /\ RecordsOK(tr) /\ ReaderOK(rd)
  BY DEF Inv, ChainOK
<1>2. PICK b \in Blocks(Len(chain) + 1, DelayedAt(Len(chain)), BatchesAt(Len(chain))) :
        chain' = Append(chain, b)
  BY DEF L1Block
<1>3. DelayedAt(Len(chain)) = DelayedOf(chain, Len(chain)) /\ BatchesAt(Len(chain)) = BatchesOf(chain, Len(chain))
  <2>1. Least(Len(chain), Len(chain)) = Len(chain)
    BY <1>1 DEF Least
  <2> QED
    BY <1>1, <2>1, LooksUp
<1>4. /\ ChainOK(chain')
      /\ \A h \in 0 .. Len(chain) : DelayedOf(chain', h) = DelayedOf(chain, h)
                                    /\ BatchesOf(chain', h) = BatchesOf(chain, h)
  BY <1>1, <1>2, <1>3, ChainGrows
<1>5. safe \in 0 .. Len(chain') /\ safe \in safe .. Len(chain')
  <2>1. Len(chain') = Len(chain) + 1
    BY <1>1, <1>2
  <2> QED
    BY <1>1, <2>1
<1>6. UNCHANGED <<mode, safe, headers, tr, rd>>
  BY DEF L1Block
<1>7. mode = "safe" => WithinSafe(chain', safe, tr, rd)
  <2>1. SUFFICES ASSUME mode = "safe" PROVE WithinSafe(chain', safe, tr, rd)
    OBVIOUS
  <2>2. WithinSafe(chain, safe, tr, rd)
    BY <2>1 DEF Inv
  <2> QED
    BY <1>1, <1>4, <1>5, <2>2, StaysWithin
<1> QED
  BY <1>4, <1>5, <1>6, <1>7 DEF Inv

LEMMA L1SafeInv ==
  ASSUME Inv, NEW h \in 1 .. MaxHeight, L1Safe(h)
  PROVE  Inv'
<1>1. /\ ChainOK(chain) /\ chain \in Seq(L1Blocks) /\ Len(chain) \in Nat
      /\ safe \in 0 .. Len(chain) /\ RecordsOK(tr) /\ ReaderOK(rd)
  BY DEF Inv, ChainOK
<1>2. safe' = h /\ h \in safe .. Len(chain) /\ h \in 0 .. Len(chain) /\ mode = "safe"
      /\ UNCHANGED <<mode, chain, headers, tr, rd>>
  BY SMTT(30), <1>1, ReaderAssumption DEF L1Safe
<1>3. WithinSafe(chain, safe, tr, rd)
  BY <1>2 DEF Inv
<1>4. WithinSafe(chain, h, tr, rd)
  BY <1>1, <1>2, <1>3, StaysWithin
<1> QED
  BY <1>2, <1>4 DEF Inv

LEMMA L1ReorgInv ==
  ASSUME Inv, NEW h \in 1 .. MaxHeight, L1Reorg(h)
  PROVE  Inv'
<1>1. /\ ChainOK(chain) /\ chain \in Seq(L1Blocks) /\ Len(chain) \in Nat
      /\ safe \in 0 .. Len(chain) /\ RecordsOK(tr) /\ ReaderOK(rd)
  BY DEF Inv, ChainOK
<1>2. h \in 1 .. Len(chain) /\ safe < h /\ UNCHANGED <<mode, safe, headers, tr, rd>>
  BY <1>1, ReaderAssumption DEF L1Reorg
<1>3. PICK b \in Blocks(h, DelayedAt(h - 1), BatchesAt(h - 1)) :
        chain' = [k \in 1 .. Len(chain) |->
                    IF k < h THEN chain[k] ELSE IF k = h THEN b ELSE Empty]
  BY DEF L1Reorg
<1>4. DelayedAt(h - 1) = DelayedOf(chain, h - 1) /\ BatchesAt(h - 1) = BatchesOf(chain, h - 1)
  <2>1. Least(h - 1, Len(chain)) = h - 1 /\ h - 1 \in Nat
    BY <1>1, <1>2 DEF Least
  <2> QED
    BY <1>1, <2>1, LooksUp
<1>5. /\ ChainOK(chain') /\ Len(chain') = Len(chain)
      /\ \A i \in 0 .. h - 1 : DelayedOf(chain', i) = DelayedOf(chain, i)
                               /\ BatchesOf(chain', i) = BatchesOf(chain, i)
  BY <1>1, <1>2, <1>3, <1>4, ChainReorgs
<1>6. safe \in 0 .. h - 1 /\ safe \in 0 .. Len(chain') /\ safe \in safe .. Len(chain')
  BY <1>1, <1>2, <1>5
<1>7. mode = "safe" => WithinSafe(chain', safe, tr, rd)
  <2>1. SUFFICES ASSUME mode = "safe" PROVE WithinSafe(chain', safe, tr, rd)
    OBVIOUS
  <2>2. WithinSafe(chain, safe, tr, rd)
    BY <2>1 DEF Inv
  <2>3. DelayedOf(chain', safe) = DelayedOf(chain, safe) /\ BatchesOf(chain', safe) = BatchesOf(chain, safe)
    BY <1>5, <1>6
  <2> QED
    BY <1>1, <1>5, <1>6, <2>2, <2>3, StaysWithin
<1> QED
  BY <1>2, <1>5, <1>6, <1>7 DEF Inv

\* The reader's variables change, or what waits for it does.
LEMMA OnlyReader ==
  ASSUME Inv, UNCHANGED <<mode, chain, safe, tr>>, headers' \in Seq(Nat), ReaderOK(rd'),
         mode = "safe" => rd'.height <= safe /\ rd'.to <= safe,
         ~Fetched(rd') \/ (Fetched(rd) /\ UpToFetched(rd') = UpToFetched(rd))
  PROVE  Inv'
<1>1. mode = "safe" => WithinSafe(chain, safe, tr, rd')
  BY DEF Inv, WithinSafe
<1> QED
  BY <1>1 DEF Inv

LEMMA PollHeaderInv ==
  ASSUME Inv, PollHeader
  PROVE  Inv'
<1>1. headers \in Seq(Nat) /\ Len(chain) \in Nat
  BY DEF Inv, ChainOK
<1>2. headers' \in Seq(Nat)
  BY <1>1 DEF PollHeader
<1> QED
  BY <1>2 DEF PollHeader, Inv

LEMMA RestartInv ==
  ASSUME Inv, Restart
  PROVE  Inv'
<1>1. tr.delayed \in Seq(Posts) /\ safe \in Nat
  BY DEF Inv, RecordsOK
<1>2. rd' = Start(tr.delayed) /\ headers' = <<>> /\ UNCHANGED <<mode, chain, safe, tr>>
  BY DEF Restart
<1>3. ReaderOK(rd') /\ rd'.height = 0 /\ rd'.to = 0 /\ ~Fetched(rd')
  BY <1>1, <1>2, StartIs
<1>4. headers' \in Seq(Nat)
  BY <1>2
<1> QED
  BY <1>1, <1>2, <1>3, <1>4, OnlyReader

\* The reader's task ends.
LEMMA EndsInv ==
  ASSUME Inv, UNCHANGED <<mode, chain, safe, tr>>, headers' \in Seq(Nat), rd' = Ended
  PROVE  Inv'
<1>1. ReaderOK(rd') /\ rd'.height = 0 /\ rd'.to = 0 /\ ~Fetched(rd')
  BY EndedIs
<1>2. safe \in Nat
  BY DEF Inv
<1> QED
  BY <1>1, <1>2, OnlyReader

\* Its next turn.
LEMMA TurnInv ==
  ASSUME Inv, UNCHANGED <<mode, chain, safe, tr>>, headers' \in Seq(Nat),
         NEW from \in Nat, from >= 1, NEW fetch \in Nat, rd' = Turn(from, fetch)
  PROVE  Inv'
<1>1. ReaderOK(rd') /\ rd'.height = 0 /\ rd'.to = 0 /\ ~Fetched(rd')
  BY TurnIs
<1>2. safe \in Nat
  BY DEF Inv
<1> QED
  BY <1>1, <1>2, OnlyReader

\* What the invariant says of the values that the reader uses.
LEMMA InvFacts ==
  ASSUME Inv
  PROVE  /\ rd \in Locals /\ (rd.pc # "ended" => rd.from >= 1)
         /\ {rd.from, rd.fetch, rd.height, rd.to, rd.check, rd.got, safe, Len(chain)} \subseteq Nat
         /\ {FirstBlock, DefaultBlocks, MinBlocks, MaxBlocks, DelayBlocks} \subseteq Nat
         /\ FirstBlock >= 1
         /\ rd.prior \in Seq(Posted) /\ rd.batches \in Seq(Posted) /\ rd.found \in SUBSET Problems
         /\ headers \in Seq(Nat) /\ mode \in {"latest", "safe"}
         /\ mode = "safe" => rd.height <= safe /\ rd.to <= safe
<1>1. rd \in Locals /\ (rd.pc # "ended" => rd.from >= 1)
  BY DEF Inv, ReaderOK
<1>2. Len(chain) \in Nat /\ safe \in Nat /\ headers \in Seq(Nat) /\ mode \in {"latest", "safe"}
      /\ (mode = "safe" => rd.height <= safe /\ rd.to <= safe)
  BY DEF Inv, ChainOK, WithinSafe
<1>3. {FirstBlock, DefaultBlocks, MinBlocks, MaxBlocks, DelayBlocks} \subseteq Nat /\ FirstBlock >= 1
  BY ReaderAssumption
<1>4. {rd.from, rd.fetch, rd.height, rd.to, rd.check, rd.got} \subseteq Nat
      /\ rd.prior \in Seq(Posted) /\ rd.batches \in Seq(Posted) /\ rd.found \in SUBSET Problems
  BY <1>1 DEF Locals
<1> QED
  BY <1>1, <1>2, <1>3, <1>4

LEMMA BeginInv ==
  ASSUME Inv, Begin
  PROVE  Inv'
<1>1. UNCHANGED <<mode, chain, safe, tr>> /\ headers' \in Seq(Nat) /\ rd.pc = "begin"
  BY InvFacts DEF Begin
<1>2. CASE rd' = Ended
  BY <1>1, <1>2, EndsInv
<1>3. CASE rd' # Ended
  <2> DEFINE from == IF mode = "safe" /\ rd.from > safe + 1 THEN safe ELSE rd.from
             height == Tip
  <2>1. mode = "safe" => safe > 0
    BY <1>3 DEF Begin, HeightRead
  <2>2. rd' = [rd EXCEPT !.pc = "wait", !.height = height, !.from = from]
    BY <1>3 DEF Begin
  <2>3. from \in Nat /\ from >= 1 /\ height \in Nat /\ (mode = "safe" => height = safe)
    BY SMTT(30), <1>1, <2>1, InvFacts DEF Tip
  <2> HIDE DEF from, height
  <2>4. rd' \in Locals /\ rd'.pc = "wait" /\ rd'.from = from /\ rd'.height = height /\ rd'.to = rd.to
    BY <2>2, <2>3, InvFacts DEF Locals, Steps
  <2>5. ReaderOK(rd') /\ ~Fetched(rd')
    BY <2>3, <2>4 DEF ReaderOK, Fetched
  <2>6. mode = "safe" => rd'.height <= safe /\ rd'.to <= safe
    BY <2>3, <2>4, InvFacts
  <2> QED
    BY <1>1, <2>5, <2>6, OnlyReader
<1> QED
  BY <1>2, <1>3

\* The height is read again.
LEMMA HeightInv ==
  ASSUME Inv, UNCHANGED <<mode, chain, safe, tr>>, headers' \in Seq(Nat), rd.pc = "wait",
         NEW height \in Nat, mode = "safe" => height <= safe, rd' = [rd EXCEPT !.height = height]
  PROVE  Inv'
<1>1. rd' \in Locals /\ rd'.pc = "wait" /\ rd'.from = rd.from /\ rd'.height = height /\ rd'.to = rd.to
  BY InvFacts DEF Locals
<1>2. ReaderOK(rd') /\ ~Fetched(rd')
  BY <1>1, InvFacts DEF ReaderOK, Fetched
<1>3. mode = "safe" => rd'.height <= safe /\ rd'.to <= safe
  BY <1>1, InvFacts
<1> QED
  BY <1>2, <1>3, OnlyReader

LEMMA RecvHeaderInv ==
  ASSUME Inv, RecvHeader
  PROVE  Inv'
<1>1. UNCHANGED <<mode, chain, safe, tr>> /\ rd.pc = "wait" /\ headers # <<>> /\ headers' = Tail(headers)
  BY DEF RecvHeader
<1>2. headers \in Seq(Nat) /\ safe \in Nat /\ safe <= safe
  BY InvFacts
<1>3. headers' \in Seq(Nat) /\ headers[1] \in Nat
  BY <1>1, <1>2
<1>4. CASE mode = "latest"
  <2>1. rd' = [rd EXCEPT !.height = headers[1]]
    BY <1>4 DEF RecvHeader
  <2>2. mode # "safe"
    BY <1>4
  <2> DEFINE height == headers[1]
  <2>3. height \in Nat /\ rd' = [rd EXCEPT !.height = height]
    BY <1>3, <2>1
  <2> HIDE DEF height
  <2> QED
    BY <1>1, <1>3, <2>2, <2>3, HeightInv
<1>5. CASE mode = "safe"
  <2>1. rd' = [rd EXCEPT !.height = safe] \/ rd' = Ended
    BY <1>5 DEF RecvHeader
  <2>2. CASE rd' = Ended
    BY <1>1, <1>3, <2>2, EndsInv
  <2>3. CASE rd' = [rd EXCEPT !.height = safe]
    BY <1>1, <1>2, <1>3, <2>3, HeightInv
  <2> QED
    BY <2>1, <2>2, <2>3
<1> QED
  BY <1>4, <1>5, InvFacts

LEMMA TickInv ==
  ASSUME Inv, Tick
  PROVE  Inv'
<1>1. UNCHANGED <<mode, chain, safe, headers, tr>> /\ rd.pc = "wait" /\ mode = "latest"
      /\ (rd' = [rd EXCEPT !.height = Len(chain)] \/ rd' = Ended)
  BY DEF Tick
<1>2. headers' \in Seq(Nat) /\ Len(chain) \in Nat /\ mode # "safe"
  BY <1>1, InvFacts
<1>3. CASE rd' = Ended
  BY <1>1, <1>2, <1>3, EndsInv
<1>4. CASE rd' = [rd EXCEPT !.height = Len(chain)]
  <2> DEFINE height == Len(chain)
  <2>1. height \in Nat /\ rd' = [rd EXCEPT !.height = height]
    BY <1>2, <1>4
  <2> HIDE DEF height
  <2> QED
    BY <1>1, <1>2, <2>1, HeightInv
<1> QED
  BY <1>1, <1>3, <1>4

\* The count of delayed messages is compared, and what L1 does not have is dropped.
LEMMA CountInv ==
  ASSUME Inv, Count
  PROVE  Inv'
<1> DEFINE h == WindowHeight
<1>1. h \in Nat /\ (mode = "latest" => h >= 1) /\ (mode = "safe" => h = rd.height)
  <2>1. mode = "safe" => h = rd.height
    BY DEF WindowHeight
  <2>2. mode = "latest" => h = Most(Minus(rd.height, DelayBlocks), FirstBlock)
    BY DEF WindowHeight
  <2>3. Minus(rd.height, DelayBlocks) \in Nat
    BY SMTT(30), InvFacts DEF Minus
  <2>4. Most(Minus(rd.height, DelayBlocks), FirstBlock) \in Nat
        /\ Most(Minus(rd.height, DelayBlocks), FirstBlock) >= 1
    BY <2>3, InvFacts DEF Most
  <2> QED
    BY <2>1, <2>2, <2>4, InvFacts
<1>2. PICK n \in Nat : DelayedCounted(h, n)
  <2>1. get_message_count(h) \in Nat
    <3>1. DelayedAt(h) \in Seq(Posts)
      BY <1>1, LooksUp DEF Inv
    <3> QED
      BY <3>1 DEF get_message_count
  <2>2. \E ok \in BOOLEAN :
          DelayedCounted(h, IF ok /\ h <= Len(chain) THEN get_message_count(h) ELSE 0)
    BY DEF Count
  <2> HIDE DEF h
  <2>3. \A ok \in BOOLEAN : (IF ok /\ h <= Len(chain) THEN get_message_count(h) ELSE 0) \in Nat
    BY <2>1
  <2> QED
    BY <2>2, <2>3, Zenon
<1>3. rd.pc = "wait" /\ UNCHANGED <<mode, chain, safe, headers>>
  BY DEF Count
<1> HIDE DEF h
<1> DEFINE ours == Len(tr.delayed)
           pc == IF Least(ours, n) > 0 THEN "acc" ELSE "bcount"
           from == IF mode = "latest" THEN Least(rd.from, h) ELSE rd.from
           found == IF ours < n THEN {"missingDelayed"} ELSE {}
           check == Least(ours, n)
<1>4. ours \in Nat /\ RecordsOK(tr) /\ LogOK(tr)
  BY DEF Inv, RecordsOK
<1>5. rd' = [rd EXCEPT !.pc = pc, !.height = h, !.from = from, !.found = found, !.check = check]
  BY <1>2 DEF DelayedCounted
<1>6. /\ pc \in Steps /\ pc \notin {"data", "backfill", "add", "ended"}
      /\ from \in Nat /\ from >= 1 /\ found \in SUBSET Problems /\ check \in Nat
  <2>1. pc \in {"acc", "bcount"}
    OBVIOUS
  <2>2. pc \in Steps /\ pc \notin {"data", "backfill", "add", "ended"}
    BY <2>1 DEF Steps
  <2>3. from \in Nat /\ from >= 1
    BY <1>1, <1>3, InvFacts DEF Least
  <2>4. found \in SUBSET Problems
    BY DEF Problems
  <2>5. check \in Nat
    BY <1>4 DEF Least
  <2> QED
    BY <2>2, <2>3, <2>4, <2>5
<1> HIDE DEF pc, from, found, check
<1>7. rd' \in Locals /\ rd'.pc = pc /\ rd'.from = from /\ rd'.height = h /\ rd'.to = rd.to
  BY <1>1, <1>5, <1>6, InvFacts DEF Locals
<1>8. ReaderOK(rd') /\ ~Fetched(rd')
  BY <1>6, <1>7 DEF ReaderOK, Fetched
<1>9. mode = "safe" => rd'.height <= safe /\ rd'.to <= safe
  BY <1>1, <1>7, InvFacts
<1>10. /\ RecordsOK(tr') /\ LogOK(tr')
       /\ Begins(tr'.delayed, tr.delayed) /\ Begins(LastMeta(tr').acc, LastMeta(tr).acc)
  <2>1. CASE ours > n
    <3>1. tr' = SetDelayed(tr, n, <<>>)
      BY <1>2, <2>1 DEF DelayedCounted, reorg_delayed_to
    <3>2. n \in 0 .. Len(tr.delayed) /\ <<>> \in Seq(Posts)
      BY <1>4, <2>1
    <3>3. /\ RecordsOK(tr') /\ LogOK(tr')
          /\ \E m \in 0 .. Len(tr.metas) : tr'.metas = SubSeq(tr.metas, 1, m)
          /\ tr'.delayed = SubSeq(tr.delayed, 1, n) \o <<>>
      BY <1>4, <3>1, <3>2, SetDelayedKeeps
    <3>4. Begins(tr'.delayed, tr.delayed)
      <4> DEFINE x == SubSeq(tr.delayed, 1, n)
      <4>1. tr.delayed \in Seq(Posts)
        BY <1>4 DEF RecordsOK
      <4>2. x \in Seq(Posts) /\ Len(x) = n /\ \A i \in 1 .. n : x[i] = tr.delayed[i]
        BY <3>2, <4>1
      <4> HIDE DEF x
      <4>3. x \o <<>> = x
        BY <4>2
      <4>4. tr'.delayed = x
        BY <3>3, <4>3 DEF x
      <4> QED
        BY <1>4, <2>1, <4>2, <4>4 DEF Begins
    <3>5. Begins(LastMeta(tr').acc, LastMeta(tr).acc)
      BY <1>4, <3>3, CutLast
    <3> QED
      BY <3>3, <3>4, <3>5
  <2>2. CASE ~(ours > n)
    <3>1. tr' = tr
      BY <1>2, <2>2 DEF DelayedCounted
    <3>2. LastMeta(tr) \in Records /\ tr.delayed \in Seq(Posts)
      BY <1>4, LastMetaIs DEF RecordsOK
    <3>3. LastMeta(tr).acc \in Seq(Posted)
      BY <3>2 DEF Records
    <3> DEFINE x == LastMeta(tr).acc
               y == tr.delayed
    <3>4. x \in Seq(Posted) /\ y \in Seq(Posts)
      BY <3>2, <3>3
    <3> HIDE DEF x, y
    <3>5. Begins(x, x) /\ Begins(y, y)
      BY <3>4 DEF Begins
    <3> QED
      BY <1>4, <3>1, <3>5 DEF x, y
  <2> QED
    BY <2>1, <2>2
<1>11. mode = "safe" => WithinSafe(chain, safe, tr', rd')
  <2>1. SUFFICES ASSUME mode = "safe" PROVE WithinSafe(chain, safe, tr', rd')
    OBVIOUS
  <2> DEFINE d == DelayedOf(chain, safe)
             b == BatchesOf(chain, safe)
             x == tr.delayed
             u == tr'.delayed
             y == LastMeta(tr).acc
             v == LastMeta(tr').acc
  <2>2. Begins(x, d) /\ Begins(y, b)
    BY <2>1 DEF Inv, WithinSafe
  <2>3. Begins(u, x) /\ Begins(v, y)
    BY <1>10
  <2>4. d \in Seq(Posts) /\ b \in Seq(Posted)
    <3>1. chain \in Seq(L1Blocks) /\ safe \in 0 .. Len(chain)
      BY DEF Inv, ChainOK
    <3> QED
      BY <3>1, OfType
  <2>5. x \in Seq(Posts) /\ u \in Seq(Posts) /\ y \in Seq(Posted) /\ v \in Seq(Posted)
    <3>1. LastMeta(tr) \in Records /\ LastMeta(tr') \in Records
      BY <1>4, <1>10, LastMetaIs
    <3> QED
      BY <1>4, <1>10, <3>1 DEF RecordsOK, Records
  <2> HIDE DEF d, b, x, u, y, v
  <2>6. Begins(u, d) /\ Begins(v, b)
    BY <2>2, <2>3, <2>4, <2>5, BeginsTransitive
  <2> QED
    BY <1>8, <1>9, <2>1, <2>6 DEF WithinSafe, d, b, u, v
<1> QED
  BY <1>3, <1>8, <1>10, <1>11 DEF Inv

\* Something is compared.
LEMMA ComparesInv ==
  ASSUME Inv, UNCHANGED <<mode, chain, safe, headers, tr>>, rd.pc # "ended",
         NEW pc \in {"bcount", "bacc", "decide"}, NEW found \in SUBSET Problems, NEW check \in Nat,
         rd' = [rd EXCEPT !.pc = pc, !.found = found, !.check = check]
  PROVE  Inv'
<1>1. pc \in Steps
  BY DEF Steps
<1>2. rd' \in Locals /\ rd'.pc = pc /\ rd'.from = rd.from /\ rd'.height = rd.height /\ rd'.to = rd.to
  BY <1>1, InvFacts DEF Locals
<1>3. ReaderOK(rd') /\ ~Fetched(rd')
  BY <1>2, InvFacts DEF ReaderOK, Fetched
<1>4. (mode = "safe" => rd'.height <= safe /\ rd'.to <= safe) /\ headers' \in Seq(Nat)
  BY <1>2, InvFacts
<1> QED
  BY <1>3, <1>4, OnlyReader

LEMMA CompareDelayedInv ==
  ASSUME Inv, CompareDelayed
  PROVE  Inv'
<1>1. UNCHANGED <<mode, chain, safe, headers, tr>> /\ rd.pc = "acc"
  BY DEF CompareDelayed
<1>2. PICK found \in {rd.found, rd.found \cup {"reorgingDelayed"}} :
        rd' = [rd EXCEPT !.pc = "bcount", !.found = found]
  BY DEF CompareDelayed
<1>3. found \in SUBSET Problems /\ rd.check \in Nat
  BY InvFacts DEF Problems
<1>4. rd' = [rd EXCEPT !.pc = "bcount", !.found = found, !.check = rd.check]
  BY <1>2, InvFacts DEF Locals
<1> QED
  BY <1>1, <1>3, <1>4, ComparesInv

LEMMA CountBatchesInv ==
  ASSUME Inv, CountBatches
  PROVE  Inv'
<1>1. UNCHANGED <<mode, chain, safe, headers, tr>> /\ rd.pc = "bcount"
  BY DEF CountBatches
<1>2. Len(BatchesAt(rd.height)) \in Nat /\ Len(tr.metas) \in Nat
  <2>1. rd.height \in Nat
    BY InvFacts
  <2>2. BatchesAt(rd.height) \in Seq(Posted) /\ tr.metas \in Seq(Records)
    BY <2>1, LooksUp DEF Inv, RecordsOK
  <2> QED
    BY <2>2
<1> DEFINE n == Len(BatchesAt(rd.height))
           ours == Len(tr.metas)
<1>3. \/ rd' = [rd EXCEPT !.pc = "decide", !.found = rd.found \cup {"missingBatches"}]
      \/ rd' = [rd EXCEPT !.pc = IF Least(ours, n) > 0 THEN "bacc" ELSE "decide",
                          !.found = IF ours < n THEN rd.found \cup {"missingBatches"} ELSE rd.found,
                          !.check = Least(ours, n)]
  BY DEF CountBatches, BatchesCounted, get_batch_count
<1> HIDE DEF n, ours
<1>4. Least(ours, n) \in Nat
  BY <1>2 DEF Least, n, ours
<1>5. rd.found \in SUBSET Problems /\ rd.found \cup {"missingBatches"} \in SUBSET Problems /\ rd.check \in Nat
  BY InvFacts DEF Problems
<1>6. CASE rd' = [rd EXCEPT !.pc = "decide", !.found = rd.found \cup {"missingBatches"}]
  <2> DEFINE found == rd.found \cup {"missingBatches"}
  <2>1. found \in SUBSET Problems /\ rd' = [rd EXCEPT !.pc = "decide", !.found = found]
    BY <1>5, <1>6
  <2> HIDE DEF found
  <2>2. rd' = [rd EXCEPT !.pc = "decide", !.found = found, !.check = rd.check]
    BY <2>1, InvFacts DEF Locals
  <2> QED
    BY <1>1, <1>5, <2>1, <2>2, ComparesInv
<1>7. CASE rd' = [rd EXCEPT !.pc = IF Least(ours, n) > 0 THEN "bacc" ELSE "decide",
                            !.found = IF ours < n THEN rd.found \cup {"missingBatches"} ELSE rd.found,
                            !.check = Least(ours, n)]
  <2> DEFINE found == IF ours < n THEN rd.found \cup {"missingBatches"} ELSE rd.found
             pc == IF Least(ours, n) > 0 THEN "bacc" ELSE "decide"
             check == Least(ours, n)
  <2>1. /\ found \in SUBSET Problems /\ pc \in {"bcount", "bacc", "decide"} /\ check \in Nat
        /\ rd' = [rd EXCEPT !.pc = pc, !.found = found, !.check = check]
    BY <1>4, <1>5, <1>7
  <2> HIDE DEF found, pc, check
  <2> QED
    BY <1>1, <2>1, ComparesInv
<1> QED
  BY <1>3, <1>6, <1>7

LEMMA CompareBatchesInv ==
  ASSUME Inv, CompareBatches
  PROVE  Inv'
<1>1. UNCHANGED <<mode, chain, safe, headers, tr>> /\ rd.pc = "bacc"
  BY DEF CompareBatches
<1>2. PICK found \in {rd.found, rd.found \cup {"reorgingBatches"}} :
        rd' = [rd EXCEPT !.pc = "decide", !.found = found]
  BY DEF CompareBatches
<1>3. found \in SUBSET Problems /\ rd.check \in Nat
  BY InvFacts DEF Problems
<1>4. rd' = [rd EXCEPT !.pc = "decide", !.found = found, !.check = rd.check]
  BY <1>2, InvFacts DEF Locals
<1> QED
  BY <1>1, <1>3, <1>4, ComparesInv

LEMMA NothingMissingInv ==
  ASSUME Inv, NothingMissing
  PROVE  Inv'
<1>1. UNCHANGED <<mode, chain, safe, headers, tr>> /\ rd' = Turn(rd.height + 1, DefaultBlocks)
  BY DEF NothingMissing
<1>2. rd.height \in Nat /\ DefaultBlocks \in Nat /\ headers \in Seq(Nat)
  BY InvFacts
<1>3. rd.height + 1 \in Nat /\ rd.height + 1 >= 1 /\ headers' \in Seq(Nat)
  BY <1>1, <1>2
<1> QED
  BY <1>1, <1>2, <1>3, TurnInv

\* What the tracker holds changes and stays in safe blocks.
LEMMA ChangedWithin ==
  ASSUME Inv, mode = "safe", NEW t, RecordsOK(t), NEW r, r.height <= safe, r.to <= safe,
         Begins(t.delayed, DelayedOf(chain, safe)), Begins(LastMeta(t).acc, LastMeta(tr).acc),
         Fetched(r) => Fetched(rd) /\ UpToFetched(r) = UpToFetched(rd)
  PROVE  WithinSafe(chain, safe, t, r)
<1> DEFINE b == BatchesOf(chain, safe)
           y == LastMeta(tr).acc
           v == LastMeta(t).acc
<1>1. Begins(y, b) /\ (Fetched(rd) => Begins(UpToFetched(rd), b))
  BY DEF Inv, WithinSafe
<1>2. b \in Seq(Posted)
  <2>1. chain \in Seq(L1Blocks) /\ safe \in 0 .. Len(chain)
    BY DEF Inv, ChainOK
  <2> QED
    BY <2>1, OfType
<1>3. y \in Seq(Posted) /\ v \in Seq(Posted)
  <2>1. LastMeta(tr) \in Records /\ LastMeta(t) \in Records
    BY LastMetaIs DEF Inv
  <2> QED
    BY <2>1 DEF Records
<1>4. Begins(v, y)
  OBVIOUS
<1> HIDE DEF b, y, v
<1>5. Begins(v, b)
  BY <1>1, <1>2, <1>3, <1>4, BeginsTransitive
<1> QED
  BY <1>1, <1>5 DEF WithinSafe, b, v

\* The delayed messages up to a safe block.
LEMMA SafeDelayed ==
  ASSUME Inv, NEW h \in Nat, h <= safe
  PROVE  Begins(DelayedAt(h), DelayedOf(chain, safe)) /\ Begins(BatchesAt(h), BatchesOf(chain, safe))
<1>1. ChainOK(chain) /\ safe \in Nat /\ Least(safe, Len(chain)) = safe
  BY DEF Inv, ChainOK, Least
<1>2. DelayedAt(safe) = DelayedOf(chain, safe) /\ BatchesAt(safe) = BatchesOf(chain, safe)
  BY <1>1, LooksUp
<1> QED
  BY <1>1, <1>2, LooksUpMore

\* The delayed messages of the blocks first .. last are added.
LEMMA AddsDelayed ==
  ASSUME Inv, NEW first \in Nat \ {0}, NEW last \in Nat, mode = "safe" => last <= safe,
         NEW t, t = tr \/ t = AddDelayedIn(first, last).tr
  PROVE  /\ RecordsOK(t) /\ LogOK(t) /\ Begins(LastMeta(t).acc, LastMeta(tr).acc)
         /\ mode = "safe" => Begins(t.delayed, DelayedOf(chain, safe))
<1>1. ChainOK(chain) /\ RecordsOK(tr) /\ LogOK(tr)
      /\ (mode = "safe" => Begins(tr.delayed, DelayedOf(chain, safe)))
  BY DEF Inv, WithinSafe
<1>2. CASE t = tr
  <2>1. LastMeta(tr) \in Records
    BY <1>1, LastMetaIs
  <2>2. LastMeta(tr).acc \in Seq(Posted)
    BY <2>1 DEF Records
  <2>3. Begins(LastMeta(tr).acc, LastMeta(tr).acc)
    BY <2>2 DEF Begins
  <2> QED
    BY <1>1, <1>2, <2>3
<1>3. CASE t = AddDelayedIn(first, last).tr
  <2>1. /\ RecordsOK(t) /\ LogOK(t)
        /\ t.delayed = tr.delayed \/ t.delayed = DelayedAt(last)
        /\ Begins(LastMeta(t).acc, LastMeta(tr).acc)
    BY <1>1, <1>3, DelayedAdded
  <2>2. mode = "safe" => Begins(DelayedAt(last), DelayedOf(chain, safe))
    BY SafeDelayed
  <2> QED
    BY <1>1, <2>1, <2>2
<1> QED
  BY <1>2, <1>3

LEMMA FetchDelayedInv ==
  ASSUME Inv, FetchDelayed
  PROVE  Inv'
<1> DEFINE to == ToBlock
<1>1. rd.pc = "decide" /\ UNCHANGED <<mode, chain, safe, headers>>
  BY DEF FetchDelayed
<1>2. to \in Nat /\ (mode = "safe" => to <= safe) /\ rd.from \in Nat \ {0}
  <2>1. rd.from \in Nat /\ rd.fetch \in Nat /\ rd.height \in Nat /\ safe \in Nat /\ rd.from >= 1
        /\ (mode = "safe" => rd.height <= safe)
    BY <1>1, InvFacts
  <2> DEFINE x == rd.from
             y == rd.fetch
             z == rd.height
  <2>2. to = IF x + y < z THEN x + y ELSE z
    BY DEF ToBlock, Least
  <2> HIDE DEF x, y, z, to
  <2> QED
    BY <2>1, <2>2 DEF x, y, z
<1>3. Len(DelayedIn(rd.from, to)) \in Nat
  <2>1. DelayedIn(rd.from, to) \in Seq(Posts)
    BY <1>2, FoundIs DEF Inv
  <2> QED
    BY <2>1
<1>4. PICK got \in Nat : rd' = [rd EXCEPT !.pc = "batches", !.to = to, !.got = got]
  <2>1. \/ rd' = [rd EXCEPT !.pc = "batches", !.to = to]
        \/ \E got \in {0, Len(DelayedIn(rd.from, to))} :
             rd' = [rd EXCEPT !.pc = "batches", !.to = to, !.got = got]
    <3>1. CASE rd.found \cap {"missingDelayed", "reorgingDelayed"} = {}
      BY <3>1 DEF FetchDelayed
    <3>2. CASE rd.found \cap {"missingDelayed", "reorgingDelayed"} # {}
      BY <3>2 DEF FetchDelayed
    <3> QED
      BY <3>1, <3>2
  <2> HIDE DEF to
  <2>2. rd.got \in Nat /\ [rd EXCEPT !.pc = "batches", !.to = to]
                            = [rd EXCEPT !.pc = "batches", !.to = to, !.got = rd.got]
    BY InvFacts DEF Locals
  <2> QED
    BY <1>3, <2>1, <2>2
<1>5. tr' = tr \/ tr' = AddDelayedIn(rd.from, to).tr
  BY DEF FetchDelayed
<1> HIDE DEF to
<1>6. "batches" \in Steps
  BY DEF Steps
<1>7. rd' \in Locals /\ rd'.pc = "batches" /\ rd'.from = rd.from /\ rd'.height = rd.height /\ rd'.to = to
  BY <1>2, <1>4, <1>6, InvFacts DEF Locals
<1>8. ReaderOK(rd') /\ ~Fetched(rd') /\ (mode = "safe" => rd'.height <= safe /\ rd'.to <= safe)
  BY <1>1, <1>2, <1>7, InvFacts DEF ReaderOK, Fetched
<1>9. /\ RecordsOK(tr') /\ LogOK(tr') /\ Begins(LastMeta(tr').acc, LastMeta(tr).acc)
      /\ mode = "safe" => Begins(tr'.delayed, DelayedOf(chain, safe))
  BY <1>2, <1>5, AddsDelayed
<1>10. mode = "safe" => WithinSafe(chain, safe, tr', rd')
  BY <1>8, <1>9, ChangedWithin
<1> QED
  BY <1>1, <1>8, <1>9, <1>10 DEF Inv

LEMMA FetchBatchesInv ==
  ASSUME Inv, FetchBatches
  PROVE  Inv'
<1>1. rd.pc = "batches" /\ UNCHANGED <<mode, chain, safe, headers, tr>>
  BY DEF FetchBatches
<1>2. rd.from \in Nat \ {0} /\ rd.from - 1 \in Nat /\ rd.to \in Nat /\ ChainOK(chain) /\ headers' \in Seq(Nat)
      /\ (mode = "safe" => rd.height <= safe /\ rd.to <= safe)
  BY SMTT(30), <1>1, InvFacts DEF Inv
<1>3. PICK ok \in BOOLEAN :
        rd' = [rd EXCEPT !.pc = IF BatchesFound(ok) = <<>> THEN "finish" ELSE "data",
                         !.batches = BatchesFound(ok),
                         !.prior = IF BatchesFound(ok) = <<>> THEN <<>> ELSE BatchesAt(rd.from - 1)]
  BY DEF FetchBatches
<1>4. "finish" \in Steps /\ "data" \in Steps
  BY DEF Steps
<1>5. CASE BatchesFound(ok) = <<>>
  <2>1. rd' = [rd EXCEPT !.pc = "finish", !.batches = <<>>, !.prior = <<>>]
    BY <1>3, <1>5
  <2>2. <<>> \in Seq(Posted)
    OBVIOUS
  <2>3. rd' \in Locals /\ rd'.pc = "finish" /\ rd'.from = rd.from /\ rd'.height = rd.height /\ rd'.to = rd.to
    BY <1>4, <2>1, <2>2, InvFacts DEF Locals
  <2>4. ReaderOK(rd') /\ ~Fetched(rd') /\ (mode = "safe" => rd'.height <= safe /\ rd'.to <= safe)
    BY <1>2, <2>3 DEF ReaderOK, Fetched
  <2> QED
    BY <1>1, <1>2, <2>4, OnlyReader
<1>6. CASE BatchesFound(ok) # <<>>
  <2> DEFINE new == BatchesIn(rd.from, rd.to)
             old == BatchesAt(rd.from - 1)
             all == BatchesAt(rd.to)
  <2>1. BatchesFound(ok) = new /\ new # <<>>
    BY <1>6 DEF BatchesFound
  <2>2. rd' = [rd EXCEPT !.pc = "data", !.batches = new, !.prior = old]
    BY <1>3, <2>1
  <2>3. new \in Seq(Posted) /\ old \o new = all
    BY <1>2, <2>1, FoundIs
  <2>4. old \in Seq(Posted) /\ Ordered(all)
    BY <1>2, LooksUp
  <2>5. mode = "safe" => Begins(all, BatchesOf(chain, safe))
    BY <1>2, SafeDelayed
  <2> HIDE DEF new, old, all
  <2>6. /\ rd' \in Locals /\ rd'.pc = "data" /\ rd'.from = rd.from /\ rd'.height = rd.height
        /\ rd'.to = rd.to /\ rd'.batches = new /\ rd'.prior = old
    BY <1>4, <2>2, <2>3, <2>4, InvFacts DEF Locals
  <2>7. UpToFetched(rd') = all
    BY <2>3, <2>6 DEF UpToFetched
  <2>8. ReaderOK(rd')
    BY <1>2, <2>1, <2>4, <2>6, <2>7 DEF ReaderOK
  <2>9. mode = "safe" => WithinSafe(chain, safe, tr, rd')
    BY <1>2, <2>5, <2>6, <2>7 DEF Inv, WithinSafe
  <2> QED
    BY <1>1, <1>2, <2>8, <2>9 DEF Inv
<1> QED
  BY <1>5, <1>6

LEMMA FetchDataInv ==
  ASSUME Inv, FetchData
  PROVE  Inv'
<1>1. rd.pc = "data" /\ UNCHANGED <<mode, chain, safe, headers, tr>>
  BY DEF FetchData
<1>2. headers' \in Seq(Nat) /\ ReaderOK(rd) /\ (mode = "safe" => rd.height <= safe /\ rd.to <= safe)
  BY <1>1, InvFacts DEF Inv
<1>3. PICK pc \in {"add", "backfill"} : rd' = [rd EXCEPT !.pc = pc] \/ rd' = Ended
  BY DEF FetchData
<1>4. CASE rd' = Ended
  BY <1>1, <1>2, <1>4, EndsInv
<1>5. CASE rd' = [rd EXCEPT !.pc = pc]
  <2>1. pc \in Steps
    BY DEF Steps
  <2>2. /\ rd' \in Locals /\ rd'.pc = pc /\ rd'.from = rd.from /\ rd'.height = rd.height
        /\ rd'.to = rd.to /\ rd'.batches = rd.batches /\ rd'.prior = rd.prior
    BY <1>5, <2>1, InvFacts DEF Locals
  <2>3. UpToFetched(rd') = UpToFetched(rd) /\ Fetched(rd)
    BY <1>1, <2>2 DEF UpToFetched, Fetched
  <2>4. ReaderOK(rd')
    BY <1>1, <1>2, <2>2, <2>3 DEF ReaderOK
  <2> QED
    BY <1>1, <1>2, <2>2, <2>3, <2>4, OnlyReader
<1> QED
  BY <1>3, <1>4, <1>5

\* The blocks that a fetched batch is in.
LEMMA FetchedIn ==
  ASSUME Inv, Fetched(rd)
  PROVE  /\ rd.batches[Len(rd.batches)].at \in Nat
         /\ mode = "safe" => rd.batches[Len(rd.batches)].at <= safe
<1> DEFINE new == rd.batches
           old == rd.prior
           b == BatchesOf(chain, safe)
<1>1. new \in Seq(Posted) /\ old \in Seq(Posted) /\ new # <<>>
  BY InvFacts DEF Inv, ReaderOK
<1>2. Len(new) \in 1 .. Len(new) /\ Len(new) \in Nat
  BY <1>1
<1>3. new[Len(new)].at \in Nat
  <2>1. new[Len(new)] \in Posted
    BY <1>1, <1>2
  <2> QED
    BY <2>1 DEF Posted
<1>4. ASSUME mode = "safe" PROVE new[Len(new)].at <= safe
  <2>1. Begins(UpToFetched(rd), b) /\ UpToFetched(rd) = old \o new
    BY <1>4 DEF Inv, WithinSafe, UpToFetched
  <2>2. ChainOK(chain) /\ safe \in 0 .. Len(chain)
    BY DEF Inv
  <2> HIDE DEF new, old, b
  <2>3. /\ Len(old \o new) = Len(old) + Len(new) /\ Len(old) \in Nat
        /\ \A i \in 1 .. Len(new) : (old \o new)[Len(old) + i] = new[i]
    BY <1>1, ConcatIs
  <2> DEFINE all == old \o new
             k == Len(old) + Len(new)
  <2>4. Len(all) = k /\ k \in 1 .. k /\ all[k] = new[Len(new)]
    BY <1>2, <2>3
  <2> HIDE DEF all, k
  <2>5. b \in Seq(Posted)
    <3>1. chain \in Seq(L1Blocks)
      BY <2>2 DEF ChainOK
    <3> QED
      BY <2>2, <3>1, OfType DEF b
  <2>6. k \in 1 .. Len(b) /\ b[k] = all[k]
    <3>1. Begins(all, b)
      BY <2>1 DEF all
    <3> QED
      BY <2>4, <2>5, <3>1 DEF Begins
  <2>7. b[k].at <= safe
    BY <2>2, <2>6, PostedIn DEF b
  <2> QED
    BY <2>4, <2>6, <2>7
<1> QED
  BY <1>3, <1>4

LEMMA BackfillInv ==
  ASSUME Inv, Backfill
  PROVE  Inv'
<1> DEFINE last == rd.batches[Len(rd.batches)].at
           first == BackfillStart
<1>1. /\ rd.pc = "backfill" /\ UNCHANGED <<mode, chain, safe, headers>> /\ rd' = [rd EXCEPT !.pc = "add"]
      /\ (tr' = tr \/ tr' = AddDelayedIn(first, last).tr)
  BY DEF Backfill
<1>2. Fetched(rd) /\ ReaderOK(rd)
  BY <1>1 DEF Fetched, Inv
<1>3. last \in Nat /\ (mode = "safe" => last <= safe)
  BY <1>2, FetchedIn
<1>4. first \in Nat \ {0}
  <2>1. tr.delayed # <<>> => tr.delayed[Len(tr.delayed)].at \in Nat
    <3>1. tr.delayed \in Seq(Posts)
      BY DEF Inv, RecordsOK
    <3>2. tr.delayed # <<>> => tr.delayed[Len(tr.delayed)] \in Posts
      BY <3>1
    <3> QED
      BY <3>2 DEF Posts
  <2>2. rd.from \in Nat /\ rd.from >= 1 /\ FirstBlock \in Nat /\ FirstBlock >= 1
    BY <1>1, InvFacts
  <2> QED
    BY <2>1, <2>2 DEF BackfillStart, Most
<1> HIDE DEF first, last
<1>5. "add" \in Steps
  BY DEF Steps
<1>6. /\ rd' \in Locals /\ rd'.pc = "add" /\ rd'.from = rd.from /\ rd'.height = rd.height
      /\ rd'.to = rd.to /\ rd'.batches = rd.batches /\ rd'.prior = rd.prior
  BY <1>1, <1>5, InvFacts DEF Locals
<1>7. UpToFetched(rd') = UpToFetched(rd)
  BY <1>6 DEF UpToFetched
<1>8. ReaderOK(rd')
  BY <1>1, <1>2, <1>6, <1>7 DEF ReaderOK
<1>9. /\ RecordsOK(tr') /\ LogOK(tr') /\ Begins(LastMeta(tr').acc, LastMeta(tr).acc)
      /\ mode = "safe" => Begins(tr'.delayed, DelayedOf(chain, safe))
  BY <1>1, <1>3, <1>4, AddsDelayed
<1>10. mode = "safe" => WithinSafe(chain, safe, tr', rd')
  <2>1. mode = "safe" => rd'.height <= safe /\ rd'.to <= safe
    BY <1>6, InvFacts
  <2> QED
    BY <1>2, <1>7, <1>9, <2>1, ChangedWithin
<1> QED
  BY <1>1, <1>8, <1>9, <1>10 DEF Inv

LEMMA PrevBlockType ==
  ASSUME Inv, NEW from \in Nat, NEW back \in Nat
  PROVE  PrevBlock(from, back) \in Nat /\ PrevBlock(from, back) >= 1
<1>1. FirstBlock \in Nat /\ FirstBlock >= 1
  BY InvFacts
<1>2. Minus(from, back) \in Nat
  BY DEF Minus
<1> QED
  BY <1>1, <1>2 DEF PrevBlock, Most

\* The batches fetched, cut at the expected one.
LEMMA CutAtExpected ==
  ASSUME Inv, rd.pc = "add", NEW expected \in Nat, Filtered(expected) # <<>>
  PROVE  /\ Before(expected) \in Seq(Posted) /\ Filtered(expected) \in Seq(Posted)
         /\ Before(expected) \o Filtered(expected) = UpToFetched(rd)
<1> DEFINE new == rd.batches
           old == rd.prior
           n == Len(new)
           i == expected - new[1].id
           head == SubSeq(new, 1, i)
           rest == SubSeq(new, i + 1, n)
<1>1. new \in Seq(Posted) /\ old \in Seq(Posted) /\ new # <<>>
  BY InvFacts DEF Inv, ReaderOK, Fetched
<1>2. new[1].id \in Nat
  <2>1. new[1] \in Posted
    BY <1>1
  <2> QED
    BY <2>1 DEF Posted
<1>3. ~(new[1].id > expected) /\ Filtered(expected) = rest /\ rest # <<>>
  BY DEF Filtered
<1>4. Before(expected) = old \o head
  BY DEF Before
<1> HIDE DEF new, old
<1>5. i \in Nat /\ n \in Nat
  BY <1>1, <1>2, <1>3
<1> HIDE DEF i
<1>6. i <= n
  BY <1>1, <1>3, <1>5
<1>7. head \in Seq(Posted) /\ Len(head) = i /\ \A k \in 1 .. i : head[k] = new[k]
  BY <1>1, <1>5, <1>6
<1>8. Begins(head, new)
  BY <1>6, <1>7 DEF Begins
<1>9. rest \in Seq(Posted) /\ head \o rest = new
  <2>1. rest = SubSeq(new, Len(head) + 1, Len(new))
    BY <1>7
  <2> HIDE DEF head, rest
  <2>2. new \in Seq(Posted)
    BY <1>1
  <2> QED
    BY ONLY <1>7, <1>8, <2>1, <2>2, RestJoins
<1> HIDE DEF head, rest
<1>10. old \o head \in Seq(Posted)
  BY <1>1, <1>7, ConcatIs
<1>11. (old \o head) \o rest = old \o (head \o rest)
  <2>1. old \in Seq(Posted) /\ head \in Seq(Posted) /\ rest \in Seq(Posted)
    BY <1>1, <1>7, <1>9
  <2> QED
    BY ONLY <2>1, ConcatAssociative
<1> QED
  BY <1>3, <1>4, <1>9, <1>10, <1>11 DEF UpToFetched, old, new

LEMMA AddBatchesInv ==
  ASSUME Inv, AddBatches
  PROVE  Inv'
<1> DEFINE expected == Len(tr.metas)
           bs == Filtered(expected)
           before == Before(expected)
<1>1. rd.pc = "add" /\ UNCHANGED <<mode, chain, safe, headers>>
  BY DEF AddBatches
<1>2. Fetched(rd) /\ ReaderOK(rd) /\ RecordsOK(tr) /\ LogOK(tr) /\ headers' \in Seq(Nat)
      /\ expected \in Nat /\ (mode = "safe" => rd.height <= safe /\ rd.to <= safe)
  BY <1>1, InvFacts DEF Fetched, Inv, RecordsOK
<1>3. "finish" \in Steps
  BY DEF Steps
<1>4. CASE bs = <<>>
  <2>1. NoneFollow(expected)
    BY <1>4 DEF AddBatches, AddTo
  <2>2. tr' = tr
    BY <2>1 DEF NoneFollow
  <2>3. rd.from \in Nat /\ rd.fetch \in Nat /\ MinBlocks \in Nat /\ rd.from >= 1
    BY <1>1, InvFacts
  <2>4. PICK from \in {rd.from, PrevBlock(rd.from, rd.fetch)}, fetch \in {rd.fetch, MinBlocks} :
          rd' = [rd EXCEPT !.pc = "finish", !.from = from, !.fetch = fetch]
    <3>1. \/ rd' = [rd EXCEPT !.pc = "finish"]
          \/ rd' = [rd EXCEPT !.pc = "finish", !.from = PrevBlock(rd.from, rd.fetch), !.fetch = MinBlocks]
      BY <2>1 DEF NoneFollow
    <3>2. [rd EXCEPT !.pc = "finish"] = [rd EXCEPT !.pc = "finish", !.from = rd.from, !.fetch = rd.fetch]
      BY InvFacts DEF Locals
    <3> QED
      BY <3>1, <3>2
  <2>5. from \in Nat /\ from >= 1 /\ fetch \in Nat
    BY <2>3, PrevBlockType
  <2>6. rd' \in Locals /\ rd'.pc = "finish" /\ rd'.from = from /\ rd'.height = rd.height /\ rd'.to = rd.to
    BY <1>3, <2>4, <2>5, InvFacts DEF Locals
  <2>7. ReaderOK(rd') /\ ~Fetched(rd')
    BY <2>5, <2>6 DEF ReaderOK, Fetched
  <2> QED
    BY <1>1, <1>2, <2>2, <2>6, <2>7, OnlyReader
<1>5. CASE bs # <<>>
  <2> DEFINE added == add_sequencer_batches_and_stream(tr, before, bs)
             all == UpToFetched(rd)
  <2>1. AddFollowing(bs, added)
    BY <1>5 DEF AddBatches, AddTo
  <2>2. tr' = added.tr
    BY <2>1 DEF AddFollowing
  <2>3. before \in Seq(Posted) /\ bs \in Seq(Posted) /\ before \o bs = all
    BY <1>1, <1>2, <1>5, CutAtExpected
  <2>4. Ordered(before \o bs)
    BY <1>2, <2>3 DEF ReaderOK
  <2> HIDE DEF bs, before
  <2>5. /\ RecordsOK(tr') /\ LogOK(tr') /\ tr'.delayed = tr.delayed
        /\ LastMeta(tr') = LastMeta(tr) \/ Begins(LastMeta(tr').acc, before \o bs)
    <3>1. /\ RecordsOK(tr) /\ LogOK(tr) /\ before \in Seq(Posted) /\ bs \in Seq(Posted) /\ bs # <<>>
          /\ Ordered(before \o bs)
          /\ tr' = add_sequencer_batches_and_stream(tr, before, bs).tr
      BY <1>2, <1>5, <2>2, <2>3, <2>4
    <3> QED
      BY ONLY <3>1, AddKeeps
  <2>6. Len(bs) \in Nat
    BY <2>3
  <2>7. rd' = [rd EXCEPT !.pc = "finish", !.got = IF added.ok THEN rd.got + Len(bs) ELSE rd.got]
    BY <2>1 DEF AddFollowing
  <2> HIDE DEF added, all
  <2> DEFINE got == IF added.ok THEN rd.got + Len(bs) ELSE rd.got
  <2>8. got \in Nat /\ rd' = [rd EXCEPT !.pc = "finish", !.got = got]
    <3>1. rd.got \in Nat
      BY InvFacts
    <3> QED
      BY <2>6, <2>7, <3>1
  <2> HIDE DEF got
  <2>9. rd' \in Locals /\ rd'.pc = "finish" /\ rd'.from = rd.from /\ rd'.height = rd.height /\ rd'.to = rd.to
    BY <1>3, <2>8, InvFacts DEF Locals
  <2>10. rd.from >= 1
    BY <1>1, InvFacts
  <2>11. ReaderOK(rd') /\ ~Fetched(rd')
    BY <2>9, <2>10 DEF ReaderOK, Fetched
  <2>12. ASSUME mode = "safe" PROVE WithinSafe(chain, safe, tr', rd')
    <3> DEFINE b == BatchesOf(chain, safe)
               v == LastMeta(tr').acc
    <3>1. Begins(LastMeta(tr).acc, b) /\ Begins(all, b) /\ Begins(tr.delayed, DelayedOf(chain, safe))
      BY <1>2, <2>12 DEF Inv, WithinSafe, all
    <3>2. b \in Seq(Posted)
      <4>1. chain \in Seq(L1Blocks) /\ safe \in 0 .. Len(chain)
        BY DEF Inv, ChainOK
      <4> QED
        BY <4>1, OfType
    <3>3. v \in Seq(Posted)
      <4>1. LastMeta(tr') \in Records
        BY <2>5, LastMetaIs
      <4> QED
        BY <4>1 DEF Records
    <3>4. all \in Seq(Posted)
      <4>1. before \o bs \in Seq(Posted)
        BY <2>3, ConcatIs
      <4> QED
        BY <2>3, <4>1
    <3>5. LastMeta(tr') = LastMeta(tr) \/ Begins(v, all)
      BY <2>3, <2>5
    <3>6. LastMeta(tr') = LastMeta(tr) => Begins(v, b)
      BY <3>1
    <3> HIDE DEF b, v
    <3>7. Begins(v, b)
      BY <3>1, <3>2, <3>3, <3>4, <3>5, <3>6, BeginsTransitive
    <3> QED
      BY <1>2, <2>5, <2>9, <2>11, <2>12, <3>1, <3>7 DEF WithinSafe, b, v
  <2> QED
    BY <1>1, <1>2, <2>5, <2>11, <2>12 DEF Inv
<1> QED
  BY <1>4, <1>5

LEMMA ResizedType ==
  ASSUME Inv, NEW fetch \in Nat, NEW got \in Nat
  PROVE  Resized(fetch, got) \in Nat
<1> DEFINE fifth == (fetch + 4) \div 5
           half == (TargetMessages * 3) \div 2
           next == IF got = 0 THEN fetch + fifth ELSE IF got >= half THEN fetch - fifth ELSE fetch
<1>1. fifth \in Int
  OBVIOUS
<1>2. Resized(fetch, got) = Least(Most(next, MinBlocks), MaxBlocks)
  BY DEF Resized
<1> HIDE DEF fifth, half
<1>3. next \in Int
  BY <1>1
<1> HIDE DEF next
<1>4. MinBlocks \in Nat /\ MaxBlocks \in Nat
  BY InvFacts
<1>5. Most(next, MinBlocks) \in Nat
  BY <1>3, <1>4 DEF Most
<1> QED
  BY <1>2, <1>4, <1>5 DEF Least

LEMMA FinishInv ==
  ASSUME Inv, Finish
  PROVE  Inv'
<1>1. rd.pc = "finish" /\ UNCHANGED <<mode, chain, safe, headers, tr>>
  BY DEF Finish
<1>2. rd.from \in Nat /\ rd.from >= 1 /\ rd.to \in Nat /\ rd.fetch \in Nat /\ rd.got \in Nat
      /\ MinBlocks \in Nat /\ headers' \in Seq(Nat)
  BY <1>1, InvFacts
<1> DEFINE fetch == Resized(rd.fetch, rd.got)
           back == PrevBlock(rd.from, fetch)
           next == IF rd.got > 0 THEN rd.to + 1 ELSE rd.from
<1>3. fetch \in Nat
  BY <1>2, ResizedType
<1>4. rd' = Ended \/ rd' = Turn(back, MinBlocks) \/ rd' = Turn(next, fetch)
  BY DEF Finish, WalkBack, NextWindow
<1>5. back \in Nat /\ back >= 1
  BY <1>2, <1>3, PrevBlockType
<1>6. next \in Nat /\ next >= 1
  BY <1>2
<1> HIDE DEF fetch, back, next
<1>7. CASE rd' = Ended
  BY <1>1, <1>2, <1>7, EndsInv
<1>8. CASE rd' = Turn(back, MinBlocks)
  BY <1>1, <1>2, <1>5, <1>8, TurnInv
<1>9. CASE rd' = Turn(next, fetch)
  BY <1>1, <1>2, <1>3, <1>6, <1>9, TurnInv
<1> QED
  BY <1>4, <1>7, <1>8, <1>9

LEMMA NextInv ==
  Inv /\ [Next]_vars => Inv'
<1>1. SUFFICES ASSUME Inv, [Next]_vars PROVE Inv'
  OBVIOUS
<1>2. CASE UNCHANGED vars
  BY <1>1, <1>2 DEF vars, Inv
<1>3. CASE L1Block
  BY <1>1, <1>3, L1BlockInv
<1>4. CASE \E h \in 1 .. MaxHeight : L1Safe(h) \/ L1Reorg(h)
  BY <1>1, <1>4, L1SafeInv, L1ReorgInv
<1>5. CASE PollHeader
  BY <1>1, <1>5, PollHeaderInv
<1>6. CASE Begin \/ RecvHeader \/ Tick
  BY <1>1, <1>6, BeginInv, RecvHeaderInv, TickInv
<1>7. CASE Compare
  BY <1>1, <1>7, CountInv, CompareDelayedInv, CountBatchesInv, CompareBatchesInv, NothingMissingInv
     DEF Compare
<1>8. CASE Fetch
  BY <1>1, <1>8, FetchDelayedInv, FetchBatchesInv, FetchDataInv, BackfillInv, AddBatchesInv, FinishInv
     DEF Fetch
<1>9. CASE Restart
  BY <1>1, <1>9, RestartInv
<1> QED
  BY <1>1, <1>2, <1>3, <1>4, <1>5, <1>6, <1>7, <1>8, <1>9 DEF Next, Reader

(***************************************************************************)
(* The theorems.                                                           *)
(***************************************************************************)

\* L1's blocks, the records, the log and the reader's variables are what Inv says
\* after any steps of L1 and of the reader, through failed calls and restarts.
THEOREM ReaderInvariant == Spec => []Inv
<1>1. Init => Inv
  BY InitInv
<1>2. Inv /\ [Next]_vars => Inv'
  BY NextInv
<1> QED
  BY <1>1, <1>2, PTL DEF Spec

\* The batches that add_sequencer_batches_and_stream has recorded are always one
\* chain of L1's, rest on the delayed messages that are stored, and without forced
\* inclusions have their messages in the log: reorg_delayed_to and
\* add_delayed_messages take back every batch that read what they replace.
THEOREM RecordsAlwaysRest == Spec => []RecordsRestOnDelayed
<1>1. Inv => RecordsRestOnDelayed
  <2>1. SUFFICES ASSUME Inv, NEW n \in 1 .. Len(tr.metas)
                 PROVE  /\ Len(tr.metas[n].acc) = n
                        /\ n > 1 => tr.metas[n - 1].acc = SubSeq(tr.metas[n].acc, 1, n - 1)
                        /\ IsPrefix(tr.metas[n].acc[n].delayedAcc, tr.delayed)
                        /\ 2 \notin Locations => tr.metas[n].messages <= Len(tr.log)
    BY DEF RecordsRestOnDelayed
  <2>2. RecordsOK(tr) /\ LogOK(tr)
    BY <2>1 DEF Inv
  <2>3. tr.metas \in Seq(Records) /\ tr.delayed \in Seq(Posts)
    BY <2>2 DEF RecordsOK
  <2>4. tr.metas[n] \in Records /\ n \in Nat
    BY <2>3
  <2>5. tr.metas[n].acc \in Seq(Posted) /\ Len(tr.metas[n].acc) = n
    BY <2>2, <2>4 DEF Records, RecordsOK
  <2>6. IsPrefix(tr.metas[n].acc[n].delayedAcc, tr.delayed)
    <3> DEFINE x == tr.metas[n].acc[n].delayedAcc
               y == tr.delayed
    <3>1. tr.metas[n].acc[n] \in Posted
      BY <2>5
    <3>2. x \in Seq(Posts) /\ y \in Seq(Posts) /\ Begins(x, y)
      BY <2>2, <2>3, <3>1 DEF RecordsOK, Posted
    <3> HIDE DEF x, y
    <3>3. IsPrefix(x, y)
      BY <3>2, PrefixBegins
    <3> QED
      BY <3>3 DEF x, y
  <2>7. ASSUME n > 1 PROVE tr.metas[n - 1].acc = SubSeq(tr.metas[n].acc, 1, n - 1)
    <3> DEFINE x == tr.metas[n - 1].acc
               y == tr.metas[n].acc
    <3>1. n - 1 \in 1 .. Len(tr.metas) /\ n - 1 <= n
      BY <2>3, <2>7
    <3>2. Begins(x, y) /\ Len(x) = n - 1
      BY <2>2, <3>1 DEF RecordsOK
    <3>3. tr.metas[n - 1] \in Records
      BY <2>3, <3>1
    <3>4. x \in Seq(Posted) /\ y \in Seq(Posted) /\ Len(y) = n
      BY <2>5, <3>3 DEF Records
    <3> HIDE DEF x, y
    <3> DEFINE z == SubSeq(y, 1, n - 1)
    <3>5. z \in Seq(Posted) /\ Len(z) = n - 1 /\ \A i \in 1 .. n - 1 : z[i] = y[i]
      BY <2>4, <2>7, <3>4
    <3>6. \A i \in 1 .. n - 1 : z[i] = x[i]
      BY <3>2, <3>5 DEF Begins
    <3> HIDE DEF z
    <3>7. x = z
      BY <3>2, <3>4, <3>5, <3>6
    <3> QED
      BY <3>7 DEF x, y, z
  <2>8. ASSUME 2 \notin Locations PROVE tr.metas[n].messages <= Len(tr.log)
    <3>1. tr.metas[n].messages \in 1 .. Len(tr.log)
      BY <2>2, <2>8 DEF LogOK
    <3> QED
      BY <3>1
  <2> QED
    BY <2>5, <2>6, <2>7, <2>8
<1> QED
  BY <1>1, ReaderInvariant, PTL

\* A reader of safe or finalized blocks never stores a delayed message and never
\* records a batch that is not in L1's safe blocks: the height that it compares and
\* the end of its window never pass the safe block.
THEOREM OnlySafeIsRecorded == Spec => []OnlySafeRecorded
<1>1. Inv => OnlySafeRecorded
  <2>1. SUFFICES ASSUME Inv, mode = "safe"
                 PROVE  IsPrefix(tr.delayed, DelayedAt(safe)) /\ IsPrefix(LastMeta(tr).acc, BatchesAt(safe))
    BY DEF OnlySafeRecorded
  <2> DEFINE d == DelayedAt(safe)
             b == BatchesAt(safe)
             x == tr.delayed
             y == LastMeta(tr).acc
  <2>2. safe \in Nat /\ Least(safe, Len(chain)) = safe /\ ChainOK(chain)
    BY <2>1 DEF Inv, ChainOK, Least
  <2>3. d = DelayedOf(chain, safe) /\ b = BatchesOf(chain, safe) /\ d \in Seq(Posts) /\ b \in Seq(Posted)
    BY <2>2, LooksUp
  <2>4. Begins(x, d) /\ Begins(y, b)
    BY <2>1, <2>3 DEF Inv, WithinSafe
  <2>5. x \in Seq(Posts) /\ y \in Seq(Posted)
    <3>1. RecordsOK(tr) /\ LastMeta(tr) \in Records
      BY <2>1, LastMetaIs DEF Inv
    <3> QED
      BY <3>1 DEF RecordsOK, Records
  <2> HIDE DEF d, b, x, y
  <2>6. IsPrefix(x, d) /\ IsPrefix(y, b)
    BY <2>3, <2>4, <2>5, PrefixBegins
  <2> QED
    BY <2>6 DEF d, b, x, y
<1> QED
  BY <1>1, ReaderInvariant, PTL

=============================================================================

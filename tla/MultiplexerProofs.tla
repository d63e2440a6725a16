-------------------------- MODULE MultiplexerProofs --------------------------
(***************************************************************************)
(* Proofs about the multiplexer's cursor, for every window of batches: the *)
(* order of delayed messages, the clock, the count of messages that the    *)
(* tracker records, and that the pops are the window's expansion.          *)
(***************************************************************************)
EXTENDS Multiplexer, InductionLemmas

Kinds == {"l2", "bad", "delayed", "advance", "empty", "unknown"}
Messages == [kind : {"l2", "delayed", "invalid"}, id : Seq(Nat), read : Nat]

Typed ==
  /\ batches \in Windows
  /\ start \in Nat
  /\ pos \in 1 .. Len(batches) + 1
  /\ {within, read, segNum, subNum, clock} \subseteq Nat
  /\ pos <= Len(batches) => segNum <= SegLen
  /\ out \in Seq([msg : Messages, time : Nat])
  /\ status \in {"running", "error", "stopped", "whole"}

(***************************************************************************)
(* The batch at the cursor and the segment where a pop stops.              *)
(***************************************************************************)

LEMMA WindowIs ==
  ASSUME NEW w \in Windows
  PROVE  /\ w \in Seq(Batches) /\ Len(w) \in Nat /\ Len(w) >= 1
         /\ \A k \in 1 .. Len(w) :
              /\ w[k] \in Batches /\ w[k].after \in Nat /\ w[k].id \in Nat
              /\ w[k].min \in Nat /\ w[k].max \in Nat
              /\ w[k].segs \in Seq(Segments) /\ Len(w[k].segs) \in Nat
              /\ \A i \in 1 .. Len(w[k].segs) :
                   w[k].segs[i] \in Segments /\ w[k].segs[i].by \in Nat /\ w[k].segs[i].kind \in Kinds
         /\ \A j, k \in 1 .. Len(w) : j <= k => w[j].after <= w[k].after
<1>1. w \in Seq(Batches) /\ w # <<>>
      /\ \A j, k \in 1 .. Len(w) : j <= k => w[j].after <= w[k].after
  BY WindowsAssumption
<1>2. Len(w) \in Nat /\ Len(w) >= 1
  BY <1>1
<1>3. ASSUME NEW k \in 1 .. Len(w)
      PROVE  /\ w[k] \in Batches /\ w[k].after \in Nat /\ w[k].id \in Nat
             /\ w[k].min \in Nat /\ w[k].max \in Nat
             /\ w[k].segs \in Seq(Segments) /\ Len(w[k].segs) \in Nat
             /\ \A i \in 1 .. Len(w[k].segs) :
                  w[k].segs[i] \in Segments /\ w[k].segs[i].by \in Nat /\ w[k].segs[i].kind \in Kinds
  <2>1. w[k] \in Batches
    BY <1>1, <1>3
  <2>2. w[k].segs \in Seq(Segments)
    BY <2>1 DEF Batches
  <2>3. \A i \in 1 .. Len(w[k].segs) : w[k].segs[i] \in Segments
    BY <2>2
  <2> QED
    BY <2>1, <2>2, <2>3 DEF Batches, Segments, Kinds
<1> QED
  BY <1>1, <1>2, <1>3

\* What a pop finds at the cursor.
AtBatch ==
  /\ Typed
  /\ pos \in 1 .. Len(batches)
  /\ SegLen \in Nat
  /\ segNum \in 0 .. SegLen
  /\ seq.after \in Nat /\ seq.id \in Nat /\ seq.min \in Nat /\ seq.max \in Nat
  /\ \A i \in 0 .. SegLen - 1 :
       /\ i + 1 \in 1 .. Len(seq.segs) /\ seg(i) = seq.segs[i + 1]
       /\ seg(i).by \in Nat /\ seg(i).kind \in Kinds

LEMMA PeekedAtBatch ==
  ASSUME Typed, pos <= Len(batches)
  PROVE  AtBatch
<1>1. pos \in 1 .. Len(batches) /\ Len(batches) \in Nat
  BY WindowIs DEF Typed
<1>2. /\ seq.after \in Nat /\ seq.id \in Nat /\ seq.min \in Nat /\ seq.max \in Nat
      /\ SegLen \in Nat /\ SegLen = Len(seq.segs)
      /\ \A i \in 1 .. Len(seq.segs) : seq.segs[i].by \in Nat /\ seq.segs[i].kind \in Kinds
  BY <1>1, WindowIs DEF Typed, seq, SegLen
<1>3. ASSUME NEW i \in 0 .. SegLen - 1
      PROVE  /\ i + 1 \in 1 .. Len(seq.segs) /\ seg(i) = seq.segs[i + 1]
             /\ seg(i).by \in Nat /\ seg(i).kind \in Kinds
  <2>1. i + 1 \in 1 .. Len(seq.segs) /\ seg(i) = seq.segs[i + 1]
    BY <1>2, <1>3 DEF seg
  <2> QED
    BY <1>2, <2>1
<1>4. segNum \in 0 .. SegLen
  BY <1>2 DEF Typed
<1> QED
  BY <1>1, <1>2, <1>3, <1>4 DEF AtBatch

LEMMA SubmessagesIs ==
  ASSUME AtBatch, NEW i \in segNum .. SegLen
  PROVE  /\ Submessages(i) \in Nat
         /\ IsFiniteSet({j \in segNum .. i - 1 : Visible(seg(j))})
<1>1. segNum \in Int /\ i - 1 \in Int
  BY DEF AtBatch
<1>2. IsFiniteSet(segNum .. i - 1)
  BY <1>1, FS_Interval
<1>3. IsFiniteSet({j \in segNum .. i - 1 : Visible(seg(j))})
  BY <1>2, FS_Subset
<1> QED
  BY <1>3, FS_CardinalityType DEF Submessages

Stops(i) == i < SegLen => Visible(seg(i)) /\ subNum + Submessages(i) >= within

LEMMA NextSegmentIs ==
  ASSUME AtBatch
  PROVE  /\ NextSegment \in segNum .. SegLen
         /\ Stops(NextSegment)
         /\ \A i \in segNum .. NextSegment - 1 : ~ Stops(i)
<1> DEFINE S == {i \in segNum .. SegLen : Stops(i)}
<1>1. S \in SUBSET Nat /\ S # {}
  <2>1. SegLen \in S
    BY DEF AtBatch, Stops
  <2>2. segNum \in Nat /\ SegLen \in Nat
    BY DEF AtBatch
  <2>3. S \subseteq Nat
    BY ONLY <2>2
  <2> QED
    BY ONLY <2>1, <2>3
<1>2. \E n \in S : \A m \in S : n <= m
  <2> HIDE DEF S
  <2> QED
    BY <1>1, LeastOf
<1>3. NextSegment = Least(S)
  BY DEF NextSegment, Stops
<1>4. NextSegment \in S /\ \A m \in S : NextSegment <= m
  <2> HIDE DEF S
  <2> QED
    BY <1>2, <1>3 DEF Least
<1>5. ASSUME NEW i \in segNum .. NextSegment - 1, Stops(i) PROVE FALSE
  <2>1. i \in S
    BY <1>4, <1>5 DEF AtBatch
  <2> QED
    BY <1>4, <1>5, <2>1 DEF AtBatch
<1> QED
  BY <1>4, <1>5

(***************************************************************************)
(* The clock: sums of advances.                                            *)
(***************************************************************************)

By(s) == IF s.kind = "advance" THEN s.by ELSE 0

\* total[i] is the sum of the advances among the first i segments of b.
IsTotal(b, total) ==
  /\ total \in [0 .. Len(b.segs) -> Nat]
  /\ total[0] = 0
  /\ \A i \in 1 .. Len(b.segs) : total[i] = total[i - 1] + By(b.segs[i])

Total(b) == CHOOSE total : IsTotal(b, total)

LEMMA TotalIs ==
  ASSUME NEW w \in Windows, NEW n \in 1 .. Len(w)
  PROVE  IsTotal(w[n], Total(w[n]))
<1> DEFINE b == w[n]
           p == [i \in 1 .. Len(b.segs) |-> By(b.segs[i])]
           q == [i \in 1 .. Len(b.segs) |-> 0]
<1>1. Len(b.segs) \in Nat /\ \A i \in 1 .. Len(b.segs) : b.segs[i].by \in Nat
  BY WindowIs
<1>2. p \in [1 .. Len(b.segs) -> Nat] /\ q \in [1 .. Len(b.segs) -> Nat]
  BY <1>1 DEF By
<1>3. PICK f : RunningSum(f, 1, Len(b.segs), 0, p, q)
  <2> DEFINE last == Len(b.segs)
  <2>1. 1 \in Int /\ last \in Int /\ 1 - 1 <= last /\ 0 \in Nat
        /\ p \in [1 .. last -> Nat] /\ q \in [1 .. last -> Nat]
    BY <1>1, <1>2
  <2> HIDE DEF p, q, last
  <2>2. \E f : RunningSum(f, 1, last, 0, p, q)
    BY <2>1, SumExists
  <2> QED
    BY <2>2 DEF last
<1>4. IsTotal(b, f)
  <2>1. f \in [0 .. Len(b.segs) -> Nat] /\ f[0] = 0
    BY <1>3 DEF RunningSum
  <2>2. ASSUME NEW i \in 1 .. Len(b.segs) PROVE f[i] = f[i - 1] + By(b.segs[i])
    <3>1. f[i] = f[i - 1] + p[i] + q[i] /\ p[i] = By(b.segs[i]) /\ q[i] = 0
      BY <1>3, <2>2 DEF RunningSum
    <3>2. f[i - 1] \in Nat /\ p[i] \in Nat
      <4>1. i - 1 \in 0 .. Len(b.segs)
        BY <1>1, <2>2
      <4> HIDE DEF p, b
      <4> QED
        BY <1>2, <2>1, <2>2, <4>1
    <3> QED
      BY <3>1, <3>2
  <2> QED
    BY <2>1, <2>2 DEF IsTotal
<1> QED
  BY <1>4 DEF Total

LEMMA SaturateIs ==
  ASSUME NEW m \in Nat, NEW n \in Nat
  PROVE  /\ Saturate(n) \in Nat
         /\ Saturate(Saturate(m) + n) = Saturate(m + n)
         /\ Saturate(Saturate(m)) = Saturate(m)
  BY WindowsAssumption DEF Saturate

\* The clock at a segment is the saturated sum of the advances before it.
ClockIs == pos <= Len(batches) => clock = Saturate(Total(seq)[segNum])

LEMMA NextClockIs ==
  ASSUME AtBatch, ClockIs
  PROVE  NextClock = Saturate(Total(seq)[NextSegment]) /\ NextClock \in Nat
<1> DEFINE last == NextSegment
           Adv(f, i) == IF i = segNum THEN clock
                        ELSE IF seg(i - 1).kind = "advance" THEN Saturate(f[i - 1] + seg(i - 1).by)
                        ELSE f[i - 1]
           Is(f) == f = [i \in segNum .. last |-> Adv(f, i)]
           g == CHOOSE f : Is(f)
           T == Total(seq)
           h == [i \in segNum .. last |-> Saturate(T[i])]
<1>1. NextClock = g[last]
  BY DEF NextClock
<1>2. last \in segNum .. SegLen /\ segNum \in Nat /\ SegLen \in Nat
  BY NextSegmentIs DEF AtBatch
<1>3. T \in [0 .. SegLen -> Nat] /\ \A i \in 1 .. SegLen : T[i] = T[i - 1] + By(seg(i - 1))
  <2>1. IsTotal(seq, T)
    BY TotalIs DEF AtBatch, Typed, seq
  <2>2. \A i \in 1 .. SegLen : seq.segs[i] = seg(i - 1)
    BY <1>2 DEF seg
  <2> HIDE DEF T
  <2> QED
    BY <2>1, <2>2 DEF IsTotal, SegLen
<1>4. clock = Saturate(T[segNum])
  BY DEF AtBatch, ClockIs
<1> HIDE DEF last, T
<1>5. \A i \in segNum + 1 .. last :
        Saturate(T[i]) = IF seg(i - 1).kind = "advance" THEN Saturate(Saturate(T[i - 1]) + seg(i - 1).by)
                         ELSE Saturate(T[i - 1])
  <2>1. TAKE i \in segNum + 1 .. last
  <2>2. i \in 1 .. SegLen /\ i - 1 \in 0 .. SegLen - 1 /\ i - 1 \in 0 .. SegLen
    BY <1>2
  <2>3. T[i - 1] \in Nat /\ T[i] = T[i - 1] + By(seg(i - 1)) /\ seg(i - 1).by \in Nat
    BY <1>3, <2>2 DEF AtBatch
  <2>4. Saturate(Saturate(T[i - 1]) + seg(i - 1).by) = Saturate(T[i - 1] + seg(i - 1).by)
    BY <2>3, SaturateIs, Zenon
  <2>5. CASE seg(i - 1).kind = "advance"
    <3>1. By(seg(i - 1)) = seg(i - 1).by
      BY <2>5 DEF By
    <3> QED
      BY <2>3, <2>4, <2>5, <3>1
  <2>6. CASE seg(i - 1).kind # "advance"
    <3>1. By(seg(i - 1)) = 0
      BY <2>6 DEF By
    <3> QED
      BY <2>3, <2>4, <2>6, <3>1
  <2> QED
    BY <2>5, <2>6
<1>6. Is(h)
  <2>1. ASSUME NEW i \in segNum .. last PROVE h[i] = Adv(h, i)
    <3>1. CASE i = segNum
      BY <1>4, <3>1
    <3>2. CASE i # segNum
      <4>1. i \in segNum + 1 .. last /\ i - 1 \in segNum .. last
        BY <1>2, <3>2
      <4>2. h[i] = Saturate(T[i]) /\ h[i - 1] = Saturate(T[i - 1])
        BY <4>1
      <4> QED
        BY <1>5, <3>2, <4>1, <4>2
    <3> QED
      BY <3>1, <3>2
  <2>2. h = [i \in segNum .. last |-> h[i]]
    OBVIOUS
  <2> HIDE DEF h
  <2> QED
    BY <2>1, <2>2
<1>7. Is(g)
  <2> HIDE DEF Is, h
  <2> QED
    BY <1>6
<1>8. \A i \in segNum .. last : g[i] = Adv(g, i)
  <2> HIDE DEF g
  <2> QED
    BY <1>7
<1> HIDE DEF g, Is
<1> DEFINE Bad == {i \in segNum .. last : g[i] # Saturate(T[i])}
<1>9. Bad = {}
  <2>1. SUFFICES ASSUME Bad # {} PROVE FALSE
    OBVIOUS
  <2>2. Bad \in SUBSET Nat
    BY <1>2
  <2>3. PICK i \in Bad : \A j \in Bad : i <= j
    <3> HIDE DEF Bad
    <3> QED
      BY <2>1, <2>2, LeastOf
  <2>4. i \in segNum .. last /\ g[i] # Saturate(T[i])
    OBVIOUS
  <2>5. i # segNum
    BY <1>4, <1>8, <2>4
  <2>6. i \in segNum + 1 .. last /\ i - 1 \in segNum .. last /\ i - 1 \notin Bad
    <3> HIDE DEF Bad
    <3> QED
      BY <1>2, <2>3, <2>4, <2>5
  <2>7. g[i - 1] = Saturate(T[i - 1])
    BY <2>6
  <2> QED
    BY <1>5, <1>8, <2>4, <2>5, <2>6, <2>7
<1>10. g[last] = Saturate(T[last])
  BY <1>2, <1>9
<1>11. T[last] \in Nat
  BY <1>2, <1>3
<1> QED
  BY <1>1, <1>10, <1>11, SaturateIs DEF last, T

LEMMA AdvancesBeforeIs ==
  ASSUME NEW w \in Windows, NEW n \in 1 .. Len(w), NEW i \in 1 .. Len(w[n].segs)
  PROVE  AdvancesBefore(w[n], i) = Total(w[n])[i - 1]
<1> DEFINE b == w[n]
           Sum(f, j) == IF j = 1 THEN 0
                        ELSE f[j - 1] + (IF b.segs[j - 1].kind = "advance" THEN b.segs[j - 1].by ELSE 0)
           Is(f) == f = [j \in 1 .. i |-> Sum(f, j)]
           g == CHOOSE f : Is(f)
           T == Total(b)
           h == [j \in 1 .. i |-> T[j - 1]]
<1>1. AdvancesBefore(w[n], i) = g[i]
  BY DEF AdvancesBefore
<1>2. IsTotal(b, T)
  BY TotalIs
<1>3. i \in Nat /\ Len(b.segs) \in Nat /\ i <= Len(b.segs) /\ 1 <= i
  BY WindowIs
<1> HIDE DEF b, T
<1>4. /\ T[0] = 0
      /\ \A j \in 2 .. i :
           /\ j - 1 \in 1 .. i /\ (j - 1) - 1 \in Nat
           /\ T[j - 1] = T[(j - 1) - 1] + (IF b.segs[j - 1].kind = "advance" THEN b.segs[j - 1].by ELSE 0)
  <2>1. ASSUME NEW j \in 2 .. i
        PROVE  j - 1 \in 1 .. i /\ (j - 1) - 1 \in Nat /\ j - 1 \in 1 .. Len(b.segs)
    BY <1>3, <2>1
  <2> QED
    BY <1>2, <2>1 DEF IsTotal, By
<1>5. Is(h)
  <2>1. ASSUME NEW j \in 1 .. i PROVE h[j] = Sum(h, j)
    <3>1. CASE j = 1
      BY <1>4, <3>1
    <3>2. CASE j # 1
      <4>1. j \in 2 .. i /\ j - 1 \in 1 .. i
        BY <1>3, <3>2
      <4>2. h[j] = T[j - 1] /\ h[j - 1] = T[(j - 1) - 1]
        BY <4>1
      <4> HIDE DEF h
      <4> QED
        BY <1>4, <3>2, <4>1, <4>2
    <3> QED
      BY <3>1, <3>2
  <2>2. h = [j \in 1 .. i |-> h[j]]
    OBVIOUS
  <2> HIDE DEF h
  <2> QED
    BY <2>1, <2>2
<1>6. Is(g)
  <2> HIDE DEF Is, h
  <2> QED
    BY <1>5
<1>7. \A j \in 1 .. i : g[j] = Sum(g, j)
  <2> HIDE DEF g
  <2> QED
    BY <1>6
<1> HIDE DEF g, Is
<1> DEFINE Bad == {j \in 1 .. i : g[j] # T[j - 1]}
<1>8. Bad = {}
  <2>1. SUFFICES ASSUME Bad # {} PROVE FALSE
    OBVIOUS
  <2>2. Bad \in SUBSET Nat
    OBVIOUS
  <2>3. PICK j \in Bad : \A k \in Bad : j <= k
    <3> HIDE DEF Bad
    <3> QED
      BY <2>1, <2>2, LeastOf
  <2>4. j \in 1 .. i /\ g[j] # T[j - 1]
    OBVIOUS
  <2>5. j # 1
    <3>1. g[1] = 0
      BY <1>3, <1>7
    <3> QED
      BY <1>4, <2>4, <3>1
  <2>6. j \in 2 .. i /\ j - 1 \in 1 .. i /\ j - 1 \notin Bad
    <3> HIDE DEF Bad
    <3> QED
      BY <1>3, <2>3, <2>4, <2>5
  <2>7. g[j - 1] = T[(j - 1) - 1]
    BY <2>6
  <2> QED
    BY <1>4, <1>7, <2>4, <2>5, <2>6, <2>7
<1>9. g[i] = T[i - 1]
  BY <1>3, <1>8
<1> QED
  BY <1>1, <1>9 DEF b, T

(***************************************************************************)
(* Types and the clock, for every step.                                    *)
(***************************************************************************)

\* A pop that yields a message, or none.
Yields(msg, time) == out' = Append(out, [msg |-> msg, time |-> time]) /\ status' = status

LEMMA AdvanceKeeps ==
  ASSUME AtBatch, ClockIs, NEW newRead \in Nat, Advance(newRead)
  PROVE  /\ batches' = batches /\ start' = start /\ known' = known
         /\ pos' \in {pos, pos + 1} /\ pos' \in 1 .. Len(batches) + 1
         /\ {within', read', segNum', subNum', clock'} \subseteq Nat
         /\ pos' <= Len(batches) => segNum' <= SegLen'
         /\ ClockIs'
<1>1. batches' = batches /\ start' = start /\ known' = known
  BY DEF Advance
<1>2. Len(batches) \in Nat /\ batches \in Windows /\ pos \in 1 .. Len(batches) /\ SegLen \in Nat
      /\ {within, subNum, segNum} \subseteq Nat /\ seq.after \in Nat
  BY WindowIs DEF AtBatch, Typed
<1>3. CASE advance_seq_msg
  <2>1. pos' = pos + 1 /\ read' = seq.after /\ within' = 0 /\ segNum' = 0 /\ subNum' = 0 /\ clock' = 0
    BY <1>3 DEF advance_seq_msg
  <2>2. ASSUME pos' <= Len(batches) PROVE segNum' <= SegLen' /\ clock' = Saturate(Total(seq')[segNum'])
    <3>1. pos + 1 \in 1 .. Len(batches) /\ seq' = batches[pos + 1]
      BY <1>1, <1>2, <2>1, <2>2 DEF seq
    <3>2. Len(batches[pos + 1].segs) \in Nat /\ IsTotal(batches[pos + 1], Total(batches[pos + 1]))
      BY <1>2, <3>1, WindowIs, TotalIs
    <3>3. Total(batches[pos + 1])[0] = 0
      BY <3>2 DEF IsTotal
    <3>4. SegLen' = Len(batches[pos + 1].segs)
      BY <3>1 DEF SegLen
    <3> QED
      BY <2>1, <3>1, <3>2, <3>3, <3>4, WindowsAssumption DEF Saturate
  <2>3. ClockIs'
    BY <1>1, <2>2 DEF ClockIs
  <2> QED
    BY <1>1, <1>2, <2>1, <2>2, <2>3
<1>4. CASE advance_submsg(newRead)
  <2>1. pos' = pos /\ read' = newRead /\ within' = within + 1 /\ segNum' = NextSegment
        /\ subNum' = subNum + Submessages(NextSegment) /\ clock' = NextClock
    BY <1>4 DEF advance_submsg
  <2>2. NextSegment \in segNum .. SegLen
    BY NextSegmentIs
  <2>3. Submessages(NextSegment) \in Nat
    BY <2>2, SubmessagesIs
  <2>4. NextClock = Saturate(Total(seq)[NextSegment]) /\ NextClock \in Nat
    BY NextClockIs
  <2>5. seq' = seq /\ SegLen' = SegLen
    BY <1>1, <2>1 DEF seq, SegLen
  <2>6. ClockIs'
    BY <2>1, <2>4, <2>5 DEF ClockIs
  <2> QED
    BY <1>1, <1>2, <2>1, <2>2, <2>3, <2>4, <2>5, <2>6
<1> QED
  BY <1>3, <1>4 DEF Advance

LEMMA ClampIs ==
  ASSUME NEW n \in Nat, NEW lo \in Nat, NEW hi \in Nat
  PROVE  Clamp(n, lo, hi) \in Nat
  BY DEF Clamp

\* What each step is, apart from where the cursor goes.
LEMMA Steps ==
  ASSUME Typed, ClockIs, Next
  PROVE  \/ /\ UNCHANGED <<batches, known, start, cursor, out>>
            /\ status = "running" /\ status' = "whole" /\ pos > Len(batches)
         \/ /\ AtBatch /\ status = "running"
            /\ \/ /\ Kind = "l2" /\ Advance(read)
                  /\ Yields([kind |-> "l2", id |-> <<seq.id, NextSegment + 1>>, read |-> read],
                            Clamp(NextClock, seq.min, seq.max))
               \/ /\ Kind = "delayed" /\ read < seq.after /\ read \in known /\ Advance(read + 1)
                  /\ Yields([kind |-> "delayed", id |-> <<read>>, read |-> read + 1], 0)
               \/ /\ Kind = "delayed" /\ read >= seq.after /\ Advance(read)
                  /\ Yields([kind |-> "invalid", id |-> <<seq.id>>, read |-> seq.after], seq.max)
               \/ /\ Kind = "bad" \/ (Kind = "delayed" /\ read < seq.after /\ read \notin known)
                  /\ status' = "error" /\ Advance(read) /\ out' = out
               \/ /\ Kind = "unknown"
                  /\ status' = "stopped" /\ Advance(read) /\ out' = out
<1>1. CASE PopEnd
  BY <1>1 DEF PopEnd
<1>2. CASE Peeked
  <2>1. AtBatch /\ status = "running"
    BY <1>2, PeekedAtBatch DEF Peeked
  <2>2. ~ PopEnd
    BY <1>2, WindowIs DEF Peeked, PopEnd, Typed
  <2> QED
    BY <2>1, <2>2 DEF Next, PopL2, PopDelayed, PopInvalid, PopError, PopUnknown, Emit, Yields
<1> QED
  BY <1>1, <1>2 DEF Next, PopL2, PopDelayed, PopInvalid, PopError, PopUnknown

LEMMA InitTyped == Init => Typed /\ ClockIs
<1> SUFFICES ASSUME Init PROVE Typed /\ ClockIs
  OBVIOUS
<1>1. batches \in Windows /\ Len(batches) \in Nat /\ Len(batches) >= 1 /\ Len(batches[1].segs) \in Nat
  BY WindowIs DEF Init
<1>2. Typed
  BY <1>1, WindowsAssumption DEF Init, Typed, seq, SegLen
<1>3. IsTotal(batches[1], Total(batches[1]))
  BY <1>1, TotalIs
<1>4. Saturate(Total(seq)[segNum]) = 0
  BY <1>3, WindowsAssumption DEF Init, seq, IsTotal, Saturate
<1> QED
  BY <1>2, <1>4 DEF Init, ClockIs

LEMMA YieldsTyped ==
  ASSUME Typed, NEW msg \in Messages, NEW time \in Nat, Yields(msg, time)
  PROVE  /\ out' \in Seq([msg : Messages, time : Nat])
         /\ Len(out) \in Nat /\ Len(out') = Len(out) + 1
         /\ out'[Len(out) + 1] = [msg |-> msg, time |-> time]
         /\ \A k \in 1 .. Len(out) : out'[k] = out[k]
<1> DEFINE S == [msg : Messages, time : Nat]
           e == [msg |-> msg, time |-> time]
<1>1. out \in Seq(S) /\ e \in S /\ out' = Append(out, e)
  BY DEF Typed, Yields
<1> HIDE DEF S, e
<1>2. /\ out' \in Seq(S) /\ Len(out) \in Nat /\ Len(out') = Len(out) + 1
      /\ out'[Len(out) + 1] = e /\ \A k \in 1 .. Len(out) : out'[k] = out[k]
  BY <1>1
<1> QED
  BY <1>2 DEF S, e

\* The messages are well formed.
LEMMA YieldedTyped ==
  ASSUME AtBatch, ClockIs
  PROVE  /\ Kind = "l2" => NextSegment \in 0 .. SegLen - 1
         /\ [kind |-> "l2", id |-> <<seq.id, NextSegment + 1>>, read |-> read] \in Messages
         /\ [kind |-> "delayed", id |-> <<read>>, read |-> read + 1] \in Messages
         /\ [kind |-> "invalid", id |-> <<seq.id>>, read |-> seq.after] \in Messages
         /\ Clamp(NextClock, seq.min, seq.max) \in Nat /\ seq.max \in Nat /\ read \in Nat
<1>1. NextSegment \in 0 .. SegLen /\ SegLen \in Nat /\ NextClock \in Nat
  BY NextSegmentIs, NextClockIs DEF AtBatch
<1>2. seq.id \in Nat /\ seq.after \in Nat /\ read \in Nat /\ seq.min \in Nat /\ seq.max \in Nat
  BY DEF AtBatch, Typed
<1>3. <<seq.id, NextSegment + 1>> \in Seq(Nat) /\ <<read>> \in Seq(Nat) /\ <<seq.id>> \in Seq(Nat)
  BY <1>1, <1>2
<1>4. Clamp(NextClock, seq.min, seq.max) \in Nat
  BY <1>1, <1>2, ClampIs
<1>5. Kind = "l2" => NextSegment \in 0 .. SegLen - 1
  BY <1>1 DEF Kind
<1> QED
  BY <1>2, <1>3, <1>4, <1>5 DEF Messages

LEMMA NextTyped == Typed /\ ClockIs /\ [Next]_vars => Typed' /\ ClockIs'
<1> SUFFICES ASSUME Typed, ClockIs, [Next]_vars PROVE Typed' /\ ClockIs'
  OBVIOUS
<1>1. CASE UNCHANGED <<batches, known, start, cursor, out>>
           /\ (status' = status \/ status' = "whole")
  BY <1>1 DEF Typed, ClockIs, cursor, seq, SegLen
<1>2. CASE AtBatch /\ \E newRead \in Nat : Advance(newRead) /\ out' \in Seq([msg : Messages, time : Nat])
           /\ status' \in {"running", "error", "stopped"}
  BY <1>2, AdvanceKeeps DEF Typed
<1>3. CASE Next
  <2>1. AtBatch => read \in Nat /\ read + 1 \in Nat
    BY DEF AtBatch, Typed
  <2>2. AtBatch =>
          /\ [kind |-> "l2", id |-> <<seq.id, NextSegment + 1>>, read |-> read] \in Messages
          /\ [kind |-> "delayed", id |-> <<read>>, read |-> read + 1] \in Messages
          /\ [kind |-> "invalid", id |-> <<seq.id>>, read |-> seq.after] \in Messages
          /\ Clamp(NextClock, seq.min, seq.max) \in Nat /\ seq.max \in Nat
    BY YieldedTyped
  <2>3. \A msg \in Messages, time \in Nat :
          Yields(msg, time) => out' \in Seq([msg : Messages, time : Nat]) /\ status' = status
    BY YieldsTyped DEF Yields
  <2>4. out' = out => out' \in Seq([msg : Messages, time : Nat])
    BY DEF Typed
  <2>5. \/ /\ UNCHANGED <<batches, known, start, cursor, out>>
           /\ status' = "whole"
        \/ AtBatch /\ \E newRead \in Nat : Advance(newRead) /\ out' \in Seq([msg : Messages, time : Nat])
           /\ status' \in {"running", "error", "stopped"}
    BY <1>3, <2>1, <2>2, <2>3, <2>4, Steps
  <2> QED
    BY <1>1, <1>2, <2>5
<1> QED
  BY <1>1, <1>3 DEF vars

\* The multiplexer's cursor and the messages popped keep their types, for every
\* window.
THEOREM MuxTypeCorrect == Spec => []Typed
<1>1. Init => Typed /\ ClockIs
  BY InitTyped
<1>2. Typed /\ ClockIs /\ [Next]_vars => (Typed /\ ClockIs)'
  BY NextTyped
<1> QED
  BY <1>1, <1>2, PTL DEF Spec

(***************************************************************************)
(* Timestamps.                                                             *)
(***************************************************************************)

TimeOf(k) ==
  out[k].msg.kind = "l2" =>
    \E n \in 1 .. Len(batches) :
      /\ out[k].msg.id[1] = batches[n].id
      /\ out[k].time = Clamp(Saturate(AdvancesBefore(batches[n], out[k].msg.id[2])),
                             batches[n].min, batches[n].max)

LEMMA NextTimes == Typed /\ ClockIs /\ TimeIsSumOfAdvances /\ [Next]_vars => TimeIsSumOfAdvances'
<1> SUFFICES ASSUME Typed, ClockIs, TimeIsSumOfAdvances, [Next]_vars PROVE TimeIsSumOfAdvances'
  OBVIOUS
<1>1. batches' = batches
  BY DEF Next, vars, PopL2, PopDelayed, PopInvalid, PopError, PopUnknown, PopEnd, Advance
<1>2. \A k \in 1 .. Len(out) : TimeOf(k)
  BY DEF TimeIsSumOfAdvances, TimeOf
<1>3. CASE out' = out
  BY <1>1, <1>3 DEF TimeIsSumOfAdvances
<1>4. ASSUME AtBatch, NEW msg \in Messages, NEW time \in Nat, Yields(msg, time),
             msg.kind = "l2" =>
               \E n \in 1 .. Len(batches) :
                 /\ msg.id[1] = batches[n].id
                 /\ time = Clamp(Saturate(AdvancesBefore(batches[n], msg.id[2])),
                                 batches[n].min, batches[n].max)
      PROVE  TimeIsSumOfAdvances'
  <2>1. /\ Len(out) \in Nat /\ Len(out') = Len(out) + 1
        /\ out'[Len(out) + 1] = [msg |-> msg, time |-> time]
        /\ \A k \in 1 .. Len(out) : out'[k] = out[k]
    BY <1>4, YieldsTyped
  <2>2. ASSUME NEW k \in 1 .. Len(out') PROVE TimeOf(k)'
    <3>1. CASE k = Len(out) + 1
      <4>1. out'[k].msg = msg /\ out'[k].time = time
        BY <2>1, <3>1
      <4> QED
        BY <1>1, <1>4, <4>1 DEF TimeOf
    <3>2. CASE k \in 1 .. Len(out)
      <4>1. out'[k] = out[k] /\ TimeOf(k)
        BY <1>2, <2>1, <3>2
      <4> QED
        BY <1>1, <4>1 DEF TimeOf
    <3> QED
      BY <2>1, <2>2, <3>1, <3>2
  <2> QED
    BY <2>2 DEF TimeIsSumOfAdvances, TimeOf
<1>5. CASE Next
  <2>1. CASE AtBatch /\ Kind = "l2"
             /\ Yields([kind |-> "l2", id |-> <<seq.id, NextSegment + 1>>, read |-> read],
                       Clamp(NextClock, seq.min, seq.max))
    <3> DEFINE msg == [kind |-> "l2", id |-> <<seq.id, NextSegment + 1>>, read |-> read]
               time == Clamp(NextClock, seq.min, seq.max)
    <3>1. msg \in Messages /\ time \in Nat /\ NextSegment \in 0 .. SegLen - 1 /\ SegLen \in Nat
      BY <2>1, YieldedTyped DEF AtBatch
    <3>2. NextSegment + 1 \in 1 .. Len(batches[pos].segs) /\ pos \in 1 .. Len(batches)
          /\ batches \in Windows /\ (NextSegment + 1) - 1 = NextSegment
      BY <2>1, <3>1 DEF AtBatch, Typed, SegLen, seq
    <3>3. AdvancesBefore(batches[pos], NextSegment + 1) = Total(batches[pos])[NextSegment]
      BY <3>2, AdvancesBeforeIs
    <3>4. NextClock = Saturate(Total(seq)[NextSegment])
      BY <2>1, NextClockIs
    <3>5. /\ msg.id[1] = batches[pos].id
          /\ time = Clamp(Saturate(AdvancesBefore(batches[pos], msg.id[2])),
                          batches[pos].min, batches[pos].max)
      BY <3>3, <3>4 DEF seq
    <3>6. Yields(msg, time)
      BY <2>1
    <3> HIDE DEF msg, time
    <3> QED
      BY <1>4, <2>1, <3>1, <3>2, <3>5, <3>6
  <2>2. CASE AtBatch /\ \E msg \in Messages, time \in Nat : Yields(msg, time) /\ msg.kind # "l2"
    BY <1>4, <2>2
  <2>3. CASE AtBatch
             /\ \/ Yields([kind |-> "delayed", id |-> <<read>>, read |-> read + 1], 0)
                \/ Yields([kind |-> "invalid", id |-> <<seq.id>>, read |-> seq.after], seq.max)
    <3> DEFINE m1 == [kind |-> "delayed", id |-> <<read>>, read |-> read + 1]
               m2 == [kind |-> "invalid", id |-> <<seq.id>>, read |-> seq.after]
    <3>1. m1 \in Messages /\ m2 \in Messages /\ seq.max \in Nat
      BY <2>3, YieldedTyped
    <3>2. m1.kind # "l2" /\ m2.kind # "l2"
      OBVIOUS
    <3>3. Yields(m1, 0) \/ Yields(m2, seq.max)
      BY <2>3
    <3> HIDE DEF m1, m2
    <3> QED
      BY <2>2, <2>3, <3>1, <3>2, <3>3
  <2> QED
    BY <1>3, <1>5, <2>1, <2>3, Steps
<1> QED
  BY <1>3, <1>5 DEF vars

\* However many pops the cursor takes through a batch, a message has the timestamp
\* that all advances before it add up to, saturated and clamped: what the cached
\* clock keeps between pops is enough.
THEOREM TimesAreSums == Spec => []TimeIsSumOfAdvances
<1>1. Init => Typed /\ ClockIs /\ TimeIsSumOfAdvances
  BY InitTyped DEF Init, TimeIsSumOfAdvances
<1>2. Typed /\ ClockIs /\ TimeIsSumOfAdvances /\ [Next]_vars
        => (Typed /\ ClockIs /\ TimeIsSumOfAdvances)'
  BY NextTyped, NextTimes
<1> QED
  BY <1>1, <1>2, PTL DEF Spec

(***************************************************************************)
(* Delayed messages.                                                       *)
(***************************************************************************)

LastRead == IF out = <<>> THEN start ELSE out[Len(out)].msg.read

\* The cursor has read what the last message says, and no more than its batch.
ReadIs ==
  start <= batches[1].after =>
    /\ status = "running" => read = LastRead
    /\ pos <= Len(batches) => read <= seq.after

\* Message m follows on a message that has read before.
StepsOn(m, before) ==
  /\ m.read \in {before, before + 1}
  /\ m.kind = "delayed" <=> m.read = before + 1
  /\ m.kind = "delayed" => m.id = <<before>>

LEMMA StepByStepIs ==
  DelayedStepByStep <=>
    (start <= batches[1].after =>
      \A k \in 1 .. Len(out) : StepsOn(out[k].msg, IF k = 1 THEN start ELSE out[k - 1].msg.read))
  BY DEF DelayedStepByStep, StepsOn

DelayedInv == Typed /\ ClockIs /\ ReadIs /\ DelayedStepByStep

LEMMA AdvanceReads ==
  ASSUME AtBatch, ClockIs, NEW newRead \in Nat, Advance(newRead), newRead <= seq.after
  PROVE  read' = newRead /\ (pos' <= Len(batches') => read' <= seq'.after)
<1>1. batches' = batches /\ Len(batches) \in Nat /\ pos \in 1 .. Len(batches) /\ seq.after \in Nat
      /\ \A j, k \in 1 .. Len(batches) : j <= k => batches[j].after <= batches[k].after
  BY WindowIs DEF Advance, AtBatch, Typed
<1>2. CASE is_cached_segment_last(newRead)
  <2>1. pos' = pos + 1 /\ read' = seq.after /\ newRead >= seq.after
    BY <1>2 DEF Advance, advance_seq_msg, is_cached_segment_last
  <2>2. read' = newRead
    BY <1>1, <2>1
  <2>3. pos + 1 <= Len(batches) => seq.after <= batches[pos + 1].after
    BY <1>1 DEF seq
  <2>4. seq' = batches[pos + 1]
    BY <1>1, <2>1 DEF seq
  <2> QED
    BY <1>1, <2>1, <2>2, <2>3, <2>4
<1>3. CASE ~ is_cached_segment_last(newRead)
  <2>1. pos' = pos /\ read' = newRead
    BY <1>3 DEF Advance, advance_submsg
  <2> QED
    BY <1>1, <2>1 DEF seq
<1> QED
  BY <1>2, <1>3

LEMMA NextDelayedInv == DelayedInv /\ [Next]_vars => DelayedInv'
<1> SUFFICES ASSUME DelayedInv, [Next]_vars PROVE DelayedInv'
  OBVIOUS
<1>0. Typed /\ ClockIs /\ Typed' /\ ClockIs'
  BY NextTyped DEF DelayedInv
<1>1. batches' = batches /\ start' = start
  BY DEF Next, vars, PopL2, PopDelayed, PopInvalid, PopError, PopUnknown, PopEnd, Advance
<1>2. SUFFICES ASSUME start <= batches[1].after PROVE ReadIs' /\ DelayedStepByStep'
  BY <1>0, <1>1 DEF DelayedInv, ReadIs, DelayedStepByStep
<1>3. /\ status = "running" => read = LastRead
      /\ pos <= Len(batches) => read <= seq.after
      /\ \A k \in 1 .. Len(out) : StepsOn(out[k].msg, IF k = 1 THEN start ELSE out[k - 1].msg.read)
  BY <1>2, StepByStepIs DEF DelayedInv, ReadIs
<1>4. CASE UNCHANGED <<batches, known, start, cursor, out>>
           /\ (status' = status \/ status' = "whole")
  BY <1>3, <1>4, StepByStepIs DEF DelayedInv, ReadIs, cursor, DelayedStepByStep, LastRead, seq
<1>5. ASSUME AtBatch, status = "running", NEW newRead \in Nat, newRead <= seq.after, Advance(newRead),
             NEW msg \in Messages, NEW time \in Nat, Yields(msg, time),
             msg.read = newRead, StepsOn(msg, read)
      PROVE  ReadIs' /\ DelayedStepByStep'
  <2>1. /\ Len(out) \in Nat /\ Len(out') = Len(out) + 1
        /\ out'[Len(out) + 1].msg = msg
        /\ \A k \in 1 .. Len(out) : out'[k] = out[k]
    <3>1. /\ Len(out) \in Nat /\ Len(out') = Len(out) + 1
          /\ out'[Len(out) + 1] = [msg |-> msg, time |-> time]
          /\ \A k \in 1 .. Len(out) : out'[k] = out[k]
      BY <1>0, <1>5, YieldsTyped
    <3> QED
      BY <3>1
  <2>2. read' = newRead /\ (pos' <= Len(batches') => read' <= seq'.after)
    BY <1>0, <1>5, AdvanceReads
  <2>3. out' # <<>>
    BY <2>1
  <2>4. read' = LastRead'
    BY <1>5, <2>1, <2>2, <2>3 DEF LastRead
  <2>5. ASSUME NEW k \in 1 .. Len(out')
        PROVE  StepsOn(out'[k].msg, IF k = 1 THEN start' ELSE out'[k - 1].msg.read)
    <3>1. CASE k = Len(out) + 1
      <4>1. read = IF k = 1 THEN start' ELSE out'[k - 1].msg.read
        <5>1. CASE k = 1
          <6>1. out = <<>>
            BY <1>0, <2>1, <3>1, <5>1 DEF Typed
          <6> QED
            BY <1>1, <1>3, <1>5, <5>1, <6>1 DEF LastRead
        <5>2. CASE k # 1
          <6>1. Len(out) \in 1 .. Len(out) /\ k - 1 = Len(out) /\ out # <<>>
            BY <2>1, <3>1, <5>2
          <6> QED
            BY <1>3, <1>5, <2>1, <5>2, <6>1 DEF LastRead
        <5> QED
          BY <5>1, <5>2
      <4> QED
        BY <1>5, <2>1, <3>1, <4>1
    <3>2. CASE k \in 1 .. Len(out)
      <4>1. out'[k] = out[k] /\ (k # 1 => out'[k - 1] = out[k - 1])
        BY <2>1, <3>2
      <4> QED
        BY <1>1, <1>3, <3>2, <4>1
    <3> QED
      BY <2>1, <3>1, <3>2
  <2>6. DelayedStepByStep'
    BY <2>5 DEF DelayedStepByStep, StepsOn
  <2> QED
    BY <2>2, <2>4, <2>6 DEF ReadIs
<1>6. CASE AtBatch /\ Advance(read) /\ out' = out /\ status' # "running"
  <2>1. read <= seq.after /\ read \in Nat
    BY <1>3, <1>6 DEF AtBatch, Typed
  <2>2. pos' <= Len(batches') => read' <= seq'.after
    BY <1>0, <1>6, <2>1, AdvanceReads
  <2> QED
    BY <1>1, <1>6, <2>2 DEF DelayedInv, ReadIs, DelayedStepByStep
<1>7. CASE Next
  <2>1. AtBatch => read \in Nat /\ read + 1 \in Nat /\ seq.after \in Nat /\ read <= seq.after /\ start \in Nat
    BY <1>3 DEF AtBatch, Typed
  <2> DEFINE m1 == [kind |-> "l2", id |-> <<seq.id, NextSegment + 1>>, read |-> read]
             m2 == [kind |-> "delayed", id |-> <<read>>, read |-> read + 1]
             m3 == [kind |-> "invalid", id |-> <<seq.id>>, read |-> seq.after]
             time == Clamp(NextClock, seq.min, seq.max)
  <2>2. AtBatch => m1 \in Messages /\ m2 \in Messages /\ m3 \in Messages /\ time \in Nat /\ seq.max \in Nat
    BY <1>0, YieldedTyped
  <2>3. AtBatch => StepsOn(m1, read) /\ StepsOn(m2, read) /\ m1.read = read /\ m2.read = read + 1
    BY <2>1 DEF StepsOn
  <2>4. AtBatch /\ read >= seq.after => StepsOn(m3, read) /\ m3.read = read
    BY <2>1 DEF StepsOn
  <2>5. \/ UNCHANGED <<batches, known, start, cursor, out>> /\ status' = "whole"
        \/ /\ AtBatch /\ status = "running"
           /\ \/ Advance(read) /\ Yields(m1, time)
              \/ read < seq.after /\ Advance(read + 1) /\ Yields(m2, 0)
              \/ read >= seq.after /\ Advance(read) /\ Yields(m3, seq.max)
              \/ Advance(read) /\ out' = out /\ status' # "running"
    BY <1>0, <1>7, Steps
  <2> HIDE DEF m1, m2, m3, time
  <2>6. CASE AtBatch /\ status = "running" /\ Advance(read) /\ Yields(m1, time)
    BY <1>5, <2>1, <2>2, <2>3, <2>6
  <2>7. CASE AtBatch /\ status = "running" /\ read < seq.after /\ Advance(read + 1) /\ Yields(m2, 0)
    <3>1. read + 1 <= seq.after
      BY <2>1, <2>7
    <3> QED
      BY <1>5, <2>1, <2>2, <2>3, <2>7, <3>1
  <2>8. CASE AtBatch /\ status = "running" /\ read >= seq.after /\ Advance(read) /\ Yields(m3, seq.max)
    BY <1>5, <2>1, <2>2, <2>4, <2>8
  <2> QED
    BY <1>4, <1>6, <2>5, <2>6, <2>7, <2>8
<1> QED
  BY <1>4, <1>7 DEF vars

\* Over every window that goes on where the one before ended, delayed messages come
\* out in order, each once, and no message reads more than one: the streamer, which
\* refuses a delayed counter that jumps, never refuses a window.
THEOREM DelayedComeStepByStep == Spec => []DelayedStepByStep
<1>1. Init => DelayedInv
  <2> SUFFICES ASSUME Init PROVE DelayedInv
    OBVIOUS
  <2>1. Typed /\ ClockIs
    BY InitTyped
  <2>2. ReadIs /\ DelayedStepByStep
    BY DEF Init, ReadIs, DelayedStepByStep, LastRead, seq
  <2> QED
    BY <2>1, <2>2 DEF DelayedInv
<1>2. DelayedInv /\ [Next]_vars => DelayedInv'
  BY NextDelayedInv
<1>3. DelayedInv => DelayedStepByStep
  BY DEF DelayedInv
<1> QED
  BY <1>1, <1>2, <1>3, PTL DEF Spec

(***************************************************************************)
(* The cursor: what it has behind it.                                      *)
(***************************************************************************)

\* A pop leaves the cursor at the segment it acted on, and the number of pops is the
\* number of segments that count, until the end of the batch is reached.
CursorIs ==
  pos <= Len(batches) =>
    \/ within = 0 /\ segNum = 0 /\ subNum = 0
    \/ within > 0 /\ segNum < SegLen /\ Visible(seg(segNum)) /\ within = subNum + 1
    \/ within > 0 /\ segNum = SegLen

\* How many segments are behind the cursor.
Done == IF within = 0 THEN 0 ELSE IF segNum < SegLen THEN segNum + 1 ELSE SegLen

\* A pop goes on to the next segment that counts, and skips none.
LEMMA NothingPassed ==
  ASSUME AtBatch, CursorIs
  PROVE  /\ Done \in 0 .. NextSegment
         /\ \A j \in Done .. NextSegment - 1 : ~ Visible(seg(j))
         /\ NextSegment < SegLen => /\ Visible(seg(NextSegment))
                                    /\ within = subNum + Submessages(NextSegment)
<1>1. /\ NextSegment \in segNum .. SegLen /\ Stops(NextSegment)
      /\ \A i \in segNum .. NextSegment - 1 : ~ Stops(i)
  BY NextSegmentIs
<1>2. segNum \in Nat /\ SegLen \in Nat /\ segNum <= SegLen /\ within \in Nat /\ subNum \in Nat
  BY DEF AtBatch, Typed
<1>3. \A i \in segNum .. SegLen :
        /\ Submessages(i) \in Nat
        /\ IsFiniteSet({j \in segNum .. i - 1 : Visible(seg(j))})
  BY SubmessagesIs
<1>4. NextSegment < SegLen => Visible(seg(NextSegment)) /\ subNum + Submessages(NextSegment) >= within
  BY <1>1 DEF Stops
<1>5. CASE within = 0 /\ segNum = 0 /\ subNum = 0
  <2>1. Done = 0
    BY <1>5 DEF Done
  <2>2. ASSUME NEW j \in 0 .. NextSegment - 1 PROVE ~ Visible(seg(j))
    <3>1. j \in segNum .. NextSegment - 1 /\ j \in segNum .. SegLen
      BY <1>1, <1>2, <1>5
    <3>2. ~ Stops(j) /\ Submessages(j) \in Nat
      BY <1>1, <1>3, <3>1
    <3> QED
      BY <1>5, <3>2 DEF Stops
  <2>3. {j \in segNum .. NextSegment - 1 : Visible(seg(j))} = {}
    BY <1>5, <2>2
  <2>4. Submessages(NextSegment) = 0
    BY <2>3, FS_EmptySet DEF Submessages
  <2> QED
    BY <1>1, <1>2, <1>4, <1>5, <2>1, <2>2, <2>4
<1>6. CASE within > 0 /\ segNum < SegLen /\ Visible(seg(segNum)) /\ within = subNum + 1
  <2>1. Done = segNum + 1
    BY <1>2, <1>6 DEF Done
  <2>2. ~ Stops(segNum)
    <3>1. {j \in segNum .. segNum - 1 : Visible(seg(j))} = {}
      BY <1>2
    <3>2. Submessages(segNum) = 0
      BY <3>1, FS_EmptySet DEF Submessages
    <3> QED
      BY <1>2, <1>6, <3>2 DEF Stops
  <2>3. NextSegment >= segNum + 1
    <3>1. NextSegment # segNum
      BY <1>1, <2>2
    <3> QED
      BY <1>1, <1>2, <3>1
  <2>4. ASSUME NEW j \in segNum + 1 .. NextSegment - 1 PROVE ~ Visible(seg(j))
    <3>1. j \in segNum .. NextSegment - 1 /\ j \in segNum .. SegLen /\ segNum \in segNum .. j - 1
          /\ j < SegLen
      BY <1>1, <1>2
    <3>2. ~ Stops(j) /\ Submessages(j) \in Nat
          /\ IsFiniteSet({i \in segNum .. j - 1 : Visible(seg(i))})
      BY <1>1, <1>3, <3>1
    <3>3. {i \in segNum .. j - 1 : Visible(seg(i))} # {}
      BY <1>6, <3>1
    <3>4. Submessages(j) # 0
      BY <3>2, <3>3, FS_EmptySet DEF Submessages
    <3> QED
      BY <1>2, <1>6, <3>1, <3>2, <3>4 DEF Stops
  <2>5. {j \in segNum .. NextSegment - 1 : Visible(seg(j))} = {segNum}
    BY <1>1, <1>2, <1>6, <2>3, <2>4
  <2>6. Submessages(NextSegment) = 1
    BY <2>5, FS_Singleton DEF Submessages
  <2> QED
    BY <1>1, <1>2, <1>4, <1>6, <2>1, <2>3, <2>4, <2>6
<1>7. CASE within > 0 /\ segNum = SegLen
  <2>1. Done = SegLen /\ NextSegment = SegLen
    BY <1>1, <1>2, <1>7 DEF Done
  <2> QED
    BY <1>2, <2>1
<1> QED
  BY <1>5, <1>6, <1>7 DEF CursorIs, AtBatch

\* Where a pop leaves the cursor.
LEMMA AdvanceDone ==
  ASSUME AtBatch, ClockIs, CursorIs, NEW newRead \in Nat, Advance(newRead)
  PROVE  /\ CursorIs'
         /\ is_cached_segment_last(newRead) => pos' = pos + 1 /\ Done' = 0
         /\ ~ is_cached_segment_last(newRead) =>
              /\ pos' = pos
              /\ Done' = IF NextSegment < SegLen THEN NextSegment + 1 ELSE SegLen
<1>1. /\ NextSegment \in segNum .. SegLen /\ segNum \in Nat /\ SegLen \in Nat
      /\ within \in Nat /\ subNum \in Nat /\ batches' = batches
  BY NextSegmentIs DEF AtBatch, Typed, Advance
<1>2. CASE is_cached_segment_last(newRead)
  <2>1. pos' = pos + 1 /\ within' = 0 /\ segNum' = 0 /\ subNum' = 0
    BY <1>2 DEF Advance, advance_seq_msg
  <2> QED
    BY <1>2, <2>1 DEF CursorIs, Done
<1>3. CASE ~ is_cached_segment_last(newRead)
  <2>1. /\ pos' = pos /\ within' = within + 1 /\ segNum' = NextSegment
        /\ subNum' = subNum + Submessages(NextSegment)
    BY <1>3 DEF Advance, advance_submsg
  <2>2. seq' = seq /\ SegLen' = SegLen
    BY <1>1, <2>1 DEF seq, SegLen
  <2>3. Done' = IF NextSegment < SegLen THEN NextSegment + 1 ELSE SegLen
    BY <1>1, <2>1, <2>2 DEF Done
  <2>4. NextSegment < SegLen => Visible(seg(NextSegment)) /\ within = subNum + Submessages(NextSegment)
    BY NothingPassed
  <2>5. CursorIs'
    <3>1. NextSegment < SegLen => Visible(seg(segNum)')
      BY <2>1, <2>2, <2>4 DEF seg, seq, Visible, Item
    <3>2. Submessages(NextSegment) \in Nat
      BY <1>1, SubmessagesIs
    <3> QED
      BY <1>1, <2>1, <2>2, <2>4, <3>1, <3>2 DEF CursorIs
  <2> QED
    BY <1>3, <2>1, <2>3, <2>5
<1> QED
  BY <1>2, <1>3

(***************************************************************************)
(* The number of messages.                                                 *)
(***************************************************************************)

\* The L2 messages among the first n segments of b.
L2Upto(b, n) == Cardinality({i \in 1 .. n : b.segs[i].kind \in {"l2", "bad"}})

LEMMA L2UptoIs ==
  ASSUME NEW b, NEW n \in Nat
  PROVE  /\ L2Upto(b, n) \in Nat
         /\ L2Upto(b, 0) = 0
         /\ L2Upto(b, n + 1) = L2Upto(b, n) + (IF b.segs[n + 1].kind \in {"l2", "bad"} THEN 1 ELSE 0)
         /\ \A m \in 0 .. n : (\A i \in m + 1 .. n : b.segs[i].kind \notin {"l2", "bad"})
                                => L2Upto(b, n) = L2Upto(b, m)
<1> DEFINE S(m) == {i \in 1 .. m : b.segs[i].kind \in {"l2", "bad"}}
<1>1. \A m \in Nat : IsFiniteSet(S(m))
  <2>1. \A m \in Nat : IsFiniteSet(1 .. m)
    BY FS_Interval
  <2>2. \A m \in Nat : S(m) \subseteq 1 .. m
    OBVIOUS
  <2> HIDE DEF S
  <2> QED
    BY <2>1, <2>2, FS_Subset
<1>2. L2Upto(b, n) \in Nat
  <2> HIDE DEF S
  <2>1. Cardinality(S(n)) \in Nat
    BY <1>1, FS_CardinalityType
  <2> QED
    BY <2>1 DEF L2Upto, S
<1>3. L2Upto(b, 0) = 0
  <2>1. S(0) = {}
    OBVIOUS
  <2> QED
    BY <2>1, FS_EmptySet DEF L2Upto
<1>6. ASSUME NEW m \in 0 .. n, \A i \in m + 1 .. n : b.segs[i].kind \notin {"l2", "bad"}
      PROVE  L2Upto(b, n) = L2Upto(b, m)
  <2>1. S(n) = S(m)
    BY <1>6
  <2> QED
    BY <2>1 DEF L2Upto
<1>7. L2Upto(b, n + 1) = L2Upto(b, n) + (IF b.segs[n + 1].kind \in {"l2", "bad"} THEN 1 ELSE 0)
  <2>1. CASE b.segs[n + 1].kind \in {"l2", "bad"}
    <3>1. S(n + 1) = S(n) \cup {n + 1} /\ n + 1 \notin S(n)
      BY <2>1
    <3>2. Cardinality(S(n) \cup {n + 1}) = Cardinality(S(n)) + 1
      <4> HIDE DEF S
      <4> QED
        BY <1>1, <3>1, FS_AddElement
    <3>3. L2Upto(b, n + 1) = L2Upto(b, n) + 1
      BY <3>1, <3>2 DEF L2Upto
    <3> HIDE DEF S
    <3> QED
      BY <2>1, <3>3
  <2>2. CASE b.segs[n + 1].kind \notin {"l2", "bad"}
    <3>1. S(n + 1) = S(n)
      BY <2>2
    <3>2. L2Upto(b, n + 1) = L2Upto(b, n)
      BY <3>1 DEF L2Upto
    <3> HIDE DEF S
    <3> QED
      BY <1>2, <2>2, <3>2
  <2> QED
    BY <2>1, <2>2
<1> QED
  BY <1>2, <1>3, <1>6, <1>7

\* The delayed messages read before batch k, and the counts recorded for the first k
\* batches.
ReadBefore(k) == IF k = 1 THEN start ELSE batches[k - 1].after

IsRecorded(count) ==
  count = [k \in 0 .. Len(batches) |->
             IF k = 0 THEN 0 ELSE count[k - 1] + L2Count(batches[k]) + Span(batches[k], ReadBefore(k))]

RecordedUpto == CHOOSE count : IsRecorded(count)

LEMMA RecordedUptoIs ==
  ASSUME Typed
  PROVE  /\ RecordedCount = RecordedUpto[Len(batches)]
         /\ RecordedUpto \in [0 .. Len(batches) -> Nat]
         /\ RecordedUpto[0] = 0
         /\ \A k \in 1 .. Len(batches) :
              RecordedUpto[k] = RecordedUpto[k - 1] + L2Count(batches[k]) + Span(batches[k], ReadBefore(k))
<1> DEFINE last == Len(batches)
           p == [k \in 1 .. last |-> L2Count(batches[k])]
           q == [k \in 1 .. last |-> Span(batches[k], ReadBefore(k))]
<1>1. last \in Nat /\ batches \in Windows /\ start \in Nat
      /\ \A k \in 1 .. last : batches[k].after \in Nat /\ Len(batches[k].segs) \in Nat
  BY WindowIs DEF Typed
<1>2. ASSUME NEW k \in 1 .. last
      PROVE  L2Count(batches[k]) \in Nat /\ Span(batches[k], ReadBefore(k)) \in Nat
  <2>1. L2Count(batches[k]) = L2Upto(batches[k], Len(batches[k].segs))
    BY DEF L2Count, L2Upto
  <2>2. L2Upto(batches[k], Len(batches[k].segs)) \in Nat
    BY <1>1, <1>2, L2UptoIs
  <2>3. ReadBefore(k) \in Nat
    <3>1. k # 1 => k - 1 \in 1 .. last
      BY <1>1
    <3> QED
      BY <1>1, <3>1 DEF ReadBefore
  <2>4. Span(batches[k], ReadBefore(k)) \in Nat
    BY <1>1, <2>3 DEF Span
  <2> QED
    BY <2>1, <2>2, <2>4
<1>3. p \in [1 .. last -> Nat] /\ q \in [1 .. last -> Nat]
  BY <1>2
<1>4. PICK f : RunningSum(f, 1, last, 0, p, q)
  <2>1. 1 \in Int /\ last \in Int /\ 1 - 1 <= last /\ 0 \in Nat
    BY <1>1
  <2> HIDE DEF last, p, q
  <2> QED
    BY <1>3, <2>1, SumExists
<1>5. /\ f \in [0 .. last -> Nat] /\ f[0] = 0
      /\ \A k \in 1 .. last : f[k] = f[k - 1] + L2Count(batches[k]) + Span(batches[k], ReadBefore(k))
  <2>1. /\ f \in [1 - 1 .. last -> Nat] /\ f[1 - 1] = 0
        /\ \A k \in 1 .. last : f[k] = f[k - 1] + p[k] + q[k]
    BY <1>4 DEF RunningSum
  <2>2. \A k \in 1 .. last : p[k] = L2Count(batches[k]) /\ q[k] = Span(batches[k], ReadBefore(k))
    OBVIOUS
  <2> HIDE DEF p, q
  <2> QED
    BY <2>1, <2>2
<1>6. IsRecorded(f)
  <2>1. f = [k \in 0 .. last |-> f[k]]
    BY <1>5
  <2>2. \A k \in 0 .. last :
          f[k] = IF k = 0 THEN 0 ELSE f[k - 1] + L2Count(batches[k]) + Span(batches[k], ReadBefore(k))
    BY <1>1, <1>5
  <2> QED
    BY <2>1, <2>2 DEF IsRecorded
<1>7. IsRecorded(RecordedUpto)
  BY <1>6 DEF RecordedUpto
<1>8. RecordedCount = RecordedUpto[last]
  BY DEF RecordedCount, RecordedUpto, IsRecorded, ReadBefore
<1> DEFINE g == RecordedUpto
<1>9. \A k \in 0 .. last :
        g[k] = IF k = 0 THEN 0 ELSE g[k - 1] + L2Count(batches[k]) + Span(batches[k], ReadBefore(k))
  BY <1>7 DEF IsRecorded
<1>10. g = [k \in 0 .. last |-> g[k]]
  BY <1>7 DEF IsRecorded
<1> HIDE DEF g
<1>11. g[0] = 0 /\ \A k \in 1 .. last : g[k] = g[k - 1] + L2Count(batches[k]) + Span(batches[k], ReadBefore(k))
  BY <1>1, <1>9
<1> DEFINE Bad == {k \in 0 .. last : g[k] \notin Nat}
<1>12. Bad = {}
  <2>1. SUFFICES ASSUME Bad # {} PROVE FALSE
    OBVIOUS
  <2>2. Bad \in SUBSET Nat
    OBVIOUS
  <2>3. PICK k \in Bad : \A j \in Bad : k <= j
    <3> HIDE DEF Bad
    <3> QED
      BY <2>1, <2>2, LeastOf
  <2>4. k \in 0 .. last /\ g[k] \notin Nat
    OBVIOUS
  <2>5. k # 0
    BY <1>11, <2>4
  <2>6. k \in 1 .. last /\ k - 1 \in 0 .. last /\ k - 1 \notin Bad
    <3> HIDE DEF Bad
    <3> QED
      BY <1>1, <2>3, <2>4, <2>5
  <2>7. g[k - 1] \in Nat
    BY <2>6
  <2> QED
    BY <1>2, <1>11, <2>4, <2>6, <2>7
<1>13. g \in [0 .. last -> Nat]
  BY <1>10, <1>12
<1> QED
  BY <1>8, <1>11, <1>13 DEF g

Sent == Cardinality({k \in 1 .. Len(out) : out[k].msg.kind # "invalid"})

LEMMA SentYields ==
  ASSUME Typed, NEW msg \in Messages, NEW time \in Nat, Yields(msg, time)
  PROVE  Sent \in Nat /\ Sent' = Sent + (IF msg.kind = "invalid" THEN 0 ELSE 1)
<1> DEFINE S == {k \in 1 .. Len(out) : out[k].msg.kind # "invalid"}
           T == {k \in 1 .. Len(out') : out'[k].msg.kind # "invalid"}
           new == Len(out) + 1
<1>1. /\ Len(out) \in Nat /\ Len(out') = new
      /\ out'[new] = [msg |-> msg, time |-> time]
      /\ \A k \in 1 .. Len(out) : out'[k] = out[k]
  BY YieldsTyped
<1>2. out'[new].msg = msg /\ new \notin 1 .. Len(out) /\ 1 .. new = (1 .. Len(out)) \cup {new}
  BY <1>1
<1>3. IsFiniteSet(S) /\ new \notin S
  <2>1. IsFiniteSet(1 .. Len(out)) /\ S \subseteq 1 .. Len(out)
    BY <1>1, FS_Interval
  <2> QED
    BY <1>2, <2>1, FS_Subset
<1>4. T = IF msg.kind = "invalid" THEN S ELSE S \cup {new}
  BY <1>1, <1>2
<1> HIDE DEF S, T, new
<1>5. Cardinality(S) \in Nat /\ Cardinality(S \cup {new}) = Cardinality(S) + 1
  BY <1>3, FS_AddElement, FS_CardinalityType
<1>6. Sent = Cardinality(S) /\ Sent' = Cardinality(T)
  BY DEF Sent, S, T
<1> QED
  BY <1>4, <1>5, <1>6

\* So many messages but for the invalid ones have been popped.
CountIs ==
  start <= batches[1].after =>
    /\ status = "running" /\ pos <= Len(batches) =>
         Sent = RecordedUpto[pos - 1] + L2Upto(seq, Done) + (read - ReadBefore(pos))
    /\ status = "running" /\ pos > Len(batches) => Sent = RecordedUpto[pos - 1]
    /\ status = "whole" => Sent = RecordedUpto[Len(batches)]

\* One if the segment that a pop acts on holds an L2 message.
Gain == IF NextSegment < SegLen /\ seg(NextSegment).kind \in {"l2", "bad"} THEN 1 ELSE 0

LEMMA DoneGains ==
  ASSUME AtBatch, CursorIs
  PROVE  LET next == IF NextSegment < SegLen THEN NextSegment + 1 ELSE SegLen
         IN  /\ next \in 0 .. SegLen
             /\ L2Upto(seq, Done) \in Nat
             /\ L2Upto(seq, next) = L2Upto(seq, Done) + Gain
             /\ (\A i \in NextSegment + 1 .. SegLen - 1 : ~ Item(seg(i)))
                  => L2Count(seq) = L2Upto(seq, Done) + Gain
<1> DEFINE next == IF NextSegment < SegLen THEN NextSegment + 1 ELSE SegLen
<1>1. /\ Done \in 0 .. NextSegment /\ NextSegment \in 0 .. SegLen /\ SegLen \in Nat
      /\ \A j \in Done .. NextSegment - 1 : ~ Visible(seg(j))
  BY NothingPassed, NextSegmentIs DEF AtBatch
<1>2. \A i \in Done + 1 .. NextSegment : seq.segs[i].kind \notin {"l2", "bad"}
  <2>1. TAKE i \in Done + 1 .. NextSegment
  <2>2. i - 1 \in Done .. NextSegment - 1 /\ (i - 1) + 1 = i
    BY <1>1
  <2>3. ~ Visible(seg(i - 1)) /\ seg(i - 1) = seq.segs[i]
    BY <1>1, <2>2 DEF seg
  <2> QED
    BY <2>3 DEF Visible, Item
<1>3. L2Upto(seq, NextSegment) = L2Upto(seq, Done) /\ L2Upto(seq, Done) \in Nat
  <2>1. Done \in Nat /\ NextSegment \in Nat
    BY <1>1
  <2>2. L2Upto(seq, Done) \in Nat
    BY <2>1, L2UptoIs
  <2>3. L2Upto(seq, NextSegment) = L2Upto(seq, Done)
    BY <1>1, <1>2, <2>1, L2UptoIs
  <2> QED
    BY <2>2, <2>3
<1>4. L2Upto(seq, next) = L2Upto(seq, Done) + Gain
  <2>1. CASE NextSegment < SegLen
    <3>1. next = NextSegment + 1 /\ seg(NextSegment) = seq.segs[NextSegment + 1] /\ NextSegment \in Nat
      BY <1>1, <2>1 DEF seg
    <3>2. L2Upto(seq, NextSegment + 1) = L2Upto(seq, NextSegment)
            + (IF seq.segs[NextSegment + 1].kind \in {"l2", "bad"} THEN 1 ELSE 0)
      BY <3>1, L2UptoIs
    <3> QED
      BY <1>3, <2>1, <3>1, <3>2 DEF Gain
  <2>2. CASE ~ (NextSegment < SegLen)
    <3>1. next = NextSegment /\ Gain = 0
      BY <1>1, <2>2 DEF Gain
    <3> QED
      BY <1>3, <3>1
  <2> QED
    BY <2>1, <2>2
<1>5. ASSUME \A i \in NextSegment + 1 .. SegLen - 1 : ~ Item(seg(i))
      PROVE  L2Count(seq) = L2Upto(seq, Done) + Gain
  <2>1. L2Count(seq) = L2Upto(seq, SegLen)
    BY DEF L2Count, L2Upto, SegLen
  <2>2. next \in 0 .. SegLen /\ \A i \in next + 1 .. SegLen : seq.segs[i].kind \notin {"l2", "bad"}
    <3>1. next \in 0 .. SegLen
      BY <1>1
    <3>2. ASSUME NEW i \in next + 1 .. SegLen PROVE seq.segs[i].kind \notin {"l2", "bad"}
      <4>1. i - 1 \in NextSegment + 1 .. SegLen - 1 /\ (i - 1) + 1 = i
        BY <1>1, <3>2
      <4>2. ~ Item(seg(i - 1)) /\ seg(i - 1) = seq.segs[i]
        BY <1>5, <4>1 DEF seg
      <4> QED
        BY <4>2 DEF Item
    <3> QED
      BY <3>1, <3>2
  <2>3. L2Upto(seq, SegLen) = L2Upto(seq, next)
    <3> HIDE DEF next
    <3> QED
      BY <1>1, <2>2, L2UptoIs
  <2> HIDE DEF next
  <2> QED
    BY <1>4, <2>1, <2>3
<1>6. next \in 0 .. SegLen
  BY <1>1
<1> QED
  BY <1>3, <1>4, <1>5, <1>6

\* What a pop does to the count that its batch stands for.
LEMMA CountAdvances ==
  ASSUME AtBatch, ClockIs, CursorIs, ReadIs, start <= batches[1].after,
         NEW newRead \in Nat, newRead <= seq.after, Advance(newRead)
  PROVE  LET now == RecordedUpto[pos - 1] + L2Upto(seq, Done) + Gain + (newRead - ReadBefore(pos))
         IN  /\ pos' <= Len(batches) =>
                  RecordedUpto[pos' - 1] + L2Upto(seq, Done)' + (read' - ReadBefore(pos)') = now
             /\ pos' > Len(batches) => RecordedUpto[pos' - 1] = now
<1> DEFINE now == RecordedUpto[pos - 1] + L2Upto(seq, Done) + Gain + (newRead - ReadBefore(pos))
           next == IF NextSegment < SegLen THEN NextSegment + 1 ELSE SegLen
<1>1. /\ Len(batches) \in Nat /\ pos \in 1 .. Len(batches) /\ seq.after \in Nat /\ start \in Nat
      /\ batches' = batches /\ start' = start
      /\ \A k \in 1 .. Len(batches) : batches[k].after \in Nat
      /\ \A j, k \in 1 .. Len(batches) : j <= k => batches[j].after <= batches[k].after
  BY WindowIs DEF AtBatch, Typed, Advance
<1>2. /\ L2Upto(seq, Done) \in Nat
      /\ L2Upto(seq, next) = L2Upto(seq, Done) + Gain
      /\ (\A i \in NextSegment + 1 .. SegLen - 1 : ~ Item(seg(i))) => L2Count(seq) = L2Upto(seq, Done) + Gain
  <2> HIDE DEF next
  <2> QED
    BY DoneGains DEF next
<1>3. Gain \in Nat
  BY DEF Gain
<1>4. /\ \A k \in 0 .. Len(batches) : RecordedUpto[k] \in Nat
      /\ \A k \in 1 .. Len(batches) :
           RecordedUpto[k] = RecordedUpto[k - 1] + L2Count(batches[k]) + Span(batches[k], ReadBefore(k))
  BY RecordedUptoIs DEF AtBatch
<1>5. ReadBefore(pos) \in Nat /\ ReadBefore(pos) <= seq.after
  <2>1. pos # 1 => pos - 1 \in 1 .. Len(batches) /\ pos - 1 <= pos
    BY <1>1
  <2>2. pos = 1 => seq = batches[1]
    BY DEF seq
  <2> QED
    BY <1>1, <2>1, <2>2 DEF ReadBefore, seq
<1>6. Span(seq, ReadBefore(pos)) = seq.after - ReadBefore(pos)
  BY <1>1, <1>5 DEF Span
<1>7. RecordedUpto[pos - 1] \in Nat
  <2>1. pos - 1 \in 0 .. Len(batches)
    BY <1>1
  <2> QED
    BY <1>4, <2>1
<1>8. read' = newRead
  BY AdvanceReads
<1>9. CASE is_cached_segment_last(newRead)
  <2>1. pos' = pos + 1 /\ Done' = 0
    BY <1>9, AdvanceDone
  <2>2. newRead = seq.after
    BY <1>1, <1>9 DEF is_cached_segment_last
  <2>3. L2Count(seq) = L2Upto(seq, Done) + Gain
    BY <1>2, <1>9 DEF is_cached_segment_last
  <2>4. RecordedUpto[pos] = now
    <3>1. RecordedUpto[pos] = RecordedUpto[pos - 1] + L2Count(seq) + Span(seq, ReadBefore(pos))
      BY <1>1, <1>4 DEF seq
    <3> QED
      BY <1>1, <1>2, <1>3, <1>5, <1>6, <1>7, <2>2, <2>3, <3>1
  <2>5. pos' - 1 = pos
    BY <1>1, <2>1
  <2>6. RecordedUpto[pos] \in Nat
    BY <1>1, <1>4
  <2>7. pos' <= Len(batches) => L2Upto(seq, Done)' = 0
    BY <2>1, L2UptoIs
  <2>8. ReadBefore(pos)' = seq.after
    <3>1. pos + 1 # 1 /\ (pos + 1) - 1 = pos
      BY <1>1
    <3> QED
      BY <1>1, <2>1, <3>1 DEF ReadBefore, seq
  <2> QED
    BY <1>1, <1>8, <2>2, <2>4, <2>5, <2>6, <2>7, <2>8
<1>10. CASE ~ is_cached_segment_last(newRead)
  <2>1. pos' = pos /\ Done' = next
    BY <1>10, AdvanceDone
  <2>2. seq' = seq /\ ReadBefore(pos)' = ReadBefore(pos)
    BY <1>1, <2>1 DEF seq, ReadBefore
  <2>3. L2Upto(seq, Done)' = L2Upto(seq, Done) + Gain
    <3>1. L2Upto(seq, Done)' = L2Upto(seq, next)
      BY <2>1, <2>2 DEF L2Upto
    <3> QED
      BY <1>2, <3>1
  <2> QED
    BY <1>1, <1>2, <1>3, <1>5, <1>7, <1>8, <2>1, <2>2, <2>3
<1> QED
  BY <1>9, <1>10

CountInv == DelayedInv /\ CursorIs /\ CountIs

LEMMA NextCountInv == CountInv /\ [Next]_vars => CountInv'
<1> SUFFICES ASSUME CountInv, [Next]_vars PROVE CountInv'
  OBVIOUS
<1>0. Typed /\ ClockIs /\ ReadIs /\ CursorIs /\ CountIs /\ DelayedInv'
  BY NextDelayedInv DEF CountInv, DelayedInv
<1>1. batches' = batches /\ start' = start
  BY DEF Next, vars, PopL2, PopDelayed, PopInvalid, PopError, PopUnknown, PopEnd, Advance
<1>2. RecordedUpto' = RecordedUpto
  BY <1>1 DEF RecordedUpto, IsRecorded, ReadBefore
<1>3. CASE UNCHANGED <<batches, known, start, cursor, out>>
           /\ (status' = status \/ (status = "running" /\ status' = "whole" /\ pos > Len(batches)))
  <2>1. CursorIs'
    BY <1>0, <1>3 DEF cursor, CursorIs, seq, seg, SegLen, Visible, Item
  <2>2. /\ Sent' = Sent /\ pos' = pos /\ read' = read /\ Done' = Done /\ seq' = seq
        /\ ReadBefore(pos)' = ReadBefore(pos) /\ L2Upto(seq, Done)' = L2Upto(seq, Done)
    BY <1>3 DEF cursor, Sent, Done, seq, SegLen, ReadBefore, L2Upto
  <2>3. pos > Len(batches) => pos - 1 = Len(batches)
    BY <1>0, WindowIs DEF Typed
  <2>4. CountIs'
    BY <1>0, <1>1, <1>2, <1>3, <2>2, <2>3 DEF CountIs
  <2> QED
    BY <1>0, <2>1, <2>4 DEF CountInv
<1>4. ASSUME AtBatch, NEW newRead \in Nat, Advance(newRead) PROVE CursorIs'
  BY <1>0, <1>4, AdvanceDone
<1>5. CASE AtBatch /\ Advance(read) /\ out' = out /\ status' \in {"error", "stopped"}
  <2>1. read \in Nat
    BY <1>5 DEF AtBatch, Typed
  <2> QED
    BY <1>0, <1>4, <1>5, <2>1 DEF CountInv, CountIs
<1>6. ASSUME AtBatch, status = "running", NEW newRead \in Nat, Advance(newRead),
             NEW msg \in Messages, NEW time \in Nat, Yields(msg, time),
             start <= batches[1].after =>
               /\ newRead <= seq.after
               /\ (IF msg.kind = "invalid" THEN 0 ELSE 1) = Gain + (newRead - read)
      PROVE  CountInv'
  <2>1. SUFFICES ASSUME start <= batches[1].after PROVE CountIs'
    BY <1>0, <1>1, <1>4, <1>6 DEF CountInv, CountIs
  <2>2. Sent \in Nat /\ Sent' = Sent + (IF msg.kind = "invalid" THEN 0 ELSE 1)
    BY <1>0, <1>6, SentYields
  <2> DEFINE now == RecordedUpto[pos - 1] + L2Upto(seq, Done) + Gain + (newRead - ReadBefore(pos))
  <2>3. /\ pos' <= Len(batches) =>
             RecordedUpto[pos' - 1] + L2Upto(seq, Done)' + (read' - ReadBefore(pos)') = now
        /\ pos' > Len(batches) => RecordedUpto[pos' - 1] = now
    BY <1>0, <1>6, <2>1, CountAdvances
  <2>4. Sent' = now
    <3>1. Sent = RecordedUpto[pos - 1] + L2Upto(seq, Done) + (read - ReadBefore(pos))
      BY <1>0, <1>6, <2>1 DEF CountIs, AtBatch
    <3>2. RecordedUpto[pos - 1] \in Nat /\ L2Upto(seq, Done) \in Nat /\ Gain \in Nat /\ read \in Nat
          /\ ReadBefore(pos) \in Nat
      <4>1. pos - 1 \in 0 .. Len(batches) /\ pos \in 1 .. Len(batches) /\ start \in Nat /\ read \in Nat
            /\ \A k \in 1 .. Len(batches) : batches[k].after \in Nat
        BY SMTT(30), <1>6, WindowIs DEF AtBatch, Typed
      <4>2. RecordedUpto[pos - 1] \in Nat
        BY <1>0, <4>1, RecordedUptoIs
      <4>3. L2Upto(seq, Done) \in Nat
        BY <1>0, <1>6, DoneGains
      <4>4. ReadBefore(pos) \in Nat
        <5>1. pos # 1 => pos - 1 \in 1 .. Len(batches)
          BY <4>1, <1>0, WindowIs DEF Typed
        <5> QED
          BY <4>1, <5>1 DEF ReadBefore
      <4> QED
        BY <4>1, <4>2, <4>3, <4>4 DEF Gain
    <3> QED
      BY <1>6, <2>1, <2>2, <3>1, <3>2
  <2>5. status' = "running"
    BY <1>6 DEF Yields
  <2> HIDE DEF now
  <2> QED
    BY <1>1, <1>2, <2>3, <2>4, <2>5 DEF CountIs
<1>7. CASE Next
  <2>1. AtBatch => /\ read \in Nat /\ read + 1 \in Nat /\ seq.after \in Nat /\ (read + 1) - read = 1
                   /\ read - read = 0
                   /\ start <= batches[1].after => read <= seq.after
    BY SMTT(30), <1>0 DEF AtBatch, Typed, ReadIs
  <2>2. (Kind = "l2" => Gain = 1) /\ (Kind = "delayed" => Gain = 0)
    BY DEF Kind, Gain
  <2> DEFINE m1 == [kind |-> "l2", id |-> <<seq.id, NextSegment + 1>>, read |-> read]
             m2 == [kind |-> "delayed", id |-> <<read>>, read |-> read + 1]
             m3 == [kind |-> "invalid", id |-> <<seq.id>>, read |-> seq.after]
             t1 == Clamp(NextClock, seq.min, seq.max)
  <2>3. AtBatch => m1 \in Messages /\ m2 \in Messages /\ m3 \in Messages /\ t1 \in Nat /\ seq.max \in Nat
    BY <1>0, YieldedTyped
  <2>4. m1.kind = "l2" /\ m2.kind = "delayed" /\ m3.kind = "invalid"
    OBVIOUS
  <2>5. \/ /\ UNCHANGED <<batches, known, start, cursor, out>>
           /\ status = "running" /\ status' = "whole" /\ pos > Len(batches)
        \/ /\ AtBatch /\ status = "running"
           /\ \/ Kind = "l2" /\ Advance(read) /\ Yields(m1, t1)
              \/ Kind = "delayed" /\ read < seq.after /\ Advance(read + 1) /\ Yields(m2, 0)
              \/ Kind = "delayed" /\ Advance(read) /\ Yields(m3, seq.max)
              \/ Advance(read) /\ out' = out /\ status' \in {"error", "stopped"}
    BY <1>0, <1>7, Steps
  <2> HIDE DEF m1, m2, m3, t1
  <2>6. CASE AtBatch /\ status = "running" /\ Kind = "l2" /\ Advance(read) /\ Yields(m1, t1)
    <3>1. (IF m1.kind = "invalid" THEN 0 ELSE 1) = Gain + (read - read)
      BY <2>1, <2>2, <2>4, <2>6
    <3> QED
      BY <1>6, <2>1, <2>3, <2>6, <3>1
  <2>7. CASE AtBatch /\ status = "running" /\ Kind = "delayed" /\ read < seq.after
             /\ Advance(read + 1) /\ Yields(m2, 0)
    <3>1. (IF m2.kind = "invalid" THEN 0 ELSE 1) = Gain + ((read + 1) - read) /\ read + 1 <= seq.after
      BY <2>1, <2>2, <2>4, <2>7
    <3> QED
      BY <1>6, <2>1, <2>3, <2>7, <3>1
  <2>8. CASE AtBatch /\ status = "running" /\ Kind = "delayed" /\ Advance(read) /\ Yields(m3, seq.max)
    <3>1. (IF m3.kind = "invalid" THEN 0 ELSE 1) = Gain + (read - read)
      BY <2>1, <2>2, <2>4, <2>8
    <3> QED
      BY <1>6, <2>1, <2>3, <2>8, <3>1
  <2> QED
    BY <1>3, <1>5, <2>5, <2>6, <2>7, <2>8
<1> QED
  BY <1>3, <1>7 DEF vars

LEMMA InitCountInv == Init => CountInv
<1> SUFFICES ASSUME Init PROVE CountInv
  OBVIOUS
<1>1. Typed /\ ClockIs
  BY InitTyped
<1>2. ReadIs /\ DelayedStepByStep /\ CursorIs
  BY DEF Init, ReadIs, DelayedStepByStep, LastRead, seq, CursorIs
<1>3. CountIs
  <2>1. {k \in 1 .. Len(out) : out[k].msg.kind # "invalid"} = {}
    BY DEF Init
  <2>2. Sent = 0
    BY <2>1, FS_EmptySet DEF Sent
  <2>3. RecordedUpto[0] = 0
    BY <1>1, RecordedUptoIs
  <2>4. L2Upto(seq, Done) = 0
    BY L2UptoIs DEF Init, Done
  <2>5. pos - 1 = 0 /\ read - ReadBefore(pos) = 0 /\ Len(batches) >= 1 /\ Len(batches) \in Nat
    BY <1>1, WindowIs DEF Init, ReadBefore, Typed
  <2> QED
    BY <2>2, <2>3, <2>4, <2>5 DEF CountIs, Init
<1> QED
  BY <1>1, <1>2, <1>3 DEF CountInv, DelayedInv

\* When a window was popped to its end, the count that add_sequencer_batches records
\* for it is the number of its messages, the invalid ones left out, for every window
\* that goes on where the one before ended.
THEOREM CountsAreRecorded == Spec => []CountIsRecorded
<1>1. Init => CountInv
  BY InitCountInv
<1>2. CountInv /\ [Next]_vars => CountInv'
  BY NextCountInv
<1>3. CountInv => CountIsRecorded
  <2> SUFFICES ASSUME CountInv PROVE CountIsRecorded
    OBVIOUS
  <2>1. CountIs /\ RecordedCount = RecordedUpto[Len(batches)]
    BY RecordedUptoIs DEF CountInv, DelayedInv
  <2> QED
    BY <2>1 DEF CountIs, CountIsRecorded, Sent
<1> QED
  BY <1>1, <1>2, <1>3, PTL DEF Spec

(***************************************************************************)
(* Places among the segments of a batch.                                   *)
(***************************************************************************)

\* The visible segments of b, the ones with a message, and the delayed ones.
VisibleOf(b) == {i \in 1 .. Len(b.segs) : Visible(b.segs[i])}
ItemsOf(b) == {i \in 1 .. Len(b.segs) : Item(b.segs[i])}
DelayedOf(b) == {i \in 1 .. Len(b.segs) : b.segs[i].kind = "delayed"}

LEMMA DelayedBeforeIs ==
  ASSUME NEW b \in Batches, NEW n \in 0 .. Len(b.segs)
  PROVE  DelayedBefore(b, n + 1) = Upto(DelayedOf(b), n)
<1>1. Len(b.segs) \in Nat
  BY DEF Batches
<1>2. {j \in 1 .. (n + 1) - 1 : b.segs[j].kind = "delayed"} = {i \in 1 .. n : i \in DelayedOf(b)}
  BY <1>1 DEF DelayedOf
<1> QED
  BY <1>2 DEF DelayedBefore, Upto

\* VisibleAt lists the visible segments: the one at i comes as the k-th when it is the
\* k-th up to i.
LEMMA VisibleAtIs ==
  ASSUME NEW b \in Batches
  PROVE  /\ VisibleAt(b) \in Seq(1 .. Len(b.segs))
         /\ Len(VisibleAt(b)) = Upto(VisibleOf(b), Len(b.segs))
         /\ \A k \in 1 .. Len(VisibleAt(b)) :
              /\ VisibleAt(b)[k] \in VisibleOf(b)
              /\ Upto(VisibleOf(b), VisibleAt(b)[k]) = k
         /\ \A i \in VisibleOf(b) : /\ Upto(VisibleOf(b), i) \in 1 .. Len(VisibleAt(b))
                                    /\ VisibleAt(b)[Upto(VisibleOf(b), i)] = i
<1> DEFINE P == VisibleOf(b)
           N == Len(b.segs)
           at(k) == CHOOSE i \in P : Cardinality({j \in P : j <= i}) = k
<1>1. N \in Nat /\ P \subseteq 1 .. N /\ \A i \in P : i \in Nat /\ i \in 1 .. N
  BY DEF Batches, VisibleOf
<1>2. VisibleAt(b) = [k \in 1 .. Cardinality(P) |-> at(k)]
  BY DEF VisibleAt, VisibleOf
<1> HIDE DEF P, N
<1>3. Cardinality(P) = Upto(P, N) /\ Upto(P, N) \in Nat
  <2>1. {i \in 1 .. N : i \in P} = P
    BY <1>1
  <2> QED
    BY <1>1, <2>1, UptoIs DEF Upto
<1>4. ASSUME NEW i \in P PROVE Cardinality({j \in P : j <= i}) = Upto(P, i)
  <2>1. {j \in P : j <= i} = {j \in 1 .. i : j \in P}
    <3>1. \A j \in P : j <= i <=> j \in 1 .. i
      BY <1>1, <1>4
    <3> QED
      BY <1>1, <1>4, <3>1
  <2> QED
    BY <2>1 DEF Upto
<1>5. ASSUME NEW k \in 1 .. Upto(P, N)
      PROVE  at(k) \in P /\ Upto(P, at(k)) = k
  <2>1. \E i \in 1 .. N : i \in P /\ Upto(P, i) = k
    BY <1>1, UptoReaches
  <2>2. \E i \in P : Cardinality({j \in P : j <= i}) = k
    BY <1>4, <2>1
  <2>3. at(k) \in P /\ Cardinality({j \in P : j <= at(k)}) = k
    BY <2>2
  <2> QED
    BY <1>4, <2>3
<1> HIDE DEF at
<1>6. ASSUME NEW i \in P, NEW j \in P, i < j PROVE Upto(P, i) < Upto(P, j)
  <2>1. i \in 0 .. j /\ j \in Nat /\ j \in i + 1 .. j
    BY <1>1, <1>6
  <2> QED
    BY <1>6, <2>1, UptoIs
<1>7. ASSUME NEW i \in P PROVE Upto(P, i) \in 1 .. Upto(P, N) /\ at(Upto(P, i)) = i
  <2>1. i \in 0 .. N /\ i \in Nat /\ i - 1 \in Nat /\ i - 1 \in 0 .. i /\ (i - 1) + 1 = i
    BY <1>1, <1>7
  <2>2. Upto(P, i) \in Nat /\ Upto(P, i) <= Upto(P, N) /\ Upto(P, i - 1) \in Nat
    BY <1>1, <2>1, UptoIs
  <2>3. Upto(P, i) = Upto(P, i - 1) + 1
    BY <1>7, <2>1, UptoIs
  <2>4. Upto(P, i) \in 1 .. Upto(P, N)
    BY <1>3, <2>2, <2>3
  <2> DEFINE a == at(Upto(P, i))
  <2>5. a \in P /\ Upto(P, a) = Upto(P, i)
    BY <1>5, <2>4
  <2> HIDE DEF a
  <2>6. a \in Int /\ i \in Int
    BY <1>1, <1>7, <2>5
  <2>7. a = i
    BY <1>6, <1>7, <2>2, <2>5, <2>6
  <2> QED
    BY <2>4, <2>7 DEF a
<1>8. VisibleAt(b) \in Seq(1 .. N) /\ Len(VisibleAt(b)) = Upto(P, N)
  <2>1. \A k \in 1 .. Upto(P, N) : at(k) \in 1 .. N
    BY <1>1, <1>5
  <2>2. VisibleAt(b) \in [1 .. Upto(P, N) -> 1 .. N]
    BY <1>2, <1>3, <2>1
  <2> QED
    BY <1>3, <2>2, FunctionIsSeq
<1>9. \A k \in 1 .. Upto(P, N) : VisibleAt(b)[k] = at(k)
  BY <1>2, <1>3
<1> QED
  BY <1>5, <1>7, <1>8, <1>9 DEF P, N

(***************************************************************************)
(* The segments visited.                                                   *)
(***************************************************************************)

\* The delayed messages that are left for the end of the batch.
LeftOver(b, r) == Span(b, r) - Upto(DelayedOf(b), Len(b.segs))

LEMMA CountsAreNat ==
  ASSUME NEW b \in Batches, NEW r \in Nat
  PROVE  /\ Len(b.segs) \in Nat /\ b.segs \in Seq(Segments)
         /\ Span(b, r) \in Nat
         /\ Upto(DelayedOf(b), Len(b.segs)) \in Nat
         /\ Upto(VisibleOf(b), Len(b.segs)) \in Nat
         /\ LeftOver(b, r) \in Int
<1>1. Len(b.segs) \in Nat /\ b.segs \in Seq(Segments) /\ b.after \in Nat
  BY DEF Batches
<1>2. Span(b, r) \in Nat
  BY <1>1 DEF Span
<1>3. Upto(DelayedOf(b), Len(b.segs)) \in Nat /\ Upto(VisibleOf(b), Len(b.segs)) \in Nat
  BY <1>1, UptoIs
<1> QED
  BY <1>1, <1>2, <1>3 DEF LeftOver

LEMMA TrimmedIs ==
  ASSUME NEW b \in Batches, NEW vs, vs = VisibleAt(b), vs # <<>>
  PROVE  \E m \in 1 .. Len(vs) :
           /\ Trimmed(b, vs) = SubSeq(vs, 1, m)
           /\ \/ m = 1 /\ ItemsOf(b) = {}
              \/ vs[m] \in ItemsOf(b) /\ \A j \in m + 1 .. Len(vs) : vs[j] \notin ItemsOf(b)
<1> DEFINE I == {k \in 1 .. Len(vs) : Item(b.segs[vs[k]])}
<1>1. /\ vs \in Seq(1 .. Len(b.segs)) /\ Len(vs) \in Nat /\ Len(vs) >= 1 /\ Len(b.segs) \in Nat
      /\ \A k \in 1 .. Len(vs) : vs[k] \in VisibleOf(b)
      /\ \A i \in VisibleOf(b) : \E k \in 1 .. Len(vs) : vs[k] = i
  <2>1. vs \in Seq(1 .. Len(b.segs)) /\ \A k \in 1 .. Len(vs) : vs[k] \in VisibleOf(b)
    BY VisibleAtIs
  <2>2. \A i \in VisibleOf(b) : \E k \in 1 .. Len(vs) : vs[k] = i
    BY VisibleAtIs
  <2>3. Len(vs) \in Nat /\ Len(vs) >= 1
    BY <2>1
  <2> QED
    BY <2>1, <2>2, <2>3, CountsAreNat
<1>2. \A k \in 1 .. Len(vs) : Item(b.segs[vs[k]]) <=> vs[k] \in ItemsOf(b)
  BY <1>1 DEF ItemsOf
<1>3. Trimmed(b, vs) = SubSeq(vs, 1, IF I = {} THEN 1 ELSE CHOOSE k \in I : \A j \in I : j <= k)
  BY DEF Trimmed
<1>4. CASE I = {}
  <2>1. ItemsOf(b) = {}
    <3>1. ASSUME NEW i \in ItemsOf(b) PROVE FALSE
      <4>1. i \in VisibleOf(b)
        BY DEF ItemsOf, VisibleOf, Visible
      <4>2. PICK k \in 1 .. Len(vs) : vs[k] = i
        BY <1>1, <4>1
      <4>3. k \in I
        BY <1>2, <3>1, <4>2
      <4> QED
        BY <1>4, <4>3
    <3> QED
      BY <3>1
  <2>2. Trimmed(b, vs) = SubSeq(vs, 1, 1) /\ 1 \in 1 .. Len(vs)
    BY <1>1, <1>3, <1>4
  <2> HIDE DEF I
  <2> QED
    BY <2>1, <2>2
<1>5. CASE I # {}
  <2>1. \E k \in I : \A j \in I : j <= k
    <3>1. I \in SUBSET (0 .. Len(vs))
      BY <1>1
    <3> HIDE DEF I
    <3> QED
      BY <1>1, <1>5, <3>1, GreatestOf
  <2> DEFINE m == CHOOSE k \in I : \A j \in I : j <= k
  <2>2. m \in I /\ \A j \in I : j <= m
    <3> HIDE DEF I
    <3> QED
      BY <2>1
  <2> HIDE DEF m
  <2>3. m \in 1 .. Len(vs) /\ vs[m] \in ItemsOf(b)
    BY <1>2, <2>2
  <2>4. ASSUME NEW j \in m + 1 .. Len(vs), vs[j] \in ItemsOf(b) PROVE FALSE
    <3>1. j \in 1 .. Len(vs)
      BY <1>1, <2>3
    <3>2. j \in I
      BY <1>2, <2>4, <3>1
    <3> QED
      BY <1>1, <2>2, <2>3, <2>4, <3>2
  <2>5. Trimmed(b, vs) = SubSeq(vs, 1, m)
    BY <1>3, <1>5 DEF m
  <2> HIDE DEF I
  <2> QED
    BY <2>3, <2>4, <2>5
<1> QED
  BY <1>4, <1>5

LEMMA SlotsIs ==
  ASSUME NEW b \in Batches, NEW r \in Nat, NEW vs, vs = VisibleAt(b), NEW left, left = LeftOver(b, r),
         NEW sl, sl = Slots(b, r)
  PROVE  \/ /\ left > 0
            /\ Len(sl) = Len(vs) + left
            /\ \A k \in 1 .. Len(sl) : sl[k] = IF k <= Len(vs) THEN vs[k] ELSE 0
         \/ left <= 0 /\ vs = <<>> /\ sl = <<0>>
         \/ /\ left <= 0 /\ vs # <<>>
            /\ Len(sl) \in 1 .. Len(vs)
            /\ \A k \in 1 .. Len(sl) : sl[k] = vs[k]
            /\ \/ Len(sl) = 1 /\ ItemsOf(b) = {}
               \/ vs[Len(sl)] \in ItemsOf(b) /\ \A j \in Len(sl) + 1 .. Len(vs) : vs[j] \notin ItemsOf(b)
<1>1. vs \in Seq(1 .. Len(b.segs)) /\ left \in Int /\ Len(b.segs) \in Nat /\ Len(vs) \in Nat
  <2>1. vs \in Seq(1 .. Len(b.segs))
    BY VisibleAtIs
  <2>2. left \in Int /\ Len(b.segs) \in Nat
    BY CountsAreNat
  <2> QED
    BY <2>1, <2>2
<1>2. left = Span(b, r) - DelayedBefore(b, Len(b.segs) + 1)
  <2>1. Len(b.segs) \in 0 .. Len(b.segs)
    BY <1>1
  <2>2. DelayedBefore(b, Len(b.segs) + 1) = Upto(DelayedOf(b), Len(b.segs))
    BY <2>1, DelayedBeforeIs
  <2> QED
    BY <2>2 DEF LeftOver
<1>3. sl = IF left > 0 THEN vs \o [k \in 1 .. left |-> 0]
           ELSE IF vs = <<>> THEN <<0>> ELSE Trimmed(b, vs)
  BY <1>2 DEF Slots
<1>4. CASE left > 0
  <2> DEFINE z == [k \in 1 .. left |-> 0]
  <2>1. z \in Seq({0}) /\ Len(z) = left /\ \A k \in 1 .. left : z[k] = 0
    BY <1>1, <1>4
  <2>2. sl = vs \o z
    BY <1>3, <1>4
  <2> HIDE DEF z
  <2>3. vs \in Seq(Nat) /\ z \in Seq(Nat)
    BY <1>1, <2>1
  <2>4. Len(sl) = Len(vs) + left /\ Len(vs) \in Nat
        /\ \A k \in 1 .. Len(sl) : sl[k] = IF k <= Len(vs) THEN vs[k] ELSE z[k - Len(vs)]
    BY ONLY <1>1, <2>1, <2>2, <2>3, ConcatAt
  <2>5. \A k \in 1 .. Len(sl) : k <= Len(vs) \/ z[k - Len(vs)] = 0
    BY <1>1, <2>1, <2>4
  <2> QED
    BY <1>4, <2>4, <2>5
<1>5. CASE ~ (left > 0) /\ vs = <<>>
  BY <1>1, <1>3, <1>5
<1>6. CASE ~ (left > 0) /\ vs # <<>>
  <2>1. PICK m \in 1 .. Len(vs) :
           /\ Trimmed(b, vs) = SubSeq(vs, 1, m)
           /\ \/ m = 1 /\ ItemsOf(b) = {}
              \/ vs[m] \in ItemsOf(b) /\ \A j \in m + 1 .. Len(vs) : vs[j] \notin ItemsOf(b)
    BY <1>6, TrimmedIs
  <2>2. Len(sl) = m /\ \A k \in 1 .. m : sl[k] = vs[k]
    BY <1>1, <1>3, <1>6, <2>1
  <2> QED
    BY <1>1, <1>6, <2>1, <2>2
<1> QED
  BY <1>4, <1>5, <1>6

\* The first done segments of b are behind the cursor and it goes on after the first
\* next; it has popped extra messages past the end.
GoesOn(b, done, next, extra) ==
  /\ next \in 0 .. Len(b.segs) /\ done \in 0 .. next /\ extra \in Nat
  /\ \A i \in done + 1 .. next : i \notin VisibleOf(b)
  /\ next < Len(b.segs) => next + 1 \in VisibleOf(b)
  /\ extra > 0 => done = Len(b.segs)

LEMMA GoesOnIs ==
  ASSUME NEW b \in Batches, NEW done, NEW next, NEW extra, GoesOn(b, done, next, extra)
  PROVE  /\ done \in Nat /\ next \in Nat /\ Len(b.segs) \in Nat /\ extra \in Nat
         /\ done <= next /\ next <= Len(b.segs)
         /\ Upto(VisibleOf(b), done) \in Nat /\ Upto(DelayedOf(b), done) \in Nat
         /\ next < Len(b.segs) =>
              /\ extra = 0
              /\ Upto(VisibleOf(b), next + 1) = Upto(VisibleOf(b), done) + 1
              /\ Upto(DelayedOf(b), next + 1)
                   = Upto(DelayedOf(b), done) + (IF next + 1 \in DelayedOf(b) THEN 1 ELSE 0)
         /\ next = Len(b.segs) =>
              /\ Upto(VisibleOf(b), Len(b.segs)) = Upto(VisibleOf(b), done)
              /\ Upto(DelayedOf(b), Len(b.segs)) = Upto(DelayedOf(b), done)
<1> DEFINE P == VisibleOf(b)
           D == DelayedOf(b)
           N == Len(b.segs)
<1>1. N \in Nat
  BY CountsAreNat
<1>2. /\ next \in 0 .. N /\ done \in 0 .. next /\ extra \in Nat
      /\ \A i \in done + 1 .. next : i \notin P
      /\ next < N => next + 1 \in P
      /\ extra > 0 => done = N
  BY DEF GoesOn
<1>3. D \subseteq P
  BY DEF DelayedOf, VisibleOf, Visible, Item
<1> HIDE DEF P, D, N
<1>4. next \in Nat /\ done \in Nat /\ done \in 0 .. next
  BY <1>1, <1>2
<1>5. Upto(P, next) = Upto(P, done) /\ Upto(P, done) \in Nat
  BY <1>2, <1>4, UptoIs
<1>6. Upto(D, next) = Upto(D, done) /\ Upto(D, done) \in Nat
  <2>1. \A i \in done + 1 .. next : i \notin D
    BY <1>2, <1>3
  <2> QED
    BY <1>4, <2>1, UptoIs
<1>7. /\ Upto(P, next + 1) = Upto(P, next) + (IF next + 1 \in P THEN 1 ELSE 0)
      /\ Upto(D, next + 1) = Upto(D, next) + (IF next + 1 \in D THEN 1 ELSE 0)
  BY <1>4, UptoIs
<1>8. next < N => extra = 0
  BY <1>1, <1>2, <1>4
<1> QED
  BY <1>1, <1>2, <1>4, <1>5, <1>6, <1>7, <1>8 DEF P, D, N

\* The slot that a pop takes next.
LEMMA NextSlot ==
  ASSUME NEW b \in Batches, NEW r \in Nat, NEW done, NEW next, NEW extra,
         GoesOn(b, done, next, extra),
         NEW w \in Nat, w = Upto(VisibleOf(b), done) + extra, w < Len(Slots(b, r))
  PROVE  /\ Slots(b, r)[w + 1] = IF next < Len(b.segs) THEN next + 1 ELSE 0
         /\ SlotsBefore(b, Slots(b, r), w + 1) = Upto(DelayedOf(b), done) + extra
<1> DEFINE P == VisibleOf(b)
           D == DelayedOf(b)
           N == Len(b.segs)
           vs == VisibleAt(b)
           sl == Slots(b, r)
           left == LeftOver(b, r)
<1>1. /\ done \in Nat /\ next \in Nat /\ N \in Nat /\ extra \in Nat
      /\ Upto(P, done) \in Nat /\ Upto(D, done) \in Nat
      /\ done <= next /\ next <= N
      /\ next < N => extra = 0 /\ Upto(P, next + 1) = Upto(P, done) + 1
      /\ next = N => Upto(P, N) = Upto(P, done) /\ Upto(D, N) = Upto(D, done)
  BY GoesOnIs
<1>2. Len(vs) = Upto(P, N) /\ Len(vs) \in Nat /\ \A k \in 1 .. Len(vs) : vs[k] # 0
  <2>1. Upto(P, N) \in Nat /\ N \in Nat
    BY CountsAreNat
  <2>2. vs \in Seq(1 .. N) /\ Len(vs) = Upto(P, N)
    BY VisibleAtIs
  <2> HIDE DEF vs, N
  <2>3. \A k \in 1 .. Len(vs) : vs[k] \in 1 .. N
    BY <2>2, ElementsOf
  <2> QED
    BY <2>1, <2>2, <2>3
<1>12. \A i \in P : Upto(P, i) \in 1 .. Len(vs) /\ vs[Upto(P, i)] = i
  BY VisibleAtIs
<1>3. next < N => next + 1 \in P /\ \A i \in done + 1 .. next : i \notin P
  BY DEF GoesOn
<1>4. \/ /\ left > 0
         /\ Len(sl) = Len(vs) + left
         /\ \A k \in 1 .. Len(sl) : sl[k] = IF k <= Len(vs) THEN vs[k] ELSE 0
      \/ left <= 0 /\ vs = <<>> /\ sl = <<0>>
      \/ /\ left <= 0 /\ vs # <<>>
         /\ Len(sl) \in 1 .. Len(vs)
         /\ \A k \in 1 .. Len(sl) : sl[k] = vs[k]
  BY SlotsIs
<1>5. left \in Int
  BY CountsAreNat
<1>6. w < Len(sl) /\ w \in Nat /\ w = Upto(P, done) + extra
  OBVIOUS
<1>7. next < N =>
        DelayedBefore(b, next + 1) = Upto(D, done)
  <2>1. SUFFICES ASSUME next < N PROVE DelayedBefore(b, next + 1) = Upto(D, done)
    OBVIOUS
  <2>2. next \in 0 .. Len(b.segs) /\ next \in Nat /\ done \in 0 .. next
    <3>1. next \in Nat /\ done \in Nat /\ N \in Nat /\ done <= next /\ next <= N
      BY <1>1
    <3> QED
      BY <3>1
  <2>3. DelayedBefore(b, next + 1) = Upto(D, next)
    BY <2>2, DelayedBeforeIs
  <2>4. \A i \in done + 1 .. next : i \notin D
    BY DEF GoesOn, VisibleOf, DelayedOf, Visible, Item
  <2>5. Upto(D, next) = Upto(D, done)
    <3> HIDE DEF D
    <3> QED
      BY ONLY <2>2, <2>4, UptoIs
  <2> QED
    BY <2>3, <2>5
<1>8. DelayedBefore(b, N + 1) = Upto(D, N)
  <2>1. N \in 0 .. Len(b.segs)
    BY <1>1
  <2> QED
    BY <2>1, DelayedBeforeIs
<1>9. SlotsBefore(b, sl, w + 1) = IF sl[w + 1] # 0 THEN DelayedBefore(b, sl[w + 1])
                                  ELSE DelayedBefore(b, N + 1) + Cardinality({j \in 1 .. w : sl[j] = 0})
  <2>1. (w + 1) - 1 = w
    OBVIOUS
  <2> QED
    BY <2>1 DEF SlotsBefore
<1> HIDE DEF P, D, N, vs, sl, left
<1>10. CASE next < N
  <2>1. w + 1 = Upto(P, next + 1) /\ vs[w + 1] = next + 1 /\ w + 1 \in 1 .. Len(vs) /\ extra = 0
    BY <1>1, <1>12, <1>3, <1>6, <1>10
  <2>2. sl[w + 1] = next + 1
    <3>1. w + 1 \in 1 .. Len(sl)
      BY <1>4, <1>5, <1>6, <1>2
    <3>2. vs # <<>>
      BY <2>1
    <3> QED
      BY <1>4, <2>1, <3>1, <3>2
  <2>3. SlotsBefore(b, sl, w + 1) = Upto(D, done)
    BY <1>1, <1>7, <1>9, <1>10, <2>2
  <2> QED
    BY <1>1, <1>10, <2>1, <2>2, <2>3 DEF N, D, sl
<1>11. CASE next = N
  <2>1. Len(vs) = w - extra /\ Len(vs) <= w
    BY <1>1, <1>2, <1>6, <1>11
  <2>2. w + 1 \in 1 .. Len(sl)
    BY <1>4, <1>5, <1>6, <1>2
  <2>3. sl[w + 1] = 0
    BY <1>2, <1>4, <1>6, <2>1, <2>2
  <2>4. Cardinality({j \in 1 .. w : sl[j] = 0}) = extra
    <3>1. CASE left > 0
      <4>1. \A j \in 1 .. w : sl[j] = 0 <=> j \in Len(vs) + 1 .. w
        <5>2. \A k \in 1 .. Len(sl) : sl[k] = IF k <= Len(vs) THEN vs[k] ELSE 0
          BY <1>4, <1>5, <3>1
        <5>3. \A j \in 1 .. w : j \in 1 .. Len(sl)
          BY <1>6, <2>2
        <5> QED
          BY <1>2, <1>6, <2>1, <5>2, <5>3
      <4>2. {j \in 1 .. w : sl[j] = 0} = Len(vs) + 1 .. w
        <5>1. \A j \in Len(vs) + 1 .. w : j \in 1 .. w
          BY <1>2, <1>6
        <5> QED
          BY <4>1, <5>1
      <4>3. Cardinality(Len(vs) + 1 .. w) = extra
        <5>1. Len(vs) + 1 \in Int /\ w \in Int /\ extra = w - (Len(vs) + 1) + 1 /\ Len(vs) + 1 <= w + 1
          BY SMTT(30), <1>1, <1>2, <1>6, <2>1
        <5>2. Cardinality(Len(vs) + 1 .. w) = IF Len(vs) + 1 > w THEN 0 ELSE w - (Len(vs) + 1) + 1
          BY <5>1, FS_Interval
        <5> QED
          BY <1>1, <5>1, <5>2
      <4> QED
        BY <4>2, <4>3
    <3>2. CASE left <= 0
      <4>0. ~ (left > 0)
        BY <1>5, <3>2
      <4>1. w = 0 /\ extra = 0
        <5>1. CASE vs = <<>> /\ sl = <<0>>
          <6>1. Len(sl) = 1 /\ Len(vs) = 0
            BY <5>1
          <6> QED
            BY <1>1, <1>6, <2>1, <6>1
        <5>2. CASE Len(sl) \in 1 .. Len(vs)
          BY <1>2, <1>6, <2>1, <5>2
        <5> QED
          BY <1>4, <4>0, <5>1, <5>2
      <4>2. {j \in 1 .. w : sl[j] = 0} = {}
        BY <4>1
      <4> QED
        BY <4>1, <4>2, FS_EmptySet
    <3> QED
      BY <1>5, <3>1, <3>2
  <2>5. SlotsBefore(b, sl, w + 1) = Upto(D, done) + extra
    BY <1>1, <1>8, <1>9, <1>11, <2>3, <2>4
  <2> QED
    BY <1>1, <1>11, <2>3, <2>5 DEF N, D, sl
<1> QED
  BY <1>1, <1>10, <1>11

\* The delayed messages asked for after the next slot.
AskedFor(b, done, next, extra) ==
  Upto(DelayedOf(b), done) + extra
    + (IF next < Len(b.segs) /\ next + 1 \notin DelayedOf(b) THEN 0 ELSE 1)

\* is_cached_segment_last says whether the next slot is the last.
LEMMA LastSlot ==
  ASSUME NEW b \in Batches, NEW r \in Nat, NEW done, NEW next, NEW extra,
         GoesOn(b, done, next, extra),
         NEW w \in Nat, w = Upto(VisibleOf(b), done) + extra, w < Len(Slots(b, r))
  PROVE  w + 1 = Len(Slots(b, r)) <=>
           /\ AskedFor(b, done, next, extra) >= Span(b, r)
           /\ \A i \in next + 2 .. Len(b.segs) : i \notin ItemsOf(b)
<1> DEFINE P == VisibleOf(b)
           D == DelayedOf(b)
           I == ItemsOf(b)
           N == Len(b.segs)
           vs == VisibleAt(b)
           sl == Slots(b, r)
           left == LeftOver(b, r)
           asked == AskedFor(b, done, next, extra)
           span == Span(b, r)
<1>1. /\ done \in Nat /\ next \in Nat /\ N \in Nat /\ extra \in Nat
      /\ Upto(P, done) \in Nat /\ Upto(D, done) \in Nat
      /\ done <= next /\ next <= N
      /\ next < N => /\ extra = 0 /\ Upto(P, next + 1) = Upto(P, done) + 1
                     /\ Upto(D, next + 1) = Upto(D, done) + (IF next + 1 \in D THEN 1 ELSE 0)
      /\ next = N => Upto(P, N) = Upto(P, done) /\ Upto(D, N) = Upto(D, done)
  BY GoesOnIs
<1>2. Len(vs) = Upto(P, N) /\ Len(vs) \in Nat
      /\ span \in Nat /\ Upto(D, N) \in Nat /\ left = span - Upto(D, N) /\ left \in Int
  <2>1. span \in Nat /\ Upto(D, N) \in Nat /\ Upto(P, N) \in Nat /\ left \in Int
    BY CountsAreNat
  <2>2. left = span - Upto(D, N)
    BY DEF LeftOver
  <2>3. Len(vs) = Upto(P, N)
    BY VisibleAtIs
  <2> QED
    BY ONLY <2>1, <2>2, <2>3
<1>3. /\ \A k \in 1 .. Len(vs) : vs[k] \in P /\ Upto(P, vs[k]) = k
      /\ \A i \in P : Upto(P, i) \in 1 .. Len(vs) /\ vs[Upto(P, i)] = i
  BY VisibleAtIs
<1>4. \/ /\ left > 0
         /\ Len(sl) = Len(vs) + left
      \/ left <= 0 /\ vs = <<>> /\ Len(sl) = 1
      \/ /\ left <= 0 /\ vs # <<>>
         /\ Len(sl) \in 1 .. Len(vs)
         /\ \/ Len(sl) = 1 /\ I = {}
            \/ vs[Len(sl)] \in I /\ \A j \in Len(sl) + 1 .. Len(vs) : vs[j] \notin I
  <2>1. sl = <<0>> => Len(sl) = 1
    OBVIOUS
  <2> HIDE DEF vs, sl, left, I
  <2> QED
    BY <2>1, SlotsIs DEF vs, sl, left, I
<1>5. w < Len(sl) /\ w \in Nat /\ w = Upto(P, done) + extra
  OBVIOUS
<1>6. asked = Upto(D, done) + extra + (IF next < N /\ next + 1 \notin D THEN 0 ELSE 1)
  BY DEF AskedFor
<1>7. I \subseteq P /\ D \subseteq I /\ P \subseteq 1 .. N
  BY DEF ItemsOf, VisibleOf, DelayedOf, Visible, Item
<1>8. next < N => next + 1 \in P
  BY DEF GoesOn
<1>9. \A S : \A m \in 0 .. N : /\ Upto(S, m) \in Nat /\ Upto(S, m) <= Upto(S, N)
                               /\ (\A i \in m + 1 .. N : i \notin S) => Upto(S, N) = Upto(S, m)
  <2>1. N \in Nat
    BY <1>1
  <2> HIDE DEF N
  <2> QED
    BY ONLY <2>1, UptoIs
<1>10. \A i, j \in P : i < j => Upto(P, i) < Upto(P, j)
  <2>1. ASSUME NEW i \in P, NEW j \in P, i < j PROVE Upto(P, i) < Upto(P, j)
    <3>1. i \in 0 .. j /\ j \in Nat /\ j \in i + 1 .. j
      BY <1>1, <1>7, <2>1
    <3> HIDE DEF P
    <3> QED
      BY ONLY <2>1, <3>1, UptoIs
  <2> QED
    BY <2>1
<1>11. I = {} => Upto(D, N) = 0
  <2>1. SUFFICES ASSUME I = {} PROVE Upto(D, N) = 0
    OBVIOUS
  <2>2. D = {}
    BY <1>7, <2>1
  <2> HIDE DEF D
  <2>3. \A i \in 0 + 1 .. N : i \notin D
    BY <2>2
  <2>4. 0 \in 0 .. N
    BY <1>1
  <2>5. Upto(D, 0) = 0
    BY UptoIs
  <2> QED
    BY <1>9, <2>3, <2>4, <2>5
<1> HIDE DEF P, D, I, N, vs, sl, left, asked, span
<1>12. SUFFICES w + 1 = Len(sl) <=> asked >= span /\ \A i \in next + 2 .. N : i \notin I
  BY DEF sl, asked, span, I, N
<1>13. next < N => w + 1 = Upto(P, next + 1) /\ w + 1 <= Len(vs) /\ vs[w + 1] = next + 1
                   /\ asked = Upto(D, next + 1)
  <2>1. SUFFICES ASSUME next < N
                 PROVE  w + 1 = Upto(P, next + 1) /\ w + 1 <= Len(vs) /\ vs[w + 1] = next + 1
                        /\ asked = Upto(D, next + 1)
    OBVIOUS
  <2>2. w + 1 = Upto(P, next + 1) /\ extra = 0
    BY <1>1, <1>5, <2>1
  <2>3. next + 1 \in P
    BY <1>8, <2>1
  <2>4. Upto(P, next + 1) \in 1 .. Len(vs) /\ vs[Upto(P, next + 1)] = next + 1
    BY <1>3, <2>3, Zenon
  <2>5. asked = Upto(D, next + 1)
    BY <1>1, <1>6, <2>1, <2>2
  <2> QED
    BY <2>2, <2>4, <2>5
<1>14. next = N => Len(vs) = w - extra /\ asked = Upto(D, N) + (w - Len(vs)) + 1
  BY SMTT(30), <1>1, <1>2, <1>5, <1>6
<1>15. CASE left > 0
  <2>1. Len(sl) = Len(vs) + left
    BY ONLY <1>2, <1>4, <1>15
  <2>2. CASE next < N
    <3>1. next + 1 \in 0 .. N
      BY <1>1, <2>2
    <3>2. asked <= Upto(D, N) /\ asked \in Nat
      BY <1>9, <1>13, <2>2, <3>1
    <3>3. ~ (asked >= span)
      BY <1>2, <1>15, <3>2
    <3>4. w + 1 # Len(sl)
      <4>1. w + 1 <= Len(vs) /\ left > 0 /\ left \in Int /\ Len(vs) \in Nat /\ w \in Nat
        BY <1>2, <1>5, <1>13, <1>15, <2>2
      <4> QED
        BY ONLY <2>1, <4>1
    <3> QED
      BY <3>3, <3>4
  <2>3. CASE next = N
    <3>1. \A i \in next + 2 .. N : i \notin I
      BY <1>1, <2>3
    <3>2. w + 1 = Len(sl) <=> asked >= span
      <4>1. asked = Upto(D, N) + (w - Len(vs)) + 1 /\ left = span - Upto(D, N)
            /\ w \in Nat /\ Len(vs) \in Nat /\ span \in Nat /\ Upto(D, N) \in Nat
            /\ w < Len(sl)
        BY <1>2, <1>5, <1>14, <2>3
      <4> QED
        BY ONLY <2>1, <4>1
    <3> QED
      BY <3>1, <3>2
  <2> QED
    BY <1>1, <2>2, <2>3
<1>16. CASE left <= 0 /\ vs = <<>> /\ Len(sl) = 1
  <2>1. Len(vs) = 0 /\ w = 0
    BY <1>5, <1>16
  <2>2. I = {}
    BY <1>3, <1>7, <2>1
  <2>3. span = 0
    BY <1>2, <1>11, <1>16, <2>2
  <2>4. asked \in Nat
    BY <1>1, <1>6
  <2> QED
    BY <1>16, <2>1, <2>2, <2>3, <2>4
<1>17. CASE /\ left <= 0 /\ vs # <<>>
            /\ Len(sl) \in 1 .. Len(vs)
            /\ \/ Len(sl) = 1 /\ I = {}
               \/ vs[Len(sl)] \in I /\ \A j \in Len(sl) + 1 .. Len(vs) : vs[j] \notin I
  <2>1. next < N
    <3>1. SUFFICES ASSUME next = N PROVE FALSE
      BY <1>1
    <3>2. Len(vs) <= w
      BY <1>1, <1>5, <1>14, <3>1
    <3> QED
      BY <1>2, <1>5, <1>17, <3>2
  <2>2. w + 1 = Upto(P, next + 1) /\ w + 1 <= Len(vs) /\ vs[w + 1] = next + 1
        /\ asked = Upto(D, next + 1) /\ next + 1 \in P /\ next + 1 \in 0 .. N
    BY <1>1, <1>8, <1>13, <2>1
  <2>3. CASE I = {}
    <3>1. Len(sl) = 1 /\ w = 0
      <4>1. Len(sl) \in Nat
        BY ONLY <1>2, <1>17
      <4>2. Len(sl) = 1
        BY ONLY <1>17, <2>3
      <4> QED
        BY ONLY <1>5, <4>2
    <3>2. asked >= span
      BY <1>2, <1>9, <1>11, <1>17, <2>2, <2>3
    <3> QED
      BY <2>3, <3>1, <3>2
  <2>4. CASE I # {}
    <3> DEFINE m == Len(sl)
    <3>1. m \in 1 .. Len(vs) /\ m \in Nat /\ w + 1 <= m
          /\ vs[m] \in I /\ \A j \in m + 1 .. Len(vs) : vs[j] \notin I
      BY <1>2, <1>5, <1>17, <2>4
    <3> HIDE DEF m
    <3>2. ASSUME w + 1 = m PROVE asked >= span /\ \A i \in next + 2 .. N : i \notin I
      <4>1. ASSUME NEW i \in next + 2 .. N, i \in I PROVE FALSE
        <5>1. i \in P /\ next + 1 < i
          BY <1>1, <1>7, <4>1
        <5>2. Upto(P, i) \in 1 .. Len(vs) /\ vs[Upto(P, i)] = i /\ Upto(P, next + 1) < Upto(P, i)
          BY <1>3, <1>10, <2>2, <5>1
        <5>3. Upto(P, i) \in m + 1 .. Len(vs)
          BY SMTT(30), <1>2, <2>2, <3>1, <3>2, <5>2
        <5> QED
          BY <3>1, <4>1, <5>2, <5>3
      <4>2. Upto(D, N) = asked
        <5>1. \A i \in (next + 1) + 1 .. N : i \notin D
          <6>1. \A i \in (next + 1) + 1 .. N : i \in next + 2 .. N
            BY <1>1
          <6> QED
            BY <1>7, <4>1, <6>1
        <5> QED
          BY <1>9, <2>2, <5>1
      <4> QED
        BY <1>2, <1>17, <4>1, <4>2
    <3>3. ASSUME \A i \in next + 2 .. N : i \notin I PROVE w + 1 = m
      <4>1. vs[m] \in P /\ Upto(P, vs[m]) = m /\ vs[m] \in 1 .. N
        BY <1>3, <1>7, <3>1
      <4>2. ~ (next + 1 < vs[m])
        <5>1. vs[m] \in Nat /\ vs[m] <= N
          BY <1>1, <4>1
        <5>2. vs[m] \notin next + 2 .. N
          BY <3>1, <3>3
        <5> QED
          BY <1>1, <5>1, <5>2
      <4>3. ~ (vs[m] < next + 1)
        <5>1. vs[m] < next + 1 => Upto(P, vs[m]) < Upto(P, next + 1)
          BY <1>10, <2>2, <4>1
        <5> QED
          BY <2>2, <3>1, <4>1, <5>1
      <4>4. vs[m] = next + 1
        BY <1>1, <4>1, <4>2, <4>3
      <4> QED
        BY <2>2, <4>1, <4>4
    <3> QED
      BY <3>2, <3>3 DEF m
  <2> QED
    BY <2>3, <2>4
<1> QED
  BY <1>2, <1>4, <1>15, <1>16, <1>17

(***************************************************************************)
(* What the pops have made of the window.                                  *)
(***************************************************************************)

\* The messages that batch k stands for, the ones that end a call included.
Made(k) == SlotMessages(batches[k], ReadBefore(k), Slots(batches[k], ReadBefore(k)))
MadeAll == [k \in 1 .. Len(batches) |-> Made(k)]

Ending(m) == m.kind \in {"bad", "unknown"} \/ (m.kind = "delayed" /\ m.id[1] \notin known)
Passes(k, n) == \A j \in 1 .. n : ~ Ending(Made(k)[j])

\* The pops past the end of the batch, and the delayed messages asked for so far.
Extra == within - Upto(VisibleOf(seq), Done)
Asked == Upto(DelayedOf(seq), Done) + Extra

ReadAfter(r, span, asked) == r + (IF asked < span THEN asked ELSE span)

\* The cursor within a batch: one pop for each slot so far.
SlotIs ==
  /\ Extra \in Nat
  /\ Extra > 0 => Done = SegLen
  /\ within < Len(Made(pos))
  /\ read = ReadAfter(ReadBefore(pos), Span(seq, ReadBefore(pos)), Asked)
  /\ Passes(pos, within)

PopIs ==
  /\ status = "running" =>
       /\ \A k \in 1 .. pos - 1 : Passes(k, Len(Made(k)))
       /\ pos > Len(batches) => Popped = FlattenSeq(First(MadeAll, Len(batches)))
       /\ pos <= Len(batches) =>
            /\ SlotIs
            /\ Popped = FlattenSeq(First(MadeAll, pos - 1)) \o SubSeq(Made(pos), 1, within)
  /\ status # "running" => Popped = Expansion.out /\ status = Expansion.ends

LEMMA SlotsCount ==
  ASSUME NEW b \in Batches, NEW r \in Nat
  PROVE  Len(Slots(b, r)) \in Nat \ {0}
<1> DEFINE vs == VisibleAt(b)
           left == LeftOver(b, r)
           sl == Slots(b, r)
<1>1. left \in Int /\ Len(vs) \in Nat
  <2>1. left \in Int /\ Upto(VisibleOf(b), Len(b.segs)) \in Nat
    BY CountsAreNat
  <2>2. Len(vs) = Upto(VisibleOf(b), Len(b.segs))
    BY VisibleAtIs
  <2> QED
    BY <2>1, <2>2
<1>2. \/ left > 0 /\ Len(sl) = Len(vs) + left
      \/ Len(sl) = 1
      \/ Len(sl) \in 1 .. Len(vs)
  <2>1. sl = <<0>> => Len(sl) = 1
    OBVIOUS
  <2> HIDE DEF vs, left, sl
  <2> QED
    BY <2>1, SlotsIs DEF vs, left, sl
<1> HIDE DEF vs, left, sl
<1>3. Len(sl) \in Nat \ {0}
  BY <1>1, <1>2
<1> QED
  BY <1>3 DEF sl

\* The read count before each batch, and the messages of each batch.
LEMMA MadeIs ==
  ASSUME Typed, NEW k \in 1 .. Len(batches)
  PROVE  /\ batches[k] \in Batches /\ ReadBefore(k) \in Nat
         /\ Len(Made(k)) = Len(Slots(batches[k], ReadBefore(k)))
         /\ Len(Made(k)) \in Nat \ {0}
         /\ \A j \in 1 .. Len(Made(k)) :
              Made(k)[j] = SlotGives(batches[k], ReadBefore(k), Span(batches[k], ReadBefore(k)),
                                     Slots(batches[k], ReadBefore(k))[j],
                                     SlotsBefore(batches[k], Slots(batches[k], ReadBefore(k)), j))
<1>1. batches[k] \in Batches
  BY WindowIs DEF Typed
<1>2. ReadBefore(k) \in Nat
  <2>1. k # 1 => k - 1 \in 1 .. Len(batches)
    BY WindowIs DEF Typed
  <2>2. \A j \in 1 .. Len(batches) : batches[j].after \in Nat
    BY WindowIs DEF Typed
  <2>3. start \in Nat
    BY DEF Typed
  <2> QED
    BY <2>1, <2>2, <2>3 DEF ReadBefore
<1> DEFINE b == batches[k]
           r == ReadBefore(k)
           sl == Slots(b, r)
           g(j) == SlotGives(b, r, Span(b, r), sl[j], SlotsBefore(b, sl, j))
<1>3. Len(sl) \in Nat \ {0}
  BY <1>1, <1>2, SlotsCount
<1>4. Made(k) = [j \in 1 .. Len(sl) |-> g(j)]
  BY DEF Made, SlotMessages
<1> HIDE DEF sl, g
<1>5. Len(Made(k)) = Len(sl) /\ \A j \in 1 .. Len(sl) : Made(k)[j] = g(j)
  BY <1>3, <1>4
<1> QED
  BY <1>1, <1>2, <1>3, <1>5 DEF sl, g

\* All of them are sequences over one set.
Mades == {Made(k)[j] : k \in 1 .. Len(batches), j \in Nat}

LEMMA MadeAllIs ==
  ASSUME Typed
  PROVE  /\ Len(batches) \in Nat
         /\ MadeAll \in [1 .. Len(batches) -> Seq(Mades)]
         /\ \A k \in 1 .. Len(batches) : MadeAll[k] = Made(k) /\ Made(k) \in Seq(Mades)
<1>1. Len(batches) \in Nat
  BY WindowIs DEF Typed
<1>2. ASSUME NEW k \in 1 .. Len(batches) PROVE Made(k) \in Seq(Mades)
  <2> DEFINE n == Len(Made(k))
             f == Made(k)
  <2>1. n \in Nat
    BY MadeIs
  <2>2. f = [j \in 1 .. Len(Slots(batches[k], ReadBefore(k))) |-> f[j]]
    BY DEF Made, SlotMessages
  <2>3. n = Len(Slots(batches[k], ReadBefore(k)))
    BY MadeIs
  <2>4. \A j \in 1 .. n : f[j] \in Mades
    BY <2>1 DEF Mades
  <2>5. f = [j \in 1 .. n |-> f[j]]
    BY <2>2, <2>3
  <2> HIDE DEF n, f
  <2>6. f \in [1 .. n -> Mades]
    BY <2>4, <2>5
  <2> QED
    BY <2>1, <2>6, FunctionIsSeq DEF f
<1> QED
  BY <1>1, <1>2 DEF MadeAll

\* What a pop takes: the next slot of its batch.
LEMMA PopTakes ==
  ASSUME AtBatch, CursorIs, SlotIs
  PROVE  /\ GoesOn(seq, Done, NextSegment, Extra)
         /\ within = Upto(VisibleOf(seq), Done) + Extra
         /\ Asked \in Nat /\ ReadBefore(pos) \in Nat /\ Span(seq, ReadBefore(pos)) \in Nat
         /\ Made(pos)[within + 1]
              = SlotGives(seq, ReadBefore(pos), Span(seq, ReadBefore(pos)),
                          IF NextSegment < SegLen THEN NextSegment + 1 ELSE 0, Asked)
<1> DEFINE r == ReadBefore(pos)
           sl == Slots(seq, r)
<1>1. /\ seq \in Batches /\ r \in Nat /\ Len(Made(pos)) = Len(sl) /\ Len(sl) \in Nat
      /\ \A j \in 1 .. Len(sl) : Made(pos)[j] = SlotGives(seq, r, Span(seq, r), sl[j], SlotsBefore(seq, sl, j))
  BY MadeIs DEF AtBatch, seq
<1>2. /\ Done \in 0 .. NextSegment /\ NextSegment \in 0 .. SegLen /\ SegLen \in Nat /\ SegLen = Len(seq.segs)
      /\ \A j \in Done .. NextSegment - 1 : ~ Visible(seg(j))
      /\ NextSegment < SegLen => Visible(seg(NextSegment))
  BY NothingPassed, NextSegmentIs DEF AtBatch, SegLen
<1>3. ASSUME NEW i \in Done + 1 .. NextSegment PROVE i \notin VisibleOf(seq)
  <2>1. i - 1 \in Done .. NextSegment - 1 /\ (i - 1) + 1 = i
    BY <1>2
  <2>2. ~ Visible(seg(i - 1)) /\ seg(i - 1) = seq.segs[i]
    BY <1>2, <2>1 DEF seg
  <2> QED
    BY <2>2 DEF VisibleOf
<1>4. NextSegment < SegLen => NextSegment + 1 \in VisibleOf(seq)
  BY <1>2 DEF VisibleOf, seg
<1>5. GoesOn(seq, Done, NextSegment, Extra)
  BY <1>2, <1>3, <1>4 DEF GoesOn, SlotIs
<1>6. /\ Upto(VisibleOf(seq), Done) \in Nat /\ Upto(DelayedOf(seq), Done) \in Nat
  BY <1>1, <1>5, GoesOnIs
<1>7. within \in Nat /\ Extra \in Nat /\ within < Len(sl)
  BY <1>1 DEF AtBatch, Typed, SlotIs
<1>8. within = Upto(VisibleOf(seq), Done) + Extra
  BY <1>6, <1>7 DEF Extra
<1>9. Asked \in Nat /\ Span(seq, r) \in Nat
  <2>1. Span(seq, r) \in Nat
    BY <1>1, CountsAreNat
  <2> QED
    BY <1>6, <1>7, <2>1 DEF Asked
<1>10. /\ sl[within + 1] = IF NextSegment < SegLen THEN NextSegment + 1 ELSE 0
       /\ SlotsBefore(seq, sl, within + 1) = Asked
  <2> HIDE DEF r
  <2>1. /\ sl[within + 1] = IF NextSegment < Len(seq.segs) THEN NextSegment + 1 ELSE 0
        /\ SlotsBefore(seq, sl, within + 1) = Upto(DelayedOf(seq), Done) + Extra
    BY <1>1, <1>5, <1>7, <1>8, NextSlot
  <2> QED
    BY <1>2, <2>1 DEF Asked
<1>11. within + 1 \in 1 .. Len(sl)
  BY <1>1, <1>7
<1> QED
  BY <1>1, <1>5, <1>8, <1>9, <1>10, <1>11

\* The delayed count with which a pop goes on.
NewRead == IF Kind = "delayed" /\ read < seq.after THEN read + 1 ELSE read

AskedNext == AskedFor(seq, Done, NextSegment, Extra)

LEMMA ReadAfterIs ==
  ASSUME AtBatch, CursorIs, SlotIs
  PROVE  /\ read < seq.after <=> Asked < Span(seq, ReadBefore(pos))
         /\ read < seq.after => read = ReadBefore(pos) + Asked
         /\ NewRead = ReadAfter(ReadBefore(pos), Span(seq, ReadBefore(pos)), AskedNext)
         /\ NewRead >= seq.after <=> AskedNext >= Span(seq, ReadBefore(pos))
         /\ AskedNext \in Nat /\ NewRead \in Nat
<1> DEFINE r == ReadBefore(pos)
           span == Span(seq, r)
<1>1. Asked \in Nat /\ r \in Nat /\ span \in Nat /\ seq.after \in Nat
  BY PopTakes DEF AtBatch
<1>2. span = IF seq.after > r THEN seq.after - r ELSE 0
  BY DEF Span
<1>3. read = IF Asked < span THEN r + Asked ELSE r + span
  <2>1. read = ReadAfter(r, span, Asked)
    BY DEF SlotIs
  <2> HIDE DEF r, span
  <2> QED
    BY <2>1 DEF ReadAfter
<1>4. AskedNext = Asked + (IF NextSegment < SegLen /\ NextSegment + 1 \notin DelayedOf(seq) THEN 0 ELSE 1)
  BY DEF AskedNext, AskedFor, Asked, SegLen
<1>5. Kind = "delayed" <=> ~ (NextSegment < SegLen /\ NextSegment + 1 \notin DelayedOf(seq))
  <2>1. NextSegment \in 0 .. SegLen /\ SegLen \in Nat
    BY NextSegmentIs DEF AtBatch
  <2>2. NextSegment < SegLen => NextSegment + 1 \in 1 .. Len(seq.segs)
    BY <2>1 DEF SegLen
  <2> QED
    BY <2>2 DEF Kind, seg, DelayedOf
<1>6. AskedNext = Asked + (IF Kind = "delayed" THEN 1 ELSE 0)
  BY <1>4, <1>5
<1>7. ReadAfter(r, span, AskedNext) = IF AskedNext < span THEN r + AskedNext ELSE r + span
  <2> HIDE DEF r, span
  <2> QED
    BY DEF ReadAfter
<1> HIDE DEF r, span
<1>8. /\ read < seq.after <=> Asked < span
      /\ read < seq.after => read = r + Asked
  BY ONLY <1>1, <1>2, <1>3
<1>9. CASE Kind = "delayed" /\ read < seq.after
  <2>1. NewRead = read + 1 /\ AskedNext = Asked + 1
    BY <1>6, <1>9 DEF NewRead
  <2>2. Asked < span /\ read = r + Asked
    BY <1>8, <1>9
  <2>3. NewRead = ReadAfter(r, span, AskedNext)
    BY ONLY <1>1, <1>7, <2>1, <2>2
  <2>4. NewRead >= seq.after <=> AskedNext >= span
    BY ONLY <1>1, <1>2, <2>1, <2>2
  <2> QED
    BY <1>1, <1>8, <2>1, <2>2, <2>3, <2>4 DEF r, span
<1>10. CASE Kind = "delayed" /\ ~ (read < seq.after)
  <2>1. NewRead = read /\ AskedNext = Asked + 1 /\ ~ (Asked < span)
    BY <1>6, <1>8, <1>10 DEF NewRead
  <2>2. NewRead = ReadAfter(r, span, AskedNext)
    BY ONLY <1>1, <1>3, <1>7, <2>1
  <2>3. NewRead >= seq.after <=> AskedNext >= span
    BY ONLY <1>1, <1>2, <1>3, <2>1
  <2>4. read \in Nat
    BY DEF AtBatch, Typed
  <2> QED
    BY <1>1, <1>8, <2>1, <2>2, <2>3, <2>4 DEF r, span
<1>11. CASE Kind # "delayed"
  <2>1. NewRead = read /\ AskedNext = Asked
    BY <1>1, <1>6, <1>11 DEF NewRead
  <2>2. NewRead = ReadAfter(r, span, AskedNext)
    BY ONLY <1>3, <1>7, <2>1
  <2>3. NewRead >= seq.after <=> AskedNext >= span
    BY ONLY <1>1, <1>2, <1>3, <2>1
  <2>4. read \in Nat
    BY DEF AtBatch, Typed
  <2> QED
    BY <1>1, <1>8, <2>1, <2>2, <2>3, <2>4 DEF r, span
<1> QED
  BY <1>9, <1>10, <1>11

\* What a pop finds is what the slot gives.
LEMMA PopGives ==
  ASSUME AtBatch, CursorIs, SlotIs, NEW m, m = Made(pos)[within + 1]
  PROVE  /\ Kind = "l2" => m = [kind |-> "l2", id |-> <<seq.id, NextSegment + 1>>, read |-> read]
         /\ Kind = "bad" => m.kind = "bad"
         /\ Kind = "unknown" => m.kind = "unknown"
         /\ Kind = "delayed" /\ read < seq.after
              => m = [kind |-> "delayed", id |-> <<read>>, read |-> read + 1]
         /\ Kind = "delayed" /\ ~ (read < seq.after)
              => m = [kind |-> "invalid", id |-> <<seq.id>>, read |-> seq.after]
<1> DEFINE r == ReadBefore(pos)
           span == Span(seq, r)
           i == IF NextSegment < SegLen THEN NextSegment + 1 ELSE 0
<1>1. m = SlotGives(seq, r, span, i, Asked)
  BY PopTakes
<1>2. /\ read < seq.after <=> Asked < span
      /\ read < seq.after => read = r + Asked
  BY ReadAfterIs
<1>3. read = r + (IF Asked < span THEN Asked ELSE span)
  <2> HIDE DEF r, span
  <2>1. read = ReadAfter(r, span, Asked)
    BY DEF SlotIs, r, span
  <2> QED
    BY <2>1 DEF ReadAfter
<1>4. NextSegment \in Nat
  BY NextSegmentIs DEF AtBatch
<1>5. Kind = IF i # 0 THEN seq.segs[i].kind ELSE "delayed"
  <2>1. NextSegment < SegLen <=> i # 0
    BY <1>4
  <2> QED
    BY <2>1 DEF Kind, seg
<1>6. i # 0 => i = NextSegment + 1
  OBVIOUS
<1> HIDE DEF r, span, i
<1>7. CASE Kind = "l2"
  <2>1. i # 0 /\ seq.segs[i].kind = "l2"
    BY <1>5, <1>7
  <2> QED
    BY <1>1, <1>3, <1>6, <1>7, <2>1 DEF SlotGives
<1>8. CASE Kind \in {"bad", "unknown"}
  <2>1. i # 0 /\ seq.segs[i].kind = Kind
    BY <1>5, <1>8
  <2> QED
    BY <1>1, <1>8, <2>1 DEF SlotGives
<1>9. CASE Kind = "delayed"
  <2>1. ~ (i # 0 /\ seq.segs[i].kind = "l2") /\ ~ (i # 0 /\ seq.segs[i].kind \in {"bad", "unknown"})
    BY <1>5, <1>9
  <2>2. m = IF Asked < span THEN [kind |-> "delayed", id |-> <<r + Asked>>, read |-> r + Asked + 1]
            ELSE [kind |-> "invalid", id |-> <<seq.id>>, read |-> seq.after]
    BY <1>1, <2>1 DEF SlotGives
  <2> QED
    BY <1>2, <1>9, <2>2
<1> QED
  BY <1>7, <1>8, <1>9

\* The cursor goes to the next batch when the slots are used up.
LEMMA PopLast ==
  ASSUME AtBatch, CursorIs, SlotIs
  PROVE  is_cached_segment_last(NewRead) <=> within + 1 = Len(Made(pos))
<1> DEFINE r == ReadBefore(pos)
           sl == Slots(seq, r)
           N == Len(seq.segs)
<1>1. GoesOn(seq, Done, NextSegment, Extra) /\ within = Upto(VisibleOf(seq), Done) + Extra /\ r \in Nat
  BY PopTakes
<1>2. seq \in Batches /\ Len(Made(pos)) = Len(sl) /\ within \in Nat /\ within < Len(sl)
  BY MadeIs DEF AtBatch, Typed, SlotIs, seq
<1>3. within + 1 = Len(sl) <=> /\ AskedNext >= Span(seq, r)
                               /\ \A i \in NextSegment + 2 .. N : i \notin ItemsOf(seq)
  <2> HIDE DEF r
  <2> QED
    BY <1>1, <1>2, LastSlot DEF AskedNext
<1>4. NewRead >= seq.after <=> AskedNext >= Span(seq, r)
  BY ReadAfterIs
<1>5. NextSegment \in Nat /\ N \in Nat /\ SegLen = N
  BY NextSegmentIs DEF AtBatch, SegLen
<1>6. (\A i \in NextSegment + 2 .. N : i \notin ItemsOf(seq))
        <=> \A i \in NextSegment + 1 .. SegLen - 1 : ~ Item(seg(i))
  <2>1. ASSUME NEW i \in NextSegment + 1 .. SegLen - 1, \A j \in NextSegment + 2 .. N : j \notin ItemsOf(seq)
        PROVE  ~ Item(seg(i))
    <3>1. i + 1 \in NextSegment + 2 .. N /\ i + 1 \in 1 .. N
      BY <1>5
    <3>2. i + 1 \notin ItemsOf(seq)
      BY <2>1, <3>1
    <3> QED
      BY <3>1, <3>2 DEF ItemsOf, seg
  <2>2. ASSUME NEW i \in NextSegment + 2 .. N, \A j \in NextSegment + 1 .. SegLen - 1 : ~ Item(seg(j))
        PROVE  i \notin ItemsOf(seq)
    <3>1. i - 1 \in NextSegment + 1 .. SegLen - 1 /\ (i - 1) + 1 = i
      BY <1>5
    <3>2. ~ Item(seg(i - 1)) /\ seg(i - 1) = seq.segs[i]
      BY <2>2, <3>1 DEF seg
    <3> QED
      BY <3>2 DEF ItemsOf
  <2> QED
    BY <2>1, <2>2
<1> HIDE DEF r, sl, N
<1> QED
  BY <1>2, <1>3, <1>4, <1>6 DEF is_cached_segment_last

LEMMA PopMoves ==
  ASSUME AtBatch, ClockIs, CursorIs, SlotIs, Advance(NewRead), ~ Ending(Made(pos)[within + 1])
  PROVE  /\ CursorIs'
         /\ \/ /\ within + 1 = Len(Made(pos)) /\ pos' = pos + 1 /\ within' = 0
               /\ pos' <= Len(batches) => SlotIs'
            \/ /\ within + 1 < Len(Made(pos)) /\ pos' = pos /\ within' = within + 1
               /\ SlotIs'
<1>1. /\ pos \in 1 .. Len(batches) /\ Len(batches) \in Nat /\ within \in Nat
      /\ SegLen \in Nat /\ NextSegment \in 0 .. SegLen /\ SegLen = Len(seq.segs) /\ seq \in Batches
  BY SMTT(30), WindowIs, NextSegmentIs, MadeIs DEF AtBatch, Typed, SegLen, seq
<1>2. batches' = batches /\ start' = start /\ known' = known
  BY DEF Advance
<1>3. /\ CursorIs'
      /\ is_cached_segment_last(NewRead) => pos' = pos + 1 /\ Done' = 0
      /\ ~ is_cached_segment_last(NewRead) =>
           /\ pos' = pos
           /\ Done' = IF NextSegment < SegLen THEN NextSegment + 1 ELSE SegLen
  BY AdvanceDone, ReadAfterIs
<1>4. CASE is_cached_segment_last(NewRead)
  <2>1. within + 1 = Len(Made(pos))
    BY <1>4, PopLast
  <2>2. pos' = pos + 1 /\ read' = seq.after /\ within' = 0 /\ Done' = 0
    BY <1>3, <1>4 DEF Advance, advance_seq_msg
  <2>3. ASSUME pos + 1 <= Len(batches) PROVE SlotIs'
    <3> DEFINE b == batches[pos + 1]
               r == ReadBefore(pos + 1)
    <3>1. pos + 1 \in 1 .. Len(batches) /\ pos + 1 # 1 /\ (pos + 1) - 1 = pos
      BY <1>1, <2>3
    <3>2. r = seq.after
      BY <3>1 DEF ReadBefore, seq
    <3>3. b \in Batches /\ r \in Nat /\ Len(Made(pos + 1)) \in Nat \ {0}
      <4>1. Typed
        BY DEF AtBatch
      <4> QED
        BY <3>1, <4>1, MadeIs
    <3>4. seq' = b /\ Made(pos)' = Made(pos + 1) /\ ReadBefore(pos)' = r
      BY <1>2, <2>2 DEF seq, Made, ReadBefore
    <3>5. Upto(VisibleOf(seq), Done)' = 0 /\ Upto(DelayedOf(seq), Done)' = 0
      <4>1. Upto(VisibleOf(b), 0) = 0 /\ Upto(DelayedOf(b), 0) = 0
        BY UptoIs
      <4> QED
        BY <2>2, <3>4, <4>1 DEF Upto, VisibleOf, DelayedOf
    <3>6. Extra' = 0 /\ Asked' = 0
      BY <2>2, <3>5 DEF Extra, Asked
    <3>7. ReadAfter(r, Span(b, r), 0) = r
      <4>1. Span(b, r) \in Nat
        BY <3>3, CountsAreNat
      <4> HIDE DEF r, b
      <4> QED
        BY <3>3, <4>1 DEF ReadAfter
    <3>8. ReadAfter(ReadBefore(pos), Span(seq, ReadBefore(pos)), Asked)' = r
      BY <3>4, <3>6, <3>7 DEF ReadAfter, Span
    <3>9. Passes(pos, within)'
      BY <2>2 DEF Passes
    <3> HIDE DEF r, b
    <3> QED
      BY <2>2, <3>2, <3>3, <3>4, <3>6, <3>8, <3>9 DEF SlotIs
  <2> QED
    BY <1>1, <1>3, <2>1, <2>2, <2>3
<1>5. CASE ~ is_cached_segment_last(NewRead)
  <2>1. within + 1 < Len(Made(pos))
    <3>1. within + 1 # Len(Made(pos))
      BY <1>5, PopLast
    <3>2. within < Len(Made(pos)) /\ Len(Made(pos)) \in Nat
      BY <1>1, MadeIs DEF SlotIs, AtBatch
    <3> QED
      BY <1>1, <3>1, <3>2
  <2>2. /\ pos' = pos /\ read' = NewRead /\ within' = within + 1
        /\ Done' = IF NextSegment < SegLen THEN NextSegment + 1 ELSE SegLen
    BY <1>3, <1>5 DEF Advance, advance_submsg
  <2>3. seq' = seq /\ SegLen' = SegLen /\ Made(pos)' = Made(pos) /\ ReadBefore(pos)' = ReadBefore(pos)
    BY <1>2, <2>2 DEF seq, SegLen, Made, ReadBefore
  <2> DEFINE done == IF NextSegment < SegLen THEN NextSegment + 1 ELSE SegLen
             P == VisibleOf(seq)
             D == DelayedOf(seq)
  <2>4. Upto(VisibleOf(seq), Done)' = Upto(P, done) /\ Upto(DelayedOf(seq), Done)' = Upto(D, done)
    BY <2>2, <2>3 DEF Upto, VisibleOf, DelayedOf
  <2>5. /\ GoesOn(seq, Done, NextSegment, Extra) /\ within = Upto(P, Done) + Extra
    BY PopTakes
  <2>6. /\ Extra \in Nat /\ Upto(P, Done) \in Nat /\ Upto(D, Done) \in Nat
        /\ NextSegment < SegLen =>
             /\ Extra = 0
             /\ Upto(P, NextSegment + 1) = Upto(P, Done) + 1
             /\ Upto(D, NextSegment + 1) = Upto(D, Done) + (IF NextSegment + 1 \in D THEN 1 ELSE 0)
        /\ NextSegment = SegLen => Upto(P, SegLen) = Upto(P, Done) /\ Upto(D, SegLen) = Upto(D, Done)
    BY <1>1, <2>5, GoesOnIs
  <2>7. AskedNext = Upto(D, Done) + Extra + (IF NextSegment < SegLen /\ NextSegment + 1 \notin D THEN 0 ELSE 1)
    BY DEF AskedNext, AskedFor, SegLen
  <2>8. Extra' = (within + 1) - Upto(P, done) /\ Asked' = Upto(D, done) + Extra'
    BY <2>2, <2>4 DEF Extra, Asked
  <2> HIDE DEF P, D
  <2>9. Extra' \in Nat /\ (Extra' > 0 => done = SegLen) /\ Asked' = AskedNext
    <3>1. CASE NextSegment < SegLen
      <4>1. done = NextSegment + 1 /\ Extra = 0 /\ within = Upto(P, Done)
        BY <2>5, <2>6, <3>1
      <4>2. Extra' = 0
        BY <1>1, <2>6, <2>8, <3>1, <4>1
      <4>3. Asked' = AskedNext
        BY <2>6, <2>7, <2>8, <3>1, <4>1, <4>2
      <4> QED
        BY <4>2, <4>3
    <3>2. CASE NextSegment = SegLen
      <4>1. done = SegLen
        BY <1>1, <3>2
      <4>2. Extra' = Extra + 1
        BY SMTT(30), <1>1, <2>5, <2>6, <2>8, <3>2, <4>1
      <4>3. Asked' = AskedNext
        BY SMTT(30), <1>1, <2>6, <2>7, <2>8, <3>2, <4>1, <4>2
      <4> QED
        BY <2>6, <4>1, <4>2, <4>3
    <3> QED
      BY <1>1, <3>1, <3>2
  <2>10. Done' = SegLen' <=> done = SegLen
    BY <2>2, <2>3
  <2> HIDE DEF done
  <2>11. read' = ReadAfter(ReadBefore(pos), Span(seq, ReadBefore(pos)), Asked)'
    <3>1. ReadAfter(ReadBefore(pos), Span(seq, ReadBefore(pos)), Asked)'
            = ReadAfter(ReadBefore(pos), Span(seq, ReadBefore(pos)), AskedNext)
      BY <2>3, <2>9 DEF ReadAfter, Span
    <3> QED
      BY <2>2, <3>1, ReadAfterIs
  <2>12. Passes(pos, within)'
    <3>1. \A j \in 1 .. within + 1 : ~ Ending(Made(pos)[j])
      <4>1. TAKE j \in 1 .. within + 1
      <4>2. j \in 1 .. within \/ j = within + 1
        BY <1>1
      <4>3. Passes(pos, within)
        BY DEF SlotIs
      <4> QED
        BY <4>2, <4>3 DEF Passes
    <3>2. \A j : Ending(Made(pos)[j])' <=> Ending(Made(pos)[j])
      BY <1>2, <2>3 DEF Ending
    <3> QED
      BY <2>2, <3>1, <3>2 DEF Passes
  <2> QED
    BY <1>3, <1>5, <2>1, <2>2, <2>3, <2>9, <2>10, <2>11, <2>12 DEF SlotIs
<1> QED
  BY <1>4, <1>5

(***************************************************************************)
(* The window's expansion.                                                 *)
(***************************************************************************)

Each == [k \in 1 .. Len(batches) |->
           Expand(batches[k], IF k = 1 THEN start ELSE batches[k - 1].after, known)]
Outs == [k \in 1 .. Len(batches) |-> Each[k].out]

\* The first message of batch k that ends the call is its j-th.
EndsAt(k, j) ==
  /\ j \in 1 .. Len(Made(k)) /\ Ending(Made(k)[j]) /\ Passes(k, j - 1)
  /\ Each[k].out = SubSeq(Made(k), 1, j - 1)
  /\ Each[k].ends = IF Made(k)[j].kind = "unknown" THEN "stopped" ELSE "error"

LEMMA EachIs ==
  ASSUME Typed, NEW k \in 1 .. Len(batches)
  PROVE  \/ Passes(k, Len(Made(k))) /\ Each[k].out = Made(k) /\ Each[k].ends = "whole"
         \/ \E j \in 1 .. Len(Made(k)) : EndsAt(k, j)
<1> DEFINE ms == Made(k)
           E == {j \in 1 .. Len(ms) : Ending(ms[j])}
           least == CHOOSE j \in E : \A i \in E : j <= i
<1>1. Each[k] = IF E = {} THEN [out |-> ms, ends |-> "whole"]
                ELSE [out |-> SubSeq(ms, 1, least - 1),
                      ends |-> IF ms[least].kind = "unknown" THEN "stopped" ELSE "error"]
  <2>1. Each[k] = Expand(batches[k], ReadBefore(k), known)
    BY DEF Each, ReadBefore
  <2>2. Expand(batches[k], ReadBefore(k), known) = Until(ms, known)
    BY DEF Expand, Made
  <2> HIDE DEF ms
  <2> QED
    BY <2>1, <2>2 DEF Until, Ending
<1>2. Len(ms) \in Nat
  BY MadeIs
<1> HIDE DEF ms
<1>3. CASE E = {}
  <2>1. Each[k].out = ms /\ Each[k].ends = "whole"
    BY <1>1, <1>3
  <2>2. \A j \in 1 .. Len(ms) : ~ Ending(ms[j])
    BY <1>3
  <2> QED
    BY <2>1, <2>2 DEF Passes, ms
<1>4. CASE E # {}
  <2>1. E \in SUBSET Nat
    BY <1>2
  <2>2. least \in E /\ \A i \in E : least <= i
    <3> HIDE DEF E
    <3>1. \E j \in E : \A i \in E : j <= i
      BY <1>4, <2>1, LeastOf
    <3> QED
      BY <3>1
  <2>3. Each[k].out = SubSeq(ms, 1, least - 1)
        /\ Each[k].ends = IF ms[least].kind = "unknown" THEN "stopped" ELSE "error"
    <3> HIDE DEF E, least
    <3>1. Each[k] = [out |-> SubSeq(ms, 1, least - 1),
                     ends |-> IF ms[least].kind = "unknown" THEN "stopped" ELSE "error"]
      BY <1>1, <1>4, Zenon
    <3> DEFINE o == SubSeq(ms, 1, least - 1)
               e == IF ms[least].kind = "unknown" THEN "stopped" ELSE "error"
    <3>2. Each[k] = [out |-> o, ends |-> e]
      BY <3>1
    <3> HIDE DEF o, e
    <3>3. Each[k].out = o /\ Each[k].ends = e
      BY <3>2
    <3> QED
      BY <3>3 DEF o, e
  <2> HIDE DEF least
  <2>4. least \in 1 .. Len(ms) /\ Ending(ms[least])
    BY <2>2
  <2>5. ASSUME NEW j \in 1 .. least - 1, Ending(ms[j]) PROVE FALSE
    <3>1. j \in 1 .. Len(ms) /\ j < least
      BY <1>2, <2>4
    <3>2. j \in E
      BY <2>5, <3>1
    <3> QED
      BY <1>2, <2>2, <2>4, <3>1, <3>2
  <2>6. Passes(k, least - 1)
    BY <2>5 DEF Passes, ms
  <2>7. EndsAt(k, least)
    BY <2>3, <2>4, <2>6 DEF EndsAt, ms
  <2> QED
    BY <2>4, <2>7 DEF ms
<1> QED
  BY <1>3, <1>4

LEMMA OutsAre ==
  ASSUME Typed
  PROVE  /\ Len(batches) \in Nat /\ Outs \in [1 .. Len(batches) -> Seq(Mades)]
         /\ \A k \in 1 .. Len(batches) : Outs[k] = Each[k].out /\ Outs[k] \in Seq(Mades)
<1>1. Len(batches) \in Nat /\ \A k \in 1 .. Len(batches) : Made(k) \in Seq(Mades)
  BY MadeAllIs
<1>2. ASSUME NEW k \in 1 .. Len(batches) PROVE Each[k].out \in Seq(Mades)
  <2>1. CASE Each[k].out = Made(k)
    BY <1>1, <2>1
  <2>2. ASSUME NEW j \in 1 .. Len(Made(k)), EndsAt(k, j) PROVE Each[k].out \in Seq(Mades)
    <3> DEFINE ms == Made(k)
    <3>1. ms \in Seq(Mades) /\ Len(ms) \in Nat
      BY <1>1, MadeIs
    <3>2. j - 1 \in 0 .. Len(ms) /\ Each[k].out = SubSeq(ms, 1, j - 1)
      BY <2>2, <3>1 DEF EndsAt
    <3> HIDE DEF ms
    <3> QED
      BY <3>1, <3>2, BeginningOf
  <2> QED
    BY <2>1, <2>2, EachIs
<1> QED
  BY <1>1, <1>2 DEF Outs

\* The batches up to n are popped, the ones before n whole.
LastIs(n) ==
  /\ n \in 1 .. Len(batches)
  /\ \A k \in 1 .. n - 1 : Each[k].ends = "whole"
  /\ Expansion.out = FlattenSeq(First(Outs, n))

LEMMA ExpansionIs ==
  ASSUME Typed
  PROVE  \/ /\ \A k \in 1 .. Len(batches) : Each[k].ends = "whole"
            /\ Expansion.out = FlattenSeq(First(Outs, Len(batches))) /\ Expansion.ends = "whole"
         \/ \E n \in 1 .. Len(batches) :
              LastIs(n) /\ Each[n].ends # "whole" /\ Expansion.ends = Each[n].ends
<1> DEFINE N == Len(batches)
           E == {k \in 1 .. N : Each[k].ends # "whole"}
           least == CHOOSE j \in E : \A i \in E : j <= i
           last == IF E = {} THEN N ELSE least
<1>1. N \in Nat /\ Len(Each) = N
  BY OutsAre DEF Each
<1>2. Expansion.out = FlattenSeq([k \in 1 .. last |-> Each[k].out])
      /\ Expansion.ends = IF E = {} THEN "whole" ELSE Each[last].ends
  <2>1. Expansion = Joined(Each)
    BY DEF Expansion, ExpandAll, Each
  <2> HIDE DEF N
  <2> QED
    BY <1>1, <2>1 DEF Joined
<1>3. E # {} => least \in E /\ \A i \in E : least <= i
  <2>1. E \in SUBSET Nat
    OBVIOUS
  <2> HIDE DEF E
  <2>2. E # {} => \E j \in E : \A i \in E : j <= i
    BY <2>1, LeastOf
  <2> QED
    BY <2>2
<1> HIDE DEF least
<1>4. last \in 0 .. N
  BY <1>1, <1>3
<1>5. [k \in 1 .. last |-> Each[k].out] = First(Outs, last)
  <2>1. \A k \in 1 .. last : k \in 1 .. N
    BY <1>1, <1>4
  <2> HIDE DEF last
  <2> QED
    BY <2>1 DEF First, Outs
<1>6. CASE E = {}
  BY <1>2, <1>5, <1>6
<1>7. CASE E # {}
  <2>1. last = least /\ least \in 1 .. N /\ Each[least].ends # "whole"
    BY <1>3, <1>7
  <2>2. ASSUME NEW k \in 1 .. least - 1 PROVE Each[k].ends = "whole"
    <3>1. k \in 1 .. N /\ k < least
      BY <1>1, <2>1
    <3>2. k \notin E
      BY <1>1, <1>3, <1>7, <2>1, <3>1
    <3> QED
      BY <3>1, <3>2
  <2>3. LastIs(least)
    BY <1>2, <1>5, <2>1, <2>2 DEF LastIs
  <2> QED
    BY <1>2, <1>7, <2>1, <2>3
<1> QED
  BY <1>6, <1>7

\* Batches popped whole give what they stand for.
LEMMA WholeOuts ==
  ASSUME Typed, NEW n \in 0 .. Len(batches), \A k \in 1 .. n : Passes(k, Len(Made(k)))
  PROVE  /\ \A k \in 1 .. n : Each[k].ends = "whole"
         /\ First(Outs, n) = First(MadeAll, n)
<1>1. Len(batches) \in Nat
  BY OutsAre
<1>2. ASSUME NEW k \in 1 .. n PROVE Each[k].ends = "whole" /\ Outs[k] = MadeAll[k]
  <2>1. k \in 1 .. Len(batches) /\ Passes(k, Len(Made(k)))
    BY <1>1
  <2>2. ASSUME NEW j \in 1 .. Len(Made(k)) PROVE ~ EndsAt(k, j)
    BY <2>1 DEF EndsAt, Passes
  <2>3. Each[k].out = Made(k) /\ Each[k].ends = "whole"
    BY <2>1, <2>2, EachIs
  <2>4. Outs[k] = Each[k].out /\ MadeAll[k] = Made(k)
    BY <2>1, OutsAre, MadeAllIs
  <2> QED
    BY <2>3, <2>4
<1> QED
  BY <1>2 DEF First

\* The batches before the one at the cursor.
LEMMA BatchesBefore ==
  ASSUME Typed, PopIs, status = "running", pos <= Len(batches)
  PROVE  /\ pos \in 1 .. Len(batches) /\ Len(batches) \in Nat /\ within \in Nat
         /\ SlotIs
         /\ Made(pos) \in Seq(Mades) /\ Len(Made(pos)) \in Nat /\ within < Len(Made(pos))
         /\ \A k \in 1 .. pos - 1 : Each[k].ends = "whole"
         /\ First(Outs, pos - 1) = First(MadeAll, pos - 1)
         /\ FlattenSeq(First(MadeAll, pos - 1)) \in Seq(Mades)
         /\ FlattenSeq(First(Outs, pos)) = FlattenSeq(First(Outs, pos - 1)) \o Outs[pos]
         /\ FlattenSeq(First(MadeAll, pos)) = FlattenSeq(First(MadeAll, pos - 1)) \o Made(pos)
         /\ Popped = FlattenSeq(First(MadeAll, pos - 1)) \o SubSeq(Made(pos), 1, within)
<1> DEFINE n == pos - 1
<1>1. pos \in 1 .. Len(batches) /\ Len(batches) \in Nat /\ within \in Nat
  BY OutsAre DEF Typed
<1>2. SlotIs /\ Popped = FlattenSeq(First(MadeAll, pos - 1)) \o SubSeq(Made(pos), 1, within)
  BY DEF PopIs
<1>3. Made(pos) \in Seq(Mades) /\ Len(Made(pos)) \in Nat
  BY <1>1, MadeIs, MadeAllIs
<1>4. within < Len(Made(pos))
  BY <1>2 DEF SlotIs
<1>5. n \in Nat /\ n \in 0 .. Len(batches) /\ n + 1 = pos /\ \A k \in 1 .. n + 1 : k \in 1 .. Len(batches)
  BY <1>1
<1>6. \A k \in 1 .. n : Passes(k, Len(Made(k)))
  BY DEF PopIs
<1> HIDE DEF n
<1>7. (\A k \in 1 .. n : Each[k].ends = "whole") /\ First(Outs, n) = First(MadeAll, n)
  BY <1>5, <1>6, WholeOuts
<1>8. \A k \in 1 .. n + 1 : Outs[k] \in Seq(Mades) /\ MadeAll[k] \in Seq(Mades)
  BY <1>5, OutsAre, MadeAllIs
<1>9. FlattenSeq(First(Outs, n + 1)) = FlattenSeq(First(Outs, n)) \o Outs[n + 1]
  BY <1>5, <1>8, FlattenGrows
<1>10. FlattenSeq(First(MadeAll, n + 1)) = FlattenSeq(First(MadeAll, n)) \o MadeAll[n + 1]
  BY <1>5, <1>8, FlattenGrows
<1>11. FlattenSeq(First(MadeAll, n)) \in Seq(Mades)
  <2> DEFINE g == First(MadeAll, n)
  <2>1. \A k \in 1 .. n : k \in 1 .. n + 1
    BY <1>5
  <2>2. g \in [1 .. n -> Seq(Mades)]
    BY <1>8, <2>1 DEF First
  <2> HIDE DEF g
  <2>3. FlattenSeq(g) \in Seq(Mades)
    BY <1>5, <2>2, FlattenType
  <2> QED
    BY <2>3 DEF g
<1>12. MadeAll[pos] = Made(pos)
  BY <1>1, MadeAllIs
<1> QED
  BY <1>1, <1>2, <1>3, <1>4, <1>5, <1>7, <1>9, <1>10, <1>11, <1>12 DEF n

\* So far the pops have the beginning of the expansion.
LEMMA PoppedBegins ==
  ASSUME Typed, PopIs, status = "running"
  PROVE  Begins(Popped, Expansion.out)
<1> DEFINE N == Len(batches)
<1>1. N \in Nat /\ pos \in 1 .. N + 1 /\ \A k \in 1 .. pos - 1 : Passes(k, Len(Made(k)))
  BY OutsAre DEF Typed, PopIs
<1>2. pos - 1 \in 0 .. N
  BY <1>1
<1>3. (\A k \in 1 .. pos - 1 : Each[k].ends = "whole") /\ First(Outs, pos - 1) = First(MadeAll, pos - 1)
  <2> DEFINE n == pos - 1
  <2>1. n \in 0 .. N /\ \A k \in 1 .. n : Passes(k, Len(Made(k)))
    BY <1>1, <1>2
  <2> HIDE DEF n
  <2> QED
    BY <2>1, WholeOuts DEF n
<1>4. Outs \in [1 .. N -> Seq(Mades)]
  BY OutsAre
<1>5. CASE pos > N
  <2>1. pos - 1 = N
    BY <1>1, <1>5
  <2>2. Popped = FlattenSeq(First(Outs, N))
    BY <1>3, <1>5, <2>1 DEF PopIs
  <2>3. ASSUME NEW n \in 1 .. N, LastIs(n), Each[n].ends # "whole" PROVE FALSE
    BY <1>3, <2>1, <2>3
  <2>4. Expansion.out = Popped
    BY <2>2, <2>3, ExpansionIs
  <2>5. First(Outs, N) \in [1 .. N -> Seq(Mades)]
    BY <1>4 DEF First
  <2>6. Popped \in Seq(Mades)
    BY <1>1, <2>2, <2>5, FlattenType
  <2>7. Len(Popped) \in Nat
    BY <2>6
  <2> QED
    BY <2>4, <2>7 DEF Begins
<1>6. CASE pos <= N
  <2> DEFINE f == FlattenSeq(First(Outs, pos - 1))
             s == SubSeq(Made(pos), 1, within)
             t == Outs[pos]
             flat(n) == FlattenSeq(First(Outs, n))
  <2>1. pos \in 1 .. N /\ Popped = f \o s /\ Passes(pos, within) /\ within < Len(Made(pos))
    <3>1. /\ SlotIs /\ Popped = FlattenSeq(First(MadeAll, pos - 1)) \o SubSeq(Made(pos), 1, within)
          /\ First(Outs, pos - 1) = First(MadeAll, pos - 1)
      BY <1>6, BatchesBefore
    <3>2. Popped = f \o s
      BY <3>1, Zenon
    <3>3. pos \in 1 .. N
      BY <1>1, <1>6
    <3> HIDE DEF f, s
    <3> QED
      BY <3>1, <3>2, <3>3 DEF SlotIs
  <2>2. Made(pos) \in Seq(Mades) /\ Len(Made(pos)) \in Nat /\ within \in Nat /\ within \in 0 .. Len(Made(pos))
    <3>1. Made(pos) \in Seq(Mades) /\ Len(Made(pos)) \in Nat /\ within \in Nat
      BY <1>6, BatchesBefore
    <3> QED
      BY <2>1, <3>1
  <2>3. s \in Seq(Mades) /\ Len(s) = within /\ \A i \in 1 .. within : s[i] = Made(pos)[i]
    <3> DEFINE ms == Made(pos)
    <3>1. ms \in Seq(Mades) /\ within \in 0 .. Len(ms)
      BY <2>2
    <3> HIDE DEF ms
    <3>2. /\ SubSeq(ms, 1, within) \in Seq(Mades) /\ Len(SubSeq(ms, 1, within)) = within
          /\ \A i \in 1 .. within : SubSeq(ms, 1, within)[i] = ms[i]
      BY <3>1, BeginningOf
    <3> QED
      BY <3>2 DEF ms
  <2>4. t \in Seq(Mades) /\ t = Each[pos].out
    BY <2>1, OutsAre
  <2>5. Begins(s, t)
    <3>1. CASE t = Made(pos)
      <4> DEFINE ms == Made(pos)
      <4>1. t = ms /\ Len(s) = within /\ within < Len(ms) /\ within \in Nat /\ Len(ms) \in Nat
            /\ \A i \in 1 .. within : s[i] = ms[i]
        BY <2>1, <2>2, <2>3, <3>1
      <4> HIDE DEF s, t, ms
      <4> QED
        BY ONLY <4>1 DEF Begins
    <3>2. ASSUME NEW j \in 1 .. Len(Made(pos)), EndsAt(pos, j) PROVE Begins(s, t)
      <4> DEFINE ms == Made(pos)
      <4>1. ms \in Seq(Mades) /\ Len(ms) \in Nat /\ j \in 1 .. Len(ms) /\ j - 1 \in 0 .. Len(ms)
        BY <2>2
      <4>2. ~ (j <= within)
        <5>1. Ending(Made(pos)[j])
          BY <3>2 DEF EndsAt
        <5>2. j <= within => j \in 1 .. within
          BY <2>2, <4>1
        <5> QED
          BY <2>1, <5>1, <5>2 DEF Passes
      <4>3. t = SubSeq(ms, 1, j - 1)
        BY <2>4, <3>2 DEF EndsAt
      <4> HIDE DEF ms
      <4>4. Len(t) = j - 1 /\ \A i \in 1 .. j - 1 : t[i] = ms[i]
        <5> HIDE DEF t
        <5> QED
          BY <4>1, <4>3, BeginningOf
      <4>5. \A i \in 1 .. within : s[i] = ms[i] /\ i \in 1 .. j - 1
        <5> HIDE DEF s
        <5>1. \A i \in 1 .. within : s[i] = ms[i]
          BY <2>3 DEF ms
        <5>2. \A i \in 1 .. within : i \in 1 .. j - 1
          BY <2>2, <4>1, <4>2
        <5> QED
          BY <5>1, <5>2
      <4>6. within <= j - 1
        BY <2>2, <4>1, <4>2
      <4> HIDE DEF s, t
      <4> QED
        BY <2>3, <4>4, <4>5, <4>6 DEF Begins
    <3> QED
      BY <2>1, <2>4, <3>1, <3>2, EachIs
  <2>6. f \in Seq(Mades) /\ flat(pos) = f \o t
    <3>1. /\ FlattenSeq(First(MadeAll, pos - 1)) \in Seq(Mades)
          /\ First(Outs, pos - 1) = First(MadeAll, pos - 1)
          /\ FlattenSeq(First(Outs, pos)) = FlattenSeq(First(Outs, pos - 1)) \o Outs[pos]
      BY <1>6, BatchesBefore
    <3> QED
      BY <3>1, Zenon
  <2>8. PICK n \in pos .. N : Expansion.out = flat(n)
    <3>1. ASSUME NEW n \in 1 .. N, LastIs(n), Each[n].ends # "whole"
          PROVE  n \in pos .. N
      <4>1. n \notin 1 .. pos - 1
        BY <1>3, <3>1
      <4> QED
        BY <1>1, <2>1, <3>1, <4>1
    <3>2. N \in pos .. N
      BY <1>1, <2>1
    <3> QED
      BY <3>1, <3>2, ExpansionIs DEF LastIs
  <2> HIDE DEF f, s, t
  <2>9. Begins(f \o s, f \o t)
    BY ONLY <2>3, <2>4, <2>5, <2>6, BeginsAfter
  <2>10. Begins(flat(pos), flat(n))
    <3>1. N \in Nat /\ pos \in 0 .. N /\ n \in pos .. N
      BY <1>1, <2>1
    <3>2. Outs \in [1 .. N -> Seq(Mades)]
      BY <1>4
    <3> HIDE DEF N
    <3> QED
      BY ONLY <3>1, <3>2, FlattenBegins, Zenon
  <2>11. flat(n) \in Seq(Mades)
    <3>1. n \in Nat /\ \A k \in 1 .. n : k \in 1 .. N
      BY <1>1, <2>1
    <3>2. \A k \in 1 .. n : Outs[k] \in Seq(Mades)
      BY <3>1, OutsAre
    <3> DEFINE g == First(Outs, n)
    <3>3. g \in [1 .. n -> Seq(Mades)]
      BY <3>2 DEF First
    <3> HIDE DEF g
    <3>4. FlattenSeq(g) \in Seq(Mades)
      BY <3>1, <3>3, FlattenType
    <3> QED
      BY <3>4 DEF g
  <2> HIDE DEF flat
  <2>12. (f \o s) \in Seq(Mades) /\ (f \o t) \in Seq(Mades)
    BY <2>3, <2>4, <2>6
  <2>13. Begins(f \o s, flat(n))
    <3> DEFINE u == f \o s
               v == f \o t
    <3>1. u \in Seq(Mades) /\ v \in Seq(Mades) /\ Begins(u, v) /\ Begins(v, flat(n))
      BY <2>6, <2>9, <2>10, <2>12
    <3> HIDE DEF u, v
    <3>2. Begins(u, flat(n))
      BY <2>11, <3>1, BeginsTransitive
    <3> QED
      BY <3>2 DEF u
  <2> QED
    BY <2>1, <2>8, <2>13
<1> QED
  BY <1>1, <1>5, <1>6

(***************************************************************************)
(* Steps.                                                                  *)
(***************************************************************************)

LEMMA PoppedYields ==
  ASSUME Typed, NEW msg \in Messages, NEW time \in Nat, Yields(msg, time)
  PROVE  Popped' = Append(Popped, msg)
<1>1. /\ Len(out) \in Nat /\ Len(out') = Len(out) + 1
      /\ out'[Len(out) + 1] = [msg |-> msg, time |-> time]
      /\ \A k \in 1 .. Len(out) : out'[k] = out[k]
  BY YieldsTyped
<1> DEFINE n == Len(out)
           p == [k \in 1 .. n |-> out[k].msg]
           q == [k \in 1 .. n + 1 |-> out'[k].msg]
           T == {out'[k].msg : k \in 1 .. n + 1}
<1>2. q[n + 1] = msg /\ \A k \in 1 .. n : q[k] = p[k]
  BY <1>1
<1>3. p \in [1 .. n -> T] /\ q \in [1 .. n + 1 -> T] /\ n \in Nat /\ msg \in T
  <2>1. \A k \in 1 .. n : p[k] = q[k] /\ k \in 1 .. n + 1
    BY <1>1, <1>2
  <2>2. \A k \in 1 .. n + 1 : q[k] \in T
    OBVIOUS
  <2>3. n \in Nat /\ n + 1 \in 1 .. n + 1
    BY <1>1
  <2>4. p = [k \in 1 .. n |-> p[k]] /\ q = [k \in 1 .. n + 1 |-> q[k]]
    OBVIOUS
  <2> HIDE DEF n, p, q, T
  <2> QED
    BY <1>2, <2>1, <2>2, <2>3, <2>4
<1>4. Popped = p /\ Popped' = q
  BY <1>1 DEF Popped
<1> HIDE DEF n, p, q, T
<1>5. p \in Seq(T) /\ Len(p) = n /\ q \in Seq(T) /\ Len(q) = n + 1
  <2>1. n + 1 \in Nat
    BY <1>3
  <2> QED
    BY <1>3, <2>1, FunctionIsSeq
<1> DEFINE c == Append(p, msg)
<1>6. c \in Seq(T) /\ Len(c) = n + 1
      /\ \A k \in 1 .. n + 1 : c[k] = IF k <= n THEN p[k] ELSE msg
  BY <1>3, <1>5, AppendedAt
<1> HIDE DEF c
<1>7. \A k \in 1 .. Len(q) : q[k] = c[k]
  <2>1. \A k \in 1 .. n + 1 : (k <= n /\ k \in 1 .. n) \/ (~ (k <= n) /\ k = n + 1)
    BY <1>3
  <2> QED
    BY <1>2, <1>5, <1>6, <2>1
<1>8. q = c
  BY ONLY <1>5, <1>6, <1>7, SameSequence
<1> QED
  BY <1>4, <1>8 DEF c

LEMMA YieldKeeps ==
  ASSUME AtBatch, ClockIs, CursorIs, PopIs, status = "running", Advance(NewRead),
         NEW msg \in Messages, NEW time \in Nat, Yields(msg, time),
         msg = Made(pos)[within + 1], ~ Ending(msg)
  PROVE  PopIs'
<1> DEFINE ms == Made(pos)
           f == FlattenSeq(First(MadeAll, pos - 1))
<1>1. Typed /\ pos \in 1 .. Len(batches) /\ Len(batches) \in Nat /\ pos <= Len(batches)
  BY WindowIs DEF AtBatch, Typed
<1>2. /\ SlotIs /\ ms \in Seq(Mades) /\ Len(ms) \in Nat /\ within \in Nat /\ within < Len(ms)
      /\ f \in Seq(Mades) /\ Popped = f \o SubSeq(ms, 1, within)
      /\ FlattenSeq(First(MadeAll, pos)) = f \o ms
  BY <1>1, BatchesBefore
<1>3. batches' = batches /\ start' = start /\ known' = known /\ status' = "running"
  BY DEF Advance, Yields
<1>4. \/ /\ within + 1 = Len(ms) /\ pos' = pos + 1 /\ within' = 0
         /\ pos' <= Len(batches) => SlotIs'
      \/ /\ within + 1 < Len(ms) /\ pos' = pos /\ within' = within + 1
         /\ SlotIs'
  BY <1>2, PopMoves
<1>5. Popped' = f \o SubSeq(ms, 1, within + 1)
  <2> HIDE DEF f, ms
  <2>1. Popped' = Append(Popped, msg)
    BY <1>1, PoppedYields
  <2>2. Append(f \o SubSeq(ms, 1, within), ms[within + 1]) = f \o SubSeq(ms, 1, within + 1)
    BY <1>2, AppendNext
  <2>3. msg = ms[within + 1]
    BY DEF ms
  <2> QED
    BY <1>2, <2>1, <2>2, <2>3
<1>6. Passes(pos, within + 1)
  <2>1. \A j \in 1 .. within + 1 : j \in 1 .. within \/ j = within + 1
    BY <1>2
  <2>2. Passes(pos, within)
    BY <1>2 DEF SlotIs
  <2> QED
    BY <2>1, <2>2 DEF Passes
<1>7. /\ MadeAll' = MadeAll
      /\ \A k : Made(k)' = Made(k) /\ \A n : Passes(k, n)' <=> Passes(k, n)
  BY <1>3 DEF ReadBefore, Made, MadeAll, Passes, Ending
<1>8. \A k \in 1 .. pos - 1 : Passes(k, Len(Made(k)))
  BY DEF PopIs
<1>9. CASE /\ within + 1 = Len(ms) /\ pos' = pos + 1 /\ within' = 0
           /\ pos' <= Len(batches) => SlotIs'
  <2>1. \A k \in 1 .. pos' - 1 : Passes(k, Len(Made(k)))'
    <3>1. \A k \in 1 .. pos' - 1 : k \in 1 .. pos - 1 \/ k = pos
      BY <1>1, <1>9
    <3>2. \A k \in 1 .. pos' - 1 : Passes(k, Len(Made(k)))
      BY <1>6, <1>8, <1>9, <3>1
    <3> QED
      BY <1>7, <3>2 DEF Passes
  <2>2. SubSeq(ms, 1, within + 1) = ms
    <3> HIDE DEF ms
    <3> QED
      BY <1>2, <1>9
  <2>3. Popped' = FlattenSeq(First(MadeAll, pos))
    BY <1>2, <1>5, <2>2
  <2>4. pos' > Len(batches) => pos = Len(batches)
    BY <1>1, <1>9
  <2>5. pos' - 1 = pos
    BY <1>1, <1>9
  <2>6. Popped' \o SubSeq(Made(pos)', 1, 0) = Popped'
    <3>1. Popped' \in Seq(Mades)
      <4>1. f \o ms \in Seq(Mades)
        <5> HIDE DEF f, ms
        <5> QED
          BY <1>2
      <4> QED
        BY <1>2, <2>3, <4>1
    <3>2. SubSeq(Made(pos)', 1, 0) = <<>>
      OBVIOUS
    <3> QED
      BY <3>1, <3>2
  <2>7. pos' > Len(batches') => Popped' = FlattenSeq(First(MadeAll, Len(batches)))'
    BY <1>3, <1>7, <2>3, <2>4 DEF First
  <2>8. pos' <= Len(batches') =>
          Popped' = FlattenSeq(First(MadeAll, pos - 1))' \o SubSeq(Made(pos), 1, within)'
    BY <1>7, <1>9, <2>3, <2>5, <2>6 DEF First
  <2> QED
    BY <1>3, <1>9, <2>1, <2>7, <2>8 DEF PopIs
<1>10. CASE /\ within + 1 < Len(ms) /\ pos' = pos /\ within' = within + 1
            /\ SlotIs'
  <2>1. \A k \in 1 .. pos' - 1 : Passes(k, Len(Made(k)))'
    BY <1>7, <1>8, <1>10 DEF Passes
  <2>2. Popped' = FlattenSeq(First(MadeAll, pos - 1))' \o SubSeq(Made(pos), 1, within)'
    BY ONLY <1>3, <1>5, <1>10 DEF First, Made, MadeAll, ReadBefore
  <2> QED
    BY <1>1, <1>3, <1>10, <2>1, <2>2 DEF PopIs
<1> QED
  BY <1>4, <1>9, <1>10

\* A message that ends the call leaves what the window stands for.
LEMMA EndKeeps ==
  ASSUME AtBatch, CursorIs, PopIs, status = "running", batches' = batches, start' = start, known' = known,
         out' = out, NEW m, m = Made(pos)[within + 1], Ending(m),
         status' = IF m.kind = "unknown" THEN "stopped" ELSE "error"
  PROVE  PopIs'
<1>1. Typed /\ pos \in 1 .. Len(batches) /\ Len(batches) \in Nat /\ pos <= Len(batches)
  BY WindowIs DEF AtBatch, Typed
<1>2. /\ SlotIs /\ Len(Made(pos)) \in Nat /\ within \in Nat /\ within < Len(Made(pos))
      /\ \A k \in 1 .. pos - 1 : Each[k].ends = "whole"
      /\ First(Outs, pos - 1) = First(MadeAll, pos - 1)
      /\ FlattenSeq(First(Outs, pos)) = FlattenSeq(First(Outs, pos - 1)) \o Outs[pos]
      /\ Popped = FlattenSeq(First(MadeAll, pos - 1)) \o SubSeq(Made(pos), 1, within)
  BY <1>1, BatchesBefore
<1>3. Passes(pos, within)
  BY <1>2 DEF SlotIs
<1>4. within + 1 \in 1 .. Len(Made(pos)) /\ (within + 1) - 1 = within
  BY <1>2
<1>5. EndsAt(pos, within + 1)
  <2>1. ~ Passes(pos, Len(Made(pos)))
    BY <1>4 DEF Passes
  <2>2. PICK j \in 1 .. Len(Made(pos)) : EndsAt(pos, j)
    BY <1>1, <2>1, EachIs
  <2>3. Ending(Made(pos)[j]) /\ Passes(pos, j - 1) /\ j \in Nat /\ j >= 1
    BY <1>2, <2>2 DEF EndsAt
  <2>4. ~ (j \in 1 .. within)
    BY <1>3, <2>3 DEF Passes
  <2>5. ~ (within + 1 \in 1 .. j - 1)
    BY <2>3 DEF Passes
  <2>6. j = within + 1
    BY <1>2, <2>3, <2>4, <2>5
  <2> QED
    BY <2>2, <2>6
<1>6. /\ Each[pos].out = SubSeq(Made(pos), 1, within)
      /\ Each[pos].ends = status' /\ status' # "whole" /\ status' # "running"
  BY <1>4, <1>5 DEF EndsAt
<1>7. Expansion.out = FlattenSeq(First(Outs, pos)) /\ Expansion.ends = Each[pos].ends
  <2>1. PICK n \in 1 .. Len(batches) :
          LastIs(n) /\ Each[n].ends # "whole" /\ Expansion.ends = Each[n].ends
    BY <1>1, <1>6, ExpansionIs
  <2>2. n \notin 1 .. pos - 1
    BY <1>2, <2>1
  <2>3. pos \notin 1 .. n - 1
    BY <1>6, <2>1 DEF LastIs
  <2>4. n = pos
    BY <1>1, <2>1, <2>2, <2>3
  <2> QED
    BY <2>1, <2>4 DEF LastIs
<1>8. Outs[pos] = Each[pos].out
  BY <1>1, OutsAre
<1>9. Expansion.out = Popped
  BY <1>2, <1>6, <1>7, <1>8
<1>10. Popped' = Popped /\ Expansion' = Expansion
  BY DEF Popped, Expansion
<1> QED
  BY <1>6, <1>7, <1>9, <1>10 DEF PopIs

\* At the end of the window all of it has been popped.
LEMMA WholeKeeps ==
  ASSUME Typed, PopIs, status = "running", pos > Len(batches),
         UNCHANGED <<batches, known, start, cursor, out>>, status' = "whole"
  PROVE  PopIs'
<1>1. Len(batches) \in Nat /\ pos - 1 = Len(batches)
  BY OutsAre DEF Typed
<1>2. /\ \A k \in 1 .. Len(batches) : Passes(k, Len(Made(k)))
      /\ Popped = FlattenSeq(First(MadeAll, Len(batches)))
  BY <1>1 DEF PopIs
<1>3. (\A k \in 1 .. Len(batches) : Each[k].ends = "whole")
      /\ First(Outs, Len(batches)) = First(MadeAll, Len(batches))
  <2> DEFINE n == Len(batches)
  <2>1. n \in 0 .. Len(batches) /\ \A k \in 1 .. n : Passes(k, Len(Made(k)))
    BY <1>1, <1>2
  <2> HIDE DEF n
  <2> QED
    BY <2>1, WholeOuts DEF n
<1>4. Expansion.out = Popped /\ Expansion.ends = "whole"
  BY <1>2, <1>3, ExpansionIs
<1>5. Popped' = Popped /\ Expansion' = Expansion
  BY DEF Popped, Expansion
<1> QED
  BY <1>4, <1>5 DEF PopIs

PopInv == Typed /\ ClockIs /\ CursorIs /\ PopIs

LEMMA InitPopInv == Init => PopInv
<1> SUFFICES ASSUME Init PROVE PopInv
  OBVIOUS
<1>1. Typed /\ ClockIs /\ CursorIs
  BY InitTyped DEF Init, CursorIs
<1>2. /\ pos = 1 /\ within = 0 /\ read = start /\ out = <<>> /\ status = "running" /\ Done = 0
      /\ start \in Nat
  BY <1>1 DEF Init, Done, Typed
<1>3. 1 \in 1 .. Len(batches) /\ seq = batches[1] /\ ReadBefore(1) = start /\ ReadBefore(pos) = start
  BY <1>1, <1>2, WindowIs DEF Typed, seq, ReadBefore
<1>4. seq \in Batches /\ Len(Made(pos)) \in Nat \ {0} /\ Made(pos) \in Seq(Mades)
  BY <1>1, <1>2, <1>3, MadeIs, MadeAllIs
<1>5. Upto(VisibleOf(seq), 0) = 0 /\ Upto(DelayedOf(seq), 0) = 0
  BY UptoIs
<1>6. Extra = 0 /\ Asked = 0
  BY <1>2, <1>5 DEF Extra, Asked
<1>7. ReadAfter(ReadBefore(pos), Span(seq, ReadBefore(pos)), 0) = start
  <2>1. Span(seq, start) \in Nat
    BY <1>2, <1>4, CountsAreNat
  <2> QED
    BY <1>2, <1>3, <2>1 DEF ReadAfter
<1>8. Passes(pos, 0)
  BY DEF Passes
<1>9. SlotIs
  BY <1>2, <1>4, <1>6, <1>7, <1>8 DEF SlotIs
<1>10. Popped = FlattenSeq(First(MadeAll, pos - 1)) \o SubSeq(Made(pos), 1, within)
  <2>1. Popped = <<>> /\ SubSeq(Made(pos), 1, within) = <<>>
    BY <1>2 DEF Popped
  <2>2. pos - 1 = 0
    BY <1>2
  <2>3. FlattenSeq(First(MadeAll, pos - 1)) = <<>>
    BY <2>2, FlattenNone
  <2>4. <<>> = <<>> \o <<>>
    OBVIOUS
  <2> QED
    BY <2>1, <2>3, <2>4, Zenon
<1>11. pos <= Len(batches) /\ 1 .. pos - 1 = {} /\ ~ (pos > Len(batches))
  BY <1>1, <1>2, WindowIs DEF Typed
<1>12. PopIs
  BY <1>2, <1>9, <1>10, <1>11 DEF PopIs
<1> QED
  BY <1>1, <1>12 DEF PopInv

LEMMA NextPopInv == PopInv /\ [Next]_vars => PopInv'
<1> SUFFICES ASSUME PopInv, [Next]_vars PROVE PopInv'
  OBVIOUS
<1>0. Typed /\ ClockIs /\ CursorIs /\ PopIs /\ Typed' /\ ClockIs'
  BY NextTyped DEF PopInv
<1>1. CASE UNCHANGED vars
  <2>1. CursorIs'
    BY <1>0, <1>1 DEF vars, cursor, CursorIs, seq, seg, SegLen, Visible, Item
  <2>2. PopIs'
    <3>1. /\ batches' = batches /\ known' = known /\ start' = start /\ pos' = pos /\ within' = within
          /\ read' = read /\ segNum' = segNum /\ out' = out /\ status' = status
      BY <1>1 DEF vars, cursor
    <3>2. /\ Popped' = Popped /\ Expansion' = Expansion /\ MadeAll' = MadeAll
          /\ FlattenSeq(First(MadeAll, pos - 1))' = FlattenSeq(First(MadeAll, pos - 1))
          /\ FlattenSeq(First(MadeAll, Len(batches)))' = FlattenSeq(First(MadeAll, Len(batches)))
          /\ SubSeq(Made(pos), 1, within)' = SubSeq(Made(pos), 1, within)
      BY <3>1 DEF Popped, Expansion, MadeAll, Made, ReadBefore, First
    <3>3. SlotIs' <=> SlotIs
      BY <3>1 DEF SlotIs, Extra, Asked, Done, SegLen, seq, Upto, VisibleOf, DelayedOf, Made, ReadBefore, Passes, Ending
    <3>4. (\A k \in 1 .. pos - 1 : Passes(k, Len(Made(k))))' <=> \A k \in 1 .. pos - 1 : Passes(k, Len(Made(k)))
      BY <3>1 DEF Passes, Made, ReadBefore, Ending
    <3> QED
      BY <1>0, <3>1, <3>2, <3>3, <3>4 DEF PopIs
  <2> QED
    BY <1>0, <2>1, <2>2 DEF PopInv
<1>2. CASE /\ UNCHANGED <<batches, known, start, cursor, out>>
           /\ status = "running" /\ status' = "whole" /\ pos > Len(batches)
  <2>1. CursorIs'
    BY <1>0, <1>2 DEF cursor, CursorIs, seq, seg, SegLen, Visible, Item
  <2>2. PopIs'
    BY <1>0, <1>2, WholeKeeps
  <2> QED
    BY <1>0, <2>1, <2>2 DEF PopInv
<1>3. ASSUME AtBatch, status = "running" PROVE SlotIs
  BY <1>0, <1>3 DEF PopIs, AtBatch, Typed
<1>4. ASSUME AtBatch, status = "running", Advance(NewRead), NEW msg \in Messages, NEW time \in Nat,
             Yields(msg, time), msg = Made(pos)[within + 1], ~ Ending(msg)
      PROVE  PopInv'
  <2>1. PopIs'
    BY <1>0, <1>4, YieldKeeps
  <2>2. CursorIs'
    BY <1>0, <1>3, <1>4, ReadAfterIs, AdvanceDone
  <2> QED
    BY <1>0, <2>1, <2>2 DEF PopInv
<1>5. ASSUME AtBatch, status = "running", Advance(read), out' = out, Ending(Made(pos)[within + 1]),
             status' = IF Made(pos)[within + 1].kind = "unknown" THEN "stopped" ELSE "error"
      PROVE  PopInv'
  <2>1. batches' = batches /\ start' = start /\ known' = known
    BY <1>5 DEF Advance
  <2>2. PopIs'
    BY <1>0, <1>5, <2>1, EndKeeps
  <2>3. CursorIs'
    <3>1. read \in Nat
      BY <1>0 DEF Typed
    <3> QED
      BY <1>0, <1>5, <3>1, AdvanceDone
  <2> QED
    BY <1>0, <2>2, <2>3 DEF PopInv
<1>6. CASE Next
  <2> DEFINE m == Made(pos)[within + 1]
             m1 == [kind |-> "l2", id |-> <<seq.id, NextSegment + 1>>, read |-> read]
             m2 == [kind |-> "delayed", id |-> <<read>>, read |-> read + 1]
             m3 == [kind |-> "invalid", id |-> <<seq.id>>, read |-> seq.after]
             t1 == Clamp(NextClock, seq.min, seq.max)
  <2>1. AtBatch => m1 \in Messages /\ m2 \in Messages /\ m3 \in Messages /\ t1 \in Nat /\ seq.max \in Nat
                   /\ 0 \in Nat /\ read \in Nat /\ seq.after \in Nat
    BY <1>0, YieldedTyped DEF AtBatch
  <2>2. AtBatch /\ status = "running" =>
          /\ Kind = "l2" => m = m1
          /\ Kind = "bad" => m.kind = "bad"
          /\ Kind = "unknown" => m.kind = "unknown"
          /\ Kind = "delayed" /\ read < seq.after => m = m2
          /\ Kind = "delayed" /\ ~ (read < seq.after) => m = m3
    BY <1>0, <1>3, PopGives
  <2>3. /\ m1.kind = "l2" /\ m2.kind = "delayed" /\ m3.kind = "invalid" /\ m2.id[1] = read
    OBVIOUS
  <2>4. \/ /\ UNCHANGED <<batches, known, start, cursor, out>>
           /\ status = "running" /\ status' = "whole" /\ pos > Len(batches)
        \/ /\ AtBatch /\ status = "running"
           /\ \/ Kind = "l2" /\ Advance(read) /\ Yields(m1, t1)
              \/ Kind = "delayed" /\ read < seq.after /\ read \in known /\ Advance(read + 1) /\ Yields(m2, 0)
              \/ Kind = "delayed" /\ read >= seq.after /\ Advance(read) /\ Yields(m3, seq.max)
              \/ /\ Kind = "bad" \/ (Kind = "delayed" /\ read < seq.after /\ read \notin known)
                 /\ status' = "error" /\ Advance(read) /\ out' = out
              \/ Kind = "unknown" /\ status' = "stopped" /\ Advance(read) /\ out' = out
    BY <1>0, <1>6, Steps
  <2> HIDE DEF m, m1, m2, m3, t1
  <2>5. CASE AtBatch /\ status = "running" /\ Kind = "l2" /\ Advance(read) /\ Yields(m1, t1)
    <3>1. NewRead = read /\ m = m1 /\ ~ Ending(m1)
      BY <2>2, <2>3, <2>5 DEF NewRead, Ending
    <3> QED
      BY <1>4, <2>1, <2>5, <3>1 DEF m
  <2>6. CASE AtBatch /\ status = "running" /\ Kind = "delayed" /\ read < seq.after /\ read \in known
             /\ Advance(read + 1) /\ Yields(m2, 0)
    <3>1. NewRead = read + 1 /\ m = m2 /\ ~ Ending(m2)
      BY <2>2, <2>3, <2>6 DEF NewRead, Ending
    <3> QED
      BY <1>4, <2>1, <2>6, <3>1 DEF m
  <2>7. CASE AtBatch /\ status = "running" /\ Kind = "delayed" /\ read >= seq.after
             /\ Advance(read) /\ Yields(m3, seq.max)
    <3>1. ~ (read < seq.after)
      BY <2>1, <2>7
    <3>2. NewRead = read /\ m = m3 /\ ~ Ending(m3)
      BY <2>2, <2>3, <2>7, <3>1 DEF NewRead, Ending
    <3> QED
      BY <1>4, <2>1, <2>7, <3>2 DEF m
  <2>8. CASE AtBatch /\ status = "running" /\ Kind = "bad" /\ status' = "error" /\ Advance(read) /\ out' = out
    <3>1. Ending(m) /\ m.kind # "unknown"
      BY <2>2, <2>8 DEF Ending
    <3> QED
      BY <1>5, <2>8, <3>1 DEF m
  <2>9. CASE AtBatch /\ status = "running" /\ Kind = "delayed" /\ read < seq.after /\ read \notin known
             /\ status' = "error" /\ Advance(read) /\ out' = out
    <3>1. Ending(m) /\ m.kind # "unknown"
      BY <2>2, <2>3, <2>9 DEF Ending
    <3> QED
      BY <1>5, <2>9, <3>1 DEF m
  <2>10. CASE AtBatch /\ status = "running" /\ Kind = "unknown" /\ status' = "stopped" /\ Advance(read) /\ out' = out
    <3>1. Ending(m) /\ m.kind = "unknown"
      BY <2>2, <2>10 DEF Ending
    <3> QED
      BY <1>5, <2>10, <3>1 DEF m
  <2> QED
    BY <1>2, <2>4, <2>5, <2>6, <2>7, <2>8, <2>9, <2>10
<1> QED
  BY <1>1, <1>6

\* Whatever the window, the delayed messages known and the count read so far, what has been
\* popped is the beginning of what the window stands for, and when the loop ends, all of it.
THEOREM PopsAreExpansion == Spec => []PopsExpansion
<1>1. Init => PopInv
  BY InitPopInv
<1>2. PopInv /\ [Next]_vars => PopInv'
  BY NextPopInv
<1>3. PopInv => PopsExpansion
  <2> SUFFICES ASSUME PopInv PROVE PopsExpansion
    OBVIOUS
  <2>1. Typed /\ PopIs
    BY DEF PopInv
  <2>2. status # "running" => Popped = Expansion.out /\ status = Expansion.ends
    BY <2>1 DEF PopIs
  <2>3. Len(Popped) = Len(out) /\ Len(out) \in Nat
    BY <2>1 DEF Popped, Typed
  <2>4. Begins(Popped, Expansion.out)
    <3>1. CASE status = "running"
      BY <2>1, <3>1, PoppedBegins
    <3>2. CASE status # "running"
      BY <2>2, <2>3, <3>2 DEF Begins
    <3> QED
      BY <3>1, <3>2
  <2> DEFINE e == Expansion.out
             n == Len(out)
  <2>5. n <= Len(e) /\ \A i \in 1 .. n : Popped[i] = e[i]
    BY <2>3, <2>4 DEF Begins
  <2>6. Popped = [i \in 1 .. n |-> Popped[i]]
    BY DEF Popped
  <2>7. SubSeq(e, 1, n) = [i \in 1 .. n |-> e[i]]
    <3> HIDE DEF e, n
    <3>1. n \in Nat
      BY <2>3 DEF n
    <3> QED
      BY <3>1
  <2> HIDE DEF e, n
  <2>8. Popped = SubSeq(e, 1, n)
    BY <2>5, <2>6, <2>7
  <2> QED
    BY <2>2, <2>5, <2>8 DEF PopsExpansion, e, n
<1> QED
  BY <1>1, <1>2, <1>3, PTL DEF Spec

=============================================================================

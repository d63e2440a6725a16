--------------------------- MODULE BatchPosterProofs ---------------------------
(***************************************************************************)
(* Theorems about the batch poster for every budget, all sizes of messages *)
(* and any number of batches, reorgs of the log and restarts.              *)
(***************************************************************************)
EXTENDS BatchPoster, TLAPS

LogMessage == [size : Sizes, fork : Nat]
Segment == [idx : Nat, msg : LogMessage]
PosterState ==
  [pc : {"tick", "bounds", "take", "post", "ended"}, last : Int, cursor : Nat,
   head : Nat, segs : Seq(Segment), bytes : Nat]
SentBatch == [after : Int, segs : Seq(Segment)]
Counters == [moves : Nat, reorgs : Nat, restarts : Nat]

\* The types of the poster's and the other tasks' state; messages are taken only
\* while a batch is being built.
TypeOK ==
  /\ log \in Seq(LogMessage)
  /\ delayedCount \in Nat
  /\ ps \in PosterState
  /\ sent \in Seq(SentBatch)
  /\ used \in Counters
  /\ ps.pc \in {"tick", "bounds", "ended"} => ps.segs = <<>>
  /\ ps.pc # "take" => ps.bytes = 0

\* The constants, as the proofs use them.
LEMMA Bounds ==
  /\ MaxLog \in Nat /\ MaxDelayed \in Nat /\ Budget \in Nat
  /\ \A size \in Sizes : size \in Nat
  BY PosterAssumption

\* The message that the loop is at is in the log, and taking it appends its size.
LEMMA TakeStep ==
  ASSUME TypeOK, Take
  PROVE  /\ ps.pc = "take" /\ ps'.pc = "take"
         /\ MessageAt \in LogMessage
         /\ MessageAt.size \in Nat
         /\ At \in Nat /\ At < Len(log)
         /\ ps.bytes + MessageAt.size <= Budget
         /\ [idx |-> At, msg |-> MessageAt] \in Segment
         /\ ps'.segs = Append(ps.segs, [idx |-> At, msg |-> MessageAt])
         /\ ps'.segs \in Seq(Segment)
         /\ ps'.bytes = ps.bytes + MessageAt.size
         /\ ps'.cursor = ps.cursor
         /\ ps' \in PosterState
         /\ UNCHANGED <<log, delayedCount, sent, used>>
<1>1. /\ ps \in PosterState /\ ps.segs \in Seq(Segment) /\ Len(ps.segs) \in Nat
      /\ log \in Seq(LogMessage) /\ Len(log) \in Nat
  BY DEF TypeOK, PosterState
<1>2. At \in Nat /\ At < Len(log) /\ ps.bytes + MessageAt.size <= Budget
  BY <1>1 DEF Take, Fits, There, At, PosterState
<1>3. MessageAt \in LogMessage
  BY <1>1, <1>2 DEF MessageAt
<1>4. MessageAt.size \in Nat
  BY <1>3, Bounds DEF LogMessage
<1>5. [idx |-> At, msg |-> MessageAt] \in Segment
  BY <1>2, <1>3 DEF Segment
<1> DEFINE segs == Append(ps.segs, [idx |-> At, msg |-> MessageAt])
<1>6. segs \in Seq(Segment)
  BY <1>1, <1>5
<1>7. ps' = [ps EXCEPT !.segs = segs, !.bytes = ps.bytes + MessageAt.size] /\ ps.pc = "take"
  BY DEF Take
<1> HIDE DEF segs
<1>8. ps' \in PosterState
  <2>1. ps.bytes + MessageAt.size \in Nat
    BY <1>1, <1>4 DEF PosterState
  <2> QED
    BY <1>1, <1>6, <1>7, <2>1 DEF PosterState
<1>9. /\ ps'.segs = segs
      /\ ps'.bytes = ps.bytes + MessageAt.size
      /\ ps'.pc = "take"
      /\ ps'.cursor = ps.cursor
  BY <1>1, <1>7 DEF PosterState
<1> QED
  BY <1>2, <1>3, <1>4, <1>5, <1>6, <1>7, <1>8, <1>9 DEF Take, segs

\* A batch that is sent goes to the end of what was sent.
LEMMA SendStep ==
  ASSUME TypeOK, sent' = Append(sent, Batch)
  PROVE  /\ Batch \in SentBatch
         /\ Batch.segs = ps.segs
         /\ sent' \in Seq(SentBatch)
         /\ Len(sent) \in Nat
         /\ Len(sent') = Len(sent) + 1
         /\ sent'[Len(sent) + 1] = Batch
         /\ \A k \in 1 .. Len(sent) : sent'[k] = sent[k]
<1>1. Batch \in SentBatch /\ Batch.segs = ps.segs /\ sent \in Seq(SentBatch)
  BY DEF TypeOK, Batch, SentBatch, PosterState
<1> QED
  BY <1>1

\* Every step keeps the types.
LEMMA TypeStep ==
  ASSUME TypeOK, [Next]_vars
  PROVE  TypeOK'
<1>1. /\ ps \in PosterState /\ used \in Counters
      /\ log \in Seq(LogMessage) /\ Len(log) \in Nat
  BY DEF TypeOK
<1>2. ASSUME NEW size \in Sizes, AppendMessage(size) PROVE TypeOK'
  <2>1. Message(size) \in LogMessage
    BY <1>1 DEF Message, LogMessage, Counters
  <2>2. Append(log, Message(size)) \in Seq(LogMessage)
    BY <1>1, <2>1
  <2> QED
    BY <1>2, <2>2 DEF AppendMessage, TypeOK
<1>3. ASSUME NEW n \in 0 .. MaxLog, ReorgLog(n) PROVE TypeOK'
  <2>1. n \in 0 .. Len(log)
    BY <1>1, <1>3, Bounds DEF ReorgLog
  <2>2. SubSeq(log, 1, n) \in Seq(LogMessage)
    BY <1>1, <2>1
  <2>3. used' \in Counters
    BY <1>1, <1>3 DEF ReorgLog, Counters
  <2> QED
    BY <1>3, <2>2, <2>3 DEF ReorgLog, TypeOK
<1>4. ASSUME NEW n \in 0 .. MaxDelayed, MoveDelayed(n) PROVE TypeOK'
  <2>1. used' \in Counters
    BY <1>1, <1>4 DEF MoveDelayed, Counters
  <2>2. n \in Nat
    BY Bounds
  <2> QED
    BY <1>4, <2>1, <2>2 DEF MoveDelayed, TypeOK
<1>5. CASE Build
  <2>1. ps' = [ps EXCEPT !.pc = "bounds", !.last = delayedCount] /\ ps.pc = "tick"
    BY <1>5 DEF Build
  <2>2. delayedCount \in Int
    BY DEF TypeOK
  <2>3. /\ ps' \in PosterState
        /\ ps'.segs = ps.segs /\ ps'.bytes = ps.bytes /\ ps'.pc = "bounds"
    BY <1>1, <2>1, <2>2 DEF PosterState
  <2> QED
    BY <1>5, <2>1, <2>3 DEF Build, TypeOK
<1>6. CASE ReadHead
  <2>1. HeadIndex \in Nat
    <3>1. log # <<>> => Len(log) > 0
      BY <1>1
    <3> QED
      BY <1>1, <3>1, Bounds DEF HeadIndex
  <2>2. ps' \in PosterState /\ ps'.pc = "take"
    BY <1>1, <1>6, <2>1 DEF ReadHead, PosterState
  <2> QED
    BY <1>6, <2>2 DEF ReadHead, TypeOK
<1>7. CASE Take
  BY <1>7, TakeStep DEF TypeOK
<1>8. CASE TakenAll
  <2>1. Cursor \in Nat
    BY <1>1 DEF Cursor, PosterState
  <2>2. ps' \in PosterState /\ ps'.pc = "post"
    BY <1>1, <1>8, <2>1 DEF TakenAll, PosterState
  <2> QED
    BY <1>8, <2>2 DEF TakenAll, TypeOK
<1>9. CASE Posted \/ PostFails
  <2>1. sent' = sent \/ sent' = Append(sent, Batch)
    BY <1>9 DEF Posted, PostFails
  <2>2. sent' \in Seq(SentBatch)
    BY <2>1, SendStep DEF TypeOK
  <2>3. PICK pc \in {"tick", "ended"} : ps' = [ps EXCEPT !.pc = pc, !.segs = <<>>]
    BY <1>9 DEF Posted, PostFails, Ends
  <2>4. <<>> \in Seq(Segment)
    OBVIOUS
  <2>5. /\ ps' \in PosterState
        /\ ps'.segs = <<>> /\ ps'.bytes = ps.bytes /\ ps'.pc = pc
    BY <1>1, <2>3, <2>4 DEF PosterState
  <2>6. ps.pc = "post"
    BY <1>9 DEF Posted, PostFails
  <2>7. UNCHANGED <<log, delayedCount, used>>
    BY <1>9 DEF Posted, PostFails
  <2> QED
    BY <2>2, <2>5, <2>6, <2>7 DEF TypeOK
<1>10. CASE Restart
  <2>1. Start \in PosterState /\ Start.segs = <<>> /\ Start.bytes = 0
    BY DEF Start, PosterState, NoCount
  <2>2. used' \in Counters
    BY <1>1, <1>10 DEF Restart, Counters
  <2> QED
    BY <1>10, <2>1, <2>2 DEF Restart, TypeOK
<1>11. CASE UNCHANGED vars
  BY <1>11 DEF vars, TypeOK
<1> QED
  BY <1>2, <1>3, <1>4, <1>5, <1>6, <1>7, <1>8, <1>9, <1>10, <1>11 DEF Next, Poster

\* Initially there is no log, and the poster has not started a batch.
LEMMA TypeInit == Init => TypeOK
  BY DEF Init, Start, NoCount, TypeOK, PosterState, Counters, LogMessage, SentBatch

\* The poster's state stays within its types.
THEOREM PosterTypeCorrect == Spec => []TypeOK
  BY TypeInit, TypeStep, PTL DEF Spec

(***************************************************************************)
(* The budget.                                                             *)
(***************************************************************************)

\* The running total of a batch's sizes.
AddsUp(segs, total) ==
  /\ total \in [0 .. Len(segs) -> 0 .. Budget]
  /\ total[0] = 0
  /\ \A i \in 1 .. Len(segs) : total[i] = total[i - 1] + segs[i].msg.size

\* While the loop runs, its counter is the total of what it has taken.
BudgetInv ==
  /\ WithinBudget
  /\ \E total : AddsUp(ps.segs, total) /\ (ps.pc = "take" => total[Len(ps.segs)] = ps.bytes)

\* Nothing adds up to nothing.
LEMMA NothingAddsUp == AddsUp(<<>>, [i \in 0 .. 0 |-> 0])
  BY Bounds DEF AddsUp

\* One more message that fits.
LEMMA OneMoreAddsUp ==
  ASSUME NEW segs \in Seq(Segment), NEW total, AddsUp(segs, total), NEW seg \in Segment,
         total[Len(segs)] + seg.msg.size <= Budget
  PROVE  \E more : /\ AddsUp(Append(segs, seg), more)
                   /\ more[Len(segs) + 1] = total[Len(segs)] + seg.msg.size
<1> DEFINE n == Len(segs)
           more == [i \in 0 .. n + 1 |-> IF i <= n THEN total[i] ELSE total[n] + seg.msg.size]
           longer == Append(segs, seg)
<1>1. n \in Nat /\ seg.msg.size \in Nat /\ Budget \in Nat
  BY Bounds DEF Segment, LogMessage
<1>2. /\ Len(longer) = n + 1
      /\ longer[n + 1] = seg
      /\ \A i \in 1 .. n : longer[i] = segs[i]
  OBVIOUS
<1>3. /\ total \in [0 .. n -> 0 .. Budget]
      /\ total[0] = 0
      /\ \A i \in 1 .. n : total[i] = total[i - 1] + segs[i].msg.size
  BY DEF AddsUp
<1> HIDE DEF n, longer
<1>4. total[n] + seg.msg.size \in 0 .. Budget
  BY <1>1, <1>3 DEF n
<1>5. more \in [0 .. n + 1 -> 0 .. Budget]
  BY <1>1, <1>3, <1>4
<1>6. more[0] = 0 /\ more[n + 1] = total[n] + seg.msg.size
  BY <1>1, <1>3
<1>7. ASSUME NEW i \in 1 .. n + 1 PROVE more[i] = more[i - 1] + longer[i].msg.size
  <2>1. CASE i = n + 1
    BY <1>1, <1>2, <2>1
  <2>2. CASE i # n + 1
    <3>1. i \in 1 .. n /\ i - 1 \in 0 .. n /\ i \in 0 .. n
      BY <1>1, <2>2
    <3>2. more[i] = total[i] /\ more[i - 1] = total[i - 1]
      BY <1>1, <3>1
    <3> HIDE DEF more
    <3> QED
      BY <1>2, <1>3, <3>1, <3>2
  <2> QED
    BY <2>1, <2>2
<1> HIDE DEF more
<1>8. AddsUp(longer, more)
  BY <1>2, <1>5, <1>6, <1>7 DEF AddsUp
<1> QED
  BY <1>6, <1>8 DEF longer, n

\* Every step keeps what is taken, and what was sent, within the budget.
LEMMA BudgetStep ==
  ASSUME TypeOK, BudgetInv, [Next]_vars
  PROVE  BudgetInv'
<1>1. PICK total : /\ AddsUp(ps.segs, total)
                   /\ ps.pc = "take" => total[Len(ps.segs)] = ps.bytes
  BY DEF BudgetInv
<1>2. /\ ps \in PosterState
      /\ ps.segs \in Seq(Segment)
  BY DEF TypeOK, PosterState
<1>3. sent' = sent => WithinBudget'
  BY Zenon DEF BudgetInv, WithinBudget
<1>4. CASE ps' = ps /\ sent' = sent
  BY <1>3, <1>4 DEF BudgetInv
<1>5. CASE Build
  <2>1. ps'.pc # "take" /\ ps'.segs = ps.segs /\ sent' = sent
    BY <1>2, <1>5 DEF Build, PosterState
  <2> QED
    BY <1>1, <1>3, <2>1 DEF BudgetInv
<1>6. CASE ReadHead
  <2>1. ps.segs = <<>> /\ ps.bytes = 0
    BY <1>6 DEF ReadHead, TypeOK
  <2>2. ps'.segs = <<>> /\ ps'.bytes = 0 /\ sent' = sent
    BY <1>2, <1>6, <2>1 DEF ReadHead, PosterState
  <2> QED
    BY <1>3, <2>2, NothingAddsUp DEF BudgetInv
<1>7. CASE Take
  <2> DEFINE seg == [idx |-> At, msg |-> MessageAt]
  <2>1. /\ ps.pc = "take"
        /\ seg \in Segment
        /\ seg.msg.size = MessageAt.size
        /\ ps.bytes + MessageAt.size <= Budget
        /\ ps'.segs = Append(ps.segs, seg)
        /\ ps'.bytes = ps.bytes + MessageAt.size
        /\ sent' = sent
    BY <1>7, TakeStep
  <2> HIDE DEF seg
  <2>2. PICK more : /\ AddsUp(Append(ps.segs, seg), more)
                    /\ more[Len(ps.segs) + 1] = total[Len(ps.segs)] + seg.msg.size
    BY <1>1, <1>2, <2>1, OneMoreAddsUp
  <2>3. Len(ps'.segs) = Len(ps.segs) + 1
    BY <1>2, <2>1
  <2> QED
    BY <1>1, <1>3, <2>1, <2>2, <2>3 DEF BudgetInv
<1>8. CASE TakenAll
  <2>1. ps'.pc = "post" /\ ps'.segs = ps.segs /\ sent' = sent
    BY <1>2, <1>8 DEF TakenAll, PosterState
  <2> QED
    BY <1>1, <1>3, <2>1 DEF BudgetInv
<1>9. CASE Posted \/ PostFails
  <2>1. ps'.pc # "take" /\ ps'.segs = <<>>
    BY <1>2, <1>9 DEF Posted, PostFails, Ends, PosterState
  <2>2. ASSUME sent' = Append(sent, Batch) PROVE WithinBudget'
    <3>1. /\ Batch.segs = ps.segs
          /\ Len(sent) \in Nat
          /\ Len(sent') = Len(sent) + 1
          /\ sent'[Len(sent) + 1] = Batch
          /\ \A k \in 1 .. Len(sent) : sent'[k] = sent[k]
      BY <2>2, SendStep
    <3>2. ASSUME NEW k \in 1 .. Len(sent')
          PROVE  FitTogether(sent'[k].segs)
      <4>1. CASE k = Len(sent) + 1
        <5>1. FitTogether(ps.segs)
          BY <1>1 DEF AddsUp, FitTogether
        <5> QED
          BY <3>1, <4>1, <5>1
      <4>2. CASE k # Len(sent) + 1
        <5>1. k \in 1 .. Len(sent) /\ sent'[k] = sent[k]
          BY <3>1, <3>2, <4>2
        <5> QED
          BY <5>1 DEF BudgetInv, WithinBudget
      <4> QED
        BY <4>1, <4>2
    <3> QED
      BY <3>2 DEF WithinBudget
  <2>3. sent' = sent \/ sent' = Append(sent, Batch)
    BY <1>9 DEF Posted, PostFails
  <2> QED
    BY <1>3, <2>1, <2>2, <2>3, NothingAddsUp DEF BudgetInv
<1>10. CASE Restart
  <2>1. ps'.segs = <<>> /\ ps'.pc # "take" /\ sent' = sent
    BY <1>10 DEF Restart, Start
  <2> QED
    BY <1>3, <2>1, NothingAddsUp DEF BudgetInv
<1>11. ASSUME \/ \E size \in Sizes : AppendMessage(size)
              \/ \E n \in 0 .. MaxLog : ReorgLog(n)
              \/ \E n \in 0 .. MaxDelayed : MoveDelayed(n)
              \/ UNCHANGED vars
       PROVE  ps' = ps /\ sent' = sent
  BY <1>11 DEF AppendMessage, ReorgLog, MoveDelayed, vars
<1> QED
  BY <1>4, <1>5, <1>6, <1>7, <1>8, <1>9, <1>10, <1>11 DEF Next, Poster

\* However messages of different sizes meet in a batch, and whatever is appended
\* or rolled back while it is being built, no batch exceeds the budget.
THEOREM BatchesFit == Spec => []WithinBudget
<1>1. Init => BudgetInv
  BY NothingAddsUp DEF Init, Start, BudgetInv, WithinBudget
<1>2. TypeOK /\ BudgetInv /\ [Next]_vars => BudgetInv'
  BY BudgetStep
<1>3. BudgetInv => WithinBudget
  BY DEF BudgetInv
<1> QED
  BY <1>1, <1>2, <1>3, PosterTypeCorrect, PTL DEF Spec

(***************************************************************************)
(* The order of the messages that reach L1.                                *)
(***************************************************************************)

\* The last index before those that are taken; the cursor moves past them before
\* they are sent.
Base == IF ps.pc = "post" THEN ps.cursor - Len(ps.segs) ELSE ps.cursor

\* What is taken follows on Base, and what was sent ends there.
TakenInOrder ==
  /\ Base \in Nat
  /\ \A i \in 1 .. Len(ps.segs) : ps.segs[i].idx = Base + i

SentUpToBase ==
  /\ \A k \in 1 .. Len(sent) : \A i \in 1 .. Len(sent[k].segs) : sent[k].segs[i].idx <= Base
  /\ \A n \in 1 .. Base :
       \E k \in 1 .. Len(sent) : \E i \in 1 .. Len(sent[k].segs) : sent[k].segs[i].idx = n

OrderInv ==
  /\ TakenInOrder
  /\ ~HasKey => sent = <<>>
  /\ SentInOrder
  /\ used.restarts = 0 /\ HasKey /\ ps.pc # "ended" => SentUpToBase

\* A batch that follows on Base keeps the order when it is sent, and then all up
\* to its last message was sent.
LEMMA SendInOrder ==
  ASSUME TypeOK, used.restarts = 0, TakenInOrder, SentInOrder, SentUpToBase,
         sent' = Append(sent, Batch), used' = used
  PROVE  /\ SentInOrder'
         /\ \A k \in 1 .. Len(sent') : \A i \in 1 .. Len(sent'[k].segs) :
              sent'[k].segs[i].idx <= Base + Len(ps.segs)
         /\ \A n \in 1 .. Base + Len(ps.segs) :
              \E k \in 1 .. Len(sent') : \E i \in 1 .. Len(sent'[k].segs) :
                sent'[k].segs[i].idx = n
<1> DEFINE m == Len(sent)
           b == Base
           len == Len(ps.segs)
<1>1. /\ m \in Nat /\ len \in Nat /\ b \in Nat
      /\ Len(sent') = m + 1
      /\ sent'[m + 1].segs = ps.segs
      /\ \A k \in 1 .. m : sent'[k] = sent[k]
  <2>1. ps.segs \in Seq(Segment)
    BY DEF TypeOK, PosterState
  <2> QED
    BY <2>1, SendStep DEF TakenInOrder
<1>2. \A i \in 1 .. len : ps.segs[i].idx = b + i
  BY DEF TakenInOrder
<1>3. \A k \in 1 .. m : \A i \in 1 .. Len(sent[k].segs) :
        sent[k].segs[i].idx <= b /\ sent[k].segs[i].idx \in Nat
  <2>1. ASSUME NEW k \in 1 .. m, NEW i \in 1 .. Len(sent[k].segs)
        PROVE  sent[k].segs[i].idx \in Nat
    <3>1. sent[k] \in SentBatch
      BY <1>1 DEF TypeOK
    <3>2. sent[k].segs \in Seq(Segment)
      BY <3>1 DEF SentBatch
    <3>3. sent[k].segs[i] \in Segment
      BY <2>1, <3>2
    <3> QED
      BY <3>3 DEF Segment
  <2> QED
    BY <2>1 DEF SentUpToBase
<1>4. \A n \in 1 .. b : \E k \in 1 .. m : \E i \in 1 .. Len(sent[k].segs) : sent[k].segs[i].idx = n
  BY DEF SentUpToBase
<1>5. \A k \in 1 .. m : \A i \in 1 .. Len(sent[k].segs) :
        /\ sent[k].segs[i].idx >= 1
        /\ \A l \in 1 .. k : \A j \in 1 .. Len(sent[l].segs) :
             l < k \/ j < i => sent[l].segs[j].idx < sent[k].segs[i].idx
        /\ \A n \in 1 .. sent[k].segs[i].idx :
             \E l \in 1 .. k : \E j \in 1 .. Len(sent[l].segs) : sent[l].segs[j].idx = n
  BY DEF SentInOrder, InOrder
<1> HIDE DEF m, b, len
<1>6. \A k \in 1 .. m + 1 : k \in 1 .. m \/ k = m + 1
  BY <1>1
<1>7. ASSUME NEW n \in 1 .. b + len
      PROVE  \E k \in 1 .. m + 1 : \E i \in 1 .. Len(sent'[k].segs) : sent'[k].segs[i].idx = n
  <2>1. CASE n \in 1 .. b
    <3>1. PICK k \in 1 .. m : \E i \in 1 .. Len(sent[k].segs) : sent[k].segs[i].idx = n
      BY <1>4, <2>1
    <3>2. k \in 1 .. m + 1 /\ sent'[k] = sent[k]
      BY <1>1, <3>1
    <3> QED
      BY <3>1, <3>2
  <2>2. CASE n \notin 1 .. b
    <3>1. n - b \in 1 .. len /\ b + (n - b) = n /\ m + 1 \in 1 .. m + 1
      BY <1>1, <2>2
    <3>2. ps.segs[n - b].idx = n
      BY <1>2, <3>1
    <3> QED
      BY <1>1, <3>1, <3>2 DEF len
  <2> QED
    BY <2>1, <2>2
<1>8. ASSUME NEW k \in 1 .. m + 1, NEW i \in 1 .. Len(sent'[k].segs)
      PROVE  sent'[k].segs[i].idx <= b + len /\ sent'[k].segs[i].idx >= 1
  <2>1. CASE k \in 1 .. m
    BY <1>1, <1>3, <1>5, <1>8, <2>1
  <2>2. CASE k = m + 1
    <3>1. i \in 1 .. len /\ sent'[k].segs[i].idx = b + i
      BY <1>1, <1>2, <1>8, <2>2 DEF len
    <3> QED
      BY <1>1, <3>1
  <2> QED
    BY <1>6, <2>1, <2>2
<1>9. ASSUME NEW k \in 1 .. m + 1, NEW i \in 1 .. Len(sent'[k].segs),
             NEW l \in 1 .. k, NEW j \in 1 .. Len(sent'[l].segs), l < k \/ j < i
      PROVE  sent'[l].segs[j].idx < sent'[k].segs[i].idx
  <2>1. CASE k \in 1 .. m
    <3>1. l \in 1 .. m
      BY <1>1, <2>1
    <3> QED
      BY <1>1, <1>5, <1>9, <2>1, <3>1
  <2>2. CASE k = m + 1
    <3>1. i \in 1 .. len /\ sent'[k].segs[i].idx = b + i
      BY <1>1, <1>2, <1>9, <2>2 DEF len
    <3>2. CASE l = m + 1
      <4>1. j \in 1 .. len /\ sent'[l].segs[j].idx = b + j /\ j < i
        BY <1>1, <1>2, <1>9, <2>2, <3>2 DEF len
      <4> QED
        BY <1>1, <3>1, <4>1
    <3>3. CASE l # m + 1
      <4>1. l \in 1 .. m
        BY <1>1, <2>2, <3>3
      <4>2. sent'[l].segs[j].idx <= b /\ sent'[l].segs[j].idx \in Nat
        BY <1>1, <1>3, <1>9, <4>1
      <4> QED
        BY <1>1, <3>1, <4>2
    <3> QED
      BY <3>2, <3>3
  <2> QED
    BY <1>6, <2>1, <2>2
<1>10. ASSUME NEW k \in 1 .. m + 1, NEW i \in 1 .. Len(sent'[k].segs),
              NEW n \in 1 .. sent'[k].segs[i].idx
       PROVE  \E l \in 1 .. k : \E j \in 1 .. Len(sent'[l].segs) : sent'[l].segs[j].idx = n
  <2>1. CASE k \in 1 .. m
    <3>1. PICK l \in 1 .. k : \E j \in 1 .. Len(sent[l].segs) : sent[l].segs[j].idx = n
      BY SMTT(30), <1>1, <1>5, <1>10, <2>1
    <3>2. l \in 1 .. m
      BY <1>1, <2>1
    <3> QED
      BY <1>1, <3>1, <3>2
  <2>2. CASE k = m + 1
    <3>1. i \in 1 .. len /\ sent'[k].segs[i].idx = b + i
      BY <1>1, <1>2, <1>10, <2>2 DEF len
    <3>2. n \in 1 .. b + len
      BY <1>1, <1>10, <3>1
    <3> QED
      BY <1>7, <2>2, <3>2
  <2> QED
    BY <1>6, <2>1, <2>2
<1>11. SentInOrder'
  <2>1. SUFFICES ASSUME NEW k \in 1 .. Len(sent'), NEW i \in 1 .. Len(sent'[k].segs)
        PROVE  /\ sent'[k].segs[i].idx >= 1
               /\ \A l \in 1 .. k : \A j \in 1 .. Len(sent'[l].segs) :
                    l < k \/ j < i => sent'[l].segs[j].idx < sent'[k].segs[i].idx
               /\ \A n \in 1 .. sent'[k].segs[i].idx :
                    \E l \in 1 .. k : \E j \in 1 .. Len(sent'[l].segs) : sent'[l].segs[j].idx = n
    BY DEF SentInOrder, InOrder
  <2>2. k \in 1 .. m + 1
    BY <1>1
  <2>3. sent'[k].segs[i].idx >= 1
    BY <1>8, <2>2
  <2>4. \A l \in 1 .. k : \A j \in 1 .. Len(sent'[l].segs) :
          l < k \/ j < i => sent'[l].segs[j].idx < sent'[k].segs[i].idx
    BY <1>9, <2>2
  <2>5. \A n \in 1 .. sent'[k].segs[i].idx :
          \E l \in 1 .. k : \E j \in 1 .. Len(sent'[l].segs) : sent'[l].segs[j].idx = n
    BY <1>10, <2>2
  <2> QED
    BY <2>3, <2>4, <2>5
<1>12. /\ \A k \in 1 .. Len(sent') : \A i \in 1 .. Len(sent'[k].segs) :
            sent'[k].segs[i].idx <= b + len
       /\ \A n \in 1 .. b + len :
            \E k \in 1 .. Len(sent') : \E i \in 1 .. Len(sent'[k].segs) : sent'[k].segs[i].idx = n
  <2>1. 1 .. Len(sent') = 1 .. m + 1
    BY <1>1
  <2>2. ASSUME NEW k \in 1 .. Len(sent'), NEW i \in 1 .. Len(sent'[k].segs)
        PROVE  sent'[k].segs[i].idx <= b + len
    BY <1>8, <2>1, <2>2
  <2>3. ASSUME NEW n \in 1 .. b + len
        PROVE  \E k \in 1 .. Len(sent') : \E i \in 1 .. Len(sent'[k].segs) : sent'[k].segs[i].idx = n
    <3>1. PICK k \in 1 .. m + 1 : \E i \in 1 .. Len(sent'[k].segs) : sent'[k].segs[i].idx = n
      BY <1>7, <2>3
    <3> QED
      BY <2>1, <3>1, Zenon
  <2> QED
    BY <2>2, <2>3, Zenon
<1> QED
  BY <1>11, <1>12 DEF b, len

\* Every step keeps the order.
LEMMA OrderStep ==
  ASSUME TypeOK, OrderInv, [Next]_vars
  PROVE  OrderInv'
<1>1. /\ ps \in PosterState /\ ps.cursor \in Nat
      /\ ps.segs \in Seq(Segment) /\ Len(ps.segs) \in Nat
      /\ TakenInOrder /\ SentInOrder
  BY DEF TypeOK, PosterState, OrderInv
<1>2. ASSUME sent' = sent, used'.restarts = used.restarts, TakenInOrder',
             ps'.pc # "ended" => ps.pc # "ended" /\ Base' = Base
      PROVE  OrderInv'
  <2>1. SentInOrder'
    BY <1>1, <1>2 DEF SentInOrder
  <2>2. ps'.pc # "ended" /\ SentUpToBase => SentUpToBase'
    BY <1>2 DEF SentUpToBase
  <2> QED
    BY <1>2, <2>1, <2>2 DEF OrderInv
<1>3. ASSUME ps' = ps, sent' = sent, used'.restarts = used.restarts
      PROVE  OrderInv'
  BY <1>1, <1>2, <1>3 DEF TakenInOrder, Base
<1>4. CASE \/ \E size \in Sizes : AppendMessage(size)
           \/ \E n \in 0 .. MaxLog : ReorgLog(n)
           \/ \E n \in 0 .. MaxDelayed : MoveDelayed(n)
           \/ UNCHANGED vars
  <2>1. used'.restarts = used.restarts
    BY <1>4 DEF AppendMessage, ReorgLog, MoveDelayed, vars, TypeOK, Counters
  <2>2. ps' = ps /\ sent' = sent
    BY <1>4 DEF AppendMessage, ReorgLog, MoveDelayed, vars
  <2> QED
    BY <1>3, <2>1, <2>2
<1>5. CASE Build \/ ReadHead
  <2>1. /\ ps.pc \in {"tick", "bounds"} /\ ps'.pc \in {"bounds", "take"}
        /\ ps'.segs = ps.segs /\ ps'.cursor = ps.cursor
        /\ sent' = sent /\ used' = used
    BY <1>1, <1>5 DEF Build, ReadHead, PosterState
  <2>2. Base' = Base /\ TakenInOrder'
    BY <1>1, <2>1 DEF Base, TakenInOrder
  <2> QED
    BY <1>2, <2>1, <2>2
<1>6. CASE Take
  <2> DEFINE seg == [idx |-> At, msg |-> MessageAt]
  <2>1. /\ ps.pc = "take" /\ ps'.pc = "take" /\ ps'.cursor = ps.cursor
        /\ seg.idx = ps.cursor + 1 + Len(ps.segs)
        /\ seg \in Segment
        /\ ps'.segs = Append(ps.segs, seg)
        /\ sent' = sent /\ used' = used
    BY <1>6, TakeStep DEF At
  <2> HIDE DEF seg
  <2>2. Base' = Base /\ Base = ps.cursor
    BY <2>1 DEF Base
  <2>3. TakenInOrder'
    <3>1. ASSUME NEW i \in 1 .. Len(ps'.segs) PROVE ps'.segs[i].idx = Base + i
      <4>1. CASE i = Len(ps.segs) + 1
        <5>1. ps'.segs[i] = seg
          BY <1>1, <2>1, <4>1
        <5>2. seg.idx = Base + i
          BY <1>1, <2>1, <2>2, <4>1
        <5> QED
          BY <5>1, <5>2
      <4>2. CASE i # Len(ps.segs) + 1
        <5>1. i \in 1 .. Len(ps.segs) /\ ps'.segs[i] = ps.segs[i]
          BY <1>1, <2>1, <3>1, <4>2
        <5> QED
          BY <1>1, <5>1 DEF TakenInOrder
      <4> QED
        BY <4>1, <4>2
    <3> QED
      BY <1>1, <2>2, <3>1 DEF TakenInOrder
  <2> QED
    BY <1>2, <2>1, <2>2, <2>3
<1>7. CASE TakenAll
  <2>1. /\ ps.pc = "take" /\ ps'.pc = "post" /\ ps'.segs = ps.segs
        /\ ps'.cursor = ps.cursor + Len(ps.segs)
        /\ sent' = sent /\ used' = used
    BY <1>1, <1>7 DEF TakenAll, Cursor, PosterState
  <2>2. Base' = Base /\ Base = ps.cursor
    BY <1>1, <2>1 DEF Base
  <2>3. TakenInOrder'
    BY <1>1, <2>1, <2>2 DEF TakenInOrder
  <2> QED
    BY <1>2, <2>1, <2>2, <2>3
<1>8. CASE Posted \/ PostFails
  <2>1. /\ ps.pc = "post" /\ ps'.pc \in {"tick", "ended"}
        /\ ps'.segs = <<>> /\ ps'.cursor = ps.cursor /\ used' = used
    BY <1>1, <1>8 DEF Posted, PostFails, Ends, PosterState
  <2>2. Base' = Base + Len(ps.segs)
    BY <1>1, <2>1 DEF Base
  <2>3. TakenInOrder'
    BY <1>1, <2>1 DEF TakenInOrder, Base
  <2>4. CASE sent' = Append(sent, Batch)
    <3>1. HasKey
      <4>1. ~HasKey => sent' = sent
        BY <1>8 DEF Posted, PostFails
      <4>2. sent \in Seq(SentBatch) /\ Len(sent') = Len(sent) + 1 /\ Len(sent) \in Nat
        BY <2>4, SendStep DEF TypeOK
      <4> QED
        BY <4>1, <4>2
    <3>2. CASE used.restarts = 0
      <4>1. SentUpToBase
        BY <2>1, <3>1, <3>2 DEF OrderInv
      <4>2. /\ SentInOrder'
            /\ \A k \in 1 .. Len(sent') : \A i \in 1 .. Len(sent'[k].segs) :
                 sent'[k].segs[i].idx <= Base'
            /\ \A n \in 1 .. Base' :
                 \E k \in 1 .. Len(sent') : \E i \in 1 .. Len(sent'[k].segs) :
                   sent'[k].segs[i].idx = n
        BY <1>1, <2>1, <2>2, <2>4, <3>2, <4>1, SendInOrder
      <4>3. SentUpToBase'
        BY <4>2 DEF SentUpToBase
      <4> QED
        BY <2>3, <3>1, <4>2, <4>3 DEF OrderInv
    <3>3. CASE used.restarts # 0
      <4>1. SentInOrder'
        BY <2>1, <3>3 DEF SentInOrder
      <4> QED
        BY <2>1, <2>3, <3>1, <3>3, <4>1 DEF OrderInv
    <3> QED
      BY <3>2, <3>3
  <2>5. CASE sent' = sent /\ ~HasKey
    <3>1. SentInOrder'
      BY <1>1, <2>1, <2>5 DEF SentInOrder
    <3> QED
      BY <2>3, <2>5, <3>1 DEF OrderInv
  <2>6. CASE sent' = sent /\ ps'.pc = "ended"
    BY <1>2, <2>1, <2>3, <2>6
  <2>7. \/ sent' = Append(sent, Batch)
        \/ sent' = sent /\ ~HasKey
        \/ sent' = sent /\ ps'.pc = "ended"
    <3>1. PostFails => ps'.pc = "ended"
      BY <1>1 DEF PostFails, Ends, PosterState
    <3> QED
      BY <1>8, <3>1 DEF Posted, PostFails
  <2> QED
    BY <2>4, <2>5, <2>6, <2>7
<1>9. CASE Restart
  <2>1. /\ used'.restarts # 0 /\ sent' = sent
        /\ ps'.pc = "tick" /\ ps'.cursor = 0 /\ ps'.segs = <<>>
    BY <1>9 DEF Restart, Start, TypeOK, Counters
  <2>2. TakenInOrder' /\ SentInOrder'
    BY <2>1 DEF TakenInOrder, Base, SentInOrder
  <2> QED
    BY <2>1, <2>2 DEF OrderInv
<1> QED
  BY <1>4, <1>5, <1>6, <1>7, <1>8, <1>9 DEF Next, Poster

\* Until a restart, L1 gets every message after the first in order, each once and
\* none left out, for batches of any length and whatever happens to the log: with
\* a key the batch that is lost is the last one of its task.
THEOREM MessagesSentInOrder == Spec => []SentInOrder
<1>1. Init => OrderInv
  BY DEF Init, Start, OrderInv, TakenInOrder, SentInOrder, InOrder, SentUpToBase, Base
<1>2. TypeOK /\ OrderInv /\ [Next]_vars => OrderInv'
  BY OrderStep
<1>3. OrderInv => SentInOrder
  BY DEF OrderInv
<1> QED
  BY <1>1, <1>2, <1>3, PosterTypeCorrect, PTL DEF Spec

(***************************************************************************)
(* The forks of the messages that reach L1.                                *)
(***************************************************************************)

\* Messages of a log are ordered by fork, up to the current one.
ForksInOrder(msgs, now) ==
  \A m \in 1 .. Len(msgs) :
    /\ msgs[m].fork <= now
    /\ \A n \in m .. Len(msgs) : msgs[m].fork <= msgs[n].fork

\* From the index of a message that was taken on, the log has nothing older.
NothingOlder(seg, msgs, now) ==
  /\ seg.msg.fork <= now
  /\ \A m \in seg.idx + 1 .. Len(msgs) : seg.msg.fork <= msgs[m].fork

LogInv ==
  /\ ForksInOrder(log, used.reorgs)
  /\ \A i \in 1 .. Len(ps.segs) : NothingOlder(ps.segs[i], log, used.reorgs)
  /\ \A k \in 1 .. Len(sent) : \A i \in 1 .. Len(sent[k].segs) :
       NothingOlder(sent[k].segs[i], log, used.reorgs)

\* What is taken is ordered by fork, and follows what was sent.
TakenForks ==
  /\ \A i \in 1 .. Len(ps.segs) : \A j \in 1 .. i : ps.segs[j].msg.fork <= ps.segs[i].msg.fork
  /\ \A k \in 1 .. Len(sent) : \A j \in 1 .. Len(sent[k].segs) : \A i \in 1 .. Len(ps.segs) :
       sent[k].segs[j].msg.fork <= ps.segs[i].msg.fork

ForkInv ==
  /\ LogInv
  /\ ForkNeverReturns
  /\ used.restarts = 0 => TakenForks

\* A message that is appended has the current fork.
LEMMA AppendForks ==
  ASSUME NEW msgs \in Seq(LogMessage), NEW msg \in LogMessage, NEW now \in Nat,
         msg.fork = now, ForksInOrder(msgs, now)
  PROVE  /\ ForksInOrder(Append(msgs, msg), now)
         /\ \A seg \in Segment :
              NothingOlder(seg, msgs, now) => NothingOlder(seg, Append(msgs, msg), now)
<1> DEFINE longer == Append(msgs, msg)
<1>1. /\ Len(msgs) \in Nat /\ Len(longer) = Len(msgs) + 1
      /\ longer[Len(msgs) + 1] = msg
      /\ \A m \in 1 .. Len(msgs) : longer[m] = msgs[m] /\ msgs[m].fork \in Nat
  <2>1. \A m \in 1 .. Len(msgs) : msgs[m] \in LogMessage
    OBVIOUS
  <2>2. \A m \in 1 .. Len(msgs) : msgs[m].fork \in Nat
    BY <2>1 DEF LogMessage
  <2> QED
    BY <2>2
<1> HIDE DEF longer
<1>2. \A m \in 1 .. Len(longer) : m = Len(msgs) + 1 \/ m \in 1 .. Len(msgs)
  BY <1>1
<1>3. ASSUME NEW m \in 1 .. Len(longer)
      PROVE  longer[m].fork \in Nat /\ longer[m].fork <= now
  <2>1. CASE m = Len(msgs) + 1
    BY <1>1, <2>1
  <2>2. CASE m \in 1 .. Len(msgs)
    BY <1>1, <2>2 DEF ForksInOrder
  <2> QED
    BY <1>2, <2>1, <2>2
<1>4. ASSUME NEW m \in 1 .. Len(longer), NEW n \in m .. Len(longer)
      PROVE  longer[m].fork <= longer[n].fork
  <2>1. CASE n = Len(msgs) + 1
    BY <1>1, <1>3, <2>1
  <2>2. CASE n # Len(msgs) + 1
    <3>1. m \in 1 .. Len(msgs) /\ n \in m .. Len(msgs) /\ n \in 1 .. Len(msgs)
      BY <1>1, <2>2
    <3>2. msgs[m].fork <= msgs[n].fork
      BY <3>1 DEF ForksInOrder
    <3> QED
      BY <1>1, <3>1, <3>2
  <2> QED
    BY <2>1, <2>2
<1>5. ASSUME NEW seg \in Segment, NothingOlder(seg, msgs, now)
      PROVE  NothingOlder(seg, longer, now)
  <2>1. seg.idx \in Nat /\ seg.msg.fork \in Nat
    BY DEF Segment, LogMessage
  <2>2. ASSUME NEW m \in seg.idx + 1 .. Len(longer) PROVE seg.msg.fork <= longer[m].fork
    <3>1. CASE m = Len(msgs) + 1
      BY <1>1, <1>5, <3>1 DEF NothingOlder
    <3>2. CASE m # Len(msgs) + 1
      <4>1. m \in seg.idx + 1 .. Len(msgs) /\ m \in 1 .. Len(msgs)
        BY <1>1, <2>1, <3>2
      <4>2. seg.msg.fork <= msgs[m].fork
        BY <1>5, <4>1 DEF NothingOlder
      <4> QED
        BY <1>1, <4>1, <4>2
    <3> QED
      BY <3>1, <3>2
  <2> QED
    BY <1>5, <2>2 DEF NothingOlder
<1> QED
  BY <1>3, <1>4, <1>5 DEF ForksInOrder, longer

\* What is left of a log that is rolled back keeps its forks.
LEMMA CutForks ==
  ASSUME NEW msgs \in Seq(LogMessage), NEW now \in Nat, NEW n \in 0 .. Len(msgs),
         ForksInOrder(msgs, now)
  PROVE  /\ ForksInOrder(SubSeq(msgs, 1, n), now + 1)
         /\ \A seg \in Segment :
              NothingOlder(seg, msgs, now) => NothingOlder(seg, SubSeq(msgs, 1, n), now + 1)
<1> DEFINE less == SubSeq(msgs, 1, n)
<1>1. /\ Len(msgs) \in Nat /\ Len(less) = n /\ n \in Nat
      /\ \A m \in 1 .. n : less[m] = msgs[m]
      /\ \A m \in 1 .. Len(msgs) : msgs[m].fork \in Nat
  <2>1. \A m \in 1 .. Len(msgs) : msgs[m] \in LogMessage
    OBVIOUS
  <2>2. \A m \in 1 .. Len(msgs) : msgs[m].fork \in Nat
    BY <2>1 DEF LogMessage
  <2> QED
    BY <2>2
<1> HIDE DEF less
<1>2. ForksInOrder(less, now + 1)
  <2>1. ASSUME NEW m \in 1 .. n PROVE less[m].fork <= now + 1
    <3>1. m \in 1 .. Len(msgs) /\ less[m] = msgs[m]
      BY <1>1
    <3>2. msgs[m].fork <= now /\ msgs[m].fork \in Nat
      BY <1>1, <3>1 DEF ForksInOrder
    <3> QED
      BY <3>1, <3>2
  <2>2. ASSUME NEW m \in 1 .. n, NEW l \in m .. n PROVE less[m].fork <= less[l].fork
    <3>1. m \in 1 .. Len(msgs) /\ l \in m .. Len(msgs) /\ l \in 1 .. n
      BY <1>1
    <3>2. msgs[m].fork <= msgs[l].fork
      BY <3>1 DEF ForksInOrder
    <3> QED
      BY <1>1, <3>1, <3>2
  <2> QED
    BY <1>1, <2>1, <2>2 DEF ForksInOrder
<1>3. ASSUME NEW seg \in Segment, NothingOlder(seg, msgs, now)
      PROVE  NothingOlder(seg, less, now + 1)
  <2>1. seg.idx \in Nat /\ seg.msg.fork \in Nat /\ seg.msg.fork <= now
    BY <1>3 DEF Segment, LogMessage, NothingOlder
  <2>2. ASSUME NEW m \in seg.idx + 1 .. n PROVE seg.msg.fork <= less[m].fork
    <3>1. m \in seg.idx + 1 .. Len(msgs) /\ m \in 1 .. n
      BY <1>1, <2>1
    <3>2. seg.msg.fork <= msgs[m].fork
      BY <1>3, <3>1 DEF NothingOlder
    <3> QED
      BY <1>1, <3>1, <3>2
  <2> QED
    BY <1>1, <2>1, <2>2 DEF NothingOlder
<1> QED
  BY <1>2, <1>3 DEF less

\* Whatever happens to the log, what is older stays so.
LEMMA LogMoves ==
  ASSUME TypeOK, ForksInOrder(log, used.reorgs), [Next]_vars
  PROVE  /\ ForksInOrder(log', used'.reorgs)
         /\ \A seg \in Segment : NothingOlder(seg, log, used.reorgs)
                                   => NothingOlder(seg, log', used'.reorgs)
<1>1. used \in Counters /\ used.reorgs \in Nat /\ log \in Seq(LogMessage) /\ Len(log) \in Nat
  BY DEF TypeOK, Counters
<1>2. ASSUME NEW size \in Sizes, AppendMessage(size)
      PROVE  /\ ForksInOrder(log', used'.reorgs)
             /\ \A seg \in Segment : NothingOlder(seg, log, used.reorgs)
                                       => NothingOlder(seg, log', used'.reorgs)
  <2>1. Message(size) \in LogMessage /\ Message(size).fork = used.reorgs
    BY <1>1 DEF Message, LogMessage
  <2>2. log' = Append(log, Message(size)) /\ used' = used
    BY <1>2 DEF AppendMessage
  <2> DEFINE msg == Message(size)
  <2> HIDE DEF msg
  <2>3. msg \in LogMessage /\ msg.fork = used.reorgs /\ log' = Append(log, msg)
    BY <2>1, <2>2 DEF msg
  <2> QED
    BY <1>1, <2>2, <2>3, AppendForks
<1>3. ASSUME NEW n \in 0 .. MaxLog, ReorgLog(n)
      PROVE  /\ ForksInOrder(log', used'.reorgs)
             /\ \A seg \in Segment : NothingOlder(seg, log, used.reorgs)
                                       => NothingOlder(seg, log', used'.reorgs)
  <2>1. n \in 0 .. Len(log) /\ log' = SubSeq(log, 1, n)
    BY <1>1, <1>3, Bounds DEF ReorgLog
  <2>2. used'.reorgs = used.reorgs + 1
    BY <1>1, <1>3 DEF ReorgLog, Counters
  <2> QED
    BY <1>1, <2>1, <2>2, CutForks
<1>4. ASSUME log' = log, used'.reorgs = used.reorgs
      PROVE  /\ ForksInOrder(log', used'.reorgs)
             /\ \A seg \in Segment : NothingOlder(seg, log, used.reorgs)
                                       => NothingOlder(seg, log', used'.reorgs)
  BY <1>4
<1>5. ASSUME \/ \E n \in 0 .. MaxDelayed : MoveDelayed(n)
             \/ Poster \/ PostFails \/ Restart \/ UNCHANGED vars
      PROVE  log' = log /\ used'.reorgs = used.reorgs
  BY <1>1, <1>5 DEF MoveDelayed, Poster, Build, ReadHead, Take, TakenAll, Posted, PostFails,
                    Restart, vars, Counters
<1> QED
  BY <1>2, <1>3, <1>4, <1>5 DEF Next

\* The message that is taken is no older than any that was taken before it.
LEMMA TakeForks ==
  ASSUME TypeOK, OrderInv, ForkInv, Take, used.restarts = 0
  PROVE  /\ NothingOlder([idx |-> At, msg |-> MessageAt], log, used.reorgs)
         /\ \A i \in 1 .. Len(ps.segs) : ps.segs[i].msg.fork <= MessageAt.fork
         /\ \A k \in 1 .. Len(sent) : \A i \in 1 .. Len(sent[k].segs) :
              sent[k].segs[i].msg.fork <= MessageAt.fork
<1>1. /\ ps.pc = "take" /\ At \in Nat /\ At < Len(log)
      /\ MessageAt = log[At + 1]
      /\ At = ps.cursor + 1 + Len(ps.segs)
  BY TakeStep DEF MessageAt, At
<1>2. /\ ps.cursor \in Nat /\ ps.segs \in Seq(Segment) /\ Len(ps.segs) \in Nat
      /\ log \in Seq(LogMessage) /\ Len(log) \in Nat /\ used.reorgs \in Nat
      /\ sent \in Seq(SentBatch) /\ Len(sent) \in Nat
  BY DEF TypeOK, PosterState, Counters
<1>3. Base = ps.cursor /\ Base \in Nat /\ Base <= At
  BY <1>1, <1>2 DEF Base
<1>4. NothingOlder([idx |-> At, msg |-> MessageAt], log, used.reorgs)
  <2>1. At + 1 \in 1 .. Len(log)
    BY <1>1, <1>2
  <2> QED
    BY <1>1, <2>1 DEF ForkInv, LogInv, ForksInOrder, NothingOlder
<1>5. ASSUME NEW seg, NothingOlder(seg, log, used.reorgs), seg.idx \in Nat, seg.idx <= At
      PROVE  seg.msg.fork <= MessageAt.fork
  <2>1. At + 1 \in seg.idx + 1 .. Len(log)
    BY <1>1, <1>2, <1>5
  <2> QED
    BY <1>1, <1>5, <2>1 DEF NothingOlder
<1>6. ASSUME NEW i \in 1 .. Len(ps.segs) PROVE ps.segs[i].msg.fork <= MessageAt.fork
  <2>1. NothingOlder(ps.segs[i], log, used.reorgs)
    BY DEF ForkInv, LogInv
  <2>2. ps.segs[i].idx = Base + i
    BY DEF OrderInv, TakenInOrder
  <2>3. Base + i \in Nat /\ Base + i <= At
    <3> DEFINE base == Base
               cursor == ps.cursor
               len == Len(ps.segs)
               at == At
    <3>1. i \in 1 .. len /\ base = cursor /\ base \in Nat /\ len \in Nat /\ at = cursor + 1 + len
      BY <1>1, <1>2, <1>3
    <3> HIDE DEF base, cursor, len, at
    <3>2. base + i \in Nat /\ base + i <= at
      BY <3>1
    <3> QED
      BY <3>2 DEF base, at
  <2> QED
    BY <1>5, <2>1, <2>2, <2>3
<1>7. ASSUME NEW k \in 1 .. Len(sent), NEW i \in 1 .. Len(sent[k].segs)
      PROVE  sent[k].segs[i].msg.fork <= MessageAt.fork
  <2>1. NothingOlder(sent[k].segs[i], log, used.reorgs)
    BY DEF ForkInv, LogInv
  <2>2. HasKey
    <3>1. sent # <<>>
      BY <1>2
    <3> QED
      BY <3>1 DEF OrderInv
  <2>3. sent[k].segs[i].idx <= Base
    BY <1>1, <2>2 DEF OrderInv, SentUpToBase
  <2>4. sent[k].segs[i].idx \in Nat
    <3>1. sent[k] \in SentBatch
      BY <1>2
    <3>2. sent[k].segs \in Seq(Segment)
      BY <3>1 DEF SentBatch
    <3>3. sent[k].segs[i] \in Segment
      BY <3>2
    <3> QED
      BY <3>3 DEF Segment
  <2>5. \A x \in Nat : x <= Base => x <= At
    BY <1>1, <1>3
  <2>6. sent[k].segs[i].idx <= At
    BY <2>3, <2>4, <2>5, Zenon
  <2> QED
    BY <1>5, <2>1, <2>4, <2>6
<1> QED
  BY <1>4, <1>6, <1>7

\* A batch that is sent has what was taken, which follows what was sent before.
LEMMA SendForks ==
  ASSUME TypeOK, ForkInv, used' = used, ps'.segs = <<>>,
         sent' = sent \/ sent' = Append(sent, Batch),
         LogInv'
  PROVE  ForkInv'
<1>1. /\ sent \in Seq(SentBatch) /\ Len(sent) \in Nat
      /\ ps.segs \in Seq(Segment) /\ Len(ps.segs) \in Nat
  BY DEF TypeOK, PosterState
<1>2. TakenForks'
  BY DEF TakenForks
<1>3. sent' = sent => ForkNeverReturns'
  BY Zenon DEF ForkInv, ForkNeverReturns
<1>4. ASSUME sent' = Append(sent, Batch) PROVE ForkNeverReturns'
  <2>1. /\ Batch.segs = ps.segs
        /\ Len(sent') = Len(sent) + 1
        /\ sent'[Len(sent) + 1] = Batch
        /\ \A k \in 1 .. Len(sent) : sent'[k] = sent[k]
    BY <1>4, SendStep
  <2>2. ASSUME used.restarts = 0,
               NEW k \in 1 .. Len(sent'), NEW i \in 1 .. Len(sent'[k].segs),
               NEW l \in 1 .. k, NEW j \in 1 .. Len(sent'[l].segs), l < k \/ j < i
        PROVE  sent'[l].segs[j].msg.fork <= sent'[k].segs[i].msg.fork
    <3>1. TakenForks /\ ForkNeverReturns
      BY <2>2 DEF ForkInv
    <3>2. CASE k # Len(sent) + 1
      <4>1. k \in 1 .. Len(sent) /\ l \in 1 .. Len(sent)
        BY <1>1, <2>1, <2>2, <3>2
      <4>2. sent'[k] = sent[k] /\ sent'[l] = sent[l]
        BY <2>1, <4>1
      <4> QED
        BY <2>2, <3>1, <4>1, <4>2 DEF ForkNeverReturns
    <3>3. CASE k = Len(sent) + 1
      <4>1. sent'[k].segs = ps.segs /\ i \in 1 .. Len(ps.segs)
        BY <2>1, <2>2, <3>3
      <4>2. CASE l = k
        <5>1. j \in 1 .. i
          BY <1>1, <2>2, <4>1, <4>2
        <5> QED
          BY <3>1, <4>1, <4>2, <5>1 DEF TakenForks
      <4>3. CASE l # k
        <5>1. l \in 1 .. Len(sent)
          BY <1>1, <2>2, <3>3, <4>3
        <5>2. sent'[l] = sent[l] /\ j \in 1 .. Len(sent[l].segs)
          BY <2>1, <2>2, <5>1
        <5> QED
          BY <3>1, <4>1, <5>1, <5>2 DEF TakenForks
      <4> QED
        BY <4>2, <4>3
    <3> QED
      BY <3>2, <3>3
  <2> QED
    BY <2>2 DEF ForkNeverReturns
<1> QED
  BY <1>2, <1>3, <1>4 DEF ForkInv

\* Every step keeps what was taken and what was sent no newer than the log.
LEMMA LogStep ==
  ASSUME TypeOK, LogInv, [Next]_vars
  PROVE  LogInv'
<1>1. /\ ps \in PosterState /\ ps.segs \in Seq(Segment) /\ Len(ps.segs) \in Nat
      /\ log \in Seq(LogMessage) /\ sent \in Seq(SentBatch) /\ Len(sent) \in Nat
  BY DEF TypeOK, PosterState
<1>2. /\ ForksInOrder(log', used'.reorgs)
      /\ \A seg \in Segment : NothingOlder(seg, log, used.reorgs)
                                => NothingOlder(seg, log', used'.reorgs)
  BY LogMoves DEF LogInv
<1>3. ASSUME NEW i \in 1 .. Len(ps.segs)
      PROVE  NothingOlder(ps.segs[i], log', used'.reorgs)
  <2>1. ps.segs[i] \in Segment
    BY <1>1
  <2> QED
    BY <1>2, <2>1 DEF LogInv
<1>4. ASSUME NEW k \in 1 .. Len(sent), NEW i \in 1 .. Len(sent[k].segs)
      PROVE  NothingOlder(sent[k].segs[i], log', used'.reorgs)
  <2>1. sent[k] \in SentBatch
    BY <1>1
  <2>2. sent[k].segs \in Seq(Segment)
    BY <2>1 DEF SentBatch
  <2>3. sent[k].segs[i] \in Segment
    BY <2>2
  <2> QED
    BY <1>2, <2>3 DEF LogInv
<1>5. ASSUME sent' = sent, ps'.segs = ps.segs \/ ps'.segs = <<>> PROVE LogInv'
  <2>1. \A i \in 1 .. Len(ps'.segs) : NothingOlder(ps'.segs[i], log', used'.reorgs)
    BY <1>3, <1>5
  <2> QED
    BY <1>2, <1>4, <1>5, <2>1 DEF LogInv
<1>6. CASE Take
  <2> DEFINE seg == [idx |-> At, msg |-> MessageAt]
  <2>1. /\ ps'.segs = Append(ps.segs, seg)
        /\ seg \in Segment
        /\ sent' = sent /\ log' = log /\ used' = used
        /\ MessageAt = log[At + 1] /\ At \in Nat /\ At < Len(log)
        /\ Len(log) \in Nat
    BY <1>1, <1>6, TakeStep DEF MessageAt
  <2>2. NothingOlder(seg, log, used.reorgs)
    <3>1. At + 1 \in 1 .. Len(log)
      BY <2>1
    <3> QED
      BY <2>1, <3>1 DEF LogInv, ForksInOrder, NothingOlder
  <2> HIDE DEF seg
  <2>3. ASSUME NEW i \in 1 .. Len(ps'.segs) PROVE NothingOlder(ps'.segs[i], log', used'.reorgs)
    <3>1. CASE i = Len(ps.segs) + 1
      <4>1. ps'.segs[i] = seg
        BY <1>1, <2>1, <3>1
      <4> QED
        BY <2>1, <2>2, <4>1
    <3>2. CASE i # Len(ps.segs) + 1
      <4>1. i \in 1 .. Len(ps.segs) /\ ps'.segs[i] = ps.segs[i]
        BY <1>1, <2>1, <2>3, <3>2
      <4> QED
        BY <1>3, <4>1
    <3> QED
      BY <3>1, <3>2
  <2> QED
    BY <1>2, <1>4, <2>1, <2>3 DEF LogInv
<1>7. CASE (Posted \/ PostFails) /\ sent' = Append(sent, Batch)
  <2>1. /\ Batch.segs = ps.segs
        /\ Len(sent') = Len(sent) + 1
        /\ sent'[Len(sent) + 1] = Batch
        /\ \A k \in 1 .. Len(sent) : sent'[k] = sent[k]
    BY <1>7, SendStep
  <2>2. ps'.segs = <<>>
    BY <1>1, <1>7 DEF Posted, PostFails, Ends, PosterState
  <2>3. ASSUME NEW k \in 1 .. Len(sent'), NEW i \in 1 .. Len(sent'[k].segs)
        PROVE  NothingOlder(sent'[k].segs[i], log', used'.reorgs)
    <3>1. CASE k = Len(sent) + 1
      <4>1. sent'[k].segs = ps.segs
        BY <2>1, <3>1
      <4> QED
        BY <1>3, <2>3, <4>1
    <3>2. CASE k # Len(sent) + 1
      <4>1. k \in 1 .. Len(sent) /\ sent'[k] = sent[k]
        BY <1>1, <2>1, <2>3, <3>2
      <4> QED
        BY <1>4, <2>3, <4>1
    <3> QED
      BY <3>1, <3>2
  <2> QED
    BY <1>2, <2>2, <2>3 DEF LogInv
<1>8. ASSUME \/ \E size \in Sizes : AppendMessage(size)
             \/ \E n \in 0 .. MaxLog : ReorgLog(n)
             \/ \E n \in 0 .. MaxDelayed : MoveDelayed(n)
             \/ Build \/ ReadHead \/ TakenAll \/ Restart \/ UNCHANGED vars
      PROVE  sent' = sent /\ (ps'.segs = ps.segs \/ ps'.segs = <<>>)
  <2>1. CASE Restart
    BY <2>1 DEF Restart, Start
  <2>2. ASSUME ~Restart PROVE sent' = sent /\ ps'.segs = ps.segs
    BY <1>1, <1>8, <2>2 DEF AppendMessage, ReorgLog, MoveDelayed, Build, ReadHead, TakenAll,
                            vars, PosterState
  <2> QED
    BY <2>1, <2>2
<1>9. ASSUME Posted \/ PostFails, sent' # Append(sent, Batch)
      PROVE  sent' = sent /\ ps'.segs = <<>>
  BY <1>1, <1>9 DEF Posted, PostFails, Ends, PosterState
<1> QED
  BY <1>5, <1>6, <1>7, <1>8, <1>9 DEF Next, Poster

\* Every step keeps the order of the forks.
LEMMA ForkStep ==
  ASSUME TypeOK, OrderInv, ForkInv, [Next]_vars
  PROVE  ForkInv'
<1>1. LogInv'
  BY LogStep DEF ForkInv
<1>2. ps \in PosterState /\ ps.segs \in Seq(Segment) /\ Len(ps.segs) \in Nat
  BY DEF TypeOK, PosterState
<1>3. ASSUME sent' = sent, ps'.segs = ps.segs, used'.restarts = used.restarts PROVE ForkInv'
  <2>1. ForkNeverReturns'
    BY <1>3, Zenon DEF ForkInv, ForkNeverReturns
  <2>2. TakenForks => TakenForks'
    BY <1>3, Zenon DEF TakenForks
  <2> QED
    BY <1>1, <1>3, <2>1, <2>2 DEF ForkInv
<1>4. CASE \/ \E size \in Sizes : AppendMessage(size)
           \/ \E n \in 0 .. MaxLog : ReorgLog(n)
           \/ \E n \in 0 .. MaxDelayed : MoveDelayed(n)
           \/ Build \/ ReadHead \/ TakenAll \/ UNCHANGED vars
  <2>1. used'.restarts = used.restarts
    BY <1>4 DEF AppendMessage, ReorgLog, MoveDelayed, Build, ReadHead, TakenAll, vars, TypeOK,
                Counters
  <2>2. sent' = sent /\ ps'.segs = ps.segs
    BY <1>2, <1>4 DEF AppendMessage, ReorgLog, MoveDelayed, Build, ReadHead, TakenAll, vars,
                      PosterState
  <2> QED
    BY <1>3, <2>1, <2>2
<1>5. CASE Take
  <2> DEFINE seg == [idx |-> At, msg |-> MessageAt]
  <2>1. /\ ps'.segs = Append(ps.segs, seg)
        /\ seg.msg = MessageAt /\ seg \in Segment
        /\ sent' = sent /\ used' = used
    BY <1>5, TakeStep
  <2> HIDE DEF seg
  <2>2. ForkNeverReturns'
    BY <2>1, Zenon DEF ForkInv, ForkNeverReturns
  <2>3. ASSUME used.restarts = 0 PROVE TakenForks'
    <3>1. /\ \A i \in 1 .. Len(ps.segs) : ps.segs[i].msg.fork <= seg.msg.fork
          /\ \A k \in 1 .. Len(sent) : \A i \in 1 .. Len(sent[k].segs) :
               sent[k].segs[i].msg.fork <= seg.msg.fork
      BY <1>5, <2>1, <2>3, TakeForks
    <3>2. seg.msg.fork \in Nat
      BY <2>1 DEF Segment, LogMessage
    <3>3. /\ Len(ps'.segs) = Len(ps.segs) + 1
          /\ ps'.segs[Len(ps.segs) + 1] = seg
          /\ \A i \in 1 .. Len(ps.segs) : ps'.segs[i] = ps.segs[i]
      BY <1>2, <2>1
    <3>4. TakenForks
      BY <2>3 DEF ForkInv
    <3>5. ASSUME NEW i \in 1 .. Len(ps'.segs), NEW j \in 1 .. i
          PROVE  ps'.segs[j].msg.fork <= ps'.segs[i].msg.fork
      <4>1. CASE i # Len(ps.segs) + 1
        <5>1. i \in 1 .. Len(ps.segs) /\ j \in 1 .. Len(ps.segs)
          BY <1>2, <3>3, <3>5, <4>1
        <5> QED
          BY <3>3, <3>4, <5>1 DEF TakenForks
      <4>2. CASE i = Len(ps.segs) + 1
        <5>1. j = i \/ j \in 1 .. Len(ps.segs)
          BY <1>2, <3>5, <4>2
        <5> QED
          BY <3>1, <3>2, <3>3, <4>2, <5>1
      <4> QED
        BY <4>1, <4>2
    <3>6. ASSUME NEW k \in 1 .. Len(sent), NEW j \in 1 .. Len(sent[k].segs),
                 NEW i \in 1 .. Len(ps'.segs)
          PROVE  sent[k].segs[j].msg.fork <= ps'.segs[i].msg.fork
      <4>1. i = Len(ps.segs) + 1 \/ i \in 1 .. Len(ps.segs)
        BY <1>2, <3>3
      <4> QED
        BY <3>1, <3>3, <3>4, <4>1 DEF TakenForks
    <3> QED
      BY <2>1, <3>5, <3>6 DEF TakenForks
  <2> QED
    BY <1>1, <2>1, <2>2, <2>3 DEF ForkInv
<1>6. CASE Posted \/ PostFails
  <2>1. ps'.segs = <<>> /\ used' = used /\ (sent' = sent \/ sent' = Append(sent, Batch))
    BY <1>2, <1>6 DEF Posted, PostFails, Ends, PosterState
  <2> QED
    BY <1>1, <2>1, SendForks
<1>7. CASE Restart
  <2>1. used'.restarts # 0
    BY <1>7 DEF Restart, TypeOK, Counters
  <2> QED
    BY <1>1, <2>1 DEF ForkInv, ForkNeverReturns
<1> QED
  BY <1>4, <1>5, <1>6, <1>7 DEF Next, Poster

\* Wherever reorgs of the log come between the head being read, the messages being
\* taken one by one and the batches being sent, L1 never gets a message of a fork
\* that was rolled back after one of the fork that replaced it, until a restart.
THEOREM ForksNeverReturn == Spec => []ForkNeverReturns
<1>1. Init => OrderInv /\ ForkInv
  BY DEF Init, Start, OrderInv, TakenInOrder, SentInOrder, InOrder, SentUpToBase, Base, ForkInv,
         LogInv, ForksInOrder, ForkNeverReturns, TakenForks
<1>2. TypeOK /\ OrderInv /\ [Next]_vars => OrderInv'
  BY OrderStep
<1>3. TypeOK /\ OrderInv /\ ForkInv /\ [Next]_vars => ForkInv'
  BY ForkStep
<1>4. ForkInv => ForkNeverReturns
  BY DEF ForkInv
<1> QED
  BY <1>1, <1>2, <1>3, <1>4, PosterTypeCorrect, PTL DEF Spec

=============================================================================

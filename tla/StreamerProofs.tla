--------------------------- MODULE StreamerProofs ---------------------------
(***************************************************************************)
(* Theorems about the streamer for every log size, call size, number of    *)
(* callers and number of crashes.                                          *)
(***************************************************************************)
EXTENDS Streamer, TLAPS

(***************************************************************************)
(* Sequences and records.                                                  *)
(***************************************************************************)

\* The messages of a call form a nonempty sequence of bounded length.
LEMMA CallsAreSequences ==
  ASSUME NEW msgs \in Calls
  PROVE  /\ msgs \in Seq(Messages)
         /\ Len(msgs) \in 1 .. MaxBatch
<1>1. PICK n \in 1 .. MaxBatch : msgs \in [1 .. n -> Messages]
  BY DEF Calls
<1>2. n \in Nat
  BY <1>1, BoundsAssumption
<1>3. msgs \in Seq(Messages) /\ Len(msgs) = n
  BY <1>1, <1>2
<1> QED
  BY <1>1, <1>3

\* So do the messages of a reorg, which may be none.
LEMMA ReorgCallsAreSequences ==
  ASSUME NEW msgs \in Calls \cup {<<>>}
  PROVE  msgs \in Seq(Messages) /\ Len(msgs) \in Nat
<1>1. CASE msgs \in Calls
  BY <1>1, CallsAreSequences, BoundsAssumption
<1>2. CASE msgs = <<>>
  BY <1>2
<1> QED
  BY <1>1, <1>2

\* What is left of a call after its first n messages.
LEMMA RestOfCall ==
  ASSUME NEW msgs \in Seq(Messages), NEW n \in 0 .. Len(msgs)
  PROVE  /\ SubSeq(msgs, n + 1, Len(msgs)) \in Seq(Messages)
         /\ Len(SubSeq(msgs, n + 1, Len(msgs))) = Len(msgs) - n
  OBVIOUS

\* The fields of a caller's record.
LEMMA WriterFields ==
  ASSUME NEW w \in WriterState
  PROVE  /\ w.pc \in {"rest", "scan", "delete", "put"}
         /\ w.next \in Nat
         /\ w.msgs \in Seq(Messages)
         /\ Len(w.msgs) \in Nat
         /\ w.next + Len(w.msgs) <= MaxMessages
         /\ w.oldResults \in SUBSET Idx
         /\ w.oldMessages \in SUBSET Idx
         /\ w.upto \in 0 .. MaxMessages
  BY BoundsAssumption DEF WriterState

\* A record made of such fields is a caller's record.
LEMMA WriterRecord ==
  ASSUME NEW pc \in {"rest", "scan", "delete", "put"}, NEW next \in Nat,
         NEW msgs \in Seq(Messages), next + Len(msgs) <= MaxMessages,
         NEW oldResults \in SUBSET Idx, NEW oldMessages \in SUBSET Idx,
         NEW ret \in {"none", "ok", "error", "dropped"}, NEW upto \in 0 .. MaxMessages
  PROVE  [pc |-> pc, next |-> next, msgs |-> msgs, oldResults |-> oldResults,
          oldMessages |-> oldMessages, ret |-> ret, upto |-> upto] \in WriterState
<1>1. next \in 0 .. MaxMessages
  BY BoundsAssumption
<1> QED
  BY <1>1 DEF WriterState

\* A caller between calls is well typed.
LEMMA RestTyped ==
  ASSUME NEW ret \in {"none", "ok", "error", "dropped"}, NEW upto \in 0 .. MaxMessages
  PROVE  AtRest(ret, upto) \in WriterState
  BY BoundsAssumption DEF AtRest, WriterState

\* The execution loop between two messages is well typed.
LEMMA ExecIdleTyped == ExecIdle \in ExecState
  BY BoundsAssumption DEF ExecIdle, ExecState

\* A caller that builds a reorg inside the index space is well typed.
LEMMA BuildReorgTyped ==
  ASSUME NEW p \in Writers, NEW first \in Nat, NEW rest \in Seq(Messages),
         NEW upto \in 0 .. MaxMessages,
         writer \in [Writers -> WriterState],
         first + Len(rest) <= MaxMessages,
         BuildReorg(p, first, rest, upto)
  PROVE  writer' \in [Writers -> WriterState]
<1>1. StaleResults(first) \in SUBSET Idx /\ StaleMessages(first) \in SUBSET Idx
  BY DEF StaleResults, StaleMessages
<1>2. [pc |-> "delete", next |-> first, msgs |-> rest,
       oldResults |-> StaleResults(first),
       oldMessages |-> StaleMessages(first), ret |-> "none", upto |-> upto] \in WriterState
  BY <1>1, WriterRecord
<1> QED
  BY <1>2 DEF BuildReorg

(***************************************************************************)
(* Type correctness, one lemma for each group of steps.                    *)
(***************************************************************************)

Budget == [crashes : 0 .. MaxCrashes, failures : 0 .. MaxFailures,
           reorgs : 0 .. MaxReorgs]

\* Accepting a call keeps the types.
LEMMA SubmitTyped ==
  ASSUME TypeOK, NEW p \in Writers, NEW first \in Idx, NEW msgs \in Calls,
         Submit(p, first, msgs)
  PROVE  TypeOK'
<1>1. /\ msgs \in Seq(Messages)
      /\ Len(msgs) \in Nat
      /\ first \in Nat
      /\ first + Len(msgs) <= MaxMessages
  BY CallsAreSequences, BoundsAssumption DEF Submit, Idx
<1>2. first + Len(msgs) \in 0 .. MaxMessages
  BY <1>1, BoundsAssumption
<1>3. [pc |-> "scan", next |-> first, msgs |-> msgs, oldResults |-> {},
       oldMessages |-> {}, ret |-> "none", upto |-> first + Len(msgs)] \in WriterState
  BY <1>1, <1>2, WriterRecord
<1> QED
  BY <1>3 DEF Submit, TypeOK

\* Accepting an RPC reorg keeps the types.
LEMMA SubmitReorgTyped ==
  ASSUME TypeOK, NEW p \in Writers, NEW first \in Idx, NEW msgs \in Calls \cup {<<>>},
         SubmitReorg(p, first, msgs)
  PROVE  TypeOK'
<1>1. /\ msgs \in Seq(Messages)
      /\ Len(msgs) \in Nat
      /\ first \in Nat
      /\ first + Len(msgs) <= MaxMessages
  BY ReorgCallsAreSequences, BoundsAssumption DEF SubmitReorg, Idx
<1>2. first + Len(msgs) \in 0 .. MaxMessages
  BY <1>1, BoundsAssumption
<1>3. writer' \in [Writers -> WriterState]
  BY <1>1, <1>2, BuildReorgTyped DEF SubmitReorg, TypeOK
<1>4. used' \in Budget
  <2>1. used \in Budget /\ used.reorgs < MaxReorgs /\ used' = [used EXCEPT !.reorgs = @ + 1]
    BY DEF SubmitReorg, TypeOK, Budget
  <2> QED
    BY <2>1, BoundsAssumption DEF Budget
<1> QED
  BY <1>3, <1>4 DEF SubmitReorg, TypeOK, Budget

\* Counting duplicates and building a batch keeps the types.
LEMMA ScanTyped ==
  ASSUME TypeOK, NEW p \in Writers, Scan(p)
  PROVE  TypeOK'
<1>1. PICK n \in 0 .. MaxBatch :
        \/ DropFeedReorg(p, n) \/ Reject(p, n) \/ AllDuplicates(p, n)
        \/ StartAppend(p, n) \/ StartReorg(p, n)
  BY DEF Scan
<1>2. writer[p] \in WriterState
  BY DEF TypeOK
<1>3. /\ writer[p].msgs \in Seq(Messages)
      /\ writer[p].next \in Nat
      /\ Len(writer[p].msgs) \in Nat
      /\ writer[p].next + Len(writer[p].msgs) <= MaxMessages
      /\ writer[p].upto \in 0 .. MaxMessages
  BY <1>2, WriterFields
<1>4. CASE DropFeedReorg(p, n) \/ Reject(p, n) \/ AllDuplicates(p, n)
  <2>1. PICK ret \in {"ok", "error", "dropped"} : Return(p, ret)
    BY <1>4 DEF DropFeedReorg, Reject, AllDuplicates
  <2>2. AtRest(ret, writer[p].upto) \in WriterState
    BY <1>3, RestTyped
  <2> QED
    BY <2>1, <2>2 DEF Return, TypeOK
<1> DEFINE rest == SubSeq(writer[p].msgs, n + 1, Len(writer[p].msgs))
<1>5. ASSUME Scanned(p, n)
      PROVE  /\ rest \in Seq(Messages)
             /\ writer[p].next + n \in Nat
             /\ writer[p].next + n + Len(rest) <= MaxMessages
  <2>1. n \in 0 .. Len(writer[p].msgs)
    BY <1>5 DEF Scanned
  <2>2. rest \in Seq(Messages) /\ Len(rest) = Len(writer[p].msgs) - n
    BY <1>3, <2>1, RestOfCall
  <2> QED
    BY <1>3, <2>1, <2>2
<1>6. CASE StartAppend(p, n)
  <2>1. /\ rest \in Seq(Messages)
        /\ writer[p].next + n \in Nat
        /\ writer[p].next + n + Len(rest) <= MaxMessages
    BY <1>5, <1>6 DEF StartAppend
  <2>2. [writer[p] EXCEPT !.pc = "put", !.next = writer[p].next + n, !.msgs = rest]
          \in WriterState
    <3> HIDE DEF rest
    <3>1. writer[p].next + n \in 0 .. MaxMessages
      BY <2>1, BoundsAssumption
    <3> QED
      BY <1>2, <2>1, <3>1 DEF WriterState
  <2>3. writer' = [writer EXCEPT ![p] =
          [writer[p] EXCEPT !.pc = "put", !.next = writer[p].next + n, !.msgs = rest]]
    BY <1>6 DEF StartAppend, TypeOK
  <2> QED
    BY <1>6, <2>2, <2>3 DEF StartAppend, TypeOK
<1>7. CASE StartReorg(p, n)
  <2>1. /\ rest \in Seq(Messages)
        /\ writer[p].next + n \in Nat
        /\ writer[p].next + n + Len(rest) <= MaxMessages
    BY <1>5, <1>7 DEF StartReorg
  <2>2. BuildReorg(p, writer[p].next + n, rest, writer[p].upto)
    BY <1>7 DEF StartReorg
  <2>3. writer' \in [Writers -> WriterState]
    BY <1>3, <2>1, <2>2, BuildReorgTyped DEF TypeOK
  <2> QED
    BY <1>7, <2>3 DEF StartReorg, TypeOK
<1> QED
  BY <1>1, <1>4, <1>6, <1>7

\* Applying one operation of a batch keeps the types: every put is at an index
\* of the log and holds a message.
LEMMA WriteTyped ==
  ASSUME TypeOK, NEW p \in Writers, Write(p)
  PROVE  TypeOK'
<1>1. writer[p] \in WriterState /\ writer \in [Writers -> WriterState]
  BY DEF TypeOK
<1>2. /\ writer[p].msgs \in Seq(Messages)
      /\ writer[p].next \in Nat
      /\ Len(writer[p].msgs) \in Nat
      /\ writer[p].next + Len(writer[p].msgs) <= MaxMessages
      /\ writer[p].upto \in 0 .. MaxMessages
  BY <1>1, WriterFields
<1>3. AtRest("ok", writer[p].upto) \in WriterState
  BY <1>2, RestTyped
<1>4. writer[p].next \in 0 .. MaxMessages
  BY <1>2, BoundsAssumption
<1>5. ASSUME NEW i \in Idx, DeleteResult(p, i) PROVE TypeOK'
  <2>1. [writer[p] EXCEPT !.oldResults = writer[p].oldResults \ {i}] \in WriterState
    BY <1>1 DEF WriterState
  <2>2. writer' = [writer EXCEPT ![p] =
          [writer[p] EXCEPT !.oldResults = writer[p].oldResults \ {i}]]
    BY <1>1, <1>5 DEF DeleteResult
  <2>3. writer' \in [Writers -> WriterState]
    BY <1>1, <2>1, <2>2
  <2>4. results' \in [Idx -> Seq(Block)]
    BY <1>5 DEF DeleteResult, TypeOK
  <2> QED
    BY <1>5, <2>3, <2>4 DEF DeleteResult, TypeOK
<1>6. ASSUME NEW i \in Idx, DeleteMessage(p, i) PROVE TypeOK'
  <2>1. [writer[p] EXCEPT !.oldMessages = writer[p].oldMessages \ {i}] \in WriterState
    BY <1>1 DEF WriterState
  <2>2. writer' = [writer EXCEPT ![p] =
          [writer[p] EXCEPT !.oldMessages = writer[p].oldMessages \ {i}]]
    BY <1>1, <1>6 DEF DeleteMessage
  <2>3. writer' \in [Writers -> WriterState]
    BY <1>1, <2>1, <2>2
  <2> QED
    BY <1>6, <2>3 DEF DeleteMessage, TypeOK
<1>7. CASE LowerCount(p)
  <2>1. [writer[p] EXCEPT !.pc = "put"] \in WriterState
    BY <1>1 DEF WriterState
  <2>2. writer' \in [Writers -> WriterState]
    <3>1. CASE writer[p].msgs = <<>>
      BY <1>1, <1>3, <1>7, <3>1 DEF LowerCount
    <3>2. CASE writer[p].msgs # <<>>
      <4>1. writer' = [writer EXCEPT ![p] = [writer[p] EXCEPT !.pc = "put"]]
        BY <1>1, <1>7, <3>2 DEF LowerCount
      <4> QED
        BY <1>1, <2>1, <4>1
    <3> QED
      BY <3>1, <3>2
  <2> QED
    BY <1>4, <1>7, <2>2 DEF LowerCount, LoweredCount, TypeOK
<1>8. CASE PutMessage(p)
  <2>1. /\ Head(writer[p].msgs) \in Messages
        /\ Tail(writer[p].msgs) \in Seq(Messages)
        /\ Len(Tail(writer[p].msgs)) = Len(writer[p].msgs) - 1
        /\ Len(writer[p].msgs) >= 1
    BY <1>2, <1>8 DEF PutMessage
  <2>2. /\ writer[p].next \in Idx
        /\ writer[p].next + 1 \in 0 .. MaxMessages
        /\ writer[p].next + 1 + Len(Tail(writer[p].msgs)) <= MaxMessages
    <3>1. writer[p].next + 1 <= MaxMessages
      BY <1>2, <2>1, BoundsAssumption
    <3>2. writer[p].next + 1 + Len(Tail(writer[p].msgs)) = writer[p].next + Len(writer[p].msgs)
      BY <1>2, <2>1
    <3> QED
      BY <1>2, <3>1, <3>2, BoundsAssumption DEF Idx
  <2>3. [writer[p] EXCEPT !.next = writer[p].next + 1, !.msgs = Tail(writer[p].msgs)]
          \in WriterState
    BY <1>1, <2>1, <2>2 DEF WriterState
  <2>4. writer' = [writer EXCEPT ![p] =
          [writer[p] EXCEPT !.next = writer[p].next + 1, !.msgs = Tail(writer[p].msgs)]]
    BY <1>1, <1>8 DEF PutMessage
  <2>5. writer' \in [Writers -> WriterState]
    BY <1>1, <2>3, <2>4
  <2>6. messages' \in [Idx -> Messages \cup {NoMessage}]
    BY <1>8, <2>1, <2>2 DEF PutMessage, TypeOK
  <2> QED
    BY <1>8, <2>5, <2>6 DEF PutMessage, TypeOK
<1>9. CASE PutCount(p)
  <2>1. writer' \in [Writers -> WriterState]
    BY <1>1, <1>3, <1>9 DEF PutCount
  <2> QED
    BY <1>4, <1>9, <2>1 DEF PutCount, NewCount, TypeOK
<1> QED
  BY <1>5, <1>6, <1>7, <1>8, <1>9 DEF Write

\* A step of the execution loop keeps the types: the engine is given a stored
\* message and its result is stored at an index of the log.
LEMMA ExecuteTyped ==
  ASSUME TypeOK, Execute
  PROVE  TypeOK'
<1>1. CASE ExecHead
  <2>1. PICK i \in 0 .. messageCount : exec' = [ExecIdle EXCEPT !.pc = "fetch", !.idx = i]
    BY <1>1 DEF ExecHead
  <2>2. i \in 0 .. MaxMessages
    BY <2>1, BoundsAssumption DEF TypeOK
  <2>3. exec' = [pc |-> "fetch", idx |-> i, msg |-> NoMessage, parent |-> <<>>, ts |-> 0]
    BY <2>1 DEF ExecIdle
  <2>4. exec' \in ExecState
    BY <2>2, <2>3 DEF ExecState
  <2> QED
    BY <1>1, <2>4 DEF ExecHead, TypeOK
<1>2. CASE ExecSkip \/ ExecRefused
  BY <1>2, ExecIdleTyped DEF ExecSkip, ExecRefused, TypeOK
<1>3. CASE ExecDigest
  <2>1. exec.idx \in Idx
    <3>1. exec.idx \in 0 .. MaxMessages
      BY DEF TypeOK, ExecState
    <3>2. exec.idx < messageCount /\ messageCount \in 0 .. MaxMessages
      BY <1>3 DEF ExecDigest, Fetchable, TypeOK
    <3> QED
      BY <3>1, <3>2, BoundsAssumption DEF Idx
  <2>2. messages[exec.idx] \in Messages
    BY <1>3, <2>1 DEF ExecDigest, Fetchable, Stored, TypeOK
  <2>3. NextTimestamp \in Nat
    BY <2>2, MessagesAssumption DEF NextTimestamp, TypeOK
  <2>4. ParentBlock \in Seq(Block)
    <3>1. exec.idx # 0 => exec.idx - 1 \in Idx
      BY <2>1, BoundsAssumption DEF Idx
    <3> QED
      BY <3>1 DEF ParentBlock, TypeOK
  <2>5. exec' \in ExecState
    BY <1>3, <2>1, <2>2, <2>3, <2>4 DEF ExecDigest, ExecState, TypeOK
  <2> QED
    BY <1>3, <2>3, <2>5 DEF ExecDigest, TypeOK
<1>4. CASE ExecStore
  <2>1. /\ exec.idx \in Idx
        /\ exec.parent \in Seq(Block)
        /\ [msg |-> exec.msg, ts |-> exec.ts] \in Block
    BY <1>4 DEF ExecStore, ExecState, Block, TypeOK
  <2>2. Append(exec.parent, [msg |-> exec.msg, ts |-> exec.ts]) \in Seq(Block)
    BY <2>1
  <2> QED
    BY <1>4, <2>1, <2>2, ExecIdleTyped DEF ExecStore, TypeOK
<1> QED
  BY <1>1, <1>2, <1>3, <1>4 DEF Execute

\* An engine failure or a crash keeps the types.
LEMMA FaultTyped ==
  ASSUME TypeOK, ExecFail \/ Crash
  PROVE  TypeOK'
<1>1. used \in Budget
  BY DEF TypeOK, Budget
<1>2. CASE ExecFail
  <2>1. used' \in Budget
    BY <1>1, <1>2, BoundsAssumption DEF ExecFail, Budget
  <2> QED
    BY <1>2, <2>1, ExecIdleTyped DEF ExecFail, TypeOK, Budget
<1>3. CASE Crash
  <2>1. used' \in Budget
    BY <1>1, <1>3, BoundsAssumption DEF Crash, Budget
  <2>2. AtRest("none", 0) \in WriterState
    BY RestTyped, BoundsAssumption
  <2> QED
    BY <1>3, <2>1, <2>2, ExecIdleTyped, BoundsAssumption DEF Crash, TypeOK, Budget
<1> QED
  BY <1>2, <1>3

\* The initial state is well typed.
LEMMA TypeInit == Init => TypeOK
<1>1. AtRest("none", 0) \in WriterState
  BY RestTyped, BoundsAssumption
<1> QED
  BY <1>1, ExecIdleTyped, BoundsAssumption DEF Init, TypeOK

\* Every step keeps the types.
LEMMA TypeStep ==
  ASSUME TypeOK, [Next]_vars
  PROVE  TypeOK'
<1>1. CASE UNCHANGED vars
  BY <1>1 DEF vars, TypeOK
<1> QED
  BY <1>1, SubmitTyped, SubmitReorgTyped, ScanTyped, WriteTyped, ExecuteTyped,
     FaultTyped DEF Next

\* Every variable keeps its type: no put, no removal and no stored result ever
\* leaves the index space, and the engine only receives stored messages.
THEOREM TypeCorrect == Spec => []TypeOK
  BY TypeInit, TypeStep, PTL DEF Spec

(***************************************************************************)
(* The log below the count has no holes.                                   *)
(***************************************************************************)

\* The first n messages of a scanned call are stored already.
LEMMA ScannedStored ==
  ASSUME TypeOK, NEW p \in Writers, NEW n \in Nat, Scanned(p, n),
         \A i \in Idx : i < writer[p].next => Stored(i)
  PROVE  \A i \in Idx : i < writer[p].next + n => Stored(i)
<1>1. writer[p].next \in Nat
  BY WriterFields DEF TypeOK
<1>2. ASSUME NEW i \in Idx, i >= writer[p].next, i < writer[p].next + n
      PROVE  Stored(i)
  <2>1. i \in Nat
    BY BoundsAssumption DEF Idx
  <2> DEFINE k == i - writer[p].next + 1
  <2>2. k \in 1 .. n
    BY <1>1, <1>2, <2>1
  <2>3. Stored(writer[p].next + k - 1)
    BY <2>2 DEF Scanned, count_duplicate_messages
  <2>4. writer[p].next + k - 1 = i
    BY <1>1, <2>1
  <2> QED
    BY <2>3, <2>4
<1>3. \A i \in Idx : i \in Nat
  BY BoundsAssumption DEF Idx
<1> QED
  BY <1>1, <1>2, <1>3

\* A call stays safe while its own record stands still, messages are only added
\* and, for a confirmed call, the count stands still too.
LEMMA BystanderSafe ==
  ASSUME NEW q \in Writers, SafeCall(q), writer'[q] = writer[q],
         \A i \in Idx : Stored(i) => Stored(i)',
         q \in Confirmers => messageCount' = messageCount
  PROVE  SafeCall(q)'
  BY DEF SafeCall

\* Accepting a call keeps the log and the calls under way safe.
LEMMA SubmitContiguous ==
  ASSUME TypeOK, LogContiguous, PendingSafe,
         NEW p \in Writers, NEW first \in Idx, NEW msgs \in Calls, Submit(p, first, msgs)
  PROVE  LogContiguous' /\ PendingSafe'
<1>1. /\ \A i \in Idx : Stored(i)' <=> Stored(i)
      /\ messageCount' = messageCount
  BY DEF Submit, Stored
<1>2. LogContiguous'
  BY <1>1 DEF LogContiguous
<1>3. SafeCall(p)'
  <2>1. first = messageCount /\ messageCount \in Nat
    BY BoundsAssumption DEF Submit, Contiguous, TypeOK
  <2>2. writer'[p].next = first /\ writer'[p].pc = "scan"
    BY DEF Submit, TypeOK
  <2> QED
    BY <1>1, <2>1, <2>2 DEF SafeCall, LogContiguous
<1>4. \A q \in Writers \ {p} : SafeCall(q)'
  BY <1>1, BystanderSafe DEF Submit, PendingSafe, TypeOK
<1> QED
  BY <1>2, <1>3, <1>4 DEF PendingSafe

\* So does building a batch, which changes the caller's record only.
LEMMA ScanContiguous ==
  ASSUME TypeOK, LogContiguous, PendingSafe, NEW p \in Writers, Scan(p)
  PROVE  LogContiguous' /\ PendingSafe'
<1>1. PICK n \in 0 .. MaxBatch :
        \/ DropFeedReorg(p, n) \/ Reject(p, n) \/ AllDuplicates(p, n)
        \/ StartAppend(p, n) \/ StartReorg(p, n)
  BY DEF Scan
<1>2. /\ \A i \in Idx : Stored(i)' <=> Stored(i)
      /\ messageCount' = messageCount
  BY <1>1 DEF DropFeedReorg, Reject, AllDuplicates, Return, StartAppend, StartReorg, Stored
<1>3. LogContiguous'
  BY <1>2 DEF LogContiguous
<1>4. \A q \in Writers \ {p} : writer'[q] = writer[q]
  BY <1>1 DEF DropFeedReorg, Reject, AllDuplicates, Return, StartAppend, StartReorg,
              BuildReorg, TypeOK
<1>5. \A q \in Writers \ {p} : SafeCall(q)'
  BY <1>2, <1>4, BystanderSafe DEF PendingSafe
<1>6. CASE DropFeedReorg(p, n) \/ Reject(p, n) \/ AllDuplicates(p, n)
  <2>1. PICK ret : Return(p, ret)
    BY <1>6 DEF DropFeedReorg, Reject, AllDuplicates
  <2>2. writer'[p].pc = "rest"
    BY <2>1 DEF Return, AtRest, TypeOK
  <2> QED
    BY <1>3, <1>5, <2>2 DEF PendingSafe, SafeCall
<1>7. ASSUME Scanned(p, n)
      PROVE  /\ writer[p].next + n \in Nat
             /\ \A i \in Idx : i < writer[p].next + n => Stored(i)
             /\ p \in Confirmers => writer[p].next + n >= messageCount
  <2>1. n \in Nat /\ writer[p].next \in Nat /\ messageCount \in Nat
    BY WriterFields, BoundsAssumption DEF TypeOK
  <2>2. /\ \A i \in Idx : i < writer[p].next => Stored(i)
        /\ p \in Confirmers => writer[p].next >= messageCount
    BY <1>7 DEF PendingSafe, SafeCall, Scanned
  <2>3. \A i \in Idx : i < writer[p].next + n => Stored(i)
    BY <1>7, <2>1, <2>2, ScannedStored
  <2> QED
    BY <2>1, <2>2, <2>3
<1>8. CASE StartAppend(p, n)
  <2>1. writer'[p].next = writer[p].next + n /\ writer'[p].pc = "put"
    BY <1>8, WriterFields DEF StartAppend, TypeOK, WriterState
  <2>2. SafeCall(p)'
    BY <1>2, <1>7, <1>8, <2>1 DEF StartAppend, SafeCall
  <2> QED
    BY <1>3, <1>5, <2>2 DEF PendingSafe
<1>9. CASE StartReorg(p, n)
  <2>1. /\ writer'[p].next = writer[p].next + n
        /\ writer'[p].oldMessages = StaleMessages(writer[p].next + n)
    BY <1>9 DEF StartReorg, BuildReorg, TypeOK
  <2>2. SafeCall(p)'
    BY <1>2, <1>7, <1>9, <2>1 DEF StartReorg, SafeCall, StaleMessages
  <2> QED
    BY <1>3, <1>5, <2>2 DEF PendingSafe
<1> QED
  BY <1>1, <1>6, <1>8, <1>9

\* Applying one operation of a batch keeps the log and the calls safe, because
\* a removal or a change of the count never has another confirmed call beside it.
LEMMA WriteContiguous ==
  ASSUME SoleConfirmer \/ OnlyFeeders,
         TypeOK, LogContiguous, PendingSafe, NEW p \in Writers, Write(p)
  PROVE  LogContiguous' /\ PendingSafe'
<1>1. /\ SafeCall(p)
      /\ writer[p] \in WriterState
      /\ messageCount \in Nat
      /\ \A i \in Idx : i \in Nat
  BY BoundsAssumption DEF PendingSafe, TypeOK, Idx
<1>2. /\ writer[p].msgs \in Seq(Messages)
      /\ writer[p].next \in Nat
      /\ writer[p].next + Len(writer[p].msgs) <= MaxMessages
  BY <1>1, WriterFields
<1>3. p \in Confirmers => \A q \in Writers : q = p
  BY DEF SoleConfirmer, OnlyFeeders, Writers
<1>4. p \notin Confirmers => \A q \in Writers : q \notin Confirmers
  BY DEF SoleConfirmer, OnlyFeeders, Writers
<1>5. ASSUME NEW i \in Idx, DeleteResult(p, i) PROVE LogContiguous' /\ PendingSafe'
  <2>1. /\ \A j \in Idx : Stored(j)' <=> Stored(j)
        /\ messageCount' = messageCount
        /\ \A q \in Writers \ {p} : writer'[q] = writer[q]
    BY <1>5 DEF DeleteResult, Stored, TypeOK
  <2>2. /\ writer'[p].pc = writer[p].pc
        /\ writer'[p].next = writer[p].next
        /\ writer'[p].oldMessages = writer[p].oldMessages
    BY <1>1, <1>5 DEF DeleteResult, TypeOK, WriterState
  <2>3. SafeCall(p)'
    BY <1>1, <2>1, <2>2 DEF SafeCall
  <2>4. \A q \in Writers \ {p} : SafeCall(q)'
    BY <2>1, BystanderSafe DEF PendingSafe
  <2> QED
    BY <2>1, <2>3, <2>4 DEF PendingSafe, LogContiguous
<1>6. ASSUME NEW i \in Idx, DeleteMessage(p, i) PROVE LogContiguous' /\ PendingSafe'
  <2>1. p \in Confirmers /\ i >= writer[p].next /\ writer[p].next >= messageCount
    BY <1>1, <1>6 DEF DeleteMessage, SafeCall
  <2>2. \A j \in Idx : j < writer[p].next => Stored(j) /\ Stored(j)'
    BY <1>1, <1>2, <1>6, <2>1 DEF DeleteMessage, SafeCall, Stored, TypeOK
  <2>3. /\ writer'[p].pc = writer[p].pc
        /\ writer'[p].next = writer[p].next
        /\ writer'[p].oldMessages = writer[p].oldMessages \ {i}
        /\ messageCount' = messageCount
    BY <1>1, <1>6 DEF DeleteMessage, TypeOK, WriterState
  <2>4. SafeCall(p)'
    BY <1>1, <2>1, <2>2, <2>3 DEF SafeCall
  <2>5. LogContiguous'
    BY <1>1, <1>2, <2>1, <2>2, <2>3 DEF LogContiguous
  <2> QED
    BY <1>3, <2>1, <2>4, <2>5 DEF PendingSafe
<1>7. CASE LowerCount(p)
  <2>1. p \in Confirmers /\ messageCount' = writer[p].next
    BY <1>1, <1>7 DEF LowerCount, LoweredCount, SafeCall
  <2>2. \A j \in Idx : j < writer[p].next => Stored(j)'
    BY <1>1, <1>7 DEF LowerCount, SafeCall, Stored
  <2>3. \/ writer'[p].pc = "rest"
        \/ writer'[p].pc = "put" /\ writer'[p].next = writer[p].next
    BY <1>1, <1>7 DEF LowerCount, AtRest, TypeOK, WriterState
  <2>4. SafeCall(p)'
    BY <1>2, <2>1, <2>2, <2>3 DEF SafeCall
  <2> QED
    BY <1>3, <2>1, <2>2, <2>4 DEF PendingSafe, LogContiguous
<1>8. CASE PutMessage(p)
  <2>1. Head(writer[p].msgs) \in Messages
    BY <1>2, <1>8 DEF PutMessage
  <2>2. \A j \in Idx : Stored(j) \/ j = writer[p].next => Stored(j)'
    BY <1>8, <2>1, MessagesAssumption DEF PutMessage, Stored, TypeOK
  <2>3. /\ messageCount' = messageCount
        /\ \A q \in Writers \ {p} : writer'[q] = writer[q]
        /\ writer'[p].pc = "put"
        /\ writer'[p].next = writer[p].next + 1
    BY <1>1, <1>8 DEF PutMessage, TypeOK, WriterState
  <2>4. \A j \in Idx : j < writer[p].next + 1 => Stored(j)'
    BY <1>1, <1>2, <1>8, <2>2 DEF PutMessage, SafeCall
  <2>5. p \in Confirmers => writer[p].next >= messageCount
    BY <1>1, <1>8 DEF PutMessage, SafeCall
  <2>6. SafeCall(p)'
    BY <1>1, <1>2, <2>3, <2>4, <2>5 DEF SafeCall
  <2>7. \A q \in Writers \ {p} : SafeCall(q)'
    BY <2>2, <2>3, BystanderSafe DEF PendingSafe
  <2> QED
    BY <2>2, <2>3, <2>6, <2>7 DEF PendingSafe, LogContiguous
<1>9. CASE PutCount(p)
  <2>1. /\ messageCount' = writer[p].next
        /\ \A j \in Idx : Stored(j)' <=> Stored(j)
        /\ \A q \in Writers \ {p} : writer'[q] = writer[q]
        /\ writer'[p].pc = "rest"
    BY <1>9 DEF PutCount, NewCount, AtRest, Stored, TypeOK
  <2>2. \A j \in Idx : j < writer[p].next => Stored(j)
    BY <1>1, <1>9 DEF PutCount, SafeCall
  <2>3. \A q \in Writers \ {p} : q \notin Confirmers
    BY <1>3, <1>4
  <2>4. \A q \in Writers \ {p} : SafeCall(q)'
    BY <2>1, <2>3, BystanderSafe DEF PendingSafe
  <2>5. SafeCall(p)'
    BY <2>1 DEF SafeCall
  <2> QED
    BY <2>1, <2>2, <2>4, <2>5 DEF PendingSafe, LogContiguous
<1> QED
  BY <1>5, <1>6, <1>7, <1>8, <1>9 DEF Write

\* The invariant of the log holds initially and is kept by every step.
LEMMA ContiguousStep ==
  ASSUME SoleConfirmer \/ OnlyFeeders,
         TypeOK, LogContiguous, PendingSafe, [Next]_vars
  PROVE  LogContiguous' /\ PendingSafe'
<1>1. ASSUME NEW p \in Writers, NEW first \in Idx, NEW msgs \in Calls \cup {<<>>},
             SubmitReorg(p, first, msgs)
      PROVE  FALSE
  BY <1>1 DEF SubmitReorg, SoleConfirmer, OnlyFeeders
<1>2. CASE Execute \/ ExecFail \/ UNCHANGED vars
  <2>1. UNCHANGED <<messages, messageCount, writer>>
    BY <1>2 DEF Execute, ExecHead, ExecSkip, ExecDigest, ExecStore, ExecRefused, ExecFail, vars
  <2> QED
    BY <2>1 DEF LogContiguous, PendingSafe, SafeCall, Stored
<1>3. CASE Crash
  <2>1. UNCHANGED <<messages, messageCount>> /\ \A p \in Writers : writer'[p].pc = "rest"
    BY <1>3 DEF Crash, AtRest
  <2> QED
    BY <2>1 DEF LogContiguous, PendingSafe, SafeCall, Stored
<1> QED
  BY <1>1, <1>2, <1>3, SubmitContiguous, ScanContiguous, WriteContiguous DEF Next

\* Initially there is no log and no call.
LEMMA ContiguousInit == Init => LogContiguous /\ PendingSafe
  BY BoundsAssumption DEF Init, LogContiguous, PendingSafe, SafeCall, AtRest, Idx

\* With one reader, or with any number of RPC new_message callers, every index
\* below the count has a message whatever the interleaving of the puts and
\* wherever a crash falls: batches that put the count last need not be atomic.
THEOREM LogIsContiguous ==
  ASSUME SoleConfirmer \/ OnlyFeeders
  PROVE  Spec => []LogContiguous
<1>1. Init => LogContiguous /\ PendingSafe
  BY ContiguousInit
<1>2. TypeOK /\ LogContiguous /\ PendingSafe /\ [Next]_vars => (LogContiguous /\ PendingSafe)'
  BY ContiguousStep
<1> QED
  BY <1>1, <1>2, TypeCorrect, PTL DEF Spec

(***************************************************************************)
(* With one reader the log is append-only.                                 *)
(***************************************************************************)

\* The steps of a call touch only what lies at or above the count.
LEMMA WriteAppends ==
  ASSUME SoleConfirmer, TypeOK, PendingSafe, NEW p \in Writers, Write(p)
  PROVE  /\ messageCount' >= messageCount
         /\ \A i \in Idx : i < messageCount => messages'[i] = messages[i]
<1>1. /\ SafeCall(p)
      /\ p \in Confirmers
      /\ writer[p].next \in Nat
      /\ messageCount \in Nat
      /\ \A i \in Idx : i \in Nat
  BY WriterFields, BoundsAssumption DEF PendingSafe, TypeOK, Idx, SoleConfirmer, Writers
<1>2. writer[p].pc # "rest"
  BY DEF Write, DeleteResult, DeleteMessage, LowerCount, PutMessage, PutCount
<1>3. writer[p].next >= messageCount
  BY <1>1, <1>2 DEF SafeCall
<1>4. ASSUME NEW i \in Idx, DeleteResult(p, i) PROVE UNCHANGED <<messages, messageCount>>
  BY <1>4 DEF DeleteResult
<1>5. ASSUME NEW i \in Idx, DeleteMessage(p, i)
      PROVE  /\ messageCount' = messageCount
             /\ \A j \in Idx : j < messageCount => messages'[j] = messages[j]
  <2>1. i >= writer[p].next
    BY <1>1, <1>5 DEF DeleteMessage, SafeCall
  <2> QED
    BY <1>1, <1>3, <1>5, <2>1 DEF DeleteMessage, TypeOK
<1>6. CASE LowerCount(p) \/ PutCount(p)
  BY <1>3, <1>6 DEF LowerCount, LoweredCount, PutCount, NewCount
<1>7. CASE PutMessage(p)
  BY <1>1, <1>3, <1>7 DEF PutMessage, TypeOK
<1> QED
  BY <1>1, <1>4, <1>5, <1>6, <1>7 DEF Write

\* No step of the node replaces or removes a message below the count or lowers
\* the count, when the reader is the only caller.
LEMMA StepAppends ==
  ASSUME SoleConfirmer, TypeOK, PendingSafe, [Next]_vars
  PROVE  /\ messageCount' >= messageCount
         /\ \A i \in Idx : i < messageCount => messages'[i] = messages[i]
<1>1. messageCount \in Nat
  BY BoundsAssumption DEF TypeOK
<1>2. ASSUME NEW p \in Writers, NEW first \in Idx,
             \/ \E msgs \in Calls : Submit(p, first, msgs)
             \/ \E msgs \in Calls \cup {<<>>} : SubmitReorg(p, first, msgs)
      PROVE  UNCHANGED <<messages, messageCount>>
  BY <1>2 DEF Submit, SubmitReorg
<1>3. ASSUME NEW p \in Writers, Scan(p)
      PROVE  UNCHANGED <<messages, messageCount>>
  BY <1>3 DEF Scan, DropFeedReorg, Reject, AllDuplicates, Return, StartAppend, StartReorg
<1>4. CASE Execute \/ ExecFail \/ Crash \/ UNCHANGED vars
  <2>1. UNCHANGED <<messages, messageCount>>
    BY <1>4 DEF Execute, ExecHead, ExecSkip, ExecDigest, ExecStore, ExecRefused,
                ExecFail, Crash, vars
  <2> QED
    BY <1>1, <2>1
<1>5. ASSUME NEW p \in Writers, Write(p)
      PROVE  /\ messageCount' >= messageCount
             /\ \A i \in Idx : i < messageCount => messages'[i] = messages[i]
  BY <1>5, WriteAppends
<1> QED
  BY <1>1, <1>2, <1>3, <1>4, <1>5 DEF Next

\* With one reader and no RPC writer no step replaces or removes a message below
\* the count or lowers the count; this is what lets the execution loop read the
\* log without a lock.
THEOREM CommittedStays ==
  ASSUME SoleConfirmer
  PROVE  Spec => CommittedImmutable
<1>1. Init => LogContiguous /\ PendingSafe
  BY ContiguousInit
<1>2. TypeOK /\ LogContiguous /\ PendingSafe /\ [Next]_vars => (LogContiguous /\ PendingSafe)'
  BY ContiguousStep
<1>3. TypeOK /\ PendingSafe /\ [Next]_vars =>
        [/\ messageCount' >= messageCount
         /\ \A i \in Idx : i < messageCount => messages'[i] = messages[i]]_vars
  BY StepAppends
<1> QED
  BY <1>1, <1>2, <1>3, TypeCorrect, PTL DEF Spec, CommittedImmutable

--------------------------------------------------------------------------------

(***************************************************************************)
(* What the calls that append and reorg promise their callers: message 0   *)
(* stays, a caller on its own leaves no hole, a reader's acknowledged call *)
(* is counted and no delayed message is skipped.                           *)
(***************************************************************************)

(***************************************************************************)
(* The init message.                                                       *)
(***************************************************************************)

\* No caller has message 0 among the keys it is removing.
InitSafe == \A p \in Writers : 0 \notin writer[p].oldMessages

\* A reorg that is allowed to start collects keys from its first index on, and
\* that is never 0.
LEMMA BuildReorgKeepsInit ==
  ASSUME TypeOK, InitSafe, NEW p \in Writers, NEW first \in Nat, NEW rest, NEW upto,
         Reorgable(first), BuildReorg(p, first, rest, upto)
  PROVE  InitSafe'
<1>1. 0 \notin StaleMessages(first)
  BY DEF StaleMessages, Reorgable
<1>2. /\ writer'[p].oldMessages = StaleMessages(first)
      /\ \A q \in Writers \ {p} : writer'[q] = writer[q]
  BY DEF BuildReorg, TypeOK
<1> QED
  BY <1>1, <1>2 DEF InitSafe

\* Every step keeps message 0 out of what is being removed.
LEMMA InitSafeStep ==
  ASSUME TypeOK, InitSafe, [Next]_vars
  PROVE  InitSafe'
<1>1. ASSUME NEW p \in Writers, NEW first \in Idx, NEW msgs \in Calls, Submit(p, first, msgs)
      PROVE  InitSafe'
  BY <1>1 DEF Submit, TypeOK, InitSafe
<1>2. ASSUME NEW p \in Writers, NEW first \in Idx, NEW msgs \in Calls \cup {<<>>},
             SubmitReorg(p, first, msgs)
      PROVE  InitSafe'
  <2>1. first \in Nat
    BY BoundsAssumption DEF Idx
  <2> QED
    BY <1>2, <2>1, BuildReorgKeepsInit DEF SubmitReorg
<1>3. ASSUME NEW p \in Writers, NEW ret, Return(p, ret)
      PROVE  InitSafe'
  BY <1>3 DEF Return, AtRest, TypeOK, InitSafe
<1>4. ASSUME NEW p \in Writers, Scan(p)
      PROVE  InitSafe'
  <2>1. PICK n \in 0 .. MaxBatch :
          \/ DropFeedReorg(p, n) \/ Reject(p, n) \/ AllDuplicates(p, n)
          \/ StartAppend(p, n) \/ StartReorg(p, n)
    BY <1>4 DEF Scan
  <2>2. CASE DropFeedReorg(p, n) \/ Reject(p, n) \/ AllDuplicates(p, n)
    BY <1>3, <2>2 DEF DropFeedReorg, Reject, AllDuplicates
  <2>3. CASE StartAppend(p, n)
    <3>1. \A q \in Writers : writer'[q].oldMessages = writer[q].oldMessages
      BY SMTT(30), <2>3 DEF StartAppend, TypeOK, WriterState
    <3> QED
      BY <3>1 DEF InitSafe
  <2>4. CASE StartReorg(p, n)
    <3>1. writer[p].next + n \in Nat
      BY WriterFields, BoundsAssumption DEF TypeOK
    <3> QED
      BY <2>4, <3>1, BuildReorgKeepsInit DEF StartReorg
  <2> QED
    BY <2>1, <2>2, <2>3, <2>4
<1>5. ASSUME NEW p \in Writers, Write(p), NEW q \in Writers
      PROVE  0 \notin writer'[q].oldMessages
  <2>1. writer \in [Writers -> WriterState] /\ 0 \notin writer[q].oldMessages
    BY DEF TypeOK, InitSafe
  <2>2. ASSUME NEW i \in Idx, DeleteResult(p, i) PROVE 0 \notin writer'[q].oldMessages
    BY <2>1, <2>2 DEF DeleteResult, WriterState
  <2>3. ASSUME NEW i \in Idx, DeleteMessage(p, i) PROVE 0 \notin writer'[q].oldMessages
    BY <2>1, <2>3 DEF DeleteMessage, WriterState
  <2>4. CASE LowerCount(p)
    BY <2>1, <2>4 DEF LowerCount, AtRest, WriterState
  <2>5. CASE PutMessage(p)
    BY <2>1, <2>5 DEF PutMessage, WriterState
  <2>6. CASE PutCount(p)
    BY <2>1, <2>6 DEF PutCount, AtRest, WriterState
  <2> QED
    BY <1>5, <2>2, <2>3, <2>4, <2>5, <2>6 DEF Write
<1>6. CASE Execute \/ ExecFail \/ UNCHANGED vars
  BY <1>6 DEF Execute, ExecHead, ExecSkip, ExecDigest, ExecStore, ExecRefused,
              ExecFail, vars, InitSafe
<1>7. CASE Crash
  BY <1>7 DEF Crash, AtRest, InitSafe
<1> QED
  BY <1>1, <1>2, <1>4, <1>5, <1>6, <1>7 DEF Next, InitSafe

\* Whoever calls whatever, in any interleaving and through crashes, there is always
\* a message at index 0 once the init message is stored: the check "cannot reorg out init
\* message" is made before the keys to remove are collected, and a key collected
\* is removed much later.
THEOREM InitMessageStays == Spec => InitMessageKept
<1>1. Init => InitSafe
  BY DEF Init, AtRest, InitSafe
<1>2. TypeOK /\ InitSafe /\ [Next]_vars => InitSafe'
  BY InitSafeStep
<1>3. ASSUME TypeOK, InitSafe, [Next]_vars
      PROVE  [Stored(0) => messages'[0] # NoMessage]_vars
  <2>1. ASSUME NEW p \in Writers, NEW first \in Idx,
               \/ \E msgs \in Calls : Submit(p, first, msgs)
               \/ \E msgs \in Calls \cup {<<>>} : SubmitReorg(p, first, msgs)
        PROVE  messages' = messages
    BY <2>1 DEF Submit, SubmitReorg
  <2>2. ASSUME NEW p \in Writers, Scan(p) PROVE messages' = messages
    BY <2>2 DEF Scan, DropFeedReorg, Reject, AllDuplicates, Return, StartAppend, StartReorg
  <2>3. ASSUME Execute \/ ExecFail \/ Crash \/ UNCHANGED vars
        PROVE  messages' = messages
    <3>1. CASE Execute
      BY <3>1 DEF Execute, ExecHead, ExecSkip, ExecDigest, ExecStore, ExecRefused
    <3>2. CASE ExecFail \/ Crash \/ UNCHANGED vars
      BY <3>2 DEF ExecFail, Crash, vars
    <3> QED
      BY <2>3, <3>1, <3>2
  <2>4. ASSUME NEW p \in Writers, Write(p), Stored(0) PROVE messages'[0] # NoMessage
    <3>1. 0 \in Idx /\ messages \in [Idx -> Messages \cup {NoMessage}]
      BY <1>3, BoundsAssumption DEF TypeOK, Idx
    <3>2. ASSUME NEW i \in Idx, DeleteMessage(p, i) PROVE messages'[0] # NoMessage
      BY <1>3, <2>4, <3>1, <3>2 DEF DeleteMessage, InitSafe, Stored
    <3>3. CASE PutMessage(p)
      <4>1. Head(writer[p].msgs) \in Messages
        BY <1>3, <3>3, WriterFields DEF PutMessage, TypeOK
      <4> QED
        BY <2>4, <3>1, <3>3, <4>1, MessagesAssumption DEF PutMessage, Stored
    <3>4. ASSUME NEW i \in Idx, DeleteResult(p, i) PROVE messages'[0] # NoMessage
      BY <2>4, <3>4 DEF DeleteResult, Stored
    <3>5. CASE LowerCount(p) \/ PutCount(p)
      BY <2>4, <3>5 DEF LowerCount, PutCount, Stored
    <3> QED
      BY <2>4, <3>2, <3>3, <3>4, <3>5 DEF Write
  <2> QED
    BY <1>3, <2>1, <2>2, <2>3, <2>4 DEF Next, Stored
<1> QED
  BY <1>1, <1>2, <1>3, TypeCorrect, PTL DEF Spec, InitMessageKept

(***************************************************************************)
(* A caller on its own, of any kind.                                       *)
(***************************************************************************)

SoleCaller == \A p, q \in Writers : p = q

\* A crash has not met an RPC reorg.
Quiet == used.crashes = 0 \/ used.reorgs = 0

\* A call under way has every message below the index it has reached, removes
\* nothing below it, and is at or above the count when it puts messages.
AtLog(p) ==
  /\ writer[p].pc # "rest" => \A i \in Idx : i < writer[p].next => Stored(i)
  /\ \A i \in writer[p].oldMessages : writer[p].pc = "delete" /\ i >= writer[p].next
  /\ writer[p].pc \in {"scan", "put"} \/ used.reorgs = 0 =>
       writer[p].pc = "rest" \/ writer[p].next >= messageCount

\* Only the removals of an RPC reorg tear the log.
Untorn == used.reorgs = 0 \/ (\A p \in Writers : writer[p].pc # "delete") => LogContiguous

CallerInv == Quiet => Untorn /\ \A p \in Writers : AtLog(p)

\* Nobody calls and there is no log.
LEMMA CallerInit == Init => CallerInv
  BY BoundsAssumption DEF Init, CallerInv, Untorn, LogContiguous, AtLog, AtRest, Idx

\* A caller that is between calls is at the log.
LEMMA RestAtLog ==
  ASSUME NEW p \in Writers, writer[p].pc = "rest", writer[p].oldMessages = {}
  PROVE  AtLog(p)
  BY DEF AtLog

\* Crashes and RPC reorgs are never taken back, and only a crash is a crash.
LEMMA QuietSteps ==
  ASSUME TypeOK, [Next]_vars
  PROVE  /\ Quiet' => Quiet
         /\ used'.reorgs = 0 => used.reorgs = 0
         /\ used'.crashes = 0 => used.crashes = 0 /\ ~Crash
<1>1. used \in Budget
  BY DEF TypeOK, Budget
<1>2. ASSUME NEW p \in Writers, NEW first \in Idx,
             \/ \E msgs \in Calls : Submit(p, first, msgs)
             \/ \E msgs \in Calls \cup {<<>>} : SubmitReorg(p, first, msgs)
      PROVE  used'.crashes = used.crashes /\ (used'.reorgs = 0 => used.reorgs = 0)
  <2>1. CASE \E msgs \in Calls : Submit(p, first, msgs)
    BY <2>1 DEF Submit
  <2>2. CASE \E msgs \in Calls \cup {<<>>} : SubmitReorg(p, first, msgs)
    BY <1>1, <2>2 DEF SubmitReorg, Budget
  <2> QED
    BY <1>2, <2>1, <2>2
<1>3. ASSUME NEW p \in Writers, Scan(p) \/ Write(p) PROVE used' = used
  BY <1>3 DEF Scan, DropFeedReorg, Reject, AllDuplicates, Return, StartAppend, StartReorg,
              Write, DeleteResult, DeleteMessage, LowerCount, PutMessage, PutCount
<1>4. ASSUME Execute \/ UNCHANGED vars PROVE used' = used
  BY <1>4 DEF Execute, ExecHead, ExecSkip, ExecDigest, ExecStore, ExecRefused, vars
<1>5. ASSUME ExecFail PROVE used'.crashes = used.crashes /\ used'.reorgs = used.reorgs
  BY <1>1, <1>5 DEF ExecFail, Budget
<1>6. ASSUME Crash PROVE used'.crashes # 0 /\ used'.reorgs = used.reorgs
  BY <1>1, <1>6, BoundsAssumption DEF Crash, Budget
<1> QED
  BY <1>2, <1>3, <1>4, <1>5, <1>6 DEF Next, Quiet

\* Accepting a call that appends keeps the log whole.
LEMMA SubmitWhole ==
  ASSUME SoleCaller, TypeOK, Quiet, CallerInv,
         NEW p \in Writers, NEW first \in Idx, NEW msgs \in Calls, Submit(p, first, msgs)
  PROVE  Untorn' /\ AtLog(p)'
<1>1. /\ writer[p].pc = "rest"
      /\ first = messageCount
      /\ first \in Nat
      /\ UNCHANGED <<messages, messageCount, used>>
  BY BoundsAssumption DEF Submit, Contiguous, Idx
<1>2. writer'[p].pc = "scan" /\ writer'[p].next = first /\ writer'[p].oldMessages = {}
  BY DEF Submit, TypeOK
<1>3. LogContiguous
  BY <1>1 DEF SoleCaller, CallerInv, Untorn
<1> QED
  BY <1>1, <1>2, <1>3 DEF Untorn, LogContiguous, AtLog, Stored

\* Accepting an RPC reorg at an index of the log finds everything below it stored.
LEMMA SubmitReorgWhole ==
  ASSUME SoleCaller, ReorgsInLog, TypeOK, Quiet, CallerInv, NEW p \in Writers,
         NEW first \in Idx, NEW msgs \in Calls \cup {<<>>}, SubmitReorg(p, first, msgs)
  PROVE  Untorn' /\ AtLog(p)'
<1>1. /\ writer[p].pc = "rest"
      /\ first <= messageCount
      /\ first \in Nat
      /\ messageCount \in Nat
      /\ UNCHANGED <<messages, messageCount>>
      /\ \A i \in Idx : i \in Nat
  BY BoundsAssumption DEF SubmitReorg, Idx, TypeOK
<1>2. /\ writer'[p].pc = "delete"
      /\ writer'[p].next = first
      /\ writer'[p].oldMessages = StaleMessages(first)
  BY DEF SubmitReorg, BuildReorg, TypeOK
<1>3. used'.reorgs # 0
  <2>1. used \in Budget /\ used' = [used EXCEPT !.reorgs = @ + 1]
    BY DEF SubmitReorg, TypeOK, Budget
  <2> QED
    BY <2>1, BoundsAssumption DEF Budget
<1>4. LogContiguous
  BY <1>1 DEF SoleCaller, CallerInv, Untorn
<1>5. \A i \in Idx : i < first => Stored(i)
  BY <1>1, <1>4 DEF LogContiguous
<1> QED
  BY <1>1, <1>2, <1>3, <1>5 DEF Untorn, AtLog, Stored, StaleMessages

\* Building a batch keeps the log whole.
LEMMA ScanWhole ==
  ASSUME SoleCaller, TypeOK, Quiet, CallerInv, NEW p \in Writers, Scan(p)
  PROVE  Untorn' /\ AtLog(p)'
<1>1. PICK n \in 0 .. MaxBatch :
        \/ DropFeedReorg(p, n) \/ Reject(p, n) \/ AllDuplicates(p, n)
        \/ StartAppend(p, n) \/ StartReorg(p, n)
  BY DEF Scan
<1>2. /\ UNCHANGED <<messages, messageCount, used>>
      /\ Scanned(p, n)
      /\ writer[p].pc = "scan"
  BY <1>1 DEF DropFeedReorg, Reject, AllDuplicates, Return, StartAppend, StartReorg, Scanned
<1>3. /\ n \in Nat /\ writer[p].next \in Nat /\ messageCount \in Nat
      /\ \A i \in Idx : i \in Nat
  BY WriterFields, BoundsAssumption DEF TypeOK, Idx
<1>4. /\ LogContiguous
      /\ AtLog(p)
      /\ \A i \in Idx : i < writer[p].next => Stored(i)
      /\ writer[p].next >= messageCount
  BY <1>2 DEF SoleCaller, CallerInv, Untorn, AtLog
<1>5. LogContiguous' /\ Untorn'
  BY <1>2, <1>4 DEF LogContiguous, Stored, Untorn
<1>6. \A i \in Idx : i < writer[p].next + n => Stored(i)'
  <2>1. \A i \in Idx : i < writer[p].next + n => Stored(i)
    BY <1>2, <1>3, <1>4, ScannedStored
  <2> QED
    BY <1>2, <2>1 DEF Stored
<1>7. CASE DropFeedReorg(p, n) \/ Reject(p, n) \/ AllDuplicates(p, n)
  <2>1. PICK ret : Return(p, ret)
    BY <1>7 DEF DropFeedReorg, Reject, AllDuplicates
  <2>2. writer'[p].pc = "rest" /\ writer'[p].oldMessages = {}
    BY <2>1 DEF Return, AtRest, TypeOK
  <2> QED
    BY <1>5, <2>2 DEF AtLog
<1>8. CASE StartAppend(p, n)
  <2>1. /\ writer'[p].next = writer[p].next + n
        /\ writer'[p].oldMessages = writer[p].oldMessages
        /\ writer'[p].pc = "put"
    BY <1>8, WriterFields DEF StartAppend, TypeOK, WriterState
  <2>2. writer[p].oldMessages = {}
    BY <1>2, <1>4 DEF AtLog
  <2> QED
    BY <1>2, <1>3, <1>4, <1>5, <1>6, <2>1, <2>2 DEF AtLog
<1>9. CASE StartReorg(p, n)
  <2>1. /\ writer'[p].next = writer[p].next + n
        /\ writer'[p].oldMessages = StaleMessages(writer[p].next + n)
        /\ writer'[p].pc = "delete"
    BY <1>9 DEF StartReorg, BuildReorg, TypeOK
  <2> QED
    BY <1>2, <1>3, <1>4, <1>5, <1>6, <2>1 DEF AtLog, StaleMessages
<1> QED
  BY <1>1, <1>7, <1>8, <1>9

\* Applying one operation of a batch keeps the log whole, but for the removals of
\* an RPC reorg, and those end with the count at the index they began at.
LEMMA WriteWhole ==
  ASSUME SoleCaller, TypeOK, Quiet, CallerInv, NEW p \in Writers, Write(p)
  PROVE  Untorn' /\ AtLog(p)'
<1>1. /\ writer[p] \in WriterState /\ writer \in [Writers -> WriterState]
      /\ writer[p].next \in Nat
      /\ writer[p].msgs \in Seq(Messages)
      /\ writer[p].next + Len(writer[p].msgs) <= MaxMessages
      /\ messageCount \in Nat
      /\ \A i \in Idx : i \in Nat
  BY WriterFields, BoundsAssumption DEF TypeOK, Idx
<1>2. AtLog(p) /\ Untorn /\ \A q \in Writers : q = p
  BY DEF CallerInv, SoleCaller
<1>3. used' = used
  BY DEF Write, DeleteResult, DeleteMessage, LowerCount, PutMessage, PutCount
<1>4. ASSUME NEW i \in Idx, DeleteResult(p, i) PROVE Untorn' /\ AtLog(p)'
  <2>1. UNCHANGED <<messages, messageCount>>
    BY <1>4 DEF DeleteResult
  <2>2. /\ writer'[p].pc = writer[p].pc
        /\ writer'[p].next = writer[p].next
        /\ writer'[p].oldMessages = writer[p].oldMessages
    BY <1>1, <1>4 DEF DeleteResult, WriterState
  <2> QED
    BY <1>2, <1>3, <2>1, <2>2 DEF Untorn, LogContiguous, AtLog, Stored
<1>5. ASSUME NEW i \in Idx, DeleteMessage(p, i) PROVE Untorn' /\ AtLog(p)'
  <2>1. writer[p].pc = "delete" /\ i >= writer[p].next
    BY <1>2, <1>5 DEF DeleteMessage, AtLog
  <2>2. /\ writer'[p].pc = writer[p].pc
        /\ writer'[p].next = writer[p].next
        /\ writer'[p].oldMessages = writer[p].oldMessages \ {i}
        /\ messageCount' = messageCount
    BY <1>1, <1>5 DEF DeleteMessage, WriterState
  <2>3. \A j \in Idx : j < writer[p].next => Stored(j) /\ Stored(j)'
    BY <1>1, <1>2, <1>5, <2>1 DEF DeleteMessage, AtLog, Stored, TypeOK
  <2>4. AtLog(p)'
    BY <1>2, <1>3, <2>1, <2>2, <2>3 DEF AtLog
  <2>5. ASSUME used.reorgs = 0 PROVE LogContiguous'
    <3>1. writer[p].next >= messageCount
      BY <1>2, <2>1, <2>5 DEF AtLog
    <3> QED
      BY <1>1, <2>2, <2>3, <3>1 DEF LogContiguous
  <2>6. Untorn'
    BY <1>3, <2>1, <2>2, <2>5 DEF Untorn
  <2> QED
    BY <2>4, <2>6
<1>6. CASE LowerCount(p)
  <2>1. /\ messages' = messages
        /\ messageCount' = writer[p].next
        /\ writer[p].pc = "delete"
        /\ writer[p].oldMessages = {}
    BY <1>6 DEF LowerCount, LoweredCount
  <2>2. /\ writer'[p].oldMessages = {}
        /\ \/ writer'[p].pc = "rest"
           \/ writer'[p].pc = "put" /\ writer'[p].next = writer[p].next
    BY <1>1, <1>6, <2>1 DEF LowerCount, AtRest, WriterState
  <2>3. \A j \in Idx : j < writer[p].next => Stored(j)'
    BY <1>2, <2>1 DEF AtLog, Stored
  <2>4. LogContiguous'
    BY <2>1, <2>3 DEF LogContiguous
  <2>5. AtLog(p)'
    BY <1>1, <2>1, <2>2, <2>3 DEF AtLog
  <2> QED
    BY <2>4, <2>5 DEF Untorn
<1>7. CASE PutMessage(p)
  <2>1. Head(writer[p].msgs) \in Messages
    BY <1>1, <1>7 DEF PutMessage
  <2>2. \A j \in Idx : Stored(j) \/ j = writer[p].next => Stored(j)'
    BY <1>7, <2>1, MessagesAssumption DEF PutMessage, Stored, TypeOK
  <2>3. /\ messageCount' = messageCount
        /\ writer[p].pc = "put"
        /\ writer'[p].pc = "put"
        /\ writer'[p].next = writer[p].next + 1
        /\ writer'[p].oldMessages = writer[p].oldMessages
    BY <1>1, <1>7 DEF PutMessage, WriterState
  <2>4. \A j \in Idx : j < writer[p].next + 1 => Stored(j)'
    BY <1>1, <1>2, <2>2, <2>3 DEF AtLog
  <2>5. writer[p].next >= messageCount /\ writer[p].oldMessages = {}
    BY <1>2, <2>3 DEF AtLog
  <2>6. AtLog(p)'
    BY <1>1, <2>3, <2>4, <2>5 DEF AtLog
  <2>7. LogContiguous'
    BY <1>1, <2>3, <2>4, <2>5 DEF LogContiguous
  <2> QED
    BY <2>6, <2>7 DEF Untorn
<1>8. CASE PutCount(p)
  <2>1. /\ messages' = messages
        /\ messageCount' = writer[p].next
        /\ writer[p].pc = "put"
        /\ writer'[p].pc = "rest"
        /\ writer'[p].oldMessages = {}
    BY <1>1, <1>8 DEF PutCount, NewCount, AtRest
  <2>2. \A j \in Idx : j < writer[p].next => Stored(j)'
    BY <1>2, <2>1 DEF AtLog, Stored
  <2> QED
    BY <2>1, <2>2 DEF Untorn, LogContiguous, AtLog
<1> QED
  BY <1>4, <1>5, <1>6, <1>7, <1>8 DEF Write

\* Every step keeps the log whole while it is quiet.
LEMMA CallerStep ==
  ASSUME SoleCaller, ReorgsInLog, TypeOK, CallerInv, [Next]_vars
  PROVE  CallerInv'
<1> SUFFICES ASSUME Quiet' PROVE Untorn' /\ \A p \in Writers : AtLog(p)'
  BY DEF CallerInv
<1>1. Quiet /\ (used'.reorgs = 0 => used.reorgs = 0)
  BY QuietSteps
<1>2. ASSUME NEW p \in Writers, Untorn' /\ AtLog(p)'
      PROVE  Untorn' /\ \A q \in Writers : AtLog(q)'
  BY <1>2 DEF SoleCaller
<1>3. CASE Execute \/ ExecFail \/ UNCHANGED vars
  <2>1. UNCHANGED <<messages, messageCount, writer>>
    BY <1>3 DEF Execute, ExecHead, ExecSkip, ExecDigest, ExecStore, ExecRefused, ExecFail, vars
  <2> QED
    BY <1>1, <2>1 DEF CallerInv, Untorn, LogContiguous, AtLog, Stored
<1>4. CASE Crash
  <2>1. /\ UNCHANGED <<messages, messageCount>>
        /\ \A p \in Writers : writer'[p].pc = "rest" /\ writer'[p].oldMessages = {}
    BY <1>4 DEF Crash, AtRest
  <2>2. used'.reorgs = 0
    <3>1. used \in Budget /\ used' = [used EXCEPT !.crashes = @ + 1]
      BY <1>4 DEF Crash, TypeOK, Budget
    <3>2. used'.crashes # 0
      BY <3>1, BoundsAssumption DEF Budget
    <3> QED
      BY <3>2 DEF Quiet
  <2>3. LogContiguous
    BY <1>1, <2>2 DEF CallerInv, Untorn
  <2> QED
    BY <2>1, <2>3 DEF Untorn, LogContiguous, AtLog, Stored
<1> QED
  BY <1>1, <1>2, <1>3, <1>4, SubmitWhole, SubmitReorgWhole, ScanWhole, WriteWhole DEF Next

\* A caller on its own, whether it confirms, feeds or reorgs, leaves no hole
\* below the count when its call is over, if RPC reorgs name only indices up to
\* the count and no crash meets one: the removals that tear the log are followed
\* by the count that closes it.
THEOREM WholeAtRest ==
  ASSUME SoleCaller, ReorgsInLog
  PROVE  Spec => []LogContiguousAtRest
<1>1. TypeOK /\ CallerInv /\ [Next]_vars => CallerInv'
  BY CallerStep
<1>2. CallerInv => LogContiguousAtRest
  BY DEF CallerInv, Quiet, Untorn, LogContiguousAtRest
<1> QED
  BY <1>1, <1>2, CallerInit, TypeCorrect, PTL DEF Spec

(***************************************************************************)
(* The reader's calls, while the node has not crashed.                     *)
(***************************************************************************)

\* delayed_messages_read before the k-th message that is still to be put.
DelayedBefore(p, k) ==
  IF k = 1 THEN get_prev_prev_delayed_read(writer[p].next) ELSE writer[p].msgs[k - 1].read

\* A call finds nothing at or above the count, so it has no duplicates and reorgs
\* nothing; what is still to be put skips no delayed message.
CleanCall(p) ==
  /\ writer[p].pc # "delete"
  /\ writer[p].pc = "rest" /\ writer[p].ret = "ok" => messageCount >= writer[p].upto
  /\ writer[p].pc # "rest" =>
       writer[p].ret = "none" /\ writer[p].upto = writer[p].next + Len(writer[p].msgs)
  /\ writer[p].pc = "scan" => writer[p].next = messageCount /\ writer[p].msgs # <<>>
  /\ writer[p].pc = "put" =>
       \A k \in 1 .. Len(writer[p].msgs) : writer[p].msgs[k].read <= 1 + DelayedBefore(p, k)

NothingBeyond ==
  \A i \in Idx :
    Stored(i) => i < messageCount \/ \E p \in Writers : writer[p].pc = "put" /\ i < writer[p].next

NoJumpStored ==
  \A i \in Idx : Stored(i) => messages[i].read <= 1 + get_prev_prev_delayed_read(i)

CleanInv == NothingBeyond /\ NoJumpStored /\ \A p \in Writers : CleanCall(p)

\* Nothing is stored and nobody calls.
LEMMA CleanInit == Init => CleanInv
  BY DEF Init, CleanInv, NothingBeyond, NoJumpStored, CleanCall, AtRest, Stored

\* A call's first message is never a duplicate, so the whole call is appended or
\* refused.
LEMMA CleanScan ==
  ASSUME SoleConfirmer, TypeOK, CleanInv, NEW p \in Writers, Scan(p)
  PROVE  CleanInv'
<1>1. PICK n \in 0 .. MaxBatch :
        \/ DropFeedReorg(p, n) \/ Reject(p, n) \/ AllDuplicates(p, n)
        \/ StartAppend(p, n) \/ StartReorg(p, n)
  BY DEF Scan
<1>2. /\ UNCHANGED <<messages, messageCount>>
      /\ Scanned(p, n)
      /\ writer[p].pc = "scan"
  BY <1>1 DEF DropFeedReorg, Reject, AllDuplicates, Return, StartAppend, StartReorg, Scanned
<1>3. /\ writer[p] \in WriterState /\ writer \in [Writers -> WriterState]
      /\ writer[p].msgs \in Seq(Messages) /\ Len(writer[p].msgs) \in Nat
      /\ writer[p].next \in Nat
      /\ writer[p].next + Len(writer[p].msgs) <= MaxMessages
      /\ MaxMessages \in Nat
      /\ messageCount \in Nat
  BY WriterFields, BoundsAssumption DEF TypeOK
<1>4. /\ NothingBeyond /\ NoJumpStored /\ CleanCall(p)
      /\ writer[p].next = messageCount
      /\ writer[p].msgs # <<>>
      /\ \A q \in Writers : q = p
  BY <1>2 DEF CleanInv, CleanCall, SoleConfirmer, Writers
<1>5. ~Stored(writer[p].next)
  <2>1. Len(writer[p].msgs) > 0
    BY <1>3, <1>4
  <2>2. writer[p].next \in Idx
    BY <1>3, <2>1 DEF Idx
  <2> QED
    BY <1>2, <1>3, <1>4, <2>2 DEF NothingBeyond
<1>6. n = 0 /\ Len(writer[p].msgs) > 0
  <2>1. n \in Nat
    BY BoundsAssumption
  <2>2. ASSUME n > 0 PROVE FALSE
    <3>1. 1 \in 1 .. n /\ writer[p].next + 1 - 1 = writer[p].next
      BY <1>3, <2>1, <2>2
    <3>2. Stored(writer[p].next)
      BY <1>2, <3>1 DEF Scanned, count_duplicate_messages
    <3> QED
      BY <1>5, <3>2
  <2> QED
    BY <1>3, <1>4, <2>1, <2>2
<1>7. NoJumpStored' /\ \A i \in Idx : Stored(i)' <=> Stored(i)
  BY <1>2, <1>4 DEF NoJumpStored, Stored, get_prev_prev_delayed_read
<1>8. \A i \in Idx : Stored(i) => i < messageCount
  BY <1>2, <1>4 DEF NothingBeyond
<1>9. NothingBeyond'
  BY <1>2, <1>7, <1>8 DEF NothingBeyond
<1>10. CASE DropFeedReorg(p, n) \/ AllDuplicates(p, n) \/ StartReorg(p, n)
  <2>1. writer[p].next + 0 = writer[p].next
    BY <1>3
  <2> QED
    BY <1>4, <1>5, <1>6, <1>10, <2>1
    DEF DropFeedReorg, AllDuplicates, StartReorg, Conflict, SoleConfirmer
<1>11. CASE Reject(p, n)
  <2>1. writer'[p].pc = "rest" /\ writer'[p].ret = "error"
    BY <1>3, <1>11 DEF Reject, Return, AtRest
  <2> QED
    BY <1>4, <1>7, <1>9, <2>1 DEF CleanInv, CleanCall
<1>12. CASE StartAppend(p, n)
  <2> DEFINE rest == SubSeq(writer[p].msgs, n + 1, Len(writer[p].msgs))
  <2>1. /\ Len(rest) = Len(writer[p].msgs)
        /\ \A k \in 1 .. Len(writer[p].msgs) : rest[k] = writer[p].msgs[k]
    BY <1>3, <1>6
  <2> HIDE DEF rest
  <2>2. writer' = [writer EXCEPT ![p] =
          [writer[p] EXCEPT !.pc = "put", !.next = writer[p].next + n, !.msgs = rest]]
    BY <1>3, <1>12 DEF StartAppend, rest
  <2>3. /\ writer'[p].pc = "put"
        /\ writer'[p].next = writer[p].next
        /\ writer'[p].msgs = rest
        /\ writer'[p].ret = writer[p].ret
        /\ writer'[p].upto = writer[p].upto
    BY <1>3, <1>6, <2>2 DEF WriterState
  <2>4. last_delayed_read(writer[p].next, writer[p].msgs, 0)
          = get_prev_prev_delayed_read(writer[p].next)
    <3>1. writer[p].next + 0 = writer[p].next /\ ~(messageCount < writer[p].next + 0)
      BY <1>3, <1>4
    <3> QED
      BY <3>1 DEF last_delayed_read
  <2>5. ASSUME NEW k \in 1 .. Len(writer[p].msgs)
        PROVE  writer[p].msgs[k].read <= 1 + DelayedBefore(p, k)
    <3>1. NoJump(writer[p].next, writer[p].msgs, 0)
      BY <1>6, <1>12 DEF StartAppend
    <3>2. k \in 0 + 1 .. Len(writer[p].msgs)
      OBVIOUS
    <3>3. writer[p].msgs[k].read
            <= 1 + (IF k = 0 + 1 THEN last_delayed_read(writer[p].next, writer[p].msgs, 0)
                                ELSE writer[p].msgs[k - 1].read)
      BY <3>1, <3>2 DEF NoJump
    <3> QED
      BY <2>4, <3>3 DEF DelayedBefore
  <2>6. ASSUME NEW k \in 1 .. Len(rest)
        PROVE  rest[k].read <= 1 + DelayedBefore(p, k)'
    <3>1. k \in 1 .. Len(writer[p].msgs) /\ (k # 1 => k - 1 \in 1 .. Len(writer[p].msgs))
      BY <1>3, <2>1, <2>6
    <3>2. DelayedBefore(p, k)' = DelayedBefore(p, k)
      BY <1>2, <2>1, <2>3, <3>1 DEF DelayedBefore, get_prev_prev_delayed_read, Stored
    <3> QED
      BY <2>1, <2>5, <3>1, <3>2
  <2>7. CleanCall(p)'
    BY <1>2, <1>4, <2>1, <2>3, <2>6 DEF CleanCall
  <2> QED
    BY <1>4, <1>7, <1>9, <2>7 DEF CleanInv
<1> QED
  BY <1>1, <1>10, <1>11, <1>12

\* A put stores the next message of the log and the count covers exactly what was
\* put.
LEMMA CleanWrite ==
  ASSUME SoleConfirmer, TypeOK, PendingSafe, CleanInv, NEW p \in Writers, Write(p)
  PROVE  CleanInv'
<1>1. /\ writer[p] \in WriterState /\ writer \in [Writers -> WriterState]
      /\ writer[p].msgs \in Seq(Messages) /\ Len(writer[p].msgs) \in Nat
      /\ writer[p].next \in Nat
      /\ messageCount \in Nat
      /\ \A i \in Idx : i \in Nat
  BY WriterFields, BoundsAssumption DEF TypeOK, Idx
<1>2. NothingBeyond /\ NoJumpStored /\ CleanCall(p) /\ \A q \in Writers : q = p
  BY DEF CleanInv, SoleConfirmer, Writers
<1>3. CASE \/ \E i \in Idx : DeleteResult(p, i) \/ DeleteMessage(p, i)
           \/ LowerCount(p)
  BY <1>2, <1>3 DEF DeleteResult, DeleteMessage, LowerCount, CleanCall
<1>4. CASE PutMessage(p)
  <2> DEFINE m == Head(writer[p].msgs)
             rest == Tail(writer[p].msgs)
             n == writer[p].next
  <2>1. /\ writer[p].pc = "put" /\ writer[p].msgs # <<>>
        /\ messageCount' = messageCount
        /\ messages' = [messages EXCEPT ![n] = m]
        /\ n >= messageCount
    BY <1>2, <1>4 DEF PutMessage, PendingSafe, SafeCall, SoleConfirmer, Writers
  <2>2. /\ m \in Messages
        /\ m = writer[p].msgs[1]
        /\ Len(writer[p].msgs) = Len(rest) + 1
        /\ Len(rest) \in Nat
        /\ \A k \in 1 .. Len(rest) : rest[k] = writer[p].msgs[k + 1]
    BY <1>1, <2>1
  <2> HIDE DEF m, rest
  <2>3. /\ writer'[p].pc = "put"
        /\ writer'[p].next = n + 1
        /\ writer'[p].msgs = rest
        /\ writer'[p].ret = writer[p].ret
        /\ writer'[p].upto = writer[p].upto
    BY <1>1, <1>4 DEF PutMessage, WriterState, rest
  <2>4. n \in Idx
    <3>1. n + Len(writer[p].msgs) <= MaxMessages
      BY <1>1, WriterFields
    <3> QED
      BY <1>1, <2>2, <3>1, BoundsAssumption DEF Idx
  <2>5. /\ messages'[n] = m
        /\ \A i \in Idx \ {n} : messages'[i] = messages[i]
        /\ m # NoMessage
    BY <2>1, <2>2, <2>4, MessagesAssumption DEF TypeOK
  <2>6. \A i \in Idx : Stored(i) => i < n
    BY <1>1, <1>2, <2>1 DEF NothingBeyond
  <2>7. NothingBeyond'
    <3>1. ASSUME NEW i \in Idx, Stored(i)' PROVE i < n + 1
      <4>1. i = n \/ Stored(i)
        BY <2>5, <3>1 DEF Stored
      <4> QED
        BY <1>1, <2>6, <4>1
    <3> QED
      BY <2>3, <3>1 DEF NothingBeyond
  <2>8. ASSUME NEW i \in Idx, i <= n
        PROVE  get_prev_prev_delayed_read(i)' = get_prev_prev_delayed_read(i)
    <3>1. i > 0 => i - 1 \in Idx \ {n}
      BY <1>1, <2>8, BoundsAssumption DEF Idx
    <3> QED
      BY <1>1, <2>5, <3>1 DEF get_prev_prev_delayed_read, Stored
  <2>9. writer[p].msgs[1].read <= 1 + get_prev_prev_delayed_read(n)
    BY <1>2, <2>1, <2>2 DEF CleanCall, DelayedBefore
  <2>10. NoJumpStored'
    <3>1. ASSUME NEW i \in Idx, Stored(i)'
          PROVE  messages'[i].read <= 1 + get_prev_prev_delayed_read(i)'
      <4>1. CASE i = n
        BY <1>1, <2>2, <2>5, <2>8, <2>9, <4>1
      <4>2. CASE i # n
        <5>1. Stored(i) /\ messages'[i] = messages[i]
          BY <2>5, <3>1, <4>2 DEF Stored
        <5>2. i <= n
          BY <1>1, <2>6, <5>1
        <5> QED
          BY <1>2, <2>8, <5>1, <5>2 DEF NoJumpStored
      <4> QED
        BY <4>1, <4>2
    <3> QED
      BY <3>1 DEF NoJumpStored
  <2>11. ASSUME NEW k \in 1 .. Len(rest)
         PROVE  rest[k].read <= 1 + DelayedBefore(p, k)'
    <3>1. k + 1 \in 1 .. Len(writer[p].msgs) /\ k + 1 # 1 /\ k + 1 - 1 = k
      BY <2>2
    <3>2. rest[k].read <= 1 + writer[p].msgs[k].read
      <4>1. writer[p].msgs[k + 1].read <= 1 + DelayedBefore(p, k + 1)
        BY <1>2, <2>1, <3>1 DEF CleanCall
      <4>2. DelayedBefore(p, k + 1) = writer[p].msgs[k].read
        BY <3>1 DEF DelayedBefore
      <4> QED
        BY <2>2, <4>1, <4>2
    <3>3. CASE k = 1
      <4>1. n \in Nat
        BY <1>1
      <4>2. writer'[p].next > 0 /\ writer'[p].next - 1 = n
        BY <2>3, <4>1
      <4>3. DelayedBefore(p, k)' = m.read
        BY <2>5, <3>3, <4>2 DEF DelayedBefore, get_prev_prev_delayed_read, Stored
      <4> QED
        BY <2>2, <3>2, <3>3, <4>3
    <3>4. CASE k # 1
      <4>1. k - 1 \in 1 .. Len(rest) /\ k - 1 + 1 = k
        BY <2>2, <3>4
      <4>2. DelayedBefore(p, k)' = writer[p].msgs[k].read
        BY <2>2, <2>3, <3>4, <4>1 DEF DelayedBefore
      <4> QED
        BY <3>2, <4>2
    <3> QED
      BY <3>3, <3>4
  <2>12. CleanCall(p)'
    <3>1. writer[p].ret = "none" /\ writer[p].upto = n + Len(writer[p].msgs)
      BY <1>2, <2>1 DEF CleanCall
    <3>2. /\ n \in Nat /\ Len(rest) \in Nat
          /\ Len(writer[p].msgs) = Len(rest) + 1
      BY <1>1, <2>2
    <3>3. writer[p].upto = n + 1 + Len(rest)
      BY <3>1, <3>2
    <3> QED
      BY <2>3, <2>11, <3>1, <3>3 DEF CleanCall
  <2> QED
    BY <1>2, <2>7, <2>10, <2>12 DEF CleanInv
<1>5. CASE PutCount(p)
  <2>1. /\ messages' = messages
        /\ messageCount' = writer[p].next
        /\ writer[p].pc = "put" /\ writer[p].msgs = <<>>
        /\ writer'[p].pc = "rest"
        /\ writer'[p].upto = writer[p].upto
    BY <1>1, <1>5 DEF PutCount, NewCount, AtRest
  <2>2. NoJumpStored'
    BY <1>2, <2>1 DEF NoJumpStored, Stored, get_prev_prev_delayed_read
  <2>3. writer[p].next >= messageCount
    BY <2>1 DEF PendingSafe, SafeCall, SoleConfirmer, Writers
  <2>4. NothingBeyond'
    BY <1>1, <1>2, <2>1, <2>3 DEF NothingBeyond, Stored
  <2>5. writer[p].upto = writer[p].next
    BY <1>1, <1>2, <2>1 DEF CleanCall
  <2>6. CleanCall(p)'
    BY <1>1, <2>1, <2>5 DEF CleanCall
  <2> QED
    BY <1>2, <2>2, <2>4, <2>6 DEF CleanInv
<1> QED
  BY <1>3, <1>4, <1>5 DEF Write

\* Accepting a call changes nothing in the log.
LEMMA CleanSubmit ==
  ASSUME SoleConfirmer, TypeOK, CleanInv,
         NEW p \in Writers, NEW first \in Idx, NEW msgs \in Calls, Submit(p, first, msgs)
  PROVE  CleanInv'
<1>1. /\ UNCHANGED <<messages, messageCount>>
      /\ writer[p].pc = "rest"
      /\ first = messageCount
      /\ \A q \in Writers : q = p
  BY DEF Submit, Contiguous, SoleConfirmer, Writers
<1>2. /\ writer'[p].pc = "scan"
      /\ writer'[p].next = first
      /\ writer'[p].msgs = msgs
      /\ writer'[p].ret = "none"
      /\ writer'[p].upto = first + Len(msgs)
  BY DEF Submit, TypeOK
<1>3. msgs # <<>>
  BY CallsAreSequences, BoundsAssumption
<1>4. CleanCall(p)'
  BY <1>1, <1>2, <1>3 DEF CleanCall
<1>5. NothingBeyond' /\ NoJumpStored'
  BY <1>1 DEF CleanInv, NothingBeyond, NoJumpStored, Stored, get_prev_prev_delayed_read
<1> QED
  BY <1>1, <1>4, <1>5 DEF CleanInv

\* Every step but a crash keeps the log clean.
LEMMA CleanStep ==
  ASSUME SoleConfirmer, TypeOK, PendingSafe, CleanInv, [Next]_vars, ~Crash
  PROVE  CleanInv'
<1>1. ASSUME NEW p \in Writers, NEW first \in Idx, NEW msgs \in Calls \cup {<<>>},
             SubmitReorg(p, first, msgs)
      PROVE  FALSE
  BY <1>1 DEF SubmitReorg, SoleConfirmer
<1>2. CASE Execute \/ ExecFail \/ UNCHANGED vars
  <2>1. UNCHANGED <<messages, messageCount, writer>>
    BY <1>2 DEF Execute, ExecHead, ExecSkip, ExecDigest, ExecStore, ExecRefused, ExecFail, vars
  <2> QED
    BY <2>1 DEF CleanInv, NothingBeyond, NoJumpStored, CleanCall, DelayedBefore, Stored,
                get_prev_prev_delayed_read
<1> QED
  BY <1>1, <1>2, CleanSubmit, CleanScan, CleanWrite DEF Next

\* The invariant in every state that no crash precedes.
LEMMA CleanAlways ==
  ASSUME SoleConfirmer
  PROVE  Spec => [](used.crashes = 0 => CleanInv)
<1>1. ASSUME TypeOK, LogContiguous, PendingSafe, used.crashes = 0 => CleanInv, [Next]_vars
      PROVE  (used.crashes = 0 => CleanInv)'
  <2>1. used'.crashes = 0 => used.crashes = 0 /\ ~Crash
    BY <1>1, QuietSteps
  <2> QED
    BY <1>1, <2>1, CleanStep
<1>2. TypeOK /\ LogContiguous /\ PendingSafe /\ [Next]_vars => (LogContiguous /\ PendingSafe)'
  BY ContiguousStep
<1> QED
  BY <1>1, <1>2, CleanInit, ContiguousInit, TypeCorrect, PTL DEF Spec

\* Before a crash, when the reader's append returns Ok the count covers all it was
\* given, so the batch metadata that the tracker writes next rests on stored
\* messages.  After one it may not: left-over messages make the repeated call
\* find duplicates only, and it returns Ok without raising the count.
THEOREM AcknowledgedStaysCounted ==
  ASSUME SoleConfirmer
  PROVE  Spec => [](used.crashes = 0 => AcknowledgedIsCounted)
<1>1. CleanInv => AcknowledgedIsCounted
  <2> SUFFICES ASSUME CleanInv, NEW p \in Confirmers, writer[p].ret = "ok"
               PROVE  messageCount >= writer[p].upto
    BY DEF AcknowledgedIsCounted
  <2>1. CleanCall(p)
    BY DEF CleanInv, Writers
  <2> QED
    BY <2>1 DEF CleanCall
<1> QED
  BY <1>1, CleanAlways, PTL

\* Before a crash successive messages of the log never skip a delayed message: the
\* check is made on the message before the first new one and between the new ones.
THEOREM DelayedNeverJumps ==
  ASSUME SoleConfirmer
  PROVE  Spec => [](used.crashes = 0 => NoDelayedJump)
<1>1. CleanInv => NoDelayedJump
  BY DEF CleanInv, NoJumpStored, NoDelayedJump
<1> QED
  BY <1>1, CleanAlways, PTL

(***************************************************************************)
(* What the execution loop stores, when the inbox reader is the only       *)
(* caller: for every log size, call size, number of crashes and number of  *)
(* engine failures, the stored results are the chain of the log's blocks,  *)
(* and the streamer implements MessageLog.                                 *)
(***************************************************************************)

(***************************************************************************)
(* The inductive invariant.                                                *)
(***************************************************************************)

\* A confirmed reorg starts at or above the count, where no result is stored.
NothingToDelete == \A p \in Writers : writer[p].oldResults = {}

\* The index that the loop is at is the first one without a result, and what it
\* took from the store for the engine still stands there when the engine answers.
ExecSafe ==
  /\ exec.pc # "idle" =>
       /\ exec.idx <= messageCount
       /\ exec.idx > 0 => results[exec.idx - 1] # <<>>
       /\ \A j \in Idx : j >= exec.idx => results[j] = <<>>
  /\ exec.pc = "digest" =>
       /\ exec.idx < messageCount
       /\ exec.msg = messages[exec.idx]
       /\ exec.parent = ParentBlock

ChainInv ==
  /\ TypeOK
  /\ LogContiguous
  /\ PendingSafe
  /\ ResultsArePrefix
  /\ ResultsFollowLog
  /\ NothingToDelete
  /\ ExecSafe

\* The invariant holds before anything is stored.
LEMMA ChainInit == Init => ChainInv
<1>1. Init => ResultsArePrefix /\ ResultsFollowLog /\ NothingToDelete /\ ExecSafe
  BY DEF Init, ResultsArePrefix, ResultsFollowLog, NothingToDelete, ExecSafe, ExecIdle, AtRest
<1> QED
  BY <1>1, TypeInit, ContiguousInit DEF ChainInv

\* What a caller removes is never a result: the reorg of a confirmed call begins
\* at or above the count.
LEMMA NothingToDeleteStep ==
  ASSUME SoleConfirmer, ChainInv, [Next]_vars
  PROVE  NothingToDelete'
<1>1. /\ TypeOK /\ PendingSafe /\ NothingToDelete
      /\ messageCount \in Nat
      /\ \A i \in Idx : i \in Nat
  BY BoundsAssumption DEF ChainInv, TypeOK, Idx
<1>2. ASSUME NEW first \in Nat, first >= messageCount
      PROVE  StaleResults(first) = {}
  <2>1. \A i \in Idx : results[i] # <<>> => i < messageCount
    BY DEF ChainInv, ResultsArePrefix
  <2>2. \A i \in Idx : ~(i >= first /\ results[i] # <<>>)
    BY <1>1, <1>2, <2>1
  <2> QED
    BY <2>2 DEF StaleResults
<1>3. ASSUME NEW p \in Writers, NEW first \in Idx, NEW msgs \in Calls, Submit(p, first, msgs)
      PROVE  NothingToDelete'
  BY <1>1, <1>3 DEF Submit, TypeOK, NothingToDelete
<1>4. ASSUME NEW p \in Writers, NEW first \in Idx, NEW msgs \in Calls \cup {<<>>},
             SubmitReorg(p, first, msgs)
      PROVE  FALSE
  BY <1>4 DEF SubmitReorg, SoleConfirmer
<1>5. ASSUME NEW p \in Writers, Scan(p)
      PROVE  NothingToDelete'
  <2>1. PICK n \in 0 .. MaxBatch :
          \/ DropFeedReorg(p, n) \/ Reject(p, n) \/ AllDuplicates(p, n)
          \/ StartAppend(p, n) \/ StartReorg(p, n)
    BY <1>5 DEF Scan
  <2>2. CASE DropFeedReorg(p, n) \/ Reject(p, n) \/ AllDuplicates(p, n)
    <3>1. PICK ret : Return(p, ret)
      BY <2>2 DEF DropFeedReorg, Reject, AllDuplicates
    <3> QED
      BY <1>1, <3>1 DEF Return, AtRest, TypeOK, NothingToDelete
  <2>3. CASE StartAppend(p, n)
    <3>1. \A q \in Writers : writer'[q].oldResults = writer[q].oldResults
      BY SMTT(30), <1>1, <2>3 DEF StartAppend, TypeOK, WriterState
    <3> QED
      BY <1>1, <3>1 DEF NothingToDelete
  <2>4. CASE StartReorg(p, n)
    <3>1. /\ writer[p].next \in Nat /\ n \in Nat
          /\ p \in Confirmers => writer[p].next >= messageCount
      BY <1>1, <2>4, WriterFields, BoundsAssumption
      DEF PendingSafe, SafeCall, StartReorg, Scanned, TypeOK
    <3>2. StaleResults(writer[p].next + n) = {}
      BY <1>1, <1>2, <2>4, <3>1 DEF StartReorg
    <3>3. /\ writer'[p].oldResults = StaleResults(writer[p].next + n)
          /\ \A q \in Writers \ {p} : writer'[q] = writer[q]
      BY <1>1, <2>4 DEF StartReorg, BuildReorg, TypeOK
    <3> QED
      BY <1>1, <3>2, <3>3 DEF NothingToDelete
  <2> QED
    BY <2>1, <2>2, <2>3, <2>4
<1>6. ASSUME NEW p \in Writers, Write(p)
      PROVE  NothingToDelete'
  <2>1. ASSUME NEW i \in Idx, DeleteResult(p, i) PROVE FALSE
    BY <1>1, <2>1 DEF DeleteResult, NothingToDelete
  <2>2. ASSUME NEW q \in Writers PROVE writer'[q].oldResults = {}
    <3>1. writer[q].oldResults = {} /\ writer \in [Writers -> WriterState]
      BY <1>1 DEF NothingToDelete, TypeOK
    <3>2. ASSUME NEW i \in Idx, DeleteMessage(p, i) PROVE writer'[q].oldResults = {}
      BY <3>1, <3>2 DEF DeleteMessage, WriterState
    <3>3. CASE LowerCount(p)
      BY <3>1, <3>3 DEF LowerCount, AtRest, WriterState
    <3>4. CASE PutMessage(p)
      BY <3>1, <3>4 DEF PutMessage, WriterState
    <3>5. CASE PutCount(p)
      BY <3>1, <3>5 DEF PutCount, AtRest, WriterState
    <3> QED
      BY <1>6, <2>1, <3>2, <3>3, <3>4, <3>5 DEF Write
  <2> QED
    BY <2>2 DEF NothingToDelete
<1>7. CASE Execute \/ ExecFail \/ UNCHANGED vars
  BY <1>1, <1>7 DEF Execute, ExecHead, ExecSkip, ExecDigest, ExecStore, ExecRefused,
                    ExecFail, vars, NothingToDelete
<1>8. CASE Crash
  BY <1>8 DEF Crash, AtRest, NothingToDelete
<1> QED
  BY <1>3, <1>4, <1>5, <1>6, <1>7, <1>8 DEF Next

\* Only the execution loop changes the results, and it only adds the one that
\* the engine answered.
LEMMA ResultSteps ==
  ASSUME SoleConfirmer, ChainInv, [Next]_vars
  PROVE  \/ results' = results /\ exec' = exec
         \/ results' = results /\ exec'.pc = "idle"
         \/ ExecHead
         \/ ExecDigest
         \/ ExecStore
<1>1. ASSUME NEW p \in Writers, NEW first \in Idx,
             \/ \E msgs \in Calls : Submit(p, first, msgs)
             \/ \E msgs \in Calls \cup {<<>>} : SubmitReorg(p, first, msgs)
      PROVE  results' = results /\ exec' = exec
  BY <1>1 DEF Submit, SubmitReorg
<1>2. ASSUME NEW p \in Writers, Scan(p)
      PROVE  results' = results /\ exec' = exec
  BY <1>2 DEF Scan, DropFeedReorg, Reject, AllDuplicates, Return, StartAppend, StartReorg
<1>3. ASSUME NEW p \in Writers, Write(p)
      PROVE  results' = results /\ exec' = exec
  <2>1. ASSUME NEW i \in Idx, DeleteResult(p, i) PROVE FALSE
    BY <2>1 DEF DeleteResult, ChainInv, NothingToDelete
  <2> QED
    BY <1>3, <2>1 DEF Write, DeleteMessage, LowerCount, PutMessage, PutCount
<1>4. CASE ExecSkip \/ ExecRefused \/ ExecFail \/ Crash
  BY <1>4 DEF ExecSkip, ExecRefused, ExecFail, Crash, ExecIdle
<1>5. CASE UNCHANGED vars
  BY <1>5 DEF vars
<1> QED
  BY <1>1, <1>2, <1>3, <1>4, <1>5 DEF Next, Execute

\* The result that the loop stores extends the chain of the one below it by the
\* message that the log holds at its index.
LEMMA StoredChain ==
  ASSUME ChainInv, ExecStore
  PROVE  /\ exec.idx \in Idx
         /\ exec.idx < messageCount
         /\ exec.parent \in Seq(Block)
         /\ Len(exec.parent) = exec.idx
         /\ \A k \in 1 .. exec.idx : exec.parent[k].msg = messages[k - 1]
         /\ exec.idx = 0 => exec.parent = <<>>
         /\ exec.idx > 0 => /\ exec.idx - 1 \in Idx
                            /\ exec.parent = results[exec.idx - 1]
                            /\ results[exec.idx - 1] # <<>>
         /\ exec.msg = messages[exec.idx]
         /\ [msg |-> exec.msg, ts |-> exec.ts] \in Block
<1>1. /\ TypeOK /\ ExecSafe /\ ResultsFollowLog
      /\ exec.pc = "digest"
  BY DEF ChainInv, ExecStore
<1>2. exec.idx \in Idx /\ exec.parent \in Seq(Block) /\ [msg |-> exec.msg, ts |-> exec.ts] \in Block
  BY <1>1 DEF TypeOK, ExecState, Block
<1>3. /\ exec.idx < messageCount
      /\ exec.msg = messages[exec.idx]
      /\ exec.parent = ParentBlock
      /\ exec.idx > 0 => results[exec.idx - 1] # <<>>
  BY <1>1 DEF ExecSafe
<1>4. exec.idx \in Nat /\ messageCount \in Nat
  BY <1>1, <1>2, BoundsAssumption DEF Idx, TypeOK
<1>5. CASE exec.idx = 0
  BY <1>2, <1>3, <1>5 DEF ParentBlock
<1>6. CASE exec.idx > 0
  <2>1. exec.idx - 1 \in Idx /\ exec.idx - 1 < messageCount
    BY <1>2, <1>3, <1>4, <1>6, BoundsAssumption DEF Idx
  <2>2. exec.parent = results[exec.idx - 1] /\ results[exec.idx - 1] # <<>>
    BY <1>3, <1>4, <1>6 DEF ParentBlock
  <2>3. /\ Len(results[exec.idx - 1]) = (exec.idx - 1) + 1
        /\ \A k \in 1 .. (exec.idx - 1) + 1 : results[exec.idx - 1][k].msg = messages[k - 1]
    BY <1>1, <2>1, <2>2 DEF ResultsFollowLog
  <2> QED
    BY <1>2, <1>3, <1>4, <1>6, <2>1, <2>2, <2>3
<1> QED
  BY <1>4, <1>5, <1>6

\* Every step keeps the results a gapless prefix of the log's chain and keeps
\* what the loop holds in step with the store.
LEMMA ChainStep ==
  ASSUME SoleConfirmer, ChainInv, [Next]_vars
  PROVE  ChainInv'
<1>1. TypeOK /\ LogContiguous /\ PendingSafe /\ ResultsArePrefix /\ ResultsFollowLog /\ ExecSafe
  BY DEF ChainInv
<1>2. TypeOK' /\ LogContiguous' /\ PendingSafe' /\ NothingToDelete'
  BY <1>1, TypeStep, ContiguousStep, NothingToDeleteStep
<1>3. /\ messageCount' >= messageCount
      /\ \A i \in Idx : i < messageCount => messages'[i] = messages[i]
  BY <1>1, StepAppends
<1>4. /\ messageCount \in Nat /\ messageCount' \in Nat
      /\ \A i \in Idx : i \in Nat
      /\ exec.idx \in Nat
  BY <1>1, <1>2, BoundsAssumption DEF TypeOK, Idx, ExecState
<1>5. CASE results' = results /\ (exec' = exec \/ exec'.pc = "idle")
  <2>1. ResultsArePrefix'
    BY <1>1, <1>3, <1>4, <1>5 DEF ResultsArePrefix
  <2>2. ResultsFollowLog'
    <3>1. ASSUME NEW i \in Idx, results[i] # <<>>
          PROVE  /\ Len(results[i]) = i + 1
                 /\ \A k \in 1 .. i + 1 : results[i][k].msg = messages'[k - 1]
      <4>1. i < messageCount
        BY <1>1, <3>1 DEF ResultsArePrefix
      <4>2. ASSUME NEW k \in 1 .. i + 1 PROVE messages'[k - 1] = messages[k - 1]
        <5>1. k - 1 \in Idx /\ k - 1 < messageCount
          BY <1>4, <4>1, <4>2, BoundsAssumption DEF Idx
        <5> QED
          BY <1>3, <5>1
      <4> QED
        BY <1>1, <3>1, <4>1, <4>2 DEF ResultsFollowLog
    <3> QED
      BY <1>5, <3>1 DEF ResultsFollowLog
  <2>3. ExecSafe'
    <3>1. CASE exec'.pc = "idle"
      BY <3>1 DEF ExecSafe
    <3>2. CASE exec' = exec
      <4>1. exec.pc = "digest" => exec.idx \in Idx
        BY <1>1 DEF TypeOK, ExecState
      <4>2. ParentBlock' = ParentBlock
        BY <1>5, <3>2 DEF ParentBlock
      <4> QED
        BY <1>1, <1>3, <1>4, <1>5, <3>2, <4>1, <4>2 DEF ExecSafe
    <3> QED
      BY <1>5, <3>1, <3>2
  <2> QED
    BY <1>2, <2>1, <2>2, <2>3 DEF ChainInv
<1>6. CASE ExecHead
  <2>1. PICK i \in 0 .. messageCount :
          NextToExecute(i) /\ exec' = [ExecIdle EXCEPT !.pc = "fetch", !.idx = i]
    BY <1>6 DEF ExecHead
  <2>2. UNCHANGED <<messages, results, messageCount>>
    BY <1>6 DEF ExecHead
  <2>3. exec'.pc = "fetch" /\ exec'.idx = i
    BY <2>1 DEF ExecIdle
  <2>4. \A j \in Idx : j >= i => results[j] = <<>>
    <3>1. \A j \in i .. messageCount - 1 : results[j] = <<>>
      BY <2>1 DEF NextToExecute
    <3> QED
      BY <1>1, <1>4, <3>1 DEF ResultsArePrefix
  <2>5. ExecSafe'
    BY <1>4, <2>1, <2>2, <2>3, <2>4 DEF ExecSafe, NextToExecute
  <2> QED
    BY <1>1, <1>2, <2>2, <2>5 DEF ChainInv, ResultsArePrefix, ResultsFollowLog
<1>7. CASE ExecDigest
  <2>1. UNCHANGED <<messages, results, messageCount>>
    BY <1>7 DEF ExecDigest
  <2>2. /\ exec'.pc = "digest"
        /\ exec'.idx = exec.idx
        /\ exec'.msg = messages[exec.idx]
        /\ exec'.parent = ParentBlock
    BY <1>1, <1>7 DEF ExecDigest, TypeOK, ExecState
  <2>3. ParentBlock' = ParentBlock
    BY <2>1, <2>2 DEF ParentBlock
  <2>4. ExecSafe'
    BY <1>1, <1>7, <2>1, <2>2, <2>3 DEF ExecSafe, ExecDigest, Fetchable
  <2> QED
    BY <1>1, <1>2, <2>1, <2>4 DEF ChainInv, ResultsArePrefix, ResultsFollowLog
<1>8. CASE ExecStore
  <2> DEFINE chain == Append(exec.parent, [msg |-> exec.msg, ts |-> exec.ts])
  <2>1. /\ UNCHANGED <<messages, messageCount>>
        /\ results' = [results EXCEPT ![exec.idx] = chain]
        /\ exec'.pc = "idle"
    BY <1>8 DEF ExecStore, ExecIdle
  <2>2. /\ exec.idx \in Idx
        /\ exec.idx < messageCount
        /\ exec.parent \in Seq(Block)
        /\ Len(exec.parent) = exec.idx
        /\ \A k \in 1 .. exec.idx : exec.parent[k].msg = messages[k - 1]
        /\ exec.idx > 0 => exec.idx - 1 \in Idx /\ results[exec.idx - 1] # <<>>
        /\ exec.msg = messages[exec.idx]
        /\ [msg |-> exec.msg, ts |-> exec.ts] \in Block
    BY <1>8, StoredChain
  <2>3. /\ Len(chain) = exec.idx + 1
        /\ chain # <<>>
        /\ \A k \in 1 .. exec.idx + 1 : chain[k].msg = messages[k - 1]
    <3> DEFINE block == [msg |-> exec.msg, ts |-> exec.ts]
    <3>0. block.msg = messages[exec.idx] /\ block \in Block
      BY <2>2
    <3> HIDE DEF block
    <3>1. Len(chain) = exec.idx + 1 /\ chain[exec.idx + 1] = block
      BY <2>2, <3>0 DEF block
    <3>2. chain[exec.idx + 1].msg = messages[exec.idx]
      BY <3>0, <3>1
    <3>3. ASSUME NEW k \in 1 .. exec.idx PROVE chain[k].msg = messages[k - 1]
      <4>1. chain[k] = exec.parent[k]
        BY <2>2, <3>0, <3>3 DEF block
      <4> QED
        BY <2>2, <4>1
    <3> HIDE DEF chain
    <3>4. \A k \in 1 .. exec.idx + 1 : k \in 1 .. exec.idx \/ k = exec.idx + 1
      BY <1>4
    <3>5. chain # <<>>
      BY <1>4, <3>1
    <3> QED
      BY ONLY <1>4, <3>1, <3>2, <3>3, <3>4, <3>5
  <2> HIDE DEF chain
  <2>4. /\ results'[exec.idx] = chain
        /\ \A i \in Idx \ {exec.idx} : results'[i] = results[i]
    BY <1>1, <2>1, <2>2 DEF TypeOK
  <2>5. \A j \in Idx : j < exec.idx => results[j] # <<>>
    <3>1. CASE exec.idx = 0
      BY <1>4, <3>1
    <3>2. CASE exec.idx > 0
      <4>1. exec.idx - 1 \in Idx /\ results[exec.idx - 1] # <<>>
        BY <2>2, <3>2
      <4>2. \A j \in 0 .. exec.idx - 1 : results[j] # <<>>
        BY <1>1, <4>1 DEF ResultsArePrefix
      <4> QED
        BY <1>4, <4>2
    <3> QED
      BY <1>4, <3>1, <3>2
  <2>6. ResultsArePrefix'
    <3>1. ASSUME NEW i \in Idx, results'[i] # <<>>
          PROVE  i < messageCount /\ \A j \in 0 .. i : results'[j] # <<>>
      <4>1. CASE i = exec.idx
        <5>1. ASSUME NEW j \in 0 .. i PROVE results'[j] # <<>>
          <6>1. j \in Idx
            BY <1>4, <3>1, BoundsAssumption DEF Idx
          <6>2. j = exec.idx \/ j < exec.idx
            BY <1>4, <4>1
          <6> QED
            BY <1>4, <2>3, <2>4, <2>5, <6>1, <6>2
        <5> QED
          BY <2>2, <4>1, <5>1
      <4>2. CASE i # exec.idx
        <5>1. results[i] # <<>>
          BY <2>4, <3>1, <4>2
        <5>2. i < messageCount /\ \A j \in 0 .. i : results[j] # <<>>
          BY <1>1, <5>1 DEF ResultsArePrefix
        <5>3. \A j \in 0 .. i : j \in Idx
          BY <1>4, <3>1, BoundsAssumption DEF Idx
        <5> QED
          BY <2>3, <2>4, <5>2, <5>3
      <4> QED
        BY <4>1, <4>2
    <3> QED
      BY <2>1, <3>1 DEF ResultsArePrefix
  <2>7. ResultsFollowLog'
    <3>1. ASSUME NEW i \in Idx, i < messageCount, results'[i] # <<>>
          PROVE  /\ Len(results'[i]) = i + 1
                 /\ \A k \in 1 .. i + 1 : results'[i][k].msg = messages[k - 1]
      <4>1. CASE i = exec.idx
        BY <2>3, <2>4, <4>1
      <4>2. CASE i # exec.idx
        BY <1>1, <2>4, <3>1, <4>2 DEF ResultsFollowLog
      <4> QED
        BY <4>1, <4>2
    <3> QED
      BY <2>1, <3>1 DEF ResultsFollowLog
  <2>8. ExecSafe'
    BY <2>1 DEF ExecSafe
  <2> QED
    BY <1>2, <2>6, <2>7, <2>8 DEF ChainInv
<1> QED
  BY <1>5, <1>6, <1>7, <1>8, ResultSteps

\* The invariant in every state.
LEMMA ChainAlways ==
  ASSUME SoleConfirmer
  PROVE  Spec => []ChainInv
<1>1. ChainInv /\ [Next]_vars => ChainInv'
  BY ChainStep
<1> QED
  BY <1>1, ChainInit, PTL DEF Spec

\* With one reader and no RPC writer results are stored below the count only and
\* without gaps, wherever crashes and engine failures fall, although the loop
\* reads the store, waits for the engine and writes without any lock: the
\* downward scan of head_message_index finds the end of what was executed.
THEOREM ResultsStayPrefix ==
  ASSUME SoleConfirmer
  PROVE  Spec => []ResultsArePrefix
<1>1. ChainInv => ResultsArePrefix
  BY DEF ChainInv
<1> QED
  BY <1>1, ChainAlways, PTL

\* With one reader and no RPC writer a stored result is the chain of exactly the
\* messages that the log still holds, also when the log grew or was reorged above
\* the count while the engine was working.
THEOREM ResultsStayOnLog ==
  ASSUME SoleConfirmer
  PROVE  Spec => []ResultsFollowLog
<1>1. ChainInv => ResultsFollowLog
  BY DEF ChainInv
<1> QED
  BY <1>1, ChainAlways, PTL

(***************************************************************************)
(* The chain that the highest result commits to.                           *)
(***************************************************************************)

\* Chain, of any results.
TopOf(r) ==
  IF \E i \in Idx : r[i] # <<>>
  THEN r[CHOOSE i \in Idx : r[i] # <<>> /\ \A j \in Idx : j > i => r[j] = <<>>]
  ELSE <<>>

\* The result with none above it is the top.
LEMMA TopIs ==
  ASSUME NEW r, NEW i \in Idx, r[i] # <<>>, \A j \in Idx : j > i => r[j] = <<>>
  PROVE  TopOf(r) = r[i]
<1> DEFINE Top(k) == r[k] # <<>> /\ \A j \in Idx : j > k => r[j] = <<>>
<1>1. ASSUME NEW k \in Idx, Top(k) PROVE k = i
  <2>1. k \in Int /\ i \in Int
    BY DEF Idx
  <2> QED
    BY <1>1, <2>1
<1>2. Top(i)
  OBVIOUS
<1> HIDE DEF Top
<1>3. (CHOOSE k \in Idx : Top(k)) = i
  BY <1>1, <1>2
<1> QED
  BY <1>3 DEF TopOf, Top

\* The chain that the loop builds on is the highest one stored.
LEMMA ParentIsTop ==
  ASSUME ChainInv, exec.pc # "idle"
  PROVE  Chain = ParentBlock
<1>1. /\ exec.idx \in Nat
      /\ exec.idx <= messageCount
      /\ messageCount \in 0 .. MaxMessages
      /\ exec.idx > 0 => results[exec.idx - 1] # <<>>
      /\ \A j \in Idx : j >= exec.idx => results[j] = <<>>
      /\ \A j \in Idx : j \in Nat
  BY BoundsAssumption DEF ChainInv, ExecSafe, TypeOK, ExecState, Idx
<1>2. Chain = TopOf(results)
  BY DEF Chain, TopOf
<1>3. CASE exec.idx = 0
  BY <1>1, <1>2, <1>3 DEF TopOf, ParentBlock
<1>4. CASE exec.idx > 0
  <2>1. exec.idx - 1 \in Idx /\ \A j \in Idx : j > exec.idx - 1 => results[j] = <<>>
    BY <1>1, <1>4, BoundsAssumption DEF Idx
  <2>2. TopOf(results) = results[exec.idx - 1]
    BY <1>1, <1>4, <2>1, TopIs
  <2> QED
    BY <1>1, <1>2, <1>4, <2>2 DEF ParentBlock
<1> QED
  BY <1>1, <1>3, <1>4

\* Storing a result puts one block on top of the chain.
LEMMA StoreExtendsChain ==
  ASSUME ChainInv, ExecStore
  PROVE  /\ Chain = exec.parent
         /\ Chain' = Append(exec.parent, [msg |-> exec.msg, ts |-> exec.ts])
<1> DEFINE chain == Append(exec.parent, [msg |-> exec.msg, ts |-> exec.ts])
<1>1. exec.pc = "digest" /\ results' = [results EXCEPT ![exec.idx] = chain]
  BY DEF ExecStore
<1>2. /\ exec.idx \in Idx
      /\ exec.parent \in Seq(Block)
      /\ [msg |-> exec.msg, ts |-> exec.ts] \in Block
  BY StoredChain
<1>3. chain # <<>>
  <2> DEFINE block == [msg |-> exec.msg, ts |-> exec.ts]
  <2> HIDE DEF block
  <2>1. Len(Append(exec.parent, block)) = Len(exec.parent) + 1 /\ Len(exec.parent) \in Nat
    BY <1>2 DEF block
  <2>2. Append(exec.parent, block) # <<>>
    BY <2>1
  <2> QED
    BY <2>2 DEF block
<1> HIDE DEF chain
<1>4. Chain = exec.parent
  BY <1>1, ParentIsTop DEF ChainInv, ExecSafe
<1>5. \A j \in Idx : j > exec.idx => results[j] = <<>>
  BY <1>1, <1>2 DEF ChainInv, ExecSafe, Idx
<1>6. results'[exec.idx] = chain /\ \A j \in Idx : j > exec.idx => results'[j] = <<>>
  BY <1>1, <1>2, <1>5 DEF ChainInv, TypeOK, Idx
<1>7. TopOf(results') = chain
  BY <1>2, <1>3, <1>6, TopIs
<1>8. Chain' = TopOf(results')
  BY DEF Chain, TopOf
<1> QED
  BY <1>4, <1>7, <1>8 DEF chain

(***************************************************************************)
(* The timestamps of the blocks.                                           *)
(***************************************************************************)

ChainTime == IF Chain = <<>> THEN GenesisTime ELSE Chain[Len(Chain)].ts

\* The least timestamp that a message's block may have on its parent.
BlockTime(msgTs, parentTs) == IF msgTs <= parentTs THEN parentTs + 1 ELSE msgTs

\* The engine's clock is never ahead of the chain, but for the block that is
\* being built; so a timestamp that the engine accepts is the least it would.
\* Only a failed call to the engine leaves the clock ahead.
ClockSafe ==
  IF exec.pc = "digest"
  THEN /\ lastTimestamp = exec.ts
       /\ Buildable => exec.ts = BlockTime(exec.msg.ts, ParentTime)
  ELSE lastTimestamp <= ChainTime

ClockInv ==
  /\ ChainTime \in Nat
  /\ ChainTime >= GenesisTime
  /\ used.failures = 0 => ClockSafe /\ CanonicalTimestamps

\* The clock starts at genesis and there is no block.
LEMMA ClockInit == Init => ClockInv
<1> SUFFICES ASSUME Init PROVE ClockInv
  OBVIOUS
<1>1. Chain = <<>>
  BY DEF Init, Chain
<1>2. ChainTime = GenesisTime
  BY <1>1 DEF ChainTime
<1>3. CanonicalTimestamps
  BY DEF Init, CanonicalTimestamps
<1> QED
  BY <1>2, <1>3, BoundsAssumption DEF Init, ClockInv, ClockSafe, ExecIdle

\* The parent's timestamp, while the engine works, is that of the top block.
LEMMA ParentTimeIsChainTime ==
  ASSUME ChainInv, exec.pc = "digest"
  PROVE  ParentTime = ChainTime
  BY ParentIsTop DEF ChainInv, ExecSafe, ParentTime, ChainTime

\* A stored block keeps every chain canonical if its own timestamp is.
LEMMA StoreCanonical ==
  ASSUME ChainInv, ExecStore, CanonicalTimestamps,
         exec.ts = BlockTime(exec.msg.ts, ParentTime)
  PROVE  CanonicalTimestamps'
<1> DEFINE block == [msg |-> exec.msg, ts |-> exec.ts]
           chain == Append(exec.parent, block)
<1>1. results' = [results EXCEPT ![exec.idx] = chain] /\ results \in [Idx -> Seq(Block)]
  BY DEF ExecStore, ChainInv, TypeOK
<1>2. /\ exec.idx \in Idx
      /\ exec.parent \in Seq(Block)
      /\ Len(exec.parent) = exec.idx
      /\ exec.idx = 0 => exec.parent = <<>>
      /\ exec.idx > 0 => exec.idx - 1 \in Idx /\ exec.parent = results[exec.idx - 1]
      /\ block \in Block
  BY StoredChain
<1>3. exec.idx \in Nat
  BY <1>2, BoundsAssumption DEF Idx
<1>4. block.msg = exec.msg /\ block.ts = exec.ts
  OBVIOUS
<1> HIDE DEF block
<1>5. /\ Len(chain) = exec.idx + 1
      /\ chain[exec.idx + 1] = block
      /\ \A k \in 1 .. exec.idx : chain[k] = exec.parent[k]
  BY <1>2, <1>3
<1> HIDE DEF chain
<1>6. ASSUME NEW k \in 1 .. exec.idx + 1
      PROVE  chain[k].ts = BlockTime(chain[k].msg.ts,
                                     IF k = 1 THEN GenesisTime ELSE chain[k - 1].ts)
  <2>1. CASE k = exec.idx + 1
    <3>1. ParentTime = IF k = 1 THEN GenesisTime ELSE chain[k - 1].ts
      <4>1. CASE exec.idx = 0
        BY <1>2, <2>1, <4>1 DEF ParentTime
      <4>2. CASE exec.idx > 0
        <5>1. exec.parent # <<>>
          BY <1>2, <4>2
        <5>2. chain[k - 1] = exec.parent[Len(exec.parent)]
          <6>1. k - 1 = exec.idx /\ exec.idx \in 1 .. exec.idx
            BY <1>3, <2>1, <4>2
          <6>2. chain[exec.idx] = exec.parent[exec.idx]
            BY <1>5, <6>1
          <6> QED
            BY <1>2, <6>1, <6>2
        <5> QED
          BY <1>3, <2>1, <4>2, <5>1, <5>2 DEF ParentTime
      <4> QED
        BY <1>3, <4>1, <4>2
    <3> QED
      BY <1>4, <1>5, <2>1, <3>1
  <2>2. CASE k # exec.idx + 1
    <3>1. k \in 1 .. exec.idx /\ exec.idx > 0 /\ (k # 1 => k - 1 \in 1 .. exec.idx)
      BY <1>3, <2>2
    <3>2. exec.idx - 1 \in Idx /\ exec.parent = results[exec.idx - 1]
      BY <1>2, <3>1
    <3>3. exec.parent[k].ts = BlockTime(exec.parent[k].msg.ts,
                                IF k = 1 THEN GenesisTime ELSE exec.parent[k - 1].ts)
      BY <1>2, <3>1, <3>2 DEF CanonicalTimestamps, BlockTime
    <3> QED
      BY <1>5, <3>1, <3>3
  <2> QED
    BY <2>1, <2>2
<1>7. ASSUME NEW i \in Idx, NEW k \in 1 .. Len(results'[i])
      PROVE  results'[i][k].ts = BlockTime(results'[i][k].msg.ts,
                               IF k = 1 THEN GenesisTime ELSE results'[i][k - 1].ts)
  <2>1. CASE i = exec.idx
    BY <1>1, <1>2, <1>5, <1>6, <1>7, <2>1
  <2>2. CASE i # exec.idx
    <3>1. results'[i] = results[i]
      BY <1>1, <2>2
    <3> QED
      BY <1>7, <3>1 DEF CanonicalTimestamps, BlockTime
  <2> QED
    BY <2>1, <2>2
<1> QED
  BY <1>7 DEF CanonicalTimestamps, BlockTime

\* The number of failed calls grows with each of them and with nothing else.
LEMMA FailureSteps ==
  ASSUME SoleConfirmer, TypeOK, [Next]_vars
  PROVE  \/ used'.failures = used.failures
         \/ ExecFail /\ used'.failures # 0
<1>1. used \in Budget
  BY DEF TypeOK, Budget
<1>2. ASSUME NEW p \in Writers, NEW first \in Idx,
             \/ \E msgs \in Calls : Submit(p, first, msgs)
             \/ \E msgs \in Calls \cup {<<>>} : SubmitReorg(p, first, msgs)
      PROVE  used'.failures = used.failures
  BY <1>1, <1>2 DEF Submit, SubmitReorg, Budget
<1>3. ASSUME NEW p \in Writers, Scan(p) \/ Write(p)
      PROVE  used' = used
  BY <1>3 DEF Scan, DropFeedReorg, Reject, AllDuplicates, Return, StartAppend, StartReorg,
              Write, DeleteResult, DeleteMessage, LowerCount, PutMessage, PutCount
<1>4. CASE Execute \/ UNCHANGED vars
  BY <1>4 DEF Execute, ExecHead, ExecSkip, ExecDigest, ExecStore, ExecRefused, vars
<1>5. CASE ExecFail
  BY <1>1, <1>5, BoundsAssumption DEF ExecFail, Budget
<1>6. CASE Crash
  BY <1>1, <1>6 DEF Crash, Budget
<1> QED
  BY <1>2, <1>3, <1>4, <1>5, <1>6 DEF Next

\* Every step keeps the clock behind the chain and the chain canonical.
LEMMA ClockStep ==
  ASSUME SoleConfirmer, ChainInv, ChainInv', ClockInv, [Next]_vars
  PROVE  ClockInv'
<1>0. \/ used'.failures = used.failures
      \/ ExecFail /\ used'.failures # 0
  BY FailureSteps DEF ChainInv
<1>1. /\ TypeOK
      /\ ChainTime \in Nat
      /\ ChainTime >= GenesisTime
      /\ GenesisTime \in Nat
      /\ lastTimestamp \in Nat
      /\ exec.ts \in Nat
  BY BoundsAssumption DEF ChainInv, ClockInv, TypeOK, ExecState
<1>2. ASSUME results' = results
      PROVE  /\ Chain' = Chain
             /\ ChainTime' = ChainTime
             /\ CanonicalTimestamps => CanonicalTimestamps'
  BY <1>2 DEF Chain, ChainTime, CanonicalTimestamps
<1>3. ASSUME results' = results, used.failures = 0 /\ ClockSafe => ClockSafe'
      PROVE  ClockInv'
  <2>1. CASE used'.failures = 0
    <3>1. used.failures = 0
      BY <1>0, <2>1
    <3> QED
      BY <1>1, <1>2, <1>3, <3>1 DEF ClockInv
  <2>2. CASE used'.failures # 0
    BY <1>1, <1>2, <1>3, <2>2 DEF ClockInv
  <2> QED
    BY <2>1, <2>2
<1>4. CASE ExecFail
  <2>1. used'.failures # 0
    BY <1>4, BoundsAssumption DEF ExecFail, ChainInv, TypeOK
  <2>2. results' = results
    BY <1>4 DEF ExecFail
  <2> QED
    BY <1>1, <1>2, <2>1, <2>2 DEF ClockInv
<1>5. CASE Crash
  <2>1. results' = results /\ lastTimestamp' = GenesisTime /\ exec'.pc = "idle"
    BY <1>5 DEF Crash, ExecIdle
  <2> QED
    BY <1>1, <1>2, <1>3, <2>1 DEF ClockSafe
<1>6. CASE ExecHead \/ ExecSkip
  <2>1. /\ UNCHANGED <<results, lastTimestamp>>
        /\ exec.pc # "digest" /\ exec'.pc # "digest"
    <3>1. CASE ExecSkip
      BY <3>1 DEF ExecSkip, ExecIdle
    <3>2. CASE ExecHead
      <4>1. PICK i \in 0 .. messageCount : exec' = [ExecIdle EXCEPT !.pc = "fetch", !.idx = i]
        BY <3>2 DEF ExecHead
      <4>2. exec'.pc = "fetch"
        BY <4>1 DEF ExecIdle
      <4> QED
        BY <3>2, <4>2 DEF ExecHead
    <3> QED
      BY <1>6, <3>1, <3>2
  <2> QED
    BY <1>2, <1>3, <2>1 DEF ClockSafe
<1>7. CASE ExecRefused
  <2>1. /\ UNCHANGED results
        /\ lastTimestamp' = lastTimestamp
        /\ exec.pc = "digest" /\ exec'.pc # "digest"
        /\ ~Buildable
    BY <1>7 DEF ExecRefused, ExecIdle
  <2>2. ParentTime = ChainTime
    BY <2>1, ParentTimeIsChainTime
  <2> QED
    BY <1>1, <1>2, <1>3, <2>1, <2>2 DEF ClockSafe, Buildable
<1>8. CASE ExecDigest
  <2>1. /\ exec.pc # "idle" /\ exec.pc # "digest"
        /\ results' = results
        /\ lastTimestamp' = NextTimestamp
    BY <1>8 DEF ExecDigest
  <2>2. /\ exec'.pc = "digest"
        /\ exec'.msg = messages[exec.idx]
        /\ exec'.ts = NextTimestamp
        /\ exec'.parent = ParentBlock
    BY <1>1, <1>8 DEF ExecDigest, TypeOK, ExecState
  <2>3. ParentTime' = ChainTime
    BY <2>1, <2>2, ParentIsTop DEF ParentTime, ChainTime
  <2>4. exec'.msg.ts \in Nat
    <3>1. exec'.msg \in Messages
      BY <2>2 DEF ChainInv, TypeOK, ExecState
    <3> QED
      BY <3>1, MessagesAssumption
  <2>5. ASSUME ClockSafe, Buildable' PROVE exec'.ts = BlockTime(exec'.msg.ts, ChainTime)
    <3>1. lastTimestamp <= ChainTime
      BY <2>1, <2>5 DEF ClockSafe
    <3>2. exec'.ts > ChainTime
      BY <2>3, <2>5 DEF Buildable
    <3> QED
      BY <1>1, <2>2, <2>4, <3>1, <3>2 DEF NextTimestamp, BlockTime
  <2>6. ClockSafe => ClockSafe'
    BY <2>1, <2>2, <2>3, <2>5 DEF ClockSafe
  <2> QED
    BY <1>3, <2>1, <2>6
<1>9. CASE ExecStore
  <2>1. /\ exec.pc = "digest" /\ exec'.pc # "digest"
        /\ lastTimestamp' = lastTimestamp
        /\ exec.ts > ParentTime
    BY <1>9 DEF ExecStore, ExecIdle, Buildable
  <2>2. ParentTime = ChainTime
    BY <2>1, ParentTimeIsChainTime
  <2>3. ChainTime' = exec.ts
    <3> DEFINE block == [msg |-> exec.msg, ts |-> exec.ts]
    <3>1. block.ts = exec.ts /\ Chain' = Append(exec.parent, block)
      BY <1>9, StoreExtendsChain
    <3>2. exec.parent \in Seq(Block) /\ block \in Block
      BY <1>9, StoredChain
    <3> HIDE DEF block
    <3>3. /\ Len(Append(exec.parent, block)) = Len(exec.parent) + 1
          /\ Len(exec.parent) \in Nat
          /\ Append(exec.parent, block)[Len(exec.parent) + 1] = block
      BY <3>2
    <3>4. Chain' # <<>> /\ Chain'[Len(Chain')] = block
      BY <3>1, <3>3
    <3> QED
      BY <3>1, <3>4 DEF ChainTime
  <2>4. used'.failures = used.failures
    BY <1>9 DEF ExecStore
  <2>5. ASSUME used.failures = 0 PROVE ClockSafe' /\ CanonicalTimestamps'
    <3>1. /\ CanonicalTimestamps
          /\ lastTimestamp = exec.ts
          /\ exec.ts = BlockTime(exec.msg.ts, ParentTime)
      BY <1>9, <2>1, <2>5 DEF ClockInv, ClockSafe, ExecStore
    <3>2. CanonicalTimestamps'
      BY <1>9, <3>1, StoreCanonical
    <3> QED
      BY <1>1, <2>1, <2>3, <3>1, <3>2 DEF ClockSafe
  <2> QED
    BY <1>1, <2>1, <2>2, <2>3, <2>4, <2>5 DEF ClockInv
<1>10. CASE UNCHANGED <<results, exec, lastTimestamp>>
  BY <1>2, <1>3, <1>10 DEF ClockSafe, Buildable, ParentTime
<1>11. ASSUME NEW p \in Writers, NEW first \in Idx,
              \/ \E msgs \in Calls : Submit(p, first, msgs)
              \/ \E msgs \in Calls \cup {<<>>} : SubmitReorg(p, first, msgs)
       PROVE  UNCHANGED <<results, exec, lastTimestamp>>
  BY <1>11 DEF Submit, SubmitReorg
<1>12. ASSUME NEW p \in Writers, Scan(p)
       PROVE  UNCHANGED <<results, exec, lastTimestamp>>
  BY <1>12 DEF Scan, DropFeedReorg, Reject, AllDuplicates, Return, StartAppend, StartReorg
<1>13. ASSUME NEW p \in Writers, Write(p)
       PROVE  UNCHANGED <<results, exec, lastTimestamp>>
  <2>1. ASSUME NEW i \in Idx, DeleteResult(p, i) PROVE FALSE
    BY <2>1 DEF DeleteResult, ChainInv, NothingToDelete
  <2> QED
    BY <1>13, <2>1 DEF Write, DeleteMessage, LowerCount, PutMessage, PutCount
<1>14. CASE UNCHANGED vars
  BY <1>10, <1>14 DEF vars
<1> QED
  BY <1>4, <1>5, <1>6, <1>7, <1>8, <1>9, <1>10, <1>11, <1>12, <1>13, <1>14 DEF Next, Execute

\* With one reader, no RPC writer and no failed engine call, every block of every
\* stored chain has the least timestamp the rule allows, through any number of
\* crashes that reset the engine's clock to genesis: last_timestamp is not
\* stored, and the refused timestamps that follow a restart bring it back.
THEOREM TimestampsStayCanonical ==
  ASSUME SoleConfirmer
  PROVE  Spec => [](used.failures = 0 => CanonicalTimestamps)
<1>1. ChainInv /\ ChainInv' /\ ClockInv /\ [Next]_vars => ClockInv'
  BY ClockStep
<1>2. ClockInv => (used.failures = 0 => CanonicalTimestamps)
  BY DEF ClockInv
<1> QED
  BY <1>1, <1>2, ChainAlways, ClockInit, PTL DEF Spec

(***************************************************************************)
(* The streamer implements MessageLog.                                     *)
(***************************************************************************)

\* The log that clients see has one message for each index below the count.
LEMMA LogLength ==
  ASSUME NEW n \in Nat, NEW m, \A i \in 1 .. n : m[i - 1] \in Messages
  PROVE  Len([i \in 1 .. n |-> m[i - 1]]) = n
<1>1. [i \in 1 .. n |-> m[i - 1]] \in [1 .. n -> Messages]
  OBVIOUS
<1> QED
  BY <1>1

\* A step of the streamer is a step of the abstract log or changes nothing in it:
\* the count makes a call's messages visible together, and a result is one block
\* on the highest chain, later than the block below it.
LEMMA StepImplements ==
  ASSUME SoleConfirmer, ChainInv, ChainInv', [Next]_vars
  PROVE  [MsgLog!LogNext]_(MsgLog!logVars)
<1>1. TypeOK /\ TypeOK' /\ PendingSafe /\ LogContiguous /\ LogContiguous'
  BY DEF ChainInv
<1>2. /\ messageCount' >= messageCount
      /\ \A i \in Idx : i < messageCount => messages'[i] = messages[i]
  BY <1>1, StepAppends
<1>3. /\ messageCount \in Nat /\ messageCount <= MaxMessages
      /\ messageCount' \in Nat /\ messageCount' <= MaxMessages
      /\ MaxMessages \in Nat
  BY <1>1, BoundsAssumption DEF TypeOK
<1>4. Len(Log) = messageCount
  <2>1. \A i \in 1 .. messageCount : messages[i - 1] \in Messages
    BY <1>1, <1>3 DEF TypeOK, LogContiguous, Stored, Idx
  <2> QED
    BY <1>3, <2>1, LogLength DEF Log
<1>5. Len(Log') = messageCount'
  <2>1. \A i \in 1 .. messageCount' : messages'[i - 1] \in Messages
    BY <1>1, <1>3 DEF TypeOK, LogContiguous, Stored, Idx
  <2>2. Log' = [i \in 1 .. messageCount' |-> messages'[i - 1]]
    BY DEF Log
  <2> QED
    BY <1>3, <2>1, <2>2, LogLength
<1>6. \A i \in 1 .. messageCount : Log'[i] = Log[i]
  <2>1. \A i \in 1 .. messageCount : i - 1 \in Idx /\ i - 1 < messageCount /\ i \in 1 .. messageCount'
    BY <1>2, <1>3 DEF Idx
  <2> QED
    BY <1>2, <2>1 DEF Log
<1>7. messageCount' = messageCount => Log' = Log
  BY <1>6 DEF Log
<1>8. CASE results' = results
  <2>1. Chain' = Chain
    BY <1>8 DEF Chain
  <2>2. CASE messageCount' = messageCount
    BY <1>7, <2>1, <2>2 DEF MsgLog!logVars
  <2>3. CASE messageCount' > messageCount
    BY <1>4, <1>5, <1>6, <2>1, <2>3 DEF MsgLog!LogNext, MsgLog!Extend
  <2> QED
    BY <1>2, <1>3, <2>2, <2>3
<1>9. CASE ExecStore
  <2> DEFINE block == [msg |-> exec.msg, ts |-> exec.ts]
  <2>1. Log' = Log
    BY <1>7, <1>9 DEF ExecStore
  <2>2. Chain = exec.parent /\ Chain' = Append(exec.parent, block)
    BY <1>9, StoreExtendsChain
  <2>3. /\ exec.idx < messageCount
        /\ exec.idx \in Idx
        /\ exec.parent \in Seq(Block)
        /\ Len(exec.parent) = exec.idx
        /\ exec.msg = messages[exec.idx]
        /\ block \in Block
    BY <1>9, StoredChain
  <2>4. exec.idx \in Nat
    BY <1>3, <2>3 DEF Idx
  <2>5. block.msg = exec.msg /\ block.ts = exec.ts
    OBVIOUS
  <2> HIDE DEF block
  <2>6. /\ Len(Chain') = exec.idx + 1
        /\ \A i \in 1 .. exec.idx : Chain'[i] = Chain[i]
        /\ Chain'[exec.idx + 1] = block
    BY <2>2, <2>3, <2>4
  <2>7. exec.msg = Log[exec.idx + 1]
    <3>1. exec.idx + 1 \in 1 .. messageCount /\ exec.idx + 1 - 1 = exec.idx
      BY <1>3, <2>3, <2>4
    <3> QED
      BY <2>3, <3>1 DEF Log
  <2>8. exec.ts > MsgLog!HeadTime
    BY <1>9, <2>2 DEF ExecStore, Buildable, ParentTime, MsgLog!HeadTime
  <2>9. MsgLog!ExecuteNext
    BY <1>3, <1>4, <2>1, <2>2, <2>3, <2>4, <2>5, <2>6, <2>7, <2>8 DEF MsgLog!ExecuteNext
  <2> QED
    BY <2>9 DEF MsgLog!LogNext
<1>10. CASE ExecHead \/ ExecDigest
  BY <1>8, <1>10 DEF ExecHead, ExecDigest
<1> QED
  BY <1>8, <1>9, <1>10, ResultSteps

\* With the inbox reader as the only caller the streamer implements an
\* append-only log with a chain of blocks behind it: the puts of one call become
\* visible together though they are written one by one, nothing visible is ever
\* taken back, and blocks are executed once each, in order, on one another, with
\* rising timestamps, through crashes and engine failures.
THEOREM StreamerImplementsLog ==
  ASSUME SoleConfirmer
  PROVE  Spec => ImplementsMessageLog
<1>1. Init => MsgLog!LogInit
  <2> SUFFICES ASSUME Init PROVE MsgLog!LogInit
    OBVIOUS
  <2>1. Chain = <<>>
    BY DEF Init, Chain
  <2>2. Log = <<>>
    BY DEF Init, Log
  <2> QED
    BY <2>1, <2>2 DEF MsgLog!LogInit
<1>2. ChainInv /\ ChainInv' /\ [Next]_vars => [MsgLog!LogNext]_(MsgLog!logVars)
  BY StepImplements
<1> QED
  BY <1>1, <1>2, ChainAlways, PTL DEF Spec, ImplementsMessageLog, MsgLog!LogSpec
=============================================================================

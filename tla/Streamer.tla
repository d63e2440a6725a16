------------------------------ MODULE Streamer ------------------------------
(***************************************************************************)
(* The transaction streamer (crates/streamer) over the sled store: the     *)
(* message log, the count that bounds it, the results of execution, the    *)
(* callers that append or reorg (the inbox reader's task through the       *)
(* tracker, and RPC handlers), the execution loop, and crashes.            *)
(*                                                                         *)
(* Nothing in the code locks the store, and a sled batch is applied one    *)
(* key at a time, so every put and every removal is a step of its own and  *)
(* a crash may come between any two of them.  Keys that no decision reads  *)
(* (block hash, block metadata and missing-metadata markers) are left out. *)
(***************************************************************************)
EXTENDS Integers, Sequences, FiniteSets

CONSTANTS
  Messages,      \* messages that callers may submit: records with the fields
                 \* body, cost (batch_gas_cost), read (delayed_messages_read)
                 \* and ts (the header's timestamp)
  NoMessage,     \* what the store answers for an absent message key
  NoCost,        \* batch_gas_cost = None
  Confirmers,    \* callers of add_confirmed_messages_and_end_batch
  Feeders,       \* callers of RPC new_message
  Reorgers,      \* callers of RPC reorg
  ReorgsInLog,   \* whether those callers name only indices up to the count; the
                 \* code does not check that they do
  GenesisTime,   \* genesis_timestamp
  MaxMessages,   \* bound: size of the log
  MaxBatch,      \* bound: messages in one call
  MaxCrashes,    \* bound: crashes of the node
  MaxFailures,   \* bound: transient engine failures
  MaxReorgs      \* bound: RPC reorg calls

ASSUME MessagesAssumption ==
  /\ NoMessage \notin Messages
  /\ \A m \in Messages :
       /\ m = [body |-> m.body, cost |-> m.cost, read |-> m.read, ts |-> m.ts]
       /\ m.read \in Nat
       /\ m.ts \in Nat

ASSUME BoundsAssumption ==
  /\ ReorgsInLog \in BOOLEAN
  /\ GenesisTime \in Nat
  /\ MaxMessages \in Nat \ {0}
  /\ MaxBatch \in Nat \ {0}
  /\ MaxCrashes \in Nat
  /\ MaxFailures \in Nat
  /\ MaxReorgs \in Nat

VARIABLES
  messages,       \* MESSAGE_PREFIX keys
  results,        \* MESSAGE_RESULT_PREFIX keys; a block hash is the chain of
                  \* blocks it commits to, <<>> is an absent key
  messageCount,   \* MESSAGE_COUNT_KEY, absent read as 0
  writer,         \* each caller's progress through its call
  exec,           \* the execution loop's progress
  lastTimestamp,  \* RethExecEngine.last_timestamp
  used            \* how much of each bound is spent

vars == <<messages, results, messageCount, writer, exec, lastTimestamp, used>>

Writers == Confirmers \cup Feeders \cup Reorgers

Idx == 0 .. MaxMessages - 1

Block == [msg : Messages, ts : Nat]

(***************************************************************************)
(* Callers.                                                                *)
(***************************************************************************)

\* The record of a caller that is between calls; ret is what its last call
\* returned and upto the index after the last message it was given.
AtRest(ret, upto) ==
  [pc |-> "rest", next |-> 0, msgs |-> <<>>, oldResults |-> {},
   oldMessages |-> {}, ret |-> ret, upto |-> upto]

Stored(i) == messages[i] # NoMessage

Calls == UNION {[1 .. n -> Messages] : n \in 1 .. MaxBatch}

\* have != want and the comparison without batch_gas_cost when a side has none.
Duplicate(have, want) ==
  /\ have.body = want.body
  /\ have.read = want.read
  /\ have.ts = want.ts
  /\ have.cost = want.cost \/ have.cost = NoCost \/ want.cost = NoCost

\* n is the number of leading messages that the store already has at first.
count_duplicate_messages(first, msgs, n) ==
  LET dup(k) == Stored(first + k - 1) /\ Duplicate(messages[first + k - 1], msgs[k])
  IN  /\ \A k \in 1 .. n : dup(k)
      /\ n < Len(msgs) => ~dup(n + 1)

\* After n duplicates the next key holds a different message.
Conflict(first, msgs, n) == n < Len(msgs) /\ Stored(first + n)

get_prev_prev_delayed_read(i) ==
  IF i > 0 /\ Stored(i - 1) THEN messages[i - 1].read ELSE 0

\* last_delayed_read as the loop over the remaining messages starts: the last
\* duplicate's, else the previous stored message's, else seeded from the first
\* remaining message when the count lags behind the duplicates.
last_delayed_read(first, msgs, n) ==
  LET dups == IF n > 0 THEN msgs[n].read ELSE 0
      prev == IF dups = 0 THEN get_prev_prev_delayed_read(first + n) ELSE dups
  IN  IF n < Len(msgs) /\ messageCount < first + n /\ prev = 0
      THEN msgs[n + 1].read
      ELSE prev

\* Mutant: only the first remaining message is compared.
NoJumpFirstOnly(first, msgs, n) ==
  n < Len(msgs) => msgs[n + 1].read <= 1 + last_delayed_read(first, msgs, n)

\* dm_read.saturating_sub(last_delayed_read) is 0 or 1 for every remaining one.
NoJump(first, msgs, n) ==
  \A k \in n + 1 .. Len(msgs) :
    msgs[k].read <= 1 + (IF k = n + 1 THEN last_delayed_read(first, msgs, n)
                                      ELSE msgs[k - 1].read)

\* Mutant: an index below the count is accepted too.
NotBeyondCount(first) == first <= messageCount

\* "non-contiguous append"
Contiguous(first) == first = messageCount

\* add_messages_and_end_batch_impl up to its first check: a call whose index is
\* not the count returns an error and changes nothing.  RPC new_message passes
\* one message.
Submit(p, first, msgs) ==
  /\ p \in Confirmers \cup Feeders
  /\ writer[p].pc = "rest"
  /\ Contiguous(first)
  /\ p \in Feeders => Len(msgs) = 1
  /\ first + Len(msgs) <= MaxMessages
  /\ writer' = [writer EXCEPT ![p] =
                  [pc |-> "scan", next |-> first, msgs |-> msgs, oldResults |-> {},
                   oldMessages |-> {}, ret |-> "none", upto |-> first + Len(msgs)]]
  /\ UNCHANGED <<messages, results, messageCount, exec, lastTimestamp, used>>

\* The caller p has counted n duplicates.
Scanned(p, n) ==
  /\ writer[p].pc = "scan"
  /\ n \in 0 .. Len(writer[p].msgs)
  /\ count_duplicate_messages(writer[p].next, writer[p].msgs, n)

Return(p, ret) ==
  /\ writer' = [writer EXCEPT ![p] = AtRest(ret, writer[p].upto)]
  /\ UNCHANGED <<messages, results, messageCount, exec, lastTimestamp, used>>

\* An unconfirmed message that contradicts the store is dropped silently.
DropFeedReorg(p, n) ==
  /\ p \in Feeders
  /\ Scanned(p, n)
  /\ Conflict(writer[p].next, writer[p].msgs, n)
  /\ Return(p, "dropped")

\* Mutant: message 0 may be reorged out.
ReorgableFromZero(first) == first >= 0

\* "cannot reorg out init message"
Reorgable(first) == first # 0

\* The delayed-read check fails, or a confirmed reorg would remove message 0.
Reject(p, n) ==
  /\ Scanned(p, n)
  /\ p \in Feeders => ~Conflict(writer[p].next, writer[p].msgs, n)
  /\ \/ ~NoJump(writer[p].next, writer[p].msgs, n)
     \/ Conflict(writer[p].next, writer[p].msgs, n) /\ ~Reorgable(writer[p].next + n)
  /\ Return(p, "error")

\* Every message was a duplicate: the call returns Ok and writes nothing.
AllDuplicates(p, n) ==
  /\ Scanned(p, n)
  /\ n = Len(writer[p].msgs)
  /\ Return(p, "ok")

\* write_messages builds its batch: the puts in order, then the count.
StartAppend(p, n) ==
  /\ Scanned(p, n)
  /\ n < Len(writer[p].msgs)
  /\ ~Conflict(writer[p].next, writer[p].msgs, n)
  /\ NoJump(writer[p].next, writer[p].msgs, n)
  /\ writer' = [writer EXCEPT ![p].pc = "put",
                              ![p].next = @ + n,
                              ![p].msgs = SubSeq(@, n + 1, Len(@))]
  /\ UNCHANGED <<messages, results, messageCount, exec, lastTimestamp, used>>

\* Mutant: the result before the first removed message goes too.
StaleResultsOffByOne(first) == {i \in Idx : i + 1 >= first /\ results[i] # <<>>}

\* The keys that delete_starting_at collects for a reorg at index first.
StaleResults(first) == {i \in Idx : i >= first /\ results[i] # <<>>}
StaleMessages(first) == {i \in Idx : i >= first /\ Stored(i)}

\* add_messages_and_reorg's first batch, built for caller p with rest to follow.
BuildReorg(p, first, rest, upto) ==
  writer' = [writer EXCEPT ![p] =
               [pc |-> "delete", next |-> first, msgs |-> rest,
                oldResults |-> StaleResults(first),
                oldMessages |-> StaleMessages(first), ret |-> "none", upto |-> upto]]

\* A confirmed message contradicts the store.
StartReorg(p, n) ==
  /\ p \in Confirmers
  /\ Scanned(p, n)
  /\ Conflict(writer[p].next, writer[p].msgs, n)
  /\ NoJump(writer[p].next, writer[p].msgs, n)
  /\ Reorgable(writer[p].next + n)
  /\ BuildReorg(p, writer[p].next + n,
                SubSeq(writer[p].msgs, n + 1, Len(writer[p].msgs)), writer[p].upto)
  /\ UNCHANGED <<messages, results, messageCount, exec, lastTimestamp, used>>

\* RPC reorg calls add_messages_and_reorg directly.
SubmitReorg(p, first, msgs) ==
  /\ p \in Reorgers
  /\ writer[p].pc = "rest"
  /\ used.reorgs < MaxReorgs
  /\ Reorgable(first)
  /\ ReorgsInLog => first <= messageCount
  /\ first + Len(msgs) <= MaxMessages
  /\ used' = [used EXCEPT !.reorgs = @ + 1]
  /\ BuildReorg(p, first, msgs, first + Len(msgs))
  /\ UNCHANGED <<messages, results, messageCount, exec, lastTimestamp>>

\* The removals of the reorg's first batch, in key order: results, then
\* messages; the count is lowered last.
DeleteResult(p, i) ==
  /\ writer[p].pc = "delete"
  /\ i \in writer[p].oldResults
  /\ \A j \in writer[p].oldResults : i <= j
  /\ results' = [results EXCEPT ![i] = <<>>]
  /\ writer' = [writer EXCEPT ![p].oldResults = @ \ {i}]
  /\ UNCHANGED <<messages, messageCount, exec, lastTimestamp, used>>

DeleteMessage(p, i) ==
  /\ writer[p].pc = "delete"
  /\ writer[p].oldResults = {}
  /\ i \in writer[p].oldMessages
  /\ \A j \in writer[p].oldMessages : i <= j
  /\ messages' = [messages EXCEPT ![i] = NoMessage]
  /\ writer' = [writer EXCEPT ![p].oldMessages = @ \ {i}]
  /\ UNCHANGED <<results, messageCount, exec, lastTimestamp, used>>

\* Mutant: a reorg that adds nothing leaves the count alone.
LoweredOnlyIfAdding(p) == IF writer[p].msgs = <<>> THEN messageCount ELSE writer[p].next

\* set_message_count(msg_idx_of_first_msg_to_add)
LoweredCount(p) == writer[p].next

LowerCount(p) ==
  /\ writer[p].pc = "delete"
  /\ writer[p].oldResults = {}
  /\ writer[p].oldMessages = {}
  /\ messageCount' = LoweredCount(p)
  /\ writer' = IF writer[p].msgs = <<>>
               THEN [writer EXCEPT ![p] = AtRest("ok", writer[p].upto)]
               ELSE [writer EXCEPT ![p].pc = "put"]
  /\ UNCHANGED <<messages, results, exec, lastTimestamp, used>>

\* write_message: one put of the batch reaches the store.
PutMessage(p) ==
  /\ writer[p].pc = "put"
  /\ writer[p].msgs # <<>>
  /\ messages' = [messages EXCEPT ![writer[p].next] = Head(writer[p].msgs)]
  /\ writer' = [writer EXCEPT ![p].next = @ + 1, ![p].msgs = Tail(@)]
  /\ UNCHANGED <<results, messageCount, exec, lastTimestamp, used>>

\* Mutants: the count is one short, or one too many.
CountShort(p) == writer[p].next - 1
CountOver(p) == writer[p].next + 1

\* first_msg_idx + messages.len()
NewCount(p) == writer[p].next

\* set_message_count is the last put of the batch.
PutCount(p) ==
  /\ writer[p].pc = "put"
  /\ writer[p].msgs = <<>>
  /\ messageCount' = NewCount(p)
  /\ writer' = [writer EXCEPT ![p] = AtRest("ok", writer[p].upto)]
  /\ UNCHANGED <<messages, results, exec, lastTimestamp, used>>

(***************************************************************************)
(* The execution loop: execute_next_msg and RethExecEngine.                *)
(***************************************************************************)

ExecIdle == [pc |-> "idle", idx |-> 0, msg |-> NoMessage, parent |-> <<>>, ts |-> 0]

\* head_message_index scans down from the count for the first stored result;
\* the next index to execute is one above it, or 0.
NextToExecute(i) ==
  /\ i \in 0 .. messageCount
  /\ i > 0 => results[i - 1] # <<>>
  /\ \A j \in i .. messageCount - 1 : results[j] = <<>>

ExecHead ==
  /\ exec.pc = "idle"
  /\ \E i \in 0 .. messageCount :
       /\ NextToExecute(i)
       /\ exec' = [ExecIdle EXCEPT !.pc = "fetch", !.idx = i]
  /\ UNCHANGED <<messages, results, messageCount, writer, lastTimestamp, used>>

\* Mutant: the index is not compared with the count.
FetchableBeyondCount ==
  /\ exec.idx \in Idx
  /\ Stored(exec.idx)
  /\ exec.idx > 0 => results[exec.idx - 1] # <<>>

\* The message, the next message for the prefetch and the parent's result are
\* all there; a missing one is an error and the loop starts over.
Fetchable ==
  /\ exec.idx < messageCount
  /\ Stored(exec.idx)
  /\ exec.idx + 1 < messageCount => Stored(exec.idx + 1)
  /\ exec.idx > 0 => results[exec.idx - 1] # <<>>

ExecSkip ==
  /\ exec.pc = "fetch"
  /\ ~Fetchable
  /\ exec' = ExecIdle
  /\ UNCHANGED <<messages, results, messageCount, writer, lastTimestamp, used>>

\* Mutants: the parent is always genesis; an equal timestamp is not raised; the
\* message's own timestamp is ignored.
ParentIsGenesis == <<>>
TimestampNotStrict == IF messages[exec.idx].ts < lastTimestamp
                      THEN lastTimestamp + 1
                      ELSE messages[exec.idx].ts
TimestampFromClock == lastTimestamp + 1

\* parent_hash: the previous result's block hash, genesis for message 0.
ParentBlock == IF exec.idx = 0 THEN <<>> ELSE results[exec.idx - 1]

\* ts: the message's timestamp, raised above the last one handed out.
NextTimestamp == IF messages[exec.idx].ts <= lastTimestamp
                 THEN lastTimestamp + 1
                 ELSE messages[exec.idx].ts

\* digest_message up to its first await.
ExecDigest ==
  /\ exec.pc = "fetch"
  /\ Fetchable
  /\ lastTimestamp' = NextTimestamp
  /\ exec' = [exec EXCEPT !.pc = "digest", !.msg = messages[exec.idx],
                          !.parent = ParentBlock, !.ts = NextTimestamp]
  /\ UNCHANGED <<messages, results, messageCount, writer, used>>

\* The execution client builds on a parent only with a later timestamp.
ParentTime == IF exec.parent = <<>> THEN GenesisTime
                                    ELSE exec.parent[Len(exec.parent)].ts

Buildable == exec.ts > ParentTime

\* The engine answered: store_result, in a batch of its own.
ExecStore ==
  /\ exec.pc = "digest"
  /\ Buildable
  /\ results' = [results EXCEPT ![exec.idx] =
                   Append(exec.parent, [msg |-> exec.msg, ts |-> exec.ts])]
  /\ exec' = ExecIdle
  /\ UNCHANGED <<messages, messageCount, writer, lastTimestamp, used>>

\* The engine refuses the timestamp; the loop retries from the start.
ExecRefused ==
  /\ exec.pc = "digest"
  /\ ~Buildable
  /\ exec' = ExecIdle
  /\ UNCHANGED <<messages, results, messageCount, writer, lastTimestamp, used>>

\* A fork-choice or payload call fails (channel closed, missing parent header
\* after the retries, status not valid); the loop retries from the start.
ExecFail ==
  /\ exec.pc = "digest"
  /\ used.failures < MaxFailures
  /\ used' = [used EXCEPT !.failures = @ + 1]
  /\ exec' = ExecIdle
  /\ UNCHANGED <<messages, results, messageCount, writer, lastTimestamp>>

(***************************************************************************)
(* A crash keeps the keys written so far and forgets everything else; the  *)
(* restarted engine takes its clock from genesis.                          *)
(***************************************************************************)
Crash ==
  /\ used.crashes < MaxCrashes
  /\ used' = [used EXCEPT !.crashes = @ + 1]
  /\ writer' = [p \in Writers |-> AtRest("none", 0)]
  /\ exec' = ExecIdle
  /\ lastTimestamp' = GenesisTime
  /\ UNCHANGED <<messages, results, messageCount>>

Init ==
  /\ messages = [i \in Idx |-> NoMessage]
  /\ results = [i \in Idx |-> <<>>]
  /\ messageCount = 0
  /\ writer = [p \in Writers |-> AtRest("none", 0)]
  /\ exec = ExecIdle
  /\ lastTimestamp = GenesisTime
  /\ used = [crashes |-> 0, failures |-> 0, reorgs |-> 0]

\* The steps of a call once it has started.
Scan(p) ==
  \E n \in 0 .. MaxBatch :
    \/ DropFeedReorg(p, n)
    \/ Reject(p, n)
    \/ AllDuplicates(p, n)
    \/ StartAppend(p, n)
    \/ StartReorg(p, n)

Write(p) ==
  \/ \E i \in Idx : DeleteResult(p, i) \/ DeleteMessage(p, i)
  \/ LowerCount(p)
  \/ PutMessage(p)
  \/ PutCount(p)

Execute == ExecHead \/ ExecSkip \/ ExecDigest \/ ExecStore \/ ExecRefused

Next ==
  \/ \E p \in Writers :
       \/ \E first \in Idx :
            \/ \E msgs \in Calls : Submit(p, first, msgs)
            \/ \E msgs \in Calls \cup {<<>>} : SubmitReorg(p, first, msgs)
       \/ Scan(p)
       \/ Write(p)
  \/ Execute
  \/ ExecFail
  \/ Crash

Spec == Init /\ [][Next]_vars

\* A call that has started is run to its end by its thread, and the loop in
\* start() calls execute_next_msg again whatever it returned.
Fairness ==
  /\ WF_vars(Execute)
  /\ \A p \in Writers : WF_vars(Scan(p) \/ Write(p))

FairSpec == Spec /\ Fairness
(***************************************************************************)
(* Properties.                                                             *)
(***************************************************************************)

WriterState ==
  {w \in [pc : {"rest", "scan", "delete", "put"}, next : 0 .. MaxMessages,
          msgs : Seq(Messages), oldResults : SUBSET Idx, oldMessages : SUBSET Idx,
          ret : {"none", "ok", "error", "dropped"}, upto : 0 .. MaxMessages] :
     w.next + Len(w.msgs) <= MaxMessages}

ExecState ==
  {e \in [pc : {"idle", "fetch", "digest"}, idx : 0 .. MaxMessages,
          msg : Messages \cup {NoMessage}, parent : Seq(Block), ts : Nat] :
     e.pc = "digest" => e.idx \in Idx /\ e.msg \in Messages}

\* The types of the stored keys, of each caller's and of the loop's progress:
\* the put still to come stays inside the index space and the engine is only
\* ever given a message that was stored.
TypeOK ==
  /\ messages \in [Idx -> Messages \cup {NoMessage}]
  /\ results \in [Idx -> Seq(Block)]
  /\ messageCount \in 0 .. MaxMessages
  /\ writer \in [Writers -> WriterState]
  /\ exec \in ExecState
  /\ lastTimestamp \in Nat
  /\ used \in [crashes : 0 .. MaxCrashes, failures : 0 .. MaxFailures,
               reorgs : 0 .. MaxReorgs]

\* Every index below the count has a message, at every instant and after every
\* crash: write_messages puts the count last, a confirmed reorg only removes
\* what lies above it.  The execution loop and the segment source rely on it.
LogContiguous == \A i \in Idx : i < messageCount => Stored(i)

\* One reader and no RPC writer: the node as it runs when nobody calls the
\* message RPCs.
SoleConfirmer ==
  /\ Feeders = {}
  /\ Reorgers = {}
  /\ \A p, q \in Confirmers : p = q

\* RPC new_message callers only, any number of them.
OnlyFeeders == Confirmers = {} /\ Reorgers = {}

\* What makes LogContiguous inductive: a call under way has every message below
\* the index it has reached; a confirmed call has reached the count, and the
\* messages it is about to remove lie at or above that index.
SafeCall(p) ==
  writer[p].pc # "rest" =>
    /\ \A i \in Idx : i < writer[p].next => Stored(i)
    /\ p \in Confirmers => writer[p].next >= messageCount
    /\ writer[p].pc = "delete" =>
         /\ p \in Confirmers
         /\ \A i \in writer[p].oldMessages : i >= writer[p].next

PendingSafe == \A p \in Writers : SafeCall(p)

\* The same when no call is under way; an RPC reorg removes messages before it
\* lowers the count, so the log may be torn while it runs, and stays torn if the
\* node crashes before its end.  Without a reorg a crash leaves no hole.
LogContiguousAtRest ==
  /\ \A p \in Writers : writer[p].pc = "rest"
  /\ used.crashes = 0 \/ used.reorgs = 0
  => LogContiguous

\* The result stored for an index is the block chain built from exactly the
\* messages that the log holds up to it: what was executed is what is stored.
ResultsFollowLog ==
  \A i \in Idx :
    i < messageCount /\ results[i] # <<>> =>
      /\ Len(results[i]) = i + 1
      /\ \A k \in 1 .. i + 1 : results[i][k].msg = messages[k - 1]

\* The same when no call is under way: what a reorg removes takes its results
\* with it, also while the execution loop is waiting for the engine.
ResultsFollowLogAtRest ==
  (\A p \in Writers : writer[p].pc = "rest") => ResultsFollowLog

\* Results are stored only below the count and without gaps, so the downward
\* scan of head_message_index finds the end of what was executed.
ResultsArePrefix ==
  \A i \in Idx :
    results[i] # <<>> =>
      /\ i < messageCount
      /\ \A j \in 0 .. i : results[j] # <<>>

\* A message below the count is never replaced or removed, and the count never
\* goes back: what was once readable as consensus input stays.
CommittedImmutable ==
  [][/\ messageCount' >= messageCount
     /\ \A i \in Idx : i < messageCount => messages'[i] = messages[i]]_vars

\* Index 0, where the init message is, is never emptied once it is stored, whatever
\* reorgs run: "cannot reorg out init message".
InitMessageKept == [][Stored(0) => messages'[0] # NoMessage]_vars

\* The confirmed append returned Ok, so the count covers what it was given:
\* the tracker records batch metadata on the strength of that answer.
AcknowledgedIsCounted ==
  \A p \in Confirmers : writer[p].ret = "ok" => messageCount >= writer[p].upto

\* Successive messages of the log never skip a delayed message: the check that
\* rejects an "attempted to insert jump" cannot be got around.
NoDelayedJump ==
  \A i \in Idx :
    i < messageCount /\ Stored(i) =>
      messages[i].read <= 1 + get_prev_prev_delayed_read(i)

\* The timestamp of every executed block is the least one the rule allows: the
\* message's own, or one more than the parent's.  It then depends on the log
\* alone, so a restarted node rebuilds the same blocks as one that never was.
CanonicalTimestamps ==
  \A i \in Idx : \A k \in 1 .. Len(results[i]) :
    LET parentTs == IF k = 1 THEN GenesisTime ELSE results[i][k - 1].ts
        msgTs == results[i][k].msg.ts
    IN  results[i][k].ts = IF msgTs <= parentTs THEN parentTs + 1 ELSE msgTs

\* Every message that the count covers is eventually executed, through crashes,
\* refused timestamps and engine failures.
EventuallyExecuted ==
  \A i \in Idx : (i < messageCount) ~> (results[i] # <<>>)

\* The messages that the count covers, as a sequence.
Log == [i \in 1 .. messageCount |-> messages[i - 1]]

\* The chain that the highest stored result commits to.
Chain ==
  IF \E i \in Idx : results[i] # <<>>
  THEN results[CHOOSE i \in Idx :
                 results[i] # <<>> /\ \A j \in Idx : j > i => results[j] = <<>>]
  ELSE <<>>

MsgLog == INSTANCE MessageLog WITH log <- Log, blocks <- Chain

\* With the reader as the only caller the streamer implements the append-only
\* log with its block chain, crashes included.
ImplementsMessageLog == MsgLog!LogSpec

=============================================================================

---------------------------- MODULE BatchSearch ----------------------------
(***************************************************************************)
(* find_inbox_batch_containing_message of the inbox tracker: the binary    *)
(* search over the message counts recorded for the batches, one step per   *)
(* iteration of its loop.                                                  *)
(***************************************************************************)
EXTENDS Integers

CONSTANTS
  Histories,   \* the recorded message counts: functions from 0 .. n - 1, where
               \* n is the batch count, to the count after each batch
  Positions,   \* the message indices looked for
  MaxBatches   \* bound: batches in a history

\* A batch without messages records the count of the one before.
ASSUME HistoriesAssumption ==
  /\ MaxBatches \in Nat
  /\ \A p \in Positions : p \in Nat
  /\ \A h \in Histories :
       \E n \in 0 .. MaxBatches :
         /\ h \in [0 .. n - 1 -> Nat]
         /\ \A i, j \in 0 .. n - 1 : i < j => h[i] <= h[j]

VARIABLES
  counts,      \* get_batch_message_count, which nobody changes meanwhile
  pos,
  low,
  high,
  pc,          \* "start", "loop", "none" or "found"
  answer       \* the batch returned, when found

vars == <<counts, pos, low, high, pc, answer>>

Batches == DOMAIN counts

Last(i) == i \in Batches /\ i + 1 \notin Batches

\* There is no batch, or the last one ends at or before pos.
NotFound ==
  /\ pc = "start"
  /\ \A i \in Batches : Last(i) => counts[i] <= pos
  /\ pc' = "none"
  /\ UNCHANGED <<counts, pos, low, high, answer>>

Start(i) ==
  /\ pc = "start"
  /\ Last(i)
  /\ counts[i] > pos
  /\ low' = 0
  /\ high' = i
  /\ pc' = "loop"
  /\ UNCHANGED <<counts, pos, answer>>

mid == (low + high) \div 2

Return(i) ==
  /\ pc' = "found"
  /\ answer' = i
  /\ UNCHANGED <<counts, pos, low, high>>

\* The end of an iteration: the new bounds, and an answer when they meet.
Narrow(newLow, newHigh) ==
  /\ low' = newLow
  /\ high' = newHigh
  /\ IF newHigh = newLow THEN pc' = "found" /\ answer' = newHigh
                         ELSE UNCHANGED <<pc, answer>>
  /\ UNCHANGED <<counts, pos>>

EndsBefore == pc = "loop" /\ counts[mid] < pos /\ Narrow(mid + 1, high)

\* Mutant: the batch that ends at pos is given back.
EndsAtWrong == pc = "loop" /\ counts[mid] = pos /\ Return(mid)

EndsAt == pc = "loop" /\ counts[mid] = pos /\ Return(mid + 1)

\* pos is the last message of mid, or nothing is left below mid.
Holds ==
  /\ pc = "loop"
  /\ counts[mid] > pos
  /\ counts[mid] = pos + 1 \/ mid = low
  /\ Return(mid)

\* Mutant: the upper bound does not move.
EndsAfterStuck == pc = "loop" /\ counts[mid] > pos + 1 /\ mid # low /\ Narrow(low, high)

EndsAfter == pc = "loop" /\ counts[mid] > pos + 1 /\ mid # low /\ Narrow(low, mid)

Init ==
  /\ counts \in Histories
  /\ pos \in Positions
  /\ low = 0
  /\ high = 0
  /\ pc = "start"
  /\ answer = 0

Next ==
  \/ NotFound
  \/ \E i \in Batches : Start(i)
  \/ EndsBefore
  \/ EndsAt
  \/ Holds
  \/ EndsAfter

Spec == Init /\ [][Next]_vars

FairSpec == Spec /\ WF_vars(Next)

(***************************************************************************)
(* Properties.                                                             *)
(***************************************************************************)

\* Batch i holds message pos: it ends after pos, the one before does not.
Contains(i) ==
  /\ i \in Batches
  /\ pos < counts[i]
  /\ i > 0 => counts[i - 1] <= pos

\* Batch i holds no message at all.
WithoutMessage(i) ==
  /\ i \in Batches
  /\ counts[i] = IF i = 0 THEN 0 ELSE counts[i - 1]

\* The batch that the search returns holds the message, and it says that there
\* is none only when none does.  It takes every batch to hold a message: next to
\* the batch that it looks for it may return one that holds none.
FindsContaining ==
  /\ pc = "found" => \/ Contains(answer)
                     \/ WithoutMessage(answer) /\ counts[answer] \in {pos, pos + 1}
  /\ pc = "none" => \A i \in Batches : ~Contains(i)

\* What makes FindsContaining inductive: the batch is between the bounds.
SearchInv ==
  /\ counts \in Histories
  /\ pos \in Nat
  /\ pc = "loop" =>
       /\ low \in Batches
       /\ high \in Batches
       /\ low <= high
       /\ pos < counts[high]
       /\ low > 0 => counts[low - 1] < pos

\* The search ends, for every history and position.
SearchEnds == <>(pc \in {"none", "found"})

=============================================================================

----------------------------- MODULE MessageLog -----------------------------
(***************************************************************************)
(* What the transaction streamer promises its clients: an append-only log  *)
(* of messages and, behind it, a chain of blocks with one block for each   *)
(* message in turn, built on one another with rising timestamps.           *)
(***************************************************************************)
EXTENDS Integers, Sequences

CONSTANT GenesisTime

VARIABLES log, blocks

logVars == <<log, blocks>>

LogInit == log = <<>> /\ blocks = <<>>

\* A call's messages become visible together.
Extend ==
  /\ Len(log') > Len(log)
  /\ \A i \in 1 .. Len(log) : log'[i] = log[i]
  /\ UNCHANGED blocks

HeadTime == IF blocks = <<>> THEN GenesisTime ELSE blocks[Len(blocks)].ts

\* The next message is executed on top of the chain.
ExecuteNext ==
  /\ Len(blocks) < Len(log)
  /\ Len(blocks') = Len(blocks) + 1
  /\ \A i \in 1 .. Len(blocks) : blocks'[i] = blocks[i]
  /\ blocks'[Len(blocks')].msg = log[Len(blocks')]
  /\ blocks'[Len(blocks')].ts > HeadTime
  /\ UNCHANGED log

LogNext == Extend \/ ExecuteNext

LogSpec == LogInit /\ [][LogNext]_logVars
=============================================================================

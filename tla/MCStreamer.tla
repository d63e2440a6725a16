----------------------------- MODULE MCStreamer -----------------------------
(***************************************************************************)
(* Small instances of Streamer: four messages that differ in each field    *)
(* the code compares.  a and aPaid are duplicates of each other (only one  *)
(* carries a batch gas cost); a, b and c advance the delayed counter by    *)
(* one; a to c is a jump; b's timestamp is not later than a's.             *)
(***************************************************************************)
EXTENDS Streamer

CONSTANTS a, b, c, cost, reader, rpc1, rpc2

MessageA == [body |-> a, cost |-> NoCost, read |-> 0, ts |-> 2]
MessageAPaid == [body |-> a, cost |-> cost, read |-> 0, ts |-> 2]
MessageB == [body |-> b, cost |-> NoCost, read |-> 1, ts |-> 1]
MessageC == [body |-> c, cost |-> NoCost, read |-> 2, ts |-> 5]

ThreeMessages == {MessageA, MessageB, MessageC}
FourMessages == ThreeMessages \cup {MessageAPaid}
=============================================================================

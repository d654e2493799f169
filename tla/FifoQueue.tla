----------------------------- MODULE FifoQueue -----------------------------
(***************************************************************************)
(* What a queue of the processor promises, with nothing said of how it is  *)
(* stored: a sequence that grows at the back, shrinks at the front, and    *)
(* lets the owner put an entry at a position or take one out.              *)
(* Positions count from 0, as they do in the program's messages.           *)
(***************************************************************************)
EXTENDS Integers, Sequences, QueueOps

CONSTANT Elem          \* what is queued

VARIABLES
  q,                   \* the queued entries, first out first
  ret                  \* what the last operation handed out: <<>> or <<entry>>

fifoVars == <<q, ret>>

FifoInit == q = <<>> /\ ret = <<>>

Push(v) == q' = InsertedAt(q, Len(q), v) /\ ret' = <<>>

Pop ==
  /\ q' = IF q = <<>> THEN q ELSE RemovedAt(q, 0)
  /\ ret' = IF q = <<>> THEN <<>> ELSE <<q[1]>>

Insert(i, v) ==
  /\ q' = InsertedAt(q, i, v)
  /\ ret' = <<>>

Remove(i) ==
  /\ q' = RemovedAt(q, i)
  /\ ret' = <<q[i + 1]>>

FifoNext ==
  \/ \E v \in Elem : Push(v)
  \/ Pop
  \/ \E i \in 0 .. Len(q), v \in Elem : Insert(i, v)
  \/ \E i \in 0 .. Len(q) - 1 : Remove(i)

FifoSpec == FifoInit /\ [][FifoNext]_fifoVars
=============================================================================

------------------------------ MODULE QueueOps ------------------------------
(***************************************************************************)
(* What the operations of a queue do to the sequence of its entries.       *)
(* Positions count from 0, as they do in the program's messages.           *)
(***************************************************************************)
EXTENDS Integers, Sequences

\* The sequence that has v at position i and s around it.
InsertedAt(s, i, v) ==
  [j \in 1 .. Len(s) + 1 |->
     IF j <= i THEN s[j] ELSE IF j = i + 1 THEN v ELSE s[j - 1]]

\* The sequence s without its entry at position i.
RemovedAt(s, i) ==
  [j \in 1 .. Len(s) - 1 |-> IF j <= i THEN s[j] ELSE s[j + 1]]

\* The entries of s that satisfy the test for the id: how often a batch is queued.
Occurrences(s, id) == {i \in 1 .. Len(s) : s[i].id = id}
=============================================================================

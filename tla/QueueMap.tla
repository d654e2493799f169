------------------------------ MODULE QueueMap ------------------------------
(***************************************************************************)
(* The storage queue of the processor (packages/processor-utils): a map    *)
(* from u64 keys to entries and two counters.  The live entries are those  *)
(* at keys start_index+1 .. end_index.  Every counter is a u64 and every   *)
(* addition is checked: an overflow panics, which reverts the call, so it  *)
(* appears here as a guard.                                                *)
(***************************************************************************)
EXTENDS Integers, Sequences

CONSTANTS
  Elem,                \* what is queued
  U64Max               \* the largest u64; a small number when model checking

ASSUME U64MaxAssumption == U64Max \in Nat

VARIABLES
  elements,            \* Map<u64, T>: a function on the keys that hold an entry
  start_index,         \* key of the entry last popped
  end_index,           \* key of the entry at the back
  ret                  \* what the last call returned: <<>> or <<entry>>

vars == <<elements, start_index, end_index, ret>>

U64 == 0 .. U64Max

\* end_index.saturating_sub(start_index)
len == IF end_index >= start_index THEN end_index - start_index ELSE 0

Init ==
  /\ elements = [k \in {} |-> 0]
  /\ start_index = 0 /\ end_index = 0
  /\ ret = <<>>

push_back(value) ==
  /\ end_index + 1 <= U64Max
  /\ elements' = [k \in DOMAIN elements \cup {end_index + 1} |->
                    IF k = end_index + 1 THEN value ELSE elements[k]]
  /\ end_index' = end_index + 1
  /\ ret' = <<>>
  /\ UNCHANGED start_index

pop_front ==
  \/ /\ start_index = end_index
     /\ ret' = <<>>
     /\ UNCHANGED <<elements, start_index, end_index>>
  \/ /\ start_index # end_index
     /\ start_index + 1 <= U64Max
     /\ start_index + 1 \in DOMAIN elements
     /\ ret' = <<elements[start_index + 1]>>
     /\ elements' = [k \in DOMAIN elements \ {start_index + 1} |-> elements[k]]
     /\ start_index' = start_index + 1
     /\ UNCHANGED end_index

\* Variant: the loop runs upwards and copies the same entry again and again.
insert_at_ascending(index, value) ==
  LET actual == start_index + index + 1
      moved  == IF actual \in DOMAIN elements THEN actual + 1 .. end_index + 2 ELSE {}
  IN /\ index <= len
     /\ end_index + 2 <= U64Max
     /\ elements' = [k \in DOMAIN elements \cup moved \cup {actual} |->
                       IF k = actual THEN value
                       ELSE IF k \in moved THEN elements[actual]
                       ELSE elements[k]]
     /\ end_index' = end_index + 1
     /\ ret' = <<>>
     /\ UNCHANGED start_index

\* The loop runs from end_index+1 down to the insertion key, copying each
\* entry it finds one key up; the key above the back is visited too, so an
\* entry left there by an earlier removal is copied along.
insert_at(index, value) ==
  LET actual == start_index + index + 1
      moved  == {i + 1 : i \in (actual .. end_index + 1) \cap DOMAIN elements}
  IN /\ index <= len
     /\ end_index + 2 <= U64Max
     /\ elements' = [k \in DOMAIN elements \cup moved \cup {actual} |->
                       IF k = actual THEN value
                       ELSE IF k \in moved THEN elements[k - 1]
                       ELSE elements[k]]
     /\ end_index' = end_index + 1
     /\ ret' = <<>>
     /\ UNCHANGED start_index

\* Variant: the loop excludes the back.
remove_behind_front_short(index) ==
  LET actual == start_index + index + 1
      moved  == {i - 1 : i \in (actual + 1 .. end_index - 1) \cap DOMAIN elements}
  IN /\ actual \in DOMAIN elements
     /\ end_index + 1 <= U64Max
     /\ ret' = <<elements[actual]>>
     /\ elements' = [k \in (DOMAIN elements \ {actual}) \cup moved |->
                       IF k \in moved THEN elements[k + 1] ELSE elements[k]]
     /\ end_index' = end_index - 1
     /\ UNCHANGED start_index

\* The loop copies every later entry one key down and leaves the key of the
\* old back as it was.
remove_behind_front(index) ==
  LET actual == start_index + index + 1
      moved  == {i - 1 : i \in (actual + 1 .. end_index) \cap DOMAIN elements}
  IN /\ actual \in DOMAIN elements
     /\ end_index + 1 <= U64Max
     /\ ret' = <<elements[actual]>>
     /\ elements' = [k \in (DOMAIN elements \ {actual}) \cup moved |->
                       IF k \in moved THEN elements[k + 1] ELSE elements[k]]
     /\ end_index' = end_index - 1
     /\ UNCHANGED start_index

remove_at(index) ==
  /\ index < len
  /\ \/ index = 0 /\ pop_front
     \/ index # 0 /\ remove_behind_front(index)

\* The entries at positions start .. end-1, as the query returns them.
query(start, end) ==
  [i \in 1 .. end - start |-> elements[start_index + start + i]]

Next ==
  \/ \E v \in Elem : push_back(v)
  \/ pop_front
  \/ \E i \in U64, v \in Elem : insert_at(i, v)
  \/ \E i \in U64 : remove_at(i)

Spec == Init /\ [][Next]_vars

-----------------------------------------------------------------------------
TypeOK ==
  /\ start_index \in U64 /\ end_index \in U64
  /\ DOMAIN elements \subseteq U64
  /\ \A k \in DOMAIN elements : elements[k] \in Elem
  /\ ret = <<>> \/ \E v \in Elem : ret = <<v>>

\* The counters never cross and no live key is ever empty: load() in
\* pop_front and remove_at cannot fail, whatever was inserted and removed
\* before.  A hole would make the tick that reaches it fail for ever.
Contiguous ==
  /\ start_index <= end_index
  /\ start_index + 1 .. end_index \subseteq DOMAIN elements

\* The sequence the stored map stands for.
contents == query(0, len)

Abstract == INSTANCE FifoQueue WITH q <- contents

\* Every operation on the map does to the sequence what FifoQueue says, and
\* returns what it says: stale copies above end_index are never seen again.
ImplementsFifo == Abstract!FifoSpec
=============================================================================

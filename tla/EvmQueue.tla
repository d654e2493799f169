------------------------------ MODULE EvmQueue ------------------------------
(***************************************************************************)
(* The storage queue of the EVM processors                                 *)
(* (solidity/src/processor/libs/QueueMap.sol): two counters and, for every *)
(* index, a slot with the length of the entry and one slot per word of its *)
(* data.  The slot addresses are keccak256 hashes, taken to be distinct.   *)
(* The live entries are those at startIndex+1 .. endIndex.                 *)
(***************************************************************************)
EXTENDS Integers, Sequences

CONSTANTS
  Byte,                \* bytes; 0 is one of them
  Bytes,               \* the values that are queued: sequences of bytes
  WordSize,            \* bytes in a storage slot: 32 in the EVM
  MaxIndex,            \* bound: entries ever appended
  MaxWords             \* bound: words of the longest value

ASSUME EvmQueueConstants ==
  /\ 0 \in Byte /\ WordSize \in Nat \ {0} /\ MaxIndex \in Nat /\ MaxWords \in Nat
  /\ \A v \in Bytes : v \in Seq(Byte) /\ (Len(v) + WordSize - 1) \div WordSize <= MaxWords

VARIABLES
  startIndex,          \* index of the entry last popped
  endIndex,            \* index of the entry at the back
  lengthSlot,          \* the base slot of every index: a length in bytes
  dataSlot,            \* the data slots of every index
  returned             \* what the last call returned: <<>> or <<value>>

queueVars == <<startIndex, endIndex, lengthSlot, dataSlot, returned>>

Index == 1 .. MaxIndex
WordNo == 0 .. MaxWords - 1
Zero == [k \in 1 .. WordSize |-> 0]

calculateRequiredSlots(byteLength) == (byteLength + WordSize - 1) \div WordSize

createQueue ==
  /\ startIndex = 0 /\ endIndex = 0
  /\ lengthSlot = [i \in Index |-> 0]
  /\ dataSlot = [i \in Index |-> [j \in WordNo |-> Zero]]
  /\ returned = <<>>

queueLen == endIndex - startIndex

\* The word of a value in memory: mload reads past its end, where anything
\* may be (pad).
Chunk(value, j, pad) ==
  [k \in 1 .. WordSize |->
     IF j * WordSize + k <= Len(value) THEN value[j * WordSize + k] ELSE pad]

\* The words of a value over the words the index has.
Stored(words, value, pad) ==
  [j \in WordNo |-> IF j < calculateRequiredSlots(Len(value)) THEN Chunk(value, j, pad)
                    ELSE words[j]]

\* An entry over the words of another index: its length decides what is copied.
Copied(words, length, from) ==
  [j \in WordNo |-> IF j < calculateRequiredSlots(length) THEN from[j] ELSE words[j]]

\* The words of an entry set to zero, as many as its length says.
Cleared(i) == Copied(dataSlot[i], lengthSlot[i], [j \in WordNo |-> Zero])

retrieveElement(i) ==
  [k \in 1 .. lengthSlot[i] |->
     dataSlot[i][(k - 1) \div WordSize][((k - 1) % WordSize) + 1]]

pushBack(value, pad) ==
  LET i == endIndex + 1
  IN /\ i <= MaxIndex
     /\ endIndex' = i
     /\ lengthSlot' = [lengthSlot EXCEPT ![i] = Len(value)]
     /\ dataSlot' = [dataSlot EXCEPT ![i] = Stored(@, value, pad)]
     /\ returned' = <<>>
     /\ UNCHANGED startIndex

popFront ==
  LET i == startIndex + 1
  IN /\ startIndex # endIndex
     /\ startIndex' = i
     /\ returned' = <<retrieveElement(i)>>
     /\ dataSlot' = [dataSlot EXCEPT ![i] = Cleared(i)]
     /\ lengthSlot' = [lengthSlot EXCEPT ![i] = 0]
     /\ UNCHANGED endIndex

\* From the back towards the front, so that every source is still in place.
shiftElementsForward(i) ==
  Copied(dataSlot[i], lengthSlot[i - 1], dataSlot[i - 1])

insertAt(index, value, pad) ==
  LET actual == startIndex + index + 1
  IN /\ index <= queueLen
     /\ endIndex + 1 <= MaxIndex
     /\ endIndex' = endIndex + 1
     /\ lengthSlot' = [i \in Index |->
                         IF i = actual THEN Len(value)
                         ELSE IF actual < i /\ i <= endIndex + 1 THEN lengthSlot[i - 1]
                         ELSE lengthSlot[i]]
     /\ dataSlot' = [i \in Index |->
                       IF i = actual THEN Stored(dataSlot[i], value, pad)
                       ELSE IF actual < i /\ i <= endIndex + 1
                            THEN shiftElementsForward(i)
                       ELSE dataSlot[i]]
     /\ returned' = <<>>
     /\ UNCHANGED startIndex

\* Variant: only the words the old entry had room for are copied.
shiftElementsBackward_short(i) == Copied(dataSlot[i], lengthSlot[i], dataSlot[i + 1])

shiftElementsBackward(i) == Copied(dataSlot[i], lengthSlot[i + 1], dataSlot[i + 1])

\* The later entries move one index down, the last index is cleared.
removeBehindFront(index) ==
  LET actual == startIndex + index + 1
  IN /\ returned' = <<retrieveElement(actual)>>
     /\ lengthSlot' = [i \in Index |->
                         IF actual <= i /\ i < endIndex THEN lengthSlot[i + 1]
                         ELSE IF i = endIndex THEN 0
                         ELSE lengthSlot[i]]
     /\ dataSlot' = [i \in Index |->
                       IF actual <= i /\ i < endIndex THEN shiftElementsBackward(i)
                       ELSE IF i = endIndex THEN Cleared(i)
                       ELSE dataSlot[i]]
     /\ endIndex' = endIndex - 1
     /\ UNCHANGED startIndex

removeAt(index) ==
  /\ index < queueLen
  /\ \/ index = 0 /\ popFront
     \/ index # 0 /\ removeBehindFront(index)

EvmQueueNext ==
  \/ \E v \in Bytes, pad \in Byte : pushBack(v, pad)
  \/ popFront
  \/ \E i \in 0 .. MaxIndex, v \in Bytes, pad \in Byte : insertAt(i, v, pad)
  \/ \E i \in 0 .. MaxIndex : removeAt(i)

EvmQueueSpec == createQueue /\ [][EvmQueueNext]_queueVars

-----------------------------------------------------------------------------
storedQueue == [k \in 1 .. queueLen |-> retrieveElement(startIndex + k)]

AbstractQueue == INSTANCE FifoQueue WITH Elem <- Bytes, q <- storedQueue, ret <- returned

\* Every operation does to the sequence of values what FifoQueue says: the
\* words that a longer entry leaves behind when a shorter one takes its index,
\* and the bytes read past the end of a value, are never seen.
EvmQueueImplementsFifo == AbstractQueue!FifoSpec
=============================================================================

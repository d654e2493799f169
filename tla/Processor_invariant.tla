------------------------- MODULE Processor_invariant -------------------------
(***************************************************************************)
(* The inductive invariant of the processor, action by action: any number  *)
(* of batches, any subroutines, any lengths of the queues and any order of *)
(* ticks, callbacks, evictions and deadlines.  At the end, the invariant   *)
(* for retries (BudgetInv) and what the processor's steps on a batch do    *)
(* to it; the actions are in Processor_proofs.                             *)
(***************************************************************************)
EXTENDS Processor, TLAPS

-----------------------------------------------------------------------------
\* The queues: entries, and that no id is queued twice.

TypedQueues(qs) == qs \in [Priority -> Seq(Batch)]

Entries(qs) == UNION {{qs[p][i] : i \in 1 .. Len(qs[p])} : p \in Priority}

Unique(qs) ==
  \A p, q \in Priority : \A i \in 1 .. Len(qs[p]), j \in 1 .. Len(qs[q]) :
    qs[p][i].id = qs[q][j].id => p = q /\ i = j

Absent(qs, id) == \A b \in Entries(qs) : b.id # id

\* An entry is at a place.
LEMMA EntryAt ==
  ASSUME NEW qs PROVE \A b : b \in Entries(qs) <=> \E p \in Priority : \E i \in 1 .. Len(qs[p]) : b = qs[p][i]
  BY DEF Entries

\* An id is at one place.
LEMMA UniqueAt ==
  ASSUME NEW qs, Unique(qs), NEW p \in Priority, NEW q \in Priority,
         NEW i \in 1 .. Len(qs[p]), NEW j \in 1 .. Len(qs[q]), qs[p][i].id = qs[q][j].id
  PROVE  p = q /\ i = j
  BY Zenon DEF Unique

\* Entries are batches, and one batch per id.
LEMMA EntryTyped ==
  ASSUME NEW qs, TypedQueues(qs)
  PROVE  /\ \A b \in Entries(qs) : b \in Batch /\ b.id \in Id
         /\ Unique(qs) => \A b, c \in Entries(qs) : b.id = c.id => b = c
<1>1. \A p \in Priority : \A i \in 1 .. Len(qs[p]) : qs[p][i] \in Batch
  BY DEF TypedQueues
<1>2. \A b \in Batch : b.id \in Id
  BY Zenon DEF Batch
<1>3. \A b \in Entries(qs) : b \in Batch /\ b.id \in Id
  BY <1>1, <1>2, EntryAt
<1>4. Unique(qs) => \A b, c \in Entries(qs) : b.id = c.id => b = c
  BY EntryAt DEF Unique
<1> QED BY <1>3, <1>4, Zenon

\* rs is qs with b at a position of queue p.
IsPut(qs, rs, p, pos, b) ==
  /\ TypedQueues(rs) /\ \A q \in Priority \ {p} : rs[q] = qs[q]
  /\ pos \in 0 .. Len(qs[p]) /\ Len(rs[p]) = Len(qs[p]) + 1
  /\ \A j \in 1 .. Len(rs[p]) :
       rs[p][j] = IF j <= pos THEN qs[p][j] ELSE IF j = pos + 1 THEN b ELSE qs[p][j - 1]

\* A batch whose id is not queued may go anywhere in a queue.
LEMMA PutQueue ==
  ASSUME NEW qs, TypedQueues(qs), Unique(qs), NEW p \in Priority, NEW b \in Batch, Absent(qs, b.id),
         NEW rs, NEW pos, IsPut(qs, rs, p, pos, b)
  PROVE  Unique(rs) /\ Entries(rs) = Entries(qs) \cup {b}
<1> DEFINE n == Len(qs[p])
           t == rs[p]
           old(j) == IF j <= pos THEN j ELSE j - 1
<1>1. n \in Nat
  BY DEF TypedQueues
<1>0. /\ pos \in 0 .. n /\ Len(t) = n + 1
      /\ \A j \in 1 .. Len(t) :
           t[j] = IF j <= pos THEN qs[p][j] ELSE IF j = pos + 1 THEN b ELSE qs[p][j - 1]
  BY Zenon DEF IsPut
<1>2. /\ t[pos + 1] = b /\ pos + 1 \in 1 .. Len(t)
      /\ \A j \in 1 .. Len(t) : j # pos + 1 => old(j) \in 1 .. n /\ t[j] = qs[p][old(j)]
      /\ \A j, k \in 1 .. Len(t) : j # pos + 1 /\ k # pos + 1 /\ old(j) = old(k) => j = k
      /\ \A i \in 1 .. n : \E j \in 1 .. Len(t) : t[j] = qs[p][i]
  <2>1. ASSUME NEW i \in 1 .. n
        PROVE  IF i <= pos THEN t[i] = qs[p][i] /\ i \in 1 .. Len(t)
               ELSE t[i + 1] = qs[p][i] /\ i + 1 \in 1 .. Len(t)
    <3>1. CASE i <= pos
      BY <1>0, <1>1, <3>1
    <3>2. CASE ~(i <= pos)
      <4>1. i + 1 \in 1 .. Len(t) /\ ~(i + 1 <= pos) /\ i + 1 # pos + 1 /\ (i + 1) - 1 = i
        BY <1>0, <1>1, <3>2
      <4>2. t[i + 1] = qs[p][(i + 1) - 1]
        BY <1>0, <4>1, Zenon
      <4> QED BY <3>2, <4>1, <4>2, Zenon
    <3> QED BY <3>1, <3>2, Zenon
  <2>2. \A i \in 1 .. n : \E j \in 1 .. Len(t) : t[j] = qs[p][i]
    BY <2>1, Zenon
  <2>3. pos + 1 \in 1 .. Len(t) /\ ~(pos + 1 <= pos)
    BY <1>0, <1>1
  <2>4. t[pos + 1] = b
    BY <1>0, <2>3, Zenon
  <2>5. ASSUME NEW j \in 1 .. Len(t), j # pos + 1
        PROVE  old(j) \in 1 .. n /\ t[j] = qs[p][old(j)]
    <3>1. old(j) \in 1 .. n
      BY <1>0, <1>1, <2>5
    <3> QED BY <1>0, <2>5, <3>1, Zenon
  <2>6. ASSUME NEW j \in 1 .. Len(t), NEW k \in 1 .. Len(t), j # pos + 1, k # pos + 1, old(j) = old(k)
        PROVE  j = k
    BY <1>0, <1>1, <2>6
  <2> QED BY <2>2, <2>3, <2>4, <2>5, <2>6, Zenon
<1> HIDE DEF old, t
<1>3. TypedQueues(rs) /\ rs[p] = t /\ \A q \in Priority \ {p} : rs[q] = qs[q]
  BY Zenon DEF IsPut, t
<1>4. \A q \in Priority : \A i \in 1 .. Len(qs[q]) : qs[q][i].id # b.id
  BY EntryAt, Zenon DEF Absent
<1>5. ASSUME NEW q \in Priority, NEW i \in 1 .. Len(rs[q]), ~(q = p /\ i = pos + 1)
      PROVE  \E k \in 1 .. Len(qs[q]) : rs[q][i] = qs[q][k] /\ k = IF q = p THEN old(i) ELSE i
  BY <1>2, <1>3, <1>5, Zenon
<1>6. Unique(rs)
  <2> SUFFICES ASSUME NEW q1 \in Priority, NEW q2 \in Priority,
                      NEW i \in 1 .. Len(rs[q1]), NEW j \in 1 .. Len(rs[q2]), rs[q1][i].id = rs[q2][j].id
               PROVE  q1 = q2 /\ i = j
    BY Zenon DEF Unique
  <2>1. ASSUME NEW q \in Priority, NEW k \in 1 .. Len(rs[q]), rs[q][k].id = b.id PROVE q = p /\ k = pos + 1
    <3> SUFFICES ASSUME ~(q = p /\ k = pos + 1) PROVE FALSE
      BY Zenon
    <3>1. PICK l \in 1 .. Len(qs[q]) : rs[q][k] = qs[q][l]
      BY <1>5, Zenon
    <3> QED BY <1>4, <2>1, <3>1, Zenon
  <2>2. CASE (q1 = p /\ i = pos + 1) \/ (q2 = p /\ j = pos + 1)
    <3>1. rs[q1][i].id = b.id /\ rs[q2][j].id = b.id
      BY <1>2, <1>3, <2>2, Zenon
    <3> QED BY <2>1, <3>1, Zenon
  <2>3. CASE ~(q1 = p /\ i = pos + 1) /\ ~(q2 = p /\ j = pos + 1)
    <3>1. PICK k \in 1 .. Len(qs[q1]) : rs[q1][i] = qs[q1][k] /\ k = IF q1 = p THEN old(i) ELSE i
      BY <1>5, <2>3, Zenon
    <3>2. PICK l \in 1 .. Len(qs[q2]) : rs[q2][j] = qs[q2][l] /\ l = IF q2 = p THEN old(j) ELSE j
      BY <1>5, <2>3, Zenon
    <3>3. qs[q1][k].id = qs[q2][l].id
      BY <3>1, <3>2, Zenon
    <3>4. q1 = q2 /\ k = l
      BY <3>3, UniqueAt
    <3> QED BY <1>2, <1>3, <2>3, <3>1, <3>2, <3>4, Zenon
  <2> QED BY <2>2, <2>3, Zenon
<1>7. Entries(rs) = Entries(qs) \cup {b}
  <2>1. ASSUME NEW c \in Entries(rs) PROVE c \in Entries(qs) \cup {b}
    <3>1. PICK q \in Priority : \E i \in 1 .. Len(rs[q]) : c = rs[q][i]
      BY EntryAt
    <3>2. PICK i \in 1 .. Len(rs[q]) : c = rs[q][i]
      BY <3>1, Zenon
    <3>3. CASE q = p /\ i = pos + 1
      BY <1>2, <1>3, <3>2, <3>3, Zenon
    <3>4. CASE ~(q = p /\ i = pos + 1)
      <4>1. PICK k \in 1 .. Len(qs[q]) : c = qs[q][k]
        BY <1>5, <3>2, <3>4, Zenon
      <4> QED BY <4>1, EntryAt, Zenon
    <3> QED BY <3>3, <3>4, Zenon
  <2>2. ASSUME NEW c \in Entries(qs) PROVE c \in Entries(rs)
    <3>1. PICK q \in Priority : \E i \in 1 .. Len(qs[q]) : c = qs[q][i]
      BY EntryAt
    <3>2. PICK i \in 1 .. Len(qs[q]) : c = qs[q][i]
      BY <3>1, Zenon
    <3>3. \E j \in 1 .. Len(rs[q]) : rs[q][j] = c
      <4>1. CASE q = p
        BY <1>2, <1>3, <2>2, <3>2, <4>1, Zenon
      <4>2. CASE q # p
        BY <1>3, <3>2, <4>2, Zenon
      <4> QED BY <4>1, <4>2, Zenon
    <3> QED BY <3>3, EntryAt, Zenon
  <2>3. b \in Entries(rs)
    BY <1>2, <1>3, EntryAt, Zenon
  <2> QED BY <2>1, <2>2, <2>3, Zenon
<1> QED BY <1>6, <1>7, Zenon

\* An entry may be taken out of a queue.
LEMMA CutQueue ==
  ASSUME NEW qs, TypedQueues(qs), Unique(qs), NEW p \in Priority,
         NEW t \in Seq(Batch), NEW pos \in 0 .. Len(qs[p]) - 1, Len(t) = Len(qs[p]) - 1,
         \A j \in 1 .. Len(t) : t[j] = IF j <= pos THEN qs[p][j] ELSE qs[p][j + 1]
  PROVE  LET rs == [qs EXCEPT ![p] = t]
             b == qs[p][pos + 1]
         IN /\ TypedQueues(rs) /\ Unique(rs) /\ b \in Entries(qs)
            /\ Entries(rs) = Entries(qs) \ {b} /\ Absent(rs, b.id)
<1> DEFINE n == Len(qs[p])
           b == qs[p][pos + 1]
           rs == [qs EXCEPT ![p] = t]
           old(j) == IF j <= pos THEN j ELSE j + 1
<1>1. n \in Nat
  BY DEF TypedQueues
<1>2. /\ pos + 1 \in 1 .. n
      /\ \A j \in 1 .. Len(t) : old(j) \in 1 .. n /\ old(j) # pos + 1 /\ t[j] = qs[p][old(j)]
      /\ \A j, k \in 1 .. Len(t) : old(j) = old(k) => j = k
      /\ \A i \in 1 .. n : i # pos + 1 => \E j \in 1 .. Len(t) : t[j] = qs[p][i]
  <2>1. \A i \in 1 .. n : i # pos + 1 => IF i <= pos THEN t[i] = qs[p][i] /\ i \in 1 .. Len(t)
                                         ELSE t[i - 1] = qs[p][i] /\ i - 1 \in 1 .. Len(t)
    <3> SUFFICES ASSUME NEW i \in 1 .. n, i # pos + 1
                 PROVE  IF i <= pos THEN t[i] = qs[p][i] /\ i \in 1 .. Len(t)
                        ELSE t[i - 1] = qs[p][i] /\ i - 1 \in 1 .. Len(t)
      BY Zenon
    <3>1. i <= pos => i \in 1 .. Len(t)
      BY <1>1
    <3>2. ~(i <= pos) => i - 1 \in 1 .. Len(t) /\ ~(i - 1 <= pos) /\ (i - 1) + 1 = i
      BY <1>1
    <3> QED BY <3>1, <3>2, Zenon
  <2> QED BY <1>1, <2>1
<1> HIDE DEF old
<1>3. TypedQueues(rs) /\ rs[p] = t /\ \A q \in Priority \ {p} : rs[q] = qs[q]
  BY Zenon DEF TypedQueues
<1> HIDE DEF rs
<1>4. b \in Entries(qs)
  BY <1>2, EntryAt, Zenon
<1>5. ASSUME NEW q \in Priority, NEW i \in 1 .. Len(rs[q])
      PROVE  \E k \in 1 .. Len(qs[q]) : rs[q][i] = qs[q][k] /\ (q = p => k # pos + 1)
                                        /\ k = IF q = p THEN old(i) ELSE i
  BY <1>2, <1>3, Zenon
<1>6. Unique(rs)
  <2> SUFFICES ASSUME NEW q1 \in Priority, NEW q2 \in Priority,
                      NEW i \in 1 .. Len(rs[q1]), NEW j \in 1 .. Len(rs[q2]), rs[q1][i].id = rs[q2][j].id
               PROVE  q1 = q2 /\ i = j
    BY Zenon DEF Unique
  <2>1. PICK k \in 1 .. Len(qs[q1]) : rs[q1][i] = qs[q1][k] /\ k = IF q1 = p THEN old(i) ELSE i
    BY <1>5, Zenon
  <2>2. PICK l \in 1 .. Len(qs[q2]) : rs[q2][j] = qs[q2][l] /\ l = IF q2 = p THEN old(j) ELSE j
    BY <1>5, Zenon
  <2>3. qs[q1][k].id = qs[q2][l].id
    BY <2>1, <2>2, Zenon
  <2>4. q1 = q2 /\ k = l
    BY <2>3, UniqueAt
  <2> QED BY <1>2, <1>3, <2>1, <2>2, <2>4, ZenonT(40)
<1>7. Absent(rs, b.id)
  <2> SUFFICES ASSUME NEW c \in Entries(rs), c.id = b.id PROVE FALSE
    BY Zenon DEF Absent
  <2>1. PICK q \in Priority : \E i \in 1 .. Len(rs[q]) : c = rs[q][i]
    BY EntryAt
  <2>2. PICK k \in 1 .. Len(qs[q]) : c = qs[q][k] /\ (q = p => k # pos + 1)
    BY <1>5, <2>1
  <2>3. pos + 1 \in 1 .. Len(qs[p]) /\ qs[q][k].id = qs[p][pos + 1].id
    BY <1>2, <2>2, Zenon
  <2> QED BY <2>2, <2>3, UniqueAt
<1>8. Entries(rs) = Entries(qs) \ {b}
  <2>1. ASSUME NEW c \in Entries(rs) PROVE c \in Entries(qs)
    <3>1. PICK q \in Priority : \E i \in 1 .. Len(rs[q]) : c = rs[q][i]
      BY EntryAt
    <3>2. PICK i \in 1 .. Len(rs[q]) : c = rs[q][i]
      BY <3>1, Zenon
    <3>3. PICK k \in 1 .. Len(qs[q]) : rs[q][i] = qs[q][k]
      BY <1>5, Zenon
    <3> QED BY <3>2, <3>3, EntryAt, Zenon
  <2>2. ASSUME NEW c \in Entries(qs), c # b PROVE c \in Entries(rs)
    <3>1. PICK q \in Priority : \E i \in 1 .. Len(qs[q]) : c = qs[q][i]
      BY EntryAt
    <3>2. PICK i \in 1 .. Len(qs[q]) : c = qs[q][i]
      BY <3>1, Zenon
    <3>3. \E j \in 1 .. Len(rs[q]) : rs[q][j] = c
      <4>1. CASE q = p
        BY <1>2, <1>3, <2>2, <3>2, <4>1, Zenon
      <4>2. CASE q # p
        BY <1>3, <3>2, <4>2, Zenon
      <4> QED BY <4>1, <4>2, Zenon
    <3> QED BY <3>3, EntryAt, Zenon
  <2>3. b \notin Entries(rs)
    BY <1>7, Zenon DEF Absent
  <2> QED BY <2>1, <2>2, <2>3, Zenon
<1> QED BY <1>3, <1>4, <1>6, <1>7, <1>8, Zenon DEF rs

\* The operations on queues that the handlers make.
LEMMA PushQueue ==
  ASSUME NEW qs, TypedQueues(qs), Unique(qs), NEW p \in Priority, NEW b \in Batch, Absent(qs, b.id)
  PROVE  LET rs == [qs EXCEPT ![p] = Append(@, b)]
         IN TypedQueues(rs) /\ Unique(rs) /\ Entries(rs) = Entries(qs) \cup {b}
<1> DEFINE n == Len(qs[p])
           t == Append(qs[p], b)
<1>1. qs[p] \in Seq(Batch) /\ n \in Nat
  BY DEF TypedQueues
<1>2. t \in Seq(Batch) /\ Len(t) = n + 1 /\ t[n + 1] = b /\ \A i \in 1 .. n : t[i] = qs[p][i]
  BY <1>1
<1> HIDE DEF t
<1>3. \A j \in 1 .. Len(t) : t[j] = IF j <= n THEN qs[p][j] ELSE IF j = n + 1 THEN b ELSE qs[p][j - 1]
  BY <1>1, <1>2
<1>4. n \in 0 .. Len(qs[p])
  BY <1>1
<1> DEFINE rs == [qs EXCEPT ![p] = t]
<1>5. TypedQueues(rs) /\ rs[p] = t /\ \A q \in Priority \ {p} : rs[q] = qs[q]
  BY <1>2, Zenon DEF TypedQueues
<1> HIDE DEF rs
<1>6. IsPut(qs, rs, p, n, b)
  BY <1>2, <1>3, <1>4, <1>5, Zenon DEF IsPut
<1>7. Unique(rs) /\ Entries(rs) = Entries(qs) \cup {b}
  BY <1>6, PutQueue, ZenonT(40)
<1> QED BY <1>5, <1>7, Zenon DEF t, rs

\* So does an insertion at a place.
LEMMA InsertQueue ==
  ASSUME NEW qs, TypedQueues(qs), Unique(qs), NEW p \in Priority, NEW b \in Batch, Absent(qs, b.id),
         NEW pos \in Nat, pos <= Len(qs[p])
  PROVE  LET rs == [qs EXCEPT ![p] = InsertedAt(@, pos, b)]
         IN TypedQueues(rs) /\ Unique(rs) /\ Entries(rs) = Entries(qs) \cup {b}
<1> DEFINE n == Len(qs[p])
           t == InsertedAt(qs[p], pos, b)
<1>1. qs[p] \in Seq(Batch) /\ n \in Nat /\ \A i \in 1 .. n : qs[p][i] \in Batch
  BY DEF TypedQueues
<1>2. \A j \in 1 .. n + 1 :
        t[j] = IF j <= pos THEN qs[p][j] ELSE IF j = pos + 1 THEN b ELSE qs[p][j - 1]
  BY Zenon DEF InsertedAt
<1>3. t \in [1 .. n + 1 -> Batch]
  BY <1>1 DEF InsertedAt
<1>4. t \in Seq(Batch) /\ Len(t) = n + 1
  BY <1>1, <1>3, SMTT(30)
<1>5. pos \in 0 .. Len(qs[p])
  BY <1>1
<1> HIDE DEF t
<1> DEFINE rs == [qs EXCEPT ![p] = t]
<1>6. TypedQueues(rs) /\ rs[p] = t /\ \A q \in Priority \ {p} : rs[q] = qs[q]
  BY <1>4, Zenon DEF TypedQueues
<1> HIDE DEF rs
<1>7. IsPut(qs, rs, p, pos, b)
  BY <1>2, <1>4, <1>5, <1>6, Zenon DEF IsPut
<1>8. Unique(rs) /\ Entries(rs) = Entries(qs) \cup {b}
  BY <1>7, PutQueue, ZenonT(40)
<1> QED BY <1>6, <1>8, Zenon DEF t, rs

\* A removal takes away one entry, and no other has its id.
LEMMA RemoveQueue ==
  ASSUME NEW qs, TypedQueues(qs), Unique(qs), NEW p \in Priority, NEW pos \in 0 .. Len(qs[p]) - 1
  PROVE  LET rs == [qs EXCEPT ![p] = RemovedAt(@, pos)]
             b == qs[p][pos + 1]
         IN /\ TypedQueues(rs) /\ Unique(rs) /\ b \in Entries(qs)
            /\ Entries(rs) = Entries(qs) \ {b} /\ Absent(rs, b.id)
<1> DEFINE n == Len(qs[p])
           t == RemovedAt(qs[p], pos)
<1>1. qs[p] \in Seq(Batch) /\ n \in Nat /\ \A i \in 1 .. n : qs[p][i] \in Batch
  BY DEF TypedQueues
<1>2. \A j \in 1 .. n - 1 : t[j] = IF j <= pos THEN qs[p][j] ELSE qs[p][j + 1]
  BY Zenon DEF RemovedAt
<1>3. t \in [1 .. n - 1 -> Batch] /\ n - 1 \in Nat
  BY <1>1 DEF RemovedAt
<1>4. t \in Seq(Batch) /\ Len(t) = n - 1
  BY <1>3
<1> HIDE DEF t
<1> QED BY <1>2, <1>4, CutQueue, Zenon DEF t

\* So does taking the head.
LEMMA PopQueue ==
  ASSUME NEW qs, TypedQueues(qs), Unique(qs), NEW p \in Priority, qs[p] # <<>>
  PROVE  LET rs == [qs EXCEPT ![p] = Tail(@)]
             b == Head(qs[p])
         IN /\ TypedQueues(rs) /\ Unique(rs) /\ b \in Entries(qs)
            /\ Entries(rs) = Entries(qs) \ {b} /\ Absent(rs, b.id)
<1> DEFINE n == Len(qs[p])
           t == Tail(qs[p])
<1>1. qs[p] \in Seq(Batch) /\ n \in Nat \ {0} /\ Head(qs[p]) = qs[p][0 + 1]
  BY DEF TypedQueues
<1>2. t \in Seq(Batch) /\ Len(t) = n - 1 /\ \A j \in 1 .. n - 1 : t[j] = qs[p][j + 1]
  BY <1>1
<1> HIDE DEF t
<1>3. \A j \in 1 .. Len(t) : t[j] = IF j <= 0 THEN qs[p][j] ELSE qs[p][j + 1]
  BY <1>1, <1>2
<1>4. 0 \in 0 .. Len(qs[p]) - 1
  BY <1>1
<1>5. LET rs == [qs EXCEPT ![p] = t]
          b == qs[p][0 + 1]
      IN /\ TypedQueues(rs) /\ Unique(rs) /\ b \in Entries(qs)
         /\ Entries(rs) = Entries(qs) \ {b} /\ Absent(rs, b.id)
  BY <1>2, <1>3, <1>4, CutQueue, Zenon
<1> QED BY <1>1, <1>5, Zenon DEF t

\* A second passes for every entry.
LEMMA AgedBatch ==
  ASSUME NEW b \in Batch
  PROVE  /\ Aged(b) \in Batch
         /\ Aged(b).id = b.id /\ Aged(b).sub = b.sub /\ Aged(b).priority = b.priority
<1> DEFINE l == Later(b.left)
           r == Cooler(b.retry)
<1>1. Aged(b) = [b EXCEPT !.left = l, !.retry = r]
  BY ProcessorConstants, Zenon DEF Aged
<1>2. b.left \in Int \cup {None} /\ b.retry \in [amounts : Nat, cooldown : Nat] \cup {None}
  BY Zenon DEF Batch
<1>3. l \in Int \cup {None}
  BY <1>2 DEF Later
<1>4. r \in [amounts : Nat, cooldown : Nat] \cup {None}
  <2>1. CASE b.retry = None \/ b.retry.cooldown = 0
    BY <1>2, <2>1, Zenon DEF Cooler
  <2>2. CASE b.retry # None /\ b.retry.cooldown # 0
    <3>1. b.retry \in [amounts : Nat, cooldown : Nat] /\ b.retry.cooldown - 1 \in Nat
      BY <1>2, <2>2
    <3> QED BY <2>2, <3>1, Zenon DEF Cooler
  <2> QED BY <2>1, <2>2, Zenon
<1> HIDE DEF l, r
<1> QED BY <1>1, <1>3, <1>4, Zenon DEF Batch

AgedQueues(qs) == [p \in Priority |-> [i \in 1 .. Len(qs[p]) |-> Aged(qs[p][i])]]

\* Time passing keeps every entry in its place.
LEMMA AgeQueue ==
  ASSUME NEW qs, TypedQueues(qs), Unique(qs)
  PROVE  LET rs == AgedQueues(qs)
         IN TypedQueues(rs) /\ Unique(rs) /\ \A b : b \in Entries(rs) <=> \E c \in Entries(qs) : b = Aged(c)
<1> DEFINE rs == AgedQueues(qs)
<1>1. ASSUME NEW p \in Priority
      PROVE  /\ rs[p] \in Seq(Batch) /\ Len(rs[p]) = Len(qs[p])
             /\ \A i \in 1 .. Len(qs[p]) : qs[p][i] \in Batch /\ rs[p][i] = Aged(qs[p][i])
  <2>1. qs[p] \in Seq(Batch) /\ Len(qs[p]) \in Nat /\ \A i \in 1 .. Len(qs[p]) : qs[p][i] \in Batch
    BY DEF TypedQueues
  <2>2. rs[p] = [i \in 1 .. Len(qs[p]) |-> Aged(qs[p][i])]
    BY Zenon DEF AgedQueues
  <2> HIDE DEF rs
  <2>3. \A i \in 1 .. Len(qs[p]) : Aged(qs[p][i]) \in Batch
    BY <2>1, AgedBatch, Zenon
  <2>4. rs[p] \in [1 .. Len(qs[p]) -> Batch]
    BY <2>2, <2>3, Zenon
  <2>5. rs[p] \in Seq(Batch) /\ Len(rs[p]) = Len(qs[p])
    BY <2>1, <2>4
  <2> QED BY <2>1, <2>2, <2>5, Zenon
<1>2. rs = [p \in Priority |-> rs[p]]
  BY Zenon DEF AgedQueues
<1> HIDE DEF rs
<1>3. TypedQueues(rs)
  BY <1>1, <1>2, Zenon DEF TypedQueues
<1>4. \A p \in Priority : \A i \in 1 .. Len(qs[p]) : rs[p][i].id = qs[p][i].id
  BY <1>1, AgedBatch, Zenon
<1>5. Unique(rs)
  BY <1>1, <1>4, SMTT(30) DEF Unique
<1>6. \A b : b \in Entries(rs) <=> \E c \in Entries(qs) : b = Aged(c)
  BY <1>1, EntryAt
<1> QED BY <1>3, <1>5, <1>6, Zenon DEF rs

-----------------------------------------------------------------------------
\* The invariant, id by id.

StorageTyped ==
  /\ TypedQueues(queues)
  /\ batch_of \in [Id -> Batch \cup {None}]
  /\ pending_callback \in [Id -> Batch \cup {None}]
  /\ fn_index \in [Id -> Nat \cup {None}]
  /\ sub_of \in [Id -> Subroutine \cup {None}]
  /\ owed \in SUBSET Id
  /\ results \in [Id -> Seq(ExecutionResult)]
  /\ DOMAIN done = Id

IsQueued(id) == \E b \in Queued : b.id = id

\* b is a copy of the batch that arrived as id.
CopyOf(b, id) == b # None /\ b.id = id /\ b.sub = sub_of[id] /\ b.priority = batch_of[id].priority

\* Of a batch that is not reported: the stored copies agree, and the index counts
\* what was done.
Live(id) ==
  /\ CopyOf(batch_of[id], id)
  /\ \A b \in Queued : b.id = id => CopyOf(b, id)
  /\ sub_of[id].atomic => fn_index[id] = None
  /\ fn_index[id] # None => fn_index[id] < Len(sub_of[id].functions)
  /\ pending_callback[id] # None =>
       /\ CopyOf(pending_callback[id], id)
       /\ fn_index[id] # None /\ sub_of[id].functions[fn_index[id] + 1].confirm
  /\ id \in owed => pending_callback[id] # None
  /\ done[id] = IF fn_index[id] = None THEN {} ELSE 0 .. fn_index[id] - 1

TrueOf(id, r) ==
  /\ r.kind \in {"Expired", "PartiallyExecuted"} => done[id] = 0 .. r.n - 1
  /\ r.kind = "PartiallyExecuted" => done[id] # {}
  /\ r.kind = "Success" => done[id] = 0 .. Len(sub_of[id].functions) - 1

IdInv(id) ==
  /\ Len(results[id]) <= 1
  /\ sub_of[id] = None =>
       /\ ~IsQueued(id) /\ id \notin owed /\ results[id] = <<>>
       /\ fn_index[id] = None /\ pending_callback[id] = None /\ done[id] = {}
  /\ IsQueued(id) => id \notin owed /\ results[id] = <<>>
  /\ id \in owed => results[id] = <<>>
  /\ sub_of[id] # None /\ results[id] = <<>> => (IsQueued(id) \/ id \in owed) /\ Live(id)
  /\ results[id] # <<>> => TrueOf(id, results[id][1])

PInv == StorageTyped /\ Unique(queues) /\ \A id \in Id : IdInv(id)

\* What a step that is about x leaves alone.
Elsewhere(x) ==
  /\ \A y \in Id \ {x} :
       /\ batch_of'[y] = batch_of[y] /\ fn_index'[y] = fn_index[y] /\ sub_of'[y] = sub_of[y]
       /\ pending_callback'[y] = pending_callback[y] /\ (y \in owed' <=> y \in owed)
       /\ results'[y] = results[y] /\ done'[y] = done[y]
  /\ \A b \in Batch : b.id # x => (b \in Entries(queues') <=> b \in Entries(queues))

\* Queued is the entries of the stored queues.
LEMMA QueuedEntries == Queued = Entries(queues) /\ Queued' = Entries(queues')
  BY Zenon DEF Queued, Entries

\* Such a step has only x to answer for.
LEMMA OneId ==
  ASSUME PInv, NEW x \in Id, StorageTyped', Unique(queues'), Elsewhere(x), IdInv(x)'
  PROVE  PInv'
<1> SUFFICES ASSUME NEW y \in Id, y # x PROVE IdInv(y)'
  BY Zenon DEF PInv, Unique
<1>1. /\ batch_of'[y] = batch_of[y] /\ fn_index'[y] = fn_index[y] /\ sub_of'[y] = sub_of[y]
      /\ pending_callback'[y] = pending_callback[y] /\ (y \in owed' <=> y \in owed)
      /\ results'[y] = results[y] /\ done'[y] = done[y]
  BY Zenon DEF Elsewhere
<1>2. (\A b \in Queued : b \in Batch) /\ (\A b \in Queued' : b \in Batch)
  BY QueuedEntries, EntryTyped, Zenon DEF PInv, StorageTyped
<1>3. \A b : b.id = y => (b \in Queued' <=> b \in Queued)
  BY <1>2, QueuedEntries, Zenon DEF Elsewhere
<1>4. IdInv(y)
  BY Zenon DEF PInv
<1>5. IsQueued(y)' <=> IsQueued(y)
  BY <1>3, Zenon DEF IsQueued
<1>6. ASSUME Live(y) PROVE Live(y)'
  BY <1>1, <1>3, <1>6, Zenon DEF Live, CopyOf
<1> QED BY <1>1, <1>4, <1>5, <1>6, Zenon DEF IdInv, TrueOf

\* A report ends x when it is nowhere else and the result is true.
LEMMA Ended ==
  ASSUME PInv, NEW x \in Id, results[x] = <<>>, NEW r \in ExecutionResult,
         results' = [results EXCEPT ![x] = Append(@, r)],
         sub_of'[x] # None, Absent(queues', x), x \notin owed', TrueOf(x, r)'
  PROVE  /\ results' \in [Id -> Seq(ExecutionResult)]
         /\ \A y \in Id \ {x} : results'[y] = results[y]
         /\ IdInv(x)'
<1>1. results \in [Id -> Seq(ExecutionResult)]
  BY Zenon DEF PInv, StorageTyped
<1>2. Append(<<>>, r) \in Seq(ExecutionResult) /\ Append(<<>>, r) = <<r>>
  OBVIOUS
<1>3. results' = [results EXCEPT ![x] = <<r>>] /\ <<r>> \in Seq(ExecutionResult)
  BY <1>2, Zenon
<1>4. /\ results' \in [Id -> Seq(ExecutionResult)] /\ results'[x] = <<r>>
      /\ \A y \in Id \ {x} : results'[y] = results[y]
  BY <1>1, <1>3, Zenon
<1>5. Len(<<r>>) = 1 /\ <<r>> # <<>> /\ <<r>>[1] = r
  BY Zenon
<1>6. ~IsQueued(x)'
  BY QueuedEntries, Zenon DEF Absent, IsQueued
<1>7. IdInv(x)'
  BY <1>4, <1>5, <1>6 DEF IdInv, TrueOf
<1> QED BY <1>4, <1>7, Zenon

-----------------------------------------------------------------------------
\* The handlers.  In the middle of a transaction about x, qs are the queues without
\* x, ix the indices, and batch the copy of x the handler works on.

Handling(x, qs, ix, batch) ==
  /\ x \in Id /\ sub_of[x] # None /\ results[x] = <<>>
  /\ TypedQueues(qs) /\ Unique(qs) /\ Absent(qs, x)
  /\ \A b \in Batch : b.id # x => (b \in Entries(qs) <=> b \in Entries(queues))
  /\ ix \in [Id -> Nat \cup {None}] /\ \A y \in Id \ {x} : ix[y] = fn_index[y]
  /\ batch \in Batch /\ CopyOf(batch, x)
  /\ sub_of[x].atomic => ix[x] = None
  /\ ix[x] # None => ix[x] < Len(sub_of[x].functions)
  /\ done[x] = IF ix[x] = None THEN {} ELSE 0 .. ix[x] - 1

\* What the rest of the transaction does to the other variables.
Around(x) ==
  /\ sub_of' = sub_of
  /\ pending_callback' \in [Id -> Batch \cup {None}] /\ owed' \in SUBSET Id /\ DOMAIN done' = Id
  /\ \A y \in Id \ {x} :
       /\ pending_callback'[y] = pending_callback[y] /\ (y \in owed' <=> y \in owed)
       /\ done'[y] = done[y]

\* The handler reports x.
LEMMA HandlerReports ==
  ASSUME PInv, NEW x, NEW qs, NEW ix, NEW batch, Handling(x, qs, ix, batch), Around(x), x \notin owed',
         NEW r \in ExecutionResult, results' = [results EXCEPT ![x] = Append(@, r)], TrueOf(x, r)',
         queues' = qs, fn_index' \in [Id -> Nat \cup {None}], batch_of' \in [Id -> Batch \cup {None}],
         \A y \in Id \ {x} : fn_index'[y] = fn_index[y] /\ batch_of'[y] = batch_of[y]
  PROVE  PInv'
<1>1. x \in Id /\ results[x] = <<>> /\ sub_of'[x] # None /\ Absent(queues', x)
  BY Zenon DEF Handling, Around
<1>2. /\ results' \in [Id -> Seq(ExecutionResult)] /\ IdInv(x)'
      /\ \A y \in Id \ {x} : results'[y] = results[y]
  BY <1>1, Ended, Zenon
<1>3. StorageTyped' /\ Unique(queues')
  <2>1. TypedQueues(queues') /\ Unique(queues')
    BY Zenon DEF Handling
  <2>2. sub_of' \in [Id -> Subroutine \cup {None}]
    BY Zenon DEF Around, PInv, StorageTyped
  <2> QED BY <1>2, <2>1, <2>2, Zenon DEF Around, StorageTyped
<1>4. Elsewhere(x)
  BY <1>1, <1>2, ZenonT(40) DEF Handling, Around, Elsewhere
<1> QED BY <1>1, <1>2, <1>3, <1>4, OneId, Zenon

\* The handler leaves x in a queue or waiting for its library.
LEMMA HandlerKeeps ==
  ASSUME PInv, NEW x, NEW qs, NEW ix, NEW batch, Handling(x, qs, ix, batch), Around(x),
         results' = results,
         TypedQueues(queues'), Unique(queues'),
         \A b \in Batch : b.id # x => (b \in Entries(queues') <=> b \in Entries(qs)),
         fn_index' \in [Id -> Nat \cup {None}], batch_of' \in [Id -> Batch \cup {None}],
         \A y \in Id \ {x} : fn_index'[y] = fn_index[y] /\ batch_of'[y] = batch_of[y],
         x \in owed' <=> ~IsQueued(x)', Live(x)'
  PROVE  PInv'
<1>1. x \in Id /\ results'[x] = <<>> /\ sub_of'[x] # None
  BY Zenon DEF Handling, Around
<1>2. IdInv(x)'
  <2>1. Len(<<>>) <= 1
    OBVIOUS
  <2> QED BY <1>1, <2>1, Zenon DEF IdInv
<1>3. StorageTyped'
  BY Zenon DEF Handling, Around, StorageTyped, PInv
<1>4. Elsewhere(x)
  BY <1>1, Zenon DEF Handling, Around, Elsewhere
<1> QED BY <1>1, <1>2, <1>3, <1>4, OneId, Zenon

\* What the transaction has stored of x when its copy b goes back to the queue.
Requeued(x, b) ==
  /\ results' = results
  /\ fn_index' \in [Id -> Nat \cup {None}] /\ batch_of' \in [Id -> Batch \cup {None}]
  /\ \A y \in Id \ {x} : fn_index'[y] = fn_index[y] /\ batch_of'[y] = batch_of[y]
  /\ CopyOf(b, x)' /\ CopyOf(batch_of[x], x)' /\ x \notin owed'
  /\ sub_of[x].atomic => fn_index'[x] = None
  /\ fn_index'[x] # None => fn_index'[x] < Len(sub_of[x].functions)
  /\ pending_callback'[x] # None =>
       /\ CopyOf(pending_callback[x], x)'
       /\ fn_index'[x] # None /\ sub_of[x].functions[fn_index'[x] + 1].confirm
  /\ done'[x] = IF fn_index'[x] = None THEN {} ELSE 0 .. fn_index'[x] - 1

\* x goes back to the end of its queue.
LEMMA HandlerRequeues ==
  ASSUME PInv, NEW x, NEW qs, NEW ix, NEW batch, Handling(x, qs, ix, batch), Around(x),
         NEW b \in Batch, queues' = Pushed(qs, b), Requeued(x, b)
  PROVE  PInv'
<1>1. x \in Id /\ b.id = x /\ b.priority \in Priority /\ sub_of' = sub_of
  BY Zenon DEF Handling, Around, CopyOf, Batch, Requeued
<1>2. /\ TypedQueues(queues') /\ Unique(queues') /\ Entries(queues') = Entries(qs) \cup {b}
  <2>1. TypedQueues(qs) /\ Unique(qs) /\ Absent(qs, b.id)
    BY <1>1, Zenon DEF Handling
  <2>2. LET rs == [qs EXCEPT ![b.priority] = Append(@, b)]
        IN TypedQueues(rs) /\ Unique(rs) /\ Entries(rs) = Entries(qs) \cup {b}
    BY <1>1, <2>1, PushQueue, Zenon
  <2> QED BY <2>2, Zenon DEF Pushed
<1>3. \A c \in Queued' : c.id = x => c = b
  BY <1>2, QueuedEntries, Zenon DEF Handling, Absent
<1>4. IsQueued(x)'
  BY <1>1, <1>2, QueuedEntries, Zenon DEF IsQueued
<1>5. Live(x)'
  BY <1>1, <1>3, Zenon DEF Live, Requeued
<1>6. \A c \in Batch : c.id # x => (c \in Entries(queues') <=> c \in Entries(qs))
  BY <1>1, <1>2, Zenon
<1>7. /\ results' = results
      /\ fn_index' \in [Id -> Nat \cup {None}] /\ batch_of' \in [Id -> Batch \cup {None}]
      /\ \A y \in Id \ {x} : fn_index'[y] = fn_index[y] /\ batch_of'[y] = batch_of[y]
      /\ x \notin owed'
  BY Zenon DEF Requeued
<1> QED BY <1>2, <1>4, <1>5, <1>6, <1>7, HandlerKeeps, Zenon

\* What a subroutine consists of.
LEMMA SubroutineParts ==
  ASSUME NEW s \in Subroutine
  PROVE  /\ s.atomic \in BOOLEAN /\ Len(s.functions) \in Nat \ {0}
         /\ s.retry \in RetryLogicType \cup {None}
         /\ \A k \in 1 .. Len(s.functions) :
              /\ s.functions[k].retry \in RetryLogicType \cup {None}
              /\ s.functions[k].confirm \in BOOLEAN
<1> DEFINE F == [retry : RetryLogicType \cup {None}, confirm : BOOLEAN]
<1>1. s \in SubroutineType /\ Len(s.functions) > 0
  BY ProcessorConstants, Zenon
<1>2. s.atomic \in BOOLEAN /\ s.retry \in RetryLogicType \cup {None} /\ s.functions \in Seq(F)
  BY <1>1, Zenon DEF SubroutineType
<1>3. \A f \in F : f.retry \in RetryLogicType \cup {None} /\ f.confirm \in BOOLEAN
  BY Zenon
<1> HIDE DEF F
<1>4. \A k \in 1 .. Len(s.functions) : s.functions[k] \in F
  BY <1>2
<1>5. Len(s.functions) \in Nat \ {0}
  BY <1>1, <1>2
<1> QED BY <1>2, <1>3, <1>4, <1>5, Zenon

\* Results are built from a kind and a number.
LEMMA ResultTyped ==
  ASSUME NEW k \in {"Success", "Rejected", "PartiallyExecuted", "Expired", "RemovedByOwner"}, NEW n \in Nat
  PROVE  /\ [kind |-> k, n |-> n] \in ExecutionResult
         /\ [kind |-> k, n |-> n].kind = k /\ [kind |-> k, n |-> n].n = n
  BY Zenon DEF ExecutionResult

\* One function more.
LEMMA OneMore ==
  ASSUME NEW n \in Nat PROVE (0 .. n - 1) \cup {n} = 0 .. n
  OBVIOUS

\* The clean up touches only x.
LEMMA CleanUp ==
  ASSUME PInv, NEW x, NEW qs, NEW ix, NEW batch, Handling(x, qs, ix, batch), clean_up(x, ix)
  PROVE  /\ fn_index' \in [Id -> Nat \cup {None}] /\ batch_of' \in [Id -> Batch \cup {None}]
         /\ \A y \in Id \ {x} : fn_index'[y] = fn_index[y] /\ batch_of'[y] = batch_of[y]
  BY Zenon DEF PInv, StorageTyped, Handling, clean_up

\* The function at the index completed and no callback is pending any more.
Completes(x, ix) ==
  ix[x] # None /\ done'[x] = 0 .. ix[x] /\ pending_callback'[x] = None /\ x \notin owed'

\* A function completed: the batch ends, or its next function is up.
LEMMA SuccessfulNonAtomic ==
  ASSUME PInv, NEW x, NEW qs, NEW ix, NEW batch, Handling(x, qs, ix, batch), Around(x),
         Completes(x, ix), handle_successful_non_atomic_callback(qs, ix, batch)
  PROVE  PInv'
<1>0. ix[x] # None /\ done'[x] = 0 .. ix[x] /\ pending_callback'[x] = None /\ x \notin owed'
  BY Zenon DEF Completes
<1> DEFINE next == ix[x] + 1
           n == Len(sub_of[x].functions)
<1>1. /\ x \in Id /\ sub_of[x] \in Subroutine /\ sub_of' = sub_of
      /\ batch \in Batch /\ batch.id = x /\ batch.sub = sub_of[x]
      /\ ix \in [Id -> Nat \cup {None}] /\ ix[x] \in Nat /\ next \in Nat
      /\ ~sub_of[x].atomic /\ ix[x] < n
  BY <1>0 DEF Handling, Around, CopyOf, PInv, StorageTyped
<1>2. n \in Nat /\ None \notin Nat
  BY <1>1, SubroutineParts, ProcessorConstants
<1>3. CASE /\ next >= n /\ report(x, "Success", 0) /\ clean_up(x, ix) /\ queues' = qs
  <2> DEFINE r == [kind |-> "Success", n |-> 0]
  <2>1. r \in ExecutionResult /\ r.kind = "Success"
    BY ResultTyped, Zenon
  <2>2. results' = [results EXCEPT ![x] = Append(@, r)]
    BY <1>3, Zenon DEF report
  <2> HIDE DEF r
  <2>3. done'[x] = 0 .. n - 1
    BY <1>0, <1>1, <1>2, <1>3
  <2>4. TrueOf(x, r)'
    BY <1>1, <2>1, <2>3, Zenon DEF TrueOf
  <2> QED BY <1>0, <1>3, <2>1, <2>2, <2>4, CleanUp, HandlerReports, Zenon
<1>4. CASE /\ next < n /\ fn_index' = [ix EXCEPT ![x] = next]
           /\ queues' = Pushed(qs, [batch EXCEPT !.retry = None]) /\ no_report /\ UNCHANGED batch_of
  <2> DEFINE b == [batch EXCEPT !.retry = None]
  <2>1. b \in Batch /\ b.id = x /\ b.sub = batch.sub /\ b.priority = batch.priority
    BY <1>1, Zenon DEF Batch
  <2>2. queues' = Pushed(qs, b)
    BY <1>4, Zenon
  <2> HIDE DEF b
  <2>3. CopyOf(b, x)' /\ CopyOf(batch_of[x], x)'
    <3>1. CopyOf(batch, x) /\ CopyOf(batch_of[x], x)
      BY <1>1, Zenon DEF Handling, PInv, IdInv, Live
    <3>2. b # None
      BY <2>1, ProcessorConstants, Zenon
    <3> QED BY <1>1, <1>4, <2>1, <3>1, <3>2, Zenon DEF CopyOf
  <2>4. fn_index' \in [Id -> Nat \cup {None}] /\ fn_index'[x] = next
        /\ \A y \in Id \ {x} : fn_index'[y] = fn_index[y]
    BY <1>1, <1>4, Zenon DEF Handling
  <2>5. fn_index'[x] # None /\ done'[x] = 0 .. fn_index'[x] - 1
    BY <1>0, <1>1, <1>2, <2>4
  <2>6. results' = results /\ batch_of' \in [Id -> Batch \cup {None}]
        /\ \A y \in Id \ {x} : batch_of'[y] = batch_of[y]
    BY <1>4, Zenon DEF no_report, PInv, StorageTyped
  <2>7. Requeued(x, b)
    BY <1>0, <1>1, <1>4, <2>3, <2>4, <2>5, <2>6, Zenon DEF Requeued
  <2> QED BY <2>1, <2>2, <2>7, HandlerRequeues, Zenon
<1>5. \/ next >= n /\ report(x, "Success", 0) /\ clean_up(x, ix) /\ queues' = qs
      \/ /\ next < n /\ fn_index' = [ix EXCEPT ![x] = next]
         /\ queues' = Pushed(qs, [batch EXCEPT !.retry = None]) /\ no_report /\ UNCHANGED batch_of
  <2>1. batch.id = x /\ batch.sub.functions = sub_of[x].functions
    BY <1>1, Zenon
  <2> QED BY <2>1, Zenon DEF handle_successful_non_atomic_callback
<1> QED BY <1>3, <1>4, <1>5, Zenon

\* An atomic batch ran.
LEMMA SuccessfulAtomic ==
  ASSUME PInv, NEW x, NEW qs, NEW batch, Handling(x, qs, fn_index, batch), Around(x),
         done'[x] = 0 .. Len(sub_of[x].functions) - 1, x \notin owed',
         handle_successful_atomic_callback(qs, fn_index, batch)
  PROVE  PInv'
<1> DEFINE r == [kind |-> "Success", n |-> 0]
<1>1. r \in ExecutionResult /\ r.kind = "Success"
  BY ResultTyped, Zenon
<1>2. batch.id = x /\ sub_of' = sub_of
  BY Zenon DEF Handling, CopyOf, Around
<1>3. /\ results' = [results EXCEPT ![x] = Append(@, r)] /\ queues' = qs
      /\ fn_index' = fn_index /\ batch_of' = batch_of
  BY <1>2, Zenon DEF handle_successful_atomic_callback, report
<1> HIDE DEF r
<1>4. TrueOf(x, r)'
  BY <1>1, <1>2, Zenon DEF TrueOf
<1>5. fn_index' \in [Id -> Nat \cup {None}] /\ batch_of' \in [Id -> Batch \cup {None}]
  BY <1>3, Zenon DEF PInv, StorageTyped
<1> QED BY <1>1, <1>3, <1>4, <1>5, HandlerReports, Zenon

\* What PENDING_CALLBACK holds of x at the end of the transaction.
Waits(x, ix) ==
  pending_callback'[x] # None =>
    /\ pending_callback'[x].id = x /\ pending_callback'[x].sub = sub_of[x]
    /\ pending_callback'[x].priority = batch_of[x].priority
    /\ ix[x] # None /\ sub_of[x].functions[ix[x] + 1].confirm

\* A function or an atomic batch failed: the batch ends or is tried again.
LEMMA Unsuccessful ==
  ASSUME PInv, NEW x, NEW qs, NEW ix, NEW batch, Handling(x, qs, ix, batch), Around(x),
         done'[x] = done[x], x \notin owed', Waits(x, ix),
         handle_unsuccessful_callback(qs, ix, batch)
  PROVE  PInv'
<1> DEFINE index == IF ix[x] = None THEN 0 ELSE ix[x]
           logic == RetryLogic(batch.sub, index)
           amounts == IF batch.retry = None THEN 0 ELSE batch.retry.amounts
<1>1. /\ x \in Id /\ sub_of[x] \in Subroutine /\ sub_of' = sub_of
      /\ batch \in Batch /\ batch.id = x /\ batch.sub = sub_of[x]
      /\ batch.priority = batch_of[x].priority
      /\ ix \in [Id -> Nat \cup {None}] /\ ix[x] \in Nat \cup {None}
      /\ sub_of[x].atomic => ix[x] = None
      /\ ix[x] # None => ix[x] < Len(sub_of[x].functions)
      /\ done'[x] = IF ix[x] = None THEN {} ELSE 0 .. ix[x] - 1
      /\ \A y \in Id \ {x} : ix[y] = fn_index[y]
  <2>1. /\ x \in Id /\ batch \in Batch /\ batch.id = x /\ batch.sub = sub_of[x]
        /\ batch.priority = batch_of[x].priority
        /\ ix \in [Id -> Nat \cup {None}] /\ sub_of[x] # None
        /\ sub_of[x].atomic => ix[x] = None
        /\ ix[x] # None => ix[x] < Len(sub_of[x].functions)
        /\ done[x] = IF ix[x] = None THEN {} ELSE 0 .. ix[x] - 1
        /\ \A y \in Id \ {x} : ix[y] = fn_index[y]
    BY Zenon DEF Handling, CopyOf
  <2>2. sub_of' = sub_of /\ sub_of \in [Id -> Subroutine \cup {None}]
    BY Zenon DEF Around, PInv, StorageTyped
  <2>3. sub_of[x] \in Subroutine /\ ix[x] \in Nat \cup {None}
    BY <2>1, <2>2, Zenon
  <2> QED BY <2>1, <2>2, <2>3, Zenon
<1>2. /\ index \in Nat /\ index < Len(sub_of[x].functions) /\ Len(sub_of[x].functions) \in Nat
      /\ index # 0 => done'[x] = 0 .. index - 1
  <2>1. Len(sub_of[x].functions) \in Nat \ {0}
    BY <1>1, SubroutineParts, Zenon
  <2>2. CASE ix[x] = None
    BY <2>1, <2>2
  <2>3. CASE ix[x] # None
    <3>1. ix[x] \in Nat /\ ix[x] < Len(sub_of[x].functions) /\ done'[x] = 0 .. ix[x] - 1 /\ index = ix[x]
      BY <1>1, <2>3, Zenon
    <3> QED BY <2>1, <3>1, Zenon
  <2> QED BY <2>2, <2>3, Zenon
<1>3. logic \in RetryLogicType \cup {None}
  <2>1. index + 1 \in 1 .. Len(sub_of[x].functions)
    BY <1>2
  <2> HIDE DEF index
  <2> QED BY <1>1, <2>1, SubroutineParts, Zenon DEF RetryLogic
<1>4. amounts \in Nat
  BY <1>1, Zenon DEF Batch
<1>5. \/ /\ report(x, "Rejected", 0) /\ clean_up(x, ix) /\ queues' = qs
      \/ /\ index # 0 /\ report(x, "PartiallyExecuted", index) /\ clean_up(x, ix) /\ queues' = qs
      \/ /\ logic # None /\ put_back_into_queue(qs, batch, amounts, logic)
         /\ fn_index' = ix /\ no_report
  <2>1. batch.id = x /\ batch.sub = sub_of[x]
    BY <1>1, Zenon
  <2> QED BY <2>1, Zenon DEF handle_unsuccessful_callback
<1> HIDE DEF index, logic, amounts
<1>6. CASE report(x, "Rejected", 0) /\ clean_up(x, ix) /\ queues' = qs
  <2> DEFINE r == [kind |-> "Rejected", n |-> 0]
  <2>1. r \in ExecutionResult /\ r.kind = "Rejected"
    BY ResultTyped, Zenon
  <2>2. results' = [results EXCEPT ![x] = Append(@, r)]
    BY <1>6, Zenon DEF report
  <2> HIDE DEF r
  <2>3. TrueOf(x, r)'
    BY <2>1, Zenon DEF TrueOf
  <2> QED BY <1>6, <2>1, <2>2, <2>3, CleanUp, HandlerReports, Zenon
<1>7. CASE index # 0 /\ report(x, "PartiallyExecuted", index) /\ clean_up(x, ix) /\ queues' = qs
  <2> DEFINE r == [kind |-> "PartiallyExecuted", n |-> index]
  <2>1. r \in ExecutionResult /\ r.kind = "PartiallyExecuted" /\ r.n = index
    BY <1>2, ResultTyped, Zenon
  <2>2. results' = [results EXCEPT ![x] = Append(@, r)]
    BY <1>7, Zenon DEF report
  <2> HIDE DEF r
  <2>3. done'[x] = 0 .. index - 1 /\ 0 \in done'[x]
    BY <1>2, <1>7
  <2>4. TrueOf(x, r)'
    BY <2>1, <2>3, Zenon DEF TrueOf
  <2> QED BY <1>7, <2>1, <2>2, <2>4, CleanUp, HandlerReports, Zenon
<1>8. CASE /\ logic # None /\ put_back_into_queue(qs, batch, amounts, logic)
           /\ fn_index' = ix /\ no_report
  <2> DEFINE retry == [amounts |-> amounts + 1, cooldown |-> logic.interval]
             b == [batch EXCEPT !.retry = retry]
  <2>1. retry \in [amounts : Nat, cooldown : Nat]
    BY <1>3, <1>4, <1>8 DEF RetryLogicType
  <2>2. queues' = Pushed(qs, b) /\ batch_of' = [batch_of EXCEPT ![b.id] = b]
    BY <1>8, Zenon DEF put_back_into_queue
  <2> HIDE DEF retry
  <2>3. b \in Batch /\ b.id = x /\ b.sub = sub_of[x] /\ b.priority = batch.priority
    BY <1>1, <2>1, Zenon DEF Batch
  <2> HIDE DEF b
  <2>4. /\ batch_of' \in [Id -> Batch \cup {None}] /\ batch_of'[x] = b
        /\ \A y \in Id \ {x} : batch_of'[y] = batch_of[y]
    BY <1>1, <2>2, <2>3, Zenon DEF PInv, StorageTyped
  <2>5. b # None
    BY <2>3, ProcessorConstants, Zenon
  <2>6. CopyOf(b, x)' /\ CopyOf(batch_of[x], x)'
    BY <1>1, <2>3, <2>4, <2>5, Zenon DEF CopyOf
  <2>7. pending_callback'[x] # None =>
          /\ CopyOf(pending_callback[x], x)'
          /\ fn_index'[x] # None /\ sub_of[x].functions[fn_index'[x] + 1].confirm
    BY <1>1, <1>8, <2>3, <2>4, ZenonT(40) DEF Waits, CopyOf
  <2>8. results' = results
    BY <1>8, Zenon DEF no_report
  <2>9. Requeued(x, b)
    BY <1>1, <1>8, <2>4, <2>6, <2>7, <2>8, ZenonT(40) DEF Requeued
  <2> QED BY <2>2, <2>3, <2>9, HandlerRequeues, Zenon
<1> QED BY <1>5, <1>6, <1>7, <1>8, Zenon

-----------------------------------------------------------------------------
\* Taking a batch out of the queue to work on it.

\* A queued batch is live, and the queues without it hold no other copy.
LEMMA TakenOut ==
  ASSUME PInv, NEW c \in Entries(queues), NEW qs, TypedQueues(qs), Unique(qs), Absent(qs, c.id),
         Entries(qs) = Entries(queues) \ {c}
  PROVE  /\ c \in Batch /\ c.id \in Id /\ CopyOf(c, c.id) /\ Live(c.id)
         /\ sub_of[c.id] \in Subroutine /\ c.id \notin owed /\ batch_of[c.id] \in Batch
         /\ \A b \in {c, batch_of[c.id]} : Handling(c.id, qs, fn_index, b)
<1> DEFINE x == c.id
<1>1. c \in Batch /\ x \in Id /\ IsQueued(x) /\ c \in Queued
  BY EntryTyped, QueuedEntries, Zenon DEF IsQueued, PInv, StorageTyped
<1>2. IdInv(x)
  BY <1>1, Zenon DEF PInv
<1>3. sub_of[x] # None /\ results[x] = <<>> /\ x \notin owed /\ Live(x)
  BY <1>1, <1>2, Zenon DEF IdInv
<1>4. sub_of[x] \in Subroutine /\ batch_of[x] \in Batch /\ CopyOf(c, x) /\ CopyOf(batch_of[x], x)
  BY <1>1, <1>3, Zenon DEF Live, CopyOf, PInv, StorageTyped
<1>5. fn_index \in [Id -> Nat \cup {None}]
  BY Zenon DEF PInv, StorageTyped
<1>6. \A b \in {c, batch_of[x]} : Handling(x, qs, fn_index, b)
  BY <1>1, <1>3, <1>4, <1>5, Zenon DEF Handling, Live
<1> QED BY <1>1, <1>3, <1>4, <1>6, ZenonT(40)

\* So is the one a tick takes from the front.
LEMMA FrontHandled ==
  ASSUME PInv, CanTick
  PROVE  /\ Front \in Batch /\ Front.id \in Id /\ CopyOf(Front, Front.id) /\ Live(Front.id)
         /\ sub_of[Front.id] \in Subroutine /\ Front.id \notin owed /\ batch_of[Front.id] \in Batch
         /\ \A b \in {Front, batch_of[Front.id]} : Handling(Front.id, Popped, fn_index, b)
<1>1. TickQueue \in Priority /\ queues[TickQueue] # <<>> /\ TypedQueues(queues) /\ Unique(queues)
  BY Zenon DEF CanTick, TickQueue, Priority, PInv, StorageTyped
<1>2. LET rs == [queues EXCEPT ![TickQueue] = Tail(@)]
          b == Head(queues[TickQueue])
      IN /\ TypedQueues(rs) /\ Unique(rs) /\ b \in Entries(queues)
         /\ Entries(rs) = Entries(queues) \ {b} /\ Absent(rs, b.id)
  BY <1>1, PopQueue, Zenon
<1>3. /\ TypedQueues(Popped) /\ Unique(Popped) /\ Absent(Popped, Front.id)
      /\ Entries(Popped) = Entries(queues) \ {Front} /\ Front \in Entries(queues)
  BY <1>2, Zenon DEF Popped, Front
<1> QED BY <1>3, TakenOut, ZenonT(40)

-----------------------------------------------------------------------------
\* The actions, one lemma each.

\* An id that was not sent here is nowhere.
LEMMA NotSentYet ==
  ASSUME PInv, NEW x \in Id \ Accepted
  PROVE  /\ sub_of[x] = None /\ Absent(queues, x) /\ x \notin owed /\ results[x] = <<>>
         /\ fn_index[x] = None /\ pending_callback[x] = None /\ done[x] = {}
<1>1. sub_of[x] = None /\ IdInv(x)
  BY Zenon DEF PInv, Accepted
<1> QED BY <1>1, QueuedEntries, Zenon DEF IdInv, IsQueued, Absent

\* A batch that arrives expired is reported and not stored.
LEMMA RefuseExpired ==
  ASSUME PInv, NEW x \in Id \ Accepted, NEW sub \in Subroutine, NEW left, refuse_expired(x, sub, left)
  PROVE  PInv'
<1> DEFINE r == [kind |-> "Expired", n |-> 0]
<1>1. r \in ExecutionResult /\ r.kind = "Expired" /\ r.n = 0
  BY ResultTyped, Zenon
<1>2. /\ results' = [results EXCEPT ![x] = Append(@, r)]
      /\ sub_of' = [sub_of EXCEPT ![x] = sub]
      /\ UNCHANGED <<queues, batch_of, fn_index, pending_callback, owed, done>>
  BY Zenon DEF refuse_expired, report
<1> HIDE DEF r
<1>3. /\ sub_of' \in [Id -> Subroutine \cup {None}] /\ sub_of'[x] # None
      /\ \A y \in Id \ {x} : sub_of'[y] = sub_of[y]
  BY <1>2, ProcessorConstants, Zenon DEF PInv, StorageTyped
<1>4. TrueOf(x, r)'
  BY <1>1, <1>2, NotSentYet DEF TrueOf
<1>5. /\ results' \in [Id -> Seq(ExecutionResult)] /\ IdInv(x)'
      /\ \A y \in Id \ {x} : results'[y] = results[y]
  <2>1. x \in Id /\ results[x] = <<>> /\ Absent(queues', x) /\ x \notin owed'
    BY <1>2, NotSentYet, Zenon
  <2> QED BY <1>1, <1>2, <1>3, <1>4, <2>1, Ended, Zenon
<1>6. StorageTyped' /\ Unique(queues') /\ Elsewhere(x)
  BY <1>2, <1>3, <1>5, Zenon DEF PInv, StorageTyped, Elsewhere, TypedQueues
<1> QED BY <1>5, <1>6, OneId, Zenon

\* A batch that arrives is queued once and stored.
LEMMA Arrives ==
  ASSUME PInv, NEW b \in Batch, b.id \notin Accepted, accept(b),
         TypedQueues(queues'), Unique(queues'), Entries(queues') = Entries(queues) \cup {b}
  PROVE  PInv'
<1> DEFINE x == b.id
<1>1. x \in Id /\ b.sub \in Subroutine /\ b # None /\ b.sub # None
  BY ProcessorConstants, Zenon DEF Batch
<1>2. x \in Id \ Accepted
  BY <1>1, Zenon
<1>3. /\ batch_of' = [batch_of EXCEPT ![x] = b] /\ sub_of' = [sub_of EXCEPT ![x] = b.sub]
      /\ results' = results /\ UNCHANGED <<fn_index, pending_callback, owed, done>>
  BY Zenon DEF accept, no_report
<1>4. /\ sub_of' \in [Id -> Subroutine \cup {None}] /\ batch_of' \in [Id -> Batch \cup {None}]
      /\ sub_of'[x] = b.sub /\ batch_of'[x] = b
      /\ \A y \in Id \ {x} : sub_of'[y] = sub_of[y] /\ batch_of'[y] = batch_of[y]
  BY <1>1, <1>3, Zenon DEF PInv, StorageTyped
<1>5. /\ Absent(queues, x) /\ x \notin owed' /\ results'[x] = <<>>
      /\ fn_index'[x] = None /\ pending_callback'[x] = None /\ done'[x] = {}
  BY <1>2, <1>3, NotSentYet, Zenon
<1>6. IsQueued(x)' /\ \A c \in Queued' : c.id = x => c = b
  BY <1>5, QueuedEntries, Zenon DEF Absent, IsQueued
<1>7. CopyOf(b, x)' /\ CopyOf(batch_of[x], x)'
  BY <1>1, <1>4, Zenon DEF CopyOf
<1>8. Live(x)'
  BY <1>5, <1>6, <1>7, Zenon DEF Live
<1>9. IdInv(x)'
  <2>1. Len(<<>>) <= 1
    OBVIOUS
  <2> QED BY <1>1, <1>4, <1>5, <1>6, <1>8, <2>1, Zenon DEF IdInv
<1>10. StorageTyped' /\ Elsewhere(x)
  BY <1>3, <1>4, Zenon DEF PInv, StorageTyped, Elsewhere
<1> QED BY <1>1, <1>9, <1>10, OneId, Zenon

\* The owner takes a batch out of a queue.
LEMMA EvictStep ==
  ASSUME PInv, NEW p \in Priority, NEW position \in 0 .. Len(queues[p]) - 1, evict_messages(position, p)
  PROVE  PInv'
<1> SUFFICES ASSUME NEW c, c = queues[p][position + 1],
                    NEW qs, qs = [queues EXCEPT ![p] = RemovedAt(@, position)]
             PROVE  PInv'
  BY Zenon
<1> DEFINE x == c.id
           r == [kind |-> "RemovedByOwner", n |-> 0]
<1>1. /\ TypedQueues(qs) /\ Unique(qs) /\ c \in Entries(queues)
      /\ Entries(qs) = Entries(queues) \ {c} /\ Absent(qs, c.id)
  <2>1. TypedQueues(queues) /\ Unique(queues)
    BY Zenon DEF PInv, StorageTyped
  <2>2. LET rs == [queues EXCEPT ![p] = RemovedAt(@, position)]
            b == queues[p][position + 1]
        IN /\ TypedQueues(rs) /\ Unique(rs) /\ b \in Entries(queues)
           /\ Entries(rs) = Entries(queues) \ {b} /\ Absent(rs, b.id)
    BY <2>1, RemoveQueue, Zenon
  <2> QED BY <2>2, Zenon
<1>2. /\ queues' = qs /\ clean_up(x, fn_index)
      /\ pending_callback' = [pending_callback EXCEPT ![x] = None]
      /\ results' = [results EXCEPT ![x] = Append(@, r)]
      /\ UNCHANGED <<sub_of, owed, done>>
  BY Zenon DEF evict_messages, report
<1>3. r \in ExecutionResult /\ r.kind = "RemovedByOwner"
  BY ResultTyped, Zenon
<1> HIDE DEF r
<1>4. x \in Id /\ x \notin owed /\ Handling(x, qs, fn_index, c)
  BY <1>1, TakenOut, Zenon
<1>5. Around(x)
  BY <1>2, <1>4, Zenon DEF Around, PInv, StorageTyped
<1>6. TrueOf(x, r)'
  BY <1>3, Zenon DEF TrueOf
<1> QED BY <1>2, <1>3, <1>4, <1>5, <1>6, CleanUp, HandlerReports, Zenon

\* Moving entries about within the queues changes nothing.
LEMMA SameEntries ==
  ASSUME PInv, TypedQueues(queues'), Unique(queues'), Entries(queues') = Entries(queues),
         UNCHANGED <<batch_of, fn_index, pending_callback, sub_of, owed, results, done>>
  PROVE  PInv'
<1>1. Queued' = Queued
  BY QueuedEntries, Zenon
<1>2. ASSUME NEW y \in Id, IdInv(y) PROVE IdInv(y)'
  <2>1. IsQueued(y)' <=> IsQueued(y)
    BY <1>1, Zenon DEF IsQueued
  <2>2. Live(y) => Live(y)'
    BY <1>1, Zenon DEF Live, CopyOf
  <2> QED BY <1>2, <2>1, <2>2, Zenon DEF IdInv, TrueOf
<1> QED BY <1>2, Zenon DEF PInv, StorageTyped, Unique

\* A tick finds an expired batch.
LEMMA ExpiredStep ==
  ASSUME PInv, tick_expired
  PROVE  PInv'
<1> SUFFICES ASSUME NEW c, c = Front, NEW qs, qs = Popped, NEW i, i = fn_index[c.id]
             PROVE  PInv'
  BY Zenon
<1> DEFINE x == c.id
           k == IF c.sub.atomic \/ i = None THEN 0 ELSE i
           r == [kind |-> "Expired", n |-> k]
<1>1. x \in Id /\ Live(x) /\ CopyOf(c, x) /\ x \notin owed /\ Handling(x, qs, fn_index, c)
  BY FrontHandled, Zenon DEF tick_expired
<1>2. /\ queues' = qs /\ clean_up(x, fn_index)
      /\ results' = [results EXCEPT ![x] = Append(@, r)]
      /\ UNCHANGED <<sub_of, owed, done, pending_callback>>
  BY Zenon DEF tick_expired, report
<1>3. i \in Nat \cup {None} /\ (c.sub.atomic => i = None)
      /\ done[x] = IF i = None THEN {} ELSE 0 .. i - 1
  BY <1>1, Zenon DEF Live, CopyOf, PInv, StorageTyped
<1>4. k \in Nat /\ done[x] = 0 .. k - 1
  BY <1>3
<1> HIDE DEF k
<1>5. r \in ExecutionResult /\ r.kind = "Expired" /\ r.n = k
  BY <1>4, ResultTyped, Zenon
<1> HIDE DEF r
<1>6. Around(x)
  BY <1>2, ZenonT(40) DEF Around, PInv, StorageTyped
<1>7. TrueOf(x, r)'
  BY <1>2, <1>4, <1>5, Zenon DEF TrueOf
<1> QED BY <1>1, <1>2, <1>5, <1>6, <1>7, CleanUp, HandlerReports, ZenonT(40)

\* A tick finds a batch that has to wait, and moves it to the end of the queue.
LEMMA CoolingStep ==
  ASSUME PInv, tick_cooling
  PROVE  PInv'
<1>1. TickQueue \in Priority /\ Front \in Batch
  BY FrontHandled, Zenon DEF tick_cooling, TickQueue, Priority
<1>2. /\ TypedQueues(Popped) /\ Unique(Popped) /\ Absent(Popped, Front.id)
      /\ Entries(Popped) \cup {Front} = Entries(queues)
  <2>1. TypedQueues(queues) /\ Unique(queues) /\ queues[TickQueue] # <<>>
    BY Zenon DEF PInv, StorageTyped, tick_cooling, CanTick
  <2>2. LET rs == [queues EXCEPT ![TickQueue] = Tail(@)]
            b == Head(queues[TickQueue])
        IN /\ TypedQueues(rs) /\ Unique(rs) /\ b \in Entries(queues)
           /\ Entries(rs) = Entries(queues) \ {b} /\ Absent(rs, b.id)
    BY <1>1, <2>1, PopQueue, Zenon
  <2> QED BY <2>2, Zenon DEF Popped, Front
<1>3. LET rs == [Popped EXCEPT ![TickQueue] = Append(@, Front)]
      IN TypedQueues(rs) /\ Unique(rs) /\ Entries(rs) = Entries(Popped) \cup {Front}
  BY <1>1, <1>2, PushQueue, ZenonT(40)
<1>4. TypedQueues(queues') /\ Unique(queues') /\ Entries(queues') = Entries(queues)
  BY <1>2, <1>3, Zenon DEF tick_cooling
<1>5. UNCHANGED <<batch_of, fn_index, pending_callback, sub_of, owed, results, done>>
  BY Zenon DEF tick_cooling, observations
<1> QED BY <1>4, <1>5, SameEntries, Zenon

\* A tick runs an atomic batch.
LEMMA AtomicStep ==
  ASSUME PInv, NEW ok \in BOOLEAN, tick_atomic(ok)
  PROVE  PInv'
<1> SUFFICES ASSUME NEW c, c = Front, NEW qs, qs = Popped, NEW b, b = batch_of[c.id]
             PROVE  PInv'
  BY Zenon
<1> DEFINE x == c.id
<1>1. /\ x \in Id /\ Live(x) /\ CopyOf(c, x) /\ x \notin owed /\ Handling(x, qs, fn_index, b)
  BY FrontHandled, Zenon DEF tick_atomic, Runnable
<1>2. /\ reply(x, ok, qs, fn_index) /\ c.sub.atomic
      /\ done' = [done EXCEPT ![x] = IF ok THEN 0 .. Len(c.sub.functions) - 1 ELSE @]
      /\ UNCHANGED <<sub_of, owed, pending_callback>>
  BY Zenon DEF tick_atomic
<1>3. c.sub = sub_of[x] /\ fn_index[x] = None /\ pending_callback[x] = None
  BY <1>1, <1>2, ZenonT(40) DEF Live, CopyOf
<1>4. Around(x) /\ x \notin owed'
  BY <1>1, <1>2, Zenon DEF Around, PInv, StorageTyped
<1>5. CASE ok
  <2>1. handle_successful_atomic_callback(qs, fn_index, b)
    BY <1>2, <1>3, <1>5, ZenonT(40) DEF reply
  <2>2. done'[x] = 0 .. Len(sub_of[x].functions) - 1
    BY <1>1, <1>2, <1>3, <1>5, Zenon DEF PInv, StorageTyped
  <2> QED BY <1>1, <1>4, <2>1, <2>2, SuccessfulAtomic, ZenonT(40)
<1>6. CASE ~ok
  <2>1. handle_unsuccessful_callback(qs, fn_index, b)
    BY <1>2, <1>6, ZenonT(40) DEF reply
  <2>2. done'[x] = done[x] /\ Waits(x, fn_index)
    BY <1>1, <1>2, <1>3, <1>6, Zenon DEF PInv, StorageTyped, Waits
  <2> QED BY <1>1, <1>4, <2>1, <2>2, Unsuccessful, ZenonT(40)
<1> QED BY <1>5, <1>6, Zenon

\* A tick runs one function.
LEMMA FunctionStep ==
  ASSUME PInv, NEW ok \in BOOLEAN, tick_function(ok)
  PROVE  PInv'
<1> SUFFICES ASSUME NEW c, c = Front, NEW qs, qs = Popped, NEW b, b = batch_of[c.id],
                    NEW index, index = (IF fn_index[c.id] = None THEN 0 ELSE fn_index[c.id]),
                    NEW ix, ix = [fn_index EXCEPT ![c.id] = index]
             PROVE  PInv'
  BY Zenon
<1> DEFINE x == c.id
           f == c.sub.functions[index + 1]
<1>1. /\ x \in Id /\ Live(x) /\ CopyOf(c, x) /\ x \notin owed /\ Handling(x, qs, fn_index, b)
      /\ sub_of[x] \in Subroutine /\ c \in Batch /\ c # None /\ c.sub = sub_of[x]
  BY FrontHandled, ZenonT(40) DEF tick_function, Runnable, CopyOf
<1>2. /\ reply(x, ok, qs, ix) /\ ~c.sub.atomic
      /\ pending_callback' = IF f.confirm THEN [pending_callback EXCEPT ![x] = c] ELSE pending_callback
      /\ owed' = IF ok /\ f.confirm THEN owed \cup {x} ELSE owed
      /\ done' = [done EXCEPT ![x] = IF ok /\ ~f.confirm THEN @ \cup {index} ELSE @]
      /\ sub_of' = sub_of
  BY ZenonT(40) DEF tick_function
<1>3. /\ fn_index \in [Id -> Nat \cup {None}] /\ pending_callback \in [Id -> Batch \cup {None}]
      /\ owed \in SUBSET Id /\ DOMAIN done = Id
  BY Zenon DEF PInv, StorageTyped
<1>4. Len(sub_of[x].functions) \in Nat \ {0} /\ None \notin Nat
  BY <1>1, SubroutineParts, ProcessorConstants
<1>5. /\ index \in Nat /\ index < Len(sub_of[x].functions) /\ done[x] = 0 .. index - 1
      /\ pending_callback[x] # None => f.confirm /\ CopyOf(pending_callback[x], x)
  <2>1. /\ done[x] = IF fn_index[x] = None THEN {} ELSE 0 .. fn_index[x] - 1
        /\ fn_index[x] # None => fn_index[x] < Len(sub_of[x].functions)
        /\ pending_callback[x] # None =>
             /\ CopyOf(pending_callback[x], x)
             /\ fn_index[x] # None /\ sub_of[x].functions[fn_index[x] + 1].confirm
    BY <1>1, Zenon DEF Live
  <2>2. CASE fn_index[x] = None
    <3>1. index = 0 /\ 0 .. index - 1 = {}
      BY <2>2
    <3>2. index \in Nat /\ index < Len(sub_of[x].functions)
      BY <1>4, <3>1
    <3>3. done[x] = 0 .. index - 1 /\ pending_callback[x] = None
      BY <2>1, <2>2, <3>1, Zenon
    <3> QED BY <3>2, <3>3, Zenon
  <2>3. CASE fn_index[x] # None
    <3>1. index = fn_index[x] /\ index \in Nat
      BY <1>1, <1>3, <2>3, Zenon
    <3> QED BY <1>1, <2>1, <2>3, <3>1, ZenonT(40)
  <2> QED BY <2>2, <2>3, Zenon
<1>6. /\ ix \in [Id -> Nat \cup {None}] /\ ix[x] = index /\ ix[x] # None
      /\ \A y \in Id \ {x} : ix[y] = fn_index[y]
  BY <1>1, <1>3, <1>4, <1>5, Zenon
<1>7. Handling(x, qs, ix, b)
  BY <1>1, <1>2, <1>5, <1>6, ZenonT(40) DEF Handling
<1>8. Around(x)
  BY <1>1, <1>2, <1>3, ZenonT(40) DEF Around
<1>9. CASE ok /\ f.confirm
  <2>1. /\ pending_callback'[x] = c /\ x \in owed' /\ done'[x] = done[x]
    BY <1>1, <1>2, <1>3, <1>9, ZenonT(40)
  <2>2. queues' = qs /\ fn_index' = ix /\ results' = results /\ batch_of' = batch_of
    BY <1>1, <1>2, <1>6, <1>9, <2>1, ZenonT(40) DEF reply, no_report
  <2>3. ~IsQueued(x)' /\ TypedQueues(queues') /\ Unique(queues')
    BY <1>7, <2>2, QueuedEntries, ZenonT(40) DEF Handling, Absent, IsQueued
  <2>4. CopyOf(c, x)' /\ CopyOf(batch_of[x], x)'
    BY <1>1, <1>2, <2>2, ZenonT(40) DEF Live, CopyOf
  <2>5. Live(x)'
    BY <1>2, <1>1, <1>5, <1>6, <1>9, <2>1, <2>2, <2>3, <2>4, ZenonT(40) DEF Live, IsQueued
  <2>6. batch_of' \in [Id -> Batch \cup {None}]
    BY <2>2, Zenon DEF PInv, StorageTyped
  <2> QED BY <1>6, <1>7, <1>8, <2>1, <2>2, <2>3, <2>5, <2>6, HandlerKeeps, ZenonT(40)
<1>10. CASE ok /\ ~f.confirm
  <2>1. pending_callback'[x] = None /\ x \notin owed' /\ done'[x] = 0 .. ix[x]
    <3>1. pending_callback'[x] = None /\ x \notin owed'
      BY <1>1, <1>2, <1>5, <1>10, ZenonT(40)
    <3>2. done'[x] = done[x] \cup {index}
      BY <1>1, <1>2, <1>3, <1>10, ZenonT(40)
    <3>3. (0 .. index - 1) \cup {index} = 0 .. index
      BY <1>5, OneMore, Zenon
    <3> QED BY <1>5, <1>6, <3>1, <3>2, <3>3, ZenonT(40)
  <2>2. handle_successful_non_atomic_callback(qs, ix, b)
    BY <1>2, <1>6, <1>10, <2>1, ZenonT(40) DEF reply
  <2>3. Completes(x, ix)
    BY <1>6, <2>1, Zenon DEF Completes
  <2> QED BY <1>7, <1>8, <2>2, <2>3, SuccessfulNonAtomic, Zenon
<1>11. CASE ~ok
  <2>1. x \notin owed' /\ done'[x] = done[x]
    BY <1>1, <1>2, <1>3, <1>11, Zenon
  <2>2. pending_callback'[x] # None => f.confirm /\ CopyOf(pending_callback'[x], x)
    BY <1>1, <1>2, <1>3, <1>5, ZenonT(40)
  <2>3. Waits(x, ix)
    BY <1>1, <1>6, <2>2, ZenonT(40) DEF Waits, CopyOf
  <2>4. handle_unsuccessful_callback(qs, ix, b)
    BY <1>2, <1>11, Zenon DEF reply
  <2> QED BY <1>7, <1>8, <2>1, <2>3, <2>4, Unsuccessful, Zenon
<1> QED BY <1>9, <1>10, <1>11, Zenon

\* A library calls back.
LEMMA CallbackStep ==
  ASSUME PInv, NEW x \in Id, NEW right \in BOOLEAN, process_callback(x, right)
  PROVE  PInv'
<1> SUFFICES ASSUME NEW b, b = pending_callback[x], NEW ix, ix = fn_index
             PROVE  PInv'
  BY Zenon
<1>1. /\ x \in owed /\ b # None /\ ix[x] # None
      /\ IF right THEN handle_successful_non_atomic_callback(queues, ix, b)
                  ELSE handle_unsuccessful_callback(queues, ix, b)
      /\ pending_callback' = [pending_callback EXCEPT ![x] = None]
      /\ owed' = owed \ {x}
      /\ done' = [done EXCEPT ![x] = IF right THEN @ \cup {ix[x]} ELSE @]
      /\ sub_of' = sub_of
  BY Zenon DEF process_callback
<1>2. /\ fn_index \in [Id -> Nat \cup {None}] /\ pending_callback \in [Id -> Batch \cup {None}]
      /\ owed \in SUBSET Id /\ DOMAIN done = Id /\ TypedQueues(queues) /\ Unique(queues)
  BY Zenon DEF PInv, StorageTyped
<1>3. /\ sub_of[x] # None /\ results[x] = <<>> /\ ~IsQueued(x) /\ Live(x)
  BY <1>1, ZenonT(40) DEF PInv, IdInv
<1>4. b \in Batch /\ CopyOf(b, x) /\ Absent(queues, x) /\ ix[x] \in Nat
  BY <1>1, <1>2, <1>3, QueuedEntries, ZenonT(40) DEF Live, IsQueued, Absent
<1>5. Handling(x, queues, ix, b)
  BY <1>2, <1>3, <1>4, Zenon DEF Handling, Live
<1>6. Around(x) /\ x \notin owed' /\ pending_callback'[x] = None
  BY <1>1, <1>2, Zenon DEF Around
<1>7. CASE right
  <2>1. done'[x] = 0 .. ix[x]
    BY <1>1, <1>2, <1>3, <1>4, <1>7 DEF Live
  <2>2. Completes(x, ix) /\ handle_successful_non_atomic_callback(queues, ix, b)
    BY <1>1, <1>6, <1>7, <2>1, Zenon DEF Completes
  <2> QED BY <1>5, <1>6, <2>2, SuccessfulNonAtomic, Zenon
<1>8. CASE ~right
  <2>1. done'[x] = done[x] /\ Waits(x, ix)
    BY <1>1, <1>2, <1>6, <1>8, Zenon DEF Waits
  <2> QED BY <1>1, <1>5, <1>6, <1>8, <2>1, Unsuccessful, Zenon
<1> QED BY <1>7, <1>8, Zenon

\* Deadlines come closer.
LEMMA TimeStep ==
  ASSUME PInv, pass_time
  PROVE  PInv'
<1>1. /\ queues' = AgedQueues(queues)
      /\ batch_of' = [id \in Id |-> Aged(batch_of[id])]
      /\ pending_callback' = [id \in Id |-> Aged(pending_callback[id])]
      /\ UNCHANGED <<fn_index, sub_of, owed, results, done>>
  BY Zenon DEF pass_time, AgedQueues, observations
<1>2. TypedQueues(queues) /\ Unique(queues)
  BY Zenon DEF PInv, StorageTyped
<1>3. /\ TypedQueues(queues') /\ Unique(queues')
      /\ \A b : b \in Entries(queues') <=> \E c \in Entries(queues) : b = Aged(c)
  BY <1>1, <1>2, AgeQueue, Zenon
<1>4. \A c \in Queued : c \in Batch
  BY <1>2, EntryTyped, QueuedEntries, Zenon
<1>5. \A b : b \in Queued' <=> \E c \in Queued : b = Aged(c)
  BY <1>3, QueuedEntries, Zenon
<1>6. Aged(None) = None /\ \A c \in Batch : Aged(c) # None
  BY AgedBatch, ProcessorConstants, ZenonT(40) DEF Aged
<1>7. ASSUME NEW y \in Id, IdInv(y) PROVE IdInv(y)'
  <2>1. /\ batch_of'[y] = Aged(batch_of[y]) /\ batch_of[y] \in Batch \cup {None}
        /\ pending_callback'[y] = Aged(pending_callback[y]) /\ pending_callback[y] \in Batch \cup {None}
    BY <1>1, Zenon DEF PInv, StorageTyped
  <2>2. IsQueued(y)' <=> IsQueued(y)
    BY <1>4, <1>5, AgedBatch DEF IsQueued
  <2>3. ASSUME Live(y) PROVE Live(y)'
    <3>1. batch_of[y] \in Batch /\ batch_of'[y].priority = batch_of[y].priority
      BY <2>1, <2>3, AgedBatch, ZenonT(40) DEF Live, CopyOf
    <3>2. ASSUME NEW c \in Batch, CopyOf(c, y) PROVE CopyOf(Aged(c), y)'
      BY <1>1, <1>6, <3>1, <3>2, AgedBatch, Zenon DEF CopyOf
    <3>3. CopyOf(batch_of[y], y)'
      BY <2>1, <2>3, <3>1, <3>2, Zenon DEF Live
    <3>4. \A d \in Queued' : d.id = y => CopyOf(d, y)'
      BY <1>4, <1>5, <2>3, <3>2, AgedBatch DEF Live
    <3>5. pending_callback[y] # None => CopyOf(pending_callback[y], y)'
      BY <2>1, <2>3, <3>2, Zenon DEF Live
    <3>6. pending_callback'[y] # None <=> pending_callback[y] # None
      BY <1>6, <2>1, Zenon
    <3> QED BY <1>1, <2>3, <3>3, <3>4, <3>5, <3>6, Zenon DEF Live
  <2>4. pending_callback[y] = None => pending_callback'[y] = None
    BY <1>6, <2>1, Zenon
  <2> QED BY <1>1, <1>7, <2>2, <2>3, <2>4, ZenonT(40) DEF IdInv, TrueOf
<1>8. StorageTyped'
  BY <1>1, <1>3, <1>6, AgedBatch, Zenon DEF PInv, StorageTyped
<1> QED BY <1>3, <1>7, <1>8, ZenonT(40) DEF PInv, Unique

-----------------------------------------------------------------------------
\* The invariant holds initially and every step keeps it.

\* In the initial state nothing is stored.
LEMMA InitPInv == Init => PInv
<1> SUFFICES ASSUME Init PROVE PInv
  BY Zenon
<1>1. <<>> \in Seq(Batch) /\ <<>> \in Seq(ExecutionResult) /\ Len(<<>>) = 0
  OBVIOUS
<1>2. /\ queues = [p \in Priority |-> <<>>]
      /\ \A id \in Id : /\ sub_of[id] = None /\ results[id] = <<>> /\ fn_index[id] = None
                        /\ pending_callback[id] = None /\ done[id] = {} /\ id \notin owed
  BY Zenon DEF Init
<1>3. StorageTyped
  BY <1>1, Zenon DEF Init, StorageTyped, TypedQueues
<1>4. \A p \in Priority : 1 .. Len(queues[p]) = {}
  BY <1>1, <1>2
<1>5. Unique(queues) /\ Queued = {}
  BY <1>4, Zenon DEF Unique, Queued
<1>6. \A id \in Id : IdInv(id)
  BY <1>1, <1>2, <1>5 DEF IdInv, IsQueued
<1> QED BY <1>3, <1>5, <1>6, Zenon DEF PInv

\* Enqueue or insert of a new batch.
LEMMA ArrivalStep ==
  ASSUME PInv, NEW x \in Id \ Accepted, NEW sub \in Subroutine, NEW p \in Priority, NEW left \in Lifetime,
         \/ enqueue_messages(x, sub, p, left)
         \/ \E position \in 0 .. Len(queues[p]) : insert_messages(x, sub, p, left, position)
  PROVE  PInv'
<1> DEFINE b == MessageBatch(x, sub, p, left)
<1>1. b \in Batch /\ b.id = x /\ b.priority = p
  BY ProcessorConstants, Zenon DEF MessageBatch, Batch
<1>2. \/ refuse_expired(x, sub, left)
      \/ queues' = Pushed(queues, b) /\ accept(b)
      \/ /\ accept(b)
         /\ \E position \in 0 .. Len(queues[p]) :
              queues' = [queues EXCEPT ![p] = InsertedAt(@, position, b)]
  BY Zenon DEF enqueue_messages, insert_messages
<1> HIDE DEF b
<1>3. TypedQueues(queues) /\ Unique(queues) /\ Absent(queues, b.id)
  BY <1>1, NotSentYet, ZenonT(40) DEF PInv, StorageTyped
<1>4. CASE queues' = Pushed(queues, b) /\ accept(b)
  <2>1. LET rs == [queues EXCEPT ![p] = Append(@, b)]
        IN TypedQueues(rs) /\ Unique(rs) /\ Entries(rs) = Entries(queues) \cup {b}
    BY <1>1, <1>3, PushQueue, Zenon
  <2>2. TypedQueues(queues') /\ Unique(queues') /\ Entries(queues') = Entries(queues) \cup {b}
    BY <1>1, <1>4, <2>1, Zenon DEF Pushed
  <2> QED BY <1>1, <1>4, <2>2, Arrives, Zenon
<1>5. ASSUME accept(b), NEW position \in 0 .. Len(queues[p]),
             queues' = [queues EXCEPT ![p] = InsertedAt(@, position, b)]
      PROVE  PInv'
  <2>1. Len(queues[p]) \in Nat
    BY <1>3 DEF TypedQueues
  <2>2. position \in Nat /\ position <= Len(queues[p])
    BY <2>1
  <2>3. LET rs == [queues EXCEPT ![p] = InsertedAt(@, position, b)]
        IN TypedQueues(rs) /\ Unique(rs) /\ Entries(rs) = Entries(queues) \cup {b}
    BY <1>1, <1>3, <2>2, InsertQueue, ZenonT(40)
  <2>4. TypedQueues(queues') /\ Unique(queues') /\ Entries(queues') = Entries(queues) \cup {b}
    BY <1>5, <2>3, Zenon
  <2> QED BY <1>1, <1>5, <2>4, Arrives, Zenon
<1> QED BY <1>2, <1>4, <1>5, RefuseExpired, Zenon

\* Steps of the owner's switch and of the bridge store nothing of a batch.
LEMMA OtherSteps ==
  ASSUME PInv,
         UNCHANGED <<queues, batch_of, fn_index, pending_callback, sub_of, owed, results, done>>
  PROVE  PInv'
<1>1. TypedQueues(queues') /\ Unique(queues') /\ Entries(queues') = Entries(queues)
  BY Zenon DEF PInv, StorageTyped
<1> QED BY <1>1, SameEntries, Zenon

\* Every step keeps the invariant.
LEMMA NextPInv == PInv /\ [Next]_vars => PInv'
<1> SUFFICES ASSUME PInv, [Next]_vars PROVE PInv'
  BY Zenon
<1>1. CASE FromAuthorization
  <2>1. CASE pause_processor \/ resume_processor
    BY <2>1, OtherSteps, Zenon DEF pause_processor, resume_processor, set_state, observations
  <2> QED BY <1>1, <2>1, ArrivalStep, EvictStep, Zenon DEF FromAuthorization
<1>2. CASE process_tick
  BY <1>2, ExpiredStep, CoolingStep, AtomicStep, FunctionStep, Zenon DEF process_tick
<1>3. CASE \E id \in Id, right \in BOOLEAN : process_callback(id, right)
  BY <1>3, CallbackStep, Zenon
<1>4. CASE \/ \E id \in Id : retry_callback(id)
           \/ retry_bridge_creation \/ FromBridge \/ UNCHANGED vars
  <2>1. UNCHANGED <<queues, batch_of, fn_index, pending_callback, sub_of, owed, results, done>>
    BY <1>4, Zenon DEF retry_callback, retry_bridge_creation, FromBridge, polytone_result_callback, relay,
                polytone_proxy_callback, vars, storage, observations
  <2> QED BY <2>1, OtherSteps, Zenon
<1> QED BY <1>1, <1>2, <1>3, <1>4, TimeStep, Zenon DEF Next

\* The invariant holds always.
LEMMA Invariant == Spec => []PInv
  BY InitPInv, NextPInv, PTL DEF Spec

-----------------------------------------------------------------------------
\* Retries.  A failure is counted in the copy of the batch that the handler works
\* on: t tries of the current function, which is the first to complete or not, are
\* compared with the amounts of these copies and with the retry logic l.

Amounts(b) == IF b.retry = None THEN 0 ELSE b.retry.amounts

Limited(l) == l = None \/ l.times # Indefinitely

Grants(l) == IF l = None THEN 1 ELSE l.times + 1

\* In a queue: q is the amount of the queued copy, s that of the stored one.
TriesLeft(t, first, l, q, s) ==
  t <= q /\ t <= s /\ (first => t = q /\ t = s) /\ (Limited(l) => t < Grants(l))

\* Waiting for a library: p is the amount of the copy in PENDING_CALLBACK.
Trying(t, first, l, p) ==
  t <= p + 1 /\ (first => t = p + 1) /\ (Limited(l) => t <= Grants(l))

\* Reported.
TriedOut(t, first, l, gaveup) ==
  /\ Limited(l) => t <= Grants(l)
  /\ gaveup => Limited(l) /\ (first => t = Grants(l))

BudgetOf(id) ==
  /\ tries[id] \in Nat
  /\ sub_of[id] = None => tries[id] = 0
  /\ sub_of[id] # None /\ results[id] = <<>> =>
       /\ \A b \in Queued : b.id = id =>
            TriesLeft(tries[id], done[id] = {}, CurrentLogic(id), Amounts(b), Amounts(batch_of[id]))
       /\ id \in owed => Trying(tries[id], done[id] = {}, CurrentLogic(id), Amounts(pending_callback[id]))
  /\ id \in Unfinished /\ results[id] # <<>> =>
       TriedOut(tries[id], done[id] = {}, CurrentLogic(id), GaveUp(id))

BudgetInv == DOMAIN tries = Id /\ \A id \in Id : BudgetOf(id)

\* The amount of a copy is a number.
LEMMA AmountsTyped ==
  ASSUME NEW b \in Batch PROVE Amounts(b) \in Nat
  BY Zenon DEF Batch, Amounts

\* A logic grants at least one try.
LEMMA GrantsTyped ==
  ASSUME NEW l \in RetryLogicType \cup {None}, Limited(l) PROVE Grants(l) \in Nat \ {0}
<1>1. CASE l = None
  BY <1>1 DEF Grants
<1>2. CASE l # None
  <2>1. l \in RetryLogicType /\ l.times \in Nat
    BY <1>2, Zenon DEF Limited, RetryLogicType
  <2> QED BY <1>2, <2>1 DEF Grants
<1> QED BY <1>1, <1>2, Zenon

\* What a failure after a tick comes to: another try, or none.
LEMMA FailedTick ==
  ASSUME NEW t \in Nat, NEW first \in BOOLEAN, NEW l \in RetryLogicType \cup {None},
         NEW q \in Nat, NEW s \in Nat, TriesLeft(t, first, l, q, s)
  PROVE  /\ l # None /\ ~Exhausted(l, s) => TriesLeft(t + 1, first, l, s + 1, s + 1)
         /\ l = None \/ Exhausted(l, s) => TriedOut(t + 1, first, l, TRUE)
<1>1. CASE l = None
  BY <1>1 DEF TriesLeft, TriedOut, Exhausted, Limited, Grants
<1>2. CASE l # None
  <2>1. l.times \in Nat \/ l.times = Indefinitely
    BY <1>2, Zenon DEF RetryLogicType
  <2>2. CASE l.times = Indefinitely
    <3>1. ~Limited(l) /\ ~Exhausted(l, s)
      BY <1>2, <2>2, Zenon DEF Exhausted, Limited
    <3>2. TriesLeft(t + 1, first, l, s + 1, s + 1)
      BY <3>1 DEF TriesLeft
    <3> QED BY <1>2, <3>1, <3>2, Zenon
  <2>3. CASE l.times # Indefinitely
    BY <1>2, <2>1, <2>3 DEF TriesLeft, TriedOut, Exhausted, Limited, Grants
  <2> QED BY <2>2, <2>3, Zenon
<1> QED BY <1>1, <1>2, Zenon

\* And a failure that the library tells.
LEMMA FailedCallback ==
  ASSUME NEW t \in Nat, NEW first \in BOOLEAN, NEW l \in RetryLogicType \cup {None},
         NEW p \in Nat, Trying(t, first, l, p)
  PROVE  /\ l # None /\ ~Exhausted(l, p) => TriesLeft(t, first, l, p + 1, p + 1)
         /\ l = None \/ Exhausted(l, p) => TriedOut(t, first, l, TRUE)
<1>1. CASE l = None
  BY <1>1 DEF Trying, TriedOut, Exhausted, Limited, Grants
<1>2. CASE l # None
  <2>1. l.times \in Nat \/ l.times = Indefinitely
    BY <1>2, Zenon DEF RetryLogicType
  <2>2. CASE l.times = Indefinitely
    BY <1>2, <2>2, Zenon DEF TriesLeft, Trying, Exhausted, Limited
  <2>3. CASE l.times # Indefinitely
    BY <1>2, <2>1, <2>3 DEF TriesLeft, Trying, TriedOut, Exhausted, Limited, Grants
  <2> QED BY <2>2, <2>3, Zenon
<1> QED BY <1>1, <1>2, Zenon

\* A function that starts and waits for its library, and one that nobody started.
LEMMA StartedTry ==
  ASSUME NEW t \in Nat, NEW first \in BOOLEAN, NEW l \in RetryLogicType \cup {None},
         NEW q \in Nat, NEW s \in Nat, TriesLeft(t, first, l, q, s)
  PROVE  Trying(t + 1, first, l, q) /\ TriedOut(t, first, l, FALSE)
<1>1. Limited(l) => Grants(l) \in Nat
  BY GrantsTyped, Zenon
<1> QED BY <1>1 DEF TriesLeft, Trying, TriedOut

\* The function that is up next.
LEMMA FreshFunction ==
  ASSUME NEW l \in RetryLogicType \cup {None}, NEW q \in Nat, NEW s \in Nat
  PROVE  /\ TriesLeft(0, FALSE, l, q, s) /\ TriesLeft(0, TRUE, l, 0, 0)
         /\ TriedOut(0, TRUE, l, FALSE)
<1>1. Limited(l) => Grants(l) \in Nat \ {0}
  BY GrantsTyped, Zenon
<1> QED BY <1>1 DEF TriesLeft, TriedOut

\* While a batch is under way, the completed functions are counted by its index.
LEMMA CurrentFunction ==
  ASSUME NEW sub \in Subroutine, NEW i \in Nat, i < Len(sub.functions)
  PROVE  /\ FirstMissing(0 .. i - 1, Len(sub.functions)) = i
         /\ RetryLogic(sub, i) \in RetryLogicType \cup {None}
<1>0. Len(sub.functions) \in Nat
  BY SubroutineParts, Zenon
<1>1. FirstMissing(0 .. i - 1, Len(sub.functions)) = i
  <2>1. \A k \in 0 .. Len(sub.functions) :
          k \notin 0 .. i - 1 /\ 0 .. k - 1 \subseteq 0 .. i - 1 => k = i
    <3> SUFFICES ASSUME NEW k \in 0 .. Len(sub.functions), k \notin 0 .. i - 1,
                        0 .. k - 1 \subseteq 0 .. i - 1, k # i
                 PROVE  FALSE
      BY Zenon
    <3>1. k > i
      BY <1>0
    <3>2. i \in 0 .. k - 1
      BY <1>0, <3>1
    <3> QED BY <3>2
  <2>2. i \in 0 .. Len(sub.functions) /\ i \notin 0 .. i - 1 /\ 0 .. i - 1 \subseteq 0 .. i - 1
    BY <1>0
  <2> QED BY <2>1, <2>2, Zenon DEF FirstMissing
<1>2. i + 1 \in 1 .. Len(sub.functions)
  BY SubroutineParts
<1>3. RetryLogic(sub, i) \in RetryLogicType \cup {None}
  BY <1>2, SubroutineParts, Zenon DEF RetryLogic
<1> QED BY <1>1, <1>3, Zenon

\* What a step about x leaves alone, as far as the retries go.
Aside(x) ==
  /\ DOMAIN tries' = Id
  /\ \A y \in Id \ {x} :
       /\ tries'[y] = tries[y] /\ sub_of'[y] = sub_of[y] /\ results'[y] = results[y]
       /\ done'[y] = done[y] /\ batch_of'[y] = batch_of[y]
       /\ pending_callback'[y] = pending_callback[y] /\ (y \in owed' => y \in owed)
  /\ \A b \in Queued' : b.id # x => b \in Queued

\* Such a step has only x to answer for.
LEMMA OneBudget ==
  ASSUME BudgetInv, NEW x \in Id, Aside(x), BudgetOf(x)'
  PROVE  BudgetInv'
<1> SUFFICES ASSUME NEW y \in Id, y # x PROVE BudgetOf(y)'
  BY ZenonT(40) DEF BudgetInv, Aside
<1>1. /\ tries'[y] = tries[y] /\ sub_of'[y] = sub_of[y] /\ results'[y] = results[y]
      /\ done'[y] = done[y] /\ batch_of'[y] = batch_of[y]
      /\ pending_callback'[y] = pending_callback[y] /\ (y \in owed' => y \in owed)
      /\ \A b \in Queued' : b.id = y => b \in Queued
  BY Zenon DEF Aside
<1>2. CurrentLogic(y)' = CurrentLogic(y)
  BY <1>1, ZenonT(40) DEF CurrentLogic
<1>3. (y \in Unfinished') => y \in Unfinished
  BY <1>1, Zenon DEF Unfinished, Accepted
<1>4. GaveUp(y)' <=> GaveUp(y)
  BY <1>1, Zenon DEF GaveUp
<1>5. BudgetOf(y)
  BY Zenon DEF BudgetInv
<1> QED BY <1>1, <1>2, <1>3, <1>4, <1>5, ZenonT(40) DEF BudgetOf, TriedOut

\* What is known of a batch x that a handler works on: the logic it looks up is that
\* of the current function.
LEMMA HandledLogic ==
  ASSUME PInv, NEW x, NEW qs, NEW ix, NEW batch, Handling(x, qs, ix, batch)
  PROVE  LET index == IF ix[x] = None THEN 0 ELSE ix[x]
         IN /\ index \in Nat /\ index < Len(sub_of[x].functions)
            /\ CurrentLogic(x) = RetryLogic(batch.sub, index)
            /\ CurrentLogic(x) \in RetryLogicType \cup {None}
            /\ sub_of[x] \in Subroutine /\ Amounts(batch) \in Nat
<1> DEFINE index == IF ix[x] = None THEN 0 ELSE ix[x]
<1>1. /\ x \in Id /\ sub_of[x] \in Subroutine /\ batch \in Batch /\ batch.sub = sub_of[x]
      /\ ix[x] \in Nat \cup {None}
      /\ ix[x] # None => ix[x] < Len(sub_of[x].functions)
      /\ done[x] = IF ix[x] = None THEN {} ELSE 0 .. ix[x] - 1
  <2>1. /\ x \in Id /\ sub_of[x] # None /\ batch \in Batch /\ batch.sub = sub_of[x]
        /\ ix \in [Id -> Nat \cup {None}] /\ (ix[x] # None => ix[x] < Len(sub_of[x].functions))
        /\ done[x] = IF ix[x] = None THEN {} ELSE 0 .. ix[x] - 1
    BY Zenon DEF Handling, CopyOf
  <2>2. sub_of \in [Id -> Subroutine \cup {None}]
    BY Zenon DEF PInv, StorageTyped
  <2> QED BY <2>1, <2>2, ZenonT(40)
<1>2. index \in Nat /\ index < Len(sub_of[x].functions) /\ done[x] = 0 .. index - 1
  <2>1. Len(sub_of[x].functions) \in Nat \ {0} /\ 0 .. 0 - 1 = {}
    BY <1>1, SubroutineParts
  <2>2. CASE ix[x] = None
    BY <1>1, <2>1, <2>2
  <2>3. CASE ix[x] # None
    <3>1. index = ix[x] /\ ix[x] \in Nat
      BY <1>1, <2>3, Zenon
    <3> QED BY <1>1, <2>3, <3>1, Zenon
  <2> QED BY <2>2, <2>3, Zenon
<1> HIDE DEF index
<1>3. /\ FirstMissing(done[x], Len(sub_of[x].functions)) = index
      /\ RetryLogic(sub_of[x], index) \in RetryLogicType \cup {None}
  BY <1>1, <1>2, CurrentFunction, Zenon
<1>4. CurrentLogic(x) = RetryLogic(batch.sub, index)
  BY <1>1, <1>3, Zenon DEF CurrentLogic
<1> QED BY <1>1, <1>2, <1>3, <1>4, AmountsTyped, ZenonT(40) DEF index

\* The outcomes of a failure of batch, a copy of x.
GivenUpOrCounted(x, batch) ==
  /\ \A y \in Id \ {x} : results'[y] = results[y] /\ batch_of'[y] = batch_of[y]
  /\ \A b \in Queued' : b.id # x => b \in Queued
  /\ \/ /\ CurrentLogic(x) = None \/ Exhausted(CurrentLogic(x), Amounts(batch))
        /\ results'[x] # <<>>
     \/ /\ CurrentLogic(x) # None /\ ~Exhausted(CurrentLogic(x), Amounts(batch))
        /\ results'[x] = <<>> /\ Amounts(batch_of'[x]) = Amounts(batch) + 1
        /\ \A b \in Queued' : b.id = x => Amounts(b) = Amounts(batch) + 1

\* A failure: the batch is given up, or its copies count one more.
LEMMA FailureCounts ==
  ASSUME PInv, PInv', NEW x, NEW qs, NEW ix, NEW batch, Handling(x, qs, ix, batch), sub_of' = sub_of,
         handle_unsuccessful_callback(qs, ix, batch)
  PROVE  GivenUpOrCounted(x, batch)
<1> DEFINE index == IF ix[x] = None THEN 0 ELSE ix[x]
           l == RetryLogic(batch.sub, index)
           a == Amounts(batch)
<1>1. /\ index \in Nat /\ CurrentLogic(x) = l /\ l \in RetryLogicType \cup {None}
      /\ a \in Nat /\ sub_of[x] \in Subroutine
  BY HandledLogic, Zenon
<1>2. /\ x \in Id /\ batch.id = x /\ batch \in Batch /\ results[x] = <<>>
      /\ TypedQueues(qs) /\ Unique(qs) /\ Absent(qs, x)
      /\ \A b \in Batch : b.id # x => (b \in Entries(qs) <=> b \in Entries(queues))
  BY ZenonT(40) DEF Handling, CopyOf
<1>3. /\ results \in [Id -> Seq(ExecutionResult)] /\ batch_of \in [Id -> Batch \cup {None}]
      /\ \A b \in Queued' : b \in Batch
  BY QueuedEntries, EntryTyped, Zenon DEF PInv, StorageTyped
<1>4. \/ /\ l = None \/ Exhausted(l, a)
         /\ \E k, n : report(x, k, n)
         /\ clean_up(x, ix) /\ queues' = qs
      \/ /\ l # None /\ ~Exhausted(l, a)
         /\ put_back_into_queue(qs, batch, a, l) /\ no_report
  <2>1. batch.id = x
    BY <1>2, Zenon
  <2> QED BY <2>1, Zenon DEF handle_unsuccessful_callback, Amounts
<1> HIDE DEF index, l, a
<1>5. CASE /\ l = None \/ Exhausted(l, a)
           /\ \E k, n : report(x, k, n)
           /\ clean_up(x, ix) /\ queues' = qs
  <2>1. PICK r : results' = [results EXCEPT ![x] = Append(@, r)]
    BY <1>5, Zenon DEF report
  <2>2. results'[x] = Append(<<>>, r) /\ \A y \in Id \ {x} : results'[y] = results[y]
    BY <1>2, <1>3, <2>1, Zenon
  <2>3. Append(<<>>, r) # <<>>
    OBVIOUS
  <2>4. \A y \in Id \ {x} : batch_of'[y] = batch_of[y]
    BY <1>3, <1>5, Zenon DEF clean_up
  <2>5. \A b \in Queued' : b.id # x => b \in Queued
    BY <1>2, <1>3, <1>5, QueuedEntries, Zenon
  <2> QED BY <1>1, <1>5, <2>2, <2>3, <2>4, <2>5, ZenonT(40) DEF a, GivenUpOrCounted
<1>6. CASE /\ l # None /\ ~Exhausted(l, a)
           /\ put_back_into_queue(qs, batch, a, l) /\ no_report
  <2> DEFINE retry == [amounts |-> a + 1, cooldown |-> l.interval]
             b == [batch EXCEPT !.retry = retry]
  <2>1. retry \in [amounts : Nat, cooldown : Nat] /\ retry.amounts = a + 1
    BY <1>1, <1>6 DEF RetryLogicType
  <2>2. queues' = Pushed(qs, b) /\ batch_of' = [batch_of EXCEPT ![b.id] = b]
    BY <1>6, Zenon DEF put_back_into_queue
  <2>3. retry # None
    BY <2>1, ProcessorConstants, Zenon
  <2> HIDE DEF retry
  <2>4. b \in Batch /\ b.id = x /\ b.retry = retry /\ b.priority \in Priority
    BY <1>2, <2>1, Zenon DEF Batch
  <2> HIDE DEF b
  <2>5. Amounts(b) = a + 1
    BY <2>1, <2>3, <2>4, Zenon DEF Amounts
  <2>6. batch_of'[x] = b /\ \A y \in Id \ {x} : batch_of'[y] = batch_of[y]
    BY <1>2, <1>3, <2>2, <2>4, Zenon
  <2>7. Entries(queues') = Entries(qs) \cup {b}
    <3>1. Absent(qs, b.id)
      BY <1>2, <2>4, Zenon
    <3>2. Entries([qs EXCEPT ![b.priority] = Append(@, b)]) = Entries(qs) \cup {b}
      BY <1>2, <2>4, <3>1, PushQueue, Zenon
    <3> QED BY <2>2, <3>2, Zenon DEF Pushed
  <2>8. /\ \A c \in Queued' : c.id = x => c = b
        /\ \A c \in Queued' : c.id # x => c \in Queued
    BY <1>2, <1>3, <2>4, <2>7, QueuedEntries, Zenon DEF Absent
  <2>9. results' = results
    BY <1>6, Zenon DEF no_report
  <2> QED BY <1>1, <1>2, <1>6, <2>5, <2>6, <2>8, <2>9, ZenonT(40) DEF a, GivenUpOrCounted
<1> QED BY <1>4, <1>5, <1>6, Zenon

\* The outcomes of a success.
EndedOrUpNext(x) ==
  /\ \A y \in Id \ {x} : results'[y] = results[y] /\ batch_of'[y] = batch_of[y]
  /\ \A b \in Queued' : b.id # x => b \in Queued
  /\ \/ results'[x] # <<>> /\ x \notin Unfinished'
     \/ /\ results'[x] = <<>> /\ done'[x] # {}
        /\ CurrentLogic(x)' \in RetryLogicType \cup {None}

\* A function that completes: the batch ends, or its next function is up.
LEMMA SuccessMovesOn ==
  ASSUME PInv, PInv', NEW x, NEW qs, NEW ix, NEW batch, Handling(x, qs, ix, batch), sub_of' = sub_of,
         handle_successful_non_atomic_callback(qs, ix, batch), done'[x] = 0 .. ix[x], ix[x] # None
  PROVE  EndedOrUpNext(x)
<1> DEFINE next == ix[x] + 1
           n == Len(sub_of[x].functions)
<1>1. /\ x \in Id /\ batch.id = x /\ batch.sub = sub_of[x] /\ batch \in Batch /\ results[x] = <<>>
      /\ TypedQueues(qs) /\ Unique(qs) /\ Absent(qs, x) /\ ix[x] \in Nat \cup {None}
      /\ \A b \in Batch : b.id # x => (b \in Entries(qs) <=> b \in Entries(queues))
      /\ sub_of[x] \in Subroutine
  BY ZenonT(40) DEF Handling, CopyOf, PInv, StorageTyped
<1>2. /\ results \in [Id -> Seq(ExecutionResult)] /\ batch_of \in [Id -> Batch \cup {None}]
      /\ \A b \in Queued' : b \in Batch
  BY QueuedEntries, EntryTyped, ZenonT(40) DEF PInv, StorageTyped
<1>3. next \in Nat /\ n \in Nat /\ ix[x] \in Nat
      /\ 0 .. ix[x] = 0 .. next - 1 /\ 0 \in 0 .. ix[x] /\ ix[x] < n
  <2>1. ix[x] \in Nat /\ n \in Nat /\ ix[x] < n
    BY <1>1, SubroutineParts, Zenon DEF Handling
  <2> QED BY <2>1
<1>4. \/ next >= n /\ report(x, "Success", 0) /\ clean_up(x, ix) /\ queues' = qs
      \/ /\ next < n /\ queues' = Pushed(qs, [batch EXCEPT !.retry = None])
         /\ no_report /\ UNCHANGED batch_of
  <2>1. batch.id = x /\ batch.sub.functions = sub_of[x].functions
    BY <1>1, ZenonT(40)
  <2> QED BY <2>1, Zenon DEF handle_successful_non_atomic_callback
<1>5. CASE next >= n /\ report(x, "Success", 0) /\ clean_up(x, ix) /\ queues' = qs
  <2>1. PICK r : results' = [results EXCEPT ![x] = Append(@, r)]
    BY <1>5, Zenon DEF report
  <2>2. results'[x] = Append(<<>>, r) /\ \A y \in Id \ {x} : results'[y] = results[y]
    BY <1>1, <1>2, <2>1, Zenon
  <2>3. Append(<<>>, r) # <<>>
    OBVIOUS
  <2>4. \A y \in Id \ {x} : batch_of'[y] = batch_of[y]
    BY <1>2, <1>5, Zenon DEF clean_up
  <2>5. \A b \in Queued' : b.id # x => b \in Queued
    BY <1>1, <1>2, <1>5, QueuedEntries, ZenonT(40)
  <2>6. x \notin Unfinished'
    <3>1. done'[x] = 0 .. Len(sub_of'[x].functions) - 1
      BY <1>1, <1>3, <1>5
    <3> QED BY <3>1, Zenon DEF Unfinished
  <2> QED BY <2>2, <2>3, <2>4, <2>5, <2>6, Zenon DEF EndedOrUpNext
<1>6. CASE /\ next < n /\ queues' = Pushed(qs, [batch EXCEPT !.retry = None])
           /\ no_report /\ UNCHANGED batch_of
  <2> DEFINE b == [batch EXCEPT !.retry = None]
  <2>1. b \in Batch /\ b.id = x /\ b.priority \in Priority
    BY <1>1, Zenon DEF Batch
  <2>2. queues' = Pushed(qs, b)
    BY <1>6, Zenon
  <2> HIDE DEF b
  <2>3. Entries(queues') = Entries(qs) \cup {b}
    <3>1. Absent(qs, b.id)
      BY <1>1, <2>1, Zenon
    <3>2. Entries([qs EXCEPT ![b.priority] = Append(@, b)]) = Entries(qs) \cup {b}
      BY <1>1, <2>1, <3>1, PushQueue, ZenonT(40)
    <3> QED BY <2>2, <3>2, Zenon DEF Pushed
  <2>4. \A c \in Queued' : c.id # x => c \in Queued
    BY <1>1, <1>2, <2>1, <2>3, QueuedEntries, Zenon
  <2>5. results' = results /\ batch_of' = batch_of
    BY <1>6, Zenon DEF no_report
  <2>6. CurrentLogic(x)' \in RetryLogicType \cup {None}
    <3>1. /\ FirstMissing(0 .. next - 1, Len(sub_of[x].functions)) = next
          /\ RetryLogic(sub_of[x], next) \in RetryLogicType \cup {None}
      BY <1>1, <1>3, <1>6, CurrentFunction, Zenon
    <3> QED BY <1>3, <3>1, Zenon DEF CurrentLogic
  <2> QED BY <1>1, <1>3, <2>4, <2>5, <2>6, Zenon DEF EndedOrUpNext
<1> QED BY <1>4, <1>5, <1>6, Zenon

\* A batch that moved on: its current function is not tried yet.
LEMMA MovedOn ==
  ASSUME PInv, PInv', BudgetInv, NEW x \in Id, sub_of'[x] # None, tries'[x] = 0, x \notin owed',
         \/ results'[x] # <<>> /\ x \notin Unfinished'
         \/ /\ results'[x] = <<>> /\ done'[x] # {}
            /\ CurrentLogic(x)' \in RetryLogicType \cup {None}
  PROVE  BudgetOf(x)'
<1>1. \A b \in Queued' : b \in Batch /\ (b.id = x => batch_of'[x] \in Batch)
  <2>1. \A b \in Queued' : b \in Batch /\ b.id \in Id
    BY QueuedEntries, EntryTyped, ZenonT(40) DEF PInv, StorageTyped
  <2>2. ASSUME NEW b \in Queued', b.id = x PROVE batch_of'[x] \in Batch
    <3>1. IsQueued(x)' /\ IdInv(x)'
      BY <2>2, Zenon DEF IsQueued, PInv
    <3>2. batch_of'[x] # None
      BY <3>1, ZenonT(40) DEF IdInv, Live, CopyOf
    <3> QED BY <3>2, Zenon DEF PInv, StorageTyped
  <2> QED BY <2>1, <2>2, Zenon
<1>2. CASE results'[x] # <<>> /\ x \notin Unfinished'
  BY <1>2, SMTT(30) DEF BudgetOf
<1>3. CASE /\ results'[x] = <<>> /\ done'[x] # {}
           /\ CurrentLogic(x)' \in RetryLogicType \cup {None}
  <2>1. ASSUME NEW b \in Queued', b.id = x
        PROVE  TriesLeft(tries'[x], done'[x] = {}, CurrentLogic(x)', Amounts(b), Amounts(batch_of'[x]))
    <3>1. Amounts(b) \in Nat /\ Amounts(batch_of'[x]) \in Nat
      BY <1>1, <2>1, AmountsTyped, Zenon
    <3>2. TriesLeft(0, FALSE, CurrentLogic(x)', Amounts(b), Amounts(batch_of'[x]))
      BY <1>3, <3>1, FreshFunction, Zenon
    <3>3. (done'[x] = {}) = FALSE
      BY <1>3, Zenon
    <3> QED BY <3>2, <3>3, Zenon
  <2> QED BY <1>3, <2>1 DEF BudgetOf, TriesLeft
<1> QED BY <1>2, <1>3, Zenon

\* A batch that failed after a tick.
LEMMA FailedOnTick ==
  ASSUME PInv, PInv', BudgetInv, NEW c \in Queued, NEW x \in Id, x = c.id, sub_of[x] # None,
         results[x] = <<>>,
         NEW l \in RetryLogicType \cup {None}, l = CurrentLogic(x), l = CurrentLogic(x)',
         done'[x] = done[x], sub_of'[x] = sub_of[x], tries'[x] = tries[x] + 1, x \notin owed',
         NEW s \in Nat, s = Amounts(batch_of[x]),
         \/ /\ l = None \/ Exhausted(l, s)
            /\ results'[x] # <<>>
         \/ /\ l # None /\ ~Exhausted(l, s)
            /\ results'[x] = <<>> /\ Amounts(batch_of'[x]) = s + 1
            /\ \A b \in Queued' : b.id = x => Amounts(b) = s + 1
  PROVE  BudgetOf(x)'
<1> DEFINE t == tries[x]
           q == Amounts(c)
<1>1. t \in Nat /\ q \in Nat /\ TriesLeft(t, done[x] = {}, l, q, s)
  <2>1. c \in Batch
    BY QueuedEntries, EntryTyped, ZenonT(40) DEF PInv, StorageTyped
  <2> QED BY <2>1, AmountsTyped, ZenonT(40) DEF BudgetInv, BudgetOf
<1>2. (done[x] = {}) \in BOOLEAN
  BY Zenon
<1>3. /\ l # None /\ ~Exhausted(l, s) => TriesLeft(t + 1, done[x] = {}, l, s + 1, s + 1)
      /\ l = None \/ Exhausted(l, s) => TriedOut(t + 1, done[x] = {}, l, TRUE)
  BY <1>1, <1>2, FailedTick, ZenonT(40)
<1>4. CASE /\ l = None \/ Exhausted(l, s)
           /\ results'[x] # <<>>
  <2>1. TriedOut(t + 1, done[x] = {}, l, TRUE)
    BY <1>3, <1>4, Zenon
  <2>2. TriedOut(tries'[x], done'[x] = {}, CurrentLogic(x)', GaveUp(x)')
    BY <2>1, ZenonT(40) DEF TriedOut
  <2> QED BY <1>1, <1>4, <2>2 DEF BudgetOf, TriedOut
<1>5. CASE /\ l # None /\ ~Exhausted(l, s)
           /\ results'[x] = <<>> /\ Amounts(batch_of'[x]) = s + 1
           /\ \A b \in Queued' : b.id = x => Amounts(b) = s + 1
  <2>1. TriesLeft(t + 1, done[x] = {}, l, s + 1, s + 1)
    BY <1>3, <1>5, Zenon
  <2> QED BY <1>1, <1>5, <2>1 DEF BudgetOf, TriesLeft
<1> QED BY <1>4, <1>5, Zenon

\* A batch of which the library tells a failure.
LEMMA FailedOnCallback ==
  ASSUME PInv, PInv', BudgetInv, NEW x \in owed, x \in Id, sub_of[x] # None, results[x] = <<>>,
         NEW l \in RetryLogicType \cup {None}, l = CurrentLogic(x), l = CurrentLogic(x)',
         done'[x] = done[x], sub_of'[x] = sub_of[x], tries'[x] = tries[x], x \notin owed',
         NEW s \in Nat, s = Amounts(pending_callback[x]),
         \/ /\ l = None \/ Exhausted(l, s)
            /\ results'[x] # <<>>
         \/ /\ l # None /\ ~Exhausted(l, s)
            /\ results'[x] = <<>> /\ Amounts(batch_of'[x]) = s + 1
            /\ \A b \in Queued' : b.id = x => Amounts(b) = s + 1
  PROVE  BudgetOf(x)'
<1> DEFINE t == tries[x]
<1>1. t \in Nat /\ Trying(t, done[x] = {}, l, s)
  BY Zenon DEF BudgetInv, BudgetOf
<1>2. (done[x] = {}) \in BOOLEAN
  BY Zenon
<1>3. /\ l # None /\ ~Exhausted(l, s) => TriesLeft(t, done[x] = {}, l, s + 1, s + 1)
      /\ l = None \/ Exhausted(l, s) => TriedOut(t, done[x] = {}, l, TRUE)
  BY <1>1, <1>2, FailedCallback, Zenon
<1>4. CASE /\ l = None \/ Exhausted(l, s)
           /\ results'[x] # <<>>
  <2>1. TriedOut(t, done[x] = {}, l, TRUE)
    BY <1>3, <1>4, Zenon
  <2>2. TriedOut(tries'[x], done'[x] = {}, CurrentLogic(x)', GaveUp(x)')
    BY <2>1, ZenonT(40) DEF TriedOut
  <2> QED BY <1>1, <1>4, <2>2, Zenon DEF BudgetOf, TriedOut
<1>5. CASE /\ l # None /\ ~Exhausted(l, s)
           /\ results'[x] = <<>> /\ Amounts(batch_of'[x]) = s + 1
           /\ \A b \in Queued' : b.id = x => Amounts(b) = s + 1
  <2>1. TriesLeft(t, done[x] = {}, l, s + 1, s + 1)
    BY <1>3, <1>5, Zenon
  <2> QED BY <1>1, <1>5, <2>1, Zenon DEF BudgetOf, TriesLeft
<1> QED BY <1>4, <1>5, Zenon
=============================================================================

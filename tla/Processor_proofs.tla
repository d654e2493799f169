-------------------------- MODULE Processor_proofs --------------------------
(***************************************************************************)
(* No batch of a processor is lost, doubled or reported twice, what the    *)
(* handlers read is there, functions run in order, and results tell what   *)
(* ran.  The inductive invariant is in Processor_invariant.  Results are   *)
(* delivered once (DeliveryInv), and storage keeps its types (OwnCopies).  *)
(***************************************************************************)
EXTENDS Processor_invariant

\* The empty set has no element.
LEMMA NoneCounted == Cardinality({}) = 0
<1> DEFINE body(CS) == [T \in SUBSET {} |-> IF T = {} THEN 0 ELSE 1 + CS[T \ {CHOOSE x : x \in T}]]
           CS == CHOOSE g : g = body(g)
           z == [T \in SUBSET {} |-> 0]
<1>1. Cardinality({}) = CS[{}]
  BY Zenon DEF Cardinality
<1>2. z = body(z)
  BY Zenon
<1>3. CS = body(CS)
  <2> HIDE DEF body, z
  <2> QED BY <1>2, Zenon
<1> HIDE DEF CS
<1> QED BY <1>1, <1>3, Zenon

\* A singleton has one.
LEMMA OneCounted == ASSUME NEW k PROVE Cardinality({k}) = 1
<1> DEFINE body(CS) == [T \in SUBSET {k} |-> IF T = {} THEN 0 ELSE 1 + CS[T \ {CHOOSE x : x \in T}]]
           CS == CHOOSE g : g = body(g)
           z == [T \in SUBSET {k} |-> IF T = {} THEN 0 ELSE 1]
<1>1. Cardinality({k}) = CS[{k}]
  BY Zenon DEF Cardinality
<1>2. z = body(z)
  <2>1. ASSUME NEW T \in SUBSET {k}, T # {} PROVE T \ {CHOOSE x : x \in T} = {}
    <3>1. T = {k}
      BY <2>1, Zenon
    <3>2. (CHOOSE x : x \in T) \in T
      BY <2>1, Zenon
    <3> QED BY <3>1, <3>2, Zenon
  <2>2. ASSUME NEW T \in SUBSET {k} PROVE z[T] = body(z)[T]
    <3>1. z[{}] = 0
      BY Zenon
    <3> QED BY <2>1, <3>1
  <2> QED BY <2>2, Zenon
<1>3. CS = body(CS)
  <2> HIDE DEF body, z
  <2> QED BY <1>2, Zenon
<1> HIDE DEF CS
<1>4. CS[{}] = 0
  BY <1>3, Zenon
<1>5. {k} \ {CHOOSE x : x \in {k}} = {}
  BY Zenon
<1>6. CS[{k}] = 1 + CS[{k} \ {CHOOSE x : x \in {k}}]
  BY <1>3, Zenon
<1> QED BY <1>1, <1>4, <1>5, <1>6

\* An id is at no place of the queues, or at one.
LEMMA Placed ==
  ASSUME PInv, NEW id \in Id
  PROVE  QueuedTimes(id) = Count(IsQueued(id))
<1> DEFINE H == Occurrences(queues["High"], id)
           M == Occurrences(queues["Medium"], id)
<1>1. /\ \A i \in H : i \in 1 .. Len(queues["High"]) /\ queues["High"][i].id = id
      /\ \A i \in M : i \in 1 .. Len(queues["Medium"]) /\ queues["Medium"][i].id = id
      /\ IsQueued(id) <=> (H # {} \/ M # {})
  BY DEF IsQueued, Queued, Occurrences, Priority
<1> HIDE DEF H, M
<1>2. /\ \A i, j \in H : i = j
      /\ \A i, j \in M : i = j
      /\ H = {} \/ M = {}
  <2>1. "High" \in Priority /\ "Medium" \in Priority /\ Unique(queues)
    BY Zenon DEF Priority, PInv
  <2>2. \A i, j \in H : queues["High"][i].id = queues["High"][j].id
    BY <1>1, Zenon
  <2>3. \A i, j \in M : queues["Medium"][i].id = queues["Medium"][j].id
    BY <1>1, Zenon
  <2>4. \A i \in H, j \in M : queues["High"][i].id = queues["Medium"][j].id
    BY <1>1, Zenon
  <2>5. \A i, j \in H : i = j
    BY <1>1, <2>1, <2>2 DEF Unique
  <2>6. \A i, j \in M : i = j
    BY <1>1, <2>1, <2>3 DEF Unique
  <2>7. H = {} \/ M = {}
    BY <1>1, <2>1, <2>4 DEF Unique
  <2> QED BY <2>5, <2>6, <2>7, Zenon
<1>3. H = {} \/ \E i : H = {i}
  BY <1>2
<1>4. M = {} \/ \E i : M = {i}
  BY <1>2
<1>5. \A i : Cardinality({i}) = 1
  BY OneCounted, Zenon
<1>6. Cardinality({}) = 0
  BY NoneCounted, Zenon
<1>7. QueuedTimes(id) = Cardinality(H) + Cardinality(M)
  BY Zenon DEF QueuedTimes, H, M
<1>8. CASE H = {} /\ M = {}
  <2>1. ~IsQueued(id) /\ Cardinality(H) = 0 /\ Cardinality(M) = 0
    BY <1>1, <1>6, <1>8, Zenon
  <2> QED BY <1>7, <2>1 DEF Count
<1>9. CASE H # {} /\ M = {}
  <2>1. IsQueued(id) /\ Cardinality(H) = 1 /\ Cardinality(M) = 0
    BY <1>1, <1>3, <1>5, <1>6, <1>9, Zenon
  <2> QED BY <1>7, <2>1 DEF Count
<1>10. CASE H = {} /\ M # {}
  <2>1. IsQueued(id) /\ Cardinality(H) = 0 /\ Cardinality(M) = 1
    BY <1>1, <1>4, <1>5, <1>6, <1>10, Zenon
  <2> QED BY <1>7, <2>1 DEF Count
<1> QED BY <1>2, <1>8, <1>9, <1>10, Zenon

\* At most one.
LEMMA ZeroOrOne ==
  ASSUME NEW n \in Nat, n <= 1 PROVE n # 0 => n = 1
  OBVIOUS

\* The list without results.
LEMMA NoResult ==
  ASSUME NEW S, NEW r \in Seq(S) PROVE Len(r) \in Nat /\ (Len(r) = 0 => r = <<>>)
  OBVIOUS

\* A batch that arrived is queued once, or waits for its library, or is reported
\* once: process_tick, reply, process_callback, evict_messages and insert_messages
\* lose none, queue none twice and report none twice.
THEOREM NothingLostOrDoubled == Spec => []ExactlyOnePlace
<1>1. PInv => ExactlyOnePlace
  <2> SUFFICES ASSUME PInv, NEW id \in Accepted
               PROVE  QueuedTimes(id) + Count(id \in owed) + Len(results[id]) = 1
    BY Zenon DEF ExactlyOnePlace
  <2>1. id \in Id /\ sub_of[id] # None /\ IdInv(id) /\ results[id] \in Seq(ExecutionResult)
    BY Zenon DEF Accepted, PInv, StorageTyped
  <2>2. Len(<<>>) = 0
    BY Zenon
  <2>3. results[id] # <<>> => Len(results[id]) = 1
    <3>1. Len(results[id]) <= 1
      BY <2>1, Zenon DEF IdInv
    <3>2. Len(results[id]) \in Nat /\ (Len(results[id]) = 0 => results[id] = <<>>)
      BY <2>1, NoResult, Zenon
    <3>3. Len(results[id]) # 0 => Len(results[id]) = 1
      BY <3>1, <3>2, ZeroOrOne, Zenon
    <3> QED BY <3>2, <3>3, Zenon
  <2>4. CASE IsQueued(id)
    BY <2>1, <2>2, <2>4, Placed DEF IdInv, Count
  <2>5. CASE ~IsQueued(id) /\ id \in owed
    BY <2>1, <2>2, <2>5, Placed DEF IdInv, Count
  <2>6. CASE ~IsQueued(id) /\ id \notin owed
    BY <2>1, <2>3, <2>6, Placed DEF IdInv, Count
  <2> QED BY <2>4, <2>5, <2>6, Zenon
<1> QED BY <1>1, Invariant, PTL

\* reply() and process_callback always find the batch, the index and the pending
\* callback they load, and the index names a function of the batch.
THEOREM RepliesFindTheirBatch == Spec => []StorageServesReply
<1>1. PInv => StorageServesReply
  <2> SUFFICES ASSUME PInv PROVE StorageServesReply
    BY Zenon
  <2>1. \A b \in Queued : b.id \in Id
    BY QueuedEntries, EntryTyped, Zenon DEF PInv, StorageTyped
  <2>2. \A b \in Queued : CopyOf(b, b.id) /\ Live(b.id)
    <3> SUFFICES ASSUME NEW b \in Queued PROVE CopyOf(b, b.id) /\ Live(b.id)
      BY Zenon
    <3>1. b.id \in Id /\ IsQueued(b.id) /\ IdInv(b.id)
      BY <2>1, Zenon DEF PInv, IsQueued
    <3> QED BY <3>1, Zenon DEF IdInv, Live
  <2>3. \A id \in owed : Live(id)
    BY Zenon DEF PInv, StorageTyped, IdInv
  <2>4. \A b \in Queued :
          /\ batch_of[b.id] # None
          /\ batch_of[b.id].sub = b.sub /\ batch_of[b.id].priority = b.priority
          /\ b.sub.atomic => fn_index[b.id] = None
          /\ fn_index[b.id] # None => fn_index[b.id] < Len(b.sub.functions)
          /\ pending_callback[b.id] # None =>
               fn_index[b.id] # None /\ b.sub.functions[fn_index[b.id] + 1].confirm
    BY <2>2, ZenonT(40) DEF Live, CopyOf
  <2>5. \A id \in owed :
          /\ fn_index[id] # None /\ pending_callback[id] # None /\ batch_of[id] # None
          /\ fn_index[id] < Len(pending_callback[id].sub.functions)
    BY <2>3, Zenon DEF Live, CopyOf
  <2> QED BY <2>4, <2>5, Zenon DEF StorageServesReply
<1> QED BY <1>1, Invariant, PTL

\* The stored index counts the functions that completed: none is skipped and none
\* that completed runs again.
THEOREM IndexCountsWhatRan == Spec => []FunctionsInOrder
<1>1. PInv => FunctionsInOrder
  BY Zenon DEF PInv, IdInv, Live, FunctionsInOrder, Accepted
<1> QED BY <1>1, Invariant, PTL

\* A result names the functions that ran.
THEOREM ReportsAreTrue == Spec => []ResultsTellTheTruth
<1>1. PInv => ResultsTellTheTruth
  BY Zenon DEF PInv, IdInv, TrueOf, ResultsTellTheTruth, Accepted
<1> QED BY <1>1, Invariant, PTL

-----------------------------------------------------------------------------
\* A packet, and the fate of those that carry one result: S are the packets of an
\* id, p its entry of PENDING_POLYTONE_CALLBACKS and r its results.
IsPacket(k) ==
  /\ DOMAIN k = {"id", "n", "result", "reply", "acked"} /\ k = [f \in DOMAIN k |-> k[f]]
  /\ k.id \in Id /\ k.result \in ExecutionResult
  /\ k.reply \in {"none"} \cup BridgeReply /\ k.acked \in BOOLEAN

Tracked(S, p, r) ==
  /\ r = <<>> => S = {} /\ p = None
  /\ p # None => p.result = r[1]
  /\ (\E k \in S : ~k.acked) <=> (p # None /\ p.state = "Pending")
  /\ \A k, l \in S : (~k.acked /\ ~l.acked => k = l) /\ (k.reply = "ok" /\ l.reply = "ok" => k = l)
  /\ \A k \in S : k.acked => k.reply # "none" /\ (k.reply = "ok" => p = None)
  /\ S # {} => p # None \/ \E k \in S : k.reply = "ok"

DeliveryInv ==
  /\ \A k \in packets : IsPacket(k)
  /\ pending_polytone \in [Id -> PolytoneCallback \cup {None}]
  /\ \A id \in Id : Tracked(Sends(id), pending_polytone[id], results[id])
  /\ proxy_state \in {None, "PendingResponse", "TimedOut", "Created", "UnexpectedError"}
  /\ proxy_sent <=> proxy_state = "PendingResponse"

\* A packet is put on the bridge when none is under way or was delivered.
LEMMA Sent ==
  ASSUME NEW S, NEW p \in PolytoneCallback \cup {None}, NEW r, Tracked(S, p, r),
         NEW x \in ExecutionResult, NEW n, NEW id \in Id, NEW t,
         \/ S = {} /\ t # <<>> /\ t[1] = x
         \/ p # None /\ p.state = "TimedOut" /\ p.result = x /\ t = r
  PROVE  LET k == [id |-> id, n |-> n, result |-> x, reply |-> "none", acked |-> FALSE]
             q == [result |-> x, state |-> "Pending"]
         IN /\ IsPacket(k) /\ q \in PolytoneCallback
            /\ Tracked(S \cup {k}, q, t)
<1> DEFINE k == [id |-> id, n |-> n, result |-> x, reply |-> "none", acked |-> FALSE]
           q == [result |-> x, state |-> "Pending"]
<1>1. IsPacket(k) /\ k.id = id /\ k.reply = "none" /\ k.acked = FALSE
  BY Zenon DEF IsPacket, BridgeReply
<1>2. q \in PolytoneCallback /\ q.result = x /\ q.state = "Pending"
  BY Zenon DEF PolytoneCallback
<1>3. q # None
  BY <1>2, ProcessorConstants, Zenon
<1> HIDE DEF k, q
<1>4. \A l \in S : l.acked /\ l.reply # "ok"
  BY ProcessorConstants, Zenon DEF Tracked
<1>5. t # <<>> /\ t[1] = x
  BY Zenon DEF Tracked
<1>6. Tracked(S \cup {k}, q, t)
  BY <1>1, <1>2, <1>3, <1>4, <1>5, Zenon DEF Tracked
<1> QED BY <1>1, <1>2, <1>6, Zenon DEF k, q

\* A packet meets its fate.
LEMMA Relayed ==
  ASSUME NEW S, NEW p, NEW r, Tracked(S, p, r), NEW k \in S, IsPacket(k), k.reply = "none",
         NEW a \in BridgeReply
  PROVE  LET l == [k EXCEPT !.reply = a]
         IN IsPacket(l) /\ l.id = k.id /\ Tracked((S \ {k}) \cup {l}, p, r)
<1> DEFINE l == [k EXCEPT !.reply = a]
<1>1. IsPacket(l) /\ l.id = k.id /\ l.reply = a /\ l.acked = k.acked
  BY Zenon DEF IsPacket
<1> HIDE DEF l
<1>2. ~k.acked /\ ~l.acked /\ p # None /\ p.state = "Pending"
  BY <1>1, Zenon DEF Tracked
<1>3. \A m \in S \ {k} : m.acked /\ m.reply # "ok"
  BY <1>2, Zenon DEF Tracked
<1>4. Tracked((S \ {k}) \cup {l}, p, r)
  BY <1>1, <1>2, <1>3, Zenon DEF Tracked
<1> QED BY <1>1, <1>4, Zenon DEF l

\* What an answer leaves of the record.
Noted(p, a) ==
  IF a = "ok" THEN None
  ELSE [p EXCEPT !.state = IF a = "timeout" THEN "TimedOut" ELSE "UnexpectedError"]

\* Its answer comes back.
LEMMA Answered ==
  ASSUME NEW S, NEW p \in PolytoneCallback \cup {None}, NEW r, Tracked(S, p, r),
         NEW k \in S, IsPacket(k), k.reply # "none", ~k.acked
  PROVE  LET l == [k EXCEPT !.acked = TRUE]
             q == Noted(p, k.reply)
         IN /\ IsPacket(l) /\ l.id = k.id /\ q \in PolytoneCallback \cup {None}
            /\ Tracked((S \ {k}) \cup {l}, q, r)
<1> DEFINE l == [k EXCEPT !.acked = TRUE]
           q == Noted(p, k.reply)
<1>1. IsPacket(l) /\ l.id = k.id /\ l.reply = k.reply /\ l.acked = TRUE
  BY ZenonT(40) DEF IsPacket
<1> HIDE DEF l
<1>2. p # None /\ p.state = "Pending" /\ p \in PolytoneCallback
  BY Zenon DEF Tracked
<1>3. \A m \in S \ {k} : m.acked /\ m.reply # "ok" /\ m.reply # "none"
  BY <1>2, Zenon DEF Tracked
<1>4. CASE k.reply = "ok"
  <2>1. Tracked((S \ {k}) \cup {l}, None, r)
    BY <1>1, <1>2, <1>3, <1>4, Zenon DEF Tracked
  <2>2. q = None
    BY <1>4, Zenon DEF Noted
  <2> QED BY <1>1, <2>1, <2>2, Zenon DEF l
<1>5. CASE k.reply # "ok"
  <2>1. q \in PolytoneCallback /\ q.result = p.result /\ q.state # "Pending"
    BY <1>2, <1>5, Zenon DEF PolytoneCallback, Noted
  <2>2. q # None
    BY <2>1, ProcessorConstants, Zenon
  <2>3. Tracked((S \ {k}) \cup {l}, q, r)
    BY <1>1, <1>2, <1>3, <1>5, <2>1, <2>2, Zenon DEF Tracked
  <2> QED BY <1>1, <2>1, <2>3, Zenon DEF l
<1> QED BY <1>4, <1>5, Zenon

\* The bridge of a processor where a step sends, changes or answers a packet of x.
LEMMA OnePacket ==
  ASSUME DeliveryInv, NEW x \in Id, NEW gone, NEW k, IsPacket(k),
         k.id = x, \A l \in gone : l.id = x, packets' = (packets \ gone) \cup {k},
         NEW q \in PolytoneCallback \cup {None}, pending_polytone' = [pending_polytone EXCEPT ![x] = q],
         \A y \in Id \ {x} : results'[y] = results[y],
         Tracked((Sends(x) \ gone) \cup {k}, q, results'[x]),
         UNCHANGED <<proxy_state, proxy_sent>>
  PROVE  DeliveryInv'
<1>1. \A l \in packets' : IsPacket(l)
  BY Zenon DEF DeliveryInv
<1>2. /\ pending_polytone' \in [Id -> PolytoneCallback \cup {None}] /\ pending_polytone'[x] = q
      /\ \A y \in Id \ {x} : pending_polytone'[y] = pending_polytone[y]
  BY Zenon DEF DeliveryInv
<1>3. Sends(x)' = (Sends(x) \ gone) \cup {k}
  BY Zenon DEF Sends
<1>4. \A y \in Id \ {x} : Sends(y)' = Sends(y)
  BY Zenon DEF Sends
<1>5. \A y \in Id : Tracked(Sends(y)', pending_polytone'[y], results'[y])
  <2>1. ASSUME NEW y \in Id, y # x PROVE Tracked(Sends(y)', pending_polytone'[y], results'[y])
    <3>1. /\ Sends(y)' = Sends(y) /\ pending_polytone'[y] = pending_polytone[y] /\ results'[y] = results[y]
          /\ Tracked(Sends(y), pending_polytone[y], results[y])
      BY <1>2, <1>4, <2>1, Zenon DEF DeliveryInv
    <3> QED BY <3>1, Zenon
  <2>2. Tracked(Sends(x)', pending_polytone'[x], results'[x])
    BY <1>2, <1>3, Zenon
  <2> QED BY <2>1, <2>2, Zenon
<1> QED BY <1>1, <1>2, <1>5, Zenon DEF DeliveryInv, Tracked

\* What a step of the queues does to the bridge: it reports a batch, or nothing.
Reports ==
  /\ no_report \/ \E x \in Id : \E kind, n : report(x, kind, n)
  /\ UNCHANGED <<proxy_state, proxy_sent>>

\* So do the handlers.
LEMMA HandlersReport ==
  ASSUME NEW qs, NEW ix, NEW batch, batch.id \in Id,
         \/ handle_successful_non_atomic_callback(qs, ix, batch)
         \/ handle_successful_atomic_callback(qs, ix, batch)
         \/ handle_unsuccessful_callback(qs, ix, batch)
  PROVE  no_report \/ \E x \in Id : \E kind, n : report(x, kind, n)
<1>1. CASE handle_successful_non_atomic_callback(qs, ix, batch)
  BY <1>1, Zenon DEF handle_successful_non_atomic_callback
<1>2. CASE handle_successful_atomic_callback(qs, ix, batch)
  BY <1>2, Zenon DEF handle_successful_atomic_callback
<1>3. CASE handle_unsuccessful_callback(qs, ix, batch)
  <2>1. \/ no_report
        \/ \E n : report(batch.id, "Rejected", n) \/ report(batch.id, "PartiallyExecuted", n)
    BY <1>3, Zenon DEF handle_unsuccessful_callback
  <2> QED BY <2>1, Zenon
<1> QED BY <1>1, <1>2, <1>3, Zenon

\* And reply() after a tick.
LEMMA ReplyReports ==
  ASSUME PInv, NEW x \in Id, NEW ok \in BOOLEAN, NEW qs, NEW ix, reply(x, ok, qs, ix), Live(x)
  PROVE  no_report \/ \E y \in Id : \E kind, n : report(y, kind, n)
<1>1. batch_of[x].id \in Id
  BY Zenon DEF Live, CopyOf
<1>2. \/ no_report
      \/ handle_successful_non_atomic_callback(qs, ix, batch_of[x])
      \/ handle_successful_atomic_callback(qs, ix, batch_of[x])
      \/ handle_unsuccessful_callback(qs, ix, batch_of[x])
  BY Zenon DEF reply
<1> QED BY <1>1, <1>2, HandlersReport, Zenon

\* Every step of the authorization module, a tick, a library and the clock.
LEMMA QueueStepsReport ==
  ASSUME PInv, \/ FromAuthorization \/ process_tick \/ pass_time
               \/ \E id \in Id, right \in BOOLEAN : process_callback(id, right)
  PROVE  Reports
<1>1. ASSUME NEW x \in Id \ Accepted, NEW sub \in Subroutine, NEW p \in Priority, NEW left \in Lifetime,
             \/ enqueue_messages(x, sub, p, left)
             \/ \E position \in 0 .. Len(queues[p]) : insert_messages(x, sub, p, left, position)
      PROVE  Reports
  <2>1. refuse_expired(x, sub, left) \/ \E b : accept(b)
    BY <1>1, Zenon DEF enqueue_messages, insert_messages
  <2>2. CASE refuse_expired(x, sub, left)
    BY <2>2, Zenon DEF refuse_expired, Reports
  <2>3. CASE \E b : accept(b)
    BY <2>3, Zenon DEF accept, Reports
  <2> QED BY <2>1, <2>2, <2>3, Zenon
<1>2. ASSUME NEW p \in Priority, NEW position \in 0 .. Len(queues[p]) - 1, evict_messages(position, p)
      PROVE  Reports
  <2>1. queues[p][position + 1] \in Batch
    BY DEF PInv, StorageTyped, TypedQueues
  <2>2. queues[p][position + 1].id \in Id
    BY <2>1, Zenon DEF Batch
  <2>3. /\ report(queues[p][position + 1].id, "RemovedByOwner", 0)
        /\ UNCHANGED <<proxy_state, proxy_sent>>
    BY <1>2, Zenon DEF evict_messages
  <2> QED BY <2>2, <2>3, Zenon DEF Reports
<1>3. CASE pause_processor \/ resume_processor \/ tick_cooling \/ pass_time
  BY <1>3, Zenon DEF pause_processor, resume_processor, set_state, tick_cooling, pass_time, observations,
              Reports, no_report
<1>4. CASE tick_expired
  <2>1. Front.id \in Id
    BY <1>4, FrontHandled, Zenon DEF tick_expired
  <2>2. (\E n : report(Front.id, "Expired", n)) /\ UNCHANGED <<proxy_state, proxy_sent>>
    BY <1>4, Zenon DEF tick_expired
  <2> QED BY <2>1, <2>2, Zenon DEF Reports
<1>5. ASSUME NEW ok \in BOOLEAN, tick_atomic(ok) \/ tick_function(ok)
      PROVE  Reports
  <2>1. Front.id \in Id /\ Live(Front.id)
    BY <1>5, FrontHandled, ZenonT(40) DEF tick_atomic, tick_function, Runnable
  <2>2. \E qs, ix : reply(Front.id, ok, qs, ix)
    BY <1>5, Zenon DEF tick_atomic, tick_function
  <2>3. UNCHANGED <<proxy_state, proxy_sent>>
    BY <1>5, Zenon DEF tick_atomic, tick_function
  <2> QED BY <2>1, <2>2, <2>3, ReplyReports, Zenon DEF Reports
<1>6. ASSUME NEW x \in Id, NEW right \in BOOLEAN, process_callback(x, right)
      PROVE  Reports
  <2>1. x \in owed /\ UNCHANGED <<proxy_state, proxy_sent>>
    BY <1>6, Zenon DEF process_callback
  <2>2. pending_callback[x].id \in Id
    BY <2>1, Zenon DEF PInv, IdInv, Live, CopyOf
  <2>3. \/ handle_successful_non_atomic_callback(queues, fn_index, pending_callback[x])
        \/ handle_unsuccessful_callback(queues, fn_index, pending_callback[x])
    BY <1>6, Zenon DEF process_callback
  <2> QED BY <2>1, <2>2, <2>3, HandlersReport, Zenon DEF Reports
<1>7. CASE FromAuthorization
  BY <1>1, <1>2, <1>3, <1>7, Zenon DEF FromAuthorization
<1>8. CASE process_tick
  BY <1>3, <1>4, <1>5, <1>8, Zenon DEF process_tick
<1> QED BY <1>3, <1>6, <1>7, <1>8, Zenon

\* Nothing is sent.
LEMMA QuietBridge ==
  ASSUME DeliveryInv, UNCHANGED <<pending_polytone, packets, results>>,
         proxy_state' \in {None, "PendingResponse", "TimedOut", "Created", "UnexpectedError"},
         proxy_sent' <=> proxy_state' = "PendingResponse"
  PROVE  DeliveryInv'
<1>1. \A id \in Id : Sends(id)' = Sends(id)
  BY Zenon DEF Sends
<1>2. \A id \in Id : Tracked(Sends(id)', pending_polytone'[id], results'[id])
  <2> SUFFICES ASSUME NEW id \in Id PROVE Tracked(Sends(id)', pending_polytone'[id], results'[id])
    BY Zenon
  <2>1. Tracked(Sends(id), pending_polytone[id], results[id])
    BY Zenon DEF DeliveryInv
  <2>2. Sends(id)' = Sends(id) /\ pending_polytone'[id] = pending_polytone[id] /\ results'[id] = results[id]
    BY <1>1, Zenon
  <2> QED BY <2>1, <2>2, Zenon
<1> QED BY <1>2, Zenon DEF DeliveryInv, Tracked

\* create_callback_message sends one more packet, off the main domain.
LEMMA MessageSent ==
  ASSUME DeliveryInv, NEW x \in Id, NEW r \in ExecutionResult, create_callback_message(x, r),
         UNCHANGED <<proxy_state, proxy_sent>>,
         \A y \in Id \ {x} : results'[y] = results[y],
         \/ results[x] = <<>> /\ results'[x] # <<>> /\ results'[x][1] = r
         \/ /\ pending_polytone[x] # None /\ pending_polytone[x].state = "TimedOut"
            /\ pending_polytone[x].result = r /\ results'[x] = results[x]
  PROVE  DeliveryInv'
<1> DEFINE n == Cardinality(Sends(x))
           k == [id |-> x, n |-> n, result |-> r, reply |-> "none", acked |-> FALSE]
           q == [result |-> r, state |-> "Pending"]
<1>1. /\ Tracked(Sends(x), pending_polytone[x], results[x])
      /\ pending_polytone[x] \in PolytoneCallback \cup {None}
  BY Zenon DEF DeliveryInv
<1>2. CASE ProcessorDomain = "Main"
  <2>1. UNCHANGED <<pending_polytone, packets>>
    BY <1>2, Zenon DEF create_callback_message
  <2>2. \A y \in Id : Sends(y)' = Sends(y)
    BY <2>1, Zenon DEF Sends
  <2>3. Tracked(Sends(x), pending_polytone[x], results'[x])
    <3>1. CASE results[x] = <<>> /\ results'[x] # <<>>
      BY <1>1, <3>1, Zenon DEF Tracked
    <3>2. CASE results'[x] = results[x]
      BY <1>1, <3>2, Zenon
    <3> QED BY <3>1, <3>2, Zenon
  <2>4. ASSUME NEW y \in Id PROVE Tracked(Sends(y)', pending_polytone'[y], results'[y])
    <3>1. CASE y = x
      BY <2>1, <2>2, <2>3, <3>1, Zenon
    <3>2. CASE y # x
      <4>1. Sends(y)' = Sends(y) /\ pending_polytone'[y] = pending_polytone[y] /\ results'[y] = results[y]
        BY <2>1, <2>2, <3>2, Zenon
      <4>2. Tracked(Sends(y), pending_polytone[y], results[y])
        BY Zenon DEF DeliveryInv
      <4> QED BY <4>1, <4>2, Zenon
    <3> QED BY <3>1, <3>2, Zenon
  <2> QED BY <2>1, <2>4, Zenon DEF DeliveryInv, Tracked
<1>3. CASE ProcessorDomain # "Main"
  <2>2. packets' = packets \cup {k} /\ pending_polytone' = [pending_polytone EXCEPT ![x] = q]
    BY <1>3, Zenon DEF create_callback_message
  <2> HIDE DEF n
  <2>3. IsPacket(k) /\ q \in PolytoneCallback /\ Tracked(Sends(x) \cup {k}, q, results'[x])
    <3>1. \/ Sends(x) = {} /\ results'[x] # <<>> /\ results'[x][1] = r
          \/ /\ pending_polytone[x] # None /\ pending_polytone[x].state = "TimedOut"
             /\ pending_polytone[x].result = r /\ results'[x] = results[x]
      BY <1>1, Zenon DEF Tracked
    <3> QED BY <1>1, <3>1, Sent, Zenon
  <2>4. k.id = x
    BY Zenon
  <2> HIDE DEF k, q
  <2>5. packets' = (packets \ {}) \cup {k} /\ Tracked((Sends(x) \ {}) \cup {k}, q, results'[x])
    <3>1. packets \ {} = packets /\ Sends(x) \ {} = Sends(x)
      BY Zenon
    <3> QED BY <2>2, <2>3, <3>1, Zenon
  <2>6. q \in PolytoneCallback \cup {None} /\ \A l \in {} : l.id = x
    BY <2>3, Zenon
  <2> QED BY <2>2, <2>3, <2>4, <2>5, <2>6, OnePacket, Zenon
<1> QED BY <1>2, <1>3, Zenon

\* A report: the invariant of the queues says that it is the first of its batch.
LEMMA FirstReport ==
  ASSUME PInv, PInv', DeliveryInv, NEW x \in Id, NEW kind, NEW n, report(x, kind, n),
         UNCHANGED <<proxy_state, proxy_sent>>
  PROVE  DeliveryInv'
<1> DEFINE r == [kind |-> kind, n |-> n]
<1>1. create_callback_message(x, r) /\ results' = [results EXCEPT ![x] = Append(@, r)]
  BY Zenon DEF report
<1> HIDE DEF r
<1>2. /\ results \in [Id -> Seq(ExecutionResult)] /\ results' \in [Id -> Seq(ExecutionResult)]
      /\ Len(results'[x]) <= 1
  BY Zenon DEF PInv, StorageTyped, IdInv
<1>3. /\ results[x] \in Seq(ExecutionResult) /\ results'[x] = Append(results[x], r)
      /\ \A y \in Id \ {x} : results'[y] = results[y]
  BY <1>1, <1>2, Zenon
<1>4. Len(results[x]) = 0
  BY <1>2, <1>3
<1>5. results[x] = <<>>
  BY <1>3, <1>4
<1>6. results'[x] # <<>> /\ results'[x][1] = r
  BY <1>3, <1>5
<1>7. r \in ExecutionResult
  <2>1. results'[x] \in Seq(ExecutionResult)
    BY <1>2, Zenon
  <2>2. Len(Append(<<>>, r)) = 1
    OBVIOUS
  <2>3. Len(results'[x]) = 1
    BY <1>3, <1>5, <2>2, Zenon
  <2> QED BY <1>6, <2>1, <2>3
<1> QED BY <1>1, <1>3, <1>5, <1>6, <1>7, MessageSent, Zenon

\* Packets of the bridge.
LEMMA PacketStep ==
  ASSUME DeliveryInv, NEW k \in packets,
         polytone_result_callback(k) \/ \E a \in BridgeReply : relay(k, a)
  PROVE  DeliveryInv'
<1>1. IsPacket(k) /\ k.id \in Id
  BY Zenon DEF DeliveryInv, IsPacket
<1> DEFINE x == k.id
<1>2. /\ k \in Sends(x) /\ Tracked(Sends(x), pending_polytone[x], results[x])
      /\ pending_polytone[x] \in PolytoneCallback \cup {None}
      /\ pending_polytone \in [Id -> PolytoneCallback \cup {None}]
      /\ \A l \in {k} : l.id = x
  BY <1>1, Zenon DEF DeliveryInv, Sends
<1>3. UNCHANGED <<results, proxy_state, proxy_sent>>
  BY Zenon DEF polytone_result_callback, relay, storage
<1>4. ASSUME NEW a \in BridgeReply, relay(k, a) PROVE DeliveryInv'
  <2> DEFINE l == [k EXCEPT !.reply = a]
  <2>1. k.reply = "none" /\ packets' = (packets \ {k}) \cup {l} /\ pending_polytone' = pending_polytone
    BY <1>4, Zenon DEF relay, storage
  <2>2. IsPacket(l) /\ l.id = x /\ Tracked((Sends(x) \ {k}) \cup {l}, pending_polytone[x], results[x])
    BY <1>1, <1>2, <2>1, Relayed, Zenon
  <2> HIDE DEF l
  <2>3. pending_polytone' = [pending_polytone EXCEPT ![x] = pending_polytone[x]] /\ results'[x] = results[x]
    BY <1>2, <1>3, <2>1, Zenon
  <2> QED BY <1>1, <1>2, <1>3, <2>1, <2>2, <2>3, OnePacket, ZenonT(40)
<1>5. CASE polytone_result_callback(k)
  <2> DEFINE l == [k EXCEPT !.acked = TRUE]
             q == Noted(pending_polytone[x], k.reply)
  <2>1. /\ k.reply # "none" /\ ~k.acked /\ packets' = (packets \ {k}) \cup {l}
        /\ pending_polytone' = [pending_polytone EXCEPT ![x] = q]
    BY <1>5, Zenon DEF polytone_result_callback, Noted
  <2>2. /\ IsPacket(l) /\ l.id = x /\ q \in PolytoneCallback \cup {None}
        /\ Tracked((Sends(x) \ {k}) \cup {l}, q, results[x])
    BY <1>1, <1>2, <2>1, Answered, Zenon
  <2> HIDE DEF l, q
  <2>3. results'[x] = results[x]
    BY <1>3, Zenon
  <2> QED BY <1>1, <1>2, <1>3, <2>1, <2>2, <2>3, OnePacket, Zenon
<1> QED BY <1>4, <1>5, Zenon

\* Every step keeps the invariant of the bridge.
LEMMA NextDelivery == PInv /\ PInv' /\ DeliveryInv /\ [Next]_vars => DeliveryInv'
<1> SUFFICES ASSUME PInv, PInv', DeliveryInv, [Next]_vars PROVE DeliveryInv'
  BY Zenon
<1>1. CASE Reports
  <2>1. CASE no_report /\ UNCHANGED <<proxy_state, proxy_sent>>
    BY <2>1, QuietBridge, Zenon DEF no_report, DeliveryInv
  <2> QED BY <1>1, <2>1, FirstReport, Zenon DEF Reports
<1>2. ASSUME NEW x \in Id, retry_callback(x) PROVE DeliveryInv'
  <2> DEFINE p == pending_polytone[x]
  <2>1. /\ p # None /\ p.state = "TimedOut" /\ create_callback_message(x, p.result)
        /\ UNCHANGED <<results, proxy_state, proxy_sent>>
    BY <1>2, Zenon DEF retry_callback
  <2>2. p \in PolytoneCallback
    BY <2>1, Zenon DEF DeliveryInv
  <2>3. p.result \in ExecutionResult
    BY <2>2, Zenon DEF PolytoneCallback
  <2>4. results'[x] = results[x] /\ \A y \in Id \ {x} : results'[y] = results[y]
    BY <2>1, Zenon
  <2> QED BY <2>1, <2>3, <2>4, MessageSent, Zenon
<1>3. CASE FromBridge
  <2>1. ASSUME NEW r \in BridgeReply, polytone_proxy_callback(r) PROVE DeliveryInv'
    <3>1. /\ UNCHANGED <<pending_polytone, packets, results>> /\ ~proxy_sent'
          /\ proxy_state' \in {"TimedOut", "UnexpectedError", "Created"}
      BY <2>1, Zenon DEF polytone_proxy_callback
    <3> QED BY <3>1, QuietBridge, Zenon
  <2> QED BY <1>3, <2>1, PacketStep, Zenon DEF FromBridge
<1>4. CASE retry_bridge_creation
  BY <1>4, QuietBridge, Zenon DEF retry_bridge_creation
<1>5. CASE UNCHANGED vars
  BY <1>5, QuietBridge, Zenon DEF vars, storage, observations, DeliveryInv
<1>6. CASE \/ FromAuthorization \/ process_tick \/ pass_time
           \/ \E id \in Id, right \in BOOLEAN : process_callback(id, right)
  BY <1>1, <1>6, QueueStepsReport, Zenon
<1> QED BY <1>2, <1>3, <1>4, <1>5, <1>6, Zenon DEF Next

\* Initially nothing was sent but the creation of the proxy.
LEMMA InitDelivery == Init => DeliveryInv
<1> SUFFICES ASSUME Init PROVE DeliveryInv
  BY Zenon
<1>1. packets = {} /\ pending_polytone = [id \in Id |-> None] /\ results = [id \in Id |-> <<>>]
  BY Zenon DEF Init
<1>2. \A id \in Id : Tracked(Sends(id), pending_polytone[id], results[id])
  BY <1>1, Zenon DEF Tracked, Sends
<1>3. /\ proxy_state \in {None, "PendingResponse"}
      /\ proxy_sent <=> proxy_state = "PendingResponse"
  BY ProcessorConstants, ZenonT(40) DEF Init
<1> QED BY <1>1, <1>2, <1>3, Zenon DEF DeliveryInv

\* What is known of the packets of an id, as the property states it.
LEMMA DeliveredOnce ==
  ASSUME DeliveryInv, NEW id \in Id
  PROVE  LET delivered == {k \in Sends(id) : k.reply = "ok"}
             outstanding == {k \in Sends(id) : ~k.acked}
         IN /\ Cardinality(delivered) <= 1 /\ Cardinality(outstanding) <= 1
            /\ Sends(id) # {} /\ delivered = {} =>
                 pending_polytone[id] # None /\ pending_polytone[id].result = results[id][1]
            /\ outstanding # {} <=>
                 (pending_polytone[id] # None /\ pending_polytone[id].state = "Pending")
<1> DEFINE delivered == {k \in Sends(id) : k.reply = "ok"}
           outstanding == {k \in Sends(id) : ~k.acked}
<1>1. Tracked(Sends(id), pending_polytone[id], results[id])
  BY Zenon DEF DeliveryInv
<1>2. (\A k, l \in delivered : k = l) /\ (\A k, l \in outstanding : k = l)
  BY <1>1, Zenon DEF Tracked
<1>3. /\ Sends(id) # {} /\ delivered = {} =>
           pending_polytone[id] # None /\ pending_polytone[id].result = results[id][1]
      /\ outstanding # {} <=>
           (pending_polytone[id] # None /\ pending_polytone[id].state = "Pending")
  BY <1>1, Zenon DEF Tracked
<1> HIDE DEF delivered, outstanding
<1>4. ASSUME NEW S, \A k, l \in S : k = l PROVE Cardinality(S) <= 1
  <2>1. S = {} \/ \E k : S = {k}
    BY <1>4
  <2>2. Cardinality({}) = 0 /\ \A k : Cardinality({k}) = 1
    BY NoneCounted, OneCounted, Zenon
  <2> QED BY <2>1, <2>2
<1>5. Cardinality(delivered) <= 1 /\ Cardinality(outstanding) <= 1
  BY <1>2, <1>4, Zenon
<1> QED BY <1>3, <1>5, Zenon DEF delivered, outstanding

\* The records and the packets agree in every state.
LEMMA DeliveryHolds == Spec => []DeliveryInv
  BY InitDelivery, NextDelivery, Invariant, PTL DEF Spec

\* However often a result is resent after timeouts, it is delivered at most once and
\* recorded until then, and no retry doubles a packet or a proxy creation.
THEOREM ResultsDeliveredOnce == Spec => []ResultDelivery
<1>1. DeliveryInv => ResultDelivery
  BY DeliveredOnce, Zenon DEF DeliveryInv, ResultDelivery
<1> QED BY <1>1, DeliveryHolds, PTL

-----------------------------------------------------------------------------
\* The storage is typed.  What PInv and DeliveryInv leave open: every copy of a batch is
\* stored under the id it carries.
Own(copies) == \A id \in Id : copies[id] # None => copies[id].id = id

OwnCopies == state \in {"Active", "Paused"} /\ Own(batch_of) /\ Own(pending_callback)

\* Storing a copy under its id.
LEMMA OwnStored ==
  ASSUME NEW f \in [Id -> Batch \cup {None}], Own(f), NEW b, b.id \in Id
  PROVE  Own([f EXCEPT ![b.id] = b])
  BY Zenon DEF Own

LEMMA OwnRemoved ==
  ASSUME NEW f \in [Id -> Batch \cup {None}], Own(f), NEW x
  PROVE  Own([f EXCEPT ![x] = None])
  BY Zenon DEF Own

LEMMA OwnAged ==
  ASSUME NEW f \in [Id -> Batch \cup {None}], Own(f)
  PROVE  Own([id \in Id |-> Aged(f[id])])
<1>1. \A id \in Id : f[id] # None => Aged(f[id]).id = id
  BY AgedBatch, Zenon DEF Own
<1>2. \A id \in Id : f[id] = None => Aged(f[id]) = None
  BY Zenon DEF Aged
<1> QED BY <1>1, <1>2, Zenon DEF Own

\* The handlers of a reply and of a callback store only what they were given.
LEMMA HandlersStoreOwn ==
  ASSUME StorageTyped, Own(batch_of), NEW qs, NEW ix, NEW batch \in Batch,
         \/ handle_successful_non_atomic_callback(qs, ix, batch)
         \/ handle_successful_atomic_callback(qs, ix, batch)
         \/ handle_unsuccessful_callback(qs, ix, batch)
  PROVE  Own(batch_of')
<1>1. batch_of \in [Id -> Batch \cup {None}] /\ batch.id \in Id
  BY Zenon DEF StorageTyped, Batch
<1>2. CASE clean_up(batch.id, ix)
  BY <1>1, <1>2, OwnRemoved, Zenon DEF clean_up
<1>3. CASE UNCHANGED batch_of
  BY <1>3, Zenon
<1>4. ASSUME NEW a, NEW l, put_back_into_queue(qs, batch, a, l)
      PROVE  Own(batch_of')
  <2>1. PICK v : batch_of' = [batch_of EXCEPT ![[batch EXCEPT !.retry = v].id] = [batch EXCEPT !.retry = v]]
    BY <1>4, ZenonT(40) DEF put_back_into_queue
  <2> DEFINE b == [batch EXCEPT !.retry = v]
  <2>2. b.id = batch.id
    BY Zenon DEF Batch
  <2>3. batch_of' = [batch_of EXCEPT ![b.id] = b]
    BY <2>1, Zenon
  <2> HIDE DEF b
  <2> QED BY <1>1, <2>2, <2>3, OwnStored, Zenon
<1> DEFINE l == RetryLogic(batch.sub, IF ix[batch.id] = None THEN 0 ELSE ix[batch.id])
           a == IF batch.retry = None THEN 0 ELSE batch.retry.amounts
<1>5. \/ clean_up(batch.id, ix) \/ UNCHANGED batch_of
      \/ put_back_into_queue(qs, batch, a, l)
  BY Zenon DEF handle_successful_non_atomic_callback, handle_successful_atomic_callback,
               handle_unsuccessful_callback
<1> HIDE DEF a, l
<1> QED BY <1>2, <1>3, <1>4, <1>5, Zenon

\* Every step keeps the copies under their ids.
LEMMA NextOwn == PInv /\ OwnCopies /\ [Next]_vars => OwnCopies'
<1> SUFFICES ASSUME PInv, OwnCopies, [Next]_vars PROVE OwnCopies'
  BY Zenon
<1>1. /\ StorageTyped /\ Own(batch_of) /\ Own(pending_callback) /\ state \in {"Active", "Paused"}
      /\ batch_of \in [Id -> Batch \cup {None}] /\ pending_callback \in [Id -> Batch \cup {None}]
  BY Zenon DEF PInv, StorageTyped, OwnCopies
<1>2. ASSUME NEW x, NEW ok, NEW qs, NEW ix, x \in Id, reply(x, ok, qs, ix) PROVE Own(batch_of')
  <2>1. batch_of[x] \in Batch
    BY <1>1, <1>2, Zenon DEF reply
  <2>2. \/ UNCHANGED batch_of
        \/ handle_successful_non_atomic_callback(qs, ix, batch_of[x])
        \/ handle_successful_atomic_callback(qs, ix, batch_of[x])
        \/ handle_unsuccessful_callback(qs, ix, batch_of[x])
    BY <1>2, Zenon DEF reply
  <2>3. CASE UNCHANGED batch_of
    BY <1>1, <2>3, Zenon
  <2> QED BY <1>1, <2>1, <2>2, <2>3, HandlersStoreOwn, Zenon
<1>3. Runnable \/ tick_expired => Front \in Batch /\ Front.id \in Id
  <2> SUFFICES ASSUME CanTick PROVE Front \in Batch /\ Front.id \in Id
    BY Zenon DEF Runnable, tick_expired
  <2>1. TickQueue \in Priority /\ queues[TickQueue] # <<>> /\ TypedQueues(queues) /\ Unique(queues)
    BY Zenon DEF CanTick, TickQueue, Priority, PInv, StorageTyped
  <2> QED BY <2>1, PopQueue, EntryTyped, ZenonT(40) DEF Front
<1>4. CASE FromAuthorization
  <2>1. ASSUME NEW id, NEW sub, NEW left, refuse_expired(id, sub, left) PROVE OwnCopies'
    BY <1>1, <2>1, Zenon DEF refuse_expired, OwnCopies
  <2>2. ASSUME NEW id \in Id, NEW sub, NEW p, NEW left, accept(MessageBatch(id, sub, p, left))
        PROVE  OwnCopies'
    <3> DEFINE b == MessageBatch(id, sub, p, left)
    <3>1. b.id = id
      BY Zenon DEF MessageBatch
    <3>2. batch_of' = [batch_of EXCEPT ![b.id] = b] /\ UNCHANGED <<state, pending_callback>>
      BY <2>2, Zenon DEF accept
    <3> HIDE DEF b
    <3> QED BY <1>1, <3>1, <3>2, OwnStored, ZenonT(40) DEF OwnCopies
  <2>3. ASSUME NEW p \in Priority, NEW position \in 0 .. Len(queues[p]) - 1, evict_messages(position, p)
        PROVE  OwnCopies'
    BY <1>1, <2>3, OwnRemoved, ZenonT(40) DEF evict_messages, clean_up, OwnCopies
  <2>4. CASE pause_processor \/ resume_processor
    BY <1>1, <2>4, Zenon DEF pause_processor, resume_processor, set_state, OwnCopies
  <2> QED BY <1>4, <2>1, <2>2, <2>3, <2>4, ZenonT(40)
          DEF FromAuthorization, enqueue_messages, insert_messages
<1>5. CASE process_tick
  <2>1. CASE tick_expired
    BY <1>1, <2>1, OwnRemoved, ZenonT(40) DEF tick_expired, clean_up, OwnCopies
  <2>2. CASE tick_cooling
    BY <1>1, <2>2, Zenon DEF tick_cooling, OwnCopies
  <2>3. ASSUME NEW ok, tick_atomic(ok) PROVE OwnCopies'
    <3>1. Runnable /\ reply(Front.id, ok, Popped, fn_index) /\ UNCHANGED <<state, pending_callback>>
      BY <2>3, Zenon DEF tick_atomic
    <3> QED BY <1>1, <1>2, <1>3, <3>1, Zenon DEF OwnCopies
  <2>4. ASSUME NEW ok, tick_function(ok) PROVE OwnCopies'
    <3>1. /\ Runnable /\ \E ix : reply(Front.id, ok, Popped, ix)
          /\ UNCHANGED state
          /\ \/ pending_callback' = [pending_callback EXCEPT ![Front.id] = Front]
             \/ pending_callback' = pending_callback
      BY <2>4, Zenon DEF tick_function
    <3>2. Own(batch_of')
      BY <1>2, <1>3, <3>1, Zenon
    <3>3. Own(pending_callback')
      BY <1>1, <1>3, <3>1, OwnStored, SMTT(30)
    <3> QED BY <1>1, <3>1, <3>2, <3>3, Zenon DEF OwnCopies
  <2> QED BY <1>5, <2>1, <2>2, <2>3, <2>4, Zenon DEF process_tick
<1>6. ASSUME NEW id \in Id, NEW right, process_callback(id, right) PROVE OwnCopies'
  <2>1. /\ pending_callback[id] \in Batch /\ UNCHANGED state
        /\ pending_callback' = [pending_callback EXCEPT ![id] = None]
        /\ \/ handle_successful_non_atomic_callback(queues, fn_index, pending_callback[id])
           \/ handle_unsuccessful_callback(queues, fn_index, pending_callback[id])
    BY <1>1, <1>6, Zenon DEF process_callback
  <2>2. Own(batch_of')
    BY <1>1, <2>1, HandlersStoreOwn, Zenon
  <2>3. Own(pending_callback')
    BY <1>1, <2>1, OwnRemoved, Zenon
  <2> QED BY <1>1, <2>1, <2>2, <2>3, Zenon DEF OwnCopies
<1>7. CASE pass_time
  BY <1>1, <1>7, OwnAged, Zenon DEF pass_time, OwnCopies
<1>8. CASE \/ \E id \in Id : retry_callback(id)
           \/ retry_bridge_creation \/ FromBridge \/ UNCHANGED vars
  <2>1. UNCHANGED <<state, batch_of, pending_callback>>
    BY <1>8, ZenonT(40) DEF retry_callback, retry_bridge_creation, FromBridge, polytone_result_callback, relay,
                polytone_proxy_callback, vars, storage
  <2> QED BY <1>1, <2>1, Zenon DEF OwnCopies
<1> QED BY <1>4, <1>5, <1>6, <1>7, <1>8, Zenon DEF Next

\* The processor's storage has its type: what is stored under an id is a batch with that
\* id, and a library is owed only for a batch that arrived.
THEOREM StorageHasItsType == Spec => []TypeOK
<1>1. PInv /\ DeliveryInv /\ OwnCopies => TypeOK
  <2> SUFFICES ASSUME PInv, DeliveryInv, OwnCopies PROVE TypeOK
    BY Zenon
  <2>1. /\ state \in {"Active", "Paused"}
        /\ proxy_state \in {None, "PendingResponse", "TimedOut", "Created", "UnexpectedError"}
    BY Zenon DEF OwnCopies, DeliveryInv
  <2>2. Queued \subseteq Batch
    BY EntryTyped, QueuedEntries, Zenon DEF PInv, StorageTyped
  <2>3. owed \subseteq Accepted
    BY Zenon DEF PInv, StorageTyped, IdInv, Accepted
  <2>4. /\ batch_of \in [Id -> Batch \cup {None}] /\ pending_callback \in [Id -> Batch \cup {None}]
        /\ fn_index \in [Id -> Nat \cup {None}] /\ sub_of \in [Id -> Subroutine \cup {None}]
    BY Zenon DEF PInv, StorageTyped
  <2> QED BY <2>1, <2>2, <2>3, <2>4, ZenonT(40) DEF TypeOK, OwnCopies, Own
<1>2. Init => OwnCopies
  BY Zenon DEF Init, OwnCopies, Own
<1> QED BY <1>1, <1>2, NextOwn, Invariant, DeliveryHolds, PTL DEF Spec

-----------------------------------------------------------------------------
(* Retries: BudgetInv is kept by every step.                               *)

\* A batch that leaves the queue with a report that blames no function.
LEMMA LeavesQueue ==
  ASSUME PInv, PInv', BudgetInv, NEW c \in Queued, NEW x \in Id, x = c.id,
         NEW qs, NEW b, Handling(x, qs, fn_index, b), queues' = qs, clean_up(x, fn_index),
         NEW kind, NEW n, report(x, kind, n), kind \in {"Expired", "RemovedByOwner"},
         \A y \in Id \ {x} : pending_callback'[y] = pending_callback[y],
         UNCHANGED <<sub_of, owed, done, tries>>
  PROVE  BudgetInv'
<1> DEFINE r == [kind |-> kind, n |-> n]
<1>1. /\ results' = [results EXCEPT ![x] = Append(@, r)]
      /\ r.kind = kind
  BY Zenon DEF report
<1> HIDE DEF r
<1>2. /\ results \in [Id -> Seq(ExecutionResult)] /\ batch_of \in [Id -> Batch \cup {None}]
      /\ (\A d \in Queued' : d \in Batch) /\ c \in Batch
  BY QueuedEntries, EntryTyped, Zenon DEF PInv, StorageTyped
<1>3. /\ results[x] = <<>> /\ sub_of[x] # None /\ CurrentLogic(x) \in RetryLogicType \cup {None}
      /\ \A d \in Batch : d.id # x => (d \in Entries(qs) <=> d \in Entries(queues))
  <2>1. CurrentLogic(x) \in RetryLogicType \cup {None}
    BY HandledLogic, Zenon
  <2> QED BY <2>1, Zenon DEF Handling
<1>4. results'[x] = Append(<<>>, r) /\ \A y \in Id \ {x} : results'[y] = results[y]
  BY <1>1, <1>2, <1>3, Zenon
<1>5. Append(<<>>, r) # <<>> /\ Append(<<>>, r)[1] = r
  OBVIOUS
<1>6. Aside(x)
  <2>1. \A y \in Id \ {x} : batch_of'[y] = batch_of[y]
    BY <1>2, Zenon DEF clean_up
  <2>2. \A d \in Queued' : d.id # x => d \in Queued
    BY <1>2, <1>3, QueuedEntries, Zenon
  <2> QED BY <1>4, <2>1, <2>2, Zenon DEF Aside, BudgetInv
<1>7. GaveUp(x)' = FALSE
  BY <1>1, <1>4, <1>5, Zenon DEF GaveUp
<1>8. TriedOut(tries[x], done[x] = {}, CurrentLogic(x), FALSE)
  <2>1. /\ tries[x] \in Nat
        /\ TriesLeft(tries[x], done[x] = {}, CurrentLogic(x), Amounts(c), Amounts(batch_of[x]))
    BY <1>3, ZenonT(40) DEF BudgetInv, BudgetOf
  <2>2. Amounts(c) \in Nat /\ Amounts(batch_of[x]) \in Nat
    <3>1. IsQueued(x) /\ IdInv(x)
      BY Zenon DEF IsQueued, PInv
    <3>2. batch_of[x] \in Batch
      BY <1>2, <3>1, <1>3, ZenonT(40) DEF IdInv, Live, CopyOf
    <3> QED BY <1>2, <3>2, AmountsTyped, Zenon
  <2>3. (done[x] = {}) \in BOOLEAN
    BY Zenon
  <2> QED BY <1>3, <2>1, <2>2, <2>3, StartedTry, ZenonT(40)
<1>9. CurrentLogic(x)' = CurrentLogic(x)
  BY Zenon DEF CurrentLogic
<1>10. TriedOut(tries'[x], done'[x] = {}, CurrentLogic(x)', GaveUp(x)')
  BY <1>7, <1>8, <1>9, Zenon DEF TriedOut
<1>11. BudgetOf(x)'
  <2>1. tries'[x] \in Nat /\ results'[x] # <<>> /\ sub_of'[x] # None
    BY <1>3, <1>4, <1>5, Zenon DEF BudgetInv, BudgetOf
  <2> QED BY <1>10, <2>1, ZenonT(40) DEF BudgetOf, TriedOut
<1> QED BY <1>6, <1>11, OneBudget, Zenon

\* A batch that arrives.
LEMMA ArrivalBudget ==
  ASSUME PInv, PInv', BudgetInv, NEW x \in Id \ Accepted, NEW sub \in Subroutine, NEW p \in Priority,
         NEW left \in Lifetime,
         \/ enqueue_messages(x, sub, p, left)
         \/ \E position \in 0 .. Len(queues[p]) : insert_messages(x, sub, p, left, position)
  PROVE  BudgetInv'
<1> DEFINE b == MessageBatch(x, sub, p, left)
<1>1. b \in Batch /\ b.id = x /\ b.priority = p /\ b.sub = sub /\ Amounts(b) = 0 /\ sub # None
  BY ProcessorConstants, Zenon DEF MessageBatch, Batch, Amounts
<1>2. \/ refuse_expired(x, sub, left)
      \/ queues' = Pushed(queues, b) /\ accept(b)
      \/ /\ accept(b)
         /\ \E position \in 0 .. Len(queues[p]) :
              queues' = [queues EXCEPT ![p] = InsertedAt(@, position, b)]
  BY Zenon DEF enqueue_messages, insert_messages
<1> HIDE DEF b
<1>3. TypedQueues(queues) /\ Unique(queues) /\ Absent(queues, b.id) /\ x \in Id
  BY <1>1, NotSentYet, Zenon DEF PInv, StorageTyped
<1>4. /\ sub_of \in [Id -> Subroutine \cup {None}] /\ batch_of \in [Id -> Batch \cup {None}]
      /\ results \in [Id -> Seq(ExecutionResult)]
      /\ sub_of[x] = None /\ tries[x] = 0 /\ done[x] = {} /\ x \notin owed /\ results[x] = <<>>
      /\ \A c \in Queued' : c \in Batch
  BY NotSentYet, QueuedEntries, EntryTyped, Zenon DEF PInv, StorageTyped, BudgetInv, BudgetOf
<1>5. RetryLogic(sub, FirstMissing({}, Len(sub.functions))) \in RetryLogicType \cup {None}
  <2>1. 0 < Len(sub.functions) /\ 0 .. 0 - 1 = {}
    BY SubroutineParts
  <2>2. FirstMissing(0 .. 0 - 1, Len(sub.functions)) = 0 /\ RetryLogic(sub, 0) \in RetryLogicType \cup {None}
    BY <2>1, CurrentFunction, Zenon
  <2> QED BY <2>1, <2>2, Zenon
<1>6. CASE refuse_expired(x, sub, left)
  <2> DEFINE r == [kind |-> "Expired", n |-> 0]
  <2>1. /\ results' = [results EXCEPT ![x] = Append(@, r)]
        /\ sub_of' = [sub_of EXCEPT ![x] = sub]
        /\ UNCHANGED <<queues, batch_of, pending_callback, owed, done, tries>>
    BY <1>6, Zenon DEF refuse_expired, report
  <2>2. r.kind = "Expired"
    BY Zenon
  <2> HIDE DEF r
  <2>3. Append(<<>>, r) # <<>> /\ Append(<<>>, r)[1] = r
    OBVIOUS
  <2>4. results'[x] = Append(<<>>, r) /\ sub_of'[x] = sub
    BY <1>3, <1>4, <2>1, Zenon
  <2>5. Aside(x)
    <3>1. Queued' = Queued
      BY <2>1, QueuedEntries, Zenon
    <3> QED BY <1>4, <2>1, <3>1, Zenon DEF Aside, BudgetInv
  <2>6. GaveUp(x)' = FALSE
    BY <2>2, <2>3, <2>4, Zenon DEF GaveUp
  <2>7. CurrentLogic(x)' = RetryLogic(sub, FirstMissing({}, Len(sub.functions)))
    BY <1>4, <2>1, <2>4, Zenon DEF CurrentLogic
  <2>8. TriedOut(0, TRUE, CurrentLogic(x)', FALSE)
    BY <1>5, <2>7, FreshFunction, ZenonT(40)
  <2>9. tries'[x] = 0 /\ (done'[x] = {}) = TRUE
    BY <1>4, <2>1, ZenonT(40)
  <2>10. BudgetOf(x)'
    BY <1>1, <2>3, <2>4, <2>6, <2>8, <2>9, SMTT(30) DEF BudgetOf, TriedOut
  <2> QED BY <2>5, <2>10, OneBudget, Zenon
<1>7. ASSUME accept(b), Entries(queues') = Entries(queues) \cup {b} PROVE BudgetInv'
  <2>1. /\ batch_of' = [batch_of EXCEPT ![x] = b] /\ sub_of' = [sub_of EXCEPT ![x] = sub]
        /\ UNCHANGED <<results, pending_callback, owed, done, tries>>
    BY <1>1, <1>7, Zenon DEF accept, no_report
  <2>2. batch_of'[x] = b /\ sub_of'[x] = sub
    BY <1>3, <1>4, <2>1, Zenon
  <2>3. Aside(x)
    <3>1. \A c \in Queued' : c.id # x => c \in Queued
      BY <1>1, <1>7, QueuedEntries, Zenon
    <3> QED BY <1>4, <2>1, <3>1, Zenon DEF Aside, BudgetInv
  <2>4. CurrentLogic(x)' = RetryLogic(sub, FirstMissing({}, Len(sub.functions)))
    BY <1>4, <2>1, <2>2, Zenon DEF CurrentLogic
  <2>5. TriesLeft(0, TRUE, CurrentLogic(x)', 0, 0)
    BY <1>5, <2>4, FreshFunction, ZenonT(40)
  <2>6. \A c \in Queued' : c.id = x => c = b
    BY <1>1, <1>3, <1>7, QueuedEntries, Zenon DEF Absent
  <2>7. tries'[x] = 0 /\ (done'[x] = {}) = TRUE /\ results'[x] = <<>> /\ x \notin owed'
    BY <1>4, <2>1, ZenonT(40)
  <2>8. BudgetOf(x)'
    BY <1>1, <2>2, <2>5, <2>6, <2>7, SMTT(30) DEF BudgetOf, TriesLeft
  <2> QED BY <2>3, <2>8, OneBudget, ZenonT(40)
<1>8. CASE queues' = Pushed(queues, b) /\ accept(b)
  <2>1. Entries([queues EXCEPT ![p] = Append(@, b)]) = Entries(queues) \cup {b}
    BY <1>1, <1>3, PushQueue, Zenon
  <2> QED BY <1>1, <1>7, <1>8, <2>1, Zenon DEF Pushed
<1>9. ASSUME accept(b), NEW position \in 0 .. Len(queues[p]),
             queues' = [queues EXCEPT ![p] = InsertedAt(@, position, b)]
      PROVE  BudgetInv'
  <2>1. Len(queues[p]) \in Nat
    BY <1>3 DEF TypedQueues
  <2>2. position \in Nat /\ position <= Len(queues[p])
    BY <2>1
  <2>3. LET rs == [queues EXCEPT ![p] = InsertedAt(@, position, b)]
        IN TypedQueues(rs) /\ Unique(rs) /\ Entries(rs) = Entries(queues) \cup {b}
    BY <1>1, <1>3, <2>2, InsertQueue, Zenon
  <2>4. Entries(queues') = Entries(queues) \cup {b}
    BY <1>9, <2>3, Zenon
  <2> QED BY <1>7, <1>9, <2>4, ZenonT(40)
<1> QED BY <1>2, <1>6, <1>8, <1>9, Zenon

\* A tick that runs an atomic batch.
LEMMA AtomicBudget ==
  ASSUME PInv, PInv', BudgetInv, NEW ok \in BOOLEAN, tick_atomic(ok)
  PROVE  BudgetInv'
<1> SUFFICES ASSUME NEW c, c = Front, NEW qs, qs = Popped, NEW b, b = batch_of[c.id], NEW x, x = c.id
             PROVE  BudgetInv'
  BY Zenon
<1>1. /\ x \in Id /\ Live(x) /\ CopyOf(c, x) /\ x \notin owed /\ Handling(x, qs, fn_index, b)
      /\ b \in Batch /\ sub_of[x] \in Subroutine
  BY FrontHandled, ZenonT(40) DEF tick_atomic, Runnable
<1>2. /\ reply(x, ok, qs, fn_index) /\ c.sub.atomic
      /\ done' = [done EXCEPT ![x] = IF ok THEN 0 .. Len(c.sub.functions) - 1 ELSE @]
      /\ tries' = [tries EXCEPT ![x] = IF ok THEN 0 ELSE @ + 1]
      /\ UNCHANGED <<sub_of, owed, pending_callback>>
  BY Zenon DEF tick_atomic
<1>3. /\ c.sub = sub_of[x] /\ fn_index[x] = None /\ c \in Queued /\ results[x] = <<>>
      /\ sub_of[x] # None /\ batch_of[x] = b
  <2>1. c \in Entries(queues)
    <3>1. TickQueue \in Priority /\ queues[TickQueue] # <<>> /\ TypedQueues(queues) /\ Unique(queues)
      BY Zenon DEF tick_atomic, Runnable, CanTick, TickQueue, Priority, PInv, StorageTyped
    <3> QED BY <3>1, PopQueue, Zenon DEF Front
  <2> QED BY <1>1, <1>2, <2>1, QueuedEntries, ZenonT(40) DEF Live, CopyOf, Handling
<1>4. /\ done'[x] = (IF ok THEN 0 .. Len(sub_of[x].functions) - 1 ELSE done[x])
      /\ tries'[x] = (IF ok THEN 0 ELSE tries[x] + 1)
      /\ DOMAIN tries' = Id
      /\ \A y \in Id \ {x} : done'[y] = done[y] /\ tries'[y] = tries[y]
  BY <1>1, <1>2, <1>3, Zenon DEF PInv, StorageTyped, BudgetInv
<1>5. CASE ok
  <2>1. handle_successful_atomic_callback(qs, fn_index, b)
    BY <1>2, <1>3, <1>5, Zenon DEF reply
  <2>2. b.id = x
    BY <1>1, Zenon DEF Handling, CopyOf
  <2>3. (\E r : results' = [results EXCEPT ![x] = Append(@, r)]) /\ queues' = qs /\ batch_of' = batch_of
    BY <2>1, <2>2, Zenon DEF handle_successful_atomic_callback, report
  <2>4. results'[x] # <<>> /\ \A y \in Id \ {x} : results'[y] = results[y]
    <3>1. \A r : Append(<<>>, r) # <<>>
      OBVIOUS
    <3>2. results \in [Id -> Seq(ExecutionResult)]
      BY Zenon DEF PInv, StorageTyped
    <3> QED BY <1>1, <1>3, <2>3, <3>1, <3>2, SMTT(30)
  <2>5. \A d \in Queued' : d.id # x => d \in Queued
    <3>1. \A d \in Queued' : d \in Batch
      BY QueuedEntries, EntryTyped, Zenon DEF PInv, StorageTyped
    <3> QED BY <1>1, <2>3, <3>1, QueuedEntries, Zenon DEF Handling
  <2>6. x \notin Unfinished'
    <3>1. done'[x] = 0 .. Len(sub_of'[x].functions) - 1
      BY <1>2, <1>4, <1>5, ZenonT(40)
    <3> QED BY <3>1, Zenon DEF Unfinished
  <2>7. Aside(x)
    BY <1>2, <1>4, <2>3, <2>4, <2>5, ZenonT(40) DEF Aside
  <2>8. BudgetOf(x)'
    BY <1>1, <1>2, <1>3, <1>4, <1>5, <2>4, <2>6, MovedOn, ZenonT(40)
  <2> QED BY <1>1, <2>7, <2>8, OneBudget, Zenon
<1>6. CASE ~ok
  <2>1. handle_unsuccessful_callback(qs, fn_index, b)
    BY <1>2, <1>6, Zenon DEF reply
  <2> DEFINE l == CurrentLogic(x)
             s == Amounts(b)
  <2>2. l \in RetryLogicType \cup {None} /\ s \in Nat
    BY <1>1, HandledLogic, Zenon
  <2>3. CurrentLogic(x)' = l
    BY <1>2, <1>4, <1>6, Zenon DEF CurrentLogic
  <2>4. /\ \A y \in Id \ {x} : results'[y] = results[y] /\ batch_of'[y] = batch_of[y]
        /\ \A d \in Queued' : d.id # x => d \in Queued
        /\ \/ /\ l = None \/ Exhausted(l, s)
              /\ results'[x] # <<>>
           \/ /\ l # None /\ ~Exhausted(l, s)
              /\ results'[x] = <<>> /\ Amounts(batch_of'[x]) = s + 1
              /\ \A d \in Queued' : d.id = x => Amounts(d) = s + 1
    <3>1. sub_of' = sub_of /\ Handling(x, qs, fn_index, b)
      BY <1>1, <1>2, Zenon
    <3>2. GivenUpOrCounted(x, b)
      BY <2>1, <3>1, FailureCounts, Zenon
    <3> QED BY <3>2, Zenon DEF GivenUpOrCounted
  <2> HIDE DEF l
  <2>5. Aside(x)
    BY <1>2, <1>4, <2>4, Zenon DEF Aside
  <2>6. BudgetOf(x)'
    <3>1. done'[x] = done[x] /\ tries'[x] = tries[x] + 1 /\ sub_of'[x] = sub_of[x] /\ x \notin owed'
      BY <1>1, <1>2, <1>4, <1>6, Zenon
    <3>2. l = CurrentLogic(x) /\ s = Amounts(batch_of[x])
      BY <1>3, Zenon DEF l
    <3> HIDE DEF s
    <3> QED BY <1>1, <1>3, <2>2, <2>3, <2>4, <3>1, <3>2, FailedOnTick, ZenonT(40)
  <2> QED BY <1>1, <2>5, <2>6, OneBudget, ZenonT(40)
<1> QED BY <1>5, <1>6, Zenon

\* A tick that runs one function.
LEMMA FunctionBudget ==
  ASSUME PInv, PInv', BudgetInv, NEW ok, tick_function(ok)
  PROVE  BudgetInv'
<1> SUFFICES ASSUME NEW c, c = Front, NEW qs, qs = Popped, NEW b, b = batch_of[c.id], NEW x, x = c.id,
                    NEW index, index = (IF fn_index[x] = None THEN 0 ELSE fn_index[x]),
                    NEW ix, ix = [fn_index EXCEPT ![x] = index],
                    NEW f, f = c.sub.functions[index + 1]
             PROVE  BudgetInv'
  BY Zenon
<1>1. /\ x \in Id /\ Live(x) /\ CopyOf(c, x) /\ x \notin owed /\ Handling(x, qs, fn_index, b)
      /\ b \in Batch /\ c \in Batch /\ sub_of[x] \in Subroutine
  BY FrontHandled, ZenonT(40) DEF tick_function, Runnable
<1>2. /\ reply(x, ok, qs, ix) /\ ~c.sub.atomic
      /\ pending_callback' = IF f.confirm THEN [pending_callback EXCEPT ![x] = c] ELSE pending_callback
      /\ owed' = IF ok /\ f.confirm THEN owed \cup {x} ELSE owed
      /\ done' = [done EXCEPT ![x] = IF ok /\ ~f.confirm THEN @ \cup {index} ELSE @]
      /\ tries' = [tries EXCEPT ![x] = IF ok /\ ~f.confirm THEN 0 ELSE @ + 1]
      /\ sub_of' = sub_of
  BY Zenon DEF tick_function
<1>3. /\ c.sub = sub_of[x] /\ c \in Queued /\ results[x] = <<>>
      /\ sub_of[x] # None /\ batch_of[x] = b
  <2>1. c \in Entries(queues)
    <3>1. TickQueue \in Priority /\ queues[TickQueue] # <<>> /\ TypedQueues(queues) /\ Unique(queues)
      BY Zenon DEF tick_function, Runnable, CanTick, TickQueue, Priority, PInv, StorageTyped
    <3> QED BY <3>1, PopQueue, Zenon DEF Front
  <2> QED BY <1>1, <2>1, QueuedEntries, Zenon DEF CopyOf, Handling
<1>4. /\ fn_index \in [Id -> Nat \cup {None}] /\ pending_callback \in [Id -> Batch \cup {None}]
      /\ DOMAIN done = Id /\ DOMAIN tries = Id /\ None \notin Nat
  BY ProcessorConstants DEF PInv, StorageTyped, BudgetInv
<1>5. /\ index \in Nat /\ index < Len(sub_of[x].functions) /\ done[x] = 0 .. index - 1
  <2>1. /\ done[x] = IF fn_index[x] = None THEN {} ELSE 0 .. fn_index[x] - 1
        /\ fn_index[x] # None => fn_index[x] < Len(sub_of[x].functions)
    BY <1>1, Zenon DEF Live
  <2>2. Len(sub_of[x].functions) \in Nat \ {0} /\ 0 .. 0 - 1 = {}
    BY <1>1, SubroutineParts
  <2>3. CASE fn_index[x] = None
    BY <2>1, <2>2, <2>3, SMTT(30)
  <2>4. CASE fn_index[x] # None
    <3>1. index = fn_index[x] /\ index \in Nat
      BY <1>1, <1>4, <2>4, Zenon
    <3> QED BY <2>1, <2>4, <3>1, Zenon
  <2> QED BY <2>3, <2>4, Zenon
<1>6. /\ ix \in [Id -> Nat \cup {None}] /\ ix[x] = index /\ ix[x] # None
      /\ \A y \in Id \ {x} : ix[y] = fn_index[y]
  BY <1>1, <1>4, <1>5, Zenon
<1>7. Handling(x, qs, ix, b)
  BY <1>1, <1>2, <1>3, <1>5, <1>6, ZenonT(40) DEF Handling
<1>8. /\ done'[x] = (IF ok /\ ~f.confirm THEN done[x] \cup {index} ELSE done[x])
      /\ tries'[x] = (IF ok /\ ~f.confirm THEN 0 ELSE tries[x] + 1)
      /\ DOMAIN tries' = Id
      /\ \A y \in Id \ {x} : /\ done'[y] = done[y] /\ tries'[y] = tries[y] /\ (y \in owed' => y \in owed)
                             /\ pending_callback'[y] = pending_callback[y]
  BY <1>1, <1>2, <1>4, Zenon
<1> DEFINE l == CurrentLogic(x)
           s == Amounts(b)
<1>9. l \in RetryLogicType \cup {None} /\ s \in Nat /\ Amounts(c) \in Nat
  BY <1>1, HandledLogic, AmountsTyped, Zenon
<1>10. CASE ok /\ f.confirm
  <2>1. pending_callback'[x] = c /\ x \in owed' /\ done'[x] = done[x] /\ tries'[x] = tries[x] + 1
    BY <1>1, <1>2, <1>4, <1>8, <1>10, Zenon
  <2>2. c # None
    BY <1>1, Zenon DEF CopyOf
  <2>3. queues' = qs /\ results' = results /\ batch_of' = batch_of
    BY <1>2, <1>6, <1>10, <2>1, <2>2, Zenon DEF reply, no_report
  <2>4. \A d \in Queued' : d.id # x /\ d \in Queued
    <3>1. \A d \in Queued' : d \in Batch
      BY QueuedEntries, EntryTyped, Zenon DEF PInv, StorageTyped
    <3> QED BY <1>7, <2>3, <3>1, QueuedEntries, ZenonT(40) DEF Handling, Absent
  <2>5. Aside(x)
    BY <1>2, <1>8, <2>3, <2>4, ZenonT(40) DEF Aside
  <2>6. CurrentLogic(x)' = l
    BY <1>2, <2>1, ZenonT(40) DEF CurrentLogic
  <2>7. tries[x] \in Nat /\ TriesLeft(tries[x], done[x] = {}, l, Amounts(c), s)
    BY <1>1, <1>3, Zenon DEF BudgetInv, BudgetOf
  <2>8. Trying(tries[x] + 1, done[x] = {}, l, Amounts(c))
    <3>1. (done[x] = {}) \in BOOLEAN
      BY Zenon
    <3> QED BY <1>9, <2>7, <3>1, StartedTry, ZenonT(40)
  <2>9. BudgetOf(x)'
    <3>1. Trying(tries'[x], done'[x] = {}, CurrentLogic(x)', Amounts(pending_callback'[x]))
      BY <2>1, <2>6, <2>8, Zenon
    <3>2. tries[x] \in Nat
      BY <1>1, Zenon DEF BudgetInv, BudgetOf
    <3>3. tries'[x] \in Nat /\ results'[x] = <<>> /\ \A d \in Queued' : d.id # x
      BY <1>3, <2>1, <2>3, <2>4, <3>2
    <3>4. sub_of'[x] # None
      BY <1>2, <1>3, ZenonT(40)
    <3> QED BY <3>1, <3>3, <3>4, Zenon DEF BudgetOf
  <2> QED BY <1>1, <2>5, <2>9, OneBudget, Zenon
<1>11. CASE ok /\ ~f.confirm
  <2>1. x \notin owed' /\ done'[x] = 0 .. ix[x] /\ tries'[x] = 0
    <3>1. x \notin owed' /\ tries'[x] = 0 /\ done'[x] = done[x] \cup {index}
      BY <1>1, <1>2, <1>8, <1>11, Zenon
    <3>2. (0 .. index - 1) \cup {index} = 0 .. index
      BY <1>5, OneMore, Zenon
    <3> QED BY <1>5, <1>6, <3>1, <3>2, Zenon
  <2>2. pending_callback'[x] = None
    BY <1>1, <1>2, <1>3, <1>11, Zenon DEF Live
  <2>3. handle_successful_non_atomic_callback(qs, ix, b)
    BY <1>2, <1>3, <1>6, <1>11, <2>2, Zenon DEF reply
  <2>4. /\ \A y \in Id \ {x} : results'[y] = results[y] /\ batch_of'[y] = batch_of[y]
        /\ \A d \in Queued' : d.id # x => d \in Queued
        /\ \/ results'[x] # <<>> /\ x \notin Unfinished'
           \/ /\ results'[x] = <<>> /\ done'[x] # {}
              /\ CurrentLogic(x)' \in RetryLogicType \cup {None}
    <3>1. sub_of' = sub_of /\ ix[x] # None /\ done'[x] = 0 .. ix[x]
      BY <1>2, <1>6, <2>1, Zenon
    <3>2. EndedOrUpNext(x)
      BY <1>7, <2>3, <3>1, SuccessMovesOn, Zenon
    <3> QED BY <3>2, Zenon DEF EndedOrUpNext
  <2>5. Aside(x)
    BY <1>2, <1>8, <2>4, ZenonT(40) DEF Aside
  <2>6. BudgetOf(x)'
    BY <1>1, <1>2, <1>3, <2>1, <2>4, MovedOn, Zenon
  <2> QED BY <1>1, <2>5, <2>6, OneBudget, ZenonT(40)
<1>12. CASE ~ok
  <2>1. handle_unsuccessful_callback(qs, ix, b)
    BY <1>2, <1>3, <1>12, ZenonT(40) DEF reply
  <2>2. done'[x] = done[x] /\ tries'[x] = tries[x] + 1 /\ sub_of'[x] = sub_of[x] /\ x \notin owed'
    BY <1>1, <1>2, <1>8, <1>12, ZenonT(40)
  <2>3. CurrentLogic(x)' = l
    BY <2>2, Zenon DEF CurrentLogic
  <2>4. /\ \A y \in Id \ {x} : results'[y] = results[y] /\ batch_of'[y] = batch_of[y]
        /\ \A d \in Queued' : d.id # x => d \in Queued
        /\ \/ /\ l = None \/ Exhausted(l, s)
              /\ results'[x] # <<>>
           \/ /\ l # None /\ ~Exhausted(l, s)
              /\ results'[x] = <<>> /\ Amounts(batch_of'[x]) = s + 1
              /\ \A d \in Queued' : d.id = x => Amounts(d) = s + 1
    <3>1. sub_of' = sub_of
      BY <1>2, Zenon
    <3>2. GivenUpOrCounted(x, b)
      BY <1>7, <2>1, <3>1, FailureCounts, Zenon
    <3> QED BY <3>2, Zenon DEF GivenUpOrCounted
  <2>5. Aside(x)
    BY <1>2, <1>8, <2>4, ZenonT(40) DEF Aside
  <2>6. BudgetOf(x)'
    <3>1. l = CurrentLogic(x) /\ s = Amounts(batch_of[x])
      BY <1>3, Zenon
    <3> HIDE DEF l, s
    <3> QED BY <1>1, <1>3, <1>9, <2>2, <2>3, <2>4, <3>1, FailedOnTick, ZenonT(40)
  <2> QED BY <1>1, <2>5, <2>6, OneBudget, ZenonT(40)
<1> QED BY <1>10, <1>11, <1>12, Zenon

\* A library calls back.
LEMMA CallbackBudget ==
  ASSUME PInv, PInv', BudgetInv, NEW x \in Id, NEW right \in BOOLEAN, process_callback(x, right)
  PROVE  BudgetInv'
<1> SUFFICES ASSUME NEW b, b = pending_callback[x], NEW ix, ix = fn_index
             PROVE  BudgetInv'
  BY Zenon
<1>1. /\ x \in owed /\ b # None /\ ix[x] # None
      /\ IF right THEN handle_successful_non_atomic_callback(queues, ix, b)
                  ELSE handle_unsuccessful_callback(queues, ix, b)
      /\ pending_callback' = [pending_callback EXCEPT ![x] = None]
      /\ owed' = owed \ {x}
      /\ done' = [done EXCEPT ![x] = IF right THEN @ \cup {ix[x]} ELSE @]
      /\ tries' = [tries EXCEPT ![x] = IF right THEN 0 ELSE @]
      /\ sub_of' = sub_of
  BY Zenon DEF process_callback
<1>2. /\ fn_index \in [Id -> Nat \cup {None}] /\ pending_callback \in [Id -> Batch \cup {None}]
      /\ DOMAIN done = Id /\ DOMAIN tries = Id /\ TypedQueues(queues) /\ Unique(queues)
  BY Zenon DEF PInv, StorageTyped, BudgetInv
<1>3. /\ sub_of[x] # None /\ results[x] = <<>> /\ ~IsQueued(x) /\ Live(x)
  BY <1>1, Zenon DEF PInv, IdInv
<1>4. b \in Batch /\ CopyOf(b, x) /\ Absent(queues, x) /\ ix[x] \in Nat
  BY <1>1, <1>2, <1>3, QueuedEntries, Zenon DEF Live, IsQueued, Absent
<1>5. Handling(x, queues, ix, b)
  BY <1>2, <1>3, <1>4, ZenonT(40) DEF Handling, Live
<1>6. /\ x \notin owed' /\ DOMAIN tries' = Id /\ sub_of' = sub_of
      /\ done'[x] = (IF right THEN done[x] \cup {ix[x]} ELSE done[x])
      /\ tries'[x] = (IF right THEN 0 ELSE tries[x])
      /\ \A y \in Id \ {x} : /\ done'[y] = done[y] /\ tries'[y] = tries[y] /\ (y \in owed' => y \in owed)
                             /\ pending_callback'[y] = pending_callback[y]
  BY <1>1, <1>2, Zenon
<1>7. CASE right
  <2>1. done'[x] = 0 .. ix[x]
    <3>1. done[x] = 0 .. ix[x] - 1
      BY <1>1, <1>3, Zenon DEF Live
    <3>2. done'[x] = done[x] \cup {ix[x]}
      BY <1>6, <1>7, Zenon
    <3> QED BY <1>4, <3>1, <3>2
  <2>2. handle_successful_non_atomic_callback(queues, ix, b) /\ ix[x] # None /\ tries'[x] = 0
    BY <1>1, <1>6, <1>7, Zenon
  <2>3. EndedOrUpNext(x)
    BY <1>5, <1>6, <2>1, <2>2, SuccessMovesOn, Zenon
  <2>4. Aside(x)
    BY <1>6, <2>3, Zenon DEF Aside, EndedOrUpNext
  <2>5. BudgetOf(x)'
    <3>1. \/ results'[x] # <<>> /\ x \notin Unfinished'
          \/ /\ results'[x] = <<>> /\ done'[x] # {}
             /\ CurrentLogic(x)' \in RetryLogicType \cup {None}
      BY <2>3, Zenon DEF EndedOrUpNext
    <3>2. sub_of'[x] # None
      BY <1>3, <1>6, Zenon
    <3> QED BY <1>6, <2>2, <3>1, <3>2, MovedOn, Zenon
  <2> QED BY <2>4, <2>5, OneBudget, Zenon
<1>8. CASE ~right
  <2> DEFINE l == CurrentLogic(x)
             s == Amounts(b)
  <2>1. handle_unsuccessful_callback(queues, ix, b)
    BY <1>1, <1>8, Zenon
  <2>2. l \in RetryLogicType \cup {None} /\ s \in Nat
    BY <1>5, HandledLogic, Zenon
  <2>3. done'[x] = done[x] /\ tries'[x] = tries[x] /\ sub_of'[x] = sub_of[x]
    BY <1>6, <1>8, Zenon
  <2>4. CurrentLogic(x)' = l
    BY <2>3, Zenon DEF CurrentLogic
  <2>5. GivenUpOrCounted(x, b)
    BY <1>5, <1>6, <2>1, FailureCounts, Zenon
  <2>6. Aside(x)
    BY <1>6, <2>5, Zenon DEF Aside, GivenUpOrCounted
  <2>7. BudgetOf(x)'
    <3>1. \/ /\ l = None \/ Exhausted(l, s)
             /\ results'[x] # <<>>
          \/ /\ l # None /\ ~Exhausted(l, s)
             /\ results'[x] = <<>> /\ Amounts(batch_of'[x]) = s + 1
             /\ \A d \in Queued' : d.id = x => Amounts(d) = s + 1
      BY <2>5, Zenon DEF GivenUpOrCounted
    <3>2. l = CurrentLogic(x) /\ s = Amounts(pending_callback[x])
      BY Zenon
    <3> HIDE DEF l, s
    <3>3. x \in owed /\ x \notin owed' /\ sub_of[x] # None /\ results[x] = <<>> /\ l = CurrentLogic(x)'
      BY <1>1, <1>3, <1>6, <2>4, ZenonT(40)
    <3> QED BY <2>2, <2>3, <3>1, <3>2, <3>3, FailedOnCallback, ZenonT(40)
  <2> QED BY <2>6, <2>7, OneBudget, ZenonT(40)
<1> QED BY <1>7, <1>8, Zenon

\* A second that passes counts no try.
LEMMA AgedAmounts ==
  ASSUME NEW b \in Batch PROVE Amounts(Aged(b)) = Amounts(b)
<1>1. Aged(b).retry = Cooler(b.retry) /\ b.retry \in [amounts : Nat, cooldown : Nat] \cup {None}
  BY ProcessorConstants, Zenon DEF Aged, Batch
<1>2. CASE b.retry = None \/ b.retry.cooldown = 0
  BY <1>1, <1>2, Zenon DEF Cooler, Amounts
<1>3. CASE b.retry # None /\ b.retry.cooldown # 0
  <2>1. b.retry \in [amounts : Nat, cooldown : Nat] /\ b.retry.cooldown - 1 \in Nat
    BY <1>1, <1>3
  <2>2. Cooler(b.retry) = [b.retry EXCEPT !.cooldown = @ - 1]
    BY <1>3, Zenon DEF Cooler
  <2>3. Cooler(b.retry) \in [amounts : Nat, cooldown : Nat] /\ Cooler(b.retry).amounts = b.retry.amounts
    BY <2>1, <2>2, Zenon
  <2> QED BY <1>1, <1>3, <2>3, ProcessorConstants, Zenon DEF Amounts
<1> QED BY <1>2, <1>3, Zenon

\* Steps that only move or age the copies.
LEMMA CopiesMove ==
  ASSUME PInv, BudgetInv, UNCHANGED <<tries, sub_of, results, done, owed>>,
         \A b \in Queued' : \E c \in Queued : b.id = c.id /\ Amounts(b) = Amounts(c),
         \A id \in Id : /\ batch_of[id] # None => Amounts(batch_of'[id]) = Amounts(batch_of[id])
                        /\ pending_callback[id] # None =>
                             Amounts(pending_callback'[id]) = Amounts(pending_callback[id])
  PROVE  BudgetInv'
<1> SUFFICES ASSUME NEW y \in Id PROVE BudgetOf(y)'
  BY Zenon DEF BudgetInv
<1>1. BudgetOf(y) /\ IdInv(y)
  BY Zenon DEF BudgetInv, PInv
<1>2. CurrentLogic(y)' = CurrentLogic(y) /\ Unfinished' = Unfinished /\ (GaveUp(y)' <=> GaveUp(y))
  BY Zenon DEF CurrentLogic, Unfinished, Accepted, GaveUp
<1>3. ASSUME sub_of[y] # None, results[y] = <<>>, NEW b \in Queued', b.id = y
      PROVE  TriesLeft(tries[y], done[y] = {}, CurrentLogic(y), Amounts(b), Amounts(batch_of'[y]))
  <2>1. PICK c \in Queued : c.id = y /\ Amounts(b) = Amounts(c)
    BY <1>3, Zenon
  <2>2. TriesLeft(tries[y], done[y] = {}, CurrentLogic(y), Amounts(c), Amounts(batch_of[y]))
    BY <1>1, <1>3, <2>1, Zenon DEF BudgetOf
  <2>3. batch_of[y] # None
    BY <1>1, <1>3, Zenon DEF IdInv, Live, CopyOf
  <2>4. Amounts(batch_of'[y]) = Amounts(batch_of[y])
    BY <2>3, Zenon
  <2> QED BY <2>1, <2>2, <2>4, Zenon
<1>4. ASSUME sub_of[y] # None, results[y] = <<>>, y \in owed
      PROVE  Trying(tries[y], done[y] = {}, CurrentLogic(y), Amounts(pending_callback'[y]))
  <2>1. pending_callback[y] # None
    BY <1>1, <1>4, Zenon DEF IdInv, Live
  <2>3. Amounts(pending_callback'[y]) = Amounts(pending_callback[y])
    BY <2>1, Zenon
  <2>2. Trying(tries[y], done[y] = {}, CurrentLogic(y), Amounts(pending_callback[y]))
    BY <1>1, <1>4, Zenon DEF BudgetOf
  <2> QED BY <2>2, <2>3, Zenon
<1>5. ASSUME y \in Unfinished, results[y] # <<>>
      PROVE  TriedOut(tries[y], done[y] = {}, CurrentLogic(y), GaveUp(y)')
  BY <1>1, <1>2, <1>5, Zenon DEF BudgetOf, TriedOut
<1>6. /\ tries'[y] = tries[y] /\ sub_of'[y] = sub_of[y] /\ results'[y] = results[y] /\ done'[y] = done[y]
      /\ owed' = owed /\ tries[y] \in Nat /\ (sub_of[y] = None => tries[y] = 0)
  BY <1>1, Zenon DEF BudgetOf
<1> QED BY <1>2, <1>3, <1>4, <1>5, <1>6, Zenon DEF BudgetOf

\* Every step keeps the budgets.
LEMMA NextBudget == PInv /\ PInv' /\ BudgetInv /\ [Next]_vars => BudgetInv'
<1> SUFFICES ASSUME PInv, PInv', BudgetInv, [Next]_vars PROVE BudgetInv'
  BY ZenonT(40)
<1>1. ASSUME NEW p \in Priority, NEW position \in 0 .. Len(queues[p]) - 1, evict_messages(position, p)
      PROVE  BudgetInv'
  <2> SUFFICES ASSUME NEW c, c = queues[p][position + 1], NEW x, x = c.id,
                      NEW qs, qs = [queues EXCEPT ![p] = RemovedAt(@, position)]
               PROVE  BudgetInv'
    BY Zenon
  <2>1. /\ TypedQueues(qs) /\ Unique(qs) /\ c \in Entries(queues)
        /\ Entries(qs) = Entries(queues) \ {c} /\ Absent(qs, c.id)
    <3>1. TypedQueues(queues) /\ Unique(queues)
      BY Zenon DEF PInv, StorageTyped
    <3>2. LET rs == [queues EXCEPT ![p] = RemovedAt(@, position)]
              b == queues[p][position + 1]
          IN /\ TypedQueues(rs) /\ Unique(rs) /\ b \in Entries(queues)
             /\ Entries(rs) = Entries(queues) \ {b} /\ Absent(rs, b.id)
      BY <3>1, RemoveQueue, Zenon
    <3> QED BY <3>2, Zenon
  <2>2. x \in Id /\ Handling(x, qs, fn_index, c) /\ c \in Queued
    BY <2>1, TakenOut, QueuedEntries, Zenon
  <2>3. /\ queues' = qs /\ clean_up(x, fn_index) /\ report(x, "RemovedByOwner", 0)
        /\ UNCHANGED <<sub_of, owed, done, tries>>
    BY <1>1, Zenon DEF evict_messages
  <2>4. \A y \in Id \ {x} : pending_callback'[y] = pending_callback[y]
    BY <1>1, Zenon DEF evict_messages, PInv, StorageTyped
  <2> QED BY <2>2, <2>3, <2>4, LeavesQueue, Zenon
<1>2. CASE tick_expired
  <2> SUFFICES ASSUME NEW c, c = Front, NEW x, x = c.id, NEW qs, qs = Popped
               PROVE  BudgetInv'
    BY Zenon
  <2>1. x \in Id /\ Handling(x, qs, fn_index, c)
    BY <1>2, FrontHandled, Zenon DEF tick_expired
  <2>2. c \in Queued
    <3>1. TickQueue \in Priority /\ queues[TickQueue] # <<>> /\ TypedQueues(queues) /\ Unique(queues)
      BY <1>2, Zenon DEF tick_expired, CanTick, TickQueue, Priority, PInv, StorageTyped
    <3> QED BY <3>1, PopQueue, QueuedEntries, Zenon DEF Front
  <2>3. PICK n : report(x, "Expired", n)
    BY <1>2, Zenon DEF tick_expired
  <2>4. /\ queues' = qs /\ clean_up(x, fn_index)
        /\ UNCHANGED <<sub_of, owed, done, tries>> /\ pending_callback' = pending_callback
    BY <1>2, Zenon DEF tick_expired
  <2> QED BY <2>1, <2>2, <2>3, <2>4, LeavesQueue, Zenon
<1>3. CASE tick_cooling
  <2>1. Entries(queues') = Entries(queues)
    <3>1. TickQueue \in Priority /\ queues[TickQueue] # <<>> /\ TypedQueues(queues) /\ Unique(queues)
      BY <1>3, Zenon DEF tick_cooling, CanTick, TickQueue, Priority, PInv, StorageTyped
    <3>2. /\ TypedQueues(Popped) /\ Unique(Popped) /\ Absent(Popped, Front.id)
          /\ Entries(Popped) \cup {Front} = Entries(queues) /\ Front \in Batch
      <4>1. LET rs == [queues EXCEPT ![TickQueue] = Tail(@)]
                b == Head(queues[TickQueue])
            IN /\ TypedQueues(rs) /\ Unique(rs) /\ b \in Entries(queues)
               /\ Entries(rs) = Entries(queues) \ {b} /\ Absent(rs, b.id)
        BY <3>1, PopQueue, Zenon
      <4> QED BY <3>1, <4>1, EntryTyped, ZenonT(40) DEF Popped, Front
    <3>3. Entries([Popped EXCEPT ![TickQueue] = Append(@, Front)]) = Entries(Popped) \cup {Front}
      BY <3>1, <3>2, PushQueue, ZenonT(40)
    <3> QED BY <1>3, <3>2, <3>3, Zenon DEF tick_cooling
  <2>2. UNCHANGED <<tries, sub_of, results, done, owed, batch_of, pending_callback>>
    BY <1>3, Zenon DEF tick_cooling, observations
  <2> QED BY <2>1, <2>2, QueuedEntries, CopiesMove, Zenon
<1>4. CASE pass_time
  <2>1. /\ queues' = AgedQueues(queues)
        /\ batch_of' = [id \in Id |-> Aged(batch_of[id])]
        /\ pending_callback' = [id \in Id |-> Aged(pending_callback[id])]
        /\ UNCHANGED <<tries, sub_of, results, done, owed>>
    BY <1>4, ZenonT(40) DEF pass_time, AgedQueues, observations
  <2>2. /\ TypedQueues(queues) /\ Unique(queues)
        /\ batch_of \in [Id -> Batch \cup {None}] /\ pending_callback \in [Id -> Batch \cup {None}]
    BY ZenonT(40) DEF PInv, StorageTyped
  <2>3. \A b : b \in Queued' <=> \E c \in Queued : b = Aged(c)
    BY <2>1, <2>2, AgeQueue, QueuedEntries, Zenon
  <2>4. \A c \in Queued : c \in Batch
    BY <2>2, EntryTyped, QueuedEntries, Zenon
  <2>5. \A b \in Queued' : \E c \in Queued : b.id = c.id /\ Amounts(b) = Amounts(c)
    BY <2>3, <2>4, AgedBatch, AgedAmounts, SMTT(30)
  <2>6. \A id \in Id : /\ batch_of[id] # None => Amounts(batch_of'[id]) = Amounts(batch_of[id])
                       /\ pending_callback[id] # None =>
                            Amounts(pending_callback'[id]) = Amounts(pending_callback[id])
    BY <2>1, <2>2, AgedAmounts, Zenon
  <2> QED BY <2>1, <2>5, <2>6, CopiesMove, Zenon
<1>5. CASE \/ pause_processor \/ resume_processor \/ \E id \in Id : retry_callback(id)
           \/ retry_bridge_creation \/ FromBridge \/ UNCHANGED vars
  <2>1. UNCHANGED <<queues, batch_of, pending_callback, sub_of, owed, results, done, tries>>
    BY <1>5, Zenon DEF pause_processor, resume_processor, set_state, retry_callback, retry_bridge_creation,
                FromBridge, polytone_result_callback, relay, polytone_proxy_callback, vars, storage,
                observations
  <2>2. Queued' = Queued
    BY <2>1 DEF Queued
  <2> QED BY <2>1, <2>2, CopiesMove, Zenon
<1>6. CASE FromAuthorization
  BY <1>1, <1>5, <1>6, ArrivalBudget, Zenon DEF FromAuthorization
<1>7. CASE process_tick
  BY <1>2, <1>3, <1>7, AtomicBudget, FunctionBudget, Zenon DEF process_tick
<1> QED BY <1>4, <1>5, <1>6, <1>7, CallbackBudget, Zenon DEF Next

\* Initially nothing was tried.
LEMMA InitBudget == Init => BudgetInv
  BY DEF Init, BudgetInv, BudgetOf

\* No function is started more often than its retry logic allows, and the first one,
\* or an atomic batch, is given up only after all of its retries.
THEOREM RetriesWithinBudget == Spec => []RetryBudget
<1>1. PInv /\ BudgetInv => RetryBudget
  <2> SUFFICES ASSUME PInv, BudgetInv, NEW id \in Unfinished
               PROVE  /\ Bounded(id) => tries[id] <= Budget(id)
                      /\ GaveUp(id) => Bounded(id)
                      /\ GaveUp(id) /\ done[id] = {} => tries[id] = Budget(id)
    BY Zenon DEF RetryBudget
  <2>1. /\ Bounded(id) <=> Limited(CurrentLogic(id))
        /\ Budget(id) = Grants(CurrentLogic(id))
    BY Zenon DEF Bounded, Limited, Budget, Grants
  <2>2. id \in Id /\ sub_of[id] # None /\ BudgetOf(id) /\ IdInv(id) /\ tries[id] \in Nat
    BY Zenon DEF Unfinished, Accepted, BudgetInv, PInv, BudgetOf
  <2>3. CASE results[id] # <<>>
    BY <2>1, <2>2, <2>3, Zenon DEF BudgetOf, TriedOut
  <2>4. CASE results[id] = <<>>
    <3>1. ~GaveUp(id)
      BY <2>4, Zenon DEF GaveUp
    <3>2. CASE id \in owed
      BY <2>1, <2>2, <2>4, <3>1, <3>2, ZenonT(40) DEF BudgetOf, Trying
    <3>3. ASSUME NEW b \in Queued, b.id = id PROVE Bounded(id) => tries[id] <= Budget(id)
      <4>1. Limited(CurrentLogic(id)) => tries[id] < Grants(CurrentLogic(id))
        BY <2>2, <2>4, <3>3, Zenon DEF BudgetOf, TriesLeft
      <4>2. Limited(CurrentLogic(id)) => Grants(CurrentLogic(id)) \in Nat
        <5>1. Live(id) /\ sub_of[id] \in Subroutine /\ fn_index[id] \in Nat \cup {None}
          BY <2>2, <2>4, ZenonT(40) DEF IdInv, PInv, StorageTyped
        <5> DEFINE i == IF fn_index[id] = None THEN 0 ELSE fn_index[id]
        <5>3. i \in Nat /\ i < Len(sub_of[id].functions) /\ done[id] = 0 .. i - 1
          BY <5>1, SubroutineParts DEF Live
        <5>4. CurrentLogic(id) \in RetryLogicType \cup {None}
          BY <5>1, <5>3, CurrentFunction, ZenonT(40) DEF CurrentLogic
        <5> QED BY <5>4, GrantsTyped, Zenon
      <4> QED BY <2>1, <2>2, <4>1, <4>2
    <3> QED BY <2>2, <2>4, <3>1, <3>2, <3>3, Zenon DEF IdInv, IsQueued
  <2> QED BY <2>3, <2>4, ZenonT(40)
<1>2. Spec => []BudgetInv
  BY InitBudget, NextBudget, Invariant, PTL DEF Spec
<1> QED BY <1>1, <1>2, Invariant, PTL
=============================================================================

------------------------------ MODULE Processor ------------------------------
(***************************************************************************)
(* The processor contract: two queues of message batches, worked off one   *)
(* function (or one atomic batch) per tick.  An entry point is a           *)
(* transaction, so it is one action: the call, the submessage it sends,    *)
(* the reply() that follows in the same transaction, and every store       *)
(* either makes.  A call that returns an error changes nothing and is      *)
(* simply not enabled.                                                     *)
(*                                                                         *)
(* Time is kept as what is left of each deadline: a batch carries the      *)
(* seconds until it expires (negative once it has) and the seconds of      *)
(* cooldown before it may be retried.                                      *)
(*                                                                         *)
(* The variables under "observations" are not storage of the contract:     *)
(* they record what the libraries and the authorization module see.        *)
(***************************************************************************)
EXTENDS Integers, Sequences, FiniteSets, QueueOps

CONSTANTS
  Id,                  \* execution ids the authorization module hands out
  Subroutine,          \* subroutines a batch may carry, see SubroutineType
  Lifetime,            \* lifetimes a batch may arrive with; None: never expires
  ProcessorDomain,     \* "Main" or "External"
  MaxSends,            \* bound: how often one result is put on the bridge
  MaxTries,            \* bound: how often one function is tried
  None                 \* an absent entry of a storage map

Priority == {"High", "Medium"}

Indefinitely == -1

\* RetryLogic.times is Amount(n) or Indefinitely; interval in seconds.
RetryLogicType == [times : Nat \cup {Indefinitely}, interval : Nat]

\* functions is a sequence of AtomicFunction or NonAtomicFunction; an atomic
\* subroutine has one retry logic for the batch and ignores those of its
\* functions, which have none.  confirm: a callback_confirmation is set.
SubroutineType ==
  [atomic : BOOLEAN, retry : RetryLogicType \cup {None},
   functions : Seq([retry : RetryLogicType \cup {None}, confirm : BOOLEAN])]

\* MessageBatch.  left: the seconds until it expires; None: it does not.
Batch ==
  [id : Id, sub : Subroutine, priority : Priority, left : Int \cup {None},
   retry : [amounts : Nat, cooldown : Nat] \cup {None}]

\* What is reported of a batch (n: functions that ran), and the record of a report
\* that went through the bridge.
ExecutionResult ==
  [kind : {"Success", "Rejected", "PartiallyExecuted", "Expired", "RemovedByOwner"}, n : Nat]

PolytoneCallback ==
  [result : ExecutionResult, state : {"Pending", "TimedOut", "UnexpectedError"}]

ASSUME ProcessorConstants ==
  /\ ProcessorDomain \in {"Main", "External"}
  /\ MaxSends \in Nat /\ MaxTries \in Nat
  /\ Subroutine \subseteq SubroutineType /\ \A s \in Subroutine : Len(s.functions) > 0
  /\ Lifetime \subseteq Int \cup {None}
  /\ None \notin Int /\ None \notin Subroutine /\ None \notin Batch
  /\ None \notin [amounts : Nat, cooldown : Nat] /\ None \notin PolytoneCallback
  /\ None # "PendingResponse"

VARIABLES
  state,               \* CONFIG.state
  proxy_state,         \* CONFIG.processor_domain.proxy_on_main_domain_state
  queues,              \* HIGH_PRIORITY_QUEUE, MED_PRIORITY_QUEUE
  batch_of,            \* EXECUTION_ID_TO_BATCH
  fn_index,            \* NON_ATOMIC_BATCH_CURRENT_FUNCTION_INDEX
  pending_callback,    \* PENDING_CALLBACK: the copy of the batch it holds
  pending_polytone     \* PENDING_POLYTONE_CALLBACKS

storage == <<state, proxy_state, queues, batch_of, fn_index, pending_callback, pending_polytone>>

VARIABLES              \* observations
  sub_of,              \* id -> the subroutine it arrived with; None: not sent here yet
  owed,                \* ids for which a library ran and still has to call back
  results,             \* id -> execution results the processor decided, in order
  done,                \* id -> functions that ran and were confirmed where required
  tries,               \* id -> how often its current function was started
  packets,             \* result packets put on the bridge, with their fate
  proxy_sent           \* a proxy creation message is unanswered

observations == <<sub_of, owed, results, done, tries, packets, proxy_sent>>

vars == <<storage, observations>>

-----------------------------------------------------------------------------
\* A new batch; it has one message for each function of the subroutine.
MessageBatch(id, sub, p, left) ==
  [id |-> id, sub |-> sub, priority |-> p, left |-> left, retry |-> None]

\* expiration_time < block time
HasExpired(left) == left # None /\ left < 0

\* The retry logic that governs a failure at function i.
RetryLogic(sub, i) == IF sub.atomic THEN sub.retry ELSE sub.functions[i + 1].retry

\* What the bridge answers: the message ran, it failed, it ran out of gas, or
\* it was not delivered in time.
BridgeReply == {"ok", "error", "fatal", "timeout"}

Accepted == {id \in Id : sub_of[id] # None}

Sends(id) == {k \in packets : k.id = id}

Pushed(qs, b) == [qs EXCEPT ![b.priority] = Append(@, b)]

Init ==
  /\ state = "Active"
  /\ proxy_state = IF ProcessorDomain = "Main" THEN None ELSE "PendingResponse"
  /\ queues = [p \in Priority |-> <<>>]
  /\ batch_of = [id \in Id |-> None]
  /\ fn_index = [id \in Id |-> None]
  /\ pending_callback = [id \in Id |-> None]
  /\ pending_polytone = [id \in Id |-> None]
  /\ sub_of = [id \in Id |-> None]
  /\ owed = {}
  /\ results = [id \in Id |-> <<>>]
  /\ done = [id \in Id |-> {}]
  /\ tries = [id \in Id |-> 0]
  /\ packets = {}
  /\ proxy_sent = (ProcessorDomain = "External")

-----------------------------------------------------------------------------
\* The handlers below are parts of one transaction.  qs and ix are the queues
\* and the function index as the transaction has left them so far.

\* A result goes to the authorization module as a direct call on the main
\* domain, and as a recorded packet through the Polytone note elsewhere.
create_callback_message(id, result) ==
  IF ProcessorDomain = "Main"
  THEN UNCHANGED <<pending_polytone, packets>>
  ELSE /\ pending_polytone' = [pending_polytone EXCEPT
                                 ![id] = [result |-> result, state |-> "Pending"]]
       /\ packets' = packets \cup
            {[id |-> id, n |-> Cardinality(Sends(id)), result |-> result,
              reply |-> "none", acked |-> FALSE]}

report(id, kind, n) ==
  /\ create_callback_message(id, [kind |-> kind, n |-> n])
  /\ results' = [results EXCEPT ![id] = Append(@, [kind |-> kind, n |-> n])]

no_report == UNCHANGED <<pending_polytone, packets, results>>

\* The clean up that ends a batch in the reply and callback handlers.
clean_up(id, ix) ==
  /\ fn_index' = [ix EXCEPT ![id] = None]
  /\ batch_of' = [batch_of EXCEPT ![id] = None]

\* Variant: the amount counts down.
put_back_into_queue_down(qs, batch, amounts, logic) ==
  LET b == [batch EXCEPT !.retry = [amounts |-> amounts - 1, cooldown |-> logic.interval]]
  IN /\ queues' = Pushed(qs, b)
     /\ batch_of' = [batch_of EXCEPT ![b.id] = b]

put_back_into_queue(qs, batch, amounts, logic) ==
  LET b == [batch EXCEPT !.retry = [amounts |-> amounts + 1, cooldown |-> logic.interval]]
  IN /\ queues' = Pushed(qs, b)
     /\ batch_of' = [batch_of EXCEPT ![b.id] = b]

\* Variant: the index is not stored.
handle_successful_non_atomic_callback_stuck(qs, ix, batch) ==
  LET next_index == ix[batch.id] + 1
  IN \/ /\ next_index >= Len(batch.sub.functions)
        /\ report(batch.id, "Success", 0)
        /\ clean_up(batch.id, ix)
        /\ queues' = qs
     \/ /\ next_index < Len(batch.sub.functions)
        /\ fn_index' = ix
        /\ queues' = Pushed(qs, [batch EXCEPT !.retry = None])
        /\ no_report
        /\ UNCHANGED batch_of

handle_successful_non_atomic_callback(qs, ix, batch) ==
  LET next_index == ix[batch.id] + 1
  IN \/ /\ next_index >= Len(batch.sub.functions)
        /\ report(batch.id, "Success", 0)
        /\ clean_up(batch.id, ix)
        /\ queues' = qs
     \/ /\ next_index < Len(batch.sub.functions)
        /\ fn_index' = [ix EXCEPT ![batch.id] = next_index]
        /\ queues' = Pushed(qs, [batch EXCEPT !.retry = None])
        /\ no_report
        /\ UNCHANGED batch_of

\* The entry of EXECUTION_ID_TO_BATCH stays behind.
handle_successful_atomic_callback(qs, ix, batch) ==
  /\ report(batch.id, "Success", 0)
  /\ queues' = qs /\ fn_index' = ix
  /\ UNCHANGED batch_of

\* Variant: one retry too many.
Exhausted_late(logic, amounts) ==
  logic # None /\ logic.times # Indefinitely /\ amounts > logic.times

\* All retries of a bounded retry logic are used up.
Exhausted(logic, amounts) ==
  logic # None /\ logic.times # Indefinitely /\ amounts >= logic.times

handle_unsuccessful_callback(qs, ix, batch) ==
  LET index     == IF ix[batch.id] = None THEN 0 ELSE ix[batch.id]
      logic     == RetryLogic(batch.sub, index)
      amounts   == IF batch.retry = None THEN 0 ELSE batch.retry.amounts
      exhausted == Exhausted(logic, amounts)
  IN \/ /\ logic = None
        /\ report(batch.id, "Rejected", 0)
        /\ clean_up(batch.id, ix)
        /\ queues' = qs
     \/ /\ exhausted
        /\ IF index = 0 THEN report(batch.id, "Rejected", 0)
                        ELSE report(batch.id, "PartiallyExecuted", index)
        /\ clean_up(batch.id, ix)
        /\ queues' = qs
     \/ /\ logic # None /\ ~exhausted
        /\ put_back_into_queue(qs, batch, amounts, logic)
        /\ fn_index' = ix
        /\ no_report

\* reply() after the submessage of a tick.  It works on the copy of the batch
\* in EXECUTION_ID_TO_BATCH, not on the one that was popped, and takes a batch
\* without an index for an atomic one.
reply(id, ok, qs, ix) ==
  /\ batch_of[id] # None
  /\ \/ /\ ok /\ ix[id] # None /\ pending_callback'[id] # None
        /\ queues' = qs /\ fn_index' = ix
        /\ no_report
        /\ UNCHANGED batch_of
     \/ /\ ok /\ ix[id] # None /\ pending_callback'[id] = None
        /\ handle_successful_non_atomic_callback(qs, ix, batch_of[id])
     \/ /\ ok /\ ix[id] = None
        /\ handle_successful_atomic_callback(qs, ix, batch_of[id])
     \/ /\ ~ok
        /\ handle_unsuccessful_callback(qs, ix, batch_of[id])

-----------------------------------------------------------------------------
\* Entry points of the authorization module (through its proxy elsewhere).

\* Enqueue and insert share the refusal of a batch that is already expired.
refuse_expired(id, sub, left) ==
  /\ HasExpired(left)
  /\ report(id, "Expired", 0)
  /\ sub_of' = [sub_of EXCEPT ![id] = sub]
  /\ UNCHANGED <<state, proxy_state, queues, batch_of, fn_index, pending_callback,
                 owed, done, tries, proxy_sent>>

accept(b) ==
  /\ batch_of' = [batch_of EXCEPT ![b.id] = b]
  /\ sub_of' = [sub_of EXCEPT ![b.id] = b.sub]
  /\ no_report
  /\ UNCHANGED <<state, proxy_state, fn_index, pending_callback, owed, done, tries, proxy_sent>>

enqueue_messages(id, sub, p, left) ==
  \/ refuse_expired(id, sub, left)
  \/ LET b == MessageBatch(id, sub, p, left)
     IN /\ ~HasExpired(left)
        /\ queues' = Pushed(queues, b)
        /\ accept(b)

insert_messages(id, sub, p, left, position) ==
  \/ refuse_expired(id, sub, left)
  \/ LET b == MessageBatch(id, sub, p, left)
     IN /\ ~HasExpired(left)
        /\ position <= Len(queues[p])
        /\ queues' = [queues EXCEPT ![p] = InsertedAt(@, position, b)]
        /\ accept(b)

evict_messages(position, p) ==
  /\ position < Len(queues[p])
  /\ LET id == queues[p][position + 1].id
     IN /\ queues' = [queues EXCEPT ![p] = RemovedAt(@, position)]
        /\ clean_up(id, fn_index)
        /\ pending_callback' = [pending_callback EXCEPT ![id] = None]
        /\ report(id, "RemovedByOwner", 0)
  /\ UNCHANGED <<state, proxy_state, sub_of, owed, done, tries, proxy_sent>>

set_state(new) ==
  /\ state' = new
  /\ UNCHANGED <<proxy_state, queues, batch_of, fn_index, pending_callback,
                 pending_polytone, observations>>

pause_processor == set_state("Paused")

resume_processor == set_state("Active")

-----------------------------------------------------------------------------
\* The permissionless tick, by what it finds at the front of the queue.

\* Variant: only the queue of high priority is worked off.
TickQueue_high == "High"

TickQueue == IF queues["High"] # <<>> THEN "High" ELSE "Medium"

CanTick == state = "Active" /\ queues[TickQueue] # <<>>

Front == Head(queues[TickQueue])

Popped == [queues EXCEPT ![TickQueue] = Tail(@)]

Cooling(b) == b.retry # None /\ b.retry.cooldown > 0

Runnable == CanTick /\ ~HasExpired(Front.left) /\ ~Cooling(Front)

\* Variant: the functions already executed are not counted.
tick_expired_uncounted ==
  /\ CanTick
  /\ HasExpired(Front.left)
  /\ report(Front.id, "Expired", 0)
  /\ clean_up(Front.id, fn_index)
  /\ queues' = Popped
  /\ UNCHANGED <<state, proxy_state, pending_callback, sub_of, owed, done, tries, proxy_sent>>

tick_expired ==
  /\ CanTick
  /\ HasExpired(Front.left)
  /\ report(Front.id, "Expired",
            IF Front.sub.atomic \/ fn_index[Front.id] = None THEN 0 ELSE fn_index[Front.id])
  /\ clean_up(Front.id, fn_index)
  /\ queues' = Popped
  /\ UNCHANGED <<state, proxy_state, pending_callback, sub_of, owed, done, tries, proxy_sent>>

\* Variant: the batch is popped and not put back.
tick_cooling_dropped ==
  /\ CanTick
  /\ ~HasExpired(Front.left)
  /\ Cooling(Front)
  /\ queues' = Popped
  /\ UNCHANGED <<state, proxy_state, batch_of, fn_index, pending_callback,
                 pending_polytone, observations>>

tick_cooling ==
  /\ CanTick
  /\ ~HasExpired(Front.left)
  /\ Cooling(Front)
  /\ queues' = [Popped EXCEPT ![TickQueue] = Append(@, Front)]
  /\ UNCHANGED <<state, proxy_state, batch_of, fn_index, pending_callback,
                 pending_polytone, observations>>

\* ExecuteAtomic runs every function or, on an error, reverts them all.
tick_atomic(ok) ==
  /\ Runnable
  /\ Front.sub.atomic
  /\ ok \/ tries[Front.id] < MaxTries
  /\ UNCHANGED pending_callback
  /\ reply(Front.id, ok, Popped, fn_index)
  /\ done' = [done EXCEPT ![Front.id] = IF ok THEN 0 .. Len(Front.sub.functions) - 1 ELSE @]
  /\ tries' = [tries EXCEPT ![Front.id] = IF ok THEN 0 ELSE @ + 1]
  /\ UNCHANGED <<state, proxy_state, sub_of, owed, proxy_sent>>

\* One function runs as a submessage.  The index of a new batch and the entry
\* of PENDING_CALLBACK are stored before it and survive its failure.
tick_function(ok) ==
  LET id       == Front.id
      index    == IF fn_index[id] = None THEN 0 ELSE fn_index[id]
      function == Front.sub.functions[index + 1]
      complete == ok /\ ~function.confirm
  IN /\ Runnable
     /\ ~Front.sub.atomic
     /\ complete \/ tries[id] < MaxTries
     /\ pending_callback' = IF function.confirm
                            THEN [pending_callback EXCEPT ![id] = Front]
                            ELSE pending_callback
     /\ reply(id, ok, Popped, [fn_index EXCEPT ![id] = index])
     /\ owed' = IF ok /\ function.confirm THEN owed \cup {id} ELSE owed
     /\ done' = [done EXCEPT ![id] = IF complete THEN @ \cup {index} ELSE @]
     /\ tries' = [tries EXCEPT ![id] = IF complete THEN 0 ELSE @ + 1]
     /\ UNCHANGED <<state, proxy_state, sub_of, proxy_sent>>

process_tick ==
  \/ tick_expired
  \/ tick_cooling
  \/ \E ok \in BOOLEAN : tick_atomic(ok) \/ tick_function(ok)

\* Variant: the entry of PENDING_CALLBACK is not removed.
process_callback_kept(id, right) ==
  /\ id \in owed
  /\ pending_callback[id] # None
  /\ fn_index[id] # None
  /\ IF right
     THEN handle_successful_non_atomic_callback(queues, fn_index, pending_callback[id])
     ELSE handle_unsuccessful_callback(queues, fn_index, pending_callback[id])
  /\ owed' = owed \ {id}
  /\ done' = [done EXCEPT ![id] = IF right THEN @ \cup {fn_index[id]} ELSE @]
  /\ tries' = [tries EXCEPT ![id] = IF right THEN 0 ELSE @]
  /\ UNCHANGED <<state, proxy_state, pending_callback, sub_of, proxy_sent>>

\* The callback of the library a confirmed function ran in, in a transaction of
\* its own; right: it carries the message the function declared.
process_callback(id, right) ==
  /\ id \in owed
  /\ pending_callback[id] # None
  /\ fn_index[id] # None
  /\ IF right
     THEN handle_successful_non_atomic_callback(queues, fn_index, pending_callback[id])
     ELSE handle_unsuccessful_callback(queues, fn_index, pending_callback[id])
  /\ pending_callback' = [pending_callback EXCEPT ![id] = None]
  /\ owed' = owed \ {id}
  /\ done' = [done EXCEPT ![id] = IF right THEN @ \cup {fn_index[id]} ELSE @]
  /\ tries' = [tries EXCEPT ![id] = IF right THEN 0 ELSE @]
  /\ UNCHANGED <<state, proxy_state, sub_of, proxy_sent>>

-----------------------------------------------------------------------------
\* The bridge back to the main domain, used by an external processor only.

\* Variant: a result is resent while its packet is under way.
retry_callback_early(id) ==
  /\ pending_polytone[id] # None
  /\ Cardinality(Sends(id)) < MaxSends
  /\ create_callback_message(id, pending_polytone[id].result)
  /\ UNCHANGED <<state, proxy_state, queues, batch_of, fn_index, pending_callback,
                 sub_of, owed, results, done, tries, proxy_sent>>

\* Anyone may resend a result whose packet timed out.
retry_callback(id) ==
  /\ pending_polytone[id] # None
  /\ pending_polytone[id].state = "TimedOut"
  /\ Cardinality(Sends(id)) < MaxSends
  /\ create_callback_message(id, pending_polytone[id].result)
  /\ UNCHANGED <<state, proxy_state, queues, batch_of, fn_index, pending_callback,
                 sub_of, owed, results, done, tries, proxy_sent>>

\* A packet meets its fate: the authorization contract ran it, refused it, ran
\* out of gas on it, or it was not delivered in time.  The answer travels back
\* separately.
relay(k, r) ==
  /\ k.reply = "none"
  /\ packets' = (packets \ {k}) \cup {[k EXCEPT !.reply = r]}
  /\ UNCHANGED <<storage, sub_of, owed, results, done, tries, proxy_sent>>

polytone_result_callback(k) ==
  /\ k.reply # "none" /\ ~k.acked
  /\ \/ /\ k.reply = "ok"
        /\ pending_polytone' = [pending_polytone EXCEPT ![k.id] = None]
     \/ /\ k.reply # "ok"
        /\ pending_polytone[k.id] # None
        /\ pending_polytone' = [pending_polytone EXCEPT ![k.id].state =
             IF k.reply = "timeout" THEN "TimedOut" ELSE "UnexpectedError"]
  /\ packets' = (packets \ {k}) \cup {[k EXCEPT !.acked = TRUE]}
  /\ UNCHANGED <<state, proxy_state, queues, batch_of, fn_index, pending_callback,
                 sub_of, owed, results, done, tries, proxy_sent>>

\* An error of the (empty) creation message still means the proxy exists.
polytone_proxy_callback(r) ==
  /\ proxy_sent
  /\ proxy_state' = CASE r = "timeout" -> "TimedOut"
                      [] r = "fatal"   -> "UnexpectedError"
                      [] OTHER         -> "Created"
  /\ proxy_sent' = FALSE
  /\ UNCHANGED <<state, queues, batch_of, fn_index, pending_callback, pending_polytone,
                 sub_of, owed, results, done, tries, packets>>

retry_bridge_creation ==
  /\ ProcessorDomain = "External"
  /\ proxy_state = "TimedOut"
  /\ proxy_state' = "PendingResponse"
  /\ proxy_sent' = TRUE
  /\ UNCHANGED <<state, queues, batch_of, fn_index, pending_callback, pending_polytone,
                 sub_of, owed, results, done, tries, packets>>

-----------------------------------------------------------------------------
\* One second passes for every deadline held in a copy of a batch.
Later(left) == IF left = None \/ left < 0 THEN left ELSE left - 1

Cooler(retry) ==
  IF retry = None \/ retry.cooldown = 0 THEN retry ELSE [retry EXCEPT !.cooldown = @ - 1]

Aged(b) ==
  IF b = None THEN None ELSE [b EXCEPT !.left = Later(b.left), !.retry = Cooler(b.retry)]

pass_time ==
  /\ queues' = [p \in Priority |-> [i \in 1 .. Len(queues[p]) |-> Aged(queues[p][i])]]
  /\ batch_of' = [id \in Id |-> Aged(batch_of[id])]
  /\ pending_callback' = [id \in Id |-> Aged(pending_callback[id])]
  /\ UNCHANGED <<state, proxy_state, fn_index, pending_polytone, observations>>

-----------------------------------------------------------------------------
\* An id is sent once: a resend follows only a delivery that did not happen.
FromAuthorization ==
  \/ \E id \in Id \ Accepted, sub \in Subroutine, p \in Priority, left \in Lifetime :
       \/ enqueue_messages(id, sub, p, left)
       \/ \E position \in 0 .. Len(queues[p]) : insert_messages(id, sub, p, left, position)
  \/ \E p \in Priority : \E position \in 0 .. Len(queues[p]) - 1 : evict_messages(position, p)
  \/ pause_processor
  \/ resume_processor

FromBridge ==
  \/ \E k \in packets : polytone_result_callback(k) \/ \E r \in BridgeReply : relay(k, r)
  \/ \E r \in BridgeReply : polytone_proxy_callback(r)

Next ==
  \/ FromAuthorization
  \/ process_tick
  \/ \E id \in Id, right \in BOOLEAN : process_callback(id, right)
  \/ \E id \in Id : retry_callback(id)
  \/ retry_bridge_creation
  \/ FromBridge
  \/ pass_time

Spec == Init /\ [][Next]_vars

\* Ticks are permissionless and someone keeps sending them; libraries answer.
Fairness ==
  /\ WF_vars(process_tick)
  /\ \A id \in Id : WF_vars(\E right \in BOOLEAN : process_callback(id, right))
  /\ WF_vars(pass_time)

FairSpec == Spec /\ Fairness

-----------------------------------------------------------------------------
QueuedTimes(id) ==
  Cardinality(Occurrences(queues["High"], id)) + Cardinality(Occurrences(queues["Medium"], id))

Queued == UNION {{queues[p][i] : i \in 1 .. Len(queues[p])} : p \in Priority}

Count(b) == IF b THEN 1 ELSE 0

TypeOK ==
  /\ state \in {"Active", "Paused"}
  /\ proxy_state \in {None, "PendingResponse", "TimedOut", "Created", "UnexpectedError"}
  /\ Queued \subseteq Batch
  /\ \A id \in Id :
       /\ batch_of[id] # None => batch_of[id] \in Batch /\ batch_of[id].id = id
       /\ pending_callback[id] # None =>
            pending_callback[id] \in Batch /\ pending_callback[id].id = id
       /\ fn_index[id] = None \/ fn_index[id] \in Nat
  /\ \A id \in Id : sub_of[id] \in Subroutine \cup {None}
  /\ owed \subseteq Accepted

\* Whatever ticks, callbacks, evictions and insertions happen in between, a
\* batch that arrived is in exactly one place: once in a queue, or waiting for
\* a library that still has to call back, or reported.  It is never lost,
\* never queued twice and never reported twice.
ExactlyOnePlace ==
  \A id \in Accepted : QueuedTimes(id) + Count(id \in owed) + Len(results[id]) = 1

\* The copies the handlers rely on agree: whatever reply() or a library
\* callback needs is still stored, and the index tells atomic from non-atomic.
\* Otherwise the tick or the callback would fail for ever and block the queue.
StorageServesReply ==
  /\ \A b \in Queued :
       /\ batch_of[b.id] # None
       /\ batch_of[b.id].sub = b.sub /\ batch_of[b.id].priority = b.priority
       /\ b.sub.atomic => fn_index[b.id] = None
       /\ fn_index[b.id] # None => fn_index[b.id] < Len(b.sub.functions)
       /\ pending_callback[b.id] # None =>
            fn_index[b.id] # None /\ b.sub.functions[fn_index[b.id] + 1].confirm
  /\ \A id \in owed :
       /\ fn_index[id] # None /\ pending_callback[id] # None /\ batch_of[id] # None
       /\ fn_index[id] < Len(pending_callback[id].sub.functions)

\* The stored index counts the functions that completed, in order: none is
\* skipped and none that completed runs again.
FunctionsInOrder ==
  \A id \in Accepted :
    results[id] = <<>> => done[id] = IF fn_index[id] = None THEN {} ELSE 0 .. fn_index[id] - 1

\* What a result says about the functions is what happened to them.  (A
\* rejection is left to RejectedMeansNothingRan.)
ResultsTellTheTruth ==
  \A id \in Accepted : results[id] # <<>> =>
    LET r == results[id][1]
    IN /\ r.kind \in {"Expired", "PartiallyExecuted"} => done[id] = 0 .. r.n - 1
       /\ r.kind = "PartiallyExecuted" => done[id] # {}
       /\ r.kind = "Success" => done[id] = 0 .. Len(sub_of[id].functions) - 1

\* Batches with a function still to run, and the retry logic of that function.
Unfinished == {id \in Accepted : done[id] # 0 .. Len(sub_of[id].functions) - 1}

FirstMissing(S, n) == CHOOSE i \in 0 .. n : i \notin S /\ 0 .. i - 1 \subseteq S

CurrentLogic(id) == RetryLogic(sub_of[id], FirstMissing(done[id], Len(sub_of[id].functions)))

Bounded(id) == CurrentLogic(id) = None \/ CurrentLogic(id).times # Indefinitely

\* The number of starts a bounded retry logic grants.
Budget(id) == IF CurrentLogic(id) = None THEN 1 ELSE CurrentLogic(id).times + 1

GaveUp(id) == results[id] # <<>> /\ results[id][1].kind \in {"Rejected", "PartiallyExecuted"}

\* No function is started more often than its retry logic allows, and the
\* first function, or an atomic batch, is given up only after all of its
\* retries, whichever copy of the batch each failure was counted in.
RetryBudget ==
  \A id \in Unfinished :
    /\ Bounded(id) => tries[id] <= Budget(id)
    /\ GaveUp(id) => Bounded(id)
    /\ GaveUp(id) /\ done[id] = {} => tries[id] = Budget(id)

\* A result is delivered to the authorization contract at most once, however often
\* its packet timed out and was resent, and until it is, it is still recorded.  A
\* packet or a proxy creation is outstanding exactly while the contract says so: a
\* retry never doubles one.
ResultDelivery ==
  /\ \A id \in Id :
       LET delivered == {k \in Sends(id) : k.reply = "ok"}
           outstanding == {k \in Sends(id) : ~k.acked}
       IN /\ Cardinality(delivered) <= 1 /\ Cardinality(outstanding) <= 1
          /\ Sends(id) # {} /\ delivered = {} =>
               pending_polytone[id] # None /\ pending_polytone[id].result = results[id][1]
          /\ outstanding # {} <=>
               (pending_polytone[id] # None /\ pending_polytone[id].state = "Pending")
  /\ proxy_sent <=> proxy_state = "PendingResponse"

\* A batch of which some function may be retried without bound.
Endless(id) ==
  \E i \in 0 .. Len(sub_of[id].functions) - 1 :
    LET logic == RetryLogic(sub_of[id], i) IN logic # None /\ logic.times = Indefinitely

\* Under fair ticks, libraries that answer and time that passes, every batch is
\* reported in the end, whichever queue it is in, unless the owner pauses the
\* processor or sends a batch that may be retried without bound.
EveryBatchReported ==
  \A id \in Id :
    id \in Accepted ~> (results[id] # <<>> \/ state = "Paused" \/ \E b \in Accepted : Endless(b))

-----------------------------------------------------------------------------
\* What the documentation says and the code does not do.

\* processor.md: Rejected means that no function of the batch succeeded.
RejectedMeansNothingRan ==
  \A id \in Accepted : results[id] # <<>> /\ results[id][1].kind = "Rejected" => done[id] = {}

\* callback.rs: moving to the next function resets the retries, so that every
\* function is given up only after all of its own.
EveryFunctionHasItsRetries ==
  \A id \in Unfinished : GaveUp(id) => tries[id] = Budget(id)
=============================================================================

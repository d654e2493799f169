---------------------------- MODULE Authorization ----------------------------
(***************************************************************************)
(* The authorization contract: who may start an execution, the record of   *)
(* every execution, the count of those in process, and the authorization   *)
(* token a user pays.  An entry point is a transaction and therefore one   *)
(* action; a call that fails changes nothing and is not enabled.  On the   *)
(* main domain the processor runs in the same transaction; a CosmWasm      *)
(* domain is reached through Polytone (IBC, with acknowledgements and      *)
(* timeouts), an EVM domain through Hyperlane (no timeouts).               *)
(*                                                                         *)
(* The variables under "observations" are not storage of the contract:     *)
(* they record what the token ledger, the bridges and the processors hold. *)
(***************************************************************************)
EXTENDS Integers, FiniteSets, Sequences

CONSTANTS
  Label,               \* labels of authorizations
  User,                \* accounts that execute them
  Owner,               \* initiator of inserted messages; not a User
  Mode,                \* label -> "Permissionless", "WithoutLimit" or "WithLimit"
  Zk,                  \* the labels of ZK authorizations
  Registry,            \* label -> registry of its ZK program
  Target,              \* label -> domains it may address, of "Main", "Polytone", "Evm"
  Reports,             \* results the processors may report
  Limits,              \* values of max_concurrent_executions in use
  MaxId,               \* bound: largest execution id
  MaxTokens,           \* bound: tokens minted to one user for one label
  MaxBlock             \* bound: largest block number of a ZK message

\* Results a processor reports, by what they mean for the token.
Executed == {"Success", "PartiallyExecuted", "RemovedByOwner"}
NotExecuted == {"Rejected", "Expired"}
Reported == Executed \cup NotExecuted

ASSUME AuthorizationConstants ==
  /\ Owner \notin User
  /\ Zk \subseteq Label
  /\ Reports \subseteq Reported
  /\ Label # {} /\ Limits # {} /\ Limits \subseteq Nat
  /\ MaxId \in Nat /\ MaxTokens \in Nat /\ MaxBlock \in Nat
  /\ Target \in [Label -> SUBSET {"Main", "Polytone", "Evm"}]
  /\ \A l \in Zk : "Evm" \notin Target[l]
  /\ \A l \in Label \ Zk : Cardinality(Target[l]) = 1

VARIABLES
  authorizations,      \* AUTHORIZATIONS and ZK_AUTHORIZATIONS
  current_executions,  \* CURRENT_EXECUTIONS
  callbacks,           \* PROCESSOR_CALLBACKS
  execution_id,        \* EXECUTION_ID
  last_block,          \* REGISTRY_LAST_BLOCK_EXECUTION
  proxy                \* state of the Polytone proxy in EXTERNAL_DOMAINS

storage == <<authorizations, current_executions, callbacks, execution_id, last_block, proxy>>

VARIABLES              \* observations
  balance,             \* label -> user -> tokens the user holds
  held,                \* label -> tokens the contract holds
  kept,                \* label -> tokens paid for ZK control messages
  sent,                \* id -> fate of its last Polytone packet
  running,             \* ids whose result a processor has still to return
  runs,                \* id -> how often a processor took it in
  zk_runs,             \* ZK messages executed, in order
  proxy_sent           \* a proxy creation message is unanswered

ledger == <<balance, held, kept>>
bridge == <<sent, running, runs>>
vars == <<storage, ledger, bridge, zk_runs, proxy_sent>>

Id == 0 .. MaxId

Domain == {"Main", "Polytone", "Evm"}

\* "Unused": no entry.  Timeout(true) and Timeout(false) are told apart.
Result == {"Unused", "InProcess", "TimeoutRetriable", "TimeoutFinal", "UnexpectedError"}
          \cup Reported

\* What Polytone answers: the message ran, it failed, it ran out of gas, or it
\* was not delivered in time.
BridgeReply == {"ok", "error", "fatal", "timeout"}

Callback == [label : Label, initiator : User \cup {Owner}, domain : Domain,
             ttl : {"none", "live", "expired"}, result : Result]

\* The block time against not_before and expiration.
Window == {"before", "open", "closed"}

AuthorizationRec == [state : {"Absent", "Enabled", "Disabled"}, max : Nat,
                     window : Window, validate : BOOLEAN]

HasLimit(l) == Mode[l] = "WithLimit"

Init ==
  /\ authorizations = [l \in Label |-> [state |-> "Absent", max |-> 0, window |-> "open",
                                        validate |-> FALSE]]
  /\ current_executions = [l \in Label |-> 0]
  /\ callbacks = [id \in Id |-> [label |-> CHOOSE l \in Label : TRUE, initiator |-> Owner,
                                 domain |-> "Main", ttl |-> "none", result |-> "Unused"]]
  /\ execution_id = 0
  /\ last_block = [r \in {Registry[l] : l \in Label} |-> 0]
  /\ proxy = "Absent"
  /\ balance = [l \in Label |-> [u \in User |-> 0]]
  /\ held = [l \in Label |-> 0]
  /\ kept = [l \in Label |-> 0]
  /\ sent = [id \in Id |-> "none"]
  /\ running = {}
  /\ runs = [id \in Id |-> 0]
  /\ zk_runs = <<>>
  /\ proxy_sent = FALSE

-----------------------------------------------------------------------------
\* Parts of transactions.

\* Variant: the balance is not looked at.
pay_unchecked(l, u) ==
  IF HasLimit(l)
  THEN /\ balance' = [balance EXCEPT ![l][u] = @ - 1]
       /\ held' = [held EXCEPT ![l] = @ + 1]
  ELSE UNCHANGED <<balance, held>>

\* validate_permission: a token is paid, or only has to be owned.
pay(l, u) ==
  /\ Mode[l] # "Permissionless" => balance[l][u] >= 1
  /\ IF HasLimit(l)
     THEN /\ balance' = [balance EXCEPT ![l][u] = @ - 1]
          /\ held' = [held EXCEPT ![l] = @ + 1]
     ELSE UNCHANGED <<balance, held>>

refund(l, u) ==
  /\ held[l] >= 1
  /\ balance' = [balance EXCEPT ![l][u] = @ + 1]
  /\ held' = [held EXCEPT ![l] = @ - 1]
  /\ UNCHANGED kept

burn(l) ==
  /\ held[l] >= 1
  /\ held' = [held EXCEPT ![l] = @ - 1]
  /\ UNCHANGED <<balance, kept>>

\* The execution was started by a user who paid for it.
Paid(c) == c.initiator # Owner /\ HasLimit(c.label)

raise_count(l) == current_executions' = [current_executions EXCEPT ![l] = @ + 1]

lower_count(l) ==
  /\ current_executions[l] # 0
  /\ current_executions' = [current_executions EXCEPT ![l] = @ - 1]

set_result(id, r) == callbacks' = [callbacks EXCEPT ![id].result = r]

\* The message goes to the processor: at once on the main domain, with
\* certainty through Hyperlane, and as a packet through Polytone.
create_msg_for_processor(id, d) ==
  IF d = "Polytone"
  THEN /\ sent' = [sent EXCEPT ![id] = "flight"]
       /\ UNCHANGED <<running, runs>>
  ELSE /\ running' = running \cup {id}
       /\ runs' = [runs EXCEPT ![id] = @ + 1]
       /\ UNCHANGED sent

store_inprocess_callback(l, initiator, d, ttl) ==
  callbacks' = [callbacks EXCEPT ![execution_id] =
    [label |-> l, initiator |-> initiator, domain |-> d, ttl |-> ttl, result |-> "InProcess"]]

get_and_increase_execution_id ==
  /\ execution_id <= MaxId
  /\ execution_id' = execution_id + 1

\* What send, insert and ZK execution have in common.
start(l, initiator, d, ttl) ==
  /\ raise_count(l)
  /\ get_and_increase_execution_id
  /\ store_inprocess_callback(l, initiator, d, ttl)
  /\ create_msg_for_processor(execution_id, d)

-----------------------------------------------------------------------------
\* Actions of the owner and the sub-owners.

Exists(l) == authorizations[l].state # "Absent"

Registered(d) == d = "Polytone" => proxy # "Absent"

owner_leaves == <<current_executions, callbacks, execution_id, last_block, held, kept,
                  bridge, zk_runs>>

\* Both kinds share one label space; a token denom is created and minted.
create(l, rec) ==
  /\ ~Exists(l)
  /\ authorizations' = [authorizations EXCEPT ![l] = rec]
  /\ balance' = [balance EXCEPT ![l] = [u \in User |->
                   IF Mode[l] = "Permissionless" THEN 0 ELSE 1]]
  /\ UNCHANGED <<proxy, proxy_sent>>
  /\ UNCHANGED owner_leaves

create_authorizations(l, max, window) ==
  /\ l \notin Zk
  /\ \A d \in Target[l] : Registered(d)
  /\ create(l, [state |-> "Enabled", max |-> max, window |-> window, validate |-> FALSE])

create_zk_authorizations(l, validate) ==
  /\ l \in Zk
  /\ create(l, [state |-> "Enabled", max |-> 0, window |-> "open", validate |-> validate])

change(l, rec) ==
  /\ authorizations' = [authorizations EXCEPT ![l] = rec]
  /\ UNCHANGED <<balance, proxy, proxy_sent>>
  /\ UNCHANGED owner_leaves

modify_authorization(l, max, window) ==
  /\ l \notin Zk /\ Exists(l)
  /\ change(l, [authorizations[l] EXCEPT !.max = max, !.window = window])

modify_zk_authorization(l, validate) ==
  /\ l \in Zk /\ Exists(l)
  /\ change(l, [authorizations[l] EXCEPT !.validate = validate])

disable_authorization(l) ==
  Exists(l) /\ change(l, [authorizations[l] EXCEPT !.state = "Disabled"])

enable_authorization(l) ==
  Exists(l) /\ change(l, [authorizations[l] EXCEPT !.state = "Enabled"])

mint_authorizations(l, u) ==
  /\ Exists(l)
  /\ Mode[l] # "Permissionless"
  /\ balance[l][u] < MaxTokens
  /\ balance' = [balance EXCEPT ![l][u] = @ + 1]
  /\ UNCHANGED <<authorizations, proxy, proxy_sent>>
  /\ UNCHANGED owner_leaves

add_external_domains ==
  /\ proxy = "Absent"
  /\ proxy' = "PendingResponse"
  /\ proxy_sent' = TRUE
  /\ UNCHANGED <<authorizations, balance>>
  /\ UNCHANGED owner_leaves

\* The owner's insertion ignores the state of the authorization and the limit.
insert_messages(l, d) ==
  /\ l \notin Zk /\ Exists(l)
  /\ start(l, Owner, d, "none")
  /\ UNCHANGED <<authorizations, last_block, proxy, ledger, zk_runs, proxy_sent>>

-----------------------------------------------------------------------------
\* Actions anyone may take.

\* Variant: one execution too many.
BelowLimit_late(l) == current_executions[l] <= authorizations[l].max

\* Fewer executions than max_concurrent_executions are in process.
BelowLimit(l) == current_executions[l] < authorizations[l].max

send_msgs(l, u, d, ttl) ==
  /\ l \notin Zk
  /\ authorizations[l].state = "Enabled"
  /\ authorizations[l].window = "open"
  /\ pay(l, u)
  /\ BelowLimit(l)
  /\ start(l, u, d, ttl)
  /\ UNCHANGED <<authorizations, last_block, proxy, kept, zk_runs, proxy_sent>>

\* Variant: the last block may be executed again.
check_last_block_again(l, block) ==
  IF authorizations[l].validate
  THEN /\ last_block[Registry[l]] <= block
       /\ last_block' = [last_block EXCEPT ![Registry[l]] = block]
  ELSE UNCHANGED last_block

\* The block number of a proven message against the registry's last one.
check_last_block(l, block) ==
  IF authorizations[l].validate
  THEN /\ last_block[Registry[l]] < block
       /\ last_block' = [last_block EXCEPT ![Registry[l]] = block]
  ELSE UNCHANGED last_block

\* A proven message either starts an execution or controls the processor
\* (evict, pause, resume); the latter leaves no record of an execution.
execute_zk_authorization(l, u, d, block, starts) ==
  /\ l \in Zk
  /\ authorizations[l].state = "Enabled"
  /\ pay(l, u)
  /\ Registered(d)
  /\ check_last_block(l, block)
  /\ IF starts
     THEN start(l, u, d, "none") /\ UNCHANGED kept
     ELSE /\ kept' = IF HasLimit(l) THEN [kept EXCEPT ![l] = @ + 1] ELSE kept
          /\ UNCHANGED <<current_executions, callbacks, execution_id, bridge>>
  /\ Len(zk_runs) <= MaxId
  /\ zk_runs' = Append(zk_runs, [registry |-> Registry[l], block |-> block,
                                 validated |-> authorizations[l].validate])
  /\ UNCHANGED <<authorizations, proxy, proxy_sent>>

\* Variants: everything sent, or everything answered, may be retried.
Retriable_sent(c) == c.result # "Unused"

Retriable_answered(c) == c.result \notin {"Unused", "InProcess"}

\* Only a retriable timeout may be retried.
Retriable(c) == c.result = "TimeoutRetriable"

\* Variant: the count is not raised.
resend_uncounted(id, c) ==
  /\ c.ttl = "live"
  /\ BelowLimit(c.label)
  /\ set_result(id, "InProcess")
  /\ create_msg_for_processor(id, c.domain)
  /\ UNCHANGED <<current_executions, ledger>>

\* With time left the messages are sent again, within the limit.
resend(id, c) ==
  /\ c.ttl = "live"
  /\ BelowLimit(c.label)
  /\ raise_count(c.label)
  /\ set_result(id, "InProcess")
  /\ create_msg_for_processor(id, c.domain)
  /\ UNCHANGED ledger

\* Variant: the record stays retriable.
close_open(id, c) ==
  /\ c.ttl # "live" /\ Paid(c)
  /\ refund(c.label, c.initiator)
  /\ UNCHANGED <<current_executions, callbacks, bridge>>

\* Without it the record is closed and the user who paid gets the token back
\* (for anyone else nothing changes).
close(id, c) ==
  /\ c.ttl # "live" /\ Paid(c)
  /\ set_result(id, "TimeoutFinal")
  /\ refund(c.label, c.initiator)
  /\ UNCHANGED <<current_executions, bridge>>

retry_msgs(id) ==
  /\ Retriable(callbacks[id])
  /\ resend(id, callbacks[id]) \/ close(id, callbacks[id])
  /\ UNCHANGED <<authorizations, execution_id, last_block, proxy, zk_runs, proxy_sent>>

-----------------------------------------------------------------------------
\* Callbacks.

callback_leaves == <<authorizations, execution_id, last_block, proxy, runs, zk_runs, proxy_sent>>

\* The result of a processor on the main domain or behind Polytone.  The record
\* is overwritten whatever it says.
process_processor_callback(id, r) ==
  LET c == callbacks[id]
  IN /\ id \in running
     /\ c.domain # "Evm"
     /\ set_result(id, r)
     /\ lower_count(c.label)
     /\ IF ~Paid(c) THEN UNCHANGED ledger
        ELSE IF r \in Executed THEN burn(c.label) ELSE refund(c.label, c.initiator)
     /\ running' = running \ {id}
     /\ UNCHANGED sent
     /\ UNCHANGED callback_leaves

\* The result of a processor behind Hyperlane: no token moves.
process_hyperlane_callback(id, r) ==
  LET c == callbacks[id]
  IN /\ id \in running
     /\ c.domain = "Evm"
     /\ set_result(id, r)
     /\ lower_count(c.label)
     /\ running' = running \ {id}
     /\ UNCHANGED <<ledger, sent>>
     /\ UNCHANGED callback_leaves

\* Polytone's answer to the packet that carried the execution.
polytone_acknowledged(id) == sent[id] = "ok" /\ UNCHANGED <<current_executions, callbacks, ledger>>

\* Variant: the result of a timeout is not saved.
polytone_failed_unsaved(id) ==
  LET c == callbacks[id]
  IN /\ sent[id] \in {"error", "timeout"}
     /\ lower_count(c.label)
     /\ IF sent[id] = "timeout" /\ c.ttl # "live" /\ Paid(c)
        THEN refund(c.label, c.initiator) ELSE UNCHANGED ledger
     /\ UNCHANGED callbacks

polytone_failed(id) ==
  LET c == callbacks[id]
      expired == c.ttl # "live"
  IN \/ /\ sent[id] \in {"error", "timeout"} /\ c.result # "InProcess"
        /\ UNCHANGED <<current_executions, callbacks, ledger>>
     \/ /\ sent[id] = "timeout" /\ c.result = "InProcess"
        /\ set_result(id, IF expired THEN "TimeoutFinal" ELSE "TimeoutRetriable")
        /\ lower_count(c.label)
        /\ IF expired /\ Paid(c) THEN refund(c.label, c.initiator) ELSE UNCHANGED ledger
     \/ /\ sent[id] = "error" /\ c.result = "InProcess"
        /\ set_result(id, "UnexpectedError")
        /\ lower_count(c.label)
        /\ UNCHANGED ledger

\* Not guarded by the state of the record.
polytone_fatal(id) ==
  /\ sent[id] = "fatal"
  /\ set_result(id, "UnexpectedError")
  /\ lower_count(callbacks[id].label)
  /\ UNCHANGED ledger

process_polytone_callback(id) ==
  /\ polytone_acknowledged(id) \/ polytone_failed(id) \/ polytone_fatal(id)
  /\ sent' = [sent EXCEPT ![id] = "none"]
  /\ UNCHANGED running
  /\ UNCHANGED callback_leaves

\* The answer to a proxy creation; an error other than a timeout means it exists.
polytone_proxy_callback(r) ==
  /\ proxy_sent
  /\ proxy' = CASE r = "fatal" -> "UnexpectedError"
                [] r = "timeout" /\ proxy = "PendingResponse" -> "TimedOut"
                [] OTHER -> "Created"
  /\ proxy_sent' = FALSE
  /\ UNCHANGED <<authorizations, current_executions, callbacks, execution_id, last_block,
                 ledger, bridge, zk_runs>>

retry_bridge_creation ==
  /\ proxy = "TimedOut"
  /\ proxy' = "PendingResponse"
  /\ proxy_sent' = TRUE
  /\ UNCHANGED <<authorizations, current_executions, callbacks, execution_id, last_block,
                 ledger, bridge, zk_runs>>

-----------------------------------------------------------------------------
\* The bridge and the clock.

\* The packet of an execution meets its fate; only "ok" means that the
\* processor took it in.
relay(id, r) ==
  /\ sent[id] = "flight"
  /\ sent' = [sent EXCEPT ![id] = r]
  /\ IF r = "ok"
     THEN /\ running' = running \cup {id}
          /\ runs' = [runs EXCEPT ![id] = @ + 1]
     ELSE UNCHANGED <<running, runs>>
  /\ UNCHANGED <<storage, ledger, zk_runs, proxy_sent>>

ttl_passes(id) ==
  /\ callbacks[id].ttl = "live"
  /\ callbacks' = [callbacks EXCEPT ![id].ttl = "expired"]
  /\ UNCHANGED <<authorizations, current_executions, execution_id, last_block, proxy,
                 ledger, bridge, zk_runs, proxy_sent>>

window_moves(l) ==
  /\ l \notin Zk /\ Exists(l)
  /\ authorizations[l].window # "closed"
  /\ authorizations' = [authorizations EXCEPT
                          ![l].window = IF @ = "before" THEN "open" ELSE "closed"]
  /\ UNCHANGED <<current_executions, callbacks, execution_id, last_block, proxy,
                 ledger, bridge, zk_runs, proxy_sent>>

-----------------------------------------------------------------------------
OwnerAction ==
  \/ \E l \in Label, max \in Limits, window \in Window :
       create_authorizations(l, max, window) \/ modify_authorization(l, max, window)
  \/ \E l \in Label, validate \in BOOLEAN :
       create_zk_authorizations(l, validate) \/ modify_zk_authorization(l, validate)
  \/ \E l \in Label : disable_authorization(l) \/ enable_authorization(l)
  \/ \E l \in Label, u \in User : mint_authorizations(l, u)
  \/ add_external_domains
  \/ \E l \in Label : \E d \in Target[l] : insert_messages(l, d)

UserAction ==
  \/ \E l \in Label, u \in User, ttl \in {"none", "live"} : \E d \in Target[l] :
       send_msgs(l, u, d, ttl)
  \/ \E l \in Label, u \in User, block \in 1 .. MaxBlock, starts \in BOOLEAN :
       \E d \in Target[l] : execute_zk_authorization(l, u, d, block, starts)
  \/ \E id \in Id : retry_msgs(id)
  \/ retry_bridge_creation

CallbackAction ==
  \/ \E id \in Id, r \in Reports :
       process_processor_callback(id, r) \/ process_hyperlane_callback(id, r)
  \/ \E id \in Id : process_polytone_callback(id)
  \/ \E r \in BridgeReply : polytone_proxy_callback(r)

Environment ==
  \/ \E id \in Id, r \in BridgeReply : relay(id, r)
  \/ \E id \in Id : ttl_passes(id)
  \/ \E l \in Label : window_moves(l)

Next == OwnerAction \/ UserAction \/ CallbackAction \/ Environment

Spec == Init /\ [][Next]_vars

\* Relayers deliver packets and answers, and processors finish what they took
\* in.  Nothing is assumed of owners and users.
Fairness ==
  \A id \in Id :
    /\ WF_vars(\E r \in BridgeReply : relay(id, r))
    /\ WF_vars(process_polytone_callback(id))
    /\ WF_vars(\E r \in Reports : process_processor_callback(id, r)
                                   \/ process_hyperlane_callback(id, r))

FairSpec == Spec /\ Fairness

-----------------------------------------------------------------------------
TypeOK ==
  /\ authorizations \in [Label -> AuthorizationRec]
  /\ current_executions \in [Label -> Nat]
  /\ callbacks \in [Id -> Callback]
  /\ execution_id \in 0 .. MaxId + 1
  /\ held \in [Label -> Nat] /\ kept \in [Label -> Nat]
  /\ balance \in [Label -> [User -> Nat]]
  /\ sent \in [Id -> BridgeReply \cup {"none", "flight"}]
  /\ running \in SUBSET Id
  /\ runs \in [Id -> Nat]
  /\ proxy \in {"Absent", "PendingResponse", "TimedOut", "Created", "UnexpectedError"}
  /\ proxy_sent \in BOOLEAN

InProcess(l) == {id \in Id : callbacks[id].label = l /\ callbacks[id].result = "InProcess"}

\* CURRENT_EXECUTIONS is the number of executions in process, whatever order
\* results, acknowledgements, timeouts and retries come in.  Otherwise a label
\* would lock itself out or admit more than its limit.
CountsMatch == \A l \in Label : current_executions[l] = Cardinality(InProcess(l))

\* An execution is in process exactly while one answer to it is still to come:
\* from the processor that took it in, or from the bridge that failed to
\* deliver it, and never from both.
OneAnswerToCome ==
  \A id \in Id :
    /\ callbacks[id].result = "InProcess" <=>
         id \in running \/ sent[id] \in {"flight", "error", "fatal", "timeout"}
    /\ id \in running => sent[id] \in {"none", "ok"}

\* Ids are handed out in order, each once.
IdsFresh ==
  \A id \in Id : (id >= execution_id) <=> callbacks[id].result = "Unused"

\* No execution is taken in by a processor twice: a retry follows only a
\* delivery that did not happen.
AtMostOnce ==
  \A id \in Id :
    runs[id] = IF id \in running \/ callbacks[id].result \in Reported THEN 1 ELSE 0

\* The contract keeps the token of an execution that is not closed yet, that
\* ended in an unexpected error, or that went to an EVM domain.
KeepsToken(c) ==
  /\ Paid(c)
  /\ \/ c.result \in {"InProcess", "TimeoutRetriable", "UnexpectedError"}
     \/ c.domain = "Evm" /\ c.result # "Unused"

Unsettled(l) == {id \in Id : callbacks[id].label = l /\ KeepsToken(callbacks[id])}

\* The contract holds one token for each of them and for each paid control
\* message: no token is returned or burned twice, and a refund or a burn never
\* lacks the token it moves, which would block the callback.
Escrow == \A l \in Label : held[l] = Cardinality(Unsettled(l)) + kept[l]

UserRuns(l) == {id \in InProcess(l) : callbacks[id].initiator # Owner}

\* A user gets an execution in process, by sending or by retrying, only while
\* fewer than the limit are in process, insertions of the owner included.
Admission ==
  [][\A l \in Label \ Zk :
       Cardinality(UserRuns(l)') > Cardinality(UserRuns(l)) =>
         Cardinality(InProcess(l)) < authorizations[l].max]_vars

Final == Reported \cup {"TimeoutFinal", "UnexpectedError"}

\* A final result is never revised, although no callback handler but one
\* looks at the result it overwrites.
ResultsFinal ==
  [][\A id \in Id : callbacks[id].result \in Final =>
       callbacks'[id].result = callbacks[id].result]_vars

\* With ZK authorizations that check it, the block numbers of a registry's
\* messages strictly increase: no proof is executed twice or after a later one.
BlocksIncrease ==
  \A i, j \in 1 .. Len(zk_runs) :
    i < j /\ zk_runs[i].registry = zk_runs[j].registry
          /\ zk_runs[i].validated /\ zk_runs[j].validated => zk_runs[i].block < zk_runs[j].block

\* Every execution is answered: no callback of a processor or of the bridge is
\* ever refused for lack of a count or of a token.
EveryExecutionAnswered ==
  \A id \in Id : callbacks[id].result = "InProcess" ~> callbacks[id].result # "InProcess"

-----------------------------------------------------------------------------
\* What the documentation says and the code does not do.

\* A token that was paid is burned or sent back once the execution is over.
TokensSettled ==
  \A l \in Label : \A id \in Unsettled(l) : callbacks[id].result \notin Final

\* A message that checks the block of its registry is not executed after one with a
\* higher block.
NoOlderBlock ==
  \A i, j \in 1 .. Len(zk_runs) :
    i < j /\ zk_runs[i].registry = zk_runs[j].registry /\ zk_runs[j].validated =>
      zk_runs[i].block <= zk_runs[j].block
=============================================================================

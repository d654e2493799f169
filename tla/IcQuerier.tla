----------------------------- MODULE IcQuerier -----------------------------
(***************************************************************************)
(* Interchain queries: the library that registers them with the chain's    *)
(* interchainqueries module, the broker that leads it to the type registry *)
(* of a version, and the storage accounts in which it keeps the results    *)
(* under the name of the query.                                            *)
(*                                                                         *)
(* The interchainqueries module and its relayers are external: it numbers  *)
(* the queries, holds a deposit for each, returns it to whoever removes    *)
(* the query, which after a period anyone may do, and calls sudo with the  *)
(* results, in any order between the queries.                              *)
(***************************************************************************)
EXTENDS Integers, Sequences, FiniteSets, StorageMap

CONSTANTS Query,           \* names of the query definitions
          TypeOf,          \* the type_url of a definition
          Pinned,          \* its registry_version: << >> or <<version>>
          Version,         \* registry versions
          Registry,        \* registry contracts that are added
          OtherBroker,     \* what another broker may hold when the library turns to it
          Knows,           \* the types a registry has adapters for
          QueryFee,        \* what the module may ask as a deposit
          Store,           \* storage accounts
          FirstStore,      \* the one the library starts with
          MaxIcq,          \* bound on registrations
          MaxCoffer,       \* bound on the library's balance
          MaxHeight        \* bound on the remote chain's height

VARIABLES querier,         \* Config: [query_id, registered_queries,
                           \*   pending_query_registrations, storage_acc_addr]
          broker,          \* the broker the library names: [active, latest]
          icq,             \* the module: id -> [query, deposit, height]
          icqLast,         \* the last id it gave
          icqFee,          \* the deposit it asks now
          coffer,          \* the library's balance
          stores           \* per storage account [approved, slots]

icqVars == <<querier, broker, icq, icqLast, icqFee, coffer, stores>>

IcqInit ==
  /\ querier = [query_id |-> [q \in Query |-> << >>], registered_queries |-> << >>,
                pending_query_registrations |-> << >>, storage_acc_addr |-> FirstStore]
  /\ broker = [active |-> << >>, latest |-> << >>]
  /\ icq = << >> /\ icqLast = 0
  /\ icqFee \in QueryFee
  /\ coffer = 0
  /\ stores = [s \in Store |-> [approved |-> s = FirstStore, slots |-> << >>]]

-----------------------------------------------------------------------------
(* The broker and the registries.                                          *)

\* Anyone sets the registry of a version, which becomes the latest.
try_add_new_registry(v, registry) ==
  /\ broker' = [active |-> Saved(broker.active, v, registry), latest |-> <<v>>]
  /\ UNCHANGED <<querier, icq, icqLast, icqFee, coffer, stores>>

\* The registry that answers for a version, the latest if none is given: a set of one,
\* or of none.
brokerRegistry(pinned) ==
  LET target == IF pinned = << >> THEN broker.latest ELSE pinned
  IN  {broker.active[v] : v \in {u \in DOMAIN broker.active : target = <<u>>}}

\* A registry builds the key of a type it knows.
try_get_kv_key(q) == \E r \in brokerRegistry(Pinned[q]) : TypeOf[q] \in Knows[r]

\* The adapters: what a result is reconstructed to, and what is made canonical.  The
\* bank adapter reconstructs a list of balances and converts a single one.
reconstructed(type) == IF type = "bank" THEN "balances" ELSE "pool"
canonicalOf(type) == IF type = "bank" THEN "balance" ELSE "pool"

\* A result becomes a Valence type: reconstruct, then make canonical.
convertible(q) ==
  /\ try_get_kv_key(q)
  /\ reconstructed(TypeOf[q]) = canonicalOf(TypeOf[q])

-----------------------------------------------------------------------------
(* The library.                                                            *)

\* Variant: the registration the query had is forgotten.
reply_replaced(cfg, nonce, id) ==
  LET q == cfg.pending_query_registrations[nonce]
      kept == {i \in DOMAIN cfg.registered_queries : <<i>> # cfg.query_id[q]}
  IN  [cfg EXCEPT !.pending_query_registrations = Without(@, nonce),
                  !.query_id[q] = <<id>>,
                  !.registered_queries = Saved([i \in kept |-> @[i]], id, q)]

\* reply: the number that the module gave belongs to the pending query.
reply(cfg, nonce, id) ==
  LET q == cfg.pending_query_registrations[nonce]
  IN  [cfg EXCEPT !.pending_query_registrations = Without(@, nonce),
                  !.query_id[q] = <<id>>,
                  !.registered_queries = Saved(@, id, q)]

\* The deposit comes with the call or from the library's own balance.
query_icq_registration_fee(paid) ==
  /\ paid # 0 => paid >= icqFee
  /\ coffer + paid >= icqFee

\* One transaction: the library notes the pending query, the module takes the deposit
\* and gives a number, and reply is called with it.
register_kv_query(q, paid) ==
  LET nonce == Cardinality(DOMAIN querier.pending_query_registrations)
      noted == [querier EXCEPT !.pending_query_registrations = Saved(@, nonce, q)]
      id == icqLast + 1
  IN  /\ id <= MaxIcq
      /\ query_icq_registration_fee(paid)
      /\ try_get_kv_key(q)
      /\ querier' = reply(noted, nonce, id)
      /\ icq' = Saved(icq, id, [query |-> q, deposit |-> icqFee, height |-> 0])
      /\ icqLast' = id
      /\ coffer' = coffer + paid - icqFee
      /\ UNCHANGED <<broker, icqFee, stores>>

\* The module returns the deposit of that query, and the library sends as much to the
\* caller.
deregister_kv_query(q) ==
  /\ querier.query_id[q] # << >>
  /\ LET id == querier.query_id[q][1]
     IN  /\ id \in DOMAIN icq
         /\ querier' = [querier EXCEPT !.query_id[q] = << >>,
                                       !.registered_queries = Without(@, id)]
         /\ icq' = Without(icq, id)
  /\ UNCHANGED <<broker, icqLast, icqFee, coffer, stores>>

\* Of an update, the storage account and the querier_config are taken over: another
\* broker has other registries, which results of queries registered before it meet
\* too.  The connection_id is only passed on by a registration.  Definitions are looked
\* at and left as they are.
update_querier_config(s, b) ==
  /\ querier' = [querier EXCEPT !.storage_acc_addr = s]
  /\ broker' = b
  /\ UNCHANGED <<icq, icqLast, icqFee, coffer, stores>>

target_query_identifier(id) == querier.registered_queries[id]

\* The result of a query is kept under its name.  The handler fails for a query that
\* is not registered, a type that cannot be converted and a storage account that does
\* not approve the library; the module keeps the result all the same.
handle_sudo_kv_query_result(id, height) ==
  LET target == target_query_identifier(id)
      s == querier.storage_acc_addr
      answer == [query |-> icq[id].query, height |-> height]
  IN  /\ icq[id].height < height
      /\ icq' = [icq EXCEPT ![id].height = height]
      /\ stores' = IF id \in DOMAIN querier.registered_queries /\ convertible(target)
                      /\ stores[s].approved
                   THEN [stores EXCEPT ![s].slots = Saved(@, target, answer)]
                   ELSE stores
      /\ UNCHANGED <<querier, broker, icqLast, icqFee, coffer>>

-----------------------------------------------------------------------------
(* The storage accounts, for their owner, and the module.                  *)

storage_approve_library(s) ==
  /\ stores' = [stores EXCEPT ![s].approved = TRUE]
  /\ UNCHANGED <<querier, broker, icq, icqLast, icqFee, coffer>>

storage_remove_library(s) ==
  /\ stores' = [stores EXCEPT ![s].approved = FALSE]
  /\ UNCHANGED <<querier, broker, icq, icqLast, icqFee, coffer>>

\* A query that nobody keeps alive is removed by someone, who gets its deposit.
queryExpires(id) ==
  /\ icq' = Without(icq, id)
  /\ UNCHANGED <<querier, broker, icqLast, icqFee, coffer, stores>>

setQueryFee(fee) ==
  /\ icqFee' = fee
  /\ UNCHANGED <<querier, broker, icq, icqLast, coffer, stores>>

fundQuerier ==
  /\ coffer < MaxCoffer
  /\ coffer' = coffer + 1
  /\ UNCHANGED <<querier, broker, icq, icqLast, icqFee, stores>>

-----------------------------------------------------------------------------
IcqNext ==
  \/ \E v \in Version, r \in Registry : try_add_new_registry(v, r)
  \/ \E q \in Query : deregister_kv_query(q) \/ \E paid \in {0} \cup QueryFee : register_kv_query(q, paid)
  \/ \E s \in Store :
       \/ \E b \in {broker} \cup OtherBroker : update_querier_config(s, b)
       \/ storage_approve_library(s) \/ storage_remove_library(s)
  \/ \E id \in DOMAIN icq :
       queryExpires(id) \/ \E height \in 1 .. MaxHeight : handle_sudo_kv_query_result(id, height)
  \/ \E fee \in QueryFee : setQueryFee(fee)
  \/ fundQuerier

IcqSpec == IcqInit /\ [][IcqNext]_icqVars

-----------------------------------------------------------------------------
\* Between transactions no registration is pending (Config says that the map "should
\* 'always' be empty"); every query the module still answers is one the library knows
\* under the name it was registered for, the older ones of a name registered twice
\* included; the number a definition carries is registered for it; and what is stored
\* under a name is an answer to the query of that name, whichever registrations,
\* registries and storage accounts came and went before it arrived.
AnswersAreExpected ==
  /\ querier.pending_query_registrations = << >>
  /\ \A id \in DOMAIN icq :
       id \in DOMAIN querier.registered_queries /\ querier.registered_queries[id] = icq[id].query
  /\ \A q \in Query : querier.query_id[q] # << >> =>
       querier.query_id[q][1] \in DOMAIN querier.registered_queries
         /\ querier.registered_queries[querier.query_id[q][1]] = q
  /\ \A s \in Store : \A q \in DOMAIN stores[s].slots : stores[s].slots[q].query = q
=============================================================================

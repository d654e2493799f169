--------------------------- MODULE ProgramManager ---------------------------
(***************************************************************************)
(* How the program manager brings a program up                             *)
(* (ProgramConfig::init in program-manager/src/program_config.rs over the  *)
(* connector of domain/cosmos_cw.rs).                                      *)
(*                                                                         *)
(* One run reserves an id, instantiates the authorization contract and a   *)
(* processor on the main domain, a processor and a pair of bridge accounts *)
(* on every other domain, then libraries and accounts at addresses that it *)
(* computes beforehand from the id; it verifies that everything exists,    *)
(* adds the authorizations, gives the contract to the program's owner and   *)
(* saves the configuration.  Every one of these is a transaction that may  *)
(* fail before it is included, be included and revert, or be included too  *)
(* late for the manager to see it.  Runs use one wallet and interleave.    *)
(***************************************************************************)
EXTENDS ProgramRegistry, FiniteSets

CONSTANTS Run,           \* runs of the manager
          Wallet,        \* the account all of them sign with
          Main,          \* the main domain (NEUTRON_CHAIN)
          Assignment,    \* what the runs may have been asked to build: each a
                         \* function from some of the runs to programs
          MaxRetry       \* how often a bridge account is asked for again

VARIABLES run,           \* the state of every run
          contracts,     \* instantiated accounts, libraries and processors
          authorization, \* the authorization contract of every id that has one
          bridge         \* state of the bridge accounts (PolytoneProxyState)

chainVars == <<registryVars, contracts, authorization, bridge>>
managerVars == <<chainVars, run>>

-----------------------------------------------------------------------------
(* A program: its owner, links, accounts, libraries and authorizations,    *)
(* and whether it is fresh: without an id and authorization data yet.  A   *)
(* domain is its chain's name.                                             *)

NoOwner == "no owner"    \* the empty owner

accountsIn(link) == link.inputs \cup link.outputs

linkedLibraries(p) == {p.links[l].library : l \in DOMAIN p.links}
linkedAccounts(p) == UNION {accountsIn(p.links[l]) : l \in DOMAIN p.links}
configAccounts(p) == UNION {p.libraries[i].accounts : i \in DOMAIN p.libraries}

\* A configuration of a new program, with an owner and authorizations, in which every
\* account and library is used in a link, every link is about existing ones, and the
\* library configurations mention exactly the accounts.
verify_new_config(p) ==
  /\ p.fresh
  /\ p.owner # NoOwner
  /\ p.labels # {}
  /\ linkedAccounts(p) = DOMAIN p.accounts
  /\ linkedLibraries(p) = DOMAIN p.libraries
  /\ configAccounts(p) = DOMAIN p.accounts

get_all_domains(p) ==
  {p.accounts[a].domain : a \in DOMAIN p.accounts}
    \cup {p.libraries[i].domain : i \in DOMAIN p.libraries}

\* instantiate2: the address follows from the wallet, the code and a salt made
\* of the contract's name, the program id and what the contract is in it.
get_address(domain, id, name, number) == <<domain, id, name, number>>

processorAt(d, id) == get_address(d, id, "processor", 0)
accountAt(p, id, a) == get_address(p.accounts[a].domain, id, "account", a)
libraryAt(p, id, i) == get_address(p.libraries[i].domain, id, "library", i)

\* The libraries an account is instantiated with: those it is an input of.
approved_libraries(p, id, a) ==
  {libraryAt(p, id, p.links[l].library) : l \in {k \in DOMAIN p.links : a \in p.links[k].inputs}}

\* The library's configuration, its account ids replaced by addresses.
replace_config(p, id, i) == {accountAt(p, id, a) : a \in p.libraries[i].accounts}

\* The link loop finds instantiation data only for accounts that do not exist
\* yet, and replaces the ids of this link's accounts only; an id that is left
\* does not validate.
canReplace(p, l) ==
  /\ \A a \in accountsIn(p.links[l]) : p.accounts[a].ty = "Base"
  /\ p.libraries[p.links[l].library].accounts \subseteq accountsIn(p.links[l])

-----------------------------------------------------------------------------
(* Transactions (CosmosCosmwasmConnector::broadcast_tx)                     *)

Goto(m, next) == run' = [run EXCEPT ![m] = next]
Failed(m) == [run[m] EXCEPT !.pc = "failed", !.todo = {}, !.retry = 0]

\* A transaction that cannot succeed fails when it is simulated for its gas.
\* Another may be refused or never arrive; take effect and be seen; take effect
\* after query_tx_hash has given up; or be included and revert, which passes
\* for success because only the answer to the broadcast has its code examined.
broadcast_tx(m, valid, Effect, next) ==
  \/ valid /\ Effect /\ Goto(m, next)
  \/ valid /\ Effect /\ Goto(m, Failed(m))
  \/ valid /\ UNCHANGED chainVars /\ Goto(m, next)
  \/ UNCHANGED chainVars /\ Goto(m, Failed(m))

At(m, pc) == m \in DOMAIN run /\ run[m].pc = pc
prog(m) == run[m].prog
id(m) == run[m].id
Then(m, pc) == [run[m] EXCEPT !.pc = pc]
ThenEach(m, pc, todo) == [run[m] EXCEPT !.pc = pc, !.todo = todo]

\* A contract at a new address; `holds` is what it was instantiated with.
instantiate2(addr, m, holds) ==
  /\ contracts' = Saved(contracts, addr, [by |-> m, holds |-> holds])
  /\ UNCHANGED <<registryVars, authorization, bridge>>

Fresh(addr) == addr \notin DOMAIN contracts

-----------------------------------------------------------------------------
(* The steps of init                                                        *)

verifyConfig(m) ==
  /\ At(m, "start")
  /\ Goto(m, IF verify_new_config(prog(m)) THEN Then(m, "reserve") ELSE Failed(m))
  /\ UNCHANGED chainVars

\* The id is read from the events of the transaction, so one that reverted
\* is an error here.
reserve_program_id(m) ==
  /\ At(m, "reserve")
  /\ \/ reserve_id(Wallet) /\ Goto(m, [Then(m, "authorization") EXCEPT !.id = last_id'])
     \/ reserve_id(Wallet) /\ Goto(m, Failed(m))
     \/ UNCHANGED registryVars /\ Goto(m, Failed(m))
  /\ UNCHANGED <<contracts, authorization, bridge>>

instantiate_authorization(m) ==
  /\ At(m, "authorization")
  /\ broadcast_tx(m, id(m) \notin DOMAIN authorization,
       /\ authorization' =
            Saved(authorization, id(m), [owner |-> Wallet, admin |-> Wallet,
                                         labels |-> {}, domains |-> {}])
       /\ UNCHANGED <<registryVars, contracts, bridge>>,
       Then(m, "processor"))

instantiate_main_processor(m) ==
  /\ At(m, "processor")
  /\ broadcast_tx(m, Fresh(processorAt(Main, id(m))),
       instantiate2(processorAt(Main, id(m)), m, {}),
       ThenEach(m, "domains", get_all_domains(prog(m)) \ {Main}))

\* A processor of another domain asks for its bridge account at once.
instantiate_external_processor(m, d) ==
  /\ At(m, "domains")
  /\ d \in run[m].todo
  /\ broadcast_tx(m, Fresh(processorAt(d, id(m))),
       /\ contracts' = Saved(contracts, processorAt(d, id(m)), [by |-> m, holds |-> {}])
       /\ bridge' = Saved(bridge, <<id(m), d, "processor">>, "PendingResponse")
       /\ UNCHANGED <<registryVars, authorization>>,
       [Then(m, "add_domain") EXCEPT !.dom = d])

ownsAuthorization(m) ==
  id(m) \in DOMAIN authorization /\ authorization[id(m)].owner = Wallet

\* Adding the domain to the authorization contract asks for the other one.
add_external_domain(m) ==
  /\ At(m, "add_domain")
  /\ broadcast_tx(m, ownsAuthorization(m) /\ run[m].dom \notin authorization[id(m)].domains,
       /\ authorization' = [authorization EXCEPT ![id(m)].domains = @ \cup {run[m].dom}]
       /\ bridge' = Saved(bridge, <<id(m), run[m].dom, "authorization">>, "PendingResponse")
       /\ UNCHANGED <<registryVars, contracts>>,
       [Then(m, "authorization_bridge") EXCEPT !.retry = MaxRetry])

\* Variant: the number of retries is not bounded.
should_retry_forever(m, key, next) ==
  IF key \notin DOMAIN bridge
  THEN UNCHANGED chainVars /\ Goto(m, Failed(m))
  ELSE \/ /\ bridge[key] = "Created"
          /\ UNCHANGED chainVars
          /\ Goto(m, next)
       \/ /\ \/ bridge[key] \in {"PendingResponse", "UnexpectedError"}
             \/ bridge[key] = "TimedOut" /\ run[m].retry = 0
          /\ UNCHANGED chainVars
          /\ Goto(m, Failed(m))
       \/ /\ bridge[key] = "TimedOut"
          /\ broadcast_tx(m, TRUE,
               /\ bridge' = [bridge EXCEPT ![key] = "PendingResponse"]
               /\ UNCHANGED <<registryVars, contracts, authorization>>,
               run[m])

\* What the manager does about a bridge account: it waits while the account is
\* pending (and gives up after some polls), asks again when the request timed
\* out and it has retries left, and goes on when the account exists.
should_retry(m, key, next) ==
  IF key \notin DOMAIN bridge
  THEN UNCHANGED chainVars /\ Goto(m, Failed(m))
  ELSE \/ /\ bridge[key] = "Created"
          /\ UNCHANGED chainVars
          /\ Goto(m, next)
       \/ /\ \/ bridge[key] \in {"PendingResponse", "UnexpectedError"}
             \/ bridge[key] = "TimedOut" /\ run[m].retry = 0
          /\ UNCHANGED chainVars
          /\ Goto(m, Failed(m))
       \/ /\ bridge[key] = "TimedOut"
          /\ run[m].retry > 0
          /\ broadcast_tx(m, TRUE,
               /\ bridge' = [bridge EXCEPT ![key] = "PendingResponse"]
               /\ UNCHANGED <<registryVars, contracts, authorization>>,
               [run[m] EXCEPT !.retry = @ - 1])

instantiate_authorization_bridge_account(m) ==
  /\ At(m, "authorization_bridge")
  /\ should_retry(m, <<id(m), run[m].dom, "authorization">>,
       [Then(m, "processor_bridge") EXCEPT !.retry = MaxRetry])

instantiate_processor_bridge_account(m) ==
  /\ At(m, "processor_bridge")
  /\ should_retry(m, <<id(m), run[m].dom, "processor">>,
       [Then(m, "domains") EXCEPT !.todo = @ \ {run[m].dom}, !.retry = 0, !.dom = Main])

\* The addresses of accounts and libraries, and the configurations with them.
predictAddresses(m) ==
  /\ At(m, "domains")
  /\ run[m].todo = {}
  /\ Goto(m, IF \A l \in DOMAIN prog(m).links : canReplace(prog(m), l)
             THEN ThenEach(m, "libraries", DOMAIN prog(m).links)
             ELSE Failed(m))
  /\ UNCHANGED chainVars

\* One library per link, in the order of the link ids.
instantiate_library(m, l) ==
  /\ At(m, "libraries")
  /\ l \in run[m].todo
  /\ \A k \in run[m].todo : l <= k
  /\ LET i == prog(m).links[l].library
         addr == libraryAt(prog(m), id(m), i)
     IN broadcast_tx(m, Fresh(addr),
          instantiate2(addr, m, replace_config(prog(m), id(m), i)),
          [run[m] EXCEPT !.todo = @ \ {l}])

startAccounts(m) ==
  /\ At(m, "libraries")
  /\ run[m].todo = {}
  /\ Goto(m, ThenEach(m, "accounts", DOMAIN prog(m).accounts))
  /\ UNCHANGED chainVars

\* The accounts in any order (they are the keys of a hash map).
instantiate_account(m, a) ==
  /\ At(m, "accounts")
  /\ a \in run[m].todo
  /\ LET addr == accountAt(prog(m), id(m), a)
     IN broadcast_tx(m, Fresh(addr),
          instantiate2(addr, m, approved_libraries(prog(m), id(m), a)),
          [run[m] EXCEPT !.todo = @ \ {a}])

\* What is found on chain for program p under an id.
libraries_up(p, i) == \A k \in DOMAIN p.libraries : ~ Fresh(libraryAt(p, i, k))
accounts_up(p, i) == \A a \in DOMAIN p.accounts : ~ Fresh(accountAt(p, i, a))
processors_up(p, i) == \A d \in get_all_domains(p) \cup {Main} : ~ Fresh(processorAt(d, i))
bridges_up(p, i) ==
  \A d \in get_all_domains(p) \ {Main}, side \in {"authorization", "processor"} :
     <<i, d, side>> \in DOMAIN bridge /\ bridge[<<i, d, side>>] = "Created"

\* Variant: libraries are not looked for.
verified_without_libraries(p, i) ==
  /\ i \notin DOMAIN programs
  /\ i \in DOMAIN authorization
  /\ accounts_up(p, i)
  /\ processors_up(p, i)
  /\ bridges_up(p, i)

\* Everything is there, and the id has no configuration yet.
verified(p, i) ==
  /\ i \notin DOMAIN programs
  /\ i \in DOMAIN authorization
  /\ accounts_up(p, i)
  /\ libraries_up(p, i)
  /\ processors_up(p, i)
  /\ bridges_up(p, i)

verify_init_was_successful(m) ==
  /\ At(m, "accounts")
  /\ run[m].todo = {}
  /\ Goto(m, IF verified(prog(m), id(m)) THEN Then(m, "add_authorizations") ELSE Failed(m))
  /\ UNCHANGED chainVars

add_authorizations(m) ==
  /\ At(m, "add_authorizations")
  /\ broadcast_tx(m, ownsAuthorization(m) /\ authorization[id(m)].labels \cap prog(m).labels = {},
       /\ authorization' = [authorization EXCEPT ![id(m)].labels = @ \cup prog(m).labels]
       /\ UNCHANGED <<registryVars, contracts, bridge>>,
       Then(m, IF prog(m).owner = Wallet THEN "save" ELSE "change_owner"))

\* Two transactions: the owner, who need not accept the first time a contract
\* is handed over (FIRST_OWNERSHIP), then the contract's admin.
change_authorization_owner(m) ==
  \/ /\ At(m, "change_owner")
     /\ broadcast_tx(m, ownsAuthorization(m),
          /\ authorization' = [authorization EXCEPT ![id(m)].owner = prog(m).owner]
          /\ UNCHANGED <<registryVars, contracts, bridge>>,
          Then(m, "change_admin"))
  \/ /\ At(m, "change_admin")
     /\ broadcast_tx(m, authorization[id(m)].admin = Wallet,
          /\ authorization' = [authorization EXCEPT ![id(m)].admin = prog(m).owner]
          /\ UNCHANGED <<registryVars, contracts, bridge>>,
          Then(m, "save"))

save_program_config(m) ==
  /\ At(m, "save")
  /\ broadcast_tx(m, mayBeSaved(Wallet, id(m)),
       /\ save_program(Wallet, id(m), prog(m).owner, [prog(m) EXCEPT !.fresh = FALSE])
       /\ UNCHANGED <<contracts, authorization, bridge>>,
       Then(m, "done"))

\* External: the bridge answers a request for an account.
bridgeAnswers(key) ==
  /\ bridge[key] = "PendingResponse"
  /\ \E answer \in {"Created", "TimedOut", "UnexpectedError"} :
        bridge' = [bridge EXCEPT ![key] = answer]
  /\ UNCHANGED <<registryVars, contracts, authorization, run>>

-----------------------------------------------------------------------------
ManagerInit ==
  /\ RegistryInit
  /\ contracts = << >>
  /\ authorization = << >>
  /\ bridge = << >>
  /\ \E asked \in Assignment :
        run = [m \in DOMAIN asked |->
                 [pc |-> "start", prog |-> asked[m], id |-> 0, todo |-> {}, dom |-> Main, retry |-> 0]]

init(m) ==
  \/ verifyConfig(m)
  \/ reserve_program_id(m)
  \/ instantiate_authorization(m)
  \/ instantiate_main_processor(m)
  \/ m \in DOMAIN run /\ \E d \in run[m].todo : instantiate_external_processor(m, d)
  \/ add_external_domain(m)
  \/ instantiate_authorization_bridge_account(m)
  \/ instantiate_processor_bridge_account(m)
  \/ predictAddresses(m)
  \/ m \in DOMAIN run /\ \E l \in run[m].todo : instantiate_library(m, l)
  \/ startAccounts(m)
  \/ m \in DOMAIN run /\ \E a \in run[m].todo : instantiate_account(m, a)
  \/ verify_init_was_successful(m)
  \/ add_authorizations(m)
  \/ change_authorization_owner(m)
  \/ save_program_config(m)

ManagerNext ==
  \/ \E m \in Run : init(m)
  \/ \E key \in DOMAIN bridge : bridgeAnswers(key)

\* A run is a sequential program: it takes its next step sooner or later.
ManagerFairness == \A m \in Run : WF_managerVars(init(m))
ManagerSpec == ManagerInit /\ [][ManagerNext]_managerVars /\ ManagerFairness

-----------------------------------------------------------------------------
(* Properties                                                               *)

\* A library may act for an account exactly where a link makes the account one
\* of its inputs.
linksAreApprovals(p, i) ==
  \A a \in DOMAIN p.accounts, k \in DOMAIN p.libraries :
     libraryAt(p, i, k) \in contracts[accountAt(p, i, a)].holds
       <=> \E l \in DOMAIN p.links : p.links[l].library = k /\ a \in p.links[l].inputs

\* Whatever transactions fail, revert unseen or arrive late, in whichever of the
\* interleaved runs, an id that has a configuration in the registry, and an
\* authorization contract handed to the program's owner, stand for a program
\* of which every processor, bridge account, library and account is up and whose
\* accounts trust the libraries the links say (ProgramConfig::init).
OnlyWholePrograms ==
  \A m \in DOMAIN run :
     (id(m) \in DOMAIN programs
        \/ (id(m) \in DOMAIN authorization /\ authorization[id(m)].owner # Wallet)) =>
       /\ accounts_up(prog(m), id(m))
       /\ libraries_up(prog(m), id(m))
       /\ processors_up(prog(m), id(m))
       /\ bridges_up(prog(m), id(m))
       /\ linksAreApprovals(prog(m), id(m))

\* Two runs with the one wallet never build at the same addresses: they hold
\* different ids from the time they have one, none builds under the id of a saved
\* program, and what stands under an id was instantiated by the run the registry
\* gave the id to (reserve_id, get_address).
RunsBuildApart ==
  /\ \A m \in DOMAIN run : id(m) \in DOMAIN programs => run[m].pc \in {"done", "failed"}
  /\ \A m, n \in DOMAIN run : m # n /\ id(m) # 0 => id(m) # id(n)
  /\ \A addr \in DOMAIN contracts : id(contracts[addr].by) = addr[2]

\* A run ends: polling for bridge accounts and asking for them again is bounded,
\* whatever the bridge answers (instantiate_*_bridge_account).
InitEnds ==
  \A m \in Run : []<>(m \in DOMAIN run => run[m].pc \in {"done", "failed"})
=============================================================================

# Valence protocol: TLA+ models, checks and proofs

The Valence protocol runs *programs* (sequences of library calls on accounts) across
chains. Users ask the **authorization** contract on the main domain to execute a
labelled subroutine; it checks that they may, counts the execution, takes a token if
the label asks for one and sends a batch of messages to the **processor** of a domain.
The processor queues the batch and works it off one *tick* at a time, with retries,
expiry and confirmations by library callbacks, and reports one result. The result
travels back the way the batch came: as a call on the main domain, over Polytone (IBC)
from another CosmWasm domain, over Hyperlane from an EVM domain. On an EVM domain a
second pair of contracts does the same without a queue. The functions of a batch are
those of **libraries**, which move the funds of **accounts**; **vaults** take deposits
and pay them out, one of them through the **clearing queue** of another domain; the
**program manager** brings all of it up and records it in the **program registry**.

`PROJECT.json` lists the parts with the modules that model them, the source lines each
definition stands for, the hazards of the code with the properties that would notice
them, a mutation of the code for every property, and the theorems.

## Modules

| Part (under `src/`) | Modules |
|---|---|
| queue of the CosmWasm processor (`packages/processor-utils/src/queue.rs`) | `QueueMap`, implementing `FifoQueue`; `QueueOps` |
| queue of the EVM processors (`QueueMap.sol`) | `EvmQueue`, implementing `FifoQueue` |
| processor (`contracts/processor`) | `Processor` |
| authorization (`contracts/authorization`): executions, tokens, callbacks, retries | `Authorization` |
| authorization: owners, domains, validation, restrictions, encoders | `AuthorizationRules` |
| lite processor, authorization and verification router on EVM (`solidity/src`) | `EvmProcessor`, `EvmAuthorization` |
| two-way vault | `ValenceVault` over `VaultMath` |
| one-way vault and clearing queue | `OneWayVault` over `VaultMath`; `ClearingQueue` composes the two |
| library base, base accounts, forwarder, splitter, reverse splitter | `Libraries` over `SplitMath` |
| libraries that provide and withdraw liquidity on Osmosis (GAMM) and Astroport | `Liquidity` over `SplitMath` |
| libraries for concentrated liquidity on Osmosis | `Concentrated` |
| library that lends and borrows through Mars | `Lending` |
| generic, Neutron and ICA transfer libraries | `IbcTransfer` |
| Neutron querier, middleware broker, storage accounts | `IcQuerier` |
| interchain accounts and the CCTP library that uses one | `InterchainAccount` |
| program registry | `ProgramRegistry` |
| program manager: init; update and migrate | `ProgramManager`; `ProgramUpdate` |
| maps in a contract's storage | `StorageMap` |
| values of the constants for model checking | `MCQueueMap`, `MCProcessor`, `MCAuthorization`, `MCEvm`, `MCPrograms` |
| proofs | `Authorization_proofs`; `Processor_invariant`, `Processor_proofs`; `Program_proofs` (the program manager; positions, lending and liquidity); `Evm_proofs` (EVM authorization, the one-way vault, the clearing queue); `CrossChain_proofs` (the interchain account, transfers, the querier, both queues, what processors are sent); `Libraries_proofs` (sums, the forwarder, the splitters, accounts); `Vault_proofs` (the two-way vault) |

Definitions that start with "Variant" in their comment are plausible mistakes in the
definition that follows. No specification uses them; `PROJECT.json` (`mutants`) names
the property that notices each.

### Conventions

*One entry point is one action.* A transaction, of CosmWasm or of the EVM, is atomic:
the call, its messages, its submessage and the `reply` after it happen or do not happen
together. A call that returns an error or reverts changes nothing, so it is not
enabled. The operators inside an action carry the names of the functions they stand for.
The program manager is no contract: each of its transactions is a step, and so is
each of their failures.

*Storage and observations.* Each module lists the contract's storage first and then
variables that are not storage but what others see: packets under way, results decided,
functions that ran, tokens held. Properties relate the two.

*Time.* The processor's deadlines are kept as seconds left, aged by `pass_time`. The
authorization contract only asks whether a deadline has passed, so a time to live is
`live` or `expired` and the window of an authorization `before`, `open` or `closed`.
Vaults and the forwarder, whose intervals matter, have a clock.

*Other people's code* (chains, channels, relayers, OpenZeppelin, the
interchainqueries module, proofs) is modelled from how the code here uses it and is
marked external.

### `QueueMap` and `EvmQueue`

`elements`, `start_index` and `end_index` are the three storage items; `ret` is what the
last call returned. Arithmetic is checked in the code, so an overflow is a guard. The
loops of `insert_at` and `remove_at` are written as what they leave in the map, the keys
above the back included: `remove_at` leaves the old back where it was, and `insert_at`
copies it along if it comes by.

`EvmQueue` has the storage slots of an entry: one for its length and one per word of its
data, padded, with what longer entries leave behind. Its mapping to `FifoQueue` reads
the bytes back from the slots.

### `Processor`

| Variable | Storage |
|---|---|
| `queues` | `HIGH_PRIORITY_QUEUE`, `MED_PRIORITY_QUEUE` (as sequences; justified by `QueueRefinement`) |
| `batch_of` | `EXECUTION_ID_TO_BATCH` |
| `fn_index` | `NON_ATOMIC_BATCH_CURRENT_FUNCTION_INDEX` |
| `pending_callback` | `PENDING_CALLBACK` (the copy of the batch in it) |
| `pending_polytone` | `PENDING_POLYTONE_CALLBACKS` |
| `state`, `proxy_state` | parts of `CONFIG` |

A message is abstracted to the index of its function; whether it succeeds, and whether
the library's callback is the expected one, is chosen freely. `tick_function` and
`tick_atomic` contain the `reply` of the same transaction. An id arrives once
(`AtMostOnce` of `Authorization` shows that it does), and a library calls back once for
each function that ran and asks for confirmation, in a transaction of its own.

### `Authorization` and `AuthorizationRules`

| Variable | Storage |
|---|---|
| `authorizations` | `AUTHORIZATIONS`, `ZK_AUTHORIZATIONS`: state, limit, window, whether the last block is checked |
| `current_executions`, `callbacks`, `execution_id` | `CURRENT_EXECUTIONS`, `PROCESSOR_CALLBACKS`, `EXECUTION_ID` |
| `last_block` | `REGISTRY_LAST_BLOCK_EXECUTION` |
| `proxy` | the proxy state of the Polytone domain in `EXTERNAL_DOMAINS` |

In `Authorization` a label's mode, registry and domain are constants: no operation
changes them. Messages are left out; that they match the label is a precondition of the
calls. A proof is valid or the call fails. A processor is reduced to the set `running`
of executions it has taken in and has to answer, with any result it may report:
`Processor` shows that it answers once. Hyperlane is assumed to deliver.

`AuthorizationRules` is the other half: who may own, create, modify; which
authorizations are valid against the domains and encoders of the moment; which messages
a stored authorization accepts (paths of a JSON message against `MustBeIncluded`,
`CannotBeIncluded`, `MustBeValue`; raw bytes against `MustBeBytes`); and what the
processor is then sent. Domains and encoders change between the check and the use.

### EVM contracts and vaults

`EvmProcessor` executes a message in the transaction that brings it, from the mailbox
or from the authorization contract. It goes on when its callback reverts; the
authorization contract refuses only callbacks of others, so between the two a callback
can fail for want of gas only, which is not modelled. `EvmAuthorization` adds labels, registries, proofs, administrators and the
callbacks it stores. `ValenceVault` and `OneWayVault` keep shares, assets, requests,
fees and the two pauses as integers with the rounding of every division.
`ClearingQueue` composes the one-way vault with the library that pays its
requests, with a relayer in between that repeats and reorders them; its owner may name
another denom and another settlement account, whose balances are of its own.

### Libraries and accounts

One library of one kind is instantiated in a behaviour, with accounts whose owners
approve and remove it, and an owner who changes its configuration and its processor.
Amounts are natural numbers and ratios fractions of `DecimalOne`, rounded as the code
does. `IbcTransfer` follows a coin over direct channels, packet-forward hops and
Eureka. When a leg fails the coin goes back to the account that sent it, but two
ways end elsewhere: the second leg of Eureka, with the recover address; and the
forwarding from a hop whose configured receiver is an address of that chain, with that
receiver (the default, `pfm`, is none, so that the middleware refunds). The route may
be given another input account, with balances of its own. `ica-ibc-transfer` has its
remote account send in the step in which it asks. `IcQuerier` has the replies and results
of the interchainqueries module in any order, and an owner who moves the library to
another storage account or broker. `InterchainAccount` has the channel's life: handshake, open, closed by a
timeout, late timeouts of the packets left on it; `misled` is history and says whether the last thing
the contract heard of a channel was wrong about it.

`Liquidity`, `Concentrated` and `Lending` have the pool, its ticks and the credit manager
as external parts, reduced to what the libraries ask of them: reserves, shares and the
swap formula of a pool of two assets; a tick that moves and positions with an owner;
credit accounts with what is idle, lent and owed. A call that they refuse, for its spread,
its minimum or the health of an account, is a step that is not taken. One pool and one
credit manager stand for the one each configuration names, and shares as native tokens
and as cw20 tokens are one case: the code for the two differs in the message only.
`asked` records the last call, and what a position was `made` from is kept with it.

### Program manager

A run of `init` is a record with a program counter: every transaction of the code, in
its order, may succeed, fail before it is included, be included and revert, or be
included after the manager stopped waiting. Two runs share one wallet; a configuration
that was not made for `init` (no owner, or with an id or addresses already) is refused.
`ProgramUpdate` has changes that read the registry, save the new configuration and hand
messages to the owner, who sends them later or not at all; the contract refuses what it
does not know. A domain is written in two ways, as `get_chain_name` and as `to_string`
give it, and a message carries the one that the code puts there.

## Runs

| Run | Question | Bounds |
|---|---|---|
| `queue_map` | Are both stored maps queues? Do the forwarder, splitters and transfers move what their configuration says and no more, only for those admitted? Are interchain results filed under the query that asked? Do provisions, positions and loans keep to the call and the configuration? | two entries, counters up to 7; entries of zero and three bytes in two-byte words; three kinds of library with two to four configurations each, two denoms, two calls, two changes by owners; one transfer under seven changes of the route; two queries; pools of three kinds with uneven reserves, ranges that hold and do not, limits; ticks on both sides of zero with spacing 2; two input accounts and two denoms of a loan |
| `processor` | Is a batch in exactly one place, do its copies agree, do functions run in order, are results true, are retry limits kept, is every batch reported in the end, and are results delivered once over Polytone and recorded until then? | two batches of any of four subroutines (atomic and not; retried never, once, for ever; confirmed or not), lifetimes none, 1 and expired; three starts of a function (`MaxTries`); on an external domain two batches of one function, two sends of each result (`MaxSends`) |
| `authorization` | Do counts, records, tokens and processors agree, whatever comes in what order, and is every execution answered? | two ids, one paid label behind Polytone, limits 1 and 2, one minted token beside the initial one |
| `authorization_domains` | Do the block numbers of a registry increase, with an EVM domain beside proven messages? | two ids, one EVM label, one paid ZK label on the main and a Polytone domain, blocks 1 and 2 |
| `evm` | Are EVM messages answered once and truthfully, and does only what was admitted run? Do the vault's books match its requests, are requests settled within their terms and shares paid for? Do processors get only what was authorized? | seven subroutines (two functions, three functions past the 8-bit counter, no code, too few messages, expired), two ids, two mails; two holders, two updates, three seconds; eleven authorizations and nine batches, one delivery, three changes of owners |
| `programs` | Do runs of the manager build apart, save only whole programs, and end? Do changes carry over? Are withdrawals of the one-way vault paid once, in order and for what was paid in? Is the interchain account what it says, and can it be reopened? | two runs of a small program or one of five larger or unbuildable ones; two changes of a program on one domain or on two; two requests, two settlement accounts; three channels and three packets |

Behaviours of modules that do not interact share a run: `which` (in `MCProcessor`, `domain`) chooses, in the initial
state, the one that moves, so their states add up and do not multiply.

What the properties of the shared runs say:

| Property | Statement |
|---|---|
| `ImplementsFifo`, `EvmQueueImplementsFifo` | every call on a stored map does and returns what it would on a sequence |
| `CallsKeepTheirTerms` | a provision or withdrawal happens at a price in the range asked for; a two-sided provision is at the pool's price but for rounding, a one-sided one spends its asset within the limit; what the pool gives is the output account's |
| `PositionsAsConfigured` | every position lies on ticks of the pool inside the range then configured, with the tick it was opened at in its middle bucket, below zero too, and belongs to the output account of that time |
| `CreditInOnePlace` | an account has one credit account at most, and no call leaves idle funds on it |
| `ForwardingRateLimited` | counted back from any forward over the interval then in force, no more than the maximum of a denom was forwarded, across changes of the configuration |
| `SplitsLoseOnlyDust` | rounding costs less than a unit per share: a split leaves dust; a reverse split takes in proportion and as much as the poorest account can give, but for less than a unit, or less than `f` units where a factor `f` is configured |
| `OnlyTheAdmittedSpend` | funds leave an account in a transaction of its present owner, or in a call of the library by its present processor while the account approves it |
| `CoinsLandWhereConfigured` | coins end with the output address of the configuration they were sent under, with the recover address of Eureka, or with a configured receiver that is an address of the hop, of forwarding that failed; the Neutron library sends exactly if the amount and the fee can be paid |
| `AnswersAreExpected` | no registration is pending between transactions, the library knows every query the module still answers, and what is stored under a name answers the query of that name |
| `AnsweredOnceTruthfully` | an EVM message that asks for functions gets one callback, which says what they did; an atomic one never runs in part |
| `OnlyTheAdmittedRuns` | under a label a prefix of the calls it lists runs, all of them on success; a registry that checks blocks never executes a proof of the same or an older one |
| `ProcessorsGetWhatWasAuthorized` | a batch consists of functions of its own domain and of a type that runs there, with messages within their restrictions, although these were checked earlier; only owners give a permissionless label high priority; no stored restriction meets a check that does not handle it |
| `BooksMatchRequests` | the assets to bring for the next update are those of the requests that wait for it; the solver fees held are those of open and cancelled requests; the supply is the sum of balances |
| `SettledWithinItsTerms`, `SharesArePaidFor` | a request leaves after its lockup and its update, with the shares back less the fee, or paid at the fixed rate within the accepted loss; what is paid for shares covers them, and a rate reached before is not charged for again |
| `RunsBuildApart`, `OnlyWholePrograms` | runs that share a wallet hold different ids and build at different addresses; a saved configuration, or an authorization contract handed over, stands for a program all of which is up |
| `ChangesCarryOver` | of changes made in turn: the registry lists every label the contract has; and if they keep the owner and speak of the main domain only, their messages are accepted in their order, and afterwards registry and contract agree in labels and owner |
| `OwedIsPaidFor`, `PaidOnceInOrder`, `RequestsAreCleared` | between rate changes what the one-way vault owes grows only by what is paid in, and nothing is bought or redeemed while the rate is stale; a request is paid at most once, in order, for its worth; and is paid or refused in the end |
| `LibrariesSpeakForTheAccount`, `Reopens` | a created account has an open channel to its address and messages travel on one to it; a closed account is opened again while the fee is there, unless the contract was told wrongly of a channel that is open |
| `InitEnds` | a run of the manager ends, done or failed |

Two batches are enough for the processor's properties to be at risk: each concerns one
batch, and a second one is all it takes to interleave with it, to be in front of it or
behind it. Two functions give the states before, at and after a function, and three
starts let a function that may be retried once fail once too often. Two ids are enough
for the authorization contract for the same reason: one record, and another that
competes for the count and the tokens. Two withdrawals make an order, two updates
price a request before and after another; three channels let a late timeout of the
first meet the registration of the third. Rates, fees and units of the vaults are small
and chosen so that every division leaves a remainder somewhere. Where there is a
theorem, the proof removes the bounds.

### Where code and documentation differ

Six runs show a behaviour of the code that contradicts a comment or a document; the
quotations are in `PROJECT.json` (`findings`).

* `retries_not_reset`: `reply` counts retries on the copy of the batch stored by id,
  which does not see the reset when the batch moves on to its next function.
* `rejected_after_success`: a function without retry logic that fails is reported as
  `Rejected`, also when earlier functions ran.
* `evm_token`: the callback from an EVM domain neither burns nor returns the token.
* `older_block`: only executions that check the last block of a registry store theirs.
* `owner_change`: an update that names a new owner saves it to the registry, but the message for
  the authorization contract is a bare `cw_ownable` action, which the contract does not have.
* `domain_names`: an update or a migration names another domain as `CosmosCosmwasm:<chain>`,
  where `init` registered `<chain>`, so the contract refuses what is about it.

`Escrow` states exactly which tokens stay with the contract: besides those of EVM
executions, those of executions that end in an unexpected error (`KeepsToken`) and those
paid for ZK messages that only control a processor (`kept`).

Translating the rest brought up behaviours that are modelled as they are and that the
properties are careful not to deny:

* *Program manager.* A transaction that is included and reverts counts as done, because
  the code of the included transaction is not looked at. Two changes read one after the
  other and saved in the other order lose the first; a migration saves the configuration
  it read before it built the new program. The registry's owner of a program never
  changes after the save. `verify_new_config` accepts configurations `init` cannot build.
  A modified authorization is written to the registry without the priority, limit and expiration it keeps in the contract.
* *Libraries.* The reverse splitter may be given another base denom without its splits being
  checked again; ratios of a splitter may add up to less than one; a share that rounds to
  zero fails the whole split; the forwarder's interval restarts also when nothing moved.
  `update_config` of the querier checks query definitions and does not store them, and
  that of `ica-ibc-transfer` ignores the memo. Registering a query twice leaves both
  registered: results of either are stored, but only the newer one can be removed.
* *Interchain account.* A late timeout of an earlier channel marks the account closed
  although its new channel is open, and an acknowledgement whose version cannot be
  parsed leaves it `InProgress`. In both cases a registration is refused while
  the channel is open, so the account stays so until a packet of that channel times out: an
  account that says `Closed`, for which `interchain_accounts.md` has creation retriggered, cannot
  always be created again. `Reopens` names both cases (`misled`).
* *Vaults and queues.* The one-way vault numbers requests from 0 and the clearing queue
  expects 1 first. The comment in `QueueMap.sol` that both indices only increase does not hold of
  a removal.
* *Authorization rules.* An EVM function is validated with the encoder it names and
  encoded with the encoder of its domain. Modifying an authorization validates its
  functions again, so a removed encoder blocks any change to it.

## Fairness

`processor`: ticks are permissionless and sent for as long as there is work
(`process_tick` is weakly fair), libraries answer, time passes. Without ticks or answers
nothing can be promised. Two outcomes are excepted: the owner paused the processor, or a
batch is retried for ever (`Endless`) and keeps others waiting.

`authorization`: relayers deliver packets or let them time out, and bring back the
answers; processors finish what they took in (this is `EveryBatchReported`). Nothing is
assumed of owners and users, retries included.

`programs`: the manager is a running process and takes its next step (`ManagerFairness`,
for `InitEnds`); the relayer presents the next request, anyone may settle the next
obligation and somebody tops up the settlement account (`ClearingFairness`, for
`RequestsAreCleared`); registration is open to anyone and somebody keeps trying, and
relayers complete handshakes (`IcaFairness`, for `Reopens`).

## Proofs

TLAPS checks these for every value of the constants that satisfies the named
assumptions of the modules.

| Theorem | Property |
|---|---|
| `QueueTyped`, `QueueContiguous`, `QueueRefinement` | the types of the counters and the map; the counters never cross and no live key is empty (`Contiguous`); `ImplementsFifo` |
| `EvmQueueRefinement` | `EvmQueueImplementsFifo` |
| `OnlyTheAuthorized` | `ProcessorsGetWhatWasAuthorized` |
| `AuthorizationTyped`, `CountsAreRight`, `AnswersAreExclusive`, `NoSecondRun`, `TokensAreHeld` | `TypeOK`, `CountsMatch`, `OneAnswerToCome`, `AtMostOnce`, `Escrow` |
| `FinalResults`, `LimitRespected`, `ProofsRunInOrder` | `ResultsFinal`, `Admission`, `BlocksIncrease` |
| `NothingLostOrDoubled`, `RepliesFindTheirBatch`, `IndexCountsWhatRan`, `ReportsAreTrue` | `ExactlyOnePlace`, `StorageServesReply`, `FunctionsInOrder`, `ResultsTellTheTruth` |
| `ResultsDeliveredOnce`, `RetriesWithinBudget`, `StorageHasItsType` | `ResultDelivery`, `RetryBudget`, `TypeOK` |
| `RunsStayApart`, `ProgramsAreWhole` | `RunsBuildApart`, `OnlyWholePrograms` |
| `AnswersAreTruthful`, `AdmittedRuns` | `AnsweredOnceTruthfully`, `OnlyTheAdmittedRuns` |
| `AccountIsItsChannel`, `TransfersLand`, `AnswersReachTheirQuery` | `LibrariesSpeakForTheAccount`, `CoinsLandWhereConfigured`, `AnswersAreExpected` |
| `NoValueFromRounding`, `EachRequestPaidOnce` | `OwedIsPaidFor`, `PaidOnceInOrder` |
| `SharesPaidFor`, `RequestsSettled`, `BooksKept` | `SharesArePaidFor`, `SettledWithinItsTerms`, `BooksMatchRequests` |
| `OnlyTheAdmitted`, `ForwardsAreLimited`, `OnlyDustIsLost` | `OnlyTheAdmittedSpend`, `ForwardingRateLimited`, `SplitsLoseOnlyDust` |
| `TermsAreKept`, `PositionsOpenedAsConfigured`, `CreditStaysInOnePlace` | `CallsKeepTheirTerms`, `PositionsAsConfigured`, `CreditInOnePlace` |

### Authorization

`Authorization_proofs` assumes `AuthorizationConstants`: the owner's insertions are
told apart from users' messages, ZK labels address no EVM domain, a plain label
addresses one domain. None of the properties is inductive alone. `CountsMatch` needs to
know that a callback finds its execution in process; this is `OneAnswerToCome`, which
needs `IdsFresh` for the records that start and `ByPolytone` (only executions for
Polytone domains travel in packets or are retried) for those that are retried;
`AtMostOnce` and `Escrow` rest on all of them. The inductive invariant `IInv` is their
conjunction with `TypeOK`. There is one lemma for what each kind of step does to the
executions (`StartExec` .. `TtlExec`), to the tokens (`StartToken`, `ResultToken`,
`SettledToken`) and one per handler that joins the two. Two action properties follow
from `RecordStep`, the life cycle of a record: in one step at most one record starts
(fresh), resumes (after a retriable timeout) or ends (in process or retriable before).
For `BlocksIncrease`, `BlockInv` adds that the block stored for a registry is no lower
than that of any message of the registry that was checked against it.

### Processor

`Processor_invariant` assumes `ProcessorConstants`: every subroutine has a function,
and an absent entry is told apart from batches and other entries. The invariant `PInv`
is stated id by id (`IdInv`), beside `Unique`, that no id is at two places of the queues.
Of a batch that is not reported, `Live` says that all copies of it agree in what the
handlers read, that the index counts what was done, and that a pending callback belongs
to a function that asks for one; of a reported one, that the result is true. The proof
goes inwards: lemmas on queues (`PutQueue`, `CutQueue`, `AgeQueue`) say what an operation
does to the set of entries; `TakenOut` establishes `Handling`, the state in the middle of
a transaction about one id; `HandlerReports`, `HandlerKeeps` and `HandlerRequeues` close
it; the handlers shared by `reply` and `process_callback` are proved once each
(`SuccessfulNonAtomic`, `SuccessfulAtomic`, `Unsuccessful`) and every action is one of
these. `Processor_proofs` reads four properties off the invariant.

`ResultDelivery` needs an invariant of its own over `PInv`. `DeliveryInv` tells, for the
packets that carry one result (`Tracked`), which of them may be unanswered and which one
delivered, and that the entry in `PENDING_POLYTONE_CALLBACKS` is there until one is. A
step reports at most one batch, of which there was no report before (`FirstReport`), so
that the first packet of a result is sent once; a later one replaces a packet
that was answered with a timeout.

`RetryBudget` is about three copies of a batch with a count each. `BudgetInv`
(`BudgetOf`, at the end of `Processor_invariant`) relates the number of starts of the
current function to the counts: the queued copy of a batch whose first function runs
counts every start, and no copy's count exceeds what the logic grants. That
the stored copy keeps the count of an earlier function (the run `retries_not_reset`)
is why the invariant promises the full budget to a first function and to atomic batches
only. There is one lemma per handler.

`TypeOK` needs `OwnCopies`: the batch stored under an id, or in its pending callback, is
the batch of that id.

### Program manager, positions, lending and liquidity

`Program_proofs` assumes nothing of programs or of their number. `ApartInv` adds to
`RunsBuildApart` how ids are handed out (`Numbered`): nothing is in use beyond the last
id, and a run has one exactly from its reservation on. `WholeInv` adds that a run that
has passed its verification has a whole program (`Whole`), that an account was
instantiated with the libraries of its links (`Approvals`), and that a bridge account is
only asked for by the contract it is for (`Bridges`). Every step of `init` builds under
its own id only (`StepsBuildUnderTheirId`) and takes nothing away (`StepsGrow`), so what
was whole stays whole whatever the other runs do.

*Positions.* Assumes `ClConstants`: a positive spacing, integer ticks and ranges. `ClInv`
says `AsConfigured` of each position. The bucket of a tick holds it for negative ticks
too (`BucketHoldsTick`), and what is widened by whole buckets stays on the grid
(`Multiples`).

*Lending.* Assumes `LendingConstants`. `CreditInOnePlace` is inductive with the types of
the accounts (`LendingInv`); that the account `Min` finds is the only one of its owner
(`CreditAccountFound`) is what makes it so.

*Pools.* Assumes `LiquidityConstants` and `DecimalOneAssumption`. The invariant is
`LiquidityTyped`. A two-sided provision computes one amount from the other through a
ratio that is itself rounded to a Decimal: `RatioWithin` and `RatioBelow` bound the two
roundings, and `WorthAtPoolPrice` and `CostAtPoolPrice` turn them into the bound of the
property for what the library offers and for what a GAMM pool takes of it.

### EVM contracts

`Evm_proofs` assumes `SubroutineAssumption` and
`EvmAuthorizationConstants`: the shape of subroutines and of permissions that the
contract accepts. `EvmInv` adds to `AnsweredOnceTruthfully` that a message sent under a
label is permitted by it function by function and what ran is a prefix of the message
(`ListedRuns`), and that the stored block bounds the proven ones (`BlocksGrow`). What ran
is determined by the first failure of a loop over the functions, which is one of them or
past the end (`FirstFailureExists`).

*One-way vault and clearing queue.* Assume `VaultUnits`, `OneWayVaultConstants` and
`ClearingConstants`: positive rates, fees of at most the whole. Every quotient of the
vault is bounded by its dividend (`DivDown`, `DivUp`), from which the worth of shares
bought and redeemed, the fees and their parts are bounded for all amounts and rates; then
each operation is shown to add no more than was paid. `ClearingInv` has the order of paid
and queued obligations (`Ordered`) and what the status says of each id (`StatusTells`).

### Between chains

*The queue of the CosmWasm processor.* Assumes that `U64Max` is a natural number. `TypeOK` and `Contiguous`
together are inductive. `QueueRefinement` shows that every step on the map is a step of
`FifoQueue` under the mapping that reads the entries from `start_index` to `end_index`:
for each operation the entries after it are computed from those before, position by
position, so that what `remove_at` leaves above the back is never seen.

*The queue of the EVM processors.* Assumes `EvmQueueConstants`: entries fit into the words
there are. `SlotInv` says that the counters are in order and that no length asks for more
words than there are. A byte of an entry is in the word and at the place that division by
the size of a word gives (`PlaceOfByte`), so an entry that is stored, or copied to another
index over a longer one, is read back as it was (`StoredIsRead`, `CopyIsRead`). From there
every operation is one of `FifoQueue`, position by position.

*What processors are sent.* Assumes `RulesConstants`: the shape of functions, restrictions
and JSON messages (a path begins with a key of the object). `RulesInv` keeps, of every
stored label and of every batch sent, what `validate` established (`Fits`): domains are
added and never removed or replaced, so it still holds when messages arrive; and the mode
of a label never changes, so that no label anyone may use has high priority. That the
checks of messages then mean what the property says is `CheckedIsMet` and `ChecksHandle`.

*The interchain account.* `IcaInv` adds `OneChannel`: two channels are never open at a
time, and a packet was sent on a channel past its handshake, whose address no longer
changes.

*Transfers.* Assumes `TransferConstants`, the shape of configurations. `TransferInv` says
of everything under way that it is on one of the routes of the configuration it was sent
under (`OnRoute`: direct, over a hop, or through Eureka, and on which leg), which fixes
where it can end, by success or by failure; and of the balances and the fee that they are numbers, for the guards
of the Neutron library.

*The querier.* `IcqInv` is `AnswersAreExpected` with the types of its maps. Maps are
partial functions, and what saving and removing an entry does to one is proved once
(`SavedEntry`, `RemovedEntry`).

### Libraries

`Libraries_proofs` assumes `LibrariesConstants`, the shape of configurations before any
check, and `DecimalOneAssumption`. Three properties rest on one invariant.

*Sums.* A sum over a finite set is a fold in an order that `CHOOSE` picks. The theorems of
the standard library that do induction take an operator; here the induction is over a
*set* of subsets that holds the empty one and grows by an element (`AllSubsets`, from
`AllNumbers`). That the order does not matter (`AnyOrder`) gives the rest: a sum with one
element taken out (`SumStep`), with one term changed (`SumAtOne`), of a combination of
terms (`SumCombines`), of terms that are all zero or all but one.

*Who spends.* `LibrariesInv` has the types and `Checked`: what `validate_splits` and
`ensure_denom_uniqueness` leave of every configuration although owners change its fields
one by one. Balances stay natural numbers through any list of transfers the bank carries
out (`BankKeepsTypes`), and an account loses by being the sender of one
(`OnlySendersLose`); every transfer of a library is from an account that let it in.

*The rate of forwards.* `Paced` is the inductive form of `ForwardingRateLimited`: of any
two forwards, the later one is at least its own interval after the earlier, and each is
within the maxima of its own configuration, since a denom occurs once in it
(`ForwardWithinMax`). The window of the property then holds one forward, or several in the
same instant under an interval of zero, of which the property speaks only of the last
(`PacedIsLimited`).

*Dust.* A share differs from its exact part by less than a unit (`ShareSlack`), so all of
them together by less than their number (`LessThanCount`, `SplitLeavesDust`). For the
reverse splitter, two roundings through the base denom bound what the poorest account
keeps (`PoorestKeeps`) and show the proportion of what the others give
(`ReversePoolsInProportion`).

### Vault

`Vault_proofs` assumes `ValenceVaultConstants` and `VaultUnits`. `SharesArePaidFor` and
`SettledWithinItsTerms` are of single steps and need the types of the state only
(`VaultTyped`); the work is in the rounding: what a deposit pays covers its shares after the fee is taken (`GrossCovers`),
platform and performance fees mint nothing below the highest rate (`PerformanceFees`), and
the loss of a settled request, between two quotients rounded in different directions, is
within the one accepted (`LossWithin`).

*The books.* `BookInv` adds to `BooksMatchRequests` that no request waits for an update
beyond the next, so that an update empties the total it fixes. Each operation changes the
sums at one user, or at one after the other where fees are distributed to two accounts
that may be the same (`SumMoves`, `SharesMove`, `RequestMoves`).

### Only model-checked

* Liveness (`EveryBatchReported`, `EveryExecutionAnswered`, `InitEnds`,
  `RequestsAreCleared`, `Reopens`): fairness is out of the prover's reach.
* `ChangesCarryOver`: a statement about the lists of messages that changes return, which
  are folds over sequences of labels and are applied one by one; the theory of sums above
  does not reach folds that do not commute.

## Not modelled

* The product of `Authorization` and `Processor`: each has the other as an environment
  that does all the other module allows, which their theorems justify; together they are
  beyond TLC at bounds where retries and timeouts happen.
* A library that calls back inside its own submessage (`contract.rs:722` of the
  processor): callbacks are documented as asynchronous. A ZK batch with fewer messages than
  functions.
* Loss of Hyperlane messages, for which the contracts have no handler.
* A change of the processor address in the EVM authorization contract.
* The other DeFi libraries (Duality, Drop, Supervaults and others; Aave, Balancer,
  PancakeSwap and others on EVM): wrappers without state that build messages for other
  protocols.
* The encodings themselves (ABI, protobuf, JSON), signatures and zero-knowledge proofs:
  a proof is valid or not.
* EVM domains in the program manager, and the fields of library configurations other
  than account ids.
* The wording of errors, events, queries and gas.

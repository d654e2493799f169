----------------------------- MODULE Libraries -----------------------------
(* Base accounts and the libraries that move their funds: the forwarder,   *)
(* the splitter and the reverse splitter, each on top of library-base.     *)
(* One library, of the given kind, serves accounts whose owners approve    *)
(* and remove it while its own owner changes its configuration and its     *)
(* processor.  Denoms are native: a bank transfer of zero coins, or of     *)
(* more than the balance, fails and takes the whole transaction with it.   *)
EXTENDS SplitMath, Sequences, FiniteSetsExt

CONSTANTS Account,      \* base accounts
          Outside,      \* other addresses that receive funds
          Denom,        \* native denoms
          Person,       \* who may own an account or the library
          Founder,      \* the one of them who owns both at first
          Caller,       \* who may be made the library's processor
          FirstCaller,  \* the first processor
          Kind,         \* which libraries are instantiated
          Configs(_),   \* configurations offered to a library of a kind
          Funding(_),   \* balances the accounts may start with
          Ratios,       \* what the dynamic ratio contract may answer
          MaxAdmin,     \* bound on owners' operations
          MaxNow,       \* bound on the block
          MaxCalls,     \* bound on successful calls
          MaxDeposits,  \* bound on deposits
          MaxAmount     \* bound on what an owner sends by hand

NoOne == "no one"
Lib == "library"
Address == Account \cup Outside

\* Configurations of each library, before any check.
Forwarding == [denom : Denom, max_amount : Nat]
Split == [type : {"amount", "ratio", "dynamic"}, denom : Denom, account : Address, value : Nat,
          factor : {f \in Seq(Nat) : Len(f) <= 1}]
ConfigOf(k) ==
    CASE k = "forwarder" ->
            [input_addr : Account, output_addr : Address, min_interval : Nat,
             forwarding_configs : Seq(Forwarding)]
      [] k = "splitter" -> [input_addr : Account, splits : Seq(Split)]
      [] k = "reverse_splitter" -> [output_addr : Address, splits : Seq(Split), base_denom : Denom]

ASSUME LibrariesConstants ==
    /\ Kind \subseteq {"forwarder", "splitter", "reverse_splitter"}
    /\ \A k \in Kind : Configs(k) \subseteq ConfigOf(k)
    /\ \A k \in Kind : Funding(k) \subseteq [Address -> [Denom -> Nat]]
    /\ Founder \in Person /\ Lib \notin Person /\ NoOne \notin Person
    /\ Ratios \subseteq Nat

VARIABLES kind,         \* which library this is
          library,      \* its [owner, processor, config, raw, last]
          account,      \* per account [owner, pending, approved]
          balance,      \* bank balances
          now,          \* block height (or time)
          admin,        \* owners' operations so far
          calls,        \* successful calls: [at, config, sent]
          deposits,     \* deposits so far
          spender       \* who sent the last step's transfers, NoOne if it made none

libraryVars == <<kind, library, account, balance, now, admin, calls, deposits, spender>>

-----------------------------------------------------------------------------
(* Configurations.                                                         *)

\* Splits of a denom, as indices of the configuration's list.
SplitsOf(splits, d) == {i \in DOMAIN splits : splits[i].denom = d}

HasType(splits, d, t) == \E i \in SplitsOf(splits, d) : splits[i].type = t

\* No two splits for one denom and account.
UniqueSplits(splits) ==
    \A i, j \in DOMAIN splits :
        splits[i].denom = splits[j].denom /\ splits[i].account = splits[j].account => i = j

\* ensure_denom_uniqueness of the forwarder.
ensure_denom_uniqueness(configs) ==
    \A i, j \in DOMAIN configs : configs[i].denom = configs[j].denom => i = j

\* The sum of the fixed ratios of a denom.
ratioSum(splits, d) ==
    SumFunction([i \in DOMAIN splits |->
        IF splits[i].denom = d /\ splits[i].type = "ratio" THEN splits[i].value ELSE 0])

\* validate_splits of the splitter.
validate_splits_splitter(splits) ==
    /\ splits # <<>>
    /\ UniqueSplits(splits)
    /\ \A i \in DOMAIN splits : splits[i].type # "dynamic" => splits[i].value # 0
    /\ \A d \in Denom :
          HasType(splits, d, "ratio") =>
              /\ ~ HasType(splits, d, "amount")
              /\ (ratioSum(splits, d) + DecimalOne - 1) \div DecimalOne = 1

\* validate_splits of the reverse splitter.  An absent factor is <<>>.
validate_splits_reverse(splits, base_denom) ==
    /\ splits # <<>>
    /\ UniqueSplits(splits)
    /\ \A i \in DOMAIN splits :
          LET s == splits[i] IN
          /\ s.type = "amount" => s.value # 0 /\ s.factor = <<>>
          /\ s.type = "ratio" => s.value # 0
          /\ s.type = "ratio" /\ s.denom = base_denom => s.value = DecimalOne
          /\ s.type = "dynamic" => s.denom # base_denom
          /\ s.factor # <<0>>
    /\ (\E i \in DOMAIN splits : splits[i].type # "amount")
          => \A i \in DOMAIN splits : splits[i].type = "amount" => splits[i].denom = base_denom

\* The checks on the fields F that an update, or an instantiation, brings.
accepted_config(k, F, c) ==
    CASE k = "forwarder" ->
            "forwarding_configs" \in F => ensure_denom_uniqueness(c.forwarding_configs)
      [] k = "splitter" ->
            "splits" \in F => validate_splits_splitter(c.splits)
      [] k = "reverse_splitter" ->
            "splits" \in F => validate_splits_reverse(c.splits, c.base_denom)

-----------------------------------------------------------------------------
(* What each library asks the accounts to transfer, by the position in its *)
(* configuration that asks for it.                                         *)

Transfer(from, to, d, n) == [from |-> from, to |-> to, denom |-> d, amount |-> n]

\* What transfers come to in a denom.
total(ts, d) == SumFunction([i \in DOMAIN ts |-> IF ts[i].denom = d THEN ts[i].amount ELSE 0])

\* The forwarder: the balance up to max_amount, denoms without balance left out.
forward(cfg) ==
    LET configs == cfg.forwarding_configs
        available(i) == balance[cfg.input_addr][configs[i].denom]
    IN  [i \in {j \in DOMAIN configs : available(j) # 0} |->
            Transfer(cfg.input_addr, cfg.output_addr, configs[i].denom,
                     Min({available(i), configs[i].max_amount}))]

\* The ratio of a split: its own, or what the dynamic ratio contract answers.
ratio(split, dynamic) == IF split.type = "dynamic" THEN dynamic[split.denom] ELSE split.value

\* The splitter: every share from the balance found before the first transfer.
splitAmounts(cfg, dynamic) ==
    [i \in DOMAIN cfg.splits |->
        LET s == cfg.splits[i]
            b == balance[cfg.input_addr][s.denom]
        IN  Transfer(cfg.input_addr, s.account, s.denom,
                IF s.type = "amount" THEN s.value
                ELSE multiply_ratio(b, ratio(s, dynamic), DecimalOne))]

\* The splitter's own check that the shares of a denom do not exceed its balance.
coversSplits(cfg, ts) ==
    \A d \in Denom : total(ts, d) <= balance[cfg.input_addr][d]

factorOf(split) == IF split.factor = <<>> THEN 1 ELSE split.factor[1]

\* A split's ratio to the base denom: a fixed amount is in it already.
ratioToBase(split, dynamic) ==
    IF split.type = "amount" THEN DecimalOne ELSE ratio(split, dynamic)

\* What a split could pay, in the base denom.
payable(split, dynamic) ==
    IF split.type = "amount" THEN split.value
    ELSE in_base_denom(balance[split.account][split.denom],
                       ratio(split, dynamic), factorOf(split))

\* The amount of the base denom the poorest split can pay for.
min_amount_in_base_denom(cfg, dynamic) ==
    Min({payable(cfg.splits[i], dynamic) : i \in DOMAIN cfg.splits})

\* The reverse splitter: fixed amounts as they are, otherwise what each account
\* pays for the smallest amount of the base denom.
reverseAmounts(cfg, dynamic) ==
    LET fixed == \A i \in DOMAIN cfg.splits : cfg.splits[i].type = "amount"
        m == min_amount_in_base_denom(cfg, dynamic)
    IN  [i \in DOMAIN cfg.splits |->
            LET s == cfg.splits[i] IN
            Transfer(s.account, cfg.output_addr, s.denom,
                IF fixed THEN s.value
                ELSE out_of_base_denom(m, ratioToBase(s, dynamic), factorOf(s)))]

\* A fixed amount must be there; a ratio of zero cannot be turned upside down.
coversReverse(cfg, dynamic) ==
    /\ \A i \in DOMAIN cfg.splits :
          cfg.splits[i].type = "amount" =>
              cfg.splits[i].value <= balance[cfg.splits[i].account][cfg.splits[i].denom]
    /\ \A i \in DOMAIN cfg.splits : ratioToBase(cfg.splits[i], dynamic) # 0

-----------------------------------------------------------------------------
(* Accounts.                                                               *)

isOwner(a, sender) == sender # NoOne /\ account[a].owner = sender

\* Variant: nobody is turned away.
mayExecute_any(a, sender) == sender # NoOne

\* execute_msg of the base account: its owner or an approved library.
mayExecute(a, sender) == isOwner(a, sender) \/ sender \in account[a].approved

\* What an account gains, or loses, of a denom by a transfer.
flow(t, a, d) ==
    IF t.denom # d THEN 0
    ELSE (IF t.to = a THEN t.amount ELSE 0) - (IF t.from = a THEN t.amount ELSE 0)

\* The balances once the transfers at the positions in P are done.
balanceAfter(ts, P) ==
    [a \in DOMAIN balance |-> [d \in Denom |->
        balance[a][d] + SumFunctionOnSet([i \in DOMAIN ts |-> flow(ts[i], a, d)], P)]]

\* The bank module carries out transfers one after another, or none of them.
bank(ts) ==
    /\ \A i \in DOMAIN ts :
          /\ ts[i].amount > 0
          /\ balanceAfter(ts, {j \in DOMAIN ts : j < i})[ts[i].from][ts[i].denom] >= ts[i].amount
    /\ balance' = balanceAfter(ts, DOMAIN ts)

\* An owner's operation, and whose coins it moves.
Administered(by) == admin < MaxAdmin /\ admin' = admin + 1 /\ spender' = by

approve_library(a, sender) ==
    /\ Administered(NoOne)
    /\ isOwner(a, sender)
    /\ account' = [account EXCEPT ![a].approved = @ \cup {Lib}]
    /\ UNCHANGED <<kind, library, balance, now, calls, deposits>>

remove_library(a, sender) ==
    /\ Administered(NoOne)
    /\ isOwner(a, sender)
    /\ account' = [account EXCEPT ![a].approved = @ \ {Lib}]
    /\ UNCHANGED <<kind, library, balance, now, calls, deposits>>

\* The owner has the account itself send funds.
execute_msg(a, sender, t) ==
    /\ Administered(sender)
    /\ mayExecute(a, sender)
    /\ bank(<<t>>)
    /\ UNCHANGED <<kind, library, account, now, calls, deposits>>

\* cw_ownable, of which accounts and libraries keep a record each.
newOwnership(o, sender) ==
    {[o EXCEPT !.pending = p] : p \in {q \in Person : o.owner = sender}}
        \cup {[o EXCEPT !.owner = sender, !.pending = NoOne] : x \in {q \in {1} : o.pending = sender}}
        \cup {[o EXCEPT !.owner = NoOne, !.pending = NoOne] : x \in {q \in {1} : o.owner = sender}}

update_ownership(a, sender) ==
    /\ Administered(NoOne)
    /\ account' \in {[account EXCEPT ![a] = o] : o \in newOwnership(account[a], sender)}
    /\ UNCHANGED <<kind, library, balance, now, calls, deposits>>

-----------------------------------------------------------------------------
(* The library.                                                            *)

\* Variant: one second early.
ensure_forwarding_interval_early(cfg) ==
    library.last # <<>> => now + 1 >= library.last[1] + cfg.min_interval

\* LAST_SUCCESSFUL_FORWARD, if any, is at least min_interval old.
ensure_forwarding_interval(cfg) ==
    library.last # <<>> => now >= library.last[1] + cfg.min_interval

\* The transfers leave their accounts if every account lets the library in.
carryOut(ts, payers, sender) ==
    /\ \A a \in payers : mayExecute(a, Lib)
    /\ bank(ts)
    /\ calls' = Append(calls, [at |-> now, config |-> library.config,
                               sent |-> [d \in Denom |-> total(ts, d)]])
    /\ spender' = sender
    /\ UNCHANGED <<kind, account, now, admin, deposits>>

assert_processor(sender) == sender = library.processor

process_forward(sender) ==
    LET cfg == library.config IN
    /\ kind = "forwarder" /\ Len(calls) < MaxCalls
    /\ assert_processor(sender)
    /\ ensure_forwarding_interval(cfg)
    /\ library' = [library EXCEPT !.last = <<now>>]
    /\ carryOut(forward(cfg), {cfg.input_addr}, sender)

process_split(sender, dynamic) ==
    LET cfg == library.config
        ts == splitAmounts(cfg, dynamic)
    IN
    /\ kind = "splitter" /\ Len(calls) < MaxCalls
    /\ assert_processor(sender)
    /\ coversSplits(cfg, ts)
    /\ carryOut(ts, {cfg.input_addr}, sender)
    /\ UNCHANGED library

process_reverse_split(sender, dynamic) ==
    LET cfg == library.config IN
    /\ kind = "reverse_splitter" /\ Len(calls) < MaxCalls
    /\ assert_processor(sender)
    /\ coversReverse(cfg, dynamic)
    /\ carryOut(reverseAmounts(cfg, dynamic), {cfg.splits[i].account : i \in DOMAIN cfg.splits},
                sender)
    /\ UNCHANGED library

overlay(old, F, new) == [f \in DOMAIN old |-> IF f \in F THEN new[f] ELSE old[f]]

\* UpdateConfig: the fields that are present replace those of the raw and of
\* the checked configuration; only new splits and new denoms are validated.
update_config(sender, F, new) ==
    /\ Administered(NoOne)
    /\ library.owner = sender
    /\ accepted_config(kind, F, overlay(library.config, F, new))
    /\ library' = [library EXCEPT !.raw = overlay(@, F, new),
                                  !.config = overlay(@, F, new)]
    /\ UNCHANGED <<kind, account, balance, now, calls, deposits>>

update_processor(sender, p) ==
    /\ Administered(NoOne)
    /\ library.owner = sender
    /\ library' = [library EXCEPT !.processor = p]
    /\ UNCHANGED <<kind, account, balance, now, calls, deposits>>

library_ownership(sender) ==
    /\ Administered(NoOne)
    /\ library' \in {[library EXCEPT !.owner = o.owner, !.pending = o.pending] :
                        o \in newOwnership([owner |-> library.owner, pending |-> library.pending],
                                           sender)}
    /\ UNCHANGED <<kind, account, balance, now, calls, deposits>>

\* Anyone may send coins to an account.
receiveCoins(a, d) ==
    /\ deposits < MaxDeposits /\ deposits' = deposits + 1 /\ spender' = NoOne
    /\ balance' = [balance EXCEPT ![a][d] = @ + 1]
    /\ UNCHANGED <<kind, library, account, now, admin, calls>>

nextBlock ==
    /\ now < MaxNow
    /\ now' = now + 1 /\ spender' = NoOne
    /\ UNCHANGED <<kind, library, account, balance, admin, calls, deposits>>

-----------------------------------------------------------------------------

LibraryInit ==
    /\ kind \in Kind
    /\ \E c \in Configs(kind) :
          /\ accepted_config(kind, DOMAIN c, c)
          /\ library = [owner |-> Founder, pending |-> NoOne, processor |-> FirstCaller,
                        config |-> c, raw |-> c, last |-> <<>>]
    /\ account = [a \in Account |-> [owner |-> Founder, pending |-> NoOne, approved |-> {Lib}]]
    /\ balance \in Funding(kind)
    /\ now = 0 /\ admin = 0 /\ calls = <<>> /\ deposits = 0 /\ spender = NoOne

LibraryNext ==
    \/ \E a \in Account, s \in Person :
          \/ approve_library(a, s)
          \/ remove_library(a, s)
          \/ update_ownership(a, s)
          \/ \E b \in Account \cup Outside, d \in Denom, n \in 1 .. MaxAmount :
                execute_msg(a, s, Transfer(a, b, d, n))
    \/ \E s \in Person :
          \/ \E c \in Configs(kind) : \E F \in SUBSET DOMAIN c : update_config(s, F, c)
          \/ \E p \in Caller : update_processor(s, p)
          \/ library_ownership(s)
    \/ \E s \in Caller :
          \/ process_forward(s)
          \/ \E dynamic \in [Denom -> Ratios] :
                process_split(s, dynamic) \/ process_reverse_split(s, dynamic)
    \/ \E a \in Account, d \in Denom : receiveCoins(a, d)
    \/ nextBlock

LibrarySpec == LibraryInit /\ [][LibraryNext]_libraryVars

-----------------------------------------------------------------------------

\* The forwarder's two limits together: counted back from any forward, over
\* the min_interval then in force, no more than max_amount of a denom has been
\* forwarded, however the processor calls and the configuration changes.
ForwardingRateLimited ==
    kind = "forwarder" =>
        \A j \in DOMAIN calls :
            LET cfg == calls[j].config
                window == {i \in 1 .. j : calls[i].at > calls[j].at - Max({cfg.min_interval, 1})
                                          /\ (cfg.min_interval = 0 => i = j)}
            IN  \A f \in Range(cfg.forwarding_configs) :
                    SumFunctionOnSet([i \in DOMAIN calls |-> calls[i].sent[f.denom]], window)
                        <= f.max_amount

\* A split whose fixed ratios add up to one for a denom leaves less of it in
\* the input account than there are shares: rounding loses under one unit each.
LeavesDust ==
    LET cfg == library.config IN
    \A d \in Denom :
        LET shares == SplitsOf(cfg.splits, d) IN
        /\ shares # {}
        /\ \A i \in shares : cfg.splits[i].type = "ratio"
                             /\ cfg.splits[i].account # cfg.input_addr
        /\ ratioSum(cfg.splits, d) = DecimalOne
        => balance'[cfg.input_addr][d] < Cardinality(shares)

\* A reverse split takes equal value from every account, short by less than one
\* unit of an account's own denom, or less than f units of it where the account
\* has a factor f; and the poorest account could not have paid for one unit of
\* the base denom more.
PooledInProportion ==
    LET splits == library.config.splits
        shares == {i \in DOMAIN splits : splits[i].type = "ratio"
                                         /\ splits[i].account # library.config.output_addr}
        paid(i) == balance[splits[i].account][splits[i].denom]
                     - balance'[splits[i].account][splits[i].denom]
        worth(i) == (paid(i) * splits[i].value) \div factorOf(splits[i])
    IN  (\A i \in DOMAIN splits : splits[i].type = "ratio") =>
        /\ \A i, j \in shares : worth(i) - worth(j) < splits[j].value
        /\ shares = DOMAIN splits =>
           \E i \in shares :
              balance'[splits[i].account][splits[i].denom] * splits[i].value
                  < (DecimalOne + splits[i].value) * factorOf(splits[i])

\* What rounding costs is less than one unit for each share in the splitter, and
\* less than one unit, times the factor if there is one, in the reverse splitter: a
\* split leaves no more than dust behind, and a reverse split takes from every
\* account in proportion and as much as the poorest can give.
SplitsLoseOnlyDust ==
    [][Len(calls') > Len(calls) =>
          /\ kind = "splitter" => LeavesDust
          /\ kind = "reverse_splitter" => PooledInProportion]_libraryVars

\* Funds leave an account only in a transaction of its present owner, or in a call that
\* the present processor makes of the library while the account approves it: nobody
\* else's execute_msg or call moves them, however owners, approvals and processors
\* were changed before.
OnlyTheAdmittedSpend ==
    [][\A a \in DOMAIN balance \ Outside, d \in Denom :
          balance'[a][d] < balance[a][d] =>
              \/ /\ Lib \in account[a].approved /\ Len(calls') > Len(calls)
                 /\ spender' = library.processor
              \/ /\ spender' = account[a].owner /\ account[a].owner \in Person
                 /\ UNCHANGED calls]_libraryVars
=============================================================================

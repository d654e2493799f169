---------------------------- MODULE MCQueueMap ----------------------------
(***************************************************************************)
(* Small instances for TLC of what has no liveness to check: the storage   *)
(* queues of the CosmWasm and of the EVM processor; accounts with a        *)
(* forwarder, a splitter or a reverse splitter; the libraries that send    *)
(* over IBC; the interchain querier; and the libraries that provide        *)
(* liquidity to pools, open positions and lend.                            *)
(***************************************************************************)
EXTENDS QueueMap, EvmQueue, Libraries, IbcTransfer, IcQuerier, Liquidity, Concentrated, Lending, TLC

VARIABLE which           \* the specification a behavior is of

MCBytes == {<<>>, <<1, 0, 1>>}
MCForward(max1, max2, interval) ==
  [input_addr |-> "a", output_addr |-> "c", min_interval |-> interval,
   forwarding_configs |-> <<[denom |-> "x", max_amount |-> max1], [denom |-> "y", max_amount |-> max2]>>]
MCShare(t, d, a, v, f) == [type |-> t, denom |-> d, account |-> a, value |-> v, factor |-> f]
MCSplit(splits) == [input_addr |-> "a", splits |-> splits]
MCReverse(base, splits) == [output_addr |-> "c", splits |-> splits, base_denom |-> base]
MCConfigs(k) ==
  CASE k = "forwarder" ->
         {MCForward(1, 2, 2), [MCForward(2, 1, 0) EXCEPT !.input_addr = "b"],
          [MCForward(1, 1, 1) EXCEPT !.forwarding_configs[2].denom = "x"]}
    [] k = "splitter" ->
         {MCSplit(<<MCShare("ratio", "x", "b", 1, <<>>), MCShare("ratio", "x", "c", 2, <<>>)>>),
          MCSplit(<<MCShare("amount", "x", "b", 2, <<>>), MCShare("dynamic", "y", "c", 0, <<>>)>>),
          MCSplit(<<MCShare("ratio", "x", "b", 2, <<>>), MCShare("ratio", "x", "b", 1, <<>>)>>),
          MCSplit(<<MCShare("ratio", "x", "b", 2, <<>>), MCShare("ratio", "x", "c", 2, <<>>)>>)}
    [] k = "reverse_splitter" ->
         {MCReverse("x", <<MCShare("ratio", "x", "a", 3, <<>>), MCShare("ratio", "y", "b", 2, <<2>>)>>),
          MCReverse("y", <<MCShare("ratio", "x", "a", 5, <<>>), MCShare("dynamic", "x", "b", 0, <<>>),
                           MCShare("amount", "y", "b", 2, <<>>)>>)}
MCFunding(k) ==
  {[a \in Account \cup Outside |->
      [d \in Denom |-> IF a \in Outside THEN 0 ELSE IF d = "x" THEN m ELSE 7 - m]] : m \in {3}}

MCCoin(d, n) == [denom |-> d, amount |-> n]
MCMinFee ==
  [recv_fee |-> << >>, ack_fee |-> <<MCCoin("untrn", 1), MCCoin("atom", 1)>>,
   timeout_fee |-> <<MCCoin("untrn", 1)>>]
MCLeads == ("to-dest" :> "dest") @@ ("to-hop" :> "hop") @@ ("hop-dest" :> "dest") @@ ("eureka" :> "ethereum")
MCPfm(receiver) ==
  "untrn" :> [local_to_hop_chain_channel_id |-> "to-hop", hop_to_destination_chain_channel_id |-> "hop-dest",
              hop_chain_receiver_address |-> receiver]
MCEureka == [callback_contract |-> "callback", recover_address |-> "recover", source_channel |-> "eureka"]
MCRoute ==
  [input_addr |-> "in", amount |-> <<2>>, denom |-> "untrn", output_addr |-> "out", memo |-> "", channel |-> "to-dest",
   timeout |-> << >>, denom_to_pfm_map |-> << >>, eureka_config |-> << >>]
MCRouteUpdates ==
  {[amount |-> Full], [amount |-> <<0>>], [denom |-> "atom"],
   [channel |-> "to-hop", eureka_config |-> <<MCEureka>>],
   [input_addr |-> "new", output_addr |-> "other", memo |-> "new"],
   [denom_to_pfm_map |-> MCPfm(<< >>)], [denom_to_pfm_map |-> MCPfm(<<"relay">>)]}

MCTypeOf == ("pool1" :> "pool") @@ ("bank1" :> "bank")
MCPinned == ("pool1" :> << >>) @@ ("bank1" :> <<"26">>)
MCKnows == ("osmo26" :> {"pool", "bank"}) @@ ("osmo25" :> {"bank"})
MCBrokers == {[active |-> << >>, latest |-> << >>], [active |-> "26" :> "osmo25", latest |-> <<"26">>]}

MCOrder == <<"x", "y">>
MCPrices == {<< >>, <<3, 4>>}
MCLimits == {<< >>, <<3>>}
MCPool == [reserve |-> ("x" :> 3) @@ ("y" :> 4), supply |-> 4]
MCWallet ==
  [p \in Party |-> IF p = "in" THEN ("x" :> 2) @@ ("y" :> 4) @@ ("lp" :> 0)
                              ELSE ("x" :> 0) @@ ("y" :> 0) @@ ("lp" :> 0)]
MCPoolConfig(from, to, assets, pair) ==
  [input_addr |-> from, output_addr |-> to, lp |-> [assets |-> assets, pair |-> pair]]
MCProviders ==
  {MCPoolConfig("in", "mid", <<"x", "y">>, pair) : pair \in {"xyk", "stable"}}
    \cup {MCPoolConfig("mid", "in", <<"y", "x">>, "xyk"), MCPoolConfig("in", "mid", <<"x", "z">>, "xyk")}
MCRemovers ==
  {MCPoolConfig("mid", "in", <<"x", "y">>, "xyk"), MCPoolConfig("mid", "mid", <<"y", "x">>, "xyk")}

MCClConfig(from, to, assets, global) ==
  [input_addr |-> from, output_addr |-> to, lp |-> [assets |-> assets, global |-> global]]
MCTicks == {-7, -2, 0, 3}
MCRanges == {<<-4, 2>>, <<0, 2>>, <<2, 0>>, <<-1, 4>>}
MCClConfigs ==
  {MCClConfig("in", "mid", <<"x", "y">>, <<-8, 6>>), MCClConfig("in", "in", <<"y", "x">>, <<-20, 20>>),
   MCClConfig("mid", "in", <<"x", "z">>, <<4, -4>>)}
MCPullConfigs ==
  {[input_addr |-> "mid", output_addr |-> "in"], [input_addr |-> "in", output_addr |-> "mid"]}
MCFunds == ("in" :> 2) @@ ("mid" :> 0)

MCLendConfig(from, to, denom) == [input_addr |-> from, output_addr |-> to, denom |-> denom]
MCLendConfigs == {MCLendConfig("in", "mid", "x"), MCLendConfig("mid", "in", "y")}
MCCash == ("in" :> ("x" :> 2 @@ "y" :> 0)) @@ ("mid" :> ("x" :> 0 @@ "y" :> 0))

\* A behavior is of one specification; the variables of the others rest.
NoLibrary ==
  /\ kind = "none" /\ library = << >> /\ account = << >> /\ balance = << >>
  /\ now = 0 /\ admin = 0 /\ calls = << >> /\ deposits = 0 /\ spender = NoOne
NoTransfer == TransferInit /\ transferrer = "generic"
NoQuery == IcqInit /\ icqFee = 1
NoPool ==
  /\ market = "none" /\ pool = MCPool /\ wallet = MCWallet /\ provider = << >> /\ remover = << >>
  /\ served = 0 /\ moves = 0 /\ asked = << >>
NoPosition ==
  /\ tick = 0 /\ positions = << >> /\ funds = MCFunds /\ cl_lper = << >> /\ cl_withdrawer = << >>
  /\ clMoves = 0
NoCredit == credit = << >> /\ cash = MCCash /\ lender = << >> /\ accruals = 0

queues == <<vars, queueVars>>
libraries == <<libraryVars, transferVars, icqVars>>
defi == <<liquidityVars, clVars, lendingVars>>

NoLibraries == NoLibrary /\ NoTransfer /\ NoQuery
NoDefi == NoPool /\ NoPosition /\ NoCredit

MCInit ==
  /\ Init /\ createQueue
  /\ \/ which \in {"cosmwasm", "evm"} /\ NoLibraries /\ NoDefi
     \/ which = "libraries" /\ LibraryInit /\ NoTransfer /\ NoQuery /\ NoDefi
     \/ which = "transfers" /\ TransferInit /\ NoLibrary /\ NoQuery /\ NoDefi
     \/ which = "queries" /\ IcqInit /\ NoLibrary /\ NoTransfer /\ NoDefi
     \/ which = "pools" /\ LiquidityInit /\ NoLibraries /\ NoPosition /\ NoCredit
     \/ which = "positions" /\ ClInit /\ NoLibraries /\ NoPool /\ NoCredit
     \/ which = "credit" /\ LendingInit /\ NoLibraries /\ NoPool /\ NoPosition
MCNext ==
  /\ UNCHANGED which
  /\ \/ which = "cosmwasm" /\ Next /\ UNCHANGED <<queueVars, libraries, defi>>
     \/ which = "evm" /\ EvmQueueNext /\ UNCHANGED <<vars, libraries, defi>>
     \/ which = "libraries" /\ LibraryNext /\ UNCHANGED <<queues, transferVars, icqVars, defi>>
     \/ which = "transfers" /\ TransferNext /\ UNCHANGED <<queues, libraryVars, icqVars, defi>>
     \/ which = "queries" /\ IcqNext /\ UNCHANGED <<queues, libraryVars, transferVars, defi>>
     \/ which = "pools" /\ LiquidityNext /\ UNCHANGED <<queues, libraries, clVars, lendingVars>>
     \/ which = "positions" /\ ClNext /\ UNCHANGED <<queues, libraries, liquidityVars, lendingVars>>
     \/ which = "credit" /\ LendingNext /\ UNCHANGED <<queues, libraries, liquidityVars, clVars>>
MCSpec == MCInit /\ [][MCNext]_<<which, queues, libraries, defi>>
=============================================================================

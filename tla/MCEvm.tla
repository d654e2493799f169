------------------------------- MODULE MCEvm -------------------------------
(***************************************************************************)
(* Small instances of the EVM contracts for TLC: the processor, reached by *)
(* Hyperlane or through the authorization contract, and the two-way vault; *)
(* and of the checks the CosmWasm authorization contract makes of what it  *)
(* sends to them and to CosmWasm processors.                               *)
(***************************************************************************)
EXTENDS EvmAuthorization, ValenceVault, AuthorizationRules, TLC

CONSTANTS Lib, Lib2

VARIABLE which           \* the specification a behavior is of

MCCall == {<<"a", 1>>, <<"a", 2>>, <<"b", 1>>}
MCOf(functions, messages, atomic, expired) ==
  [functions |-> functions, messages |-> messages, atomic |-> atomic, expired |-> expired]
MCCalls(n) == [k \in 1 .. n |-> <<"a", 1>>]
MCSubroutine ==
  {MCOf(<<Lib, Lib2>>, <<<<"a", 2>>, <<"b", 1>>>>, atomic, FALSE) : atomic \in BOOLEAN}
  \cup {MCOf(<<Lib>>, <<<<"a", 1>>>>, FALSE, expired) : expired \in BOOLEAN}
  \cup {MCOf(<<Lib, NoCode>>, MCCalls(2), FALSE, FALSE),
        MCOf(<<Lib, Lib, Lib>>, MCCalls(3), FALSE, FALSE),
        MCOf(<<Lib>>, <<>>, TRUE, FALSE)}
MCEntry(contract, selector, call) ==
  [contract |-> contract, useFunctionSelector |-> selector, call |-> call]
MCPermission ==
  {[users |-> {Zero}, data |-> <<MCEntry(Lib, TRUE, <<"a">>), MCEntry(Lib2, FALSE, <<"b", 1>>)>>],
   [users |-> User, data |-> <<MCEntry(Lib, FALSE, <<"a", 1>>)>>]}

MCConfig(depositFee, platform, performance, lockup, cap) ==
  [depositFeeBps |-> depositFee, platformFeeBps |-> platform, performanceFeeBps |-> performance,
   strategistRatioBps |-> 2, maxWithdrawFeeBps |-> 1, withdrawLockupPeriod |-> lockup,
   depositCap |-> cap, solverCompletionFee |-> 1]
MCFirst == MCConfig(1, 0, 2, 1, 0)
MCConfigs == {MCFirst, MCConfig(4, 4, 0, 2, 6)}

MCDomainInfos == {[name |-> "osmo", env |-> "cosmwasm", encoder |-> "none"],
                  [name |-> "eth", env |-> "evm", encoder |-> "v1"],
                  [name |-> "eth", env |-> "cosmwasm", encoder |-> "none"]}
MCEncoderOf == "v1" :> {"e1", "e2"} @@ "v2" :> {"e1"}
MCSpeaks == "e1" :> ("forwarder" :> {"forward"} @@ "no_library" :> {}) @@ "e2" :> ("no_library" :> {})
MCFunction(d, t, n, rs) ==
  [domain |-> d, type |-> t, name |-> n, encoder |-> "v2", library |-> "forwarder", restrictions |-> rs]
MCMust(kind, keys, value) == [kind |-> kind, keys |-> keys, value |-> value]
MCAuth(mode, priority, fs) == [label |-> "l", mode |-> mode, priority |-> priority, functions |-> fs]
MCValue == MCMust("MustBeValue", <<"split", "to">>, <<"x">>)
MCWithout == MCMust("CannotBeIncluded", <<"split", "memo">>, << >>)
MCWith == MCMust("MustBeIncluded", <<"split", "to">>, << >>)
MCRaw == MCMust("MustBeBytes", << >>, <<"raw1">>)
MCAuthInfos ==
  {[MCAuth("Permissioned", "High", <<MCFunction(Main, "CosmwasmExecuteMsg", "split", << >>)>>) EXCEPT !.label = ""],
   MCAuth("Permissioned", "Medium", << >>),
   MCAuth("Permissionless", "Medium", <<MCFunction(Main, "CosmwasmExecuteMsg", "split", <<MCValue, MCWithout>>)>>),
   MCAuth("Permissionless", "High", <<MCFunction(Main, "CosmwasmMigrateMsg", "split", <<MCWith>>)>>),
   MCAuth("Permissioned", "High", <<MCFunction("osmo", "CosmwasmMigrateMsg", "split", <<MCWith>>),
                                    MCFunction("osmo", "CosmwasmExecuteMsg", "forward", << >>)>>),
   MCAuth("Permissioned", "High", <<MCFunction("osmo", "CosmwasmMigrateMsg", "split", <<MCWith>>),
                                    MCFunction(Main, "CosmwasmExecuteMsg", "forward", << >>)>>),
   MCAuth("Permissionless", "Medium", <<MCFunction("eth", "EvmCall", "forward", << >>)>>),
   MCAuth("Permissionless", "Medium", <<MCFunction("eth", "EvmCall", "forward", <<MCRaw>>)>>),
   MCAuth("Permissionless", "Medium", <<MCFunction("eth", "EvmRawCall", "forward", <<MCRaw>>)>>),
   MCAuth("Permissionless", "Medium", <<MCFunction("eth", "EvmRawCall", "forward", <<MCRaw, MCRaw>>)>>),
   MCAuth("Permissionless", "Medium", <<MCFunction("eth", "CosmwasmExecuteMsg", "forward", << >>)>>)}
MCMessage(t, m) == [type |-> t, msg |-> m]
MCJson(name, paths) == <<(<<name>> :> "object") @@ [p \in DOMAIN paths |-> paths[p]]>>
MCForwardMsg == MCJson("forward", << >>)
MCSplitTo(to) == MCJson("split", <<"split", "to">> :> to)
MCBatches ==
  {<<MCMessage("CosmwasmExecuteMsg", MCSplitTo("x"))>>, <<MCMessage("CosmwasmExecuteMsg", MCSplitTo("y"))>>,
   <<MCMessage("CosmwasmExecuteMsg", << >>)>>,
   <<MCMessage("CosmwasmExecuteMsg", MCJson("split", <<"split", "to">> :> "x" @@ <<"split", "memo">> :> "m"))>>,
   <<MCMessage("CosmwasmMigrateMsg", MCSplitTo("y")), MCMessage("CosmwasmExecuteMsg", MCForwardMsg)>>,
   <<MCMessage("CosmwasmExecuteMsg", MCForwardMsg)>>,
   <<MCMessage("EvmCall", MCForwardMsg)>>,
   <<MCMessage("EvmRawCall", <<"raw1">>)>>, <<MCMessage("EvmRawCall", <<"raw2">>)>>}

Init == EvmInit /\ VaultInit /\ RulesInit /\ which \in {"mail", "authorization", "vault", "rules"}
Next ==
  /\ UNCHANGED which
  /\ \/ which = "mail" /\ ProcessorNext /\ UNCHANGED <<contractVars, historyVars, vaultVars, rulesVars>>
     \/ which = "authorization" /\ EvmNext /\ UNCHANGED <<vaultVars, rulesVars>>
     \/ which = "vault" /\ VaultNext /\ UNCHANGED <<evmVars, rulesVars>>
     \/ which = "rules" /\ RulesNext /\ UNCHANGED <<evmVars, vaultVars>>
Spec == Init /\ [][Next]_<<which, evmVars, vaultVars, rulesVars>>
=============================================================================

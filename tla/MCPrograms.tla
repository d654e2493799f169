----------------------------- MODULE MCPrograms -----------------------------
(***************************************************************************)
(* Small instance of the program manager for TLC: two runs of init, or one *)
(* that meets a bridge or a configuration that it cannot build, or changes *)
(* to a program that is up; of the one-way vault with the clearing queue   *)
(* of the other domain; and of an interchain account.                      *)
(***************************************************************************)
EXTENDS ProgramUpdate, ClearingQueue, InterchainAccount

VARIABLE which           \* the specification a behavior is of

MCAccounts(S, d) == [a \in S |-> [domain |-> d, ty |-> "Base"]]
MCLink(l, i, o) == [library |-> l, inputs |-> i, outputs |-> o]
MCProgram(owner, link, accounts, lib) ==
  [owner |-> owner, fresh |-> TRUE, links |-> 1 :> link, accounts |-> accounts, libraries |-> 1 :> lib,
   labels |-> {<<"user", 1>>}]
MCLibrary(d, accounts) == [domain |-> d, accounts |-> accounts]
\* A library that moves funds from one account to another.
MCHome == MCProgram("owner", MCLink(1, {1}, {2}), MCAccounts({1, 2}, Main), MCLibrary(Main, {1, 2}))
\* One that works on a single account.
MCSmall == MCProgram("owner", MCLink(1, {1}, {1}), MCAccounts({1}, Main), MCLibrary(Main, {1}))
\* The same on another domain.
MCAway ==
  MCProgram(Wallet, MCLink(1, {1}, {1}), MCAccounts({1}, "osmosis"), MCLibrary("osmosis", {1}))
\* Configurations that cannot be built: a library in two links, an account that
\* exists already, an account in no link, no owner, one that is up.
MCTwice == [MCHome EXCEPT !.links = [l \in {1, 2} |-> MCLink(1, {1}, {2})]]
MCExisting == [MCHome EXCEPT !.accounts[2].ty = "Addr"]
MCUnlinked == [MCHome EXCEPT !.links[1].outputs = {}]
MCOwnerless == [MCHome EXCEPT !.owner = NoOwner]
MCUsed == [MCHome EXCEPT !.fresh = FALSE]
\* A program that is up, on one domain or with a second library on another.
MCUp(p) == [p EXCEPT !.owner = Wallet, !.fresh = FALSE]
MCBoth ==
  [MCSmall EXCEPT !.links = (1 :> MCLink(1, {1}, {1})) @@ (2 :> MCLink(2, {2}, {2})),
                  !.accounts = MCAccounts({1}, Main) @@ MCAccounts({2}, "osmosis"),
                  !.libraries = (1 :> MCLibrary(Main, {1})) @@ (2 :> MCLibrary("osmosis", {2}))]
MCAssignment ==
  {("r1" :> MCSmall) @@ ("r2" :> MCSmall)}
  \cup {"r1" :> p : p \in {MCHome, MCAway, MCTwice, MCExisting, MCUnlinked, MCOwnerless, MCUsed}}

MCUpdate(libraries, authorizations, owner) ==
  [kind |-> "update", libraries |-> libraries, authorizations |-> authorizations, owner |-> owner]
MCTransfer(from, d) == [from |-> from, to |-> 1, amount |-> 1, domain |-> d]
MCRequest ==
  {MCUpdate({1}, << >>, << >>), MCUpdate({2}, << >>, << >>),
   MCUpdate({}, <<[op |-> "Add", label |-> <<"user", 2>>, domain |-> OnMain],
                  [op |-> "Disable", label |-> <<"user", 2>>]>>, << >>),
   MCUpdate({}, << >>, <<"heir">>)}
  \cup {[kind |-> "migrate", transfers |-> <<MCTransfer(1, Main), MCTransfer(from, Main)>>,
         program |-> [MCSmall EXCEPT !.owner = Wallet]] : from \in {1, 3}}

MCWConfig(depositFee, withdrawFee, cap) ==
  [depositFeeBps |-> depositFee, withdrawFeeBps |-> withdrawFee, maxRateIncrementBps |-> 2,
   maxRateDecrementBps |-> 2, strategistRatioBps |-> 2, depositCap |-> cap,
   maxRateUpdateDelay |-> 1, minRateUpdateDelay |-> 1]
MCFirstWConfig == MCWConfig(1, 1, 0)
MCWConfigs == {MCFirstWConfig, MCWConfig(4, 4, 8)}

\* A behavior is of one specification; the variables of the others rest.
NoChanges == change = << >> /\ refused = FALSE /\ inTurn = FALSE
NoRuns == RegistryInit /\ contracts = << >> /\ authorization = << >> /\ bridge = << >> /\ run = << >>

Init ==
  /\ IcaInit
  /\ \/ which = "init" /\ ManagerInit /\ NoChanges /\ SettlementInit
     \/ which = "update" /\ SettlementInit /\ \E p \in {MCHome, MCBoth} : UpdateInit(MCUp(p))
     \/ which \in {"settlement", "interchain"} /\ SettlementInit /\ NoRuns /\ NoChanges
Next ==
  /\ UNCHANGED which
  /\ \/ which = "init" /\ ManagerNext /\ UNCHANGED <<updateVars, settlementVars, icaVars>>
     \/ which = "update" /\ UpdateNext /\ UNCHANGED <<settlementVars, icaVars>>
     \/ which = "settlement" /\ SettlementNext /\ UNCHANGED <<managerVars, updateVars, icaVars>>
     \/ which = "interchain" /\ IcaNext /\ UNCHANGED <<managerVars, updateVars, settlementVars>>
Spec ==
  /\ Init /\ [][Next]_<<which, managerVars, updateVars, settlementVars, icaVars>>
  /\ ManagerFairness /\ ClearingFairness /\ IcaFairness
=============================================================================

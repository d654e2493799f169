-------------------------- MODULE EvmAuthorization --------------------------
(***************************************************************************)
(* The EVM authorization contract (solidity/src/authorization), composed   *)
(* with the processor it forwards to and with the verification router      *)
(* (solidity/src/verification).  A user's message goes through the checks  *)
(* here, the processor executes it and calls back handleCallback, all in   *)
(* one transaction.                                                        *)
(***************************************************************************)
EXTENDS EvmProcessor, FiniteSets

CONSTANTS
  User,                \* accounts; Zero among the allowed ones means everyone
  Zero,
  Label,               \* labels of standard authorizations
  Permission,          \* what a label may be given: users and the calls they may make
  Registry,            \* ids of ZK authorizations
  Route,               \* names of verification routes
  Block,               \* block numbers of proofs
  MaxExecutionId       \* bound: messages forwarded

ASSUME EvmAuthorizationConstants ==
  /\ MaxExecutionId \in Nat /\ Block \subseteq Nat \ {0} /\ Zero \notin User
  /\ \A p \in Permission : p.users \subseteq User \cup {Zero} /\ p.users # {} /\ p.data # <<>>

VARIABLES
  executionId,
  callbacks,           \* execution id -> the callbacks handled for it
  adminAddresses,
  authorizations,      \* label -> its users and data, or NoPermission
  zkAuthorizations,    \* registry -> its users, route and block check, or NoRegistry
  zkLastBlock,         \* zkAuthorizationLastExecutionBlock
  verificationRouter,  \* whether a router is set
  routes,              \* the routes of the router that lead to a verifier
  sent,                \* history: execution id -> the subroutine forwarded, or Control
  did,                 \* history: execution id -> what its functions did
  listed,              \* history: execution id -> what its label listed then
  proven               \* history: registry -> blocks executed under the block check

contractVars == <<executionId, callbacks, adminAddresses, authorizations, zkAuthorizations,
                  zkLastBlock, verificationRouter, routes>>
historyVars == <<sent, did, listed, proven>>
evmVars == <<processorVars, contractVars, historyVars>>

ExecutionId == 0 .. MaxExecutionId - 1
NoPermission == [users |-> {}, data |-> <<>>]
NoRegistry == [users |-> {}, route |-> "", checked |-> FALSE]

EvmInit ==
  /\ ProcessorInit
  /\ executionId = 0
  /\ callbacks = [i \in ExecutionId |-> <<>>]
  /\ adminAddresses = {}
  /\ authorizations = [l \in Label |-> NoPermission]
  /\ zkAuthorizations = [r \in Registry |-> NoRegistry]
  /\ zkLastBlock = [r \in Registry |-> 0]
  /\ verificationRouter = FALSE
  /\ routes = {}
  /\ sent = [i \in ExecutionId |-> NoMessage]
  /\ did = [i \in ExecutionId |-> <<>>]
  /\ listed = [i \in ExecutionId |-> <<>>]
  /\ proven = [r \in Registry |-> <<>>]

\* One call as a permission lists it: by selector, or by the whole calldata.
Permits(entry, contract, call) ==
  /\ entry.contract = contract
  /\ IF entry.useFunctionSelector THEN entry.call[1] = call[1] ELSE entry.call = call

checkAddressIsAuthorized(user, label, s) ==
  LET p == authorizations[label]
  IN /\ user \in p.users \/ Zero \in p.users
     /\ Len(p.data) = Len(s.functions)
     /\ \A k \in 1 .. Len(p.data) : Permits(p.data[k], s.functions[k], s.messages[k])

\* The same for atomic and non-atomic subroutines.
verifySubroutineAuthorization(user, label, s) ==
  /\ s.functions # <<>> => Len(s.functions) = Len(s.messages)
  /\ checkAddressIsAuthorized(user, label, s)

\* handleCallback: called by the processor before execute returns; callbacks are the
\* ones handled, stored or, without storeCallbacks, only in the event.  The processor
\* ignores a call that fails, but this one, made by the contract's own processor with
\* what it encoded, can only fail for want of gas, which is not modelled.
handleCallback(id, callback) ==
  callbacks' = [callbacks EXCEPT ![id] = Append(@, callback)]

\* processor.execute: this contract must be one of the processor's addresses.
\* It has code, so it is called back whatever the outcome.
execute(s, ok) ==
  /\ executionId < MaxExecutionId
  /\ Authorization \in authorizedAddresses
  /\ \E out \in handleSendMsgs(s, ok) :
       /\ handleCallback(executionId, buildCallback(out))
       /\ did' = [did EXCEPT ![executionId] = out.effects]
  /\ sent' = [sent EXCEPT ![executionId] = s]
  /\ executionId' = executionId + 1
  /\ UNCHANGED processorVars

executeControl ==
  /\ executionId < MaxExecutionId
  /\ Authorization \in authorizedAddresses
  /\ handlePause \/ handleResume
  /\ sent' = [sent EXCEPT ![executionId] = Control]
  /\ executionId' = executionId + 1
  /\ UNCHANGED <<authorizedAddresses, mail, dispatched, ran, callbacks, did>>

configuration == <<adminAddresses, authorizations, zkAuthorizations, verificationRouter, routes>>

\* sendProcessorMessage with SendMsgs.
sendProcessorMessage(user, label, s, ok) ==
  /\ verifySubroutineAuthorization(user, label, s)
  /\ execute(s, ok)
  /\ listed' = [listed EXCEPT ![executionId] = authorizations[label].data]
  /\ UNCHANGED <<configuration, zkLastBlock, proven>>

\* sendProcessorMessage with another type of message needs admin access;
\* InsertMsgs and EvictMsgs then revert in this processor.
sendControl(user) ==
  /\ user \in adminAddresses
  /\ executeControl
  /\ UNCHANGED <<configuration, zkLastBlock, listed, proven>>

\* The router knows the route and its verifier accepts both proofs; the domain
\* proof is checked against the root at the head of the inputs.
Verify(route, proof) == route \in routes /\ proof.program /\ proof.domain

\* Variant: the same block may be proved again.
admitsBlock_again(r, block) ==
  zkAuthorizations[r].checked => block >= zkLastBlock[r]

admitsBlock(r, block) ==
  zkAuthorizations[r].checked => block > zkLastBlock[r]

executeZKMessage(user, r, block, proof, message) ==
  LET z == zkAuthorizations[r]
  IN /\ user \in z.users \/ Zero \in z.users
     /\ admitsBlock(r, block)
     /\ verificationRouter
     /\ Verify(z.route, proof)
     /\ IF message = Control THEN executeControl
        ELSE \E ok \in Outcomes(message) : execute(message, ok)
     /\ zkLastBlock' = IF z.checked THEN [zkLastBlock EXCEPT ![r] = block] ELSE zkLastBlock
     /\ proven' = IF z.checked THEN [proven EXCEPT ![r] = Append(@, block)] ELSE proven
     /\ UNCHANGED <<configuration, listed>>

\* The owner's operations.
addAdminAddress(u) == adminAddresses' = adminAddresses \cup {u}
removeAdminAddress(u) == adminAddresses' = adminAddresses \ {u}
addStandardAuthorizations(l, p) == authorizations' = [authorizations EXCEPT ![l] = p]
removeStandardAuthorizations(l) == authorizations' = [authorizations EXCEPT ![l] = NoPermission]

setVerificationRouter == verificationRouter' = TRUE

addRegistries(r, users, route, checked) ==
  /\ verificationRouter /\ users # {}
  /\ zkAuthorizations' = [zkAuthorizations EXCEPT
                            ![r] = [users |-> users, route |-> route, checked |-> checked]]

updateRegistryRoute(r, route) ==
  /\ zkAuthorizations[r].users # {}
  /\ zkAuthorizations' = [zkAuthorizations EXCEPT ![r].route = route]

\* The block of the last proof goes with the registry.
removeRegistries(r) ==
  /\ zkAuthorizations' = [zkAuthorizations EXCEPT ![r] = NoRegistry]
  /\ zkLastBlock' = [zkLastBlock EXCEPT ![r] = 0]
  /\ proven' = [proven EXCEPT ![r] = <<>>]

\* VerificationRouter.addRoute: a route is never replaced.
addRoute(route) == route \notin routes /\ routes' = routes \cup {route}

Rest == <<processorVars, executionId, callbacks, sent, did, listed>>

OwnerStep ==
  \/ /\ \E u \in User : addAdminAddress(u) \/ removeAdminAddress(u)
     /\ UNCHANGED <<Rest, authorizations, zkAuthorizations, zkLastBlock, verificationRouter,
                    routes, proven>>
  \/ /\ \E l \in Label : \/ \E p \in Permission : addStandardAuthorizations(l, p)
                         \/ removeStandardAuthorizations(l)
     /\ UNCHANGED <<Rest, adminAddresses, zkAuthorizations, zkLastBlock, verificationRouter,
                    routes, proven>>
  \/ /\ \E r \in Registry, route \in Route :
          \/ \E checked \in BOOLEAN : addRegistries(r, {Zero}, route, checked)
          \/ updateRegistryRoute(r, route)
     /\ UNCHANGED <<Rest, adminAddresses, authorizations, zkLastBlock, verificationRouter,
                    routes, proven>>
  \/ /\ \E r \in Registry : removeRegistries(r)
     /\ UNCHANGED <<Rest, adminAddresses, authorizations, verificationRouter, routes>>
  \/ /\ setVerificationRouter
     /\ UNCHANGED <<Rest, adminAddresses, authorizations, zkAuthorizations, zkLastBlock, routes,
                    proven>>
  \/ /\ \E route \in Route : addRoute(route)
     /\ UNCHANGED <<Rest, adminAddresses, authorizations, zkAuthorizations, zkLastBlock,
                    verificationRouter, proven>>

Proof == [program: BOOLEAN, domain: BOOLEAN]

UserStep ==
  \/ \E u \in User, l \in Label, s \in Subroutine : \E ok \in Outcomes(s) :
       sendProcessorMessage(u, l, s, ok)
  \/ \E u \in User : sendControl(u)
  \/ \E u \in User, r \in Registry, b \in Block, proof \in Proof,
        m \in Subroutine \cup {Control} : executeZKMessage(u, r, b, proof, m)

\* Deliveries by Hyperlane meet this contract only in paused, which DirectStep
\* changes too: they are left to ProcessorNext and to EvmSpec.
EvmNext ==
  \/ DirectStep /\ UNCHANGED <<contractVars, historyVars>>
  \/ OwnerStep
  \/ UserStep

\* Everything together, with deliveries in between.
EvmSpec ==
  EvmInit /\ [][EvmNext \/ (Delivery /\ UNCHANGED <<contractVars, historyVars>>)]_evmVars

-----------------------------------------------------------------------------
\* Every message that asks for functions to run is answered once, with its own
\* execution id, before the next one gets an id; control messages and ids not
\* yet given are not answered.  What the answer reports, to this contract or over
\* Hyperlane, is what the functions did: the count is of calls whose effects last,
\* an atomic subroutine never runs in part, and a success means all of it ran.
AnsweredOnceTruthfully ==
  /\ \A i \in ExecutionId :
       /\ sent[i] # NoMessage <=> i < executionId
       /\ Len(callbacks[i]) = IF sent[i] \in Subroutine THEN 1 ELSE 0
       /\ \A k \in DOMAIN callbacks[i] : Truthful(sent[i], did[i], callbacks[i][k])
  /\ \A i \in MailId :
       /\ Len(dispatched[i]) = IF mail[i] \in Subroutine THEN 1 ELSE 0
       /\ \A k \in DOMAIN dispatched[i] : Truthful(mail[i], ran[i], dispatched[i][k])

\* Only what was admitted runs.  Under a label it is a prefix of the calls the label
\* lists, and all of them when it succeeds: neither fewer calls, nor more, nor other
\* ones.  While a registry checks blocks, it never executes two proofs of the same
\* block or an older one, whatever happens in between: its route changed, the check
\* switched off and on again, the processor paused.
OnlyTheAdmittedRuns ==
  /\ \A i \in ExecutionId : listed[i] # <<>> =>
       /\ Len(did[i]) <= Len(listed[i])
       /\ \A k \in DOMAIN did[i] : Permits(listed[i][k], did[i][k], sent[i].messages[k])
       /\ callbacks[i][1].result = "Success" => Len(did[i]) = Len(listed[i])
  /\ \A r \in Registry : \A j, k \in DOMAIN proven[r] : j < k => proven[r][j] < proven[r][k]
=============================================================================

--------------------------- MODULE Program_proofs ---------------------------
(***************************************************************************)
(* Runs of the program manager build apart, and what they hand over or     *)
(* register is whole: for every number of runs, every program they are     *)
(* asked to build and every outcome of every transaction.  And two of the  *)
(* libraries that programs are made of: positions of concentrated          *)
(* liquidity are where and whose they should be, and the credit of an      *)
(* account is in one place, for every configuration and amount.            *)
(***************************************************************************)
EXTENDS ProgramManager, Concentrated, Lending, Liquidity, TLAPS

\* What is taken away from a sum leaves the rest.
LEMMA Differences ==
  /\ \A a \in Nat : a - a = 0
  /\ \A a \in Nat, b \in Int : (a + b) - a = b
OBVIOUS

\* A number, of either sign, in multiples of another.
LEMMA WholeMultiples ==
  ASSUME NEW t \in Int, NEW c \in Nat \ {0}
  PROVE  t \div c \in Int /\ (t \div c) * c <= t /\ t < (t \div c) * c + c
<1>1. t \div c \in Int /\ t % c \in 0 .. c - 1 /\ t = c * (t \div c) + (t % c)
  BY SMT
<1>2. c * (t \div c) = (t \div c) * c
  BY <1>1, SMT
<1> QED BY <1>1, <1>2, SMT

-----------------------------------------------------------------------------
(* The inductive invariant.                                                *)

\* A run before it has an id, and after what it built was verified.
Unnumbered == {"start", "reserve"}
Verified == {"add_authorizations", "change_owner", "change_admin", "save", "done"}

\* r has these fields.
HasFields(r, pc, p, i, todo, dom, retry) ==
  r \in [pc : {pc}, prog : {p}, id : {i}, todo : {todo}, dom : {dom}, retry : {retry}]
IsRun(r) == HasFields(r, r.pc, r.prog, r.id, r.todo, r.dom, r.retry)
IsContract(a) == a \in [owner : {a.owner}, admin : {a.admin}, labels : {a.labels}, domains : {a.domains}]

\* Ids are handed out once: none is in use beyond the last one, and a run has one
\* exactly when it has reserved it.
Numbered ==
  /\ last_id \in Nat
  /\ DOMAIN programs \subseteq 1 .. last_id
  /\ DOMAIN authorization \subseteq 1 .. last_id
  /\ \A m \in DOMAIN run :
       /\ IsRun(run[m])
       /\ id(m) \in 0 .. last_id
       /\ run[m].pc \in Unnumbered => id(m) = 0
       /\ run[m].pc \notin Unnumbered \cup {"failed"} => id(m) # 0
  /\ \A addr \in DOMAIN contracts :
       contracts[addr].by \in DOMAIN run /\ id(contracts[addr].by) # 0

ApartInv == Numbered /\ RunsBuildApart

\* A program is whole under an id.
Whole(p, i) ==
  /\ accounts_up(p, i)
  /\ libraries_up(p, i)
  /\ processors_up(p, i)
  /\ bridges_up(p, i)
  /\ linksAreApprovals(p, i)

\* What stands at an account's address was instantiated with the account's libraries.
Approvals ==
  \A m \in DOMAIN run : \A a \in DOMAIN prog(m).accounts :
    accountAt(prog(m), id(m), a) \in DOMAIN contracts =>
      contracts[accountAt(prog(m), id(m), a)].holds = approved_libraries(prog(m), id(m), a)

\* A bridge account is only asked for once by the contract it is for.
Bridges ==
  \A key \in DOMAIN bridge :
    /\ key[3] = "processor" => ~ Fresh(processorAt(key[2], key[1]))
    /\ key[3] = "authorization" =>
         key[1] \in DOMAIN authorization /\ key[2] \in authorization[key[1]].domains

WholeInv ==
  /\ ApartInv
  /\ \A i \in DOMAIN authorization : IsContract(authorization[i])
  /\ Approvals
  /\ Bridges
  /\ \A m \in DOMAIN run : run[m].pc \in Verified =>
       id(m) \in DOMAIN authorization /\ Whole(prog(m), id(m))
  /\ OnlyWholePrograms

-----------------------------------------------------------------------------
(* What a step of a run does to the run.                                   *)

\* t is r at another place of init, for the same program under the same id.
Moved(t, r, pc) == IsRun(t) /\ t.prog = r.prog /\ t.id = r.id /\ t.pc = pc

\* The steps of init only move.
LEMMA RecordMoves ==
  ASSUME NEW r, IsRun(r), NEW pc, NEW todo, NEW dom, NEW retry, NEW v
  PROVE  /\ Moved([r EXCEPT !.pc = pc, !.todo = todo, !.retry = retry], r, pc)
         /\ Moved([r EXCEPT !.pc = pc], r, pc)
         /\ Moved([r EXCEPT !.pc = pc, !.todo = todo], r, pc)
         /\ Moved([[r EXCEPT !.pc = pc] EXCEPT !.dom = dom], r, pc)
         /\ Moved([[r EXCEPT !.pc = pc] EXCEPT !.retry = retry], r, pc)
         /\ Moved([[r EXCEPT !.pc = pc] EXCEPT !.todo = @ \ {v}, !.retry = retry, !.dom = dom], r, pc)
         /\ Moved([r EXCEPT !.todo = @ \ {v}], r, r.pc)
         /\ Moved([r EXCEPT !.retry = @ - 1], r, r.pc)
  BY Zenon DEF Moved, IsRun, HasFields

\* A reserved id is noted.
WithId(r, pc, i) == [[r EXCEPT !.pc = pc] EXCEPT !.id = i]
NumberedAs(t, r, pc, i) == IsRun(t) /\ t.prog = r.prog /\ t.id = i /\ t.pc = pc

\* Giving a run its id leaves a run.
LEMMA RecordNumbered ==
  ASSUME NEW r, IsRun(r), NEW pc, NEW i
  PROVE  NumberedAs(WithId(r, pc, i), r, pc, i)
  BY Zenon DEF IsRun, HasFields, WithId, NumberedAs

\* Run m goes to one of the places P.
Advances(m, P) ==
  /\ m \in DOMAIN run /\ DOMAIN run' = DOMAIN run
  /\ \A n \in DOMAIN run : n # m => run'[n] = run[n]
  /\ \E pc \in P : Moved(run'[m], run[m], pc)

\* Going to a next record.
LEMMA GotoAdvances ==
  ASSUME NEW m \in DOMAIN run, NEW next, NEW P, NEW pc \in P,
         Moved(next, run[m], pc), Goto(m, next)
  PROVE  Advances(m, P)
  BY Zenon DEF Advances, Goto

\* A run fails.
LEMMA FailedAdvances ==
  ASSUME NEW m \in DOMAIN run, IsRun(run[m]), NEW P, "failed" \in P, Goto(m, Failed(m))
  PROVE  Advances(m, P)
<1>1. Moved(Failed(m), run[m], "failed")
  BY RecordMoves, Zenon DEF Failed
<1> QED BY <1>1, GotoAdvances, Zenon

\* After a transaction the run is where it goes next or has failed.
LEMMA EitherAdvances ==
  ASSUME NEW m \in DOMAIN run, IsRun(run[m]), NEW next, NEW pc,
         Moved(next, run[m], pc), Goto(m, next) \/ Goto(m, Failed(m))
  PROVE  Advances(m, {pc, "failed"})
  BY GotoAdvances, FailedAdvances, Zenon

-----------------------------------------------------------------------------
(* Steps that build under the id of their run.                             *)

\* The places of a run that holds an id and has not ended.
Building == {"authorization", "processor", "domains", "add_domain", "authorization_bridge",
             "processor_bridge", "libraries", "accounts", "add_authorizations", "change_owner",
             "change_admin", "save"}

\* What run m may do to the chain while it builds, as far as ids go.
BuildsUnderItsId(m) ==
  /\ last_id' = last_id /\ programs' = programs
  /\ DOMAIN authorization' \subseteq DOMAIN authorization \cup {id(m)}
  /\ \A addr \in DOMAIN contracts' :
       \/ addr \in DOMAIN contracts /\ contracts'[addr].by = contracts[addr].by
       \/ contracts'[addr].by = m /\ addr[2] = id(m)

\* Such steps keep runs apart.
LEMMA BuildingApart ==
  ASSUME ApartInv, NEW m, Advances(m, Building \cup {"failed"}), run[m].pc \in Building,
         BuildsUnderItsId(m)
  PROVE  ApartInv'
<1>1. /\ m \in DOMAIN run /\ DOMAIN run' = DOMAIN run
      /\ \A n \in DOMAIN run : run'[n].id = run[n].id /\ IsRun(run'[n])
      /\ \A n \in DOMAIN run : n # m => run'[n] = run[n]
      /\ run'[m].pc \in Building \cup {"failed"}
  BY Zenon DEF Advances, ApartInv, Numbered, Moved
<1>2. id(m) \in 1 .. last_id /\ id(m) \notin DOMAIN programs
  BY <1>1 DEF ApartInv, Numbered, RunsBuildApart, Building, Unnumbered, id
<1>3. \A addr \in DOMAIN contracts' :
        /\ contracts'[addr].by \in DOMAIN run' /\ run'[contracts'[addr].by].id # 0
        /\ run'[contracts'[addr].by].id = addr[2]
  BY <1>1, <1>2 DEF ApartInv, Numbered, RunsBuildApart, BuildsUnderItsId, id
<1>4. \A n \in DOMAIN run' :
        /\ IsRun(run'[n])
        /\ run'[n].id \in 0 .. last_id
        /\ run'[n].pc \in Unnumbered => run'[n].id = 0
        /\ run'[n].pc \notin Unnumbered \cup {"failed"} => run'[n].id # 0
        /\ run'[n].id \in DOMAIN programs => run'[n].pc \in {"done", "failed"}
  BY <1>1, <1>2, ZenonT(40) DEF ApartInv, Numbered, RunsBuildApart, Building, Unnumbered, id
<1>5. \A n, k \in DOMAIN run' : n # k /\ run'[n].id # 0 => run'[n].id # run'[k].id
  BY <1>1 DEF ApartInv, RunsBuildApart, id
<1>6. /\ last_id' \in Nat /\ DOMAIN programs' \subseteq 1 .. last_id'
      /\ DOMAIN authorization' \subseteq 1 .. last_id'
  BY <1>2, Zenon DEF ApartInv, Numbered, BuildsUnderItsId
<1> QED BY <1>3, <1>4, <1>5, <1>6, Zenon DEF ApartInv, Numbered, RunsBuildApart, BuildsUnderItsId, id

\* Nothing on the chain changes.
LEMMA RestsBuilding ==
  ASSUME NEW m, UNCHANGED chainVars
  PROVE  BuildsUnderItsId(m)
<1>1. last_id' = last_id /\ programs' = programs /\ authorization' = authorization /\ contracts' = contracts
  BY Zenon DEF chainVars, registryVars
<1> QED BY <1>1, Zenon DEF BuildsUnderItsId

\* A contract is instantiated.
LEMMA InstantiatesBuilding ==
  ASSUME NEW m, NEW addr, addr[2] = id(m), NEW holds,
         contracts' = Saved(contracts, addr, [by |-> m, holds |-> holds]),
         UNCHANGED <<registryVars, authorization>>
  PROVE  BuildsUnderItsId(m)
<1>1. last_id' = last_id /\ programs' = programs /\ authorization' = authorization
  BY Zenon DEF registryVars
<1> QED BY <1>1, Zenon DEF BuildsUnderItsId, Saved

-----------------------------------------------------------------------------
(* What each step of a building run does.                                  *)

\* A contract is instantiated at a fresh address of the id: not an account, or one of
\* the program's with the libraries it approves; a processor may ask for its bridge.
Instantiates(m) ==
  \E addr, holds :
    /\ Fresh(addr) /\ addr[2] = id(m)
    /\ contracts' = Saved(contracts, addr, [by |-> m, holds |-> holds])
    /\ UNCHANGED <<registryVars, authorization>>
    /\ \/ addr[3] # "account"
       \/ \E a : /\ addr = accountAt(prog(m), id(m), a)
                 /\ holds = approved_libraries(prog(m), id(m), a)
    /\ \/ bridge' = bridge
       \/ \E d : /\ addr = processorAt(d, id(m))
                 /\ bridge' = Saved(bridge, <<id(m), d, "processor">>, "PendingResponse")

\* The authorization contract is instantiated.
Authorizes(m) ==
  /\ id(m) \notin DOMAIN authorization
  /\ authorization' = Saved(authorization, id(m), [owner |-> Wallet, admin |-> Wallet,
                                                   labels |-> {}, domains |-> {}])
  /\ UNCHANGED <<registryVars, contracts, bridge>>

\* It is given another domain, and asks for the bridge.
AddsDomain(m) ==
  \E d : /\ id(m) \in DOMAIN authorization /\ d \notin authorization[id(m)].domains
         /\ authorization' = [authorization EXCEPT ![id(m)].domains = @ \cup {d}]
         /\ bridge' = Saved(bridge, <<id(m), d, "authorization">>, "PendingResponse")
         /\ UNCHANGED <<registryVars, contracts>>

\* A bridge account that timed out is asked for again.
AsksAgain ==
  \E key \in DOMAIN bridge :
    /\ bridge[key] = "TimedOut"
    /\ bridge' = [bridge EXCEPT ![key] = "PendingResponse"]
    /\ UNCHANGED <<registryVars, contracts, authorization>>

\* It is told what it allows and whose it is.
Administers(m) ==
  /\ id(m) \in DOMAIN authorization
  /\ \E v : \/ authorization' = [authorization EXCEPT ![id(m)].labels = v]
            \/ authorization' = [authorization EXCEPT ![id(m)].admin = v]
            \/ run[m].pc = "change_owner" /\ authorization' = [authorization EXCEPT ![id(m)].owner = v]
  /\ UNCHANGED <<registryVars, contracts, bridge>>

\* A step of a building run: it goes on to be verified only over verify_init_was_successful.
BuildingStep(m) ==
  /\ Advances(m, Building \cup {"failed"})
  /\ run'[m].pc \in Verified => \/ run[m].pc \in Verified
                                \/ verified(prog(m), id(m)) /\ UNCHANGED chainVars
  /\ \/ UNCHANGED chainVars
     \/ Instantiates(m)
     \/ Authorizes(m)
     \/ AddsDomain(m)
     \/ AsksAgain
     \/ Administers(m)

\* A move to one place, or a failure.
LEMMA StepFrom ==
  ASSUME NEW m, NEW pc \in Building, Advances(m, {pc, "failed"}),
         \/ pc \notin Verified \/ run[m].pc \in Verified
         \/ verified(prog(m), id(m)) /\ UNCHANGED chainVars,
         \/ UNCHANGED chainVars \/ Instantiates(m) \/ Authorizes(m) \/ AddsDomain(m)
         \/ AsksAgain \/ Administers(m)
  PROVE  BuildingStep(m)
  BY Zenon DEF BuildingStep, Advances, Moved, Building, Verified

\* The authorization contract and the processor of the main domain.
LEMMA FirstContractsStep ==
  ASSUME NEW m \in DOMAIN run, IsRun(run[m]),
         instantiate_authorization(m) \/ instantiate_main_processor(m)
  PROVE  BuildingStep(m)
<1>1. CASE instantiate_authorization(m)
  <2>1. /\ Goto(m, Then(m, "processor")) \/ Goto(m, Failed(m))
        /\ UNCHANGED chainVars \/ Authorizes(m)
    BY <1>1, Zenon DEF instantiate_authorization, broadcast_tx, Authorizes
  <2>2. Moved(Then(m, "processor"), run[m], "processor")
    BY RecordMoves, Zenon DEF Then
  <2>3. Advances(m, {"processor", "failed"})
    BY <2>1, <2>2, EitherAdvances, Zenon
  <2> QED BY <2>1, <2>3, StepFrom, Zenon DEF Building, Verified
<1>2. CASE instantiate_main_processor(m)
  <2> DEFINE addr == processorAt(Main, id(m))
             todo == get_all_domains(prog(m)) \ {Main}
  <2>1. /\ Goto(m, ThenEach(m, "domains", todo)) \/ Goto(m, Failed(m))
        /\ UNCHANGED chainVars \/ (Fresh(addr) /\ instantiate2(addr, m, {}))
    BY <1>2, Zenon DEF instantiate_main_processor, broadcast_tx
  <2>2. Moved(ThenEach(m, "domains", todo), run[m], "domains")
    BY RecordMoves, Zenon DEF ThenEach
  <2>3. Advances(m, {"domains", "failed"})
    BY <2>1, <2>2, EitherAdvances, Zenon
  <2>4. addr[2] = id(m) /\ addr[3] # "account"
    BY Zenon DEF processorAt, get_address
  <2>5. UNCHANGED chainVars \/ Instantiates(m)
    <3>1. CASE Fresh(addr) /\ instantiate2(addr, m, {})
      BY <3>1, <2>4, Zenon DEF instantiate2, Instantiates
    <3> QED BY <2>1, <3>1, Zenon
  <2> QED BY <2>3, <2>5, StepFrom, Zenon DEF Building, Verified
<1> QED BY <1>1, <1>2, Zenon

\* A processor of another domain, and the domain in the authorization contract.
LEMMA DomainStep ==
  ASSUME NEW m \in DOMAIN run, IsRun(run[m]), NEW d,
         instantiate_external_processor(m, d) \/ add_external_domain(m)
  PROVE  BuildingStep(m)
<1>1. CASE instantiate_external_processor(m, d)
  <2> DEFINE addr == processorAt(d, id(m))
             next == [Then(m, "add_domain") EXCEPT !.dom = d]
             effect == /\ Fresh(addr)
                       /\ contracts' = Saved(contracts, addr, [by |-> m, holds |-> {}])
                       /\ bridge' = Saved(bridge, <<id(m), d, "processor">>, "PendingResponse")
                       /\ UNCHANGED <<registryVars, authorization>>
  <2>1. (Goto(m, next) \/ Goto(m, Failed(m))) /\ (UNCHANGED chainVars \/ effect)
    BY <1>1, Zenon DEF instantiate_external_processor, broadcast_tx
  <2>2. Moved(next, run[m], "add_domain")
    BY RecordMoves, Zenon DEF Then
  <2>3. Advances(m, {"add_domain", "failed"})
    BY <2>1, <2>2, EitherAdvances, Zenon
  <2>4. addr[2] = id(m) /\ addr[3] # "account"
    BY Zenon DEF processorAt, get_address
  <2>5. UNCHANGED chainVars \/ Instantiates(m)
    <3>1. CASE effect
      BY <3>1, <2>4, Zenon DEF Instantiates
    <3> QED BY <2>1, <3>1, Zenon
  <2> QED BY <2>3, <2>5, StepFrom, Zenon DEF Building, Verified
<1>2. CASE add_external_domain(m)
  <2> DEFINE next == [Then(m, "authorization_bridge") EXCEPT !.retry = MaxRetry]
  <2>1. Goto(m, next) \/ Goto(m, Failed(m))
    BY <1>2, Zenon DEF add_external_domain, broadcast_tx
  <2>2. UNCHANGED chainVars \/ AddsDomain(m)
    BY <1>2, Zenon DEF add_external_domain, broadcast_tx, AddsDomain, ownsAuthorization
  <2>3. Moved(next, run[m], "authorization_bridge")
    BY RecordMoves, Zenon DEF Then
  <2>4. Advances(m, {"authorization_bridge", "failed"})
    BY <2>1, <2>3, EitherAdvances, Zenon
  <2> QED BY <2>2, <2>4, StepFrom, Zenon DEF Building, Verified
<1> QED BY <1>1, <1>2, Zenon

\* Waiting for a bridge account.
LEMMA RetryStep ==
  ASSUME NEW m \in DOMAIN run, IsRun(run[m]), NEW key, NEW next, NEW pc,
         Moved(next, run[m], pc), pc \in Building \ Verified, run[m].pc \in Building \ Verified,
         should_retry(m, key, next)
  PROVE  BuildingStep(m)
<1> DEFINE again == [run[m] EXCEPT !.retry = @ - 1]
<1>1. /\ UNCHANGED chainVars \/ AsksAgain
      /\ Goto(m, next) \/ Goto(m, again) \/ Goto(m, Failed(m))
  BY Zenon DEF should_retry, broadcast_tx, AsksAgain
<1>2. Moved(again, run[m], run[m].pc)
  BY RecordMoves, Zenon
<1>3. Advances(m, {pc, "failed"}) \/ Advances(m, {run[m].pc, "failed"})
  BY <1>1, <1>2, EitherAdvances, Zenon
<1> QED BY <1>1, <1>3, StepFrom, Zenon

\* The two bridge accounts of a domain.
LEMMA BridgeStep ==
  ASSUME NEW m \in DOMAIN run, IsRun(run[m]),
         instantiate_authorization_bridge_account(m) \/ instantiate_processor_bridge_account(m)
  PROVE  BuildingStep(m)
<1>1. CASE instantiate_authorization_bridge_account(m)
  <2> DEFINE next == [Then(m, "processor_bridge") EXCEPT !.retry = MaxRetry]
  <2>1. Moved(next, run[m], "processor_bridge")
    BY RecordMoves, Zenon DEF Then
  <2>2. run[m].pc = "authorization_bridge"
        /\ should_retry(m, <<id(m), run[m].dom, "authorization">>, next)
    BY <1>1, Zenon DEF instantiate_authorization_bridge_account, At
  <2> QED BY <2>1, <2>2, RetryStep, Zenon DEF Building, Verified
<1>2. CASE instantiate_processor_bridge_account(m)
  <2> DEFINE next == [Then(m, "domains") EXCEPT !.todo = @ \ {run[m].dom}, !.retry = 0, !.dom = Main]
  <2>1. Moved(next, run[m], "domains")
    BY RecordMoves, Zenon DEF Then
  <2>2. run[m].pc = "processor_bridge"
        /\ should_retry(m, <<id(m), run[m].dom, "processor">>, next)
    BY <1>2, Zenon DEF instantiate_processor_bridge_account, At
  <2> QED BY <2>1, <2>2, RetryStep, Zenon DEF Building, Verified
<1> QED BY <1>1, <1>2, ZenonT(40)

\* The steps that only go on, verification among them.
LEMMA OnwardStep ==
  ASSUME NEW m \in DOMAIN run, IsRun(run[m]),
         predictAddresses(m) \/ startAccounts(m) \/ verify_init_was_successful(m)
  PROVE  BuildingStep(m)
<1> DEFINE links == DOMAIN prog(m).links
           accounts == DOMAIN prog(m).accounts
<1>1. /\ Moved(ThenEach(m, "libraries", links), run[m], "libraries")
      /\ Moved(ThenEach(m, "accounts", accounts), run[m], "accounts")
      /\ Moved(Then(m, "add_authorizations"), run[m], "add_authorizations")
  BY RecordMoves, Zenon DEF Then, ThenEach
<1>2. CASE predictAddresses(m)
  <2>1. UNCHANGED chainVars /\ (Goto(m, ThenEach(m, "libraries", links)) \/ Goto(m, Failed(m)))
    BY <1>2, Zenon DEF predictAddresses
  <2>2. Advances(m, {"libraries", "failed"})
    BY <2>1, <1>1, EitherAdvances, Zenon
  <2> QED BY <2>1, <2>2, StepFrom, Zenon DEF Building, Verified
<1>3. CASE startAccounts(m)
  <2>1. UNCHANGED chainVars /\ Goto(m, ThenEach(m, "accounts", accounts))
    BY <1>3, Zenon DEF startAccounts
  <2>2. Advances(m, {"accounts", "failed"})
    BY <2>1, <1>1, EitherAdvances, Zenon
  <2> QED BY <2>1, <2>2, StepFrom, Zenon DEF Building, Verified
<1>4. CASE verify_init_was_successful(m) /\ verified(prog(m), id(m))
  <2>1. UNCHANGED chainVars /\ Goto(m, Then(m, "add_authorizations"))
    BY <1>4, Zenon DEF verify_init_was_successful
  <2>2. Advances(m, {"add_authorizations", "failed"})
    BY <2>1, <1>1, EitherAdvances, Zenon
  <2> QED BY <2>1, <2>2, <1>4, StepFrom, Zenon DEF Building
<1>5. CASE verify_init_was_successful(m) /\ ~ verified(prog(m), id(m))
  <2>1. UNCHANGED chainVars /\ Goto(m, Failed(m))
    BY <1>5, Zenon DEF verify_init_was_successful
  <2>2. Advances(m, {"accounts", "failed"})
    BY <2>1, <1>1, EitherAdvances, Zenon
  <2> QED BY <2>1, <2>2, StepFrom, Zenon DEF Building, Verified
<1> QED BY <1>2, <1>3, <1>4, <1>5, Zenon

\* Libraries and accounts.
LEMMA ContractStep ==
  ASSUME NEW m \in DOMAIN run, IsRun(run[m]), NEW x,
         instantiate_library(m, x) \/ instantiate_account(m, x)
  PROVE  BuildingStep(m)
<1> DEFINE next == [run[m] EXCEPT !.todo = @ \ {x}]
<1>1. Moved(next, run[m], run[m].pc)
  BY RecordMoves, Zenon
<1>2. CASE instantiate_library(m, x)
  <2> DEFINE i == prog(m).links[x].library
             addr == libraryAt(prog(m), id(m), i)
             holds == replace_config(prog(m), id(m), i)
  <2>1. /\ run[m].pc = "libraries"
        /\ Goto(m, next) \/ Goto(m, Failed(m))
        /\ UNCHANGED chainVars \/ (Fresh(addr) /\ instantiate2(addr, m, holds))
    BY <1>2, Zenon DEF instantiate_library, broadcast_tx, At
  <2>2. Advances(m, {"libraries", "failed"})
    BY <2>1, <1>1, EitherAdvances, Zenon
  <2>3. addr[2] = id(m) /\ addr[3] # "account"
    BY Zenon DEF libraryAt, get_address
  <2>4. UNCHANGED chainVars \/ Instantiates(m)
    <3>1. CASE Fresh(addr) /\ instantiate2(addr, m, holds)
      BY <3>1, <2>3, Zenon DEF instantiate2, Instantiates
    <3> QED BY <2>1, <3>1, Zenon
  <2> QED BY <2>2, <2>4, StepFrom, Zenon DEF Building, Verified
<1>3. CASE instantiate_account(m, x)
  <2> DEFINE addr == accountAt(prog(m), id(m), x)
             holds == approved_libraries(prog(m), id(m), x)
  <2>1. /\ run[m].pc = "accounts"
        /\ Goto(m, next) \/ Goto(m, Failed(m))
        /\ UNCHANGED chainVars \/ (Fresh(addr) /\ instantiate2(addr, m, holds))
    BY <1>3, Zenon DEF instantiate_account, broadcast_tx, At
  <2>2. Advances(m, {"accounts", "failed"})
    BY <2>1, <1>1, EitherAdvances, Zenon
  <2>3. addr[2] = id(m)
    BY Zenon DEF accountAt, get_address
  <2>4. UNCHANGED chainVars \/ Instantiates(m)
    <3>1. CASE Fresh(addr) /\ instantiate2(addr, m, holds)
      BY <3>1, <2>3, Zenon DEF instantiate2, Instantiates
    <3> QED BY <2>1, <3>1, Zenon
  <2> QED BY <2>2, <2>4, StepFrom, Zenon DEF Building, Verified
<1> QED BY <1>2, <1>3, Zenon

\* The authorizations, the owner and the admin of the authorization contract.
LEMMA AdministerStep ==
  ASSUME NEW m \in DOMAIN run, IsRun(run[m]),
         run[m].pc = "change_admin" => id(m) \in DOMAIN authorization,
         add_authorizations(m) \/ change_authorization_owner(m)
  PROVE  BuildingStep(m)
<1>1. \A pc : Moved(Then(m, pc), run[m], pc)
  BY RecordMoves, Zenon DEF Then
<1>2. CASE add_authorizations(m)
  <2> DEFINE pc == IF prog(m).owner = Wallet THEN "save" ELSE "change_owner"
  <2>1. /\ run[m].pc = "add_authorizations"
        /\ Goto(m, Then(m, pc)) \/ Goto(m, Failed(m))
    BY <1>2, Zenon DEF add_authorizations, broadcast_tx, At
  <2>2. UNCHANGED chainVars \/ Administers(m)
    BY <1>2, Zenon DEF add_authorizations, broadcast_tx, Administers, ownsAuthorization
  <2>3. Moved(Then(m, pc), run[m], pc) /\ pc \in Building
    BY <1>1, Zenon DEF Building
  <2>4. Advances(m, {pc, "failed"})
    BY <2>1, <2>3, EitherAdvances, Zenon
  <2> HIDE DEF pc
  <2> QED BY <2>1, <2>2, <2>3, <2>4, StepFrom, Zenon DEF Verified
<1>3. CASE At(m, "change_owner") /\ change_authorization_owner(m)
  <2>1. /\ run[m].pc = "change_owner"
        /\ Goto(m, Then(m, "change_admin")) \/ Goto(m, Failed(m))
    BY <1>3, Zenon DEF change_authorization_owner, broadcast_tx, At
  <2>2. UNCHANGED chainVars \/ Administers(m)
    BY <1>3, Zenon DEF change_authorization_owner, broadcast_tx, Administers, ownsAuthorization, At
  <2>3. Advances(m, {"change_admin", "failed"})
    BY <2>1, <1>1, EitherAdvances, Zenon
  <2> QED BY <2>1, <2>2, <2>3, StepFrom, Zenon DEF Building, Verified
<1>4. CASE At(m, "change_admin") /\ change_authorization_owner(m)
  <2>1. /\ run[m].pc = "change_admin"
        /\ Goto(m, Then(m, "save")) \/ Goto(m, Failed(m))
    BY <1>4, Zenon DEF change_authorization_owner, broadcast_tx, At
  <2>2. UNCHANGED chainVars \/ Administers(m)
    BY <1>4, Zenon DEF change_authorization_owner, broadcast_tx, Administers, At
  <2>3. Advances(m, {"save", "failed"})
    BY <2>1, <1>1, EitherAdvances, Zenon
  <2> QED BY <2>1, <2>2, <2>3, StepFrom, Zenon DEF Building, Verified
<1> QED BY <1>2, <1>3, <1>4, Zenon DEF change_authorization_owner

\* Whatever a building step does, it is under the id of its run.
LEMMA StepsBuildUnderTheirId ==
  ASSUME NEW m, BuildingStep(m)
  PROVE  BuildsUnderItsId(m)
<1>1. CASE UNCHANGED chainVars
  BY <1>1, RestsBuilding, Zenon
<1>2. CASE Instantiates(m)
  BY <1>2, InstantiatesBuilding, Zenon DEF Instantiates
<1>3. CASE Authorizes(m) \/ AddsDomain(m) \/ AsksAgain \/ Administers(m)
  <2>1. last_id' = last_id /\ programs' = programs /\ contracts' = contracts
    BY <1>3, Zenon DEF Authorizes, AddsDomain, AsksAgain, Administers, registryVars
  <2>2. DOMAIN authorization' \subseteq DOMAIN authorization \cup {id(m)}
    BY <1>3, Zenon DEF Authorizes, AddsDomain, AsksAgain, Administers, Saved
  <2> QED BY <2>1, <2>2, Zenon DEF BuildsUnderItsId
<1> QED BY <1>1, <1>2, <1>3, Zenon DEF BuildingStep

-----------------------------------------------------------------------------
(* What was built stays.                                                   *)

ContractsKept ==
  /\ DOMAIN contracts \subseteq DOMAIN contracts'
  /\ \A addr \in DOMAIN contracts : contracts'[addr] = contracts[addr]
BridgesKept ==
  \A key \in DOMAIN bridge : bridge[key] = "Created" => key \in DOMAIN bridge' /\ bridge'[key] = "Created"

\* Contracts stay what they are and bridge accounts created; the authorization contract
\* leaves the wallet only for a verified run.
ChainGrows(m) ==
  /\ programs' = programs
  /\ ContractsKept /\ BridgesKept
  /\ DOMAIN authorization \subseteq DOMAIN authorization'
  /\ \A i \in DOMAIN authorization' :
       /\ IsContract(authorization'[i])
       /\ authorization'[i].owner # Wallet =>
            \/ i \in DOMAIN authorization /\ authorization[i].owner # Wallet
            \/ i = id(m) /\ m \in DOMAIN run /\ run[m].pc \in Verified
  /\ Bridges'

\* A whole program stays whole.
LEMMA WholeStays ==
  ASSUME NEW n, Whole(prog(n), id(n)), ContractsKept, BridgesKept,
         run'[n].prog = run[n].prog, run'[n].id = run[n].id
  PROVE  Whole(prog(n), id(n))'
<1> DEFINE p == prog(n)
           i == id(n)
<1>1. p' = p /\ i' = i
  BY Zenon DEF prog, id
<1>2. accounts_up(p, i)' /\ libraries_up(p, i)' /\ processors_up(p, i)'
  BY <1>1, Zenon DEF Whole, accounts_up, libraries_up, processors_up, Fresh, ContractsKept
<1>3. bridges_up(p, i)'
  BY <1>1, Zenon DEF Whole, bridges_up, BridgesKept
<1>4. \A a \in DOMAIN p.accounts :
        contracts'[accountAt(p, i, a)] = contracts[accountAt(p, i, a)]
  BY Zenon DEF Whole, accounts_up, Fresh, ContractsKept
<1>5. linksAreApprovals(p, i)'
  BY <1>1, <1>4 DEF Whole, linksAreApprovals
<1> QED BY <1>2, <1>3, <1>5, Zenon DEF Whole

\* A new contract, with the bridge account it asks for.
LEMMA InstantiatesGrows ==
  ASSUME NEW m, WholeInv, Instantiates(m)
  PROVE  ChainGrows(m)
<1>1. PICK addr, holds :
        /\ Fresh(addr)
        /\ contracts' = Saved(contracts, addr, [by |-> m, holds |-> holds])
        /\ UNCHANGED <<registryVars, authorization>>
        /\ \/ bridge' = bridge
           \/ \E d : /\ addr = processorAt(d, id(m))
                     /\ bridge' = Saved(bridge, <<id(m), d, "processor">>, "PendingResponse")
  BY Zenon DEF Instantiates
<1>2. programs' = programs /\ authorization' = authorization
  BY <1>1, Zenon DEF registryVars
<1>3. ContractsKept /\ addr \in DOMAIN contracts'
  BY <1>1, Zenon DEF ContractsKept, Saved, Fresh
<1>4. CASE bridge' = bridge
  <2>1. BridgesKept
    BY <1>4, Zenon DEF BridgesKept
  <2>2. Bridges'
    BY <1>2, <1>3, <1>4, Zenon DEF WholeInv, Bridges, ContractsKept, Fresh
  <2> QED BY <1>2, <1>3, <2>1, <2>2, Zenon DEF ChainGrows, WholeInv
<1>5. ASSUME NEW d, addr = processorAt(d, id(m)),
             bridge' = Saved(bridge, <<id(m), d, "processor">>, "PendingResponse")
      PROVE  ChainGrows(m)
  <2> DEFINE new == <<id(m), d, "processor">>
  <2>1. new[1] = id(m) /\ new[2] = d /\ new[3] = "processor"
    BY Zenon
  <2>2. new \notin DOMAIN bridge
    BY <1>1, <1>5, <2>1, Zenon DEF WholeInv, Bridges
  <2> HIDE DEF new
  <2>3. /\ DOMAIN bridge' = DOMAIN bridge \cup {new}
        /\ \A key \in DOMAIN bridge : bridge'[key] = bridge[key]
    BY <1>5, <2>2, Zenon DEF new, Saved
  <2>4. BridgesKept
    BY <2>3, Zenon DEF BridgesKept
  <2>5. Bridges'
    BY <1>2, <1>3, <1>5, <2>1, <2>3, Zenon DEF WholeInv, Bridges, ContractsKept, Fresh
  <2> QED BY <1>2, <1>3, <2>4, <2>5, ZenonT(40) DEF ChainGrows, WholeInv
<1> QED BY <1>1, <1>4, <1>5, Zenon

\* A new authorization contract.
LEMMA AuthorizesGrows ==
  ASSUME NEW m, WholeInv, Authorizes(m)
  PROVE  ChainGrows(m)
<1> DEFINE new == [owner |-> Wallet, admin |-> Wallet, labels |-> {}, domains |-> {}]
<1>1. programs' = programs /\ contracts' = contracts /\ bridge' = bridge
  BY Zenon DEF Authorizes, registryVars
<1>2. IsContract(new) /\ new.owner = Wallet
  BY Zenon DEF IsContract
<1> HIDE DEF new
<1>3. /\ DOMAIN authorization' = DOMAIN authorization \cup {id(m)}
      /\ id(m) \notin DOMAIN authorization
      /\ authorization'[id(m)] = new
      /\ \A i \in DOMAIN authorization : authorization'[i] = authorization[i]
  BY Zenon DEF Authorizes, Saved, new
<1>4. ContractsKept /\ BridgesKept
  BY <1>1, Zenon DEF ContractsKept, BridgesKept
<1>5. Bridges'
  BY <1>1, <1>3, Zenon DEF WholeInv, Bridges, Fresh
<1> QED BY <1>1, <1>2, <1>3, <1>4, <1>5, Zenon DEF ChainGrows, WholeInv

\* Another domain, with the bridge account asked for.
LEMMA AddsDomainGrows ==
  ASSUME NEW m, WholeInv, AddsDomain(m)
  PROVE  ChainGrows(m)
<1>1. PICK d :
        /\ id(m) \in DOMAIN authorization /\ d \notin authorization[id(m)].domains
        /\ authorization' = [authorization EXCEPT ![id(m)].domains = @ \cup {d}]
        /\ bridge' = Saved(bridge, <<id(m), d, "authorization">>, "PendingResponse")
        /\ UNCHANGED <<registryVars, contracts>>
  BY Zenon DEF AddsDomain
<1> DEFINE new == <<id(m), d, "authorization">>
<1>2. programs' = programs /\ contracts' = contracts
  BY <1>1, Zenon DEF registryVars
<1>3. new[1] = id(m) /\ new[2] = d /\ new[3] = "authorization"
  BY Zenon
<1>4. new \notin DOMAIN bridge
  BY <1>1, <1>3, Zenon DEF WholeInv, Bridges
<1> HIDE DEF new
<1>5. /\ DOMAIN bridge' = DOMAIN bridge \cup {new}
      /\ \A key \in DOMAIN bridge : bridge'[key] = bridge[key]
  BY <1>1, <1>4, Zenon DEF new, Saved
<1>6. ContractsKept /\ BridgesKept
  BY <1>2, <1>5, Zenon DEF ContractsKept, BridgesKept
<1>7. /\ DOMAIN authorization' = DOMAIN authorization
      /\ \A i \in DOMAIN authorization : i # id(m) => authorization'[i] = authorization[i]
      /\ authorization'[id(m)] = [authorization[id(m)] EXCEPT !.domains = @ \cup {d}]
  BY <1>1, Zenon
<1>8. /\ IsContract(authorization'[id(m)])
      /\ authorization'[id(m)].owner = authorization[id(m)].owner
      /\ authorization'[id(m)].domains = authorization[id(m)].domains \cup {d}
  BY <1>1, <1>7, ZenonT(40) DEF WholeInv, IsContract
<1>9. Bridges'
  BY <1>2, <1>3, <1>5, <1>7, <1>8, <1>1, ZenonT(40) DEF WholeInv, Bridges, Fresh
<1> QED BY <1>2, <1>6, <1>7, <1>8, <1>9, Zenon DEF ChainGrows, WholeInv

\* A bridge account asked for again, or an answer of the bridge.
LEMMA BridgeGrows ==
  ASSUME NEW m, WholeInv, NEW key \in DOMAIN bridge, bridge[key] # "Created", NEW answer,
         bridge' = [bridge EXCEPT ![key] = answer],
         UNCHANGED <<registryVars, contracts, authorization>>
  PROVE  ChainGrows(m)
<1>1. programs' = programs /\ contracts' = contracts /\ authorization' = authorization
  BY Zenon DEF registryVars
<1>2. ContractsKept /\ BridgesKept
  BY <1>1, Zenon DEF ContractsKept, BridgesKept
<1>3. Bridges'
  BY <1>1, Zenon DEF WholeInv, Bridges, Fresh
<1> QED BY <1>1, <1>2, <1>3, Zenon DEF ChainGrows, WholeInv

\* The authorization contract is administered.
LEMMA AdministersGrows ==
  ASSUME NEW m \in DOMAIN run, WholeInv, Administers(m)
  PROVE  ChainGrows(m)
<1>1. programs' = programs /\ contracts' = contracts /\ bridge' = bridge
  BY Zenon DEF Administers, registryVars
<1>2. PICK v : \/ authorization' = [authorization EXCEPT ![id(m)].labels = v]
               \/ authorization' = [authorization EXCEPT ![id(m)].admin = v]
               \/ /\ run[m].pc = "change_owner"
                  /\ authorization' = [authorization EXCEPT ![id(m)].owner = v]
  BY Zenon DEF Administers
<1> DEFINE a == authorization[id(m)]
<1>3. /\ id(m) \in DOMAIN authorization /\ IsContract(a)
      /\ DOMAIN authorization' = DOMAIN authorization
      /\ \A i \in DOMAIN authorization : i # id(m) => authorization'[i] = authorization[i]
      /\ \/ authorization'[id(m)] = [a EXCEPT !.labels = v]
         \/ authorization'[id(m)] = [a EXCEPT !.admin = v]
         \/ run[m].pc = "change_owner" /\ authorization'[id(m)] = [a EXCEPT !.owner = v]
  BY <1>2, Zenon DEF Administers, WholeInv
<1>4. /\ IsContract(authorization'[id(m)])
      /\ authorization'[id(m)].domains = a.domains
      /\ authorization'[id(m)].owner = a.owner \/ run[m].pc \in Verified
  BY <1>3, Zenon DEF IsContract, Verified
<1>5. ContractsKept /\ BridgesKept
  BY <1>1, Zenon DEF ContractsKept, BridgesKept
<1>6. Bridges'
  BY <1>1, <1>3, <1>4, Zenon DEF WholeInv, Bridges, Fresh
<1> QED BY <1>1, <1>3, <1>4, <1>5, <1>6, Zenon DEF ChainGrows, WholeInv

\* Nothing on the chain changes.
LEMMA RestsGrows ==
  ASSUME NEW m, WholeInv, UNCHANGED <<programs, contracts, authorization, bridge>>
  PROVE  ChainGrows(m)
<1>1. programs' = programs /\ contracts' = contracts /\ authorization' = authorization /\ bridge' = bridge
  BY Zenon
<1>2. ContractsKept /\ BridgesKept /\ Bridges'
  BY <1>1, Zenon DEF ContractsKept, BridgesKept, WholeInv, Bridges, Fresh
<1> QED BY <1>1, <1>2, Zenon DEF ChainGrows, WholeInv

\* Whatever a building step does, what was built stays.
LEMMA StepsGrow ==
  ASSUME NEW m \in DOMAIN run, WholeInv, BuildingStep(m)
  PROVE  ChainGrows(m)
<1>1. CASE UNCHANGED chainVars
  BY <1>1, RestsGrows, Zenon DEF chainVars, registryVars
<1>2. CASE AsksAgain
  BY <1>2, BridgeGrows, ZenonT(40) DEF AsksAgain
<1> QED BY <1>1, <1>2, InstantiatesGrows, AuthorizesGrows, AddsDomainGrows, AdministersGrows, Zenon
       DEF BuildingStep

\* The accounts of an id only trust what their links say.
LEMMA ApprovedAccounts ==
  ASSUME NEW p, NEW i, accounts_up(p, i),
         \A a \in DOMAIN p.accounts :
           contracts[accountAt(p, i, a)].holds = approved_libraries(p, i, a)
  PROVE  linksAreApprovals(p, i)
<1> SUFFICES ASSUME NEW a \in DOMAIN p.accounts, NEW k \in DOMAIN p.libraries
             PROVE  libraryAt(p, i, k) \in approved_libraries(p, i, a)
                      <=> \E l \in DOMAIN p.links : p.links[l].library = k /\ a \in p.links[l].inputs
  BY ZenonT(40) DEF linksAreApprovals
<1>1. \A j : libraryAt(p, i, j) = libraryAt(p, i, k) => j = k
  BY Zenon DEF libraryAt, get_address
<1>2. libraryAt(p, i, k) \in approved_libraries(p, i, a)
        <=> \E l \in DOMAIN p.links :
              a \in p.links[l].inputs /\ libraryAt(p, i, k) = libraryAt(p, i, p.links[l].library)
  BY Zenon DEF approved_libraries
<1> QED BY <1>1, <1>2, Zenon

\* A step of run m keeps the programs of the others.
LEMMA StepsKeepApprovals ==
  ASSUME NEW m, WholeInv, BuildingStep(m), run[m].pc \in Building
  PROVE  Approvals'
<1>1. /\ m \in DOMAIN run /\ DOMAIN run' = DOMAIN run
      /\ \A n \in DOMAIN run : run'[n].id = run[n].id /\ run'[n].prog = run[n].prog
  BY Zenon DEF BuildingStep, Advances, Moved
<1>2. \A n \in DOMAIN run : n # m => id(n) # id(m)
  BY <1>1, Zenon DEF WholeInv, ApartInv, Numbered, RunsBuildApart, Building, Unnumbered, id
<1>3. CASE contracts' = contracts
  BY <1>1, <1>3, Zenon DEF WholeInv, Approvals, prog, id
<1>4. CASE Instantiates(m)
  <2>1. PICK addr, holds :
          /\ Fresh(addr) /\ addr[2] = id(m)
          /\ contracts' = Saved(contracts, addr, [by |-> m, holds |-> holds])
          /\ \/ addr[3] # "account"
             \/ \E a : /\ addr = accountAt(prog(m), id(m), a)
                       /\ holds = approved_libraries(prog(m), id(m), a)
    BY <1>4, Zenon DEF Instantiates
  <2>2. /\ DOMAIN contracts' = DOMAIN contracts \cup {addr}
        /\ contracts'[addr].holds = holds
        /\ \A x \in DOMAIN contracts : contracts'[x] = contracts[x]
    BY <2>1, Zenon DEF Saved, Fresh
  <2>3. ASSUME NEW n \in DOMAIN run, NEW a \in DOMAIN prog(n).accounts,
               accountAt(prog(n), id(n), a) = addr
        PROVE  holds = approved_libraries(prog(n), id(n), a)
    <3>1. addr[2] = id(n) /\ addr[3] = "account" /\ addr[4] = a
      BY <2>3, Zenon DEF accountAt, get_address
    <3>2. n = m
      BY <3>1, <2>1, <1>2, ZenonT(40)
    <3>3. PICK b : /\ addr = accountAt(prog(m), id(m), b)
                   /\ holds = approved_libraries(prog(m), id(m), b)
      BY <2>1, <3>1, Zenon
    <3>4. b = a
      BY <3>1, <3>3, Zenon DEF accountAt, get_address
    <3> QED BY <3>2, <3>3, <3>4, Zenon
  <2>4. ASSUME NEW n \in DOMAIN run, NEW a \in DOMAIN prog(n).accounts,
               accountAt(prog(n), id(n), a) \in DOMAIN contracts'
        PROVE  contracts'[accountAt(prog(n), id(n), a)].holds = approved_libraries(prog(n), id(n), a)
    <3>1. CASE accountAt(prog(n), id(n), a) \in DOMAIN contracts
      BY <3>1, <2>2, <2>4, Zenon DEF WholeInv, Approvals
    <3>2. CASE accountAt(prog(n), id(n), a) = addr
      BY <3>2, <2>2, <2>3, <2>4, Zenon
    <3> QED BY <3>1, <3>2, <2>2, <2>4, Zenon
  <2> QED BY <1>1, <2>4, Zenon DEF Approvals, prog, id
<1>5. contracts' = contracts \/ Instantiates(m)
  BY ZenonT(40) DEF BuildingStep, Authorizes, AddsDomain, AsksAgain, Administers, chainVars
<1> QED BY <1>3, <1>4, <1>5, Zenon

-----------------------------------------------------------------------------
(* The invariant is kept.                                                  *)

\* Runs that hold ids under which what was whole stays so.
LEMMA StaysWhole ==
  ASSUME WholeInv, NEW m, ChainGrows(m),
         DOMAIN run' = DOMAIN run,
         \A n \in DOMAIN run : run'[n].id = run[n].id /\ run'[n].prog = run[n].prog,
         \A n \in DOMAIN run : n # m => run'[n] = run[n],
         m \in DOMAIN run /\ run'[m].pc \in Verified =>
           run[m].pc \in Verified \/ (id(m) \in DOMAIN authorization /\ Whole(prog(m), id(m)))
  PROVE  /\ \A n \in DOMAIN run' : run'[n].pc \in Verified =>
              run'[n].id \in DOMAIN authorization' /\ Whole(prog(n), id(n))'
         /\ OnlyWholePrograms'
<1>1. ContractsKept /\ BridgesKept
  BY Zenon DEF ChainGrows
<1>2. ASSUME NEW n \in DOMAIN run, Whole(prog(n), id(n))
      PROVE  Whole(prog(n), id(n))'
  BY <1>1, <1>2, WholeStays, Zenon
<1>3. ASSUME NEW n \in DOMAIN run, run'[n].pc \in Verified
      PROVE  id(n) \in DOMAIN authorization /\ Whole(prog(n), id(n))
  BY <1>3, Zenon DEF WholeInv
<1>4. ASSUME NEW n \in DOMAIN run,
             id(n) \in DOMAIN programs'
               \/ (id(n) \in DOMAIN authorization' /\ authorization'[id(n)].owner # Wallet)
      PROVE  Whole(prog(n), id(n))
  <2>1. CASE id(n) \in DOMAIN programs
               \/ (id(n) \in DOMAIN authorization /\ authorization[id(n)].owner # Wallet)
    BY <2>1, ZenonT(40) DEF WholeInv, OnlyWholePrograms, Whole
  <2>2. CASE id(n) = id(m) /\ m \in DOMAIN run /\ run[m].pc \in Verified
    <3>1. m \in DOMAIN run /\ id(m) # 0
      BY <2>2, Zenon DEF WholeInv, ApartInv, Numbered, Verified, Unnumbered
    <3>2. n = m
      BY <3>1, <2>2, Zenon DEF WholeInv, ApartInv, RunsBuildApart
    <3> QED BY <3>1, <3>2, <2>2, Zenon DEF WholeInv
  <2> QED BY <2>1, <2>2, <1>4, Zenon DEF ChainGrows
<1>5. \A n \in DOMAIN run' : run'[n].pc \in Verified =>
        run'[n].id \in DOMAIN authorization' /\ Whole(prog(n), id(n))'
  BY <1>2, <1>3, Zenon DEF ChainGrows, id
<1>6. \A n \in DOMAIN run' :
        (run'[n].id \in DOMAIN programs'
           \/ (run'[n].id \in DOMAIN authorization' /\ authorization'[run'[n].id].owner # Wallet)) =>
          Whole(prog(n), id(n))'
  BY <1>2, <1>4, Zenon DEF id
<1>7. OnlyWholePrograms'
  BY <1>6, Zenon DEF OnlyWholePrograms, Whole, id, prog
<1> QED BY <1>5, <1>7, Zenon

\* The steps of building runs.
LEMMA BuildingKeeps ==
  ASSUME NEW m, WholeInv, BuildingStep(m), run[m].pc \in Building
  PROVE  WholeInv'
<1>1. ApartInv'
  BY StepsBuildUnderTheirId, BuildingApart, Zenon DEF WholeInv, BuildingStep
<1>2. ChainGrows(m)
  BY StepsGrow, Zenon DEF BuildingStep, Advances
<1>3. Approvals'
  BY StepsKeepApprovals, Zenon
<1>4. /\ m \in DOMAIN run /\ DOMAIN run' = DOMAIN run
      /\ \A n \in DOMAIN run : run'[n].id = run[n].id /\ run'[n].prog = run[n].prog
      /\ \A n \in DOMAIN run : n # m => run'[n] = run[n]
  BY Zenon DEF BuildingStep, Advances, Moved
<1>5. verified(prog(m), id(m)) => id(m) \in DOMAIN authorization /\ Whole(prog(m), id(m))
  <2> SUFFICES ASSUME verified(prog(m), id(m))
               PROVE  id(m) \in DOMAIN authorization /\ Whole(prog(m), id(m))
    BY Zenon
  <2>1. \A a \in DOMAIN prog(m).accounts :
          contracts[accountAt(prog(m), id(m), a)].holds = approved_libraries(prog(m), id(m), a)
    BY <1>4, Zenon DEF verified, accounts_up, Fresh, WholeInv, Approvals
  <2>2. linksAreApprovals(prog(m), id(m))
    BY <2>1, ApprovedAccounts, ZenonT(40) DEF verified
  <2> QED BY <2>2, Zenon DEF verified, Whole
<1>6. /\ \A n \in DOMAIN run' : run'[n].pc \in Verified =>
           run'[n].id \in DOMAIN authorization' /\ Whole(prog(n), id(n))'
      /\ OnlyWholePrograms'
  BY <1>2, <1>4, <1>5, StaysWhole, ZenonT(40) DEF BuildingStep
<1>7. Bridges' /\ \A i \in DOMAIN authorization' : IsContract(authorization'[i])
  BY <1>2, Zenon DEF ChainGrows
<1> QED BY <1>1, <1>3, <1>6, <1>7, Zenon DEF WholeInv, id, prog

\* Steps of the bridge, and of a run before it has an id.
LEMMA ElsewhereKeeps ==
  ASSUME NEW m, WholeInv, ChainGrows(m), UNCHANGED <<last_id, contracts, authorization>>,
         DOMAIN run' = DOMAIN run,
         \A n \in DOMAIN run : n # m => run'[n] = run[n],
         m \in DOMAIN run => \/ run'[m] = run[m]
                             \/ /\ run[m].pc \in Unnumbered
                                /\ \E pc \in {"reserve", "failed"} : Moved(run'[m], run[m], pc)
  PROVE  WholeInv'
<1>1. /\ last_id' = last_id /\ contracts' = contracts /\ authorization' = authorization
      /\ programs' = programs
  BY Zenon DEF ChainGrows
<1>2. \A n \in DOMAIN run :
        /\ run'[n].id = run[n].id /\ run'[n].prog = run[n].prog /\ IsRun(run'[n])
        /\ run'[n] = run[n] \/ (run[n].id = 0 /\ run'[n].pc \in {"reserve", "failed"})
  BY ZenonT(40) DEF Moved, WholeInv, ApartInv, Numbered, id
<1>3. Numbered'
  BY <1>1, <1>2 DEF WholeInv, ApartInv, Numbered, id, Unnumbered
<1>4. RunsBuildApart'
  BY <1>1, <1>2 DEF WholeInv, ApartInv, Numbered, RunsBuildApart, id
<1>5. Approvals'
  BY <1>1, <1>2, ZenonT(40) DEF WholeInv, Approvals, id, prog
<1>6. /\ \A n \in DOMAIN run' : run'[n].pc \in Verified =>
           run'[n].id \in DOMAIN authorization' /\ Whole(prog(n), id(n))'
      /\ OnlyWholePrograms'
  BY <1>2, StaysWhole, Zenon DEF Verified
<1> QED BY <1>3, <1>4, <1>5, <1>6, Zenon DEF WholeInv, ApartInv, ChainGrows, id, prog

\* The run reserves an id, or only the registry notices.
LEMMA ReserveKeeps ==
  ASSUME NEW m \in DOMAIN run, WholeInv, reserve_program_id(m)
  PROVE  WholeInv'
<1> DEFINE next == [Then(m, "authorization") EXCEPT !.id = last_id']
<1>1. /\ programs' = programs /\ contracts' = contracts /\ authorization' = authorization /\ bridge' = bridge
      /\ run[m].pc = "reserve"
  BY Zenon DEF reserve_program_id, reserve_id, registryVars, At
<1>2. \/ last_id' = last_id + 1 /\ Goto(m, next)
      \/ (last_id' = last_id + 1 \/ last_id' = last_id) /\ Goto(m, Failed(m))
  BY Zenon DEF reserve_program_id, reserve_id, registryVars
<1>3. ChainGrows(m)
  BY <1>1, RestsGrows, Zenon
<1>4. last_id \in Nat /\ IsRun(run[m]) /\ id(m) = 0
  BY <1>1, Zenon DEF WholeInv, ApartInv, Numbered, Unnumbered
<1>5. CASE last_id' = last_id + 1 /\ Goto(m, next)
  <2>1. /\ IsRun(next) /\ next.prog = run[m].prog /\ next.id = last_id' /\ next.pc = "authorization"
    <3>1. next = WithId(run[m], "authorization", last_id')
      BY Zenon DEF Then, WithId
    <3> HIDE DEF next
    <3> QED BY <3>1, <1>4, RecordNumbered DEF NumberedAs
  <2> HIDE DEF next
  <2>2. /\ DOMAIN run' = DOMAIN run
        /\ \A n \in DOMAIN run : n # m => run'[n] = run[n]
        /\ IsRun(run'[m]) /\ run'[m].prog = run[m].prog /\ run'[m].id = last_id + 1
        /\ run'[m].pc = "authorization"
    BY <2>1, <1>5, Zenon DEF Goto
  <2>3. \A addr \in DOMAIN contracts : contracts[addr].by # m /\ addr[2] # last_id + 1
    BY <1>4 DEF WholeInv, ApartInv, Numbered, RunsBuildApart
  <2>4. Numbered'
    <3>1. \A n \in DOMAIN run' :
            /\ IsRun(run'[n]) /\ run'[n].id \in 0 .. last_id'
            /\ run'[n].pc \in Unnumbered => run'[n].id = 0
            /\ run'[n].pc \notin Unnumbered \cup {"failed"} => run'[n].id # 0
      BY <1>4, <1>5, <2>2 DEF WholeInv, ApartInv, Numbered, id, Unnumbered
    <3>2. \A addr \in DOMAIN contracts' :
            contracts'[addr].by \in DOMAIN run' /\ run'[contracts'[addr].by].id # 0
      BY <1>1, <2>2, <2>3, Zenon DEF WholeInv, ApartInv, Numbered, id
    <3>3. /\ last_id' \in Nat /\ DOMAIN programs' \subseteq 1 .. last_id'
          /\ DOMAIN authorization' \subseteq 1 .. last_id'
      BY <1>1, <1>4, <1>5, SMTT(30) DEF WholeInv, ApartInv, Numbered
    <3> QED BY <3>1, <3>2, <3>3, Zenon DEF Numbered, id
  <2>5. RunsBuildApart'
    BY <1>1, <1>4, <1>5, <2>2, <2>3 DEF WholeInv, ApartInv, Numbered, RunsBuildApart, id
  <2>6. \A a : accountAt(prog(m), last_id + 1, a) \notin DOMAIN contracts
    BY <2>3, Zenon DEF accountAt, get_address
  <2>7. Approvals'
    BY <1>1, <2>2, <2>6 DEF WholeInv, Approvals, id, prog
  <2>8. last_id + 1 \notin DOMAIN programs /\ last_id + 1 \notin DOMAIN authorization
    BY <1>4 DEF WholeInv, ApartInv, Numbered
  <2>9. ASSUME NEW n \in DOMAIN run, n # m, Whole(prog(n), id(n))
        PROVE  Whole(prog(n), id(n))'
    BY <2>2, <2>9, <1>3, WholeStays, Zenon DEF ChainGrows
  <2>10. \A n \in DOMAIN run' : run'[n].pc \in Verified =>
           run'[n].id \in DOMAIN authorization' /\ Whole(prog(n), id(n))'
    BY <1>1, <2>2, <2>9, Zenon DEF WholeInv, Verified, id
  <2>11. \A n \in DOMAIN run' :
           (id(n)' \in DOMAIN programs'
              \/ (id(n)' \in DOMAIN authorization' /\ authorization'[id(n)'].owner # Wallet)) =>
             Whole(prog(n), id(n))'
    BY <1>1, <2>2, <2>8, <2>9, ZenonT(40) DEF WholeInv, OnlyWholePrograms, Whole, id
  <2>12. OnlyWholePrograms'
    BY <2>11, Zenon DEF OnlyWholePrograms, Whole
  <2> QED BY <1>3, <2>4, <2>5, <2>7, <2>10, <2>12, ZenonT(40) DEF WholeInv, ApartInv, ChainGrows, id, prog
<1>6. CASE (last_id' = last_id + 1 \/ last_id' = last_id) /\ Goto(m, Failed(m))
  <2>1. Advances(m, {"failed"})
    BY <1>4, <1>6, FailedAdvances, Zenon
  <2>2. /\ DOMAIN run' = DOMAIN run
        /\ \A n \in DOMAIN run : n # m => run'[n] = run[n]
        /\ \A n \in DOMAIN run : run'[n].id = run[n].id /\ run'[n].prog = run[n].prog /\ IsRun(run'[n])
        /\ run'[m].pc = "failed" /\ run[m].id = 0
    BY <2>1, <1>4, ZenonT(40) DEF Advances, Moved, WholeInv, ApartInv, Numbered, id
  <2>3. Numbered'
    BY <1>1, <1>4, <1>6, <2>2, SMTT(30) DEF WholeInv, ApartInv, Numbered, id, Unnumbered
  <2>4. RunsBuildApart'
    BY <1>1, <2>2 DEF WholeInv, ApartInv, Numbered, RunsBuildApart, id
  <2>5. Approvals'
    BY <1>1, <2>2 DEF WholeInv, Approvals, id, prog
  <2>6. /\ \A n \in DOMAIN run' : run'[n].pc \in Verified =>
             run'[n].id \in DOMAIN authorization' /\ Whole(prog(n), id(n))'
        /\ OnlyWholePrograms'
    BY <1>3, <2>2, StaysWhole, Zenon DEF Verified
  <2> QED BY <1>3, <2>3, <2>4, <2>5, <2>6, Zenon DEF WholeInv, ApartInv, ChainGrows, id, prog
<1> QED BY <1>2, <1>5, <1>6, Zenon

\* The registry has the configuration, or the run thinks so, or it fails.
LEMMA SaveKeeps ==
  ASSUME NEW m \in DOMAIN run, WholeInv, save_program_config(m)
  PROVE  WholeInv'
<1>1. /\ contracts' = contracts /\ authorization' = authorization /\ bridge' = bridge
      /\ last_id' = last_id
      /\ DOMAIN programs' \subseteq DOMAIN programs \cup {id(m)}
      /\ run[m].pc = "save" /\ (Goto(m, Then(m, "done")) \/ Goto(m, Failed(m)))
  BY Zenon DEF save_program_config, broadcast_tx, save_program, chainVars, registryVars, At, Saved
<1>2. IsRun(run[m]) /\ id(m) # 0 /\ id(m) \in 0 .. last_id /\ Whole(prog(m), id(m))
  BY <1>1, Zenon DEF WholeInv, ApartInv, Numbered, Unnumbered, Verified
<1>3. Moved(Then(m, "done"), run[m], "done")
  BY <1>2, RecordMoves, ZenonT(40) DEF Then
<1>4. Advances(m, {"done", "failed"})
  BY <1>1, <1>2, <1>3, EitherAdvances, ZenonT(40)
<1>5. /\ DOMAIN run' = DOMAIN run
      /\ \A n \in DOMAIN run : n # m => run'[n] = run[n]
      /\ \A n \in DOMAIN run : run'[n].id = run[n].id /\ run'[n].prog = run[n].prog /\ IsRun(run'[n])
      /\ run'[m].pc \in {"done", "failed"}
  BY <1>4, Zenon DEF Advances, Moved, WholeInv, ApartInv, Numbered
<1>6. \A n \in DOMAIN run : id(n) = id(m) => n = m
  BY <1>2, Zenon DEF WholeInv, ApartInv, RunsBuildApart
<1>7. Numbered'
  <2>1. \A n \in DOMAIN run' :
          /\ IsRun(run'[n]) /\ run'[n].id \in 0 .. last_id'
          /\ run'[n].pc \in Unnumbered => run'[n].id = 0
          /\ run'[n].pc \notin Unnumbered \cup {"failed"} => run'[n].id # 0
    BY <1>1, <1>2, <1>5, ZenonT(40) DEF WholeInv, ApartInv, Numbered, id, Unnumbered
  <2>2. \A addr \in DOMAIN contracts' :
          contracts'[addr].by \in DOMAIN run' /\ run'[contracts'[addr].by].id # 0
    BY <1>1, <1>5, ZenonT(40) DEF WholeInv, ApartInv, Numbered, id
  <2>3. /\ last_id' \in Nat /\ DOMAIN programs' \subseteq 1 .. last_id'
        /\ DOMAIN authorization' \subseteq 1 .. last_id'
    BY <1>1, <1>2 DEF WholeInv, ApartInv, Numbered
  <2> QED BY <2>1, <2>2, <2>3, ZenonT(40) DEF Numbered, id
<1>8. RunsBuildApart'
  <2>1. \A n \in DOMAIN run' : run'[n].id \in DOMAIN programs' => run'[n].pc \in {"done", "failed"}
    BY <1>1, <1>5, <1>6, Zenon DEF WholeInv, ApartInv, RunsBuildApart, id
  <2>2. \A n, k \in DOMAIN run' : n # k /\ run'[n].id # 0 => run'[n].id # run'[k].id
    BY <1>5 DEF WholeInv, ApartInv, RunsBuildApart, id
  <2>3. \A addr \in DOMAIN contracts' : run'[contracts'[addr].by].id = addr[2]
    BY <1>1, <1>5, ZenonT(40) DEF WholeInv, ApartInv, Numbered, RunsBuildApart, id
  <2> QED BY <2>1, <2>2, <2>3, Zenon DEF RunsBuildApart, id
<1>9. Approvals'
  <2>1. \A n \in DOMAIN run' : n \in DOMAIN run /\ run'[n].prog = run[n].prog /\ run'[n].id = run[n].id
    BY <1>5, Zenon
  <2> QED BY <1>1, <2>1, ZenonT(40) DEF WholeInv, Approvals, id, prog
<1>10. ContractsKept /\ BridgesKept
  BY <1>1, Zenon DEF ContractsKept, BridgesKept
<1>11. ASSUME NEW n \in DOMAIN run, Whole(prog(n), id(n))
       PROVE  Whole(prog(n), id(n))'
  BY <1>5, <1>10, <1>11, WholeStays, ZenonT(40)
<1>12. \A n \in DOMAIN run' : run'[n].pc \in Verified =>
         run'[n].id \in DOMAIN authorization' /\ Whole(prog(n), id(n))'
  <2>1. \A n \in DOMAIN run : run'[n].pc \in Verified => run[n].pc \in Verified
    BY <1>1, <1>5, Zenon DEF Verified
  <2> QED BY <2>1, <1>1, <1>5, <1>11, ZenonT(40) DEF WholeInv, id
<1>13. \A n \in DOMAIN run' :
         (id(n)' \in DOMAIN programs'
            \/ (id(n)' \in DOMAIN authorization' /\ authorization'[id(n)'].owner # Wallet)) =>
           Whole(prog(n), id(n))'
  BY <1>1, <1>2, <1>5, <1>6, <1>11, ZenonT(40) DEF WholeInv, OnlyWholePrograms, Whole, id
<1>14. OnlyWholePrograms'
  BY <1>13, ZenonT(40) DEF OnlyWholePrograms, Whole
<1>15. Bridges' /\ \A i \in DOMAIN authorization' : IsContract(authorization'[i])
  BY <1>1, ZenonT(40) DEF WholeInv, Bridges, Fresh
<1> QED BY <1>7, <1>8, <1>9, <1>12, <1>14, <1>15, ZenonT(40) DEF WholeInv, ApartInv, id, prog

\* Nothing is reserved or built.
LEMMA InitWhole == ManagerInit => WholeInv
<1> SUFFICES ASSUME ManagerInit PROVE WholeInv
  BY Zenon
<1>1. /\ last_id = 0 /\ programs = << >> /\ contracts = << >> /\ authorization = << >> /\ bridge = << >>
  BY Zenon DEF ManagerInit, RegistryInit
<1>2. DOMAIN << >> = {}
  OBVIOUS
<1>3. \A m \in DOMAIN run : IsRun(run[m]) /\ run[m].pc = "start" /\ run[m].id = 0
  BY DEF ManagerInit, IsRun, HasFields
<1>4. Numbered /\ RunsBuildApart
  BY <1>1, <1>2, <1>3 DEF Numbered, RunsBuildApart, id, Unnumbered
<1>5. Approvals /\ Bridges /\ OnlyWholePrograms
  BY <1>1, <1>2, <1>3, ZenonT(40) DEF Approvals, Bridges, OnlyWholePrograms, id
<1> QED BY <1>1, <1>2, <1>3, <1>4, <1>5, ZenonT(40) DEF WholeInv, ApartInv, Verified

\* Every step of a run.
LEMMA RunKeeps ==
  ASSUME NEW m, WholeInv, init(m)
  PROVE  WholeInv'
<1>1. m \in DOMAIN run /\ IsRun(run[m])
  <2>1. m \in DOMAIN run
    BY ZenonT(40) DEF init, At, verifyConfig, reserve_program_id, instantiate_authorization,
           instantiate_main_processor, add_external_domain, instantiate_authorization_bridge_account,
           instantiate_processor_bridge_account, predictAddresses, startAccounts,
           verify_init_was_successful, add_authorizations, change_authorization_owner,
           save_program_config
  <2> QED BY <2>1, Zenon DEF WholeInv, ApartInv, Numbered
<1>2. CASE verifyConfig(m)
  <2>1. /\ run[m].pc = "start"
        /\ UNCHANGED chainVars /\ (Goto(m, Then(m, "reserve")) \/ Goto(m, Failed(m)))
    BY <1>2, Zenon DEF verifyConfig, At
  <2>2. UNCHANGED <<programs, contracts, authorization, bridge>> /\ last_id' = last_id
    BY <2>1, Zenon DEF chainVars, registryVars
  <2>3. Moved(Then(m, "reserve"), run[m], "reserve")
    BY <1>1, RecordMoves, Zenon DEF Then
  <2>4. Advances(m, {"reserve", "failed"})
    BY <1>1, <2>1, <2>3, EitherAdvances, Zenon
  <2>5. ChainGrows(m)
    BY <2>2, RestsGrows, Zenon
  <2> QED BY <2>1, <2>2, <2>4, <2>5, ElsewhereKeeps, Zenon DEF Advances, Unnumbered
<1>3. CASE reserve_program_id(m)
  BY <1>1, <1>3, ReserveKeeps, Zenon
<1>4. CASE save_program_config(m)
  BY <1>1, <1>4, SaveKeeps, ZenonT(40)
<1>5. CASE instantiate_authorization(m) \/ instantiate_main_processor(m)
  BY <1>1, <1>5, FirstContractsStep, BuildingKeeps, Zenon
     DEF instantiate_authorization, instantiate_main_processor, At, Building
<1>6. CASE \/ \E d \in run[m].todo : instantiate_external_processor(m, d)
           \/ add_external_domain(m)
  BY <1>1, <1>6, DomainStep, BuildingKeeps, ZenonT(40)
     DEF instantiate_external_processor, add_external_domain, At, Building
<1>7. CASE instantiate_authorization_bridge_account(m) \/ instantiate_processor_bridge_account(m)
  BY <1>1, <1>7, BridgeStep, BuildingKeeps, Zenon
     DEF instantiate_authorization_bridge_account, instantiate_processor_bridge_account, At, Building
<1>8. CASE predictAddresses(m) \/ startAccounts(m) \/ verify_init_was_successful(m)
  BY <1>1, <1>8, OnwardStep, BuildingKeeps, Zenon
     DEF predictAddresses, startAccounts, verify_init_was_successful, At, Building
<1>9. CASE \/ \E l \in run[m].todo : instantiate_library(m, l)
           \/ \E a \in run[m].todo : instantiate_account(m, a)
  BY <1>1, <1>9, ContractStep, BuildingKeeps, Zenon DEF instantiate_library, instantiate_account, At, Building
<1>10. CASE add_authorizations(m) \/ change_authorization_owner(m)
  <2>1. run[m].pc \in Building
    BY <1>10, ZenonT(40) DEF add_authorizations, change_authorization_owner, At, Building
  <2>2. run[m].pc = "change_admin" => id(m) \in DOMAIN authorization
    BY <1>1, Zenon DEF WholeInv, Verified
  <2> QED BY <1>1, <1>10, <2>1, <2>2, AdministerStep, BuildingKeeps, Zenon
<1> QED BY <1>2, <1>3, <1>4, <1>5, <1>6, <1>7, <1>8, <1>9, <1>10, ZenonT(40) DEF init

\* Every step.
LEMMA NextWhole ==
  ASSUME WholeInv, [ManagerNext]_managerVars
  PROVE  WholeInv'
<1>1. CASE \E m \in Run : init(m)
  BY <1>1, RunKeeps, Zenon
<1>2. CASE \E key \in DOMAIN bridge : bridgeAnswers(key)
  <2>1. PICK key \in DOMAIN bridge : bridgeAnswers(key)
    BY <1>2, Zenon
  <2>2. PICK answer : /\ bridge[key] = "PendingResponse"
                      /\ bridge' = [bridge EXCEPT ![key] = answer]
    BY <2>1, Zenon DEF bridgeAnswers
  <2>3. UNCHANGED <<registryVars, contracts, authorization>> /\ run' = run /\ last_id' = last_id
    BY <2>1, Zenon DEF bridgeAnswers, registryVars
  <2>4. ChainGrows(key)
    BY <2>2, <2>3, BridgeGrows, Zenon
  <2> QED BY <2>3, <2>4, ElsewhereKeeps, Zenon
<1>3. CASE UNCHANGED managerVars
  <2>1. /\ UNCHANGED <<programs, contracts, authorization, bridge>> /\ last_id' = last_id
        /\ run' = run
    BY <1>3, Zenon DEF managerVars, chainVars, registryVars
  <2>2. ChainGrows(Wallet)
    BY <2>1, RestsGrows, Zenon
  <2> QED BY <2>1, <2>2, ElsewhereKeeps, Zenon
<1> QED BY <1>1, <1>2, <1>3, Zenon DEF ManagerNext

-----------------------------------------------------------------------------
\* Whatever is asked of however many runs, and whichever of their transactions fail,
\* revert or arrive late, two runs never build under one id, none under the id of a
\* saved program, and what stands under an id is of the run that reserved it.
THEOREM RunsStayApart == ManagerSpec => []RunsBuildApart
<1>1. WholeInv => RunsBuildApart
  BY Zenon DEF WholeInv, ApartInv
<1> QED BY <1>1, InitWhole, NextWhole, PTL DEF ManagerSpec

\* And a program that is in the registry, or whose authorization contract was handed
\* over, is up as a whole, its accounts trusting exactly the libraries of its links.
THEOREM ProgramsAreWhole == ManagerSpec => []OnlyWholePrograms
<1>1. WholeInv => OnlyWholePrograms
  BY Zenon DEF WholeInv
<1> QED BY <1>1, InitWhole, NextWhole, PTL DEF ManagerSpec

-----------------------------------------------------------------------------
(* Positions of concentrated liquidity.                                    *)

Position ==
  [owner : ClParty, range : Int \X Int, liquidity : Int,
   made : [output : ClParty, global : Int \X Int, tick : Int, buckets : Nat]]

ClConfig(cfg) ==
  /\ DOMAIN cfg = {"input_addr", "output_addr", "lp"}
  /\ cfg.output_addr \in ClParty /\ cfg.lp.global \in Int \X Int

ClTyped ==
  /\ tick \in Int
  /\ positions \in Seq(Position)
  /\ ClConfig(cl_lper)

\* What PositionsAsConfigured says of one position.
AsConfigured(p) ==
  /\ p.range[1] < p.range[2]
  /\ p.range[1] % Spacing = 0 /\ p.range[2] % Spacing = 0
  /\ p.made.global[1] <= p.range[1] /\ p.range[2] <= p.made.global[2]
  /\ p.owner = p.made.output
  /\ p.made.buckets # 0 =>
       /\ p.range[1] + p.made.buckets * Spacing <= p.made.tick
       /\ p.made.tick < p.range[2] - p.made.buckets * Spacing
       /\ p.range[2] - p.range[1] = Spacing + 2 * (p.made.buckets * Spacing)
       /\ isInt64(p.range[1]) /\ isInt64(p.range[2])

ClInv == ClTyped /\ \A i \in DOMAIN positions : AsConfigured(positions[i])

\* The invariant says what is promised.
LEMMA AllAsConfigured == ClInv => PositionsAsConfigured
  BY Zenon DEF ClInv, AsConfigured, PositionsAsConfigured

\* A multiple of the spacing, further multiples away, is one.
LEMMA Multiples ==
  ASSUME NEW k \in Int, NEW s \in Nat \ {0}
  PROVE  (k * s) % s = 0
<1>1. ASSUME NEW x \in Int
      PROVE  \E q \in Int, r \in 0 .. s - 1 : x = s * q + r /\ r = x % s
  <2>1. x % s \in 0 .. s - 1
    BY SMT
  <2>2. x \div s \in Int
    BY SMT
  <2>3. x = s * (x \div s) + (x % s)
    BY SMT
  <2> QED BY <2>1, <2>2, <2>3, Zenon
<1>2. PICK q \in Int, r \in 0 .. s - 1 : k * s = s * q + r /\ r = (k * s) % s
  <2>1. k * s \in Int
    OBVIOUS
  <2> QED BY <1>1, <2>1, Zenon
<1>3. r = s * (k - q)
  BY <1>2, SMT
<1>4. k - q = 0
  <2>1. CASE k - q >= 1
    <3>1. s * (k - q) >= s
      BY <2>1, SMT
    <3> QED BY <1>2, <1>3, <3>1
  <2>2. CASE k - q <= -1
    <3>1. s * (k - q) <= -s
      BY <2>2, SMT
    <3> QED BY <1>2, <1>3, <3>1
  <2> QED BY <1>2, <2>1, <2>2
<1> QED BY <1>2, <1>3, <1>4, SMT

\* The bucket of a tick holds it, whatever its sign, and starts and ends on the
\* pool's ticks; widening it keeps it in the middle.
LEMMA BucketHoldsTick ==
  ASSUME NEW t \in Int, NEW n \in Nat,
         NEW range, range = amplify_range_bidirectionally(activeBucket(t), n)
  PROVE  /\ range \in Int \X Int
         /\ range[1] % Spacing = 0 /\ range[2] % Spacing = 0
         /\ range[1] + n * Spacing <= t /\ t < range[2] - n * Spacing
         /\ range[2] - range[1] = Spacing + 2 * (n * Spacing)
         /\ range[1] < range[2]
<1>1. PICK q \in Int : q = t \div Spacing /\ q * Spacing <= t /\ t < q * Spacing + Spacing
  BY ClConstants, WholeMultiples, Zenon
<1>2. n * Spacing \in Nat /\ q * Spacing \in Int
  BY ClConstants, SMT
<1>3. range = <<q * Spacing - n * Spacing, q * Spacing + Spacing + n * Spacing>>
  <2>1. activeBucket(t) = <<q * Spacing, q * Spacing + Spacing>>
    BY <1>1, Zenon DEF activeBucket
  <2>2. (q * Spacing + Spacing) - q * Spacing = Spacing
    BY <1>2, ClConstants
  <2>3. Spacing * n = n * Spacing
    BY ClConstants, SMT
  <2> QED BY <2>1, <2>2, <2>3 DEF amplify_range_bidirectionally
<1>4. /\ range[1] = (q - n) * Spacing
      /\ range[2] = (q + 1 + n) * Spacing
  BY <1>2, <1>3, ClConstants, SMT
<1>5. range[1] % Spacing = 0 /\ range[2] % Spacing = 0
  BY <1>4, Multiples, ClConstants
<1>6. range[1] = q * Spacing - n * Spacing /\ range[2] = q * Spacing + Spacing + n * Spacing
  BY <1>3
<1>7. range \in Int \X Int
  BY <1>2, <1>3, ClConstants
<1> QED
  <2> DEFINE b == q * Spacing
             w == n * Spacing
  <2> HIDE DEF b, w
  <2>1. /\ b \in Int /\ w \in Nat /\ range[1] = b - w /\ range[2] = b + Spacing + w
        /\ b <= t /\ t < b + Spacing
    BY <1>1, <1>2, <1>6, Zenon DEF b, w
  <2>2. range[1] + w <= t /\ t < range[2] - w /\ range[2] - range[1] = Spacing + 2 * w /\ range[1] < range[2]
    BY <2>1, ClConstants
  <2> QED BY <1>5, <1>7, <2>2, Zenon DEF w

\* A position is opened as configured.
LEMMA OpenedAsConfigured ==
  ASSUME ClInv, NEW range \in Int \X Int, NEW n \in Nat, NEW used, createPosition(range, n, used),
         used \in Int,
         ensure_contains(cl_lper.lp.global, range),
         range[1] < range[2], range[1] % Spacing = 0, range[2] % Spacing = 0,
         n # 0 => /\ range[1] + n * Spacing <= tick /\ tick < range[2] - n * Spacing
                  /\ range[2] - range[1] = Spacing + 2 * (n * Spacing)
                  /\ isInt64(range[1]) /\ isInt64(range[2])
  PROVE  ClInv'
<1> DEFINE p == [owner |-> cl_lper.output_addr, range |-> range, liquidity |-> used,
                 made |-> [output |-> cl_lper.output_addr, global |-> cl_lper.lp.global,
                           tick |-> tick, buckets |-> n]]
<1>1. p \in Position
  BY Zenon DEF Position, ClInv, ClTyped, ClConfig
<1>2. AsConfigured(p)
  BY ZenonT(40) DEF AsConfigured, ensure_contains
<1>3. positions' = Append(positions, p) /\ tick' = tick /\ cl_lper' = cl_lper
  BY Zenon DEF createPosition
<1> HIDE DEF p
<1>4. positions' \in Seq(Position) /\ Len(positions') = Len(positions) + 1
  BY <1>1, <1>3 DEF ClInv, ClTyped
<1>5. \A i \in DOMAIN positions' : AsConfigured(positions'[i])
  <2> SUFFICES ASSUME NEW i \in 1 .. Len(positions) + 1 PROVE AsConfigured(positions'[i])
    BY <1>4
  <2>1. CASE i = Len(positions) + 1
    BY <1>1, <1>2, <1>3, <2>1 DEF ClInv, ClTyped
  <2>2. CASE i \in 1 .. Len(positions)
    <3>1. positions'[i] = positions[i] /\ i \in DOMAIN positions
      BY <1>1, <1>3, <2>2 DEF ClInv, ClTyped
    <3> QED BY <3>1, Zenon DEF ClInv
  <2> QED BY <2>1, <2>2 DEF ClInv, ClTyped
<1>6. \A i \in DOMAIN positions' : AsConfigured(positions[i])' <=> AsConfigured(positions'[i])
  BY ZenonT(40) DEF AsConfigured, isInt64
<1> QED BY <1>3, <1>4, <1>5, <1>6, Zenon DEF ClInv, ClTyped, ClConfig

\* provide_liquidity_custom checks what it is given.
LEMMA CustomClInv ==
  ASSUME ClInv, NEW range \in CustomRanges, NEW used \in Int, provide_liquidity_custom(range, used)
  PROVE  ClInv'
  BY ClConstants, OpenedAsConfigured, Zenon
     DEF provide_liquidity_custom, validate, ensure_pool_spacing_compatibility

\* provide_liquidity_default makes a range that needs no check.
LEMMA DefaultClInv ==
  ASSUME ClInv, NEW n \in BucketCounts, NEW used \in Int, provide_liquidity_default(n, used)
  PROVE  ClInv'
<1> DEFINE range == amplify_range_bidirectionally(activeBucket(tick), n)
<1>1. tick \in Int /\ n \in Nat
  BY ClConstants, Zenon DEF ClInv, ClTyped
<1>2. /\ range \in Int \X Int
      /\ range[1] % Spacing = 0 /\ range[2] % Spacing = 0
      /\ range[1] + n * Spacing <= tick /\ tick < range[2] - n * Spacing
      /\ range[2] - range[1] = Spacing + 2 * (n * Spacing)
      /\ range[1] < range[2]
  BY <1>1, BucketHoldsTick, Zenon
<1>3. isInt64(range[1]) /\ isInt64(range[2])
  BY Zenon DEF provide_liquidity_default, amplifies
<1>4. ensure_contains(cl_lper.lp.global, range) /\ createPosition(range, n, used)
  BY Zenon DEF provide_liquidity_default
<1> HIDE DEF range
<1> QED BY <1>1, <1>2, <1>3, <1>4, OpenedAsConfigured, Zenon

\* Liquidity leaves a position where it is.
LEMMA LiquidateClInv ==
  ASSUME ClInv, NEW i \in DOMAIN positions, NEW amount,
         amount = << >> \/ amount[1] \in Int, try_liquidate_cl_position(i, amount)
  PROVE  ClInv'
<1> DEFINE taken == IF amount = << >> THEN positions[i].liquidity ELSE amount[1]
           p == [positions[i] EXCEPT !.liquidity = @ - taken]
<1>0. positions[i] \in Position
  BY DEF ClInv, ClTyped
<1>1. positions[i] \in Position /\ taken \in Int
  <2>1. positions[i].liquidity \in Int
    BY <1>0, Zenon DEF Position
  <2> QED BY <1>0, <2>1, Zenon
<1>2. positions' = [positions EXCEPT ![i] = p] /\ tick' = tick /\ cl_lper' = cl_lper
  BY Zenon DEF try_liquidate_cl_position
<1> HIDE DEF taken
<1>3. p \in Position /\ p.range = positions[i].range /\ p.made = positions[i].made /\ p.owner = positions[i].owner
  BY <1>1 DEF Position
<1> HIDE DEF p
<1>4. positions' \in Seq(Position) /\ DOMAIN positions' = DOMAIN positions
  BY <1>2, <1>3 DEF ClInv, ClTyped
<1>5. \A j \in DOMAIN positions :
        positions'[j].range = positions[j].range /\ positions'[j].made = positions[j].made
          /\ positions'[j].owner = positions[j].owner
  BY <1>2, <1>3, Zenon DEF ClInv, ClTyped
<1>6. \A j \in DOMAIN positions' : AsConfigured(positions[j])'
  BY <1>4, <1>5, ZenonT(40) DEF ClInv, AsConfigured, isInt64
<1> QED BY <1>2, <1>4, <1>6, Zenon DEF ClInv, ClTyped, ClConfig

\* An update mixes two configurations, field by field.
LEMMA UpdateClInv ==
  ASSUME ClInv, NEW fields, NEW new \in ClConfigs, update_cl_lper(fields, new)
  PROVE  ClInv'
<1>1. DOMAIN new = {"input_addr", "output_addr", "lp"} /\ ClConfig(new)
  BY ClConstants, ZenonT(40) DEF ClConfig
<1>2. cl_lper' = [f \in DOMAIN cl_lper |-> IF f \in fields THEN new[f] ELSE cl_lper[f]]
  BY Zenon DEF update_cl_lper, clOverlay
<1>3. /\ DOMAIN cl_lper' = {"input_addr", "output_addr", "lp"}
      /\ cl_lper'.output_addr \in {new.output_addr, cl_lper.output_addr}
      /\ cl_lper'.lp \in {new.lp, cl_lper.lp}
  BY <1>2, Zenon DEF ClInv, ClTyped, ClConfig
<1>4. ClConfig(cl_lper)'
  BY <1>1, <1>3, Zenon DEF ClInv, ClTyped, ClConfig
<1>5. tick' = tick /\ positions' = positions
  BY Zenon DEF update_cl_lper
<1>6. \A j \in DOMAIN positions' : AsConfigured(positions[j])'
  BY <1>5, ZenonT(40) DEF ClInv, AsConfigured, isInt64
<1> QED BY <1>4, <1>5, <1>6, Zenon DEF ClInv, ClTyped

\* Other steps do not touch the positions.
LEMMA ElsewhereClInv ==
  ASSUME ClInv, tick' \in Int, UNCHANGED <<positions, cl_lper>>
  PROVE  ClInv'
<1>1. \A j \in DOMAIN positions' : AsConfigured(positions[j])'
  BY ZenonT(40) DEF ClInv, AsConfigured, isInt64
<1> QED BY <1>1, Zenon DEF ClInv, ClTyped, ClConfig

\* At first there is no position.
LEMMA InitClInv == ClInit => ClInv
  BY ClConstants DEF ClInit, ClInv, ClTyped, ClConfig

\* Every step keeps the invariant.
LEMMA NextClInv == ClInv /\ [ClNext]_clVars => ClInv'
<1> SUFFICES ASSUME ClInv, [ClNext]_clVars PROVE ClInv'
  BY Zenon
<1>1. CASE UNCHANGED clVars
  BY <1>1, ElsewhereClInv, Zenon DEF clVars, ClInv, ClTyped
<1>2. ASSUME NEW used \in 1 .. funds[cl_lper.input_addr], NEW range \in CustomRanges,
             provide_liquidity_custom(range, used)
      PROVE  ClInv'
  <2>1. used \in Int
    BY <1>2
  <2> QED BY <1>2, <2>1, CustomClInv, Zenon
<1>3. ASSUME NEW used \in 1 .. funds[cl_lper.input_addr], NEW n \in BucketCounts,
             provide_liquidity_default(n, used)
      PROVE  ClInv'
  <2>1. used \in Int
    BY <1>3
  <2> QED BY <1>3, <2>1, DefaultClInv, ZenonT(40)
<1>4. ASSUME NEW i \in DOMAIN positions, NEW amount \in {<< >>} \cup {<<n>> : n \in 1 .. 2},
             try_liquidate_cl_position(i, amount)
      PROVE  ClInv'
  <2>1. amount = << >> \/ amount[1] \in Int
    BY <1>4
  <2> QED BY <1>4, <2>1, LiquidateClInv, Zenon
<1>5. ASSUME NEW fields, NEW new \in ClConfigs, update_cl_lper(fields, new) PROVE ClInv'
  BY <1>5, UpdateClInv, Zenon
<1>6. ASSUME NEW fields, NEW new, update_cl_withdrawer(fields, new) PROVE ClInv'
  BY <1>6, ElsewhereClInv, Zenon DEF update_cl_withdrawer, ClInv, ClTyped
<1>7. ASSUME NEW t \in Ticks, moveTick(t) PROVE ClInv'
  BY <1>7, ElsewhereClInv, ClConstants, Zenon DEF moveTick
<1> QED BY <1>1, <1>2, <1>3, <1>4, <1>5, <1>6, <1>7, Zenon DEF ClNext

\* For every spacing, width of Int64, range and bucket count, and however the tick and
\* the configuration move, every position was opened where the configuration and the
\* pool allow, around the tick if it was to be, and is the configured output account's.
THEOREM PositionsOpenedAsConfigured == ClSpec => []PositionsAsConfigured
<1>1. ClSpec => []ClInv
  BY InitClInv, NextClInv, PTL DEF ClSpec
<1> QED BY <1>1, AllAsConfigured, PTL

-----------------------------------------------------------------------------
(* Credit.                                                                 *)

CreditAccount ==
  [owner : Borrower, idle : [LendDenom -> Int], lent : [LendDenom -> Int], debt : [LendDenom -> Int]]

LendingTyped ==
  /\ credit \in Seq(CreditAccount)
  /\ cash \in [Borrower -> [LendDenom -> Int]]
  /\ DOMAIN lender = {"input_addr", "output_addr", "denom"}
  /\ lender.input_addr \in Borrower /\ lender.output_addr \in Borrower /\ lender.denom \in LendDenom

LendingInv == LendingTyped /\ CreditInOnePlace

\* What the library is configured with.
LEMMA LenderParts ==
  ASSUME LendingTyped
  PROVE  lender.input_addr \in Borrower /\ lender.output_addr \in Borrower /\ lender.denom \in LendDenom
  BY Zenon DEF LendingTyped

\* A credit account is found if there is one, and it is the input account's.
LEMMA CreditAccountFound ==
  ASSUME LendingInv, hasCredit
  PROVE  /\ get_credit_account \in DOMAIN credit
         /\ credit[get_credit_account].owner = lender.input_addr
<1>1. PICK i \in DOMAIN credit : credit[i].owner = lender.input_addr
  BY Zenon DEF hasCredit, Accounts
<1>2. Accounts(lender.input_addr) = {i}
  BY <1>1, Zenon DEF Accounts, LendingInv, CreditInOnePlace
<1>3. i \in Int
  BY <1>1 DEF LendingInv, LendingTyped
<1>4. Min({i}) = i
  BY <1>3 DEF Min
<1> QED BY <1>1, <1>2, <1>4, Zenon DEF get_credit_account

\* The fields of an account.
LEMMA AccountParts ==
  ASSUME NEW a \in CreditAccount, NEW d \in LendDenom
  PROVE  a.idle[d] \in Int /\ a.lent[d] \in Int /\ a.debt[d] \in Int
  BY Zenon DEF CreditAccount

\* An account that is written keeps its owner and has nothing idle: so it is for all.
LEMMA WrittenInOnePlace ==
  ASSUME LendingInv, NEW i \in DOMAIN credit, NEW a \in CreditAccount,
         a.owner = credit[i].owner, \A d \in LendDenom : a.idle[d] = 0,
         credit' = [credit EXCEPT ![i] = a],
         cash' \in [Borrower -> [LendDenom -> Int]], lender' = lender
  PROVE  LendingInv'
<1>1. credit' \in Seq(CreditAccount) /\ DOMAIN credit' = DOMAIN credit
  BY DEF LendingInv, LendingTyped
<1>2. \A j \in DOMAIN credit : credit'[j] = IF j = i THEN a ELSE credit[j]
  BY Zenon
<1>3. \A j \in DOMAIN credit : credit'[j].owner = credit[j].owner /\ \A d \in LendDenom : credit'[j].idle[d] = 0
  BY <1>2, Zenon DEF LendingInv, CreditInOnePlace
<1>4. CreditInOnePlace'
  BY <1>1, <1>3 DEF LendingInv, CreditInOnePlace
<1> QED BY <1>1, <1>4, Zenon DEF LendingInv, LendingTyped

\* Money that moves on one address stays an integer.
LEMMA CashTyped ==
  ASSUME NEW c \in [Borrower -> [LendDenom -> Int]], NEW b \in Borrower, NEW d \in LendDenom, NEW n \in Int
  PROVE  /\ [c EXCEPT ![b][d] = n] \in [Borrower -> [LendDenom -> Int]]
         /\ c[b][d] \in Int
  BY Zenon

\* An account that is written stays an account.
LEMMA AccountWritten ==
  ASSUME NEW a \in CreditAccount, NEW d \in LendDenom, NEW x \in Int
  PROVE  [a EXCEPT !.lent[d] = x, !.idle[d] = 0] \in CreditAccount
<1>1. [a.lent EXCEPT ![d] = x] \in [LendDenom -> Int] /\ [a.idle EXCEPT ![d] = 0] \in [LendDenom -> Int]
  BY DEF CreditAccount
<1> QED BY <1>1, Zenon DEF CreditAccount

\* Lending what is on an account leaves nothing idle.
LEMMA LentInOnePlace ==
  ASSUME NEW a \in CreditAccount, NEW n \in Int, lender.denom \in LendDenom,
         \A d \in LendDenom : a.idle[d] = 0
  PROVE  /\ lend(a, n) \in CreditAccount /\ lend(a, n).owner = a.owner
         /\ \A d \in LendDenom : lend(a, n).idle[d] = 0
<1>1. a.lent[lender.denom] + a.idle[lender.denom] + n \in Int
  BY AccountParts
<1>2. lend(a, n) = [a EXCEPT !.lent[lender.denom] = a.lent[lender.denom] + a.idle[lender.denom] + n,
                             !.idle[lender.denom] = 0]
  BY Zenon DEF lend
<1>3. lend(a, n).idle = [a.idle EXCEPT ![lender.denom] = 0] /\ lend(a, n).owner = a.owner
  BY <1>2, Zenon DEF CreditAccount
<1>4. \A d \in LendDenom : lend(a, n).idle[d] = 0
  BY <1>3, AccountParts, Zenon DEF CreditAccount
<1>5. lend(a, n) \in CreditAccount
  <2> DEFINE d == lender.denom
             x == a.lent[d] + a.idle[d] + n
  <2>1. x \in Int /\ d \in LendDenom
    BY <1>1, Zenon
  <2>2. lend(a, n) = [a EXCEPT !.lent[d] = x, !.idle[d] = 0]
    BY <1>2, Zenon
  <2> HIDE DEF d, x
  <2>3. [a EXCEPT !.lent[d] = x, !.idle[d] = 0] \in CreditAccount
    BY <2>1, AccountWritten, Zenon
  <2> QED BY <2>2, <2>3, Zenon
<1> QED BY <1>3, <1>4, <1>5, Zenon

\* Lend writes the input account's credit account, or makes its first.
LEMMA LendInOnePlace ==
  ASSUME LendingInv, Lend
  PROVE  LendingInv'
<1> DEFINE balance == cash[lender.input_addr][lender.denom]
           fresh == [owner |-> lender.input_addr, idle |-> nothing, lent |-> nothing, debt |-> nothing]
<1>1. lender.input_addr \in Borrower /\ lender.denom \in LendDenom
  BY LenderParts, Zenon DEF LendingInv
<1>2. balance \in Int
  BY <1>1, Zenon DEF LendingInv, LendingTyped
<1>3. cash' \in [Borrower -> [LendDenom -> Int]]
  BY <1>1, CashTyped DEF Lend, LendingInv, LendingTyped
<1>4. lender' = lender
  BY Zenon DEF Lend
<1>5. CASE hasCredit
  <2> DEFINE c == get_credit_account
  <2>1. c \in DOMAIN credit
    BY <1>5, CreditAccountFound, Zenon
  <2>2. credit[c] \in CreditAccount /\ \A d \in LendDenom : credit[c].idle[d] = 0
    BY <2>1 DEF LendingInv, LendingTyped, CreditInOnePlace
  <2>3. credit' = [credit EXCEPT ![c] = lend(credit[c], balance)]
    BY <1>5, Zenon DEF Lend
  <2> HIDE DEF c, balance
  <2>4. /\ lend(credit[c], balance) \in CreditAccount /\ lend(credit[c], balance).owner = credit[c].owner
        /\ \A d \in LendDenom : lend(credit[c], balance).idle[d] = 0
    BY <1>1, <1>2, <2>2, LentInOnePlace, Zenon
  <2> QED BY <1>3, <1>4, <2>1, <2>3, <2>4, WrittenInOnePlace, Zenon
<1>6. CASE ~ hasCredit
  <2>1. fresh \in CreditAccount /\ fresh.owner = lender.input_addr /\ \A d \in LendDenom : fresh.idle[d] = 0
    BY <1>1 DEF CreditAccount, nothing
  <2>2. credit' = Append(credit, lend(fresh, balance))
    BY <1>6, Zenon DEF Lend
  <2> HIDE DEF fresh, balance
  <2> DEFINE a == lend(fresh, balance)
  <2>3. a \in CreditAccount /\ a.owner = lender.input_addr /\ \A d \in LendDenom : a.idle[d] = 0
    BY <1>1, <1>2, <2>1, LentInOnePlace, Zenon
  <2>4. credit' = Append(credit, a)
    BY <2>2, Zenon
  <2> HIDE DEF a
  <2>5. credit' \in Seq(CreditAccount) /\ DOMAIN credit' = 1 .. Len(credit) + 1 /\ Len(credit) \in Nat
    BY <2>3, <2>4 DEF LendingInv, LendingTyped
  <2>6. credit'[Len(credit) + 1] = a /\ \A i \in 1 .. Len(credit) : credit'[i] = credit[i]
    BY <2>3, <2>4 DEF LendingInv, LendingTyped
  <2>7. \A i \in 1 .. Len(credit) : credit[i].owner # lender.input_addr
    BY <1>6 DEF hasCredit, Accounts, LendingInv, LendingTyped
  <2>8. \A i, j \in 1 .. Len(credit) : credit[i].owner = credit[j].owner => i = j
    BY DEF LendingInv, LendingTyped, CreditInOnePlace
  <2>9. \A i \in 1 .. Len(credit) + 1 : i \in 1 .. Len(credit) \/ i = Len(credit) + 1
    BY <2>5
  <2>10. \A i, j \in DOMAIN credit' : credit'[i].owner = credit'[j].owner => i = j
    BY <2>3, <2>5, <2>6, <2>7, <2>8, <2>9, ZenonT(40)
  <2>11. \A i \in 1 .. Len(credit) : \A d \in LendDenom : credit[i].idle[d] = 0
    BY DEF LendingInv, LendingTyped, CreditInOnePlace
  <2>12. \A i \in DOMAIN credit' : \A d \in LendDenom : credit'[i].idle[d] = 0
    BY <2>3, <2>5, <2>6, <2>9, <2>11, Zenon
  <2> QED BY <1>3, <1>4, <2>5, <2>10, <2>12, Zenon DEF LendingInv, LendingTyped, CreditInOnePlace
<1> QED BY <1>5, <1>6, Zenon

\* Withdraw pays out what it reclaims, and all of it.
LEMMA WithdrawInOnePlace ==
  ASSUME LendingInv, NEW amount, amount = << >> \/ amount[1] \in Int, Withdraw(amount)
  PROVE  LendingInv'
<1> DEFINE c == get_credit_account
           d == lender.denom
           reclaimed == IF amount = << >> THEN credit[c].lent[d] ELSE amount[1]
           onAccount == credit[c].idle[d] + reclaimed
           paid == IF amount = << >> THEN onAccount ELSE amount[1]
           a == [credit[c] EXCEPT !.lent[d] = @ - reclaimed, !.idle[d] = onAccount - paid]
<1>1. c \in DOMAIN credit
  BY CreditAccountFound, Zenon DEF Withdraw
<1>2. credit[c] \in CreditAccount /\ d \in LendDenom /\ credit[c].idle[d] = 0
  BY <1>1, LenderParts DEF LendingInv, LendingTyped, CreditInOnePlace
<1>3. credit[c].lent[d] \in Int
  BY <1>2, AccountParts, Zenon
<1>4. credit' = [credit EXCEPT ![c] = a]
  BY <1>1, ZenonT(40) DEF Withdraw
<1>5. cash' = [cash EXCEPT ![lender.output_addr][d] = cash[lender.output_addr][d] + paid] /\ lender' = lender
  BY Zenon DEF Withdraw
<1> HIDE DEF c, d
<1>6. reclaimed \in Int
  BY <1>3, Zenon
<1>7. onAccount = reclaimed /\ paid = reclaimed
  BY <1>2, <1>6
<1>8. a = [credit[c] EXCEPT !.lent[d] = credit[c].lent[d] - reclaimed, !.idle[d] = 0]
  <2>1. onAccount - paid = 0
    BY <1>6, <1>7
  <2> HIDE DEF onAccount, paid, reclaimed
  <2> QED BY <2>1, ZenonT(40)
<1>9. cash' \in [Borrower -> [LendDenom -> Int]]
  <2>1. lender.output_addr \in Borrower /\ cash \in [Borrower -> [LendDenom -> Int]]
    BY Zenon DEF LendingInv, LendingTyped
  <2>2. cash[lender.output_addr][d] + paid \in Int
    BY <1>2, <1>6, <1>7, <2>1, SMTT(30)
  <2> HIDE DEF paid
  <2> QED BY <1>2, <1>5, <2>1, <2>2, CashTyped, Zenon
<1>10. credit[c].lent[d] - reclaimed \in Int
  BY <1>3, <1>6
<1> HIDE DEF a, reclaimed
<1>11. a.owner = credit[c].owner /\ a.idle = [credit[c].idle EXCEPT ![d] = 0] /\ a \in CreditAccount
  BY <1>2, <1>8, <1>10, Zenon DEF CreditAccount
<1>12. \A e \in LendDenom : a.idle[e] = 0
  BY <1>1, <1>2, <1>11, ZenonT(40) DEF LendingInv, CreditInOnePlace, CreditAccount
<1> QED BY <1>1, <1>4, <1>5, <1>9, <1>11, <1>12, WrittenInOnePlace, Zenon

\* Borrow pays out what it borrows.
LEMMA BorrowInOnePlace ==
  ASSUME LendingInv, NEW d \in LendDenom, NEW n \in Int, Borrow(d, n)
  PROVE  LendingInv'
<1> DEFINE c == get_credit_account
           onAccount == credit[c].idle[d] + n
           a == [credit[c] EXCEPT !.debt[d] = @ + n, !.idle[d] = onAccount - n]
<1>1. c \in DOMAIN credit
  BY CreditAccountFound, Zenon DEF Borrow
<1>2. credit[c] \in CreditAccount /\ credit[c].idle[d] = 0
  BY <1>1 DEF LendingInv, LendingTyped, CreditInOnePlace
<1>3. credit[c].debt[d] + n \in Int
  BY <1>2, AccountParts
<1>4. credit' = [credit EXCEPT ![c] = a]
  BY <1>1, Zenon DEF Borrow
<1>5. cash' = [cash EXCEPT ![lender.output_addr][d] = cash[lender.output_addr][d] + n] /\ lender' = lender
  BY Zenon DEF Borrow
<1> HIDE DEF c
<1>6. a = [credit[c] EXCEPT !.debt[d] = credit[c].debt[d] + n, !.idle[d] = 0]
  <2>1. onAccount - n = 0
    BY <1>2
  <2> HIDE DEF onAccount
  <2> QED BY <2>1, Zenon
<1>7. cash' \in [Borrower -> [LendDenom -> Int]]
  <2>1. lender.output_addr \in Borrower /\ cash \in [Borrower -> [LendDenom -> Int]]
    BY Zenon DEF LendingInv, LendingTyped
  <2>2. cash[lender.output_addr][d] + n \in Int
    BY <2>1
  <2> QED BY <1>5, <2>1, <2>2, CashTyped, Zenon
<1> HIDE DEF a
<1>8. a.owner = credit[c].owner /\ a.idle = [credit[c].idle EXCEPT ![d] = 0] /\ a \in CreditAccount
  BY <1>2, <1>3, <1>6, Zenon DEF CreditAccount
<1>9. \A e \in LendDenom : a.idle[e] = 0
  BY <1>1, <1>2, <1>8, ZenonT(40) DEF LendingInv, CreditInOnePlace, CreditAccount
<1> QED BY <1>1, <1>4, <1>5, <1>7, <1>8, <1>9, WrittenInOnePlace, Zenon

\* Repay leaves on the account what is there.
LEMMA RepayInOnePlace ==
  ASSUME LendingInv, NEW d \in LendDenom, NEW n \in Int, Repay(d, n)
  PROVE  LendingInv'
<1> DEFINE c == get_credit_account
           repaid == Min({n, credit[c].debt[d]})
           a == [credit[c] EXCEPT !.debt[d] = @ - repaid]
<1>1. c \in DOMAIN credit
  BY CreditAccountFound, Zenon DEF Repay
<1>2. credit[c] \in CreditAccount
  BY <1>1 DEF LendingInv, LendingTyped
<1>3. credit[c].debt[d] \in Int
  BY <1>2, AccountParts, Zenon
<1>4. credit' = [credit EXCEPT ![c] = a]
  BY <1>1, Zenon DEF Repay
<1>5. cash' = [cash EXCEPT ![lender.input_addr][d] = cash[lender.input_addr][d] - repaid] /\ lender' = lender
  BY Zenon DEF Repay
<1> HIDE DEF c
<1>6. repaid \in Int
  <2>1. \E x \in {n, credit[c].debt[d]} : \A y \in {n, credit[c].debt[d]} : x <= y
    BY <1>3
  <2>2. repaid \in {n, credit[c].debt[d]}
    BY <2>1, Zenon DEF Min
  <2> QED BY <1>3, <2>2, Zenon
<1> HIDE DEF repaid
<1>7. cash' \in [Borrower -> [LendDenom -> Int]]
  <2>1. lender.input_addr \in Borrower /\ cash \in [Borrower -> [LendDenom -> Int]]
    BY Zenon DEF LendingInv, LendingTyped
  <2>2. cash[lender.input_addr][d] - repaid \in Int
    BY <1>6, <2>1
  <2> QED BY <1>5, <2>1, <2>2, CashTyped, Zenon
<1>8. credit[c].debt[d] - repaid \in Int
  BY <1>3, <1>6
<1>9. a.owner = credit[c].owner /\ a.idle = credit[c].idle /\ a \in CreditAccount
  BY <1>2, <1>8, Zenon DEF CreditAccount
<1> HIDE DEF a
<1>10. \A e \in LendDenom : a.idle[e] = 0
  BY <1>1, <1>9, ZenonT(40) DEF LendingInv, CreditInOnePlace
<1> QED BY <1>1, <1>4, <1>5, <1>7, <1>9, <1>10, WrittenInOnePlace, Zenon

\* Interest changes neither owner nor what is idle.
LEMMA AccrueInOnePlace ==
  ASSUME LendingInv, NEW i \in DOMAIN credit, NEW d \in LendDenom, accrue(i, d)
  PROVE  LendingInv'
<1> DEFINE a == [credit[i] EXCEPT !.lent[d] = grown(@), !.debt[d] = grown(@)]
<1>1. credit[i] \in CreditAccount
  BY DEF LendingInv, LendingTyped
<1>2. credit[i].lent[d] \in Int /\ credit[i].debt[d] \in Int
  BY <1>1, AccountParts, Zenon
<1>3. grown(credit[i].lent[d]) \in Int /\ grown(credit[i].debt[d]) \in Int
  BY <1>2 DEF grown
<1>4. credit' = [credit EXCEPT ![i] = a] /\ cash' = cash /\ lender' = lender
  BY Zenon DEF accrue
<1>5. a.owner = credit[i].owner /\ a.idle = credit[i].idle /\ a \in CreditAccount
  BY <1>1, <1>3, Zenon DEF CreditAccount
<1> HIDE DEF a
<1>6. \A e \in LendDenom : a.idle[e] = 0
  BY <1>5, Zenon DEF LendingInv, CreditInOnePlace
<1>7. cash' \in [Borrower -> [LendDenom -> Int]]
  BY <1>4, Zenon DEF LendingInv, LendingTyped
<1> QED BY <1>4, <1>5, <1>6, <1>7, WrittenInOnePlace, Zenon

\* An update mixes two configurations and moves no funds.
LEMMA UpdateInOnePlace ==
  ASSUME LendingInv, NEW fields, NEW new \in LendConfigs, update_lending_config(fields, new)
  PROVE  LendingInv'
<1>1. DOMAIN new = {"input_addr", "output_addr", "denom"} /\ new.input_addr \in Borrower
        /\ new.output_addr \in Borrower /\ new.denom \in LendDenom
  BY LendingConstants, Zenon
<1>2. lender' = [f \in DOMAIN lender |-> IF f \in fields THEN new[f] ELSE lender[f]]
  BY Zenon DEF update_lending_config
<1>3. /\ DOMAIN lender' = {"input_addr", "output_addr", "denom"}
      /\ lender'.input_addr \in {new.input_addr, lender.input_addr}
      /\ lender'.output_addr \in {new.output_addr, lender.output_addr}
      /\ lender'.denom \in {new.denom, lender.denom}
  BY <1>2, Zenon DEF LendingInv, LendingTyped
<1>4. credit' = credit /\ cash' = cash
  BY Zenon DEF update_lending_config
<1>5. lender'.input_addr \in Borrower /\ lender'.output_addr \in Borrower /\ lender'.denom \in LendDenom
  BY <1>1, <1>3, Zenon DEF LendingInv, LendingTyped
<1> QED BY <1>3, <1>4, <1>5, Zenon DEF LendingInv, LendingTyped, CreditInOnePlace

\* At first there is no credit account.
LEMMA InitInOnePlace == LendingInit => LendingInv
<1> SUFFICES ASSUME LendingInit PROVE LendingInv
  BY ZenonT(40)
<1>1. cash \in [Borrower -> [LendDenom -> Int]]
  BY LendingConstants DEF LendingInit
<1> QED BY <1>1, LendingConstants DEF LendingInit, LendingInv, LendingTyped, CreditInOnePlace

\* Every step keeps the invariant.
LEMMA NextInOnePlace == LendingInv /\ [LendingNext]_lendingVars => LendingInv'
<1> SUFFICES ASSUME LendingInv, [LendingNext]_lendingVars PROVE LendingInv'
  BY ZenonT(40)
<1>1. CASE UNCHANGED lendingVars
  BY <1>1, Zenon DEF lendingVars, LendingInv, LendingTyped, CreditInOnePlace
<1>2. CASE Lend
  BY <1>2, LendInOnePlace, Zenon
<1>3. ASSUME NEW amount \in {<< >>} \cup {<<n>> : n \in Sums}, Withdraw(amount) PROVE LendingInv'
  <2>1. amount = << >> \/ amount[1] \in Int
    BY LendingConstants
  <2> QED BY <1>3, <2>1, WithdrawInOnePlace, Zenon
<1>4. ASSUME NEW d \in LendDenom, NEW n \in Sums, Borrow(d, n) \/ Repay(d, n) PROVE LendingInv'
  <2>1. n \in Int
    BY LendingConstants
  <2> QED BY <1>4, <2>1, BorrowInOnePlace, RepayInOnePlace, Zenon
<1>5. ASSUME NEW fields, NEW new \in LendConfigs, update_lending_config(fields, new) PROVE LendingInv'
  BY <1>5, UpdateInOnePlace, ZenonT(40)
<1>6. ASSUME NEW i \in DOMAIN credit, NEW d \in LendDenom, accrue(i, d) PROVE LendingInv'
  BY <1>6, AccrueInOnePlace, Zenon
<1> QED BY <1>1, <1>2, <1>3, <1>4, <1>5, <1>6, Zenon DEF LendingNext

\* For any addresses, denoms, amounts and configurations, and however often the
\* configuration changes, every input account has one credit account at most and no
\* call leaves funds idle on it.
THEOREM CreditStaysInOnePlace == LendingSpec => []CreditInOnePlace
<1>1. LendingSpec => []LendingInv
  BY InitInOnePlace, NextInOnePlace, PTL DEF LendingSpec
<1>2. LendingInv => CreditInOnePlace
  BY Zenon DEF LendingInv
<1> QED BY <1>1, <1>2, PTL

-----------------------------------------------------------------------------
(* Pools.                                                                  *)

\* A quotient rounded down, times its divisor.
LEMMA DivDown ==
  ASSUME NEW x \in Nat, NEW c \in Nat \ {0}
  PROVE  x \div c \in Nat /\ (x \div c) * c <= x /\ x < (x \div c) * c + c
<1>1. x \div c \in Int /\ x % c \in 0 .. c - 1
  BY SMT
<1>2. x = c * (x \div c) + (x % c)
  BY SMT
<1>3. x \div c >= 0
  BY SMT
<1> QED BY <1>1, <1>2, <1>3, SMT

\* A quotient rounded up, times its divisor.
LEMMA DivUp ==
  ASSUME NEW x \in Nat, NEW c \in Nat \ {0}
  PROVE  /\ (x + c - 1) \div c \in Nat
         /\ ((x + c - 1) \div c) * c >= x /\ ((x + c - 1) \div c) * c < x + c
<1>1. x + c - 1 \in Nat
  BY SMT
<1> QED BY <1>1, DivDown, SMT

\* multiply_ratio rounds down.
LEMMA RatioDown ==
  ASSUME NEW x \in Nat, NEW p \in Nat, NEW q \in Nat \ {0}
  PROVE  /\ multiply_ratio(x, p, q) \in Nat
         /\ multiply_ratio(x, p, q) * q <= x * p
         /\ x * p < multiply_ratio(x, p, q) * q + q
<1>1. x * p \in Nat
  BY SMT
<1> QED BY <1>1, DivDown, Zenon DEF multiply_ratio

\* The smaller of two numbers is one of them.
LEMMA MinOfTwo ==
  ASSUME NEW a \in Nat, NEW b \in Nat
  PROVE  Min({a, b}) \in Nat
<1>1. \E x \in {a, b} : \A y \in {a, b} : x <= y
  OBVIOUS
<1>2. Min({a, b}) \in {a, b}
  BY <1>1, Zenon DEF Min
<1> QED BY <1>2, Zenon

Token == PoolAsset \cup {LpToken}

LibraryConfig(cfg) ==
  /\ DOMAIN cfg = {"input_addr", "output_addr", "lp"}
  /\ cfg.input_addr \in Party /\ cfg.output_addr \in Party

LiquidityTyped ==
  /\ pool \in [reserve : [PoolAsset -> Nat], supply : Nat \ {0}]
  /\ wallet \in [Party -> [Token -> Nat]]
  /\ LibraryConfig(provider) /\ LibraryConfig(remover)
  /\ served \in Nat

\* What is held, and what the pool holds.
LEMMA PoolParts ==
  ASSUME LiquidityTyped
  PROVE  /\ pool.reserve \in [PoolAsset -> Nat] /\ pool.supply \in Nat \ {0}
         /\ \A d \in PoolAsset : pool.reserve[d] \in Nat
         /\ provider.input_addr \in Party /\ provider.output_addr \in Party
         /\ remover.input_addr \in Party /\ remover.output_addr \in Party
         /\ \A p \in Party : \A d \in Token : wallet[p][d] \in Nat
  BY DEF LiquidityTyped, LibraryConfig

\* A part of a whole is no more than the whole.
LEMMA RatioWithin ==
  ASSUME NEW x \in Nat, NEW p \in Nat, NEW q \in Nat \ {0}, x <= q
  PROVE  multiply_ratio(x, p, q) \in 0 .. p
<1> DEFINE m == multiply_ratio(x, p, q)
<1>1. m \in Nat /\ m * q <= x * p
  BY RatioDown, Zenon
<1> HIDE DEF m
<1>2. x * p <= q * p
  BY SMT
<1>3. ASSUME m >= p + 1 PROVE FALSE
  <2>1. m * q >= (p + 1) * q
    BY <1>1, <1>3, SMT
  <2>2. (p + 1) * q = q * p + q
    BY SMT
  <2>3. m * q \in Int /\ q * p \in Int /\ x * p \in Int
    BY <1>1, SMT
  <2> QED BY <1>1, <1>2, <2>1, <2>2, <2>3
<1> QED BY <1>1, <1>3 DEF m

\* A part of less than the whole is less.
LEMMA RatioBelow ==
  ASSUME NEW x \in Nat, NEW p \in Nat \ {0}, NEW q \in Nat \ {0}, x < q
  PROVE  multiply_ratio(x, p, q) \in 0 .. p - 1
<1> DEFINE m == multiply_ratio(x, p, q)
<1>1. m \in Nat /\ m * q <= x * p
  BY RatioDown, Zenon
<1> HIDE DEF m
<1>2. x * p < q * p
  BY SMT
<1>3. ASSUME m >= p PROVE FALSE
  <2>1. m * q >= p * q
    BY <1>1, <1>3, SMT
  <2>2. p * q = q * p
    BY SMT
  <2>3. m * q \in Int /\ q * p \in Int /\ x * p \in Int
    BY <1>1, SMT
  <2> QED BY <1>1, <1>2, <2>1, <2>2, <2>3
<1> QED BY <1>1, <1>3 DEF m

\* The two assets.
LEMMA TwoAssets ==
  ASSUME NEW x \in PoolAsset
  PROVE  /\ other(x) \in PoolAsset /\ other(x) # x
         /\ \A y \in PoolAsset : y = x \/ y = other(x)
<1>1. PoolAsset = {PoolOrder[1], PoolOrder[2]} /\ PoolOrder[1] # PoolOrder[2]
  BY LiquidityConstants, Zenon
<1>2. \E d \in PoolAsset : d # x
  BY <1>1
<1>3. other(x) \in PoolAsset /\ other(x) # x
  BY <1>2, Zenon DEF other
<1> QED BY <1>1, <1>3, Zenon

\* The share token is none of the assets.
LEMMA TokenParts == LpToken \in Token /\ LpToken \notin PoolAsset /\ PoolAsset \subseteq Token
  BY LiquidityConstants, Zenon DEF Token

\* What a provision moves.
LEMMA ProvidedMoves ==
  ASSUME LiquidityTyped, NEW spent \in [PoolAsset -> Nat], NEW minted \in Nat, provided(spent, minted)
  PROVE  /\ pool' \in [reserve : [PoolAsset -> Nat], supply : Nat \ {0}]
         /\ wallet' \in [Party -> [Token -> Nat]]
         /\ \A d \in PoolAsset :
              /\ wallet'[provider.input_addr][d] = wallet[provider.input_addr][d] - spent[d]
              /\ wallet[provider.input_addr][d] - wallet'[provider.input_addr][d] = spent[d]
         /\ wallet'[provider.output_addr][LpToken] - wallet[provider.output_addr][LpToken]
              = pool'.supply - pool.supply
<1> DEFINE from == provider.input_addr
           to == provider.output_addr
           left == [d \in Token |-> IF d \in PoolAsset THEN wallet[from][d] - spent[d] ELSE wallet[from][d]]
           paid == [wallet EXCEPT ![from] = left]
<1>1. from \in Party /\ to \in Party /\ wallet \in [Party -> [Token -> Nat]]
  BY PoolParts, Zenon DEF LiquidityTyped
<1>2. \A d \in PoolAsset : spent[d] <= wallet[from][d]
  BY Zenon DEF provided
<1>3. \A d \in PoolAsset : spent[d] \in Nat /\ wallet[from][d] \in Nat
  BY <1>1, TokenParts, Zenon
<1>4. \A d \in PoolAsset : wallet[from][d] - spent[d] \in Nat
  BY <1>2, <1>3
<1>5. left \in [Token -> Nat]
  BY <1>1, <1>4, Zenon
<1>6. wallet' = [paid EXCEPT ![to][LpToken] = @ + minted]
  <2>1. DOMAIN wallet[from] = Token
    BY <1>1, Zenon
  <2>2. wallet' = [[wallet EXCEPT ![from] = [d \in DOMAIN wallet[from] |->
                      IF d \in PoolAsset THEN wallet[from][d] - spent[d] ELSE wallet[from][d]]]
                    EXCEPT ![to][LpToken] = @ + minted]
    BY Zenon DEF provided
  <2> QED BY <2>1, <2>2, Zenon
<1>7. \A d \in PoolAsset : left[d] = wallet[from][d] - spent[d] /\ wallet[from][d] - left[d] = spent[d]
  BY <1>3, TokenParts
<1>8. left[LpToken] = wallet[from][LpToken]
  BY TokenParts, Zenon
<1> HIDE DEF left
<1>9. paid \in [Party -> [Token -> Nat]]
  BY <1>1, <1>5, Zenon
<1>10. paid[to][LpToken] = wallet[to][LpToken] /\ paid[to][LpToken] \in Nat
  BY <1>1, <1>8, <1>9, TokenParts, Zenon
<1>11. paid[from] = left
  BY <1>1, Zenon
<1> HIDE DEF paid, from, to
<1>12. wallet' \in [Party -> [Token -> Nat]]
  <2>1. paid[to][LpToken] + minted \in Nat
    BY <1>10
  <2> QED BY <1>1, <1>6, <1>9, <2>1, TokenParts, Zenon
<1>13. wallet'[to][LpToken] = wallet[to][LpToken] + minted
  BY <1>1, <1>6, <1>9, <1>10, TokenParts, Zenon
<1>14. \A d \in PoolAsset : wallet'[from][d] = left[d]
  BY <1>1, <1>6, <1>9, <1>11, TokenParts, Zenon
<1>15. pool' = [reserve |-> [d \in PoolAsset |-> pool.reserve[d] + spent[d]], supply |-> pool.supply + minted]
  BY Zenon DEF provided
<1>16. pool' \in [reserve : [PoolAsset -> Nat], supply : Nat \ {0}]
  <2>1. \A d \in PoolAsset : pool.reserve[d] + spent[d] \in Nat
    BY PoolParts
  <2>2. pool.supply + minted \in Nat \ {0}
    BY PoolParts, SMTT(30)
  <2> QED BY <1>15, <2>1, <2>2, Zenon
<1>17. pool'.supply - pool.supply = minted
  BY <1>15, PoolParts, SMTT(30)
<1>18. wallet'[to][LpToken] - wallet[to][LpToken] = minted
  BY <1>10, <1>13
<1> QED BY <1>7, <1>12, <1>14, <1>16, <1>17, <1>18, Zenon DEF from, to

\* A number that is cancelled.
LEMMA Cancelled ==
  ASSUME NEW a \in Int, NEW b \in Int, NEW c \in Nat \ {0}, a * c <= b * c
  PROVE  a <= b
<1>1. CASE a >= b + 1
  <2>1. a * c >= (b + 1) * c
    BY <1>1, SMT
  <2>2. (b + 1) * c = b * c + c
    BY SMT
  <2>3. a * c \in Int /\ b * c \in Int
    BY SMT
  <2> QED BY <2>1, <2>2, <2>3
<1> QED BY <1>1

\* What one asset is worth in the other, by a ratio that is rounded down to a
\* Decimal and a product that is rounded down to a unit.
LEMMA WorthAtPoolPrice ==
  ASSUME NEW b \in Nat, NEW r1 \in Nat \ {0}, NEW r2 \in Nat \ {0}, NEW e,
         e = multiply_ratio(b, (r1 * DecimalOne) \div r2, DecimalOne)
  PROVE  /\ e \in Nat /\ e * r2 <= b * r1
         /\ (b * r1 - e * r2) * DecimalOne < b * r2 + r2 * DecimalOne
<1> DEFINE One == DecimalOne
           R == (r1 * One) \div r2
<1>0. One \in Nat \ {0}
  BY DecimalOneAssumption, Zenon
<1>1. r1 * One \in Nat
  BY <1>0, SMT
<1>2. R \in Nat /\ R * r2 <= r1 * One /\ r1 * One < R * r2 + r2
  BY <1>1, DivDown, Zenon
<1> HIDE DEF One, R
<1>3. e \in Nat /\ e * One <= b * R /\ b * R < e * One + One
  BY <1>0, <1>2, RatioDown, Zenon DEF One, R
<1>4. /\ b * R \in Nat /\ R * r2 \in Nat /\ e * One \in Nat /\ e * r2 \in Nat /\ b * r1 \in Nat
      /\ b * r2 \in Nat /\ r2 * One \in Nat /\ r1 * One \in Nat
  BY <1>0, <1>2, <1>3, SMT
<1>5. (e * r2) * One <= (b * R) * r2
  <2>1. (e * One) * r2 <= (b * R) * r2
    BY <1>3, <1>4, SMT
  <2>2. (e * r2) * One = (e * One) * r2
    BY <1>0, <1>3, SMT
  <2> QED BY <2>1, <2>2, Zenon
<1>6. (b * R) * r2 <= (b * r1) * One
  <2>1. b * (R * r2) <= b * (r1 * One)
    BY <1>2, <1>4, SMT
  <2>2. (b * R) * r2 = b * (R * r2) /\ (b * r1) * One = b * (r1 * One)
    BY <1>0, <1>2, SMT
  <2> QED BY <2>1, <2>2, Zenon
<1>7. (e * r2) * One \in Int /\ (b * R) * r2 \in Int /\ (b * r1) * One \in Int
  BY <1>0, <1>4, SMT
<1>8. e * r2 <= b * r1
  <2>1. (e * r2) * One <= (b * r1) * One
    BY <1>5, <1>6, <1>7
  <2> QED BY <1>0, <1>4, <2>1, Cancelled
<1>9. (b * r1) * One <= (b * R) * r2 + b * r2
  <2>1. b * (r1 * One) <= b * (R * r2 + r2)
    BY <1>2, <1>4, SMT
  <2>2. b * (R * r2 + r2) = (b * R) * r2 + b * r2 /\ (b * r1) * One = b * (r1 * One)
    BY <1>0, <1>2, SMT
  <2> QED BY <2>1, <2>2, Zenon
<1>10. (b * R) * r2 < (e * r2) * One + r2 * One
  <2>1. (b * R) * r2 < (e * One + One) * r2
    BY <1>0, <1>3, <1>4, SMTT(30)
  <2>2. (e * One + One) * r2 = (e * r2) * One + r2 * One
    BY <1>0, <1>3, SMTT(30)
  <2> QED BY <2>1, <2>2, Zenon
<1>11. (b * r1 - e * r2) * One = (b * r1) * One - (e * r2) * One
  BY <1>0, <1>4, SMTT(30)
<1>12. (b * r1 - e * r2) * One < b * r2 + r2 * One
  BY <1>4, <1>7, <1>9, <1>10, <1>11, SMTT(30)
<1> QED BY <1>3, <1>8, <1>12, Zenon DEF One

\* What the pool takes for shares, rounded up for every asset.
LEMMA CostAtPoolPrice ==
  ASSUME NEW s \in Nat, NEW t \in Nat \ {0}, NEW rx \in Nat \ {0}, NEW ry \in Nat \ {0}, NEW cx, NEW cy,
         cx = upward(s * rx, t), cy = upward(s * ry, t)
  PROVE  cx \in Nat /\ cy \in Nat /\ cx * ry - cy * rx < ry
<1>1. s * rx \in Nat /\ s * ry \in Nat
  BY SMT
<1>2. cx \in Nat /\ cx * t < s * rx + t
  BY <1>1, DivUp, Zenon DEF upward
<1>3. cy \in Nat /\ s * ry <= cy * t
  BY <1>1, DivUp, Zenon DEF upward
<1>4. (cx * t) * ry < (s * rx + t) * ry
  BY <1>1, <1>2, SMT
<1>5. (s * ry) * rx <= (cy * t) * rx
  BY <1>1, <1>3, SMTT(30)
<1>6. /\ (s * rx + t) * ry = (s * ry) * rx + ry * t
      /\ (cx * t) * ry = (cx * ry) * t /\ (cy * t) * rx = (cy * rx) * t
  BY <1>2, <1>3, SMTT(30)
<1>7. /\ cx * ry \in Int /\ cy * rx \in Int /\ (s * ry) * rx \in Int /\ ry * t \in Int
      /\ (cx * ry) * t \in Int /\ (cy * rx) * t \in Int
  BY <1>2, <1>3, SMTT(30)
<1>8. (cx * ry) * t < (cy * rx) * t + ry * t
  BY <1>4, <1>5, <1>6, <1>7, SMTT(30)
<1>9. ((cy * rx) + ry) * t = (cy * rx) * t + ry * t
  BY <1>7, SMTT(30)
<1>10. CASE cx * ry >= cy * rx + ry
  <2>1. (cx * ry) * t >= ((cy * rx) + ry) * t
    BY <1>7, <1>10, SMT
  <2> QED BY <1>7, <1>8, <1>9, <2>1, SMTT(30)
<1> QED BY <1>2, <1>3, <1>7, <1>10

\* What is spent of the two assets is at the pool's price.
AtPoolPrice(spent) ==
  \A x, y \in PoolAsset : x # y =>
    (spent[x] * pool.reserve[y] - spent[y] * pool.reserve[x]) * DecimalOne
      < (pool.reserve[x] + pool.reserve[y]) * DecimalOne + spent[x] * pool.reserve[x]

\* A provision is in its terms if what it spends is.
LEMMA ProvisionInTerms ==
  ASSUME LiquidityTyped, NEW spent \in [PoolAsset -> Nat], NEW minted \in Nat, provided(spent, minted),
         NEW fn \in {"double", "single"}, NEW asset \in PoolAsset, NEW limit, NEW range,
         asked' = [fn |-> fn, asset |-> asset, limit |-> limit, range |-> range],
         contains(range, ratioFor(provider.lp.assets)),
         fn = "double" => AtPoolPrice(spent),
         fn = "double" /\ market # "gamm" => \E d \in PoolAsset : spent[d] = wallet[provider.input_addr][d],
         fn = "single" => /\ limit # << >> => spent[asset] <= limit[1]
                          /\ \A d \in PoolAsset \ {asset} : spent[d] = 0
  PROVE  WithinTerms
<1> DEFINE before == wallet[provider.input_addr]
           after == wallet'[provider.input_addr]
<1>1. \A d \in PoolAsset : after[d] = before[d] - spent[d] /\ before[d] - after[d] = spent[d]
  BY ProvidedMoves, ZenonT(40)
<1>2. wallet'[provider.output_addr][LpToken] - wallet[provider.output_addr][LpToken] = pool'.supply - pool.supply
  BY ProvidedMoves, ZenonT(40)
<1>3. asked'.fn = fn /\ asked'.fn # "withdraw" /\ asked'.asset = asset /\ asked'.limit = limit /\ asked'.range = range
  BY Zenon
<1>4. fn = "double" => \A x, y \in PoolAsset : x # y =>
        ((before[x] - after[x]) * pool.reserve[y] - (before[y] - after[y]) * pool.reserve[x]) * DecimalOne
          < (pool.reserve[x] + pool.reserve[y]) * DecimalOne + (before[x] - after[x]) * pool.reserve[x]
  BY <1>1, Zenon DEF AtPoolPrice
<1>5. fn = "double" /\ market # "gamm" => \E d \in PoolAsset : after[d] = 0
  <2>1. \A d \in PoolAsset : before[d] \in Nat
    BY PoolParts, TokenParts, ZenonT(40)
  <2> HIDE DEF before, after
  <2>2. ASSUME NEW d \in PoolAsset, spent[d] = before[d] PROVE after[d] = 0
    BY <1>1, <2>1, <2>2, Differences, ZenonT(40)
  <2> QED BY <2>2, ZenonT(40) DEF before
<1>6. fn = "single" => /\ limit # << >> => before[asset] - after[asset] <= limit[1]
                       /\ \A d \in PoolAsset \ {asset} : before[d] - after[d] = 0
  BY <1>1, Zenon
<1> QED BY <1>2, <1>3, <1>4, <1>5, <1>6, Zenon DEF WithinTerms

\* The gamm pool takes what the shares cost.
LEMMA GammCost ==
  ASSUME LiquidityTyped, \A d \in PoolAsset : pool.reserve[d] # 0, NEW s \in Nat, NEW spent,
         spent = [d \in PoolAsset |-> upward(s * pool.reserve[d], pool.supply)]
  PROVE  spent \in [PoolAsset -> Nat] /\ AtPoolPrice(spent)
<1>1. \A d \in PoolAsset : pool.reserve[d] \in Nat \ {0}
  BY PoolParts, Zenon
<1>2. pool.supply \in Nat \ {0} /\ DecimalOne \in Nat \ {0}
  BY PoolParts, DecimalOneAssumption, Zenon
<1>3. ASSUME NEW x \in PoolAsset, NEW y \in PoolAsset
      PROVE  /\ spent[x] \in Nat /\ spent[y] \in Nat
             /\ spent[x] * pool.reserve[y] - spent[y] * pool.reserve[x] < pool.reserve[y]
  BY <1>1, <1>2, CostAtPoolPrice, Zenon
<1>4. spent \in [PoolAsset -> Nat]
  BY <1>3, Zenon
<1>5. ASSUME NEW x \in PoolAsset, NEW y \in PoolAsset
      PROVE  (spent[x] * pool.reserve[y] - spent[y] * pool.reserve[x]) * DecimalOne
               < (pool.reserve[x] + pool.reserve[y]) * DecimalOne + spent[x] * pool.reserve[x]
  <2> DEFINE D == spent[x] * pool.reserve[y] - spent[y] * pool.reserve[x]
             W == spent[x] * pool.reserve[x]
             rx == pool.reserve[x]
             ry == pool.reserve[y]
  <2>1. D \in Int /\ W \in Nat /\ rx \in Nat /\ ry \in Nat
    BY <1>1, <1>3, SMT
  <2>2. D < ry
    BY <1>3, Zenon
  <2> HIDE DEF D, W, rx, ry
  <2>3. D * DecimalOne < (rx + ry) * DecimalOne
    BY <1>2, <2>1, <2>2, SMTT(30)
  <2>4. D * DecimalOne \in Int /\ (rx + ry) * DecimalOne \in Int
    BY <1>2, <2>1, SMTT(30)
  <2>5. D * DecimalOne < (rx + ry) * DecimalOne + W
    BY <2>1, <2>3, <2>4
  <2> QED BY <2>5, ZenonT(40) DEF D, W, rx, ry
<1> QED BY <1>4, <1>5, Zenon DEF AtPoolPrice

\* Two amounts of which one is all there is, and the other its worth.
LEMMA WorthIsAtPoolPrice ==
  ASSUME LiquidityTyped, \A d \in PoolAsset : pool.reserve[d] # 0,
         NEW a \in PoolAsset, NEW c \in PoolAsset, a # c,
         NEW b \in Nat, NEW spent \in [PoolAsset -> Nat], spent[a] = b,
         spent[c] = multiply_ratio(b, (pool.reserve[c] * DecimalOne) \div pool.reserve[a], DecimalOne)
  PROVE  AtPoolPrice(spent)
<1> DEFINE ra == pool.reserve[a]
           rc == pool.reserve[c]
           e == spent[c]
<1>1. ra \in Nat \ {0} /\ rc \in Nat \ {0} /\ DecimalOne \in Nat \ {0}
  BY PoolParts, DecimalOneAssumption, Zenon
<1>2. e \in Nat /\ e * ra <= b * rc /\ (b * rc - e * ra) * DecimalOne < b * ra + ra * DecimalOne
  BY <1>1, WorthAtPoolPrice, Zenon
<1>3. \A d \in PoolAsset : d = a \/ d = c
  BY TwoAssets, ZenonT(40)
<1> HIDE DEF ra, rc, e
<1>4. (b * rc - e * ra) * DecimalOne < (ra + rc) * DecimalOne + b * ra
  <2>1. (ra + rc) * DecimalOne = ra * DecimalOne + rc * DecimalOne
    BY <1>1, SMTT(30)
  <2>2. /\ (b * rc - e * ra) * DecimalOne \in Int /\ ra * DecimalOne \in Int /\ rc * DecimalOne \in Nat
        /\ b * ra \in Int
    BY <1>1, <1>2, SMTT(30)
  <2> QED BY <1>2, <2>1, <2>2, SMTT(30)
<1>5. (e * ra - b * rc) * DecimalOne < (rc + ra) * DecimalOne + e * rc
  <2>1. e * ra \in Int /\ b * rc \in Int /\ e * rc \in Nat
    BY <1>1, <1>2, SMTT(30)
  <2>2. e * ra - b * rc \in Int /\ e * ra - b * rc <= 0
    BY <1>2, <2>1, SMTT(30)
  <2>3. (e * ra - b * rc) * DecimalOne <= 0 /\ (e * ra - b * rc) * DecimalOne \in Int
    BY <1>1, <2>2, SMTT(30)
  <2>4. (rc + ra) * DecimalOne > 0 /\ (rc + ra) * DecimalOne \in Int
    BY <1>1, SMTT(30)
  <2> QED BY <2>1, <2>3, <2>4, SMTT(30)
<1> QED BY <1>3, <1>4, <1>5, Zenon DEF AtPoolPrice, ra, rc, e

\* A step keeps the types, and a call its terms.
CallIsSound == LiquidityTyped' /\ (served' > served => WithinTerms)

\* A call changes no configuration.
LEMMA CallKeepsTypes ==
  ASSUME LiquidityTyped, NEW fn, NEW asset, NEW limit, NEW range, Call(fn, asset, limit, range),
         pool' \in [reserve : [PoolAsset -> Nat], supply : Nat \ {0}],
         wallet' \in [Party -> [Token -> Nat]]
  PROVE  LiquidityTyped'
<1>1. provider' = provider /\ remover' = remover /\ served' = served + 1
  BY Zenon DEF Call
<1> QED BY <1>1 DEF LiquidityTyped, LibraryConfig

\* A pool that knows the assets holds both of them.
LEMMA KnownAssets ==
  ASSUME NEW assets, poolKnows(assets)
  PROVE  /\ assets[1] \in PoolAsset /\ assets[2] \in PoolAsset /\ assets[1] # assets[2]
         /\ \A d \in PoolAsset : d = assets[1] \/ d = assets[2]
         /\ \A d \in PoolAsset : pool.reserve[d] # 0
<1>1. {assets[1], assets[2]} = {PoolOrder[1], PoolOrder[2]} /\ PoolOrder[1] # PoolOrder[2]
  BY LiquidityConstants, Zenon DEF poolKnows
<1> QED BY <1>1, LiquidityConstants, Zenon DEF poolKnows

\* The shares for two amounts are a number.
LEMMA SharesAreCounted ==
  ASSUME LiquidityTyped, \A d \in PoolAsset : pool.reserve[d] # 0, NEW amount \in [PoolAsset -> Nat]
  PROVE  calc_join_pool_no_swap_shares(amount) \in Nat
<1> DEFINE m(d) == multiply_ratio(amount[d], pool.supply, pool.reserve[d])
           p == PoolOrder[1]
           q == PoolOrder[2]
<1>1. PoolAsset = {p, q}
  BY LiquidityConstants, Zenon
<1>2. \A d \in PoolAsset : m(d) \in Nat
  BY PoolParts, RatioDown, Zenon
<1>3. m(p) \in Nat /\ m(q) \in Nat
  BY <1>1, <1>2, Zenon
<1>4. {m(d) : d \in PoolAsset} = {m(p), m(q)}
  BY <1>1, Zenon
<1>5. calc_join_pool_no_swap_shares(amount) = Min({m(p), m(q)})
  BY <1>4, Zenon DEF calc_join_pool_no_swap_shares
<1> HIDE DEF m
<1> QED BY <1>3, <1>5, MinOfTwo, Zenon

\* What the gamm library offers of two balances.
LEMMA ProvisionAmounts ==
  ASSUME NEW b1 \in Nat, NEW b2 \in Nat, NEW price \in Nat
  PROVE  /\ calculate_provision_amounts(b1, b2, price)[1] \in Nat
         /\ calculate_provision_amounts(b1, b2, price)[2] \in Nat
<1> DEFINE expected == multiply_ratio(b1, price, DecimalOne)
<1>1. DecimalOne \in Nat \ {0}
  BY DecimalOneAssumption, Zenon
<1>2. expected \in Nat /\ expected * DecimalOne <= b1 * price
  BY <1>1, RatioDown, Zenon
<1>3. price = 0 => expected = 0
  <2>1. 0 \div DecimalOne = 0
    BY <1>1, SMT
  <2>2. b1 * 0 = 0
    BY SMT
  <2> QED BY <2>1, <2>2, Zenon DEF multiply_ratio
<1>4. expected > b2 => multiply_ratio(b2, DecimalOne, price) \in Nat
  <2> SUFFICES ASSUME expected > b2 PROVE multiply_ratio(b2, DecimalOne, price) \in Nat
    BY Zenon
  <2>1. price \in Nat \ {0}
    BY <1>2, <1>3
  <2> QED BY <1>1, <2>1, RatioDown, Zenon
<1> HIDE DEF expected
<1>5. calculate_provision_amounts(b1, b2, price) =
        IF expected > b2 THEN <<multiply_ratio(b2, DecimalOne, price), b2>> ELSE <<b1, expected>>
  BY Zenon DEF calculate_provision_amounts, expected
<1> QED BY <1>2, <1>4, <1>5

\* What is offered to a gamm pool.
LEMMA OfferedToGamm ==
  ASSUME LiquidityTyped, market = "gamm", poolKnows(provider.lp.assets)
  PROVE  offered \in [PoolAsset -> Nat]
<1> DEFINE assets == provider.lp.assets
           b1 == wallet[provider.input_addr][assets[1]]
           b2 == wallet[provider.input_addr][assets[2]]
           price == query_spot_price(assets)
           pair == calculate_provision_amounts(b1, b2, price)
<1>1. assets[1] \in PoolAsset /\ assets[2] \in PoolAsset /\ \A d \in PoolAsset : pool.reserve[d] # 0
  BY KnownAssets, Zenon
<1>2. b1 \in Nat /\ b2 \in Nat
  BY <1>1, PoolParts, TokenParts, Zenon
<1>3. price \in Nat
  <2>1. pool.reserve[assets[1]] \in Nat \ {0} /\ pool.reserve[assets[2]] \in Nat
    BY <1>1, PoolParts, ZenonT(40)
  <2>2. pool.reserve[assets[2]] * DecimalOne \in Nat
    BY <2>1, DecimalOneAssumption, SMT
  <2> QED BY <2>1, <2>2, DivDown, Zenon DEF query_spot_price
<1> HIDE DEF price, b1, b2
<1>4. pair[1] \in Nat /\ pair[2] \in Nat
  BY <1>2, <1>3, ProvisionAmounts, Zenon
<1>5. offered = amounts(assets, pair)
  BY ZenonT(40) DEF offered, price, b1, b2
<1> HIDE DEF pair
<1> QED BY <1>4, <1>5, Zenon DEF amounts

\* What is offered to an astroport pool is at its price, and all of one asset.
LEMMA OfferedToAstroport ==
  ASSUME LiquidityTyped, market # "gamm", poolKnows(provider.lp.assets)
  PROVE  /\ offered \in [PoolAsset -> Nat] /\ AtPoolPrice(offered)
         /\ \E d \in PoolAsset : offered[d] = wallet[provider.input_addr][d]
<1> DEFINE p == provider.lp.assets[1]
           q == provider.lp.assets[2]
           bp == wallet[provider.input_addr][p]
           bq == wallet[provider.input_addr][q]
           ep == multiply_ratio(bq, (pool.reserve[p] * DecimalOne) \div pool.reserve[q], DecimalOne)
           eq == multiply_ratio(bp, (pool.reserve[q] * DecimalOne) \div pool.reserve[p], DecimalOne)
           pair == IF bp >= ep THEN <<ep, bq>> ELSE <<bp, eq>>
<1>1. p \in PoolAsset /\ q \in PoolAsset /\ p # q /\ \A d \in PoolAsset : d = p \/ d = q
  BY KnownAssets, Zenon
<1>2. \A d \in PoolAsset : pool.reserve[d] # 0
  BY KnownAssets, Zenon
<1>3. bp \in Nat /\ bq \in Nat
  BY <1>1, PoolParts, TokenParts, Zenon
<1>4. offered = [d \in PoolAsset |-> IF d = p THEN pair[1] ELSE pair[2]]
  BY ZenonT(40) DEF offered, amounts, calculate_provide_amounts
<1>5. ep \in Nat /\ eq \in Nat
  <2>1. pool.reserve[p] \in Nat \ {0} /\ pool.reserve[q] \in Nat \ {0}
    BY <1>1, <1>2, PoolParts, ZenonT(40)
  <2> QED BY <1>3, <2>1, WorthAtPoolPrice, Zenon
<1>6. bp = wallet[provider.input_addr][p] /\ bq = wallet[provider.input_addr][q]
  BY Zenon
<1> HIDE DEF p, q, bp, bq, ep, eq
<1>7. offered[p] = pair[1] /\ offered[q] = pair[2] /\ DOMAIN offered = PoolAsset
      /\ offered = [d \in PoolAsset |-> offered[d]]
  BY <1>1, <1>4, Zenon
<1>8. CASE bp >= ep
  <2>1. offered[p] = ep /\ offered[q] = bq
    BY <1>7, <1>8, Zenon
  <2>2. offered \in [PoolAsset -> Nat]
    BY <1>1, <1>3, <1>5, <1>7, <2>1, Zenon
  <2>3. AtPoolPrice(offered)
    BY <1>1, <1>2, <1>3, <2>1, <2>2, WorthIsAtPoolPrice, Zenon DEF ep
  <2> QED BY <1>1, <1>6, <2>1, <2>2, <2>3, Zenon
<1>9. CASE ~ (bp >= ep)
  <2>1. offered[p] = bp /\ offered[q] = eq
    BY <1>7, <1>9, Zenon
  <2>2. offered \in [PoolAsset -> Nat]
    BY <1>1, <1>3, <1>5, <1>7, <2>1, Zenon
  <2>3. AtPoolPrice(offered)
    BY <1>1, <1>2, <1>3, <2>1, <2>2, WorthIsAtPoolPrice, Zenon DEF eq
  <2> QED BY <1>1, <1>6, <2>1, <2>2, <2>3, Zenon
<1> QED BY <1>8, <1>9, Zenon

\* osmosis-gamm-lper: provide_double_sided_liquidity.
LEMMA DoubleGammIsSound ==
  ASSUME LiquidityTyped, NEW range, provide_double_sided_gamm(range)
  PROVE  CallIsSound
<1> DEFINE assets == provider.lp.assets
           s == calc_join_pool_no_swap_shares(offered)
           spent == [d \in PoolAsset |-> upward(s * pool.reserve[d], pool.supply)]
<1>1. /\ market = "gamm" /\ poolKnows(assets) /\ contains(range, query_spot_price(assets))
      /\ provided(spent, s) /\ Call("double", assets[1], << >>, range)
  BY ZenonT(40) DEF provide_double_sided_gamm
<1>2. assets[1] \in PoolAsset /\ \A d \in PoolAsset : pool.reserve[d] # 0
  BY <1>1, KnownAssets, ZenonT(40)
<1>3. s \in Nat
  BY <1>1, <1>2, OfferedToGamm, SharesAreCounted, ZenonT(40)
<1> HIDE DEF s, assets
<1>4. spent \in [PoolAsset -> Nat] /\ AtPoolPrice(spent)
  BY <1>2, <1>3, GammCost, Zenon
<1> HIDE DEF spent
<1>5. asked' = [fn |-> "double", asset |-> assets[1], limit |-> << >>, range |-> range]
  BY <1>1, Zenon DEF Call
<1>6. contains(range, ratioFor(provider.lp.assets))
  BY <1>1, ZenonT(40) DEF ratioFor, assets
<1>7. WithinTerms
  BY <1>1, <1>2, <1>3, <1>4, <1>5, <1>6, ProvisionInTerms, ZenonT(40)
<1>8. LiquidityTyped'
  BY <1>1, <1>3, <1>4, ProvidedMoves, CallKeepsTypes, ZenonT(40)
<1> QED BY <1>7, <1>8, Zenon DEF CallIsSound

\* astroport-lper: provide_double_sided_liquidity.
LEMMA DoubleAstroportIsSound ==
  ASSUME LiquidityTyped, NEW range, provide_double_sided_astroport(range)
  PROVE  CallIsSound
<1> DEFINE assets == provider.lp.assets
           s == calc_join_pool_no_swap_shares(offered)
<1>1. /\ market # "gamm" /\ poolKnows(assets) /\ contains(range, pool_asset_ratios(assets))
      /\ provided(offered, s) /\ Call("double", assets[1], << >>, range)
  BY Zenon DEF provide_double_sided_astroport
<1>2. assets[1] \in PoolAsset /\ \A d \in PoolAsset : pool.reserve[d] # 0
  BY <1>1, KnownAssets, ZenonT(40)
<1>3. /\ offered \in [PoolAsset -> Nat] /\ AtPoolPrice(offered)
      /\ \E d \in PoolAsset : offered[d] = wallet[provider.input_addr][d]
  BY <1>1, OfferedToAstroport, Zenon
<1>4. s \in Nat
  BY <1>2, <1>3, SharesAreCounted, ZenonT(40)
<1> HIDE DEF s, assets
<1>5. asked' = [fn |-> "double", asset |-> assets[1], limit |-> << >>, range |-> range]
  BY <1>1, Zenon DEF Call
<1>6. contains(range, ratioFor(provider.lp.assets))
  BY <1>1, ZenonT(40) DEF ratioFor, assets
<1>7. WithinTerms
  BY <1>1, <1>2, <1>3, <1>4, <1>5, <1>6, ProvisionInTerms, ZenonT(40)
<1>8. LiquidityTyped'
  BY <1>1, <1>3, <1>4, ProvidedMoves, CallKeepsTypes, Zenon
<1> QED BY <1>7, <1>8, ZenonT(40) DEF CallIsSound

\* What a one-sided provision may spend.
LEMMA OneSided ==
  ASSUME NEW bal \in Nat, NEW limit \in {<< >>} \cup [1 .. 1 -> Nat], NEW n, n = provision_amount(bal, limit)
  PROVE  n \in Nat /\ n <= bal /\ (limit # << >> => n <= limit[1])
<1>1. limit # << >> => limit[1] \in Nat
  OBVIOUS
<1> QED BY <1>1 DEF provision_amount

\* A one-sided provision within its limit is in its terms.
LEMMA OneSidedInTerms ==
  ASSUME LiquidityTyped, NEW asset \in PoolAsset, NEW m \in Nat, NEW minted \in Nat,
         NEW limit, limit # << >> => m <= limit[1], NEW range,
         provided(onlyOf(asset, m), minted), Call("single", asset, limit, range),
         contains(range, ratioFor(provider.lp.assets))
  PROVE  CallIsSound
<1> DEFINE spent == onlyOf(asset, m)
<1>1. spent \in [PoolAsset -> Nat] /\ spent[asset] = m /\ \A d \in PoolAsset \ {asset} : spent[d] = 0
  BY Zenon DEF onlyOf
<1>2. provided(spent, minted)
  BY Zenon
<1> HIDE DEF spent
<1>3. asked' = [fn |-> "single", asset |-> asset, limit |-> limit, range |-> range]
  BY Zenon DEF Call
<1>4. WithinTerms
  BY <1>1, <1>2, <1>3, ProvisionInTerms, ZenonT(40)
<1>5. LiquidityTyped'
  BY <1>1, <1>2, ProvidedMoves, CallKeepsTypes, ZenonT(40)
<1> QED BY <1>4, <1>5, Zenon DEF CallIsSound

\* osmosis-gamm-lper: provide_single_sided_liquidity.
LEMMA SingleGammIsSound ==
  ASSUME LiquidityTyped, NEW asset \in PoolAsset, NEW limit \in Nat, NEW range,
         provide_single_sided_gamm(asset, limit, range)
  PROVE  CallIsSound
<1> DEFINE bal == wallet[provider.input_addr][asset]
           n == provision_amount(bal, <<limit>>)
<1>1. bal \in Nat
  BY PoolParts, TokenParts, Zenon
<1>2. <<limit>> \in {<< >>} \cup [1 .. 1 -> Nat] /\ <<limit>> # << >>
  OBVIOUS
<1>3. n \in Nat /\ n <= <<limit>>[1]
  BY <1>1, <1>2, OneSided, Zenon
<1>4. /\ market = "gamm" /\ contains(range, query_spot_price(provider.lp.assets))
      /\ \E s \in 1 .. pool.supply * n : provided(onlyOf(asset, n), s)
      /\ Call("single", asset, <<limit>>, range)
  BY Zenon DEF provide_single_sided_gamm
<1> HIDE DEF n
<1>5. PICK s \in 1 .. pool.supply * n : provided(onlyOf(asset, n), s)
  BY <1>4, Zenon
<1>6. s \in Nat
  BY <1>5
<1>7. contains(range, ratioFor(provider.lp.assets))
  BY <1>4, Zenon DEF ratioFor
<1> QED BY <1>3, <1>4, <1>5, <1>6, <1>7, OneSidedInTerms, ZenonT(40)

\* What a swap returns is less than the pool has, if it has something of both.
LEMMA SwapReturns ==
  ASSUME LiquidityTyped, NEW asset \in PoolAsset, NEW n \in Nat
  PROVE  /\ n # 0 => swapReturn(asset, n) \in 0 .. pool.reserve[other(asset)]
         /\ (\A d \in PoolAsset : pool.reserve[d] # 0) =>
              swapReturn(asset, n) \in 0 .. pool.reserve[other(asset)] - 1
<1> DEFINE a == pool.reserve[asset]
           b == pool.reserve[other(asset)]
<1>1. a \in Nat /\ b \in Nat
  BY PoolParts, TwoAssets, Zenon
<1>2. swapReturn(asset, n) = multiply_ratio(n, b, a + n)
  BY Zenon DEF swapReturn
<1>3. (\A d \in PoolAsset : pool.reserve[d] # 0) => a # 0 /\ b # 0
  BY TwoAssets, Zenon
<1> HIDE DEF a, b
<1>4. n # 0 => multiply_ratio(n, b, a + n) \in 0 .. b
  BY <1>1, RatioWithin
<1>5. a # 0 /\ b # 0 => multiply_ratio(n, b, a + n) \in 0 .. b - 1
  BY <1>1, RatioBelow
<1> QED BY <1>2, <1>3, <1>4, <1>5, Zenon DEF b

\* An xyk pool mints a number of shares.
LEMMA XykIsProvided ==
  ASSUME LiquidityTyped, NEW asset \in PoolAsset, NEW n \in Nat, create_xyk_liquidity_msg(asset, n),
         \A d \in PoolAsset : pool.reserve[d] # 0
  PROVE  \E m, minted \in Nat : m <= n /\ provided(onlyOf(asset, m), minted)
<1> DEFINE half == n \div 2
           return == swapReturn(asset, half)
           reserve(d) == IF d = asset THEN pool.reserve[d] + half ELSE pool.reserve[d] - return
           added(d) == IF d = asset THEN half ELSE return
           minted(d) == multiply_ratio(added(d), pool.supply, reserve(d))
           o == other(asset)
<1>1. half \in Nat /\ 2 * half \in Nat /\ 2 * half <= n
  BY SMT
<1>2. provided(onlyOf(asset, 2 * half), Min({minted(d) : d \in PoolAsset}))
  BY ZenonT(40) DEF create_xyk_liquidity_msg
<1> HIDE DEF half
<1>3. return \in 0 .. pool.reserve[o] - 1 /\ pool.reserve[o] \in Nat
  BY <1>1, SwapReturns, PoolParts, TwoAssets, ZenonT(40)
<1> HIDE DEF return
<1>4. reserve(asset) \in Nat \ {0} /\ added(asset) \in Nat
  BY <1>1, PoolParts, SMTT(30)
<1>5. reserve(o) \in Nat \ {0} /\ added(o) \in Nat
  BY <1>3, TwoAssets
<1>6. PoolAsset = {asset, o}
  BY TwoAssets, ZenonT(40)
<1> HIDE DEF o, reserve, added
<1>7. minted(asset) \in Nat /\ minted(o) \in Nat
  BY <1>4, <1>5, PoolParts, RatioDown, Zenon
<1>8. {minted(d) : d \in PoolAsset} = {minted(asset), minted(o)}
  BY <1>6, Zenon
<1> HIDE DEF minted
<1>9. Min({minted(d) : d \in PoolAsset}) \in Nat
  BY <1>7, <1>8, MinOfTwo, Zenon
<1> QED BY <1>1, <1>2, <1>9, Zenon

\* A stable or custom pool mints a number of shares.
LEMMA StableIsProvided ==
  ASSUME LiquidityTyped, NEW asset \in PoolAsset, NEW n \in Nat,
         create_stable_or_custom_liquidity_msg(asset, n), \A d \in PoolAsset : pool.reserve[d] # 0
  PROVE  \E m, minted \in Nat : m <= n /\ provided(onlyOf(asset, m), minted)
<1> DEFINE all == pool.reserve[asset] + pool.reserve[other(asset)]
           minted == multiply_ratio(n, pool.supply, all)
<1>1. all \in Nat \ {0}
  BY PoolParts, TwoAssets
<1>2. provided(onlyOf(asset, n), minted)
  BY Zenon DEF create_stable_or_custom_liquidity_msg
<1> HIDE DEF all
<1>3. minted \in Nat
  BY <1>1, PoolParts, RatioDown, Zenon
<1> HIDE DEF minted
<1>4. n <= n
  OBVIOUS
<1> QED BY <1>2, <1>3, <1>4, ZenonT(40)

\* astroport-lper: provide_single_sided_liquidity.
LEMMA SingleAstroportIsSound ==
  ASSUME LiquidityTyped, NEW asset \in PoolAsset, NEW limit \in {<< >>} \cup [1 .. 1 -> Nat], NEW range,
         provide_single_sided_astroport(asset, limit, range)
  PROVE  CallIsSound
<1> DEFINE bal == wallet[provider.input_addr][asset]
           n == provision_amount(bal, limit)
<1>1. bal \in Nat
  BY PoolParts, TokenParts, ZenonT(40)
<1>2. n \in Nat /\ (limit # << >> => n <= limit[1] /\ limit[1] \in Nat)
  BY <1>1, OneSided, SMTT(30)
<1>3. /\ market # "gamm" /\ poolKnows(provider.lp.assets)
      /\ contains(range, pool_asset_ratios(provider.lp.assets))
      /\ create_xyk_liquidity_msg(asset, n) \/ create_stable_or_custom_liquidity_msg(asset, n)
      /\ Call("single", asset, limit, range)
  BY ZenonT(40) DEF provide_single_sided_astroport
<1> HIDE DEF n
<1>4. \A d \in PoolAsset : pool.reserve[d] # 0
  BY <1>3, KnownAssets, ZenonT(40)
<1>5. PICK m \in Nat, minted \in Nat : m <= n /\ provided(onlyOf(asset, m), minted)
  BY <1>2, <1>3, <1>4, XykIsProvided, StableIsProvided, ZenonT(40)
<1>6. limit # << >> => m <= limit[1]
  BY <1>2, <1>5
<1>7. contains(range, ratioFor(provider.lp.assets))
  BY <1>3, Zenon DEF ratioFor
<1> QED BY <1>3, <1>5, <1>6, <1>7, OneSidedInTerms, Zenon

\* osmosis-gamm-withdrawer and astroport-withdrawer: withdraw_liquidity.
LEMMA WithdrawIsSound ==
  ASSUME LiquidityTyped, NEW range, withdraw_liquidity(range)
  PROVE  CallIsSound
<1> DEFINE from == remover.input_addr
           to == remover.output_addr
           shares == wallet[from][LpToken]
           out == exitPool(shares)
           burnt == [wallet EXCEPT ![from][LpToken] = 0]
           more == [d \in Token |-> IF d \in PoolAsset THEN burnt[to][d] + out[d] ELSE burnt[to][d]]
<1>1. from \in Party /\ to \in Party /\ wallet \in [Party -> [Token -> Nat]] /\ shares \in Nat
  BY PoolParts, TokenParts, Zenon DEF LiquidityTyped
<1>2. shares < pool.supply /\ Call("withdraw", LpToken, << >>, range) /\ contains(range, ratioFor(remover.lp.assets))
  BY Zenon DEF withdraw_liquidity, contains
<1>3. pool' = [reserve |-> [d \in PoolAsset |-> pool.reserve[d] - out[d]], supply |-> pool.supply - shares]
  BY Zenon DEF withdraw_liquidity
<1>4. burnt \in [Party -> [Token -> Nat]]
  BY <1>1, TokenParts, Zenon
<1>5. wallet' = [burnt EXCEPT ![to] = more]
  <2>1. DOMAIN burnt[to] = Token
    BY <1>1, <1>4, Zenon
  <2>2. wallet' = [burnt EXCEPT ![to] =
                     [d \in DOMAIN burnt[to] |-> IF d \in PoolAsset THEN burnt[to][d] + out[d] ELSE burnt[to][d]]]
    BY Zenon DEF withdraw_liquidity
  <2> QED BY <2>1, <2>2, Zenon
<1>6. \A d \in PoolAsset : out[d] \in 0 .. pool.reserve[d]
  <2> HIDE DEF shares
  <2>1. \A d \in PoolAsset : out[d] = multiply_ratio(shares, pool.reserve[d], pool.supply)
    BY ZenonT(40) DEF exitPool
  <2> HIDE DEF out
  <2>2. shares <= pool.supply /\ pool.supply \in Nat \ {0} /\ \A d \in PoolAsset : pool.reserve[d] \in Nat
    BY <1>1, <1>2, PoolParts
  <2> QED BY <1>1, <2>1, <2>2, RatioWithin, Zenon
<1>7. from # to => burnt[from][LpToken] = 0 /\ \A d \in PoolAsset : burnt[from][d] = wallet[from][d]
  BY <1>1, TokenParts, Zenon
<1>8. from # to => \A d \in PoolAsset : burnt[to][d] = wallet[to][d]
  BY <1>1, TokenParts, Zenon
<1> HIDE DEF burnt, out, shares
<1>9. more \in [Token -> Nat]
  <2>1. \A d \in Token : burnt[to][d] \in Nat
    BY <1>1, <1>4, Zenon
  <2>2. \A d \in PoolAsset : out[d] \in Nat
    BY <1>6, PoolParts
  <2>3. \A d \in PoolAsset : burnt[to][d] + out[d] \in Nat
    BY <2>1, <2>2, TokenParts
  <2> QED BY <2>1, <2>3, Zenon
<1>10. \A d \in PoolAsset : more[d] = burnt[to][d] + out[d]
  BY TokenParts, Zenon
<1> HIDE DEF more
<1>11. wallet' \in [Party -> [Token -> Nat]]
  BY <1>1, <1>4, <1>5, <1>9, Zenon
<1>12. pool' \in [reserve : [PoolAsset -> Nat], supply : Nat \ {0}]
  <2>1. \A d \in PoolAsset : pool.reserve[d] - out[d] \in Nat
    BY <1>6, PoolParts, SMTT(30)
  <2>2. pool.supply - shares \in Nat \ {0}
    BY <1>1, <1>2, PoolParts
  <2> QED BY <1>3, <2>1, <2>2, Zenon
<1>13. LiquidityTyped'
  BY <1>2, <1>11, <1>12, CallKeepsTypes, Zenon
<1>14. from # to => wallet'[from] = burnt[from] /\ wallet'[to] = more
  BY <1>1, <1>4, <1>5, ZenonT(40)
<1>15. \A d \in PoolAsset : pool.reserve[d] - pool'.reserve[d] = out[d]
  BY <1>3, <1>6, PoolParts
<1>16. \A p \in Party : \A d \in PoolAsset : wallet[p][d] \in Nat
  BY PoolParts, TokenParts, Zenon
<1>17. from # to => /\ wallet'[from][LpToken] = 0
                    /\ \A d \in PoolAsset : /\ wallet[from][d] - wallet'[from][d] = 0
                                            /\ wallet'[to][d] - wallet[to][d] = pool.reserve[d] - pool'.reserve[d]
  <2> SUFFICES ASSUME from # to
               PROVE  /\ wallet'[from][LpToken] = 0
                      /\ \A d \in PoolAsset : /\ wallet[from][d] - wallet'[from][d] = 0
                                              /\ wallet'[to][d] - wallet[to][d] = pool.reserve[d] - pool'.reserve[d]
    BY Zenon
  <2>1. wallet'[from][LpToken] = 0
    BY <1>7, <1>14, ZenonT(40)
  <2>2. ASSUME NEW d \in PoolAsset
        PROVE  /\ wallet[from][d] - wallet'[from][d] = 0
               /\ wallet'[to][d] - wallet[to][d] = pool.reserve[d] - pool'.reserve[d]
    <3>1. wallet'[from][d] = wallet[from][d] /\ wallet'[to][d] = wallet[to][d] + out[d]
      BY <1>7, <1>8, <1>10, <1>14, ZenonT(40)
    <3>2. wallet[from][d] \in Nat /\ wallet[to][d] \in Nat /\ out[d] \in Int
      BY <1>1, <1>6, <1>16, PoolParts
    <3>3. wallet[from][d] - wallet[from][d] = 0 /\ (wallet[to][d] + out[d]) - wallet[to][d] = out[d]
      BY <3>2, Differences, Zenon
    <3> QED BY <1>15, <3>1, <3>3, Zenon
  <2> QED BY <2>1, <2>2, ZenonT(40)
<1>18. asked' = [fn |-> "withdraw", asset |-> LpToken, limit |-> << >>, range |-> range]
  BY <1>2, Zenon DEF Call
<1>19. asked'.fn = "withdraw" /\ asked'.range = range
  BY <1>18, Zenon
<1>20. WithinTerms
  BY <1>2, <1>17, <1>19, Zenon DEF WithinTerms, from, to
<1> QED BY <1>13, <1>20, Zenon DEF CallIsSound

\* Steps that are no calls, and keep the types.
LEMMA MoveIsSound ==
  ASSUME LiquidityTyped, Moves,
         pool' \in [reserve : [PoolAsset -> Nat], supply : Nat \ {0}],
         wallet' \in [Party -> [Token -> Nat]],
         LibraryConfig(provider'), LibraryConfig(remover')
  PROVE  CallIsSound
<1>1. served' = served /\ served \in Nat
  BY Zenon DEF Moves, LiquidityTyped
<1>2. ~ (served' > served)
  BY <1>1
<1> QED BY <1>1, <1>2, ZenonT(40) DEF CallIsSound, LiquidityTyped, LibraryConfig

\* An update mixes two configurations, field by field.
LEMMA UpdatedConfig ==
  ASSUME NEW old, NEW fields, NEW new, LibraryConfig(old), LibraryConfig(new)
  PROVE  LibraryConfig(updated(old, fields, new))
  BY Zenon DEF LibraryConfig, updated

\* A trade leaves the pool with natural numbers.
LEMMA TradeIsSound ==
  ASSUME LiquidityTyped, NEW asset \in PoolAsset, trade(asset, 1)
  PROVE  CallIsSound
<1> DEFINE back == swapReturn(asset, 1)
<1>1. back \in 0 .. pool.reserve[other(asset)]
  BY SwapReturns
<1>2. Moves /\ wallet' = wallet /\ provider' = provider /\ remover' = remover
  BY Zenon DEF trade
<1>3. pool' = [pool EXCEPT !.reserve = [d \in PoolAsset |->
                 IF d = asset THEN pool.reserve[d] + 1 ELSE pool.reserve[d] - back]]
  BY ZenonT(40) DEF trade
<1> HIDE DEF back
<1>4. \A d \in PoolAsset : (IF d = asset THEN pool.reserve[d] + 1 ELSE pool.reserve[d] - back) \in Nat
  BY <1>1, PoolParts, TwoAssets
<1>5. pool' \in [reserve : [PoolAsset -> Nat], supply : Nat \ {0}]
  BY <1>3, <1>4, Zenon DEF LiquidityTyped
<1>6. wallet' \in [Party -> [Token -> Nat]] /\ LibraryConfig(provider') /\ LibraryConfig(remover')
  BY <1>2, Zenon DEF LiquidityTyped
<1> QED BY <1>2, <1>5, <1>6, MoveIsSound, Zenon

\* A payment reaches one address.
LEMMA PayInIsSound ==
  ASSUME LiquidityTyped, NEW asset \in PoolAsset, NEW party \in Party, pay_in(party, asset)
  PROVE  CallIsSound
<1>1. Moves /\ pool' = pool /\ provider' = provider /\ remover' = remover
  BY Zenon DEF pay_in
<1>2. wallet' = [wallet EXCEPT ![party][asset] = wallet[party][asset] + 1]
  BY Zenon DEF pay_in
<1>3. wallet[party][asset] + 1 \in Nat
  BY PoolParts, TokenParts
<1>4. wallet' \in [Party -> [Token -> Nat]]
  BY <1>2, <1>3, TokenParts, Zenon DEF LiquidityTyped
<1>5. pool' \in [reserve : [PoolAsset -> Nat], supply : Nat \ {0}] /\ LibraryConfig(provider') /\ LibraryConfig(remover')
  BY <1>1, Zenon DEF LiquidityTyped
<1> QED BY <1>1, <1>4, <1>5, MoveIsSound, Zenon

\* The owner changes a configuration.
LEMMA ConfigIsSound ==
  ASSUME LiquidityTyped, NEW fields,
         \/ \E new \in ProviderConfigs : update_provider(fields, new)
         \/ \E new \in RemoverConfigs : update_remover(fields, new)
  PROVE  CallIsSound
<1>1. \A cfg \in ProviderConfigs \cup RemoverConfigs : LibraryConfig(cfg)
  BY LiquidityConstants, ZenonT(40) DEF LibraryConfig
<1>2. Moves /\ pool' = pool /\ wallet' = wallet
  BY Zenon DEF update_provider, update_remover
<1>3. LibraryConfig(provider) /\ LibraryConfig(remover)
  BY Zenon DEF LiquidityTyped
<1>4. LibraryConfig(provider') /\ LibraryConfig(remover')
  BY <1>1, <1>3, UpdatedConfig, Zenon DEF update_provider, update_remover
<1>5. pool' \in [reserve : [PoolAsset -> Nat], supply : Nat \ {0}] /\ wallet' \in [Party -> [Token -> Nat]]
  BY <1>2, Zenon DEF LiquidityTyped
<1> QED BY <1>2, <1>4, <1>5, MoveIsSound, Zenon

\* At first everything has its type.
LEMMA InitLiquidityTyped == LiquidityInit => LiquidityTyped
<1> SUFFICES ASSUME LiquidityInit PROVE LiquidityTyped
  BY ZenonT(40)
<1>1. pool \in [reserve : [PoolAsset -> Nat], supply : Nat \ {0}] /\ wallet \in [Party -> [Token -> Nat]]
  BY LiquidityConstants, Zenon DEF LiquidityInit, Token
<1>2. LibraryConfig(provider) /\ LibraryConfig(remover)
  BY LiquidityConstants, Zenon DEF LiquidityInit, LibraryConfig
<1>3. served \in Nat
  BY Zenon DEF LiquidityInit
<1> QED BY <1>1, <1>2, <1>3, Zenon DEF LiquidityTyped

\* Every step keeps the types, and every call its terms.
LEMMA NextIsSound == LiquidityTyped /\ [LiquidityNext]_liquidityVars => CallIsSound
<1> SUFFICES ASSUME LiquidityTyped, [LiquidityNext]_liquidityVars PROVE CallIsSound
  BY Zenon
<1>1. CASE UNCHANGED liquidityVars
  <2>1. /\ pool' = pool /\ wallet' = wallet /\ provider' = provider /\ remover' = remover /\ served' = served
    BY <1>1, Zenon DEF liquidityVars
  <2>2. served \in Nat
    BY Zenon DEF LiquidityTyped
  <2>3. ~ (served' > served)
    BY <2>1, <2>2
  <2>4. LiquidityTyped'
    BY <2>1, Zenon DEF LiquidityTyped, LibraryConfig
  <2> QED BY <2>3, <2>4, Zenon DEF CallIsSound
<1>2. ASSUME NEW range, \/ provide_double_sided_gamm(range) \/ provide_double_sided_astroport(range)
                        \/ withdraw_liquidity(range)
      PROVE  CallIsSound
  BY <1>2, DoubleGammIsSound, DoubleAstroportIsSound, WithdrawIsSound, Zenon
<1>3. ASSUME NEW range, NEW asset \in PoolAsset, NEW limit \in Limits,
             \/ limit # << >> /\ provide_single_sided_gamm(asset, limit[1], range)
             \/ provide_single_sided_astroport(asset, limit, range)
      PROVE  CallIsSound
  <2>1. limit \in {<< >>} \cup [1 .. 1 -> Nat]
    BY LiquidityConstants, Zenon
  <2>2. limit # << >> => limit[1] \in Nat
    BY <2>1
  <2> QED BY <1>3, <2>1, <2>2, SingleGammIsSound, SingleAstroportIsSound, Zenon
<1>4. ASSUME NEW fields, \/ \E new \in ProviderConfigs : update_provider(fields, new)
                         \/ \E new \in RemoverConfigs : update_remover(fields, new)
      PROVE  CallIsSound
  BY <1>4, ConfigIsSound, Zenon
<1>5. ASSUME NEW asset \in PoolAsset, trade(asset, 1) \/ \E party \in Party : pay_in(party, asset)
      PROVE  CallIsSound
  BY <1>5, TradeIsSound, PayInIsSound, Zenon
<1> QED BY <1>1, <1>2, <1>3, <1>4, <1>5, Zenon DEF LiquidityNext

\* For any pool, balances, configurations, ranges and limits, and whatever trades and
\* updates come between the calls, every call keeps its terms.
THEOREM TermsAreKept == LiquiditySpec => CallsKeepTheirTerms
<1>1. LiquidityTyped /\ [LiquidityNext]_liquidityVars =>
        LiquidityTyped' /\ [served' > served => WithinTerms]_liquidityVars
  BY NextIsSound, Zenon DEF CallIsSound
<1> QED BY InitLiquidityTyped, <1>1, PTL DEF LiquiditySpec, CallsKeepTheirTerms
=============================================================================

---------------------------- MODULE ProgramUpdate ----------------------------
(***************************************************************************)
(* Changing a program that is up: ProgramConfigUpdate::update              *)
(* (program-manager/src/program_update.rs) and                             *)
(* ProgramConfigMigrate::migrate (program_migration.rs).                   *)
(*                                                                         *)
(* Neither touches the program itself.  Each reads the configuration in    *)
(* the registry, works out messages for the authorization contract, saves  *)
(* the configuration as it will be, and returns the messages for the owner *)
(* to send.  A migration builds the new program between its read and its   *)
(* save.  The registry and the contract agree only if the owner sends the  *)
(* messages, and before the next change is read; if the change keeps the   *)
(* owner, because the message that should change it is not one of the      *)
(* contract; and if it stays on the main domain, because a change writes   *)
(* another domain differently from the way init registered it.             *)
(***************************************************************************)
EXTENDS ProgramManager, SequencesExt

CONSTANTS Change,        \* changes the owner makes
          Request,       \* what a change may be asked to do
          Target         \* the id of the program that is changed

VARIABLES change,        \* the state of every change
          refused,       \* history: a message was refused by the contract
          inTurn         \* history: every change was saved, and its messages
                         \* sent, before the next was read

updateVars == <<change, refused, inTurn>>

-----------------------------------------------------------------------------
(* What a change works out from the configuration it read                  *)

\* domains: those that the authorizations or the processor of a message are on.
Message(kind, labels, domains) == [kind |-> kind, labels |-> labels, domains |-> domains]
UpdateLabel(i) == <<"update_library", i>>
AccountLabel(a) == <<"account_id", a>>
ascending(S) == SetToSortSeq(S, <)

\* The two ways to write a domain, as the words they are made of.  init registers
\* a domain with the authorization contract under the first.
get_chain_name(d) == <<d>>
to_string(d) == <<"CosmosCosmwasm", d>>

\* The domain in a message for the contract: Main, or External and a name.
OnMain == << >>
domainName(d) == IF d = Main THEN OnMain ELSE to_string(d)

\* new: the authorizations to create, with the domains of their functions.
Plan(config) ==
  [ok |-> TRUE, owner |-> config.owner, labels |-> config.labels, new |-> {}, messages |-> << >>]

\* A message for a label, which is authorized first, on domain d, if the configuration
\* does not have it yet.
insertFor(plan, label, d) ==
  [plan EXCEPT !.labels = @ \cup {label},
               !.new = IF label \in plan.labels THEN @ ELSE @ \cup {<<label, domainName(d)>>},
               !.messages = Append(@, Message("insert", {label}, {}))]

\* AuthorizationInfoUpdate: Add wants a new label, the others a known one.
authorization_update(plan, u) ==
  IF (u.op = "Add") = (u.label \in plan.labels)
  THEN [plan EXCEPT !.ok = FALSE]
  ELSE IF u.op = "Add"
       THEN [plan EXCEPT !.labels = @ \cup {u.label}, !.new = @ \cup {<<u.label, u.domain>>}]
       ELSE [plan EXCEPT !.messages = Append(@, Message(u.op, {u.label}, {}))]

createAll(plan) == Message("create", {n[1] : n \in plan.new}, {n[2] : n \in plan.new})

\* Variant: the new authorizations come last.
finished_unordered(plan) == [plan EXCEPT !.messages = Append(@, createAll(plan))]

\* The new authorizations come first: the other messages may need them.
finished(plan) == [plan EXCEPT !.messages = <<createAll(plan)>> \o @]

\* The configuration takes the new owner over, and the contract is to be told.
ownerPlan(config, r) ==
  IF r.owner = << >> THEN Plan(config)
  ELSE [Plan(config) EXCEPT !.owner = r.owner[1], !.messages = <<Message("transfer", {}, {})>>]

updatePlan(config, r) ==
  LET known == [ownerPlan(config, r) EXCEPT !.ok = r.libraries \subseteq DOMAIN config.libraries]
      inserts == FoldLeft(LAMBDA plan, i : insertFor(plan, UpdateLabel(i), config.libraries[i].domain),
                          known, ascending(r.libraries))
  IN IF known.ok THEN finished(FoldLeft(authorization_update, inserts, r.authorizations)) ELSE known

\* Every transfer is from an account of the old program to one of the new.
verify_config_migration(config, r) ==
  \A k \in DOMAIN r.transfers :
     /\ r.transfers[k].amount > 0
     /\ r.transfers[k].from \in DOMAIN config.accounts
     /\ r.transfers[k].to \in DOMAIN r.program.accounts

migratePlan(config, r) ==
  LET plan == finished(FoldLeft(LAMBDA p, t : insertFor(p, AccountLabel(t.from), t.domain),
                                Plan(config), r.transfers))
      pauses == SetToSeq({Message("pause", {}, {domainName(d)}) :
                            d \in get_all_domains(config) \cup {Main}})
  IN [plan EXCEPT !.messages = @ \o pauses]

-----------------------------------------------------------------------------
(* The steps of a change                                                    *)

ToSend(c) == change[c].messages
Busy(c) == change[c].pc \in {"read", "building"} \/ ToSend(c) # << >>

\* get_program_config, and what can be rejected at once.
readConfig(c, r) ==
  /\ change[c].pc = "idle"
  /\ Target \in DOMAIN programs
  /\ LET config == programs[Target]
         accepted == IF r.kind = "migrate" THEN verify_config_migration(config, r)
                                           ELSE updatePlan(config, r).ok
     IN change' = [change EXCEPT ![c] =
          [@ EXCEPT !.pc = CASE ~ accepted -> "failed"
                             [] r.kind = "migrate" -> "building"
                             [] OTHER -> "read",
                    !.config = config, !.request = r]]
  /\ inTurn' = (inTurn /\ \A o \in Change : ~ Busy(o))
  /\ run' = IF change'[c].pc = "building"
            THEN Saved(run, c, [pc |-> "start", prog |-> r.program, id |-> 0, todo |-> {},
                                dom |-> Main, retry |-> 0])
            ELSE run
  /\ UNCHANGED <<chainVars, refused>>

\* A migration goes on when init of the new program has returned.
built(c) ==
  /\ change[c].pc = "building"
  /\ run[c].pc \in {"done", "failed"}
  /\ change' = [change EXCEPT ![c].pc = IF run[c].pc = "done" THEN "read" ELSE "failed"]
  /\ UNCHANGED <<chainVars, run, refused, inTurn>>

planOf(c) ==
  LET r == change[c].request
  IN IF r.kind = "migrate" THEN migratePlan(change[c].config, r) ELSE updatePlan(change[c].config, r)

\* update_program_config, from the configuration that was read; the messages
\* are returned unless the transaction failed.
update_program_config(c) ==
  /\ change[c].pc = "read"
  /\ LET plan == planOf(c)
         saved == [change[c].config EXCEPT !.owner = plan.owner, !.labels = plan.labels]
         save == /\ update_program(Wallet, Target, saved)
                 /\ UNCHANGED <<contracts, authorization, bridge>>
         answer(pc, messages) == change' = [change EXCEPT ![c].pc = pc, ![c].messages = messages]
     IN \/ save /\ answer("done", plan.messages) /\ UNCHANGED inTurn
        \/ save /\ answer("failed", << >>) /\ inTurn' = FALSE
        \/ UNCHANGED chainVars /\ answer("done", plan.messages) /\ inTurn' = FALSE
        \/ UNCHANGED chainVars /\ answer("failed", << >>) /\ UNCHANGED inTurn
  /\ UNCHANGED <<run, refused>>

\* External: what the authorization contract makes of a message: a new label and
\* domains it knows, or a label that is there.  It has no message
\* "transfer_ownership": the code sends the bare cw_ownable action.
accepted(msg) ==
  LET a == authorization[Target]
  IN /\ msg.kind # "transfer"
     /\ msg.domains \subseteq {get_chain_name(d) : d \in a.domains} \cup {OnMain}
     /\ IF msg.kind = "create" THEN msg.labels \cap a.labels = {} ELSE msg.labels \subseteq a.labels

\* The owner sends the next message of a change, or no more of them.
sendMessage(c) ==
  /\ ToSend(c) # << >>
  /\ LET msg == Head(ToSend(c))
     IN /\ authorization' = IF msg.kind = "create" /\ accepted(msg)
                            THEN [authorization EXCEPT ![Target].labels = @ \cup msg.labels]
                            ELSE authorization
        /\ refused' = (refused \/ ~ accepted(msg))
  /\ change' = [change EXCEPT ![c].messages = Tail(@)]
  /\ UNCHANGED <<registryVars, contracts, bridge, run, inTurn>>

giveUp(c) ==
  /\ ToSend(c) # << >>
  /\ change' = [change EXCEPT ![c].messages = << >>]
  /\ inTurn' = FALSE
  /\ UNCHANGED <<chainVars, run, refused>>

-----------------------------------------------------------------------------
\* Program p is up under the id Target, and belongs to the manager's wallet.
UpdateInit(p) ==
  /\ last_id = Target
  /\ programs_owners = [i \in 1 .. Target |-> Wallet]
  /\ programs = (Target :> p)
  /\ programs_backup = << >>
  /\ contracts = << >>
  /\ authorization = (Target :> [owner |-> Wallet, admin |-> Wallet,
                                 labels |-> p.labels, domains |-> get_all_domains(p) \ {Main}])
  /\ bridge = << >>
  /\ run = << >>
  /\ change = [c \in Change |->
                 [pc |-> "idle", request |-> [kind |-> "none"], config |-> p, messages |-> << >>]]
  /\ refused = FALSE
  /\ inTurn = TRUE

UpdateNext ==
  \/ \E c \in Change : \/ \E r \in Request : readConfig(c, r)
                       \/ built(c)
                       \/ update_program_config(c)
                       \/ sendMessage(c)
                       \/ giveUp(c)
  \/ ManagerNext /\ UNCHANGED updateVars

-----------------------------------------------------------------------------
\* What was asked of the contract, and what had to be written about other domains.
Begun == {c \in DOMAIN change : change[c].pc \notin {"idle", "failed"}}
ChangesOwner(c) == change[c].request.kind = "update" /\ change[c].request.owner # << >>
Abroad(c) ==
  LET messages == planOf(c).messages
  IN \E k \in DOMAIN messages : ~ (messages[k].domains \subseteq {OnMain})
Settled == \A c \in DOMAIN change : ~ Busy(c)

\* If every change was saved and carried out before the next one was read, the registry
\* lists every label the contract has.  If besides the changes kept the owner and were
\* about the main domain only, their messages are all accepted, in the order they are
\* returned in, and once they are sent the registry has the labels and the owner that
\* the contract has (ProgramConfigUpdate::update, ProgramConfigMigrate::migrate).
ChangesCarryOver ==
  inTurn =>
    /\ authorization[Target].labels \subseteq programs[Target].labels
    /\ (\A c \in Begun : ~ ChangesOwner(c) /\ ~ Abroad(c)) =>
         /\ ~ refused
         /\ Settled => /\ programs[Target].labels = authorization[Target].labels
                       /\ programs[Target].owner = authorization[Target].owner

-----------------------------------------------------------------------------
\* What the documentation says and the code does not do.

\* update.md: an update can change the owner of a program.  Carried out in turn, it
\* leaves the registry and the contract with one owner.
OwnerCarriesOver ==
  inTurn /\ Settled => programs[Target].owner = authorization[Target].owner

\* update.md: the messages that are returned, sent by the owner, achieve the updated
\* program.  None of them is refused if the owner stays the same.
MessagesAreAccepted ==
  inTurn /\ (\A c \in Begun : ~ ChangesOwner(c)) => ~ refused
=============================================================================

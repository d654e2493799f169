------------------------- MODULE AuthorizationRules -------------------------
(***************************************************************************)
(* What the authorization contract lets through: which authorizations can  *)
(* be stored, which messages a stored one accepts, and who may change what.*)
(* The checks are made when an authorization is created or modified and    *)
(* relied upon when messages arrive, with domains and encoders added,      *)
(* replaced or removed in between.                                         *)
(*                                                                         *)
(* Execution ids, callbacks, token permissions, windows and concurrency    *)
(* limits are those of module Authorization.  A JSON message is a function *)
(* from the paths it has to values, << >> is not JSON; raw bytes are one   *)
(* value.                                                                  *)
(***************************************************************************)
EXTENDS Integers, Sequences, FiniteSets, Functions, StorageMap

CONSTANTS Ruler,          \* who may own the contract or be a sub-owner
          FirstRuler,     \* the first owner
          DomainInfos,    \* domains that may be added: [name, env, encoder]
          AuthInfos,      \* authorizations somebody may ask for
          Batches,        \* message sequences somebody may send
          EncoderOf,      \* the encoder contracts a version may be given
          Speaks,         \* per encoder contract, library -> message names it encodes
          MaxRulings,     \* bound on ownership calls
          MaxDelivered    \* bound on batches delivered

\* A domain runs CosmWasm or the EVM; the types of restrictions and JSON have the
\* shape that their Rust types give them: a key at the top leads to what is below.
ASSUME RulesConstants ==
  /\ \A info \in DomainInfos : info.env \in {"cosmwasm", "evm"}
  /\ \A info \in AuthInfos :
       /\ info.functions \in Seq(Range(info.functions))
       /\ \A f \in Range(info.functions) : \A r \in Range(f.restrictions) :
            r.kind \in {"MustBeIncluded", "CannotBeIncluded", "MustBeValue", "MustBeBytes"}
  /\ \A ms \in Batches :
       /\ ms \in Seq(Range(ms))
       /\ \A m \in Range(ms) : m.type # "EvmRawCall" /\ m.msg # << >> =>
            \A p \in DOMAIN m.msg[1] : <<p[1]>> \in DOMAIN m.msg[1]

VARIABLES rulers,         \* [owner, pending, first, subs, rulings]
          external_domains, \* EXTERNAL_DOMAINS: name -> [env, encoder]
          rules,          \* AUTHORIZATIONS: label -> [mode, priority, functions]
          encoders,       \* ENCODERS of the broker: version -> contract
          delivered       \* batches sent to processors

rulesVars == <<rulers, external_domains, rules, encoders, delivered>>

Nobody == "nobody"
Main == "main"
CosmwasmTypes == {"CosmwasmExecuteMsg", "CosmwasmMigrateMsg"}
EvmTypes == {"EvmCall", "EvmRawCall"}

RulesInit ==
  /\ rulers = [owner |-> FirstRuler, pending |-> Nobody, first |-> TRUE, subs |-> {}, rulings |-> 0]
  /\ external_domains = << >>
  /\ rules = << >>
  /\ encoders = [v \in DOMAIN EncoderOf |-> CHOOSE e \in EncoderOf[v] : TRUE]
  /\ delivered = {}

-----------------------------------------------------------------------------
(* Storing an authorization.                                               *)

\* Where messages for a domain run; Main is a CosmWasm chain.
envOf(d) == IF d = Main THEN "cosmwasm" ELSE external_domains[d].env
registered(d) == d = Main \/ d \in DOMAIN external_domains

\* Variant: a function may be of any domain.
validate_domain_any(f, domain) == TRUE
validate_domain(f, domain) == f.domain = domain

validate_message_type(f, domain) ==
  f.type \in IF envOf(domain) = "cosmwasm" THEN CosmwasmTypes ELSE EvmTypes

\* The broker finds the encoder of the version that the function names, which knows
\* the library; the name reserved for raw bytes is none.
is_valid_library(version, library) ==
  /\ version \in DOMAIN encoders
  /\ library \in DOMAIN Speaks[encoders[version]] \ {"no_library"}
validate_evm_library(f) == f.type = "EvmCall" => is_valid_library(f.encoder, f.library)

validate_param_restrictions(f) ==
  IF f.type = "EvmRawCall"
  THEN Len(f.restrictions) <= 1 /\ \A r \in Range(f.restrictions) : r.kind = "MustBeBytes"
  ELSE \A r \in Range(f.restrictions) : r.kind # "MustBeBytes"

validate_functions(fs) ==
  /\ fs # << >>
  /\ registered(fs[1].domain)
  /\ \A f \in Range(fs) :
       /\ validate_domain(f, fs[1].domain)
       /\ validate_message_type(f, fs[1].domain)
       /\ validate_evm_library(f)
       /\ validate_param_restrictions(f)

validate(label, a) ==
  /\ label # ""
  /\ validate_functions(a.functions)
  /\ ~(a.mode = "Permissionless" /\ a.priority = "High")

-----------------------------------------------------------------------------
(* Accepting messages.                                                     *)

\* The path of a JSON pointer: without keys it is "/", which is the empty key.
pointer(keys) == IF keys = << >> THEN <<"">> ELSE keys

check_json_restriction(json, r) ==
  LET at == pointer(r.keys)
      included == at \in DOMAIN json
      error == "InvalidMessageParams"
  IN  CASE r.kind = "MustBeIncluded" -> IF included THEN "ok" ELSE error
        [] r.kind = "CannotBeIncluded" -> IF included THEN error ELSE "ok"
        [] r.kind = "MustBeValue" ->
             IF included /\ r.value # << >> /\ r.value = <<json[at]>> THEN "ok" ELSE error
        [] OTHER -> "InvalidType"

check_bytes_restriction(msg, r) ==
  IF r.kind # "MustBeBytes" THEN "InvalidType"
  ELSE IF r.value = msg THEN "ok" ELSE "InvalidMessageParams"

topLevel(json) == {p \in DOMAIN json : Len(p) = 1}
check_restriction(m, r) ==
  IF m.type = "EvmRawCall" THEN check_bytes_restriction(m.msg, r)
  ELSE check_json_restriction(m.msg[1], r)

\* A message is of its function's type; unless it is raw bytes it is a JSON object
\* with one key, the name of the message; and it meets every restriction.
accepts_message(f, m) ==
  /\ m.type = f.type
  /\ m.type # "EvmRawCall" =>
       m.msg # << >> /\ topLevel(m.msg[1]) = {<<f.name>>}
  /\ \A r \in Range(f.restrictions) : check_restriction(m, r) = "ok"

validate_messages(a, messages) ==
  /\ Len(messages) = Len(a.functions)
  /\ \A i \in DOMAIN messages : accepts_message(a.functions[i], messages[i])

-----------------------------------------------------------------------------
(* Sending.                                                                *)

get_domain(a) == a.functions[1].domain

\* Every message is encoded by the library its function names, raw bytes by none.
encode_message(speaks, f, m) ==
  \/ m.type = "EvmRawCall"
  \/ m.type = "EvmCall" /\ f.library \in DOMAIN speaks /\ f.name \in speaks[f.library]

\* The message for the processor of a domain: on an EVM domain, what the encoder of
\* the domain makes of it.
encodes(domain, fs, messages) ==
  envOf(domain) = "evm" =>
    /\ external_domains[domain].encoder \in DOMAIN encoders
    /\ \A i \in DOMAIN messages :
         encode_message(Speaks[encoders[external_domains[domain].encoder]], fs[i], messages[i])

deliver(label, by, priority, messages) ==
  LET a == rules[label]
      domain == get_domain(a)
  IN  /\ Cardinality(delivered) < MaxDelivered
      /\ validate_messages(a, messages)
      /\ encodes(domain, a.functions, messages)
      /\ delivered' = delivered \cup
           {[label |-> label, by |-> by, priority |-> priority, domain |-> domain,
             functions |-> a.functions, messages |-> messages]}
      /\ UNCHANGED <<rulers, external_domains, rules, encoders>>

send_msgs(label, messages) ==
  label \in DOMAIN rules /\ deliver(label, "user", rules[label].priority, messages)

assert_owner(sender) == sender = rulers.owner
assert_owner_or_subowner(sender) == sender = rulers.owner \/ sender \in rulers.subs

insert_messages(sender, label, priority, messages) ==
  /\ assert_owner_or_subowner(sender)
  /\ label \in DOMAIN rules
  /\ deliver(label, "owner", priority, messages)

\* Pause, resume and evict: a message to the processor of a registered domain.
processor_message(sender, kind, domain) ==
  /\ assert_owner_or_subowner(sender)
  /\ registered(domain)
  /\ encodes(domain, << >>, << >>)
  /\ Cardinality(delivered) < MaxDelivered
  /\ delivered' = delivered \cup
       {[label |-> kind, by |-> "owner", priority |-> "Medium", domain |-> domain,
         functions |-> << >>, messages |-> << >>]}
  /\ UNCHANGED <<rulers, external_domains, rules, encoders>>

-----------------------------------------------------------------------------
(* Administration.                                                         *)

create_authorization(sender, info) ==
  /\ assert_owner_or_subowner(sender)
  /\ info.label \notin DOMAIN rules
  /\ validate(info.label, info)
  /\ rules' = Saved(rules, info.label, [mode |-> info.mode, priority |-> info.priority,
                                        functions |-> info.functions])
  /\ UNCHANGED <<rulers, external_domains, encoders, delivered>>

modify_authorization(sender, label, priority) ==
  /\ assert_owner_or_subowner(sender)
  /\ label \in DOMAIN rules
  /\ validate(label, [rules[label] EXCEPT !.priority = priority])
  /\ rules' = [rules EXCEPT ![label].priority = priority]
  /\ UNCHANGED <<rulers, external_domains, encoders, delivered>>

add_external_domain(sender, info) ==
  /\ assert_owner_or_subowner(sender)
  /\ info.name \notin DOMAIN external_domains
  /\ external_domains' = Saved(external_domains, info.name, [env |-> info.env, encoder |-> info.encoder])
  /\ UNCHANGED <<rulers, rules, encoders, delivered>>

Ruling(new) ==
  /\ rulers.rulings < MaxRulings
  /\ rulers' = [new EXCEPT !.rulings = @ + 1]
  /\ UNCHANGED <<external_domains, rules, encoders, delivered>>

add_sub_owner(sender, s) ==
  assert_owner(sender) /\ Ruling([rulers EXCEPT !.subs = @ \cup {s}])
remove_sub_owner(sender, s) ==
  assert_owner(sender) /\ Ruling([rulers EXCEPT !.subs = @ \ {s}])

\* The first transfer is at once; a later one is offered.
transfer_ownership(sender, to) ==
  /\ assert_owner(sender)
  /\ Ruling(IF rulers.first
            THEN [rulers EXCEPT !.owner = to, !.pending = Nobody, !.first = FALSE]
            ELSE [rulers EXCEPT !.pending = to])
accept_ownership(sender) ==
  /\ sender = rulers.pending
  /\ Ruling([rulers EXCEPT !.owner = sender, !.pending = Nobody])
renounce_ownership(sender) ==
  assert_owner(sender) /\ Ruling([rulers EXCEPT !.owner = Nobody, !.pending = Nobody])

\* The owner of the encoder broker.
register_encoder(v, e) ==
  /\ encoders' = Saved(encoders, v, e)
  /\ UNCHANGED <<rulers, external_domains, rules, delivered>>
remove_encoder(v) ==
  /\ encoders' = Without(encoders, v)
  /\ UNCHANGED <<rulers, external_domains, rules, delivered>>

-----------------------------------------------------------------------------
Priorities == {"Medium", "High"}

RulesNext ==
  \/ \E sender \in Ruler :
       \/ \E info \in AuthInfos : create_authorization(sender, info)
       \/ \E info \in DomainInfos : add_external_domain(sender, info)
       \/ \E label \in DOMAIN rules, p \in Priorities :
            \/ modify_authorization(sender, label, p)
            \/ \E ms \in Batches : insert_messages(sender, label, p, ms)
       \/ \E kind \in {"pause", "resume", "evict"}, d \in {Main} \cup DOMAIN external_domains :
            processor_message(sender, kind, d)
       \/ \E other \in Ruler :
            add_sub_owner(sender, other) \/ remove_sub_owner(sender, other) \/ transfer_ownership(sender, other)
       \/ accept_ownership(sender)
       \/ renounce_ownership(sender)
  \/ \E label \in DOMAIN rules, ms \in Batches : send_msgs(label, ms)
  \/ \E v \in DOMAIN EncoderOf : remove_encoder(v) \/ \E e \in EncoderOf[v] : register_encoder(v, e)

RulesSpec == RulesInit /\ [][RulesNext]_rulesVars

-----------------------------------------------------------------------------
\* What a path restriction asks, read off the message.
Meets(json, r) ==
  CASE r.kind = "MustBeIncluded" -> pointer(r.keys) \in DOMAIN json
    [] r.kind = "CannotBeIncluded" -> pointer(r.keys) \notin DOMAIN json
    [] r.kind = "MustBeValue" -> \E p \in DOMAIN json : p = pointer(r.keys) /\ r.value = <<json[p]>>
    [] OTHER -> FALSE

\* Every batch a processor receives is one message for each function of the label, all
\* of functions of its own domain and of a type that runs there, each the message the
\* function names within its restrictions: although the domain, its environment and
\* the restrictions were checked when the label was created or last modified.  Of a
\* label that anyone may use, only the owner's batches have high priority, however the
\* label was modified.  And no message of the type of a stored function meets a
\* restriction that its check does not handle: check_json_restriction and
\* check_bytes_restriction both say "We should never get here".
ProcessorsGetWhatWasAuthorized ==
  /\ \A d \in delivered :
       /\ Len(d.messages) = Len(d.functions)
       /\ \A i \in DOMAIN d.messages :
            LET f == d.functions[i]
                m == d.messages[i]
            IN  /\ f.domain = d.domain
                /\ m.type \in IF envOf(d.domain) = "evm" THEN EvmTypes ELSE CosmwasmTypes
                /\ IF m.type = "EvmRawCall"
                   THEN \A r \in Range(f.restrictions) : r.value = m.msg
                   ELSE /\ \A p \in DOMAIN m.msg[1] : p[1] = f.name
                        /\ \A r \in Range(f.restrictions) : Meets(m.msg[1], r)
       /\ d.by = "user" /\ d.label \in DOMAIN rules /\ rules[d.label].mode = "Permissionless" =>
            d.priority # "High"
  /\ \A label \in DOMAIN rules : \A f \in Range(rules[label].functions) :
       \A ms \in Batches : \A m \in Range(ms) :
         m.type = f.type /\ m.msg # << >> =>
           \A r \in Range(f.restrictions) : check_restriction(m, r) # "InvalidType"
=============================================================================

------------------------- MODULE CrossChain_proofs --------------------------
(***************************************************************************)
(* What works over IBC, for every number of accounts, packets, transfers   *)
(* and queries, and every configuration:                                   *)
(*   - what the interchain account says of itself is so;                   *)
(*   - what a transfer library sends lands where it is configured to, or   *)
(*     comes back;                                                         *)
(*   - an answer to a query is one the querier still waits for.            *)
(* And the two storage queues in which processors keep what came, in       *)
(* CosmWasm and in EVM storage: both implement FifoQueue, for every set of *)
(* entries and every width of their counters, words and lengths.  And what *)
(* the authorization contract sends them: only what was authorized.        *)
(***************************************************************************)
EXTENDS InterchainAccount, IbcTransfer, IcQuerier, QueueMap, EvmQueue, AuthorizationRules, TLAPS

-----------------------------------------------------------------------------
\* The interchain account.
Channel == [phase : {"handshake", "open", "closed"}, address : Remote \cup {Nowhere}]
Packet == [channel : Nat, from : Remote \cup {Nowhere}, seq : Nat]

IcaTyped ==
  /\ ica_state \in [status : Status, address : Remote \cup {Nowhere}]
  /\ channels \in Seq(Channel)
  /\ packets \subseteq Packet
  /\ packetsSent \in Nat
  /\ \A p \in packets : p.channel \in DOMAIN channels

\* Two channels are never open at a time, and a packet was sent on a channel that
\* has had its handshake, so that its address no longer changes.
OneChannel ==
  /\ \A c, d \in OpenChannels : c = d
  /\ \A p \in packets : channels[p.channel].phase # "handshake"

IcaInv == IcaTyped /\ OneChannel /\ LibrariesSpeakForTheAccount

\* An account that was instantiated and never registered.
LEMMA InitIcaInv == IcaInit => IcaInv
  BY DEF IcaInit, IcaInv, IcaTyped, OneChannel, LibrariesSpeakForTheAccount, OpenChannels, Ica,
         Status, Channel, Packet

\* Steps that touch neither the channels nor what the contract says of them.
LEMMA ElsewhereIcaInv ==
  ASSUME IcaInv, UNCHANGED <<ica_state, channels, packets, packetsSent>>
  PROVE  IcaInv'
  BY ZenonT(40) DEF IcaInv, IcaTyped, OneChannel, LibrariesSpeakForTheAccount, OpenChannels

\* A registration adds a channel that is not open yet; none is open, so the account
\* was not created.
LEMMA RegisterIcaInv == ASSUME IcaInv, try_register_ica PROVE IcaInv'
<1> DEFINE new == [phase |-> "handshake", address |-> Nowhere]
<1>1. new \in Channel /\ channels \in Seq(Channel) /\ channels' = Append(channels, new)
  BY Zenon DEF try_register_ica, IcaInv, IcaTyped, Channel
<1>2. /\ channels' \in Seq(Channel) /\ Len(channels') = Len(channels) + 1
      /\ DOMAIN channels = 1 .. Len(channels) /\ DOMAIN channels' = 1 .. Len(channels) + 1
      /\ Len(channels) \in Nat
      /\ channels'[Len(channels) + 1] = new
      /\ \A c \in DOMAIN channels : channels'[c] = channels[c]
  BY <1>1
<1>3. OpenChannels' = {}
  BY <1>2 DEF try_register_ica, OpenChannels
<1>4. ica_state' = Ica("InProgress", Nowhere) /\ UNCHANGED <<packets, packetsSent>>
  BY Zenon DEF try_register_ica
<1>5. IcaTyped'
  BY <1>2, <1>4 DEF IcaInv, IcaTyped, Ica, Status
<1>6. OneChannel' /\ LibrariesSpeakForTheAccount'
  BY <1>2, <1>3, <1>4, Zenon DEF IcaInv, IcaTyped, OneChannel, LibrariesSpeakForTheAccount, Ica
<1> QED BY <1>5, <1>6, Zenon DEF IcaInv

\* A packet goes out on the open channel: the only one, so if it names the account's
\* address, that is the channel's.
LEMMA SendIcaInv ==
  ASSUME IcaInv, NEW sender, NEW from \in Remote \cup {Nowhere}, execute_ica_msg(sender, from),
         from # Nowhere => get_remote_ica_address(from)
  PROVE  IcaInv'
<1>1. PICK c \in OpenChannels :
        packets' = packets \cup {[channel |-> c, from |-> from, seq |-> packetsSent + 1]}
  BY Zenon DEF execute_ica_msg
<1>2. UNCHANGED <<ica_state, channels>> /\ packetsSent' = packetsSent + 1
  BY Zenon DEF execute_ica_msg
<1>3. c \in DOMAIN channels /\ c \in Nat /\ channels[c].phase = "open"
  BY DEF IcaInv, IcaTyped, OpenChannels
<1>4. from # Nowhere => from = channels[c].address
  BY Zenon DEF IcaInv, OneChannel, LibrariesSpeakForTheAccount, get_remote_ica_address
<1>5. IcaTyped'
  BY <1>1, <1>2, <1>3 DEF IcaInv, IcaTyped, Packet
<1>6. OneChannel' /\ LibrariesSpeakForTheAccount'
  BY <1>1, <1>2, <1>3, <1>4 DEF IcaInv, OneChannel, LibrariesSpeakForTheAccount, OpenChannels
<1> QED BY <1>5, <1>6, Zenon DEF IcaInv

\* Closing a channel keeps its address, and a timeout makes the contract say so.
LEMMA CloseIcaInv ==
  ASSUME IcaInv, NEW p \in packets, Close(p.channel), packets' = packets \ {p},
         ica_state' = Ica("Closed", Nowhere), UNCHANGED packetsSent
  PROVE  IcaInv'
<1>1. p.channel \in DOMAIN channels /\ channels \in Seq(Channel) /\ p.channel \in 1 .. Len(channels)
  BY DEF IcaInv, IcaTyped
<1> DEFINE closed == [channels[p.channel] EXCEPT !.phase = "closed"]
<1>2. channels[p.channel] \in Channel
  BY <1>1
<1>3. closed \in Channel /\ closed.phase = "closed" /\ closed.address = channels[p.channel].address
  BY <1>2, Zenon DEF Channel
<1>4. channels' = [channels EXCEPT ![p.channel] = closed]
  BY Zenon DEF Close
<1> HIDE DEF closed
<1>5. /\ channels' \in Seq(Channel) /\ DOMAIN channels' = DOMAIN channels
      /\ channels'[p.channel] = closed
      /\ \A c \in DOMAIN channels : c # p.channel => channels'[c] = channels[c]
  BY <1>1, <1>3, <1>4
<1>6. OpenChannels' \subseteq OpenChannels
  BY <1>3, <1>5, Zenon DEF OpenChannels
<1>7. IcaTyped'
  BY <1>5, Zenon DEF IcaInv, IcaTyped, Ica, Status
<1>8. OneChannel' /\ LibrariesSpeakForTheAccount'
  BY <1>3, <1>5, <1>6, ZenonT(40) DEF IcaInv, IcaTyped, OneChannel, LibrariesSpeakForTheAccount, Ica
<1> QED BY <1>7, <1>8, Zenon DEF IcaInv

\* A packet that is answered leaves, and nothing else changes.
LEMMA AnsweredIcaInv ==
  ASSUME IcaInv, NEW p \in packets, packets' = packets \ {p},
         UNCHANGED <<ica_state, channels, packetsSent>>
  PROVE  IcaInv'
  BY Zenon DEF IcaInv, IcaTyped, OneChannel, LibrariesSpeakForTheAccount, OpenChannels

\* A handshake completes while no channel is open: no packet is on that channel, and
\* a contract that cannot read the address did not say that the account is created.
LEMMA OpenIcaInv ==
  ASSUME IcaInv, NEW c \in DOMAIN channels, NEW address \in Remote, NEW parsed \in BOOLEAN,
         sudo_open_ack(c, address, parsed)
  PROVE  IcaInv'
<1>1. channels \in Seq(Channel) /\ c \in 1 .. Len(channels) /\ channels[c].phase = "handshake"
  BY DEF IcaInv, IcaTyped, sudo_open_ack
<1>2. [phase |-> "open", address |-> address] \in Channel
  BY Zenon DEF Channel
<1>3. /\ channels' \in Seq(Channel) /\ DOMAIN channels' = DOMAIN channels
      /\ channels'[c] = [phase |-> "open", address |-> address]
      /\ \A d \in DOMAIN channels : d # c => channels'[d] = channels[d]
  BY <1>1, <1>2 DEF sudo_open_ack
<1>4. OpenChannels' = {c}
  BY <1>3, Zenon DEF OpenChannels, sudo_open_ack
<1>5. /\ ica_state.status # "Created"
      /\ ica_state' = Ica("Created", address) \/ ica_state' = ica_state
      /\ UNCHANGED <<packets, packetsSent>>
  BY Zenon DEF IcaInv, LibrariesSpeakForTheAccount, sudo_open_ack
<1>6. \A p \in packets : p.channel \in DOMAIN channels /\ p.channel # c
  BY <1>1, Zenon DEF IcaInv, IcaTyped, OneChannel
<1>7. IcaTyped'
  BY <1>3, <1>5 DEF IcaInv, IcaTyped, Ica, Status
<1>8. OneChannel'
  BY <1>3, <1>4, <1>5, <1>6, Zenon DEF IcaInv, OneChannel
<1>9. LibrariesSpeakForTheAccount'
  BY <1>3, <1>4, <1>5, <1>6 DEF IcaInv, LibrariesSpeakForTheAccount, Ica
<1> QED BY <1>7, <1>8, <1>9, Zenon DEF IcaInv

\* Every step keeps the invariant.
LEMMA NextIcaInv == IcaInv /\ [IcaNext]_icaVars => IcaInv'
<1> SUFFICES ASSUME IcaInv, [IcaNext]_icaVars PROVE IcaInv'
  BY Zenon
<1>1. CASE UNCHANGED icaVars
  BY <1>1, ElsewhereIcaInv, Zenon DEF icaVars
<1>2. ASSUME NEW sender \in Admin, NEW l \in Library,
             approve_ica_library(sender, l) \/ remove_ica_library(sender, l)
      PROVE  IcaInv'
  BY <1>2, ElsewhereIcaInv, Zenon DEF approve_ica_library, remove_ica_library
<1>3. ASSUME NEW sender \in Admin, NEW to \in Admin, update_ica_ownership(sender, to)
      PROVE  IcaInv'
  BY <1>3, ElsewhereIcaInv, Zenon DEF update_ica_ownership
<1>4. ASSUME NEW sender \in Admin \cup Library,
             execute_msg(sender, 1) \/ execute_ica_msg(sender, Nowhere)
      PROVE  IcaInv'
  BY <1>4, ElsewhereIcaInv, SendIcaInv, Zenon DEF execute_msg
<1>5. CASE try_register_ica
  BY <1>5, RegisterIcaInv, Zenon
<1>6. ASSUME NEW l \in Library, transferRemote(l) PROVE IcaInv'
  BY <1>6, SendIcaInv, Zenon DEF transferRemote
<1>7. ASSUME NEW p \in packets, sudo_timeout(p) PROVE IcaInv'
  BY <1>7, CloseIcaInv, Zenon DEF sudo_timeout
<1>8. ASSUME NEW p \in packets, NEW named \in BOOLEAN, sudo_response(p, named) PROVE IcaInv'
  BY <1>8, CloseIcaInv, AnsweredIcaInv, Zenon DEF sudo_response
<1>9. ASSUME NEW c \in DOMAIN channels, NEW a \in Remote, NEW parsed \in BOOLEAN,
             sudo_open_ack(c, a, parsed)
      PROVE  IcaInv'
  BY <1>9, OpenIcaInv, Zenon
<1>10. CASE fund
  BY <1>10, ElsewhereIcaInv, Zenon DEF fund
<1> QED
  BY <1>1, <1>2, <1>3, <1>4, <1>5, <1>6, <1>7, <1>8, <1>9, <1>10, Zenon DEF IcaNext, openAck

\* Whenever the contract says that the account is created, a channel is open that
\* leads to the address it tells, and every packet a library sent in the account's
\* name is on a channel of that address, for any number of registrations, timeouts,
\* late answers and versions it cannot read.
THEOREM AccountIsItsChannel == IcaSpec => []LibrariesSpeakForTheAccount
<1>1. IcaInv => LibrariesSpeakForTheAccount
  BY Zenon DEF IcaInv
<1> QED BY InitIcaInv, NextIcaInv, <1>1, PTL DEF IcaSpec

-----------------------------------------------------------------------------
\* Transfers.  A transfer under way, and where it is on its route.
Wire(i, cfg, fn, leg, chain, channel, to, amount, memo) ==
  [id |-> i, cfg |-> cfg, fn |-> fn,
   msg |-> [channel |-> channel, to |-> to, denom |-> cfg.denom, amount |-> amount, memo |-> memo],
   leg |-> leg, chain |-> chain]

Reached(cfg, fn, chain, to) == chain = Destination(cfg, fn) /\ to = cfg.output_addr

OnRoute(cfg, fn, leg, chain, to, memo) ==
  \/ /\ fn = "EurekaTransfer" /\ memo = build_eureka_memo(cfg.output_addr, cfg.eureka_config[1])
     /\ \/ leg = "first" /\ to = cfg.eureka_config[1].callback_contract
        \/ leg = "eureka" /\ Reached(cfg, fn, chain, to)
  \/ /\ fn = "IbcTransfer" /\ cfg.denom \in DOMAIN cfg.denom_to_pfm_map
     /\ memo = Forward(cfg.output_addr, cfg.denom_to_pfm_map[cfg.denom].hop_to_destination_chain_channel_id)
     /\ \/ leg = "first"
        \/ leg = "forwarded" /\ Reached(cfg, fn, chain, to)
  \/ /\ fn = "IbcTransfer" /\ cfg.denom \notin DOMAIN cfg.denom_to_pfm_map
     /\ memo = Plain(cfg.memo) /\ leg = "first" /\ Reached(cfg, fn, chain, to)

IsWire(w) ==
  \E i, cfg, fn, leg, chain, channel, to, memo : \E amount \in Nat :
    w = Wire(i, cfg, fn, leg, chain, channel, to, amount, memo) /\ OnRoute(cfg, fn, leg, chain, to, memo)

\* t ended where its configuration sends it, with the recover address, or with the
\* address that is configured for the hop.
EndedWell(t) ==
  \/ t.chain = Destination(t.cfg, t.fn) /\ t.address = t.cfg.output_addr
  \/ /\ t.fn = "EurekaTransfer"
     /\ t.chain = Leads[t.cfg.channel] /\ t.address = t.cfg.eureka_config[1].recover_address
  \/ /\ t.fn = "IbcTransfer" /\ t.cfg.denom \in DOMAIN t.cfg.denom_to_pfm_map
     /\ t.chain = Leads[hopConfig(t.cfg).local_to_hop_chain_channel_id]
     /\ t.address = hopAddress(t.cfg) /\ t.address \in HopAddress

RouteTyped ==
  /\ {"amount", "denom"} \subseteq DOMAIN route
  /\ route.amount \in Amounts /\ route.denom \in Coins
  /\ transferrer = "ica" => route.amount # Full

TransferInv ==
  /\ RouteTyped
  /\ held \in [Coins -> Nat]
  /\ \A w \in wires : IsWire(w)
  /\ \A t \in landed : EndedWell(t)

\* The fee is a number.
LEMMA FeeTyped == total_fee \in Nat
  BY TransferConstants, Zenon DEF total_fee

\* What a configuration asks for and what it sends are numbers.
LEMMA AmountsTyped ==
  ASSUME RouteTyped, held \in [Coins -> Nat]
  PROVE  /\ amountOf(route) \in Nat /\ sentAmount(route) \in Int
         /\ route.amount # Full => route.amount[1] \in Nat
<1>1. route.amount # Full => route.amount[1] \in Nat
  BY DEF RouteTyped, Amounts
<1>2. held[route.denom] \in Nat
  BY Zenon DEF RouteTyped
<1>3. amountOf(route) \in Nat
  BY <1>1, <1>2, Zenon DEF amountOf
<1> QED BY <1>1, <1>3, FeeTyped DEF sentAmount, transfer_amount

\* The neutron library accepts what the account can pay, amount and fee, and no more.
LEMMA AcceptedIffPayable ==
  ASSUME TransferInv, transferrer = "neutron"
  PROVE  accepts(route, "IbcTransfer") <=> sentAmount(route) >= 0 /\ Payable(route)
<1> DEFINE a == amountOf(route)
           fee == total_fee
           sent == sentAmount(route)
<1>1. a \in Nat /\ fee \in Nat /\ held \in [Coins -> Nat] /\ route.denom \in Coins
  BY AmountsTyped, FeeTyped, Zenon DEF TransferInv, RouteTyped
<1>2. /\ sent = IF route.denom = Ntrn /\ a = held[Ntrn] THEN a - fee ELSE a
      /\ accepts(route, "IbcTransfer") <=>
           /\ held[route.denom] >= a
           /\ IF route.denom = Ntrn THEN IF a = held[Ntrn] THEN a >= fee ELSE held[Ntrn] >= a + fee
                                    ELSE held[Ntrn] >= fee
  BY DEF accepts, enough, covers_fee, sentAmount, transfer_amount
<1>3. \A d \in Coins :
        PaidFor(route)[d] = (IF d = route.denom THEN sent ELSE 0) + (IF d = Ntrn THEN fee ELSE 0)
  BY Zenon DEF PaidFor
<1>4. Payable(route) <=> \A d \in Coins : PaidFor(route)[d] <= held[d]
  BY Zenon DEF Payable
<1> HIDE DEF a, fee, sent
<1>5. Ntrn \in Coins
  BY TransferConstants, Zenon
<1>6. CASE route.denom = Ntrn
  <2>1. Payable(route) <=> sent + fee <= held[Ntrn]
    BY <1>1, <1>2, <1>3, <1>4, <1>5, <1>6
  <2> QED BY <1>1, <1>2, <1>5, <1>6, <2>1 DEF sent
<1>7. CASE route.denom # Ntrn
  <2>1. Payable(route) <=> sent <= held[route.denom] /\ fee <= held[Ntrn]
    BY <1>1, <1>2, <1>3, <1>4, <1>5, <1>7
  <2> QED BY <1>1, <1>2, <1>5, <1>7, <2>1 DEF sent
<1> QED BY <1>6, <1>7, Zenon

\* A transfer starts on its route.
LEMMA StartsOnRoute ==
  ASSUME RouteTyped, held \in [Coins -> Nat], NEW fn \in {"IbcTransfer", "EurekaTransfer"},
         NEW i, NEW a \in Nat
  PROVE  LET msg == messageOf(route, fn, a)
         IN IsWire([id |-> i, cfg |-> route, fn |-> fn, msg |-> msg, leg |-> "first",
                    chain |-> Leads[msg.channel]])
<1> DEFINE n == IF transferrer = "ica" THEN route.amount[1] ELSE a
           e == route.eureka_config[1]
           pfm == route.denom_to_pfm_map
           msg == messageOf(route, fn, a)
<1>1. n \in Nat
  BY AmountsTyped, Zenon DEF RouteTyped
<1> HIDE DEF n
<1>2. CASE fn = "EurekaTransfer"
  <2> DEFINE memo == build_eureka_memo(route.output_addr, e)
             to == e.callback_contract
  <2>1. msg = ibc_send_message(route.channel, to, route.denom, n, memo, << >>)
    BY <1>2, Zenon DEF messageOf, create_msg_transfer, eurekaPfm, n
  <2>2. msg = [channel |-> route.channel, to |-> to, denom |-> route.denom, amount |-> n, memo |-> memo]
    BY <2>1 DEF ibc_send_message
  <2>3. OnRoute(route, fn, "first", Leads[route.channel], to, memo)
    BY <1>2, Zenon DEF OnRoute
  <2>4. [id |-> i, cfg |-> route, fn |-> fn, msg |-> msg, leg |-> "first", chain |-> Leads[msg.channel]]
          = Wire(i, route, fn, "first", Leads[route.channel], route.channel, to, n, memo)
    <3> HIDE DEF msg, memo, to
    <3> QED BY <2>2, Zenon DEF Wire
  <2> HIDE DEF memo, to
  <2> QED BY <1>1, <2>3, <2>4, Zenon DEF IsWire
<1>3. CASE fn = "IbcTransfer" /\ route.denom \in DOMAIN pfm
  <2> DEFINE p == pfm[route.denom]
             memo == Forward(route.output_addr, p.hop_to_destination_chain_channel_id)
             to == hopReceiver(p.hop_chain_receiver_address)
             c == p.local_to_hop_chain_channel_id
  <2>1. msg = ibc_send_message(route.channel, route.output_addr, route.denom, n, Plain(route.memo), pfm)
    BY <1>3, Zenon DEF messageOf, create_msg_transfer, n
  <2>2. msg = [channel |-> c, to |-> to, denom |-> route.denom, amount |-> n, memo |-> memo]
    BY <1>3, <2>1, Zenon DEF ibc_send_message
  <2>3. OnRoute(route, fn, "first", Leads[c], to, memo)
    BY <1>3, Zenon DEF OnRoute
  <2>4. [id |-> i, cfg |-> route, fn |-> fn, msg |-> msg, leg |-> "first", chain |-> Leads[msg.channel]]
          = Wire(i, route, fn, "first", Leads[c], c, to, n, memo)
    <3> HIDE DEF msg, memo, to, c
    <3> QED BY <2>2, Zenon DEF Wire
  <2> HIDE DEF memo, to, c
  <2> QED BY <1>1, <2>3, <2>4, Zenon DEF IsWire
<1>4. CASE fn = "IbcTransfer" /\ route.denom \notin DOMAIN pfm
  <2> DEFINE memo == Plain(route.memo)
             to == route.output_addr
  <2>1. msg = ibc_send_message(route.channel, to, route.denom, n, memo, pfm)
    BY <1>4, Zenon DEF messageOf, create_msg_transfer, n
  <2>2. msg = [channel |-> route.channel, to |-> to, denom |-> route.denom, amount |-> n, memo |-> memo]
    BY <1>4, <2>1, Zenon DEF ibc_send_message
  <2>3. OnRoute(route, fn, "first", Leads[route.channel], to, memo)
    BY <1>4, Zenon DEF OnRoute, Reached, Destination
  <2>4. [id |-> i, cfg |-> route, fn |-> fn, msg |-> msg, leg |-> "first", chain |-> Leads[msg.channel]]
          = Wire(i, route, fn, "first", Leads[route.channel], route.channel, to, n, memo)
    <3> HIDE DEF msg, memo, to
    <3> QED BY <2>2, ZenonT(40) DEF Wire
  <2> HIDE DEF memo, to
  <2> QED BY <1>1, <2>3, <2>4, Zenon DEF IsWire
<1> QED BY <1>2, <1>3, <1>4, Zenon

\* Nothing was sent yet.
LEMMA InitTransferInv == TransferInit => TransferInv
<1> SUFFICES ASSUME TransferInit PROVE TransferInv
  BY Zenon
<1>1. RouteTyped
  BY TransferConstants, Zenon DEF TransferInit, RouteTyped, valid_route
<1> QED BY <1>1, Zenon DEF TransferInit, TransferInv

\* The owner changes the route; what is under way keeps its own.
LEMMA UpdateTransferInv ==
  ASSUME TransferInv, NEW u \in RouteUpdates, update_route(u) PROVE TransferInv'
<1>1. /\ DOMAIN route' = DOMAIN route
      /\ \A f \in {"amount", "denom"} : route'[f] = IF f \in DOMAIN u THEN u[f] ELSE route[f]
  BY Zenon DEF update_route, TransferInv, RouteTyped
<1>2. /\ "amount" \in DOMAIN u => u.amount \in Amounts /\ (transferrer = "ica" => u.amount # Full)
      /\ "denom" \in DOMAIN u => u.denom \in Coins
  <2>1. valid_route(u)
    BY Zenon DEF update_route
  <2>2. /\ "amount" \in DOMAIN u => u.amount \in Amounts
        /\ "denom" \in DOMAIN u => u.denom \in Coins
    BY TransferConstants, Zenon
  <2> QED BY <2>1, <2>2, Zenon DEF valid_route
<1>3. UNCHANGED <<transferrer, wires, landed>>
  BY Zenon DEF update_route
<1>4. RouteTyped'
  BY <1>1, <1>2, <1>3, Zenon DEF TransferInv, RouteTyped
<1>5. held' \in [Coins -> Nat]
  <2>1. held' \in [Coins -> 0 .. MaxHeld] \/ held' = held
    BY Zenon DEF update_route
  <2>2. CASE held' \in [Coins -> 0 .. MaxHeld]
    <3>1. \A d \in Coins : held'[d] \in Nat
      BY <2>2
    <3> QED BY <2>2, <3>1, Zenon
  <2> QED BY <2>1, <2>2, Zenon DEF TransferInv
<1> QED BY <1>3, <1>4, <1>5, Zenon DEF TransferInv

\* A transfer leaves.
LEMMA LeaveTransferInv ==
  ASSUME TransferInv, NEW fn \in {"IbcTransfer", "EurekaTransfer"}, transfer(fn) PROVE TransferInv'
<1>1. RouteTyped /\ held \in [Coins -> Nat]
  BY Zenon DEF TransferInv
<1>2. sentAmount(route) \in Nat /\ total_fee \in Nat
  BY <1>1, AmountsTyped, FeeTyped DEF transfer
<1>3. held' \in [Coins -> Nat]
  <2> SUFFICES ASSUME NEW d \in Coins PROVE held[d] - PaidFor(route)[d] \in Nat
    BY Zenon DEF transfer
  <2>1. PaidFor(route)[d] \in Nat
    BY <1>2 DEF PaidFor
  <2>2. PaidFor(route)[d] <= held[d]
    BY Zenon DEF transfer, Payable
  <2> QED BY <1>1, <2>1, <2>2
<1> DEFINE msg == messageOf(route, fn, sentAmount(route))
           w == [id |-> transfers, cfg |-> route, fn |-> fn, msg |-> msg, leg |-> "first",
                 chain |-> Leads[msg.channel]]
<1>4. wires' = wires \cup {w} /\ UNCHANGED <<transferrer, route, landed>>
  BY Zenon DEF transfer
<1>5. IsWire(w)
  BY <1>1, <1>2, StartsOnRoute, Zenon
<1> HIDE DEF w
<1> QED BY <1>1, <1>3, <1>4, <1>5, Zenon DEF TransferInv, RouteTyped

\* One transfer is replaced by where it goes, or ends.
LEMMA MovesTransferInv ==
  ASSUME TransferInv, UNCHANGED <<transferrer, route>>, held' \in [Coins -> Nat],
         \A w \in wires' : w \in wires \/ IsWire(w),
         \A t \in landed' : t \in landed \/ EndedWell(t)
  PROVE  TransferInv'
  BY Zenon DEF TransferInv, RouteTyped

\* A leg arrives.
LEMMA ArriveTransferInv == ASSUME TransferInv, NEW w \in wires, arrive(w) PROVE TransferInv'
<1>1. PICK i, cfg, fn, leg, chain, channel, to, memo : \E amount \in Nat :
        w = Wire(i, cfg, fn, leg, chain, channel, to, amount, memo) /\ OnRoute(cfg, fn, leg, chain, to, memo)
  BY Zenon DEF TransferInv, IsWire
<1>2. PICK amount \in Nat : w = Wire(i, cfg, fn, leg, chain, channel, to, amount, memo)
  BY <1>1, Zenon
<1>3. /\ w.leg = leg /\ w.cfg = cfg /\ w.fn = fn /\ w.id = i /\ w.chain = chain
      /\ w.msg = [channel |-> channel, to |-> to, denom |-> cfg.denom, amount |-> amount, memo |-> memo]
      /\ w.msg.memo = memo /\ w.msg.to = to
  BY <1>2, Zenon DEF Wire
<1>4. OnRoute(cfg, fn, leg, chain, to, memo)
  BY <1>1, Zenon
<1>5. UNCHANGED <<transferrer, route, held>> /\ held \in [Coins -> Nat]
  BY Zenon DEF arrive, TransferInv
<1> DEFINE acts == leg = "first" /\ memo.kind = "eureka" /\ to = memo.callback
           forwards == leg = "first" /\ memo.kind = "forward"
<1>6. IF acts \/ forwards
      THEN wires' = (wires \ {w}) \cup {Onward(w, IF acts THEN "eureka" ELSE "forwarded")} /\ UNCHANGED landed
      ELSE wires' = wires \ {w} /\ landed' = landed \cup {Ended(w, chain, to)}
  <2>1. (w.leg = leg /\ w.chain = chain) /\ (w.msg.memo = memo /\ w.msg.to = to)
    BY <1>3, ZenonT(40)
  <2> QED BY <2>1, Zenon DEF arrive
<1>7. \A l : Onward(w, l) = Wire(i, cfg, fn, l, Leads[memo.channel], memo.channel, memo.receiver, amount, memo)
  <2> SUFFICES ASSUME NEW l
               PROVE  Onward(w, l) = Wire(i, cfg, fn, l, Leads[memo.channel], memo.channel, memo.receiver, amount, memo)
    BY ZenonT(40)
  <2> DEFINE m == [channel |-> channel, to |-> to, denom |-> cfg.denom, amount |-> amount, memo |-> memo]
             m2 == [channel |-> memo.channel, to |-> memo.receiver, denom |-> cfg.denom,
                    amount |-> amount, memo |-> memo]
  <2>1. w = [id |-> i, cfg |-> cfg, fn |-> fn, msg |-> m, leg |-> leg, chain |-> chain]
    BY <1>2, Zenon DEF Wire
  <2>2. [m EXCEPT !.to = memo.receiver, !.channel = memo.channel] = m2
    <3> DEFINE T(c, r) == [channel : {c}, to : {r}, denom : {cfg.denom}, amount : {amount}, memo : {memo}]
    <3>1. m \in T(channel, to) /\ m2 \in T(memo.channel, memo.receiver)
      BY Zenon
    <3>2. [m EXCEPT !.to = memo.receiver, !.channel = memo.channel] \in T(memo.channel, memo.receiver)
      <4> HIDE DEF m
      <4> QED BY <3>1, Zenon
    <3> HIDE DEF m, m2
    <3> QED BY <3>1, <3>2, Zenon
  <2>3. w.msg = m /\ w.msg.memo = memo
    BY <2>1, Zenon
  <2>4. Onward(w, l) = [w EXCEPT !.leg = l, !.chain = Leads[memo.channel],
                                 !.msg.to = memo.receiver, !.msg.channel = memo.channel]
    BY <2>3, Zenon DEF Onward
  <2> HIDE DEF m, m2
  <2>5. Onward(w, l) = [w EXCEPT !.leg = l, !.chain = Leads[memo.channel], !.msg = m2]
    BY <2>1, <2>2, <2>4, Zenon
  <2>6. Onward(w, l) = [id |-> i, cfg |-> cfg, fn |-> fn, msg |-> m2, leg |-> l, chain |-> Leads[memo.channel]]
    BY <2>1, <2>5, Zenon
  <2> QED BY <2>6, ZenonT(40) DEF Wire, m2
<1>8. CASE fn = "EurekaTransfer" /\ leg = "first"
  <2>1. memo = build_eureka_memo(cfg.output_addr, cfg.eureka_config[1])
        /\ to = cfg.eureka_config[1].callback_contract
    BY <1>4, <1>8, ZenonT(40) DEF OnRoute
  <2>2. /\ memo.kind = "eureka" /\ memo.callback = to /\ memo.receiver = cfg.output_addr
        /\ memo.channel = cfg.eureka_config[1].source_channel
    BY <2>1, ZenonT(40) DEF build_eureka_memo
  <2>3. OnRoute(cfg, fn, "eureka", Leads[memo.channel], memo.receiver, memo)
    BY <1>8, <2>1, <2>2, Zenon DEF OnRoute, Reached, Destination
  <2>4. IsWire(Onward(w, "eureka"))
    BY <1>7, <2>3, Zenon DEF IsWire
  <2>5. wires' = (wires \ {w}) \cup {Onward(w, "eureka")} /\ UNCHANGED landed
    BY <1>6, <1>8, <2>2, Zenon
  <2> QED BY <1>5, <2>4, <2>5, MovesTransferInv, Zenon
<1>9. CASE fn = "IbcTransfer" /\ leg = "first" /\ cfg.denom \in DOMAIN cfg.denom_to_pfm_map
  <2>1. memo = Forward(cfg.output_addr, cfg.denom_to_pfm_map[cfg.denom].hop_to_destination_chain_channel_id)
    BY <1>4, <1>9, Zenon DEF OnRoute
  <2>2. /\ memo.kind = "forward" /\ memo.receiver = cfg.output_addr
        /\ memo.channel = cfg.denom_to_pfm_map[cfg.denom].hop_to_destination_chain_channel_id
    BY <2>1, Zenon DEF Forward
  <2>3. OnRoute(cfg, fn, "forwarded", Leads[memo.channel], memo.receiver, memo)
    BY <1>9, <2>1, <2>2, Zenon DEF OnRoute, Reached, Destination
  <2>4. IsWire(Onward(w, "forwarded"))
    BY <1>7, <2>3, Zenon DEF IsWire
  <2>5. wires' = (wires \ {w}) \cup {Onward(w, "forwarded")} /\ UNCHANGED landed
    BY <1>6, <1>9, <2>2, ZenonT(40)
  <2> QED BY <1>5, <2>4, <2>5, MovesTransferInv, Zenon
<1>10. CASE Reached(cfg, fn, chain, to) /\ (leg # "first" \/ memo = Plain(cfg.memo))
  <2>1. ~acts /\ ~forwards
    BY <1>10 DEF Plain
  <2>2. wires' = wires \ {w} /\ landed' = landed \cup {Ended(w, chain, to)}
    BY <1>6, <2>1, Zenon
  <2>3. EndedWell(Ended(w, chain, to))
    BY <1>3, <1>10, Zenon DEF EndedWell, Ended, Reached
  <2> QED BY <1>5, <2>2, <2>3, MovesTransferInv, Zenon
<1> QED BY <1>4, <1>8, <1>9, <1>10, Zenon DEF OnRoute

\* A leg fails.
LEMMA FailTransferInv == ASSUME TransferInv, NEW w \in wires, fail(w) PROVE TransferInv'
<1>1. PICK i, cfg, fn, leg, chain, channel, to, memo : \E amount \in Nat :
        w = Wire(i, cfg, fn, leg, chain, channel, to, amount, memo) /\ OnRoute(cfg, fn, leg, chain, to, memo)
  BY ZenonT(40) DEF TransferInv, IsWire
<1>2. PICK amount \in Nat : w = Wire(i, cfg, fn, leg, chain, channel, to, amount, memo)
  BY <1>1, ZenonT(40)
<1>3. /\ w.leg = leg /\ w.cfg = cfg /\ w.fn = fn
      /\ w.msg.memo = memo /\ w.msg.amount = amount
  BY <1>2, Zenon DEF Wire
<1>4. UNCHANGED <<transferrer, route>> /\ held \in [Coins -> Nat] /\ wires' = wires \ {w}
  BY Zenon DEF fail, TransferInv
<1>5. CASE leg = "eureka"
  <2>1. fn = "EurekaTransfer" /\ memo = build_eureka_memo(cfg.output_addr, cfg.eureka_config[1])
    BY <1>1, <1>5, Zenon DEF OnRoute
  <2>2. memo.recover = cfg.eureka_config[1].recover_address
    BY <2>1, Zenon DEF build_eureka_memo
  <2>3. landed' = landed \cup {Ended(w, Leads[w.cfg.channel], memo.recover)} /\ UNCHANGED held
    BY <1>3, <1>5, Zenon DEF fail
  <2>4. EndedWell(Ended(w, Leads[w.cfg.channel], memo.recover))
    BY <1>3, <2>1, <2>2, Zenon DEF EndedWell, Ended
  <2> QED BY <1>4, <2>3, <2>4, MovesTransferInv, Zenon
<1>6. CASE leg = "forwarded" /\ hopAddress(cfg) \in HopAddress
  <2> DEFINE t == Ended(w, Leads[hopConfig(w.cfg).local_to_hop_chain_channel_id], hopAddress(w.cfg))
  <2>1. fn = "IbcTransfer" /\ cfg.denom \in DOMAIN cfg.denom_to_pfm_map
    BY <1>1, <1>6 DEF OnRoute
  <2>2. landed' = landed \cup {t} /\ UNCHANGED held
    BY <1>3, <1>6 DEF fail
  <2>3. EndedWell(t)
    BY <1>3, <1>6, <2>1, Zenon DEF EndedWell, Ended
  <2> HIDE DEF t
  <2> QED BY <1>4, <2>2, <2>3, MovesTransferInv, Zenon
<1>7. CASE leg # "eureka" /\ ~(leg = "forwarded" /\ hopAddress(cfg) \in HopAddress)
  <2>1. UNCHANGED landed /\ (held' = held \/ held' = [held EXCEPT ![w.msg.denom] = @ + amount])
    BY <1>3, <1>7, Zenon DEF fail
  <2>2. held' \in [Coins -> Nat]
    <3>1. \A d \in Coins : held'[d] = held[d] \/ held'[d] = held[d] + amount
      BY <1>4, <2>1, Zenon
    <3>2. DOMAIN held' = Coins /\ \A d \in Coins : held'[d] \in Nat
      BY <1>4, <2>1, <3>1
    <3> QED BY <1>4, <2>1, <3>2, ZenonT(40)
  <2> QED BY <1>4, <2>1, <2>2, MovesTransferInv, Zenon
<1> QED BY <1>5, <1>6, <1>7, Zenon

\* Every step of a library, its account and the chains.
LEMMA NextTransferInv == TransferInv /\ [TransferNext]_transferVars => TransferInv'
<1> SUFFICES ASSUME TransferInv, [TransferNext]_transferVars PROVE TransferInv'
  BY ZenonT(40)
<1>1. ASSUME NEW d \in Coins, receive(d) PROVE TransferInv'
  <2>1. held' = [held EXCEPT ![d] = @ + 1] /\ UNCHANGED <<transferrer, route, wires, landed>>
    BY <1>1, Zenon DEF receive
  <2>2. held' \in [Coins -> Nat]
    BY <2>1 DEF TransferInv
  <2> QED BY <2>1, <2>2, MovesTransferInv, Zenon
<1>2. CASE UNCHANGED transferVars
  BY <1>2, Zenon DEF transferVars, TransferInv, RouteTyped
<1> QED BY <1>1, <1>2, UpdateTransferInv, LeaveTransferInv, ArriveTransferInv, FailTransferInv, Zenon
        DEF TransferNext

\* Coins sent over IBC end where the configuration they were sent under says, with a
\* hop's address only if it names a real one, and the neutron library lets leave exactly
\* what the account can pay, whatever the routes, the minimum fee, and the order of
\* updates, arrivals and failures.
THEOREM TransfersLand == TransferSpec => []CoinsLandWhereConfigured
<1>1. TransferInv => CoinsLandWhereConfigured
  BY AcceptedIffPayable, Zenon DEF TransferInv, CoinsLandWhereConfigured, EndedWell
<1> QED BY InitTransferInv, NextTransferInv, <1>1, PTL DEF TransferSpec

-----------------------------------------------------------------------------
\* Queries.
\* Maps of a contract's storage: functions with some keys of K and values of V.
PartialFn(K, V) == UNION {[D -> V] : D \in SUBSET K}

\* The entries of such a map.
LEMMA PartialFnEntries ==
  ASSUME NEW K, NEW V, NEW f \in PartialFn(K, V)
  PROVE  DOMAIN f \subseteq K /\ f \in [DOMAIN f -> V]
  BY Zenon DEF PartialFn

\* g is f with an entry saved, or removed.
HasSaved(g, f, k, v, K, V) ==
  /\ g \in PartialFn(K, V) /\ DOMAIN g = DOMAIN f \cup {k} /\ g[k] = v
  /\ \A x \in DOMAIN f \ {k} : g[x] = f[x]

HasRemoved(g, f, k, K, V) ==
  /\ g \in PartialFn(K, V) /\ DOMAIN g = DOMAIN f \ {k}
  /\ \A x \in DOMAIN f \ {k} : g[x] = f[x]

\* An entry is saved.
LEMMA SavedEntry ==
  ASSUME NEW K, NEW V, NEW f \in PartialFn(K, V), NEW k \in K, NEW v \in V
  PROVE  HasSaved(Saved(f, k, v), f, k, v, K, V)
<1> DEFINE g == Saved(f, k, v)
           D == DOMAIN f \cup {k}
<1>1. f \in [DOMAIN f -> V] /\ DOMAIN f \subseteq K
  BY PartialFnEntries, Zenon
<1>2. g = [x \in D |-> IF x = k THEN v ELSE f[x]]
  BY Zenon DEF Saved
<1> HIDE DEF g
<1>3. g \in [D -> V] /\ g[k] = v /\ \A x \in DOMAIN f \ {k} : g[x] = f[x]
  BY <1>1, <1>2, Zenon
<1>4. D \in SUBSET K
  BY <1>1, Zenon
<1>5. g \in PartialFn(K, V)
  BY <1>3, <1>4, Zenon DEF PartialFn
<1> QED BY <1>3, <1>5, Zenon DEF g, HasSaved

\* An entry is removed.
LEMMA RemovedEntry ==
  ASSUME NEW K, NEW V, NEW f \in PartialFn(K, V), NEW k
  PROVE  HasRemoved(Without(f, k), f, k, K, V)
<1> DEFINE g == Without(f, k)
           D == DOMAIN f \ {k}
<1>1. f \in [DOMAIN f -> V] /\ DOMAIN f \subseteq K
  BY PartialFnEntries, Zenon
<1>2. g = [x \in D |-> f[x]]
  BY Zenon DEF Without
<1> HIDE DEF g
<1>3. g \in [D -> V] /\ \A x \in DOMAIN f \ {k} : g[x] = f[x]
  BY <1>1, <1>2, Zenon
<1>4. D \in SUBSET K
  BY <1>1, Zenon
<1>5. g \in PartialFn(K, V)
  BY <1>3, <1>4, Zenon DEF PartialFn
<1> QED BY <1>3, <1>5, Zenon DEF g, HasRemoved

\* A pending registration that is noted and taken out again leaves nothing.
LEMMA NothingPending ==
  ASSUME NEW k, NEW v PROVE Without(Saved(<< >>, k, v), k) = << >>
<1>1. DOMAIN Saved(<< >>, k, v) = {k}
  BY DEF Saved
<1> QED BY <1>1 DEF Without

-----------------------------------------------------------------------------
Answer == [query : Query, height : Int]

IcqTyped ==
  /\ icqLast \in Nat
  /\ icq \in PartialFn(1 .. icqLast, [query : Query, deposit : QueryFee, height : Int])
  /\ querier.registered_queries \in PartialFn(1 .. icqLast, Query)
  /\ querier = [query_id |-> querier.query_id, registered_queries |-> querier.registered_queries,
                pending_query_registrations |-> << >>, storage_acc_addr |-> querier.storage_acc_addr]
  /\ querier.query_id \in [Query -> Seq(Nat)]
  /\ icqFee \in QueryFee
  /\ stores \in [Store -> [approved : BOOLEAN, slots : PartialFn(Query, Answer)]]

IcqInv == IcqTyped /\ AnswersAreExpected

\* Nothing is registered and nothing stored.
LEMMA InitIcqInv == IcqInit => IcqInv
<1> SUFFICES ASSUME IcqInit PROVE IcqInv
  BY ZenonT(40)
<1>1. \A K, V : << >> \in PartialFn(K, V)
  <2>1. \A K, V : {} \in SUBSET K /\ << >> \in [{} -> V]
    OBVIOUS
  <2> QED BY <2>1, Zenon DEF PartialFn
<1>2. stores \in [Store -> [approved : BOOLEAN, slots : PartialFn(Query, Answer)]]
  BY <1>1, Zenon DEF IcqInit
<1>3. /\ querier.query_id \in [Query -> Seq(Nat)]
      /\ querier.query_id = [q \in Query |-> << >>]
      /\ querier.registered_queries = << >> /\ querier.pending_query_registrations = << >>
  BY DEF IcqInit
<1>4. IcqTyped
  BY <1>1, <1>2, <1>3, Zenon DEF IcqInit, IcqTyped
<1>5. AnswersAreExpected
  BY <1>3 DEF IcqInit, AnswersAreExpected
<1> QED BY <1>4, <1>5, Zenon DEF IcqInv

QuerierConfig(a, b, p, s) ==
  [query_id |-> a, registered_queries |-> b, pending_query_registrations |-> p, storage_acc_addr |-> s]

RepliedConfig(a, b, q, id, s) ==
  QuerierConfig([a EXCEPT ![q] = <<id>>], Saved(b, id, q), << >>, s)

\* What reply makes of a configuration in which one query is pending.
LEMMA ReplyRecords ==
  ASSUME NEW a \in [Query -> Seq(Nat)], NEW b, NEW s, NEW q \in Query, NEW n, NEW id \in Nat
  PROVE  reply(QuerierConfig(a, b, Saved(<< >>, n, q), s), n, id) = RepliedConfig(a, b, q, id, s)
<1> DEFINE p == Saved(<< >>, n, q)
           r == QuerierConfig(a, b, p, s)
<1>1. p[n] = q /\ Without(p, n) = << >>
  BY NothingPending, Zenon DEF Saved
<1> HIDE DEF p
<1>2. reply(r, n, id) = [r EXCEPT !.pending_query_registrations = Without(@, n),
                                  !.query_id[p[n]] = <<id>>,
                                  !.registered_queries = Saved(@, id, p[n])]
  BY Zenon DEF reply, QuerierConfig
<1>3. reply(r, n, id) = [r EXCEPT !.pending_query_registrations = << >>,
                                  !.query_id[q] = <<id>>,
                                  !.registered_queries = Saved(b, id, q)]
  BY <1>1, <1>2, Zenon DEF QuerierConfig
<1>4. reply(r, n, id) = QuerierConfig([a EXCEPT ![q] = <<id>>], Saved(b, id, q), << >>, s)
  BY <1>3, Zenon DEF QuerierConfig
<1> QED BY <1>4, Zenon DEF p, RepliedConfig

\* A registration: the number is new.
LEMMA RegisterIcqInv ==
  ASSUME IcqInv, NEW q \in Query, NEW paid, register_kv_query(q, paid) PROVE IcqInv'
<1> DEFINE id == icqLast + 1
           a == querier.query_id
           b == querier.registered_queries
           s == querier.storage_acc_addr
           v == [query |-> q, deposit |-> icqFee, height |-> 0]
           V == [query : Query, deposit : QueryFee, height : Int]
           n == Cardinality(DOMAIN querier.pending_query_registrations)
<1>1. /\ icqLast \in Nat /\ icq \in PartialFn(1 .. icqLast, V) /\ b \in PartialFn(1 .. icqLast, Query)
      /\ a \in [Query -> Seq(Nat)] /\ v \in V
      /\ querier = [query_id |-> a, registered_queries |-> b,
                    pending_query_registrations |-> << >>, storage_acc_addr |-> s]
  BY DEF IcqInv, IcqTyped
<1>2. /\ querier' = reply([querier EXCEPT !.pending_query_registrations = Saved(@, n, q)], n, id)
      /\ icq' = Saved(icq, id, v) /\ icqLast' = id /\ UNCHANGED <<icqFee, stores>>
  BY Zenon DEF register_kv_query
<1> HIDE DEF n, v
<1>3. [querier EXCEPT !.pending_query_registrations = Saved(@, n, q)]
        = [query_id |-> a, registered_queries |-> b,
           pending_query_registrations |-> Saved(<< >>, n, q), storage_acc_addr |-> s]
  <2> HIDE DEF a, b, s
  <2> QED BY <1>1, SMTT(30)
<1>4. querier' = [query_id |-> [a EXCEPT ![q] = <<id>>], registered_queries |-> Saved(b, id, q),
                  pending_query_registrations |-> << >>, storage_acc_addr |-> s]
  <2> HIDE DEF a, b, s
  <2>1. querier' = reply(QuerierConfig(a, b, Saved(<< >>, n, q), s), n, id)
    BY <1>2, <1>3, Zenon DEF QuerierConfig
  <2>2. id \in Nat
    BY <1>1
  <2>3. a \in [Query -> Seq(Nat)]
    BY <1>1, Zenon
  <2>4. reply(QuerierConfig(a, b, Saved(<< >>, n, q), s), n, id) = RepliedConfig(a, b, q, id, s)
    <3> HIDE DEF id
    <3> QED BY <2>2, <2>3, ReplyRecords, Zenon
  <2> QED BY <2>1, <2>4, Zenon DEF RepliedConfig, QuerierConfig
<1> HIDE DEF a, b, s, id, V
<1>5. id \in Nat /\ id = icqLast + 1
  BY <1>1 DEF id
<1>6. icq \in PartialFn(1 .. id, V) /\ b \in PartialFn(1 .. id, Query)
  <2>1. 1 .. icqLast \subseteq 1 .. id
    BY <1>1, <1>5
  <2>2. \A W : PartialFn(1 .. icqLast, W) \subseteq PartialFn(1 .. id, W)
    BY <2>1, Zenon DEF PartialFn
  <2> QED BY <1>1, <2>2, Zenon
<1>7. id \in 1 .. id
  BY <1>1, <1>5
<1>8. /\ icq' \in PartialFn(1 .. id, V) /\ DOMAIN icq' = DOMAIN icq \cup {id} /\ icq'[id] = v
      /\ \A x \in DOMAIN icq \ {id} : icq'[x] = icq[x]
  <2>1. HasSaved(icq', icq, id, v, 1 .. id, V)
    BY <1>1, <1>2, <1>6, <1>7, SavedEntry, Zenon
  <2> QED BY <2>1, Zenon DEF HasSaved
<1> DEFINE c == Saved(b, id, q)
<1>9. /\ c \in PartialFn(1 .. id, Query) /\ DOMAIN c = DOMAIN b \cup {id} /\ c[id] = q
      /\ \A x \in DOMAIN b \ {id} : c[x] = b[x]
  <2>1. HasSaved(c, b, id, q, 1 .. id, Query)
    BY <1>6, <1>7, SavedEntry, Zenon
  <2> QED BY <2>1, Zenon DEF HasSaved
<1> HIDE DEF c
<1>10. /\ querier'.query_id = [a EXCEPT ![q] = <<id>>] /\ querier'.registered_queries = c
       /\ querier'.pending_query_registrations = << >> /\ querier'.storage_acc_addr = s
  BY <1>4, Zenon DEF c
<1>11. IcqTyped'
  <2>1. [a EXCEPT ![q] = <<id>>] \in [Query -> Seq(Nat)]
    BY <1>1, <1>5
  <2>2. icqFee' \in QueryFee /\ stores' \in [Store -> [approved : BOOLEAN, slots : PartialFn(Query, Answer)]]
    BY <1>2, Zenon DEF IcqInv, IcqTyped
  <2> QED BY <1>2, <1>4, <1>5, <1>8, <1>9, <1>10, <2>1, <2>2, ZenonT(40) DEF IcqTyped, V, c
<1>12. id \notin DOMAIN icq /\ id \notin DOMAIN b
  <2>1. DOMAIN icq \subseteq 1 .. icqLast /\ DOMAIN b \subseteq 1 .. icqLast
    BY <1>1, PartialFnEntries, Zenon
  <2> QED BY <1>1, <1>5, <2>1
<1>13. /\ \A x \in DOMAIN icq : x \in DOMAIN b /\ b[x] = icq[x].query
       /\ \A r \in Query : a[r] # << >> => a[r][1] \in DOMAIN b /\ b[a[r][1]] = r
       /\ \A t \in Store : \A r \in DOMAIN stores[t].slots : stores[t].slots[r].query = r
  BY ZenonT(40) DEF IcqInv, AnswersAreExpected, a, b
<1>14. AnswersAreExpected'
  <2>1. \A x \in DOMAIN icq' : x \in DOMAIN c /\ c[x] = icq'[x].query
    BY <1>8, <1>9, <1>12, <1>13 DEF v
  <2>2. \A r \in Query : querier'.query_id[r] # << >> =>
          querier'.query_id[r][1] \in DOMAIN c /\ c[querier'.query_id[r][1]] = r
    <3> SUFFICES ASSUME NEW r \in Query, querier'.query_id[r] # << >>
                 PROVE  querier'.query_id[r][1] \in DOMAIN c /\ c[querier'.query_id[r][1]] = r
      BY ZenonT(40)
    <3>1. CASE r = q
      BY <1>1, <1>9, <1>10, <3>1
    <3>2. CASE r # q
      <4>1. querier'.query_id[r] = a[r]
        BY <1>1, <1>10, <3>2, Zenon
      <4> QED BY <1>9, <1>12, <1>13, <4>1, ZenonT(40)
    <3> QED BY <3>1, <3>2, Zenon
  <2> QED BY <1>2, <1>10, <1>13, <2>1, <2>2, Zenon DEF AnswersAreExpected
<1> QED BY <1>11, <1>14, Zenon DEF IcqInv

\* A query is removed, by the library or by someone.
LEMMA DeregisterIcqInv == ASSUME IcqInv, NEW q \in Query, deregister_kv_query(q) PROVE IcqInv'
<1> DEFINE id == querier.query_id[q][1]
           a == querier.query_id
           b == querier.registered_queries
           s == querier.storage_acc_addr
           V == [query : Query, deposit : QueryFee, height : Int]
           c == Without(b, id)
<1>1. /\ icqLast \in Nat /\ icq \in PartialFn(1 .. icqLast, V) /\ b \in PartialFn(1 .. icqLast, Query)
      /\ a \in [Query -> Seq(Nat)]
      /\ querier = [query_id |-> a, registered_queries |-> b,
                    pending_query_registrations |-> << >>, storage_acc_addr |-> s]
  BY Zenon DEF IcqInv, IcqTyped
<1>2. /\ a[q] # << >> /\ id \in DOMAIN icq
      /\ querier' = [querier EXCEPT !.query_id[q] = << >>, !.registered_queries = Without(@, id)]
      /\ icq' = Without(icq, id)
      /\ UNCHANGED <<icqLast, icqFee, stores>>
  BY Zenon DEF deregister_kv_query
<1>3. /\ \A x \in DOMAIN icq : x \in DOMAIN b /\ b[x] = icq[x].query
      /\ \A r \in Query : a[r] # << >> => a[r][1] \in DOMAIN b /\ b[a[r][1]] = r
      /\ \A t \in Store : \A r \in DOMAIN stores[t].slots : stores[t].slots[r].query = r
      /\ id = a[q][1]
  BY Zenon DEF IcqInv, AnswersAreExpected
<1> HIDE DEF a, b, s, id, V
<1>4. querier' = [query_id |-> [a EXCEPT ![q] = << >>], registered_queries |-> c,
                  pending_query_registrations |-> << >>, storage_acc_addr |-> s]
  <2> HIDE DEF c
  <2>1. querier' = [querier EXCEPT !.query_id[q] = << >>, !.registered_queries = c]
    BY <1>1, <1>2, Zenon DEF c
  <2> QED BY <1>1, <2>1, Zenon
<1>5. /\ icq' \in PartialFn(1 .. icqLast, V) /\ DOMAIN icq' = DOMAIN icq \ {id}
      /\ \A x \in DOMAIN icq \ {id} : icq'[x] = icq[x]
  <2>1. HasRemoved(icq', icq, id, 1 .. icqLast, V)
    BY <1>1, <1>2, RemovedEntry, Zenon
  <2> QED BY <2>1, Zenon DEF HasRemoved
<1>6. /\ c \in PartialFn(1 .. icqLast, Query) /\ DOMAIN c = DOMAIN b \ {id}
      /\ \A x \in DOMAIN b \ {id} : c[x] = b[x]
  <2>1. HasRemoved(c, b, id, 1 .. icqLast, Query)
    BY <1>1, RemovedEntry, Zenon
  <2> QED BY <2>1, Zenon DEF HasRemoved
<1> HIDE DEF c
<1>7. /\ querier'.query_id = [a EXCEPT ![q] = << >>] /\ querier'.registered_queries = c
      /\ querier'.pending_query_registrations = << >> /\ querier'.storage_acc_addr = s
  BY <1>4, Zenon
<1>8. IcqTyped'
  <2>1. [a EXCEPT ![q] = << >>] \in [Query -> Seq(Nat)]
    BY <1>1
  <2>2. icqFee' \in QueryFee /\ stores' \in [Store -> [approved : BOOLEAN, slots : PartialFn(Query, Answer)]]
    BY <1>2, Zenon DEF IcqInv, IcqTyped
  <2> QED BY <1>1, <1>2, <1>4, <1>5, <1>6, <1>7, <2>1, <2>2, ZenonT(40) DEF IcqTyped, V
<1>9. AnswersAreExpected'
  <2>1. \A x \in DOMAIN icq' : x \in DOMAIN c /\ c[x] = icq'[x].query
    BY <1>3, <1>5, <1>6, Zenon
  <2>2. \A r \in Query : querier'.query_id[r] # << >> =>
          querier'.query_id[r][1] \in DOMAIN c /\ c[querier'.query_id[r][1]] = r
    BY <1>1, <1>2, <1>3, <1>6, <1>7
  <2> QED BY <1>2, <1>3, <1>7, <2>1, <2>2, Zenon DEF AnswersAreExpected
<1> QED BY <1>8, <1>9, Zenon DEF IcqInv

\* The module removes a query; the library's records stay.
LEMMA ExpireIcqInv == ASSUME IcqInv, NEW id, queryExpires(id) PROVE IcqInv'
<1> DEFINE V == [query : Query, deposit : QueryFee, height : Int]
<1>1. icq \in PartialFn(1 .. icqLast, V)
  BY Zenon DEF IcqInv, IcqTyped
<1>2. icq' = Without(icq, id) /\ UNCHANGED <<querier, icqLast, icqFee, stores>>
  BY Zenon DEF queryExpires
<1> HIDE DEF V
<1>3. /\ icq' \in PartialFn(1 .. icqLast, V) /\ DOMAIN icq' = DOMAIN icq \ {id}
      /\ \A x \in DOMAIN icq \ {id} : icq'[x] = icq[x]
  <2>1. HasRemoved(icq', icq, id, 1 .. icqLast, V)
    BY <1>1, <1>2, RemovedEntry, Zenon
  <2> QED BY <2>1, Zenon DEF HasRemoved
<1> QED BY <1>2, <1>3, ZenonT(40) DEF IcqInv, IcqTyped, AnswersAreExpected, V

\* An answer is stored under the name its number is registered for.
LEMMA ResultIcqInv ==
  ASSUME IcqInv, NEW id \in DOMAIN icq, NEW height \in Int, handle_sudo_kv_query_result(id, height)
  PROVE  IcqInv'
<1> DEFINE V == [query : Query, deposit : QueryFee, height : Int]
           S == [approved : BOOLEAN, slots : PartialFn(Query, Answer)]
           target == target_query_identifier(id)
           answer == [query |-> icq[id].query, height |-> height]
           s == querier.storage_acc_addr
<1>1. icq \in PartialFn(1 .. icqLast, V) /\ stores \in [Store -> S]
  BY Zenon DEF IcqInv, IcqTyped
<1>2. DOMAIN icq \subseteq 1 .. icqLast /\ icq \in [DOMAIN icq -> V]
  BY <1>1, PartialFnEntries, Zenon
<1>3. /\ icq' = [icq EXCEPT ![id].height = height] /\ UNCHANGED <<querier, icqLast, icqFee>>
      /\ \/ stores' = [stores EXCEPT ![s].slots = Saved(@, target, answer)]
         \/ stores' = stores
  BY Zenon DEF handle_sudo_kv_query_result
<1>4. /\ icq' \in [DOMAIN icq -> V] /\ DOMAIN icq' = DOMAIN icq
      /\ \A x \in DOMAIN icq : icq'[x].query = icq[x].query
  BY <1>2, <1>3, Zenon
<1>5. icq' \in PartialFn(1 .. icqLast, V)
  BY <1>2, <1>4, Zenon DEF PartialFn
<1>6. target = icq[id].query /\ target \in Query /\ answer \in Answer /\ answer.query = target
  BY <1>2, Zenon DEF target_query_identifier, IcqInv, AnswersAreExpected, Answer
<1>7. \A t \in Store : \A r \in DOMAIN stores[t].slots : stores[t].slots[r].query = r
  BY Zenon DEF IcqInv, AnswersAreExpected
<1> HIDE DEF target, answer, s, V
<1>8. /\ stores' \in [Store -> S]
      /\ \A t \in Store : \A r \in DOMAIN stores'[t].slots : stores'[t].slots[r].query = r
  <2>1. CASE stores' = stores
    BY <1>1, <1>7, <2>1, ZenonT(40)
  <2>2. CASE s \in Store /\ stores' = [stores EXCEPT ![s].slots = Saved(@, target, answer)]
    <3> DEFINE f == stores[s].slots
               g == Saved(f, target, answer)
    <3>1. f \in PartialFn(Query, Answer)
      BY <1>1, <2>2, Zenon
    <3>2. /\ g \in PartialFn(Query, Answer) /\ DOMAIN g = DOMAIN f \cup {target} /\ g[target] = answer
          /\ \A x \in DOMAIN f \ {target} : g[x] = f[x]
      <4>1. HasSaved(g, f, target, answer, Query, Answer)
        BY <1>6, <3>1, SavedEntry, Zenon
      <4> QED BY <4>1, Zenon DEF HasSaved
    <3>3. stores' = [stores EXCEPT ![s].slots = g]
      BY <2>2, Zenon
    <3>4. \A r \in DOMAIN g : g[r].query = r
      BY <1>6, <1>7, <2>2, <3>2, Zenon
    <3> HIDE DEF g
    <3>5. /\ stores' \in [Store -> S] /\ stores'[s].slots = g
          /\ \A t \in Store \ {s} : stores'[t] = stores[t]
      BY <1>1, <2>2, <3>2, <3>3, ZenonT(40)
    <3> QED BY <1>7, <3>4, <3>5, Zenon
  <2>3. CASE s \notin Store /\ stores' = [stores EXCEPT ![s].slots = Saved(@, target, answer)]
    <3>1. stores' = stores
      BY <1>1, <2>3, Zenon
    <3> QED BY <2>1, <3>1, Zenon
  <2> QED BY <1>3, <2>1, <2>2, <2>3, Zenon
<1> QED BY <1>3, <1>4, <1>5, <1>8, Zenon DEF IcqInv, IcqTyped, AnswersAreExpected, V

\* Every step of the querier, the broker, the module and the storage accounts.
LEMMA NextIcqInv == IcqInv /\ [IcqNext]_icqVars => IcqInv'
<1> SUFFICES ASSUME IcqInv, [IcqNext]_icqVars PROVE IcqInv'
  BY ZenonT(40)
<1>1. CASE UNCHANGED <<querier, icq, icqLast, stores>> /\ icqFee' \in QueryFee
  BY <1>1, Zenon DEF IcqInv, IcqTyped, AnswersAreExpected
<1>2. ASSUME NEW x, NEW b, update_querier_config(x, b) PROVE IcqInv'
  <2>1. /\ querier' = [querier EXCEPT !.storage_acc_addr = x] /\ UNCHANGED <<icq, icqLast, icqFee, stores>>
        /\ querier = [query_id |-> querier.query_id, registered_queries |-> querier.registered_queries,
                      pending_query_registrations |-> << >>, storage_acc_addr |-> querier.storage_acc_addr]
    BY <1>2, Zenon DEF update_querier_config, IcqInv, IcqTyped
  <2>2. querier' = [query_id |-> querier.query_id, registered_queries |-> querier.registered_queries,
                    pending_query_registrations |-> << >>, storage_acc_addr |-> x]
    BY <2>1
  <2> QED BY <2>1, <2>2, Zenon DEF IcqInv, IcqTyped, AnswersAreExpected
<1>3. ASSUME NEW x, storage_approve_library(x) \/ storage_remove_library(x) PROVE IcqInv'
  <2> DEFINE S == [approved : BOOLEAN, slots : PartialFn(Query, Answer)]
  <2>1. PICK v \in BOOLEAN : stores' = [stores EXCEPT ![x].approved = v]
    BY <1>3, Zenon DEF storage_approve_library, storage_remove_library
  <2>2. UNCHANGED <<querier, icq, icqLast, icqFee>> /\ stores \in [Store -> S]
    BY <1>3, Zenon DEF storage_approve_library, storage_remove_library, IcqInv, IcqTyped
  <2>3. stores' \in [Store -> S] /\ \A t \in Store : stores'[t].slots = stores[t].slots
    BY <2>1, <2>2, ZenonT(40)
  <2> QED BY <2>2, <2>3, Zenon DEF IcqInv, IcqTyped, AnswersAreExpected
<1>4. icqFee \in QueryFee
  BY Zenon DEF IcqInv, IcqTyped
<1> QED BY <1>1, <1>2, <1>3, <1>4, RegisterIcqInv, DeregisterIcqInv, ExpireIcqInv, ResultIcqInv
        DEF IcqNext, icqVars, try_add_new_registry, setQueryFee, fundQuerier

\* Whichever registrations, registries and storage accounts come and go, an answer of
\* the module is stored under the name of the query it answers, and every query the
\* module still answers is one the library knows.
THEOREM AnswersReachTheirQuery == IcqSpec => []AnswersAreExpected
<1>1. IcqInv => AnswersAreExpected
  BY Zenon DEF IcqInv
<1> QED BY InitIcqInv, NextIcqInv, <1>1, PTL DEF IcqSpec

-----------------------------------------------------------------------------
(* The storage queue                                                       *)

IInv == TypeOK /\ Contiguous

\* An empty queue has no hole.
LEMMA InitIInv == Init => IInv
  BY U64MaxAssumption DEF Init, IInv, TypeOK, Contiguous, U64

\* push_back writes the key after the last one.
LEMMA PushIInv == ASSUME IInv, NEW v \in Elem, push_back(v) PROVE IInv'
  BY U64MaxAssumption DEF IInv, TypeOK, Contiguous, U64, push_back

\* pop_front takes the first key and moves past it.
LEMMA PopIInv == ASSUME IInv, pop_front PROVE IInv'
  BY U64MaxAssumption DEF IInv, TypeOK, Contiguous, U64, pop_front

\* insert_at fills the key it frees by moving the entries behind up.
LEMMA InsertIInv ==
  ASSUME IInv, NEW i \in U64, NEW v \in Elem, insert_at(i, v) PROVE IInv'
<1> DEFINE actual == start_index + i + 1
<1>1. actual \in Nat /\ actual <= end_index + 1
  BY DEF IInv, TypeOK, Contiguous, U64, insert_at, len
<1>2. TypeOK'
  BY <1>1, U64MaxAssumption DEF IInv, TypeOK, Contiguous, U64, insert_at
<1>3. Contiguous'
  BY <1>1, U64MaxAssumption DEF IInv, TypeOK, Contiguous, U64, insert_at
<1> QED BY <1>2, <1>3, Zenon DEF IInv

\* remove_at closes the gap from behind, or moves past the front.
LEMMA RemoveIInv ==
  ASSUME IInv, NEW i \in U64, remove_at(i) PROVE IInv'
<1>1. CASE i = 0 /\ pop_front
  BY <1>1, PopIInv, Zenon
<1>2. CASE i # 0 /\ remove_behind_front(i)
  <2> DEFINE actual == start_index + i + 1
  <2>1. actual \in Nat /\ actual <= end_index /\ start_index + 1 < actual
    BY <1>2 DEF IInv, TypeOK, Contiguous, U64, remove_at, len
  <2>2. TypeOK'
    BY <1>2, <2>1, U64MaxAssumption DEF IInv, TypeOK, Contiguous, U64, remove_behind_front
  <2>3. Contiguous'
    BY <1>2, <2>1, U64MaxAssumption DEF IInv, TypeOK, Contiguous, U64, remove_behind_front
  <2> QED BY <2>2, <2>3, Zenon DEF IInv
<1> QED BY <1>1, <1>2, Zenon DEF remove_at

\* Every operation keeps the invariant.
LEMMA NextIInv == IInv /\ [Next]_vars => IInv'
<1> SUFFICES ASSUME IInv, [Next]_vars PROVE IInv'
  BY ZenonT(40)
<1>1. CASE UNCHANGED vars
  BY <1>1, Zenon DEF IInv, TypeOK, Contiguous, vars
<1>2. ASSUME NEW v \in Elem, push_back(v) PROVE IInv'
  BY <1>2, PushIInv, Zenon
<1>3. CASE pop_front
  BY <1>3, PopIInv, ZenonT(40)
<1>4. ASSUME NEW i \in U64, NEW v \in Elem, insert_at(i, v) PROVE IInv'
  BY <1>4, InsertIInv, Zenon
<1>5. ASSUME NEW i \in U64, remove_at(i) PROVE IInv'
  BY <1>5, RemoveIInv, Zenon
<1> QED BY <1>1, <1>2, <1>3, <1>4, <1>5, Zenon DEF Next

\* No sequence of push_back, pop_front, insert_at and remove_at takes the
\* counters out of u64 or stores anything but entries.
THEOREM QueueTyped == Spec => []TypeOK
<1>1. IInv => TypeOK
  BY Zenon DEF IInv
<1> QED BY InitIInv, NextIInv, <1>1, PTL DEF Spec

\* No such sequence opens a hole between the two counters, so pop_front never
\* finds an empty key and no batch is lost.
THEOREM QueueContiguous == Spec => []Contiguous
<1>1. IInv => Contiguous
  BY Zenon DEF IInv
<1> QED BY InitIInv, NextIInv, <1>1, PTL DEF Spec

-----------------------------------------------------------------------------
\* Under the invariant the query over the whole range is a sequence of
\* entries, one for each live key.
ContentsShape ==
  /\ Len(contents) = end_index - start_index
  /\ contents = [j \in 1 .. end_index - start_index |-> contents[j]]
  /\ \A j \in 1 .. end_index - start_index : contents[j] = elements[start_index + j]

\* What the query returns, in a state
LEMMA ContentsSeq == IInv => ContentsShape
<1> SUFFICES ASSUME IInv PROVE ContentsShape
  BY ZenonT(40)
<1>1. len = end_index - start_index /\ end_index - start_index \in Nat
  BY DEF IInv, Contiguous, TypeOK, U64, len
<1>2. contents = [i \in 1 .. end_index - start_index |-> elements[start_index + i]]
  BY <1>1 DEF contents, query, IInv, TypeOK, U64
<1>3. \A i \in 1 .. end_index - start_index : elements[start_index + i] \in Elem
  BY DEF IInv, Contiguous, TypeOK, U64
<1>4. contents \in Seq(Elem) /\ Len(contents) = end_index - start_index
  BY <1>1, <1>2, <1>3
<1> QED BY <1>2, <1>4, Zenon DEF ContentsShape

\* and in its successor.
LEMMA ContentsSeqNext == IInv' => ContentsShape'
  BY ContentsSeq, PTL

\* The facts every step below starts from.
LEMMA Counters ==
  ASSUME IInv
  PROVE /\ start_index \in Nat /\ end_index \in Nat /\ start_index <= end_index
        /\ \A j \in 1 .. end_index - start_index : start_index + j \in DOMAIN elements
        /\ ContentsShape
  BY ContentsSeq DEF IInv, TypeOK, Contiguous, U64

\* The contents after a step are determined position by position.
LEMMA EntriesNext ==
  ASSUME IInv'
  PROVE \A k \in 1 .. end_index' - start_index' : contents'[k] = elements'[start_index' + k]
  BY ContentsSeqNext, Zenon DEF ContentsShape

\* push_back appends to the queue.
LEMMA PushRefines ==
  ASSUME IInv, IInv', NEW v \in Elem, push_back(v) PROVE Abstract!Push(v)
<1>1. start_index' = start_index /\ end_index' = end_index + 1
  BY Zenon DEF push_back
<1>2. ASSUME NEW j \in 1 .. end_index - start_index + 1
      PROVE  contents'[j] = IF j <= end_index - start_index THEN contents[j] ELSE v
  <2>1. j \in 1 .. end_index' - start_index'
    BY <1>1, Counters
  <2>2. contents'[j] = elements'[start_index' + j]
    BY <2>1, EntriesNext, Zenon
  <2>3. start_index + j \in DOMAIN elements \cup {end_index + 1}
    BY Counters
  <2> QED BY <1>1, <2>2, <2>3, Counters DEF ContentsShape, push_back
<1>3. contents' = Abstract!InsertedAt(contents, Len(contents), v)
  BY <1>1, <1>2, Counters, ContentsSeqNext, SMTT(30) DEF ContentsShape, Abstract!InsertedAt
<1> QED BY <1>3, Zenon DEF Abstract!Push, push_back

\* What taking the front entry does to the contents.
LEMMA FrontRemoved ==
  ASSUME IInv, IInv', pop_front, start_index # end_index
  PROVE /\ contents # <<>> /\ contents[1] = elements[start_index + 1]
        /\ contents' = Abstract!RemovedAt(contents, 0)
<1>1. start_index' = start_index + 1 /\ end_index' = end_index
  BY Zenon DEF pop_front
<1>2. 1 \in 1 .. end_index - start_index
  BY Counters
<1>3. contents # <<>> /\ contents[1] = elements[start_index + 1]
  BY <1>2, Counters DEF ContentsShape
<1>4. ASSUME NEW j \in 1 .. end_index - start_index - 1
      PROVE  contents'[j] = contents[j + 1]
  <2>1. j \in 1 .. end_index' - start_index' /\ j + 1 \in 1 .. end_index - start_index
    BY <1>1, Counters
  <2>2. contents'[j] = elements'[start_index' + j]
    BY <2>1, EntriesNext, Zenon
  <2>3. contents[j + 1] = elements[start_index + (j + 1)] /\ start_index + (j + 1) \in DOMAIN elements
    BY <2>1, Counters, Zenon DEF ContentsShape
  <2> QED BY <1>1, <2>2, <2>3, Counters DEF pop_front
<1>5. contents' = [j \in 1 .. end_index - start_index - 1 |-> contents'[j]]
  BY <1>1, Counters, ContentsSeqNext DEF ContentsShape
<1>6. contents' = [j \in 1 .. end_index - start_index - 1 |-> contents[j + 1]]
  BY <1>4, <1>5, Zenon
<1>7. contents' = Abstract!RemovedAt(contents, 0)
  BY <1>6, Counters DEF ContentsShape, Abstract!RemovedAt
<1> QED BY <1>3, <1>7, Zenon

\* pop_front returns and removes its head.
LEMMA PopRefines ==
  ASSUME IInv, IInv', pop_front PROVE Abstract!Pop
<1>1. CASE start_index = end_index
  <2>1. contents = <<>> /\ contents' = contents
    BY <1>1, Counters DEF ContentsShape, pop_front, contents, query, len
  <2> QED BY <1>1, <2>1, Zenon DEF Abstract!Pop, pop_front
<1>2. CASE start_index # end_index
  BY <1>2, FrontRemoved, Zenon DEF Abstract!Pop, pop_front
<1> QED BY <1>1, <1>2, Zenon

\* insert_at inserts, or fails where the queue does.
LEMMA InsertRefines ==
  ASSUME IInv, IInv', NEW i \in U64, NEW v \in Elem, insert_at(i, v)
  PROVE i \in 0 .. Len(contents) /\ Abstract!Insert(i, v)
<1>1. start_index' = start_index /\ end_index' = end_index + 1
  BY Zenon DEF insert_at
<1>2. i \in Nat /\ i <= end_index - start_index
  BY Counters, SMTT(30) DEF insert_at, len, U64
<1>3. ASSUME NEW j \in 1 .. end_index - start_index + 1
      PROVE  contents'[j] = IF j <= i THEN contents[j] ELSE IF j = i + 1 THEN v ELSE contents[j - 1]
  <2>1. j \in 1 .. end_index' - start_index'
    BY <1>1, Counters
  <2>2. contents'[j] = elements'[start_index + j]
    BY <1>1, <2>1, EntriesNext, ZenonT(40)
  <2>3. CASE j <= i
    <3>1. contents[j] = elements[start_index + j] /\ start_index + j \in DOMAIN elements
      BY <1>2, <2>3, Counters DEF ContentsShape
    <3>2. start_index + j < start_index + i + 1
      BY <1>2, <2>3, Counters, SMTT(30)
    <3>3. elements'[start_index + j] = elements[start_index + j]
      BY <1>2, <3>1, <3>2, Counters, SMTT(30) DEF insert_at
    <3> QED BY <2>2, <2>3, <3>1, <3>3, Zenon
  <2>4. CASE j = i + 1
    <3>1. elements'[start_index + i + 1] = v
      BY Zenon DEF insert_at
    <3> QED BY <1>2, <2>2, <2>4, <3>1, Counters
  <2>5. CASE j > i + 1
    <3>1. j - 1 \in 1 .. end_index - start_index
      BY <1>2, <2>5, Counters
    <3>2. contents[j - 1] = elements[start_index + (j - 1)] /\ start_index + (j - 1) \in DOMAIN elements
      BY <3>1, Counters, Zenon DEF ContentsShape
    <3>3. start_index + (j - 1) \in start_index + i + 1 .. end_index + 1
      BY <1>2, <2>5, Counters
    <3>4. elements'[start_index + (j - 1) + 1] = elements[start_index + (j - 1)]
      <4> DEFINE actual == start_index + i + 1
                 moved == {q + 1 : q \in (actual .. end_index + 1) \cap DOMAIN elements}
                 k == start_index + (j - 1)
      <4>1. elements' = [q \in DOMAIN elements \cup moved \cup {actual} |->
                           IF q = actual THEN v ELSE IF q \in moved THEN elements[q - 1] ELSE elements[q]]
        BY Zenon DEF insert_at
      <4>2. k \in actual .. end_index + 1 /\ k \in Int /\ actual \in Int
        BY <1>2, <3>3, Counters
      <4>3. k + 1 \in moved
        BY <3>2, <4>2, Zenon
      <4>4. k + 1 # actual /\ (k + 1) - 1 = k
        BY <4>2
      <4> HIDE DEF actual, moved, k
      <4>5. elements'[k + 1] = elements[k]
        BY <4>1, <4>3, <4>4, Zenon
      <4> QED BY <4>5, Zenon DEF k
    <3>5. start_index + (j - 1) + 1 = start_index + j
      BY <1>2, Counters
    <3>6. elements'[start_index + j] = contents[j - 1]
      BY <3>2, <3>4, <3>5, Zenon
    <3> QED BY <1>2, <2>2, <2>5, <3>6, Counters
  <2> QED BY <1>2, <2>3, <2>4, <2>5
<1>4. contents' = [j \in 1 .. end_index - start_index + 1 |-> contents'[j]]
  BY <1>1, Counters, ContentsSeqNext DEF ContentsShape
<1>5. contents' = Abstract!InsertedAt(contents, i, v)
  BY <1>3, <1>4, Counters, Zenon DEF ContentsShape, Abstract!InsertedAt
<1> QED BY <1>2, <1>5, Counters DEF Abstract!Insert, insert_at, ContentsShape

\* remove_at removes and returns the entry at a position.
LEMMA RemoveRefines ==
  ASSUME IInv, IInv', NEW i \in U64, remove_at(i)
  PROVE i \in 0 .. Len(contents) - 1 /\ Abstract!Remove(i)
<1>1. i \in Nat /\ i < end_index - start_index
  BY Counters DEF remove_at, len, U64
<1>2. i + 1 \in 1 .. end_index - start_index
  BY <1>1, Counters
<1>3. contents[i + 1] = elements[start_index + (i + 1)]
  BY <1>2, Counters, Zenon DEF ContentsShape
<1>4. CASE i = 0 /\ pop_front
  <2>1. ret' = <<contents[1]>> /\ contents' = Abstract!RemovedAt(contents, 0)
    BY <1>1, <1>4, FrontRemoved, Counters DEF pop_front
  <2> QED BY <1>1, <1>4, <2>1, Counters DEF Abstract!Remove, ContentsShape
<1>5. CASE i # 0 /\ remove_behind_front(i)
  <2>1. start_index' = start_index /\ end_index' = end_index - 1
    BY <1>5, Zenon DEF remove_behind_front
  <2>2. ASSUME NEW j \in 1 .. end_index - start_index - 1
        PROVE  contents'[j] = IF j <= i THEN contents[j] ELSE contents[j + 1]
    <3>1. j \in 1 .. end_index' - start_index'
      BY <2>1, Counters
    <3>2. contents'[j] = elements'[start_index + j]
      BY <2>1, <3>1, EntriesNext, Zenon
    <3>3. CASE j <= i
      <4>1. contents[j] = elements[start_index + j] /\ start_index + j \in DOMAIN elements
        BY <1>1, <3>3, Counters DEF ContentsShape
      <4>2. start_index + j < start_index + i + 1
        BY <1>1, <3>3, Counters, SMTT(30)
      <4>3. elements'[start_index + j] = elements[start_index + j]
        BY <1>1, <1>5, <4>1, <4>2, Counters, SMTT(30) DEF remove_behind_front
      <4> QED BY <3>2, <3>3, <4>1, <4>3, Zenon
    <3>4. CASE j > i
      <4>1. j + 1 \in 1 .. end_index - start_index
        BY <1>1, <3>4, Counters
      <4>2. contents[j + 1] = elements[start_index + (j + 1)] /\ start_index + (j + 1) \in DOMAIN elements
        BY <4>1, Counters, Zenon DEF ContentsShape
      <4>3. start_index + (j + 1) \in start_index + i + 1 + 1 .. end_index
        BY <1>1, <3>4, <4>1, Counters, SMTT(30)
      <4>4. elements'[start_index + (j + 1) - 1] = elements[start_index + (j + 1)]
        BY <1>1, <1>5, <4>2, <4>3, Counters, SMTT(30) DEF remove_behind_front
      <4> QED BY <1>1, <3>2, <3>4, <4>2, <4>4, Counters
    <3> QED BY <1>1, <3>3, <3>4
  <2>3. contents' = Abstract!RemovedAt(contents, i)
    BY <2>1, <2>2, Counters, ContentsSeqNext DEF ContentsShape, Abstract!RemovedAt
  <2>4. ret' = <<elements[start_index + i + 1]>>
    BY <1>5, Zenon DEF remove_behind_front
  <2> QED BY <1>1, <1>3, <2>3, <2>4, Counters DEF Abstract!Remove, ContentsShape
<1> QED BY <1>4, <1>5, Zenon DEF remove_at

\* Every call on the stored map is the corresponding call on a sequence:
\* holes, stale copies above end_index and the shifting loops are invisible.
THEOREM QueueRefinement == Spec => ImplementsFifo
<1>1. Init => Abstract!FifoInit
  <2> SUFFICES ASSUME Init PROVE Abstract!FifoInit
    BY ZenonT(40)
  <2>1. contents = <<>>
    BY InitIInv, ContentsSeq DEF ContentsShape, Init
  <2> QED BY <2>1, Zenon DEF Init, Abstract!FifoInit
<1>2. IInv /\ IInv' /\ [Next]_vars => [Abstract!FifoNext]_(Abstract!fifoVars)
  <2> SUFFICES ASSUME IInv, IInv', [Next]_vars
               PROVE [Abstract!FifoNext]_(Abstract!fifoVars)
    BY Zenon
  <2>1. CASE UNCHANGED vars
    BY <2>1, Zenon DEF vars, Abstract!fifoVars, contents, query, len
  <2>2. ASSUME NEW v \in Elem, push_back(v) PROVE Abstract!FifoNext
    BY <2>2, PushRefines, Zenon DEF Abstract!FifoNext
  <2>3. CASE pop_front
    BY <2>3, PopRefines, Zenon DEF Abstract!FifoNext
  <2>4. ASSUME NEW i \in U64, NEW v \in Elem, insert_at(i, v) PROVE Abstract!FifoNext
    BY <2>4, InsertRefines, Zenon DEF Abstract!FifoNext
  <2>5. ASSUME NEW i \in U64, remove_at(i) PROVE Abstract!FifoNext
    BY <2>5, RemoveRefines, Zenon DEF Abstract!FifoNext
  <2> QED BY <2>1, <2>2, <2>3, <2>4, <2>5, Zenon DEF Next
<1> QED BY InitIInv, NextIInv, <1>1, <1>2, PTL DEF Spec, ImplementsFifo, Abstract!FifoSpec

-----------------------------------------------------------------------------
(* The queue of the EVM processors                                         *)

\* The bytes of an entry as its words and its length give them.
Read(words, length) ==
  [k \in 1 .. length |-> words[(k - 1) \div WordSize][((k - 1) % WordSize) + 1]]

\* The word and the place in it where a byte of an entry is: one of the words that
\* the entry has.
LEMMA PlaceOfByte ==
  ASSUME NEW length \in Nat, NEW k \in 1 .. length
  PROVE  /\ (k - 1) \div WordSize \in Nat /\ (k - 1) % WordSize \in 0 .. WordSize - 1
         /\ ((k - 1) \div WordSize) * WordSize + ((k - 1) % WordSize) + 1 = k
         /\ (k - 1) \div WordSize < calculateRequiredSlots(length)
<1> DEFINE W == WordSize
           a == k - 1
           b == length + W - 1
<1>1. W \in Nat \ {0} /\ a \in Nat /\ b \in Nat /\ a + W <= b
  BY EvmQueueConstants
<1> HIDE DEF W, a, b
<1>2. a \div W \in Int /\ a % W \in 0 .. W - 1 /\ b \div W \in Int /\ b % W \in 0 .. W - 1
  BY <1>1, SMT
<1>3. a = W * (a \div W) + (a % W) /\ b = W * (b \div W) + (b % W)
  BY <1>1, SMT
<1>4. a \div W >= 0
  BY <1>1, SMT
<1>5. a \div W < b \div W
  <2> DEFINE x == a \div W
             y == b \div W
             r == a % W
             s == b % W
  <2>1. x \in Int /\ y \in Int /\ r \in 0 .. W - 1 /\ s \in 0 .. W - 1
    BY <1>2, Zenon
  <2>2. W * x + r + W <= W * y + s
    BY <1>1, <1>3, Zenon
  <2> HIDE DEF x, y, r, s
  <2>3. W * x < W * y
    BY <1>1, <2>1, <2>2, SMT
  <2>4. y <= x => W * y <= W * x
    BY <1>1, <2>1, SMT
  <2> QED BY <1>1, <2>1, <2>3, <2>4, SMT DEF x, y
<1>6. W * (a \div W) = (a \div W) * W
  BY <1>1, <1>2, SMT
<1> QED BY <1>1, <1>2, <1>3, <1>4, <1>5, <1>6 DEF W, a, b, calculateRequiredSlots

\* A value that is stored is read back: what is beyond its last byte is not read.
LEMMA StoredIsRead ==
  ASSUME NEW words, NEW value \in Bytes, NEW pad
  PROVE  Read(Stored(words, value, pad), Len(value)) = value
<1>1. value \in Seq(Byte) /\ Len(value) \in Nat /\ calculateRequiredSlots(Len(value)) <= MaxWords
  BY EvmQueueConstants DEF calculateRequiredSlots
<1>2. ASSUME NEW k \in 1 .. Len(value)
      PROVE  Read(Stored(words, value, pad), Len(value))[k] = value[k]
  <2> DEFINE j == (k - 1) \div WordSize
             r == (k - 1) % WordSize
  <2>1. /\ j \in Nat /\ r \in 0 .. WordSize - 1 /\ j * WordSize + r + 1 = k
        /\ j < calculateRequiredSlots(Len(value))
    BY <1>1, PlaceOfByte, Zenon
  <2>2. Read(Stored(words, value, pad), Len(value))[k] = Stored(words, value, pad)[j][r + 1]
    BY Zenon DEF Read
  <2> HIDE DEF j, r
  <2>3. calculateRequiredSlots(Len(value)) \in Int /\ MaxWords \in Nat /\ WordSize \in Nat
    BY <1>1, EvmQueueConstants DEF calculateRequiredSlots
  <2>4. j \in WordNo
    BY <1>1, <2>1, <2>3 DEF WordNo
  <2>5. Stored(words, value, pad)[j] = Chunk(value, j, pad)
    BY <2>1, <2>4, Zenon DEF Stored
  <2>6. r + 1 \in 1 .. WordSize /\ j * WordSize + (r + 1) = k
    BY <2>1, <2>3
  <2>7. Chunk(value, j, pad)[r + 1] = value[k]
    BY <1>1, <2>6 DEF Chunk
  <2> QED BY <2>2, <2>5, <2>7, ZenonT(40)
<1>3. Read(Stored(words, value, pad), Len(value)) = [k \in 1 .. Len(value) |-> value[k]]
  BY <1>2, Zenon DEF Read
<1> QED BY <1>1, <1>3

\* So is a copy, whatever was there before.
LEMMA CopyIsRead ==
  ASSUME NEW words, NEW length \in Nat, calculateRequiredSlots(length) <= MaxWords, NEW from
  PROVE  Read(Copied(words, length, from), length) = Read(from, length)
<1>1. ASSUME NEW k \in 1 .. length
      PROVE  Copied(words, length, from)[(k - 1) \div WordSize] = from[(k - 1) \div WordSize]
  <2> DEFINE j == (k - 1) \div WordSize
  <2>1. j \in Nat /\ j < calculateRequiredSlots(length)
    BY PlaceOfByte, ZenonT(40)
  <2> HIDE DEF j
  <2>2. calculateRequiredSlots(length) \in Int /\ MaxWords \in Nat
    BY EvmQueueConstants DEF calculateRequiredSlots
  <2>3. j \in WordNo
    BY <2>1, <2>2 DEF WordNo
  <2> QED BY <2>1, <2>3, Zenon DEF Copied, j
<1> QED BY <1>1, Zenon DEF Read

\* The counters are in order, and no entry says it has more words than there are.
SlotInv ==
  /\ startIndex \in Nat /\ endIndex \in Nat /\ startIndex <= endIndex /\ endIndex <= MaxIndex
  /\ lengthSlot \in [Index -> Nat]
  /\ \A i \in Index : calculateRequiredSlots(lengthSlot[i]) <= MaxWords
  /\ dataSlot = [i \in Index |-> dataSlot[i]]

\* An empty entry needs no word, and no entry needs more words than there are.
LEMMA RequiredSlots ==
  /\ calculateRequiredSlots(0) = 0
  /\ \A v \in Bytes : Len(v) \in Nat /\ calculateRequiredSlots(Len(v)) <= MaxWords
<1>1. WordSize \in Nat \ {0} /\ (0 + WordSize - 1) \div WordSize = 0
  BY EvmQueueConstants, SMT
<1> QED BY <1>1, EvmQueueConstants DEF calculateRequiredSlots

\* What an index holds.
LEMMA EntryRead == \A i : retrieveElement(i) = Read(dataSlot[i], lengthSlot[i])
  BY Zenon DEF retrieveElement, Read

\* The same after a step.
LEMMA EntryReadNext == \A i : retrieveElement(i)' = Read(dataSlot'[i], lengthSlot'[i])
  BY Zenon DEF retrieveElement, Read

\* The queue is as long as the counters say.
QueueShape ==
  /\ Len(storedQueue) = endIndex - startIndex
  /\ \A k \in 1 .. endIndex - startIndex : storedQueue[k] = retrieveElement(startIndex + k)

\* When the counters are in order the queue has that shape, ...
LEMMA QueueIsShaped == SlotInv => QueueShape
<1> SUFFICES ASSUME SlotInv PROVE QueueShape
  BY ZenonT(40)
<1>1. endIndex - startIndex \in Nat
  BY DEF SlotInv
<1> DEFINE n == endIndex - startIndex
           S == {retrieveElement(startIndex + k) : k \in 1 .. n}
<1>2. storedQueue = [k \in 1 .. n |-> retrieveElement(startIndex + k)]
  BY Zenon DEF storedQueue, queueLen
<1>3. \A k \in 1 .. n : retrieveElement(startIndex + k) \in S
  BY Zenon
<1> HIDE DEF n, S
<1>4. storedQueue \in Seq(S) /\ Len(storedQueue) = n
  BY <1>1, <1>2, <1>3 DEF n
<1> QED BY <1>2, <1>4, ZenonT(40) DEF QueueShape, n

\* ... after a step as well.
LEMMA QueueIsShapedNext == SlotInv' => QueueShape'
  BY QueueIsShaped, PTL

\* Nothing is queued at first.
LEMMA InitSlotInv == createQueue => SlotInv /\ AbstractQueue!FifoInit
<1> SUFFICES ASSUME createQueue PROVE SlotInv /\ AbstractQueue!FifoInit
  BY Zenon
<1>1. SlotInv
  BY RequiredSlots, EvmQueueConstants DEF createQueue, SlotInv
<1>2. Len(storedQueue) = 0 /\ storedQueue = [k \in 1 .. 0 |-> retrieveElement(startIndex + k)]
  BY <1>1, QueueIsShaped DEF createQueue, QueueShape, storedQueue, queueLen
<1> QED BY <1>1, <1>2 DEF AbstractQueue!FifoInit, createQueue

\* What an insertion does to the slots, at the back or before.
Inserted(actual, value, pad) ==
  /\ lengthSlot' = [i \in Index |->
                      IF i = actual THEN Len(value)
                      ELSE IF actual < i /\ i <= endIndex + 1 THEN lengthSlot[i - 1]
                      ELSE lengthSlot[i]]
  /\ dataSlot' = [i \in Index |->
                    IF i = actual THEN Stored(dataSlot[i], value, pad)
                    ELSE IF actual < i /\ i <= endIndex + 1 THEN shiftElementsForward(i)
                    ELSE dataSlot[i]]

\* What a queue is with an entry inserted, place by place.
LEMMA InsertedEntries ==
  ASSUME SlotInv, NEW actual \in startIndex + 1 .. endIndex + 1, endIndex + 1 <= MaxIndex,
         NEW value \in Bytes, NEW pad, Inserted(actual, value, pad),
         endIndex' = endIndex + 1, startIndex' = startIndex
  PROVE  /\ SlotInv'
         /\ retrieveElement(actual)' = value
         /\ \A i \in startIndex + 1 .. actual - 1 : retrieveElement(i)' = retrieveElement(i)
         /\ \A i \in actual + 1 .. endIndex + 1 : retrieveElement(i)' = retrieveElement(i - 1)
<1>1. startIndex \in Nat /\ endIndex \in Nat /\ MaxIndex \in Nat /\ actual \in Index
  BY EvmQueueConstants DEF SlotInv, Index
<1>2. \A i \in Index : actual < i => i - 1 \in Index
  BY <1>1 DEF Index
<1>3. SlotInv'
  <2>1. lengthSlot' \in [Index -> Nat]
    BY <1>2, RequiredSlots, Zenon DEF SlotInv, Inserted
  <2>2. \A i \in Index : calculateRequiredSlots(lengthSlot'[i]) <= MaxWords
    BY <1>2, RequiredSlots, Zenon DEF SlotInv, Inserted
  <2>3. dataSlot' = [i \in Index |-> dataSlot'[i]]
    BY Zenon DEF Inserted
  <2>4. \A i \in Index : calculateRequiredSlots(lengthSlot[i])' = calculateRequiredSlots(lengthSlot'[i])
    BY Zenon DEF calculateRequiredSlots
  <2> QED BY <1>1, <2>1, <2>2, <2>3, <2>4 DEF SlotInv
<1>4. retrieveElement(actual)' = value
  <2>1. lengthSlot'[actual] = Len(value) /\ dataSlot'[actual] = Stored(dataSlot[actual], value, pad)
    BY <1>1, Zenon DEF Inserted
  <2> QED BY <2>1, StoredIsRead, EntryReadNext
<1>5. ASSUME NEW i \in startIndex + 1 .. actual - 1 PROVE retrieveElement(i)' = retrieveElement(i)
  <2>1. i \in Index /\ i # actual /\ ~(actual < i)
    BY <1>1 DEF Index
  <2>2. lengthSlot'[i] = lengthSlot[i] /\ dataSlot'[i] = dataSlot[i]
    BY <2>1, Zenon DEF Inserted
  <2> QED BY <2>2, EntryRead, EntryReadNext, ZenonT(40)
<1>6. ASSUME NEW i \in actual + 1 .. endIndex + 1 PROVE retrieveElement(i)' = retrieveElement(i - 1)
  <2>1. i \in Index /\ i - 1 \in Index /\ i # actual /\ actual < i /\ i <= endIndex + 1
    BY <1>1, <1>2 DEF Index
  <2>2. lengthSlot'[i] = lengthSlot[i - 1] /\ dataSlot'[i] = shiftElementsForward(i)
    BY <2>1, Zenon DEF Inserted
  <2>3. lengthSlot[i - 1] \in Nat /\ calculateRequiredSlots(lengthSlot[i - 1]) <= MaxWords
    BY <2>1, Zenon DEF SlotInv
  <2>4. Read(shiftElementsForward(i), lengthSlot[i - 1]) = Read(dataSlot[i - 1], lengthSlot[i - 1])
    BY <2>3, CopyIsRead, Zenon DEF shiftElementsForward
  <2> QED BY <2>2, <2>4, EntryRead, EntryReadNext, Zenon
<1> QED BY <1>3, <1>4, <1>5, <1>6, Zenon

\* Values are inserted where the queue inserts them.
LEMMA InsertionRefines ==
  ASSUME SlotInv, NEW index \in 0 .. queueLen, endIndex + 1 <= MaxIndex,
         NEW value \in Bytes, NEW pad, Inserted(startIndex + index + 1, value, pad),
         endIndex' = endIndex + 1, startIndex' = startIndex
  PROVE  SlotInv' /\ storedQueue' = AbstractQueue!InsertedAt(storedQueue, index, value)
<1> DEFINE actual == startIndex + index + 1
           n == endIndex - startIndex
<1>1. /\ startIndex \in Nat /\ endIndex \in Nat /\ index \in Nat /\ n \in Nat /\ index <= n
      /\ actual \in startIndex + 1 .. endIndex + 1
  BY DEF SlotInv, queueLen
<1>2. /\ SlotInv' /\ retrieveElement(actual)' = value
      /\ \A i \in startIndex + 1 .. actual - 1 : retrieveElement(i)' = retrieveElement(i)
      /\ \A i \in actual + 1 .. endIndex + 1 : retrieveElement(i)' = retrieveElement(i - 1)
  BY <1>1, InsertedEntries, Zenon
<1>3. Len(storedQueue) = n /\ \A k \in 1 .. n : storedQueue[k] = retrieveElement(startIndex + k)
  BY QueueIsShaped, Zenon DEF QueueShape
<1>4. storedQueue' = [k \in 1 .. n + 1 |-> retrieveElement(startIndex + k)']
  BY <1>1 DEF storedQueue, queueLen
<1>5. ASSUME NEW k \in 1 .. n + 1
      PROVE  retrieveElement(startIndex + k)' =
               IF k <= index THEN storedQueue[k] ELSE IF k = index + 1 THEN value ELSE storedQueue[k - 1]
  <2>1. CASE k <= index
    <3>1. startIndex + k \in startIndex + 1 .. actual - 1 /\ k \in 1 .. n
      BY <1>1, <2>1
    <3> QED BY <1>2, <1>3, <2>1, <3>1, Zenon
  <2>2. CASE k = index + 1
    <3>1. startIndex + k = actual /\ ~(k <= index)
      BY <1>1, <2>2
    <3> QED BY <1>2, <2>2, <3>1, Zenon
  <2>3. CASE k > index + 1
    <3>1. /\ startIndex + k \in actual + 1 .. endIndex + 1 /\ k - 1 \in 1 .. n
          /\ (startIndex + k) - 1 = startIndex + (k - 1) /\ ~(k <= index) /\ k # index + 1
      BY <1>1, <2>3
    <3>2. retrieveElement(startIndex + k)' = retrieveElement((startIndex + k) - 1)
      BY <1>2, <3>1, Zenon
    <3>3. retrieveElement(startIndex + k)' = retrieveElement(startIndex + (k - 1))
      BY <3>1, <3>2, Zenon
    <3>4. storedQueue[k - 1] = retrieveElement(startIndex + (k - 1))
      BY <1>3, <3>1, Zenon
    <3> QED BY <3>1, <3>3, <3>4, Zenon
  <2> QED BY <1>1, <2>1, <2>2, <2>3
<1>6. storedQueue' = AbstractQueue!InsertedAt(storedQueue, index, value)
  BY <1>3, <1>4, <1>5, Zenon DEF AbstractQueue!InsertedAt
<1> QED BY <1>2, <1>6, Zenon

\* pushBack is an insertion behind the last entry.
LEMMA PushBackRefines ==
  ASSUME SlotInv, NEW value \in Bytes, NEW pad, pushBack(value, pad)
  PROVE  SlotInv' /\ AbstractQueue!Push(value)
<1>1. startIndex \in Nat /\ endIndex \in Nat /\ queueLen \in 0 .. queueLen /\ startIndex + queueLen + 1 = endIndex + 1
  BY DEF SlotInv, queueLen
<1>2. Inserted(endIndex + 1, value, pad)
  <2>1. lengthSlot = [i \in Index |-> lengthSlot[i]] /\ dataSlot = [i \in Index |-> dataSlot[i]]
    BY Zenon DEF SlotInv
  <2>2. \A i \in Index : ~(endIndex + 1 < i /\ i <= endIndex + 1)
    BY <1>1 DEF Index
  <2>3. lengthSlot' = [i \in Index |-> IF i = endIndex + 1 THEN Len(value) ELSE lengthSlot[i]]
    BY <2>1, Zenon DEF pushBack
  <2>4. dataSlot' = [i \in Index |-> IF i = endIndex + 1 THEN Stored(dataSlot[i], value, pad) ELSE dataSlot[i]]
    BY <2>1, Zenon DEF pushBack
  <2> QED BY <2>2, <2>3, <2>4, Zenon DEF Inserted
<1>3. endIndex' = endIndex + 1 /\ endIndex + 1 <= MaxIndex /\ startIndex' = startIndex /\ returned' = <<>>
  BY Zenon DEF pushBack
<1>4. SlotInv' /\ storedQueue' = AbstractQueue!InsertedAt(storedQueue, queueLen, value)
  BY <1>1, <1>2, <1>3, InsertionRefines, Zenon
<1>5. Len(storedQueue) = queueLen
  BY QueueIsShaped, Zenon DEF QueueShape, queueLen
<1> QED BY <1>3, <1>4, <1>5, Zenon DEF AbstractQueue!Push

\* insertAt shifts what is behind.
LEMMA InsertAtRefines ==
  ASSUME SlotInv, NEW index \in 0 .. MaxIndex, NEW value \in Bytes, NEW pad, insertAt(index, value, pad)
  PROVE  SlotInv' /\ index \in 0 .. Len(storedQueue) /\ AbstractQueue!Insert(index, value)
<1>1. index \in 0 .. queueLen /\ Len(storedQueue) = queueLen
  BY EvmQueueConstants, QueueIsShaped DEF insertAt, queueLen, SlotInv, QueueShape
<1>2. /\ Inserted(startIndex + index + 1, value, pad) /\ endIndex + 1 <= MaxIndex
      /\ endIndex' = endIndex + 1 /\ startIndex' = startIndex /\ returned' = <<>>
  BY Zenon DEF insertAt, Inserted
<1>3. SlotInv' /\ storedQueue' = AbstractQueue!InsertedAt(storedQueue, index, value)
  BY <1>1, <1>2, InsertionRefines, Zenon
<1> QED BY <1>1, <1>2, <1>3, Zenon DEF AbstractQueue!Insert

\* popFront removes and returns the first entry; it clears the slots behind it.
LEMMA PopFrontRefines ==
  ASSUME SlotInv, popFront
  PROVE  /\ SlotInv' /\ Len(storedQueue) > 0
         /\ storedQueue' = AbstractQueue!RemovedAt(storedQueue, 0) /\ returned' = <<storedQueue[1]>>
<1> DEFINE n == endIndex - startIndex
           later(i) == Read(dataSlot'[i], lengthSlot'[i])
<1>1. /\ startIndex \in Nat /\ endIndex \in Nat /\ MaxIndex \in Nat /\ n \in Nat \ {0}
      /\ startIndex + 1 \in Index /\ endIndex <= MaxIndex
  BY EvmQueueConstants DEF SlotInv, popFront, Index
<1>2. /\ startIndex' = startIndex + 1 /\ endIndex' = endIndex /\ returned' = <<retrieveElement(startIndex + 1)>>
      /\ dataSlot' = [dataSlot EXCEPT ![startIndex + 1] = Cleared(startIndex + 1)]
      /\ lengthSlot' = [lengthSlot EXCEPT ![startIndex + 1] = 0]
  BY Zenon DEF popFront
<1>3. SlotInv'
  <2>1. lengthSlot' \in [Index -> Nat] /\ dataSlot' = [i \in Index |-> dataSlot'[i]]
    BY <1>2, Zenon DEF SlotInv
  <2>2. ASSUME NEW i \in Index PROVE calculateRequiredSlots(lengthSlot'[i]) <= MaxWords
    <3>1. lengthSlot'[i] = IF i = startIndex + 1 THEN 0 ELSE lengthSlot[i]
      BY <1>2, Zenon DEF SlotInv
    <3>2. calculateRequiredSlots(0) <= MaxWords /\ calculateRequiredSlots(lengthSlot[i]) <= MaxWords
      BY RequiredSlots, EvmQueueConstants DEF SlotInv
    <3> QED BY <3>1, <3>2, Zenon
  <2>3. \A i \in Index : calculateRequiredSlots(lengthSlot[i])' = calculateRequiredSlots(lengthSlot'[i])
    BY Zenon DEF calculateRequiredSlots
  <2> QED BY <1>1, <1>2, <2>1, <2>2, <2>3 DEF SlotInv
<1>4. Len(storedQueue) = n /\ \A k \in 1 .. n : storedQueue[k] = retrieveElement(startIndex + k)
  BY QueueIsShaped, Zenon DEF QueueShape
<1>5. storedQueue' = [k \in 1 .. n - 1 |-> later(startIndex + 1 + k)]
  <2>1. queueLen' = n - 1
    BY <1>1, <1>2 DEF queueLen
  <2>2. storedQueue' = [k \in 1 .. queueLen' |-> later(startIndex' + k)]
    BY Zenon DEF storedQueue, retrieveElement, Read
  <2> HIDE DEF n, later
  <2> QED BY <1>2, <2>1, <2>2, Zenon
<1>6. ASSUME NEW k \in 1 .. n - 1 PROVE later(startIndex + 1 + k) = storedQueue[k + 1]
  <2>1. /\ startIndex + 1 + k \in Index /\ startIndex + 1 + k # startIndex + 1
        /\ k + 1 \in 1 .. n /\ startIndex + (k + 1) = startIndex + 1 + k
    BY <1>1 DEF Index
  <2>2. /\ dataSlot'[startIndex + 1 + k] = dataSlot[startIndex + 1 + k]
        /\ lengthSlot'[startIndex + 1 + k] = lengthSlot[startIndex + 1 + k]
    <3>1. \A i \in Index : i # startIndex + 1 => dataSlot'[i] = dataSlot[i] /\ lengthSlot'[i] = lengthSlot[i]
      BY <1>2, Zenon DEF SlotInv
    <3> QED BY <2>1, <3>1, Zenon
  <2>3. later(startIndex + 1 + k) = retrieveElement(startIndex + 1 + k)
    BY <2>2, EntryRead, ZenonT(40)
  <2> QED BY <1>4, <2>1, <2>3, Zenon
<1>7. storedQueue' = AbstractQueue!RemovedAt(storedQueue, 0)
  <2>1. storedQueue' = [k \in 1 .. n - 1 |-> storedQueue[k + 1]]
    BY <1>5, <1>6, Zenon
  <2>2. \A k \in 1 .. n - 1 : ~(k <= 0)
    OBVIOUS
  <2> HIDE DEF n
  <2> QED BY <1>4, <2>1, <2>2, Zenon DEF AbstractQueue!RemovedAt
<1>8. storedQueue[1] = retrieveElement(startIndex + 1)
  BY <1>1, <1>4
<1> QED BY <1>1, <1>2, <1>3, <1>4, <1>7, <1>8, SMTT(30)

\* removeAt shifts what is behind the entry, which it returns, and clears the last slot.
LEMMA RemoveBehindFrontRefines ==
  ASSUME SlotInv, NEW index \in Nat, index < queueLen, removeBehindFront(index)
  PROVE  /\ SlotInv'
         /\ storedQueue' = AbstractQueue!RemovedAt(storedQueue, index)
         /\ returned' = <<storedQueue[index + 1]>>
<1> DEFINE n == endIndex - startIndex
           actual == startIndex + index + 1
           later(i) == Read(dataSlot'[i], lengthSlot'[i])
<1>1. /\ startIndex \in Nat /\ endIndex \in Nat /\ MaxIndex \in Nat /\ n \in Nat /\ index < n
      /\ endIndex <= MaxIndex /\ actual \in Index /\ actual <= endIndex
  BY EvmQueueConstants DEF SlotInv, queueLen, Index
<1>2. /\ startIndex' = startIndex /\ endIndex' = endIndex - 1 /\ returned' = <<retrieveElement(actual)>>
      /\ lengthSlot' = [i \in Index |->
                          IF actual <= i /\ i < endIndex THEN lengthSlot[i + 1]
                          ELSE IF i = endIndex THEN 0 ELSE lengthSlot[i]]
      /\ dataSlot' = [i \in Index |->
                        IF actual <= i /\ i < endIndex THEN shiftElementsBackward(i)
                        ELSE IF i = endIndex THEN Cleared(i) ELSE dataSlot[i]]
  BY Zenon DEF removeBehindFront
<1> HIDE DEF actual
<1>3. \A i \in Index : actual <= i /\ i < endIndex => i + 1 \in Index
  BY <1>1, SMTT(30) DEF Index
<1>4. SlotInv'
  <2>1. lengthSlot' \in [Index -> Nat] /\ dataSlot' = [i \in Index |-> dataSlot'[i]]
    BY <1>2, <1>3, Zenon DEF SlotInv
  <2>2. ASSUME NEW i \in Index PROVE calculateRequiredSlots(lengthSlot'[i]) <= MaxWords
    <3>1. calculateRequiredSlots(0) <= MaxWords /\ \A e \in Index : calculateRequiredSlots(lengthSlot[e]) <= MaxWords
      BY RequiredSlots, EvmQueueConstants DEF SlotInv
    <3>2. lengthSlot'[i] = 0 \/ \E e \in Index : lengthSlot'[i] = lengthSlot[e]
      BY <1>2, <1>3, Zenon
    <3> QED BY <3>1, <3>2, Zenon
  <2>3. \A i \in Index : calculateRequiredSlots(lengthSlot[i])' = calculateRequiredSlots(lengthSlot'[i])
    BY Zenon DEF calculateRequiredSlots
  <2>4. startIndex <= endIndex - 1
    BY <1>1
  <2> QED BY <1>1, <1>2, <2>1, <2>2, <2>3, <2>4 DEF SlotInv
<1>5. Len(storedQueue) = n /\ \A k \in 1 .. n : storedQueue[k] = retrieveElement(startIndex + k)
  BY QueueIsShaped, Zenon DEF QueueShape
<1>6. storedQueue' = [k \in 1 .. n - 1 |-> later(startIndex + k)]
  <2>1. queueLen' = n - 1
    BY <1>1, <1>2 DEF queueLen
  <2>2. storedQueue' = [k \in 1 .. queueLen' |-> later(startIndex' + k)]
    BY ZenonT(40) DEF storedQueue, retrieveElement, Read
  <2> HIDE DEF n, later
  <2> QED BY <1>2, <2>1, <2>2, Zenon
<1>7. ASSUME NEW k \in 1 .. n - 1
      PROVE  later(startIndex + k) = IF k <= index THEN storedQueue[k] ELSE storedQueue[k + 1]
  <2> DEFINE i == startIndex + k
  <2>1. /\ i \in Index /\ i < endIndex /\ k \in 1 .. n /\ k + 1 \in 1 .. n
        /\ startIndex + (k + 1) = i + 1 /\ (k <= index <=> ~(actual <= i))
    BY <1>1 DEF Index, actual
  <2>2. storedQueue[k] = retrieveElement(i) /\ storedQueue[k + 1] = retrieveElement(i + 1)
    BY <1>5, <2>1, Zenon
  <2> HIDE DEF i
  <2>3. CASE k <= index
    <3>1. dataSlot'[i] = dataSlot[i] /\ lengthSlot'[i] = lengthSlot[i]
      <4>1. i # endIndex
        BY <1>1, <2>1 DEF Index
      <4> QED BY <1>2, <2>1, <2>3, <4>1, Zenon
    <3> QED BY <2>2, <2>3, <3>1, EntryRead, Zenon DEF i
  <2>4. CASE ~(k <= index)
    <3>1. dataSlot'[i] = shiftElementsBackward(i) /\ lengthSlot'[i] = lengthSlot[i + 1]
      BY <1>2, <2>1, <2>4, Zenon
    <3>2. lengthSlot[i + 1] \in Nat /\ calculateRequiredSlots(lengthSlot[i + 1]) <= MaxWords
      BY <1>3, <2>1, <2>4, Zenon DEF SlotInv
    <3>3. Read(shiftElementsBackward(i), lengthSlot[i + 1]) = Read(dataSlot[i + 1], lengthSlot[i + 1])
      BY <3>2, CopyIsRead, Zenon DEF shiftElementsBackward
    <3> QED BY <2>2, <2>4, <3>1, <3>3, EntryRead, ZenonT(40) DEF i
  <2> QED BY <2>3, <2>4, Zenon
<1>8. storedQueue' = AbstractQueue!RemovedAt(storedQueue, index)
  <2> HIDE DEF n, later
  <2> QED BY <1>5, <1>6, <1>7, Zenon DEF AbstractQueue!RemovedAt
<1>9. storedQueue[index + 1] = retrieveElement(actual)
  <2>1. index + 1 \in 1 .. n /\ startIndex + (index + 1) = actual
    BY <1>1 DEF actual
  <2> QED BY <1>5, <2>1, Zenon
<1> QED BY <1>2, <1>4, <1>8, <1>9, Zenon

\* Every step on the slots is a step of the queue.
LEMMA SlotStepRefines ==
  ASSUME SlotInv, EvmQueueNext PROVE SlotInv' /\ AbstractQueue!FifoNext
<1>1. ASSUME NEW v \in Bytes, NEW pad \in Byte, pushBack(v, pad) PROVE SlotInv' /\ AbstractQueue!FifoNext
  BY <1>1, PushBackRefines, Zenon DEF AbstractQueue!FifoNext
<1>2. ASSUME popFront PROVE SlotInv' /\ AbstractQueue!Pop
  <2>1. storedQueue # <<>>
    BY <1>2, PopFrontRefines
  <2> QED BY <1>2, <2>1, PopFrontRefines, Zenon DEF AbstractQueue!Pop
<1>3. ASSUME NEW i \in 0 .. MaxIndex, NEW v \in Bytes, NEW pad \in Byte, insertAt(i, v, pad)
      PROVE  SlotInv' /\ AbstractQueue!FifoNext
  BY <1>3, InsertAtRefines, Zenon DEF AbstractQueue!FifoNext
<1>4. ASSUME NEW i \in 0 .. MaxIndex, removeAt(i) PROVE SlotInv' /\ AbstractQueue!FifoNext
  <2>1. CASE i = 0 /\ popFront
    BY <1>2, <2>1, Zenon DEF AbstractQueue!FifoNext
  <2>2. CASE i # 0 /\ removeBehindFront(i)
    <3>1. i \in Nat /\ i < queueLen /\ Len(storedQueue) = queueLen /\ queueLen \in Nat
      BY <1>4, EvmQueueConstants, QueueIsShaped DEF removeAt, QueueShape, queueLen, SlotInv
    <3>2. SlotInv' /\ AbstractQueue!Remove(i)
      BY <2>2, <3>1, RemoveBehindFrontRefines, Zenon DEF AbstractQueue!Remove
    <3>3. i \in 0 .. Len(storedQueue) - 1
      BY <3>1
    <3> QED BY <3>2, <3>3, Zenon DEF AbstractQueue!FifoNext
  <2> QED BY <1>4, <2>1, <2>2, Zenon DEF removeAt
<1>5. SlotInv' /\ AbstractQueue!FifoNext
  BY <1>1, <1>2, <1>3, <1>4, Zenon DEF EvmQueueNext, AbstractQueue!FifoNext
<1> QED BY <1>5, Zenon

\* The slots of the EVM queue, with the words that longer entries left and the bytes
\* read past the end of a value, implement FifoQueue, for all values and sizes of a word.
THEOREM EvmQueueRefinement == EvmQueueSpec => EvmQueueImplementsFifo
<1>1. SlotInv /\ [EvmQueueNext]_queueVars => SlotInv' /\ [AbstractQueue!FifoNext]_(AbstractQueue!fifoVars)
  <2>1. SlotInv /\ UNCHANGED queueVars => SlotInv' /\ UNCHANGED AbstractQueue!fifoVars
    BY Zenon DEF queueVars, SlotInv, AbstractQueue!fifoVars, storedQueue, queueLen, retrieveElement, calculateRequiredSlots
  <2> QED BY <2>1, SlotStepRefines, Zenon
<1> QED BY InitSlotInv, <1>1, PTL DEF EvmQueueSpec, EvmQueueImplementsFifo, AbstractQueue!FifoSpec

-----------------------------------------------------------------------------
(* What the authorization contract lets through                            *)

Kinds == {"MustBeIncluded", "CannotBeIncluded", "MustBeValue", "MustBeBytes"}

\* What creating an authorization establishes of its functions and what is relied upon
\* later: they are of one registered domain, of a type that runs there, and restricted
\* in the way of their type.
Fits(fs) ==
  /\ fs \in Seq(Range(fs)) /\ fs # << >>
  /\ registered(fs[1].domain)
  /\ \A f \in Range(fs) :
       /\ f.domain = fs[1].domain
       /\ validate_message_type(f, fs[1].domain)
       /\ validate_param_restrictions(f)
       /\ \A r \in Range(f.restrictions) : r.kind \in Kinds

\* A batch under way is a control message or was validated against functions that fit.
Authorized(d) ==
  \/ d.functions = << >> /\ d.messages = << >>
  \/ /\ Fits(d.functions)
     /\ d.domain = d.functions[1].domain
     /\ d.messages \in Batches
     /\ validate_messages(d, d.messages)

StoredRule(a) ==
  /\ a = [mode |-> a.mode, priority |-> a.priority, functions |-> a.functions]
  /\ Fits(a.functions)
  /\ ~(a.mode = "Permissionless" /\ a.priority = "High")

\* Domains are added and never taken back, and the mode of a label stays: what was
\* checked when the label was created still holds when its messages arrive.
RulesInv ==
  /\ \A d \in DOMAIN external_domains : external_domains[d].env \in {"cosmwasm", "evm"}
  /\ \A l \in DOMAIN rules : StoredRule(rules[l])
  /\ \A d \in delivered :
       /\ Authorized(d)
       /\ d.by = "user" => /\ d.label \in DOMAIN rules
                           /\ rules[d.label].mode = "Permissionless" => d.priority # "High"

\* What passes the check of a restriction meets it.
LEMMA CheckedIsMet ==
  ASSUME NEW json, NEW r, check_json_restriction(json, r) = "ok"
  PROVE  Meets(json, r)
<1>1. CASE r.kind = "MustBeIncluded"
  BY <1>1, Zenon DEF check_json_restriction, Meets
<1>2. CASE r.kind = "CannotBeIncluded"
  BY <1>2, Zenon DEF check_json_restriction, Meets
<1>3. CASE r.kind = "MustBeValue"
  BY <1>3, Zenon DEF check_json_restriction, Meets
<1>4. CASE r.kind \notin {"MustBeIncluded", "CannotBeIncluded", "MustBeValue"}
  BY <1>4, Zenon DEF check_json_restriction
<1> QED BY <1>1, <1>2, <1>3, <1>4, Zenon

\* A check that fits the type of the message never meets a restriction it cannot handle.
LEMMA ChecksHandle ==
  ASSUME NEW f, NEW m, m.type = f.type, validate_param_restrictions(f),
         NEW r \in Range(f.restrictions), r.kind \in Kinds
  PROVE  check_restriction(m, r) # "InvalidType"
<1>1. CASE m.type = "EvmRawCall"
  <2>1. r.kind = "MustBeBytes"
    BY <1>1, Zenon DEF validate_param_restrictions
  <2> QED BY <1>1, <2>1, Zenon DEF check_restriction, check_bytes_restriction
<1>2. CASE m.type # "EvmRawCall"
  <2>1. r.kind \in {"MustBeIncluded", "CannotBeIncluded", "MustBeValue"}
    BY <1>2, Zenon DEF validate_param_restrictions, Kinds
  <2>2. check_json_restriction(m.msg[1], r) # "InvalidType"
    <3>1. CASE r.kind = "MustBeIncluded"
      BY <3>1, Zenon DEF check_json_restriction
    <3>2. CASE r.kind = "CannotBeIncluded"
      BY <3>2, Zenon DEF check_json_restriction
    <3>3. CASE r.kind = "MustBeValue"
      BY <3>3, Zenon DEF check_json_restriction
    <3> QED BY <2>1, <3>1, <3>2, <3>3, Zenon
  <2> QED BY <1>2, <2>2, Zenon DEF check_restriction
<1> QED BY <1>1, <1>2, Zenon

\* What validate establishes.
LEMMA ValidFits ==
  ASSUME NEW label, NEW a, a.functions \in Seq(Range(a.functions)),
         \A f \in Range(a.functions) : \A r \in Range(f.restrictions) : r.kind \in Kinds,
         validate(label, a)
  PROVE  Fits(a.functions) /\ ~(a.mode = "Permissionless" /\ a.priority = "High")
<1>1. validate_functions(a.functions) /\ ~(a.mode = "Permissionless" /\ a.priority = "High")
  BY Zenon DEF validate
<1> QED BY <1>1, Zenon DEF validate_functions, validate_domain, Fits

\* Functions that fit still fit when a domain is added.
LEMMA FitsLater ==
  ASSUME NEW fs, Fits(fs),
         DOMAIN external_domains \subseteq DOMAIN external_domains',
         \A d \in DOMAIN external_domains : external_domains'[d] = external_domains[d]
  PROVE  Fits(fs)'
<1>1. registered(fs[1].domain)'
  BY Zenon DEF Fits, registered
<1>2. envOf(fs[1].domain)' = envOf(fs[1].domain)
  BY Zenon DEF Fits, registered, envOf
<1>3. \A f \in Range(fs) : validate_message_type(f, fs[1].domain)'
  BY <1>2, Zenon DEF Fits, validate_message_type
<1> QED BY <1>1, <1>3, Zenon DEF Fits, validate_param_restrictions

\* The invariant is what the processors rely on.
LEMMA RulesInvSuffices == RulesInv => ProcessorsGetWhatWasAuthorized
<1> SUFFICES ASSUME RulesInv PROVE ProcessorsGetWhatWasAuthorized
  BY ZenonT(40)
<1>1. ASSUME NEW d \in delivered, NEW i \in DOMAIN d.messages, d.messages # << >>
      PROVE  LET f == d.functions[i]
                 m == d.messages[i]
             IN  /\ f.domain = d.domain
                 /\ m.type \in IF envOf(d.domain) = "evm" THEN EvmTypes ELSE CosmwasmTypes
                 /\ IF m.type = "EvmRawCall"
                    THEN \A r \in Range(f.restrictions) : r.value = m.msg
                    ELSE /\ \A p \in DOMAIN m.msg[1] : p[1] = f.name
                         /\ \A r \in Range(f.restrictions) : Meets(m.msg[1], r)
  <2> DEFINE f == d.functions[i]
             m == d.messages[i]
  <2>1. /\ Fits(d.functions) /\ d.domain = d.functions[1].domain /\ d.messages \in Batches
        /\ validate_messages(d, d.messages)
    BY <1>1, Zenon DEF RulesInv, Authorized
  <2>2. f \in Range(d.functions) /\ m \in Range(d.messages) /\ accepts_message(f, m)
    <3>1. d.messages \in Seq(Range(d.messages)) /\ d.functions \in Seq(Range(d.functions))
      BY <2>1, RulesConstants, ZenonT(40) DEF Fits
    <3>2. DOMAIN d.messages = DOMAIN d.functions
      BY <2>1, <3>1 DEF validate_messages
    <3> QED BY <1>1, <2>1, <3>2, Zenon DEF validate_messages, Range
  <2> HIDE DEF f, m
  <2>3. /\ f.domain = d.domain /\ validate_message_type(f, d.domain) /\ registered(d.domain)
        /\ validate_param_restrictions(f) /\ m.type = f.type
    BY <2>1, <2>2, Zenon DEF Fits, accepts_message
  <2>4. envOf(d.domain) \in {"cosmwasm", "evm"}
    BY <2>3, ZenonT(40) DEF registered, envOf, RulesInv
  <2>5. m.type \in IF envOf(d.domain) = "evm" THEN EvmTypes ELSE CosmwasmTypes
    BY <2>3, <2>4, ZenonT(40) DEF validate_message_type
  <2>6. ASSUME m.type = "EvmRawCall" PROVE \A r \in Range(f.restrictions) : r.value = m.msg
    BY <2>2, <2>6, Zenon DEF accepts_message, check_restriction, check_bytes_restriction
  <2>7. ASSUME m.type # "EvmRawCall"
        PROVE  /\ \A p \in DOMAIN m.msg[1] : p[1] = f.name
               /\ \A r \in Range(f.restrictions) : Meets(m.msg[1], r)
    <3>1. m.msg # << >> /\ topLevel(m.msg[1]) = {<<f.name>>}
      BY <2>2, <2>7, ZenonT(40) DEF accepts_message
    <3>2. ASSUME NEW p \in DOMAIN m.msg[1] PROVE p[1] = f.name
      <4>1. <<p[1]>> \in DOMAIN m.msg[1]
        BY <2>1, <2>2, <2>7, <3>1, RulesConstants, Zenon
      <4>2. <<p[1]>> \in topLevel(m.msg[1])
        BY <4>1, Zenon DEF topLevel
      <4> QED BY <3>1, <4>2
    <3>3. \A r \in Range(f.restrictions) : check_json_restriction(m.msg[1], r) = "ok"
      BY <2>2, <2>7, Zenon DEF accepts_message, check_restriction
    <3> QED BY <3>2, <3>3, CheckedIsMet, Zenon
  <2> QED BY <2>3, <2>5, <2>6, <2>7, ZenonT(40) DEF f, m
<1>2. ASSUME NEW d \in delivered PROVE Len(d.messages) = Len(d.functions)
  BY <1>2, ZenonT(40) DEF RulesInv, Authorized, validate_messages
<1>3. ASSUME NEW d \in delivered, NEW i \in DOMAIN d.messages PROVE d.messages # << >>
  BY <1>3
<1>4. ASSUME NEW label \in DOMAIN rules, NEW f \in Range(rules[label].functions), NEW m,
             m.type = f.type, NEW r \in Range(f.restrictions)
      PROVE  check_restriction(m, r) # "InvalidType"
  <2>1. validate_param_restrictions(f) /\ r.kind \in Kinds
    BY <1>4, Zenon DEF RulesInv, StoredRule, Fits
  <2> QED BY <1>4, <2>1, ChecksHandle, Zenon
<1>5. \A d \in delivered :
        d.by = "user" /\ d.label \in DOMAIN rules /\ rules[d.label].mode = "Permissionless" =>
            d.priority # "High"
  BY Zenon DEF RulesInv
<1> QED BY <1>1, <1>2, <1>3, <1>4, <1>5, Zenon DEF ProcessorsGetWhatWasAuthorized

\* Nothing is stored at first.
LEMMA InitRulesInv == RulesInit => RulesInv
<1> SUFFICES ASSUME RulesInit PROVE RulesInv
  BY ZenonT(40)
<1>1. DOMAIN external_domains = {} /\ DOMAIN rules = {} /\ delivered = {}
  BY DEF RulesInit
<1> QED BY <1>1, Zenon DEF RulesInv

\* What neither adds a domain nor touches labels and batches keeps the invariant.
LEMMA RulesUntouched ==
  ASSUME RulesInv, UNCHANGED <<external_domains, rules, delivered>>
  PROVE  RulesInv'
<1>1. \A fs : Fits(fs) => Fits(fs)'
  BY FitsLater, Zenon
<1>2. \A d : Authorized(d) => Authorized(d)'
  BY <1>1, Zenon DEF Authorized, validate_messages
<1>3. \A a : StoredRule(a) => StoredRule(a)'
  BY <1>1, Zenon DEF StoredRule
<1> QED BY <1>2, <1>3, Zenon DEF RulesInv

\* A batch that is sent was validated.
LEMMA DeliveryKeeps ==
  ASSUME RulesInv, UNCHANGED <<external_domains, rules>>,
         NEW new, delivered' = delivered \cup {new}, Authorized(new),
         new.by = "user" => /\ new.label \in DOMAIN rules
                            /\ rules[new.label].mode = "Permissionless" => new.priority # "High"
  PROVE  RulesInv'
<1>1. \A fs : Fits(fs) => Fits(fs)'
  BY FitsLater, Zenon
<1>2. \A d : Authorized(d) => Authorized(d)'
  BY <1>1, Zenon DEF Authorized, validate_messages
<1>3. \A a : StoredRule(a) => StoredRule(a)'
  BY <1>1, Zenon DEF StoredRule
<1>4. \A d \in delivered' : d \in delivered \/ d = new
  BY Zenon
<1> QED BY <1>2, <1>3, <1>4, Zenon DEF RulesInv

\* Both ways to send a batch validate it against the stored functions.
LEMMA DeliverKeeps ==
  ASSUME RulesInv, NEW label \in DOMAIN rules, NEW by, NEW priority, NEW messages \in Batches,
         by = "user" => priority = rules[label].priority,
         deliver(label, by, priority, messages)
  PROVE  RulesInv'
<1> DEFINE fs == rules[label].functions
           new == [label |-> label, by |-> by, priority |-> priority, domain |-> fs[1].domain,
                   functions |-> fs, messages |-> messages]
<1>1. /\ delivered' = delivered \cup {new} /\ validate_messages(rules[label], messages)
      /\ UNCHANGED <<external_domains, rules>>
  BY Zenon DEF deliver, get_domain
<1>2. StoredRule(rules[label])
  BY Zenon DEF RulesInv
<1>3. /\ new.label = label /\ new.by = by /\ new.priority = priority
      /\ new.domain = fs[1].domain /\ new.functions = fs /\ new.messages = messages
  BY Zenon
<1> HIDE DEF new
<1>4. Authorized(new)
  BY <1>1, <1>2, <1>3, Zenon DEF Authorized, StoredRule, validate_messages
<1>5. new.by = "user" => /\ new.label \in DOMAIN rules
                         /\ rules[new.label].mode = "Permissionless" => new.priority # "High"
  BY <1>2, <1>3, Zenon DEF StoredRule
<1> QED BY <1>1, <1>4, <1>5, DeliveryKeeps, Zenon

\* A control message has no functions.
LEMMA ControlKeeps ==
  ASSUME RulesInv, NEW sender, NEW kind, NEW domain, processor_message(sender, kind, domain)
  PROVE  RulesInv'
<1> DEFINE new == [label |-> kind, by |-> "owner", priority |-> "Medium", domain |-> domain,
                   functions |-> << >>, messages |-> << >>]
<1>1. delivered' = delivered \cup {new} /\ UNCHANGED <<external_domains, rules>>
  BY Zenon DEF processor_message
<1>2. new.by # "user" /\ new.functions = << >> /\ new.messages = << >>
  BY Zenon
<1> HIDE DEF new
<1>3. Authorized(new)
  BY <1>2, Zenon DEF Authorized
<1> QED BY <1>1, <1>2, <1>3, DeliveryKeeps, Zenon

\* A new label takes no other's place.
LEMMA CreateKeeps ==
  ASSUME RulesInv, NEW sender, NEW info \in AuthInfos, create_authorization(sender, info)
  PROVE  RulesInv'
<1> DEFINE a == [mode |-> info.mode, priority |-> info.priority, functions |-> info.functions]
<1>1. /\ info.label \notin DOMAIN rules /\ validate(info.label, info)
      /\ rules' = Saved(rules, info.label, a)
      /\ UNCHANGED <<external_domains, delivered>>
  BY Zenon DEF create_authorization
<1>2. a.mode = info.mode /\ a.priority = info.priority /\ a.functions = info.functions
  BY Zenon
<1>3. Fits(info.functions) /\ ~(info.mode = "Permissionless" /\ info.priority = "High")
  BY <1>1, ValidFits, RulesConstants, Zenon DEF Kinds
<1>4. StoredRule(a)
  BY <1>2, <1>3, Zenon DEF StoredRule
<1> HIDE DEF a
<1>5. /\ DOMAIN rules' = DOMAIN rules \cup {info.label} /\ rules'[info.label] = a
      /\ \A l \in DOMAIN rules : rules'[l] = rules[l]
  BY <1>1, Zenon DEF Saved
<1>6. \A fs : Fits(fs) => Fits(fs)'
  BY <1>1, FitsLater, Zenon
<1>7. \A d : Authorized(d) => Authorized(d)'
  BY <1>6, Zenon DEF Authorized, validate_messages
<1>8. \A b : StoredRule(b) => StoredRule(b)'
  BY <1>6, Zenon DEF StoredRule
<1>9. \A l \in DOMAIN rules' : StoredRule(rules'[l])
  BY <1>4, <1>5, Zenon DEF RulesInv
<1> QED BY <1>1, <1>5, <1>7, <1>8, <1>9, Zenon DEF RulesInv

\* A change of priority is validated again and leaves the mode.
LEMMA ModifyKeeps ==
  ASSUME RulesInv, NEW sender, NEW label, NEW priority, modify_authorization(sender, label, priority)
  PROVE  RulesInv'
<1> DEFINE a == [rules[label] EXCEPT !.priority = priority]
<1>1. /\ label \in DOMAIN rules /\ validate(label, a)
      /\ rules' = [rules EXCEPT ![label] = a]
      /\ UNCHANGED <<external_domains, delivered>>
  BY Zenon DEF modify_authorization
<1>2. StoredRule(rules[label])
  BY <1>1, Zenon DEF RulesInv
<1>3. /\ a.mode = rules[label].mode /\ a.priority = priority
      /\ a.functions = rules[label].functions
      /\ a = [mode |-> a.mode, priority |-> a.priority, functions |-> a.functions]
  BY <1>2 DEF StoredRule
<1> HIDE DEF a
<1>4. StoredRule(a)
  <2>1. Fits(a.functions) /\ ~(a.mode = "Permissionless" /\ a.priority = "High")
    <3>1. /\ a.functions \in Seq(Range(a.functions))
          /\ \A f \in Range(a.functions) : \A r \in Range(f.restrictions) : r.kind \in Kinds
      BY <1>2, <1>3, Zenon DEF StoredRule, Fits
    <3> QED BY <1>1, <3>1, ValidFits, Zenon
  <2> QED BY <1>3, <2>1, Zenon DEF StoredRule
<1>5. /\ DOMAIN rules' = DOMAIN rules /\ rules'[label] = a
      /\ \A l \in DOMAIN rules : l # label => rules'[l] = rules[l]
  BY <1>1, Zenon
<1>6. \A fs : Fits(fs) => Fits(fs)'
  BY <1>1, FitsLater, Zenon
<1>7. \A d : Authorized(d) => Authorized(d)'
  BY <1>6, Zenon DEF Authorized, validate_messages
<1>8. \A b : StoredRule(b) => StoredRule(b)'
  BY <1>6, Zenon DEF StoredRule
<1>9. \A l \in DOMAIN rules' : StoredRule(rules'[l]) /\ rules'[l].mode = rules[l].mode
  BY <1>3, <1>4, <1>5, Zenon DEF RulesInv
<1> QED BY <1>1, <1>5, <1>7, <1>8, <1>9, ZenonT(40) DEF RulesInv

\* A domain that is added was not there, so no label was checked against it.
LEMMA AddDomainKeeps ==
  ASSUME RulesInv, NEW sender, NEW info \in DomainInfos, add_external_domain(sender, info)
  PROVE  RulesInv'
<1> DEFINE a == [env |-> info.env, encoder |-> info.encoder]
<1>1. /\ info.name \notin DOMAIN external_domains
      /\ external_domains' = Saved(external_domains, info.name, a)
      /\ UNCHANGED <<rules, delivered>>
  BY Zenon DEF add_external_domain
<1>2. a.env \in {"cosmwasm", "evm"}
  BY RulesConstants, Zenon
<1> HIDE DEF a
<1>3. /\ DOMAIN external_domains' = DOMAIN external_domains \cup {info.name}
      /\ external_domains'[info.name] = a
      /\ \A d \in DOMAIN external_domains : external_domains'[d] = external_domains[d]
  BY <1>1, Zenon DEF Saved
<1>4. \A fs : Fits(fs) => Fits(fs)'
  BY <1>3, FitsLater, Zenon
<1>5. \A d : Authorized(d) => Authorized(d)'
  BY <1>4, Zenon DEF Authorized, validate_messages
<1>6. \A b : StoredRule(b) => StoredRule(b)'
  BY <1>4, Zenon DEF StoredRule
<1>7. \A d \in DOMAIN external_domains' : external_domains'[d].env \in {"cosmwasm", "evm"}
  BY <1>2, <1>3, Zenon DEF RulesInv
<1> QED BY <1>1, <1>5, <1>6, <1>7, Zenon DEF RulesInv

\* Every step keeps the invariant.
LEMMA RulesStep == RulesInv /\ [RulesNext]_rulesVars => RulesInv'
<1> SUFFICES ASSUME RulesInv, [RulesNext]_rulesVars PROVE RulesInv'
  BY ZenonT(40)
<1>1. ASSUME NEW sender \in Ruler, NEW info \in AuthInfos, create_authorization(sender, info)
      PROVE  RulesInv'
  BY <1>1, CreateKeeps, Zenon
<1>2. ASSUME NEW sender \in Ruler, NEW info \in DomainInfos, add_external_domain(sender, info)
      PROVE  RulesInv'
  BY <1>2, AddDomainKeeps, Zenon
<1>3. ASSUME NEW sender \in Ruler, NEW label \in DOMAIN rules, NEW p \in Priorities,
             modify_authorization(sender, label, p)
      PROVE  RulesInv'
  BY <1>3, ModifyKeeps, Zenon
<1>4. ASSUME NEW sender \in Ruler, NEW label \in DOMAIN rules, NEW p \in Priorities, NEW ms \in Batches,
             insert_messages(sender, label, p, ms)
      PROVE  RulesInv'
  BY <1>4, DeliverKeeps, Zenon DEF insert_messages
<1>5. ASSUME NEW sender \in Ruler, NEW kind, NEW d, processor_message(sender, kind, d)
      PROVE  RulesInv'
  BY <1>5, ControlKeeps, Zenon
<1>6. ASSUME NEW label \in DOMAIN rules, NEW ms \in Batches, send_msgs(label, ms)
      PROVE  RulesInv'
  BY <1>6, DeliverKeeps, Zenon DEF send_msgs
<1>7. ASSUME NEW new, Ruling(new) PROVE RulesInv'
  BY <1>7, RulesUntouched, Zenon DEF Ruling
<1>8. ASSUME NEW v, remove_encoder(v) \/ \E e \in EncoderOf[v] : register_encoder(v, e)
      PROVE  RulesInv'
  BY <1>8, RulesUntouched, Zenon DEF remove_encoder, register_encoder
<1>9. ASSUME UNCHANGED rulesVars PROVE RulesInv'
  BY <1>9, RulesUntouched, Zenon DEF rulesVars
<1>10. ASSUME NEW sender \in Ruler, NEW other \in Ruler,
              \/ add_sub_owner(sender, other) \/ remove_sub_owner(sender, other)
              \/ transfer_ownership(sender, other) \/ accept_ownership(sender)
              \/ renounce_ownership(sender)
       PROVE  RulesInv'
  BY <1>7, <1>10, Zenon DEF add_sub_owner, remove_sub_owner, transfer_ownership, accept_ownership,
     renounce_ownership
<1> QED BY <1>1, <1>2, <1>3, <1>4, <1>5, <1>6, <1>8, <1>9, <1>10, ZenonT(40) DEF RulesNext

\* Processors get what was authorized, for any labels, functions, restrictions and
\* messages, and however domains, encoders, priorities and owners change in between.
THEOREM OnlyTheAuthorized == RulesSpec => []ProcessorsGetWhatWasAuthorized
<1>1. RulesInit => RulesInv
  BY InitRulesInv, Zenon
<1>2. RulesInv /\ [RulesNext]_rulesVars => RulesInv'
  BY RulesStep, Zenon
<1>3. RulesInv => ProcessorsGetWhatWasAuthorized
  BY RulesInvSuffices, Zenon
<1> QED BY <1>1, <1>2, <1>3, PTL DEF RulesSpec
=============================================================================

---------------------------- MODULE IbcTransfer ----------------------------
(***************************************************************************)
(* The libraries that send coins over IBC: generic-ibc-transfer,           *)
(* neutron-ibc-transfer (which pays relayers) and ica-ibc-transfer (which  *)
(* has a remote account send).  A transfer goes straight to its receiver,  *)
(* through the packet-forward middleware of a hop chain when the denom has *)
(* a forwarding configuration, or through a Eureka callback contract.      *)
(*                                                                         *)
(* The chains, the middleware and the Eureka contracts are external: a hop *)
(* forwards what its memo asks, a transfer that fails or times out comes   *)
(* back to its sender, unless it was forwarded from a hop where the        *)
(* configured receiver is an address of that chain, with which it then     *)
(* settles; a Eureka transfer whose second leg fails stays with the        *)
(* recover address.  The remote account of ica-ibc-transfer exists and     *)
(* sends in the same step as the library asks it to.                       *)
(***************************************************************************)
EXTENDS Integers, Sequences, FiniteSetsExt

CONSTANTS Transferrer,    \* which of the libraries are instantiated
          Coins,          \* denoms
          Ntrn,           \* the one that pays relayers
          MinFee,         \* minimum fee: [recv_fee, ack_fee, timeout_fee] of coins
          Leads,          \* the chain at the other end of a channel
          HopAddress,     \* the receivers that are addresses of a hop chain
          FirstRoute,     \* the configuration the library starts with
          RouteUpdates,   \* what its owner may change: partial configurations
          MaxHeld,        \* bound on a balance
          MaxTransfers    \* bound on transfers

VARIABLES transferrer,    \* which library this is
          route,          \* its configuration
          held,           \* balances of the input account of the route
          wires,          \* transfers under way: [id, cfg, fn, msg, chain]
          landed,         \* transfers that ended: [id, cfg, fn, chain, address]
          transfers       \* transfers so far

transferVars == <<transferrer, route, held, wires, landed, transfers>>

Home == "home"
Full == << >>             \* IbcTransferAmount::FullAmount; <<n>> is FixedAmount

\* Field by field: do_validate on instantiation, the same checks on an update.  The
\* amount of ica-ibc-transfer is a number, and it checks two fields more.
valid_route(u) ==
  /\ "amount" \in DOMAIN u => u.amount # <<0>> /\ (transferrer = "ica" => u.amount # Full)
  /\ "channel" \in DOMAIN u => u.channel # ""
  /\ "timeout" \in DOMAIN u => u.timeout # <<0>>
  /\ transferrer = "ica" =>
       /\ "denom" \in DOMAIN u => u.denom # ""
       /\ "output_addr" \in DOMAIN u => u.output_addr # ""

TransferInit ==
  /\ transferrer \in Transferrer
  /\ route = FirstRoute /\ valid_route(FirstRoute)
  /\ held = [d \in Coins |-> 0]
  /\ wires = {} /\ landed = {} /\ transfers = 0

\* The fields that are given replace those of the configuration; ica-ibc-transfer
\* leaves the memo as it is.  Another input account has balances of its own.
update_route(u) ==
  /\ valid_route(u)
  /\ route' = [f \in DOMAIN route |->
                 IF f \in DOMAIN u /\ ~(transferrer = "ica" /\ f = "memo") THEN u[f] ELSE route[f]]
  /\ held' \in IF "input_addr" \in DOMAIN u /\ u.input_addr # route.input_addr
               THEN [Coins -> 0 .. MaxHeld] ELSE {held}
  /\ UNCHANGED <<transferrer, wires, landed, transfers>>

-----------------------------------------------------------------------------
(* The message of a transfer.                                              *)

Plain(text) == [kind |-> "plain", text |-> text]
Forward(receiver, channel) == [kind |-> "forward", receiver |-> receiver, channel |-> channel]

\* hop_chain_receiver_address, if there is one.
hopReceiver(address) == IF address = << >> THEN "pfm" ELSE address[1]

\* A transfer of a denom that has a forwarding configuration goes to the hop chain,
\* and its memo, in place of the one given, tells the hop where to send it on.
ibc_send_message(channel, to, denom, amount, memo, pfm) ==
  IF denom \in DOMAIN pfm
  THEN [channel |-> pfm[denom].local_to_hop_chain_channel_id,
        to |-> hopReceiver(pfm[denom].hop_chain_receiver_address),
        denom |-> denom, amount |-> amount,
        memo |-> Forward(to, pfm[denom].hop_to_destination_chain_channel_id)]
  ELSE [channel |-> channel, to |-> to, denom |-> denom, amount |-> amount, memo |-> memo]

\* The message of ica-ibc-transfer, which the remote account signs.
create_msg_transfer(cfg, to, memo, pfm) ==
  ibc_send_message(cfg.channel, to, cfg.denom, cfg.amount[1], memo, pfm)

\* What the callback contract is asked to do, for the receiver beyond the hop.
build_eureka_memo(receiver, eureka) ==
  [kind |-> "eureka", receiver |-> receiver, callback |-> eureka.callback_contract,
   recover |-> eureka.recover_address, channel |-> eureka.source_channel]

\* Of the minimum fee, the acknowledgement and timeout coins in NTRN.
min_ntrn_ibc_fee(fee) ==
  [fee EXCEPT !.ack_fee = SelectSeq(@, LAMBDA c : c.denom = Ntrn),
              !.timeout_fee = SelectSeq(@, LAMBDA c : c.denom = Ntrn)]

flatten_ntrn_ibc_fee(fee) ==
  LET coins == fee.recv_fee \o fee.ack_fee \o fee.timeout_fee
  IN MapThenSumSet(LAMBDA i : coins[i].amount, DOMAIN coins)

total_fee ==
  IF transferrer = "neutron" THEN flatten_ntrn_ibc_fee(min_ntrn_ibc_fee(MinFee)) ELSE 0

\* Fees and amounts are unsigned, and configurations name coins of the chain.
Amounts == {Full} \cup [1 .. 1 -> Nat]
ASSUME TransferConstants ==
  /\ Ntrn \in Coins
  /\ flatten_ntrn_ibc_fee(min_ntrn_ibc_fee(MinFee)) \in Nat
  /\ {"amount", "denom"} \subseteq DOMAIN FirstRoute
  /\ FirstRoute.amount \in Amounts /\ FirstRoute.denom \in Coins
  /\ \A u \in RouteUpdates : /\ "amount" \in DOMAIN u => u.amount \in Amounts
                             /\ "denom" \in DOMAIN u => u.denom \in Coins

\* The balance that process_function asks for; ica-ibc-transfer asks for none.
amountOf(cfg) == IF cfg.amount = Full THEN held[cfg.denom] ELSE cfg.amount[1]
enough(cfg) == transferrer = "ica" \/ held[cfg.denom] >= amountOf(cfg)

\* ibc_send_message of neutron: the sender holds the fee besides the amount, unless
\* the amount is the whole balance of NTRN, which then pays the fee.
covers_fee(denom, amount) ==
  IF denom = Ntrn
  THEN IF amount = held[Ntrn] THEN amount >= total_fee ELSE held[Ntrn] >= amount + total_fee
  ELSE held[Ntrn] >= total_fee
transfer_amount(denom, amount) ==
  IF denom = Ntrn /\ amount = held[Ntrn] THEN amount - total_fee ELSE amount

\* Variant: a Eureka transfer takes the forwarding configuration of its denom.
eurekaPfm_configured(cfg) == cfg.denom_to_pfm_map
eurekaPfm(cfg) == << >>

\* The message of a function of the library.
messageOf(cfg, fn, amount) ==
  LET send(to, memo, pfm) ==
        IF transferrer = "ica"
        THEN create_msg_transfer(cfg, to, memo, pfm)
        ELSE ibc_send_message(cfg.channel, to, cfg.denom, amount, memo, pfm)
  IN  IF fn = "EurekaTransfer"
      THEN send(cfg.eureka_config[1].callback_contract,
                build_eureka_memo(cfg.output_addr, cfg.eureka_config[1]), eurekaPfm(cfg))
      ELSE send(cfg.output_addr, Plain(cfg.memo), cfg.denom_to_pfm_map)

\* What process_function lets through.
accepts(cfg, fn) ==
  /\ enough(cfg)
  /\ fn = "EurekaTransfer" => cfg.eureka_config # << >>
  /\ transferrer = "neutron" => covers_fee(cfg.denom, amountOf(cfg))
sentAmount(cfg) ==
  IF transferrer = "neutron" THEN transfer_amount(cfg.denom, amountOf(cfg)) ELSE amountOf(cfg)

\* What the sender pays: the amount and the fee.
PaidFor(cfg) ==
  [d \in Coins |-> (IF d = cfg.denom THEN sentAmount(cfg) ELSE 0) + (IF d = Ntrn THEN total_fee ELSE 0)]
Payable(cfg) == \A d \in Coins : PaidFor(cfg)[d] <= held[d]

\* The whole transaction: the library, the account that sends for it, and the bank,
\* which sends no empty transfer.
transfer(fn) ==
  /\ transfers < MaxTransfers
  /\ accepts(route, fn) /\ sentAmount(route) > 0 /\ Payable(route)
  /\ held' = [d \in Coins |-> held[d] - PaidFor(route)[d]]
  /\ LET msg == messageOf(route, fn, sentAmount(route))
     IN  wires' = wires \cup {[id |-> transfers, cfg |-> route, fn |-> fn, msg |-> msg,
                               leg |-> "first", chain |-> Leads[msg.channel]]}
  /\ transfers' = transfers + 1
  /\ UNCHANGED <<transferrer, route, landed>>

-----------------------------------------------------------------------------
(* The chains.                                                             *)

Ended(w, chain, address) ==
  [id |-> w.id, cfg |-> w.cfg, fn |-> w.fn, chain |-> chain, address |-> address]

\* The middleware, or the callback contract of Eureka, sends a transfer on.
Onward(w, leg) ==
  [w EXCEPT !.leg = leg, !.chain = Leads[w.msg.memo.channel],
            !.msg.to = w.msg.memo.receiver, !.msg.channel = w.msg.memo.channel]

arrive(w) ==
  /\ LET acts == w.leg = "first" /\ w.msg.memo.kind = "eureka" /\ w.msg.to = w.msg.memo.callback
         forwards == w.leg = "first" /\ w.msg.memo.kind = "forward"
     IN  IF acts \/ forwards
         THEN /\ wires' = (wires \ {w}) \cup {Onward(w, IF acts THEN "eureka" ELSE "forwarded")}
              /\ UNCHANGED landed
         ELSE /\ wires' = wires \ {w}
              /\ landed' = landed \cup {Ended(w, w.chain, w.msg.to)}
  /\ UNCHANGED <<transferrer, route, held, transfers>>

\* The forwarding configuration of a transfer's denom, and its receiver on the hop.
hopConfig(cfg) == cfg.denom_to_pfm_map[cfg.denom]
hopAddress(cfg) == hopReceiver(hopConfig(cfg).hop_chain_receiver_address)

\* A leg fails or times out.  What comes back goes to the account that sent it.
fail(w) ==
  /\ wires' = wires \ {w}
  /\ LET recovered == w.leg = "eureka"
         settled == w.leg = "forwarded" /\ hopAddress(w.cfg) \in HopAddress
         address == IF recovered THEN w.msg.memo.recover ELSE hopAddress(w.cfg)
         chain == Leads[IF recovered THEN w.cfg.channel ELSE hopConfig(w.cfg).local_to_hop_chain_channel_id]
     IN  IF recovered \/ settled
         THEN landed' = landed \cup {Ended(w, chain, address)} /\ UNCHANGED held
         ELSE /\ held' = IF w.cfg.input_addr = route.input_addr
                         THEN [held EXCEPT ![w.msg.denom] = @ + w.msg.amount] ELSE held
              /\ UNCHANGED landed
  /\ UNCHANGED <<transferrer, route, transfers>>

receive(d) ==
  /\ held[d] < MaxHeld
  /\ held' = [held EXCEPT ![d] = @ + 1]
  /\ UNCHANGED <<transferrer, route, wires, landed, transfers>>

-----------------------------------------------------------------------------
TransferNext ==
  \/ \E u \in RouteUpdates : update_route(u)
  \/ transfer("IbcTransfer") \/ transfer("EurekaTransfer")
  \/ \E w \in wires : arrive(w) \/ fail(w)
  \/ \E d \in Coins : receive(d)

TransferSpec == TransferInit /\ [][TransferNext]_transferVars

-----------------------------------------------------------------------------
\* The chain a configuration sends its coins to.
Destination(cfg, fn) ==
  Leads[IF fn = "EurekaTransfer" THEN cfg.eureka_config[1].source_channel
        ELSE IF cfg.denom \in DOMAIN cfg.denom_to_pfm_map
             THEN cfg.denom_to_pfm_map[cfg.denom].hop_to_destination_chain_channel_id
             ELSE cfg.channel]

\* Coins that leave end with the output address of the configuration they were sent
\* under, on the chain it leads to, whatever the route and whatever its owner changed
\* while they were under way; or come back; or end with the recover address of a Eureka
\* transfer, on the chain of its callback contract; or, where the configuration names a
\* real address of the hop chain, with that address.  They are never left with the name
\* that stands for a hop's receiver or with a callback contract.  The neutron library
\* lets coins leave if and only if the account can pay them together with the relayer
\* fee, which comes out of the amount when a whole balance of NTRN is sent.
CoinsLandWhereConfigured ==
  /\ \A t \in landed :
       \/ t.chain = Destination(t.cfg, t.fn) /\ t.address = t.cfg.output_addr
       \/ /\ t.fn = "EurekaTransfer"
          /\ t.chain = Leads[t.cfg.channel] /\ t.address = t.cfg.eureka_config[1].recover_address
       \/ /\ t.fn = "IbcTransfer" /\ t.cfg.denom \in DOMAIN t.cfg.denom_to_pfm_map
          /\ t.chain = Leads[hopConfig(t.cfg).local_to_hop_chain_channel_id]
          /\ t.address = hopAddress(t.cfg) /\ t.address \in HopAddress
  /\ transferrer = "neutron" =>
       (accepts(route, "IbcTransfer") <=> sentAmount(route) >= 0 /\ Payable(route))

=============================================================================

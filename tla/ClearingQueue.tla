--------------------------- MODULE ClearingQueue ---------------------------
(***************************************************************************)
(* The clearing queue library (contracts/libraries/clearing-queue), which  *)
(* pays withdrawal obligations in the order of their ids from a settlement *)
(* account, composed with the one-way vault whose requests it clears.      *)
(*                                                                         *)
(* In between is the relayer that proves a request of the vault to the     *)
(* other domain (external): it may present a request late, more than once  *)
(* or out of order.  Request i of the vault is obligation i + 1, because   *)
(* the queue starts from latest_id = 0 and expects the next id.            *)
(***************************************************************************)
EXTENDS OneWayVault

CONSTANTS
  Denom, FirstDenom,    \* denoms the library may be configured with
  ValidAddress,         \* receivers that are addresses of this domain
  NewBalance,           \* what a new settlement account may hold of a denom
  MaxSettlementAccounts \* bound on the settlement accounts used, one after the other

ASSUME ClearingConstants == FirstDenom \in Denom

VARIABLES
  latest_id, denom, settlement_acc_addr,  \* the library's config; accounts are numbered
  clearing_queue,
  obligation_status,    \* id -> InQueue, Processed, Error, or None before it is registered
  settlement,           \* denom -> balance of the account settlement_acc_addr
  payouts               \* history: what was paid, in order

clearingVars ==
  <<latest_id, denom, settlement_acc_addr, clearing_queue, obligation_status, settlement, payouts>>

ObligationId == 1 .. MaxRequests

ClearingInit ==
  /\ latest_id = 0 /\ denom = FirstDenom /\ settlement_acc_addr = 1
  /\ clearing_queue = <<>>
  /\ obligation_status = [id \in ObligationId |-> "None"]
  /\ settlement = [d \in Denom |-> 0]
  /\ payouts = <<>>

\* What request id is worth at its own rate.
payout_amount(id) ==
  assetsFor(withdrawRequests[id].sharesAmount, withdrawRequests[id].redemptionRate)

\* Variant: an obligation that cannot be paid is refused.
try_register_withdraw_obligation_strict(id) ==
  /\ latest_id + 1 = id
  /\ latest_id' = id
  /\ withdrawRequests[id].receiver \in ValidAddress /\ payout_amount(id) # 0
  /\ clearing_queue' = Append(clearing_queue, [id |-> id, amount |-> payout_amount(id), denom |-> denom])
  /\ obligation_status' = [obligation_status EXCEPT ![id] = "InQueue"]
  /\ UNCHANGED <<denom, settlement_acc_addr, settlement, payouts>>

\* An obligation that cannot be paid is recorded as an error, so that it does
\* not block the ones behind it.
try_register_withdraw_obligation(id) ==
  /\ latest_id + 1 = id
  /\ latest_id' = id
  /\ IF withdrawRequests[id].receiver \notin ValidAddress \/ payout_amount(id) = 0
     THEN /\ obligation_status' = [obligation_status EXCEPT ![id] = "Error"]
          /\ UNCHANGED clearing_queue
     ELSE /\ clearing_queue' = Append(clearing_queue,
                                 [id |-> id, amount |-> payout_amount(id), denom |-> denom])
          /\ obligation_status' = [obligation_status EXCEPT ![id] = "InQueue"]
  /\ UNCHANGED <<denom, settlement_acc_addr, settlement, payouts>>

\* Variant: the obligation at the back is settled.
try_settle_next_obligation_back ==
  /\ clearing_queue # <<>>
  /\ LET o == clearing_queue[Len(clearing_queue)]
     IN /\ settlement[o.denom] >= o.amount
        /\ settlement' = [settlement EXCEPT ![o.denom] = @ - o.amount]
        /\ obligation_status' = [obligation_status EXCEPT ![o.id] = "Processed"]
        /\ payouts' = Append(payouts, o)
  /\ clearing_queue' = SubSeq(clearing_queue, 1, Len(clearing_queue) - 1)
  /\ UNCHANGED <<latest_id, denom, settlement_acc_addr>>

\* The account that pays is asked to send by a message that fails or succeeds
\* with the whole call.
try_settle_next_obligation ==
  /\ clearing_queue # <<>>
  /\ LET o == Head(clearing_queue)
     IN /\ settlement[o.denom] >= o.amount
        /\ settlement' = [settlement EXCEPT ![o.denom] = @ - o.amount]
        /\ obligation_status' = [obligation_status EXCEPT ![o.id] = "Processed"]
        /\ payouts' = Append(payouts, o)
  /\ clearing_queue' = Tail(clearing_queue)
  /\ UNCHANGED <<latest_id, denom, settlement_acc_addr>>

\* update_config: a new denom is for obligations registered from now on, a new
\* settlement account pays the ones that are queued too.
update_config(d, acc) ==
  /\ denom' = d
  /\ settlement_acc_addr' = acc
  /\ settlement' \in IF acc = settlement_acc_addr THEN {settlement} ELSE [Denom -> NewBalance]
  /\ UNCHANGED <<latest_id, clearing_queue, obligation_status, payouts>>

\* external: the strategist brings what the head of the queue lacks.
topUp ==
  /\ clearing_queue # <<>>
  /\ LET o == Head(clearing_queue)
     IN settlement[o.denom] < o.amount
        /\ settlement' = [settlement EXCEPT ![o.denom] = o.amount]
  /\ UNCHANGED <<latest_id, denom, settlement_acc_addr, clearing_queue, obligation_status, payouts>>

\* external: the relayer presents a request, any one, any number of times.
Relay == \E id \in 1 .. Len(withdrawRequests) : try_register_withdraw_obligation(id)

ClearingNext ==
  \/ Relay
  \/ try_settle_next_obligation
  \/ \E d \in Denom, acc \in settlement_acc_addr .. MaxSettlementAccounts : update_config(d, acc)
  \/ topUp

SettlementInit == OneWayInit /\ ClearingInit
SettlementNext ==
  \/ OneWayNext /\ UNCHANGED clearingVars
  \/ ClearingNext /\ UNCHANGED vaultVars
settlementVars == <<vaultVars, clearingVars>>
SettlementSpec == SettlementInit /\ [][SettlementNext]_settlementVars

-----------------------------------------------------------------------------
Queued == {clearing_queue[k].id : k \in DOMAIN clearing_queue}
Paid == {payouts[k].id : k \in DOMAIN payouts}

\* Requests of the vault are paid at most once each, in the order they were made,
\* for what their shares were worth then, however the relayer repeats and reorders
\* them; and the status of an obligation tells where it is, in exactly one place: in
\* the queue, paid, refused for good or not yet registered.
PaidOnceInOrder ==
  LET all == payouts \o clearing_queue
  IN /\ \A j, k \in DOMAIN all : j < k => all[j].id < all[k].id
     /\ \A k \in DOMAIN all :
          all[k].id <= Len(withdrawRequests) /\ all[k].amount = payout_amount(all[k].id)
     /\ \A id \in ObligationId :
          /\ obligation_status[id] = "InQueue" <=> id \in Queued
          /\ obligation_status[id] = "Processed" <=> id \in Paid
          /\ obligation_status[id] = "None" <=> id > latest_id

\* Every request is paid, or refused, in the end, when the relayer and the
\* strategist do their part: no request blocks the ones behind it.
RequestsAreCleared ==
  \A id \in ObligationId :
    id <= Len(withdrawRequests) ~> obligation_status[id] \in {"Processed", "Error"}

\* The relayer keeps presenting requests, the processor keeps calling settle,
\* and the strategist keeps the account funded.
ClearingFairness ==
  /\ WF_settlementVars(Relay /\ UNCHANGED vaultVars)
  /\ WF_settlementVars(try_settle_next_obligation /\ UNCHANGED vaultVars)
  /\ WF_settlementVars(topUp /\ UNCHANGED vaultVars)
=============================================================================

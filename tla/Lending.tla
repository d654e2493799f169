------------------------------- MODULE Lending -------------------------------
(***************************************************************************)
(* mars-lending: a library that lends the funds of its input account       *)
(* through a credit account of Mars, borrows against them, repays and      *)
(* withdraws.                                                              *)
(*                                                                         *)
(* The credit manager is external; it is modelled by what the actions the  *)
(* library sends it do to a credit account, in order and all or none.  The *)
(* manager refuses what would leave the account unhealthy, which is a      *)
(* step not taken.  Interest accrues, and the owner changes the            *)
(* configuration, between calls.                                           *)
(***************************************************************************)
EXTENDS Integers, Sequences, FiniteSetsExt

CONSTANTS Borrower,          \* addresses
          LendDenom,       \* denoms
          LendConfigs,     \* configurations
          Sums,            \* amounts a call may name
          FirstCash,       \* what every address holds at first
          MaxDebt,         \* bound on what is owed when a call borrows
          MaxCreditAccounts, \* bound on credit accounts
          MaxAccruals      \* bound on times that interest accrues

VARIABLES credit,          \* the credit accounts, in the order of their ids
          cash,            \* what every address holds
          lender,          \* configuration of the library
          accruals         \* times that interest accrued

lendingVars == <<credit, cash, lender, accruals>>

ASSUME LendingConstants ==
  /\ FirstCash \in [Borrower -> [LendDenom -> Nat]]
  /\ Sums \subseteq Nat \ {0}
  /\ \A cfg \in LendConfigs : /\ DOMAIN cfg = {"input_addr", "output_addr", "denom"}
                              /\ cfg.input_addr \in Borrower /\ cfg.output_addr \in Borrower
                              /\ cfg.denom \in LendDenom

-----------------------------------------------------------------------------
\* The credit accounts of an owner.
Accounts(owner) == {i \in DOMAIN credit : credit[i].owner = owner}

\* The first of them; an error if there is none.
hasCredit == Accounts(lender.input_addr) # {}
get_credit_account == Min(Accounts(lender.input_addr))

nothing == [d \in LendDenom |-> 0]

\* All debts.
owed == MapThenSumSet(LAMBDA i : MapThenSumSet(LAMBDA d : credit[i].debt[d], LendDenom), DOMAIN credit)

\* Deposit the balance, and lend all that is on the account.
lend(account, balance) ==
  [account EXCEPT !.lent[lender.denom] = @ + account.idle[lender.denom] + balance,
                  !.idle[lender.denom] = 0]

\* Variant: an account is created by every call.
Lend_always_created ==
  LET balance == cash[lender.input_addr][lender.denom]
  IN /\ balance > 0
     /\ Len(credit) < MaxCreditAccounts
     /\ credit' = Append(credit, lend([owner |-> lender.input_addr, idle |-> nothing,
                                       lent |-> nothing, debt |-> nothing], balance))
     /\ cash' = [cash EXCEPT ![lender.input_addr][lender.denom] = 0]
     /\ UNCHANGED <<lender, accruals>>

\* All of the input account's balance.  An account that is not there is created
\* first, for the input account; the reply then asks for the account and lends.
Lend ==
  LET balance == cash[lender.input_addr][lender.denom]
  IN /\ balance > 0
     /\ IF hasCredit
        THEN credit' = [credit EXCEPT ![get_credit_account] = lend(@, balance)]
        ELSE /\ Len(credit) < MaxCreditAccounts
             /\ credit' = Append(credit, lend([owner |-> lender.input_addr, idle |-> nothing,
                                               lent |-> nothing, debt |-> nothing], balance))
     /\ cash' = [cash EXCEPT ![lender.input_addr][lender.denom] = 0]
     /\ UNCHANGED <<lender, accruals>>

\* Reclaim, then withdraw to the output account: both of the same amount, or both
\* of all there is.
Withdraw(amount) ==
  LET c == get_credit_account
      d == lender.denom
      reclaimed == IF amount = << >> THEN credit[c].lent[d] ELSE amount[1]
      onAccount == credit[c].idle[d] + reclaimed
      paid == IF amount = << >> THEN onAccount ELSE amount[1]
  IN /\ hasCredit
     /\ reclaimed > 0 /\ reclaimed <= credit[c].lent[d]
     /\ credit' = [credit EXCEPT ![c].lent[d] = @ - reclaimed, ![c].idle[d] = onAccount - paid]
     /\ cash' = [cash EXCEPT ![lender.output_addr][d] = @ + paid]
     /\ UNCHANGED <<lender, accruals>>

\* Borrow, then withdraw the same amount to the output account.
Borrow(d, n) ==
  LET c == get_credit_account
      onAccount == credit[c].idle[d] + n
  IN /\ hasCredit
     /\ owed + n <= MaxDebt
     /\ credit' = [credit EXCEPT ![c].debt[d] = @ + n, ![c].idle[d] = onAccount - n]
     /\ cash' = [cash EXCEPT ![lender.output_addr][d] = @ + n]
     /\ UNCHANGED <<lender, accruals>>

\* Out of the input account's balance; what is not owed comes back to it.
Repay(d, n) ==
  LET c == get_credit_account
      repaid == Min({n, credit[c].debt[d]})
  IN /\ hasCredit
     /\ n <= cash[lender.input_addr][d]
     /\ credit[c].debt[d] > 0
     /\ credit' = [credit EXCEPT ![c].debt[d] = @ - repaid]
     /\ cash' = [cash EXCEPT ![lender.input_addr][d] = @ - repaid]
     /\ UNCHANGED <<lender, accruals>>

update_lending_config(fields, new) ==
  /\ lender' = [f \in DOMAIN lender |-> IF f \in fields THEN new[f] ELSE lender[f]]
  /\ UNCHANGED <<credit, cash, accruals>>

\* External: what is lent and what is owed grow.
grown(n) == IF n > 0 THEN n + 1 ELSE n

accrue(i, d) ==
  /\ accruals < MaxAccruals /\ accruals' = accruals + 1
  /\ credit' = [credit EXCEPT ![i].lent[d] = grown(@), ![i].debt[d] = grown(@)]
  /\ UNCHANGED <<cash, lender>>

-----------------------------------------------------------------------------
LendingInit ==
  /\ credit = << >>
  /\ cash = FirstCash
  /\ lender \in LendConfigs
  /\ accruals = 0

LendingNext ==
  \/ Lend
  \/ \E amount \in {<< >>} \cup {<<n>> : n \in Sums} : Withdraw(amount)
  \/ \E d \in LendDenom, n \in Sums : Borrow(d, n) \/ Repay(d, n)
  \/ \E fields \in SUBSET {"input_addr", "output_addr", "denom"}, new \in LendConfigs :
       update_lending_config(fields, new)
  \/ \E i \in DOMAIN credit, d \in LendDenom : accrue(i, d)

LendingSpec == LendingInit /\ [][LendingNext]_lendingVars

-----------------------------------------------------------------------------
\* However often the configuration changes between input accounts and denoms, an
\* account has one credit account at most, so that Lend, Withdraw, Borrow and Repay,
\* which all take the first, speak of the same position; and no call leaves funds
\* on it that are neither lent nor paid out.
CreditInOnePlace ==
  /\ \A i, j \in DOMAIN credit : credit[i].owner = credit[j].owner => i = j
  /\ \A i \in DOMAIN credit : \A d \in LendDenom : credit[i].idle[d] = 0
=============================================================================

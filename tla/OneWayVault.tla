---------------------------- MODULE OneWayVault ----------------------------
(***************************************************************************)
(* The one-way vault (solidity/src/vaults/OneWayVault.sol): deposits here, *)
(* withdrawals on another domain.  A withdrawal burns shares and leaves a  *)
(* numbered request that the clearing queue of the other domain pays.  The *)
(* vault pauses itself when its rate has not been updated for too long.    *)
(***************************************************************************)
EXTENDS VaultMath, Sequences

CONSTANTS
  WRate, FirstRate,     \* redemption rates
  WConfig, FirstWConfig,  \* valid configurations
  WAmount,              \* assets and shares asked for
  Receiver,             \* receivers on the other domain, not checked here
  MaxCollected, MaxRequests, MaxClock  \* bounds

ASSUME OneWayVaultConstants ==
  /\ WRate \subseteq Nat \ {0} /\ FirstRate \in WRate
  /\ WAmount \subseteq Nat \ {0} /\ MaxRequests \in Nat
  /\ FirstWConfig \in WConfig
  /\ \A c \in WConfig :
       /\ c.depositFeeBps \in 0 .. BasisPoints /\ c.withdrawFeeBps \in 0 .. BasisPoints
       /\ c.maxRateIncrementBps \in Nat /\ c.maxRateDecrementBps \in 0 .. BasisPoints
       /\ c.strategistRatioBps \in 0 .. BasisPoints /\ c.depositCap \in Nat
       /\ c.maxRateUpdateDelay \in Nat \ {0} /\ c.minRateUpdateDelay \in 0 .. c.maxRateUpdateDelay

VARIABLES
  wconfig,
  redemptionRate,
  vaultState,           \* paused, pausedByOwner, pausedByStaleRate
  withdrawRequests,     \* request i + 1 has id i; its length is currentWithdrawRequestId
  lastRateUpdateTimestamp,
  feesAccruedInAsset,
  totalSupply,          \* shares of all holders: who has them is left out
  collected,            \* history: assets paid in
  clock

vaultVars == <<wconfig, redemptionRate, vaultState, withdrawRequests, lastRateUpdateTimestamp,
               feesAccruedInAsset, totalSupply, collected, clock>>

currentWithdrawRequestId == Len(withdrawRequests)
Unpaused == [paused |-> FALSE, pausedByOwner |-> FALSE, pausedByStaleRate |-> FALSE]

OneWayInit ==
  /\ wconfig = FirstWConfig
  /\ redemptionRate = FirstRate
  /\ vaultState = Unpaused
  /\ withdrawRequests = <<>>
  /\ lastRateUpdateTimestamp = 1
  /\ feesAccruedInAsset = 0
  /\ totalSupply = 0
  /\ collected = 0
  /\ clock = 1

updateConfig(c) ==
  /\ wconfig' = c
  /\ UNCHANGED <<redemptionRate, vaultState, withdrawRequests, lastRateUpdateTimestamp,
                 feesAccruedInAsset, totalSupply, collected, clock>>

StaleRate == clock - lastRateUpdateTimestamp > wconfig.maxRateUpdateDelay

totalAssets == assetsFor(totalSupply, redemptionRate)

\* _checkAndHandleStaleRate, when it returns true: the call does only this.
pauseForStaleRate ==
  /\ ~vaultState.paused /\ StaleRate
  /\ vaultState' = [vaultState EXCEPT !.paused = TRUE, !.pausedByStaleRate = TRUE]
  /\ UNCHANGED <<wconfig, redemptionRate, withdrawRequests, lastRateUpdateTimestamp,
                 feesAccruedInAsset, totalSupply, collected, clock>>

\* whenNotPaused, and the rate is not stale.
Open == ~vaultState.paused /\ ~StaleRate

\* _deposit, and the fee that goes with it.
takeDeposit(assets, shares, fee) ==
  /\ collected + assets <= MaxCollected
  /\ totalSupply' = totalSupply + shares
  /\ feesAccruedInAsset' = feesAccruedInAsset + fee
  /\ collected' = collected + assets
  /\ UNCHANGED <<wconfig, redemptionRate, vaultState, withdrawRequests, lastRateUpdateTimestamp,
                 clock>>

maxDeposit(assets) == wconfig.depositCap = 0 \/ totalAssets + assets <= wconfig.depositCap

\* Variant: the shares are rounded up.
deposit_up(assets) ==
  /\ Open /\ maxDeposit(assets)
  /\ LET fee == feeOn(assets, wconfig.depositFeeBps)
     IN takeDeposit(assets, sharesForUp(assets - fee, redemptionRate), fee)

deposit(assets) ==
  /\ Open /\ maxDeposit(assets)
  /\ LET fee == feeOn(assets, wconfig.depositFeeBps)
     IN takeDeposit(assets, sharesFor(assets - fee, redemptionRate), fee)

maxMint(shares) ==
  \/ wconfig.depositCap = 0
  \/ /\ totalAssets < wconfig.depositCap
     /\ shares <= sharesFor(wconfig.depositCap - totalAssets, redemptionRate)

\* mint and calculateMintFee; with a fee of all the assets it reverts.
mint(shares) ==
  /\ Open /\ maxMint(shares)
  /\ wconfig.depositFeeBps < BasisPoints
  /\ LET base == assetsForUp(shares, redemptionRate)
         gross == IF wconfig.depositFeeBps = 0 THEN base ELSE grossFor(base, wconfig.depositFeeBps)
     IN takeDeposit(gross, shares, gross - base)

\* _withdraw: burn the shares, keep the net shares in the request.
fileRequest(receiver, burned, postFeeShares, fee) ==
  /\ currentWithdrawRequestId < MaxRequests
  /\ burned <= totalSupply
  /\ totalSupply' = totalSupply - burned
  /\ withdrawRequests' = Append(withdrawRequests,
       [redemptionRate |-> redemptionRate, sharesAmount |-> postFeeShares, receiver |-> receiver])
  /\ feesAccruedInAsset' = feesAccruedInAsset + fee
  /\ UNCHANGED <<wconfig, redemptionRate, vaultState, lastRateUpdateTimestamp, collected, clock>>

withdraw(receiver, assets) ==
  /\ Open /\ assets <= totalAssets
  /\ LET fee == feeOn(assets, wconfig.withdrawFeeBps)
     IN fileRequest(receiver, sharesForUp(assets, redemptionRate),
                    sharesForUp(assets - fee, redemptionRate), fee)

redeem(receiver, shares) ==
  /\ Open
  /\ LET gross == assetsFor(shares, redemptionRate)
         fee == feeOn(gross, wconfig.withdrawFeeBps)
     IN fileRequest(receiver, shares, sharesForUp(gross - fee, redemptionRate), fee)

\* _distributeFees, at the rate before the update.
feeShares ==
  LET part == strategistPart(feesAccruedInAsset, wconfig.strategistRatioBps)
  IN sharesFor(part, redemptionRate) + sharesFor(feesAccruedInAsset - part, redemptionRate)

\* The change of the rate is limited, both ways, relative to the current rate.
withinLimits(newRate) ==
  /\ newRate - redemptionRate <= mulDiv(redemptionRate, wconfig.maxRateIncrementBps, BasisPoints)
  /\ redemptionRate - newRate <= mulDiv(redemptionRate, wconfig.maxRateDecrementBps, BasisPoints)

\* Also while the vault is paused for a stale rate; the vault stays paused.
update(newRate) ==
  /\ vaultState.paused => vaultState.pausedByStaleRate
  /\ clock - lastRateUpdateTimestamp >= wconfig.minRateUpdateDelay
  /\ withinLimits(newRate)
  /\ totalSupply' = totalSupply + feeShares
  /\ feesAccruedInAsset' = 0
  /\ redemptionRate' = newRate
  /\ lastRateUpdateTimestamp' = clock
  /\ UNCHANGED <<wconfig, vaultState, withdrawRequests, collected, clock>>

pause(byOwner) ==
  /\ ~vaultState.paused
  /\ vaultState' = [paused |-> TRUE, pausedByOwner |-> byOwner, pausedByStaleRate |-> FALSE]
  /\ UNCHANGED <<wconfig, redemptionRate, withdrawRequests, lastRateUpdateTimestamp,
                 feesAccruedInAsset, totalSupply, collected, clock>>

unpause(byOwner) ==
  /\ vaultState.pausedByOwner => byOwner
  /\ vaultState.pausedByStaleRate => byOwner /\ ~StaleRate
  /\ vaultState' = Unpaused
  /\ UNCHANGED <<wconfig, redemptionRate, withdrawRequests, lastRateUpdateTimestamp,
                 feesAccruedInAsset, totalSupply, collected, clock>>

\* external: time passes.
passTime ==
  /\ clock < MaxClock
  /\ clock' = clock + 1
  /\ UNCHANGED <<wconfig, redemptionRate, vaultState, withdrawRequests, lastRateUpdateTimestamp,
                 feesAccruedInAsset, totalSupply, collected>>

OneWayNext ==
  \/ \E c \in WConfig : updateConfig(c)
  \/ \E a \in WAmount : deposit(a) \/ mint(a)
  \/ \E a \in WAmount, receiver \in Receiver : withdraw(receiver, a) \/ redeem(receiver, a)
  \/ pauseForStaleRate
  \/ \E rate \in WRate : update(rate)
  \/ \E byOwner \in BOOLEAN : pause(byOwner) \/ unpause(byOwner)
  \/ passTime

OneWaySpec == OneWayInit /\ [][OneWayNext]_vaultVars

-----------------------------------------------------------------------------
\* What shares and the fees still to be shared out are worth, times OneShare.
Owed(supply, fees, rate) == supply * rate + fees * OneShare

\* What a step does to what is owed, the request it files counted in.
StepIsPaidFor ==
  LET requested == IF withdrawRequests' = withdrawRequests THEN 0
                   ELSE withdrawRequests'[Len(withdrawRequests')].sharesAmount
      grown == Owed(totalSupply' + requested, feesAccruedInAsset', redemptionRate)
                 - Owed(totalSupply, feesAccruedInAsset, redemptionRate)
  IN IF requested = 0 THEN grown <= (collected' - collected) * OneShare
     ELSE grown < redemptionRate

\* Between rate changes what the vault owes grows only by what is paid in: a
\* deposit, a mint and a sharing-out of fees never create value by rounding, and
\* a withdrawal and its request, at the same rate, add less than one share.  While
\* the rate is stale no share is bought or redeemed, whatever the order of pauses,
\* unpauses, configuration changes and updates.
OwedIsPaidFor ==
  [][StepIsPaidFor /\ (StaleRate => UNCHANGED <<collected, withdrawRequests>>)]_vaultVars
=============================================================================

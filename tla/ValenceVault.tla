---------------------------- MODULE ValenceVault ----------------------------
(***************************************************************************)
(* The two-way vault (solidity/src/vaults/ValenceVault.sol): shares are    *)
(* bought at the redemption rate the strategist sets; shares to redeem are *)
(* burned into a request that an update prices, a lockup holds back, and   *)
(* its owner or a solver completes.                                        *)
(***************************************************************************)
EXTENDS VaultMath, Sequences, FiniteSetsExt

CONSTANTS
  Holder,               \* users of the vault
  StrategistAccount, PlatformAccount,  \* where fee shares go
  SecondsPerYear,
  StartingRate, VaultRate,    \* redemption rates
  VaultConfig,          \* valid configurations, the first one among them
  FirstConfig,
  Amount,               \* assets and shares asked for
  Netting, MaxLoss, WithdrawFee,  \* inputs of update and withdraw
  MaxAssets, MaxUpdates, MaxTimestamp  \* bounds

ASSUME ValenceVaultConstants ==
  /\ IsFiniteSet(Holder) /\ SecondsPerYear \in Nat \ {0}
  /\ VaultRate \subseteq Nat \ {0} /\ StartingRate \in VaultRate
  /\ FirstConfig \in VaultConfig
  /\ \A c \in VaultConfig :
       /\ c.depositFeeBps \in 0 .. BasisPoints /\ c.platformFeeBps \in 0 .. BasisPoints
       /\ c.performanceFeeBps \in 0 .. BasisPoints /\ c.strategistRatioBps \in 0 .. BasisPoints
       /\ c.maxWithdrawFeeBps \in 0 .. BasisPoints /\ c.withdrawLockupPeriod \in Nat \ {0}
       /\ c.depositCap \in Nat /\ c.solverCompletionFee \in Nat
  /\ Amount \subseteq Nat /\ Netting \subseteq Nat /\ MaxLoss \subseteq Nat /\ WithdrawFee \subseteq Nat

VARIABLES
  vconfig,
  vpaused, vpauser,     \* packedValues: paused, and whether the owner did it
  redemptionRate, maxHistoricalRate,
  lastUpdateTotalShares, lastUpdateTimestamp,
  feesOwedInAsset,
  totalAssetsToWithdrawNextUpdate,
  userWithdrawRequest,  \* owner -> <<its request>>, or <<>>
  updateInfos,          \* the updates so far; the last one is currentUpdateId
  balanceOf, totalSupply,  \* shares
  depositAccount, withdrawAccount,  \* assets of the two accounts
  ether,                \* solver fees the vault holds
  stranded,             \* history: solver fees of cancelled requests
  timestamp

vaultVars == <<vconfig, vpaused, vpauser, redemptionRate, maxHistoricalRate, lastUpdateTotalShares,
               lastUpdateTimestamp, feesOwedInAsset, totalAssetsToWithdrawNextUpdate,
               userWithdrawRequest, updateInfos, balanceOf, totalSupply, depositAccount, withdrawAccount,
               ether, stranded, timestamp>>

Shareholder == Holder \cup {StrategistAccount, PlatformAccount}
currentUpdateId == Len(updateInfos)

convertToAssets(shares) == assetsFor(shares, redemptionRate)
convertToShares(assets) == sharesFor(assets, redemptionRate)
totalAssets == convertToAssets(totalSupply)

VaultInit ==
  /\ vconfig = FirstConfig
  /\ vpaused = FALSE /\ vpauser = FALSE
  /\ redemptionRate = StartingRate /\ maxHistoricalRate = StartingRate
  /\ lastUpdateTotalShares = 0 /\ lastUpdateTimestamp = 1
  /\ feesOwedInAsset = 0 /\ totalAssetsToWithdrawNextUpdate = 0
  /\ userWithdrawRequest = [u \in Holder |-> <<>>]
  /\ updateInfos = <<>>
  /\ balanceOf = [h \in Shareholder |-> 0] /\ totalSupply = 0
  /\ depositAccount = 0 /\ withdrawAccount = 0
  /\ ether = 0 /\ stranded = 0
  /\ timestamp = 1

updateConfig(c) ==
  /\ vconfig' = c
  /\ UNCHANGED <<vpaused, vpauser, redemptionRate, maxHistoricalRate, lastUpdateTotalShares,
                 lastUpdateTimestamp, feesOwedInAsset, totalAssetsToWithdrawNextUpdate,
                 userWithdrawRequest, updateInfos, balanceOf, totalSupply, depositAccount, withdrawAccount,
                 ether, stranded, timestamp>>

\* A cap of zero is no cap.
maxDeposit(assets) ==
  vconfig.depositCap = 0 \/ totalAssets + assets <= vconfig.depositCap

maxMint(shares) ==
  \/ vconfig.depositCap = 0
  \/ /\ totalAssets < vconfig.depositCap
     /\ shares <= convertToShares(vconfig.depositCap - totalAssets)

calculateDepositFee(assets) == feeOn(assets, vconfig.depositFeeBps)

\* With a fee of all the assets the division by zero reverts.
calculateMintFee(shares) ==
  LET base == assetsForUp(shares, redemptionRate)
  IN IF vconfig.depositFeeBps = 0 THEN {[gross |-> base, fee |-> 0]}
     ELSE IF vconfig.depositFeeBps = BasisPoints THEN {}
     ELSE LET gross == grossFor(base, vconfig.depositFeeBps)
          IN {[gross |-> gross, fee |-> gross - base]}

\* _deposit and the fee that goes with it.
takeDeposit(receiver, assets, shares, fee) ==
  /\ depositAccount + withdrawAccount + assets <= MaxAssets
  /\ depositAccount' = depositAccount + assets
  /\ balanceOf' = [balanceOf EXCEPT ![receiver] = @ + shares]
  /\ totalSupply' = totalSupply + shares
  /\ feesOwedInAsset' = feesOwedInAsset + fee
  /\ UNCHANGED <<vconfig, vpaused, vpauser, redemptionRate, maxHistoricalRate,
                 lastUpdateTotalShares, lastUpdateTimestamp, totalAssetsToWithdrawNextUpdate,
                 userWithdrawRequest, updateInfos, withdrawAccount, ether, stranded, timestamp>>

\* Variant: the fee is not taken from what buys shares.
deposit_before_fee(receiver, assets) ==
  /\ ~vpaused /\ maxDeposit(assets)
  /\ takeDeposit(receiver, assets, convertToShares(assets), calculateDepositFee(assets))

deposit(receiver, assets) ==
  /\ ~vpaused /\ maxDeposit(assets)
  /\ LET fee == calculateDepositFee(assets)
     IN takeDeposit(receiver, assets, convertToShares(assets - fee), fee)

mint(receiver, shares) ==
  /\ ~vpaused /\ maxMint(shares)
  /\ \E m \in calculateMintFee(shares) : takeDeposit(receiver, m.gross, shares, m.fee)

\* Fees on the lower of both share counts, at the lower of both rates, for the
\* time since the last update.
calculatePlatformFees(newRate) ==
  LET shares == Min({totalSupply, lastUpdateTotalShares})
      assets == Min({assetsFor(shares, Min({newRate, redemptionRate})), totalAssets})
  IN mulDiv(mulDiv(assets, vconfig.platformFeeBps, BasisPoints),
            timestamp - lastUpdateTimestamp, SecondsPerYear)

calculatePerformanceFees(newRate) ==
  IF newRate <= maxHistoricalRate THEN 0
  ELSE mulDiv(assetsFor(totalSupply, newRate - maxHistoricalRate),
              vconfig.performanceFeeBps, BasisPoints)

\* Fee shares at the rate before the update; the platform has the remainder.
distributeFees(fees) ==
  LET part == strategistPart(fees, vconfig.strategistRatioBps)
      strategistShares == convertToShares(part)
      platformShares == convertToShares(fees - part)
      strategistPaid == [balanceOf EXCEPT ![StrategistAccount] = @ + strategistShares]
  IN /\ balanceOf' = [strategistPaid EXCEPT ![PlatformAccount] = @ + platformShares]
     /\ totalSupply' = totalSupply + strategistShares + platformShares

\* Requests made since the last update are priced at the rate they were made at.
priceRequests(withdrawFeeBps, netting) ==
  /\ netting <= depositAccount
  /\ depositAccount' = depositAccount - netting
  /\ withdrawAccount' = withdrawAccount + netting
  /\ updateInfos' = Append(updateInfos,
       [withdrawRate |-> mulDiv(redemptionRate, BasisPoints - withdrawFeeBps, BasisPoints),
        withdrawFee |-> withdrawFeeBps])

\* Variant: the total is carried over to the next update.
handleWithdraws_carried(withdrawFeeBps, netting) ==
  priceRequests(withdrawFeeBps, netting) /\ UNCHANGED totalAssetsToWithdrawNextUpdate

handleWithdraws(withdrawFeeBps, netting) ==
  priceRequests(withdrawFeeBps, netting) /\ totalAssetsToWithdrawNextUpdate' = 0

validateUpdate(withdrawFeeBps) ==
  lastUpdateTimestamp # timestamp /\ withdrawFeeBps <= vconfig.maxWithdrawFeeBps

update(newRate, withdrawFeeBps, netting) ==
  /\ ~vpaused /\ currentUpdateId < MaxUpdates
  /\ validateUpdate(withdrawFeeBps)
  /\ totalSupply # 0 /\ totalAssets # 0
  /\ distributeFees(feesOwedInAsset + calculatePlatformFees(newRate)
                      + calculatePerformanceFees(newRate))
  /\ feesOwedInAsset' = 0
  /\ handleWithdraws(withdrawFeeBps, netting)
  /\ redemptionRate' = newRate
  /\ lastUpdateTotalShares' = totalSupply
  /\ lastUpdateTimestamp' = timestamp
  /\ maxHistoricalRate' = Max({newRate, maxHistoricalRate})
  /\ UNCHANGED <<vconfig, vpaused, vpauser, userWithdrawRequest, ether, stranded, timestamp>>

\* pause remembers whether the owner did it; then only the owner unpauses.
setPaused(byOwner, p) ==
  /\ IF p THEN vpauser' = byOwner ELSE (vpauser => byOwner) /\ UNCHANGED vpauser
  /\ vpaused' = p
  /\ UNCHANGED <<vconfig, redemptionRate, maxHistoricalRate, lastUpdateTotalShares,
                 lastUpdateTimestamp, feesOwedInAsset, totalAssetsToWithdrawNextUpdate,
                 userWithdrawRequest, updateInfos, balanceOf, totalSupply, depositAccount, withdrawAccount,
                 ether, stranded, timestamp>>

\* _withdraw: burns the shares and files the request; the solver fee is paid
\* in with it.
fileRequest(owner, shares, assets, maxLossBps, allowSolver) ==
  LET solverFee == IF allowSolver THEN vconfig.solverCompletionFee ELSE 0
  IN /\ userWithdrawRequest[owner] = <<>>
     /\ shares <= balanceOf[owner]
     /\ balanceOf' = [balanceOf EXCEPT ![owner] = @ - shares]
     /\ totalSupply' = totalSupply - shares
     /\ totalAssetsToWithdrawNextUpdate' = totalAssetsToWithdrawNextUpdate + assets
     /\ userWithdrawRequest' = [userWithdrawRequest EXCEPT ![owner] =
          <<[sharesAmount |-> shares, claimTime |-> timestamp + vconfig.withdrawLockupPeriod,
             maxLossBps |-> maxLossBps, solverFee |-> solverFee,
             updateId |-> currentUpdateId + 1, asked |-> assets]>>]
     /\ ether' = ether + solverFee
     /\ UNCHANGED <<vconfig, vpaused, vpauser, redemptionRate, maxHistoricalRate,
                    lastUpdateTotalShares, lastUpdateTimestamp, feesOwedInAsset, updateInfos,
                    depositAccount, withdrawAccount, stranded, timestamp>>

withdraw(owner, assets, maxLossBps, allowSolver) ==
  /\ ~vpaused
  /\ assets <= convertToAssets(balanceOf[owner])
  /\ fileRequest(owner, sharesForUp(assets, redemptionRate), assets, maxLossBps, allowSolver)

redeem(owner, shares, maxLossBps, allowSolver) ==
  /\ ~vpaused
  /\ fileRequest(owner, shares, convertToAssets(shares), maxLossBps, allowSolver)

\* What completing r comes to now: paid, cancelled for too high a loss, or
\* skipped.  withdraw is the balance of the withdraw account, own whether the
\* owner of the request calls.
completion(r, own, withdrawBalance, maxLossBps) ==
  LET info == updateInfos[r.updateId]
      current == mulDiv(redemptionRate, BasisPoints - info.withdrawFee, BasisPoints)
      lossBps == IF current < info.withdrawRate
                 THEN mulDiv(info.withdrawRate - current, BasisPoints, info.withdrawRate) ELSE 0
      paid == assetsFor(r.sharesAmount, Min({current, info.withdrawRate}))
  IN IF \/ ~own /\ r.solverFee = 0
        \/ timestamp < r.claimTime
        \/ r.updateId > currentUpdateId
     THEN [outcome |-> "skipped"]
     ELSE IF lossBps > maxLossBps
     THEN [outcome |-> "cancelled",
           assets |-> convertToAssets(r.sharesAmount),
           refund |-> mulDiv(r.sharesAmount, BasisPoints - info.withdrawFee, BasisPoints)]
     ELSE IF paid > withdrawBalance THEN [outcome |-> "skipped"]
     ELSE [outcome |-> "paid", assets |-> paid, refund |-> 0]

\* Variant: the loss is not looked at.
processWithdrawComplete_any_loss(r, own, withdrawBalance) ==
  completion(r, own, withdrawBalance, BasisPoints)

processWithdrawComplete(r, own, withdrawBalance) ==
  completion(r, own, withdrawBalance, r.maxLossBps)

\* A request that is not skipped leaves.  A cancelled one gives back shares and
\* assets, and reverts when the account lacks the assets; rewarded are the
\* outcomes that pay the solver fee out.
settle(owner, own, rewarded) ==
  LET r == userWithdrawRequest[owner][1]
      result == processWithdrawComplete(r, own, withdrawAccount)
      cancelled == result.outcome = "cancelled"
  IN /\ result.outcome # "skipped" /\ result.assets <= withdrawAccount
     /\ withdrawAccount' = withdrawAccount - result.assets
     /\ depositAccount' = IF cancelled THEN depositAccount + result.assets ELSE depositAccount
     /\ balanceOf' = [balanceOf EXCEPT ![owner] = @ + result.refund]
     /\ totalSupply' = totalSupply + result.refund
     /\ userWithdrawRequest' = [userWithdrawRequest EXCEPT ![owner] = <<>>]
     /\ ether' = IF result.outcome \in rewarded THEN ether - r.solverFee ELSE ether
     /\ stranded' = IF cancelled THEN stranded + r.solverFee ELSE stranded
     /\ UNCHANGED <<vconfig, vpaused, vpauser, redemptionRate, maxHistoricalRate,
                    lastUpdateTotalShares, lastUpdateTimestamp, feesOwedInAsset,
                    totalAssetsToWithdrawNextUpdate, updateInfos, timestamp>>

\* completeWithdraw; completeWithdraws does a sequence of these in one
\* transaction, or nothing, and anyone may send them one at a time.
completeWithdraw(owner, own) ==
  ~vpaused /\ userWithdrawRequest[owner] # <<>> /\ settle(owner, own, {"paid"})

\* external: time passes.
passTime ==
  /\ timestamp < MaxTimestamp
  /\ timestamp' = timestamp + 1
  /\ UNCHANGED <<vconfig, vpaused, vpauser, redemptionRate, maxHistoricalRate,
                 lastUpdateTotalShares, lastUpdateTimestamp, feesOwedInAsset,
                 totalAssetsToWithdrawNextUpdate, userWithdrawRequest, updateInfos, balanceOf, totalSupply,
                 depositAccount, withdrawAccount, ether, stranded>>

VaultNext ==
  \/ \E c \in VaultConfig : updateConfig(c)
  \/ \E u \in Holder, a \in Amount : deposit(u, a) \/ mint(u, a)
  \/ \E rate \in VaultRate, fee \in WithdrawFee, netting \in Netting : update(rate, fee, netting)
  \/ \E byOwner, p \in BOOLEAN : setPaused(byOwner, p)
  \/ \E u \in Holder, a \in Amount, loss \in MaxLoss, solver \in BOOLEAN :
       withdraw(u, a, loss, solver) \/ redeem(u, a, loss, solver)
  \/ \E u \in Holder, own \in BOOLEAN : completeWithdraw(u, own)
  \/ passTime

VaultSpec == VaultInit /\ [][VaultNext]_vaultVars

-----------------------------------------------------------------------------
Requested == {u \in Holder : userWithdrawRequest[u] # <<>>}
RequestOf(u) == userWithdrawRequest[u][1]

\* What the request of a user asks of the next update, and the fee it came with.
askedNext == [u \in Holder |->
                IF u \in Requested /\ RequestOf(u).updateId = currentUpdateId + 1
                THEN RequestOf(u).asked ELSE 0]
solverFees == [u \in Holder |-> IF u \in Requested THEN RequestOf(u).solverFee ELSE 0]

\* The vault's books agree with its requests and holders.  What the strategist is
\* told to bring for the next update is what the requests that wait for that update
\* ask for, no request counted twice, none left over from an earlier update.  The
\* vault holds the solver fee of every open request, as it was when the request was
\* made, and besides them only those of cancelled requests.  The supply is the sum
\* of what holders have.
BooksMatchRequests ==
  /\ totalAssetsToWithdrawNextUpdate = SumFunction(askedNext)
  /\ ether = SumFunction(solverFees) + stranded
  /\ totalSupply = SumFunction(balanceOf)

\* What is asked of a step by which the request of u leaves.
LeavesWithinItsTerms(u) ==
  LET r == RequestOf(u)
      info == updateInfos[r.updateId]
      gone == depositAccount + withdrawAccount - (depositAccount' + withdrawAccount')
      lost == assetsFor(r.sharesAmount, info.withdrawRate) - gone
  IN /\ timestamp >= r.claimTime /\ r.updateId <= currentUpdateId
     /\ \/ /\ gone = 0
           /\ (balanceOf'[u] - balanceOf[u]) * BasisPoints
                > r.sharesAmount * (BasisPoints - info.withdrawFee) - BasisPoints
        \/ /\ balanceOf'[u] = balanceOf[u]
           /\ lost >= 0
           /\ lost * BasisPoints * OneShare
                <= r.sharesAmount * (r.maxLossBps + 1) * info.withdrawRate + BasisPoints * OneShare

\* A request leaves after its lockup and after the update it waited for.  Its
\* owner then has the shares back, less the withdraw fee, and no asset left the
\* vault, or is paid no better than at the rate that update fixed and at a loss
\* no greater than accepted (to the basis point, and to one unit of the asset).
SettledWithinItsTerms ==
  [][\A u \in Requested : userWithdrawRequest'[u] = <<>> => LeavesWithinItsTerms(u)]_vaultVars

\* What is asked of a step that makes shares.
StepIsPaidFor ==
  /\ depositAccount' > depositAccount /\ userWithdrawRequest' = userWithdrawRequest =>
       (totalSupply' - totalSupply) * redemptionRate
         <= (depositAccount' - depositAccount - (feesOwedInAsset' - feesOwedInAsset)) * OneShare
  /\ updateInfos' # updateInfos /\ redemptionRate' <= maxHistoricalRate
       /\ vconfig.platformFeeBps = 0 /\ feesOwedInAsset = 0
       => UNCHANGED balanceOf

\* Shares are only made for what is paid or earned.  What a deposit or a mint pays,
\* less the fee the vault owes on, covers its shares at the redemption rate; and an
\* update that does not beat every earlier rate mints no fee shares beyond the fees
\* of deposits and of time: a rate that was reached before is not charged for again.
SharesArePaidFor == [][StepIsPaidFor]_vaultVars
=============================================================================

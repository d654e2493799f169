-------------------------------- MODULE Vault_proofs --------------------------------
(***************************************************************************)
(* The EVM vault, for all holders, amounts, rates and fees: shares are     *)
(* minted only against assets, a request is settled within the terms it    *)
(* was made on, and the counters are what the requests add up to (with the *)
(* sums of Libraries_proofs).                                              *)
(***************************************************************************)
EXTENDS ValenceVault, Libraries_proofs

-----------------------------------------------------------------------------
(* Numbers.                                                                *)

\* Counters move by integers.
LEMMA IntsMove ==
  /\ Nat \subseteq Int /\ 0 \in Int
  /\ \A a, b \in Int : a + b \in Int /\ a - b \in Int
  /\ \A a \in Int : 0 + a = a /\ a + 0 = a /\ a <= a
OBVIOUS

\* A term that grows makes a sum grow as much.
LEMMA TermMoves ==
  ASSUME NEW a \in Int, NEW b \in Int, NEW d \in Int
  PROVE  a - b + (b + d) = a + d
OBVIOUS

-----------------------------------------------------------------------------
(* Prices.                                                                 *)

\* A quotient rounded up, times its divisor.
LEMMA DivUp ==
  ASSUME NEW x \in Nat, NEW c \in Nat \ {0}
  PROVE  /\ (x + c - 1) \div c \in Nat
         /\ ((x + c - 1) \div c) * c >= x /\ ((x + c - 1) \div c) * c < x + c
<1>1. x + c - 1 \in Nat
  BY SMT
<1> QED BY <1>1, DivDown, SMT

\* mulDiv and mulDivCeil round down and up.
LEMMA MulDivs ==
  ASSUME NEW a \in Nat, NEW b \in Nat, NEW c \in Nat \ {0}
  PROVE  /\ mulDiv(a, b, c) \in Nat /\ mulDiv(a, b, c) * c <= a * b
         /\ mulDivCeil(a, b, c) \in Nat
         /\ a * b <= mulDivCeil(a, b, c) * c /\ mulDivCeil(a, b, c) * c < a * b + c
<1>1. a * b \in Nat
  BY SMT
<1> QED BY <1>1, DivDown, DivUp, Zenon DEF mulDiv, mulDivCeil

\* Shares for assets are worth no more than the assets rounding down, no less and by
\* less than one share more rounding up.
LEMMA SharesForAssets ==
  ASSUME NEW assets \in Nat, NEW rate \in Nat \ {0}
  PROVE  /\ sharesFor(assets, rate) \in Nat /\ sharesForUp(assets, rate) \in Nat
         /\ sharesFor(assets, rate) * rate <= assets * OneShare
         /\ assets * OneShare <= sharesForUp(assets, rate) * rate
         /\ sharesForUp(assets, rate) * rate < assets * OneShare + rate
  BY MulDivs, VaultUnits, Zenon DEF sharesFor, sharesForUp

\* And assets for shares.
LEMMA AssetsForShares ==
  ASSUME NEW shares \in Nat, NEW rate \in Nat
  PROVE  /\ assetsFor(shares, rate) \in Nat /\ assetsForUp(shares, rate) \in Nat
         /\ assetsFor(shares, rate) * OneShare <= shares * rate
         /\ shares * rate <= assetsForUp(shares, rate) * OneShare
  BY MulDivs, VaultUnits, Zenon DEF assetsFor, assetsForUp

\* A fee, though it is rounded up, is at most what it is taken from.
LEMMA FeeWithin ==
  ASSUME NEW assets \in Nat, NEW bps \in 0 .. BasisPoints
  PROVE  feeOn(assets, bps) \in 0 .. assets
<1>1. feeOn(assets, bps) \in Nat /\ feeOn(assets, bps) * BasisPoints < assets * bps + BasisPoints
  BY MulDivs, VaultUnits DEF feeOn
<1>2. assets * bps <= assets * BasisPoints
  BY VaultUnits, SMT
<1>3. assets * BasisPoints + BasisPoints = (assets + 1) * BasisPoints
  BY VaultUnits, SMT
<1>4. feeOn(assets, bps) * BasisPoints < (assets + 1) * BasisPoints
  BY <1>1, <1>2, <1>3, VaultUnits, SMT
<1>5. feeOn(assets, bps) <= assets
  BY <1>1, <1>4, VaultUnits, Monotone, SMT
<1> QED BY <1>1, <1>5

\* The gross amount of a mint is at least its net amount.
LEMMA GrossCovers ==
  ASSUME NEW base \in Nat, NEW bps \in 0 .. BasisPoints - 1
  PROVE  grossFor(base, bps) \in Nat /\ grossFor(base, bps) >= base
<1> DEFINE gross == grossFor(base, bps)
           net == BasisPoints - bps
<1>1. net \in Nat \ {0} /\ net <= BasisPoints
  BY VaultUnits
<1>2. gross \in Nat /\ base * BasisPoints <= gross * net
  BY <1>1, MulDivs, VaultUnits, Zenon DEF grossFor
<1>3. base * net <= base * BasisPoints
  BY <1>1, VaultUnits, SMT
<1> HIDE DEF gross, net
<1>4. base * net <= gross * net
  BY <1>1, <1>2, <1>3, VaultUnits, SMT
<1>5. gross * net < (gross + 1) * net
  BY <1>1, <1>2, SMT
<1>6. base <= gross
  BY <1>1, <1>2, <1>4, <1>5, Monotone, SMTT(30)
<1> QED BY <1>2, <1>6, Zenon DEF gross

-----------------------------------------------------------------------------
(* The vault.                                                              *)

VaultRequest == [sharesAmount : Nat, claimTime : Int, maxLossBps : Nat, solverFee : Int,
                 updateId : Nat \ {0}, asked : Int]
UpdateInfo == [withdrawRate : Nat, withdrawFee : 0 .. BasisPoints]

VaultTyped ==
  /\ vconfig \in VaultConfig /\ redemptionRate \in VaultRate /\ maxHistoricalRate \in Int
  /\ lastUpdateTotalShares \in Int /\ lastUpdateTimestamp \in Int /\ timestamp \in Int
  /\ feesOwedInAsset \in Int /\ totalAssetsToWithdrawNextUpdate \in Int
  /\ userWithdrawRequest \in [Holder -> Seq(VaultRequest)]
  /\ updateInfos \in Seq(UpdateInfo)
  /\ balanceOf \in [Shareholder -> Int] /\ totalSupply \in Int
  /\ depositAccount \in Int /\ withdrawAccount \in Int /\ ether \in Int /\ stranded \in Int

\* The ranges a step may use.
LEMMA VaultRanges ==
  ASSUME VaultTyped
  PROVE  /\ redemptionRate \in Nat \ {0} /\ OneShare \in Nat \ {0} /\ BasisPoints \in Nat \ {0}
         /\ SecondsPerYear \in Nat \ {0}
         /\ vconfig.depositFeeBps \in 0 .. BasisPoints /\ vconfig.platformFeeBps \in 0 .. BasisPoints
         /\ vconfig.performanceFeeBps \in 0 .. BasisPoints
         /\ vconfig.strategistRatioBps \in 0 .. BasisPoints
         /\ vconfig.maxWithdrawFeeBps \in 0 .. BasisPoints
         /\ vconfig.withdrawLockupPeriod \in Nat /\ vconfig.solverCompletionFee \in Nat
         /\ vconfig.depositCap \in Nat
  BY ValenceVaultConstants, VaultUnits, Zenon DEF VaultTyped

\* A quotient is a number.
LEMMA DivTyped ==
  ASSUME NEW a \in Int, NEW b \in Int, NEW c \in Nat \ {0}
  PROVE  mulDiv(a, b, c) \in Int
<1>1. a * b \in Int
  OBVIOUS
<1> QED BY <1>1 DEF mulDiv

\* The least and the greatest of two.
LEMMA LeastTyped ==
  ASSUME NEW a \in Int, NEW b \in Int
  PROVE  /\ Min({a, b}) \in Int /\ Min({a, b}) = (IF a <= b THEN a ELSE b)
         /\ Max({a, b}) \in Int
<1>1. \E x \in {a, b} : \A y \in {a, b} : x <= y
  OBVIOUS
<1>2. \E x \in {a, b} : \A y \in {a, b} : x >= y
  OBVIOUS
<1>3. Min({a, b}) \in {a, b} /\ \A y \in {a, b} : Min({a, b}) <= y
  BY <1>1, Zenon DEF Min
<1>4. Max({a, b}) \in {a, b}
  BY <1>2, Zenon DEF Max
<1> QED BY <1>3, <1>4

-----------------------------------------------------------------------------
(* The steps.                                                              *)

\* What is asked of a step.
RequestsLeaveInTerms ==
  \A u \in Requested : userWithdrawRequest'[u] = <<>> => LeavesWithinItsTerms(u)
StepIsSound == VaultTyped' /\ StepIsPaidFor /\ RequestsLeaveInTerms

\* A step by which no request leaves.
LEMMA NoneLeaves ==
  ASSUME VaultTyped, userWithdrawRequest' = userWithdrawRequest
  PROVE  RequestsLeaveInTerms
  BY Zenon DEF RequestsLeaveInTerms, Requested

\* A step that moves no asset and no share.
LEMMA QuietVault ==
  ASSUME VaultTyped, vconfig' \in VaultConfig, timestamp' \in Int,
         UNCHANGED <<redemptionRate, maxHistoricalRate, lastUpdateTotalShares, lastUpdateTimestamp,
                     feesOwedInAsset, totalAssetsToWithdrawNextUpdate, userWithdrawRequest,
                     updateInfos, balanceOf, totalSupply, depositAccount, withdrawAccount, ether, stranded>>
  PROVE  StepIsSound
<1>1. VaultTyped'
  BY Zenon DEF VaultTyped
<1>2. StepIsPaidFor
  BY DEF StepIsPaidFor, VaultTyped
<1>3. RequestsLeaveInTerms
  BY NoneLeaves, Zenon
<1> QED BY <1>1, <1>2, <1>3, Zenon DEF StepIsSound

\* Shares that assets are paid in for.
LEMMA DepositIsSound ==
  ASSUME VaultTyped, NEW u \in Holder, NEW assets \in Nat, NEW shares \in Nat, NEW fee \in Nat,
         takeDeposit(u, assets, shares, fee),
         shares * redemptionRate <= (assets - fee) * OneShare
  PROVE  StepIsSound
<1>1. VaultTyped'
  BY DEF VaultTyped, takeDeposit, Shareholder
<1>2. /\ totalSupply' - totalSupply = shares
      /\ depositAccount' - depositAccount - (feesOwedInAsset' - feesOwedInAsset) = assets - fee
      /\ updateInfos' = updateInfos
  BY DEF VaultTyped, takeDeposit
<1>3. StepIsPaidFor
  BY <1>2, Zenon DEF StepIsPaidFor
<1>4. RequestsLeaveInTerms
  BY NoneLeaves, Zenon DEF takeDeposit
<1> QED BY <1>1, <1>3, <1>4, Zenon DEF StepIsSound

\* deposit and mint.
LEMMA DepositsAreSound ==
  ASSUME VaultTyped, NEW u \in Holder, NEW a \in Nat, deposit(u, a) \/ mint(u, a)
  PROVE  StepIsSound
<1>1. CASE deposit(u, a)
  <2> DEFINE fee == calculateDepositFee(a)
             shares == convertToShares(a - fee)
  <2>1. fee \in 0 .. a
    BY VaultRanges, FeeWithin, Zenon DEF calculateDepositFee
  <2>2. takeDeposit(u, a, shares, fee)
    BY <1>1, Zenon DEF deposit
  <2> HIDE DEF fee
  <2>3. a - fee \in Nat /\ fee \in Nat
    BY <2>1
  <2>4. shares \in Nat /\ shares * redemptionRate <= (a - fee) * OneShare
    BY <2>3, VaultRanges, SharesForAssets, Zenon DEF convertToShares
  <2> HIDE DEF shares
  <2> QED BY <2>2, <2>3, <2>4, DepositIsSound, Zenon
<1>2. CASE mint(u, a)
  <2> DEFINE base == assetsForUp(a, redemptionRate)
  <2>1. PICK x \in calculateMintFee(a) : takeDeposit(u, x.gross, a, x.fee)
    BY <1>2, Zenon DEF mint
  <2>2. base \in Nat /\ a * redemptionRate <= base * OneShare
    BY VaultRanges, AssetsForShares, Zenon
  <2> HIDE DEF base
  <2>3. x.gross \in Nat /\ x.fee \in Nat /\ x.gross - x.fee = base
    <3>1. CASE vconfig.depositFeeBps = 0
      <4>1. calculateMintFee(a) = {[gross |-> base, fee |-> 0]}
        BY <3>1, Zenon DEF calculateMintFee, base
      <4> QED BY <4>1, <2>1, <2>2
    <3>2. CASE vconfig.depositFeeBps # 0
      <4> DEFINE gross == grossFor(base, vconfig.depositFeeBps)
      <4>1. /\ vconfig.depositFeeBps # BasisPoints
            /\ x \in {[gross |-> gross, fee |-> gross - base]}
        BY <3>2, <2>1, VaultRanges, Zenon DEF calculateMintFee, base
      <4>2. vconfig.depositFeeBps \in 0 .. BasisPoints - 1
        BY <4>1, VaultRanges
      <4>3. gross \in Nat /\ gross >= base
        BY <4>2, <2>2, GrossCovers, Zenon
      <4> HIDE DEF gross
      <4> QED BY <4>1, <4>3, <2>2
    <3> QED BY <3>1, <3>2, Zenon
  <2>4. x.gross - x.fee = base /\ a * redemptionRate <= (x.gross - x.fee) * OneShare
    BY <2>2, <2>3, Zenon
  <2> QED BY <2>1, <2>3, <2>4, DepositIsSound, Zenon
<1> QED BY <1>1, <1>2, Zenon

\* The numbers of a step.
LEMMA VaultNumbers ==
  ASSUME VaultTyped
  PROVE  /\ redemptionRate \in Int /\ vconfig.platformFeeBps \in Int /\ vconfig.performanceFeeBps \in Int
         /\ vconfig.strategistRatioBps \in Int /\ vconfig.solverCompletionFee \in Int
         /\ vconfig.withdrawLockupPeriod \in Int
         /\ totalSupply \in Int /\ lastUpdateTotalShares \in Int /\ maxHistoricalRate \in Int
         /\ timestamp \in Int /\ timestamp - lastUpdateTimestamp \in Int
         /\ OneShare \in Nat \ {0} /\ BasisPoints \in Nat \ {0} /\ SecondsPerYear \in Nat \ {0}
<1>1. /\ redemptionRate \in Nat /\ OneShare \in Nat \ {0} /\ BasisPoints \in Nat \ {0}
      /\ SecondsPerYear \in Nat \ {0}
      /\ vconfig.withdrawLockupPeriod \in Nat /\ vconfig.solverCompletionFee \in Nat
  BY VaultRanges, Zenon
<1>2. /\ totalSupply \in Int /\ lastUpdateTotalShares \in Int /\ maxHistoricalRate \in Int
      /\ timestamp \in Int /\ lastUpdateTimestamp \in Int
  BY Zenon DEF VaultTyped
<1>3. /\ vconfig.platformFeeBps \in Int /\ vconfig.performanceFeeBps \in Int
      /\ vconfig.strategistRatioBps \in Int
  BY VaultRanges
<1> QED BY <1>1, <1>2, <1>3, IntsMove, Zenon

\* A fee on nothing, and no fee.
LEMMA ZeroFee ==
  ASSUME NEW a \in Int, NEW c \in Nat \ {0}
  PROVE  mulDiv(a, 0, c) = 0 /\ mulDiv(0, a, c) = 0
<1>1. a * 0 = 0 /\ 0 * a = 0 /\ 0 \div c = 0
  BY SMT
<1> QED BY <1>1, Zenon DEF mulDiv

\* The fees of time: none without a platform fee.
LEMMA PlatformFees ==
  ASSUME VaultTyped, NEW rate \in Int
  PROVE  /\ calculatePlatformFees(rate) \in Int
         /\ vconfig.platformFeeBps = 0 => calculatePlatformFees(rate) = 0
<1> DEFINE shares == Min({totalSupply, lastUpdateTotalShares})
           lower == Min({rate, redemptionRate})
           assets == Min({assetsFor(shares, lower), totalAssets})
           yearly == mulDiv(assets, vconfig.platformFeeBps, BasisPoints)
<1>1. shares \in Int /\ lower \in Int
  BY LeastTyped, VaultNumbers, Zenon
<1> HIDE DEF shares, lower
<1>2. assetsFor(shares, lower) \in Int
  BY <1>1, DivTyped, VaultNumbers, Zenon DEF assetsFor
<1>3. totalAssets \in Int
  BY DivTyped, VaultNumbers, Zenon DEF totalAssets, convertToAssets, assetsFor
<1>4. assets \in Int
  BY <1>2, <1>3, LeastTyped, Zenon
<1> HIDE DEF assets
<1>5. yearly \in Int
  BY <1>4, VaultNumbers, DivTyped, Zenon
<1>6. vconfig.platformFeeBps = 0 => yearly = 0
  BY <1>4, VaultNumbers, ZeroFee, ZenonT(40)
<1> HIDE DEF yearly
<1>7. calculatePlatformFees(rate) = mulDiv(yearly, timestamp - lastUpdateTimestamp, SecondsPerYear)
  BY Zenon DEF calculatePlatformFees, shares, lower, assets, yearly
<1>8. calculatePlatformFees(rate) \in Int
  BY <1>5, <1>7, VaultNumbers, DivTyped, ZenonT(40)
<1>9. yearly = 0 => calculatePlatformFees(rate) = 0
  BY <1>7, VaultNumbers, ZeroFee, ZenonT(40)
<1> QED BY <1>6, <1>8, <1>9, Zenon

\* The fees on what was earned: none at a rate that was reached before.
LEMMA PerformanceFees ==
  ASSUME VaultTyped, NEW rate \in Int
  PROVE  /\ calculatePerformanceFees(rate) \in Int
         /\ rate <= maxHistoricalRate => calculatePerformanceFees(rate) = 0
<1>1. CASE rate <= maxHistoricalRate
  BY <1>1 DEF calculatePerformanceFees
<1>2. CASE ~ (rate <= maxHistoricalRate)
  <2> DEFINE earned == assetsFor(totalSupply, rate - maxHistoricalRate)
  <2>1. rate - maxHistoricalRate \in Int
    BY VaultNumbers
  <2>2. earned \in Int
    BY <2>1, VaultNumbers, DivTyped, Zenon DEF assetsFor
  <2>3. calculatePerformanceFees(rate) = mulDiv(earned, vconfig.performanceFeeBps, BasisPoints)
    BY <1>2, Zenon DEF calculatePerformanceFees
  <2> HIDE DEF earned
  <2> QED BY <1>2, <2>2, <2>3, VaultNumbers, DivTyped, ZenonT(40)
<1> QED BY <1>1, <1>2, Zenon

\* Fees are shared out; without fees there are no shares.
LEMMA FeesDistributed ==
  ASSUME VaultTyped, NEW fees \in Int, distributeFees(fees)
  PROVE  /\ balanceOf' \in [Shareholder -> Int] /\ totalSupply' \in Int
         /\ fees = 0 => balanceOf' = balanceOf
<1> DEFINE part == strategistPart(fees, vconfig.strategistRatioBps)
           ours == convertToShares(part)
           theirs == convertToShares(fees - part)
<1>1. part \in Int
  BY VaultNumbers, DivTyped, Zenon DEF strategistPart
<1>2. fees = 0 => part = 0
  BY VaultNumbers, ZeroFee, ZenonT(40) DEF strategistPart
<1>3. /\ balanceOf' = [[balanceOf EXCEPT ![StrategistAccount] = @ + ours] EXCEPT ![PlatformAccount] = @ + theirs]
      /\ totalSupply' = totalSupply + ours + theirs
  BY Zenon DEF distributeFees
<1> HIDE DEF part
<1>4. fees - part \in Int /\ (fees = 0 => fees - part = 0)
  BY <1>1, <1>2
<1>5. redemptionRate \in Nat \ {0} /\ OneShare \in Int
  BY VaultRanges
<1>6. ours \in Int /\ theirs \in Int
  BY <1>1, <1>4, <1>5, DivTyped, Zenon DEF convertToShares, sharesFor
<1>7. fees = 0 => ours = 0 /\ theirs = 0
  BY <1>2, <1>4, <1>5, ZeroFee, ZenonT(40) DEF convertToShares, sharesFor
<1> HIDE DEF ours, theirs
<1>8. balanceOf' \in [Shareholder -> Int] /\ totalSupply' \in Int
  BY <1>3, <1>6 DEF VaultTyped, Shareholder
<1>9. ASSUME fees = 0 PROVE balanceOf' = balanceOf
  <2>1. \A h \in Shareholder : balanceOf'[h] = balanceOf[h]
    BY <1>3, <1>7, <1>9 DEF VaultTyped, Shareholder
  <2> QED BY <2>1, <1>8 DEF VaultTyped
<1> QED BY <1>8, <1>9, Zenon

\* An update.
LEMMA UpdateIsSound ==
  ASSUME VaultTyped, NEW rate \in VaultRate, NEW feeBps \in Nat, NEW netting \in Nat,
         update(rate, feeBps, netting)
  PROVE  StepIsSound
<1> DEFINE fees == feesOwedInAsset + calculatePlatformFees(rate) + calculatePerformanceFees(rate)
           info == [withdrawRate |-> mulDiv(redemptionRate, BasisPoints - feeBps, BasisPoints),
                    withdrawFee |-> feeBps]
<1>1. rate \in Int
  BY ValenceVaultConstants
<1>4. /\ fees \in Int
      /\ vconfig.platformFeeBps = 0 /\ rate <= maxHistoricalRate /\ feesOwedInAsset = 0 => fees = 0
  <2> DEFINE x == calculatePlatformFees(rate)
             y == calculatePerformanceFees(rate)
  <2>1. /\ x \in Int /\ (vconfig.platformFeeBps = 0 => x = 0)
        /\ y \in Int /\ (rate <= maxHistoricalRate => y = 0)
    BY <1>1, PlatformFees, PerformanceFees, Zenon
  <2>2. feesOwedInAsset \in Int
    BY Zenon DEF VaultTyped
  <2> HIDE DEF x, y
  <2>3. /\ feesOwedInAsset + x + y \in Int
        /\ feesOwedInAsset = 0 /\ x = 0 /\ y = 0 => feesOwedInAsset + x + y = 0
    BY <2>1, <2>2
  <2> QED BY <2>1, <2>3, Zenon DEF x, y
<1>5. distributeFees(fees) /\ handleWithdraws(feeBps, netting) /\ validateUpdate(feeBps)
  BY Zenon DEF update
<1> HIDE DEF fees
<1>9. balanceOf' \in [Shareholder -> Int] /\ totalSupply' \in Int
  BY <1>4, <1>5, FeesDistributed, Zenon
<1>10. fees = 0 => balanceOf' = balanceOf
  BY <1>4, <1>5, FeesDistributed, Zenon
<1>11. info \in UpdateInfo
  <2>1. feeBps \in 0 .. BasisPoints /\ BasisPoints - feeBps \in Nat
    BY <1>5, VaultRanges DEF validateUpdate
  <2> QED BY <2>1, VaultRanges, MulDivs, Zenon DEF UpdateInfo
<1>12. /\ updateInfos' = Append(updateInfos, info)
       /\ depositAccount' = depositAccount - netting /\ withdrawAccount' = withdrawAccount + netting
       /\ totalAssetsToWithdrawNextUpdate' = 0
  BY <1>5, Zenon DEF handleWithdraws, priceRequests, info
<1> HIDE DEF info
<1>13. updateInfos' \in Seq(UpdateInfo)
  BY <1>11, <1>12 DEF VaultTyped
<1>14. /\ redemptionRate' = rate /\ lastUpdateTotalShares' = totalSupply
       /\ lastUpdateTimestamp' = timestamp /\ maxHistoricalRate' = Max({rate, maxHistoricalRate})
       /\ feesOwedInAsset' = 0 /\ vconfig' = vconfig /\ userWithdrawRequest' = userWithdrawRequest
       /\ ether' = ether /\ stranded' = stranded /\ timestamp' = timestamp
  BY Zenon DEF update
<1>15. Max({rate, maxHistoricalRate}) \in Int
  BY <1>1, LeastTyped, VaultNumbers, Zenon
<1>16. VaultTyped'
  BY <1>9, <1>12, <1>13, <1>14, <1>15, SMTT(30) DEF VaultTyped
<1>17. StepIsPaidFor
  <2>1. ~ (depositAccount' > depositAccount)
    BY <1>12 DEF VaultTyped
  <2> QED BY <2>1, <1>4, <1>10, <1>14, ZenonT(40) DEF StepIsPaidFor
<1>18. RequestsLeaveInTerms
  BY <1>14, NoneLeaves, Zenon
<1> QED BY <1>16, <1>17, <1>18, Zenon DEF StepIsSound

\* A request is filed.
LEMMA FilingIsSound ==
  ASSUME VaultTyped, NEW owner \in Holder, NEW shares \in Nat, NEW assets \in Int, NEW loss \in Nat,
         NEW solver \in BOOLEAN, fileRequest(owner, shares, assets, loss, solver)
  PROVE  StepIsSound
<1> DEFINE solverFee == IF solver THEN vconfig.solverCompletionFee ELSE 0
           r == [sharesAmount |-> shares, claimTime |-> timestamp + vconfig.withdrawLockupPeriod,
                 maxLossBps |-> loss, solverFee |-> solverFee,
                 updateId |-> currentUpdateId + 1, asked |-> assets]
<1>1. solverFee \in Int /\ currentUpdateId \in Nat
  <2>1. vconfig.solverCompletionFee \in Int
    BY VaultRanges DEF VaultTyped
  <2>2. currentUpdateId \in Nat
    BY DEF VaultTyped, currentUpdateId
  <2> QED BY <2>1, <2>2
<1>2. userWithdrawRequest' = [userWithdrawRequest EXCEPT ![owner] = <<r>>] /\ ether' = ether + solverFee
  <2>1. userWithdrawRequest' = [userWithdrawRequest EXCEPT ![owner] = <<r>>]
    BY Zenon DEF fileRequest
  <2>2. ether' = ether + solverFee
    BY Zenon DEF fileRequest
  <2> QED BY <2>1, <2>2, Zenon
<1> HIDE DEF solverFee
<1>3. r \in VaultRequest
  <2>1. timestamp + vconfig.withdrawLockupPeriod \in Int /\ currentUpdateId + 1 \in Nat \ {0}
    BY <1>1, VaultNumbers
  <2> QED BY <1>1, <2>1, Zenon DEF VaultRequest
<1> HIDE DEF r
<1>4. userWithdrawRequest' \in [Holder -> Seq(VaultRequest)]
  BY <1>2, <1>3 DEF VaultTyped
<1>5. /\ balanceOf' = [balanceOf EXCEPT ![owner] = @ - shares] /\ totalSupply' = totalSupply - shares
      /\ totalAssetsToWithdrawNextUpdate' = totalAssetsToWithdrawNextUpdate + assets
      /\ UNCHANGED <<vconfig, redemptionRate, maxHistoricalRate, lastUpdateTotalShares,
                     lastUpdateTimestamp, feesOwedInAsset, updateInfos, depositAccount,
                     withdrawAccount, stranded, timestamp>>
  BY Zenon DEF fileRequest
<1>6. VaultTyped'
  BY <1>1, <1>2, <1>4, <1>5, SMTT(30) DEF VaultTyped, Shareholder
<1>7. StepIsPaidFor
  BY <1>5 DEF StepIsPaidFor, VaultTyped
<1>8. RequestsLeaveInTerms
  <2>1. <<r>> # << >>
    BY Zenon
  <2> QED BY <1>2, <2>1, Zenon DEF RequestsLeaveInTerms, Requested, VaultTyped
<1> QED BY <1>6, <1>7, <1>8, Zenon DEF StepIsSound

\* withdraw and redeem.
LEMMA RequestsAreSound ==
  ASSUME VaultTyped, NEW u \in Holder, NEW a \in Nat, NEW loss \in Nat, NEW solver \in BOOLEAN,
         withdraw(u, a, loss, solver) \/ redeem(u, a, loss, solver)
  PROVE  StepIsSound
<1>1. CASE withdraw(u, a, loss, solver)
  <2>1. sharesForUp(a, redemptionRate) \in Nat
    BY VaultRanges, SharesForAssets, Zenon
  <2> QED BY <1>1, <2>1, FilingIsSound DEF withdraw
<1>2. CASE redeem(u, a, loss, solver)
  <2>1. convertToAssets(a) \in Int
    BY VaultRanges, AssetsForShares, SMTT(30) DEF convertToAssets
  <2> QED BY <1>2, <2>1, FilingIsSound, Zenon DEF redeem
<1> QED BY <1>1, <1>2, Zenon

\* The loss of a payment at the current rate, compared with the fixed one.
LEMMA LossWithin ==
  ASSUME NEW shares \in Nat, NEW rate \in Nat, NEW current \in Nat, NEW maxLoss \in Nat,
         current < rate => mulDiv(rate - current, BasisPoints, rate) <= maxLoss,
         NEW low \in Nat, low = IF current <= rate THEN current ELSE rate
  PROVE  /\ assetsFor(shares, low) <= assetsFor(shares, rate)
         /\ (assetsFor(shares, rate) - assetsFor(shares, low)) * BasisPoints * OneShare
              <= shares * (maxLoss + 1) * rate + BasisPoints * OneShare
<1> DEFINE full == assetsFor(shares, rate)
           paid == assetsFor(shares, low)
<1>1. /\ full \in Nat /\ full * OneShare <= shares * rate
      /\ paid \in Nat /\ shares * low < paid * OneShare + OneShare
  <2>1. shares * rate \in Nat /\ shares * low \in Nat
    BY SMT
  <2> QED BY <2>1, DivDown, VaultUnits, Zenon DEF assetsFor, mulDiv
<1>2. OneShare \in Nat \ {0} /\ BasisPoints \in Nat \ {0} /\ low <= rate
  BY VaultUnits
<1>3. shares * rate < full * OneShare + OneShare
  <2>1. shares * rate \in Nat
    BY SMT
  <2> QED BY <2>1, DivDown, VaultUnits, Zenon DEF assetsFor, mulDiv
<1>4. paid * OneShare <= shares * low
  <2>1. shares * low \in Nat
    BY SMT
  <2> QED BY <2>1, DivDown, VaultUnits, Zenon DEF assetsFor, mulDiv
<1>5. (rate - low) * BasisPoints <= (maxLoss + 1) * rate
  <2>1. CASE current < rate
    <3> DEFINE loss == mulDiv(rate - current, BasisPoints, rate)
    <3>1. rate - current \in Nat /\ rate \in Nat \ {0} /\ low = current
      BY <2>1
    <3>2. (rate - current) * BasisPoints \in Nat
      BY <3>1, <1>2, SMT
    <3>3. loss \in Nat /\ (rate - current) * BasisPoints < loss * rate + rate
      BY <3>1, <3>2, DivDown, Zenon DEF mulDiv
    <3>4. loss <= maxLoss
      BY <2>1, Zenon
    <3> HIDE DEF loss
    <3>5. loss * rate <= maxLoss * rate /\ maxLoss * rate + rate = (maxLoss + 1) * rate
      BY <3>1, <3>3, <3>4, SMTT(30)
    <3>6. loss * rate \in Int /\ maxLoss * rate \in Int /\ (rate - current) * BasisPoints \in Int
      BY <3>1, <3>2, <3>3, SMTT(30)
    <3> QED BY <3>1, <3>3, <3>5, <3>6, SMTT(30)
  <2>2. CASE ~ (current < rate)
    <3>1. rate - low = 0
      BY <2>2
    <3>2. 0 * BasisPoints = 0 /\ (maxLoss + 1) * rate \in Nat
      BY <1>2, SMT
    <3> QED BY <3>1, <3>2
  <2> QED BY <2>1, <2>2, Zenon
<1> HIDE DEF full, paid
<1>6. paid <= full
  <2>1. shares * low <= shares * rate
    BY <1>2, SMT
  <2>2. paid * OneShare < (full + 1) * OneShare
    <3>1. full * OneShare + OneShare = (full + 1) * OneShare
      BY <1>1, <1>2, SMTT(30)
    <3>2. shares * low \in Int /\ shares * rate \in Int /\ paid * OneShare \in Int
          /\ full * OneShare \in Int
      BY <1>1, <1>2, SMTT(30)
    <3> QED BY <3>1, <3>2, <2>1, <1>2, <1>3, <1>4, SMTT(30)
  <2> QED BY <1>1, <1>2, <2>2, Monotone, SMTT(30)
<1>7. (full - paid) * OneShare <= shares * (rate - low) + OneShare
  <2>1. /\ (full - paid) * OneShare = full * OneShare - paid * OneShare
        /\ shares * (rate - low) = shares * rate - shares * low
    BY <1>1, <1>2, SMTT(30)
  <2>2. shares * low \in Int /\ shares * rate \in Int /\ paid * OneShare \in Int /\ full * OneShare \in Int
    BY <1>1, <1>2, SMT
  <2> QED BY <2>1, <2>2, <1>1, <1>2, SMTT(30)
<1>8. ((full - paid) * OneShare) * BasisPoints <= (shares * (rate - low) + OneShare) * BasisPoints
  <2>1. (full - paid) * OneShare \in Int /\ shares * (rate - low) + OneShare \in Int
    BY <1>1, <1>2, SMT
  <2> QED BY <2>1, <1>7, <1>2, Monotone, ZenonT(40)
<1>9. shares * ((rate - low) * BasisPoints) <= shares * ((maxLoss + 1) * rate)
  <2>1. (rate - low) * BasisPoints \in Int /\ (maxLoss + 1) * rate \in Int
    BY <1>2, SMT
  <2> DEFINE p == (rate - low) * BasisPoints
             q == (maxLoss + 1) * rate
  <2>2. p <= q /\ p \in Int /\ q \in Int
    BY <2>1, <1>5, Zenon
  <2> HIDE DEF p, q
  <2>3. shares * p <= shares * q
    BY <2>2, SMT
  <2> QED BY <2>3, Zenon DEF p, q
<1>10. /\ ((full - paid) * OneShare) * BasisPoints = (full - paid) * BasisPoints * OneShare
       /\ (shares * (rate - low) + OneShare) * BasisPoints
            = shares * ((rate - low) * BasisPoints) + BasisPoints * OneShare
       /\ shares * ((maxLoss + 1) * rate) = shares * (maxLoss + 1) * rate
  BY <1>1, <1>2, SMTT(30)
<1>11. /\ (full - paid) * BasisPoints * OneShare \in Int /\ BasisPoints * OneShare \in Int
       /\ shares * ((rate - low) * BasisPoints) \in Int /\ shares * (maxLoss + 1) * rate \in Int
  BY <1>1, <1>2, SMT
<1> QED BY <1>6, <1>8, <1>9, <1>10, <1>11, SMTT(30) DEF full, paid

\* What a request is priced by: the update after it, the rate now, and the lower of the
\* two.
InfoOf(r) == updateInfos[r.updateId]
CurrentRate(r) == mulDiv(redemptionRate, BasisPoints - InfoOf(r).withdrawFee, BasisPoints)
PaidRate(r) == Min({CurrentRate(r), InfoOf(r).withdrawRate})

\* These are numbers.
LEMMA RatesTyped ==
  ASSUME VaultTyped, NEW r \in VaultRequest, r.updateId <= currentUpdateId
  PROVE  /\ InfoOf(r).withdrawRate \in Nat /\ BasisPoints - InfoOf(r).withdrawFee \in Nat
         /\ CurrentRate(r) \in Nat /\ PaidRate(r) \in Nat
         /\ PaidRate(r) = IF CurrentRate(r) <= InfoOf(r).withdrawRate
                          THEN CurrentRate(r) ELSE InfoOf(r).withdrawRate
<1>1. InfoOf(r) \in UpdateInfo
  BY DEF VaultTyped, VaultRequest, currentUpdateId, InfoOf
<1>2. InfoOf(r).withdrawRate \in Nat /\ InfoOf(r).withdrawFee \in 0 .. BasisPoints
  BY <1>1, Zenon DEF UpdateInfo
<1>3. BasisPoints - InfoOf(r).withdrawFee \in Nat
  BY <1>2, VaultRanges
<1>4. CurrentRate(r) \in Nat
  BY <1>3, VaultRanges, MulDivs, Zenon DEF CurrentRate
<1>5. CurrentRate(r) \in Int /\ InfoOf(r).withdrawRate \in Int
  BY <1>2, <1>4
<1>6. PaidRate(r) = IF CurrentRate(r) <= InfoOf(r).withdrawRate
                    THEN CurrentRate(r) ELSE InfoOf(r).withdrawRate
  BY <1>5, LeastTyped, Zenon DEF PaidRate
<1> QED BY <1>2, <1>3, <1>4, <1>6, ZenonT(40)

\* What completing a request comes to.
IsCompletion(c, r) ==
  \/ c.outcome = "skipped"
  \/ /\ timestamp >= r.claimTime /\ r.updateId <= currentUpdateId
     /\ c.outcome = "cancelled" /\ c.assets = convertToAssets(r.sharesAmount)
     /\ c.refund = mulDiv(r.sharesAmount, BasisPoints - InfoOf(r).withdrawFee, BasisPoints)
  \/ /\ timestamp >= r.claimTime /\ r.updateId <= currentUpdateId
     /\ c.outcome = "paid" /\ c.refund = 0
     /\ c.assets = assetsFor(r.sharesAmount, PaidRate(r))
     /\ CurrentRate(r) < InfoOf(r).withdrawRate =>
          mulDiv(InfoOf(r).withdrawRate - CurrentRate(r), BasisPoints, InfoOf(r).withdrawRate)
            <= r.maxLossBps

\* processWithdrawComplete.
LEMMA Completions ==
  ASSUME VaultTyped, NEW r \in VaultRequest, NEW own, NEW held
  PROVE  IsCompletion(processWithdrawComplete(r, own, held), r)
<1> DEFINE loss == mulDiv(InfoOf(r).withdrawRate - CurrentRate(r), BasisPoints, InfoOf(r).withdrawRate)
           lossBps == IF CurrentRate(r) < InfoOf(r).withdrawRate THEN loss ELSE 0
           paid == assetsFor(r.sharesAmount, PaidRate(r))
           skip == \/ ~own /\ r.solverFee = 0
                   \/ timestamp < r.claimTime
                   \/ r.updateId > currentUpdateId
           c == processWithdrawComplete(r, own, held)
<1>1. c = IF skip THEN [outcome |-> "skipped"]
          ELSE IF lossBps > r.maxLossBps
          THEN [outcome |-> "cancelled", assets |-> convertToAssets(r.sharesAmount),
                refund |-> mulDiv(r.sharesAmount, BasisPoints - InfoOf(r).withdrawFee, BasisPoints)]
          ELSE IF paid > held THEN [outcome |-> "skipped"]
          ELSE [outcome |-> "paid", assets |-> paid, refund |-> 0]
  BY Zenon DEF processWithdrawComplete, completion, InfoOf, CurrentRate, PaidRate
<1> HIDE DEF c
<1>2. CASE skip
  <2>1. c.outcome = "skipped"
    BY <1>1, <1>2, ZenonT(40)
  <2> QED BY <2>1, Zenon DEF IsCompletion, c
<1>3. CASE ~ skip
  <2>1. timestamp >= r.claimTime /\ r.updateId <= currentUpdateId
    BY <1>3 DEF VaultTyped, VaultRequest, currentUpdateId
  <2>2. CASE lossBps > r.maxLossBps
    <3>1. /\ c.outcome = "cancelled" /\ c.assets = convertToAssets(r.sharesAmount)
          /\ c.refund = mulDiv(r.sharesAmount, BasisPoints - InfoOf(r).withdrawFee, BasisPoints)
      BY <1>1, <1>3, <2>2, ZenonT(40)
    <3> QED BY <2>1, <3>1, Zenon DEF IsCompletion, c
  <2>3. CASE ~ (lossBps > r.maxLossBps) /\ paid > held
    <3>1. c.outcome = "skipped"
      BY <1>1, <1>3, <2>3, ZenonT(40)
    <3> QED BY <3>1, ZenonT(40) DEF IsCompletion, c
  <2>4. CASE ~ (lossBps > r.maxLossBps) /\ ~ (paid > held)
    <3>1. c.outcome = "paid" /\ c.refund = 0 /\ c.assets = paid
      BY <1>1, <1>3, <2>4, Zenon
    <3>2. ASSUME CurrentRate(r) < InfoOf(r).withdrawRate PROVE loss <= r.maxLossBps
      <4>1. /\ InfoOf(r).withdrawRate - CurrentRate(r) \in Nat
            /\ InfoOf(r).withdrawRate \in Nat \ {0}
        BY <2>1, <3>2, RatesTyped
      <4>2. loss \in Nat
        BY <4>1, VaultRanges, MulDivs, Zenon
      <4>3. lossBps = loss
        BY <3>2, Zenon
      <4> HIDE DEF loss, lossBps
      <4> QED BY <2>4, <4>2, <4>3, SMTT(30) DEF VaultRequest
    <3> QED BY <2>1, <3>1, <3>2, Zenon DEF IsCompletion, c
  <2> QED BY <2>2, <2>3, <2>4, Zenon
<1> QED BY <1>2, <1>3, Zenon

\* A request is completed.
LEMMA SettlingIsSound ==
  ASSUME VaultTyped, NEW owner \in Holder, NEW own \in BOOLEAN, completeWithdraw(owner, own)
  PROVE  StepIsSound
<1> DEFINE r == userWithdrawRequest[owner][1]
           c == processWithdrawComplete(r, own, withdrawAccount)
<1>1. userWithdrawRequest[owner] # << >> /\ settle(owner, own, {"paid"})
  BY Zenon DEF completeWithdraw
<1>2. r \in VaultRequest
  BY <1>1 DEF VaultTyped
<1>3. IsCompletion(c, r)
  BY <1>2, Completions, Zenon
<1>4. /\ c.outcome # "skipped"
      /\ withdrawAccount' = withdrawAccount - c.assets
      /\ depositAccount' = IF c.outcome = "cancelled" THEN depositAccount + c.assets ELSE depositAccount
      /\ balanceOf' = [balanceOf EXCEPT ![owner] = @ + c.refund]
      /\ totalSupply' = totalSupply + c.refund
      /\ userWithdrawRequest' = [userWithdrawRequest EXCEPT ![owner] = <<>>]
      /\ ether' = IF c.outcome \in {"paid"} THEN ether - r.solverFee ELSE ether
      /\ stranded' = IF c.outcome = "cancelled" THEN stranded + r.solverFee ELSE stranded
      /\ UNCHANGED <<vconfig, redemptionRate, maxHistoricalRate, lastUpdateTotalShares,
                     lastUpdateTimestamp, feesOwedInAsset, totalAssetsToWithdrawNextUpdate,
                     updateInfos, timestamp>>
  BY <1>1, ZenonT(40) DEF settle
<1> HIDE DEF c, r
<1>5. timestamp >= r.claimTime /\ r.updateId <= currentUpdateId /\ c.outcome \in {"paid", "cancelled"}
  BY <1>3, <1>4, Zenon DEF IsCompletion
<1>6. /\ InfoOf(r).withdrawRate \in Nat /\ BasisPoints - InfoOf(r).withdrawFee \in Nat
      /\ CurrentRate(r) \in Nat /\ PaidRate(r) \in Nat
      /\ PaidRate(r) = IF CurrentRate(r) <= InfoOf(r).withdrawRate
                       THEN CurrentRate(r) ELSE InfoOf(r).withdrawRate
  BY <1>2, <1>5, RatesTyped, Zenon
<1>7. r.sharesAmount \in Nat /\ r.solverFee \in Int /\ r.maxLossBps \in Nat
  BY <1>2, Zenon DEF VaultRequest
<1>8. c.outcome = "cancelled" =>
        /\ c.assets = convertToAssets(r.sharesAmount)
        /\ c.refund = mulDiv(r.sharesAmount, BasisPoints - InfoOf(r).withdrawFee, BasisPoints)
  BY <1>3, Zenon DEF IsCompletion
<1>10. c.outcome = "paid" =>
         /\ c.refund = 0 /\ c.assets = assetsFor(r.sharesAmount, PaidRate(r))
         /\ CurrentRate(r) < InfoOf(r).withdrawRate =>
              mulDiv(InfoOf(r).withdrawRate - CurrentRate(r), BasisPoints, InfoOf(r).withdrawRate)
                <= r.maxLossBps
  BY <1>3, Zenon DEF IsCompletion
<1>13. c.assets \in Nat /\ c.refund \in Nat
  <2>1. CASE c.outcome = "paid"
    <3>1. assetsFor(r.sharesAmount, PaidRate(r)) \in Nat
      BY <1>6, <1>7, AssetsForShares, Zenon
    <3> QED BY <2>1, <1>10, <3>1, SMTT(30)
  <2>2. CASE c.outcome = "cancelled"
    <3>1. convertToAssets(r.sharesAmount) \in Nat
      BY <1>7, VaultRanges, AssetsForShares, Zenon DEF convertToAssets
    <3>2. mulDiv(r.sharesAmount, BasisPoints - InfoOf(r).withdrawFee, BasisPoints) \in Nat
      BY <1>6, <1>7, VaultRanges, MulDivs, Zenon
    <3> QED BY <2>2, <1>8, <3>1, <3>2, ZenonT(40)
  <2> QED BY <2>1, <2>2, <1>5, ZenonT(40)
<1>14. VaultTyped'
  <2>1. << >> \in Seq(VaultRequest)
    OBVIOUS
  <2>2. userWithdrawRequest' \in [Holder -> Seq(VaultRequest)]
    BY <1>4, <2>1, Zenon DEF VaultTyped
  <2>3. balanceOf' \in [Shareholder -> Int] /\ totalSupply' \in Int
    <3>1. owner \in Shareholder /\ balanceOf[owner] + c.refund \in Int
      BY <1>13 DEF VaultTyped, Shareholder
    <3>2. balanceOf' = [balanceOf EXCEPT ![owner] = balanceOf[owner] + c.refund]
      BY <1>4, Zenon
    <3>3. balanceOf' \in [Shareholder -> Int]
      BY <3>1, <3>2, Zenon DEF VaultTyped
    <3>4. totalSupply' = totalSupply + c.refund
      BY <1>4, Zenon
    <3> QED BY <1>13, <3>3, <3>4, SMTT(30) DEF VaultTyped
  <2>4. withdrawAccount' \in Int /\ depositAccount' \in Int
    <3>1. /\ withdrawAccount' = withdrawAccount - c.assets
          /\ depositAccount' \in {depositAccount + c.assets, depositAccount}
      BY <1>4, Zenon
    <3> QED BY <1>13, <3>1 DEF VaultTyped
  <2>5. ether' \in Int /\ stranded' \in Int
    <3>1. ether' \in {ether, ether - r.solverFee} /\ stranded' \in {stranded, stranded + r.solverFee}
      BY <1>4, Zenon
    <3>2. ether \in Int /\ stranded \in Int
      BY Zenon DEF VaultTyped
    <3>3. ether - r.solverFee \in Int /\ stranded + r.solverFee \in Int
      BY <1>7, <3>2, IntsMove, Zenon
    <3> QED BY <3>1, <3>2, <3>3, Zenon
  <2> QED BY <1>4, <2>2, <2>3, <2>4, <2>5, ZenonT(40) DEF VaultTyped
<1>15. StepIsPaidFor
  <2>1. userWithdrawRequest' # userWithdrawRequest
    BY <1>1, <1>4, Zenon DEF VaultTyped
  <2> QED BY <2>1, <1>4, Zenon DEF StepIsPaidFor
<1>16. LeavesWithinItsTerms(owner)
  <2> DEFINE gone == depositAccount + withdrawAccount - (depositAccount' + withdrawAccount')
             lost == assetsFor(r.sharesAmount, InfoOf(r).withdrawRate) - gone
  <2>0. withdrawAccount \in Int /\ depositAccount \in Int
    BY Zenon DEF VaultTyped
  <2>1. balanceOf'[owner] - balanceOf[owner] = c.refund /\ balanceOf[owner] \in Int
    BY <1>4, <1>13, SMTT(30) DEF VaultTyped, Shareholder
  <2>2. CASE c.outcome = "cancelled"
    <3>1. gone = 0
      <4>1. /\ withdrawAccount' = withdrawAccount - c.assets
            /\ depositAccount' = depositAccount + c.assets
        BY <2>2, <1>4, Zenon
      <4> QED BY <4>1, <1>13, <2>0
    <3>2. c.refund * BasisPoints > r.sharesAmount * (BasisPoints - InfoOf(r).withdrawFee) - BasisPoints
      <4> DEFINE x == r.sharesAmount * (BasisPoints - InfoOf(r).withdrawFee)
      <4>1. x \in Nat
        BY <1>6, <1>7, SMTT(30)
      <4>2. c.refund = x \div BasisPoints
        BY <2>2, <1>8, Zenon DEF mulDiv
      <4> HIDE DEF x
      <4>3. x < c.refund * BasisPoints + BasisPoints
        BY <4>1, <4>2, VaultRanges, DivDown, ZenonT(40)
      <4>4. c.refund * BasisPoints \in Int
        BY <1>13, VaultRanges, SMT
      <4> QED BY <4>1, <4>3, <4>4, VaultRanges, SMTT(30) DEF x
    <3> QED BY <1>5, <2>1, <3>1, <3>2, ZenonT(40) DEF LeavesWithinItsTerms, RequestOf, InfoOf, r
  <2>3. CASE c.outcome = "paid"
    <3>1. gone = c.assets
      <4>1. withdrawAccount' = withdrawAccount - c.assets /\ depositAccount' = depositAccount
        BY <2>3, <1>4, ZenonT(40)
      <4> QED BY <4>1, <1>13, <2>0
    <3>2. balanceOf'[owner] = balanceOf[owner]
      BY <2>1, <2>3, <1>4, <1>10, SMTT(30) DEF VaultTyped, Shareholder
    <3>3. /\ assetsFor(r.sharesAmount, PaidRate(r)) <= assetsFor(r.sharesAmount, InfoOf(r).withdrawRate)
          /\ (assetsFor(r.sharesAmount, InfoOf(r).withdrawRate) - assetsFor(r.sharesAmount, PaidRate(r)))
               * BasisPoints * OneShare
               <= r.sharesAmount * (r.maxLossBps + 1) * InfoOf(r).withdrawRate + BasisPoints * OneShare
      BY <2>3, <1>6, <1>7, <1>10, LossWithin, ZenonT(40)
    <3>4. /\ assetsFor(r.sharesAmount, InfoOf(r).withdrawRate) \in Nat
          /\ c.assets = assetsFor(r.sharesAmount, PaidRate(r))
      BY <2>3, <1>6, <1>7, <1>10, AssetsForShares, ZenonT(40)
    <3>5. /\ lost >= 0
          /\ lost * BasisPoints * OneShare
               <= r.sharesAmount * (r.maxLossBps + 1) * InfoOf(r).withdrawRate + BasisPoints * OneShare
      <4>1. lost = assetsFor(r.sharesAmount, InfoOf(r).withdrawRate) - assetsFor(r.sharesAmount, PaidRate(r))
        BY <3>1, <3>4, ZenonT(40)
      <4>2. lost >= 0
        BY <4>1, <3>3, <3>4, <1>13, SMTT(30)
      <4> QED BY <4>1, <4>2, <3>3, Zenon
    <3> QED BY <1>5, <3>2, <3>5, ZenonT(40) DEF LeavesWithinItsTerms, RequestOf, InfoOf, r
  <2> QED BY <1>5, <2>2, <2>3, Zenon
<1>17. RequestsLeaveInTerms
  <2>1. \A u \in Holder : u # owner => userWithdrawRequest'[u] = userWithdrawRequest[u]
    BY <1>4, Zenon DEF VaultTyped
  <2> QED BY <1>16, <2>1, Zenon DEF RequestsLeaveInTerms, Requested
<1> QED BY <1>14, <1>15, <1>17, ZenonT(40) DEF StepIsSound

\* Nothing is deposited.
LEMMA InitVaultTyped == VaultInit => VaultTyped
<1>1. \A S : << >> \in Seq(S)
  OBVIOUS
<1> QED BY <1>1, ValenceVaultConstants DEF VaultInit, VaultTyped

\* Every step.
LEMMA VaultStepIsSound ==
  ASSUME VaultTyped, VaultNext
  PROVE  StepIsSound
<1>1. CASE \E c \in VaultConfig : updateConfig(c)
  BY <1>1, QuietVault, Zenon DEF updateConfig, VaultTyped
<1>2. CASE \E u \in Holder, a \in Amount : deposit(u, a) \/ mint(u, a)
  BY <1>2, DepositsAreSound, ValenceVaultConstants, Zenon
<1>3. CASE \E rate \in VaultRate, fee \in WithdrawFee, netting \in Netting : update(rate, fee, netting)
  BY <1>3, UpdateIsSound, ValenceVaultConstants, Zenon
<1>4. CASE \E byOwner, p \in BOOLEAN : setPaused(byOwner, p)
  BY <1>4, QuietVault, Zenon DEF setPaused, VaultTyped
<1>5. CASE \E u \in Holder, a \in Amount, loss \in MaxLoss, solver \in BOOLEAN :
             withdraw(u, a, loss, solver) \/ redeem(u, a, loss, solver)
  BY <1>5, RequestsAreSound, ValenceVaultConstants, Zenon
<1>6. CASE \E u \in Holder, own \in BOOLEAN : completeWithdraw(u, own)
  BY <1>6, SettlingIsSound, ZenonT(40)
<1>7. CASE passTime
  BY <1>7, QuietVault DEF passTime, VaultTyped
<1> QED BY <1>1, <1>2, <1>3, <1>4, <1>5, <1>6, <1>7, ZenonT(40) DEF VaultNext

\* A step or a stutter keeps the types.
LEMMA NextVaultTyped == VaultTyped /\ [VaultNext]_vaultVars => VaultTyped'
<1> SUFFICES ASSUME VaultTyped, [VaultNext]_vaultVars PROVE VaultTyped'
  BY Zenon
<1>1. CASE VaultNext
  BY <1>1, VaultStepIsSound, Zenon DEF StepIsSound
<1>2. CASE UNCHANGED vaultVars
  BY <1>2, Zenon DEF vaultVars, VaultTyped
<1> QED BY <1>1, <1>2, Zenon

-----------------------------------------------------------------------------
\* For every rate, fee, amount, number of decimals and length of lockup, whatever a
\* deposit or a mint makes is paid for, and an update charges no rate twice.
THEOREM SharesPaidFor == VaultSpec => SharesArePaidFor
<1>1. VaultTyped /\ [VaultNext]_vaultVars => [StepIsPaidFor]_vaultVars
  BY VaultStepIsSound, Zenon DEF StepIsSound
<1> QED BY <1>1, InitVaultTyped, NextVaultTyped, PTL DEF VaultSpec, SharesArePaidFor

\* And every request that leaves is settled within its terms.
THEOREM RequestsSettled == VaultSpec => SettledWithinItsTerms
<1>1. VaultTyped /\ [VaultNext]_vaultVars => [RequestsLeaveInTerms]_vaultVars
  BY VaultStepIsSound, Zenon DEF StepIsSound
<1>2. SettledWithinItsTerms <=> [][RequestsLeaveInTerms]_vaultVars
  BY PTL DEF SettledWithinItsTerms, RequestsLeaveInTerms
<1> QED BY <1>1, <1>2, InitVaultTyped, NextVaultTyped, PTL DEF VaultSpec

-----------------------------------------------------------------------------
(* The books.                                                              *)

\* A sum whose terms change at one place.
LEMMA SumMoves ==
  ASSUME NEW S, IsFiniteSet(S), NEW f \in [S -> Int], NEW e, DOMAIN e = S, NEW x \in S, NEW d \in Int,
         e[x] = f[x] + d, SameBut(f, e, S, x)
  PROVE  SumFunction(e) = SumFunction(f) + d
<1>1. Ints(f, S) /\ Ints(e, S)
  BY DEF Ints, SameBut
<1>2. SumFunctionOnSet(e, S) = SumFunctionOnSet(f, S) - f[x] + e[x]
  BY <1>1, SumAtOne
<1>3. SumFunctionOnSet(f, S) \in Int
  BY <1>1, SumIsInt, Zenon
<1>4. SumFunction(e) = SumFunctionOnSet(e, S) /\ SumFunction(f) = SumFunctionOnSet(f, S)
  BY Zenon DEF SumFunction
<1>5. f[x] \in Int
  BY Zenon
<1>6. SumFunctionOnSet(f, S) - f[x] + (f[x] + d) = SumFunctionOnSet(f, S) + d
  BY <1>3, <1>5, TermMoves, Zenon
<1> QED BY <1>2, <1>4, <1>6, ZenonT(40)

\* A sum is a number.
LEMMA TotalIsInt ==
  ASSUME NEW S, IsFiniteSet(S), NEW f \in [S -> Int]
  PROVE  SumFunction(f) \in Int
<1>1. Ints(f, S)
  BY Zenon DEF Ints
<1>2. SumFunctionOnSet(f, S) \in Int
  BY <1>1, SumIsInt, Zenon
<1> QED BY <1>2, Zenon DEF SumFunction

\* The request of a user waits at the latest for the next update.
RequestsAreOfUpdates == \A u \in Requested : RequestOf(u).updateId <= currentUpdateId + 1
BookInv == BooksMatchRequests /\ RequestsAreOfUpdates

\* The terms of the sums.
LEMMA BookTerms ==
  ASSUME VaultTyped
  PROVE  /\ IsFiniteSet(Holder) /\ IsFiniteSet(Shareholder) /\ currentUpdateId \in Nat
         /\ askedNext \in [Holder -> Int] /\ solverFees \in [Holder -> Int]
         /\ balanceOf \in [Shareholder -> Int]
         /\ SumFunction(askedNext) \in Int /\ SumFunction(solverFees) \in Int
         /\ SumFunction(balanceOf) \in Int
<1>1. IsFiniteSet(Holder)
  BY ValenceVaultConstants, Zenon
<1>2. IsFiniteSet(Holder \cup {StrategistAccount}) 
  BY <1>1, FS_AddElement, Zenon
<1>3. IsFiniteSet((Holder \cup {StrategistAccount}) \cup {PlatformAccount}) 
  BY <1>2, FS_AddElement, Zenon
<1>4. (Holder \cup {StrategistAccount}) \cup {PlatformAccount} = Shareholder
  BY Zenon DEF Shareholder
<1>5. currentUpdateId \in Nat /\ balanceOf \in [Shareholder -> Int]
  BY DEF VaultTyped, currentUpdateId
<1>6. ASSUME NEW u \in Requested PROVE RequestOf(u) \in VaultRequest
  BY DEF VaultTyped, Requested, RequestOf
<1>7. ASSUME NEW u \in Requested PROVE RequestOf(u).asked \in Int /\ RequestOf(u).solverFee \in Int
  BY <1>6, Zenon DEF VaultRequest
<1>8. askedNext \in [Holder -> Int]
  BY <1>7 DEF askedNext
<1>9. solverFees \in [Holder -> Int]
  BY <1>7 DEF solverFees
<1>10. SumFunction(askedNext) \in Int /\ SumFunction(solverFees) \in Int
  BY <1>1, <1>8, <1>9, TotalIsInt, Zenon
<1>11. SumFunction(balanceOf) \in Int
  BY <1>3, <1>4, <1>5, TotalIsInt, Zenon
<1> QED BY <1>1, <1>3, <1>4, <1>5, <1>8, <1>9, <1>10, <1>11, ZenonT(40)

\* A step that leaves the requests and the updates alone.
LEMMA SameRequests ==
  ASSUME userWithdrawRequest' = userWithdrawRequest, updateInfos' = updateInfos
  PROVE  /\ askedNext' = askedNext /\ solverFees' = solverFees
         /\ RequestsAreOfUpdates => RequestsAreOfUpdates'
<1>1. Requested' = Requested /\ currentUpdateId' = currentUpdateId /\ \A u : RequestOf(u)' = RequestOf(u)
  BY Zenon DEF Requested, currentUpdateId, RequestOf
<1>2. askedNext' = askedNext /\ solverFees' = solverFees
  BY <1>1, Zenon DEF askedNext, solverFees
<1>3. RequestsAreOfUpdates => RequestsAreOfUpdates'
  BY <1>1, Zenon DEF RequestsAreOfUpdates
<1> QED BY <1>2, <1>3, Zenon

\* Shares come to, or go from, one holder.
LEMMA SharesMove ==
  ASSUME VaultTyped, BooksMatchRequests, NEW h \in Shareholder, NEW d \in Int,
         balanceOf' = [balanceOf EXCEPT ![h] = balanceOf[h] + d], totalSupply' = totalSupply + d
  PROVE  totalSupply' = SumFunction(balanceOf')
<1> DEFINE f == balanceOf
           e == balanceOf'
<1>1. IsFiniteSet(Shareholder) /\ f \in [Shareholder -> Int]
  BY BookTerms, Zenon
<1>2. DOMAIN e = Shareholder /\ e[h] = f[h] + d /\ SameBut(f, e, Shareholder, h)
  BY <1>1, Zenon DEF SameBut
<1> HIDE DEF f, e
<1>3. SumFunction(e) = SumFunction(f) + d
  BY <1>1, <1>2, SumMoves, SMTT(30)
<1> QED BY <1>3, Zenon DEF e, f, BooksMatchRequests

\* A deposit.
LEMMA DepositKeepsBooks ==
  ASSUME VaultTyped, BookInv, NEW u \in Holder, NEW assets, NEW shares \in Int, NEW fee,
         takeDeposit(u, assets, shares, fee)
  PROVE  BookInv'
<1>1. u \in Shareholder
  BY Zenon DEF Shareholder
<1>2. /\ balanceOf' = [balanceOf EXCEPT ![u] = balanceOf[u] + shares] /\ totalSupply' = totalSupply + shares
      /\ userWithdrawRequest' = userWithdrawRequest /\ updateInfos' = updateInfos
      /\ totalAssetsToWithdrawNextUpdate' = totalAssetsToWithdrawNextUpdate
      /\ ether' = ether /\ stranded' = stranded
  BY Zenon DEF takeDeposit
<1>3. totalSupply' = SumFunction(balanceOf')
  BY <1>1, <1>2, SharesMove, Zenon DEF BookInv
<1> QED BY <1>2, <1>3, SameRequests, Zenon DEF BookInv, BooksMatchRequests

\* A step that touches none of the books.
LEMMA QuietBooks ==
  ASSUME BookInv, UNCHANGED <<totalAssetsToWithdrawNextUpdate, userWithdrawRequest, updateInfos,
                              balanceOf, totalSupply, ether, stranded>>
  PROVE  BookInv'
  BY SameRequests, Zenon DEF BookInv, BooksMatchRequests

\* Fee shares come to two holders, or to one.
LEMMA FeesKeepBooks ==
  ASSUME VaultTyped, BooksMatchRequests, NEW fees \in Int, distributeFees(fees)
  PROVE  totalSupply' = SumFunction(balanceOf')
<1> DEFINE part == strategistPart(fees, vconfig.strategistRatioBps)
           ours == convertToShares(part)
           theirs == convertToShares(fees - part)
           f == balanceOf
           g == [f EXCEPT ![StrategistAccount] = f[StrategistAccount] + ours]
           e == balanceOf'
<1>1. part \in Int
  BY VaultNumbers, DivTyped, Zenon DEF strategistPart
<1>2. /\ balanceOf' = [[balanceOf EXCEPT ![StrategistAccount] = @ + ours] EXCEPT ![PlatformAccount] = @ + theirs]
      /\ totalSupply' = totalSupply + ours + theirs
  BY Zenon DEF distributeFees
<1> HIDE DEF part
<1>3. fees - part \in Int /\ redemptionRate \in Nat \ {0} /\ OneShare \in Int
  BY <1>1, VaultRanges
<1>4. ours \in Int /\ theirs \in Int
  BY <1>1, <1>3, DivTyped, Zenon DEF convertToShares, sharesFor
<1> HIDE DEF ours, theirs
<1>5. /\ IsFiniteSet(Shareholder) /\ f \in [Shareholder -> Int]
      /\ StrategistAccount \in Shareholder /\ PlatformAccount \in Shareholder
      /\ SumFunction(f) \in Int
  BY BookTerms, Zenon DEF Shareholder
<1>6. /\ g \in [Shareholder -> Int]
      /\ DOMAIN g = Shareholder /\ g[StrategistAccount] = f[StrategistAccount] + ours
      /\ SameBut(f, g, Shareholder, StrategistAccount)
  BY <1>4, <1>5 DEF SameBut
<1>7. /\ DOMAIN e = Shareholder /\ e[PlatformAccount] = g[PlatformAccount] + theirs
      /\ SameBut(g, e, Shareholder, PlatformAccount)
  <2>1. e = [g EXCEPT ![PlatformAccount] = g[PlatformAccount] + theirs]
    BY <1>2, SMT
  <2> HIDE DEF e, g
  <2> QED BY <2>1, <1>5, <1>6, Zenon DEF SameBut
<1> HIDE DEF f, g, e
<1>8. SumFunction(g) = SumFunction(f) + ours
  BY <1>4, <1>5, <1>6, SumMoves, SMTT(30)
<1>9. SumFunction(e) = SumFunction(g) + theirs
  BY <1>4, <1>5, <1>6, <1>7, SumMoves, ZenonT(40)
<1>10. totalSupply = SumFunction(f)
  BY Zenon DEF f, BooksMatchRequests
<1>11. totalSupply' = SumFunction(e)
  BY <1>2, <1>4, <1>5, <1>8, <1>9, <1>10, ZenonT(40)
<1> QED BY <1>11, Zenon DEF e

\* An update.
LEMMA UpdateKeepsBooks ==
  ASSUME VaultTyped, BookInv, NEW rate \in VaultRate, NEW feeBps, NEW netting,
         update(rate, feeBps, netting)
  PROVE  BookInv'
<1> DEFINE fees == feesOwedInAsset + calculatePlatformFees(rate) + calculatePerformanceFees(rate)
<1>1. fees \in Int
  <2>1. rate \in Int
    BY ValenceVaultConstants
  <2>2. calculatePlatformFees(rate) \in Int /\ calculatePerformanceFees(rate) \in Int
    BY <2>1, PlatformFees, PerformanceFees, ZenonT(40)
  <2> QED BY <2>2 DEF VaultTyped
<1>2. /\ distributeFees(fees) /\ handleWithdraws(feeBps, netting)
      /\ userWithdrawRequest' = userWithdrawRequest /\ ether' = ether /\ stranded' = stranded
  BY Zenon DEF update
<1> HIDE DEF fees
<1>3. totalSupply' = SumFunction(balanceOf')
  BY <1>1, <1>2, FeesKeepBooks, ZenonT(40) DEF BookInv
<1>4. totalAssetsToWithdrawNextUpdate' = 0 /\ Len(updateInfos') = Len(updateInfos) + 1
  BY <1>2 DEF handleWithdraws, priceRequests, VaultTyped
<1>5. /\ Requested' = Requested /\ \A u : RequestOf(u)' = RequestOf(u)
  BY <1>2, Zenon DEF Requested, RequestOf
<1>6. currentUpdateId \in Nat /\ currentUpdateId' = currentUpdateId + 1
  BY <1>4, BookTerms, Zenon DEF currentUpdateId
<1>7. ASSUME NEW u \in Requested
      PROVE  RequestOf(u).updateId \in Nat /\ RequestOf(u).updateId <= currentUpdateId + 1
  <2>1. RequestOf(u) \in VaultRequest
    BY DEF Requested, RequestOf, VaultTyped
  <2>2. RequestOf(u).updateId \in Nat
    BY <2>1, Zenon DEF VaultRequest
  <2> QED BY <2>2, ZenonT(40) DEF BookInv, RequestsAreOfUpdates
<1>8. RequestsAreOfUpdates'
  BY <1>5, <1>6, <1>7, SMTT(30) DEF RequestsAreOfUpdates
<1>9. SumFunction(askedNext') = 0
  <2> DEFINE e == askedNext'
  <2>1. ASSUME NEW u \in Requested PROVE RequestOf(u)'.updateId # currentUpdateId' + 1
    BY <1>5, <1>6, <1>7, SMTT(30)
  <2>2. DOMAIN e = Holder /\ \A u \in Holder : e[u] = 0
    BY <2>1, <1>5, Zenon DEF askedNext
  <2> HIDE DEF e
  <2>3. SumFunctionOnSet(e, Holder) = 0
    BY <2>2, SumOfZeros, BookTerms, Zenon
  <2>4. SumFunction(e) = 0
    BY <2>2, <2>3, Zenon DEF SumFunction
  <2> QED BY <2>4, Zenon DEF e
<1>10. solverFees' = solverFees
  BY <1>5, Zenon DEF solverFees
<1>11. BooksMatchRequests'
  BY <1>2, <1>3, <1>4, <1>9, <1>10, ZenonT(40) DEF BooksMatchRequests, BookInv
<1> QED BY <1>8, <1>11, ZenonT(40) DEF BookInv

\* The request of one user is filed or leaves.
LEMMA RequestMoves ==
  ASSUME VaultTyped, BookInv, NEW owner \in Holder, NEW q, NEW asked \in Int, NEW fee \in Int,
         userWithdrawRequest' = [userWithdrawRequest EXCEPT ![owner] = q],
         updateInfos' = updateInfos,
         askedNext'[owner] = askedNext[owner] + asked,
         solverFees'[owner] = solverFees[owner] + fee,
         q # << >> => q[1].updateId <= currentUpdateId + 1
  PROVE  /\ SumFunction(askedNext') = SumFunction(askedNext) + asked
         /\ SumFunction(solverFees') = SumFunction(solverFees) + fee
         /\ RequestsAreOfUpdates'
<1>1. currentUpdateId' = currentUpdateId
  BY Zenon DEF currentUpdateId
<1>2. userWithdrawRequest'[owner] = q
  BY Zenon DEF VaultTyped
<1>3. ASSUME NEW u \in Holder, u # owner
      PROVE  (u \in Requested' <=> u \in Requested) /\ RequestOf(u)' = RequestOf(u)
  <2>1. userWithdrawRequest'[u] = userWithdrawRequest[u]
    BY <1>3, Zenon DEF VaultTyped
  <2> QED BY <2>1, Zenon DEF Requested, RequestOf
<1>4. RequestsAreOfUpdates'
  <2> SUFFICES ASSUME NEW u \in Requested' PROVE RequestOf(u)'.updateId <= currentUpdateId' + 1
    BY Zenon DEF RequestsAreOfUpdates
  <2>1. u \in Holder
    BY Zenon DEF Requested
  <2>2. CASE u = owner
    BY <1>1, <1>2, <2>2, Zenon DEF Requested, RequestOf
  <2>3. CASE u # owner
    BY <1>1, <1>3, <2>1, <2>3, ZenonT(40) DEF BookInv, RequestsAreOfUpdates
  <2> QED BY <2>2, <2>3, Zenon
<1> DEFINE a == askedNext
           b == askedNext'
           c == solverFees
           d == solverFees'
<1>5. DOMAIN b = Holder /\ SameBut(a, b, Holder, owner)
  BY <1>1, <1>3, Zenon DEF askedNext, SameBut
<1>6. DOMAIN d = Holder /\ SameBut(c, d, Holder, owner)
  BY <1>3, Zenon DEF solverFees, SameBut
<1>7. IsFiniteSet(Holder) /\ a \in [Holder -> Int] /\ c \in [Holder -> Int]
  BY BookTerms, Zenon
<1>8. b[owner] = a[owner] + asked /\ d[owner] = c[owner] + fee
  BY Zenon
<1> HIDE DEF a, b, c, d
<1>9. SumFunction(b) = SumFunction(a) + asked
  BY <1>5, <1>7, <1>8, SumMoves, ZenonT(40)
<1>10. SumFunction(d) = SumFunction(c) + fee
  BY <1>6, <1>7, <1>8, SumMoves, ZenonT(40)
<1> QED BY <1>4, <1>9, <1>10, ZenonT(40) DEF a, b, c, d

\* A request is filed.
LEMMA FilingKeepsBooks ==
  ASSUME VaultTyped, BookInv, NEW owner \in Holder, NEW shares \in Int, NEW assets \in Int, NEW loss,
         NEW solver \in BOOLEAN, fileRequest(owner, shares, assets, loss, solver)
  PROVE  BookInv'
<1> DEFINE solverFee == IF solver THEN vconfig.solverCompletionFee ELSE 0
           r == [sharesAmount |-> shares, claimTime |-> timestamp + vconfig.withdrawLockupPeriod,
                 maxLossBps |-> loss, solverFee |-> solverFee,
                 updateId |-> currentUpdateId + 1, asked |-> assets]
<1>1. solverFee \in Int /\ currentUpdateId \in Nat /\ -shares \in Int /\ owner \in Shareholder
  BY VaultNumbers, BookTerms DEF Shareholder
<1>2. userWithdrawRequest' = [userWithdrawRequest EXCEPT ![owner] = <<r>>]
  BY Zenon DEF fileRequest
<1>3. /\ userWithdrawRequest[owner] = << >> /\ ether' = ether + solverFee
      /\ balanceOf' = [balanceOf EXCEPT ![owner] = balanceOf[owner] - shares]
      /\ totalSupply' = totalSupply - shares
      /\ totalAssetsToWithdrawNextUpdate' = totalAssetsToWithdrawNextUpdate + assets
      /\ updateInfos' = updateInfos /\ stranded' = stranded
  BY Zenon DEF fileRequest
<1> HIDE DEF solverFee
<1>4. r.updateId = currentUpdateId + 1 /\ r.asked = assets /\ r.solverFee = solverFee
  BY Zenon
<1> HIDE DEF r
<1>5. currentUpdateId' = currentUpdateId
  BY <1>3, Zenon DEF currentUpdateId
<1>6. owner \notin Requested /\ askedNext[owner] = 0 /\ solverFees[owner] = 0
  BY <1>3, Zenon DEF Requested, askedNext, solverFees
<1>7. userWithdrawRequest'[owner] = <<r>> /\ <<r>> # << >> /\ <<r>>[1] = r
  BY <1>2, Zenon DEF VaultTyped
<1>8. owner \in Requested' /\ RequestOf(owner)' = r
  BY <1>7, Zenon DEF Requested, RequestOf
<1>9. askedNext'[owner] = assets /\ solverFees'[owner] = solverFee
  BY <1>4, <1>5, <1>8, Zenon DEF askedNext, solverFees
<1>10. /\ askedNext'[owner] = askedNext[owner] + assets
       /\ solverFees'[owner] = solverFees[owner] + solverFee
       /\ <<r>>[1].updateId <= currentUpdateId + 1
  <2>1. currentUpdateId + 1 \in Int
    BY <1>1
  <2>2. 0 + assets = assets /\ 0 + solverFee = solverFee /\ currentUpdateId + 1 <= currentUpdateId + 1
    BY <1>1, <2>1, IntsMove, Zenon
  <2> QED BY <1>4, <1>6, <1>7, <1>9, <2>2, ZenonT(40)
<1>11. /\ SumFunction(askedNext') = SumFunction(askedNext) + assets
       /\ SumFunction(solverFees') = SumFunction(solverFees) + solverFee
       /\ RequestsAreOfUpdates'
  BY <1>1, <1>2, <1>3, <1>10, RequestMoves, Zenon
<1>12. totalSupply' = SumFunction(balanceOf')
  <2>1. /\ balanceOf' = [balanceOf EXCEPT ![owner] = balanceOf[owner] + -shares]
        /\ totalSupply' = totalSupply + -shares
    BY <1>1, <1>3, Zenon DEF VaultTyped
  <2> QED BY <1>1, <2>1, SharesMove, Zenon DEF BookInv
<1>13. ether' = SumFunction(solverFees') + stranded'
  <2>1. /\ SumFunction(solverFees) \in Int /\ stranded \in Int
        /\ ether = SumFunction(solverFees) + stranded
    BY BookTerms, Zenon DEF BookInv, BooksMatchRequests, VaultTyped
  <2> QED BY <1>1, <1>3, <1>11, <2>1, SMTT(30)
<1>14. totalAssetsToWithdrawNextUpdate' = SumFunction(askedNext')
  BY <1>3, <1>11, Zenon DEF BookInv, BooksMatchRequests
<1> QED BY <1>11, <1>12, <1>13, <1>14, ZenonT(40) DEF BookInv, BooksMatchRequests

\* A request is completed: it waits for no update to come.
LEMMA SettlingKeepsBooks ==
  ASSUME VaultTyped, BookInv, NEW owner \in Holder, NEW own \in BOOLEAN, completeWithdraw(owner, own)
  PROVE  BookInv'
<1> DEFINE r == userWithdrawRequest[owner][1]
           c == processWithdrawComplete(r, own, withdrawAccount)
<1>1. userWithdrawRequest[owner] # << >> /\ settle(owner, own, {"paid"})
  BY Zenon DEF completeWithdraw
<1>2. r \in VaultRequest
  BY <1>1 DEF VaultTyped
<1>3. IsCompletion(c, r)
  BY <1>2, Completions, Zenon
<1>4. /\ c.outcome # "skipped"
      /\ balanceOf' = [balanceOf EXCEPT ![owner] = balanceOf[owner] + c.refund]
      /\ totalSupply' = totalSupply + c.refund
      /\ userWithdrawRequest' = [userWithdrawRequest EXCEPT ![owner] = << >>]
      /\ ether' = IF c.outcome \in {"paid"} THEN ether - r.solverFee ELSE ether
      /\ stranded' = IF c.outcome = "cancelled" THEN stranded + r.solverFee ELSE stranded
      /\ totalAssetsToWithdrawNextUpdate' = totalAssetsToWithdrawNextUpdate
      /\ updateInfos' = updateInfos
  BY <1>1, ZenonT(40) DEF settle
<1>5. owner \in Requested /\ RequestOf(owner) = r
  BY <1>1, Zenon DEF Requested, RequestOf
<1> HIDE DEF c, r
<1>6. r.updateId <= currentUpdateId /\ c.outcome \in {"paid", "cancelled"}
  BY <1>3, <1>4, Zenon DEF IsCompletion
<1>7. r.sharesAmount \in Int /\ r.solverFee \in Int /\ r.updateId \in Nat /\ -r.solverFee \in Int
  BY <1>2 DEF VaultRequest
<1>8. c.refund \in Int
  <2>1. BasisPoints - InfoOf(r).withdrawFee \in Int /\ BasisPoints \in Nat \ {0}
    <3>1. BasisPoints - InfoOf(r).withdrawFee \in Nat
      BY <1>2, <1>6, RatesTyped, Zenon
    <3>2. BasisPoints \in Nat \ {0}
      BY VaultUnits, Zenon
    <3> QED BY <3>1, <3>2, IntsMove, Zenon
  <2>2. mulDiv(r.sharesAmount, BasisPoints - InfoOf(r).withdrawFee, BasisPoints) \in Int
    BY <1>7, <2>1, DivTyped, Zenon
  <2> QED BY <1>3, <1>4, <2>2, IntsMove, ZenonT(40) DEF IsCompletion
<1>9. currentUpdateId' = currentUpdateId /\ currentUpdateId \in Nat
  BY <1>4, BookTerms, Zenon DEF currentUpdateId
<1>10. askedNext[owner] = 0 /\ solverFees[owner] = r.solverFee
  <2>1. r.updateId # currentUpdateId + 1
    BY <1>6, <1>7, <1>9, SMTT(30)
  <2> QED BY <1>5, <2>1, Zenon DEF askedNext, solverFees
<1>11. owner \notin Requested'
  BY <1>4, Zenon DEF Requested, VaultTyped
<1>12. askedNext'[owner] = 0 /\ solverFees'[owner] = 0
  BY <1>11, Zenon DEF askedNext, solverFees
<1>13. /\ askedNext'[owner] = askedNext[owner] + 0
       /\ solverFees'[owner] = solverFees[owner] + -r.solverFee
  <2>1. 0 = r.solverFee + -r.solverFee /\ 0 + 0 = 0
    BY <1>7
  <2> QED BY <1>10, <1>12, <2>1, ZenonT(40)
<1>14. /\ SumFunction(askedNext') = SumFunction(askedNext) + 0
       /\ SumFunction(solverFees') = SumFunction(solverFees) + -r.solverFee
       /\ RequestsAreOfUpdates'
  <2>1. 0 \in Int
    OBVIOUS
  <2> QED BY <1>4, <1>7, <1>13, <2>1, RequestMoves, ZenonT(40)
<1>15. totalSupply' = SumFunction(balanceOf')
  <2>1. owner \in Shareholder
    BY Zenon DEF Shareholder
  <2> QED BY <1>4, <1>8, <2>1, SharesMove, Zenon DEF BookInv
<1>16. ether' = SumFunction(solverFees') + stranded'
  <2> DEFINE sum == SumFunction(solverFees)
  <2>1. /\ SumFunction(solverFees) \in Int /\ stranded \in Int /\ ether \in Int
        /\ ether = SumFunction(solverFees) + stranded
    BY BookTerms, Zenon DEF BookInv, BooksMatchRequests, VaultTyped
  <2>2. sum \in Int /\ stranded \in Int /\ r.solverFee \in Int
    BY <1>7, <2>1, Zenon
  <2> HIDE DEF sum
  <2>3. CASE c.outcome = "paid"
    <3>1. ether' = ether - r.solverFee /\ stranded' = stranded
      BY <1>4, <2>3, Zenon
    <3>2. (sum + stranded) - r.solverFee = (sum + -r.solverFee) + stranded
      BY <2>2
    <3> QED BY <1>14, <2>1, <3>1, <3>2, ZenonT(40) DEF sum
  <2>4. CASE c.outcome = "cancelled"
    <3>1. ether' = ether /\ stranded' = stranded + r.solverFee
      BY <1>4, <2>4, Zenon
    <3>2. sum + stranded = (sum + -r.solverFee) + (stranded + r.solverFee)
      BY <2>2, SMTT(30)
    <3> QED BY <1>14, <2>1, <3>1, <3>2, ZenonT(40) DEF sum
  <2> QED BY <1>6, <2>3, <2>4, Zenon
<1>17. totalAssetsToWithdrawNextUpdate' = SumFunction(askedNext')
  BY <1>4, <1>14, BookTerms, SMTT(30) DEF BookInv, BooksMatchRequests
<1> QED BY <1>14, <1>15, <1>16, <1>17, Zenon DEF BookInv, BooksMatchRequests

\* Nothing is asked for, paid in or held.
LEMMA InitBooks == VaultInit => BookInv
<1> SUFFICES ASSUME VaultInit PROVE BookInv
  BY Zenon
<1> DEFINE a == askedNext
           c == solverFees
           b == balanceOf
<1>1. \A u \in Holder : u \notin Requested
  BY Zenon DEF VaultInit, Requested
<1>2. /\ DOMAIN a = Holder /\ \A u \in Holder : a[u] = 0
      /\ DOMAIN c = Holder /\ \A u \in Holder : c[u] = 0
      /\ DOMAIN b = Shareholder /\ \A h \in Shareholder : b[h] = 0
  BY <1>1, Zenon DEF askedNext, solverFees, VaultInit
<1>3. IsFiniteSet(Holder) /\ IsFiniteSet(Shareholder)
  BY InitVaultTyped, BookTerms, Zenon
<1> HIDE DEF a, b, c
<1>4. SumFunctionOnSet(a, Holder) = 0 /\ SumFunctionOnSet(c, Holder) = 0
  BY <1>2, <1>3, SumOfZeros, Zenon
<1>5. SumFunctionOnSet(b, Shareholder) = 0
  BY <1>2, <1>3, SumOfZeros, Zenon
<1>6. SumFunction(a) = 0 /\ SumFunction(c) = 0 /\ SumFunction(b) = 0
  BY <1>2, <1>4, <1>5, ZenonT(40) DEF SumFunction
<1>7. BooksMatchRequests
  BY <1>6 DEF a, b, c, BooksMatchRequests, VaultInit
<1>8. RequestsAreOfUpdates
  BY <1>1, Zenon DEF RequestsAreOfUpdates, Requested
<1> QED BY <1>7, <1>8, Zenon DEF BookInv

\* A deposit or a mint.
LEMMA DepositsKeepBooks ==
  ASSUME VaultTyped, BookInv, NEW u \in Holder, NEW a \in Nat, deposit(u, a) \/ mint(u, a)
  PROVE  BookInv'
<1>1. CASE deposit(u, a)
  <2> DEFINE fee == calculateDepositFee(a)
             shares == convertToShares(a - fee)
  <2>1. fee \in 0 .. a
    BY VaultRanges, FeeWithin, Zenon DEF calculateDepositFee
  <2>2. takeDeposit(u, a, shares, fee)
    BY <1>1, Zenon DEF deposit
  <2> HIDE DEF fee
  <2>3. shares \in Int
    BY <2>1, VaultRanges, DivTyped, SMTT(30) DEF convertToShares, sharesFor
  <2> HIDE DEF shares
  <2> QED BY <2>2, <2>3, DepositKeepsBooks, ZenonT(40)
<1>2. CASE mint(u, a)
  <2>1. \E x \in calculateMintFee(a) : takeDeposit(u, x.gross, a, x.fee)
    BY <1>2, Zenon DEF mint
  <2>2. a \in Int
    OBVIOUS
  <2> QED BY <2>1, <2>2, DepositKeepsBooks, Zenon
<1> QED BY <1>1, <1>2, Zenon

\* A request.
LEMMA RequestsKeepBooks ==
  ASSUME VaultTyped, BookInv, NEW u \in Holder, NEW a \in Nat, NEW loss, NEW solver \in BOOLEAN,
         withdraw(u, a, loss, solver) \/ redeem(u, a, loss, solver)
  PROVE  BookInv'
<1>1. a \in Int /\ sharesForUp(a, redemptionRate) \in Int /\ convertToAssets(a) \in Int
  <2>1. redemptionRate \in Nat \ {0} /\ redemptionRate \in Nat
    BY VaultRanges, Zenon
  <2>2. sharesForUp(a, redemptionRate) \in Nat
    BY <2>1, SharesForAssets, Zenon
  <2>3. convertToAssets(a) \in Nat
    BY <2>1, AssetsForShares, Zenon DEF convertToAssets
  <2> QED BY <2>2, <2>3
<1>2. CASE withdraw(u, a, loss, solver)
  BY <1>1, <1>2, FilingKeepsBooks, ZenonT(40) DEF withdraw
<1>3. CASE redeem(u, a, loss, solver)
  BY <1>1, <1>3, FilingKeepsBooks, ZenonT(40) DEF redeem
<1> QED BY <1>2, <1>3, ZenonT(40)

\* Every step.
LEMMA NextBooks == VaultTyped /\ BookInv /\ [VaultNext]_vaultVars => BookInv'
<1> SUFFICES ASSUME VaultTyped, BookInv, [VaultNext]_vaultVars PROVE BookInv'
  BY Zenon
<1>1. CASE \E c \in VaultConfig : updateConfig(c)
  BY <1>1, QuietBooks, Zenon DEF updateConfig
<1>2. CASE \E u \in Holder, a \in Amount : deposit(u, a) \/ mint(u, a)
  BY <1>2, DepositsKeepBooks, ValenceVaultConstants, Zenon
<1>3. CASE \E rate \in VaultRate, fee \in WithdrawFee, netting \in Netting : update(rate, fee, netting)
  BY <1>3, UpdateKeepsBooks, Zenon
<1>4. CASE \E byOwner, p \in BOOLEAN : setPaused(byOwner, p)
  BY <1>4, QuietBooks, Zenon DEF setPaused
<1>5. CASE \E u \in Holder, a \in Amount, loss \in MaxLoss, solver \in BOOLEAN :
             withdraw(u, a, loss, solver) \/ redeem(u, a, loss, solver)
  BY <1>5, RequestsKeepBooks, ValenceVaultConstants, ZenonT(40)
<1>6. CASE \E u \in Holder, own \in BOOLEAN : completeWithdraw(u, own)
  BY <1>6, SettlingKeepsBooks, ZenonT(40)
<1>7. CASE passTime
  BY <1>7, QuietBooks, Zenon DEF passTime
<1>8. CASE UNCHANGED vaultVars
  BY <1>8, QuietBooks, Zenon DEF vaultVars
<1> QED BY <1>1, <1>2, <1>3, <1>4, <1>5, <1>6, <1>7, <1>8, ZenonT(40) DEF VaultNext

\* For every finite set of users, every rate, fee and amount, the vault's books
\* agree with its requests and with what holders have.
THEOREM BooksKept == VaultSpec => []BooksMatchRequests
<1>1. VaultInit => VaultTyped /\ BookInv
  BY InitVaultTyped, InitBooks, Zenon
<1>2. VaultTyped /\ BookInv /\ [VaultNext]_vaultVars => (VaultTyped /\ BookInv)'
  BY NextVaultTyped, NextBooks, Zenon
<1>3. BookInv => BooksMatchRequests
  BY Zenon DEF BookInv
<1> QED BY <1>1, <1>2, <1>3, PTL DEF VaultSpec
=============================================================================

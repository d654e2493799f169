------------------------------ MODULE VaultMath ------------------------------
(***************************************************************************)
(* The arithmetic both vaults are built on (solidity/src/vaults): integer  *)
(* products and quotients with the rounding the code asks for, at a        *)
(* redemption rate of assets per OneShare shares.                          *)
(***************************************************************************)
EXTENDS Integers

CONSTANTS
  BasisPoints,          \* 10000; small when model checking
  OneShare              \* 10 ^ decimals

ASSUME VaultUnits == BasisPoints \in Nat \ {0} /\ OneShare \in Nat \ {0}

\* external: OpenZeppelin's Math.mulDiv, rounding down and up.
mulDiv(a, b, c) == (a * b) \div c
mulDivCeil(a, b, c) == (a * b + c - 1) \div c

\* _convertToAssets and _convertToShares.
assetsFor(shares, rate) == mulDiv(shares, rate, OneShare)
assetsForUp(shares, rate) == mulDivCeil(shares, rate, OneShare)
sharesFor(assets, rate) == mulDiv(assets, OneShare, rate)
sharesForUp(assets, rate) == mulDivCeil(assets, OneShare, rate)

\* calculateDepositFee and calculateWithdrawalFee: rounded up.
feeOn(assets, feeBps) == mulDivCeil(assets, feeBps, BasisPoints)

\* calculateMintFee: the fee is taken from the gross amount.
grossFor(base, feeBps) == mulDivCeil(base, BasisPoints, BasisPoints - feeBps)

\* _distributeFees: the strategist's part; the platform has the remainder.
strategistPart(fees, ratioBps) == mulDiv(fees, ratioBps, BasisPoints)
=============================================================================

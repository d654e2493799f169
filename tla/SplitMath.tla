----------------------------- MODULE SplitMath -----------------------------
(* The arithmetic of the splitter and of the reverse splitter.  A Decimal  *)
(* is its numerator over DecimalOne (10^18 in cosmwasm_std), a Uint128 a   *)
(* natural number: multiply_ratio is the floor of the exact product.       *)
EXTENDS Integers

CONSTANT DecimalOne

ASSUME DecimalOneAssumption == DecimalOne \in Nat \ {0}

\* Uint128::multiply_ratio.
multiply_ratio(x, numerator, denominator) == (x * numerator) \div denominator

\* What a balance is worth in the base denom of a reverse split: the ratio
\* first, then the factor, both rounded down.
in_base_denom(balance, ratio, factor) ==
    multiply_ratio(balance, ratio, DecimalOne) \div factor

\* Variant: the factor is left out on the way back.
out_of_base_denom_unscaled(min, ratio, factor) ==
    multiply_ratio(min, DecimalOne, ratio)

\* What a split pays for a given amount of the base denom: the ratio upside
\* down, rounded down, then the factor.
out_of_base_denom(min, ratio, factor) ==
    multiply_ratio(min, DecimalOne, ratio) * factor
=============================================================================

----------------------------- MODULE Liquidity -----------------------------
(***************************************************************************)
(* The libraries that put an account's funds into a pool of two assets and *)
(* take them out again: osmosis-gamm-lper and osmosis-gamm-withdrawer,     *)
(* astroport-lper and astroport-withdrawer.                                *)
(*                                                                         *)
(* A call of the processor is one transaction: what the library reads, what *)
(* it makes its input account send and what the pool makes of it happen in *)
(* one step, or not at all.  Between calls others trade in the pool, funds *)
(* arrive and the owner changes the configurations.  A Decimal is its      *)
(* numerator over DecimalOne.  An absent range or limit is << >>.          *)
(***************************************************************************)
EXTENDS SplitMath, FiniteSetsExt

CONSTANTS Party,            \* addresses that may hold funds
          PoolAsset,        \* the two assets of the pool
          PoolOrder,        \* the order in which an astroport pool lists them
          LpToken,          \* the pool's share token
          Market,           \* kinds of pool: "gamm", "xyk", "stable"
          FirstPool,        \* the pool at first: [reserve, supply]
          FirstWallet,      \* what the addresses hold at first
          ProviderConfigs,  \* configurations offered to the provider
          RemoverConfigs,   \* configurations offered to the withdrawer
          PriceRanges,      \* expected ranges a call may carry
          Limits,           \* limits a call may carry
          MaxServed,        \* bound on successful calls
          MaxMoves          \* bound on trades, deposits and updates

VARIABLES market,           \* the kind of pool this is
          pool,             \* its reserves and the supply of its shares
          wallet,           \* what every address holds
          provider,         \* configuration of the provider
          remover,          \* configuration of the withdrawer
          served,           \* successful calls so far
          moves,            \* trades, deposits and updates so far
          asked             \* history: the last successful call

ASSUME LiquidityConstants ==
  /\ PoolAsset = {PoolOrder[1], PoolOrder[2]} /\ PoolOrder[1] # PoolOrder[2]
  /\ LpToken \notin PoolAsset
  /\ FirstPool \in [reserve : [PoolAsset -> Nat], supply : Nat \ {0}]
  /\ FirstWallet \in [Party -> [PoolAsset \cup {LpToken} -> Nat]]
  /\ \A cfg \in ProviderConfigs \cup RemoverConfigs :
       /\ DOMAIN cfg = {"input_addr", "output_addr", "lp"}
       /\ cfg.input_addr \in Party /\ cfg.output_addr \in Party
  /\ Limits \subseteq {<< >>} \cup [1 .. 1 -> Nat]

liquidityVars == <<market, pool, wallet, provider, remover, served, moves, asked>>

-----------------------------------------------------------------------------
(* Prices and amounts                                                      *)

\* DecimalRange::contains, if there is a range.
contains(range, value) == range # << >> => value >= range[1] /\ value <= range[2]

\* get_pool_asset_amounts, and the pools' answer to a denom they do not have.
poolKnows(assets) ==
  /\ {assets[1], assets[2]} = PoolAsset
  /\ \A d \in PoolAsset : pool.reserve[d] # 0

\* ValenceLiquidPooler::query_spot_price: asset 2 for one of asset 1.
query_spot_price(assets) == (pool.reserve[assets[2]] * DecimalOne) \div pool.reserve[assets[1]]

\* Decimal::checked_from_ratio: asset 1 for one of asset 2.
pool_asset_ratios(assets) == (pool.reserve[assets[1]] * DecimalOne) \div pool.reserve[assets[2]]

ratioFor(assets) == IF market = "gamm" THEN query_spot_price(assets) ELSE pool_asset_ratios(assets)

\* What the gamm library offers of the two balances: all of one, and what the
\* spot price asks of the other.
calculate_provision_amounts(bal1, bal2, pool_ratio) ==
  LET expected == multiply_ratio(bal1, pool_ratio, DecimalOne)
  IN IF expected > bal2 THEN <<multiply_ratio(bal2, DecimalOne, pool_ratio), bal2>>
     ELSE <<bal1, expected>>

\* Variant: the ratio of the pool is used the wrong way round.
calculate_provide_amounts_inverted(bal1, bal2, pool1, pool2) ==
  LET required == multiply_ratio(bal2, (pool2 * DecimalOne) \div pool1, DecimalOne)
  IN IF bal1 >= required THEN <<required, bal2>>
     ELSE <<bal1, multiply_ratio(bal1, (pool1 * DecimalOne) \div pool2, DecimalOne)>>

\* What the astroport library offers: all of asset 2 if there is enough of asset 1,
\* otherwise all of asset 1.
calculate_provide_amounts(bal1, bal2, pool1, pool2) ==
  LET required == multiply_ratio(bal2, (pool1 * DecimalOne) \div pool2, DecimalOne)
  IN IF bal1 >= required THEN <<required, bal2>>
     ELSE <<bal1, multiply_ratio(bal1, (pool2 * DecimalOne) \div pool1, DecimalOne)>>

\* At most the limit of what there is.
provision_amount(bal, limit) == IF limit # << >> /\ limit[1] < bal THEN limit[1] ELSE bal

-----------------------------------------------------------------------------
(* External: what pools answer and do.  A share is worth its part of the   *)
(* reserves; a pool rounds against the one who calls it.                   *)

upward(x, n) == (x + n - 1) \div n

other(asset) == CHOOSE d \in PoolAsset : d # asset

\* Shares for an amount of every asset.
calc_join_pool_no_swap_shares(amount) ==
  Min({multiply_ratio(amount[d], pool.supply, pool.reserve[d]) : d \in PoolAsset})

\* The shares for an amount of one asset, half of which is swapped by the pool: as
\* many as the product of the reserves allows, which grows with their square.
calc_join_pool_shares(asset, n, shares) ==
  LET grown(s) == (pool.supply + s) * (pool.supply + s) * pool.reserve[asset]
                    <= pool.supply * pool.supply * (pool.reserve[asset] + n)
  IN grown(shares) /\ ~ grown(shares + 1)

\* What a swap returns.
swapReturn(asset, n) == multiply_ratio(n, pool.reserve[other(asset)], pool.reserve[asset] + n)

\* What shares are worth.
exitPool(shares) == [d \in PoolAsset |-> multiply_ratio(shares, pool.reserve[d], pool.supply)]

-----------------------------------------------------------------------------
(* Calls                                                                   *)

Call(fn, asset, limit, range) ==
  /\ served < MaxServed /\ served' = served + 1
  /\ asked' = [fn |-> fn, asset |-> asset, limit |-> limit, range |-> range]
  /\ UNCHANGED <<market, provider, remover, moves>>

\* The account sends what is spent, the pool mints, and the shares are the output
\* account's: sent on by the account (gamm), or minted to it (astroport).
provided(spent, minted) ==
  LET from == provider.input_addr
      paid == [wallet EXCEPT ![from] =
                 [d \in DOMAIN @ |-> IF d \in PoolAsset THEN @[d] - spent[d] ELSE @[d]]]
  IN /\ minted > 0
     /\ \A d \in PoolAsset : spent[d] <= wallet[from][d]
     /\ pool' = [reserve |-> [d \in PoolAsset |-> pool.reserve[d] + spent[d]],
                 supply |-> pool.supply + minted]
     /\ wallet' = [paid EXCEPT ![provider.output_addr][LpToken] = @ + minted]

amounts(assets, pair) == [d \in PoolAsset |-> IF d = assets[1] THEN pair[1] ELSE pair[2]]

offered ==
  LET assets == provider.lp.assets
      bal(i) == wallet[provider.input_addr][assets[i]]
  IN amounts(assets,
             IF market = "gamm"
             THEN calculate_provision_amounts(bal(1), bal(2), query_spot_price(assets))
             ELSE calculate_provide_amounts(bal(1), bal(2), pool.reserve[assets[1]], pool.reserve[assets[2]]))

\* osmosis-gamm-lper: the pool takes what the simulated shares cost.
provide_double_sided_gamm(range) ==
  /\ market = "gamm" /\ poolKnows(provider.lp.assets)
  /\ contains(range, query_spot_price(provider.lp.assets))
  /\ LET share_out_amt == calc_join_pool_no_swap_shares(offered)
     IN provided([d \in PoolAsset |-> upward(share_out_amt * pool.reserve[d], pool.supply)], share_out_amt)
  /\ Call("double", provider.lp.assets[1], << >>, range)

\* astroport-lper: the pool keeps all that is sent.
provide_double_sided_astroport(range) ==
  /\ market # "gamm" /\ poolKnows(provider.lp.assets)
  /\ contains(range, pool_asset_ratios(provider.lp.assets))
  /\ provided(offered, calc_join_pool_no_swap_shares(offered))
  /\ Call("double", provider.lp.assets[1], << >>, range)

onlyOf(asset, n) == [d \in PoolAsset |-> IF d = asset THEN n ELSE 0]

provide_single_sided_gamm(asset, limit, range) ==
  LET n == provision_amount(wallet[provider.input_addr][asset], <<limit>>)
  IN /\ market = "gamm" /\ poolKnows(provider.lp.assets)
     /\ contains(range, query_spot_price(provider.lp.assets))
     /\ \E share_out_amt \in 1 .. pool.supply * n :
          calc_join_pool_shares(asset, n, share_out_amt) /\ provided(onlyOf(asset, n), share_out_amt)
     /\ Call("single", asset, <<limit>>, range)

\* An xyk pool: half is swapped, and the other half provided with what the swap
\* returns, in the pool as the swap leaves it.
create_xyk_liquidity_msg(asset, n) ==
  LET half == n \div 2
      return == swapReturn(asset, half)
      reserve(d) == IF d = asset THEN pool.reserve[d] + half ELSE pool.reserve[d] - return
      added(d) == IF d = asset THEN half ELSE return
  IN provided(onlyOf(asset, 2 * half),
              Min({multiply_ratio(added(d), pool.supply, reserve(d)) : d \in PoolAsset}))

\* A stable or custom pool takes one asset alone.
create_stable_or_custom_liquidity_msg(asset, n) ==
  provided(onlyOf(asset, n),
           multiply_ratio(n, pool.supply, pool.reserve[asset] + pool.reserve[other(asset)]))

provide_single_sided_astroport(asset, limit, range) ==
  LET n == provision_amount(wallet[provider.input_addr][asset], limit)
  IN /\ market # "gamm" /\ poolKnows(provider.lp.assets)
     /\ asset \in {provider.lp.assets[1], provider.lp.assets[2]}
     /\ contains(range, pool_asset_ratios(provider.lp.assets))
     /\ IF provider.lp.pair = "xyk" THEN create_xyk_liquidity_msg(asset, n)
                                    ELSE create_stable_or_custom_liquidity_msg(asset, n)
     /\ Call("single", asset, limit, range)

\* All the shares of the input account are redeemed, and what the simulation said
\* they are worth is sent on.  A pool never redeems its last share.
withdraw_liquidity(range) ==
  LET from == remover.input_addr
      shares == wallet[from][LpToken]
      out == exitPool(shares)
      burnt == [wallet EXCEPT ![from][LpToken] = 0]
  IN /\ range # << >> => poolKnows(remover.lp.assets) /\ contains(range, ratioFor(remover.lp.assets))
     /\ shares > 0 /\ shares < pool.supply
     /\ \E d \in PoolAsset : out[d] > 0
     /\ pool' = [reserve |-> [d \in PoolAsset |-> pool.reserve[d] - out[d]],
                 supply |-> pool.supply - shares]
     /\ wallet' = [burnt EXCEPT ![remover.output_addr] =
                     [d \in DOMAIN @ |-> IF d \in PoolAsset THEN @[d] + out[d] ELSE @[d]]]
     /\ Call("withdraw", LpToken, << >>, range)

-----------------------------------------------------------------------------
(* Configurations, and what others do                                      *)

\* Both libraries check the pool at first; the gamm library that the pool has the
\* assets, the astroport library that they come in the pool's order.
validProvider(cfg) ==
  IF market = "gamm" THEN {cfg.lp.assets[1], cfg.lp.assets[2]} \subseteq PoolAsset
                     ELSE cfg.lp.assets = PoolOrder /\ cfg.lp.pair = market

Moves ==
  /\ moves < MaxMoves /\ moves' = moves + 1
  /\ UNCHANGED <<market, served, asked>>

updated(old, fields, new) == [f \in DOMAIN old |-> IF f \in fields THEN new[f] ELSE old[f]]

\* Only the astroport library checks again.
update_provider(fields, new) ==
  LET config == updated(provider, fields, new)
  IN /\ Moves
     /\ market # "gamm" => validProvider(config)
     /\ provider' = config
     /\ UNCHANGED <<pool, wallet, remover>>

update_remover(fields, new) ==
  /\ Moves
  /\ remover' = updated(remover, fields, new)
  /\ UNCHANGED <<pool, wallet, provider>>

\* External: someone trades.
trade(asset, n) ==
  /\ Moves
  /\ pool' = [pool EXCEPT !.reserve = [d \in PoolAsset |->
                IF d = asset THEN @[d] + n ELSE @[d] - swapReturn(asset, n)]]
  /\ UNCHANGED <<wallet, provider, remover>>

\* External: someone pays an account.
pay_in(party, asset) ==
  /\ Moves
  /\ wallet' = [wallet EXCEPT ![party][asset] = @ + 1]
  /\ UNCHANGED <<pool, provider, remover>>

LiquidityInit ==
  /\ market \in Market
  /\ pool = FirstPool /\ wallet = FirstWallet
  /\ provider \in ProviderConfigs /\ validProvider(provider)
  /\ remover \in RemoverConfigs
  /\ served = 0 /\ moves = 0
  /\ asked = [fn |-> "none", asset |-> LpToken, limit |-> << >>, range |-> << >>]

LiquidityNext ==
  \/ \E range \in PriceRanges :
       \/ provide_double_sided_gamm(range)
       \/ provide_double_sided_astroport(range)
       \/ withdraw_liquidity(range)
       \/ \E asset \in PoolAsset, limit \in Limits :
            \/ limit # << >> /\ provide_single_sided_gamm(asset, limit[1], range)
            \/ provide_single_sided_astroport(asset, limit, range)
  \/ \E fields \in SUBSET {"input_addr", "output_addr", "lp"} :
       \/ \E new \in ProviderConfigs : update_provider(fields, new)
       \/ \E new \in RemoverConfigs : update_remover(fields, new)
  \/ \E asset \in PoolAsset : trade(asset, 1) \/ \E party \in Party : pay_in(party, asset)

LiquiditySpec == LiquidityInit /\ [][LiquidityNext]_liquidityVars

-----------------------------------------------------------------------------
\* A call does what it says, whatever happened to the pool and to the configuration
\* before it.  The pool's price was in the range asked for.  A two-sided provision
\* is at the pool's price, to a unit of either asset and the rounding of a Decimal,
\* and an astroport one leaves nothing of one asset.  A one-sided one spends its
\* asset only, and no more than the limit.  The shares are the output account's.
\* A withdrawal redeems all shares and sends on what the pool paid and no more.
WithinTerms ==
  LET cfg == IF asked'.fn = "withdraw" THEN remover ELSE provider
      before == wallet[cfg.input_addr]
      after == wallet'[cfg.input_addr]
      spent(d) == before[d] - after[d]
      received(d) == wallet'[cfg.output_addr][d] - wallet[cfg.output_addr][d]
  IN /\ contains(asked'.range, ratioFor(cfg.lp.assets))
     /\ asked'.fn = "double" =>
          /\ \A x, y \in PoolAsset : x # y =>
               (spent(x) * pool.reserve[y] - spent(y) * pool.reserve[x]) * DecimalOne
                 < (pool.reserve[x] + pool.reserve[y]) * DecimalOne + spent(x) * pool.reserve[x]
          /\ market # "gamm" => \E d \in PoolAsset : after[d] = 0
     /\ asked'.fn = "single" =>
          /\ asked'.limit # << >> => spent(asked'.asset) <= asked'.limit[1]
          /\ \A d \in PoolAsset \ {asked'.asset} : spent(d) = 0
     /\ asked'.fn # "withdraw" => received(LpToken) = pool'.supply - pool.supply
     /\ asked'.fn = "withdraw" /\ cfg.input_addr # cfg.output_addr =>
          /\ after[LpToken] = 0
          /\ \A d \in PoolAsset : spent(d) = 0 /\ received(d) = pool.reserve[d] - pool'.reserve[d]
CallsKeepTheirTerms == [][served' > served => WithinTerms]_liquidityVars
=============================================================================

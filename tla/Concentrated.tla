---------------------------- MODULE Concentrated ----------------------------
(***************************************************************************)
(* Concentrated liquidity: osmosis-cl-lper opens positions over a range of *)
(* ticks and gives them to its output account; osmosis-cl-withdrawer takes *)
(* liquidity out of positions of its input account.                        *)
(*                                                                         *)
(* A call, the account's submessage and the reply that ends it are one     *)
(* transaction: one step, or none.  The two tokens are counted together,   *)
(* in units of liquidity.  Between calls the pool's tick moves and the     *)
(* owner changes the configurations, which nothing checks again.           *)
(***************************************************************************)
EXTENDS Integers, Sequences

CONSTANTS ClParty,          \* addresses
          ClAssets,         \* the two tokens of the pool
          Spacing,          \* tick_spacing of the pool
          Int64Max,         \* the largest Int64
          Ticks,            \* ticks the pool may be at
          CustomRanges,     \* ranges <<lower, upper>> a call may ask for
          BucketCounts,     \* bucket counts a call may ask for
          ClConfigs,        \* configurations offered to the provider
          PullConfigs,      \* configurations offered to the withdrawer
          FirstFunds,       \* units every address holds at first
          MaxPositions,     \* bound on positions
          MaxClMoves        \* bound on moves of the tick and on updates

VARIABLES tick,             \* current_tick of the pool
          positions,        \* the positions, in the order of their ids
          funds,            \* units every address holds
          cl_lper,          \* configuration of the provider
          cl_withdrawer,    \* configuration of the withdrawer
          clMoves           \* moves and updates so far

clVars == <<tick, positions, funds, cl_lper, cl_withdrawer, clMoves>>

ASSUME ClConstants ==
  /\ Spacing \in Nat \ {0} /\ Int64Max \in Nat
  /\ Ticks \subseteq Int /\ BucketCounts \subseteq Nat /\ CustomRanges \subseteq Int \X Int
  /\ FirstFunds \in [ClParty -> Nat]
  /\ \A cfg \in ClConfigs : /\ DOMAIN cfg = {"input_addr", "output_addr", "lp"}
                            /\ cfg.input_addr \in ClParty /\ cfg.output_addr \in ClParty
                            /\ cfg.lp.global \in Int \X Int
  /\ \A cfg \in PullConfigs : /\ DOMAIN cfg = {"input_addr", "output_addr"}
                              /\ cfg.input_addr \in ClParty /\ cfg.output_addr \in ClParty

-----------------------------------------------------------------------------
(* Tick ranges, as pairs <<lower_tick, upper_tick>>                        *)

isInt64(n) == -Int64Max - 1 <= n /\ n <= Int64Max

validate(range) == range[1] < range[2]

ensure_pool_spacing_compatibility(range) == range[1] % Spacing = 0 /\ range[2] % Spacing = 0

ensure_contains(outer, range) == outer[1] <= range[1] /\ outer[2] >= range[2]

\* Variant: division that rounds towards zero.
activeBucket_truncated(t) ==
  LET lower == (IF t < 0 THEN -((-t) \div Spacing) ELSE t \div Spacing) * Spacing
  IN <<lower, lower + Spacing>>

\* TickRange::try_from: the bucket the tick is in, by Euclidean division.
activeBucket(t) ==
  LET lower == (t \div Spacing) * Spacing
  IN <<lower, lower + Spacing>>

amplify_range_bidirectionally(range, multiple) ==
  LET extension == (range[2] - range[1]) * multiple
  IN <<range[1] - extension, range[2] + extension>>

\* The checked operations of the two above.
amplifies(range, multiple) ==
  LET wide == amplify_range_bidirectionally(range, multiple)
  IN /\ multiple # 0
     /\ \A n \in {range[1], range[2], multiple, (range[2] - range[1]) * multiple, wide[1], wide[2]} :
          isInt64(n)

-----------------------------------------------------------------------------
(* Calls                                                                   *)

\* MsgCreatePosition for the input account, with all it has; the pool leaves what
\* it has no use for.  The reply, from the configuration in its payload, transfers
\* the position.
createPosition(range, buckets, used) ==
  /\ Len(positions) < MaxPositions
  /\ {cl_lper.lp.assets[1], cl_lper.lp.assets[2]} = ClAssets
  /\ used \in 1 .. funds[cl_lper.input_addr]
  /\ funds' = [funds EXCEPT ![cl_lper.input_addr] = @ - used]
  /\ positions' = Append(positions,
       [owner |-> cl_lper.output_addr, range |-> range, liquidity |-> used,
        made |-> [output |-> cl_lper.output_addr, global |-> cl_lper.lp.global,
                  tick |-> tick, buckets |-> buckets]])
  /\ UNCHANGED <<tick, cl_lper, cl_withdrawer, clMoves>>

provide_liquidity_custom(range, used) ==
  /\ validate(range)
  /\ ensure_pool_spacing_compatibility(range)
  /\ ensure_contains(cl_lper.lp.global, range)
  /\ createPosition(range, 0, used)

\* Not validated, and not checked against the spacing: it is so by construction.
provide_liquidity_default(buckets, used) ==
  LET range == amplify_range_bidirectionally(activeBucket(tick), buckets)
  IN /\ amplifies(activeBucket(tick), buckets)
     /\ ensure_contains(cl_lper.lp.global, range)
     /\ createPosition(range, buckets, used)

\* The position must be the input account's (which the pool checks).  What the pool
\* pays is sent on by the reply; nothing to send is an error.
try_liquidate_cl_position(i, amount) ==
  LET liquidity == IF amount = << >> THEN positions[i].liquidity ELSE amount[1]
  IN /\ positions[i].liquidity > 0
     /\ liquidity <= positions[i].liquidity
     /\ positions[i].owner = cl_withdrawer.input_addr
     /\ liquidity > 0
     /\ positions' = [positions EXCEPT ![i].liquidity = @ - liquidity]
     /\ funds' = [funds EXCEPT ![cl_withdrawer.output_addr] = @ + liquidity]
     /\ UNCHANGED <<tick, cl_lper, cl_withdrawer, clMoves>>

-----------------------------------------------------------------------------
ClMoves == clMoves < MaxClMoves /\ clMoves' = clMoves + 1

clOverlay(old, fields, new) == [f \in DOMAIN old |-> IF f \in fields THEN new[f] ELSE old[f]]

update_cl_lper(fields, new) ==
  /\ ClMoves
  /\ cl_lper' = clOverlay(cl_lper, fields, new)
  /\ UNCHANGED <<tick, positions, funds, cl_withdrawer>>

update_cl_withdrawer(fields, new) ==
  /\ ClMoves
  /\ cl_withdrawer' = clOverlay(cl_withdrawer, fields, new)
  /\ UNCHANGED <<tick, positions, funds, cl_lper>>

\* External: trades move the price.
moveTick(t) ==
  /\ ClMoves
  /\ tick' = t
  /\ UNCHANGED <<positions, funds, cl_lper, cl_withdrawer>>

\* LibraryConfig::validate, on instantiation only.
validClConfig(cfg) ==
  /\ validate(cfg.lp.global)
  /\ {cfg.lp.assets[1], cfg.lp.assets[2]} \subseteq ClAssets

ClInit ==
  /\ tick \in Ticks
  /\ positions = << >>
  /\ funds = FirstFunds
  /\ cl_lper \in ClConfigs /\ validClConfig(cl_lper)
  /\ cl_withdrawer \in PullConfigs
  /\ clMoves = 0

ClNext ==
  \/ \E used \in 1 .. funds[cl_lper.input_addr] :
       \/ \E range \in CustomRanges : provide_liquidity_custom(range, used)
       \/ \E buckets \in BucketCounts : provide_liquidity_default(buckets, used)
  \/ \E i \in DOMAIN positions, amount \in {<< >>} \cup {<<n>> : n \in 1 .. 2} :
       try_liquidate_cl_position(i, amount)
  \/ \E fields \in SUBSET {"input_addr", "output_addr", "lp"}, new \in ClConfigs :
       update_cl_lper(fields, new)
  \/ \E fields \in SUBSET {"input_addr", "output_addr"}, new \in PullConfigs :
       update_cl_withdrawer(fields, new)
  \/ \E t \in Ticks : moveTick(t)

ClSpec == ClInit /\ [][ClNext]_clVars

-----------------------------------------------------------------------------
\* However the tick moved and whatever the owner changed meanwhile, every position
\* was opened on ticks the pool allows, inside the global range then configured and
\* inside Int64.  One opened around the current tick (provide_liquidity_default)
\* holds that tick in its middle bucket, with as many buckets on either side as the
\* call asked for, below zero as well.  It still belongs to the output account that
\* was configured when it was opened.
PositionsAsConfigured ==
  \A i \in DOMAIN positions :
    LET p == positions[i]
        side == p.made.buckets * Spacing
    IN /\ p.range[1] < p.range[2]
       /\ p.range[1] % Spacing = 0 /\ p.range[2] % Spacing = 0
       /\ p.made.global[1] <= p.range[1] /\ p.range[2] <= p.made.global[2]
       /\ p.owner = p.made.output
       /\ p.made.buckets # 0 =>
            /\ p.range[1] + side <= p.made.tick /\ p.made.tick < p.range[2] - side
            /\ p.range[2] - p.range[1] = Spacing + 2 * side
            /\ isInt64(p.range[1]) /\ isInt64(p.range[2])
=============================================================================

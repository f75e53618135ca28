-------------------------------- MODULE Dex --------------------------------
(***************************************************************************)
(* The decentralised exchange: liquidity positions and the indexes kept    *)
(* over them (position_manager.rs), batch swaps and their claims,          *)
(* arbitrage, eviction, and the value circuit breaker (VCB) that counts    *)
(* what the DEX holds.                                                     *)
(*                                                                         *)
(* A block is a number of transactions, one action each, and then          *)
(* Dex::end_block, whose stages follow each other in the order of the code *)
(* (phase); nothing else runs in between.  Which route path_search finds   *)
(* and where its spill price or the execution budget stops a fill are free *)
(* choices; what a fill does to the positions of the route is computed as  *)
(* fill_route.rs does, with the prices in fixed point that                 *)
(* trading_function.rs truncates.                                          *)
(***************************************************************************)
EXTENDS Integers, Sequences, FiniteSets, FiniteSetsExt, Functions

CONSTANTS
  Ids,          \* position ids, in the order of their bytes
  Phi,          \* id -> trading function [a1, a2, fee, p, q] and close_on_fill [cof]
  One,          \* what represents 1 in a U128x128: stands for 2^128
  InitReserves, \* id -> the reserves <<r1, r2>> it may be opened with
  StakingToken,
  Swaps, SwapInputs,  \* swap commitments; <<pair, delta_1_i, delta_2_i>>
  FeeInputs,    \* <<asset, base fee, tip>> that a transaction may pay
  Rewards, EpochDuration,  \* what reward_position may add, at the end of an epoch
  Overflowing,  \* the positions whose coefficients may overflow a fill
  MaxPositionsPerPair,  \* DexParameters::max_positions_per_pair
  MaxHops,      \* RoutingParams::max_hops
  MaxReserve,   \* MAX_RESERVE_AMOUNT, the most that one batch fills
  FlashLoan,    \* stands for u64::MAX, more than all positions hold
  MaxHeight, MaxTxs  \* bounds: heights, transactions of a behaviour

MaxFeeBps == 5000
\* A fee of 100% in basis points.
BasisPoints == 10000

\* The assets of a trading pair are in the order of their bytes.
ASSUME PositionAssumption ==
  /\ Ids \subseteq Nat /\ IsFiniteSet(Ids)
  /\ \A i \in Ids : /\ Phi[i].a1 \in Nat /\ Phi[i].a2 \in Nat /\ Phi[i].a1 < Phi[i].a2
                    /\ Phi[i].p \in Nat \ {0} /\ Phi[i].q \in Nat \ {0}
                    /\ Phi[i].fee \in Nat /\ Phi[i].fee <= MaxFeeBps
                    /\ Phi[i].cof \in BOOLEAN
                    /\ \A r \in InitReserves[i] : r \in Nat \X Nat /\ r[1] + r[2] > 0
ASSUME FixpointAssumption == One \in Nat /\ One >= 2
ASSUME InputAssumption ==
  /\ StakingToken \in Nat
  /\ \A s \in SwapInputs : /\ s \in (Nat \X Nat) \X Nat \X Nat
                           /\ s[1][1] < s[1][2]
  /\ FeeInputs \subseteq Nat \X Nat \X Nat
  /\ Rewards \subseteq Nat
ASSUME BoundAssumption ==
  /\ MaxPositionsPerPair \in Nat /\ MaxHops \in Nat /\ MaxReserve \in Nat
  /\ FlashLoan \in Nat
  /\ EpochDuration \in Nat \ {0} /\ MaxHeight \in Nat /\ MaxTxs \in Nat

PairOf(i) == <<Phi[i].a1, Phi[i].a2>>
\* TradingPair::new, which puts the smaller asset first
NewPair(a, b) == IF a < b THEN <<a, b>> ELSE <<b, a>>
Pairs == {PairOf(i) : i \in Ids} \cup {s[1] : s \in SwapInputs}
         \cup {NewPair(f[1], StakingToken) : f \in {f \in FeeInputs : f[1] # StakingToken}}
Assets == {p[1] : p \in Pairs} \cup {p[2] : p \in Pairs}
Flip(p) == <<p[2], p[1]>>

\* The map f with the entry x at k.
Put(f, k, x) == [y \in DOMAIN f \cup {k} |-> IF y = k THEN x ELSE f[y]]

VARIABLES
  book,     \* the positions and their indexes
  vcb,      \* asset -> the balance of the value circuit breaker
  nft,      \* id -> the LPNFT in circulation (see below)
  swaps,    \* the swap commitments: [input, height, nullified]
  outputs,  \* <<height, pair>> -> BatchSwapOutputData
  paid,     \* <<height, pair>> -> what swap and fee claims have paid out of it
  fees,     \* asset -> <<base fees, tips>> accumulated in the block
  flows,    \* pair -> swap flow, for the pairs with one in the block
  queue,    \* pending_position_closures
  hot,      \* active trading pairs of the block
  job,      \* the batches still to handle, and the route_and_fill in progress
  fork,     \* the book that arbitrage may return to
  txs,      \* transactions so far, for the bound only
  height, phase

txVars == <<nft, swaps, queue, hot, txs, height>>
vars == <<book, vcb, outputs, paid, fees, flows, job, fork, phase, txVars>>

\* An LPNFT is opened, closed, or withdrawn with its sequence number.
NoNft == -3
OpenedNft == -2
ClosedNft == -1

Nowhere == [state |-> "Absent", seq |-> 0, r |-> <<0, 0>>]

\* The reserves of position i of asset a, and the coefficients of its trading
\* function oriented to start from a.
Slot(i, a) == IF a = Phi[i].a1 THEN 1 ELSE 2
P(i, a) == IF a = Phi[i].a1 THEN Phi[i].p ELSE Phi[i].q
Q(i, a) == IF a = Phi[i].a1 THEN Phi[i].q ELSE Phi[i].p

Directions(i) == {PairOf(i), Flip(PairOf(i))}

-----------------------------------------------------------------------------
(* update_position and the indexes                                          *)

\* Both directions, by the reserves of the start asset.
InventoryKeys(i, x) ==
  {[dir |-> d, inventory |-> x.r[Slot(i, d[1])], id |-> i] : d \in Directions(i)}

\* The directions in which the position can sell; the value is a copy of it.
PriceEntries(i, x) ==
  {[dir |-> d, id |-> i, r |-> x.r] : d \in {e \in Directions(i) : x.r[Slot(i, e[2])] # 0}}

ValidTransition(prev, new) ==
  \/ prev.state = "Absent" /\ new.state = "Opened"
  \/ prev.state = "Opened" /\ new.state \in {"Opened", "Closed"}
  \/ prev.state = "Closed" /\ new.state = "Closed"
  \/ prev.state = "Closed" /\ new.state = "Withdrawn" /\ new.seq = 0
  \/ prev.state = "Withdrawn" /\ new.state = "Withdrawn" /\ new.seq \in {prev.seq, prev.seq + 1}

CountChange(prev, new) ==
  CASE prev.state = "Absent" /\ new.state = "Opened" -> 1
    [] prev.state = "Opened" /\ new.state = "Closed" -> -1
    [] OTHER -> 0

\* (Mistake: the keys to delete are built from the new reserves.)
UpdatePositionStale(b, i, new) ==
  [pos |-> [b.pos EXCEPT ![i] = new],
   inventory |-> (b.inventory \ InventoryKeys(i, new)) \cup
                 (IF new.state = "Opened" THEN InventoryKeys(i, new) ELSE {}),
   count |-> [b.count EXCEPT ![PairOf(i)] = @ + CountChange(b.pos[i], new)],
   price |-> {e \in b.price : e.id # i} \cup
             (IF new.state = "Opened" THEN PriceEntries(i, new) ELSE {})]

UpdatePosition(b, i, new) ==
  [pos |-> [b.pos EXCEPT ![i] = new],
   inventory |-> (b.inventory \ InventoryKeys(i, b.pos[i])) \cup
                 (IF new.state = "Opened" THEN InventoryKeys(i, new) ELSE {}),
   count |-> [b.count EXCEPT ![PairOf(i)] = @ + CountChange(b.pos[i], new)],
   price |-> {e \in b.price : e.id # i} \cup
             (IF new.state = "Opened" THEN PriceEntries(i, new) ELSE {})]

Closable(b, i) == b.pos[i].state \in {"Opened", "Closed"}

ClosePosition(b, i) ==
  IF b.pos[i].state = "Opened"
  THEN UpdatePosition(b, i, [b.pos[i] EXCEPT !.state = "Closed"]) ELSE b

\* Reserve changes during execution: nothing is written if they are as they
\* were, and a close-on-fill position closes when either of them is used up.
Executed(x, r, cof) ==
  [x EXCEPT !.r = r,
            !.state = IF cof /\ (r[1] = 0 \/ r[2] = 0) THEN "Closed" ELSE @]

PositionExecution(b, i, r) ==
  IF r = b.pos[i].r THEN b ELSE UpdatePosition(b, i, Executed(b.pos[i], r, Phi[i].cof))

-----------------------------------------------------------------------------
(* One hop: a position f of the frontier, used in one direction, with the   *)
(* reserves rin of the asset it buys and rout of the asset it sells.        *)

CeilDiv(x, y) == (x + y - 1) \div y

\* U128x128::checked_mul and checked_div truncate.
FpMul(x, y) == (x * y) \div One
FpDiv(x, y) == (x * One) \div y

\* gamma, effective_price_inv and effective_price, in units of 1 / One
Gamma(i) == FpDiv(BasisPoints - Phi[i].fee, BasisPoints)
EffectivePriceInv(i, a) == FpMul(FpDiv(P(i, a), Q(i, a)), Gamma(i))
EffectivePrice(i, a) == FpDiv(FpDiv(Q(i, a), P(i, a)), Gamma(i))

\* BareTradingFunction::fill and fill_output
Fits(f, x) == x * EffectivePriceInv(f.id, f.dir[1]) <= f.rout * One
FillOut(f, x) ==
  IF Fits(f, x) THEN (x * EffectivePriceInv(f.id, f.dir[1])) \div One ELSE f.rout
\* (Mistake: rounded down.)
FillInDown(f, y) == (y * EffectivePrice(f.id, f.dir[1])) \div One
FillIn(f, y) == CeilDiv(y * EffectivePrice(f.id, f.dir[1]), One)
Unfilled(f, x) == IF Fits(f, x) THEN 0 ELSE x - FillIn(f, f.rout)

\* The order of the keys: the price as it is truncated, then the id.
Cheaper(i, j, a) ==
  \/ EffectivePrice(i, a) < EffectivePrice(j, a)
  \/ EffectivePrice(i, a) = EffectivePrice(j, a) /\ i < j

\* positions_by_price, without the positions the frontier has used
Available(b, dir, used) == {e \in b.price : e.dir = dir /\ e.id \notin used}
Best(b, dir, used) ==
  LET e == CHOOSE e \in Available(b, dir, used) :
             \A g \in Available(b, dir, used) : g = e \/ Cheaper(e.id, g.id, dir[1])
  IN [id |-> e.id, dir |-> dir, rin |-> e.r[Slot(e.id, dir[1])], rout |-> e.r[Slot(e.id, dir[2])]]

HopReserves(f) ==
  IF Slot(f.id, f.dir[1]) = 1 THEN <<f.rin, f.rout>> ELSE <<f.rout, f.rin>>

-----------------------------------------------------------------------------
(* fill_route                                                               *)

Used(fr) == {fr[n].id : n \in 1..Len(fr)}
Hop(route, n) == <<route[n], route[n + 1]>>

LoadHop(b, fr, dir, n) ==
  IF Len(fr) < n - 1 \/ Available(b, dir, Used(fr)) = {} THEN fr
  ELSE Append(fr, Best(b, dir, Used(fr)))

\* Frontier::load; short if some hop has no position left.
Load(b, route) ==
  LET upTo[n \in 0..(Len(route) - 1)] ==
        IF n = 0 THEN <<>> ELSE LoadHop(b, upTo[n - 1], Hop(route, n), n)
  IN upTo[Len(route) - 1]

\* The amounts at each hop if x enters at the first, as they come out.
Forward(fr, x) ==
  LET amount[n \in 1..(Len(fr) + 1)] == IF n = 1 THEN x ELSE FillOut(fr[n - 1], amount[n - 1])
  IN amount

\* sense_capacity_constraint: the last hop that cannot take its amount, or 0.
Constraint(fr, amount) ==
  LET over == {n \in 1..Len(fr) : Unfilled(fr[n], amount[n]) > 0}
  IN IF over = {} THEN 0 ELSE Max(over)

\* fill_unconstrained, or fill_constrained: the constraining position sells all
\* it has, the hops before it buy what that takes and the hops after it follow.
Trace(fr, x, c) ==
  LET back[n \in 1..(c + 1)] == IF n = c + 1 THEN fr[c].rout ELSE FillIn(fr[n], back[n + 1])
      after == Forward(SubSeq(fr, c + 1, Len(fr)), fr[c].rout)
  IN IF c = 0 THEN Forward(fr, x)
     ELSE [n \in 1..(Len(fr) + 1) |-> IF n <= c + 1 THEN back[n] ELSE after[n - c]]

\* The expects and asserts of fill_forward and fill_backward.
TraceFails(fr, t, c) ==
  \E n \in 1..Len(fr) : \/ t[n + 1] > fr[n].rout
                        \/ n > c /\ Unfilled(fr[n], t[n]) > 0

TradeHop(f, bought, sold) == [f EXCEPT !.rin = @ + bought, !.rout = @ - sold]
Applied(fr, t) == [n \in 1..Len(fr) |-> TradeHop(fr[n], t[n], t[n + 1])]

\* replace_empty_positions: exhausted positions are written out and replaced by
\* the next ones, hop by hop, until one cannot be.
SaveHop(b, f) == PositionExecution(b, f.id, HopReserves(f))
ReplaceHop(v, n) ==
  LET f == v.fr[n]
      saved == [v EXCEPT !.book = SaveHop(@, f),
                         !.fails = @ \/ v.book.pos[f.id].state # "Opened"]
      next == Best(v.loaded, f.dir, v.used)
  IN IF v.out_of_positions \/ f.rout > 0 THEN v
     ELSE IF Available(v.loaded, f.dir, v.used) = {}
     THEN [saved EXCEPT !.out_of_positions = TRUE]
     ELSE [saved EXCEPT !.fr = [@ EXCEPT ![n] = next], !.used = @ \cup {next.id}]
ReplaceEmpty(w) ==
  LET upTo[n \in 0..Len(w.fr)] == IF n = 0 THEN w ELSE ReplaceHop(upTo[n - 1], n)
  IN upTo[Len(w.fr)]

\* One iteration of the filling loop, which trades t, constrained at hop c.
Traded(w, t, c) ==
  [w EXCEPT !.fr = Applied(@, t), !.input = @ - t[1], !.output = @ + t[Len(t)],
            !.fails = @ \/ TraceFails(w.fr, t, c), !.filled = c = 0]
FillStep(w) ==
  IF w.filled \/ w.out_of_positions THEN w
  ELSE LET c == Constraint(w.fr, Forward(w.fr, w.input))
       IN ReplaceEmpty(Traded(w, Trace(w.fr, w.input, c), c))

\* Frontier::save
Save(w) ==
  LET upTo[n \in 0..Len(w.fr)] == IF n = 0 THEN w.book ELSE SaveHop(upTo[n - 1], w.fr[n])
  IN [w EXCEPT !.book = upTo[Len(w.fr)]]

\* fill_route_inner for input x along route; the spill price is exceeded after
\* the given number of iterations.
FillRoute(b, route, x, iterations) ==
  LET fr == Load(b, route)
      start == [book |-> b, loaded |-> b, fr |-> fr, used |-> Used(fr), input |-> x,
                output |-> 0, filled |-> FALSE, out_of_positions |-> FALSE, fails |-> FALSE]
      w[n \in 0..iterations] == IF n = 0 THEN start ELSE FillStep(w[n - 1])
  IN Save(w[iterations])

-----------------------------------------------------------------------------
(* Transactions                                                             *)

Credit(v, a, amount) == [v EXCEPT ![a] = @ + amount]
Debit(v, a, amount) == [v EXCEPT ![a] = @ - amount]

NoJob == [todo |-> {}, from |-> StakingToken, to |-> StakingToken, left |-> 0, out |-> 0,
          first |-> <<0, 0>>]

Init ==
  /\ book = [pos |-> [i \in Ids |-> Nowhere], inventory |-> {}, price |-> {},
             count |-> [p \in Pairs |-> 0]]
  /\ vcb = [a \in Assets |-> 0]
  /\ nft = [i \in Ids |-> NoNft]
  /\ swaps = <<>> /\ outputs = <<>> /\ paid = <<>> /\ fees = <<>> /\ flows = <<>>
  /\ queue = {} /\ hot = {} /\ job = NoJob /\ fork = book
  /\ txs = 0 /\ height = 1 /\ phase = "txs"

\* A transaction is executed before the end of the block.
Transaction == phase = "txs" /\ txs < MaxTxs /\ txs' = txs + 1

\* The identifier commits to the opening reserves; r is free the first time.
PositionOpen(i, r) ==
  LET new == [state |-> "Opened", seq |-> 0, r |-> r] IN
  /\ Transaction
  /\ book.pos[i].state = "Absent" /\ ValidTransition(book.pos[i], new)
  /\ vcb' = Credit(Credit(vcb, Phi[i].a1, r[1]), Phi[i].a2, r[2])
  /\ hot' = hot \cup {PairOf(i)}
  /\ book' = UpdatePosition(book, i, new)
  /\ nft' = [nft EXCEPT ![i] = OpenedNft]
  /\ UNCHANGED <<swaps, outputs, paid, fees, flows, queue, job, fork, height, phase>>

\* (Mistake: the list is put back with the new entry only.)
QueueCloseOverwrites(i) == IF book.pos[i].state = "Opened" THEN {i} ELSE queue
QueueClose(i) == IF book.pos[i].state = "Opened" THEN queue \cup {i} ELSE queue

PositionClose(i) ==
  /\ Transaction
  /\ nft[i] = OpenedNft
  /\ nft' = [nft EXCEPT ![i] = ClosedNft]
  /\ queue' = QueueClose(i)
  /\ UNCHANGED <<book, vcb, swaps, outputs, paid, fees, flows, hot, job, fork, height, phase>>

\* The checks of withdraw_position on the sequence number of the new LPNFT.
WithdrawChecks(i, seq) ==
  IF seq = 0 THEN book.pos[i].state = "Closed"
             ELSE book.pos[i].state = "Withdrawn" /\ book.pos[i].seq + 1 = seq

PositionWithdraw(i) ==
  LET x == book.pos[i]
      seq == nft[i] + 1
      new == [state |-> "Withdrawn", seq |-> seq, r |-> <<0, 0>>]
  IN /\ Transaction
     /\ nft[i] >= ClosedNft
     /\ WithdrawChecks(i, seq)
     /\ x.r[1] <= vcb[Phi[i].a1] /\ x.r[2] <= vcb[Phi[i].a2]
     /\ vcb' = Debit(Debit(vcb, Phi[i].a1, x.r[1]), Phi[i].a2, x.r[2])
     /\ ValidTransition(x, new) /\ book' = UpdatePosition(book, i, new)
     /\ nft' = [nft EXCEPT ![i] = seq]
     /\ UNCHANGED <<swaps, outputs, paid, fees, flows, queue, hot, job, fork, height, phase>>

\* accumulate_swap_flow: into the flows, crediting the circuit breaker
AccumulateFlow(w, pair, flow) ==
  [flows |-> Put(w.flows, pair, IF pair \in DOMAIN w.flows
                                THEN <<w.flows[pair][1] + flow[1], w.flows[pair][2] + flow[2]>>
                                ELSE flow),
   vcb |-> Credit(Credit(w.vcb, pair[1], flow[1]), pair[2], flow[2])]

Swap(s, input) ==
  LET w == AccumulateFlow([flows |-> flows, vcb |-> vcb], input[1], <<input[2], input[3]>>)
  IN /\ Transaction
     /\ s \notin DOMAIN swaps
     /\ flows' = w.flows /\ vcb' = w.vcb
     /\ swaps' = Put(swaps, s, [input |-> input, height |-> height, nullified |-> FALSE])
     /\ UNCHANGED <<book, nft, outputs, paid, fees, queue, hot, job, fork, height, phase>>

\* pro_rata_outputs
ShareOf(part, whole, other_part, other_whole, x, y) ==
  LET d == IF whole = 0 THEN 1 ELSE whole
      e == IF other_whole = 0 THEN 1 ELSE other_whole
      n == IF whole = 0 THEN 0 ELSE part
      m == IF other_whole = 0 THEN 0 ELSE other_part
  IN (n * x * e + m * y * d) \div (d * e)
\* (Mistake: rounded up.)
ProRataUp(o, d1, d2) ==
  <<CeilDiv(d1 * o.unfilled[1], IF o.delta[1] = 0 THEN 1 ELSE o.delta[1])
      + CeilDiv(d2 * o.lambda[1], IF o.delta[2] = 0 THEN 1 ELSE o.delta[2]),
    CeilDiv(d1 * o.lambda[2], IF o.delta[1] = 0 THEN 1 ELSE o.delta[1])
      + CeilDiv(d2 * o.unfilled[2], IF o.delta[2] = 0 THEN 1 ELSE o.delta[2])>>
ProRata(o, d1, d2) ==
  <<ShareOf(d1, o.delta[1], d2, o.delta[2], o.unfilled[1], o.lambda[1]),
    ShareOf(d1, o.delta[1], d2, o.delta[2], o.lambda[2], o.unfilled[2])>>

\* The claim's proof shows the outputs that the chain has for the swap's batch.
SwapClaim(s) ==
  LET k == <<swaps[s].height, swaps[s].input[1]>>
      out == ProRata(outputs[k], swaps[s].input[2], swaps[s].input[3])
  IN /\ Transaction
     /\ s \in DOMAIN swaps /\ k \in DOMAIN outputs
     /\ ~swaps[s].nullified
     /\ swaps' = [swaps EXCEPT ![s].nullified = TRUE]
     /\ paid' = [paid EXCEPT ![k] = <<@[1] + out[1], @[2] + out[2]>>]
     /\ UNCHANGED <<book, vcb, nft, outputs, fees, flows, queue, hot, job, fork, height, phase>>

\* pay_fee, for a fee that covers the base fee; the rest is the tip.
PayFee(f) ==
  LET old == IF f[1] \in DOMAIN fees THEN fees[f[1]] ELSE <<0, 0>>
  IN /\ Transaction
     /\ fees' = Put(fees, f[1], <<old[1] + f[2], old[2] + f[3]>>)
     /\ UNCHANGED <<book, vcb, nft, swaps, outputs, paid, flows, queue, hot, job, fork, height, phase>>

-----------------------------------------------------------------------------
(* Dex::end_block                                                           *)

Before(p, q) == p[1] < q[1] \/ (p[1] = q[1] /\ p[2] < q[2])
NextPair(todo) == CHOOSE p \in todo : \A q \in todo : q = p \/ Before(p, q)
Clamped(amount) == Min({amount, MaxReserve})

\* route_and_fill in the given direction of the pair, before its first round
Direction(j, from, to, input) == [j EXCEPT !.from = from, !.to = to, !.left = input, !.out = 0]
FirstDirection(todo, fl) ==
  LET p == NextPair(todo)
  IN Direction([NoJob EXCEPT !.todo = todo], p[1], p[2], Clamped(fl[p][1]))

ArbJob == Direction(NoJob, StakingToken, StakingToken, FlashLoan)

AltFees == {a \in DOMAIN fees : a # StakingToken}
FeePair(a) == NewPair(a, StakingToken)
FeeFlow(a, amount) == IF FeePair(a)[1] = a THEN <<amount, 0>> ELSE <<0, amount>>

\* F.0: the fees that are not in the staking token become flows of the block.
StartEndBlock ==
  LET w == FoldSet(LAMBDA a, acc : AccumulateFlow(acc, FeePair(a),
                                                  FeeFlow(a, fees[a][1] + fees[a][2])),
                   [flows |-> flows, vcb |-> vcb], AltFees)
  IN /\ phase = "txs" /\ height < MaxHeight
     /\ flows' = w.flows /\ vcb' = w.vcb
     /\ IF DOMAIN w.flows = {}
        THEN phase' = "arb" /\ job' = ArbJob /\ fork' = book
        ELSE phase' = "batch12" /\ job' = FirstDirection(DOMAIN w.flows, w.flows) /\ fork' = fork
     /\ UNCHANGED <<book, outputs, paid, fees, txVars>>

Filling == phase \in {"batch12", "batch21", "arb"} /\ job.left > 0
Hops == IF phase = "arb" THEN MaxHops + 2 ELSE MaxHops

\* The estimate of a path's price is the product of the best prices of its hops.
BelowPriceLimit(fr) ==
  LET price[n \in 0..Len(fr)] ==
        IF n = 0 THEN One ELSE FpMul(price[n - 1], EffectivePrice(fr[n].id, fr[n].dir[1]))
  IN price[Len(fr)] < One

\* The routes path_search may return: those with a position for every hop and,
\* for arbitrage, at a price below its limit of 1.
AllRoutes ==
  {r \in UNION {[1..n -> Assets] : n \in 2..(MaxHops + 3)} :
     \A n \in 1..(Len(r) - 1) : r[n] # r[n + 1] /\ NewPair(r[n], r[n + 1]) \in Pairs}
RoutesBetween == [ends \in Assets \X Assets |->
                    {r \in AllRoutes : r[1] = ends[1] /\ r[Len(r)] = ends[2]}]
Routes ==
  IF Filling /\ job.from \in Assets /\ job.to \in Assets
  THEN {r \in RoutesBetween[<<job.from, job.to>>] :
          /\ Len(r) <= Hops + 1
          /\ LET fr == Load(book, r)
             IN Len(fr) = Len(r) - 1 /\ (phase = "arb" => BelowPriceLimit(fr))}
  ELSE {}

\* A round of route_and_fill that executes.
FillRound(route, iterations) ==
  /\ Filling
  /\ \E w \in {FillRoute(book, route, job.left, iterations)} :
       IF w.fails
       THEN phase' = "panicked" /\ UNCHANGED <<book, job>>
       ELSE /\ book' = w.book
            /\ job' = [job EXCEPT !.left = w.input, !.out = @ + w.output]
            /\ UNCHANGED phase
  /\ UNCHANGED <<vcb, outputs, paid, fees, flows, fork, txVars>>

\* A round that overflows: its position is closed, and the round leaves nothing.
OverflowRound(route, i) ==
  /\ Filling
  /\ i \in Overflowing \cap Used(Load(book, route))
  /\ book' = ClosePosition(book, i)
  /\ UNCHANGED <<vcb, outputs, paid, fees, flows, job, fork, phase, txVars>>

\* handle_batch_swaps goes on to the other direction.
EndFirstDirection ==
  LET p == NextPair(job.todo)
      filled == Clamped(flows[p][1]) - job.left
  IN /\ phase = "batch12"
     /\ job' = Direction([job EXCEPT !.first = <<flows[p][1] - filled, job.out>>],
                         p[2], p[1], Clamped(flows[p][2]))
     /\ phase' = "batch21"
     /\ UNCHANGED <<book, vcb, outputs, paid, fees, flows, fork, txVars>>

BatchOutput ==
  LET p == NextPair(job.todo)
      filled == Clamped(flows[p][2]) - job.left
  IN [delta |-> flows[p], lambda |-> <<job.out, job.first[2]>>,
      unfilled |-> <<job.first[1], flows[p][2] - filled>>]

\* (Mistake: only what was filled is debited.)
OutflowFilled(o, n) == o.lambda[n]
Outflow(o, n) == o.unfilled[n] + o.lambda[n]

\* F.1: what the fees of asset a are worth, base and tip; the rest is discarded.
FeeShare(o, a, amount) ==
  LET flow == FeeFlow(a, amount)
  IN ProRata(o, flow[1], flow[2])[IF FeePair(a)[1] = a THEN 2 ELSE 1]

ClaimFees(outs) ==
  LET share(a, n) == IF a = StakingToken THEN fees[a][n]
                     ELSE FeeShare(outs[<<height, FeePair(a)>>], a, fees[a][n])
      native(n) == SumFunction([a \in DOMAIN fees |-> share(a, n)])
      claimed(p, n) == SumFunction([a \in AltFees |-> IF FeePair(a) = p /\ p[n] = StakingToken
                                                      THEN share(a, 1) + share(a, 2) ELSE 0])
  IN /\ fees' = IF DOMAIN fees = {} THEN fees ELSE [a \in {StakingToken} |-> <<native(1), native(2)>>]
     /\ paid' = [k \in DOMAIN paid \cup ({height} \X DOMAIN flows) |->
                  IF k \in DOMAIN paid THEN paid[k] ELSE <<claimed(k[2], 1), claimed(k[2], 2)>>]

\* set_output_data, and after the last batch the fees.
EndBatch ==
  LET p == NextPair(job.todo)
      o == BatchOutput
      outs == Put(outputs, <<height, p>>, o)
      rest == job.todo \ {p}
  IN /\ phase = "batch21"
     /\ IF \E n \in 1..2 : Outflow(o, n) > vcb[p[n]]
        THEN phase' = "panicked" /\ UNCHANGED <<vcb, outputs, paid, fees, job, fork>>
        ELSE /\ vcb' = Debit(Debit(vcb, p[1], Outflow(o, 1)), p[2], Outflow(o, 2))
             /\ outputs' = outs
             /\ IF rest # {}
                THEN /\ phase' = "batch12" /\ job' = FirstDirection(rest, flows)
                     /\ UNCHANGED <<paid, fees, fork>>
                ELSE /\ phase' = "arb" /\ job' = ArbJob /\ fork' = book
                     /\ ClaimFees(outs)
     /\ UNCHANGED <<book, flows, txVars>>

\* The arbitrage keeps its fork only if there is a profit.
EndArbitrage ==
  LET profit == job.out + job.left - FlashLoan
  IN /\ phase = "arb"
     /\ book' = IF profit > 0 THEN book ELSE fork
     /\ vcb' = IF profit > 0 /\ profit <= vcb[StakingToken]
               THEN Debit(vcb, StakingToken, profit) ELSE vcb
     /\ job' = NoJob
     /\ fork' = book'
     /\ phase' = "finish"
     /\ UNCHANGED <<outputs, paid, fees, flows, txVars>>

\* evict_positions: in each direction of the pair, the positions with the least
\* inventory, as many as there are too many; those that are in both go.
Overhead(p) == Max({0, book.count[p] - MaxPositionsPerPair})
Worst(dir, n) ==
  LET keys == {k \in book.inventory : k.dir = dir}
      less(k, l) == \/ k.inventory < l.inventory
                    \/ k.inventory = l.inventory /\ k.id < l.id
  IN {k.id : k \in {k \in keys : Cardinality({l \in keys : less(l, k)}) < n}}
\* (Mistake: one too few in each direction.)
EvictedTooFew == UNION {Worst(p, Overhead(p) - 1) \cap Worst(Flip(p), Overhead(p) - 1) : p \in hot}
Evicted == UNION {Worst(p, Overhead(p)) \cap Worst(Flip(p), Overhead(p)) : p \in hot}

CloseAll(b, ids) == FoldSet(LAMBDA i, acc : ClosePosition(acc, i), b, ids)

FinishBlock ==
  LET b == CloseAll(book, Evicted)
  IN /\ phase = "finish"
     /\ IF \A i \in queue : Closable(b, i)
        THEN book' = CloseAll(b, queue) /\ phase' = "epoch"
        ELSE phase' = "panicked" /\ UNCHANGED book
     /\ queue' = {} /\ fork' = book'
     /\ UNCHANGED <<vcb, nft, swaps, outputs, paid, fees, flows, hot, job, txs, height>>

\* The end of an epoch: the funding component rewards positions.
RewardPosition(i, amount) ==
  LET x == book.pos[i]
      new == [x EXCEPT !.r[Slot(i, StakingToken)] = @ + amount]
  IN /\ phase = "epoch" /\ height % EpochDuration = 0
     /\ x.state # "Absent" /\ StakingToken \in {Phi[i].a1, Phi[i].a2}
     /\ ValidTransition(x, new) /\ book' = UpdatePosition(book, i, new)
     /\ vcb' = Credit(vcb, StakingToken, amount)
     /\ phase' = "rewarded"
     /\ UNCHANGED <<outputs, paid, fees, flows, job, fork, txVars>>

\* The objects of the block are gone with it.
BeginBlock ==
  /\ phase \in {"epoch", "rewarded"}
  /\ height' = height + 1 /\ phase' = "txs"
  /\ fees' = <<>> /\ flows' = <<>> /\ hot' = {} /\ fork' = book
  /\ UNCHANGED <<book, vcb, nft, swaps, outputs, paid, queue, job, txs>>

Next ==
  \/ \E i \in Ids : \/ \E r \in InitReserves[i] : PositionOpen(i, r)
                    \/ PositionClose(i) \/ PositionWithdraw(i)
                    \/ \E amount \in Rewards : RewardPosition(i, amount)
  \/ \E s \in Swaps : SwapClaim(s) \/ \E input \in SwapInputs : Swap(s, input)
  \/ \E f \in FeeInputs : PayFee(f)
  \/ StartEndBlock \/ EndFirstDirection \/ EndBatch \/ EndArbitrage \/ FinishBlock
  \/ \E route \in Routes :
       \/ \E k \in 1..(Cardinality(Ids) + 1) : FillRound(route, k)
       \/ \E i \in Ids : OverflowRound(route, i)
  \/ BeginBlock

Spec == Init /\ [][Next]_vars

-----------------------------------------------------------------------------
(* Properties                                                               *)

Reserves(a) ==
  SumFunction([i \in Ids |-> IF a \in {Phi[i].a1, Phi[i].a2} THEN book.pos[i].r[Slot(i, a)] ELSE 0])
Worth(i, r) == Phi[i].p * r[1] + Phi[i].q * r[2]
PendingFlow(a) ==
  SumFunction([p \in DOMAIN flows |->
                 IF p[1] = a THEN flows[p][1] ELSE IF p[2] = a THEN flows[p][2] ELSE 0])

\* The circuit breaker holds, of every asset, exactly the reserves of all
\* positions, in whatever state, and the swap flows not yet executed: fills,
\* discarded arbitrage, rewards and withdrawals neither create nor lose value,
\* and no debit of it ever underflows.
DexSolvent ==
  /\ phase = "txs" => \A a \in Assets : vcb[a] = Reserves(a) + PendingFlow(a)
  /\ phase \in {"epoch", "rewarded"} => \A a \in Assets : vcb[a] = Reserves(a)

\* Whatever path a position took, the indexes that update_position maintains
\* hold exactly the positions that are open, as they are: routing finds each of
\* them, with its current reserves, and no other; eviction ranks each of them by
\* what it holds; and the counter of a pair is their number.
IndexesExact ==
  LET open == {i \in Ids : book.pos[i].state = "Opened"}
  IN /\ book.inventory = UNION {InventoryKeys(i, book.pos[i]) : i \in open}
     /\ book.price = UNION {PriceEntries(i, book.pos[i]) : i \in open}
     /\ \A p \in Pairs : book.count[p] = Cardinality({i \in open : PairOf(i) = p})

\* After a block no pair has more than 2 * N_max open positions, the maximum
\* that the comment of evict_positions gives.
CrowdingBounded ==
  phase \in {"epoch", "rewarded"} => \A p \in Pairs : book.count[p] <= 2 * MaxPositionsPerPair

\* A position has sold asset n of its pair, for the other asset, m: it has got
\* what its trading function asks for, p * r1 + q * r2 as before or more, but
\* for what truncating the price may take off, less than one unit of asset m as
\* long as it sold less than One of asset n, and nothing as long as that,
\* times the coefficient of m, is less than One.
Sold(i, old, new, n) ==
  LET m == 3 - n
      coefficient == IF m = 1 THEN Phi[i].p ELSE Phi[i].q
  IN /\ new[n] <= old[n] /\ new[m] >= old[m]
     /\ One * Worth(i, old) <= One * Worth(i, new) + coefficient * (old[n] - new[n])

\* No fill takes from a position more than its trading function allows: along
\* any route, constrained at any hop and rounded at every hop, a round trades
\* with every position in one direction and at its price, and what it does not
\* pay of it is bounded by the precision of a U128x128.
FillFavoursPositions ==
  \A i \in Ids : \E n \in 1..2 : Sold(i, book.pos[i].r, book'.pos[i].r, n)
FillsFavourPositions == [][Filling /\ phase' = phase => FillFavoursPositions]_vars

\* All that the claims of a batch and the fee component take out of it is
\* covered by what left the circuit breaker for that batch.
ClaimsCovered ==
  \A k \in DOMAIN paid : \A n \in 1..2 :
    paid[k][n] <= outputs[k].unfilled[n] + outputs[k].lambda[n]

\* The LPNFT in circulation agrees with the state of its position: an owner who
\* closed it has a closed position or one that this block will close, who has
\* withdrawn from it holds the NFT of the last withdrawal, and close_on_fill,
\* overflow and eviction take neither away.  The end of a block never panics.
LpnftsMatch ==
  /\ phase # "panicked"
  /\ \A i \in Ids : LET x == book.pos[i] IN
       \/ nft[i] = NoNft /\ x.state = "Absent"
       \/ nft[i] = OpenedNft /\ x.state \in {"Opened", "Closed"}
       \/ nft[i] = ClosedNft /\ (x.state = "Closed" \/ (x.state = "Opened" /\ i \in queue))
       \/ nft[i] >= 0 /\ x.state = "Withdrawn" /\ x.seq = nft[i]
=============================================================================

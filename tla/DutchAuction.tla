---------------------------- MODULE DutchAuction ----------------------------
(***************************************************************************)
(* The auction component: Dutch auctions that sell an input asset through  *)
(* a liquidity position whose price steps down at every trigger height     *)
(* (dutch_auction.rs, trigger_data.rs, auction.rs), and the part of the    *)
(* DEX they drive: the positions they open, close and withdraw             *)
(* (position_manager.rs) and the trades that fill them                     *)
(* (trading_function.rs).                                                  *)
(*                                                                         *)
(* An auction id is the hash of an immutable description, so the           *)
(* descriptions are a constant function of the ids.  A block is any number *)
(* of transactions, then Auction::end_block (one Execute per due trigger), *)
(* then Dex::end_block.  Prices are exact rationals: the 2^-128 fixed      *)
(* point error of U128x128 is left out.                                    *)
(***************************************************************************)
EXTENDS Integers, FiniteSets, Functions

CONSTANTS
  Auction,       \* auction ids
  Asset,         \* asset ids
  Description,   \* the DutchAuctionDescription behind each id
  DexSettings,   \* values governance may give DexParameters::is_enabled
  WithdrawSeqs,  \* sequence numbers clients put in withdraw actions
  Takers,        \* trades against a position: n > 0 pays n of the output
                 \* asset into it, n < 0 pays -n of the input asset, 0 is none
  MaxOccupied,   \* bound on the position ids other users take
  MaxHeight,     \* bound on the heights explored
  NoPosition     \* current_position = None

\* check_stateless of the schedule action.
WellFormed(d) ==
  /\ d.input \in Asset /\ d.output \in Asset /\ d.input # d.output
  /\ d.amount \in Nat \ {0}
  /\ d.max_output \in Nat /\ d.min_output \in Nat \ {0}
  /\ d.max_output > d.min_output
  /\ d.start_height \in Nat /\ d.end_height \in Nat
  /\ d.start_height < d.end_height
  /\ d.step_count \in 2 .. 255
  /\ (d.end_height - d.start_height) % d.step_count = 0

ASSUME DescriptionAssumption ==
  /\ IsFiniteSet(Auction)
  /\ DOMAIN Description = Auction
  /\ \A a \in Auction : WellFormed(Description[a])
ASSUME SettingsAssumption == TRUE \in DexSettings /\ DexSettings \subseteq BOOLEAN
ASSUME InputsAssumption ==
  /\ Takers \subseteq Int /\ 0 \in Takers
  /\ WithdrawSeqs \subseteq Nat \ {0}
  /\ MaxOccupied \in Nat /\ MaxHeight \in Nat

Attempts == 0 .. MaxOccupied

\* A position id is the hash of the nonce (of the auction nonce, the step index
\* and the attempt counter), the pair and the price, all fixed by the three.
PositionId ==
  UNION {{a} \X (0 .. Description[a].step_count - 1) \X Attempts : a \in Auction}

ASSUME AbsentAssumption == NoPosition \notin PositionId

VARIABLES
  auction,     \* DutchAuctionState by id, with sequence -1 when unscheduled
  triggers,    \* auction/dutch/trigger/{height}/{id} entries
  vcb,         \* the auction component's value balance, by asset
  positions,   \* positions the auctions opened, as the DEX stores them
  occupied,    \* position ids taken by positions of other users
  nft,         \* sequence of the auction NFT in circulation, -1 if none
  paid,        \* what withdrawals released to the seller, per auction
  dexEnabled,  \* DexParameters::is_enabled
  height, phase,
  stranded,    \* history: input taken out of an auction for no position
  abandoned    \* history: auctions that were withdrawn while open

vars == <<auction, triggers, vcb, positions, occupied, nft, paid,
          dexEnabled, height, phase, stranded, abandoned>>

--------------------------------------------------------------------------
(* TriggerData *)

StepSize(d) == (d.end_height - d.start_height) \div d.step_count

DistanceFromStart(d, h) == IF h > d.start_height THEN h - d.start_height ELSE 0

StepIndex(d, h) == DistanceFromStart(d, h) \div StepSize(d)

NextTriggerHeight(d, h) ==
  d.start_height + StepSize(d) * (StepIndex(d, h) + 1)

--------------------------------------------------------------------------
(* Prices and trades *)

\* compute_pq_at_step: q of the input asset is worth p of the output asset.
Price(d, step) ==
  [p |-> (d.step_count - step - 1) * d.max_output + step * d.min_output,
   q |-> (d.step_count - 1) * d.amount]

CeilDiv(n, m) == (n + m - 1) \div m

\* (Mistake: the output of a partial fill is rounded up.)
FillRoundedUp(lp, pay, q, p) ==
  IF pay * q <= lp.give * p
  THEN [give |-> lp.give - CeilDiv(pay * q, p), take |-> lp.take + pay]
  ELSE [give |-> 0, take |-> lp.take + CeilDiv(lp.give * p, q)]

\* BareTradingFunction::fill with no fee.  The reserves lp.give are sold for
\* lp.take at q for p: either the whole payment is used and the output rounded
\* down, or the reserves are exhausted and the payment rounded up.
Fill(lp, pay, q, p) ==
  IF pay * q <= lp.give * p
  THEN [give |-> lp.give - (pay * q) \div p, take |-> lp.take + pay]
  ELSE [give |-> 0, take |-> lp.take + CeilDiv(lp.give * p, q)]

\* position_execution of one trade on a close_on_fill position; an execution
\* that changes no reserves is skipped.
Executed(id, n) ==
  LET lp == positions[id]
      price == Price(Description[id[1]], id[2])
      sale == Fill([give |-> lp.r1, take |-> lp.r2], n, price.q, price.p)
      resale == Fill([give |-> lp.r2, take |-> lp.r1], -n, price.p, price.q)
      r1 == IF n > 0 THEN sale.give ELSE resale.take
      r2 == IF n > 0 THEN sale.take ELSE resale.give
  IN  IF r1 = lp.r1 /\ r2 = lp.r2 THEN lp
      ELSE [state |-> IF r1 = 0 \/ r2 = 0 THEN "Closed" ELSE "Opened",
            r1 |-> r1, r2 |-> r2]

--------------------------------------------------------------------------
(* Value balance and positions *)

Credit(balance, asset, amount) == [balance EXCEPT ![asset] = @ + amount]
Debit(balance, asset, amount) == [balance EXCEPT ![asset] = @ - amount]

NoPositionYet == [state |-> "Absent", r1 |-> 0, r2 |-> 0]

Exists(id) == id \in occupied \/ positions[id].state # "Absent"

Live(id) == positions[id].state \in {"Opened", "Closed"}

\* The reserves recovered by closing and withdrawing the current position.
Inflow(a) ==
  IF auction[a].position = NoPosition
  THEN [r1 |-> 0, r2 |-> 0]
  ELSE [r1 |-> positions[auction[a].position].r1,
        r2 |-> positions[auction[a].position].r2]

\* (Mistake: close_position_by_id without withdraw_position.)
PositionsClosedOnly(a) ==
  IF auction[a].position = NoPosition
  THEN positions
  ELSE [positions EXCEPT ![auction[a].position].state = "Closed"]

\* close_position_by_id, then withdraw_position with sequence 0.
PositionsRecovered(a) ==
  IF auction[a].position = NoPosition
  THEN positions
  ELSE [positions EXCEPT ![auction[a].position] =
          [state |-> "Withdrawn", r1 |-> 0, r2 |-> 0]]

VcbRecovered(a) ==
  Credit(Credit(vcb, Description[a].input, Inflow(a).r1),
         Description[a].output, Inflow(a).r2)

\* The loop of allocate_position: the first attempt whose id is unused.
FreshId(a, step) ==
  LET free == {n \in Attempts : ~ Exists(<<a, step, n>>)}
  IN  <<a, step, CHOOSE n \in free : \A m \in free : n <= m>>

--------------------------------------------------------------------------
(* The life of an auction *)

Unscheduled ==
  [sequence |-> -1, position |-> NoPosition, next_trigger |-> 0,
   input_reserves |-> 0, output_reserves |-> 0]

Init ==
  /\ auction = [a \in Auction |-> Unscheduled]
  /\ triggers = {}
  /\ vcb = [x \in Asset |-> 0]
  /\ positions = [id \in PositionId |-> NoPositionYet]
  /\ occupied = {}
  /\ nft = [a \in Auction |-> -1]
  /\ paid = [a \in Auction |-> [input |-> 0, output |-> 0]]
  /\ dexEnabled = TRUE
  /\ height = 0
  /\ phase = "deliver"
  /\ stranded = [a \in Auction |-> 0]
  /\ abandoned = {}

Schedule(a) ==
  LET d == Description[a]
      next == NextTriggerHeight(d, height)
  IN
  /\ phase = "deliver"
  /\ d.start_height > height
  /\ auction[a].sequence = -1
  /\ auction' = [auction EXCEPT ![a] =
       [sequence |-> 0, position |-> NoPosition, next_trigger |-> next,
        input_reserves |-> d.amount, output_reserves |-> 0]]
  /\ vcb' = Credit(vcb, d.input, d.amount)
  /\ triggers' = triggers \cup {<<a, next>>}
  /\ nft' = [nft EXCEPT ![a] = 0]
  /\ UNCHANGED <<positions, occupied, paid, dexEnabled, height, phase, stranded,
                 abandoned>>

\* (Mistake: end_auction leaves the trigger entry behind.)
UnsetNothing(a) == triggers

UnsetTrigger(a) == triggers \ {<<a, auction[a].next_trigger>>}

\* end_auction leaves an auction that is already closed as it is; the action
\* still exchanges the NFT of the opened auction for that of the closed one.
End(a) ==
  /\ phase = "deliver"
  /\ auction[a].sequence \in {0, 1}
  /\ nft[a] = 0
  /\ nft' = [nft EXCEPT ![a] = 1]
  /\ \/ /\ auction[a].sequence = 1
        /\ UNCHANGED <<auction, triggers, vcb, positions>>
     \/ /\ auction[a].sequence = 0
        /\ auction' = [auction EXCEPT ![a] =
             [sequence |-> 1, position |-> NoPosition, next_trigger |-> 0,
              input_reserves |-> @.input_reserves + Inflow(a).r1,
              output_reserves |-> @.output_reserves + Inflow(a).r2]]
        /\ vcb' = VcbRecovered(a)
        /\ positions' = PositionsRecovered(a)
        /\ triggers' = UnsetTrigger(a)
  /\ UNCHANGED <<occupied, paid, dexEnabled, height, phase, stranded, abandoned>>

\* (Mistake: withdraw_auction forgets to zero the output reserves.)
WithdrawnKeepsOutput(a, seq) ==
  [auction[a] EXCEPT !.sequence = seq, !.position = NoPosition,
                     !.next_trigger = 0, !.input_reserves = 0]

Withdrawn(a, seq) ==
  [auction[a] EXCEPT !.sequence = seq, !.position = NoPosition,
                     !.next_trigger = 0, !.input_reserves = 0,
                     !.output_reserves = 0]

\* The NFT with sequence seq - 1 is spent and that with seq is minted.  An open
\* auction may be withdrawn too, with seq = 1: the auction forgets its position
\* and its trigger, but the position stays open and the trigger entry stored.
Withdraw(a, seq) ==
  LET d == Description[a]
      old == auction[a]
  IN
  /\ phase = "deliver"
  /\ old.sequence >= 0
  /\ seq = old.sequence + 1
  /\ nft[a] = seq - 1
  /\ vcb[d.input] >= old.input_reserves
  /\ vcb[d.output] >= old.output_reserves
  /\ vcb' = Debit(Debit(vcb, d.input, old.input_reserves),
                  d.output, old.output_reserves)
  /\ auction' = [auction EXCEPT ![a] = Withdrawn(a, seq)]
  /\ nft' = [nft EXCEPT ![a] = seq]
  /\ paid' = [paid EXCEPT ![a] = [input |-> @.input + old.input_reserves,
                                  output |-> @.output + old.output_reserves]]
  /\ abandoned' = IF old.sequence = 0 THEN abandoned \cup {a} ELSE abandoned
  /\ UNCHANGED <<triggers, positions, occupied, dexEnabled, height, phase, stranded>>

\* (Mistake: the auction is not registered for its next step.)
SetTriggerForgotten(a, next) == triggers \ {<<a, height>>}

SetTrigger(a, next) == (triggers \ {<<a, height>>}) \cup {<<a, next>>}

Expired(d, h) == StepIndex(d, h) >= d.step_count

\* allocate_position moves the input reserves out of the value balance into a
\* new position.  While the DEX is disabled it opens none, but the reserves
\* have already been taken out of the auction's state.
Allocate(a, step, reserves) ==
  LET id == FreshId(a, step)
      d == Description[a]
  IN
  \/ /\ dexEnabled
     /\ vcb' = Debit(VcbRecovered(a), d.input, reserves)
     /\ positions' = [PositionsRecovered(a) EXCEPT ![id] =
                        [state |-> "Opened", r1 |-> reserves, r2 |-> 0]]
     /\ auction' = [auction EXCEPT ![a] =
          [@ EXCEPT !.position = id, !.input_reserves = 0,
                    !.output_reserves = auction[a].output_reserves + Inflow(a).r2,
                    !.next_trigger = NextTriggerHeight(d, height)]]
     /\ UNCHANGED stranded
  \/ /\ ~ dexEnabled
     /\ vcb' = VcbRecovered(a)
     /\ positions' = PositionsRecovered(a)
     /\ auction' = [auction EXCEPT ![a] =
          [@ EXCEPT !.position = NoPosition, !.input_reserves = 0,
                    !.output_reserves = auction[a].output_reserves + Inflow(a).r2,
                    !.next_trigger = NextTriggerHeight(d, height)]]
     /\ stranded' = [stranded EXCEPT ![a] = @ + reserves]

\* execute_dutch_auction, for a trigger of the current height.  An auction that
\* was withdrawn while open has no input left: its sequence is set to 1 again.
Execute(a) ==
  LET d == Description[a]
      input == auction[a].input_reserves + Inflow(a).r1
      output == auction[a].output_reserves + Inflow(a).r2
      done == Expired(d, height) \/ input = 0
  IN
  /\ phase = "triggers"
  /\ <<a, height>> \in triggers
  /\ \/ /\ done
        /\ auction' = [auction EXCEPT ![a] =
             [sequence |-> 1, position |-> NoPosition, next_trigger |-> 0,
              input_reserves |-> input, output_reserves |-> output]]
        /\ vcb' = VcbRecovered(a)
        /\ positions' = PositionsRecovered(a)
        /\ triggers' = triggers \ {<<a, height>>}
        /\ UNCHANGED stranded
     \/ /\ ~ done
        /\ Allocate(a, StepIndex(d, height), input)
        /\ triggers' = SetTrigger(a, NextTriggerHeight(d, height))
  /\ UNCHANGED <<occupied, nft, paid, dexEnabled, height, phase, abandoned>>

--------------------------------------------------------------------------
(* The rest of the chain *)

\* Another user opens a position under an id an auction would have used.
Occupy(id) ==
  /\ phase = "deliver"
  /\ dexEnabled
  /\ Cardinality(occupied) < MaxOccupied
  /\ ~ Exists(id)
  /\ occupied' = occupied \cup {id}
  /\ UNCHANGED <<auction, triggers, vcb, positions, nft, paid, dexEnabled,
                 height, phase, stranded, abandoned>>

\* A governance proposal changes the DEX parameters.
SwitchDex(on) ==
  /\ phase = "deliver"
  /\ dexEnabled # on
  /\ dexEnabled' = on
  /\ UNCHANGED <<auction, triggers, vcb, positions, occupied, nft, paid,
                 height, phase, stranded, abandoned>>

\* The transactions of the block are over.
EndTransactions ==
  /\ phase = "deliver"
  /\ phase' = "triggers"
  /\ UNCHANGED <<auction, triggers, vcb, positions, occupied, nft, paid,
                 dexEnabled, height, stranded, abandoned>>

OpenPositions == {id \in PositionId : positions[id].state = "Opened"}

\* The batch swaps and the arbitrage of the block trade with the open positions,
\* at most once with each (the bound on trades); the swaps of non-native fees
\* and the arbitrage do not look at is_enabled.
DexEndBlock(taker) ==
  /\ phase = "triggers"
  /\ \A a \in Auction : <<a, height>> \notin triggers
  /\ height < MaxHeight
  /\ positions' = [id \in PositionId |->
       IF id \in OpenPositions /\ taker[id] # 0
       THEN Executed(id, taker[id]) ELSE positions[id]]
  /\ height' = height + 1
  /\ phase' = "deliver"
  /\ UNCHANGED <<auction, triggers, vcb, occupied, nft, paid, dexEnabled, stranded,
                 abandoned>>

Next ==
  \/ \E a \in Auction :
       \/ Schedule(a)
       \/ End(a)
       \/ \E seq \in WithdrawSeqs : Withdraw(a, seq)
       \/ Execute(a)
  \/ \E a \in Auction, n \in Attempts :
       \E step \in 1 .. Description[a].step_count - 1 : Occupy(<<a, step, n>>)
  \/ \E on \in DexSettings : SwitchDex(on)
  \/ EndTransactions
  \/ \E taker \in [OpenPositions -> Takers] : DexEndBlock(taker)

Spec == Init /\ [][Next]_vars

\* CometBFT keeps producing blocks: the end-block hooks run to completion.
Fairness ==
  /\ WF_vars(EndTransactions)
  /\ WF_vars(\E a \in Auction : Execute(a))
  /\ WF_vars(\E taker \in [OpenPositions -> Takers] : DexEndBlock(taker))

FairSpec == Spec /\ Fairness

--------------------------------------------------------------------------
(* Properties *)

\* The stored auctions, entries and balances have the types the code gives
\* them; in particular no balance of the circuit breaker is negative.
TypeOK ==
  /\ auction \in [Auction ->
       [sequence : Int, position : PositionId \cup {NoPosition},
        next_trigger : Nat, input_reserves : Nat, output_reserves : Nat]]
  /\ triggers \subseteq Auction \X Nat
  /\ vcb \in [Asset -> Nat]
  /\ positions \in [PositionId ->
       [state : {"Absent", "Opened", "Closed", "Withdrawn"},
        r1 : Nat, r2 : Nat]]
  /\ occupied \subseteq PositionId
  /\ nft \in [Auction -> Int]
  /\ paid \in [Auction -> [input : Nat, output : Nat]]
  /\ dexEnabled \in BOOLEAN
  /\ stranded \in [Auction -> Nat]
  /\ abandoned \subseteq Auction
  /\ height \in Nat
  /\ phase \in {"deliver", "triggers"}

PositionsOf(a) == {id \in PositionId : id[1] = a}

InputIn(ids) == SumFunctionOnSet([id \in ids |-> positions[id].r1], ids)
OutputIn(ids) == SumFunctionOnSet([id \in ids |-> positions[id].r2], ids)

\* The seller's reserve price: whatever part of the input was sold (is not in
\* the auction, in its positions, paid out, or stranded by a trigger that fired
\* while the DEX was disabled) brought in at least min_output pro rata, over
\* all the steps, recoveries and withdrawals.
ReservePrice ==
  \A a \in Auction : auction[a].sequence >= 0 =>
    LET d == Description[a]
        kept == auction[a].input_reserves + InputIn(PositionsOf(a)) + paid[a].input
                + stranded[a]
        got == auction[a].output_reserves + OutputIn(PositionsOf(a)) + paid[a].output
    IN  got * d.amount >= d.min_output * (d.amount - kept)

Sellers(x) == {a \in Auction : Description[a].input = x}
Buyers(x) == {a \in Auction : Description[a].output = x}

ReservesOf(x) ==
  SumFunctionOnSet([a \in Auction |-> auction[a].input_reserves], Sellers(x))
  + SumFunctionOnSet([a \in Auction |-> auction[a].output_reserves], Buyers(x))

StrandedOf(x) == SumFunctionOnSet(stranded, Sellers(x))

\* The value circuit breaker tracks exactly what the auctions own directly, and
\* what a disabled DEX has stranded: every inflow and outflow is recorded once,
\* so it never stands in the way of a withdrawal or a new position (whose debit
\* is unwrapped with expect).
VcbExact == \A x \in Asset : vcb[x] = ReservesOf(x) + StrandedOf(x)

\* An open auction waits for exactly the trigger it records, and no other
\* auction waits for one, except that the last trigger of an auction that was
\* withdrawn while open is left to fire, on an auction with nothing in it.  No
\* trigger has been missed.
TriggersExact ==
  /\ \A a \in Auction :
       auction[a].sequence = 0 => <<a, auction[a].next_trigger>> \in triggers
  /\ \A t \in triggers :
       /\ \/ auction[t[1]].sequence = 0 /\ t[2] = auction[t[1]].next_trigger
          \/ t[1] \in abandoned
       /\ t[2] >= height /\ t[2] <= Description[t[1]].end_height
       /\ \A u \in triggers : u[1] = t[1] => u = t
  /\ \A a \in abandoned :
       /\ auction[a].sequence >= 1
       /\ auction[a].input_reserves = 0 /\ auction[a].output_reserves = 0

\* An auction has at most one position that holds funds, and knows it: a closed
\* or withdrawn auction has left nothing in the DEX, unless it was withdrawn
\* while open, when its position is left behind.  No such position has the id of
\* another user's, with which open_position would fail inside an expect and stop
\* the chain.
PositionsTracked ==
  LET live == {id \in PositionId : Live(id)}
  IN  /\ \A id \in live : auction[id[1]].position = id \/ id[1] \in abandoned
      /\ \A id, other \in live : id[1] = other[1] => id = other
      /\ \A a \in Auction : auction[a].position # NoPosition =>
           auction[a].sequence = 0 /\ auction[a].position \in live
      /\ live \cap occupied = {}

\* Every scheduled auction closes, with no help from its seller, once the
\* chain has passed its end height.
EventuallyClosed ==
  \A a \in Auction :
    (auction[a].sequence = 0 /\ Description[a].end_height <= MaxHeight)
      ~> auction[a].sequence >= 1
=============================================================================

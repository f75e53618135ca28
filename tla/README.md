# TLA+ models of Penumbra

Penumbra is a shielded proof-of-stake chain. Its node, `pd`, is an ABCI application: CometBFT
orders transactions into blocks and calls the application, which executes each block against a
versioned store, component by component. This directory holds TLA+ models of the parts of that
application that carry its own protocol logic, the TLC configurations that check them on small
instances, two abstract specifications, a ledger and a chain, that two of them are shown to implement, and TLAPS proofs about all of these modules.
Paths below are relative to `src/`.

`PROJECT.json` lists, for every definition that models code, the lines it models; the runs; and for
every property of a passing run a mutant, that is a mistake in one mapped definition that makes TLC
find the property violated. In the modules the mistaken operators stand right before the definition
they replace and are marked `(Mistake: ...)` or `Mutant: ...`; nothing else uses them.

To check one run: `tlc -workers 2 -config MCX.cfg MCY`. To check the proofs of a
component: `tlapm X_proofs.tla` (`Dex_proofs` takes about ten minutes from nothing), and `tlapm SumTheorems.tla` for the lemmas that they share.

## 1. The system

A block goes through `App` (`crates/core/app/src/app/mod.rs`): `begin_block` of each component (the
SCT component writes the height, staking processes evidence and uptime, governance applies parameter
changes and community pool spends), `deliver_tx` for each transaction, `end_block` of each component
(auction, then DEX, then governance, ...), `end_epoch` of each when the epoch ends, then `commit`. All of
it runs in one task under exclusive access to the state, so within one node each ABCI call is atomic;
concurrency is between nodes, between `pd` and its CometBFT process, and between the many independent
users whose transactions interleave.

| Component | State | Operations | Hard behaviour | Module |
|---|---|---|---|---|
| staking: validator lifecycle | definitions, states, bonding states, consensus set index, key registry | definition upload, evidence, jailing, delegation, end of epoch, validator updates | many paths to each state; updates to CometBFT; early epoch ends; key rotation and late evidence | `ValidatorManager` |
| staking: uptime | a ring buffer per validator | mark a height, count misses, jail | wrap-around; CometBFT follows two blocks late; key rotation | `UptimeTracker` |
| staking: pools | rates, pool sizes, penalties, unbonding tokens | delegate, undelegate, claim, end of epoch, tournament deposit | rounding, penalties against unbonding, epochs that end early | `DelegationPool` |
| governance | proposals, votes, tallies, snapshots, deposits | submit, withdraw, validator and delegator vote, sweep, tally, enact, claim | stake that moves while it votes; early and late conclusion; effects for the next block | `Governance` |
| auction | auctions, triggers, value balance | schedule, end, withdraw, trigger | triggers by height; value moved between auction and DEX; position ids others may take | `DutchAuction` |
| node lifecycle | store, halt bit, next upgrade, CometBFT data | execute, commit, exit, crash, start, migrate | halts and crashes between any two steps; several nodes; a migration in three parts | `ChainUpgrade` |
| dex | positions, indexes, batch swaps, fees, value balance | open, close, withdraw, swap, claim, pay a fee, fill, arbitrage, evict, reward | indexes in step with positions; rounding along a route; work that is discarded; closures queued to the end of the block | `Dex` |
| ibc | client heights, packets, receipts, escrow | withdraw, update a client, receive, acknowledge, time out | relayers that lose, repeat, delay and reorder; proofs at any verified height; refund once | `Ics20` |
| shielded pool, SCT, compact blocks; view service | notes, nullifiers, roots; the wallet's tree and SQLite | mint, spend, finish a block; stream, scan, record, restart | double spends; an error between two steps; what a crash forgets | `ViewSync` |
| the two together | a wallet that sends its notes over IBC | all of the above | who holds what while all of it interleaves | `Wallet`, against `TransferLedger` |
| custody | signing rounds | threshold signing | lost rounds | planned |
| community pool, fees, distributions, funding | balances, prices | deposits, issuance, rewards | sums over other components | fees in `Dex`, the rest not |
| transactions, keys, numbers, rpc, indexers, tools | - | - | no protocol state machine | not modelled |

How they interact: governance sets the halt bit and the upgrade height that `ChainUpgrade` acts on, and
the DEX parameter that `DutchAuction` reads. Staking gives governance the voting powers and asks `App`
for early epoch ends. `UptimeTracker` decides the jailings that `ValidatorManager` takes as a choice,
and `ValidatorManager` decides the state changes that `DelegationPool` and `UptimeTracker` take as one.
The DEX fills the positions that `DutchAuction` opens, which takes the outcome of a block as a choice; fees become
swaps in `Dex`; a withdrawal over IBC spends a note of the shielded pool and a refund mints one, which `Wallet`
composes. Each module says in its header what it leaves to another.

## 2. The modules

**ValidatorManager** (`stake/src/component/validator_handler/validator_manager.rs`, `epoch_handler.rs`,
`stake.rs`, the definition, delegate and undelegate handlers). One record per validator, `val[v]`, gathers
what the code keeps under several state keys (definition, state, bonding state, uptime, index entry, last
disabled height). Actions: `BeginBlock` (evidence, uptime), `UploadDefinition` (`add_validator` or
`update_validator_definition`), `Delegate`, `Undelegate`, `EndBlock`, `EndEpoch` (process every touched or
indexed validator, choose the active set, build the CometBFT update) and `EndEpochPanics`.
`set_validator_state_inner` is the operator `Transition`, used by all of them as in the code. Amounts are
reduced to the voting power that end-epoch processing finds, any member of `Stakes`. `comet` and
`reported` are external: CometBFT's validator set, and for whom it last received each key. Genesis validators are enabled and
have a nonzero allocation.

**UptimeTracker** (`stake/src/uptime.rs`, `uptime_tracker.rs`). One validator, since validators do not
affect each other's records. `cometSets` holds CometBFT's sets of the previous, current and next height:
an update returned at height h is in force from h + 2, an external fact about CometBFT. `missed`,
`absent`, `entered` and `rotations` are history: the blocks charged, those the validator was asked to sign and did not, and
the heights at which it became active and at which it has rotated its key since.

**DelegationPool** (`rate.rs`, `penalty.rs`, `delegate.rs`, `undelegate.rs`, `undelegate_claim.rs`,
`validator_store.rs`, `epoch_handler.rs`). One validator's pool with all delegators together. Rates and
penalties are fixed-point integers with the code's truncation, at scale 8 in place of 10^8, so that every
rounding happens with amounts of a few units; a downtime penalty keeps 5/8, misbehaviour 4/8.
`Redefine` is what a new definition does to the validator's state: enabled or disabled, and a jailed validator may be
disabled as well as released. Whether the validator is selected at the end of an epoch is a free choice. `staked`, `claimed`, `lastActive`,
`rewarded` and `late` are history.

**Governance** (`governance/src/component/view.rs`, `component.rs`, `tally.rs`, the action handlers, and
`app/src/action_handler/actions/submit.rs`). Delegators vote with notes, which are also created and spent by
`DelegateNote` and `TransferNote`. A delegator's proof is taken to establish what the circuit states:
the note existed at the start of the proposal, and its nullifier is revealed. All notes hold one unit and rates are 1;
a validator's power changes at the end of an epoch only. The sweep visits votes in the order of their
keys, which is the order of the notes. A payload is its kind: an emergency proposal may halt the chain (`halt`) or not (`emergency`).

**DutchAuction** (`auction/src/component/dutch_auction.rs`, `trigger_data.rs`, `auction.rs`,
`auction_store.rs`, the action handlers; of the DEX what they call). A description is a constant per
auction id, as the id is its hash. `Execute` is one due trigger; `DexEndBlock` is external: in each
block an open position is traded against once, in either direction, or not at all. A fill rounds its output down and
its input up to units, as in the code, at an exact price: the truncation of the price to a `U128x128`, which `Dex` has, is left out here, so
`ReservePrice` speaks of trades too small for it to show. A withdrawal is accepted of an open auction too, with sequence number 1: it forgets the
position and the trigger and leaves both where they are. `stranded` and `abandoned` are history: input that a trigger took out of
an auction while the DEX was disabled, and the auctions that were withdrawn while open.

**ChainUpgrade** (`app/src/app/mod.rs`, `app/src/server/consensus.rs`, `app/src/app_version/component.rs`,
`bin/pd/src/main.rs`, `migrate.rs`, `migrate/mainnet4.rs`, `migrate/reset_halt_bit.rs`). Every node is a `pd`
process with its store and a CometBFT data directory. A node executes a block in memory (`Execute`), commits
it (`Commit`), and CometBFT records the answer (`CommitAnswered`): a crash may come between any two.
A halted node exits two seconds after its commit (`Exit`) or when asked to propose
(`PrepareProposalHalted`). A migration is `MigrateState`, `WriteGenesis`, `MigrateComet` and may be killed
in between. `Decide` is external and atomic: a quorum of the same network, at the same height, decides one
block. There are two versions of the software. `lifted` is history. **UpgradableChain** is the abstract specification: one
sequence of blocks and each node's copy of it, without processes, halt bits, watermarks or migrations.
`ChainUpgrade!ChainImplemented` is the refinement: the chain is the decided blocks in order of height, the copies are the
blocks behind each node's root hash, and a node is resumed when its halt has been lifted. The mapping has no block for
a height that was skipped or decided twice, so that neither can pass.

**Dex** (`dex/src/component`: `position_manager.rs` and its indexes, `action_handler`, `swap_manager.rs`,
`router/route_and_fill.rs`, `router/fill_route.rs`, `arb.rs`, `eviction_manager.rs`, `circuit_breaker`, `dex.rs`;
`batch_swap_output_data.rs`, `lp`; the fee component's `pay_fee`). `book` holds the positions with the inventory index, the price index and
the counters of pairs, all changed by `UpdatePosition` alone, as in the code. A transaction is one action
(`PositionOpen`, `PositionClose`, `PositionWithdraw`, `Swap`, `SwapClaim`, `PayFee`); `end_block` is the chain of stages
`StartEndBlock`, then for each pair `FillRound`s in both directions and `EndBatch`, then arbitrage on a copy of the
book (`fork`) that `EndArbitrage` keeps or drops, then `FinishBlock` (eviction, queued closures), and at the end of an
epoch `RewardPosition`. `FillRoute` is the filling loop: load a frontier of best positions, find the constraining
hop, fill backward and forward, write out and replace the exhausted positions. Which route
`path_search` returns and after how many iterations a spill price or the execution budget stops a round
are free choices; arbitrage keeps its price limit. An overflow may hit the positions in `Overflowing` and
closes them. A price is what `effective_price` computes: a fixed-point number, in units of `1 / One`, truncated at the quotient of the
coefficients, at gamma (the price less the position's fee) and at their product or quotient. `One` stands for 2^128. It decides what a position sells and
asks (`Fits`, `FillOut`, `FillIn`), the order of the price index and where arbitrage stops; only then are amounts rounded, output down
and input up. Test `fill_bad_rounding` of `trading_function.rs`, where 100 units at 12/10 bring 119 and not 120, is this truncation. `paid` is history. A failed `expect` or `assert` of
the filling code is the phase `panicked`.

**Ics20** (`ibc/src/component/msg_handler/{recv_packet,acknowledgement,timeout,update_client}.rs`, `packet.rs`,
`client.rs`, `shielded-pool/src/component/transfer.rs`, the withdrawal's action handler). Two chains that both run
this code, on an open unordered channel. Nothing models a message in flight: a handler needs a proof against a height
that its light client has verified, so a relayer that loses, repeats, delays or reorders is one that chooses
when to call which handler with which verified height. A packet's record holds the heights at which its
commitment, receipt and acknowledgement were written or deleted, from which `ProvesCommitment` and
`ProvesReceipt` read what a proof at a height can show. Headers have even times, so that a timeout may lie strictly between two. `refunded` and `timely` are history.

**ViewSync** (`shielded-pool` note manager, `sct/src/component/tree.rs`, `compact-block/src/component`;
`view/src/{worker,sync,storage,service}.rs`). The chain side mints notes, takes nullifiers and publishes compact
blocks; the worker syncs in the steps between which it may fail: `ScanBlock` (into the shared in-memory tree), `Record`
(one SQLite transaction, or only a height in memory for an empty block), `Error` (sync returns, the tree stays), `Crash` (memory is
lost). `Spend` needs a witness from the wallet's tree, an anchor the chain knows and an unspent nullifier. `torn` is history.

**Wallet** composes the two: on the home chain what users hold is notes, so a withdrawal spends one and a
receipt or refund mints one. **TransferLedger** is the abstract specification: transfers with a stage and no heights,
clients, escrow or acknowledgements. `Wallet!LedgerImplemented` is the refinement, with `Stage` computed from a packet's record.

## 3. The runs

Passing runs:

| Run | What it shows |
|---|---|
| `validator_set` | Two genesis validators, one place, three keys, a planned upgrade. The consensus set index holds every validator that must be processed; the uptime record of an active validator never skips a height (which would panic); a key that CometBFT ever had stays attributed to its validator; disabled validators stay out; pools are bonded exactly while active; CometBFT's set is the active set after each epoch, and that is the top of the ranking. |
| `uptime_ring` | The ring buffer is the window at every offset; (action property) a validator is jailed only if, of the last window, the blocks it did not sign and those for which its key was still on its way to CometBFT reach the maximum, whatever it missed before or under an earlier spell; a validator that keeps its key is charged at most two blocks it was not asked to sign. |
| `pool_slash` | No free stake, penalties reach the rate, the pool is the supply of delegation tokens, and stake answers for the validator's acts before it is claimed. |
| `governance_life` | Two overlapping proposals of every payload, a validator that votes, notes that are created, moved and vote: no stake votes twice, a validator does not vote for delegators that voted, each proposal is enacted once if and only if it passed, concludes on time and has its effect in the next block. |
| `auction_seller` | Two auctions that share both assets, with the DEX switched off and on, withdrawals of open and of ended auctions, and other users on the auctions' position ids: sold input brings the reserve price, the value balance is exact, triggers and positions are exact but for the position and the last trigger of an auction withdrawn while open, no position collides with another user's, and (liveness) every auction closes. |
| `upgrade_halt` | Emergency halts, an upgrade, a crash, killed migrations, an operator that lifts the halt: nothing is decided past a halt before an operator acts, no half-migrated node is in a network, and (refinement) the nodes are one chain, each block executed once and in order, that stops at a halt and goes on as the next network or once an operator has resumed a node. |
| `upgrade_live` | Upgrade plans that replace each other and a crash: the plan in force is honoured and the new chain starts at a clean boundary; (liveness) every node that halts stops and executes the first block of the new chain. |
| `dex` | Four positions at different prices, two swaps, fees in three tokens, an epoch end. The circuit breaker is exactly what positions and pending flows hold; the indexes hold exactly the open positions as they are; eviction bounds a pair; claims and fees take no more than left the breaker for their batch; LPNFTs agree with their positions and the end of a block does not panic; (action property) no fill along any route takes from a position more than its trading function allows, but for a part of a unit that the truncation of its price may cost. |
| `wallet` | Transfers in both directions with every fault of relayers, an error and a crash of the worker, timeouts by height and time, and an error acknowledgement. (Refinement) the two ends implement the ledger; the escrow covers the vouchers; the wallet's records and tree follow the chain; (liveness) every transfer ends and the wallet catches up. |

Runs that TLC is expected to refute, each stating what a comment of the code says (`findings` has the
quotations):

| Run | What it shows |
|---|---|
| `governance_lost_votes` | Of two delegators of one validator swept together, one vote is lost: `tally_delegator_votes` reads the stored tally for every vote and writes only the last sum (`view.rs:817`). |
| `governance_threshold` | `yes_ratio` divides by `(yes + no).min(1)`, so a proposal with a yes vote passes against a majority of no short of the slashing threshold (`tally.rs:150`). |
| `pool_tournament` | A tournament deposit adds staking tokens to a pool counted in delegation tokens; after a slash, undelegating everything underflows it (`validator_store.rs:291`, `epoch_handler.rs:237`). |

### Bounds, and why they are enough

Every module bounds heights by `MaxHeight`; deadlock checking is off because the behaviours end there.
The safety properties are also proved (section 4, which names the exception), for all values of these bounds.

- `ValidatorManager`: two validators, so that one can take the other's key or place; four blocks with
  epochs of two, so that a validator can be jailed, released, re-selected and jailed again; sequence
  numbers up to 2, the last of them standing for `u32::MAX`. Stake of 0, 1, 2 against a minimum of 1 has every
  comparison.
- `UptimeTracker`: a window of 5 over 9 heights: every offset, more than one wrap; a maximum of 4, above the two
  blocks of a validator that is let in; epochs of 2 blocks, so that it can be jailed, released and selected again and rotate its key in each.
- `DelegationPool`: five heights and an unbonding delay of 3 with epochs of at most 2 blocks: undelegation
  before, in and after the epoch of a penalty; stakes of 3 and 6 do not divide by the rates; one reward rate.
- `Governance`: in `governance_life` three heights, voting periods of one block, one validator and two notes, one of them
  created during the run, with two proposals that overlap, of any two of the seven payloads; in the two violation runs two validators and more notes.
  Thresholds are the defaults of `params.rs`.
- `DutchAuction`: amounts 2 for 5 down to 3 in two or three steps, which round in both directions; up to one
  position id taken by another user; `WithdrawSeqs = {1, 2}`, the withdrawal of an open auction and of an ended one (a further
  withdrawal moves nothing); trades that sell a part, or all, of what a position has, and one that buys it back.
- `ChainUpgrade`: three nodes, the first with half of the power, so quorums are {1,2}, {1,3} and all, and the other
  two are symmetric (used in the safety run only); two or three heights, one crash.
  In `upgrade_halt` only the first node's operator lifts a halt, and `--force` is never passed.
- `Dex`: three positions on one pair, one of them close-on-fill and one that may overflow, and one, with a fee of a quarter, that makes
  routes of two hops; reserves up to 3 at prices 1, 3/2, 2/3 and 2 with `One = 4`, so that thirds and the fee are truncated, and a reserve
  is large enough against `One` that a truncated price costs a position a unit; at most
  one position per pair before eviction; a batch larger than `MaxReserve` (3) stands for one above `MAX_RESERVE_AMOUNT`;
  `FlashLoan` (30) is more than all positions hold. `MaxTxs` (5) transactions in two whole blocks: enough to open three positions, swap
  and claim, or open, close and withdraw. Swaps are symmetric.
- `Wallet`: each withdrawal is made at most once: one that times out at a time between two headers, one that times out by height and
  whose receiver does not parse, and the return of a voucher that times out by height; the first two need the same
  note, so a behaviour has one of them, next to the return (a second transfer of a refunded note is left to the proofs). Three blocks of each chain, enough for a
  header above each timeout to be verified, for a transfer to be received before or after it, and for one that is paid twice. `MaxFaults`
  is 1: one error and one crash, each at any step of the worker and in either order, so that a restart is checked to
  heal the tree an error left behind.

### Fairness

- `DutchAuction!FairSpec`: CometBFT keeps producing blocks (`EndTransactions`, `DexEndBlock`) and
  `end_block` runs the due triggers (`Execute`); nothing is assumed of sellers, takers or governance.
- `ChainUpgrade!FairSpec`: while a quorum runs, blocks are decided; a process executes and commits what is
  decided; the scheduled exit fires (a timer); operators of stopped nodes restart or migrate them. The last
  is an assumption about people, and the property is about what the code then guarantees.
- `Wallet!FairSpec`: both chains produce blocks up to the bound; a relayer updates the clients and brings back
  acknowledgements and timeouts that a handler would accept (relaying is open to anyone, and the sender has an interest in
  it); the worker's task runs. Nobody has to deliver a packet, and faults need not happen. Weak fairness is enough:
  a handler that would accept a message goes on to, unless an escrow that paid twice runs out, which `TransfersEnd` excepts.

## 4. Proofs

TLC checks the small instances above; the modules `*_proofs` state the same safety properties as theorems about every
instance: any sets, parameters and bounds that satisfy the assumptions of the module (durations and limits are positive,
what is finite in the code is a finite set, an "absent" constant is none of the things it is absent among). No theorem
assumes more, except for two hypotheses that stand in the statement of the theorem itself:

- `~Forced` (`ChainUpgrade`): nobody passes `--force` to `pd migrate`, which overrides the version check.
- `Deposits \subseteq {0}` (`DelegationPool`, for `PoolMatchesSupply`, `NoFreeStake` and the absence of underflow only): no tournament
  reward is deposited. With deposits they are false, which is the run `pool_tournament`.

`PROJECT.json` lists the theorems with the properties they state.

| Module | Proved of every behaviour |
|---|---|
| `ValidatorManager_proofs` | `TypeOK`, `ActiveIffBonded`, `IndexHoldsConsensusSet`, `UptimeContinuous`, `EvidenceAttribution`, `DisabledStayOut`, `ActiveSetIsTop`, `CometMatchesActiveSet`; and, by proof alone, `CometOnlyActive` (between epochs CometBFT has no validator that is not active), `StopsOnlyWithoutValidators`, `DisableBackoff` (a validator cannot end epochs again and again by being disabled and enabled), `TombstonePermanent` |
| `DelegationPool_proofs` | `TypeOK`, `SlashReachesRate`, `HeldAccountable`, `PoolMatchesSupply`, `NoFreeStake`; and that `end_epoch` cannot underflow without deposits |
| `Governance_proofs` | `EnactedIffPassed`, `ConcludedOnTime`, `EffectsDelivered`, `StakeVotesOnce`, `TallyWithinPower` |
| `DutchAuction_proofs` | `TypeOK`, `ReservePrice`, `VcbExact`, `TriggersExact`, `PositionsTracked` |
| `Consensus_proofs` | of `ChainUpgrade`: `ChainImplemented` (the refinement of `UpgradableChain`), its invariant `OneChain`, `NoHalfUpgradedNode`, `CleanBoundary`, `HaltStopsChain`, `UpgradeHonoured`; of `UptimeTracker`: `RingIsWindow`, `JailedForDowntime`, `HonestChargedAtMostTwo` |
| `Dex_proofs` | `DexSolvent`, `IndexesExact`, `CrowdingBounded`, `LpnftsMatch`, `FillsFavourPositions`, `ClaimsCovered` |
| `Wallet_proofs` | `LedgerImplemented` (the refinement of `TransferLedger`), `EscrowExact`, `WalletExact` |
| `SumTheorems` | lemmas about the sum of a function over a finite set, used by the others |

### The arguments

None of these properties is inductive alone. What each is strengthened by:

**ValidatorManager** (`IInv`). Of one record, `RecordInv`: bonded if and only if active; tombstoned pools are unbonded;
active and inactive validators are indexed and enabled; a record that was never enabled was never delegated to; the last
sequence number is a disabled one; a validator that is neither disabled nor tombstoned was disabled at least an epoch ago,
if ever (which makes `DisableBackoff` inductive). Besides, `touched` validators have delegations, the registry knows the owner of
every key in force (`KeysOwned`), the application's record of CometBFT's keys is right and, unless the epoch is about to end, they belong
to active validators (`CometTracked`), and the height is within the epoch (`EpochClock`). The argument is made once per operator that
changes a record (`TransitionInv`, `UploadInv`, `ProcessInv`, `SelectInv`) and lifted to `val` action by action. `StopsOnlyEmpty`
rests on a second invariant: an active validator has stake, which holds of whole epochs only. For the active set, the sort
of `epoch_handler.rs` is shown to be a strict total order of finitely many candidates (`SortOrder`), so that the candidates of rank
below the limit are its first ones (`TopSelection`).

**UptimeTracker.** A slot of the buffer is clear exactly when a height of the window that falls on it was missed (`Ring`); the heights of
a window fall on different slots (`ModWindow`), so slots and heights are in bijection and a new height overwrites the one that leaves.
`Charged` says that a block missed by a validator that was not absent from it is one for which its key was on its way (`Unheard`), and `Lag` how far
a key may be: it leaves with the updates of the epoch in which the validator entered or rotated and then reaches one of CometBFT's three pending sets
with each block. So the clear slots at a jailing are absent or unheard blocks of the last window.

**DelegationPool** (`IInv`, then `SupplyInv`). The pool is bonded exactly while the validator is active and unbonds no sooner than the delay after the last
epoch it was active in (`Bond`); what is queued is announced by `touched` (`Queued`); a penalty of this epoch is announced to `end_epoch` by the index
or is `late` (`Announced`), so the next rate has one penalty more (`KeptFromDef`). Then the worth of what is in circulation is
bounded action by action with lemmas on truncated division.

**Governance.** The state of a proposal determines what has happened to it (`Lifecycle`); the index is exactly the open proposals and none is
due between two blocks (`Index`, `Due`); what passed and was not tried yet is scheduled (`Scheduled`). The notes that may vote on a proposal are fixed
when it is submitted (`Snapshots`): a later note is too young, and so is the one that replaces a spent note. For the tallies, a
validator's tally holds at most one vote per swept note of its (`CountInv`), its own vote fills that up to its power at most, and
the sums compare term by term (`TallyInv`).

**DutchAuction.** Of an auction's ids at most one position holds anything: the current one of an open auction, or the one left behind when the auction was
withdrawn while open, and then the auction is empty for good, whatever its sequence number becomes (`LifeInv`). An open auction waits for the end
of a step that has not passed and has used the ids of earlier steps only (`WaitInv`); what its position was opened with is worth no less now, at
its own price, and what was sold before was sold at the reserve price or better (`PriceInv`). The value balance is a sum over auctions
that each action changes in one term.

**ChainUpgrade.** A block is backed, for ever, by the quorum that signed it (`Backed`): a member's watermark never goes down, and a
member leaves the old network only for one that starts above it. Quorums intersect, so no height is decided twice. What a node stores
is a function of the blocks it has executed (`Shape`, `Process`, `Logged`), except for a half-migrated node, which cannot start. While
no operator has lifted a halt, the halt bit says that a block of this network halts the chain (`HaltBit`), and every decided block was
proposed by a node that had executed all blocks below it and was not halted (`Unhalted`). The refinement needs two facts more: the
decided blocks are one per height without a gap (`Stacked`), as a proposer has executed all below its block and no fork can lie above; and a
node left its old network at a block that halts it (`LeftInv`), as a set halt bit is always due to the last block executed
(`HaltedLast`). Then `Decide` is `Extend`, `Commit` is `Apply`, `ReadyToStart` is `Resume`, and every other step, crashes and
migrations included, leaves the abstract chain as it is. The proof is for any operators: one may resume a node that
the others have left behind in the old network, which the instance of the run, with one operator, cannot show.

**Wallet.** `IbcInv` (clients have verified only headers of committed blocks; what a packet that was received, settled or refunded has gone through)
gives the refinement step by step: each handler is the ledger's action of the same meaning or a stutter, and `Stage` moves as the
ledger says. The escrow is a sum over packets, in which one changes per action. `WalletExact` rests on an invariant of the worker (`ViewInv`): what is
recorded, what is in the in-memory tree, and the suffix of the chain that is yet to come are each other's rest.

**Dex** (`IInv`). The long part is one fill. `UpdateExact` shows once that `update_position` keeps the two indexes and the counter in step
with the positions, whatever changes; closing, executing and evicting follow. A route of any length is loaded hop by hop into a
frontier of distinct, open positions (`LoadExact`). The amounts that flow forward, back from the constraint and on from it are recursive functions
over the hops; what `fill_constrained` trades is shown to be `Sound` (`TraceSound`): at each hop no more is sold than there is, for at least
what it is worth, and the input is not exceeded, so that the asserts of `fill_forward` and `fill_backward` hold. Rounding is settled in two steps. `Prices` says what truncation does to the two prices of a position: the
price for selling is never above `p / q`, the price for buying falls short of `q / p` by less than its last unit, and their product is at most 1, so that
buying what was just sold never pays. From these follow the bounds on amounts (`FillOutBounds`, `FillInBounds`, `FillInOut`). A trade, and any
number of them in one direction, leaves a position worth as much by its own trading function as before but for the last unit of its price on each unit it
sold (`HopWorth`, `SoldTwice`): less than one unit in all, as long as it sold fewer than 2^128 units, and what it moves between positions cancels but for the input and the output (`AppliedExact`). Replacing exhausted
positions and saving the frontier keep what is held (`ReplaceEmptyExact`, `SaveExact`), which gives `FillRouteExact`. Over this,
`Solvent` says what the circuit breaker counts in each stage of a block (the flows less what the batch in progress has taken, the arbitrage's profit, the
fork that is kept or dropped), `Owned` relates LPNFTs, positions and the queue in the book and in the fork, and `Bounded` that a pair without a new
position in the block is as eviction left it; for the last, the positions a direction evicts are shown to be as many as there are too many (`WorstCount`).

`ClaimsCovered` rests on a second invariant (`CInv`) next to it. The flows of a block are exactly what its swaps and their prepaid fees bring (`FlowsExact`), and
the output of the batch records them as `delta` (`OutputsOK`). A
batch with an output covers what it has paid out plus what its unclaimed swaps are still owed (`Owed`). A claim moves one
swap's share from the second to the first. When the batch executes, nothing is paid and everything is owed: the shares are rounded down from fractions of a common
whole, so that their sum stays below it (`ShareBound`, `SharesCovered`, `BatchCovered`), whatever the number of swaps.

### How the proofs are made

The induction theorems of the library take an operator as a parameter, which the provers cannot instantiate. `SumTheorems` has
the induction over the naturals with the property given as a set (`NatSetInduction`); a recursive function is shown to exist by an induction of that
form on its prefixes (`KeptPrefix`, `Iter`), and is then unfolded at one argument. Sums in the models are therefore `SumFunction` and
`SumFunctionOnSet` of the community module `Functions`, whose value does not depend on the order of summation (`SumRemove`). `EnactProposal`
works on a set of proposals rather than by a fold over it, as the enactments of one block are independent.

### Only model-checked

- Liveness (`EventuallyClosed`, `HaltLeadsToUpgrade`, `TransfersEnd`): the prover has neither ENABLED nor fairness.

## 5. Divergences met while modelling

Besides the three runs above, reading the code for the models showed the following. The models do what the
code does; where a property makes an exception for it, that is named.

- `epoch_handler.rs:343`: when the last active validator leaves (nothing prevents it), `expect("total active stake is
  nonzero")` panics in `end_block`. Modelled as `EndEpochPanics`; `StopsOnlyWithoutValidators` says it is
  the only case.
- `epoch_handler.rs:108`: a validator tombstoned after it left the consensus set, with no delegation changes
  in that epoch, keeps its rate. `SlashReachesRate` excepts `late`.
- `undelegate_claim.rs:76` says a claim pays the penalties of a closed range of epochs; `compounded_penalty_over_range`
  takes a half-open one.
- `uptime_tracker.rs:160` looks votes up under the current key while CometBFT still uses the old one: a
  validator that rotates its key early in a long epoch is jailed although it signs every block.
  `JailedForDowntime` bounds this: a rotation costs the blocks to the end of its epoch and two more. `HonestChargedAtMostTwo` excepts it.
- `uptime_tracker.rs:167` waives missing votes at height 1 only: the first block of a chain that starts at a later height
  (after an upgrade) has none either and charges every active validator one miss. `UptimeTracker` starts from height 1.
- `uptime_tracker.rs:185` jails at exactly `missed_blocks_maximum` missed blocks, where `params.rs:19` says "The maximum number of blocks in the window each
  validator can miss signing without slashing". `JailedForDowntime` claims no more than the code
  does: a jailed validator has reached the maximum, not passed it.
- `dutch_auction.rs:239`: a trigger that fires while the DEX is disabled zeroes the auction's input, and
  the next one closes it as filled; the value stays in the value balance. `ReservePrice` and `VcbExact` count it as `stranded`.
- `action_handler/dutch/withdraw.rs:44` accepts sequence number 1 on an open auction, and `withdraw_auction` (`dutch_auction.rs:392`) neither closes its position
  nor unsets its trigger, although `dutch_auction.rs:299` says of an auction that is "already closed, or withdrawn" that "its associated LP position must have
  been closed and withdrawn already". The position stays in the DEX, where nobody can close it or withdraw from it; the trigger fires once more, on an
  auction with nothing in it, and sets its sequence number to 1 again. `TriggersExact` and `PositionsTracked` except such
  auctions (`abandoned`) and say that no more than this is left of them.
- `dutch_auction.rs:58`: the first trigger is one step after the start height, so the price of step 0 is never quoted.
- `component.rs:177` (governance): a withdrawn proposal is never slashed; `docs/protocol/src/governance.md:38` says it can be.
- `validator_vote.rs:96`: an emergency proposal passes early only when a validator votes, not when swept delegator
  votes reach the third. `ConcludedOnTime` allows the wait until the last block.
- `migrate.rs:100`: `--force` overrides the version check that `cli.rs:136` says it does not.
- `migrate.rs:252`: with a `timeout_commit` below two seconds a validator may have signed for the upgrade
  height before it exits; its migration then fails after the state is migrated. `NoHalfUpgradedNode` shows
  that such a node does not start.
- `app/mod.rs:301`: only proposing and starting look at the halt bit, so a node that lags behind a lifted halt
  commits the halt and may execute the next block before it exits; `HaltStopsChain` and
  `UpgradeHonoured` speak of the time before any operator lifts a halt.

- `ibc/src/component/msg_handler/timeout.rs:72` judges a timestamp timeout by the client's latest consensus state, and the
  absence of the receipt at the height of the proof. A packet received between the two is refunded as well, where
  `timeout.rs:102` says "in the case of a timed-out unordered packet, the counterparty should not have committed a receipt to
  the state". It is the ledger's `Dispute`; `EscrowExact` counts the escrow short by exactly those packets (`PaidTwice`), and
  `TransfersEnd` excepts transfers of a token that was paid twice, whose refund or return may find the escrow empty.
- `view/src/worker.rs:281`: `scan_block` inserts the block into the shared in-memory tree before transactions are fetched and the
  block is recorded. An error in between leaves it there, and the next attempt inserts the block again, where `storage.rs:1468`
  says that tree and storage are updated together "so the two stay transactionally in sync, even in the case of errors". A
  restart heals it unless a block was recorded meanwhile; until then new notes get wrong positions, so their spends
  are not recognised and they cannot be witnessed. `WalletExact` holds the records of notes exact throughout and
  excepts the rest by `torn`.
- `dex/src/state_key.rs:287`: the key of the routable asset index has the start asset and the aggregate liquidity, without the end
  asset, so two assets with equal liquidity share an entry, where the comment at line 270 promises "every asset `B` routable from
  `A`". It only prunes the candidates of `path_search`, which `Dex` leaves free.
- `router/route_and_fill.rs:45` makes one execution budget for a pair and clones it, so each direction has the whole of it;
  the number of rounds is free in `Dex`.

## 6. Not modelled

Cryptography, encodings, fixed-point arithmetic but for the DEX's prices, RPC, metrics, generated protobuf code and
command line tools have no protocol state. Proposal preparation (which transactions a proposer takes) is policy.
Parameter values set by governance are validated by code that is not modelled; every module assumes sensible ones.

- DEX: the path search itself (a relaxation over prices, out of TLC's reach except on toy graphs), the routable asset
  index that prunes it, volume tracking, candlesticks and the execution records for clients.
- IBC: handshakes, ordered channels, frozen, expired and recovered clients, misbehaviour, the delay period, clock skew
  between chains, saturation at `u128`. The checks of these only refuse messages.
- Shielded pool and view service: the tree as a data structure and its epochs, swaps, positions, auctions and assets in the wallet's
  records, delegation tokens (which stay witnessed after they are spent), change notes, note selection, fuzzy message detection.
- Distributions, funding and the tournament's accounting, the community pool's balance, gas prices, custody, indexers.

## 7. Plan

1. Composition of `DutchAuction` with `Dex` in place of the external `DexEndBlock`, and of `UptimeTracker` with `ValidatorManager`,
   with a start from a checkpoint genesis.
2. Threshold custody (`crates/custody/src/threshold`); swaps in the wallet's scanning; client expiry and ordered channels.
3. An abstract specification of the life of a proposal, implemented by `Governance`.

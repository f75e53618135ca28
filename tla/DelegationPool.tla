--------------------------- MODULE DelegationPool ---------------------------
(***************************************************************************)
(* The delegation pool of one validator: the exchange rate between stake   *)
(* and delegation tokens (rate.rs), delegations and undelegations queued   *)
(* during an epoch and settled at its end (epoch_handler.rs), slashing     *)
(* penalties (penalty.rs, stake.rs), unbonding tokens and their claims     *)
(* (undelegate_claim.rs), and the tournament rewards that are deposited    *)
(* into the pool (validator_store.rs, bank.rs).                            *)
(*                                                                         *)
(* Rates and penalties are fixed-point numbers scaled by Scale, which      *)
(* stands for BPS_SQUARED_SCALING_FACTOR.  The validator's state changes   *)
(* as the module ValidatorManager has it; what the other validators do to  *)
(* its place in the active set is any choice.                              *)
(***************************************************************************)
EXTENDS Integers, Sequences, FiniteSets, Functions

CONSTANTS
  Scale,           \* BPS_SQUARED_SCALING_FACTOR: the rate 1
  RewardRates,     \* validator reward rates, commission deducted
  Kept,            \* what a penalty keeps, by state: "Jailed", "Tombstoned"
  Stakes,          \* amounts that are delegated
  Deposits,        \* tournament rewards deposited at the end of an epoch
  MaxStaked,       \* bound on the total ever delegated
  MinValidatorStake, EpochDuration, UnbondingDelay,
  MaxHeight        \* bound on the heights explored

ASSUME ParameterAssumption ==
  /\ Scale \in Nat \ {0}
  /\ RewardRates \subseteq Nat /\ Stakes \subseteq Nat \ {0}
  /\ Deposits \subseteq Nat /\ MaxStaked \in Nat
  /\ Kept \in [{"Jailed", "Tombstoned"} -> 0 .. Scale]
  /\ MinValidatorStake \in Nat
  /\ EpochDuration \in Nat \ {0} /\ UnbondingDelay \in Nat \ {0}
  /\ MaxHeight \in Nat

VARIABLES
  state, bonding, unbondsAt, indexed,  \* as in ValidatorManager
  rate,           \* validator_exchange_rate
  pool,           \* pool::balance: the delegation tokens the pool backs
  delegations, undelegations,  \* delegation tokens queued in this epoch
  touched,        \* the epoch has delegation changes for the validator
  penalty,        \* penalty::for_id_in_epoch: what is kept, by epoch
  held,           \* delegation tokens in circulation
  unbonding,      \* unbonding tokens in circulation, by start height
  starts,         \* start heights of the epochs so far
  height, endEpochEarly, phase,
  staked, claimed,  \* stake ever delegated, stake ever claimed back
  lastActive,     \* start of the last epoch the validator was active in
  rewarded,       \* history: an epoch has paid a reward
  late            \* history: evidence has come after it left the consensus set

chain == <<starts, height, endEpochEarly, phase>>
tokens == <<held, unbonding, staked, claimed>>
queue == <<delegations, undelegations, touched>>
lifecycle == <<state, bonding, unbondsAt, indexed, lastActive, rewarded, late>>
vars == <<lifecycle, rate, pool, queue, penalty, tokens, chain>>

Heights == 0 .. MaxHeight
NoHeight == -1

Epoch == Len(starts) - 1
EpochStart == starts[Len(starts)]

\* get_epoch_by_height
EpochOf(h) == Cardinality({i \in DOMAIN starts : starts[i] <= h}) - 1

-----------------------------------------------------------------------------
(* Rates and penalties *)

DelegationAmount(x) == IF rate = 0 THEN 0 ELSE (x * Scale) \div rate

\* (Mistake: rounded up.)
UnbondedAmountUp(n) == (n * rate + Scale - 1) \div Scale

UnbondedAmount(n) == (n * rate) \div Scale

VotingPower(r, size) == (size * r) \div Scale

Compound(a, b) == (a * b) \div Scale

\* compounded_penalty_over_range, half open.
CompoundedPenalty(from, to) ==
  LET kept[e \in Nat] ==
        IF e <= from THEN Scale ELSE Compound(kept[e - 1], penalty[e - 1])
  IN  kept[to]

\* RateData::slash, then RateData::next_epoch.
\* (Mistake: the penalty of the epoch that begins, which is never one.)
NextRateUnslashed(reward) ==
  IF state = "Active" THEN (rate * (Scale + reward)) \div Scale ELSE rate

NextRate(reward) ==
  LET slashed == (rate * penalty[Epoch]) \div Scale
  IN  IF state = "Active" THEN (slashed * (Scale + reward)) \div Scale ELSE slashed

-----------------------------------------------------------------------------
(* The validator's state *)

\* compute_unbonding_height
\* (Mistake: an unbonding pool is taken for an unbonded one.)
UnbondingHeightOfBonded(b, at, start) ==
  IF b = "Bonded" THEN start + UnbondingDelay ELSE NoHeight

UnbondingHeight(b, at, start) ==
  LET upper == start + UnbondingDelay
  IN  CASE b = "Bonded" -> upper
        [] b = "Unbonding" /\ at > start -> IF at < upper THEN at ELSE upper
        [] OTHER -> NoHeight

\* set_validator_state_inner, as far as the pool is concerned.
Moved(b, at, old, new) ==
  IF old = "Active" /\ new \in {"Inactive", "Defined", "Disabled", "Jailed"}
  THEN [bonding |-> "Unbonding", at |-> UnbondingHeight(b, at, EpochStart)]
  ELSE IF old = "Inactive" /\ new = "Active"
  THEN [bonding |-> "Bonded", at |-> at]
  ELSE IF old # "Tombstoned" /\ new = "Tombstoned"
  THEN [bonding |-> "Unbonded", at |-> at]
  ELSE [bonding |-> b, at |-> at]

\* record_slashing_penalty, on the transitions that are punished.
Penalized(new) ==
  IF new \in DOMAIN Kept /\ state # new
  THEN [penalty EXCEPT ![Epoch] = Compound(@, Kept[new])]
  ELSE penalty

MoveTo(new) ==
  LET moved == Moved(bonding, unbondsAt, state, new)
  IN  /\ state' = new
      /\ bonding' = moved.bonding
      /\ unbondsAt' = moved.at
      /\ penalty' = Penalized(new)
      /\ indexed' = (indexed \/ (new = "Inactive" /\ state # "Inactive"))

\* Evidence and uptime tracking, in begin_block.
BeginBlock(new) ==
  /\ phase = "begin"
  /\ height < MaxHeight
  /\ \/ new = state
     \/ new = "Jailed" /\ state = "Active"
     \/ new = "Tombstoned"
  /\ MoveTo(new)
  /\ height' = height + 1
  /\ endEpochEarly' = (state = "Active" /\ new # "Active")
  /\ phase' = "deliver"
  /\ late' = (late \/ (new = "Tombstoned" /\ state # new /\ ~ indexed))
  /\ UNCHANGED <<rate, pool, queue, tokens, starts, lastActive, rewarded>>

\* The operator disables the validator, enables it again, or gets it out of
\* jail, by uploading a new definition.
Redefine(new) ==
  /\ phase = "deliver"
  /\ \/ state \in {"Active", "Inactive", "Defined", "Jailed"} /\ new = "Disabled"
     \/ /\ state \in {"Disabled", "Jailed"}
        /\ new = IF VotingPower(rate, pool) < MinValidatorStake
                 THEN "Defined" ELSE "Inactive"
  /\ MoveTo(new)
  /\ endEpochEarly' = (endEpochEarly \/ state = "Active")
  /\ UNCHANGED <<rate, pool, queue, tokens, height, starts, phase, lastActive,
                 rewarded, late>>

-----------------------------------------------------------------------------
(* Transactions *)

Delegate(x) ==
  /\ phase = "deliver"
  /\ state \in {"Defined", "Inactive", "Active"}
  /\ state = "Defined" /\ pool = 0 => x >= MinValidatorStake
  /\ staked + x <= MaxStaked
  /\ held' = held + DelegationAmount(x)
  /\ delegations' = delegations + DelegationAmount(x)
  /\ staked' = staked + x
  /\ touched' = TRUE
  /\ UNCHANGED <<lifecycle, rate, pool, undelegations, penalty, unbonding,
                 claimed, chain>>

Undelegate(n) ==
  /\ phase = "deliver"
  /\ n <= held
  /\ held' = held - n
  /\ undelegations' = undelegations + n
  /\ unbonding' = [unbonding EXCEPT ![EpochStart] = @ + UnbondedAmount(n)]
  /\ touched' = TRUE
  /\ UNCHANGED <<lifecycle, rate, pool, delegations, penalty, staked, claimed,
                 chain>>

\* The height up to which the tokens of start height s answer for penalties.
ClaimHeight(s) ==
  LET allowed == UnbondingHeight(bonding, unbondsAt, s)
  IN  IF allowed = NoHeight THEN height ELSE allowed

ClaimPenalty(s) == CompoundedPenalty(EpochOf(s), EpochOf(ClaimHeight(s)))

ClaimAllowed(s) == s <= height /\ ClaimHeight(s) <= height

UndelegateClaim(s) ==
  /\ phase = "deliver"
  /\ unbonding[s] > 0
  /\ ClaimAllowed(s)
  /\ claimed' = claimed + (unbonding[s] * ClaimPenalty(s)) \div Scale
  /\ unbonding' = [unbonding EXCEPT ![s] = 0]
  /\ UNCHANGED <<lifecycle, rate, pool, queue, penalty, held, staked, chain>>

-----------------------------------------------------------------------------
(* End of the block and of the epoch *)

\* is_scheduled_epoch_end
EpochEnds == height - EpochStart >= EpochDuration - 1 \/ endEpochEarly

EndBlock ==
  /\ phase = "deliver"
  /\ ~ EpochEnds
  /\ phase' = "begin"
  /\ UNCHANGED <<lifecycle, rate, pool, queue, penalty, tokens, starts, height,
                 endEpochEarly>>

\* try_precursor_transition
Precursor(power) ==
  IF state \notin {"Defined", "Inactive", "Active"} THEN state
  ELSE IF power < MinValidatorStake THEN "Defined"
  ELSE IF state = "Defined" THEN "Inactive" ELSE state

\* process_validator_pool_state
PoolState(p) ==
  LET allowed == UnbondingHeight(p.bonding, p.at, EpochStart)
  IN  IF allowed = NoHeight \/ EpochStart >= allowed
      THEN [p EXCEPT !.bonding = "Unbonded"] ELSE p

Belongs(s) == s \in {"Active", "Inactive"}

\* end_epoch touches the validators with delegation changes and the consensus
\* set, no others.
Processed == touched \/ indexed

\* (Mistake: undelegations are not subtracted.)
PoolAfterGrowing == pool + delegations

PoolAfter == pool + delegations - undelegations

\* The funding component deposits tournament rewards after staking is done:
\* the pool grows by the staking tokens and delegation tokens are minted.
Bonded(r, deposit) == IF r = 0 THEN 0 ELSE (deposit * Scale) \div r

\* active: whether set_active_and_inactive_validators selects the validator.
EndEpoch(reward, active, deposit) ==
  LET next == IF Processed THEN NextRate(reward) ELSE rate
      size == IF Processed THEN PoolAfter ELSE pool
      precursor == IF Processed THEN Precursor(VotingPower(next, size)) ELSE state
      first == Moved(bonding, unbondsAt, state, precursor)
      settled == IF Processed THEN PoolState(first) ELSE first
      inSet == (indexed \/ precursor = "Inactive") /\ Belongs(precursor)
      final == IF ~ inSet THEN precursor ELSE IF active THEN "Active" ELSE "Inactive"
      last == Moved(settled.bonding, settled.at, precursor, final)
  IN
  /\ phase = "deliver"
  /\ EpochEnds
  /\ active => VotingPower(next, size) > 0
  /\ pool + delegations >= undelegations
  /\ rate' = next
  /\ pool' = size + deposit
  /\ held' = held + Bonded(next, deposit)
  /\ delegations' = 0 /\ undelegations' = 0 /\ touched' = FALSE
  /\ state' = final
  /\ bonding' = last.bonding /\ unbondsAt' = last.at
  /\ indexed' = inSet
  /\ starts' = Append(starts, height + 1)
  /\ lastActive' = IF final = "Active" THEN height + 1 ELSE lastActive
  /\ rewarded' = (rewarded \/ (state = "Active" /\ reward > 0))
  /\ endEpochEarly' = FALSE
  /\ phase' = "begin"
  /\ UNCHANGED <<penalty, unbonding, staked, claimed, height, late>>

Init ==
  \E x \in Stakes :
    /\ state = "Active" /\ bonding = "Bonded" /\ unbondsAt = 0 /\ indexed = TRUE
    /\ rate = Scale
    /\ pool = x /\ held = x /\ staked = x
    /\ delegations = 0 /\ undelegations = 0 /\ touched = FALSE
    /\ penalty = [e \in 0 .. MaxHeight |-> Scale]
    /\ unbonding = [s \in 0 .. MaxHeight + 1 |-> 0]
    /\ starts = <<0>> /\ height = 0 /\ endEpochEarly = FALSE /\ phase = "begin"
    /\ claimed = 0 /\ lastActive = 0 /\ rewarded = FALSE /\ late = FALSE

Next ==
  \/ \E new \in {state, "Jailed", "Tombstoned"} : BeginBlock(new)
  \/ \E new \in {"Disabled", "Defined", "Inactive"} : Redefine(new)
  \/ \E x \in Stakes : Delegate(x)
  \/ \E n \in 1 .. held : Undelegate(n)
  \/ \E s \in Heights : UndelegateClaim(s)
  \/ EndBlock
  \/ \E reward \in RewardRates, active \in BOOLEAN, deposit \in Deposits :
       EndEpoch(reward, active, deposit)

Spec == Init /\ [][Next]_vars

-----------------------------------------------------------------------------
(* Properties *)

\* Amounts stay natural numbers and penalties stay fractions: the checked
\* arithmetic on the pool and the 1 - penalty of penalty.rs do not fail.
TypeOK ==
  /\ state \in {"Defined", "Inactive", "Active", "Disabled", "Jailed", "Tombstoned"}
  /\ bonding \in {"Bonded", "Unbonding", "Unbonded"}
  /\ unbondsAt \in Nat /\ indexed \in BOOLEAN
  /\ rate \in Nat /\ pool \in Nat
  /\ delegations \in Nat /\ undelegations \in Nat /\ touched \in BOOLEAN
  /\ penalty \in [0 .. MaxHeight -> 0 .. Scale]
  /\ held \in Nat /\ unbonding \in [0 .. MaxHeight + 1 -> Nat]
  /\ starts \in Seq(Nat) /\ height \in Heights
  /\ endEpochEarly \in BOOLEAN /\ phase \in {"begin", "deliver"}
  /\ staked \in Nat /\ claimed \in Nat /\ lastActive \in Nat
  /\ rewarded \in BOOLEAN /\ late \in BOOLEAN

\* The pool is the delegation tokens in circulation, but for the changes that
\* wait for the end of the epoch: voting power counts every token once.
PoolMatchesSupply == held = pool + delegations - undelegations

\* Settling an epoch never takes more out of the pool than is in it, which
\* process_validator unwraps with expect.
PoolNeverUnderflows == pool + delegations >= undelegations

InUnbonding == SumFunction(unbonding)

\* Until a reward is paid, no order of delegations, undelegations, penalties and
\* claims gets more stake out than was put in: every rounding favours the pool.
NoFreeStake == rewarded \/ VotingPower(rate, held) + InUnbonding + claimed <= staked

\* A recorded penalty reaches everyone who stayed in the pool: until a reward
\* is paid the exchange rate is what all the penalties of past epochs left of
\* 1.  The exception is a validator that is tombstoned after it left the
\* consensus set: end_epoch processes it only if it has delegation changes.
SlashReachesRate == rewarded \/ late \/ rate = CompoundedPenalty(0, Epoch)

\* Stake answers for the validator's acts: it is not claimed until the delay
\* has passed since the epoch of its undelegation, or since the last epoch in
\* which the validator was active, unless the validator has been tombstoned.
HeldAccountable ==
  [][\A s \in Heights : unbonding'[s] < unbonding[s] =>
       \/ state = "Tombstoned"
       \/ height >= s + UnbondingDelay
       \/ height >= lastActive + UnbondingDelay]_vars
=============================================================================

-------------------------- MODULE ValidatorManager --------------------------
(***************************************************************************)
(* The validator state machine of the staking component: the lifecycle of  *)
(* a validator (validator_manager.rs), the end-epoch processing that       *)
(* promotes and demotes validators (epoch_handler.rs), the registry of     *)
(* consensus keys and the validator updates handed to CometBFT.            *)
(*                                                                         *)
(* A block is one BeginBlock, any number of transactions and one EndBlock; *)
(* each is one action, as the application runs each under exclusive access *)
(* to its state.  Amounts are abstracted: what end-epoch processing        *)
(* computes as a validator's voting power is any member of Stakes (the     *)
(* module DelegationPool has the arithmetic), and which active validators  *)
(* have missed too many blocks is any subset of them (the module           *)
(* UptimeTracker has the counting).                                        *)
(***************************************************************************)
EXTENDS Integers, FiniteSets

CONSTANTS
  Validator,            \* identity keys; their order is that of the index scan
  ConsensusKey,         \* CometBFT public keys
  GenesisKey,           \* the genesis validators, each with its consensus key
  Stakes,               \* the voting powers end-epoch processing may compute
  EpochDuration,        \* SctParameters::epoch_duration, in blocks
  UnbondingDelay,       \* StakeParameters::unbonding_delay, in blocks
  ActiveValidatorLimit, \* StakeParameters::active_validator_limit
  MinValidatorStake,    \* StakeParameters::min_validator_stake
  UpgradeHeights,       \* heights at which a chain upgrade is scheduled
  MaxSequence,          \* stands for u32::MAX, the last sequence number
  MaxHeight,            \* bound on the heights explored
  NoKey, NoOwner        \* "no such entry in the state"

ASSUME ValidatorAssumption == Validator \subseteq Int /\ IsFiniteSet(Validator)
ASSUME GenesisAssumption ==
  /\ DOMAIN GenesisKey \subseteq Validator
  /\ \A v \in DOMAIN GenesisKey : GenesisKey[v] \in ConsensusKey
  /\ \A v, w \in DOMAIN GenesisKey : GenesisKey[v] = GenesisKey[w] => v = w
ASSUME StakesAssumption == Stakes \subseteq Nat
ASSUME ParameterAssumption ==
  /\ EpochDuration \in Nat \ {0}
  /\ UnbondingDelay \in Nat \ {0}
  /\ ActiveValidatorLimit \in Nat \ {0}
  /\ MinValidatorStake \in Nat
  /\ MaxSequence \in Nat \ {0}
  /\ MaxHeight \in Nat
ASSUME AbsentAssumption == NoKey \notin ConsensusKey /\ NoOwner \notin Validator

VARIABLES
  val,            \* one record per validator: what the JMT and the index hold
  keyOwner,       \* lookup_by::consensus_key: consensus key -> identity key
  height,         \* the block height written by Sct::begin_block
  epochIndex, epochStart,  \* the epoch of the current height
  endEpochEarly,  \* the end-epoch flag of the block, in object storage
  touched,        \* validators with delegation changes in the current epoch
  consensusKeys,  \* CurrentConsensusKeys: the keys CometBFT was told about
  comet,          \* external: CometBFT's validator set, by consensus key
  reported,       \* external: whose power was last reported under each key
  phase           \* the ABCI call that comes next, or why the chain stopped

vars == <<val, keyOwner, height, epochIndex, epochStart, endEpochEarly,
          touched, consensusKeys, comet, reported, phase>>

State == {"Defined", "Disabled", "Inactive", "Active", "Jailed", "Tombstoned"}
Bonding == {"Bonded", "Unbonding", "Unbonded"}
Phase == {"BeginBlock", "DeliverTx", "NoActiveStake", "CometRejected"}

NeverDisabled == -1

ValidatorRecord ==
  [state: State \cup {"Unknown"}, bonding: Bonding, unbondsAt: Nat,
   lastDisabled: Int, uptimeAsOf: Nat, indexed: BOOLEAN, power: Nat,
   key: ConsensusKey \cup {NoKey}, sequence: Int, enabled: BOOLEAN,
   delegated: BOOLEAN]

UnknownValidator ==
  [state |-> "Unknown", bonding |-> "Unbonded", unbondsAt |-> 0,
   lastDisabled |-> NeverDisabled, uptimeAsOf |-> 0, indexed |-> FALSE,
   power |-> 0, key |-> NoKey, sequence |-> -1, enabled |-> FALSE,
   delegated |-> FALSE]

\* The state has the types the code gives it; in particular a pool that starts
\* to unbond has a height to unbond at (compute_unbonding_height is not None).
TypeOK ==
  /\ val \in [Validator -> ValidatorRecord]
  /\ keyOwner \in [ConsensusKey -> Validator \cup {NoOwner}]
  /\ height \in Nat /\ epochIndex \in Nat /\ epochStart \in Nat
  /\ endEpochEarly \in BOOLEAN
  /\ touched \subseteq Validator
  /\ consensusKeys \subseteq ConsensusKey
  /\ comet \subseteq ConsensusKey
  /\ reported \in [ConsensusKey -> Validator \cup {NoOwner}]
  /\ phase \in Phase

-----------------------------------------------------------------------------
(* Transitions of one validator.                                           *)

\* compute_unbonding_height, for a pool in bonding state b.  NoHeight is the
\* `None` of an unbonded pool or of one whose unbonding has elapsed.
NoHeight == -1

UnbondingHeight(b, unbondsAt, start) ==
  LET upperBound == start + UnbondingDelay
  IN CASE b = "Bonded" -> upperBound
       [] b = "Unbonding" /\ unbondsAt > start ->
            IF unbondsAt < upperBound THEN unbondsAt ELSE upperBound
       [] OTHER -> NoHeight

\* The transitions out of Active that start unbonding the pool.
\* (Mistake: the operator's own Disabled is forgotten.)
DischargedUnlessDisabled(old, new) == old = "Active" /\ new \in {"Inactive", "Defined", "Jailed"}
Discharged(old, new) == old = "Active" /\ new \in {"Inactive", "Defined", "Disabled", "Jailed"}

\* The transition that bonds the pool and starts a new uptime record.
Activated(old, new) == old = "Inactive" /\ new = "Active"

\* The transitions that enter the consensus set index.
\* (Mistake: an unjailed validator is not indexed again.)
EntersIndexUnlessJailed(old, new) == old \in {"Defined", "Disabled"} /\ new = "Inactive"
EntersIndex(old, new) == old \in {"Defined", "Disabled", "Jailed"} /\ new = "Inactive"

\* set_validator_state_inner: the record after a legal transition of r to the
\* state new, in a block at height h of an epoch that started at start.
Transition(r, new, h, start) ==
  LET discharged == Discharged(r.state, new)
      activated  == Activated(r.state, new)
      tombstoned == r.state # "Tombstoned" /\ new = "Tombstoned"
  IN [r EXCEPT
       !.state = new,
       !.indexed = @ \/ EntersIndex(r.state, new),
       !.bonding = IF activated THEN "Bonded"
                   ELSE IF discharged THEN "Unbonding"
                   ELSE IF tombstoned THEN "Unbonded"
                   ELSE @,
       !.unbondsAt = IF discharged THEN UnbondingHeight(r.bonding, @, start) ELSE @,
       !.uptimeAsOf = IF activated THEN h ELSE @,
       !.lastDisabled = IF new = "Disabled" THEN h ELSE @]

\* A validator that exits the active set ends the epoch with the block.
ExitsActiveSet(old, new) ==
  old = "Active" /\ new \in {"Defined", "Disabled", "Jailed", "Tombstoned"}

\* process_validator_pool_state
ProcessPoolState(r, from) ==
  LET allowed == UnbondingHeight(r.bonding, r.unbondsAt, from)
  IN [r EXCEPT !.bonding = IF allowed = NoHeight \/ from >= allowed THEN "Unbonded" ELSE @]

\* try_precursor_transition: in and out of Defined, by the minimum stake.
PrecursorState(r) ==
  IF r.state \notin {"Defined", "Inactive", "Active"} THEN r.state
  ELSE IF r.power < MinValidatorStake THEN "Defined"
  ELSE IF r.state = "Defined" THEN "Inactive"
  ELSE r.state

BelongsInIndex(r) == r.state \in {"Active", "Inactive"}

\* process_validator, for a validator whose new voting power is s.
ProcessValidator(r, s, h, start) ==
  LET powered == [r EXCEPT !.power = s]
      new     == PrecursorState(powered)
      moved   == IF new = r.state THEN powered ELSE Transition(powered, new, h, start)
      pooled  == ProcessPoolState(moved, start)
  IN [pooled EXCEPT !.indexed = @ /\ BelongsInIndex(pooled)]

-----------------------------------------------------------------------------
(* End-epoch processing of the whole set.                                  *)

Indexed == {v \in Validator : val[v].indexed}

\* The validators end_epoch processes: those with delegation changes and the
\* consensus set.
ToProcess == touched \cup Indexed

\* The candidates of set_active_and_inactive_validators among the processed
\* records recs: indexed, Active or Inactive.
Candidates(recs) == {v \in Validator : recs[v].indexed /\ BelongsInIndex(recs[v])}

\* The stable descending sort by voting power of an index scanned in key order.
Precedes(recs, u, v) ==
  \/ recs[u].power > recs[v].power
  \/ recs[u].power = recs[v].power /\ u < v

Powered(recs) == {v \in Candidates(recs) : recs[v].power > 0}

\* How many candidates the sort puts before v.
Rank(recs, v) == Cardinality({u \in Powered(recs) : Precedes(recs, u, v)})

\* The first ActiveValidatorLimit candidates of nonzero power.
\* (Mistake: one too many.)
TopValidatorsAndOne(recs) == {v \in Powered(recs) : Rank(recs, v) <= ActiveValidatorLimit}
TopValidators(recs) == {v \in Powered(recs) : Rank(recs, v) < ActiveValidatorLimit}

\* set_active_and_inactive_validators
SelectActive(recs, h, start) ==
  LET top == TopValidators(recs)
  IN [v \in Validator |->
        IF v \in top THEN Transition(recs[v], "Active", h, start)
        ELSE IF v \in Candidates(recs) THEN Transition(recs[v], "Inactive", h, start)
        ELSE recs[v]]

\* build_cometbft_validator_updates: the keys reported with a positive power,
\* and those reported with power zero so that CometBFT deletes them.
\* (Mistake: the power of the inactive ones is not clamped to zero.)
UnclampedKeys(recs) ==
  {recs[v].key : v \in {w \in Validator : recs[w].indexed /\ recs[w].power > 0}}

PoweredKeys(recs) ==
  {recs[v].key : v \in {w \in Validator :
      recs[w].indexed /\ recs[w].state = "Active" /\ recs[w].power > 0}}

RemovedKeys(recs) == consensusKeys \ PoweredKeys(recs)

\* total_active_stake of process_chain_base_rate is nonzero.
HasActiveStake == \E v \in Indexed : val[v].state = "Active" /\ val[v].power > 0

\* External: CometBFT's checks of an update. It refuses to delete a key it does
\* not have and to be left without validators.
CometAccepts(recs) == RemovedKeys(recs) \subseteq comet /\ PoweredKeys(recs) # {}

-----------------------------------------------------------------------------
(* The state machine.                                                      *)

\* init_chain: genesis validators are Active, bonded and indexed, whatever the
\* limit; CometBFT is told about all of them.
GenesisValidator(v, s) ==
  [state |-> "Active", bonding |-> "Bonded", unbondsAt |-> 0,
   lastDisabled |-> NeverDisabled, uptimeAsOf |-> 0, indexed |-> TRUE,
   power |-> s, key |-> GenesisKey[v], sequence |-> 0, enabled |-> TRUE,
   delegated |-> TRUE]

Init ==
  /\ \E alloc \in [DOMAIN GenesisKey -> Stakes \ {0}] :
       val = [v \in Validator |-> IF v \in DOMAIN GenesisKey
                                  THEN GenesisValidator(v, alloc[v])
                                  ELSE UnknownValidator]
  /\ keyOwner = [k \in ConsensusKey |->
       IF \E v \in DOMAIN GenesisKey : GenesisKey[v] = k
       THEN CHOOSE v \in DOMAIN GenesisKey : GenesisKey[v] = k ELSE NoOwner]
  /\ height = 0 /\ epochIndex = 0 /\ epochStart = 0
  /\ endEpochEarly = FALSE
  /\ touched = {}
  /\ consensusKeys = {GenesisKey[v] : v \in DOMAIN GenesisKey}
  /\ comet = consensusKeys
  /\ reported = keyOwner
  /\ phase = "BeginBlock"

\* process_evidence finds v by one of the keys it ever registered.
Accused(v, evidence) == val[v].state # "Unknown" /\ \E k \in evidence : keyOwner[k] = v

\* The new records of the block's evidence and uptime tracking: the owners of
\* the keys in evidence are tombstoned, then the validators in missed, still
\* active, are jailed, and the other active validators' uptime is brought to h.
\* (Mistake: only the keys CometBFT knows are tracked.)
BeginBlockRecordByComet(v, evidence, missed, h) ==
  LET r == val[v]
  IN IF Accused(v, evidence)
     THEN Transition(r, "Tombstoned", h, epochStart)
     ELSE IF r.indexed /\ r.state = "Active" /\ r.key \in comet
     THEN IF v \in missed THEN Transition(r, "Jailed", h, epochStart)
                          ELSE [r EXCEPT !.uptimeAsOf = h]
     ELSE r

BeginBlockRecord(v, evidence, missed, h) ==
  LET r == val[v]
  IN IF Accused(v, evidence)
     THEN Transition(r, "Tombstoned", h, epochStart)
     ELSE IF r.indexed /\ r.state = "Active"
     THEN IF v \in missed THEN Transition(r, "Jailed", h, epochStart)
                          ELSE [r EXCEPT !.uptimeAsOf = h]
     ELSE r

\* begin_block of the SCT component (the height) and of the staking component.
\* Evidence names keys that CometBFT has had in its validator set.
BeginBlock(evidence, missed) ==
  /\ phase = "BeginBlock"
  /\ height < MaxHeight
  /\ \A k \in evidence : reported[k] # NoOwner
  /\ missed \subseteq {v \in Indexed : val[v].state = "Active"}
  /\ height' = height + 1
  /\ val' = [v \in Validator |-> BeginBlockRecord(v, evidence, missed, height + 1)]
  /\ endEpochEarly' = \E v \in Validator : ExitsActiveSet(val[v].state, val'[v].state)
  /\ phase' = "DeliverTx"
  /\ UNCHANGED <<keyOwner, epochIndex, epochStart, touched, consensusKeys, comet, reported>>

\* The state update_validator_definition moves to.  The pool is worth at least
\* the voting power last computed: tournament rewards may have been added.
\* (Mistake: a jailed validator is looked at before the enabled field is.)
UpdatedStateJailedFirst(r, en, hasMinStake) ==
  IF r.state = "Tombstoned" THEN "Tombstoned"
  ELSE IF r.state = "Jailed" THEN IF hasMinStake THEN "Inactive" ELSE "Defined"
  ELSE IF ~en THEN "Disabled"
  ELSE IF r.state = "Disabled" THEN IF hasMinStake THEN "Inactive" ELSE "Defined"
  ELSE r.state

UpdatedState(r, en, hasMinStake) ==
  IF r.state = "Tombstoned" THEN "Tombstoned"
  ELSE IF ~en THEN "Disabled"
  ELSE IF r.state \notin {"Disabled", "Jailed"} THEN r.state
  ELSE IF hasMinStake THEN "Inactive"
  ELSE "Defined"

\* add_validator: unbonded, without voting power, outside the index.
AddedValidator == [UnknownValidator EXCEPT !.state = "Defined"]

WithDefinition(r, k, seq, en) == [r EXCEPT !.key = k, !.sequence = seq, !.enabled = en]

\* The consensus key k is unused, or was registered by v, now or earlier.
\* (Mistake: only the definitions in force are looked at.)
KeyNotInForce(v, k) == \A w \in Validator \ {v} : val[w].key # k
KeyAvailable(v, k) == keyOwner[k] \in {v, NoOwner}

\* A disabled validator waits for an epoch's duration.
BackoffElapsed(r) == height >= r.lastDisabled + EpochDuration

\* validator_definition.rs: the checks, then add_validator for an unknown
\* identity and update_validator_definition otherwise.
UploadDefinition(v, k, seq, en, hasMinStake) ==
  LET r   == val[v]
      new == IF r.state = "Unknown" THEN "Defined" ELSE UpdatedState(r, en, hasMinStake)
      moved == IF r.state = "Unknown" THEN AddedValidator
               ELSE IF new = r.state /\ (en \/ new = "Tombstoned") THEN r
               ELSE Transition(r, new, height, epochStart)
  IN /\ phase = "DeliverTx"
     /\ seq = MaxSequence => ~en
     /\ seq > r.sequence
     /\ KeyAvailable(v, k)
     /\ r.state = "Disabled" /\ en => BackoffElapsed(r)
     /\ r.power >= MinValidatorStake => hasMinStake
     /\ val' = [val EXCEPT ![v] = WithDefinition(moved, k, seq, en)]
     /\ endEpochEarly' = (endEpochEarly \/ ExitsActiveSet(r.state, new))
     /\ keyOwner' = [keyOwner EXCEPT ![k] = v]
     /\ UNCHANGED <<height, epochIndex, epochStart, touched, consensusKeys, comet,
                    reported, phase>>

\* delegate.rs: only to an enabled validator that is Defined, Inactive or
\* Active; the amounts are DelegationPool's.
AcceptsDelegations(r) == r.enabled /\ r.state \in {"Defined", "Inactive", "Active"}

Delegate(v) ==
  /\ phase = "DeliverTx"
  /\ AcceptsDelegations(val[v])
  /\ touched' = touched \cup {v}
  /\ val' = [val EXCEPT ![v].delegated = TRUE]
  /\ UNCHANGED <<keyOwner, height, epochIndex, epochStart, endEpochEarly,
                 consensusKeys, comet, reported, phase>>

\* undelegate.rs: whatever the validator's state, by a holder of its tokens.
Undelegate(v) ==
  /\ phase = "DeliverTx"
  /\ val[v].delegated
  /\ touched' = touched \cup {v}
  /\ UNCHANGED <<val, keyOwner, height, epochIndex, epochStart, endEpochEarly,
                 consensusKeys, comet, reported, phase>>

\* App::end_block: the epoch ends when its duration has elapsed, early when the
\* flag is set, and before an upgrade.
EpochEnds ==
  \/ height - epochStart >= EpochDuration - 1
  \/ endEpochEarly
  \/ height + 1 \in UpgradeHeights

EndBlock ==
  /\ phase = "DeliverTx"
  /\ ~EpochEnds
  /\ phase' = "BeginBlock"
  /\ endEpochEarly' = FALSE
  /\ UNCHANGED <<val, keyOwner, height, epochIndex, epochStart, touched,
                 consensusKeys, comet, reported>>

\* EpochHandler::end_epoch and build_cometbft_validator_updates: each processed
\* validator v is found to have the voting power power[v].
EndEpoch(power) ==
  LET processed == [v \in Validator |->
        IF v \in ToProcess THEN ProcessValidator(val[v], power[v], height, epochStart)
                           ELSE val[v]]
      recs == SelectActive(processed, height, epochStart)
  IN /\ phase = "DeliverTx"
     /\ EpochEnds
     /\ HasActiveStake
     /\ \A v \in ToProcess : ~val[v].delegated => power[v] = 0
     /\ val' = recs
     /\ consensusKeys' = PoweredKeys(recs)
     /\ comet' = (comet \ RemovedKeys(recs)) \cup PoweredKeys(recs)
     /\ reported' = [k \in ConsensusKey |->
          IF k \in PoweredKeys(recs)
          THEN CHOOSE v \in Validator : recs[v].indexed /\ recs[v].key = k
          ELSE reported[k]]
     /\ phase' = IF CometAccepts(recs) THEN "BeginBlock" ELSE "CometRejected"
     /\ epochIndex' = epochIndex + 1
     /\ epochStart' = height + 1
     /\ touched' = {}
     /\ endEpochEarly' = FALSE
     /\ UNCHANGED <<keyOwner, height>>

\* process_chain_base_rate divides by the total active stake: with none, the
\* node panics in end_block.
EndEpochPanics ==
  /\ phase = "DeliverTx"
  /\ EpochEnds
  /\ ~HasActiveStake
  /\ phase' = "NoActiveStake"
  /\ UNCHANGED <<val, keyOwner, height, epochIndex, epochStart, endEpochEarly,
                 touched, consensusKeys, comet, reported>>

Next ==
  \/ \E evidence \in SUBSET ConsensusKey, missed \in SUBSET Validator :
       BeginBlock(evidence, missed)
  \/ \E v \in Validator, k \in ConsensusKey, seq \in 0..MaxSequence,
        en \in BOOLEAN, hasMinStake \in BOOLEAN :
       UploadDefinition(v, k, seq, en, hasMinStake)
  \/ \E v \in Validator : Delegate(v) \/ Undelegate(v)
  \/ EndBlock
  \/ \E power \in [ToProcess -> Stakes] : EndEpoch(power)
  \/ EndEpochPanics

Spec == Init /\ [][Next]_vars

-----------------------------------------------------------------------------
(* Properties.                                                             *)

ActiveSet == {v \in Validator : val[v].state = "Active"}

\* The chain is between the end of one epoch and the first block of the next.
AtEpochBoundary == phase = "BeginBlock" /\ height > 0 /\ epochStart = height + 1

\* A pool is bonded exactly while its validator is active: what the
\* `expect("active validators MUST be bonded")` of set_validator_state_inner
\* relies on, through jailing, disabling, slashing and end-epoch processing.
ActiveIffBonded == \A v \in Validator : val[v].state = "Active" <=> val[v].bonding = "Bonded"

\* No validator escapes end-epoch processing: an active or inactive validator is
\* always in the consensus set index, and once an epoch has been processed the
\* index holds no other (belongs_in_index in process_validator).
IndexHoldsConsensusSet ==
  /\ \A v \in Validator : BelongsInIndex(val[v]) => val[v].indexed
  /\ AtEpochBoundary => \A v \in Indexed : BelongsInIndex(val[v])

\* The uptime record of an active validator is marked at every height, whatever
\* keys it rotates and whenever it was promoted: Uptime::mark_height_as_signed
\* refuses to skip a height, which would panic in begin_block.
UptimeContinuous == \A v \in ActiveSet : val[v].uptimeAsOf = height

\* A consensus key that CometBFT has ever been given stays attributed to the
\* validator it was reported for, so that late evidence finds that validator
\* even after it rotated its key.
EvidenceAttribution == \A k \in ConsensusKey : reported[k] # NoOwner => keyOwner[k] = reported[k]

\* After an epoch, CometBFT has one key for each active validator, the key of
\* its current definition, and no other.
CometMatchesActiveSet ==
  AtEpochBoundary =>
    /\ comet = {val[v].key : v \in ActiveSet}
    /\ Cardinality(comet) = Cardinality(ActiveSet)

\* Between blocks CometBFT runs consensus with no validator that has left the
\* active set: leaving it ends the epoch with the same block.
CometOnlyActive ==
  phase = "BeginBlock" => \A k \in comet : keyOwner[k] \in ActiveSet

\* After an epoch the active set is the right one: within the limit, no inactive
\* validator ahead of an active one, and no place left empty that a validator
\* with stake could take.
ActiveSetIsTop ==
  AtEpochBoundary =>
    LET waiting == {v \in Indexed : val[v].state = "Inactive" /\ val[v].power > 0}
    IN /\ Cardinality(ActiveSet) <= ActiveValidatorLimit
       /\ \A v \in ActiveSet, w \in waiting : val[v].power >= val[w].power
       /\ waiting # {} => Cardinality(ActiveSet) = ActiveValidatorLimit

\* An operator cannot grind epochs: a validator that is disabled while active,
\* which ends the epoch, was last disabled at least an epoch's duration before.
DisableBackoff ==
  [][\A v \in Validator :
       val[v].state = "Active" /\ val'[v].state = "Disabled" /\ val[v].lastDisabled # NeverDisabled
         => height >= val[v].lastDisabled + EpochDuration]_vars

\* Tombstoning is permanent: whatever its operator uploads and its delegators
\* do, the validator never leaves the state and its pool never bonds again.
TombstonePermanent ==
  [][\A v \in Validator : val[v].state = "Tombstoned"
       => val'[v].state = "Tombstoned" /\ val'[v].bonding = "Unbonded"]_vars

\* A validator whose definition in force is disabled is out of the consensus
\* set; in particular one whose sequence numbers are used up is out for good.
DisabledStayOut ==
  \A v \in Validator :
    ~val[v].enabled \/ val[v].sequence = MaxSequence => ~BelongsInIndex(val[v])

\* The chain stops at the end of an epoch, in the expect of
\* process_chain_base_rate or because CometBFT refuses the update, only when no
\* active validator is left: as long as there is one, it has stake, and CometBFT
\* is never asked to delete a key it does not know or to go on with none.
StopsOnlyWithoutValidators ==
  phase \in {"NoActiveStake", "CometRejected"} => ActiveSet = {}
=============================================================================

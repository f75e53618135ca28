----------------------- MODULE ValidatorManager_proofs -----------------------
(***************************************************************************)
(* Proofs about ValidatorManager, for any validators, keys and parameters. *)
(*                                                                         *)
(* Every record of val changes through the same few operators, so the      *)
(* argument is made once per operator on one record (RecordInv) and lifted *)
(* to val action by action.  The last part is about the selection of the   *)
(* active set: the sort is a strict total order of finitely many           *)
(* candidates, so those of rank below the limit are its first ones, and    *)
(* the first of the others has as many before it as the limit.             *)
(***************************************************************************)
EXTENDS ValidatorManager, SumTheorems

-----------------------------------------------------------------------------
(* The inductive invariant.                                                *)

\* What holds of one validator's record at height h.
RecordInv(r, h) ==
  /\ r \in ValidatorRecord
  /\ r.state = "Active" <=> r.bonding = "Bonded"
  /\ r.state = "Tombstoned" => r.bonding = "Unbonded"
  /\ r.state \in {"Active", "Inactive"} => r.indexed /\ r.enabled
  /\ r.state = "Unknown" \/ (r.state = "Defined" /\ ~r.enabled) => ~r.indexed /\ ~r.delegated
  /\ r.state = "Active" => r.uptimeAsOf = h
  /\ r.sequence = MaxSequence => ~r.enabled
  /\ r.state \notin {"Disabled", "Tombstoned"} /\ r.lastDisabled # NeverDisabled
       => h >= r.lastDisabled + EpochDuration

\* The registry knows the owner of every definition's key.
KeysOwned ==
  \A v \in Validator : val[v].state # "Unknown" =>
    val[v].key \in ConsensusKey /\ keyOwner[val[v].key] = v

\* The keys in CometBFT's set belong to active validators, unless the epoch is
\* about to end.
CometTracked ==
  /\ consensusKeys = comet
  /\ endEpochEarly \/ \A k \in comet : keyOwner[k] \in ActiveSet

\* Where the current height is in the current epoch.
EpochClock ==
  /\ phase = "BeginBlock" => epochStart <= height + 1 /\ ~endEpochEarly
  /\ phase = "DeliverTx" => epochStart <= height

IInv ==
  /\ TypeOK
  /\ \A v \in Validator : RecordInv(val[v], height)
  /\ \A v \in touched : val[v].delegated
  /\ KeysOwned
  /\ EvidenceAttribution
  /\ CometTracked
  /\ EpochClock
  /\ AtEpochBoundary => \A v \in Indexed : BelongsInIndex(val[v])

-----------------------------------------------------------------------------
(* Records.                                                                *)

\* Replacing the fields a transition writes keeps a record a record.
LEMMA TransitionUpdate ==
  ASSUME NEW r \in ValidatorRecord, NEW s \in State, NEW i \in BOOLEAN, NEW b \in Bonding,
         NEW u \in Nat, NEW p \in Nat, NEW d \in Int
  PROVE  [r EXCEPT !.state = s, !.indexed = i, !.bonding = b, !.unbondsAt = u,
                   !.uptimeAsOf = p, !.lastDisabled = d] \in ValidatorRecord
  BY DEF ValidatorRecord

\* Replacing the fields a definition upload writes keeps a record a record.
LEMMA DefinitionUpdate ==
  ASSUME NEW r \in ValidatorRecord, NEW k \in ConsensusKey, NEW q \in Int, NEW e \in BOOLEAN
  PROVE  LET t == WithDefinition(r, k, q, e)
         IN /\ t \in ValidatorRecord
            /\ t.key = k /\ t.sequence = q /\ t.enabled = e
            /\ t.state = r.state /\ t.bonding = r.bonding /\ t.indexed = r.indexed
            /\ t.delegated = r.delegated /\ t.uptimeAsOf = r.uptimeAsOf
            /\ t.lastDisabled = r.lastDisabled /\ t.power = r.power
<1>1. WithDefinition(r, k, q, e) \in ValidatorRecord
  <2>1. ASSUME NEW c \in ConsensusKey \cup {NoKey}
        PROVE  [r EXCEPT !.key = c, !.sequence = q, !.enabled = e] \in ValidatorRecord
    BY DEF ValidatorRecord
  <2> QED BY <2>1 DEF WithDefinition
<1> QED BY <1>1 DEF ValidatorRecord, WithDefinition

\* The record of a validator that has just been defined.
LEMMA AddedValidatorType ==
  /\ AddedValidator \in ValidatorRecord
  /\ AddedValidator.state = "Defined" /\ AddedValidator.bonding = "Unbonded"
  /\ AddedValidator.indexed = FALSE /\ AddedValidator.delegated = FALSE
  /\ AddedValidator.lastDisabled = NeverDisabled
<1>1. UnknownValidator \in ValidatorRecord
  BY DEF UnknownValidator, ValidatorRecord, Bonding, NeverDisabled
<1>2. AddedValidator \in ValidatorRecord
  BY <1>1 DEF AddedValidator, ValidatorRecord, State
<1> QED BY <1>2 DEF AddedValidator, UnknownValidator

\* The fields of a record after a transition.
LEMMA TransitionFields ==
  ASSUME NEW r \in ValidatorRecord, NEW new \in State, NEW h \in Nat, NEW start \in Nat
  PROVE  LET t == Transition(r, new, h, start)
         IN /\ t.state = new
            /\ t.indexed = (r.indexed \/ EntersIndex(r.state, new))
            /\ t.bonding = IF Activated(r.state, new) THEN "Bonded"
                           ELSE IF Discharged(r.state, new) THEN "Unbonding"
                           ELSE IF r.state # "Tombstoned" /\ new = "Tombstoned" THEN "Unbonded"
                           ELSE r.bonding
            /\ t.unbondsAt = IF Discharged(r.state, new)
                             THEN UnbondingHeight(r.bonding, r.unbondsAt, start)
                             ELSE r.unbondsAt
            /\ t.uptimeAsOf = IF Activated(r.state, new) THEN h ELSE r.uptimeAsOf
            /\ t.lastDisabled = IF new = "Disabled" THEN h ELSE r.lastDisabled
            /\ t.power = r.power /\ t.key = r.key /\ t.sequence = r.sequence
            /\ t.enabled = r.enabled /\ t.delegated = r.delegated
<1> DEFINE t == Transition(r, new, h, start)
<1>1. t.state = new /\ t.indexed = (r.indexed \/ EntersIndex(r.state, new))
  BY DEF Transition, ValidatorRecord
<1>2. t.bonding = IF Activated(r.state, new) THEN "Bonded"
                  ELSE IF Discharged(r.state, new) THEN "Unbonding"
                  ELSE IF r.state # "Tombstoned" /\ new = "Tombstoned" THEN "Unbonded"
                  ELSE r.bonding
  BY DEF Transition, ValidatorRecord
<1>3. t.unbondsAt = IF Discharged(r.state, new)
                    THEN UnbondingHeight(r.bonding, r.unbondsAt, start)
                    ELSE r.unbondsAt
  BY DEF Transition, ValidatorRecord
<1>4. /\ t.uptimeAsOf = IF Activated(r.state, new) THEN h ELSE r.uptimeAsOf
      /\ t.lastDisabled = IF new = "Disabled" THEN h ELSE r.lastDisabled
  BY DEF Transition, ValidatorRecord
<1>5. /\ t.power = r.power /\ t.key = r.key /\ t.sequence = r.sequence
      /\ t.enabled = r.enabled /\ t.delegated = r.delegated
  BY DEF Transition, ValidatorRecord
<1> QED BY <1>1, <1>2, <1>3, <1>4, <1>5

\* A transition of a record whose pool is bonded if it is active is a record.
LEMMA TransitionType ==
  ASSUME NEW r \in ValidatorRecord, NEW new \in State, NEW h \in Nat, NEW start \in Nat,
         r.state = "Active" => r.bonding = "Bonded"
  PROVE  Transition(r, new, h, start) \in ValidatorRecord
<1> DEFINE t == Transition(r, new, h, start)
<1>1. t = [r EXCEPT !.state = t.state, !.indexed = t.indexed, !.bonding = t.bonding,
                    !.unbondsAt = t.unbondsAt, !.uptimeAsOf = t.uptimeAsOf,
                    !.lastDisabled = t.lastDisabled]
  BY DEF Transition, ValidatorRecord
<1>2. t.state \in State /\ t.bonding \in Bonding
  BY TransitionFields DEF ValidatorRecord, Bonding
<1>3. t.unbondsAt \in Nat
  BY TransitionFields, ParameterAssumption, SMTT(30)
     DEF ValidatorRecord, Discharged, UnbondingHeight
<1>4. t.lastDisabled \in Int /\ t.uptimeAsOf \in Nat
  BY TransitionFields DEF ValidatorRecord
<1>5. t.indexed \in BOOLEAN
  BY DEF Transition, ValidatorRecord, EntersIndex
<1>6. t \in ValidatorRecord
  <2> HIDE DEF t
  <2>1. [r EXCEPT !.state = t.state, !.indexed = t.indexed, !.bonding = t.bonding,
                  !.unbondsAt = t.unbondsAt, !.uptimeAsOf = t.uptimeAsOf,
                  !.lastDisabled = t.lastDisabled] \in ValidatorRecord
    BY <1>2, <1>3, <1>4, <1>5, TransitionUpdate, ZenonT(40)
  <2> QED BY <1>1, <2>1, Zenon
<1> QED BY <1>6

-----------------------------------------------------------------------------
(* The operators keep RecordInv.                                           *)

\* A legal transition of a known validator keeps the record invariant, at the
\* same height or, unless it activates, at a later one.
LEMMA TransitionInv ==
  ASSUME NEW r, NEW h \in Nat, NEW g \in Nat, NEW start \in Nat, NEW new \in State,
         RecordInv(r, h), r.state # "Unknown", g >= h,
         new = "Active" => r.state \in {"Active", "Inactive"} /\ g = h,
         new \in {"Inactive", "Defined"} => r.enabled,
         new = "Jailed" => r.state \in {"Active", "Jailed"},
         r.state = "Tombstoned" => new = "Tombstoned",
         r.state = "Disabled" /\ new \notin {"Disabled", "Tombstoned"}
           /\ r.lastDisabled # NeverDisabled => g >= r.lastDisabled + EpochDuration
  PROVE  RecordInv(Transition(r, new, g, start), g)
<1> DEFINE t == Transition(r, new, g, start)
<1>1. r \in ValidatorRecord BY DEF RecordInv
<1>2. t \in ValidatorRecord BY <1>1, TransitionType DEF RecordInv
<1>3. /\ t.state = new
      /\ t.indexed = (r.indexed \/ EntersIndex(r.state, new))
      /\ t.uptimeAsOf = IF Activated(r.state, new) THEN g ELSE r.uptimeAsOf
      /\ t.lastDisabled = IF new = "Disabled" THEN g ELSE r.lastDisabled
      /\ t.sequence = r.sequence /\ t.enabled = r.enabled /\ t.delegated = r.delegated
  BY <1>1, TransitionFields
<1>4. t.bonding = IF Activated(r.state, new) THEN "Bonded"
                  ELSE IF Discharged(r.state, new) THEN "Unbonding"
                  ELSE IF r.state # "Tombstoned" /\ new = "Tombstoned" THEN "Unbonded"
                  ELSE r.bonding
  BY <1>1, TransitionFields
<1> HIDE DEF t
<1>5. /\ t.state = "Active" <=> t.bonding = "Bonded"
      /\ t.state = "Tombstoned" => t.bonding = "Unbonded"
  BY <1>1, <1>3, <1>4 DEF RecordInv, State, Activated, Discharged, ValidatorRecord
<1>6. t.state \in {"Active", "Inactive"} => t.indexed /\ t.enabled
  BY <1>1, <1>3 DEF RecordInv, EntersIndex, ValidatorRecord, State
<1>7. t.state = "Unknown" \/ (t.state = "Defined" /\ ~t.enabled) => ~t.indexed /\ ~t.delegated
  BY <1>3 DEF State
<1>8. t.state = "Active" => t.uptimeAsOf = g
  BY <1>3 DEF RecordInv, Activated
<1>9. t.state \notin {"Disabled", "Tombstoned"} /\ t.lastDisabled # NeverDisabled
        => g >= t.lastDisabled + EpochDuration
  BY <1>1, <1>3, ParameterAssumption DEF RecordInv, ValidatorRecord
<1>10. t.sequence = MaxSequence => ~t.enabled
  BY <1>3 DEF RecordInv
<1>11. RecordInv(t, g)
  BY <1>2, <1>5, <1>6, <1>7, <1>8, <1>9, <1>10 DEF RecordInv
<1> QED BY <1>11 DEF t

\* A block in which nothing happens to a validator that is not active.
LEMMA IdleInv ==
  ASSUME NEW r, NEW h \in Nat, RecordInv(r, h), r.state # "Active"
  PROVE  RecordInv(r, h + 1)
  BY ParameterAssumption DEF RecordInv, ValidatorRecord

\* Marking the uptime of a validator at the new height.
LEMMA UptimeInv ==
  ASSUME NEW r, NEW h \in Nat, RecordInv(r, h)
  PROVE  RecordInv([r EXCEPT !.uptimeAsOf = h + 1], h + 1)
<1> DEFINE t == [r EXCEPT !.uptimeAsOf = h + 1]
<1>1. r \in ValidatorRecord BY DEF RecordInv
<1>2. t \in ValidatorRecord BY <1>1 DEF ValidatorRecord
<1>3. /\ t.uptimeAsOf = h + 1 /\ t.state = r.state /\ t.bonding = r.bonding
      /\ t.indexed = r.indexed /\ t.enabled = r.enabled /\ t.delegated = r.delegated
      /\ t.sequence = r.sequence /\ t.lastDisabled = r.lastDisabled
  BY <1>1 DEF ValidatorRecord
<1> HIDE DEF t
<1>4. RecordInv(t, h + 1)
  BY <1>1, <1>2, <1>3, ParameterAssumption DEF RecordInv, ValidatorRecord
<1> QED BY <1>4 DEF t

\* A definition upload keeps the record invariant, whatever it moves to.
LEMMA UploadInv ==
  ASSUME NEW v \in Validator, NEW k \in ConsensusKey, NEW seq \in 0..MaxSequence,
         NEW en \in BOOLEAN, NEW hasMinStake \in BOOLEAN,
         height \in Nat, epochStart \in Nat,
         RecordInv(val[v], height), val \in [Validator -> ValidatorRecord],
         UploadDefinition(v, k, seq, en, hasMinStake)
  PROVE  RecordInv(val'[v], height)
<1> DEFINE r == val[v]
           new == IF r.state = "Unknown" THEN "Defined" ELSE UpdatedState(r, en, hasMinStake)
           moved == IF r.state = "Unknown" THEN AddedValidator
                    ELSE IF new = r.state /\ (en \/ new = "Tombstoned") THEN r
                    ELSE Transition(r, new, height, epochStart)
           t == WithDefinition(moved, k, seq, en)
<1>1. r \in ValidatorRecord BY DEF RecordInv
<1>2. /\ val' = [val EXCEPT ![v] = t]
      /\ seq = MaxSequence => ~en
      /\ r.state = "Disabled" /\ en => height >= r.lastDisabled + EpochDuration
  BY DEF UploadDefinition, BackoffElapsed
<1>3. /\ r.state = "Unknown" => new = "Defined"
      /\ r.state = "Tombstoned" => new = "Tombstoned"
      /\ r.state \notin {"Unknown", "Tombstoned"} /\ ~en => new = "Disabled"
      /\ r.state \in {"Disabled", "Jailed"} /\ en => new \in {"Inactive", "Defined"}
      /\ r.state \in {"Active", "Inactive", "Defined"} /\ en => new = r.state
  BY DEF UpdatedState
<1>31. new \in State
  BY <1>1, <1>3 DEF State, ValidatorRecord
<1>4. seq \in Int BY ParameterAssumption
<1> HIDE DEF new
<1>5. CASE r.state = "Unknown"
  <2>1. /\ moved \in ValidatorRecord /\ moved.state = "Defined" /\ moved.bonding = "Unbonded"
        /\ moved.indexed = FALSE /\ moved.delegated = FALSE /\ moved.lastDisabled = NeverDisabled
    BY <1>5, AddedValidatorType
  <2> HIDE DEF moved
  <2>2. /\ t \in ValidatorRecord /\ t.sequence = seq /\ t.enabled = en
        /\ t.state = moved.state /\ t.bonding = moved.bonding /\ t.indexed = moved.indexed
        /\ t.delegated = moved.delegated /\ t.lastDisabled = moved.lastDisabled
    BY <1>4, <2>1, DefinitionUpdate
  <2> HIDE DEF t
  <2>3. RecordInv(t, height)
    BY <1>2, <2>1, <2>2 DEF RecordInv, NeverDisabled
  <2> QED BY <1>2, <2>3
<1>6. CASE r.state # "Unknown" /\ new = r.state /\ (en \/ new = "Tombstoned")
  <2>1. moved = r BY <1>6
  <2> HIDE DEF moved
  <2>2. /\ t \in ValidatorRecord /\ t.sequence = seq /\ t.enabled = en
        /\ t.state = r.state /\ t.bonding = r.bonding /\ t.indexed = r.indexed
        /\ t.delegated = r.delegated /\ t.lastDisabled = r.lastDisabled
        /\ t.uptimeAsOf = r.uptimeAsOf
    BY <1>1, <1>4, <2>1, DefinitionUpdate
  <2> HIDE DEF t
  <2>3. RecordInv(t, height)
    BY <1>2, <1>6, <2>2 DEF RecordInv
  <2> QED BY <1>2, <2>3
<1>7. CASE r.state # "Unknown" /\ ~(new = r.state /\ (en \/ new = "Tombstoned"))
  <2>1. moved = Transition(r, new, height, epochStart) BY <1>7
  <2>2. /\ moved \in ValidatorRecord /\ moved.state = new
        /\ moved.indexed = (r.indexed \/ EntersIndex(r.state, new))
        /\ moved.bonding = IF Activated(r.state, new) THEN "Bonded"
                           ELSE IF Discharged(r.state, new) THEN "Unbonding"
                           ELSE IF r.state # "Tombstoned" /\ new = "Tombstoned" THEN "Unbonded"
                           ELSE r.bonding
        /\ moved.lastDisabled = IF new = "Disabled" THEN height ELSE r.lastDisabled
        /\ moved.delegated = r.delegated
    BY <1>1, <1>31, <2>1, TransitionFields, TransitionType DEF RecordInv
  <2>3. \/ new = "Disabled" /\ ~en
        \/ new \in {"Inactive", "Defined"} /\ en /\ r.state \in {"Disabled", "Jailed"}
    BY <1>1, <1>3, <1>7 DEF ValidatorRecord, State
  <2> HIDE DEF moved
  <2>4. /\ t \in ValidatorRecord /\ t.sequence = seq /\ t.enabled = en
        /\ t.state = moved.state /\ t.bonding = moved.bonding /\ t.indexed = moved.indexed
        /\ t.delegated = moved.delegated /\ t.lastDisabled = moved.lastDisabled
        /\ t.uptimeAsOf = moved.uptimeAsOf
    BY <1>4, <2>2, DefinitionUpdate
  <2> HIDE DEF t
  <2>5. t.state = "Active" <=> t.bonding = "Bonded"
    BY <1>1, <2>2, <2>3, <2>4 DEF RecordInv, Activated, Discharged, ValidatorRecord
  <2>6. t.state \in {"Active", "Inactive"} => t.indexed /\ t.enabled
    BY <2>2, <2>3, <2>4 DEF EntersIndex
  <2>7. t.state \notin {"Disabled", "Tombstoned"} /\ t.lastDisabled # NeverDisabled
          => height >= t.lastDisabled + EpochDuration
    BY <1>2, <2>2, <2>3, <2>4 DEF RecordInv
  <2>8. RecordInv(t, height)
    BY <1>2, <2>2, <2>3, <2>4, <2>5, <2>6, <2>7 DEF RecordInv
  <2> QED BY <1>2, <2>8
<1> QED BY <1>5, <1>6, <1>7

\* A new voting power is no part of the invariant.
LEMMA PowerInv ==
  ASSUME NEW r, NEW h \in Nat, NEW s \in Nat, RecordInv(r, h)
  PROVE  LET t == [r EXCEPT !.power = s]
         IN /\ RecordInv(t, h)
            /\ t.state = r.state /\ t.key = r.key /\ t.power = s /\ t.enabled = r.enabled
            /\ t.delegated = r.delegated /\ t.indexed = r.indexed
<1> DEFINE t == [r EXCEPT !.power = s]
<1>1. r \in ValidatorRecord BY DEF RecordInv
<1>2. t \in ValidatorRecord BY <1>1 DEF ValidatorRecord
<1>3. /\ t.uptimeAsOf = r.uptimeAsOf /\ t.state = r.state /\ t.bonding = r.bonding
      /\ t.indexed = r.indexed /\ t.enabled = r.enabled /\ t.delegated = r.delegated
      /\ t.sequence = r.sequence /\ t.lastDisabled = r.lastDisabled
      /\ t.key = r.key /\ t.power = s
  BY <1>1 DEF ValidatorRecord
<1> HIDE DEF t
<1>4. RecordInv(t, h) BY <1>1, <1>2, <1>3 DEF RecordInv
<1> QED BY <1>3, <1>4 DEF t

\* The last two steps of process_validator: the bonding state and the index.
LEMMA PoolStateInv ==
  ASSUME NEW r, NEW h \in Nat, NEW start \in Nat, RecordInv(r, h), r.state # "Unknown"
  PROVE  LET p == ProcessPoolState(r, start)
             t == [p EXCEPT !.indexed = @ /\ BelongsInIndex(p)]
         IN /\ RecordInv(t, h)
            /\ t.indexed => BelongsInIndex(t)
            /\ t.state = r.state /\ t.key = r.key /\ t.delegated = r.delegated
<1> DEFINE p == ProcessPoolState(r, start)
           t == [p EXCEPT !.indexed = @ /\ BelongsInIndex(p)]
<1>1. r \in ValidatorRecord BY DEF RecordInv
<1>2. /\ p \in ValidatorRecord
      /\ p.uptimeAsOf = r.uptimeAsOf /\ p.state = r.state
      /\ p.indexed = r.indexed /\ p.enabled = r.enabled /\ p.delegated = r.delegated
      /\ p.sequence = r.sequence /\ p.lastDisabled = r.lastDisabled /\ p.key = r.key
  BY <1>1 DEF ValidatorRecord, ProcessPoolState, Bonding
<1>3. /\ r.bonding = "Bonded" => p.bonding = "Bonded"
      /\ p.bonding \in {"Unbonded", r.bonding}
  BY <1>1, ParameterAssumption DEF ValidatorRecord, ProcessPoolState, UnbondingHeight, NoHeight
<1> HIDE DEF p
<1>4. t \in ValidatorRecord BY <1>2 DEF ValidatorRecord, BelongsInIndex
<1>5. /\ t.uptimeAsOf = r.uptimeAsOf /\ t.state = r.state /\ t.bonding = p.bonding
      /\ t.indexed = (r.indexed /\ r.state \in {"Active", "Inactive"})
      /\ t.enabled = r.enabled /\ t.delegated = r.delegated
      /\ t.sequence = r.sequence /\ t.lastDisabled = r.lastDisabled /\ t.key = r.key
  BY <1>2 DEF ValidatorRecord, BelongsInIndex
<1> HIDE DEF t
<1>6. RecordInv(t, h)
  BY <1>1, <1>3, <1>4, <1>5 DEF RecordInv
<1>7. t.indexed => BelongsInIndex(t)
  BY <1>5 DEF BelongsInIndex
<1> QED BY <1>5, <1>6, <1>7 DEF t, p

\* End-epoch processing of one validator: the record invariant is kept, only
\* active and inactive validators stay in the index, and the state moves only
\* between Defined, Inactive and Active.
LEMMA ProcessInv ==
  ASSUME NEW r, NEW h \in Nat, NEW start \in Nat, NEW s \in Nat,
         RecordInv(r, h), r.indexed \/ r.delegated
  PROVE  LET t == ProcessValidator(r, s, h, start)
         IN /\ RecordInv(t, h)
            /\ t.indexed => BelongsInIndex(t)
            /\ t.key = r.key /\ t.delegated = r.delegated
            /\ t.state = r.state \/ (r.state \in {"Defined", "Inactive", "Active"}
                                     /\ t.state \in {"Defined", "Inactive"})
            /\ t.state # "Unknown"
<1> DEFINE powered == [r EXCEPT !.power = s]
           new == PrecursorState(powered)
           moved == IF new = r.state THEN powered ELSE Transition(powered, new, h, start)
<1>1. /\ RecordInv(powered, h)
      /\ powered.state = r.state /\ powered.key = r.key /\ powered.enabled = r.enabled
      /\ powered.delegated = r.delegated /\ powered.indexed = r.indexed
  BY PowerInv
<1>2. r.state # "Unknown" /\ (r.state = "Defined" => r.enabled)
  BY DEF RecordInv, ValidatorRecord
<1>3. r.state \in State \cup {"Unknown"} BY DEF RecordInv, ValidatorRecord
<1> HIDE DEF powered
<1>4. /\ new = r.state \/ (r.state \in {"Defined", "Inactive", "Active"}
                           /\ new \in {"Defined", "Inactive"})
      /\ new \in State
  BY <1>1, <1>2, <1>3 DEF PrecursorState, State
<1>5. /\ RecordInv(moved, h) /\ moved.state = new /\ moved.key = r.key
      /\ moved.delegated = r.delegated
  <2>1. CASE new = r.state
    BY <1>1, <2>1
  <2>2. CASE new # r.state
    <3> HIDE DEF new
    <3>1. powered.enabled
      BY <1>1, <1>2, <1>4, <2>2 DEF RecordInv
    <3>2. RecordInv(Transition(powered, new, h, start), h)
      BY <1>1, <1>2, <1>4, <2>2, <3>1, TransitionInv
    <3>3. powered \in ValidatorRecord BY <1>1 DEF RecordInv
    <3> QED BY <1>1, <1>4, <2>2, <3>2, <3>3, TransitionFields
  <2> QED BY <2>1, <2>2
<1> HIDE DEF new, moved
<1>6. ProcessValidator(r, s, h, start)
        = [ProcessPoolState(moved, start) EXCEPT
             !.indexed = @ /\ BelongsInIndex(ProcessPoolState(moved, start))]
  BY DEF ProcessValidator, moved, new, powered
<1>7. new # "Unknown" BY <1>4 DEF State
<1> QED BY <1>4, <1>5, <1>6, <1>7, PoolStateInv

-----------------------------------------------------------------------------
(* The invariant is inductive.                                             *)

\* Genesis validators satisfy the record invariant.
LEMMA GenesisInv ==
  ASSUME NEW v \in DOMAIN GenesisKey, NEW s \in Stakes
  PROVE  /\ RecordInv(GenesisValidator(v, s), 0)
         /\ GenesisValidator(v, s).key = GenesisKey[v]
         /\ GenesisValidator(v, s).state = "Active"
<1> DEFINE t == GenesisValidator(v, s)
<1>1. t = [state |-> "Active", bonding |-> "Bonded", unbondsAt |-> 0,
           lastDisabled |-> NeverDisabled, uptimeAsOf |-> 0, indexed |-> TRUE,
           power |-> s, key |-> GenesisKey[v], sequence |-> 0, enabled |-> TRUE,
           delegated |-> TRUE]
  BY DEF GenesisValidator
<1>2. s \in Nat /\ GenesisKey[v] \in ConsensusKey
  BY StakesAssumption, GenesisAssumption
<1> HIDE DEF t
<1>3. t \in ValidatorRecord
  BY <1>1, <1>2 DEF ValidatorRecord, State, Bonding, NeverDisabled
<1>4. RecordInv(t, 0)
  BY <1>1, <1>3, ParameterAssumption DEF RecordInv
<1> QED BY <1>1, <1>4 DEF t

\* Identities that are not validators do too.
LEMMA UnknownInv == RecordInv(UnknownValidator, 0)
<1>1. UnknownValidator \in ValidatorRecord
  BY DEF UnknownValidator, ValidatorRecord, Bonding, NeverDisabled
<1> QED BY <1>1, ParameterAssumption DEF RecordInv, UnknownValidator, NeverDisabled

\* Genesis satisfies the invariant.
LEMMA InitIInv == Init => IInv
<1> SUFFICES ASSUME Init PROVE IInv
  OBVIOUS
<1> DEFINE G == DOMAIN GenesisKey
<1>1. PICK alloc \in [G -> Stakes \ {0}] :
        val = [v \in Validator |-> IF v \in G THEN GenesisValidator(v, alloc[v])
                                               ELSE UnknownValidator]
  BY DEF Init
<1>2. G \subseteq Validator BY GenesisAssumption
<1>3. \A v \in Validator : RecordInv(val[v], 0)
  BY <1>1, GenesisInv, UnknownInv
<1>4. val \in [Validator -> ValidatorRecord]
  BY <1>1, <1>3 DEF RecordInv
<1>5. \A k \in ConsensusKey :
        \/ keyOwner[k] = NoOwner /\ \A v \in G : GenesisKey[v] # k
        \/ keyOwner[k] \in G /\ GenesisKey[keyOwner[k]] = k
  BY DEF Init
<1>6. \A v \in G : keyOwner[GenesisKey[v]] = v
  BY <1>5, GenesisAssumption
<1>7. keyOwner \in [ConsensusKey -> Validator \cup {NoOwner}]
  BY <1>2, <1>5 DEF Init
<1>8. \A v \in Validator : /\ v \in G => val[v].state = "Active" /\ val[v].key = GenesisKey[v]
                           /\ v \notin G => val[v].state = "Unknown"
  <2>1. UnknownValidator.state = "Unknown" BY DEF UnknownValidator
  <2> QED BY <1>1, <1>2, <2>1, GenesisInv
<1>9. KeysOwned
  BY <1>2, <1>6, <1>8, GenesisAssumption DEF KeysOwned
<1>10. CometTracked
  <2>1. \A k \in comet : \E v \in G : k = GenesisKey[v] BY DEF Init
  <2> QED BY <1>2, <1>6, <1>8, <2>1 DEF CometTracked, ActiveSet, Init
<1>11. consensusKeys \subseteq ConsensusKey BY GenesisAssumption DEF Init
<1>12. TypeOK
  BY <1>4, <1>7, <1>11 DEF TypeOK, Init, Phase
<1> QED
  BY <1>3, <1>9, <1>10, <1>12 DEF IInv, Init, EvidenceAttribution, EpochClock, AtEpochBoundary

\* BeginBlock: evidence, then uptime.
LEMMA BeginBlockIInv ==
  ASSUME IInv, NEW evidence \in SUBSET ConsensusKey, NEW missed \in SUBSET Validator,
         BeginBlock(evidence, missed)
  PROVE  IInv'
<1> USE DEF IInv
<1>1. /\ height \in Nat /\ height' = height + 1 /\ epochStart \in Nat
      /\ val \in [Validator -> ValidatorRecord]
  BY DEF TypeOK, BeginBlock
<1>2. ASSUME NEW v \in Validator
      PROVE  /\ RecordInv(val'[v], height')
             /\ val'[v].key = val[v].key /\ val'[v].delegated = val[v].delegated
             /\ (val'[v].state = "Unknown") = (val[v].state = "Unknown")
             /\ val[v].state = "Active" =>
                  val'[v].state = "Active" \/ ExitsActiveSet(val[v].state, val'[v].state)
  <2> DEFINE r == val[v]
  <2>1. val'[v] = BeginBlockRecord(v, evidence, missed, height + 1)
    BY DEF BeginBlock
  <2>2. RecordInv(r, height) /\ r \in ValidatorRecord BY <1>1
  <2>3. CASE Accused(v, evidence)
    <3>1. val'[v] = Transition(r, "Tombstoned", height + 1, epochStart)
      BY <2>1, <2>3 DEF BeginBlockRecord
    <3>2. RecordInv(Transition(r, "Tombstoned", height + 1, epochStart), height + 1)
      BY <1>1, <2>2, <2>3, TransitionInv DEF Accused, State
    <3> QED BY <1>1, <2>2, <2>3, <3>1, <3>2, TransitionFields DEF State, ExitsActiveSet, Accused
  <2>4. CASE ~Accused(v, evidence) /\ r.indexed /\ r.state = "Active" /\ v \in missed
    <3>1. val'[v] = Transition(r, "Jailed", height + 1, epochStart)
      BY <2>1, <2>4 DEF BeginBlockRecord
    <3>2. RecordInv(Transition(r, "Jailed", height + 1, epochStart), height + 1)
      BY <1>1, <2>2, <2>4, TransitionInv DEF State
    <3> QED BY <1>1, <2>2, <2>4, <3>1, <3>2, TransitionFields DEF State, ExitsActiveSet
  <2>5. CASE ~Accused(v, evidence) /\ r.indexed /\ r.state = "Active" /\ v \notin missed
    <3>1. val'[v] = [r EXCEPT !.uptimeAsOf = height + 1]
      BY <2>1, <2>5 DEF BeginBlockRecord
    <3>2. RecordInv([r EXCEPT !.uptimeAsOf = height + 1], height + 1)
      BY <1>1, <2>2, UptimeInv
    <3> QED BY <1>1, <2>2, <3>1, <3>2 DEF ValidatorRecord
  <2>6. CASE ~Accused(v, evidence) /\ ~(r.indexed /\ r.state = "Active")
    <3>1. val'[v] = r BY <2>1, <2>6 DEF BeginBlockRecord
    <3>2. r.state # "Active" BY <2>2, <2>6 DEF RecordInv
    <3> QED BY <1>1, <2>2, <3>1, <3>2, IdleInv
  <2> QED BY <2>3, <2>4, <2>5, <2>6
<1>3. val' \in [Validator -> ValidatorRecord]
  BY <1>2 DEF BeginBlock, RecordInv
<1>4. TypeOK' BY <1>1, <1>3 DEF TypeOK, BeginBlock, Phase
<1>5. KeysOwned' BY <1>2 DEF KeysOwned, BeginBlock
<1>6. CometTracked'
  <2>1. CASE \E v \in Validator : ExitsActiveSet(val[v].state, val'[v].state)
    BY <2>1 DEF CometTracked, BeginBlock
  <2>2. CASE ~ \E v \in Validator : ExitsActiveSet(val[v].state, val'[v].state)
    <3>1. ActiveSet \subseteq ActiveSet' BY <1>2, <2>2 DEF ActiveSet
    <3>2. \A k \in comet : keyOwner[k] \in ActiveSet
      BY DEF CometTracked, EpochClock, BeginBlock
    <3> QED BY <3>1, <3>2 DEF CometTracked, BeginBlock
  <2> QED BY <2>1, <2>2
<1>7. EpochClock' /\ ~AtEpochBoundary'
  BY <1>1 DEF EpochClock, AtEpochBoundary, BeginBlock
<1>8. (\A v \in touched : val[v].delegated)'
  BY <1>2 DEF TypeOK, BeginBlock
<1>9. EvidenceAttribution' BY DEF EvidenceAttribution, BeginBlock
<1> QED BY <1>2, <1>4, <1>5, <1>6, <1>7, <1>8, <1>9

\* UploadDefinition.
LEMMA UploadIInv ==
  ASSUME IInv, NEW v \in Validator, NEW k \in ConsensusKey, NEW seq \in 0..MaxSequence,
         NEW en \in BOOLEAN, NEW hasMinStake \in BOOLEAN,
         UploadDefinition(v, k, seq, en, hasMinStake)
  PROVE  IInv'
<1> USE DEF IInv
<1> DEFINE r == val[v]
           new == IF r.state = "Unknown" THEN "Defined" ELSE UpdatedState(r, en, hasMinStake)
           moved == IF r.state = "Unknown" THEN AddedValidator
                    ELSE IF new = r.state /\ (en \/ new = "Tombstoned") THEN r
                    ELSE Transition(r, new, height, epochStart)
<1>1. /\ val \in [Validator -> ValidatorRecord] /\ height \in Nat /\ epochStart \in Nat
      /\ RecordInv(r, height) /\ keyOwner \in [ConsensusKey -> Validator \cup {NoOwner}]
  BY DEF TypeOK
<1>2. /\ val' = [val EXCEPT ![v] = WithDefinition(moved, k, seq, en)]
      /\ keyOwner' = [keyOwner EXCEPT ![k] = v]
      /\ keyOwner[k] \in {v, NoOwner}
      /\ endEpochEarly' = (endEpochEarly \/ ExitsActiveSet(r.state, new))
      /\ UNCHANGED <<height, epochIndex, epochStart, touched, consensusKeys, comet,
                     reported, phase>>
      /\ phase = "DeliverTx"
  BY DEF UploadDefinition, KeyAvailable
<1>3. RecordInv(val'[v], height)
  BY <1>1, UploadInv
<1>4. \A w \in Validator : RecordInv(val'[w], height')
  BY <1>1, <1>2, <1>3
<1>5. val' \in [Validator -> ValidatorRecord]
  BY <1>1, <1>2, <1>4 DEF RecordInv
<1>6. new \in State
  BY <1>1 DEF UpdatedState, State, ValidatorRecord
<1>7. /\ moved \in ValidatorRecord
      /\ moved.state = new
      /\ r.delegated => moved.delegated
  <2>1. CASE r.state = "Unknown"
    BY <1>1, <2>1, AddedValidatorType DEF RecordInv, ValidatorRecord
  <2>2. CASE r.state # "Unknown" /\ new = r.state /\ (en \/ new = "Tombstoned")
    BY <1>1, <2>2
  <2>3. CASE r.state # "Unknown" /\ ~(new = r.state /\ (en \/ new = "Tombstoned"))
    <3>1. moved = Transition(r, new, height, epochStart) BY <2>3
    <3> HIDE DEF moved, new
    <3> QED BY <1>1, <1>6, <3>1, TransitionFields, TransitionType DEF RecordInv
  <2> QED BY <2>1, <2>2, <2>3
<1>8. seq \in Int BY ParameterAssumption
<1> HIDE DEF moved, new
<1>9. /\ val'[v].key = k /\ val'[v].state = new
      /\ val[v].delegated => val'[v].delegated
      /\ \A w \in Validator \ {v} : val'[w] = val[w]
  BY <1>1, <1>2, <1>7, <1>8, DefinitionUpdate
<1>10. TypeOK'
  <2>1. endEpochEarly' \in BOOLEAN BY <1>2 DEF ExitsActiveSet
  <2>2. keyOwner' \in [ConsensusKey -> Validator \cup {NoOwner}] BY <1>1, <1>2
  <2> QED BY <1>2, <1>5, <2>1, <2>2 DEF TypeOK
<1>11. \A c \in ConsensusKey : keyOwner[c] # NoOwner => keyOwner'[c] = keyOwner[c]
  BY <1>1, <1>2
<1>12. KeysOwned'
  <2> SUFFICES ASSUME NEW w \in Validator, val'[w].state # "Unknown"
               PROVE  val'[w].key \in ConsensusKey /\ keyOwner'[val'[w].key] = w
    BY DEF KeysOwned
  <2>1. CASE w = v BY <1>1, <1>2, <1>9, <2>1
  <2>2. CASE w # v
    <3>1. keyOwner[val[w].key] = w /\ val[w].key \in ConsensusKey
      BY <1>9, <2>2 DEF KeysOwned
    <3> QED BY <1>9, <1>11, <2>2, <3>1, AbsentAssumption
  <2> QED BY <2>1, <2>2
<1>13. EvidenceAttribution'
  BY <1>2, <1>11 DEF EvidenceAttribution
<1>14. CometTracked'
  <2>1. CASE endEpochEarly \/ ExitsActiveSet(r.state, new)
    BY <1>2, <2>1 DEF CometTracked
  <2>2. CASE ~endEpochEarly /\ ~ExitsActiveSet(r.state, new)
    <3>1. r.state = "Active" => new = "Active"
      BY <1>1, <1>2, <2>2 DEF ExitsActiveSet, new, UpdatedState
    <3>2. ActiveSet \subseteq ActiveSet' BY <1>9, <3>1 DEF ActiveSet
    <3>3. \A c \in comet : c \in ConsensusKey /\ keyOwner[c] \in ActiveSet
      BY <2>2 DEF CometTracked, TypeOK
    <3>4. \A c \in comet : keyOwner'[c] = keyOwner[c]
      BY <1>11, <3>3, AbsentAssumption DEF ActiveSet
    <3> QED BY <1>2, <3>2, <3>3, <3>4 DEF CometTracked
  <2> QED BY <2>1, <2>2
<1>15. (\A w \in touched : val[w].delegated)'
  BY <1>2, <1>9 DEF TypeOK
<1>16. EpochClock' /\ ~AtEpochBoundary'
  BY <1>2 DEF EpochClock, AtEpochBoundary
<1> QED BY <1>4, <1>10, <1>12, <1>13, <1>14, <1>15, <1>16

\* Delegate and Undelegate.
LEMMA DelegateIInv ==
  ASSUME IInv, NEW v \in Validator, Delegate(v) \/ Undelegate(v)
  PROVE  IInv'
<1> USE DEF IInv
<1>1. /\ val \in [Validator -> ValidatorRecord] /\ height \in Nat
      /\ RecordInv(val[v], height)
  BY DEF TypeOK
<1>2. /\ UNCHANGED <<keyOwner, height, epochIndex, epochStart, endEpochEarly,
                     consensusKeys, comet, reported, phase>>
      /\ touched' = touched \cup {v} /\ phase = "DeliverTx"
  BY DEF Delegate, Undelegate
<1>3. /\ val' \in [Validator -> ValidatorRecord]
      /\ \A w \in Validator : RecordInv(val'[w], height)
      /\ \A w \in Validator : val'[w].key = val[w].key /\ val'[w].state = val[w].state
      /\ \A w \in Validator : val[w].delegated => val'[w].delegated
      /\ val'[v].delegated
  <2>1. CASE Undelegate(v) BY <1>1, <2>1 DEF Undelegate
  <2>2. CASE Delegate(v)
    <3> DEFINE r == val[v]
               t == [r EXCEPT !.delegated = TRUE]
    <3>1. val' = [val EXCEPT ![v] = t] /\ AcceptsDelegations(r)
      BY <2>2 DEF Delegate
    <3>2. r \in ValidatorRecord BY <1>1
    <3>3. t \in ValidatorRecord BY <3>2 DEF ValidatorRecord
    <3>4. /\ t.delegated = TRUE /\ t.state = r.state /\ t.bonding = r.bonding
          /\ t.indexed = r.indexed /\ t.enabled = r.enabled /\ t.uptimeAsOf = r.uptimeAsOf
          /\ t.sequence = r.sequence /\ t.lastDisabled = r.lastDisabled /\ t.key = r.key
      BY <3>2 DEF ValidatorRecord
    <3> HIDE DEF t
    <3>5. RecordInv(t, height)
      BY <1>1, <3>1, <3>3, <3>4 DEF RecordInv, AcceptsDelegations
    <3> QED BY <1>1, <3>1, <3>3, <3>4, <3>5
  <2> QED BY <2>1, <2>2
<1>4. TypeOK' BY <1>2, <1>3 DEF TypeOK
<1>5. KeysOwned' /\ EvidenceAttribution'
  BY <1>2, <1>3 DEF KeysOwned, EvidenceAttribution
<1>6. CometTracked'
  <2>1. ActiveSet' = ActiveSet BY <1>3 DEF ActiveSet
  <2> QED BY <1>2, <2>1 DEF CometTracked
<1>7. (\A w \in touched : val[w].delegated)'
  BY <1>2, <1>3 DEF TypeOK
<1>8. EpochClock' /\ ~AtEpochBoundary'
  BY <1>2 DEF EpochClock, AtEpochBoundary
<1> QED BY <1>2, <1>3, <1>4, <1>5, <1>6, <1>7, <1>8

\* EndBlock and EndEpochPanics change no validator.
LEMMA QuietIInv ==
  ASSUME IInv, EndBlock \/ EndEpochPanics \/ UNCHANGED vars
  PROVE  IInv'
<1> USE DEF IInv
<1>1. /\ val' = val /\ keyOwner' = keyOwner /\ height' = height /\ epochIndex' = epochIndex
      /\ epochStart' = epochStart /\ touched' = touched /\ consensusKeys' = consensusKeys
      /\ comet' = comet /\ reported' = reported
  BY DEF EndBlock, EndEpochPanics, vars
<1>2. KeysOwned' /\ EvidenceAttribution' /\ ActiveSet' = ActiveSet /\ Indexed' = Indexed
  BY <1>1 DEF KeysOwned, EvidenceAttribution, ActiveSet, Indexed
<1>3. (\A v \in Validator : RecordInv(val[v], height))' /\ (\A v \in touched : val[v].delegated)'
  BY <1>1
<1>4. CASE EndBlock
  <2>1. /\ phase = "DeliverTx" /\ phase' = "BeginBlock" /\ ~endEpochEarly
        /\ endEpochEarly' = FALSE
    BY <1>4 DEF EndBlock, EpochEnds
  <2>2. TypeOK' BY <1>1, <2>1 DEF TypeOK, Phase
  <2>3. CometTracked' BY <1>1, <1>2, <2>1 DEF CometTracked
  <2>4. epochStart' # height' + 1 /\ epochStart' <= height' + 1
    BY <1>1, <2>1 DEF EpochClock, TypeOK
  <2>5. EpochClock' BY <2>1, <2>4 DEF EpochClock
  <2>6. ~AtEpochBoundary' BY <2>4 DEF AtEpochBoundary
  <2> QED BY <1>2, <1>3, <2>2, <2>3, <2>5, <2>6
<1>5. CASE EndEpochPanics
  <2>1. phase' = "NoActiveStake" /\ endEpochEarly' = endEpochEarly
    BY <1>5 DEF EndEpochPanics
  <2>2. TypeOK' BY <1>1, <2>1 DEF TypeOK, Phase
  <2>3. CometTracked' BY <1>1, <1>2, <2>1 DEF CometTracked
  <2>4. EpochClock' /\ ~AtEpochBoundary' BY <2>1 DEF EpochClock, AtEpochBoundary
  <2> QED BY <1>2, <1>3, <2>2, <2>3, <2>4
<1>6. CASE UNCHANGED vars
  <2>1. phase' = phase /\ endEpochEarly' = endEpochEarly
    BY <1>6 DEF vars
  <2>2. TypeOK' BY <1>1, <2>1 DEF TypeOK
  <2>3. CometTracked' BY <1>1, <1>2, <2>1 DEF CometTracked
  <2>4. EpochClock' BY <1>1, <2>1 DEF EpochClock
  <2>5. (AtEpochBoundary => \A v \in Indexed : BelongsInIndex(val[v]))'
    BY <1>1, <1>2, <2>1 DEF AtEpochBoundary
  <2> QED BY <1>2, <1>3, <2>2, <2>3, <2>4, <2>5
<1> QED BY <1>4, <1>5, <1>6

\* What the selection of the active set does to one record.
LEMMA SelectInv ==
  ASSUME NEW recs, NEW v \in Validator, NEW h \in Nat, NEW start \in Nat, RecordInv(recs[v], h)
  PROVE  LET t == SelectActive(recs, h, start)[v]
         IN /\ RecordInv(t, h)
            /\ t.key = recs[v].key /\ t.delegated = recs[v].delegated
            /\ t.indexed = recs[v].indexed
            /\ t.state = recs[v].state \/ (BelongsInIndex(recs[v]) /\ BelongsInIndex(t))
<1> DEFINE r == recs[v]
           t == SelectActive(recs, h, start)[v]
<1>1. r \in ValidatorRecord BY DEF RecordInv
<1>2. CASE v \in Candidates(recs)
  <2>1. r.state \in {"Active", "Inactive"} /\ r.indexed /\ r.enabled
    BY <1>2 DEF Candidates, BelongsInIndex, RecordInv
  <2>2. PICK new \in {"Active", "Inactive"} : t = Transition(r, new, h, start)
    BY <1>2 DEF SelectActive
  <2>3. new \in State /\ new # "Unknown" BY DEF State
  <2>4. RecordInv(Transition(r, new, h, start), h)
    <3>1. r.state # "Unknown" /\ r.state # "Tombstoned" /\ r.state # "Disabled" /\ new # "Jailed"
      BY <2>1
    <3> HIDE DEF r
    <3> QED BY <2>1, <2>3, <3>1, TransitionInv DEF r
  <2> HIDE DEF t
  <2>5. /\ t.state = new /\ t.key = r.key /\ t.delegated = r.delegated
        /\ t.indexed = (r.indexed \/ EntersIndex(r.state, new))
    BY <1>1, <2>2, <2>3, TransitionFields
  <2>6. t.indexed = r.indexed
    <3>1. r.indexed \in BOOLEAN BY <1>1 DEF ValidatorRecord
    <3>2. EntersIndex(r.state, new) = FALSE BY <2>1 DEF EntersIndex
    <3> QED BY <2>5, <3>1, <3>2
  <2> QED BY <2>1, <2>2, <2>4, <2>5, <2>6 DEF BelongsInIndex, t
<1>3. CASE v \notin Candidates(recs)
  <2>1. t = r BY <1>3 DEF SelectActive, TopValidators, Powered
  <2> QED BY <2>1
<1> QED BY <1>2, <1>3

\* The records after end_epoch has processed the validators one by one.
Processed(power) ==
  [v \in Validator |->
     IF v \in ToProcess THEN ProcessValidator(val[v], power[v], height, epochStart)
                        ELSE val[v]]

\* What that does to one record, whether it is processed or not.
LEMMA ProcessedInv ==
  ASSUME IInv, NEW power \in [ToProcess -> Stakes], NEW v \in Validator
  PROVE  LET t == Processed(power)[v]
         IN /\ RecordInv(t, height)
            /\ t.indexed => BelongsInIndex(t)
            /\ t.key = val[v].key /\ t.delegated = val[v].delegated
            /\ (t.state = "Unknown") = (val[v].state = "Unknown")
            /\ val[v].state \in {"Tombstoned", "Jailed", "Disabled"} => t.state = val[v].state
<1>1. /\ val \in [Validator -> ValidatorRecord] /\ height \in Nat /\ epochStart \in Nat
      /\ RecordInv(val[v], height)
  BY DEF IInv, TypeOK
<1>2. CASE v \in ToProcess
  <2>1. power[v] \in Nat BY <1>2, StakesAssumption
  <2>2. val[v].indexed \/ val[v].delegated BY <1>2 DEF ToProcess, Indexed, IInv
  <2>3. val[v].state # "Unknown" BY <1>1, <2>2 DEF RecordInv
  <2>4. Processed(power)[v] = ProcessValidator(val[v], power[v], height, epochStart)
    BY <1>2 DEF Processed
  <2> QED BY <1>1, <2>1, <2>2, <2>3, <2>4, ProcessInv
<1>3. CASE v \notin ToProcess
  <2>1. ~val[v].indexed BY <1>3 DEF ToProcess, Indexed
  <2>2. Processed(power)[v] = val[v] BY <1>3 DEF Processed
  <2> QED BY <1>1, <2>1, <2>2
<1> QED BY <1>2, <1>3

\* EndEpoch.
LEMMA EndEpochIInv ==
  ASSUME IInv, NEW power \in [ToProcess -> Stakes], EndEpoch(power)
  PROVE  IInv'
<1> USE DEF IInv
<1> DEFINE processed == Processed(power)
           recs == SelectActive(processed, height, epochStart)
<1>1. /\ val \in [Validator -> ValidatorRecord] /\ height \in Nat /\ epochStart \in Nat
      /\ epochIndex \in Nat
  BY DEF TypeOK
<1>2. /\ val' = recs
      /\ consensusKeys' = PoweredKeys(recs)
      /\ comet' = (comet \ RemovedKeys(recs)) \cup PoweredKeys(recs)
      /\ reported' = [k \in ConsensusKey |->
           IF k \in PoweredKeys(recs)
           THEN CHOOSE v \in Validator : recs[v].indexed /\ recs[v].key = k
           ELSE reported[k]]
      /\ phase' \in {"BeginBlock", "CometRejected"}
      /\ epochIndex' = epochIndex + 1 /\ epochStart' = height + 1
      /\ touched' = {} /\ endEpochEarly' = FALSE
      /\ keyOwner' = keyOwner /\ height' = height
  BY DEF EndEpoch, Processed
<1>3. ASSUME NEW v \in Validator
      PROVE  /\ RecordInv(processed[v], height)
             /\ processed[v].indexed => BelongsInIndex(processed[v])
             /\ processed[v].key = val[v].key
             /\ (processed[v].state = "Unknown") = (val[v].state = "Unknown")
  BY ProcessedInv
<1> HIDE DEF processed
<1>4. ASSUME NEW v \in Validator
      PROVE  /\ RecordInv(recs[v], height)
             /\ recs[v].indexed => BelongsInIndex(recs[v])
             /\ recs[v].key = val[v].key
             /\ (recs[v].state = "Unknown") = (val[v].state = "Unknown")
  <2>1. /\ RecordInv(recs[v], height)
        /\ recs[v].key = processed[v].key /\ recs[v].indexed = processed[v].indexed
        /\ \/ recs[v].state = processed[v].state
           \/ BelongsInIndex(processed[v]) /\ BelongsInIndex(recs[v])
    BY <1>1, <1>3, SelectInv
  <2> HIDE DEF recs
  <2> QED BY <1>3, <2>1 DEF BelongsInIndex
<1>5. recs = [v \in Validator |-> recs[v]] BY DEF SelectActive
<1> HIDE DEF recs
<1>6. val' \in [Validator -> ValidatorRecord]
  BY <1>2, <1>4, <1>5 DEF RecordInv
<1>7. \A k \in PoweredKeys(recs) :
        \E v \in Validator : recs[v].indexed /\ recs[v].state = "Active" /\ recs[v].key = k
  BY DEF PoweredKeys
<1>8. \A v \in Validator : recs[v].indexed => recs[v].key \in ConsensusKey
                                             /\ keyOwner[recs[v].key] = v
  BY <1>4 DEF KeysOwned, BelongsInIndex
<1>9. comet' = PoweredKeys(recs)
  BY <1>2 DEF CometTracked, RemovedKeys
<1>10. ASSUME NEW k \in PoweredKeys(recs)
       PROVE  reported'[k] \in Validator /\ keyOwner[k] = reported'[k] /\ k \in ConsensusKey
  <2>1. \E v \in Validator : recs[v].indexed /\ recs[v].key = k BY <1>7
  <2>2. k \in ConsensusKey BY <1>8, <2>1
  <2>3. reported'[k] = CHOOSE v \in Validator : recs[v].indexed /\ recs[v].key = k
    BY <1>2, <2>2
  <2>4. reported'[k] \in Validator /\ recs[reported'[k]].indexed /\ recs[reported'[k]].key = k
    BY <2>1, <2>3
  <2> QED BY <1>8, <2>2, <2>4
<1>11. reported' \in [ConsensusKey -> Validator \cup {NoOwner}]
  <2>1. \A k \in ConsensusKey : reported'[k] \in Validator \cup {NoOwner}
    BY <1>2, <1>10 DEF TypeOK
  <2> QED BY <1>2, <2>1
<1>12. TypeOK'
  <2>1. PoweredKeys(recs) \subseteq ConsensusKey BY <1>10
  <2>2. phase' \in Phase BY <1>2 DEF Phase
  <2>3. height' \in Nat /\ epochIndex' \in Nat /\ epochStart' \in Nat BY <1>1, <1>2
  <2> QED BY <1>2, <1>6, <1>9, <1>11, <2>1, <2>2, <2>3 DEF TypeOK
<1>13. KeysOwned'
  BY <1>2, <1>4 DEF KeysOwned
<1>14. EvidenceAttribution'
  BY <1>2, <1>10 DEF EvidenceAttribution
<1>15. CometTracked'
  <2>1. \A k \in comet' : keyOwner'[k] \in ActiveSet'
    BY <1>2, <1>7, <1>8, <1>9 DEF ActiveSet
  <2> QED BY <1>2, <1>9, <2>1 DEF CometTracked
<1>16. EpochClock'
  BY <1>1, <1>2 DEF EpochClock
<1>17. (\A v \in Indexed : BelongsInIndex(val[v]))'
  BY <1>2, <1>4 DEF Indexed
<1>18. (\A v \in Validator : RecordInv(val[v], height))' /\ (\A v \in touched : val[v].delegated)'
  BY <1>2, <1>4
<1> QED BY <1>12, <1>13, <1>14, <1>15, <1>16, <1>17, <1>18

\* Every step keeps the invariant.
LEMMA NextIInv == IInv /\ [Next]_vars => IInv'
<1> SUFFICES ASSUME IInv, [Next]_vars PROVE IInv'
  OBVIOUS
<1>1. CASE \E evidence \in SUBSET ConsensusKey, missed \in SUBSET Validator :
             BeginBlock(evidence, missed)
  BY <1>1, BeginBlockIInv
<1>2. CASE \E v \in Validator, k \in ConsensusKey, seq \in 0..MaxSequence,
              en \in BOOLEAN, hasMinStake \in BOOLEAN :
             UploadDefinition(v, k, seq, en, hasMinStake)
  BY <1>2, UploadIInv
<1>3. CASE \E v \in Validator : Delegate(v) \/ Undelegate(v)
  BY <1>3, DelegateIInv
<1>4. CASE \E power \in [ToProcess -> Stakes] : EndEpoch(power)
  BY <1>4, EndEpochIInv
<1>5. CASE EndBlock \/ EndEpochPanics \/ UNCHANGED vars
  BY <1>5, QuietIInv
<1> QED BY <1>1, <1>2, <1>3, <1>4, <1>5 DEF Next

\* The invariant holds in every state.
LEMMA Inductive == Spec => []IInv
  BY InitIInv, NextIInv, PTL DEF Spec

-----------------------------------------------------------------------------
(* The theorems.                                                           *)

\* Every variable keeps its type; in particular the unbonding height that is
\* computed for a discharged validator always exists.
THEOREM TypeCorrect == Spec => []TypeOK
<1>1. IInv => TypeOK BY DEF IInv
<1> QED BY Inductive, <1>1, PTL

\* A pool is bonded exactly while its validator is active, so that the
\* `expect("active validators MUST be bonded")` never fires.
THEOREM ActiveBonded == Spec => []ActiveIffBonded
<1>1. IInv => ActiveIffBonded BY DEF IInv, ActiveIffBonded, RecordInv
<1> QED BY Inductive, <1>1, PTL

\* No validator escapes end-epoch processing.
THEOREM IndexComplete == Spec => []IndexHoldsConsensusSet
<1>1. IInv => IndexHoldsConsensusSet
  BY DEF IInv, IndexHoldsConsensusSet, RecordInv, BelongsInIndex
<1> QED BY Inductive, <1>1, PTL

\* An active validator's uptime is tracked at every height.
THEOREM UptimeTracked == Spec => []UptimeContinuous
<1>1. IInv => UptimeContinuous BY DEF IInv, UptimeContinuous, ActiveSet, RecordInv
<1> QED BY Inductive, <1>1, PTL

\* Evidence under any key CometBFT was ever given reaches the validator it was
\* given for.
THEOREM EvidenceAttributed == Spec => []EvidenceAttribution
<1>1. IInv => EvidenceAttribution BY DEF IInv
<1> QED BY Inductive, <1>1, PTL

\* Between blocks CometBFT runs with active validators only.
THEOREM CometFollows == Spec => []CometOnlyActive
<1>1. IInv => CometOnlyActive
  BY DEF IInv, CometOnlyActive, CometTracked, EpochClock
<1> QED BY Inductive, <1>1, PTL

\* A disabled validator is out of the consensus set.
THEOREM DisabledOut == Spec => []DisabledStayOut
<1>1. IInv => DisabledStayOut
  BY DEF IInv, DisabledStayOut, RecordInv, BelongsInIndex
<1> QED BY Inductive, <1>1, PTL

\* The second invariant, above the first: an active validator has stake.
Staked == \A v \in Validator : val[v].state = "Active" => val[v].power > 0

\* Genesis validators have stake.
LEMMA InitStaked == Init => Staked
<1> SUFFICES ASSUME Init, NEW v \in Validator, val[v].state = "Active" PROVE val[v].power > 0
  BY DEF Staked
<1>1. PICK alloc \in [DOMAIN GenesisKey -> Stakes \ {0}] :
        val[v] = IF v \in DOMAIN GenesisKey THEN GenesisValidator(v, alloc[v])
                                             ELSE UnknownValidator
  BY DEF Init
<1>2. v \in DOMAIN GenesisKey BY <1>1 DEF UnknownValidator
<1>3. alloc[v] \in Nat \ {0} BY <1>2, StakesAssumption
<1> QED BY <1>1, <1>2, <1>3 DEF GenesisValidator

\* A transaction or the begin of a block makes no validator active and computes
\* no voting power.
LEMMA BlockStaked ==
  ASSUME IInv, Staked, NEW v \in Validator, val'[v].state = "Active",
         \/ \E evidence \in SUBSET ConsensusKey, missed \in SUBSET Validator :
              BeginBlock(evidence, missed)
         \/ \E w \in Validator, k \in ConsensusKey, seq \in 0..MaxSequence,
               en \in BOOLEAN, hasMinStake \in BOOLEAN :
              UploadDefinition(w, k, seq, en, hasMinStake)
         \/ \E w \in Validator : Delegate(w) \/ Undelegate(w)
         \/ EndBlock \/ EndEpochPanics \/ UNCHANGED vars
  PROVE  val'[v].power > 0
<1>1. /\ val \in [Validator -> ValidatorRecord] /\ height \in Nat /\ epochStart \in Nat
      /\ val[v] \in ValidatorRecord
  BY DEF IInv, TypeOK
<1>2. SUFFICES val[v].state = "Active" /\ val'[v].power = val[v].power
  BY DEF Staked
<1>3. ASSUME NEW evidence \in SUBSET ConsensusKey, NEW missed \in SUBSET Validator,
             BeginBlock(evidence, missed)
      PROVE  val[v].state = "Active" /\ val'[v].power = val[v].power
  <2>1. val'[v] = BeginBlockRecord(v, evidence, missed, height + 1)
    BY <1>3 DEF BeginBlock
  <2>2. \/ val'[v] = val[v]
        \/ val'[v] = [val[v] EXCEPT !.uptimeAsOf = height + 1]
        \/ \E new \in {"Tombstoned", "Jailed"} :
             val'[v] = Transition(val[v], new, height + 1, epochStart)
    BY <2>1 DEF BeginBlockRecord
  <2>3. ASSUME NEW new \in {"Tombstoned", "Jailed"}
        PROVE  Transition(val[v], new, height + 1, epochStart).state = new
    BY <1>1, TransitionFields DEF State
  <2> QED BY <1>1, <2>2, <2>3 DEF ValidatorRecord
<1>4. ASSUME NEW w \in Validator, NEW k \in ConsensusKey, NEW seq \in 0..MaxSequence,
             NEW en \in BOOLEAN, NEW hasMinStake \in BOOLEAN,
             UploadDefinition(w, k, seq, en, hasMinStake)
      PROVE  val[v].state = "Active" /\ val'[v].power = val[v].power
  <2> DEFINE r == val[v]
             new == IF r.state = "Unknown" THEN "Defined" ELSE UpdatedState(r, en, hasMinStake)
             moved == IF r.state = "Unknown" THEN AddedValidator
                      ELSE IF new = r.state /\ (en \/ new = "Tombstoned") THEN r
                      ELSE Transition(r, new, height, epochStart)
  <2>1. CASE w # v BY <1>1, <1>4, <2>1 DEF UploadDefinition
  <2>2. CASE w = v
    <3>1. seq \in Int BY ParameterAssumption
    <3>2. val'[v] = WithDefinition(moved, k, seq, en)
      BY <1>1, <1>4, <2>2 DEF UploadDefinition
    <3>3. CASE r.state = "Unknown"
      <4>1. moved = AddedValidator BY <3>3
      <4> QED BY <3>1, <3>2, <4>1, AddedValidatorType, DefinitionUpdate
    <3>4. CASE r.state # "Unknown" /\ new = r.state /\ (en \/ new = "Tombstoned")
      <4>1. moved = r BY <3>4
      <4> QED BY <1>1, <3>1, <3>2, <4>1, DefinitionUpdate
    <3>5. CASE r.state # "Unknown" /\ ~(new = r.state /\ (en \/ new = "Tombstoned"))
      <4>1. moved = Transition(r, new, height, epochStart) BY <3>5
      <4>2. new \in State /\ new # "Active"
        BY <1>1, <3>5 DEF UpdatedState, State, ValidatorRecord
      <4>3. RecordInv(r, height) BY DEF IInv
      <4> HIDE DEF new, moved
      <4>4. moved \in ValidatorRecord /\ moved.state = new
        BY <1>1, <4>1, <4>2, <4>3, TransitionFields, TransitionType DEF RecordInv
      <4> QED BY <3>1, <3>2, <4>2, <4>4, DefinitionUpdate
    <3> QED BY <3>3, <3>4, <3>5
  <2> QED BY <2>1, <2>2
<1>5. ASSUME NEW w \in Validator, Delegate(w) \/ Undelegate(w)
      PROVE  val[v].state = "Active" /\ val'[v].power = val[v].power
  <2>1. val' = [val EXCEPT ![w].delegated = TRUE] \/ val' = val
    BY <1>5 DEF Delegate, Undelegate
  <2> QED BY <1>1, <2>1 DEF ValidatorRecord
<1>6. CASE EndBlock \/ EndEpochPanics \/ UNCHANGED vars
  <2>1. val' = val BY <1>6 DEF EndBlock, EndEpochPanics, vars
  <2> QED BY <2>1
<1> QED BY <1>3, <1>4, <1>5, <1>6

\* The end of an epoch chooses active validators among those with stake, and
\* CometBFT refuses its updates only if it chooses none.
LEMMA EpochStaked ==
  ASSUME IInv, NEW power \in [ToProcess -> Stakes], EndEpoch(power)
  PROVE  Staked' /\ StopsOnlyWithoutValidators'
<1> DEFINE processed == Processed(power)
           recs == SelectActive(processed, height, epochStart)
<1>1. /\ val' = recs
      /\ phase' = IF CometAccepts(recs) THEN "BeginBlock" ELSE "CometRejected"
  BY DEF EndEpoch, Processed
<1>2. height \in Nat /\ epochStart \in Nat /\ consensusKeys = comet
  BY DEF IInv, TypeOK, CometTracked
<1>3. ASSUME NEW v \in Validator, recs[v].state = "Active"
      PROVE  recs[v].indexed /\ recs[v].power > 0
  <2>1. RecordInv(processed[v], height) BY ProcessedInv
  <2> HIDE DEF processed
  <2>2. RecordInv(recs[v], height) BY <1>2, <2>1, SelectInv
  <2>3. recs[v].indexed BY <1>3, <2>2 DEF RecordInv
  <2>4. processed[v] \in ValidatorRecord BY <2>1 DEF RecordInv
  <2>5. CASE v \in TopValidators(processed)
    <3>1. recs[v] = Transition(processed[v], "Active", height, epochStart)
      BY <2>5 DEF SelectActive
    <3>2. processed[v].power > 0 BY <2>5 DEF TopValidators, Powered
    <3> HIDE DEF recs
    <3>3. recs[v].power = processed[v].power
      BY <1>2, <2>4, <3>1, TransitionFields DEF State
    <3> QED BY <2>3, <3>2, <3>3
  <2>6. CASE v \notin TopValidators(processed) /\ v \in Candidates(processed)
    <3>1. recs[v] = Transition(processed[v], "Inactive", height, epochStart)
      BY <2>6 DEF SelectActive
    <3> HIDE DEF recs
    <3>2. recs[v].state = "Inactive" BY <1>2, <2>4, <3>1, TransitionFields DEF State
    <3> QED BY <1>3, <3>2
  <2>7. CASE v \notin TopValidators(processed) /\ v \notin Candidates(processed)
    <3>1. recs[v] = processed[v] BY <2>7 DEF SelectActive
    <3>2. v \in Candidates(processed)
      BY <1>3, <2>3, <3>1 DEF Candidates, BelongsInIndex
    <3> QED BY <2>7, <3>2
  <2> QED BY <2>5, <2>6, <2>7
<1> HIDE DEF recs
<1>4. Staked' BY <1>1, <1>3 DEF Staked
<1>5. ASSUME ~CometAccepts(recs) PROVE ActiveSet' = {}
  <2>1. PoweredKeys(recs) = {} BY <1>2, <1>5 DEF CometAccepts, RemovedKeys
  <2>2. ~ \E v \in Validator : recs[v].state = "Active"
    BY <1>3, <2>1 DEF PoweredKeys
  <2> QED BY <1>1, <2>2 DEF ActiveSet
<1>6. StopsOnlyWithoutValidators' BY <1>1, <1>5 DEF StopsOnlyWithoutValidators
<1> QED BY <1>4, <1>6

\* The chain stops at the end of an epoch only when no active validator is left.
THEOREM StopsOnlyEmpty == Spec => []StopsOnlyWithoutValidators
<1> DEFINE Inv == IInv /\ Staked /\ StopsOnlyWithoutValidators
<1>1. Init => Inv
  BY InitIInv, InitStaked DEF StopsOnlyWithoutValidators, Init
<1>2. Inv /\ [Next]_vars => Inv'
  <2> SUFFICES ASSUME Inv, [Next]_vars PROVE Staked' /\ StopsOnlyWithoutValidators'
    BY NextIInv
  <2>1. CASE \E power \in [ToProcess -> Stakes] : EndEpoch(power)
    BY <2>1, EpochStaked
  <2>2. CASE ~ \E power \in [ToProcess -> Stakes] : EndEpoch(power)
    <3>1. Staked' BY <2>2, BlockStaked DEF Next, Staked
    <3>2. CASE EndEpochPanics
      <4>1. ActiveSet = {}
        BY <3>2 DEF EndEpochPanics, HasActiveStake, Indexed, ActiveSet, Staked, IInv, RecordInv
      <4>2. ActiveSet' = ActiveSet BY <3>2 DEF EndEpochPanics, ActiveSet
      <4> QED BY <3>1, <4>1, <4>2 DEF StopsOnlyWithoutValidators
    <3>3. CASE UNCHANGED vars
      BY <3>1, <3>3 DEF vars, StopsOnlyWithoutValidators, ActiveSet
    <3>4. CASE ~EndEpochPanics /\ ~UNCHANGED vars
      <4>1. phase' \in {"BeginBlock", "DeliverTx"}
        <5>1. \A evidence \in SUBSET ConsensusKey, missed \in SUBSET Validator :
                BeginBlock(evidence, missed) => phase' = "DeliverTx"
          BY DEF BeginBlock
        <5>2. \A v \in Validator, k \in ConsensusKey, seq \in 0..MaxSequence,
                 en \in BOOLEAN, hasMinStake \in BOOLEAN :
                UploadDefinition(v, k, seq, en, hasMinStake) => phase' = "DeliverTx"
          BY DEF UploadDefinition
        <5>3. \A v \in Validator : Delegate(v) \/ Undelegate(v) => phase' = "DeliverTx"
          BY DEF Delegate, Undelegate
        <5>4. EndBlock => phase' = "BeginBlock" BY DEF EndBlock
        <5> QED BY <2>2, <3>4, <5>1, <5>2, <5>3, <5>4 DEF Next
      <4> QED BY <3>1, <4>1 DEF StopsOnlyWithoutValidators
    <3> QED BY <3>2, <3>3, <3>4
  <2> QED BY <2>1, <2>2
<1>3. Spec => []Inv BY <1>1, <1>2, PTL DEF Spec
<1> QED BY <1>3, PTL

\* Two exits of one validator from the active set by its operator are at least
\* an epoch's duration apart.
THEOREM NoEpochGrinding == Spec => DisableBackoff
<1> DEFINE Backoff == \A v \in Validator :
             val[v].state = "Active" /\ val'[v].state = "Disabled" /\ val[v].lastDisabled # NeverDisabled
               => height >= val[v].lastDisabled + EpochDuration
<1>1. IInv => Backoff BY DEF IInv, RecordInv
<1>2. IInv /\ [Next]_vars => [Backoff]_vars BY <1>1
<1>3. Spec => [][Backoff]_vars BY Inductive, <1>2, PTL DEF Spec
<1> QED BY <1>3 DEF DisableBackoff

\* Tombstoning is permanent.
THEOREM TombstoneForever == Spec => TombstonePermanent
<1> DEFINE Stays == \A v \in Validator : val[v].state = "Tombstoned"
             => val'[v].state = "Tombstoned" /\ val'[v].bonding = "Unbonded"
<1>1. IInv /\ [Next]_vars => [Stays]_vars
  <2> SUFFICES ASSUME IInv, Next, NEW v \in Validator, val[v].state = "Tombstoned"
               PROVE  val'[v].state = "Tombstoned" /\ val'[v].bonding = "Unbonded"
    OBVIOUS
  <2>1. RecordInv(val'[v], height') BY NextIInv DEF IInv
  <2>2. /\ val \in [Validator -> ValidatorRecord] /\ height \in Nat /\ epochStart \in Nat
        /\ RecordInv(val[v], height)
    BY DEF IInv, TypeOK
  <2>3. val'[v].state = "Tombstoned"
    <3>1. ASSUME NEW evidence \in SUBSET ConsensusKey, NEW missed \in SUBSET Validator,
                 BeginBlock(evidence, missed)
          PROVE  val'[v].state = "Tombstoned"
      <4>1. val'[v] = BeginBlockRecord(v, evidence, missed, height + 1)
        BY <3>1 DEF BeginBlock
      <4>2. val'[v] = val[v] \/ val'[v] = Transition(val[v], "Tombstoned", height + 1, epochStart)
        BY <4>1 DEF BeginBlockRecord
      <4> QED BY <2>2, <4>2, TransitionFields DEF State
    <3>2. ASSUME NEW w \in Validator, NEW k \in ConsensusKey, NEW seq \in 0..MaxSequence,
                 NEW en \in BOOLEAN, NEW hasMinStake \in BOOLEAN,
                 UploadDefinition(w, k, seq, en, hasMinStake)
          PROVE  val'[v].state = "Tombstoned"
      <4>1. CASE w # v BY <2>2, <3>2, <4>1 DEF UploadDefinition
      <4>2. CASE w = v
        <5>1. val' = [val EXCEPT ![v] = WithDefinition(val[v], k, seq, en)]
          BY <3>2, <4>2 DEF UploadDefinition, UpdatedState
        <5>2. seq \in Int BY ParameterAssumption
        <5> QED BY <2>2, <5>1, <5>2, DefinitionUpdate
      <4> QED BY <4>1, <4>2
    <3>3. ASSUME NEW w \in Validator, Delegate(w) \/ Undelegate(w)
          PROVE  val'[v].state = "Tombstoned"
      BY <2>2, <3>3 DEF Delegate, Undelegate, AcceptsDelegations
    <3>4. CASE EndBlock \/ EndEpochPanics
      BY <3>4 DEF EndBlock, EndEpochPanics
    <3>5. ASSUME NEW power \in [ToProcess -> Stakes], EndEpoch(power)
          PROVE  val'[v].state = "Tombstoned"
      <4> DEFINE processed == Processed(power)
      <4>1. val' = SelectActive(processed, height, epochStart)
        BY <3>5 DEF EndEpoch, Processed
      <4>2. RecordInv(processed[v], height) /\ processed[v].state = "Tombstoned"
        BY ProcessedInv
      <4> HIDE DEF processed
      <4>3. /\ val'[v].state = processed[v].state
               \/ (BelongsInIndex(processed[v]) /\ BelongsInIndex(val'[v]))
        BY <2>2, <4>1, <4>2, SelectInv
      <4> QED BY <4>2, <4>3 DEF BelongsInIndex
    <3> QED BY <3>1, <3>2, <3>3, <3>4, <3>5 DEF Next
  <2> QED BY <2>1, <2>3 DEF RecordInv
<1>2. Spec => [][Stays]_vars BY Inductive, <1>1, PTL DEF Spec
<1> QED BY <1>2 DEF TombstonePermanent
-----------------------------------------------------------------------------
(* The selection of the active set.                                        *)

\* Powers is what the sort compares: the voting power of every candidate that
\* has one is a natural number.
Powers(recs) == \A v \in Powered(recs) : recs[v].power \in Nat

\* The candidates that the sort puts before v.
Ahead(recs, v) == {u \in Powered(recs) : Precedes(recs, u, v)}

\* Finitely many candidates are ahead of a validator; its rank is their number.
LEMMA RankType ==
  ASSUME NEW recs, NEW v
  PROVE  /\ IsFiniteSet(Powered(recs)) /\ IsFiniteSet(Ahead(recs, v))
         /\ Rank(recs, v) = Cardinality(Ahead(recs, v)) /\ Rank(recs, v) \in Nat
<1>1. Powered(recs) \subseteq Validator /\ Ahead(recs, v) \subseteq Validator
  BY DEF Powered, Candidates, Ahead
<1>2. IsFiniteSet(Powered(recs)) /\ IsFiniteSet(Ahead(recs, v))
  BY <1>1, ValidatorAssumption, FS_Subset
<1> QED BY <1>2, FS_CardinalityType DEF Rank, Ahead

\* The sort is a strict total order.
LEMMA SortOrder ==
  ASSUME NEW recs, Powers(recs), NEW u \in Powered(recs), NEW v \in Powered(recs)
  PROVE  /\ ~Precedes(recs, u, u)
         /\ u # v => Precedes(recs, u, v) \/ Precedes(recs, v, u)
         /\ \A w \in Powered(recs) :
              Precedes(recs, u, v) /\ Precedes(recs, v, w) => Precedes(recs, u, w)
<1>1. u \in Int /\ v \in Int /\ recs[u].power \in Nat /\ recs[v].power \in Nat
  BY ValidatorAssumption DEF Powers, Powered, Candidates
<1>2. ASSUME NEW w \in Powered(recs), Precedes(recs, u, v), Precedes(recs, v, w)
      PROVE  Precedes(recs, u, w)
  <2>1. w \in Int /\ recs[w].power \in Nat
    BY ValidatorAssumption DEF Powers, Powered, Candidates
  <2> QED BY <1>1, <1>2, <2>1 DEF Precedes
<1> QED BY <1>1, <1>2 DEF Precedes

\* Who comes first has a smaller rank.
LEMMA RankLess ==
  ASSUME NEW recs, Powers(recs), NEW u \in Powered(recs), NEW v \in Powered(recs),
         Precedes(recs, u, v)
  PROVE  Rank(recs, u) + 1 <= Rank(recs, v)
<1>1. PICK A, B : A = Ahead(recs, u) /\ B = Ahead(recs, v)
  OBVIOUS
<1>2. /\ IsFiniteSet(A) /\ IsFiniteSet(B)
      /\ Rank(recs, u) = Cardinality(A) /\ Rank(recs, v) = Cardinality(B)
      /\ Cardinality(A) \in Nat /\ Cardinality(B) \in Nat
  BY <1>1, RankType
<1>3. u \notin A /\ A \cup {u} \subseteq B
  BY <1>1, SortOrder DEF Ahead
<1>4. Cardinality(A \cup {u}) = Cardinality(A) + 1
  BY <1>2, <1>3, FS_AddElement
<1>5. Cardinality(A \cup {u}) <= Cardinality(B)
  BY <1>2, <1>3, FS_Subset
<1> QED BY <1>2, <1>4, <1>5

\* A candidate of smaller rank comes first.
LEMMA RankFirst ==
  ASSUME NEW recs, Powers(recs), NEW u \in Powered(recs), NEW v \in Powered(recs),
         Rank(recs, u) <= Rank(recs, v), u # v
  PROVE  Precedes(recs, u, v)
<1>1. Precedes(recs, u, v) \/ Precedes(recs, v, u)
  BY SortOrder
<1>2. Precedes(recs, v, u) => Rank(recs, v) + 1 <= Rank(recs, u)
  BY RankLess
<1>3. Rank(recs, u) \in Nat /\ Rank(recs, v) \in Nat
  BY RankType
<1> QED BY <1>1, <1>2, <1>3

\* One of the candidates in S comes first.
LEMMA FirstRank ==
  ASSUME NEW recs, NEW S, S # {}
  PROVE  \E v \in S : \A u \in S : Rank(recs, v) <= Rank(recs, u)
<1> DEFINE Exists == \E v \in S : \A u \in S : Rank(recs, v) <= Rank(recs, u)
           N == {n \in Nat : (\E v \in S : Rank(recs, v) <= n) => Exists}
<1>0. \A v \in S : Rank(recs, v) \in Nat
  BY RankType
<1>1. 0 \in N
  <2>1. ASSUME NEW v \in S, Rank(recs, v) <= 0 PROVE \A u \in S : Rank(recs, v) <= Rank(recs, u)
    BY <1>0, <2>1
  <2> QED BY <2>1
<1>2. ASSUME NEW n \in Nat, n \in N PROVE n + 1 \in N
  <2>1. CASE \E v \in S : Rank(recs, v) <= n
    BY <1>2, <2>1
  <2>2. CASE \A v \in S : ~(Rank(recs, v) <= n)
    <3>1. \A u \in S : n + 1 <= Rank(recs, u)
      BY <1>0, <2>2
    <3>2. ASSUME NEW v \in S, Rank(recs, v) <= n + 1
          PROVE  \A u \in S : Rank(recs, v) <= Rank(recs, u)
      BY <1>0, <3>1, <3>2
    <3> QED BY <3>2
  <2> QED BY <2>1, <2>2
<1>3. \A n \in Nat : n \in N
  <2> HIDE DEF N
  <2> QED BY <1>1, <1>2, NatSetInduction
<1>4. PICK v \in S : TRUE
  OBVIOUS
<1>5. Rank(recs, v) \in N /\ Rank(recs, v) <= Rank(recs, v)
  BY <1>0, <1>3
<1> QED BY <1>4, <1>5

\* If the ranks in S are below a limit, one of the candidates in S comes last.
LEMMA LastRank ==
  ASSUME NEW recs, NEW S, S # {}, NEW limit \in Nat, \A v \in S : Rank(recs, v) < limit
  PROVE  \E v \in S : \A u \in S : Rank(recs, u) <= Rank(recs, v)
<1> DEFINE Exists == \E v \in S : \A u \in S : Rank(recs, u) <= Rank(recs, v)
           N == {n \in Nat : (\E v \in S : limit <= Rank(recs, v) + n) => Exists}
<1>0. \A v \in S : Rank(recs, v) \in Nat
  BY RankType
<1>1. 0 \in N
  BY <1>0
<1>2. ASSUME NEW n \in Nat, n \in N PROVE n + 1 \in N
  <2>1. CASE \E v \in S : limit <= Rank(recs, v) + n
    BY <1>2, <2>1
  <2>2. CASE \A v \in S : ~(limit <= Rank(recs, v) + n)
    <3>1. \A u \in S : Rank(recs, u) + n + 1 <= limit
      BY <1>0, <2>2
    <3>2. ASSUME NEW v \in S, limit <= Rank(recs, v) + (n + 1)
          PROVE  \A u \in S : Rank(recs, u) <= Rank(recs, v)
      BY <1>0, <3>1, <3>2
    <3> QED BY <3>2
  <2> QED BY <2>1, <2>2
<1>3. \A n \in Nat : n \in N
  <2> HIDE DEF N
  <2> QED BY <1>1, <1>2, NatSetInduction
<1>4. PICK v \in S : TRUE
  OBVIOUS
<1>5. limit \in N /\ limit <= Rank(recs, v) + limit
  BY <1>0, <1>3
<1> QED BY <1>4, <1>5

\* The selection takes as many candidates as the limit allows, and those the
\* sort puts first: all of them, or exactly as many as the limit.
LEMMA TopSelection ==
  ASSUME NEW recs, Powers(recs)
  PROVE  /\ IsFiniteSet(TopValidators(recs))
         /\ Cardinality(TopValidators(recs)) <= ActiveValidatorLimit
         /\ \A v \in TopValidators(recs), w \in Powered(recs) \ TopValidators(recs) :
              recs[v].power >= recs[w].power
         /\ Powered(recs) # TopValidators(recs) =>
              Cardinality(TopValidators(recs)) = ActiveValidatorLimit
<1>1. PICK P, T, L : P = Powered(recs) /\ T = TopValidators(recs) /\ L = ActiveValidatorLimit
  OBVIOUS
<1>2. T = {v \in P : Rank(recs, v) < L} /\ L \in Nat /\ L # 0
  BY <1>1, ParameterAssumption DEF TopValidators
<1>3. IsFiniteSet(P) /\ IsFiniteSet(T) /\ Cardinality(T) \in Nat
  BY <1>1, <1>2, RankType, FS_Subset, FS_CardinalityType
<1>4. Cardinality(T) <= L
  <2>1. CASE T = {}
    BY <1>2, <2>1, FS_EmptySet
  <2>2. CASE T # {}
    <3>1. PICK m \in T : \A u \in T : Rank(recs, u) <= Rank(recs, m)
      BY <1>2, <2>2, LastRank
    <3>2. PICK A : A = Ahead(recs, m)
      OBVIOUS
    <3>3. T \ {m} \subseteq A
      <4>1. ASSUME NEW u \in T, u # m PROVE u \in A
        <5>1. u \in Powered(recs) /\ m \in Powered(recs) /\ Rank(recs, u) <= Rank(recs, m)
          BY <1>1, <1>2, <3>1
        <5>2. Precedes(recs, u, m)
          BY <4>1, <5>1, RankFirst
        <5> QED BY <3>2, <5>1, <5>2 DEF Ahead
      <4> QED BY <4>1
    <3>4. IsFiniteSet(A) /\ Cardinality(A) < L /\ Cardinality(A) \in Nat
      BY <1>2, <3>1, <3>2, RankType
    <3>5. Cardinality(T \ {m}) = Cardinality(T) - 1
      BY <1>3, <3>1, FS_RemoveElement
    <3>6. Cardinality(T \ {m}) <= Cardinality(A)
      BY <3>3, <3>4, FS_Subset
    <3> QED BY <1>2, <1>3, <3>4, <3>5, <3>6
  <2> QED BY <2>1, <2>2
<1>5. ASSUME NEW v \in T, NEW w \in P \ T PROVE recs[v].power >= recs[w].power
  <2>1. /\ v \in Powered(recs) /\ w \in Powered(recs) /\ v # w
        /\ Rank(recs, v) \in Nat /\ Rank(recs, w) \in Nat
    BY <1>1, <1>2, RankType
  <2>2. Rank(recs, v) <= Rank(recs, w)
    BY <1>2, <2>1
  <2>3. Precedes(recs, v, w)
    BY <2>1, <2>2, RankFirst
  <2>4. recs[v].power \in Nat /\ recs[w].power \in Nat
    BY <2>1 DEF Powers
  <2> QED BY <2>3, <2>4 DEF Precedes
<1>6. ASSUME P # T PROVE L <= Cardinality(T)
  <2>1. P \ T # {}
    BY <1>2, <1>6
  <2>2. PICK w \in P \ T : \A u \in P \ T : Rank(recs, w) <= Rank(recs, u)
    BY <2>1, FirstRank
  <2>3. PICK A : A = Ahead(recs, w)
    OBVIOUS
  <2>4. A \subseteq T
    <3>1. ASSUME NEW u \in A, u \notin T PROVE FALSE
      <4>1. u \in Powered(recs) /\ w \in Powered(recs) /\ Precedes(recs, u, w)
        BY <1>1, <2>2, <2>3, <3>1 DEF Ahead
      <4>2. Rank(recs, u) + 1 <= Rank(recs, w)
        BY <4>1, RankLess
      <4>3. Rank(recs, w) <= Rank(recs, u)
        BY <1>1, <2>2, <3>1, <4>1
      <4> QED BY <4>2, <4>3, RankType
    <3> QED BY <3>1
  <2>5. Cardinality(A) <= Cardinality(T)
    BY <1>3, <2>4, FS_Subset
  <2>6. Cardinality(A) \in Nat /\ L <= Cardinality(A)
    BY <1>2, <2>2, <2>3, RankType
  <2> QED BY <1>2, <1>3, <2>5, <2>6
<1>7. P # T => Cardinality(T) = L
  BY <1>2, <1>3, <1>4, <1>6
<1> QED BY <1>1, <1>3, <1>4, <1>5, <1>7

\* What the selection leaves in the state: the chosen are active, the other
\* candidates wait, and powers and index are as they were.
LEMMA SelectedRecord ==
  ASSUME IInv, NEW power \in [ToProcess -> Stakes], NEW recs, recs = Processed(power),
         NEW v \in Validator, NEW t, t = SelectActive(recs, height, epochStart)[v]
  PROVE  /\ t.state = "Active" <=> v \in TopValidators(recs)
         /\ t.indexed /\ t.state = "Inactive" => v \in Candidates(recs) \ TopValidators(recs)
         /\ t.power = recs[v].power /\ t.power \in Nat
<1>1. /\ RecordInv(recs[v], height) /\ recs[v] \in ValidatorRecord
      /\ height \in Nat /\ epochStart \in Nat
  BY ProcessedInv DEF IInv, TypeOK, RecordInv
<1>2. recs[v].power \in Nat
  BY <1>1 DEF ValidatorRecord
<1>3. TopValidators(recs) \subseteq Candidates(recs)
  BY DEF TopValidators, Powered
<1>4. CASE v \in TopValidators(recs)
  <2>1. t = Transition(recs[v], "Active", height, epochStart)
    BY <1>4 DEF SelectActive
  <2>2. t.state = "Active" /\ t.power = recs[v].power
    BY <1>1, <2>1, TransitionFields DEF State
  <2> QED BY <1>2, <1>4, <2>2
<1>5. CASE v \in Candidates(recs) \ TopValidators(recs)
  <2>1. t = Transition(recs[v], "Inactive", height, epochStart)
    BY <1>5 DEF SelectActive
  <2>2. t.state = "Inactive" /\ t.power = recs[v].power
    BY <1>1, <2>1, TransitionFields DEF State
  <2> QED BY <1>2, <1>5, <2>2
<1>6. CASE v \notin Candidates(recs)
  <2>1. t = recs[v]
    BY <1>3, <1>6 DEF SelectActive
  <2>2. ~(t.indexed /\ t.state \in {"Active", "Inactive"})
    BY <1>6, <2>1 DEF Candidates, BelongsInIndex
  <2>3. t.state # "Active"
    BY <1>1, <2>1, <2>2 DEF RecordInv
  <2> QED BY <1>2, <1>3, <1>6, <2>1, <2>2, <2>3
<1> QED BY <1>4, <1>5, <1>6

\* The end of an epoch leaves the right active set.
LEMMA EpochTop ==
  ASSUME IInv, NEW power \in [ToProcess -> Stakes], EndEpoch(power)
  PROVE  ActiveSetIsTop'
<1>1. PICK recs : recs = Processed(power)
  OBVIOUS
<1>2. val' = SelectActive(recs, height, epochStart)
  BY <1>1 DEF EndEpoch, Processed
<1>3. ASSUME NEW v \in Validator
      PROVE  /\ val'[v].state = "Active" <=> v \in TopValidators(recs)
             /\ val'[v].indexed /\ val'[v].state = "Inactive"
                  => v \in Candidates(recs) \ TopValidators(recs)
             /\ val'[v].power = recs[v].power /\ val'[v].power \in Nat
  BY <1>1, <1>2, SelectedRecord
<1>4. Powers(recs)
  BY <1>3 DEF Powers, Powered, Candidates
<1>5. PICK T, W : /\ T = TopValidators(recs)
                  /\ W = {v \in Indexed' : val'[v].state = "Inactive" /\ val'[v].power > 0}
  OBVIOUS
<1>6. T \subseteq Validator /\ T \subseteq Powered(recs)
  BY <1>5 DEF TopValidators, Powered, Candidates
<1>7. ActiveSet' = T
  BY <1>3, <1>5, <1>6 DEF ActiveSet
<1>8. W \subseteq Powered(recs) \ T
  <2>1. ASSUME NEW w \in W PROVE w \in Powered(recs) \ T
    <3>1. /\ w \in Validator /\ val'[w].indexed /\ val'[w].state = "Inactive"
          /\ val'[w].power > 0
      BY <1>5 DEF Indexed
    <3> QED BY <1>3, <1>5, <3>1 DEF Powered
  <2> QED BY <2>1
<1>9. /\ Cardinality(T) <= ActiveValidatorLimit
      /\ \A v \in T, w \in Powered(recs) \ T : recs[v].power >= recs[w].power
      /\ Powered(recs) # T => Cardinality(T) = ActiveValidatorLimit
  BY <1>4, <1>5, TopSelection
<1>10. ASSUME NEW v \in T, NEW w \in W PROVE val'[v].power >= val'[w].power
  <2>1. v \in Validator /\ w \in Validator /\ w \in Powered(recs) \ T
    BY <1>5, <1>6, <1>8 DEF Indexed
  <2> QED BY <1>3, <1>9, <2>1
<1>11. W # {} => Cardinality(T) = ActiveValidatorLimit
  BY <1>8, <1>9
<1> QED BY <1>5, <1>7, <1>9, <1>10, <1>11 DEF ActiveSetIsTop

\* The end of an epoch gives CometBFT one key for each active validator.
LEMMA EpochComet ==
  ASSUME IInv, NEW power \in [ToProcess -> Stakes], EndEpoch(power)
  PROVE  CometMatchesActiveSet'
<1>1. PICK A, C : A = ActiveSet' /\ C = comet'
  OBVIOUS
<1>2. C = PoweredKeys(val')
  BY <1>1 DEF EndEpoch, IInv, CometTracked, RemovedKeys
<1>3. IInv' /\ Staked'
  BY NextIInv, EpochStaked DEF Next
<1>4. ASSUME NEW v \in Validator
      PROVE  /\ val'[v].state = "Active" => val'[v].indexed /\ val'[v].power > 0
             /\ val'[v].state = "Active" => keyOwner'[val'[v].key] = v
  BY <1>3 DEF IInv, RecordInv, Staked, KeysOwned
<1>5. A = {v \in Validator : val'[v].state = "Active"}
  BY <1>1 DEF ActiveSet
<1>6. C = {val'[v].key : v \in A}
  BY <1>2, <1>4, <1>5 DEF PoweredKeys
<1>7. PICK f : f = [v \in A |-> val'[v].key]
  OBVIOUS
<1>8. \A v, w \in A : f[v] = f[w] => v = w
  BY <1>4, <1>5, <1>7
<1>9. f \in [A -> C] /\ \A k \in C : \E v \in A : f[v] = k
  BY <1>6, <1>7
<1>10. f \in Surjection(A, C) /\ f \in Injection(A, C)
  BY <1>8, <1>9 DEF Surjection, Injection, IsInjective
<1>11. IsFiniteSet(A)
  BY <1>5, ValidatorAssumption, FS_Subset
<1>12. Cardinality(C) = Cardinality(A)
  BY <1>10, <1>11, FS_Surjection
<1> QED BY <1>1, <1>6, <1>12 DEF CometMatchesActiveSet

\* Only the end of an epoch brings the chain to an epoch's boundary.
LEMMA BoundarySteps ==
  ASSUME IInv, Next, ~ \E power \in [ToProcess -> Stakes] : EndEpoch(power)
  PROVE  ~AtEpochBoundary'
<1>1. ASSUME EndBlock PROVE ~AtEpochBoundary'
  <2>1. epochStart \in Nat /\ height \in Nat /\ epochStart <= height
    BY <1>1 DEF EndBlock, IInv, TypeOK, EpochClock
  <2>2. epochStart' = epochStart /\ height' = height
    BY <1>1 DEF EndBlock
  <2> QED BY <2>1, <2>2 DEF AtEpochBoundary
<1>2. ASSUME EndEpochPanics PROVE ~AtEpochBoundary'
  BY <1>2 DEF EndEpochPanics, AtEpochBoundary
<1>3. ASSUME NEW evidence \in SUBSET ConsensusKey, NEW missed \in SUBSET Validator,
             BeginBlock(evidence, missed)
      PROVE  ~AtEpochBoundary'
  BY <1>3 DEF BeginBlock, AtEpochBoundary
<1>4. ASSUME NEW v \in Validator, NEW k \in ConsensusKey, NEW seq \in 0..MaxSequence,
             NEW en \in BOOLEAN, NEW hasMinStake \in BOOLEAN,
             UploadDefinition(v, k, seq, en, hasMinStake)
      PROVE  ~AtEpochBoundary'
  BY <1>4 DEF UploadDefinition, AtEpochBoundary
<1>5. ASSUME NEW v \in Validator, Delegate(v) \/ Undelegate(v) PROVE ~AtEpochBoundary'
  BY <1>5 DEF Delegate, Undelegate, AtEpochBoundary
<1> QED BY <1>1, <1>2, <1>3, <1>4, <1>5 DEF Next

\* After every epoch the active set is within its limit, holds the validators
\* with the most stake and leaves no place empty that one with stake could
\* take: set_active_and_inactive_validators chooses a prefix of the sort.
THEOREM ActiveSetRight == Spec => []ActiveSetIsTop
<1>1. Init => ActiveSetIsTop
  BY DEF Init, ActiveSetIsTop, AtEpochBoundary
<1>2. IInv /\ ActiveSetIsTop /\ [Next]_vars => ActiveSetIsTop'
  <2>1. SUFFICES ASSUME IInv, ActiveSetIsTop, [Next]_vars PROVE ActiveSetIsTop'
    OBVIOUS
  <2>2. CASE \E power \in [ToProcess -> Stakes] : EndEpoch(power)
    BY <2>1, <2>2, EpochTop
  <2>3. CASE Next /\ ~ \E power \in [ToProcess -> Stakes] : EndEpoch(power)
    BY <2>1, <2>3, BoundarySteps DEF ActiveSetIsTop
  <2>4. CASE UNCHANGED vars
    BY <2>1, <2>4 DEF vars, ActiveSetIsTop, AtEpochBoundary, ActiveSet, Indexed
  <2> QED BY <2>1, <2>2, <2>3, <2>4
<1> QED BY <1>1, <1>2, Inductive, PTL DEF Spec

\* After every epoch CometBFT has one key for each active validator and no
\* other, whatever keys were rotated and whoever joined and left.
THEOREM CometExact == Spec => []CometMatchesActiveSet
<1>1. Init => CometMatchesActiveSet
  BY DEF Init, CometMatchesActiveSet, AtEpochBoundary
<1>2. IInv /\ CometMatchesActiveSet /\ [Next]_vars => CometMatchesActiveSet'
  <2>1. SUFFICES ASSUME IInv, CometMatchesActiveSet, [Next]_vars PROVE CometMatchesActiveSet'
    OBVIOUS
  <2>2. CASE \E power \in [ToProcess -> Stakes] : EndEpoch(power)
    BY <2>1, <2>2, EpochComet
  <2>3. CASE Next /\ ~ \E power \in [ToProcess -> Stakes] : EndEpoch(power)
    BY <2>1, <2>3, BoundarySteps DEF CometMatchesActiveSet
  <2>4. CASE UNCHANGED vars
    BY <2>1, <2>4 DEF vars, CometMatchesActiveSet, AtEpochBoundary, ActiveSet
  <2> QED BY <2>1, <2>2, <2>3, <2>4
<1> QED BY <1>1, <1>2, Inductive, PTL DEF Spec
=============================================================================

--------------------------- MODULE UptimeTracker ---------------------------
(***************************************************************************)
(* How one validator's downtime is measured: the ring buffer of Uptime,    *)
(* filled in BeginBlock from the votes of the last commit, against the     *)
(* times at which CometBFT's validator set really follows the              *)
(* application's.  A validator update returned by EndBlock at height h is  *)
(* in CometBFT's set from height h + 2, and BeginBlock at height h carries *)
(* the votes of the set of height h - 1.                                   *)
(***************************************************************************)
EXTENDS Integers, Sequences, FiniteSets, Epochs

CONSTANTS
    Window,        \* the parameter signed_blocks_window_len
    MissedMaximum, \* the parameter missed_blocks_maximum
    Keys,          \* the consensus keys the validator may use
    GenesisKey     \* the one in its genesis definition

ASSUME ParameterAssumption ==
    /\ Window \in Nat \ {0}
    /\ MissedMaximum \in Nat \ {0}
    /\ EpochDuration \in Nat \ {0}
    /\ GenesisKey \in Keys
    /\ MaxHeight \in Nat

VARIABLES
    height,     \* the height of the current block
    phase,      \* what comes next in it
    state,      \* the validator's state
    key,        \* its consensus key
    uptime,     \* its Uptime record
    epochStart, \* the first height of the current epoch
    endEarly,   \* the end-epoch flag
    cometSets,  \* the consensus keys of heights height - 1, height, height + 1
    missed,     \* history, since it became active: the heights at which it was
                \* marked as not signing,
    absent,     \* those of them for which it really did not sign,
    entered,    \* the height at whose end it became active,
    rotations   \* and the heights at which it has changed its key

uptimeVars == <<height, phase, state, key, uptime, epochStart, endEarly, cometSets,
                missed, absent, entered, rotations>>

-----------------------------------------------------------------------------
(* Uptime                                                                   *)

\* Uptime::new: all ones, as a grace period.
NewUptime(h) == [asOf |-> h, signatures |-> [i \in 0..(Window - 1) |-> TRUE]]

\* Uptime::mark_height_as_signed
CanMark(u, h) == h = u.asOf + 1

\* Mutant: the ring is indexed from the first height recorded, not modulo.
MarkClamped(u, h, signed) ==
    [u EXCEPT !.asOf = h,
              !.signatures[IF h < Window THEN h ELSE Window - 1] = signed]

Mark(u, h, signed) ==
    [u EXCEPT !.asOf = h, !.signatures[h % Window] = signed]

\* Uptime::num_missed_blocks
NumMissedBlocks(u) == Cardinality({i \in DOMAIN u.signatures : ~u.signatures[i]})

\* Uptime::missed_blocks, from the saturating earliest height
MissedBlocks(u) ==
    LET earliest == IF u.asOf >= Window - 1 THEN u.asOf - (Window - 1) ELSE 0
    IN  {h \in earliest..u.asOf : ~u.signatures[h % Window]}

\* Mutant: a validator that becomes active again keeps the bits of its past.
TrackOn(h) == [uptime EXCEPT !.asOf = h]

\* Set when the validator enters the active set, over any earlier record.
TrackFrom(h) == NewUptime(h)

-----------------------------------------------------------------------------
(* A genesis validator is active; at height 0 CometBFT has no votes.        *)
UptimeInit ==
    /\ height = 0
    /\ phase = "BeginBlock"
    /\ state = "Active"
    /\ key = GenesisKey
    /\ uptime = NewUptime(0)
    /\ epochStart = 0
    /\ endEarly = FALSE
    /\ cometSets = <<{}, {GenesisKey}, {GenesisKey}>>
    /\ missed = {} /\ absent = {} /\ entered = 0 /\ rotations = {}

\* Whether the last commit has the validator's vote: the lookup is by its
\* current key, among the keys of the set that voted.  In the first block all
\* count as having signed.
Voted(h, signed) ==
    IF key \in cometSets[1] THEN signed ELSE h = 1

ReachesMaximum(u) == NumMissedBlocks(u) >= MissedMaximum

\* Whether the validator was asked for a vote, under any key it has had.
Asked == cometSets[1] # {}

\* track_uptime: an active validator's vote is recorded, and a validator that
\* has missed too many blocks is jailed, which ends the epoch early.
BeginBlock(signed) ==
    /\ phase = "BeginBlock"
    /\ height < MaxHeight
    /\ height' = height + 1
    /\ phase' = "DeliverTx"
    /\ IF state = "Active"
         THEN LET voted == Voted(height + 1, signed)
                  marked == Mark(uptime, height + 1, voted)
              IN  /\ CanMark(uptime, height + 1)
                  /\ missed' = IF voted THEN missed ELSE missed \cup {height + 1}
                  /\ absent' = IF Asked /\ ~signed THEN absent \cup {height + 1} ELSE absent
                  /\ IF ReachesMaximum(marked)
                       THEN /\ state' = "Jailed"
                            /\ endEarly' = TRUE
                            /\ UNCHANGED uptime
                       ELSE /\ uptime' = marked
                            /\ UNCHANGED <<state, endEarly>>
         ELSE UNCHANGED <<missed, absent, state, endEarly, uptime>>
    /\ UNCHANGED <<key, epochStart, cometSets, entered, rotations>>

\* A definition with another consensus key.  It is in force at once, and does
\* not end the epoch; an update of a jailed validator releases it (its pool is
\* taken to hold the minimum stake).
UploadDefinition(k) ==
    /\ phase = "DeliverTx"
    /\ key' = k
    /\ state' = IF state = "Jailed" THEN "Inactive" ELSE state
    /\ key' # key \/ state' # state
    /\ rotations' = IF k # key THEN rotations \cup {height} ELSE rotations
    /\ UNCHANGED <<height, phase, uptime, epochStart, endEarly, cometSets, missed, absent,
                   entered>>

UptimeEpochEnds == height - epochStart >= EpochDuration - 1 \/ endEarly

\* Mutant: CometBFT is told who enters and who leaves, but not of a key that an
\* active validator has replaced.
KeysInForceChanges(newState) ==
    IF newState # "Active" THEN {}
    ELSE IF cometSets[3] # {} THEN cometSets[3] ELSE {key}

\* The keys CometBFT has after the updates of the epoch: those in force of the
\* active validators, and every other known key with power zero.
KeysInForce(newState) == IF newState = "Active" THEN {key} ELSE {}

\* EndBlock.  At the end of an epoch the validator may enter or leave the
\* active set (the choice is made in ValidatorManager), and CometBFT is sent
\* the consensus keys in force.
EndUptimeBlock(active) ==
    /\ phase = "DeliverTx"
    /\ phase' = "BeginBlock"
    /\ IF UptimeEpochEnds
         THEN LET newState == IF state = "Jailed" THEN "Jailed"
                              ELSE IF active THEN "Active" ELSE "Inactive"
              IN  /\ state' = newState
                  /\ IF state = "Inactive" /\ newState = "Active"
                       THEN /\ uptime' = TrackFrom(height)
                            /\ missed' = {} /\ absent' = {}
                            /\ entered' = height /\ rotations' = {}
                       ELSE UNCHANGED <<uptime, missed, absent, entered, rotations>>
                  /\ cometSets' = <<cometSets[2], cometSets[3], KeysInForce(newState)>>
                  /\ epochStart' = height + 1
                  /\ endEarly' = FALSE
         ELSE /\ active = (state = "Active")
              /\ cometSets' = <<cometSets[2], cometSets[3], cometSets[3]>>
              /\ UNCHANGED <<state, uptime, missed, absent, entered, rotations,
                             epochStart, endEarly>>
    /\ UNCHANGED <<height, key>>

UptimeNext ==
    \/ \E signed \in BOOLEAN : BeginBlock(signed)
    \/ \E k \in Keys : UploadDefinition(k)
    \/ \E active \in BOOLEAN : EndUptimeBlock(active)

UptimeSpec == UptimeInit /\ [][UptimeNext]_uptimeVars

-----------------------------------------------------------------------------
(* Properties                                                               *)

\* The ring buffer is the window: what num_missed_blocks counts and
\* missed_blocks lists is, for an active validator, exactly the heights of the
\* last Window blocks at which it was marked as not signing since it became
\* active, however often the buffer has wrapped and wherever it started.
RingIsWindow ==
    state = "Active" =>
        /\ uptime.asOf = height
        /\ MissedBlocks(uptime) = {h \in missed : h > uptime.asOf - Window}
        /\ NumMissedBlocks(uptime) = Cardinality(MissedBlocks(uptime))

\* A block for which an active validator's key in force may be unknown to
\* CometBFT: the two after it entered the set, and those from a rotation to the
\* end of its epoch and two more.
Unheard(h) ==
    \/ h \in {entered + 1, entered + 2}
    \/ \E r \in rotations : h \in (r + 1)..(r + EpochDuration + 1)

\* No validator is jailed but for downtime and the two delays with which
\* CometBFT follows the application: at missed_blocks_maximum or more blocks of
\* the last window it was asked to sign and did not, or its key was still on
\* its way.  What it missed before, longer ago or under an earlier spell in the
\* set does not count.
JailedForDowntime ==
    [][state = "Active" /\ state' = "Jailed" =>
           Cardinality({h \in (height' - Window + 1)..height' : h \in absent' \/ Unheard(h)})
               >= MissedMaximum]_uptimeVars

\* A validator that keeps its key is charged, beyond the blocks for which it
\* was asked for a vote and did not give one, only for the two blocks that
\* CometBFT takes to let it in, however often it leaves and enters the set.
HonestChargedAtMostTwo ==
    state = "Active" /\ rotations = {} => Cardinality(MissedBlocks(uptime) \ absent) <= 2

=============================================================================

---------------------------- MODULE ChainUpgrade ----------------------------
(***************************************************************************)
(* The life of `pd` around a halt: how an emergency proposal or a          *)
(* scheduled upgrade stops the chain, how the halt survives crashes and    *)
(* restarts, and how `pd migrate` carries the state of a stopped node into *)
(* the network of the next version.  Each node is a pd process with its    *)
(* storage next to a CometBFT process with its own data directory; a block *)
(* is decided by a quorum of nodes (CometBFT, external) and executed by    *)
(* every node on its own.                                                  *)
(***************************************************************************)
EXTENDS Integers, Sequences, FiniteSets, Epochs

CONSTANTS
    Nodes,          \* the validators' nodes
    Quorum,         \* the sets of nodes with more than 2/3 of the power
    UpgradeHeights, \* the heights an UpgradePlan proposal may name
    Emergencies,    \* whether an emergency proposal may halt the chain
    Resumers,       \* the nodes whose operators may run `pd migrate --ready-to-start`
    Forced,         \* whether operators pass `--force` to `pd migrate`
    FastCommit,     \* whether CometBFT's timeout_commit is below 2s
    KillMigrations, \* whether a migration may be killed half way
    MaxCrashes      \* bound: process crashes outside a migration

ASSUME QuorumAssumption ==
    /\ Quorum \subseteq SUBSET Nodes
    /\ \A Q1, Q2 \in Quorum : Q1 \cap Q2 # {}

ASSUME HeightAssumption ==
    /\ EpochDuration \in Nat \ {0}
    /\ UpgradeHeights \subseteq Nat \ {0}
    /\ MaxHeight \in Nat
    /\ MaxCrashes \in Nat

VARIABLES
    store,    \* the committed storage of each node
    app,      \* App::state of each node: the committed state and its delta
    proc,     \* the state of each node's process
    exiting,  \* the nodes whose exit is scheduled by App::commit
    comet,    \* CometBFT's data directory at each node
    decided,  \* the decided blocks
    lifted,   \* history: the nodes whose halt bit an operator has reset
    crashes   \* the number of crashes so far

vars == <<store, app, proc, exiting, comet, decided, lifted, crashes>>

NoUpgrade == 0

\* What a block does to the state the module keeps: the last vote that passes
\* an emergency proposal with halt_chain, or the end of the vote on an
\* UpgradePlan, which Governance::end_block then enacts.
Bodies == [halt : IF Emergencies THEN BOOLEAN ELSE {FALSE},
           plan : {NoUpgrade} \cup UpgradeHeights]

Plain == [halt |-> FALSE, plan |-> NoUpgrade]

\* The software: the version before the upgrade and the one after it.
AppVersions == {0, 1}

Block == [height : 1..MaxHeight, genesis : 1..(MaxHeight + 1), body : Bodies]

State ==
    [ height     : 0..MaxHeight,           \* get_block_height
      version    : 0..MaxHeight,           \* Storage::latest_version
      halt       : BOOLEAN,                \* the halt bit
      next       : {NoUpgrade} \cup UpgradeHeights,  \* next_upgrade
      appVersion : AppVersions,            \* the app version safeguard
      epochStart : 0..(MaxHeight + 1),     \* start height of the next block's epoch
      log        : Seq(Block) ]            \* the blocks executed, behind the root hash

Comet ==
    [ config  : 1..(MaxHeight + 1),  \* initial_height of config/genesis.json
      genesis : 1..(MaxHeight + 1),  \* the network the data directory belongs to
      height  : 0..MaxHeight,        \* last block whose Commit was answered
      signed  : 0..(MaxHeight + 1) ] \* height in priv_validator_state.json

ProcStates ==
    { "down", "idle", "executed", "committed",        \* pd start
      "stateMigrated", "genesisWritten" }             \* pd migrate

\* Heights, versions and watermarks stay within the decided blocks; in
\* particular the epoch of the next block never starts beyond it.
TypeOK ==
    /\ store \in [Nodes -> State]
    /\ app \in [Nodes -> State]
    /\ proc \in [Nodes -> ProcStates]
    /\ exiting \in SUBSET Nodes
    /\ comet \in [Nodes -> Comet]
    /\ decided \in SUBSET Block
    /\ lifted \in SUBSET Nodes
    /\ crashes \in 0..MaxCrashes

\* The state after init_chain from the full genesis.
GenesisState ==
    [ height |-> 0, version |-> 0, halt |-> FALSE, next |-> NoUpgrade,
      appVersion |-> 0, epochStart |-> 0, log |-> <<>> ]

Init ==
    /\ store = [n \in Nodes |-> GenesisState]
    /\ app = store
    /\ proc = [n \in Nodes |-> "idle"]
    /\ exiting = {}
    /\ comet = [n \in Nodes |-> [config |-> 1, genesis |-> 1, height |-> 0, signed |-> 0]]
    /\ decided = {}
    /\ lifted = {}
    /\ crashes = 0

-----------------------------------------------------------------------------
(* Consensus (CometBFT, external), and the handlers it calls on the way.    *)

Running(n) == proc[n] \in {"idle", "executed", "committed"}

\* A node takes part in deciding the next height once CometBFT has recorded
\* the application's Commit of the last one.
NextHeight(n) == comet[n].height + 1

\* Mutant: the proposer does not look at the halt bit.
PreparesWhenHalted(n) == TRUE

\* PrepareProposal: a proposer whose committed state is halted exits.
PreparesProposal(n) == ~store[n].halt

PrepareProposalHalted(n) ==
    /\ proc[n] = "idle"
    /\ ~PreparesProposal(n)
    /\ proc' = [proc EXCEPT ![n] = "down"]
    /\ exiting' = exiting \ {n}
    /\ UNCHANGED <<store, app, comet, decided, lifted, crashes>>

\* One height: p's proposal is accepted (ProcessProposal looks at sizes and
\* transactions only) and precommitted by a quorum of the same network.  The
\* watermark of every signer moves to that height.
Decide(p, Q, body) ==
    LET h == NextHeight(p)
        g == comet[p].genesis
    IN  /\ h <= MaxHeight
        /\ p \in Q
        /\ \A n \in Q : /\ proc[n] = "idle"
                        /\ comet[n].genesis = g
                        /\ NextHeight(n) = h
                        /\ comet[n].signed <= h
        /\ PreparesProposal(p)
        /\ ~\E b \in decided : b.genesis = g /\ b.height = h
        /\ decided' = decided \cup {[height |-> h, genesis |-> g, body |-> body]}
        /\ comet' = [n \in Nodes |-> IF n \in Q THEN [comet[n] EXCEPT !.signed = h]
                                                ELSE comet[n]]
        /\ UNCHANGED <<store, app, proc, exiting, lifted, crashes>>

\* With a timeout_commit below the two seconds of the scheduled exit, CometBFT
\* enters the next height, hears no proposal and signs a nil prevote for it.
NilPrevote(n) ==
    /\ FastCommit
    /\ proc[n] = "idle"
    /\ n \in exiting
    /\ comet[n].signed <= comet[n].height
    /\ comet' = [comet EXCEPT ![n].signed = NextHeight(n)]
    /\ UNCHANGED <<store, app, proc, exiting, decided, lifted, crashes>>

-----------------------------------------------------------------------------
(* Executing a block                                                        *)

\* Mutant: the halt is at the upgrade height, not before it.
IsUpgradeHeight(s) == s.height = s.next

\* is_pre_upgrade_height
IsPreUpgradeHeight(s) == s.height + 1 = s.next

\* Epoch::is_scheduled_epoch_end
IsScheduledEpochEnd(s) == s.height - s.epochStart >= EpochDuration - 1

\* BeginBlock sets the height, a passing proposal signals the halt or the
\* upgrade, and EndBlock sets the epoch of the next block.
Delivered(s, b) ==
    [s EXCEPT !.height = b.height,
              !.halt = @ \/ b.body.halt,
              !.next = IF b.body.plan # NoUpgrade THEN b.body.plan ELSE @,
              !.log = Append(@, b)]

\* Mutant: an upgrade does not end the epoch early.
EpochEndsOnSchedule(s) == IsScheduledEpochEnd(s)

\* The epoch ends on schedule or for the upgrade.  (Ends asked for by the
\* staking component, see ValidatorManager, only move the epochs of the old
\* network: the block before an upgrade ends its epoch whatever it is.)
EpochEnds(s) == IsScheduledEpochEnd(s) \/ IsPreUpgradeHeight(s)

EndBlock(s) == [s EXCEPT !.epochStart = IF EpochEnds(s) THEN s.height + 1 ELSE @]

\* BeginBlock, DeliverTx and EndBlock of the next decided block, all of them
\* in the memory of the process.
Execute(n) ==
    /\ proc[n] = "idle"
    /\ \E b \in decided :
         /\ b.genesis = comet[n].genesis
         /\ b.height = NextHeight(n)
         /\ app' = [app EXCEPT ![n] = EndBlock(Delivered(app[n], b))]
    /\ proc' = [proc EXCEPT ![n] = "executed"]
    /\ UNCHANGED <<store, exiting, comet, decided, lifted, crashes>>

\* App::commit writes the state, the halt bit with it if the next height is
\* the upgrade height, and schedules the exit of a halted node.
Committed(s) ==
    [s EXCEPT !.halt = @ \/ IsPreUpgradeHeight(s), !.version = @ + 1]

MustHalt(s) == s.halt \/ IsPreUpgradeHeight(s)

Commit(n) ==
    /\ proc[n] = "executed"
    /\ store' = [store EXCEPT ![n] = Committed(app[n])]
    /\ app' = [app EXCEPT ![n] = Committed(app[n])]
    /\ proc' = [proc EXCEPT ![n] = "committed"]
    /\ exiting' = IF MustHalt(app[n]) THEN exiting \cup {n} ELSE exiting
    /\ UNCHANGED <<comet, decided, lifted, crashes>>

\* CometBFT receives the response to Commit and saves its own state.
CommitAnswered(n) ==
    /\ proc[n] = "committed"
    /\ proc' = [proc EXCEPT ![n] = "idle"]
    /\ comet' = [comet EXCEPT ![n].height = NextHeight(n)]
    /\ UNCHANGED <<store, app, exiting, decided, lifted, crashes>>

\* The exit scheduled two seconds after the commit.
Exit(n) ==
    /\ Running(n)
    /\ n \in exiting
    /\ proc' = [proc EXCEPT ![n] = "down"]
    /\ exiting' = exiting \ {n}
    /\ UNCHANGED <<store, app, comet, decided, lifted, crashes>>

Crash(n) ==
    /\ Running(n)
    /\ crashes < MaxCrashes
    /\ crashes' = crashes + 1
    /\ proc' = [proc EXCEPT ![n] = "down"]
    /\ exiting' = exiting \ {n}
    /\ UNCHANGED <<store, app, comet, decided, lifted>>

-----------------------------------------------------------------------------
(* Starting pd                                                              *)

\* App::is_ready
IsReady(n) == ~store[n].halt

\* Mutant: init_chain does not check that the database is uninitialized.
HandshakeUnchecked(n) == TRUE

\* CometBFT's handshake: Info reports the height of the state, and height 0
\* makes CometBFT send InitChain with the genesis of its network.  A checkpoint
\* is accepted; for the full genesis init_chain panics if the database is
\* already initialized.
HandshakeSucceeds(n) ==
    \/ store[n].height > 0
    \/ store[n].version = 0
    \/ comet[n].genesis > 1

\* Mutant: the process resumes from the delta it had not committed.
LoadedDelta(n) == app[n]

\* The state App::new starts from: a snapshot of the committed state.
Loaded(n) == store[n]

\* `pd start` with the software of version v.
Start(n, v) ==
    /\ proc[n] = "down"
    /\ store[n].appVersion = v
    /\ IsReady(n)
    /\ HandshakeSucceeds(n)
    /\ proc' = [proc EXCEPT ![n] = IF store[n].height = NextHeight(n)
                                      THEN "committed" ELSE "idle"]
    /\ app' = [app EXCEPT ![n] = Loaded(n)]
    /\ UNCHANGED <<store, exiting, comet, decided, lifted, crashes>>

-----------------------------------------------------------------------------
(* pd migrate.  It opens the storage, so no pd process runs on it.          *)

MigrationAllowed(n) ==
    /\ proc[n] = "down"
    /\ store[n].halt \/ Forced
    /\ store[n].version = store[n].height \/ Forced

\* `--ready-to-start`: the halt bit is reset in place.
ReadyToStart(n) ==
    /\ n \in Resumers
    /\ MigrationAllowed(n)
    /\ store' = [store EXCEPT ![n].halt = FALSE]
    /\ lifted' = lifted \cup {n}
    /\ UNCHANGED <<app, proc, exiting, comet, decided, crashes>>

\* Mutant: the migration leaves the halt bit on.
MigratedStillHalted(s) == [s EXCEPT !.appVersion = 1, !.height = 0]

\* The migration to the next version: the state is rewritten in place...
MigratedState(s) == [s EXCEPT !.appVersion = 1, !.halt = FALSE, !.height = 0]

MigrateState(n) ==
    /\ MigrationAllowed(n)
    /\ store[n].appVersion = 0
    /\ store[n].height > 0   \* bound: no forced migration before the first block
    /\ store' = [store EXCEPT ![n] = MigratedState(@)]
    /\ app' = [app EXCEPT ![n] = store[n]]   \* the snapshot it started from
    /\ proc' = [proc EXCEPT ![n] = "stateMigrated"]
    /\ UNCHANGED <<exiting, comet, decided, lifted, crashes>>

\* ... the genesis of the next network is written to CometBFT's configuration
\* (through pd_home/genesis.json), with the height after the halt ...
PostUpgradeHeight(n) == app[n].height + 1

WriteGenesis(n) ==
    /\ proc[n] = "stateMigrated"
    /\ comet' = [comet EXCEPT ![n].config = PostUpgradeHeight(n)]
    /\ proc' = [proc EXCEPT ![n] = "genesisWritten"]
    /\ UNCHANGED <<store, app, exiting, decided, lifted, crashes>>

\* ... and the watermark is raised and CometBFT's data is deleted.  If the
\* watermark is not below the new initial height the migration ends here
\* with an error, and CometBFT's data stays as it was.
WatermarkBelow(n) == comet[n].signed < comet[n].config

MigrateComet(n) ==
    /\ proc[n] = "genesisWritten"
    /\ proc' = [proc EXCEPT ![n] = "down"]
    /\ IF WatermarkBelow(n)
         THEN LET g == comet[n].config
              IN  comet' = [comet EXCEPT ![n].genesis = g, ![n].height = g - 1,
                                         ![n].signed = g]
         ELSE UNCHANGED comet
    /\ UNCHANGED <<store, app, exiting, decided, lifted, crashes>>

MigrationKilled(n) ==
    /\ KillMigrations
    /\ proc[n] \in {"stateMigrated", "genesisWritten"}
    /\ proc' = [proc EXCEPT ![n] = "down"]
    /\ UNCHANGED <<store, app, exiting, comet, decided, lifted, crashes>>

Operator(n) ==
    \/ \E v \in AppVersions : Start(n, v)
    \/ ReadyToStart(n)
    \/ MigrateState(n)
    \/ WriteGenesis(n)
    \/ MigrateComet(n)

Next ==
    \/ \E p \in Nodes, Q \in Quorum, body \in Bodies : Decide(p, Q, body)
    \/ \E n \in Nodes :
         \/ PrepareProposalHalted(n)
         \/ NilPrevote(n)
         \/ Execute(n)
         \/ Commit(n)
         \/ CommitAnswered(n)
         \/ Exit(n)
         \/ Crash(n)
         \/ MigrationKilled(n)
         \/ Operator(n)

Spec == Init /\ [][Next]_vars

\* The fairness of liveness: CometBFT goes on deciding blocks while a quorum
\* runs, processes make progress, the scheduled exit fires, and operators
\* restart stopped nodes and migrate halted ones.
FairSpec ==
    /\ Spec
    /\ WF_vars(\E p \in Nodes, Q \in Quorum : Decide(p, Q, Plain))
    /\ \A n \in Nodes : WF_vars(Execute(n) \/ Commit(n) \/ CommitAnswered(n))
    /\ \A n \in Nodes : WF_vars(Exit(n))
    /\ \A n \in Nodes : WF_vars(Operator(n))

-----------------------------------------------------------------------------
(* Properties                                                               *)

\* Agreement across crashes, restarts and the upgrade: the state of every
\* node is that of executing each decided block exactly once, in order, and
\* no height is decided twice, in the old network or in the new one.
OneChain ==
    /\ \A b1, b2 \in decided : b1.height = b2.height => b1 = b2
    /\ \A n \in Nodes : \A i \in 1..Len(store[n].log) :
         store[n].log[i] \in decided /\ store[n].log[i].height = i

\* A halt stops the chain at once: until an operator lifts it, no block is
\* decided above the height at which a node has committed the halt bit, even
\* though nodes keep running until their scheduled exit.
HaltStopsChain ==
    \A n \in Nodes :
        store[n].halt /\ lifted = {} =>
            \A b \in decided : b.genesis = comet[n].genesis => b.height <= store[n].height

\* An upgrade plan is honoured: if it passes at a height below the one it
\* names, no later plan replaces it and no operator lifts the halt, the old
\* software executes no block at the upgrade height.
InForce(log, u) ==
    \E i \in 1..(u - 1) :
        /\ i <= Len(log)
        /\ log[i].body.plan = u
        /\ \A j \in (i + 1)..(u - 1) : j <= Len(log) => log[j].body.plan = NoUpgrade

UpgradeHonoured ==
    \A n \in Nodes, u \in UpgradeHeights :
        store[n].appVersion = 0 /\ lifted = {} /\ InForce(store[n].log, u)
            => Len(store[n].log) < u

\* The upgraded chain starts at a clean boundary: at the height after the last
\* old block and, if that is the planned height, with an epoch of its own.
CleanBoundary ==
    \A n \in Nodes :
        Running(n) /\ store[n].appVersion = 1 /\ store[n].height = 0 =>
            /\ comet[n].genesis = Len(store[n].log) + 1
            /\ comet[n].genesis = store[n].next => store[n].epochStart = comet[n].genesis

\* A half-migrated node does not take part in either network: a node runs the
\* new software exactly when its CometBFT is in the new network.
NoHalfUpgradedNode ==
    \A n \in Nodes : Running(n) => (store[n].appVersion = 1 <=> comet[n].genesis > 1)

\* A node that halts for the upgrade executes, in the end, the first block of
\* the upgraded chain.
HaltLeadsToUpgrade ==
    \A n \in Nodes :
        store[n].halt /\ store[n].appVersion = 0
            ~> store[n].appVersion = 1 /\ store[n].height > 0

-----------------------------------------------------------------------------
(* The abstract chain                                                       *)

\* The decided blocks in order; a gap or a second block at some height would
\* leave a position of the sequence without a block.
Chain == [h \in 1..Cardinality(decided) |-> CHOOSE b \in decided : b.height = h]

Ideal == INSTANCE UpgradableChain WITH
    Blocks <- Block,
    chain <- Chain,
    copies <- [n \in Nodes |-> store[n].log],
    resumed <- lifted

\* Through crashes, replays, halts, resumed nodes and migrations the nodes
\* implement one chain, which stops at the block that halts it and goes on
\* from there as the next network, or as it was if an operator says so.
ChainImplemented == Ideal!Spec

=============================================================================

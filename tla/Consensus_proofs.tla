-------------------------- MODULE Consensus_proofs --------------------------
(***************************************************************************)
(* Proofs about the two modules that follow CometBFT block by block:       *)
(* ChainUpgrade, the life of the nodes, and UptimeTracker, that of one     *)
(* validator's record.  The two share no variable; Part I is about the     *)
(* first (Spec, IInv), Part II about the second (UptimeSpec, UptimeInv).   *)
(***************************************************************************)
EXTENDS ChainUpgrade, UptimeTracker, FiniteSetTheorems, TLAPS

-----------------------------------------------------------------------------
(***************************************************************************)
(* Part I.  The safety invariants of ChainUpgrade, for any set of nodes,    *)
(* any family of intersecting quorums, any heights and any operators who   *)
(* resume their node, as long as nobody passes `--force` to `pd migrate`.  *)
(*                                                                         *)
(* The argument.  A block is backed, for ever, by the quorum that signed   *)
(* it (Backed): a member's watermark never goes down, and a member leaves  *)
(* the old network only for one that starts above its watermark.  Quorums  *)
(* intersect, so no height is decided twice.  What a node stores is a      *)
(* function of the blocks it has executed (Shape, Process, Logged): only   *)
(* a half-migrated node breaks the pattern, and it cannot start.  As long  *)
(* as no operator lifts a halt, the halt bit says that a block of this     *)
(* network halts the chain (HaltBit), and every decided block was proposed *)
(* by a node that had executed all blocks below it and was not halted      *)
(* (Unhalted).  So the decided blocks are one chain, which the nodes       *)
(* execute as UpgradableChain says: a block is an Extend of it, a commit   *)
(* an Apply, a lifted halt a Resume, and all else leaves it as it is.      *)
(***************************************************************************)

\* The blocks a node has executed.
Log(n) == store[n].log

\* A node that is not stuck between the two networks.
Whole(n) == store[n].appVersion = 0 \/ comet[n].genesis > 1

\* The plan that stands after the first i blocks of a log names height u.
PlanStands(log, i, u) ==
    \E j \in 1..i :
        /\ log[j].body.plan = u
        /\ \A k \in (j + 1)..i : log[k].body.plan = NoUpgrade

\* The i-th block of a log halts the chain: an emergency, or the last block
\* before the upgrade height.
Halts(log, i) ==
    \/ log[i].body.halt
    \/ i + 1 \in UpgradeHeights /\ PlanStands(log, i, i + 1)

-----------------------------------------------------------------------------
(* The inductive invariant                                                  *)

\* Storage and CometBFT's directory by the stage of the upgrade the node is in.
Shape(n) ==
    LET s == store[n]
        c == comet[n]
    IN  /\ s.version = Len(s.log)
        /\ c.height + 1 >= c.genesis
        /\ s.appVersion = 0 => s.height = Len(s.log) /\ c.genesis = 1
        /\ s.appVersion = 1 /\ c.genesis = 1 =>
               s.height = 0 /\ Len(s.log) > 0 /\ ~s.halt
        /\ c.genesis > 1 =>
               /\ s.appVersion = 1
               /\ \/ s.height = 0 /\ Len(s.log) + 1 = c.genesis /\ c.height = Len(s.log)
                  \/ s.height = Len(s.log) /\ Len(s.log) >= c.genesis

\* The block whose execution is in memory.
Executing(n, b) ==
    /\ b \in decided
    /\ b.genesis = comet[n].genesis
    /\ b.height = NextHeight(n)
    /\ app[n] = EndBlock(Delivered(store[n], b))

\* Memory, storage and CometBFT's last height by the state of the process.
Process(n) ==
    /\ Running(n) => Whole(n)
    /\ proc[n] \in {"idle", "executed"} => Len(Log(n)) = comet[n].height
    /\ proc[n] = "committed" => Len(Log(n)) = NextHeight(n)
    /\ proc[n] = "down" /\ Whole(n) => Len(Log(n)) \in {comet[n].height, NextHeight(n)}
    /\ proc[n] \in {"idle", "committed"} => app[n] = store[n]
    /\ proc[n] = "executed" => \E b \in decided : Executing(n, b)
    /\ proc[n] \in {"stateMigrated", "genesisWritten"} =>
           ~Whole(n) /\ app[n].height = Len(Log(n))
    /\ proc[n] = "genesisWritten" => comet[n].config = Len(Log(n)) + 1

\* The blocks executed are decided blocks at consecutive heights, those of the
\* old network up to the upgrade and those of the node's own after it.
Logged(n) ==
    \A i \in 1..Len(Log(n)) :
        /\ Log(n)[i] \in decided
        /\ Log(n)[i].height = i
        /\ Log(n)[i].genesis = IF i < comet[n].genesis THEN 1 ELSE comet[n].genesis

\* next_upgrade is the plan that stands after the blocks executed, and the
\* block before the upgrade height has ended its epoch.
Planned(n) ==
    /\ \A u \in UpgradeHeights : store[n].next = u <=> PlanStands(Log(n), Len(Log(n)), u)
    /\ store[n].next = Len(Log(n)) + 1 => store[n].epochStart = Len(Log(n)) + 1

\* A quorum has signed the block, and each member is still in its network or
\* has left the old one for one that starts above the block.
Supports(n, b) ==
    /\ comet[n].signed >= b.height
    /\ \/ comet[n].genesis = b.genesis
       \/ b.genesis = 1 /\ comet[n].genesis > b.height

Backed(b) ==
    /\ b.height >= b.genesis
    /\ \E Q \in Quorum : \A n \in Q : Supports(n, b)

Decided ==
    /\ \A b \in decided : Backed(b)
    /\ \A b1, b2 \in decided : b1.genesis = b2.genesis /\ b1.height = b2.height => b1 = b2

\* The halt bit is set exactly when a block of the node's network halts.
HaltBit(n) ==
    Whole(n) =>
        (store[n].halt <=> \E i \in comet[n].genesis..Len(Log(n)) : Halts(Log(n), i))

\* A node has executed all the blocks below a decided one, and none halts.
Unhalted(b) ==
    \E p \in Nodes :
        /\ Len(Log(p)) >= b.height - 1
        /\ \A i \in b.genesis..(b.height - 1) : ~Halts(Log(p), i)

Node(n) == Shape(n) /\ Process(n) /\ Logged(n) /\ Planned(n)

NodeInv == \A n \in Nodes : Node(n)

\* The invariant of the chain, whatever the operators do ...
ChainInv == TypeOK /\ NodeInv /\ Decided

\* ... and what holds in addition until one of them lifts a halt.
HaltInv ==
    lifted = {} => /\ \A n \in Nodes : HaltBit(n)
                   /\ \A b \in decided : Unhalted(b)

IInv == ChainInv /\ HaltInv

-----------------------------------------------------------------------------
(* What a step does to one node                                             *)

\* The steps of one node.
NodeStep(n) ==
    \/ PrepareProposalHalted(n) \/ NilPrevote(n) \/ Execute(n) \/ Commit(n)
    \/ CommitAnswered(n) \/ Exit(n) \/ Crash(n) \/ MigrationKilled(n)
    \/ (\E v \in AppVersions : Start(n, v)) \/ ReadyToStart(n) \/ MigrateState(n)
    \/ WriteGenesis(n) \/ MigrateComet(n)

\* A step is a decision of CometBFT or a step of one node.
LEMMA StepCases ==
    Next <=> \/ \E p \in Nodes, Q \in Quorum, body \in Bodies : Decide(p, Q, body)
             \/ \E n \in Nodes : NodeStep(n)
BY DEF Next, Operator, NodeStep

\* The types of one node's state and directory, for the provers.
LEMMA NodeTypes ==
    ASSUME TypeOK, NEW n \in Nodes
    PROVE  /\ store[n] \in State /\ app[n] \in State /\ comet[n] \in Comet
           /\ proc[n] \in ProcStates
           /\ Log(n) \in Seq(Block) /\ Len(Log(n)) \in Nat
           /\ \A i \in 1..Len(Log(n)) : Log(n)[i] \in Block
BY DEF TypeOK, State, Log

\* Executing a block changes the state to that of the block's height, and
\* keeps its type.
LEMMA ExecutedState ==
    ASSUME NEW s \in State, NEW b \in Block
    PROVE  LET e == EndBlock(Delivered(s, b))
           IN  /\ e \in State
               /\ e.log = Append(s.log, b)
               /\ e.height = b.height
               /\ e.version = s.version
               /\ e.appVersion = s.appVersion
               /\ (e.halt <=> s.halt \/ b.body.halt)
               /\ e.next = IF b.body.plan # NoUpgrade THEN b.body.plan ELSE s.next
               /\ e.next = b.height + 1 => e.epochStart = b.height + 1
<1> DEFINE d == Delivered(s, b)
           h == s.halt \/ b.body.halt
           p == IF b.body.plan # NoUpgrade THEN b.body.plan ELSE s.next
<1>1. b.body \in Bodies /\ b.height \in 0..MaxHeight
  BY HeightAssumption DEF Block
<1>2. b.body.plan \in {NoUpgrade} \cup UpgradeHeights
  BY <1>1 DEF Bodies
<1>3. h \in BOOLEAN
  OBVIOUS
<1>4. p \in {NoUpgrade} \cup UpgradeHeights
  BY <1>2 DEF State
<1>5. Append(s.log, b) \in Seq(Block)
  BY DEF State
<1>6. d = [s EXCEPT !.height = b.height, !.halt = h, !.next = p, !.log = Append(s.log, b)]
  BY Zenon DEF Delivered
<1> HIDE DEF d, h, p
<1>7. /\ d \in State
      /\ d.height = b.height /\ d.halt = h /\ d.next = p /\ d.log = Append(s.log, b)
      /\ d.version = s.version /\ d.appVersion = s.appVersion
  <2>1. d \in State
    BY <1>1, <1>3, <1>4, <1>5, <1>6 DEF State
  <2>2. d.height = b.height /\ d.next = p /\ d.log = Append(s.log, b)
    BY <1>6 DEF State
  <2>3. d.halt = h
    BY <1>3, <1>6 DEF State
  <2>4. d.version = s.version /\ d.appVersion = s.appVersion
    BY <1>6 DEF State
  <2> QED BY <2>1, <2>2, <2>3, <2>4
<1>8. d.height + 1 \in 0..(MaxHeight + 1)
  BY <1>7, HeightAssumption DEF State
<1>9. /\ EndBlock(d) \in State
      /\ EndBlock(d).height = d.height /\ EndBlock(d).halt = d.halt
      /\ EndBlock(d).next = d.next /\ EndBlock(d).log = d.log
      /\ EndBlock(d).version = d.version /\ EndBlock(d).appVersion = d.appVersion
      /\ d.next = d.height + 1 => EndBlock(d).epochStart = d.height + 1
  BY <1>7, <1>8 DEF EndBlock, EpochEnds, IsPreUpgradeHeight, State
<1> QED
  BY <1>7, <1>9 DEF d, h, p

\* Committing a state sets the halt bit before the upgrade height and counts
\* the version; nothing else changes.
LEMMA CommittedState ==
    ASSUME NEW s \in State, s.version < MaxHeight
    PROVE  LET e == Committed(s)
           IN  /\ e \in State
               /\ e.log = s.log
               /\ e.height = s.height
               /\ e.version = s.version + 1
               /\ e.appVersion = s.appVersion
               /\ e.next = s.next
               /\ e.epochStart = s.epochStart
               /\ (e.halt <=> s.halt \/ s.height + 1 = s.next)
<1> DEFINE h == s.halt \/ IsPreUpgradeHeight(s)
           e == Committed(s)
<1>1. h \in BOOLEAN
  OBVIOUS
<1>2. s.version + 1 \in 0..MaxHeight
  BY HeightAssumption DEF State
<1>3. e = [s EXCEPT !.halt = h, !.version = s.version + 1]
  BY Zenon DEF Committed
<1> HIDE DEF e, h
<1>4. e \in State
  BY <1>1, <1>2, <1>3 DEF State
<1>5. e.halt = h
  BY <1>1, <1>3 DEF State
<1>6. /\ e.log = s.log /\ e.height = s.height /\ e.version = s.version + 1
      /\ e.appVersion = s.appVersion /\ e.next = s.next /\ e.epochStart = s.epochStart
  BY <1>3 DEF State
<1> QED BY <1>4, <1>5, <1>6 DEF e, h, IsPreUpgradeHeight

\* The whole effect of executing and committing a block.
LEMMA CommitEffect ==
    ASSUME ChainInv, NEW n \in Nodes, Commit(n)
    PROVE  \E b \in decided :
             LET s == store[n]
                 e == Committed(app[n])
             IN  /\ b.genesis = comet[n].genesis
                 /\ b.height = Len(Log(n)) + 1
                 /\ Len(Log(n)) = comet[n].height
                 /\ e \in State
                 /\ e.log = Append(Log(n), b)
                 /\ e.height = b.height
                 /\ e.version = s.version + 1
                 /\ e.appVersion = s.appVersion
                 /\ e.next = IF b.body.plan # NoUpgrade THEN b.body.plan ELSE s.next
                 /\ e.next = b.height + 1 => e.epochStart = b.height + 1
                 /\ (e.halt <=> s.halt \/ b.body.halt \/ e.next = b.height + 1)
<1>1. proc[n] = "executed" /\ Node(n)
  BY DEF Commit, ChainInv, NodeInv
<1>2. Len(Log(n)) = comet[n].height
  BY <1>1 DEF Node, Process
<1>3. PICK b \in decided : Executing(n, b)
  BY <1>1 DEF Node, Process
<1>4. /\ b \in Block /\ store[n] \in State
      /\ Log(n) \in Seq(Block) /\ comet[n] \in Comet
  BY NodeTypes DEF ChainInv, TypeOK
<1>5. /\ app[n] \in State
      /\ app[n].log = Append(Log(n), b)
      /\ app[n].height = b.height
      /\ app[n].version = store[n].version
      /\ app[n].appVersion = store[n].appVersion
      /\ app[n].next = IF b.body.plan # NoUpgrade THEN b.body.plan ELSE store[n].next
      /\ app[n].next = b.height + 1 => app[n].epochStart = b.height + 1
      /\ app[n].halt <=> store[n].halt \/ b.body.halt
  <2>1. app[n] = EndBlock(Delivered(store[n], b))
    BY <1>3 DEF Executing
  <2>2. LET e == EndBlock(Delivered(store[n], b))
        IN  /\ e \in State
            /\ e.log = Append(store[n].log, b)
            /\ e.height = b.height
            /\ e.version = store[n].version
            /\ e.appVersion = store[n].appVersion
            /\ (e.halt <=> store[n].halt \/ b.body.halt)
            /\ e.next = IF b.body.plan # NoUpgrade THEN b.body.plan ELSE store[n].next
            /\ e.next = b.height + 1 => e.epochStart = b.height + 1
    BY <1>4, ExecutedState
  <2> QED BY <2>1, <2>2, Zenon DEF Log
<1>6. b.genesis = comet[n].genesis /\ b.height = Len(Log(n)) + 1
  BY <1>2, <1>3 DEF Executing, NextHeight
<1>7. app[n].version < MaxHeight
  <2>1. store[n].version = Len(Log(n))
    BY <1>1 DEF Node, Shape, Log
  <2>2. app[n].version + 1 = b.height
    BY <1>5, <1>6, <2>1
  <2>3. b.height \in 1..MaxHeight
    BY <1>4 DEF Block
  <2>4. app[n].version \in Nat
    BY <1>5 DEF State
  <2> QED BY <2>2, <2>3, <2>4, HeightAssumption
<1>8. LET e == Committed(app[n])
      IN  /\ e \in State
          /\ e.log = app[n].log
          /\ e.height = app[n].height
          /\ e.version = app[n].version + 1
          /\ e.appVersion = app[n].appVersion
          /\ e.next = app[n].next
          /\ e.epochStart = app[n].epochStart
          /\ e.halt <=> app[n].halt \/ app[n].height + 1 = app[n].next
  BY <1>5, <1>7, CommittedState
<1> HIDE DEF ChainInv
<1>9. Committed(app[n]).halt
        <=> store[n].halt \/ b.body.halt \/ Committed(app[n]).next = b.height + 1
  BY <1>5, <1>8
<1> QED BY <1>2, <1>5, <1>6, <1>8, <1>9

-----------------------------------------------------------------------------
(* Types                                                                    *)

\* Every step keeps the types, given that no node is ahead of the chain.
LEMMA TypeStep ==
    ASSUME ~Forced, ChainInv, Next
    PROVE  TypeOK'
<1> USE DEF TypeOK
<1>0. TypeOK
  BY DEF ChainInv
<1>1. ASSUME NEW p \in Nodes, NEW Q \in Quorum, NEW body \in Bodies, Decide(p, Q, body)
      PROVE  TypeOK'
  <2>1. NextHeight(p) \in 1..MaxHeight /\ NextHeight(p) \in 0..(MaxHeight + 1)
    BY <1>0, <1>1, HeightAssumption DEF Decide, NextHeight, Comet
  <2>2. decided' \in SUBSET Block
    BY <1>0, <1>1, <2>1 DEF Decide, Block, Comet
  <2>3. comet' \in [Nodes -> Comet]
    BY <1>0, <1>1, <2>1 DEF Decide, Comet
  <2> QED BY <1>0, <1>1, <2>2, <2>3 DEF Decide
<1>2. ASSUME NEW n \in Nodes, NodeStep(n)
      PROVE  TypeOK'
  <2> USE <1>0, HeightAssumption
  <2>0. /\ store[n] \in State /\ app[n] \in State /\ comet[n] \in Comet
        /\ Node(n)
    BY DEF ChainInv, NodeInv
  <2>1. CASE PrepareProposalHalted(n) \/ Exit(n) \/ MigrationKilled(n)
    BY <2>1 DEF PrepareProposalHalted, Exit, MigrationKilled, ProcStates
  <2>2. CASE NilPrevote(n)
    BY <2>0, <2>2 DEF NilPrevote, NextHeight, Comet
  <2>3. CASE Execute(n)
    <3>1. PICK b \in decided : app' = [app EXCEPT ![n] = EndBlock(Delivered(app[n], b))]
      BY <2>3 DEF Execute
    <3>2. EndBlock(Delivered(app[n], b)) \in State
      BY <2>0, ExecutedState
    <3> QED BY <2>3, <3>1, <3>2 DEF Execute, ProcStates
  <2>4. CASE Commit(n)
    <3>1. Committed(app[n]) \in State
      BY <2>4, CommitEffect
    <3> QED BY <2>4, <3>1 DEF Commit, ProcStates
  <2>5. CASE CommitAnswered(n)
    <3>1. Len(Log(n)) = NextHeight(n)
      BY <2>0, <2>5 DEF CommitAnswered, Node, Process
    <3>2. store[n].version = Len(Log(n))
      BY <2>0 DEF Node, Shape, Log
    <3>3. NextHeight(n) \in 0..MaxHeight
      BY <2>0, <3>1, <3>2 DEF State
    <3> QED BY <2>0, <2>5, <3>3 DEF CommitAnswered, ProcStates, Comet
  <2>6. CASE Crash(n)
    BY <2>6 DEF Crash, ProcStates
  <2>7. CASE \E v \in AppVersions : Start(n, v)
    BY <2>0, <2>7 DEF Start, Loaded, ProcStates
  <2>8. CASE ReadyToStart(n)
    <3>1. [store[n] EXCEPT !.halt = FALSE] \in State
      BY <2>0 DEF State
    <3> QED BY <2>8, <3>1 DEF ReadyToStart
  <2>9. CASE MigrateState(n)
    <3>1. MigratedState(store[n]) \in State
      <4>1. 1 \in AppVersions /\ 0 \in 0..MaxHeight
        BY DEF AppVersions
      <4> QED BY <2>0, <4>1 DEF MigratedState, State
    <3> QED BY <2>0, <2>9, <3>1 DEF MigrateState, ProcStates
  <2>10. CASE WriteGenesis(n)
    <3>1. PostUpgradeHeight(n) \in 1..(MaxHeight + 1)
      BY <2>0 DEF PostUpgradeHeight, State
    <3> QED BY <2>0, <2>10, <3>1 DEF WriteGenesis, ProcStates, Comet
  <2>11. CASE MigrateComet(n)
    <3>1. proc' \in [Nodes -> ProcStates]
      BY <2>11 DEF MigrateComet, ProcStates
    <3>2. CASE WatermarkBelow(n)
      <4>1. comet' \in [Nodes -> Comet]
        BY <2>0, <2>11, <3>2 DEF MigrateComet, Comet
      <4> QED BY <2>11, <3>1, <4>1 DEF MigrateComet
    <3> QED BY <2>11, <3>1, <3>2 DEF MigrateComet
  <2> QED
    BY <1>2, <2>1, <2>2, <2>3, <2>4, <2>5, <2>6, <2>7, <2>8, <2>9, <2>10, <2>11 DEF NodeStep
<1> QED BY <1>1, <1>2, StepCases

-----------------------------------------------------------------------------
(* Nodes                                                                    *)

\* What is known of a node stays true when only the decided blocks grow and
\* the node's watermark moves.
LEMMA Untouched ==
    ASSUME NEW m \in Nodes, Node(m), decided \subseteq decided',
           store'[m] = store[m], app'[m] = app[m], proc'[m] = proc[m],
           comet'[m].genesis = comet[m].genesis, comet'[m].height = comet[m].height,
           comet'[m].config = comet[m].config
    PROVE  Node(m)'
<1>1. Shape(m)'
  BY DEF Node, Shape
<1>2. Process(m)'
  BY DEF Node, Process, Running, Whole, Log, NextHeight, Executing
<1>3. Logged(m)'
  BY DEF Node, Logged, Log
<1>4. Planned(m)'
  BY DEF Node, Planned, Log
<1> QED BY <1>1, <1>2, <1>3, <1>4 DEF Node

\* The plan that stands after one more block.
LEMMA PlanAppend ==
    ASSUME NEW l \in Seq(Block), NEW b \in Block, NEW u \in UpgradeHeights
    PROVE  PlanStands(Append(l, b), Len(l) + 1, u)
             <=> IF b.body.plan # NoUpgrade THEN b.body.plan = u ELSE PlanStands(l, Len(l), u)
<1> DEFINE a == Append(l, b)
           k == Len(l) + 1
<1>1. /\ Len(l) \in Nat
      /\ a[k] = b
      /\ \A i \in 1..Len(l) : a[i] = l[i]
      /\ u # NoUpgrade
  BY HeightAssumption DEF NoUpgrade
<1> HIDE DEF a
<1>2. CASE b.body.plan = NoUpgrade
  <2>1. ASSUME PlanStands(a, k, u) PROVE PlanStands(l, Len(l), u)
    <3>1. PICK j \in 1..k : /\ a[j].body.plan = u
                            /\ \A i \in (j + 1)..k : a[i].body.plan = NoUpgrade
      BY <2>1 DEF PlanStands
    <3>2. j # k
      BY <1>1, <1>2, <3>1
    <3>3. j \in 1..Len(l) /\ \A i \in (j + 1)..Len(l) : l[i].body.plan = NoUpgrade
      BY <1>1, <3>1, <3>2
    <3> QED BY <1>1, <3>1, <3>3 DEF PlanStands
  <2>2. ASSUME PlanStands(l, Len(l), u) PROVE PlanStands(a, k, u)
    <3>1. PICK j \in 1..Len(l) : /\ l[j].body.plan = u
                                 /\ \A i \in (j + 1)..Len(l) : l[i].body.plan = NoUpgrade
      BY <2>2 DEF PlanStands
    <3>2. j \in 1..k /\ a[j].body.plan = u
      BY <1>1, <3>1
    <3>3. \A i \in (j + 1)..k : a[i].body.plan = NoUpgrade
      <4> TAKE i \in (j + 1)..k
      <4>1. CASE i = k
        BY <1>1, <1>2, <4>1
      <4>2. CASE i # k
        BY <1>1, <3>1, <4>2
      <4> QED BY <4>1, <4>2
    <3> QED BY <3>2, <3>3 DEF PlanStands
  <2> QED BY <1>2, <2>1, <2>2 DEF a
<1>3. CASE b.body.plan # NoUpgrade
  <2>1. ASSUME PlanStands(a, k, u) PROVE b.body.plan = u
    BY <1>1, <1>3, <2>1 DEF PlanStands
  <2>2. ASSUME b.body.plan = u PROVE PlanStands(a, k, u)
    <3>1. k \in 1..k /\ \A i \in (k + 1)..k : a[i].body.plan = NoUpgrade
      BY <1>1
    <3> QED BY <1>1, <2>2, <3>1 DEF PlanStands
  <2> QED BY <1>3, <2>1, <2>2 DEF a
<1> QED BY <1>2, <1>3

\* A decision touches the watermarks of its quorum only.
LEMMA NodeDecide ==
    ASSUME ChainInv, NEW p \in Nodes, NEW Q \in Quorum, NEW body \in Bodies,
           Decide(p, Q, body)
    PROVE  NodeInv'
<1> SUFFICES ASSUME NEW m \in Nodes PROVE Node(m)'
  BY DEF NodeInv
<1>1. Node(m) /\ comet[m] \in Comet
  BY NodeTypes DEF ChainInv, NodeInv
<1>2. /\ decided \subseteq decided' /\ store'[m] = store[m] /\ app'[m] = app[m]
      /\ proc'[m] = proc[m]
  BY DEF Decide
<1>3. /\ comet'[m].genesis = comet[m].genesis /\ comet'[m].height = comet[m].height
      /\ comet'[m].config = comet[m].config
  BY <1>1 DEF Decide, Comet
<1> QED BY <1>1, <1>2, <1>3, Untouched

\* A step of a node leaves the others alone.
LEMMA OtherNodes ==
    ASSUME TypeOK, NEW n \in Nodes, NodeStep(n), NEW m \in Nodes, m # n
    PROVE  /\ store'[m] = store[m] /\ app'[m] = app[m] /\ proc'[m] = proc[m]
           /\ comet'[m] = comet[m]
<1> USE DEF TypeOK
<1>1. CASE PrepareProposalHalted(n) \/ NilPrevote(n) \/ Execute(n) \/ Commit(n)
  BY <1>1 DEF PrepareProposalHalted, NilPrevote, Execute, Commit
<1>2. CASE CommitAnswered(n) \/ Exit(n) \/ Crash(n) \/ MigrationKilled(n)
  BY <1>2 DEF CommitAnswered, Exit, Crash, MigrationKilled
<1>3. CASE (\E v \in AppVersions : Start(n, v)) \/ ReadyToStart(n)
  BY <1>3 DEF Start, ReadyToStart
<1>4. CASE MigrateState(n) \/ WriteGenesis(n) \/ MigrateComet(n)
  BY <1>4 DEF MigrateState, WriteGenesis, MigrateComet
<1> QED BY <1>1, <1>2, <1>3, <1>4 DEF NodeStep

\* Blocks are decided by CometBFT only.
LEMMA SameBlocks ==
    ASSUME NEW n \in Nodes, NodeStep(n)
    PROVE  decided' = decided
BY DEF NodeStep, PrepareProposalHalted, NilPrevote, Execute, Commit, CommitAnswered, Exit,
       Crash, MigrationKilled, Start, ReadyToStart, MigrateState, WriteGenesis, MigrateComet

\* Only the process stops: what is known of storage and directory stays.
LEMMA NodeStops ==
    ASSUME TypeOK, NEW n \in Nodes, Node(n), Running(n) \/ ~Whole(n),
           store' = store, comet' = comet, decided' = decided,
           proc' = [proc EXCEPT ![n] = "down"]
    PROVE  Node(n)'
<1>1. proc'[n] = "down"
  BY DEF TypeOK
<1>2. Shape(n)' /\ Logged(n)' /\ Planned(n)'
  BY DEF Node, Shape, Logged, Planned, Log
<1>3. Process(n)'
  BY <1>1 DEF Node, Process, Running, Whole, Log, NextHeight
<1> QED BY <1>2, <1>3 DEF Node

\* pd commits the block it has executed.
LEMMA NodeCommit ==
    ASSUME ChainInv, NEW n \in Nodes, Commit(n)
    PROVE  Node(n)'
<1> DEFINE s == store[n]
           e == Committed(app[n])
<1>1. PICK b \in decided :
        /\ b.genesis = comet[n].genesis
        /\ b.height = Len(Log(n)) + 1
        /\ Len(Log(n)) = comet[n].height
        /\ e \in State
        /\ e.log = Append(Log(n), b)
        /\ e.height = b.height
        /\ e.version = s.version + 1
        /\ e.appVersion = s.appVersion
        /\ e.next = IF b.body.plan # NoUpgrade THEN b.body.plan ELSE s.next
        /\ e.next = b.height + 1 => e.epochStart = b.height + 1
  BY CommitEffect
<1>2. /\ store'[n] = e /\ app'[n] = e /\ proc'[n] = "committed"
      /\ comet' = comet /\ decided' = decided /\ proc[n] = "executed"
  BY DEF Commit, ChainInv, TypeOK
<1>3. /\ Log(n) \in Seq(Block) /\ comet[n] \in Comet /\ b \in Block /\ s \in State
      /\ Len(Log(n)) \in Nat
  BY NodeTypes DEF ChainInv, TypeOK
<1>4. Node(n)
  BY DEF ChainInv, NodeInv
<1>5. Whole(n) /\ Whole(n)'
  <2>1. Whole(n)
    BY <1>2, <1>4 DEF Node, Process, Running
  <2> QED BY <1>1, <1>2, <2>1 DEF Whole
<1>6. /\ Log(n)' = Append(Log(n), b)
      /\ Len(Log(n)') = Len(Log(n)) + 1
      /\ Log(n)'[Len(Log(n)) + 1] = b
      /\ \A i \in 1..Len(Log(n)) : Log(n)'[i] = Log(n)[i]
  <2>1. Log(n)' = Append(Log(n), b)
    BY <1>1, <1>2 DEF Log
  <2>2. /\ Len(Append(Log(n), b)) = Len(Log(n)) + 1
        /\ Append(Log(n), b)[Len(Log(n)) + 1] = b
        /\ \A i \in 1..Len(Log(n)) : Append(Log(n), b)[i] = Log(n)[i]
    BY <1>3
  <2> QED BY <2>1, <2>2
<1> HIDE DEF e
<1>7. Shape(n)'
  <2>1. e.version = Len(e.log) /\ e.height = Len(e.log)
    BY <1>1, <1>2, <1>3, <1>4, <1>6 DEF Node, Shape, Log
  <2>2. comet[n].height + 1 >= comet[n].genesis
    BY <1>4 DEF Node, Shape
  <2>3. comet[n].genesis > 1 => e.appVersion = 1
    BY <1>1, <1>4 DEF Node, Shape
  <2>4. e.appVersion = 0 => comet[n].genesis = 1
    BY <1>1, <1>4 DEF Node, Shape
  <2>5. Len(e.log) >= comet[n].genesis
    BY <1>1, <1>2, <1>3, <1>6, <2>2 DEF Log, Comet
  <2>6. ~(e.appVersion = 1 /\ comet[n].genesis = 1)
    BY <1>1, <1>3, <1>5 DEF Whole, Comet
  <2> QED BY <1>2, <2>1, <2>2, <2>3, <2>4, <2>5, <2>6 DEF Shape
<1>8. Process(n)'
  BY <1>1, <1>2, <1>5, <1>6 DEF Process, Running, NextHeight
<1>9. Logged(n)'
  <2> SUFFICES ASSUME NEW i \in 1..Len(Log(n)')
               PROVE  /\ Log(n)'[i] \in decided
                      /\ Log(n)'[i].height = i
                      /\ Log(n)'[i].genesis = IF i < comet[n].genesis THEN 1 ELSE comet[n].genesis
    BY <1>2 DEF Logged
  <2>1. CASE i = Len(Log(n)) + 1
    <3>1. comet[n].height + 1 >= comet[n].genesis
      BY <1>4 DEF Node, Shape
    <3> QED BY <1>1, <1>3, <1>6, <2>1, <3>1 DEF Comet
  <2>2. CASE i # Len(Log(n)) + 1
    <3>1. i \in 1..Len(Log(n))
      BY <1>3, <1>6, <2>2
    <3> QED BY <1>4, <1>6, <3>1 DEF Node, Logged
  <2> QED BY <2>1, <2>2
<1>10. Planned(n)'
  <2>1. ASSUME NEW u \in UpgradeHeights
        PROVE  e.next = u <=> PlanStands(Log(n)', Len(Log(n)'), u)
    BY <1>1, <1>3, <1>4, <1>6, PlanAppend DEF Node, Planned
  <2>2. e.next = Len(Log(n)') + 1 => e.epochStart = Len(Log(n)') + 1
    BY <1>1, <1>6
  <2> QED BY <1>2, <2>1, <2>2 DEF Planned
<1> QED BY <1>7, <1>8, <1>9, <1>10 DEF Node

\* pd starts: a half-migrated node fails the handshake, and CometBFT and pd
\* agree on whether the last block still has to be acknowledged.
LEMMA NodeStart ==
    ASSUME ChainInv, NEW n \in Nodes, NEW v \in AppVersions, Start(n, v)
    PROVE  Node(n)'
<1>1. /\ Node(n) /\ store[n] \in State /\ comet[n] \in Comet /\ Len(Log(n)) \in Nat
      /\ proc[n] = "down" /\ HandshakeSucceeds(n)
  BY NodeTypes DEF ChainInv, NodeInv, Start
<1>2. /\ store' = store /\ comet' = comet /\ decided' = decided
      /\ app'[n] = store[n]
      /\ proc'[n] = IF store[n].height = NextHeight(n) THEN "committed" ELSE "idle"
  BY DEF Start, Loaded, ChainInv, TypeOK
<1>3. Whole(n)
  BY <1>1 DEF HandshakeSucceeds, Whole, Node, Shape, State, AppVersions, Comet, Log
<1>4. Len(Log(n)) \in {comet[n].height, NextHeight(n)}
  BY <1>1, <1>3 DEF Node, Process
<1>5. IF store[n].height = NextHeight(n)
        THEN Len(Log(n)) = NextHeight(n) ELSE Len(Log(n)) = comet[n].height
  BY <1>1, <1>3, <1>4 DEF Whole, Node, Shape, State, AppVersions, Comet, Log, NextHeight
<1>6. Shape(n)' /\ Logged(n)' /\ Planned(n)'
  BY <1>1, <1>2 DEF Node, Shape, Logged, Planned, Log
<1>7. Process(n)'
  <2>1. /\ Whole(n)' /\ Len(Log(n)') = Len(Log(n)) /\ NextHeight(n)' = NextHeight(n)
        /\ app'[n] = store'[n]
    BY <1>2, <1>3 DEF Whole, Log, NextHeight
  <2>2. CASE store[n].height = NextHeight(n)
    BY <1>2, <1>5, <2>1, <2>2 DEF Process
  <2>3. CASE store[n].height # NextHeight(n)
    BY <1>2, <1>5, <2>1, <2>3 DEF Process
  <2> QED BY <2>2, <2>3
<1> QED BY <1>6, <1>7 DEF Node

\* `pd migrate` rewrites the state: the node is between the two networks.
LEMMA NodeMigrateState ==
    ASSUME ~Forced, ChainInv, NEW n \in Nodes, MigrateState(n)
    PROVE  Node(n)'
<1> DEFINE e == MigratedState(store[n])
<1>1. /\ Node(n) /\ store[n] \in State /\ comet[n] \in Comet /\ Len(Log(n)) \in Nat
      /\ store[n].appVersion = 0 /\ store[n].height > 0
  BY NodeTypes DEF ChainInv, NodeInv, MigrateState
<1>2. /\ store'[n] = e /\ app'[n] = store[n] /\ proc'[n] = "stateMigrated"
      /\ comet' = comet /\ decided' = decided
  BY DEF MigrateState, ChainInv, TypeOK
<1>3. /\ e.appVersion = 1 /\ e.height = 0 /\ e.version = store[n].version
      /\ e.log = store[n].log /\ e.next = store[n].next /\ e.epochStart = store[n].epochStart
  BY <1>1 DEF MigratedState, State
<1>4. ~e.halt
  BY <1>1 DEF MigratedState, State
<1> HIDE DEF e
<1>5. store[n].height = Len(Log(n)) /\ comet[n].genesis = 1
  BY <1>1 DEF Node, Shape, Log
<1>6. Shape(n)'
  BY <1>1, <1>2, <1>3, <1>4, <1>5 DEF Node, Shape, Log
<1>7. Process(n)'
  BY <1>1, <1>2, <1>3, <1>5 DEF Process, Running, Whole, Log
<1>8. Logged(n)' /\ Planned(n)'
  BY <1>1, <1>2, <1>3 DEF Node, Logged, Planned, Log
<1> QED BY <1>6, <1>7, <1>8 DEF Node

\* `pd migrate` moves CometBFT to the next network, above every block the
\* node has executed, or fails and leaves the node between the two.
LEMMA NodeMigrateComet ==
    ASSUME ChainInv, NEW n \in Nodes, MigrateComet(n)
    PROVE  Node(n)'
<1>1. /\ Node(n) /\ store[n] \in State /\ comet[n] \in Comet /\ Len(Log(n)) \in Nat
      /\ proc[n] = "genesisWritten" /\ ~Whole(n)
  BY NodeTypes DEF ChainInv, NodeInv, MigrateComet, Node, Process
<1>2. /\ store' = store /\ app' = app /\ proc'[n] = "down" /\ decided' = decided
      /\ proc' = [proc EXCEPT ![n] = "down"]
  BY DEF MigrateComet, ChainInv, TypeOK
<1>3. CASE ~WatermarkBelow(n)
  BY <1>1, <1>2, <1>3, NodeStops DEF MigrateComet, ChainInv
<1>4. CASE WatermarkBelow(n)
  <2>1. /\ comet[n].config = Len(Log(n)) + 1 /\ comet[n].genesis = 1
        /\ store[n].height = 0 /\ store[n].appVersion = 1 /\ Len(Log(n)) > 0
        /\ store[n].version = Len(Log(n))
    BY <1>1 DEF Node, Process, Shape, Whole, State, AppVersions, Comet, Log
  <2>2. comet'[n].genesis = Len(Log(n)) + 1 /\ comet'[n].height = Len(Log(n))
    BY <1>1, <1>4, <2>1 DEF MigrateComet, Comet, ChainInv, TypeOK
  <2>3. Shape(n)'
    BY <1>1, <1>2, <2>1, <2>2 DEF Shape, Log
  <2>4. Process(n)'
    BY <1>1, <1>2, <2>2 DEF Process, Running, Log
  <2>5. Logged(n)'
    <3> SUFFICES ASSUME NEW i \in 1..Len(Log(n))
                 PROVE  /\ Log(n)[i] \in decided
                        /\ Log(n)[i].height = i
                        /\ Log(n)[i].genesis = 1
                        /\ i < comet'[n].genesis
      BY <1>2 DEF Logged, Log
    <3> QED BY <1>1, <2>1, <2>2 DEF Node, Logged
  <2>6. Planned(n)'
    BY <1>1, <1>2 DEF Node, Planned, Log
  <2> QED BY <2>3, <2>4, <2>5, <2>6 DEF Node
<1> QED BY <1>3, <1>4

\* Every step keeps what is known of the nodes.
LEMMA NodeInvStep ==
    ASSUME ~Forced, ChainInv, Next
    PROVE  NodeInv'
<1>1. ASSUME NEW n \in Nodes, NodeStep(n) PROVE NodeInv'
  <2>1. TypeOK /\ Node(n) /\ decided' = decided
    BY <1>1, SameBlocks DEF ChainInv, NodeInv
  <2>2. store[n] \in State /\ comet[n] \in Comet /\ Len(Log(n)) \in Nat
    BY <2>1, NodeTypes
  <2>3. ASSUME NEW m \in Nodes, m # n PROVE Node(m)'
    <3>1. Node(m)
      BY DEF ChainInv, NodeInv
    <3> QED BY <1>1, <2>1, <2>3, <3>1, OtherNodes, Untouched
  <2> SUFFICES Node(n)'
    BY <2>3 DEF NodeInv
  <2>4. CASE PrepareProposalHalted(n) \/ Exit(n) \/ Crash(n)
    BY <2>1, <2>4, NodeStops DEF PrepareProposalHalted, Exit, Crash, Running
  <2>5. CASE MigrationKilled(n)
    <3>1. ~Whole(n)
      BY <2>1, <2>5 DEF MigrationKilled, Node, Process
    <3> QED BY <2>1, <2>5, <3>1, NodeStops DEF MigrationKilled
  <2>6. CASE NilPrevote(n)
    <3>1. /\ comet'[n].genesis = comet[n].genesis /\ comet'[n].height = comet[n].height
          /\ comet'[n].config = comet[n].config
      BY <2>1, <2>2, <2>6 DEF NilPrevote, Comet, TypeOK
    <3> QED BY <2>1, <2>6, <3>1, Untouched DEF NilPrevote
  <2>7. CASE Execute(n)
    <3>1. /\ proc[n] = "idle" /\ proc'[n] = "executed" /\ store' = store /\ comet' = comet
          /\ app[n] = store[n]
      BY <2>1, <2>7 DEF Execute, TypeOK, Node, Process
    <3>2. \E b \in decided : /\ b.genesis = comet[n].genesis
                             /\ b.height = NextHeight(n)
                             /\ app'[n] = EndBlock(Delivered(store[n], b))
      BY <2>1, <2>7, <3>1 DEF Execute, TypeOK
    <3>3. \E b \in decided' : Executing(n, b)'
      BY <2>1, <3>1, <3>2 DEF Executing, NextHeight
    <3>4. Process(n)'
      BY <2>1, <3>1, <3>3 DEF Node, Process, Running, Whole, Log, NextHeight
    <3>5. Shape(n)' /\ Logged(n)' /\ Planned(n)'
      BY <2>1, <3>1 DEF Node, Shape, Logged, Planned, Log
    <3> QED BY <3>4, <3>5 DEF Node
  <2>8. CASE Commit(n)
    BY <2>8, NodeCommit
  <2>9. CASE CommitAnswered(n)
    <3>1. /\ proc[n] = "committed" /\ proc'[n] = "idle" /\ store' = store /\ app' = app
          /\ comet'[n].height = NextHeight(n) /\ comet'[n].genesis = comet[n].genesis
      BY <2>1, <2>2, <2>9 DEF CommitAnswered, TypeOK, Comet
    <3>2. Process(n)'
      BY <2>1, <3>1 DEF Node, Process, Running, Whole, Log
    <3>3. Shape(n)'
      BY <2>1, <2>2, <3>1 DEF Node, Shape, Process, NextHeight, Comet, Log, Running, Whole
    <3>4. Logged(n)' /\ Planned(n)'
      BY <2>1, <3>1 DEF Node, Logged, Planned, Log
    <3> QED BY <3>2, <3>3, <3>4 DEF Node
  <2>10. CASE \E v \in AppVersions : Start(n, v)
    BY <2>10, NodeStart
  <2>11. CASE ReadyToStart(n)
    <3> DEFINE e == [store[n] EXCEPT !.halt = FALSE]
    <3>1. /\ store'[n] = e /\ comet' = comet /\ proc' = proc /\ proc[n] = "down"
      BY <2>1, <2>11 DEF ReadyToStart, MigrationAllowed, TypeOK
    <3>2. /\ e.appVersion = store[n].appVersion /\ e.height = store[n].height
          /\ e.version = store[n].version /\ e.log = store[n].log
          /\ e.next = store[n].next /\ e.epochStart = store[n].epochStart
      BY <2>2 DEF State
    <3>3. ~e.halt
      BY <2>2 DEF State
    <3> HIDE DEF e
    <3>4. Shape(n)'
      BY <2>1, <3>1, <3>2, <3>3 DEF Node, Shape
    <3>5. Process(n)' /\ Logged(n)' /\ Planned(n)'
      BY <2>1, <3>1, <3>2 DEF Node, Process, Running, Whole, Logged, Planned, Log, NextHeight
    <3> QED BY <3>4, <3>5 DEF Node
  <2>12. CASE MigrateState(n)
    BY <2>12, NodeMigrateState
  <2>13. CASE WriteGenesis(n)
    <3>1. /\ proc[n] = "stateMigrated" /\ proc'[n] = "genesisWritten"
          /\ store' = store /\ app' = app
          /\ comet'[n].height = comet[n].height /\ comet'[n].genesis = comet[n].genesis
          /\ comet'[n].config = app[n].height + 1
      BY <2>1, <2>2, <2>13 DEF WriteGenesis, PostUpgradeHeight, TypeOK, Comet
    <3>2. Process(n)'
      BY <2>1, <3>1 DEF Node, Process, Running, Whole, Log
    <3>3. Shape(n)' /\ Logged(n)' /\ Planned(n)'
      BY <2>1, <3>1 DEF Node, Shape, Logged, Planned, Log
    <3> QED BY <3>2, <3>3 DEF Node
  <2>14. CASE MigrateComet(n)
    BY <2>14, NodeMigrateComet
  <2> QED
    BY <1>1, <2>4, <2>5, <2>6, <2>7, <2>8, <2>9, <2>10, <2>11, <2>12, <2>13, <2>14
       DEF NodeStep
<1> QED BY <1>1, NodeDecide, StepCases

-----------------------------------------------------------------------------
(* Decided blocks                                                           *)

\* A watermark never goes down, and a node leaves the old network only for
\* one that starts above its watermark.
LEMMA CometMoves ==
    ASSUME ChainInv, Next, NEW m \in Nodes
    PROVE  /\ comet'[m].signed >= comet[m].signed
           /\ \/ comet'[m].genesis = comet[m].genesis
              \/ comet[m].genesis = 1 /\ comet'[m].genesis > comet[m].signed
<1>0. TypeOK /\ comet[m] \in Comet /\ comet[m].signed >= comet[m].signed
  BY NodeTypes DEF ChainInv, Comet
<1>1. ASSUME NEW p \in Nodes, NEW Q \in Quorum, NEW body \in Bodies, Decide(p, Q, body)
      PROVE  comet'[m].signed >= comet[m].signed /\ comet'[m].genesis = comet[m].genesis
  <2>1. CASE m \in Q
    <3>1. comet[m].signed <= NextHeight(p) /\ NextHeight(p) \in Int
      BY <1>0, <1>1, <2>1, NodeTypes DEF Decide, NextHeight, Comet
    <3>2. comet'[m] = [comet[m] EXCEPT !.signed = NextHeight(p)]
      BY <1>1, <2>1 DEF Decide
    <3> QED BY <1>0, <3>1, <3>2 DEF Comet
  <2>2. CASE m \notin Q
    BY <1>0, <1>1, <2>2 DEF Decide
  <2> QED BY <2>1, <2>2
<1>2. ASSUME NEW n \in Nodes, NodeStep(n), n # m
      PROVE  comet'[m] = comet[m]
  BY <1>0, <1>2, OtherNodes
<1>3. ASSUME NodeStep(m)
      PROVE  /\ comet'[m].signed >= comet[m].signed
             /\ \/ comet'[m].genesis = comet[m].genesis
                \/ comet[m].genesis = 1 /\ comet'[m].genesis > comet[m].signed
  <2>1. CASE MigrateComet(m)
    <3>1. comet[m].genesis = 1
      BY <1>0, <2>1 DEF MigrateComet, ChainInv, NodeInv, Node, Process, Whole, Shape, Comet
    <3> QED BY <1>0, <2>1, <3>1 DEF MigrateComet, WatermarkBelow, TypeOK, Comet
  <2>2. CASE NilPrevote(m)
    BY <1>0, <2>2 DEF NilPrevote, NextHeight, TypeOK, Comet
  <2>3. CASE CommitAnswered(m) \/ WriteGenesis(m)
    BY <1>0, <2>3 DEF CommitAnswered, WriteGenesis, TypeOK, Comet
  <2>4. CASE ~(MigrateComet(m) \/ NilPrevote(m) \/ CommitAnswered(m) \/ WriteGenesis(m))
    BY <1>0, <1>3, <2>4
       DEF NodeStep, PrepareProposalHalted, Execute, Commit, Exit, Crash, MigrationKilled,
           Start, ReadyToStart, MigrateState
  <2> QED BY <2>1, <2>2, <2>3, <2>4
<1> QED BY <1>0, <1>1, <1>2, <1>3, StepCases

\* The quorum behind a block never withdraws.
LEMMA BackedStep ==
    ASSUME ~Forced, ChainInv, Next, NEW b \in Block, Backed(b)
    PROVE  Backed(b)'
<1>1. PICK Q \in Quorum : \A n \in Q : Supports(n, b)
  BY DEF Backed
<1>2. ASSUME NEW n \in Q PROVE Supports(n, b)'
  <2>1. n \in Nodes
    BY QuorumAssumption
  <2>2. comet[n] \in Comet /\ comet'[n] \in Comet
    BY <2>1, TypeStep DEF ChainInv, TypeOK
  <2> QED BY <1>1, <2>1, <2>2, CometMoves DEF Supports, Comet, Block
<1> QED BY <1>1, <1>2 DEF Backed

\* A new block is backed by the quorum that decides it, and is the only one at
\* its height in its network.
LEMMA DecidedStep ==
    ASSUME ~Forced, ChainInv, Next
    PROVE  Decided'
<1>0. TypeOK /\ decided \subseteq Block
  BY DEF ChainInv, TypeOK
<1>1. ASSUME NEW b \in decided PROVE Backed(b)'
  BY <1>0, BackedStep DEF ChainInv, Decided
<1>2. ASSUME NEW p \in Nodes, NEW Q \in Quorum, NEW body \in Bodies, Decide(p, Q, body)
      PROVE  Decided'
  <2> DEFINE h == NextHeight(p)
             g == comet[p].genesis
  <2>0. PICK new : new = [height |-> h, genesis |-> g, body |-> body]
    OBVIOUS
  <2>1. decided' = decided \cup {new} /\ ~\E b \in decided : b.genesis = g /\ b.height = h
    BY <1>2, <2>0 DEF Decide
  <2>2. new.height = h /\ new.genesis = g
    BY <2>0
  <2>3. new.height >= new.genesis
    BY <2>2 DEF ChainInv, NodeInv, Node, Shape, NextHeight
  <2>4. ASSUME NEW n \in Q PROVE Supports(n, new)'
    <3>1. n \in Nodes /\ comet[n] \in Comet /\ comet[n].genesis = g
      BY <1>0, <1>2, QuorumAssumption, NodeTypes DEF Decide
    <3>2. comet'[n] = [comet[n] EXCEPT !.signed = h]
      BY <1>2, <3>1 DEF Decide
    <3>3. comet'[n].signed = h /\ comet'[n].genesis = g
      BY <3>1, <3>2 DEF Comet
    <3>4. h \in Nat
      BY <1>0, NodeTypes DEF NextHeight, Comet
    <3> QED BY <2>2, <3>3, <3>4 DEF Supports
  <2>5. Backed(new)'
    BY <2>3, <2>4 DEF Backed
  <2>6. \A b1, b2 \in decided' :
            b1.genesis = b2.genesis /\ b1.height = b2.height => b1 = b2
    BY <2>1, <2>2 DEF ChainInv, Decided
  <2> QED BY <1>1, <2>1, <2>5, <2>6 DEF Decided
<1>3. ASSUME NEW n \in Nodes, NodeStep(n) PROVE Decided'
  BY <1>1, <1>3, SameBlocks DEF ChainInv, Decided
<1> QED BY <1>2, <1>3, StepCases

\* Two quorums share a member, which cannot have left the old network for one
\* that starts at or below a block it signed: no height is decided twice.
LEMMA NoFork ==
    ASSUME ChainInv, NEW b1 \in decided, NEW b2 \in decided, b1.height = b2.height
    PROVE  b1 = b2
<1>1. b1 \in Block /\ b2 \in Block /\ Backed(b1) /\ Backed(b2)
  BY DEF ChainInv, TypeOK, Decided
<1>2. PICK Q1 \in Quorum : \A n \in Q1 : Supports(n, b1)
  BY <1>1 DEF Backed
<1>3. PICK Q2 \in Quorum : \A n \in Q2 : Supports(n, b2)
  BY <1>1 DEF Backed
<1>4. PICK n \in Nodes : Supports(n, b1) /\ Supports(n, b2)
  BY <1>2, <1>3, QuorumAssumption
<1>5. comet[n] \in Comet
  BY NodeTypes DEF ChainInv
<1>6. b1.genesis = b2.genesis
  BY <1>1, <1>4, <1>5 DEF Supports, Backed, Block, Comet
<1> QED BY <1>6 DEF ChainInv, Decided

\* The nodes' logs agree wherever both are defined.
LEMMA LogsAgree ==
    ASSUME ChainInv, NEW m \in Nodes, NEW n \in Nodes,
           NEW i \in 1..Len(Log(m)), i <= Len(Log(n))
    PROVE  Log(m)[i] = Log(n)[i]
<1>1. i \in 1..Len(Log(n))
  BY NodeTypes DEF ChainInv
<1>2. /\ Log(m)[i] \in decided /\ Log(m)[i].height = i
      /\ Log(n)[i] \in decided /\ Log(n)[i].height = i
  BY <1>1 DEF ChainInv, NodeInv, Node, Logged
<1> QED BY <1>2, NoFork

-----------------------------------------------------------------------------
(* Halts                                                                    *)

\* Whether a block halts the chain depends on the blocks up to it only.
LEMMA HaltsPrefix ==
    ASSUME NEW l, NEW k, NEW i \in Nat, \A j \in 1..i : l[j] = k[j], Halts(l, i), i > 0
    PROVE  Halts(k, i)
<1>1. CASE l[i].body.halt
  BY <1>1 DEF Halts
<1>2. CASE i + 1 \in UpgradeHeights /\ PlanStands(l, i, i + 1)
  <2>1. PICK j \in 1..i : /\ l[j].body.plan = i + 1
                          /\ \A x \in (j + 1)..i : l[x].body.plan = NoUpgrade
    BY <1>2 DEF PlanStands
  <2>2. k[j].body.plan = i + 1 /\ \A x \in (j + 1)..i : k[x].body.plan = NoUpgrade
    BY <2>1
  <2> QED BY <1>2, <2>2 DEF Halts, PlanStands
<1> QED BY <1>1, <1>2 DEF Halts

\* A step of a node other than a commit changes no log.
LEMMA LogKept ==
    ASSUME ChainInv, NEW n \in Nodes, NodeStep(n), ~Commit(n), NEW m \in Nodes
    PROVE  store'[m].log = store[m].log
<1>0. TypeOK /\ store[m] \in State
  BY NodeTypes DEF ChainInv
<1>1. CASE n # m
  BY <1>0, <1>1, OtherNodes
<1>2. CASE n = m
  <2>1. CASE ReadyToStart(m)
    BY <1>0, <2>1 DEF ReadyToStart, TypeOK, State
  <2>2. CASE MigrateState(m)
    <3>1. MigratedState(store[m]).log = store[m].log
      BY <1>0 DEF MigratedState, State
    <3> QED BY <1>0, <2>2, <3>1 DEF MigrateState, TypeOK
  <2>3. CASE ~ReadyToStart(m) /\ ~MigrateState(m)
    BY <1>2, <2>3
       DEF NodeStep, PrepareProposalHalted, NilPrevote, Execute, CommitAnswered, Exit, Crash,
           MigrationKilled, Start, WriteGenesis, MigrateComet
  <2> QED BY <2>1, <2>2, <2>3
<1> QED BY <1>1, <1>2

\* A log is never rewritten: a step keeps it or appends a decided block.
LEMMA LogStep ==
    ASSUME ~Forced, ChainInv, Next, NEW m \in Nodes
    PROVE  /\ Log(m)' \in Seq(Block) /\ Len(Log(m)') >= Len(Log(m))
           /\ \A i \in 1..Len(Log(m)) : Log(m)'[i] = Log(m)[i]
<1>0. TypeOK /\ store[m] \in State /\ Log(m) \in Seq(Block) /\ Len(Log(m)) \in Nat
  BY NodeTypes DEF ChainInv
<1>1. Log(m)' \in Seq(Block)
  BY TypeStep DEF TypeOK, State, Log
<1>2. CASE Log(m)' = Log(m)
  BY <1>0, <1>1, <1>2
<1>3. CASE Commit(m)
  <2>1. PICK b \in decided : Committed(app[m]).log = Append(Log(m), b)
    BY <1>3, CommitEffect
  <2>2. Log(m)' = Append(Log(m), b)
    BY <1>0, <1>3, <2>1 DEF Commit, Log, TypeOK
  <2>3. /\ Len(Append(Log(m), b)) >= Len(Log(m))
        /\ \A i \in 1..Len(Log(m)) : Append(Log(m), b)[i] = Log(m)[i]
    BY <1>0 DEF TypeOK
  <2> QED BY <1>1, <2>2, <2>3
<1>4. ASSUME NEW p \in Nodes, NEW Q \in Quorum, NEW body \in Bodies, Decide(p, Q, body)
      PROVE  Log(m)' = Log(m)
  BY <1>4 DEF Decide, Log
<1>5. ASSUME NEW n \in Nodes, NodeStep(n), ~Commit(n)
      PROVE  Log(m)' = Log(m)
  BY <1>5, LogKept DEF Log
<1>6. ASSUME NEW n \in Nodes, Commit(n), n # m
      PROVE  Log(m)' = Log(m)
  BY <1>0, <1>6, OtherNodes DEF NodeStep, Log
<1> QED BY <1>2, <1>3, <1>4, <1>5, <1>6, StepCases

\* The node that had executed all blocks below a decided one, none of them a
\* halt, still has.
LEMMA UnhaltedStep ==
    ASSUME ~Forced, ChainInv, Next, NEW b \in Block, Unhalted(b)
    PROVE  Unhalted(b)'
<1>1. PICK p \in Nodes : /\ Len(Log(p)) >= b.height - 1
                         /\ \A i \in b.genesis..(b.height - 1) : ~Halts(Log(p), i)
  BY DEF Unhalted
<1>2. /\ Len(Log(p)) \in Nat /\ Len(Log(p)') \in Nat /\ Len(Log(p)') >= Len(Log(p))
      /\ \A i \in 1..Len(Log(p)) : Log(p)'[i] = Log(p)[i]
  BY LogStep, NodeTypes DEF ChainInv
<1>3. b.height \in Nat /\ b.genesis \in Nat /\ b.genesis > 0
  BY HeightAssumption DEF Block
<1>4. ASSUME NEW i \in b.genesis..(b.height - 1), Halts(Log(p)', i)
      PROVE  FALSE
  <2>1. i \in Nat /\ i > 0 /\ \A j \in 1..i : Log(p)'[j] = Log(p)[j]
    BY <1>1, <1>2, <1>3
  <2> QED BY <1>1, <1>4, <2>1, HaltsPrefix
<1>5. Len(Log(p)') >= b.height - 1
  BY <1>1, <1>2, <1>3
<1> QED BY <1>4, <1>5 DEF Unhalted, Halts, PlanStands, Log

\* Committing a block sets the halt bit exactly when the block halts.
LEMMA HaltBitCommit ==
    ASSUME ~Forced, ChainInv, NEW n \in Nodes, HaltBit(n), Commit(n), Next
    PROVE  HaltBit(n)'
<1> DEFINE e == Committed(app[n])
           k == Len(Log(n)) + 1
           g == comet[n].genesis
<1>1. PICK b \in decided :
        /\ b.genesis = comet[n].genesis
        /\ b.height = k
        /\ e \in State
        /\ e.log = Append(Log(n), b)
        /\ e.halt <=> store[n].halt \/ b.body.halt \/ e.next = b.height + 1
  BY CommitEffect
<1>2. /\ store'[n] = e /\ comet' = comet /\ decided' = decided /\ proc[n] = "executed"
      /\ Log(n)' = e.log
  BY DEF Commit, ChainInv, TypeOK, Log
<1>3. /\ Log(n) \in Seq(Block) /\ Len(Log(n)) \in Nat /\ comet[n] \in Comet /\ b \in Block
      /\ g \in Nat /\ g > 0
  BY NodeTypes, HeightAssumption DEF ChainInv, TypeOK, Comet
<1>4. /\ Len(e.log) = k /\ e.log[k] = b
      /\ \A i \in 1..Len(Log(n)) : e.log[i] = Log(n)[i]
  BY <1>1, <1>3
<1>5. Whole(n) /\ g <= k
  <2>1. Node(n)
    BY DEF ChainInv, NodeInv
  <2>2. Len(Log(n)) = comet[n].height /\ comet[n].height + 1 >= g
    BY <1>2, <2>1 DEF Node, Process, Shape
  <2> QED BY <1>2, <1>3, <2>1, <2>2 DEF Node, Process, Running
<1>6. Planned(n)'
  BY NodeInvStep DEF NodeInv, Node
<1> HIDE DEF e
<1>7. b.body.halt \/ e.next = b.height + 1 <=> Halts(e.log, k)
  <2>1. e.next \in {NoUpgrade} \cup UpgradeHeights
    BY <1>1 DEF State
  <2>2. k + 1 \in UpgradeHeights => (e.next = k + 1 <=> PlanStands(e.log, k, k + 1))
    BY <1>2, <1>4, <1>6 DEF Planned
  <2>3. k + 1 \notin UpgradeHeights => e.next # k + 1
    BY <1>3, <2>1 DEF NoUpgrade
  <2> QED BY <1>1, <1>4, <2>2, <2>3 DEF Halts
<1>8. ASSUME NEW i \in g..Len(Log(n)) PROVE Halts(e.log, i) <=> Halts(Log(n), i)
  <2>1. i \in Nat /\ i > 0 /\ \A j \in 1..i : e.log[j] = Log(n)[j]
    BY <1>3, <1>4
  <2>2. \A j \in 1..i : Log(n)[j] = e.log[j]
    BY <2>1
  <2> QED BY <2>1, <2>2, HaltsPrefix
<1>9. store[n].halt <=> \E i \in g..Len(Log(n)) : Halts(Log(n), i)
  BY <1>5 DEF HaltBit
<1>10. e.halt <=> \E i \in g..k : Halts(e.log, i)
  <2>1. \A i \in g..k : i = k \/ i \in g..Len(Log(n))
    BY <1>3
  <2>2. k \in g..k /\ \A i \in g..Len(Log(n)) : i \in g..k
    BY <1>3, <1>5
  <2> QED BY <1>1, <1>7, <1>8, <1>9, <2>1, <2>2
<1> QED BY <1>2, <1>4, <1>10 DEF HaltBit, Log

\* Until an operator lifts a halt, every step keeps the halt bits exact and
\* every new block is proposed by a node that has seen no halt.
LEMMA HaltInvStep ==
    ASSUME ~Forced, ChainInv, HaltInv, Next
    PROVE  HaltInv'
<1> SUFFICES ASSUME lifted' = {}
             PROVE  /\ \A n \in Nodes : HaltBit(n)'
                    /\ \A b \in decided' : Unhalted(b)'
  BY DEF HaltInv
<1>0. TypeOK /\ decided \subseteq Block
  BY DEF ChainInv, TypeOK
<1>1. lifted = {}
  BY StepCases
     DEF Decide, NodeStep, PrepareProposalHalted, NilPrevote, Execute, Commit, CommitAnswered,
         Exit, Crash, MigrationKilled, Start, ReadyToStart, MigrateState, WriteGenesis,
         MigrateComet
<1>2. /\ \A n \in Nodes : HaltBit(n)
      /\ \A b \in decided : Unhalted(b)
  BY <1>1 DEF HaltInv
<1>3. ASSUME NEW m \in Nodes, store'[m] = store[m], comet'[m].genesis = comet[m].genesis
      PROVE  HaltBit(m)'
  BY <1>2, <1>3 DEF HaltBit, Whole, Log, Halts, PlanStands
<1>4. \A b \in decided : Unhalted(b)'
  BY <1>0, <1>2, UnhaltedStep
<1>5. ASSUME NEW p \in Nodes, NEW Q \in Quorum, NEW body \in Bodies, Decide(p, Q, body)
      PROVE  /\ \A n \in Nodes : HaltBit(n)'
             /\ \A b \in decided' : Unhalted(b)'
  <2>1. ASSUME NEW m \in Nodes PROVE HaltBit(m)'
    <3>1. store'[m] = store[m] /\ comet'[m].genesis = comet[m].genesis
      BY <1>0, <1>5, NodeTypes DEF Decide, Comet
    <3> QED BY <1>3, <3>1
  <2>2. PICK new : /\ decided' = decided \cup {new}
                   /\ new.height = NextHeight(p) /\ new.genesis = comet[p].genesis
    <3>1. PICK b : b = [height |-> NextHeight(p), genesis |-> comet[p].genesis, body |-> body]
      OBVIOUS
    <3> QED BY <1>5, <3>1 DEF Decide
  <2>3. /\ p \in Q /\ proc[p] = "idle" /\ ~store[p].halt /\ Node(p)
        /\ store' = store
    BY <1>5 DEF Decide, PreparesProposal, ChainInv, NodeInv
  <2>4. Whole(p) /\ Len(Log(p)) = comet[p].height
    BY <2>3 DEF Node, Process, Running
  <2>5. \A i \in comet[p].genesis..Len(Log(p)) : ~Halts(Log(p), i)
    BY <1>2, <2>3, <2>4 DEF HaltBit
  <2>6. Len(Log(p)) = new.height - 1 /\ new.height \in Nat /\ Log(p)' = Log(p)
    BY <1>0, <2>2, <2>3, <2>4, NodeTypes DEF NextHeight, Comet, Log
  <2>7. Len(Log(p)') >= new.height - 1
    BY <2>6
  <2>8. \A i \in new.genesis..(new.height - 1) : ~Halts(Log(p)', i)
    BY <2>2, <2>5, <2>6
  <2>9. Unhalted(new)'
    BY <2>7, <2>8 DEF Unhalted, Halts, PlanStands
  <2> QED BY <1>4, <2>1, <2>2, <2>9
<1>6. ASSUME NEW n \in Nodes, NodeStep(n)
      PROVE  /\ \A m \in Nodes : HaltBit(m)'
             /\ \A b \in decided' : Unhalted(b)'
  <2>1. decided' = decided
    BY <1>6, SameBlocks
  <2>2. ASSUME NEW m \in Nodes, m # n PROVE HaltBit(m)'
    BY <1>0, <1>3, <1>6, <2>2, OtherNodes
  <2>3. HaltBit(n)'
    <3>0. store[n] \in State /\ comet[n] \in Comet /\ Node(n)
      BY <1>0, NodeTypes DEF ChainInv, NodeInv
    <3>1. CASE Commit(n)
      BY <1>2, <3>1, HaltBitCommit
    <3>2. CASE ReadyToStart(n)
      BY <3>2 DEF ReadyToStart
    <3>3. CASE MigrateState(n)
      <4>1. MigratedState(store[n]).appVersion = 1
        BY <3>0 DEF MigratedState, State
      <4>2. comet[n].genesis = 1
        BY <3>0, <3>3 DEF MigrateState, Node, Shape
      <4>3. ~Whole(n)'
        BY <1>0, <3>3, <4>1, <4>2 DEF MigrateState, Whole, TypeOK
      <4> QED BY <4>3 DEF HaltBit
    <3>4. CASE MigrateComet(n)
      <4>1. /\ ~Whole(n) /\ comet[n].config = Len(Log(n)) + 1 /\ comet[n].genesis = 1
            /\ store[n].appVersion = 1
        BY <3>0, <3>4 DEF MigrateComet, Node, Process, Whole, Shape, State, AppVersions, Comet
      <4>2. ~store[n].halt /\ store' = store
        BY <3>0, <3>4, <4>1 DEF MigrateComet, Node, Shape
      <4>3. CASE WatermarkBelow(n)
        <5>1. comet'[n].genesis = Len(Log(n)) + 1 /\ Len(Log(n)) \in Nat
          BY <1>0, <3>0, <3>4, <4>1, <4>3, NodeTypes DEF MigrateComet, Comet, TypeOK
        <5>2. ~\E i \in comet'[n].genesis..Len(Log(n)) : Halts(Log(n), i)
          BY <5>1
        <5> QED BY <4>2, <5>2 DEF HaltBit, Log, Halts, PlanStands
      <4>4. CASE ~WatermarkBelow(n)
        BY <3>4, <4>2, <4>4, <1>3 DEF MigrateComet
      <4> QED BY <4>3, <4>4
    <3>5. CASE ~(Commit(n) \/ ReadyToStart(n) \/ MigrateState(n) \/ MigrateComet(n))
      <4>1. store' = store /\ comet'[n].genesis = comet[n].genesis
        BY <1>0, <1>6, <3>0, <3>5
           DEF NodeStep, PrepareProposalHalted, NilPrevote, Execute, CommitAnswered, Exit,
               Crash, MigrationKilled, Start, WriteGenesis, Comet, TypeOK
      <4> QED BY <1>3, <4>1
    <3> QED BY <3>1, <3>2, <3>3, <3>4, <3>5
  <2> QED BY <1>4, <2>1, <2>2, <2>3
<1> QED BY <1>5, <1>6, StepCases

-----------------------------------------------------------------------------
(* Theorems                                                                 *)

\* The inductive invariant holds initially: nothing is decided or executed.
LEMMA InitIInv == Init => IInv
<1> SUFFICES ASSUME Init PROVE IInv
  OBVIOUS
<1> USE HeightAssumption
<1>1. GenesisState \in State
  <2>1. <<>> \in Seq(Block) /\ 0 \in AppVersions
    BY DEF AppVersions
  <2> QED BY <2>1 DEF GenesisState, State, NoUpgrade
<1>2. TypeOK
  BY <1>1 DEF Init, TypeOK, ProcStates, Comet
<1>3. ASSUME NEW n \in Nodes
      PROVE  /\ store[n] = GenesisState /\ app[n] = GenesisState /\ proc[n] = "idle"
             /\ comet[n].genesis = 1 /\ comet[n].height = 0 /\ comet[n].config = 1
             /\ Log(n) = <<>> /\ Len(Log(n)) = 0
  BY <1>3 DEF Init, GenesisState, Log
<1>4. ASSUME NEW n \in Nodes PROVE Node(n)
  <2>1. Shape(n)
    BY <1>3 DEF Shape, GenesisState
  <2>2. Process(n)
    BY <1>3 DEF Process, Running, Whole, GenesisState, NextHeight
  <2>3. Logged(n)
    BY <1>3 DEF Logged
  <2>4. Planned(n)
    <3>1. store[n].next = 0 /\ \A u \in UpgradeHeights : ~PlanStands(Log(n), 0, u)
      BY <1>3 DEF PlanStands, GenesisState, NoUpgrade
    <3> QED BY <1>3, <3>1 DEF Planned
  <2> QED BY <2>1, <2>2, <2>3, <2>4 DEF Node
<1>5. Decided
  BY DEF Init, Decided
<1>6. HaltInv
  <2>1. ASSUME NEW n \in Nodes PROVE HaltBit(n)
    <3>1. ~store[n].halt
      BY <1>3 DEF GenesisState
    <3>2. ~\E i \in comet[n].genesis..Len(Log(n)) : Halts(Log(n), i)
      BY <1>3
    <3> QED BY <3>1, <3>2 DEF HaltBit
  <2> QED BY <2>1 DEF Init, HaltInv
<1> QED BY <1>2, <1>4, <1>5, <1>6 DEF IInv, ChainInv, NodeInv

\* Stuttering keeps the inductive invariant.
LEMMA StutterIInv == IInv /\ UNCHANGED vars => IInv'
<1> SUFFICES ASSUME IInv, UNCHANGED vars PROVE IInv'
  OBVIOUS
<1>1. TypeOK' /\ lifted' = lifted /\ decided' = decided /\ store' = store /\ comet' = comet
  BY DEF IInv, ChainInv, TypeOK, vars
<1>2. NodeInv'
  <2> SUFFICES ASSUME NEW m \in Nodes PROVE Node(m)'
    BY DEF NodeInv
  <2> QED BY <1>1, Untouched DEF vars, IInv, ChainInv, NodeInv
<1>3. Decided'
  BY <1>1 DEF IInv, ChainInv, Decided, Backed, Supports
<1>4. HaltInv'
  <2>1. ASSUME NEW n \in Nodes, HaltBit(n) PROVE HaltBit(n)'
    BY <1>1, <2>1 DEF HaltBit, Whole, Log, Halts, PlanStands
  <2>2. ASSUME NEW b \in decided, Unhalted(b) PROVE Unhalted(b)'
    BY <1>1, <2>2 DEF Unhalted, Log, Halts, PlanStands
  <2> QED BY <1>1, <2>1, <2>2 DEF IInv, HaltInv
<1> QED BY <1>1, <1>2, <1>3, <1>4 DEF IInv, ChainInv

\* The inductive invariant holds in every reachable state if no operator
\* passes `--force` to `pd migrate`.
THEOREM Invariant ==
    ASSUME ~Forced PROVE Spec => []IInv
<1>1. IInv /\ [Next]_vars => IInv'
  <2>1. ASSUME IInv, Next PROVE IInv'
    BY <2>1, TypeStep, NodeInvStep, DecidedStep, HaltInvStep DEF IInv, ChainInv
  <2> QED BY <2>1, StutterIInv
<1> QED BY <1>1, InitIInv, PTL DEF Spec

\* Type correctness: heights, versions, watermarks and epochs stay within the
\* decided blocks.
THEOREM TypeCorrect ==
    ASSUME ~Forced PROVE Spec => []TypeOK
BY Invariant, PTL DEF IInv, ChainInv

\* Agreement: every node's state is that of executing each decided block once
\* and in order, and neither crashes nor restarts, nor operators who resume or
\* migrate their nodes at different times, make two blocks at one height.
THEOREM OneChainHolds ==
    ASSUME ~Forced PROVE Spec => []OneChain
<1>1. ChainInv => OneChain
  <2> SUFFICES ASSUME ChainInv PROVE OneChain
    OBVIOUS
  <2>1. \A b1, b2 \in decided : b1.height = b2.height => b1 = b2
    BY NoFork
  <2>2. ASSUME NEW n \in Nodes, NEW i \in 1..Len(store[n].log)
        PROVE  store[n].log[i] \in decided /\ store[n].log[i].height = i
    BY DEF ChainInv, NodeInv, Node, Logged, Log
  <2> QED BY <2>1, <2>2 DEF OneChain
<1> QED BY <1>1, Invariant, PTL DEF IInv

\* A half-migrated node takes part in neither network: the handshake of `pd
\* start` fails wherever the migration was cut off.
THEOREM NoHalfUpgradedNodeHolds ==
    ASSUME ~Forced PROVE Spec => []NoHalfUpgradedNode
<1>1. ChainInv => NoHalfUpgradedNode
  <2> SUFFICES ASSUME ChainInv, NEW n \in Nodes, Running(n)
               PROVE  store[n].appVersion = 1 <=> comet[n].genesis > 1
    BY DEF NoHalfUpgradedNode
  <2>1. Whole(n) /\ Shape(n)
    BY DEF ChainInv, NodeInv, Node, Process
  <2> QED BY <2>1 DEF Whole, Shape
<1> QED BY <1>1, Invariant, PTL DEF IInv

\* The upgraded chain starts at the height after the last old block, with an
\* epoch of its own if that is the planned height.
THEOREM CleanBoundaryHolds ==
    ASSUME ~Forced PROVE Spec => []CleanBoundary
<1>1. ChainInv => CleanBoundary
  <2> SUFFICES ASSUME ChainInv, NEW n \in Nodes, Running(n), store[n].appVersion = 1,
                      store[n].height = 0
               PROVE  /\ comet[n].genesis = Len(store[n].log) + 1
                      /\ comet[n].genesis = store[n].next
                           => store[n].epochStart = comet[n].genesis
    BY DEF CleanBoundary
  <2>1. Whole(n) /\ Shape(n) /\ Planned(n)
    BY DEF ChainInv, NodeInv, Node, Process
  <2>2. comet[n] \in Comet /\ Len(Log(n)) \in Nat
    BY NodeTypes DEF ChainInv
  <2>3. comet[n].genesis = Len(Log(n)) + 1
    BY <2>1, <2>2 DEF Whole, Shape, Comet, Log
  <2> QED BY <2>1, <2>3 DEF Planned, Log
<1> QED BY <1>1, Invariant, PTL DEF IInv

\* A halt stops the chain at once: until an operator lifts it, no block of a
\* node's network is above the height at which the node committed the halt bit.
THEOREM HaltStopsChainHolds ==
    ASSUME ~Forced PROVE Spec => []HaltStopsChain
<1>1. IInv => HaltStopsChain
  <2> SUFFICES ASSUME IInv, NEW n \in Nodes, store[n].halt, lifted = {},
                      NEW b \in decided, b.genesis = comet[n].genesis,
                      ~(b.height <= store[n].height)
               PROVE  FALSE
    BY DEF HaltStopsChain
  <2>1. ChainInv /\ HaltBit(n) /\ Unhalted(b)
    BY DEF IInv, HaltInv
  <2>2. /\ store[n] \in State /\ comet[n] \in Comet /\ Len(Log(n)) \in Nat /\ b \in Block
        /\ Shape(n)
    BY <2>1, NodeTypes DEF ChainInv, NodeInv, Node, TypeOK
  <2>3. Whole(n)
    BY <2>2 DEF Shape, Whole, State, AppVersions, Comet
  <2>4. PICK i \in comet[n].genesis..Len(Log(n)) : Halts(Log(n), i)
    BY <2>1, <2>3 DEF HaltBit
  <2>5. store[n].height = Len(Log(n)) /\ i \in 1..Len(Log(n))
    BY <2>2, <2>3, <2>4 DEF Shape, Whole, Comet, Log
  <2>6. PICK p \in Nodes : /\ Len(Log(p)) >= b.height - 1
                           /\ \A j \in b.genesis..(b.height - 1) : ~Halts(Log(p), j)
    BY <2>1 DEF Unhalted
  <2>7. Len(Log(p)) \in Nat /\ b.height \in Nat /\ b.height - 1 >= i
    BY <2>1, <2>2, <2>5, NodeTypes DEF ChainInv, Block
  <2>8. \A j \in 1..i : Log(n)[j] = Log(p)[j]
    BY <2>1, <2>2, <2>5, <2>6, <2>7, LogsAgree
  <2>9. Halts(Log(p), i)
    BY <2>4, <2>5, <2>8, HaltsPrefix
  <2>10. i \in b.genesis..(b.height - 1)
    BY <2>2, <2>4, <2>7 DEF Comet
  <2> QED BY <2>6, <2>9, <2>10
<1> QED BY <1>1, Invariant, PTL

\* An upgrade plan is honoured: a plan in force below the height it names keeps
\* the old software from executing a block at that height.
THEOREM UpgradeHonouredHolds ==
    ASSUME ~Forced PROVE Spec => []UpgradeHonoured
<1>1. IInv => UpgradeHonoured
  <2> SUFFICES ASSUME IInv, NEW n \in Nodes, NEW u \in UpgradeHeights,
                      store[n].appVersion = 0, lifted = {}, InForce(Log(n), u),
                      ~(Len(Log(n)) < u)
               PROVE  FALSE
    BY DEF UpgradeHonoured, Log
  <2>1. ChainInv
    BY DEF IInv
  <2>2. u \in Nat /\ u > 0 /\ Len(Log(n)) \in Nat /\ Shape(n) /\ Logged(n)
    BY <2>1, NodeTypes, HeightAssumption DEF ChainInv, NodeInv, Node
  <2>3. PICK i \in 1..(u - 1) :
          /\ Log(n)[i].body.plan = u
          /\ \A j \in (i + 1)..(u - 1) : j <= Len(Log(n)) => Log(n)[j].body.plan = NoUpgrade
    BY DEF InForce
  <2>4. PlanStands(Log(n), u - 1, u)
    BY <2>2, <2>3 DEF PlanStands
  <2>5. Halts(Log(n), u - 1)
    <3>1. (u - 1) + 1 = u
      BY <2>2
    <3> QED BY <2>4, <3>1 DEF Halts
  <2> DEFINE b == Log(n)[u]
  <2>6. b \in decided /\ b.height = u /\ b.genesis = 1
    BY <2>2 DEF Logged, Shape
  <2>7. PICK p \in Nodes : /\ Len(Log(p)) >= u - 1
                           /\ \A j \in 1..(u - 1) : ~Halts(Log(p), j)
    BY <2>6 DEF IInv, HaltInv, Unhalted
  <2>8. \A j \in 1..(u - 1) : Log(n)[j] = Log(p)[j]
    BY <2>1, <2>2, <2>7, NodeTypes, LogsAgree DEF ChainInv
  <2>9. u - 1 \in Nat /\ u - 1 > 0
    BY <2>2, <2>3
  <2>10. Halts(Log(p), u - 1)
    BY <2>5, <2>8, <2>9, HaltsPrefix
  <2> QED BY <2>7, <2>9, <2>10
<1> QED BY <1>1, Invariant, PTL

-----------------------------------------------------------------------------
(* The refinement: the decided blocks are one chain                         *)

\* A set of blocks, one at each height up to the number of them, ...
Stacked(D) ==
    /\ IsFiniteSet(D)
    /\ {b.height : b \in D} = 1..Cardinality(D)
    /\ \A b1, b2 \in D : b1.height = b2.height => b1 = b2

\* ... as a sequence.
Stack(D) == [h \in 1..Cardinality(D) |-> CHOOSE b \in D : b.height = h]

\* While no operator resumes a node, the block at which a node left its old
\* network for the next one halts the chain.
LeftAt(n) == IF comet[n].genesis = 1 THEN Len(Log(n)) ELSE comet[n].genesis - 1

Left(n) == store[n].appVersion = 1 => Halts(Log(n), LeftAt(n))

LeftInv == lifted = {} => \A n \in Nodes : Left(n)

ChainRefinement == IInv /\ Stacked(decided) /\ LeftInv

\* The blocks of the sequence.
LEMMA StackBlocks ==
    ASSUME NEW D, Stacked(D)
    PROVE  /\ Cardinality(D) \in Nat
           /\ Stack(D) \in Seq(D) /\ Len(Stack(D)) = Cardinality(D)
           /\ \A b \in D : b.height \in 1..Cardinality(D) /\ Stack(D)[b.height] = b
           /\ \A h \in 1..Cardinality(D) : Stack(D)[h] \in D /\ Stack(D)[h].height = h
<1>1. Cardinality(D) \in Nat
  BY FS_CardinalityType DEF Stacked
<1>2. ASSUME NEW b \in D PROVE b.height \in 1..Cardinality(D) /\ Stack(D)[b.height] = b
  <2>1. b.height \in 1..Cardinality(D)
    BY DEF Stacked
  <2>2. (CHOOSE c \in D : c.height = b.height) = b
    BY DEF Stacked
  <2> QED BY <2>1, <2>2 DEF Stack
<1>3. ASSUME NEW h \in 1..Cardinality(D) PROVE Stack(D)[h] \in D /\ Stack(D)[h].height = h
  <2>1. h \in {b.height : b \in D}
    BY DEF Stacked
  <2>2. PICK b \in D : b.height = h
    BY <2>1
  <2> QED BY <1>2, <2>2
<1>4. Stack(D) \in [1..Cardinality(D) -> D]
  BY <1>3 DEF Stack
<1>5. Stack(D) \in Seq(D) /\ Len(Stack(D)) = Cardinality(D)
  BY <1>1, <1>4
<1> QED BY <1>1, <1>2, <1>3, <1>5

\* A new block at most one above the others is the next of the sequence.
LEMMA StackAdd ==
    ASSUME NEW D, Stacked(D), NEW b, b \notin D, b.height \in Nat, b.height > 0,
           b.height <= Cardinality(D) + 1, \A c \in D : c.height # b.height
    PROVE  /\ b.height = Cardinality(D) + 1
           /\ Stacked(D \cup {b})
           /\ Stack(D \cup {b}) = Append(Stack(D), b)
<1> DEFINE E == D \cup {b}
           n == Cardinality(D)
<1>1. /\ n \in Nat
      /\ Stack(D) \in Seq(D) /\ Len(Stack(D)) = n
      /\ \A c \in D : c.height \in 1..n /\ Stack(D)[c.height] = c
      /\ \A h \in 1..n : Stack(D)[h] \in D /\ Stack(D)[h].height = h
  BY StackBlocks
<1>2. b.height = n + 1
  <2>1. b.height \notin 1..n
    BY <1>1
  <2> QED BY <1>1, <2>1
<1>3. IsFiniteSet(E) /\ Cardinality(E) = n + 1
  BY FS_AddElement DEF Stacked
<1>4. {c.height : c \in E} = 1..(n + 1)
  <2>1. {c.height : c \in E} = {c.height : c \in D} \cup {b.height}
    OBVIOUS
  <2>2. {c.height : c \in D} = 1..n
    BY DEF Stacked
  <2>3. 1..n \cup {n + 1} = 1..(n + 1)
    BY <1>1
  <2> QED BY <1>2, <2>1, <2>2, <2>3
<1>5. \A c1, c2 \in E : c1.height = c2.height => c1 = c2
  BY DEF Stacked
<1>6. Stacked(E)
  BY <1>3, <1>4, <1>5 DEF Stacked
<1> HIDE DEF E, n
<1>7. /\ Stack(E) \in Seq(E) /\ Len(Stack(E)) = n + 1
      /\ \A c \in E : Stack(E)[c.height] = c
  BY <1>3, <1>6, StackBlocks
<1>8. b \in E /\ \A c \in D : c \in E
  BY DEF E
<1>9. ASSUME NEW h \in 1..(n + 1) PROVE Stack(E)[h] = Append(Stack(D), b)[h]
  <2>1. CASE h = n + 1
    BY <1>1, <1>2, <1>7, <1>8, <2>1
  <2>2. CASE h # n + 1
    <3>1. h \in 1..n
      BY <1>1, <2>2
    <3>2. Stack(D)[h] \in D /\ Stack(D)[h].height = h
      BY <1>1, <3>1
    <3>3. Stack(E)[h] = Stack(D)[h]
      BY <1>7, <1>8, <3>2
    <3> QED BY <1>1, <3>1, <3>3
  <2> QED BY <2>1, <2>2
<1>10. Append(Stack(D), b) \in Seq(E) /\ Len(Append(Stack(D), b)) = n + 1
  BY <1>1, <1>8
<1>11. Stack(E) = Append(Stack(D), b)
  BY <1>7, <1>9, <1>10
<1> QED BY <1>2, <1>6, <1>11 DEF E, n

\* No height is decided twice, after a step either.
Unforked == \A b1, b2 \in decided : b1.height = b2.height => b1 = b2

LEMMA NoForks == ChainInv => Unforked
BY NoFork DEF Unforked

LEMMA NoForksAfter == ChainInv' => Unforked'
BY NoForks, PTL

\* What a node has executed is a prefix of the chain.
LEMMA LogPrefix ==
    ASSUME ChainInv, Stacked(decided), NEW n \in Nodes
    PROVE  /\ Len(Log(n)) <= Cardinality(decided)
           /\ \A i \in 1..Len(Log(n)) : Chain[i] = Log(n)[i]
           /\ Len(Log(n)) = Cardinality(decided) => Log(n) = Chain
<1>1. /\ Chain = Stack(decided) /\ Cardinality(decided) \in Nat
      /\ Chain \in Seq(decided) /\ Len(Chain) = Cardinality(decided)
      /\ \A b \in decided : b.height \in 1..Cardinality(decided) /\ Chain[b.height] = b
  <2>1. Chain = Stack(decided)
    BY DEF Chain, Stack
  <2> QED BY <2>1, StackBlocks
<1>2. /\ Log(n) \in Seq(Block) /\ Len(Log(n)) \in Nat
      /\ \A i \in 1..Len(Log(n)) : Log(n)[i] \in decided /\ Log(n)[i].height = i
  BY NodeTypes DEF ChainInv, NodeInv, Node, Logged
<1>3. \A i \in 1..Len(Log(n)) : i \in 1..Cardinality(decided) /\ Chain[i] = Log(n)[i]
  BY <1>1, <1>2
<1>4. Len(Log(n)) <= Cardinality(decided)
  <2>1. CASE Len(Log(n)) = 0
    BY <1>1, <2>1
  <2>2. CASE Len(Log(n)) # 0
    <3>1. Len(Log(n)) \in 1..Len(Log(n))
      BY <1>2, <2>2
    <3> QED BY <1>1, <1>3, <3>1
  <2> QED BY <2>1, <2>2
<1>5. ASSUME Len(Log(n)) = Cardinality(decided) PROVE Log(n) = Chain
  <2>1. Chain \in Seq(Block)
    BY <1>1 DEF ChainInv, TypeOK
  <2> QED BY <1>1, <1>2, <1>3, <1>5, <2>1
<1> QED BY <1>3, <1>4, <1>5

\* The abstract chain halts where the log does.
LEMMA EndedHalts ==
    ASSUME NEW l \in Seq(Block)
    PROVE  Ideal!Ended(l) <=> Len(l) > 0 /\ Halts(l, Len(l))
<1>1. Len(l) \in Nat /\ \A i \in 1..Len(l) : l[i] \in Block
  OBVIOUS
<1>2. Ideal!Planned(l, Len(l), Len(l) + 1) <=> PlanStands(l, Len(l), Len(l) + 1)
  BY DEF Ideal!Planned, PlanStands, NoUpgrade
<1>3. ASSUME PlanStands(l, Len(l), Len(l) + 1) PROVE Len(l) + 1 \in UpgradeHeights
  <2>1. PICK j \in 1..Len(l) : l[j].body.plan = Len(l) + 1
    BY <1>3 DEF PlanStands
  <2>2. l[j].body.plan \in {NoUpgrade} \cup UpgradeHeights
    BY <1>1, <2>1 DEF Block, Bodies
  <2> QED BY <1>1, <2>1, <2>2 DEF NoUpgrade
<1> QED BY <1>2, <1>3 DEF Ideal!Ended, Halts

\* Until an operator lifts a halt, a node whose halt bit is set is in one of
\* the two networks and the last block it has executed halts the chain.
LEMMA HaltedLast ==
    ASSUME IInv, lifted = {}, NEW n \in Nodes, store[n].halt
    PROVE  Whole(n) /\ Len(Log(n)) > 0 /\ Halts(Log(n), Len(Log(n)))
<1>1. ChainInv /\ HaltBit(n) /\ \A b \in decided : Unhalted(b)
  BY DEF IInv, HaltInv
<1>2. /\ store[n] \in State /\ comet[n] \in Comet /\ Len(Log(n)) \in Nat
      /\ Log(n) \in Seq(Block) /\ Shape(n) /\ Logged(n)
  BY <1>1, NodeTypes DEF ChainInv, NodeInv, Node
<1>3. Whole(n)
  BY <1>2 DEF Shape, Whole, State, AppVersions, Comet
<1>4. PICK i \in comet[n].genesis..Len(Log(n)) : Halts(Log(n), i)
  BY <1>1, <1>3 DEF HaltBit
<1> DEFINE k == Len(Log(n))
           b == Log(n)[k]
<1>5. comet[n].genesis \in Nat /\ comet[n].genesis > 0 /\ i \in 1..k /\ k \in 1..k
  BY <1>2, <1>4, HeightAssumption DEF Comet
<1>6. b \in decided /\ b.height = k /\ b.genesis = comet[n].genesis
  <2>1. b \in decided /\ b.height = k
        /\ b.genesis = IF k < comet[n].genesis THEN 1 ELSE comet[n].genesis
    BY <1>2, <1>5 DEF Logged
  <2>2. ~(k < comet[n].genesis)
    BY <1>4, <1>5
  <2> QED BY <2>1, <2>2
<1>7. PICK p \in Nodes : /\ Len(Log(p)) >= k - 1
                         /\ \A j \in comet[n].genesis..(k - 1) : ~Halts(Log(p), j)
  BY <1>1, <1>6 DEF Unhalted
<1>8. i = k
  <2> SUFFICES ASSUME i # k PROVE FALSE
    OBVIOUS
  <2>1. i \in comet[n].genesis..(k - 1) /\ i \in Nat /\ i > 0 /\ Len(Log(p)) \in Nat
    BY <1>1, <1>2, <1>4, <1>5, NodeTypes DEF ChainInv
  <2>2. \A j \in 1..i : Log(n)[j] = Log(p)[j]
    BY <1>1, <1>2, <1>7, <2>1, LogsAgree
  <2>3. Halts(Log(p), i)
    BY <1>4, <2>1, <2>2, HaltsPrefix
  <2> QED BY <1>7, <2>1, <2>3
<1> QED BY <1>3, <1>4, <1>5, <1>8

\* The block at which a node has left its old network stays where it is.
LEMMA LeftStep ==
    ASSUME ~Forced, IInv, LeftInv, Next
    PROVE  LeftInv'
<1> SUFFICES ASSUME lifted' = {}, NEW m \in Nodes PROVE Left(m)'
  BY DEF LeftInv
<1>0. /\ ChainInv /\ TypeOK /\ store[m] \in State /\ comet[m] \in Comet /\ Node(m)
      /\ Log(m) \in Seq(Block) /\ Len(Log(m)) \in Nat
      /\ comet[m].genesis \in Nat /\ comet[m].genesis > 0
  BY NodeTypes, HeightAssumption DEF IInv, ChainInv, NodeInv, Comet
<1>1. lifted = {}
  BY StepCases
     DEF Decide, NodeStep, PrepareProposalHalted, NilPrevote, Execute, Commit, CommitAnswered,
         Exit, Crash, MigrationKilled, Start, ReadyToStart, MigrateState, WriteGenesis,
         MigrateComet
<1>2. Left(m)
  BY <1>1 DEF LeftInv
<1>3. ASSUME store'[m] = store[m], comet'[m].genesis = comet[m].genesis
      PROVE  Left(m)'
  BY <1>2, <1>3 DEF Left, LeftAt, Log, Halts, PlanStands
<1>4. ASSUME NEW p \in Nodes, NEW Q \in Quorum, NEW body \in Bodies, Decide(p, Q, body)
      PROVE  Left(m)'
  <2>1. store'[m] = store[m] /\ comet'[m].genesis = comet[m].genesis
    BY <1>0, <1>4 DEF Decide, Comet
  <2> QED BY <1>3, <2>1
<1>5. ASSUME NEW n \in Nodes, NodeStep(n), n # m PROVE Left(m)'
  BY <1>0, <1>3, <1>5, OtherNodes
<1>6. CASE Commit(m)
  <2>1. PICK b \in decided : /\ Committed(app[m]).log = Append(Log(m), b)
                             /\ Committed(app[m]).appVersion = store[m].appVersion
    BY <1>0, <1>6, CommitEffect
  <2>2. /\ Log(m)' = Append(Log(m), b) /\ comet' = comet
        /\ store'[m].appVersion = store[m].appVersion
    BY <1>0, <1>6, <2>1 DEF Commit, TypeOK, Log
  <2>3. ASSUME store[m].appVersion = 1 PROVE Halts(Log(m)', comet[m].genesis - 1)
    <3>1. Whole(m)
      BY <1>0, <1>6 DEF Commit, Running, Node, Process
    <3>2. comet[m].genesis > 1
      BY <2>3, <3>1 DEF Whole
    <3>3. /\ comet[m].genesis - 1 \in 1..Len(Log(m))
          /\ comet[m].genesis - 1 \in Nat /\ comet[m].genesis - 1 > 0
      BY <1>0, <3>2 DEF Node, Shape, Log
    <3>4. Halts(Log(m), comet[m].genesis - 1)
      BY <1>2, <2>3, <3>2 DEF Left, LeftAt
    <3>5. \A j \in 1..(comet[m].genesis - 1) : Log(m)[j] = Append(Log(m), b)[j]
      BY <1>0, <3>3
    <3>6. Halts(Append(Log(m), b), comet[m].genesis - 1)
      BY <3>3, <3>4, <3>5, HaltsPrefix
    <3> QED BY <2>2, <3>6
  <2>4. store[m].appVersion = 1 => comet[m].genesis # 1
    <3>1. Whole(m)
      BY <1>0, <1>6 DEF Commit, Running, Node, Process
    <3> QED BY <3>1 DEF Whole
  <2> QED BY <2>2, <2>3, <2>4 DEF Left, LeftAt, Log, Halts, PlanStands
<1>7. CASE ReadyToStart(m)
  BY <1>7 DEF ReadyToStart
<1>8. CASE MigrateState(m)
  <2>1. store[m].halt /\ store[m].appVersion = 0
    BY <1>8 DEF MigrateState, MigrationAllowed
  <2>2. Halts(Log(m), Len(Log(m))) /\ comet[m].genesis = 1
    BY <1>0, <1>1, <2>1, HaltedLast DEF Node, Shape
  <2>3. store'[m].log = store[m].log /\ comet' = comet
    <3>1. MigratedState(store[m]).log = store[m].log
      BY <1>0 DEF MigratedState, State
    <3> QED BY <1>0, <1>8, <3>1 DEF MigrateState, TypeOK
  <2> QED BY <2>2, <2>3 DEF Left, LeftAt, Log, Halts, PlanStands
<1>9. CASE MigrateComet(m)
  <2>1. /\ ~Whole(m) /\ comet[m].config = Len(Log(m)) + 1 /\ comet[m].genesis = 1
        /\ store[m].appVersion = 1
    BY <1>0, <1>9 DEF MigrateComet, Node, Process, Whole, Shape, State, AppVersions
  <2>2. Halts(Log(m), Len(Log(m))) /\ store' = store
    BY <1>2, <1>9, <2>1 DEF Left, LeftAt, MigrateComet
  <2>3. CASE WatermarkBelow(m)
    <3>1. comet'[m].genesis = Len(Log(m)) + 1
      BY <1>0, <1>9, <2>1, <2>3 DEF MigrateComet, TypeOK, Comet
    <3>2. (IF comet'[m].genesis = 1 THEN Len(Log(m)) ELSE comet'[m].genesis - 1) = Len(Log(m))
      BY <1>0, <3>1
    <3> QED BY <2>2, <3>2 DEF Left, LeftAt, Log, Halts, PlanStands
  <2>4. CASE ~WatermarkBelow(m)
    BY <1>3, <1>9, <2>2, <2>4 DEF MigrateComet
  <2> QED BY <2>3, <2>4
<1>10. CASE NodeStep(m) /\ ~(Commit(m) \/ ReadyToStart(m) \/ MigrateState(m) \/ MigrateComet(m))
  <2>1. store' = store /\ comet'[m].genesis = comet[m].genesis
    BY <1>0, <1>10
       DEF NodeStep, PrepareProposalHalted, NilPrevote, Execute, CommitAnswered, Exit,
           Crash, MigrationKilled, Start, WriteGenesis, Comet, TypeOK
  <2> QED BY <1>3, <2>1
<1> QED BY <1>4, <1>5, <1>6, <1>7, <1>8, <1>9, <1>10, StepCases

\* A quorum that decides a block has executed the whole chain, and the block
\* is one the chain may go on with.
LEMMA DecideExtends ==
    ASSUME ~Forced, ChainRefinement, ChainInv', Next,
           NEW p \in Nodes, NEW Q \in Quorum, NEW body \in Bodies, Decide(p, Q, body)
    PROVE  Ideal!Next /\ Stacked(decided)'
<1> DEFINE h == NextHeight(p)
           g == comet[p].genesis
           N == Cardinality(decided)
<1>0. /\ IInv /\ ChainInv /\ TypeOK /\ Stacked(decided) /\ Node(p) /\ comet[p] \in Comet
      /\ Len(Log(p)) \in Nat /\ decided \subseteq Block
  BY NodeTypes DEF ChainRefinement, IInv, ChainInv, NodeInv, TypeOK
<1>1. /\ N \in Nat /\ Chain = Stack(decided) /\ Chain \in Seq(Block) /\ Len(Chain) = N
      /\ \A b \in decided : b.height \in 1..N /\ Chain[b.height] = b
  <2>1. Chain = Stack(decided)
    BY DEF Chain, Stack
  <2> QED BY <1>0, <2>1, StackBlocks
<1>2. PICK b : b = [height |-> h, genesis |-> g, body |-> body]
  OBVIOUS
<1>3. /\ decided' = decided \cup {b} /\ store' = store /\ lifted' = lifted
      /\ b.height = h /\ b.genesis = g /\ b \notin decided
      /\ p \in Q /\ proc[p] = "idle" /\ ~store[p].halt
      /\ \A n \in Q : proc[n] = "idle" /\ NextHeight(n) = h
  BY <1>2 DEF Decide, PreparesProposal
<1>4. b \in Block
  BY <1>3 DEF ChainInv, TypeOK
<1>5. Len(Log(p)) + 1 = h /\ Whole(p) /\ h \in Nat /\ h > 0
  BY <1>0, <1>3 DEF Node, Process, NextHeight, Running, Comet
<1>6. h <= N + 1
  BY <1>0, <1>1, <1>5, LogPrefix
<1>7. \A c \in decided : c.height # b.height
  <2>1. Unforked'
    BY NoForksAfter
  <2> QED BY <1>3, <2>1 DEF Unforked
<1>8. h = N + 1 /\ Stacked(decided \cup {b}) /\ Stack(decided \cup {b}) = Append(Stack(decided), b)
  BY <1>0, <1>3, <1>5, <1>6, <1>7, StackAdd
<1>9. Chain' = Append(Chain, b) /\ Stacked(decided)'
  <2>1. Chain' = Stack(decided')
    BY DEF Chain, Stack
  <2>2. Stacked(decided')
    BY <1>3, <1>8
  <2>3. Stacked(decided)'
    BY <2>2 DEF Stacked
  <2> QED BY <1>1, <1>3, <1>8, <2>1, <2>3
<1>10. ASSUME NEW n \in Q PROVE Log(n) = Chain
  <2>1. n \in Nodes
    BY QuorumAssumption
  <2>2. Len(Log(n)) = N
    <3>1. Len(Log(n)) = comet[n].height /\ NextHeight(n) = N + 1
      BY <1>0, <1>3, <1>8, <2>1 DEF ChainInv, NodeInv, Node, Process
    <3>2. Len(Log(n)) \in Nat
      BY <1>0, <2>1, NodeTypes
    <3> QED BY <1>1, <3>1, <3>2 DEF NextHeight
  <2> QED BY <1>0, <2>1, <2>2, LogPrefix
<1>11. Log(p) = Chain
  BY <1>3, <1>10
<1>12. Ideal!Ended(Chain) <=> N > 0 /\ Halts(Chain, N)
  BY <1>1, EndedHalts
<1>13. /\ g \in Nat /\ g > 0
       /\ \A i \in 1..N : Chain[i].genesis = IF i < g THEN 1 ELSE g
       /\ g = 1 \/ g <= N + 1
  BY <1>0, <1>1, <1>5, <1>8, <1>11, HeightAssumption DEF Node, Logged, Shape, Comet, Log
<1>14. ASSUME g = N + 1, g # 1 PROVE Ideal!Restarts(b)
  <2>1. lifted = {} => Ideal!Ended(Chain)
    <3> SUFFICES ASSUME lifted = {} PROVE Ideal!Ended(Chain)
      OBVIOUS
    <3>1. store[p].appVersion = 1
      BY <1>0, <1>13, <1>14 DEF Node, Shape
    <3>2. Halts(Log(p), N)
      BY <1>1, <1>14, <3>1 DEF ChainRefinement, LeftInv, Left, LeftAt
    <3> QED BY <1>1, <1>11, <1>12, <1>13, <1>14, <3>2
  <2> QED BY <1>3, <1>8, <1>14, <2>1 DEF Ideal!Restarts
<1>15. ASSUME ~(g = N + 1 /\ g # 1) PROVE Ideal!Continues(b)
  <2>1. b.genesis = IF Chain = <<>> THEN 1 ELSE Chain[Len(Chain)].genesis
    <3>1. CASE N = 0
      <4>1. Chain = <<>>
        BY <1>1, <3>1
      <4> QED BY <1>3, <1>13, <1>15, <3>1, <4>1
    <3>2. CASE N # 0
      <4>1. Chain # <<>> /\ N \in 1..N
        BY <1>1, <3>2
      <4> QED BY <1>1, <1>3, <1>13, <1>15, <4>1
    <3> QED BY <3>1, <3>2
  <2>2. ASSUME lifted = {}, Ideal!Ended(Chain) PROVE FALSE
    <3>1. HaltBit(p) /\ N > 0 /\ Halts(Log(p), N)
      BY <1>0, <1>11, <1>12, <2>2 DEF IInv, HaltInv
    <3>2. N \in g..Len(Log(p))
      BY <1>1, <1>5, <1>8, <1>13, <1>15, <3>1
    <3> QED BY <1>3, <1>5, <3>1, <3>2 DEF HaltBit
  <2> QED BY <2>1, <2>2 DEF Ideal!Continues
<1>16. PICK copies : copies = [n \in Nodes |-> store[n].log]
  OBVIOUS
<1>17. \A n \in Q : copies[n] = Chain
  BY <1>10, <1>16, QuorumAssumption DEF Log
<1>18. [n \in Nodes |-> store'[n].log] = copies
  BY <1>3, <1>16
<1>19. b.height = Len(Chain) + 1 /\ (Ideal!Continues(b) \/ Ideal!Restarts(b))
  BY <1>1, <1>3, <1>8, <1>14, <1>15
<1>20. Ideal!Extend(b)
  BY <1>3, <1>9, <1>16, <1>17, <1>18, <1>19, Zenon DEF Ideal!Extend
<1> QED BY <1>4, <1>9, <1>20, Zenon DEF Ideal!Next

\* A commit is the next block of the chain.
LEMMA CommitApplies ==
    ASSUME ChainRefinement, NEW n \in Nodes, Commit(n)
    PROVE  Ideal!Next
<1>0. /\ ChainInv /\ TypeOK /\ Stacked(decided) /\ store \in [Nodes -> State]
      /\ Len(Log(n)) \in Nat
  BY NodeTypes DEF ChainRefinement, IInv, ChainInv, TypeOK
<1>1. /\ Chain = Stack(decided) /\ Len(Chain) \in Nat
      /\ \A b \in decided : b.height \in 1..Len(Chain) /\ Chain[b.height] = b
  <2>1. Chain = Stack(decided)
    BY DEF Chain, Stack
  <2> QED BY <1>0, <2>1, StackBlocks
<1>2. PICK b \in decided : /\ b.height = Len(Log(n)) + 1
                           /\ Committed(app[n]).log = Append(Log(n), b)
  BY <1>0, CommitEffect
<1>3. b.height \in 1..Len(Chain) /\ Chain[b.height] = b
  BY <1>1, <1>2
<1>4. Len(Log(n)) < Len(Chain) /\ Chain[Len(Log(n)) + 1] = b
  BY <1>0, <1>1, <1>2, <1>3
<1>5. PICK copies, after : /\ copies = [m \in Nodes |-> store[m].log]
                           /\ after = [m \in Nodes |-> store'[m].log]
  OBVIOUS
<1>6. store' = [store EXCEPT ![n] = Committed(app[n])] /\ decided' = decided /\ lifted' = lifted
  BY DEF Commit
<1>7. copies[n] = Log(n)
  BY <1>5 DEF Log
<1>8. after = [copies EXCEPT ![n] = Append(copies[n], Chain[Len(copies[n]) + 1])]
  <2>1. after[n] = Append(Log(n), b)
    BY <1>0, <1>2, <1>5, <1>6
  <2>2. \A m \in Nodes : m # n => after[m] = copies[m]
    BY <1>0, <1>5, <1>6
  <2> QED BY <1>4, <1>5, <1>7, <2>1, <2>2
<1>9. Chain' = Chain
  BY <1>6 DEF Chain
<1>10. Ideal!Apply(n)
  BY <1>4, <1>5, <1>6, <1>7, <1>8, <1>9, Zenon DEF Ideal!Apply
<1> QED BY <1>10, Zenon DEF Ideal!Next

\* An operator resumes a node where the chain has stopped.
LEMMA ReadyResumes ==
    ASSUME ~Forced, ChainRefinement, NEW n \in Nodes, ReadyToStart(n)
    PROVE  Ideal!Next
<1>0. /\ IInv /\ ChainInv /\ TypeOK /\ store \in [Nodes -> State] /\ Log(n) \in Seq(Block)
  BY NodeTypes DEF ChainRefinement, IInv, ChainInv, TypeOK
<1>1. PICK copies, after : /\ copies = [m \in Nodes |-> store[m].log]
                           /\ after = [m \in Nodes |-> store'[m].log]
  OBVIOUS
<1>2. after = copies
  BY <1>0, <1>1 DEF ReadyToStart, State
<1>3. lifted = {} => Ideal!Ended(copies[n])
  <2> SUFFICES ASSUME lifted = {} PROVE Ideal!Ended(copies[n])
    OBVIOUS
  <2>1. Len(Log(n)) > 0 /\ Halts(Log(n), Len(Log(n)))
    BY <1>0, HaltedLast DEF ReadyToStart, MigrationAllowed
  <2>2. copies[n] = Log(n)
    BY <1>1 DEF Log
  <2> QED BY <1>0, <2>1, <2>2, EndedHalts
<1>4. lifted' = lifted \cup {n} /\ Chain' = Chain
  BY DEF ReadyToStart, Chain
<1>5. Ideal!Resume(n)
  BY <1>1, <1>2, <1>3, <1>4, Zenon DEF Ideal!Resume
<1> QED BY <1>5, Zenon DEF Ideal!Next

\* Each step is a step of the abstract chain or leaves it as it is.
LEMMA ChainStep ==
    ASSUME ~Forced, ChainRefinement, IInv', Next
    PROVE  (Ideal!Next \/ UNCHANGED Ideal!chainVars) /\ Stacked(decided)'
<1>0. ChainInv /\ ChainInv' /\ Stacked(decided)
  BY DEF ChainRefinement, IInv
<1>1. ASSUME NEW p \in Nodes, NEW Q \in Quorum, NEW body \in Bodies, Decide(p, Q, body)
      PROVE  (Ideal!Next \/ UNCHANGED Ideal!chainVars) /\ Stacked(decided)'
  BY <1>0, <1>1, DecideExtends
<1>2. ASSUME NEW n \in Nodes, NodeStep(n)
      PROVE  (Ideal!Next \/ UNCHANGED Ideal!chainVars) /\ Stacked(decided)'
  <2>1. decided' = decided
    BY <1>2, SameBlocks
  <2>2. Stacked(decided)'
    BY <1>0, <2>1 DEF Stacked
  <2>3. CASE Commit(n)
    BY <2>2, <2>3, CommitApplies
  <2>4. CASE ReadyToStart(n)
    BY <2>2, <2>4, ReadyResumes
  <2>5. CASE ~Commit(n) /\ ~ReadyToStart(n)
    <3>1. lifted' = lifted
      BY <1>2, <2>5
         DEF NodeStep, PrepareProposalHalted, NilPrevote, Execute, CommitAnswered, Exit, Crash,
             MigrationKilled, Start, MigrateState, WriteGenesis, MigrateComet
    <3>2. [m \in Nodes |-> store'[m].log] = [m \in Nodes |-> store[m].log]
      BY <1>0, <1>2, <2>5, LogKept
    <3>3. Chain' = Chain
      BY <2>1 DEF Chain
    <3> QED BY <2>2, <3>1, <3>2, <3>3, Zenon DEF Ideal!chainVars
  <2> QED BY <2>3, <2>4, <2>5
<1> QED BY <1>1, <1>2, StepCases

\* The initial states are initial states of the abstract chain.
LEMMA ChainStarts == Init => Ideal!Init /\ Stacked(decided) /\ LeftInv
<1> SUFFICES ASSUME Init PROVE Ideal!Init /\ Stacked(decided) /\ LeftInv
  OBVIOUS
<1>1. decided = {} /\ lifted = {} /\ \A n \in Nodes : store[n] = GenesisState
  BY DEF Init
<1>2. IsFiniteSet({}) /\ Cardinality({}) = 0
  BY FS_EmptySet
<1>3. Stacked(decided)
  BY <1>1, <1>2 DEF Stacked
<1>4. Chain = <<>>
  <2>1. Chain \in Seq({}) /\ Len(Chain) = 0
    BY <1>1, <1>2, <1>3, StackBlocks DEF Chain, Stack
  <2> QED BY <2>1
<1>5. \A n \in Nodes : store[n].log = <<>> /\ store[n].appVersion = 0
  BY <1>1 DEF GenesisState
<1>6. [n \in Nodes |-> store[n].log] = [n \in Nodes |-> <<>>]
  BY <1>5
<1>7. Ideal!Init
  BY <1>1, <1>4, <1>6, Zenon DEF Ideal!Init
<1>8. LeftInv
  BY <1>5 DEF LeftInv, Left
<1> QED BY <1>3, <1>7, <1>8

\* The nodes implement one chain of blocks, which stops where a block halts it
\* and goes on from there as the next network, or as it was if an operator has
\* resumed a node: through crashes between execution, commit and CometBFT's
\* record of it, and through migrations at different times.
THEOREM OneUpgradableChain ==
    ASSUME ~Forced PROVE Spec => ChainImplemented
<1>1. ChainRefinement /\ IInv' /\ [Next]_vars
        => ChainRefinement' /\ [Ideal!Next]_(Ideal!chainVars)
  <2> SUFFICES ASSUME ChainRefinement, IInv', [Next]_vars
               PROVE  ChainRefinement' /\ [Ideal!Next]_(Ideal!chainVars)
    OBVIOUS
  <2>1. CASE Next
    <3>1. LeftInv'
      BY <2>1, LeftStep DEF ChainRefinement
    <3>2. (Ideal!Next \/ UNCHANGED Ideal!chainVars) /\ Stacked(decided)'
      BY <2>1, ChainStep
    <3> QED BY <3>1, <3>2 DEF ChainRefinement
  <2>2. CASE UNCHANGED vars
    <3>1. store' = store /\ decided' = decided /\ lifted' = lifted /\ comet' = comet
      BY <2>2 DEF vars
    <3>2. LeftInv' /\ Stacked(decided)'
      BY <3>1 DEF ChainRefinement, LeftInv, Left, LeftAt, Stacked, Log, Halts, PlanStands
    <3>3. Chain' = Chain /\ [m \in Nodes |-> store'[m].log] = [m \in Nodes |-> store[m].log]
      BY <3>1 DEF Chain
    <3>4. UNCHANGED Ideal!chainVars
      BY <3>1, <3>3, Zenon DEF Ideal!chainVars
    <3> QED BY <3>2, <3>4 DEF ChainRefinement
  <2> QED BY <2>1, <2>2
<1>2. Init /\ IInv => ChainRefinement /\ Ideal!Init
  BY ChainStarts DEF ChainRefinement
<1> QED BY <1>1, <1>2, Invariant, PTL DEF Spec, ChainImplemented, Ideal!Spec

-----------------------------------------------------------------------------
(***************************************************************************)
(* Part II.  UptimeTracker, for any window, maximum, epoch duration and    *)
(* keys: the ring buffer counts exactly the misses of the last window of   *)
(* blocks, nobody is jailed but for downtime and the delays of CometBFT's  *)
(* set, and one that keeps its key is charged for at most two blocks that  *)
(* it was not asked to sign.                                               *)
(*                                                                         *)
(* The argument.  A slot of the buffer is clear exactly when a height of   *)
(* the window that falls on it was missed (Ring).  The heights of a window *)
(* fall on different slots (ModWindow), so the slots and the heights are   *)
(* in bijection and a new height overwrites the one that leaves the        *)
(* window.  For the charge, Lag says how far a key is on its way through   *)
(* CometBFT's three pending sets: it leaves with the updates of the epoch  *)
(* in which the validator entered or rotated, and then reaches one set     *)
(* with each block.  A block is missed without being absent from it only   *)
(* while the key in force has not arrived (Unheard).                       *)
(***************************************************************************)

-----------------------------------------------------------------------------
(* The inductive invariant                                                  *)

Slots == 0 .. (Window - 1)

Types ==
    /\ height \in Nat
    /\ phase \in {"BeginBlock", "DeliverTx"}
    /\ phase = "DeliverTx" => height > 0
    /\ state \in {"Active", "Inactive", "Jailed"}
    /\ entered \in Nat
    /\ rotations \subseteq Nat /\ \A r \in rotations : r <= height
    /\ epochStart \in Nat
    /\ uptime \in [asOf : Nat, signatures : [Slots -> BOOLEAN]]
    /\ missed \subseteq Nat

\* The heights of the last window at which the validator was marked as missing.
InWindow(h) == {m \in missed : m > h - Window}

\* A record tells the heights of a set: a slot is clear when a height of the
\* window falls on it.
Records(u, marked) ==
    /\ u \in [asOf : Nat, signatures : [Slots -> BOOLEAN]]
    /\ marked \subseteq Nat /\ \A m \in marked : m <= u.asOf
    /\ \A i \in Slots : ~u.signatures[i] <=>
           \E m \in marked : m > u.asOf - Window /\ m % Window = i

Ring == state = "Active" => uptime.asOf = height /\ Records(uptime, missed)

\* The last block of which CometBFT has had the validator updates.
Ended == IF phase = "BeginBlock" THEN height ELSE height - 1

\* The validator has changed its key no more than n blocks before that one.
RotatedWithin(n) == \E r \in rotations : Ended <= r + n

\* Which of CometBFT's sets may still lack the key in force.
Lag ==
    /\ entered <= Ended
    /\ cometSets[3] # {key} =>
           \E r \in rotations : epochStart <= r /\ Ended <= r + (EpochDuration - 2)
    /\ cometSets[2] # {key} => Ended <= entered \/ RotatedWithin(EpochDuration - 1)
    /\ cometSets[1] # {key} => Ended <= entered + 1 \/ RotatedWithin(EpochDuration)

Charged == state = "Active" => Lag /\ \A m \in missed \ absent : Unheard(m)

\* An epoch does not start after the block that follows the last one ended.
Started == epochStart <= Ended + 1

UptimeInv == Types /\ Ring /\ Charged /\ Started

-----------------------------------------------------------------------------
(* Slots                                                                    *)

\* Quotient and remainder.
LEMMA DivMod ==
    ASSUME NEW a \in Nat, NEW w \in Nat, w > 0
    PROVE  /\ a \div w \in Nat /\ a % w \in 0 .. (w - 1)
           /\ a = w * (a \div w) + (a % w)
OBVIOUS

\* A height falls on a slot of the buffer.
LEMMA ModBounds ==
    ASSUME NEW a \in Nat
    PROVE  /\ a \div Window \in Nat /\ a % Window \in Slots
           /\ a = Window * (a \div Window) + (a % Window)
<1>1. Window \in Nat /\ Window > 0
  BY ParameterAssumption
<1> QED BY <1>1, DivMod DEF Slots

\* The heights of a window fall on different slots.
LEMMA ModWindow ==
    ASSUME NEW a \in Nat, NEW b \in Nat, a < b, b - a < Window
    PROVE  a % Window # b % Window
<1>1. SUFFICES ASSUME a % Window = b % Window PROVE FALSE
  OBVIOUS
<1>2. Window \in Nat /\ Window > 0
  BY ParameterAssumption
<1>3. PICK p \in Nat : p = a \div Window
  BY ModBounds
<1>4. PICK q \in Nat : q = b \div Window
  BY ModBounds
<1>5. PICK r \in Nat : r = a % Window /\ a = Window * p + r /\ b = Window * q + r
  BY <1>1, <1>2, <1>3, <1>4, ModBounds DEF Slots
<1>6. b - a = Window * (q - p)
  BY <1>2, <1>5
<1>7. CASE q <= p
  <2>1. PICK d \in Nat : d = p - q
    BY <1>7
  <2>2. Window * p = Window * q + Window * d
    <3>1. p = q + d
      BY <2>1
    <3> QED BY <3>1, <1>2
  <2>3. PICK wd \in Nat : wd = Window * d
    BY <1>2
  <2>4. PICK wq \in Nat : wq = Window * q
    BY <1>2
  <2>5. a = wq + wd + r /\ b = wq + r
    BY <1>5, <2>2, <2>3, <2>4
  <2> QED BY <2>5
<1>8. CASE q > p
  <2>1. PICK d \in Nat : q = p + 1 + d
    <3>1. q - p - 1 \in Nat /\ q = p + 1 + (q - p - 1)
      BY <1>8
    <3> QED BY <3>1
  <2>2. Window * q = Window * p + Window + Window * d
    BY <1>2, <2>1
  <2>3. Window * d \in Nat /\ Window * p \in Nat /\ Window * q \in Nat
    BY <1>2
  <2> QED BY <1>2, <1>5, <2>2, <2>3
<1> QED BY <1>7, <1>8

\* A number has one remainder.
LEMMA RemainderUnique ==
    ASSUME NEW w \in Nat, w > 0, NEW p \in Nat, NEW q \in Nat,
           NEW r \in 0 .. (w - 1), NEW s \in 0 .. (w - 1), w * p + r = w * q + s
    PROVE  r = s
<1>1. ASSUME NEW x \in Nat, NEW y \in Nat, x < y PROVE w * x + w <= w * y
  <2>1. PICK d \in Nat : y = x + 1 + d
    <3>1. y - x - 1 \in Nat /\ y = x + 1 + (y - x - 1)
      BY <1>1
    <3> QED BY <3>1
  <2>2. w * y = w * x + w + w * d /\ w * d \in Nat
    BY <2>1
  <2> QED BY <2>2
<1>2. PICK wp \in Nat : wp = w * p
  OBVIOUS
<1>3. PICK wq \in Nat : wq = w * q
  OBVIOUS
<1>4. ~(p < q) /\ ~(q < p)
  BY <1>1, <1>2, <1>3
<1>5. p = q
  BY <1>4
<1> QED BY <1>2, <1>3, <1>5

\* A height that is a window later falls on the same slot.
LEMMA ModShift ==
    ASSUME NEW m \in Nat
    PROVE  (m + Window) % Window = m % Window
<1>1. Window \in Nat /\ Window > 0
  BY ParameterAssumption
<1>2. PICK n \in Nat : n = m + Window
  BY <1>1
<1>3. PICK p \in Nat, r \in 0 .. (Window - 1) : r = m % Window /\ m = Window * p + r
  BY ModBounds DEF Slots
<1>4. PICK q \in Nat, s \in 0 .. (Window - 1) : s = n % Window /\ n = Window * q + s
  BY ModBounds DEF Slots
<1>5. Window * (p + 1) + r = Window * q + s
  <2>1. Window * (p + 1) = Window * p + Window /\ Window * p \in Nat
    BY <1>1
  <2> QED BY <1>1, <1>2, <1>3, <1>4, <2>1
<1>6. r = s
  BY <1>1, <1>5, RemainderUnique
<1> QED BY <1>2, <1>3, <1>4, <1>6

\* The buffer is the window.
LEMMA RingCounts ==
    ASSUME NEW u, NEW marked, Records(u, marked)
    PROVE  /\ MissedBlocks(u) = {m \in marked : m > u.asOf - Window}
           /\ NumMissedBlocks(u) = Cardinality(MissedBlocks(u))
           /\ IsFiniteSet(MissedBlocks(u))
<1> DEFINE window == {m \in marked : m > u.asOf - Window}
<1>last. PICK last : last = u.asOf
  OBVIOUS
<1>0. /\ Window \in Nat /\ Window > 0 /\ last \in Nat /\ u.asOf = last
      /\ u.signatures \in [Slots -> BOOLEAN] /\ marked \subseteq Nat
      /\ \A m \in marked : m <= last
      /\ \A i \in Slots : ~u.signatures[i] <=> \E m \in window : m % Window = i
      /\ \A m : m \in window <=> m \in marked /\ m > last - Window
  BY <1>last, ParameterAssumption DEF Records
<1> HIDE DEF window
<1>1. PICK low : low = IF last >= Window - 1 THEN last - (Window - 1) ELSE 0
  OBVIOUS
<1>lowNat. low \in Nat
  BY <1>0, <1>1
<1>2. MissedBlocks(u) = {h \in low .. last : ~u.signatures[h % Window]}
  BY <1>0, <1>1 DEF MissedBlocks
<1>3. ASSUME NEW h \in Nat
      PROVE  h \in low .. last <=> h <= last /\ h > last - Window
  BY <1>0, <1>1, <1>lowNat
<1>4. ASSUME NEW h \in MissedBlocks(u) PROVE h \in window
  <2>1. /\ h \in Nat /\ h <= last /\ h > last - Window
        /\ ~u.signatures[h % Window]
    BY <1>0, <1>lowNat, <1>2, <1>3
  <2>2. PICK m \in window : m % Window = h % Window
    BY <1>0, <2>1, ModBounds
  <2>3. m \in Nat /\ m <= last /\ m > last - Window
    BY <1>0
  <2>4. ~(m < h) /\ ~(h < m)
    BY <1>0, <2>1, <2>2, <2>3, ModWindow
  <2>5. m = h
    BY <2>1, <2>3, <2>4
  <2> QED BY <2>5
<1>5. ASSUME NEW h \in window PROVE h \in MissedBlocks(u)
  <2>1. h \in Nat /\ h <= last /\ h > last - Window
    BY <1>0
  <2>2. ~u.signatures[h % Window]
    BY <1>0, <2>1, ModBounds
  <2> QED BY <1>2, <1>3, <2>1, <2>2
<1>6. MissedBlocks(u) = window
  BY <1>4, <1>5
<1>7. IsFiniteSet(MissedBlocks(u))
  <2>1. IsFiniteSet(low .. last)
    BY <1>0, <1>lowNat, FS_Interval
  <2>2. MissedBlocks(u) \subseteq low .. last
    BY <1>2
  <2> QED BY <2>1, <2>2, FS_Subset
<1>8. NumMissedBlocks(u) = Cardinality(MissedBlocks(u))
  <2> DEFINE clear == {i \in DOMAIN u.signatures : ~u.signatures[i]}
             slot == [h \in window |-> h % Window]
  <2>1. clear = {i \in Slots : ~u.signatures[i]}
    BY <1>0
  <2>2. ASSUME NEW h \in window PROVE h % Window \in clear
    <3>1. h \in Nat
      BY <1>0
    <3>2. h % Window \in Slots
      BY <3>1, ModBounds
    <3> QED BY <1>0, <2>1, <3>2
  <2>3. ASSUME NEW g \in window, NEW h \in window,
               g % Window = h % Window
        PROVE  g = h
    <3>1. /\ h \in Nat /\ h <= last /\ h > last - Window
          /\ g \in Nat /\ g <= last /\ g > last - Window
      BY <1>0
    <3>2. ~(g < h) /\ ~(h < g)
      BY <1>0, <2>3, <3>1, ModWindow
    <3> QED BY <3>1, <3>2
  <2>4. ASSUME NEW i \in clear PROVE \E h \in window : h % Window = i
    BY <1>0, <2>1
  <2> HIDE DEF clear
  <2>5. slot \in Bijection(window, clear)
    <3>1. slot \in [window -> clear]
      BY <2>2
    <3>2. \A g, h \in window : slot[g] = slot[h] => g = h
      BY <2>3
    <3>3. \A i \in clear : \E h \in window : slot[h] = i
      BY <2>4
    <3> HIDE DEF slot
    <3> QED BY <3>1, <3>2, <3>3 DEF Bijection, Injection, Surjection, IsInjective
  <2>6. Cardinality(clear) = Cardinality(window)
    <3> HIDE DEF slot
    <3>1. ExistsBijection(window, clear)
      BY <2>5 DEF ExistsBijection
    <3> QED BY <1>6, <1>7, <3>1, FS_Bijection
  <2> QED BY <1>6, <2>6 DEF clear, NumMissedBlocks
<1> QED BY <1>6, <1>7, <1>8 DEF window

\* Recording a vote overwrites the height that leaves the window.
LEMMA MarkKeepsRing ==
    ASSUME Types, Ring, state = "Active", NEW voted \in BOOLEAN, NEW u, NEW marked,
           u = Mark(uptime, height + 1, voted),
           marked = IF voted THEN missed ELSE missed \cup {height + 1}
    PROVE  u.asOf = height + 1 /\ Records(u, marked)
<1> DEFINE window == {m \in missed : m > height - Window}
<1>0. /\ Window \in Nat /\ Window > 0 /\ height \in Nat /\ uptime.asOf = height
      /\ uptime \in [asOf : Nat, signatures : [Slots -> BOOLEAN]]
      /\ uptime.signatures \in [Slots -> BOOLEAN] /\ missed \subseteq Nat
      /\ \A m \in missed : m <= height
      /\ \A i \in Slots : ~uptime.signatures[i] <=> \E m \in window : m % Window = i
  BY ParameterAssumption DEF Types, Ring, Records
<1>1. PICK h \in Nat : h = height + 1
  BY <1>0
<1>2. PICK s \in Slots : s = h % Window
  BY ModBounds
<1>3. u = [uptime EXCEPT !.asOf = h, !.signatures[s] = voted]
  BY <1>1, <1>2 DEF Mark
<1>4. /\ u.asOf = h /\ u.signatures = [uptime.signatures EXCEPT ![s] = voted]
      /\ u \in [asOf : Nat, signatures : [Slots -> BOOLEAN]]
  <2>1. u.asOf = h
    BY <1>0, <1>3
  <2>2. u.signatures = [uptime.signatures EXCEPT ![s] = voted]
    BY <1>0, <1>3
  <2>3. u \in [asOf : Nat, signatures : [Slots -> BOOLEAN]]
    <3>1. u = [asOf |-> u.asOf, signatures |-> u.signatures]
      BY <1>0, <1>3
    <3>2. u.asOf \in Nat /\ u.signatures \in [Slots -> BOOLEAN]
      <4>1. [uptime.signatures EXCEPT ![s] = voted] \in [Slots -> BOOLEAN]
        BY <1>0
      <4> QED BY <2>1, <2>2, <4>1
    <3> QED BY <3>1, <3>2
  <2> QED BY <2>1, <2>2, <2>3
<1>5. u.signatures[s] <=> voted
  BY <1>0, <1>4
<1>6. ASSUME NEW i \in Slots, i # s PROVE u.signatures[i] <=> uptime.signatures[i]
  BY <1>0, <1>4, <1>6
<1>7. marked \subseteq Nat /\ \A m \in marked : m <= h
  BY <1>0, <1>1
<1>8. ASSUME NEW i \in Slots
      PROVE  ~u.signatures[i] <=> \E m \in marked : m > h - Window /\ m % Window = i
  <2>1. CASE i = s
    <3>1. CASE voted
      <4>1. ASSUME NEW m \in marked, m > h - Window PROVE m % Window # s
        <5>1. m \in Nat /\ m < h
          BY <1>0, <1>1, <3>1
        <5> QED BY <1>0, <1>2, <4>1, <5>1, ModWindow
      <4> QED BY <1>5, <2>1, <3>1, <4>1
    <3>2. CASE ~voted
      <4>1. h \in marked /\ h > h - Window /\ h % Window = s
        BY <1>0, <1>1, <1>2, <3>2
      <4> QED BY <1>5, <2>1, <3>2, <4>1
    <3> QED BY <3>1, <3>2
  <2>2. CASE i # s
    <3>1. ASSUME NEW m \in marked, m > h - Window, m % Window = i
          PROVE  m \in window
      <4>1. m # h
        BY <1>2, <2>2, <3>1
      <4>2. m \in missed
        BY <1>1, <4>1
      <4> QED BY <1>0, <1>1, <3>1, <4>2
    <3>2. ASSUME NEW m \in window, m % Window = i
          PROVE  m \in marked /\ m > h - Window
      <4>1. m \in missed /\ m \in Nat /\ m > height - Window
        BY <1>0
      <4>2. m + Window # h
        BY <1>2, <2>2, <3>2, <4>1, ModShift
      <4> QED BY <1>0, <1>1, <4>1, <4>2
    <3>3. ~uptime.signatures[i] <=> \E m \in window : m % Window = i
      BY <1>0
    <3>4. ~uptime.signatures[i] <=> \E m \in marked : m > h - Window /\ m % Window = i
      BY <3>1, <3>2, <3>3
    <3> QED BY <1>6, <2>2, <3>4
  <2> QED BY <2>1, <2>2
<1> QED BY <1>1, <1>4, <1>7, <1>8 DEF Records

\* A vote is marked as missed only if it is absent or the key in force is not
\* among those that were asked.
LEMMA VoteRecorded ==
    ASSUME UptimeInv, NEW signed \in BOOLEAN, BeginBlock(signed), state = "Active"
    PROVE  \E u :
             /\ u.asOf = height + 1 /\ Records(u, missed')
             /\ \A m \in missed' \ absent' : Unheard(m)
             /\ IF ReachesMaximum(u) THEN state' = "Jailed" /\ uptime' = uptime
                ELSE state' = "Active" /\ uptime' = u
<1>0. /\ Types /\ Ring /\ Lag /\ height \in Nat
      /\ \A m \in missed \ absent : Unheard(m)
      /\ phase = "BeginBlock"
  BY DEF UptimeInv, Types, Charged, BeginBlock
<1>1. PICK voted \in BOOLEAN : voted = Voted(height + 1, signed)
  <2>1. Voted(height + 1, signed) \in BOOLEAN
    BY DEF Voted
  <2> QED BY <2>1
<1>2. PICK u : u = Mark(uptime, height + 1, voted)
  OBVIOUS
<1>3. /\ missed' = (IF voted THEN missed ELSE missed \cup {height + 1})
      /\ absent' = (IF Asked /\ ~signed THEN absent \cup {height + 1} ELSE absent)
      /\ IF ReachesMaximum(u) THEN state' = "Jailed" /\ uptime' = uptime
         ELSE state' = "Active" /\ uptime' = u
  BY <1>1, <1>2 DEF BeginBlock
<1>4. u.asOf = height + 1 /\ Records(u, missed')
  <2>1. PICK marked : /\ marked = missed'
                      /\ marked = IF voted THEN missed ELSE missed \cup {height + 1}
    BY <1>3
  <2>2. Types /\ Ring /\ state = "Active"
    BY <1>0
  <2>3. /\ u = Mark(uptime, height + 1, voted)
        /\ marked = IF voted THEN missed ELSE missed \cup {height + 1}
    BY <1>2, <2>1
  <2>4. u.asOf = height + 1 /\ Records(u, marked)
    BY <2>2, <2>3, MarkKeepsRing, SMTT(30)
  <2> QED BY <2>1, <2>4
<1>5. ASSUME height + 1 \in missed' \ absent', height + 1 \notin missed
      PROVE  Unheard(height + 1)
  <2>1. cometSets[1] # {key}
    <3>1. SUFFICES ASSUME cometSets[1] = {key} PROVE FALSE
      OBVIOUS
    <3>2. ~voted /\ ~(Asked /\ ~signed)
      BY <1>3, <1>5
    <3>3. (voted <=> signed) /\ Asked
      BY <1>1, <3>1 DEF Voted, Asked
    <3> QED BY <3>2, <3>3
  <2>2. Ended = height
    BY <1>0 DEF Ended
  <2>3. CASE height <= entered + 1
    <3>1. entered \in Nat /\ entered <= height
      BY <1>0, <2>2 DEF Lag, Types
    <3>2. height + 1 \in {entered + 1, entered + 2}
      BY <1>0, <2>3, <3>1
    <3> QED BY <3>2 DEF Unheard
  <2>4. CASE RotatedWithin(EpochDuration)
    <3>1. PICK r \in rotations : height <= r + EpochDuration
      BY <2>2, <2>4 DEF RotatedWithin
    <3>2. r \in Nat /\ r <= height /\ EpochDuration \in Nat
      BY <1>0, ParameterAssumption DEF Types
    <3>3. height + 1 \in (r + 1)..(r + EpochDuration + 1)
      BY <1>0, <3>1, <3>2
    <3> QED BY <3>3 DEF Unheard
  <2> QED BY <1>0, <2>1, <2>2, <2>3, <2>4 DEF Lag
<1>6. \A m \in missed' \ absent' : Unheard(m)
  <2>1. TAKE m \in missed' \ absent'
  <2>2. CASE m \in missed
    <3>1. m \in missed \ absent
      BY <1>3, <2>2
    <3> QED BY <1>0, <3>1
  <2>3. CASE m \notin missed
    <3>1. m = height + 1
      BY <1>3, <2>3
    <3> QED BY <1>5, <2>3, <3>1
  <2> QED BY <2>2, <2>3
<1> QED BY <1>3, <1>4, <1>6

\* Marking a block in the buffer, and jailing, keep the invariant.
LEMMA BeginBlockKeeps ==
    ASSUME UptimeInv, NEW signed \in BOOLEAN, BeginBlock(signed)
    PROVE  UptimeInv'
<1>0. /\ Types /\ Ring /\ Charged /\ Started /\ height \in Nat
      /\ phase = "BeginBlock" /\ height' = height + 1 /\ phase' = "DeliverTx"
      /\ UNCHANGED <<key, epochStart, cometSets, entered, rotations>>
  BY DEF UptimeInv, Types, BeginBlock
<1>1. Ended = height /\ Ended' = height
  BY <1>0 DEF Ended
<1>2. Started'
  BY <1>0, <1>1 DEF Started
<1>3. \A r \in rotations' : r <= height'
  BY <1>0 DEF Types
<1>4. CASE state # "Active"
  <2>1. UNCHANGED <<missed, absent, state, endEarly, uptime>>
    BY <1>4 DEF BeginBlock
  <2> QED BY <1>0, <1>2, <1>3, <1>4, <2>1 DEF UptimeInv, Types, Ring, Charged
<1>5. CASE state = "Active"
  <2>1. PICK u :
           /\ u.asOf = height + 1 /\ Records(u, missed')
           /\ \A m \in missed' \ absent' : Unheard(m)
           /\ IF ReachesMaximum(u) THEN state' = "Jailed" /\ uptime' = uptime
              ELSE state' = "Active" /\ uptime' = u
    BY <1>5, VoteRecorded
  <2>2. u \in [asOf : Nat, signatures : [Slots -> BOOLEAN]] /\ missed' \subseteq Nat
    BY <2>1 DEF Records
  <2>3. Types'
    BY <1>0, <1>3, <2>1, <2>2 DEF Types
  <2>4. Ring'
    BY <1>0, <2>1 DEF Ring, Records
  <2>5. Charged'
    <3>1. Lag'
      BY <1>0, <1>1, <1>5 DEF Charged, Lag, RotatedWithin
    <3>2. \A m \in (missed \ absent)' : Unheard(m)'
      BY <1>0, <2>1 DEF Unheard
    <3> QED BY <3>1, <3>2 DEF Charged
  <2> QED BY <1>2, <2>3, <2>4, <2>5 DEF UptimeInv
<1> QED BY <1>4, <1>5

\* A new definition keeps the invariant: a key that is replaced has yet to be
\* sent to CometBFT.
LEMMA UploadDefinitionKeeps ==
    ASSUME UptimeInv, NEW k \in Keys, UploadDefinition(k)
    PROVE  UptimeInv'
<1>0. /\ Types /\ Ring /\ Charged /\ Started /\ height \in Nat
      /\ key' = k /\ state' = (IF state = "Jailed" THEN "Inactive" ELSE state)
      /\ rotations' = (IF k # key THEN rotations \cup {height} ELSE rotations)
      /\ phase = "DeliverTx"
      /\ UNCHANGED <<height, phase, uptime, epochStart, endEarly, cometSets, missed, absent,
                     entered>>
  BY DEF UptimeInv, Types, UploadDefinition
<1>1. Ended = height - 1 /\ Ended' = height - 1
  BY <1>0 DEF Ended
<1>2. state' = "Active" => state = "Active"
  BY <1>0
<1>3. Types'
  BY <1>0 DEF Types
<1>4. Ring' /\ Started'
  BY <1>0, <1>1, <1>2 DEF Ring, Records, Started
<1>5. Charged'
  <2>1. SUFFICES ASSUME state = "Active" PROVE Lag' /\ \A m \in missed \ absent : Unheard(m)'
    BY <1>0, <1>2 DEF Charged
  <2>2. Lag /\ \A m \in missed \ absent : Unheard(m)
    BY <1>0, <2>1 DEF Charged
  <2>3. \A m \in missed \ absent : Unheard(m)'
    BY <1>0, <2>2 DEF Unheard
  <2>4. Lag'
    <3>1. CASE k = key
      <4>1. UNCHANGED <<key, rotations>>
        BY <1>0, <3>1
      <4> QED BY <1>0, <1>1, <2>2, <4>1 DEF Lag, RotatedWithin
    <3>2. CASE k # key
      <4>1. height \in rotations'
        BY <1>0, <3>2
      <4>2. EpochDuration \in Nat /\ EpochDuration > 0
        BY ParameterAssumption
      <4>3. epochStart' <= height
        BY <1>0, <1>1 DEF Started, Types
      <4>4. \A n \in {EpochDuration - 2, EpochDuration - 1, EpochDuration} : Ended' <= height + n
        BY <1>0, <1>1, <4>2
      <4>5. entered' <= Ended'
        BY <1>0, <1>1, <2>2 DEF Lag
      <4> QED BY <4>1, <4>3, <4>4, <4>5 DEF Lag, RotatedWithin
    <3> QED BY <3>1, <3>2
  <2> QED BY <2>3, <2>4
<1> QED BY <1>3, <1>4, <1>5 DEF UptimeInv

\* A fresh record has no misses.
LEMMA NewUptimeClear ==
    ASSUME NEW h \in Nat
    PROVE  NewUptime(h).asOf = h /\ Records(NewUptime(h), {})
<1>1. NewUptime(h) = [asOf |-> h, signatures |-> [i \in Slots |-> TRUE]]
  BY DEF NewUptime, Slots
<1>2. NewUptime(h).signatures = [i \in Slots |-> TRUE]
  BY <1>1
<1>3. NewUptime(h) \in [asOf : Nat, signatures : [Slots -> BOOLEAN]]
  BY <1>1
<1> QED BY <1>1, <1>2, <1>3 DEF Records

\* The end of a block or an epoch keeps the invariant: the sets of CometBFT
\* move on.
LEMMA EndBlockKeeps ==
    ASSUME UptimeInv, NEW active \in BOOLEAN, EndUptimeBlock(active)
    PROVE  UptimeInv'
<1>0. /\ Types /\ Ring /\ Charged /\ Started /\ height \in Nat
      /\ phase = "DeliverTx" /\ phase' = "BeginBlock"
      /\ UNCHANGED <<height, key>>
      /\ EpochDuration \in Nat /\ EpochDuration > 0
  BY ParameterAssumption DEF UptimeInv, Types, EndUptimeBlock
<1>1. Ended = height - 1 /\ Ended' = height
  BY <1>0 DEF Ended
<1>2. /\ epochStart \in Nat /\ entered \in Nat
      /\ rotations \subseteq Nat /\ \A r \in rotations : r <= height
  BY <1>0 DEF Types
<1>3. ASSUME state' = "Active" => state = "Active",
             UNCHANGED <<uptime, missed, absent, entered, rotations>>,
             state' \in {"Active", "Inactive", "Jailed"},
             epochStart' \in {epochStart, height + 1},
             cometSets'[1] = cometSets[2] /\ cometSets'[2] = cometSets[3],
             state' = "Active" =>
                 \/ cometSets'[3] = {key}
                 \/ /\ cometSets'[3] = cometSets[3] /\ epochStart' = epochStart
                    /\ height < epochStart + EpochDuration - 1
      PROVE  UptimeInv'
  <2>1. Types' /\ Started'
    BY <1>0, <1>1, <1>2, <1>3 DEF Types, Started
  <2>2. Ring'
    BY <1>0, <1>3 DEF Ring, Records
  <2>3. Charged'
    <3>1. SUFFICES ASSUME state' = "Active"
                   PROVE  Lag' /\ \A m \in missed \ absent : Unheard(m)'
      BY <1>3 DEF Charged
    <3>2. Lag /\ \A m \in missed \ absent : Unheard(m)
      BY <1>0, <1>3, <3>1 DEF Charged
    <3>3. \A m \in missed \ absent : Unheard(m)'
      BY <1>3, <3>2 DEF Unheard
    <3>4. entered' <= Ended'
      BY <1>0, <1>1, <1>2, <1>3, <3>2 DEF Lag
    <3>5. ASSUME (cometSets[3] # {key})'
          PROVE  \E r \in rotations : epochStart' <= r /\ height <= r + (EpochDuration - 2)
      <4>1. /\ cometSets[3] # {key} /\ epochStart' = epochStart
            /\ height < epochStart + EpochDuration - 1
        BY <1>0, <1>3, <3>1, <3>5
      <4>2. PICK r \in rotations : epochStart <= r
        BY <3>2, <4>1 DEF Lag
      <4>3. height <= r + (EpochDuration - 2)
        BY <1>0, <1>2, <4>1, <4>2
      <4> QED BY <4>1, <4>2, <4>3
    <3>6. ASSUME (cometSets[2] # {key})'
          PROVE  \E r \in rotations : height <= r + (EpochDuration - 1)
      <4>1. PICK r \in rotations : height - 1 <= r + (EpochDuration - 2)
        BY <1>0, <1>1, <1>3, <3>2, <3>6 DEF Lag
      <4>2. r \in Nat
        BY <1>2
      <4>3. height <= r + (EpochDuration - 1)
        BY <1>0, <4>1, <4>2
      <4> QED BY <4>3
    <3>7. ASSUME (cometSets[1] # {key})'
          PROVE  \/ height <= entered + 1
                 \/ \E r \in rotations : height <= r + EpochDuration
      <4>1. cometSets[2] # {key}
        BY <1>0, <1>3, <3>7
      <4>2. CASE height - 1 <= entered
        BY <1>0, <1>2, <4>2
      <4>3. CASE RotatedWithin(EpochDuration - 1)
        <5>1. PICK r \in rotations : height - 1 <= r + (EpochDuration - 1)
          BY <1>1, <4>3 DEF RotatedWithin
        <5>2. r \in Nat
          BY <1>2
        <5>3. height <= r + EpochDuration
          BY <1>0, <5>1, <5>2
        <5> QED BY <5>3
      <4> QED BY <1>1, <3>2, <4>1, <4>2, <4>3 DEF Lag
    <3>8. Lag'
      BY <1>1, <1>3, <3>4, <3>5, <3>6, <3>7 DEF Lag, RotatedWithin
    <3> QED BY <3>3, <3>8
  <2> QED BY <2>1, <2>2, <2>3 DEF UptimeInv
<1>4. CASE ~UptimeEpochEnds
  <2>1. /\ cometSets' = <<cometSets[2], cometSets[3], cometSets[3]>>
        /\ UNCHANGED <<state, uptime, missed, absent, entered, rotations, epochStart, endEarly>>
    BY <1>4 DEF EndUptimeBlock
  <2>2. height < epochStart + EpochDuration - 1
    BY <1>0, <1>2, <1>4 DEF UptimeEpochEnds
  <2>3. state' \in {"Active", "Inactive", "Jailed"}
    BY <1>0, <2>1 DEF Types
  <2>4. /\ cometSets'[1] = cometSets[2] /\ cometSets'[2] = cometSets[3]
        /\ cometSets'[3] = cometSets[3]
    BY <2>1
  <2> QED BY <1>3, <2>1, <2>2, <2>3, <2>4
<1>5. CASE UptimeEpochEnds
  <2>1. PICK new : new = IF state = "Jailed" THEN "Jailed"
                         ELSE IF active THEN "Active" ELSE "Inactive"
    OBVIOUS
  <2>2. /\ state' = new
        /\ IF state = "Inactive" /\ new = "Active"
             THEN /\ uptime' = TrackFrom(height)
                  /\ missed' = {} /\ absent' = {}
                  /\ entered' = height /\ rotations' = {}
             ELSE UNCHANGED <<uptime, missed, absent, entered, rotations>>
        /\ cometSets' = <<cometSets[2], cometSets[3], KeysInForce(new)>>
        /\ epochStart' = height + 1
    BY <1>5, <2>1 DEF EndUptimeBlock
  <2>3. /\ cometSets'[1] = cometSets[2] /\ cometSets'[2] = cometSets[3]
        /\ new = "Active" => cometSets'[3] = {key}
    BY <2>2 DEF KeysInForce
  <2>4. CASE ~(state = "Inactive" /\ new = "Active")
    <3>1. /\ new = "Active" => state = "Active"
          /\ new \in {"Active", "Inactive", "Jailed"}
      BY <1>0, <2>1, <2>4 DEF Types
    <3>2. UNCHANGED <<uptime, missed, absent, entered, rotations>>
      BY <2>2, <2>4
    <3> QED BY <1>3, <2>2, <2>3, <3>1, <3>2
  <2>5. CASE state = "Inactive" /\ new = "Active"
    <3>1. /\ uptime' = NewUptime(height) /\ missed' = {} /\ absent' = {}
          /\ entered' = height /\ rotations' = {}
          /\ state' = "Active" /\ epochStart' = height + 1
          /\ cometSets'[3] = {key}
      BY <2>2, <2>3, <2>5 DEF TrackFrom
    <3>2. NewUptime(height).asOf = height /\ Records(NewUptime(height), {})
      BY <1>0, NewUptimeClear
    <3>3. Types' /\ Started'
      BY <1>0, <1>1, <3>1, <3>2 DEF Types, Records, Started
    <3>4. Ring'
      BY <1>0, <3>1, <3>2 DEF Ring, Records
    <3>5. Lag'
      BY <1>0, <1>1, <3>1 DEF Lag
    <3> QED BY <3>1, <3>3, <3>4, <3>5 DEF UptimeInv, Charged
  <2> QED BY <2>4, <2>5
<1> QED BY <1>4, <1>5

-----------------------------------------------------------------------------
(* The theorems                                                             *)

\* The inductive invariant of the uptime tracker.
THEOREM UptimeInvariant == UptimeSpec => []UptimeInv
<1>1. UptimeInit => UptimeInv
  <2> SUFFICES ASSUME UptimeInit PROVE UptimeInv
    OBVIOUS
  <2>1. /\ height = 0 /\ phase = "BeginBlock" /\ state = "Active" /\ key = GenesisKey
        /\ uptime = NewUptime(0) /\ missed = {} /\ absent = {} /\ entered = 0
        /\ rotations = {} /\ epochStart = 0
        /\ cometSets = <<{}, {GenesisKey}, {GenesisKey}>>
    BY DEF UptimeInit
  <2>2. NewUptime(0).asOf = 0 /\ Records(NewUptime(0), {})
    BY NewUptimeClear
  <2>3. Types /\ Ring
    BY <2>1, <2>2 DEF Types, Ring, Records
  <2>4. Charged /\ Started
    BY <2>1 DEF Charged, Lag, Started, Ended
  <2> QED BY <2>3, <2>4 DEF UptimeInv
<1>2. UptimeInv /\ [UptimeNext]_uptimeVars => UptimeInv'
  <2> SUFFICES ASSUME UptimeInv, [UptimeNext]_uptimeVars PROVE UptimeInv'
    OBVIOUS
  <2>1. CASE \E signed \in BOOLEAN : BeginBlock(signed)
    BY <2>1, BeginBlockKeeps
  <2>2. CASE \E k \in Keys : UploadDefinition(k)
    BY <2>2, UploadDefinitionKeeps
  <2>3. CASE \E active \in BOOLEAN : EndUptimeBlock(active)
    BY <2>3, EndBlockKeeps
  <2>4. CASE UNCHANGED uptimeVars
    <3>1. Types' /\ Ring' /\ Started'
      BY <2>4 DEF uptimeVars, UptimeInv, Types, Ring, Records, Started, Ended
    <3>2. Charged'
      BY <2>4 DEF uptimeVars, UptimeInv, Charged, Lag, RotatedWithin, Ended, Unheard
    <3> QED BY <3>1, <3>2 DEF UptimeInv
  <2> QED BY <2>1, <2>2, <2>3, <2>4 DEF UptimeNext
<1> QED BY <1>1, <1>2, PTL DEF UptimeSpec

\* What num_missed_blocks counts and missed_blocks lists is exactly the misses of
\* the last window of blocks, for a window of any length and however often the
\* buffer has wrapped.
THEOREM RingIsExact == UptimeSpec => []RingIsWindow
<1>1. UptimeInv => RingIsWindow
  BY RingCounts DEF UptimeInv, Ring, RingIsWindow
<1> QED BY <1>1, UptimeInvariant, PTL

\* Nobody is jailed but for downtime: of the last window of blocks, a validator
\* that is jailed was asked to sign and did not, or had a key that was still on
\* its way to CometBFT, for missed_blocks_maximum or more.
THEOREM JailedOnlyForDowntime == UptimeSpec => JailedForDowntime
<1>1. ASSUME UptimeInv, [UptimeNext]_uptimeVars, state = "Active" /\ state' = "Jailed"
      PROVE  Cardinality({h \in (height' - Window + 1)..height' : h \in absent' \/ Unheard(h)})
                 >= MissedMaximum
  <2>1. PICK signed \in BOOLEAN : BeginBlock(signed)
    BY <1>1 DEF UptimeNext, uptimeVars, UploadDefinition, EndUptimeBlock
  <2>2. PICK u :
           /\ u.asOf = height + 1 /\ Records(u, missed')
           /\ \A m \in missed' \ absent' : Unheard(m)
           /\ IF ReachesMaximum(u) THEN state' = "Jailed" /\ uptime' = uptime
              ELSE state' = "Active" /\ uptime' = u
    BY <1>1, <2>1, VoteRecorded
  <2>3. NumMissedBlocks(u) >= MissedMaximum
    BY <1>1, <2>2 DEF ReachesMaximum
  <2>4. height \in Nat /\ height' = height + 1 /\ Window \in Nat /\ MissedMaximum \in Nat
    BY <1>1, <2>1, ParameterAssumption DEF UptimeInv, Types, BeginBlock
  <2> DEFINE charged == {h \in (height' - Window + 1)..height' : h \in absent' \/ Unheard(h)}
             window == {m \in missed' : m > u.asOf - Window}
  <2>5. PICK marked : marked = missed'
    OBVIOUS
  <2>6. window \subseteq charged
    <3>1. ASSUME NEW m \in window PROVE m \in charged
      <4>1. /\ marked \subseteq Nat /\ \A x \in marked : x <= u.asOf
            /\ u.asOf = height + 1
        BY <2>2, <2>5 DEF Records
      <4>2. m \in marked /\ m > u.asOf - Window
        BY <2>5
      <4>3. m \in missed' /\ m \in Nat /\ m <= height + 1 /\ m > height + 1 - Window
        BY <2>4, <2>5, <4>1, <4>2
      <4>4. m \in (height' - Window + 1)..height'
        BY <2>4, <4>3
      <4>5. m \in absent' \/ Unheard(m)
        BY <2>2, <4>3
      <4> QED BY <4>4, <4>5
    <3> QED BY <3>1
  <2>7. IsFiniteSet(charged)
    <3>1. IsFiniteSet((height' - Window + 1)..height')
      BY <2>4, FS_Interval
    <3>2. charged \subseteq (height' - Window + 1)..height'
      OBVIOUS
    <3> HIDE DEF charged
    <3> QED BY <3>1, <3>2, FS_Subset
  <2>8. NumMissedBlocks(u) = Cardinality(window)
    <3>1. Records(u, marked)
      BY <2>2, <2>5
    <3>2. /\ MissedBlocks(u) = {m \in marked : m > u.asOf - Window}
          /\ NumMissedBlocks(u) = Cardinality(MissedBlocks(u))
      BY <3>1, RingCounts
    <3> QED BY <2>5, <3>2
  <2>9. Cardinality(charged) >= MissedMaximum
    <3> HIDE DEF charged, window
    <3>1. /\ Cardinality(window) <= Cardinality(charged)
          /\ Cardinality(window) \in Nat /\ Cardinality(charged) \in Nat
      BY <2>6, <2>7, FS_Subset, FS_CardinalityType
    <3> QED BY <2>3, <2>4, <2>8, <3>1
  <2> QED BY <2>9
<1>2. UptimeInv /\ [UptimeNext]_uptimeVars =>
          [state = "Active" /\ state' = "Jailed" =>
             Cardinality({h \in (height' - Window + 1)..height' : h \in absent' \/ Unheard(h)})
                 >= MissedMaximum]_uptimeVars
  BY <1>1
<1> QED BY <1>2, UptimeInvariant, PTL DEF UptimeSpec, JailedForDowntime

\* A validator that keeps its key is charged, beyond the votes it was asked for
\* and did not give, for at most the two blocks that CometBFT takes to let it in.
THEOREM HonestCharge == UptimeSpec => []HonestChargedAtMostTwo
<1>1. UptimeInv => HonestChargedAtMostTwo
  <2> SUFFICES ASSUME UptimeInv, state = "Active", rotations = {}
               PROVE  Cardinality(MissedBlocks(uptime) \ absent) <= 2
    BY DEF HonestChargedAtMostTwo
  <2>1. missed \ absent \subseteq {entered + 1, entered + 2} /\ entered \in Nat
    BY DEF UptimeInv, Types, Charged, Unheard
  <2>2. MissedBlocks(uptime) \subseteq missed
    BY RingCounts DEF UptimeInv, Ring
  <2>3. MissedBlocks(uptime) \ absent \subseteq {entered + 1, entered + 2}
    BY <2>1, <2>2
  <2>4. /\ IsFiniteSet({entered + 1, entered + 2})
        /\ Cardinality({entered + 1, entered + 2}) = 2
    <3>1. IsFiniteSet({entered + 1}) /\ Cardinality({entered + 1}) = 1
      BY FS_Singleton
    <3>2. {entered + 1, entered + 2} = {entered + 1} \cup {entered + 2}
      OBVIOUS
    <3>3. entered + 2 \notin {entered + 1}
      BY <2>1
    <3> QED BY <3>1, <3>2, <3>3, FS_AddElement
  <2>5. Cardinality(MissedBlocks(uptime) \ absent) <= Cardinality({entered + 1, entered + 2})
    BY <2>3, <2>4, FS_Subset
  <2> QED BY <2>4, <2>5
<1> QED BY <1>1, UptimeInvariant, PTL

=============================================================================

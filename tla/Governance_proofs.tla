-------------------------- MODULE Governance_proofs -------------------------
(***************************************************************************)
(* Proofs about Governance, for any validators, notes, proposals, voting   *)
(* period and thresholds: a proposal is enacted exactly once if it passes, *)
(* the index of unfinished proposals is exact and no proposal outlives its *)
(* voting period, what a proposal schedules is tried in the next block,    *)
(* no more stake votes on a proposal than there was at the start of its    *)
(* block, and no tally exceeds the voting power it is compared with.       *)
(*                                                                         *)
(* The argument.  The state of a proposal determines what has happened to  *)
(* it (Lifecycle): nothing is enacted before it concludes, and only the    *)
(* withdrawal of a proposal makes an unbonding deposit NFT.  At the end of *)
(* a block no unfinished proposal is due (Due), and what has passed but    *)
(* was not tried yet is scheduled (Scheduled).  For the votes, the set of  *)
(* the notes that may vote on a proposal is fixed when the proposal is     *)
(* submitted (Snapshots): a note made later is too young, a note spent     *)
(* later may still vote, and the note that replaces it is too young.       *)
(* None of this depends on how votes are counted, so the tallies are left  *)
(* folded there; the last part unfolds them.  A validator's tally holds at *)
(* most one vote for each note of its that was swept (CountInv), its own   *)
(* vote fills that up to its power at most, and the sums over the          *)
(* validators compare term by term.                                        *)
(***************************************************************************)
EXTENDS Governance, SumTheorems

States == {"None", "Voting", "Withdrawn", "Finished", "Claimed"}

Outcomes == {"none", "passed", "failed", "slashed", "failed_withdrawn"}

Proposal == [payload : Payloads \cup {"none"}, state : States, outcome : Outcomes,
             start : Nat, end : Nat]

Note == [validator : Validators \cup {"none"},
         created : Nat \cup {NoHeight}, spent : Nat \cup {NoHeight}]

Types ==
    /\ height \in Nat
    /\ notes \in [Notes -> Note]
    /\ nextId \in Nat
    /\ proposal \in [Proposals -> Proposal]
    /\ unfinished \subseteq Proposals
    /\ voted \in [Proposals -> SUBSET Notes]
    /\ nft \in [Proposals -> Outcomes \cup {"deposit", "unbonding_deposit"}]
    /\ enacted \in [Proposals -> Nat]
    /\ phase \in {"begin", "deliver"}
    /\ stakeNow \in [Validators -> Nat]
    /\ stakeAtStart \in [Proposals -> [Validators -> Nat]]

-----------------------------------------------------------------------------
(* The life of a proposal                                                   *)

Open(p) == proposal[p].state \in {"Voting", "Withdrawn"}

\* What has happened to a proposal, by its state.
Lifecycle(p) ==
    /\ p >= nextId => proposal[p].state = "None"
    /\ proposal[p].state = "None" \/ Open(p) => proposal[p].outcome = "none"
    /\ enacted[p] = IF proposal[p].outcome = "passed" THEN 1 ELSE 0
    /\ nft[p] = "unbonding_deposit" =>
           proposal[p].state = "Withdrawn" \/ proposal[p].outcome = "failed_withdrawn"
    /\ proposal[p].state = "None" => nft[p] = "none"

Index == unfinished = {p \in Proposals : Open(p)}

\* Between two blocks no unfinished proposal is due.
Due ==
    \A p \in unfinished :
        IF phase = "begin" THEN height < proposal[p].end ELSE height <= proposal[p].end

LifeInv == (\A p \in Proposals : Lifecycle(p)) /\ Index /\ Due

-----------------------------------------------------------------------------
(* Who may vote                                                             *)

\* The notes of v that were live when the block at height h began.
LiveAt(h, v) ==
    {n \in Notes : /\ notes[n].created # NoHeight /\ notes[n].created < h
                   /\ ~(notes[n].spent # NoHeight /\ notes[n].spent < h)
                   /\ notes[n].validator = v}

\* Notes are made and spent at heights that have been reached, the stake at a
\* block's start is the number of notes live then, and the votes on a proposal
\* are those of notes that were live at the start of its block.
Snapshots ==
    /\ \A n \in Notes : /\ notes[n].created <= height /\ notes[n].spent <= height
                        /\ notes[n].created = NoHeight => notes[n].spent = NoHeight
    /\ \A v \in Validators : stakeNow[v] = Cardinality(LiveAt(height, v))
    /\ \A p \in Proposals :
           IF proposal[p].state = "None"
             THEN voted[p] = {}
             ELSE /\ proposal[p].start <= height
                  /\ \A n \in voted[p] : Eligible(p, n)
                  /\ \A v \in Validators :
                         stakeAtStart[p][v] = Cardinality(LiveAt(proposal[p].start, v))

-----------------------------------------------------------------------------
(* What proposals schedule                                                  *)

Passed(p, payload) == proposal[p].payload = payload /\ proposal[p].outcome = "passed"

\* A proposal is tried, or is scheduled by the block that has just ended; of
\* several changes that end together one is.
Scheduled ==
    /\ effects.spends \subseteq Proposals
    /\ phase = "deliver" => effects.spends = {} /\ effects.change = NoProposal
    /\ \A p \in Proposals : Passed(p, "spend") =>
           p \in delivered \/ (p \in effects.spends /\ proposal[p].end = height)
    /\ \A p \in Proposals : Passed(p, "change") =>
           \/ p \in delivered
           \/ p = effects.change /\ proposal[p].end = height
           \/ \E q \in Proposals \ {p} :
                  Passed(q, "change") /\ proposal[q].end = proposal[p].end

IInv == Types /\ LifeInv /\ Snapshots /\ Scheduled

-----------------------------------------------------------------------------
(* Lemmas about the operators                                               *)

\* The stake of a validator at a height is a natural number, and so is the
\* number of its live notes.
LEMMA StakeIsNat ==
    ASSUME NEW v, NEW h
    PROVE  /\ IsFiniteSet(LiveAt(h, v)) /\ Cardinality(LiveAt(h, v)) \in Nat
           /\ LiveStake(v) \in Nat
<1>1. IsFiniteSet(Notes) /\ LiveAt(h, v) \subseteq Notes
  BY ParameterAssumption DEF LiveAt
<1>2. IsFiniteSet(LiveAt(h, v))
  BY <1>1, FS_Subset
<1>3. IsFiniteSet({n \in Notes : Live(n) /\ notes[n].validator = v})
  BY <1>1, FS_Subset
<1> QED BY <1>2, <1>3, FS_CardinalityType DEF LiveStake

\* A vote on the tally has one of three outcomes.
LEMMA OutcomeCases ==
    ASSUME NEW t, NEW total
    PROVE  Outcome(t, total) \in {"passed", "failed", "slashed"}
BY DEF Outcome

\* A concluding proposal fails as withdrawn, or by the tally.
LEMMA ConcludedCases ==
    ASSUME NEW p
    PROVE  /\ ConcludedOutcome(p) \in {"passed", "failed", "slashed", "failed_withdrawn"}
           /\ proposal[p].state = "Withdrawn" => ConcludedOutcome(p) = "failed_withdrawn"
BY OutcomeCases DEF ConcludedOutcome

\* put_proposal_state changes the state and the outcome of one proposal and
\* keeps the rest of it.
LEMMA PutState ==
    ASSUME Types, NEW p \in Proposals, NEW s \in States, NEW o \in Outcomes,
           PutProposalState(p, s, o)
    PROVE  /\ proposal' \in [Proposals -> Proposal]
           /\ proposal'[p].state = s /\ proposal'[p].outcome = o
           /\ proposal'[p].start = proposal[p].start /\ proposal'[p].end = proposal[p].end
           /\ proposal'[p].payload = proposal[p].payload
           /\ \A q \in Proposals \ {p} : proposal'[q] = proposal[q]
           /\ unfinished' = IndexAfter(p, s) /\ unfinished' \subseteq Proposals
<1>1. proposal[p] \in Proposal
  BY DEF Types
<1>2. proposal' = [proposal EXCEPT ![p] = [proposal[p] EXCEPT !.state = s, !.outcome = o]]
  BY <1>1 DEF PutProposalState, Types, Proposal
<1>3. [proposal[p] EXCEPT !.state = s, !.outcome = o] \in Proposal
  BY <1>1 DEF Proposal
<1>4. unfinished' = IndexAfter(p, s) /\ unfinished' \subseteq Proposals
  BY DEF PutProposalState, IndexAfter, Types
<1> QED BY <1>1, <1>2, <1>3, <1>4 DEF Types, Proposal

\* A validator's vote either leaves the proposals alone or enacts and finishes
\* the one it is about.
LEMMA VoteEffect ==
    ASSUME NEW p \in Proposals, NEW v, NEW vote, ValidatorVote(p, v, vote)
    PROVE  /\ Votable(p)
           /\ \/ UNCHANGED <<enacted, proposal, unfinished>>
              \/ /\ PutProposalState(p, "Finished", "passed")
                 /\ enacted' = [enacted EXCEPT ![p] = @ + 1]
           /\ UNCHANGED <<height, notes, nextId, voted, nft, phase, stakeNow, stakeAtStart>>
BY DEF ValidatorVote, stakes

\* The end of a block concludes the proposals that are due, and enacts those
\* of them that pass.
LEMMA EndBlockEffect ==
    ASSUME Types, NEW active, EndBlock(active), NEW p \in Proposals
    PROVE  /\ Ready(p) =>
                /\ proposal'[p].state = "Finished"
                /\ proposal'[p].outcome = ConcludedOutcome(p)
                /\ proposal'[p].start = proposal[p].start
                /\ proposal'[p].end = proposal[p].end
                /\ proposal'[p].payload = proposal[p].payload
                /\ proposal'[p] \in Proposal
                /\ enacted'[p] = IF ConcludedOutcome(p) = "passed"
                                   THEN enacted[p] + 1 ELSE enacted[p]
           /\ ~Ready(p) => proposal'[p] = proposal[p] /\ enacted'[p] = enacted[p]
           /\ p \in unfinished' <=> p \in unfinished /\ ~Ready(p)
<1>1. proposal[p] \in Proposal
  BY DEF Types
<1>2. unfinished' = unfinished \ {q \in Proposals : Ready(q)}
  BY DEF EndBlock
<1>3. enacted'[p] = IF p \in Passing THEN enacted[p] + 1 ELSE enacted[p]
  BY DEF EndBlock
<1>4. p \in Passing <=> Ready(p) /\ ConcludedOutcome(p) = "passed"
  BY DEF Passing
<1>5. CASE Ready(p)
  <2> DEFINE o == ConcludedOutcome(p)
  <2>1. o \in Outcomes
    BY ConcludedCases DEF Outcomes
  <2>2. proposal'[p] = [proposal[p] EXCEPT !.state = "Finished", !.outcome = o]
    BY <1>5 DEF EndBlock
  <2> HIDE DEF o
  <2>3. /\ proposal'[p].state = "Finished" /\ proposal'[p].outcome = o
        /\ proposal'[p].start = proposal[p].start
        /\ proposal'[p].end = proposal[p].end
        /\ proposal'[p].payload = proposal[p].payload
        /\ proposal'[p] \in Proposal
    BY <1>1, <2>1, <2>2 DEF Proposal, States
  <2> QED BY <1>2, <1>3, <1>4, <1>5, <2>3 DEF o
<1>6. CASE ~Ready(p)
  BY <1>2, <1>3, <1>4, <1>6 DEF EndBlock
<1> QED BY <1>5, <1>6

-----------------------------------------------------------------------------
(* Types                                                                    *)

\* Every step keeps the types.
LEMMA TypesStep ==
    ASSUME IInv, Next
    PROVE  Types'
<1>0. Types
  BY DEF IInv
<1> USE ParameterAssumption
<1>1. ASSUME NEW payload \in Payloads, ProposalSubmit(payload) PROVE Types'
  <2>1. nextId \in Proposals /\ height + VotingBlocks \in Nat
    BY <1>0, <1>1 DEF ProposalSubmit, Types
  <2>2. [payload |-> payload, state |-> "Voting", outcome |-> "none",
         start |-> height, end |-> height + VotingBlocks] \in Proposal
    BY <1>0, <2>1 DEF Proposal, States, Outcomes, Types
  <2>3. proposal' \in [Proposals -> Proposal]
    BY <1>0, <1>1, <2>2 DEF ProposalSubmit, Types
  <2>4. /\ nextId' \in Nat /\ unfinished' \subseteq Proposals
        /\ nft' \in [Proposals -> Outcomes \cup {"deposit", "unbonding_deposit"}]
    BY <1>0, <1>1, <2>1 DEF ProposalSubmit, NewProposal, Types
  <2>5. stakeAtStart' \in [Proposals -> [Validators -> Nat]]
    BY <1>0, <1>1 DEF ProposalSubmit, Types
  <2> QED BY <1>0, <1>1, <2>3, <2>4, <2>5 DEF ProposalSubmit, Types, ballots, outcomes
<1>2. ASSUME NEW p \in Proposals, NEW v \in Validators, NEW vote \in Choices,
             ValidatorVote(p, v, vote)
      PROVE  Types'
  <2>1. CASE UNCHANGED <<enacted, proposal, unfinished>>
    BY <1>0, <1>2, <2>1, VoteEffect DEF Types
  <2>2. CASE /\ PutProposalState(p, "Finished", "passed")
             /\ enacted' = [enacted EXCEPT ![p] = @ + 1]
    <3>1. proposal' \in [Proposals -> Proposal] /\ unfinished' \subseteq Proposals
      BY <1>0, <2>2, PutState DEF States, Outcomes
    <3>2. enacted' \in [Proposals -> Nat]
      BY <1>0, <2>2 DEF Types
    <3> QED BY <1>0, <1>2, <3>1, <3>2, VoteEffect DEF Types
  <2> QED BY <1>2, <2>1, <2>2, VoteEffect
<1>3. ASSUME NEW p \in Proposals, NEW n \in Notes, NEW vote \in Choices,
             DelegatorVote(p, n, vote)
      PROVE  Types'
  BY <1>0, <1>3 DEF DelegatorVote, MarkVoted, Types, outcomes, stakes
<1>4. ASSUME NEW p \in Proposals, ProposalWithdraw(p) PROVE Types'
  <2>1. proposal' \in [Proposals -> Proposal] /\ unfinished' \subseteq Proposals
    BY <1>0, <1>4, PutState DEF ProposalWithdraw, States, Outcomes
  <2> QED BY <1>0, <1>4, <2>1 DEF ProposalWithdraw, Types, ballots, outcomes, stakes
<1>5. ASSUME NEW p \in Proposals, ProposalDepositClaim(p) PROVE Types'
  <2>1. proposal[p].outcome \in Outcomes
    BY <1>0 DEF Types, Proposal
  <2>2. proposal' \in [Proposals -> Proposal] /\ unfinished' \subseteq Proposals
    BY <1>0, <1>5, <2>1, PutState DEF ProposalDepositClaim, States
  <2> QED BY <1>0, <1>5, <2>1, <2>2 DEF ProposalDepositClaim, Types, ballots, outcomes, stakes
<1>6. ASSUME NEW n \in Notes, NEW v \in Validators, DelegateNote(n, v) PROVE Types'
  <2>1. [validator |-> v, created |-> height, spent |-> NoHeight] \in Note
    BY <1>0 DEF Note, Types
  <2> QED BY <1>0, <1>6, <2>1 DEF DelegateNote, Types, ballots, outcomes, stakes
<1>7. ASSUME NEW n \in Notes, NEW m \in Notes, TransferNote(n, m) PROVE Types'
  <2>0. notes[n] \in Note /\ height \in Nat
    BY <1>0 DEF Types
  <2>1. [validator |-> notes[n].validator, created |-> height, spent |-> NoHeight] \in Note
    BY <2>0 DEF Note
  <2>2. [notes[n] EXCEPT !.spent = height] \in Note
    BY <2>0 DEF Note
  <2>3. notes' \in [Notes -> Note]
    BY <1>0, <1>7, <2>1, <2>2 DEF TransferNote, Types
  <2> QED BY <1>0, <1>7, <2>3 DEF TransferNote, Types, ballots, outcomes, stakes
<1>8. ASSUME NEW active \in SUBSET Validators, EndBlock(active) PROVE Types'
  <2>1. ASSUME NEW p \in Proposals
        PROVE  proposal'[p] \in Proposal /\ enacted'[p] \in Nat
    BY <1>0, <1>8, EndBlockEffect DEF Types
  <2>2. proposal' \in [Proposals -> Proposal] /\ enacted' \in [Proposals -> Nat]
    BY <1>8, <2>1 DEF EndBlock
  <2>3. unfinished' \subseteq Proposals /\ phase' = "begin"
    BY <1>0, <1>8 DEF EndBlock, Types
  <2> QED BY <1>0, <1>8, <2>2, <2>3 DEF EndBlock, Types, stakes
<1>9. ASSUME BeginBlock PROVE Types'
  <2>1. stakeNow' \in [Validators -> Nat]
    BY <1>9, StakeIsNat DEF BeginBlock
  <2> QED BY <1>0, <1>9, <2>1 DEF BeginBlock, Types, ballots
<1> QED BY <1>1, <1>2, <1>3, <1>4, <1>5, <1>6, <1>7, <1>8, <1>9 DEF IInv, Next

-----------------------------------------------------------------------------
(* The life of a proposal, step by step                                     *)

\* Nothing happens to a proposal that a step leaves alone.
LEMMA LifecycleSame ==
    ASSUME NEW p \in Proposals, Lifecycle(p), Types, nextId' \in Nat, nextId' >= nextId,
           proposal'[p] = proposal[p], enacted'[p] = enacted[p], nft'[p] = nft[p]
    PROVE  Lifecycle(p)'
BY ParameterAssumption DEF Lifecycle, Open, Types

\* A step that leaves the proposals, their NFTs and the clock alone.
LEMMA LifeSame ==
    ASSUME IInv, UNCHANGED <<height, nextId, proposal, unfinished, nft, enacted, phase>>
    PROVE  LifeInv'
BY DEF IInv, LifeInv, Lifecycle, Open, Index, Due

\* A step that puts one open or finished proposal in its next state.
LEMMA LifePut ==
    ASSUME IInv, NEW p \in Proposals, NEW s \in States \ {"None", "Voting"},
           NEW o \in Outcomes, PutProposalState(p, s, o), Lifecycle(p)', p < nextId,
           s = "Withdrawn" => Open(p),
           UNCHANGED <<height, nextId, phase>>,
           \A q \in Proposals \ {p} : enacted'[q] = enacted[q] /\ nft'[q] = nft[q]
    PROVE  LifeInv'
<1>1. /\ Types /\ Index /\ Due /\ \A q \in Proposals : Lifecycle(q)
  BY DEF IInv, LifeInv
<1>2. /\ proposal'[p].state = s /\ proposal'[p].end = proposal[p].end
      /\ \A q \in Proposals \ {p} : proposal'[q] = proposal[q]
      /\ unfinished' = IndexAfter(p, s)
  BY <1>1, PutState
<1>3. ASSUME NEW q \in Proposals PROVE Lifecycle(q)'
  <2>1. CASE q = p
    BY <2>1
  <2>2. CASE q # p
    <3>1. nextId' \in Nat /\ nextId' >= nextId
      BY <1>1 DEF Types
    <3> QED BY <1>1, <1>2, <2>2, <3>1, LifecycleSame
  <2> QED BY <2>1, <2>2
<1>4. Index'
  <2>1. ASSUME NEW q \in Proposals PROVE q \in unfinished' <=> Open(q)'
    <3>1. CASE q = p
      BY <1>1, <1>2, <3>1 DEF IndexAfter, Index, Open, States
    <3>2. CASE q # p
      BY <1>1, <1>2, <3>2 DEF IndexAfter, Index, Open
    <3> QED BY <3>1, <3>2
  <2>2. unfinished' \subseteq Proposals
    BY <1>1, PutState
  <2> QED BY <2>1, <2>2 DEF Index
<1>5. Due'
  <2>1. unfinished' \subseteq unfinished
    BY <1>1, <1>2 DEF IndexAfter, Index, Open
  <2>2. ASSUME NEW q \in unfinished' PROVE q \in unfinished /\ proposal'[q].end = proposal[q].end
    BY <1>1, <1>2, <2>1 DEF Types
  <2> QED BY <1>1, <2>2 DEF Due
<1> QED BY <1>3, <1>4, <1>5 DEF LifeInv

\* Every step keeps the life of the proposals in order.
LEMMA LifeStep ==
    ASSUME IInv, Next
    PROVE  LifeInv'
<1>0. /\ Types /\ Index /\ Due /\ \A q \in Proposals : Lifecycle(q)
  BY DEF IInv, LifeInv
<1> USE ParameterAssumption
<1>1. ASSUME NEW payload \in Payloads, ProposalSubmit(payload) PROVE LifeInv'
  <2> DEFINE p == nextId
  <2>0. /\ p \in Proposals /\ phase = "deliver" /\ phase' = phase /\ height' = height
        /\ nextId' = p + 1 /\ p \in Nat /\ height \in Nat
    BY <1>0, <1>1 DEF ProposalSubmit, NewProposal, Types
  <2>1. /\ proposal'[p] = [payload |-> payload, state |-> "Voting", outcome |-> "none",
                           start |-> height, end |-> height + VotingBlocks]
        /\ \A q \in Proposals \ {p} : proposal'[q] = proposal[q] /\ nft'[q] = nft[q]
        /\ nft'[p] = "deposit" /\ enacted' = enacted /\ unfinished' = unfinished \cup {p}
    BY <1>0, <1>1, <2>0 DEF ProposalSubmit, Types, outcomes
  <2>2. /\ proposal'[p].state = "Voting" /\ proposal'[p].outcome = "none"
        /\ proposal'[p].end = height + VotingBlocks
    BY <2>1
  <2>3. proposal[p].state = "None" /\ enacted[p] = 0
    BY <1>0, <2>0 DEF Lifecycle
  <2>4. ASSUME NEW q \in Proposals PROVE Lifecycle(q)'
    <3>1. CASE q = p
      BY <2>0, <2>1, <2>2, <2>3, <3>1 DEF Lifecycle, Open
    <3>2. CASE q # p
      BY <1>0, <2>0, <2>1, <3>2, LifecycleSame
    <3> QED BY <3>1, <3>2
  <2>5. Index'
    <3>1. ASSUME NEW q \in Proposals PROVE q \in unfinished' <=> Open(q)'
      BY <1>0, <2>1, <2>2 DEF Index, Open
    <3> QED BY <1>0, <2>0, <2>1, <3>1 DEF Index, Types
  <2>6. Due'
    <3>1. ASSUME NEW q \in unfinished' PROVE height <= proposal'[q].end
      <4>1. CASE q = p
        BY <2>0, <2>2, <4>1
      <4>2. CASE q # p
        BY <1>0, <2>0, <2>1, <4>2 DEF Due, Types
      <4> QED BY <4>1, <4>2
    <3> QED BY <2>0, <3>1 DEF Due
  <2> QED BY <2>4, <2>5, <2>6 DEF LifeInv
<1>2. ASSUME NEW p \in Proposals, NEW v \in Validators, NEW vote \in Choices,
             ValidatorVote(p, v, vote)
      PROVE  LifeInv'
  <2>1. CASE UNCHANGED <<enacted, proposal, unfinished>>
    BY <1>2, <2>1, VoteEffect, LifeSame
  <2>2. CASE /\ PutProposalState(p, "Finished", "passed")
             /\ enacted' = [enacted EXCEPT ![p] = @ + 1]
    <3>1. /\ proposal[p].state = "Voting" /\ p < nextId /\ enacted[p] = 0
          /\ nft[p] # "unbonding_deposit"
      BY <1>0, <1>2, VoteEffect DEF Votable, Lifecycle, Open, Types
    <3>2. proposal'[p].state = "Finished" /\ proposal'[p].outcome = "passed"
      BY <1>0, <2>2, PutState DEF States, Outcomes
    <3>3. Lifecycle(p)'
      BY <1>0, <1>2, <2>2, <3>1, <3>2, VoteEffect DEF Lifecycle, Open, Types
    <3>4. \A q \in Proposals \ {p} : enacted'[q] = enacted[q] /\ nft'[q] = nft[q]
      BY <1>0, <1>2, <2>2, VoteEffect DEF Types
    <3> QED
      BY <1>2, <2>2, <3>1, <3>3, <3>4, VoteEffect, LifePut DEF States, Outcomes
  <2> QED BY <1>2, <2>1, <2>2, VoteEffect
<1>3. ASSUME NEW p \in Proposals, NEW n \in Notes, NEW vote \in Choices,
             DelegatorVote(p, n, vote)
      PROVE  LifeInv'
  BY <1>3, LifeSame DEF DelegatorVote, outcomes
<1>4. ASSUME NEW p \in Proposals, ProposalWithdraw(p) PROVE LifeInv'
  <2>1. /\ proposal[p].state = "Voting" /\ p < nextId /\ enacted[p] = 0
        /\ enacted' = enacted /\ UNCHANGED <<height, nextId, phase>>
    BY <1>0, <1>4 DEF ProposalWithdraw, Votable, Lifecycle, Open, Types, outcomes
  <2>2. /\ nft'[p] = "unbonding_deposit"
        /\ \A q \in Proposals \ {p} : enacted'[q] = enacted[q] /\ nft'[q] = nft[q]
    BY <1>0, <1>4, <2>1 DEF ProposalWithdraw, Types
  <2>3. PutProposalState(p, "Withdrawn", "none")
    BY <1>4 DEF ProposalWithdraw
  <2>4. proposal'[p].state = "Withdrawn" /\ proposal'[p].outcome = "none"
    BY <1>0, <2>3, PutState DEF States, Outcomes
  <2>5. Lifecycle(p)'
    BY <1>0, <2>1, <2>2, <2>4 DEF Lifecycle, Open, Types
  <2> QED BY <2>1, <2>2, <2>3, <2>5, LifePut DEF States, Outcomes, Open
<1>5. ASSUME NEW p \in Proposals, ProposalDepositClaim(p) PROVE LifeInv'
  <2> DEFINE o == proposal[p].outcome
  <2>0. o \in Outcomes
    BY <1>0 DEF Types, Proposal
  <2>1. /\ proposal[p].state = "Finished" /\ p < nextId
        /\ enacted' = enacted /\ UNCHANGED <<height, nextId, phase>>
    BY <1>0, <1>5 DEF ProposalDepositClaim, Lifecycle, Types, outcomes
  <2>2. /\ nft'[p] = o
        /\ \A q \in Proposals \ {p} : enacted'[q] = enacted[q] /\ nft'[q] = nft[q]
    BY <1>0, <1>5, <2>1 DEF ProposalDepositClaim, Types
  <2>3. PutProposalState(p, "Claimed", o)
    BY <1>5 DEF ProposalDepositClaim
  <2>4. proposal'[p].state = "Claimed" /\ proposal'[p].outcome = o
    BY <1>0, <2>0, <2>3, PutState DEF States
  <2>5. Lifecycle(p)'
    BY <1>0, <2>0, <2>1, <2>2, <2>4 DEF Lifecycle, Open, Types, Outcomes
  <2> QED BY <2>0, <2>1, <2>2, <2>3, <2>5, LifePut DEF States
<1>6. ASSUME NEW n \in Notes, NEW v \in Validators, DelegateNote(n, v) PROVE LifeInv'
  BY <1>6, LifeSame DEF DelegateNote, outcomes
<1>7. ASSUME NEW n \in Notes, NEW m \in Notes, TransferNote(n, m) PROVE LifeInv'
  BY <1>7, LifeSame DEF TransferNote, outcomes
<1>8. ASSUME NEW active \in SUBSET Validators, EndBlock(active) PROVE LifeInv'
  <2>0. UNCHANGED <<height, nextId, nft>> /\ phase' = "begin"
    BY <1>8 DEF EndBlock
  <2>1. ASSUME NEW p \in Proposals PROVE Lifecycle(p)'
    <3>1. CASE Ready(p)
      <4>1. Open(p) /\ enacted[p] = 0 /\ p < nextId
        BY <1>0, <3>1 DEF Ready, Index, Lifecycle, Open, Types
      <4> QED
        BY <1>0, <1>8, <2>0, <3>1, <4>1, EndBlockEffect, ConcludedCases DEF Lifecycle, Open
    <3>2. CASE ~Ready(p)
      <4>1. proposal'[p] = proposal[p] /\ enacted'[p] = enacted[p]
        BY <1>0, <1>8, <3>2, EndBlockEffect
      <4>2. nextId' \in Nat /\ nextId' >= nextId
        BY <1>0, <2>0 DEF Types
      <4> QED BY <1>0, <2>0, <4>1, <4>2, LifecycleSame
    <3> QED BY <3>1, <3>2
  <2>2. Index'
    <3>1. ASSUME NEW p \in Proposals PROVE p \in unfinished' <=> Open(p)'
      BY <1>0, <1>8, EndBlockEffect DEF Index, Open, Ready
    <3> QED BY <3>1, TypesStep DEF Index, Types
  <2>3. Due'
    <3>1. ASSUME NEW p \in unfinished' PROVE height < proposal'[p].end
      <4>1. p \in Proposals
        BY TypesStep DEF Types
      <4>2. p \in unfinished /\ ~Ready(p) /\ proposal'[p] = proposal[p]
        BY <1>0, <1>8, <4>1, EndBlockEffect
      <4>3. height \in Nat /\ proposal[p].end \in Nat
        BY <1>0, <4>1 DEF Types, Proposal
      <4>4. ~(height >= proposal[p].end)
        BY <4>2 DEF Ready
      <4> QED BY <4>2, <4>3, <4>4
    <3> QED BY <2>0, <3>1 DEF Due
  <2> QED BY <2>1, <2>2, <2>3 DEF LifeInv
<1>9. ASSUME BeginBlock PROVE LifeInv'
  <2>1. /\ UNCHANGED <<nextId, proposal, unfinished, nft, enacted>>
        /\ phase = "begin" /\ phase' = "deliver" /\ height' = height + 1
    BY <1>9 DEF BeginBlock
  <2>2. (\A p \in Proposals : Lifecycle(p)') /\ Index'
    BY <1>0, <2>1 DEF Lifecycle, Open, Index
  <2>3. ASSUME NEW p \in unfinished PROVE height + 1 <= proposal[p].end
    BY <1>0, <2>1 DEF Due, Types, Proposal
  <2> QED BY <2>1, <2>2, <2>3 DEF LifeInv, Due
<1> QED BY <1>1, <1>2, <1>3, <1>4, <1>5, <1>6, <1>7, <1>8, <1>9 DEF Next

-----------------------------------------------------------------------------
(* Who may vote, step by step                                               *)

\* New notes and spends of the current block do not change who was live at the
\* start of this block or of an earlier one.
LEMMA LiveAtSame ==
    ASSUME IInv, NEW h \in Nat, h <= height, NEW v,
           \A n \in Notes :
               \/ notes'[n] = notes[n]
               \/ notes[n].created = NoHeight /\ notes'[n].created = height
               \/ /\ notes[n].spent = NoHeight /\ notes'[n].spent = height
                  /\ notes'[n].created = notes[n].created
                  /\ notes'[n].validator = notes[n].validator
    PROVE  LiveAt(h, v)' = LiveAt(h, v)
<1>1. height \in Nat /\ NoHeight \notin Nat
  BY DEF IInv, Types, NoHeight
<1>2. ASSUME NEW n \in Notes
      PROVE  (/\ notes'[n].created # NoHeight /\ notes'[n].created < h
              /\ ~(notes'[n].spent # NoHeight /\ notes'[n].spent < h)
              /\ notes'[n].validator = v)
             <=> n \in LiveAt(h, v)
  BY <1>1 DEF LiveAt
<1> QED BY <1>2 DEF LiveAt

\* A step that changes no note, no clock and no vote, and submits nothing.
LEMMA SnapshotsSame ==
    ASSUME IInv, UNCHANGED <<height, notes, voted, stakeNow, stakeAtStart>>,
           \A p \in Proposals : /\ proposal'[p].state = "None" <=> proposal[p].state = "None"
                                /\ proposal'[p].start = proposal[p].start
    PROVE  Snapshots'
<1>1. Snapshots
  BY DEF IInv
<1>2. ASSUME NEW h, NEW v PROVE LiveAt(h, v)' = LiveAt(h, v)
  BY DEF LiveAt
<1>3. \A n \in Notes : /\ notes'[n].created <= height' /\ notes'[n].spent <= height'
                       /\ notes'[n].created = NoHeight => notes'[n].spent = NoHeight
  BY <1>1 DEF Snapshots
<1>4. ASSUME NEW v \in Validators PROVE stakeNow'[v] = Cardinality(LiveAt(height, v)')
  BY <1>1 DEF Snapshots, LiveAt
<1>5. ASSUME NEW p \in Proposals, proposal'[p].state # "None"
      PROVE  /\ proposal'[p].start <= height'
             /\ \A n \in voted'[p] : Eligible(p, n)'
             /\ \A v \in Validators :
                  stakeAtStart'[p][v] = Cardinality(LiveAt(proposal[p].start, v)')
  BY <1>1, <1>5 DEF Snapshots, LiveAt, Eligible
<1>6. \A p \in Proposals : proposal'[p].state = "None" => voted'[p] = {}
  BY <1>1 DEF Snapshots
<1> QED BY <1>3, <1>4, <1>5, <1>6 DEF Snapshots

\* A step that only makes and spends notes.
LEMMA SnapshotsNotes ==
    ASSUME IInv, UNCHANGED <<height, voted, stakeNow, stakeAtStart, proposal>>,
           \A n \in Notes :
               \/ notes'[n] = notes[n]
               \/ /\ notes[n].created = NoHeight /\ notes'[n].created = height
                  /\ notes'[n].spent = NoHeight
               \/ /\ notes[n].spent = NoHeight /\ notes'[n].spent = height
                  /\ notes[n].created # NoHeight
                  /\ notes'[n].created = notes[n].created
                  /\ notes'[n].validator = notes[n].validator
    PROVE  Snapshots'
<1>1. /\ Snapshots /\ height \in Nat /\ NoHeight \notin Nat /\ NoHeight <= height
      /\ \A p \in Proposals : proposal[p].start \in Nat
  BY DEF IInv, Types, Proposal, NoHeight
<1>2. ASSUME NEW h \in Nat, h <= height, NEW v PROVE LiveAt(h, v)' = LiveAt(h, v)
  BY <1>2, LiveAtSame
<1>3. ASSUME NEW n \in Notes
      PROVE  /\ notes'[n].created <= height' /\ notes'[n].spent <= height'
             /\ notes'[n].created = NoHeight => notes'[n].spent = NoHeight
  BY <1>1 DEF Snapshots
<1>4. ASSUME NEW v \in Validators PROVE stakeNow'[v] = Cardinality(LiveAt(height, v)')
  <2>1. PICK h \in Nat : h = height
    BY <1>1
  <2>2. LiveAt(height, v)' = LiveAt(h, v)' /\ LiveAt(height, v) = LiveAt(h, v)
    BY <2>1 DEF LiveAt
  <2>3. stakeNow[v] = Cardinality(LiveAt(height, v))
    BY <1>1 DEF Snapshots
  <2> QED BY <1>1, <1>2, <2>1, <2>2, <2>3
<1>5. ASSUME NEW p \in Proposals, proposal[p].state # "None"
      PROVE  /\ proposal'[p].start <= height'
             /\ \A n \in voted'[p] : Eligible(p, n)'
             /\ \A v \in Validators :
                  stakeAtStart'[p][v] = Cardinality(LiveAt(proposal[p].start, v)')
  <2>1. PICK h \in Nat : h = proposal[p].start
    BY <1>1
  <2>2. h <= height /\ (\A n \in voted[p] : Eligible(p, n)) /\ voted[p] \subseteq Notes
    BY <1>1, <1>5, <2>1 DEF Snapshots, IInv, Types
  <2>3. ASSUME NEW v \in Validators
        PROVE  stakeAtStart'[p][v] = Cardinality(LiveAt(proposal[p].start, v)')
    <3>1. LiveAt(proposal[p].start, v)' = LiveAt(h, v)'
      BY <2>1 DEF LiveAt
    <3>2. stakeAtStart[p][v] = Cardinality(LiveAt(h, v))
      BY <1>1, <1>5, <2>1 DEF Snapshots
    <3> QED BY <1>2, <2>2, <3>1, <3>2
  <2>4. ASSUME NEW n \in voted[p] PROVE Eligible(p, n)'
    BY <1>1, <2>1, <2>2 DEF Eligible
  <2> QED BY <1>1, <2>1, <2>2, <2>3, <2>4
<1>6. \A p \in Proposals : proposal'[p].state = "None" => voted'[p] = {}
  BY <1>1 DEF Snapshots
<1> QED BY <1>3, <1>4, <1>5, <1>6 DEF Snapshots

\* Every step keeps the snapshots: submitting a proposal takes one, and a block
\* begins with the stake of the notes that are live.
LEMMA SnapshotsStep ==
    ASSUME IInv, Next
    PROVE  Snapshots'
<1>0. /\ Types /\ Snapshots /\ Index /\ \A q \in Proposals : Lifecycle(q)
  BY DEF IInv, LifeInv
<1> USE ParameterAssumption
<1>1. ASSUME NEW payload \in Payloads, ProposalSubmit(payload) PROVE Snapshots'
  <2>a. PICK p : p = nextId
    OBVIOUS
  <2>0. /\ p \in Proposals /\ UNCHANGED <<height, notes, voted, stakeNow>> /\ height \in Nat
    BY <1>0, <1>1, <2>a DEF ProposalSubmit, Types, ballots
  <2>1. /\ proposal'[p] = [payload |-> payload, state |-> "Voting", outcome |-> "none",
                           start |-> height, end |-> height + VotingBlocks]
        /\ stakeAtStart'[p] = stakeNow
        /\ \A q \in Proposals \ {p} : /\ proposal'[q] = proposal[q]
                                      /\ stakeAtStart'[q] = stakeAtStart[q]
    BY <1>0, <1>1, <2>a, <2>0 DEF ProposalSubmit, Types
  <2>2. proposal'[p].state = "Voting" /\ proposal'[p].start = height
    BY <2>1
  <2>3. voted[p] = {}
    BY <1>0, <2>a, <2>0 DEF Lifecycle, Snapshots, Types
  <2>4. ASSUME NEW h, NEW v PROVE LiveAt(h, v)' = LiveAt(h, v)
    BY <2>0 DEF LiveAt
  <2>5. ASSUME NEW q \in Proposals, proposal'[q].state # "None"
        PROVE  /\ proposal'[q].start <= height'
               /\ \A n \in voted'[q] : Eligible(q, n)'
               /\ \A v \in Validators :
                    stakeAtStart'[q][v] = Cardinality(LiveAt(proposal[q].start, v)')
    <3>1. CASE q = p
      <4>1. ASSUME NEW v \in Validators
            PROVE  stakeAtStart'[p][v] = Cardinality(LiveAt(proposal[p].start, v)')
        <5>1. LiveAt(proposal[p].start, v)' = LiveAt(height, v)
          BY <2>0, <2>2 DEF LiveAt
        <5>2. stakeNow[v] = Cardinality(LiveAt(height, v))
          BY <1>0 DEF Snapshots
        <5> QED BY <2>1, <5>1, <5>2
      <4> QED BY <2>0, <2>2, <2>3, <3>1, <4>1
    <3>2. CASE q # p
      BY <1>0, <2>0, <2>1, <2>5, <3>2 DEF Snapshots, LiveAt, Eligible
    <3> QED BY <3>1, <3>2
  <2>6. ASSUME NEW v \in Validators PROVE stakeNow'[v] = Cardinality(LiveAt(height, v)')
    BY <1>0, <2>0 DEF Snapshots, LiveAt
  <2>7. \A q \in Proposals : proposal'[q].state = "None" => voted'[q] = {}
    BY <1>0, <2>0, <2>1, <2>2 DEF Snapshots
  <2> QED BY <1>0, <2>0, <2>5, <2>6, <2>7 DEF Snapshots
<1>2. ASSUME NEW p \in Proposals, NEW v \in Validators, NEW vote \in Choices,
             ValidatorVote(p, v, vote)
      PROVE  Snapshots'
  <2>1. CASE UNCHANGED <<enacted, proposal, unfinished>>
    BY <1>2, <2>1, VoteEffect, SnapshotsSame
  <2>2. CASE PutProposalState(p, "Finished", "passed")
    <3>1. /\ proposal'[p].state = "Finished" /\ proposal'[p].start = proposal[p].start
          /\ \A q \in Proposals \ {p} : proposal'[q] = proposal[q]
      BY <1>0, <2>2, PutState DEF States, Outcomes
    <3>2. proposal[p].state = "Voting"
      BY <1>2, VoteEffect DEF Votable
    <3> QED BY <1>2, <3>1, <3>2, VoteEffect, SnapshotsSame
  <2> QED BY <1>2, <2>1, <2>2, VoteEffect
<1>3. ASSUME NEW p \in Proposals, NEW n \in Notes, NEW vote \in Choices,
             DelegatorVote(p, n, vote)
      PROVE  Snapshots'
  <2>0. /\ UNCHANGED <<height, notes, proposal, stakeNow, stakeAtStart>>
        /\ proposal[p].state = "Voting" /\ Eligible(p, n)
        /\ voted'[p] = voted[p] \cup {n}
        /\ \A q \in Proposals \ {p} : voted'[q] = voted[q]
    BY <1>0, <1>3 DEF DelegatorVote, MarkVoted, Votable, Types, stakes
  <2>1. ASSUME NEW q \in Proposals, proposal[q].state # "None", NEW m \in voted'[q]
        PROVE  Eligible(q, m)'
    BY <1>0, <2>0, <2>1 DEF Snapshots, Eligible
  <2>2. ASSUME NEW q \in Proposals, proposal[q].state # "None"
        PROVE  /\ proposal'[q].start <= height'
               /\ \A v \in Validators :
                    stakeAtStart'[q][v] = Cardinality(LiveAt(proposal[q].start, v)')
    BY <1>0, <2>0, <2>2 DEF Snapshots, LiveAt
  <2>3. ASSUME NEW v \in Validators PROVE stakeNow'[v] = Cardinality(LiveAt(height, v)')
    BY <1>0, <2>0 DEF Snapshots, LiveAt
  <2>4. \A q \in Proposals : proposal'[q].state = "None" => voted'[q] = {}
    BY <1>0, <2>0 DEF Snapshots
  <2> QED BY <1>0, <2>0, <2>1, <2>2, <2>3, <2>4 DEF Snapshots
<1>4. ASSUME NEW p \in Proposals, ProposalWithdraw(p) PROVE Snapshots'
  <2>1. /\ proposal'[p].state = "Withdrawn" /\ proposal'[p].start = proposal[p].start
        /\ \A q \in Proposals \ {p} : proposal'[q] = proposal[q]
        /\ proposal[p].state = "Voting"
    BY <1>0, <1>4, PutState DEF ProposalWithdraw, Votable, States, Outcomes
  <2> QED BY <1>4, <2>1, SnapshotsSame DEF ProposalWithdraw, ballots, stakes
<1>5. ASSUME NEW p \in Proposals, ProposalDepositClaim(p) PROVE Snapshots'
  <2>0. proposal[p].outcome \in Outcomes
    BY <1>0 DEF Types, Proposal
  <2>1. /\ proposal'[p].state = "Claimed" /\ proposal'[p].start = proposal[p].start
        /\ \A q \in Proposals \ {p} : proposal'[q] = proposal[q]
        /\ proposal[p].state = "Finished"
    BY <1>0, <1>5, <2>0, PutState DEF ProposalDepositClaim, States
  <2> QED BY <1>5, <2>1, SnapshotsSame DEF ProposalDepositClaim, ballots, stakes
<1>6. ASSUME NEW n \in Notes, NEW v \in Validators, DelegateNote(n, v) PROVE Snapshots'
  <2>1. /\ notes[n].created = NoHeight
        /\ notes'[n] = [validator |-> v, created |-> height, spent |-> NoHeight]
        /\ \A m \in Notes \ {n} : notes'[m] = notes[m]
        /\ UNCHANGED <<height, voted, stakeNow, stakeAtStart, proposal>>
    BY <1>0, <1>6 DEF DelegateNote, Types, ballots, stakes
  <2>2. notes'[n].created = height /\ notes'[n].spent = NoHeight
    BY <2>1
  <2> QED BY <2>1, <2>2, SnapshotsNotes
<1>7. ASSUME NEW n \in Notes, NEW m \in Notes, TransferNote(n, m) PROVE Snapshots'
  <2>0. /\ Live(n) /\ notes[m].created = NoHeight /\ n # m /\ notes[n] \in Note
        /\ UNCHANGED <<height, voted, stakeNow, stakeAtStart, proposal>>
    BY <1>0, <1>7 DEF TransferNote, Live, Types, ballots, stakes
  <2>1. /\ notes'[n] = [notes[n] EXCEPT !.spent = height]
        /\ notes'[m] = [validator |-> notes[n].validator, created |-> height,
                        spent |-> NoHeight]
        /\ \A k \in Notes \ {n, m} : notes'[k] = notes[k]
    BY <1>0, <1>7, <2>0 DEF TransferNote, Types
  <2>2. /\ notes'[m].created = height /\ notes'[m].spent = NoHeight
        /\ notes'[n].spent = height /\ notes'[n].created = notes[n].created
        /\ notes'[n].validator = notes[n].validator
    BY <2>0, <2>1 DEF Note
  <2>3. notes[n].spent = NoHeight /\ notes[n].created # NoHeight
    BY <2>0 DEF Live
  <2> QED BY <2>0, <2>1, <2>2, <2>3, SnapshotsNotes
<1>8. ASSUME NEW active \in SUBSET Validators, EndBlock(active) PROVE Snapshots'
  <2>1. ASSUME NEW p \in Proposals
        PROVE  /\ proposal'[p].state = "None" <=> proposal[p].state = "None"
               /\ proposal'[p].start = proposal[p].start
    <3>1. CASE Ready(p)
      BY <1>0, <1>8, <3>1, EndBlockEffect DEF Ready, Index, Open
    <3>2. CASE ~Ready(p)
      BY <1>0, <1>8, <3>2, EndBlockEffect
    <3> QED BY <3>1, <3>2
  <2> QED BY <1>8, <2>1, SnapshotsSame DEF EndBlock, stakes
<1>9. ASSUME BeginBlock PROVE Snapshots'
  <2>0. /\ UNCHANGED <<notes, proposal, voted, stakeAtStart>> /\ height' = height + 1
        /\ stakeNow' = [v \in Validators |-> LiveStake(v)]
        /\ height \in Nat /\ NoHeight \notin Nat
        /\ \A n \in Notes : notes[n] \in Note
    BY <1>0, <1>9 DEF BeginBlock, ballots, Types, NoHeight
  <2>1. ASSUME NEW v \in Validators PROVE stakeNow'[v] = Cardinality(LiveAt(height, v)')
    <3>1. ASSUME NEW n \in Notes
          PROVE  Live(n) <=> /\ notes[n].created # NoHeight /\ notes[n].created < height + 1
                             /\ ~(notes[n].spent # NoHeight /\ notes[n].spent < height + 1)
      <4>1. notes[n].created <= height /\ notes[n].spent <= height
        BY <1>0 DEF Snapshots
      <4>2. notes[n].created \in Int /\ notes[n].spent \in Int
        BY <2>0 DEF Note, NoHeight
      <4> QED BY <2>0, <4>1, <4>2 DEF Live
    <3>2. LiveAt(height, v)' = {n \in Notes : Live(n) /\ notes[n].validator = v}
      BY <2>0, <3>1 DEF LiveAt
    <3> QED BY <2>0, <3>2 DEF LiveStake
  <2>2. ASSUME NEW q \in Proposals, proposal[q].state # "None"
        PROVE  /\ proposal'[q].start <= height'
               /\ \A n \in voted'[q] : Eligible(q, n)'
               /\ \A v \in Validators :
                    stakeAtStart'[q][v] = Cardinality(LiveAt(proposal[q].start, v)')
    <3>1. proposal[q].start \in Nat
      BY <1>0 DEF Types, Proposal
    <3>2. proposal[q].start <= height
      BY <1>0, <2>2 DEF Snapshots
    <3>3. proposal'[q].start <= height'
      BY <2>0, <3>1, <3>2
    <3>4. \A n \in voted'[q] : Eligible(q, n)'
      BY <1>0, <2>0, <2>2 DEF Snapshots, Eligible
    <3>5. ASSUME NEW v \in Validators
          PROVE  stakeAtStart'[q][v] = Cardinality(LiveAt(proposal[q].start, v)')
      <4>1. LiveAt(proposal[q].start, v)' = LiveAt(proposal[q].start, v)
        BY <2>0 DEF LiveAt
      <4>2. stakeAtStart[q][v] = Cardinality(LiveAt(proposal[q].start, v))
        BY <1>0, <2>2 DEF Snapshots
      <4> QED BY <2>0, <4>1, <4>2
    <3> QED BY <3>3, <3>4, <3>5
  <2>3. \A n \in Notes : /\ notes'[n].created <= height' /\ notes'[n].spent <= height'
                         /\ notes'[n].created = NoHeight => notes'[n].spent = NoHeight
    <3>1. ASSUME NEW n \in Notes PROVE notes[n].created \in Int /\ notes[n].spent \in Int
      BY <2>0 DEF Note, NoHeight
    <3> QED BY <1>0, <2>0, <3>1 DEF Snapshots
  <2>4. \A q \in Proposals : proposal'[q].state = "None" => voted'[q] = {}
    BY <1>0, <2>0 DEF Snapshots
  <2> QED BY <2>0, <2>1, <2>2, <2>3, <2>4 DEF Snapshots
<1> QED BY <1>1, <1>2, <1>3, <1>4, <1>5, <1>6, <1>7, <1>8, <1>9 DEF Next

-----------------------------------------------------------------------------
(* What proposals schedule, step by step                                    *)

\* A non-empty set of natural numbers has a least element.
LEMMA LeastNat ==
    ASSUME NEW T, T \subseteq Nat, T # {}
    PROVE  \E x \in T : \A y \in T : x <= y
<1> DEFINE R == OpToRel(<, Nat)
<1>1. PICK x \in T : \A y \in T : ~(<<y, x>> \in R)
  BY NatLessThanWellFounded, WFMin, Zenon
<1>2. ASSUME NEW y \in T PROVE x <= y
  <2>1. x \in Nat /\ y \in Nat /\ ~(<<y, x>> \in R)
    BY <1>1
  <2>2. <<y, x>> \in R <=> y < x
    BY <2>1 DEF OpToRel
  <2> HIDE DEF R
  <2> QED BY <2>1, <2>2
<1> QED BY <1>2

\* A bounded non-empty set of ids has a last one.
LEMMA LastOfIn ==
    ASSUME NEW S, S \subseteq Nat, S # {}, NEW k \in Nat, \A p \in S : p < k
    PROVE  LastOf(S) \in S /\ \A p \in S : p <= LastOf(S)
<1> DEFINE T == {k - p : p \in S}
<1>1. T \subseteq Nat /\ T # {}
  <2>1. PICK p \in S : TRUE
    OBVIOUS
  <2>2. k - p \in T
    OBVIOUS
  <2>3. ASSUME NEW q \in S PROVE k - q \in Nat
    OBVIOUS
  <2> QED BY <2>2, <2>3
<1>2. PICK x \in T : \A y \in T : x <= y
  BY <1>1, LeastNat
<1>3. PICK l \in S : x = k - l
  OBVIOUS
<1>4. ASSUME NEW p \in S PROVE p <= l
  <2>1. k - p \in T /\ p \in Nat /\ l \in Nat
    OBVIOUS
  <2>2. k - l <= k - p
    BY <1>2, <1>3, <2>1
  <2> HIDE DEF T
  <2> QED BY <2>1, <2>2
<1> QED BY <1>4 DEF LastOf

\* A step that leaves effects and clock alone and makes no change or spend pass.
LEMMA ScheduledSame ==
    ASSUME IInv, delivered' = delivered, height' = height, phase' = phase,
           effects'.spends = effects.spends, effects'.change = effects.change,
           \A p \in Proposals, payload \in {"change", "spend"} :
               /\ Passed(p, payload) <=> Passed(p, payload)'
               /\ Passed(p, payload) => proposal'[p].end = proposal[p].end
    PROVE  Scheduled'
<1>1. Scheduled
  BY DEF IInv
<1>2. ASSUME NEW p \in Proposals, Passed(p, "spend")'
      PROVE  p \in delivered' \/ (p \in effects'.spends /\ proposal'[p].end = height')
  <2>1. Passed(p, "spend") /\ proposal'[p].end = proposal[p].end
    BY <1>2
  <2> QED BY <1>1, <2>1 DEF Scheduled
<1>3. ASSUME NEW p \in Proposals, Passed(p, "change")'
      PROVE  \/ p \in delivered'
             \/ p = effects'.change /\ proposal'[p].end = height'
             \/ \E q \in Proposals \ {p} :
                  Passed(q, "change")' /\ proposal'[q].end = proposal'[p].end
  <2>1. Passed(p, "change") /\ proposal'[p].end = proposal[p].end
    BY <1>3
  <2>2. CASE p \in delivered \/ (p = effects.change /\ proposal[p].end = height)
    BY <2>1, <2>2
  <2>3. CASE \E q \in Proposals \ {p} :
               Passed(q, "change") /\ proposal[q].end = proposal[p].end
    BY <2>1, <2>3
  <2> QED BY <1>1, <2>1, <2>2, <2>3 DEF Scheduled
<1> QED BY <1>1, <1>2, <1>3 DEF Scheduled

\* Proposals that pass together are all scheduled, but for the changes among
\* them, of which one is.
LEMMA ScheduledEndBlock ==
    ASSUME IInv, NEW active \in SUBSET Validators, EndBlock(active)
    PROVE  Scheduled'
<1>0. /\ Types /\ Index /\ Due /\ Scheduled /\ \A q \in Proposals : Lifecycle(q)
  BY DEF IInv, LifeInv
<1> DEFINE of(payload) == {p \in Passing : proposal[p].payload = payload}
<1>1. /\ phase = "deliver" /\ phase' = "begin" /\ UNCHANGED <<height, delivered>>
      /\ effects.spends = {} /\ effects.change = NoProposal
  BY <1>0 DEF EndBlock, Scheduled
<1>2. /\ effects'.spends = of("spend")
      /\ effects'.change = IF of("change") = {} THEN NoProposal ELSE LastOf(of("change"))
  BY <1>1 DEF EndBlock, EnactAll, EnactProposal
<1>3. ASSUME NEW p \in Proposals, NEW payload
      PROVE  /\ Passed(p, payload)' <=> Passed(p, payload) \/ p \in of(payload)
             /\ proposal'[p].end = proposal[p].end
  <2>1. CASE Ready(p)
    <3>1. ~Passed(p, payload)
      BY <1>0, <2>1 DEF Ready, Index, Lifecycle, Open, Passed
    <3> QED BY <1>0, <2>1, <3>1, EndBlockEffect DEF Passed, Passing
  <2>2. CASE ~Ready(p)
    BY <1>0, <2>2, EndBlockEffect DEF Passed, Passing
  <2> QED BY <2>1, <2>2
<1>4. ASSUME NEW p \in Passing
      PROVE  p \in Proposals /\ p \in Nat /\ p < nextId /\ proposal[p].end = height
  <2>1. p \in Proposals /\ p \in unfinished /\ height >= proposal[p].end
    BY DEF Passing, Ready
  <2>2. Open(p) /\ height <= proposal[p].end /\ proposal[p].end \in Nat /\ height \in Nat
    BY <1>0, <1>1, <2>1 DEF Index, Due, Types, Proposal
  <2>3. p \in Nat /\ nextId \in Nat /\ ~(p >= nextId)
    BY <1>0, <2>1, <2>2, ParameterAssumption DEF Lifecycle, Open, Types
  <2> QED BY <2>1, <2>2, <2>3
<1>5. ASSUME NEW p \in Proposals, Passed(p, "spend")'
      PROVE  p \in delivered' \/ (p \in effects'.spends /\ proposal'[p].end = height')
  BY <1>0, <1>1, <1>2, <1>3, <1>4, <1>5 DEF Scheduled
<1>6. ASSUME NEW p \in Proposals, Passed(p, "change")'
      PROVE  \/ p \in delivered'
             \/ p = effects'.change /\ proposal'[p].end = height'
             \/ \E q \in Proposals \ {p} :
                  Passed(q, "change")' /\ proposal'[q].end = proposal'[p].end
  <2>1. CASE p \in of("change")
    <3> DEFINE S == of("change")
    <3>a. PICK l : l = LastOf(S)
      OBVIOUS
    <3>1. S \subseteq Nat /\ S # {} /\ nextId \in Nat /\ \A q \in S : q < nextId
      BY <1>0, <1>4, <2>1 DEF Types
    <3> HIDE DEF S
    <3>2. l \in S
      BY <3>a, <3>1, LastOfIn
    <3>3. /\ l \in Proposals /\ Passed(l, "change")' /\ proposal'[l].end = height
          /\ proposal'[p].end = height
      BY <1>3, <1>4, <2>1, <3>2 DEF S
    <3>4. effects'.change = l
      BY <1>2, <2>1, <3>a DEF S
    <3> QED BY <1>1, <3>3, <3>4
  <2>2. CASE Passed(p, "change")
    <3>1. p # effects.change
      BY <1>1, ParameterAssumption DEF NoProposal
    <3>2. CASE p \in delivered
      BY <1>1, <3>2
    <3>3. CASE \E q \in Proposals \ {p} :
                 Passed(q, "change") /\ proposal[q].end = proposal[p].end
      BY <1>3, <3>3
    <3> QED BY <1>0, <2>2, <3>1, <3>2, <3>3 DEF Scheduled
  <2> QED BY <1>3, <1>6, <2>1, <2>2
<1>7. effects'.spends \subseteq Proposals
  BY <1>2, <1>4
<1> QED BY <1>1, <1>5, <1>6, <1>7 DEF Scheduled

\* Every step keeps the schedule: a block begins by trying what is scheduled.
LEMMA ScheduledStep ==
    ASSUME IInv, Next
    PROVE  Scheduled'
<1>0. /\ Types /\ Index /\ Scheduled /\ \A q \in Proposals : Lifecycle(q)
  BY DEF IInv, LifeInv
<1> USE ParameterAssumption
<1>1. ASSUME NEW payload \in Payloads, ProposalSubmit(payload) PROVE Scheduled'
  <2>1. PICK p : p = nextId
    OBVIOUS
  <2>2. /\ p \in Proposals /\ UNCHANGED <<effects, delivered, height, phase>>
        /\ proposal'[p] = [payload |-> payload, state |-> "Voting", outcome |-> "none",
                           start |-> height, end |-> height + VotingBlocks]
        /\ \A q \in Proposals \ {p} : proposal'[q] = proposal[q]
    BY <1>0, <1>1, <2>1 DEF ProposalSubmit, Types, outcomes
  <2>3. proposal'[p].outcome = "none" /\ proposal[p].outcome = "none"
    BY <1>0, <2>1, <2>2 DEF Lifecycle, Types
  <2> QED BY <2>2, <2>3, ScheduledSame DEF Passed
<1>2. ASSUME NEW p \in Proposals, NEW v \in Validators, NEW vote \in Choices,
             ValidatorVote(p, v, vote)
      PROVE  Scheduled'
  <2>0. UNCHANGED <<delivered, height, phase>>
    BY <1>2 DEF ValidatorVote
  <2>1. CASE UNCHANGED <<effects, proposal>>
    BY <2>0, <2>1, ScheduledSame DEF Passed
  <2>2. CASE /\ IsEmergency(proposal[p].payload)
             /\ effects' = EnactProposal(effects, {p})
             /\ PutProposalState(p, "Finished", "passed")
    <3>1. /\ proposal'[p].payload = proposal[p].payload
          /\ \A q \in Proposals \ {p} : proposal'[q] = proposal[q]
      BY <1>0, <2>2, PutState DEF States, Outcomes
    <3>2. proposal[p].payload \notin {"change", "spend"}
      BY <2>2 DEF IsEmergency
    <3>3. effects'.spends = effects.spends /\ effects'.change = effects.change
      BY <2>2, <3>2 DEF EnactProposal
    <3> QED BY <2>0, <3>1, <3>2, <3>3, ScheduledSame DEF Passed
  <2> QED BY <1>2, <2>1, <2>2 DEF ValidatorVote
<1>3. ASSUME NEW p \in Proposals, NEW n \in Notes, NEW vote \in Choices,
             DelegatorVote(p, n, vote)
      PROVE  Scheduled'
  BY <1>3, ScheduledSame DEF DelegatorVote, outcomes, Passed
<1>4. ASSUME NEW p \in Proposals, ProposalWithdraw(p) PROVE Scheduled'
  <2>1. /\ proposal'[p].outcome = "none" /\ proposal[p].outcome = "none"
        /\ \A q \in Proposals \ {p} : proposal'[q] = proposal[q]
    BY <1>0, <1>4, PutState DEF ProposalWithdraw, Votable, Lifecycle, Open, States, Outcomes
  <2> QED BY <1>4, <2>1, ScheduledSame DEF ProposalWithdraw, outcomes, Passed
<1>5. ASSUME NEW p \in Proposals, ProposalDepositClaim(p) PROVE Scheduled'
  <2>0. proposal[p].outcome \in Outcomes
    BY <1>0 DEF Types, Proposal
  <2>1. /\ proposal'[p].outcome = proposal[p].outcome
        /\ proposal'[p].payload = proposal[p].payload
        /\ proposal'[p].end = proposal[p].end
        /\ \A q \in Proposals \ {p} : proposal'[q] = proposal[q]
    BY <1>0, <1>5, <2>0, PutState DEF ProposalDepositClaim, States
  <2> QED BY <1>5, <2>1, ScheduledSame DEF ProposalDepositClaim, outcomes, Passed
<1>6. ASSUME NEW n \in Notes, NEW v \in Validators, DelegateNote(n, v) PROVE Scheduled'
  BY <1>6, ScheduledSame DEF DelegateNote, outcomes, Passed
<1>7. ASSUME NEW n \in Notes, NEW m \in Notes, TransferNote(n, m) PROVE Scheduled'
  BY <1>7, ScheduledSame DEF TransferNote, outcomes, Passed
<1>8. ASSUME BeginBlock PROVE Scheduled'
  <2>1. /\ delivered' = delivered \cup effects.spends \cup ({effects.change} \ {NoProposal})
        /\ effects' = [effects EXCEPT !.spends = {}, !.change = NoProposal]
        /\ proposal' = proposal
    BY <1>8 DEF BeginBlock
  <2>2. \A p \in Proposals : Passed(p, "spend") => p \in delivered'
    BY <1>0, <2>1 DEF Scheduled
  <2>3. \A p \in Proposals : Passed(p, "change") =>
          \/ p \in delivered'
          \/ \E q \in Proposals \ {p} :
               Passed(q, "change") /\ proposal[q].end = proposal[p].end
    BY <1>0, <2>1 DEF Scheduled, NoProposal
  <2>4. effects'.spends = {} /\ effects'.change = NoProposal
    BY <2>1, <1>0 DEF Types
  <2> QED BY <2>1, <2>2, <2>3, <2>4 DEF Scheduled, Passed
<1> QED
  BY <1>1, <1>2, <1>3, <1>4, <1>5, <1>6, <1>7, <1>8, ScheduledEndBlock DEF Next

-----------------------------------------------------------------------------
(* Theorems                                                                 *)

\* The inductive invariant holds initially.
LEMMA InitIInv == Init => IInv
<1> SUFFICES ASSUME Init PROVE IInv
  OBVIOUS
<1> USE ParameterAssumption
<1>1. ASSUME NEW n \in Notes
      PROVE  /\ notes[n] \in Note /\ notes[n].spent = NoHeight
             /\ n \in DOMAIN GenesisNotes =>
                  notes[n].created = 0 /\ notes[n].validator = GenesisNotes[n]
             /\ n \notin DOMAIN GenesisNotes => notes[n].created = NoHeight
  BY DEF Init, Note, Fresh
<1>2. ASSUME NEW p \in Proposals
      PROVE  /\ proposal[p] \in Proposal /\ proposal[p].state = "None"
             /\ proposal[p].outcome = "none" /\ nft[p] = "none" /\ enacted[p] = 0
             /\ voted[p] = {}
  BY DEF Init, Absent, Proposal, States, Outcomes
<1>3. ASSUME NEW v \in Validators
      PROVE  stakeNow[v] = Cardinality(LiveAt(height, v)) /\ stakeNow[v] \in Nat
  <2>1. LiveAt(height, v) = {n \in DOMAIN GenesisNotes : GenesisNotes[n] = v}
    <3>1. height = 1 /\ DOMAIN GenesisNotes \subseteq Notes
      BY DEF Init
    <3>2. ASSUME NEW n \in Notes
          PROVE  n \in LiveAt(height, v) <=> n \in DOMAIN GenesisNotes /\ GenesisNotes[n] = v
      BY <1>1, <3>1 DEF LiveAt, NoHeight
    <3> QED BY <3>1, <3>2 DEF LiveAt
  <2> QED BY <2>1, StakeIsNat DEF Init
<1>4. Types
  <2>1. notes \in [Notes -> Note]
    BY <1>1 DEF Init
  <2>2. proposal \in [Proposals -> Proposal]
    BY <1>2 DEF Init
  <2>3. stakeNow \in [Validators -> Nat]
    BY <1>3 DEF Init
  <2> QED BY <2>1, <2>2, <2>3 DEF Init, Types, Outcomes
<1>5. LifeInv
  <2>1. \A p \in Proposals : Lifecycle(p)
    BY <1>2 DEF Lifecycle
  <2>2. Index /\ Due
    BY <1>2 DEF Init, Index, Due, Open
  <2> QED BY <2>1, <2>2 DEF LifeInv
<1>6. Snapshots
  <2>1. ASSUME NEW n \in Notes
        PROVE  /\ notes[n].created <= height /\ notes[n].spent <= height
               /\ notes[n].created = NoHeight => notes[n].spent = NoHeight
    <3>1. height = 1 /\ notes[n].created \in {0, NoHeight} /\ notes[n].spent = NoHeight
      BY <1>1 DEF Init
    <3> QED BY <3>1 DEF NoHeight
  <2> QED BY <1>2, <1>3, <2>1 DEF Snapshots
<1>7. Scheduled
  BY <1>2 DEF Init, Scheduled, Passed
<1> QED BY <1>4, <1>5, <1>6, <1>7 DEF IInv

\* The inductive invariant holds in every reachable state.
THEOREM Invariant == Spec => []IInv
<1>1. IInv /\ [Next]_vars => IInv'
  <2>1. ASSUME IInv, Next PROVE IInv'
    BY <2>1, TypesStep, LifeStep, SnapshotsStep, ScheduledStep DEF IInv
  <2>2. ASSUME IInv, UNCHANGED vars PROVE IInv'
    <3>1. Types'
      BY <2>2 DEF IInv, Types, vars, ballots
    <3>2. LifeInv'
      BY <2>2, LifeSame DEF vars
    <3>3. Snapshots'
      BY <2>2, SnapshotsSame DEF vars, ballots
    <3>4. Scheduled'
      BY <2>2, ScheduledSame DEF vars, Passed
    <3> QED BY <3>1, <3>2, <3>3, <3>4 DEF IInv
  <2> QED BY <2>1, <2>2
<1> QED BY <1>1, InitIInv, PTL DEF Spec

\* A proposal is enacted exactly once if it passes, whether by an emergency
\* vote or at the end of its voting period, and never once withdrawn.
THEOREM EnactedOnce == Spec => []EnactedIffPassed
<1>1. IInv => EnactedIffPassed
  BY DEF IInv, LifeInv, Lifecycle, Open, EnactedIffPassed
<1> QED BY <1>1, Invariant, PTL

\* The index of unfinished proposals is exact, so that the end of a block never
\* meets a finished one, and no proposal outlives its voting period.
THEOREM ConcludesOnTime == Spec => []ConcludedOnTime
<1>1. IInv => ConcludedOnTime
  <2> SUFFICES ASSUME IInv PROVE ConcludedOnTime
    OBVIOUS
  <2>1. unfinished = {p \in Proposals : proposal[p].state \in {"Voting", "Withdrawn"}}
    BY DEF IInv, LifeInv, Index, Open
  <2>2. ASSUME NEW p \in unfinished PROVE height <= proposal[p].end
    BY <2>1 DEF IInv, LifeInv, Due, Types, Proposal
  <2> QED BY <2>1, <2>2 DEF ConcludedOnTime
<1> QED BY <1>1, Invariant, PTL

\* What a proposal schedules is tried in the block after its last one, but for
\* a parameter change when another one passed in the same block.
THEOREM NothingForgotten == Spec => []EffectsDelivered
<1>1. IInv => EffectsDelivered
  <2> SUFFICES ASSUME IInv, NEW p \in Proposals, proposal[p].outcome = "passed",
                      proposal[p].payload \in {"change", "spend"},
                      height > proposal[p].end, p \notin delivered
               PROVE  /\ proposal[p].payload = "change"
                      /\ \E q \in Proposals \ {p} :
                           /\ proposal[q].payload = "change" /\ proposal[q].outcome = "passed"
                           /\ proposal[q].end = proposal[p].end
    BY DEF EffectsDelivered
  <2>1. proposal[p].end # height
    BY DEF IInv, Types, Proposal
  <2> QED BY <2>1 DEF IInv, Scheduled, Passed
<1> QED BY <1>1, Invariant, PTL

\* However notes are made, spent and transferred before, while and after they
\* vote, no more stake votes on a proposal than was live when the block in
\* which it was submitted began.
THEOREM NoDoubleVote == Spec => []StakeVotesOnce
<1>1. IInv => StakeVotesOnce
  <2> SUFFICES ASSUME IInv, NEW p \in Proposals, NEW v \in Validators
               PROVE  VotesFor(p, v) <= stakeAtStart[p][v]
    BY DEF StakeVotesOnce
  <2> DEFINE V == {n \in voted[p] : notes[n].validator = v}
  <2>1. CASE proposal[p].state = "None"
    <3>1. V = {} /\ stakeAtStart[p][v] \in Nat
      BY <2>1 DEF IInv, Snapshots, Types
    <3>2. Cardinality(V) = 0
      BY <3>1, FS_EmptySet
    <3> QED BY <3>1, <3>2 DEF VotesFor
  <2>2. CASE proposal[p].state # "None"
    <3>1. V \subseteq LiveAt(proposal[p].start, v)
      BY <2>2 DEF IInv, Snapshots, Types, Eligible, LiveAt
    <3>2. Cardinality(V) <= Cardinality(LiveAt(proposal[p].start, v))
      BY <3>1, StakeIsNat, FS_Subset
    <3>3. stakeAtStart[p][v] = Cardinality(LiveAt(proposal[p].start, v))
      BY <2>2 DEF IInv, Snapshots
    <3> QED BY <3>2, <3>3 DEF VotesFor
  <2> QED BY <2>1, <2>2
<1> QED BY <1>1, Invariant, PTL

-----------------------------------------------------------------------------
(* How votes are counted                                                    *)

Kinds == {"yes", "no", "abstain"}

Tally == [Kinds -> Nat]

\* The notes of S that are delegated to v, as the notes ns say.
BallotsOf(S, ns, v) == {n \in S : ns[n].validator = v}

PowerInv(f) == DOMAIN f \subseteq Validators /\ \A v \in DOMAIN f : f[v] \in Nat

VotesInv(f) == DOMAIN f \subseteq Validators /\ \A v \in DOMAIN f : f[v] \in Choices

\* The tallies T of the delegators' votes, of which the notes S have voted and
\* the votes U are not swept yet: no validator's tally has more votes than its
\* swept notes have cast.
CountInv(T, S, U, ns) ==
    /\ S \subseteq Notes /\ DOMAIN U \subseteq S /\ \A n \in DOMAIN U : U[n] \in Choices
    /\ T \in [Validators -> Tally]
    /\ \A v \in Validators : Total(T[v]) <= Cardinality(BallotsOf(S \ DOMAIN U, ns, v))

TallyInv ==
    /\ PowerInv(power)
    /\ DOMAIN powerAtStart = Proposals /\ DOMAIN validatorVote = Proposals
    /\ DOMAIN untallied = Proposals /\ DOMAIN tallied = Proposals
    /\ \A p \in Proposals :
           /\ PowerInv(powerAtStart[p])
           /\ VotesInv(validatorVote[p])
           /\ CountInv(tallied[p], voted[p], untallied[p], notes)

\* The votes of a tally, by kind and in total.
LEMMA TotalType ==
    ASSUME NEW t \in Tally
    PROVE  /\ t["yes"] \in Nat /\ t["no"] \in Nat /\ t["abstain"] \in Nat
           /\ Total(t) = t["yes"] + t["no"] + t["abstain"] /\ Total(t) \in Nat
<1>1. t["yes"] \in Nat /\ t["no"] \in Nat /\ t["abstain"] \in Nat
  BY DEF Tally, Kinds
<1>2. Total(t) = t["yes"] + t["no"] + t["abstain"]
  BY DEF Total
<1> QED BY <1>1, <1>2

\* A vote adds its amount to the tally.
LEMMA AddVoteTotal ==
    ASSUME NEW t \in Tally, NEW vote \in Choices, NEW n \in Nat
    PROVE  AddVote(t, vote, n) \in Tally /\ Total(AddVote(t, vote, n)) = Total(t) + n
<1>1. PICK u : u = AddVote(t, vote, n)
  OBVIOUS
<1>2. vote \in Kinds
  BY ParameterAssumption DEF Kinds
<1>3. u \in Tally /\ u[vote] = t[vote] + n /\ \A k \in Kinds : k # vote => u[k] = t[k]
  BY <1>1, <1>2 DEF AddVote, Tally
<1>4. Total(u) = u["yes"] + u["no"] + u["abstain"] /\ Total(t) = t["yes"] + t["no"] + t["abstain"]
  BY <1>3, TotalType
<1>5. t["yes"] \in Nat /\ t["no"] \in Nat /\ t["abstain"] \in Nat
  BY TotalType
<1>6. Total(u) = Total(t) + n
  BY <1>2, <1>3, <1>4, <1>5 DEF Kinds
<1> QED BY <1>1, <1>3, <1>6

\* The empty tally has no votes.
LEMMA ZeroTallyTotal == ZeroTally \in Tally /\ Total(ZeroTally) = 0
<1>1. ZeroTally \in Tally
  BY DEF ZeroTally, Tally, Kinds
<1>2. ZeroTally["yes"] = 0 /\ ZeroTally["no"] = 0 /\ ZeroTally["abstain"] = 0
  BY DEF ZeroTally
<1> QED BY <1>1, <1>2, TotalType

\* Finitely many notes vote for a validator.
LEMMA BallotsFinite ==
    ASSUME NEW S \in SUBSET Notes, NEW ns, NEW v
    PROVE  IsFiniteSet(BallotsOf(S, ns, v)) /\ Cardinality(BallotsOf(S, ns, v)) \in Nat
<1>1. BallotsOf(S, ns, v) \subseteq Notes /\ IsFiniteSet(Notes)
  BY ParameterAssumption DEF BallotsOf
<1> QED BY <1>1, FS_Subset, FS_CardinalityType

\* Notes that have voted stay with their validator.
LEMMA CountNotes ==
    ASSUME NEW T, NEW S, NEW U, NEW ns, NEW ms, CountInv(T, S, U, ns),
           \A n \in S : ms[n].validator = ns[n].validator
    PROVE  CountInv(T, S, U, ms)
<1>1. ASSUME NEW v \in Validators
      PROVE  BallotsOf(S \ DOMAIN U, ms, v) = BallotsOf(S \ DOMAIN U, ns, v)
  BY DEF BallotsOf
<1> QED BY <1>1 DEF CountInv

\* A vote waits for the next sweep.
LEMMA CountVote ==
    ASSUME NEW T, NEW S, NEW U, NEW ns, CountInv(T, S, U, ns),
           NEW n \in Notes, n \notin S, NEW vote \in Choices, NEW W,
           W = [m \in DOMAIN U \cup {n} |-> IF m = n THEN vote ELSE U[m]]
    PROVE  CountInv(T, S \cup {n}, W, ns)
<1>1. DOMAIN W = DOMAIN U \cup {n} /\ \A m \in DOMAIN W : W[m] \in Choices
  BY DEF CountInv
<1>2. (S \cup {n}) \ DOMAIN W = S \ DOMAIN U
  BY <1>1 DEF CountInv
<1> QED BY <1>1, <1>2 DEF CountInv

\* A finite set of naturals is bounded.
LEMMA FiniteBounded ==
    ASSUME NEW S, S \subseteq Nat, IsFiniteSet(S)
    PROVE  \E k \in Nat : \A x \in S : x < k
<1> DEFINE Q(T) == \E k \in Nat : \A x \in T : x < k
           N == {n \in Nat : \A T \in SUBSET S : Cardinality(T) = n => Q(T)}
<1>1. 0 \in N
  <2>1. ASSUME NEW T \in SUBSET S, Cardinality(T) = 0 PROVE Q(T)
    <3>1. T = {}
      BY <2>1, SubsetEmpty
    <3> QED BY <3>1
  <2> QED BY <2>1
<1>2. ASSUME NEW n \in Nat, n \in N PROVE n + 1 \in N
  <2>1. ASSUME NEW T \in SUBSET S, Cardinality(T) = n + 1 PROVE Q(T)
    <3>1. PICK c : c = Chosen(T)
      OBVIOUS
    <3>2. c \in T /\ T \ {c} \in SUBSET S /\ Cardinality(T \ {c}) = n
      BY <2>1, <3>1, SubsetChosen
    <3>3. Q(T \ {c})
      BY <1>2, <3>2
    <3>4. PICK k \in Nat : \A x \in T \ {c} : x < k
      BY <3>3
    <3>5. c \in Nat /\ k + c + 1 \in Nat
      BY <3>2
    <3>6. \A x \in T : x < k + c + 1
      BY <3>4, <3>5
    <3> QED BY <3>5, <3>6
  <2> QED BY <2>1
<1>3. \A n \in Nat : n \in N
  <2> HIDE DEF N
  <2> QED BY <1>1, <1>2, NatSetInduction
<1>4. Q(S)
  <2>1. Cardinality(S) \in Nat /\ S \in SUBSET S
    BY FS_CardinalityType
  <2> QED BY <1>3, <2>1
<1> QED BY <1>4

\* A sweep adds at most one vote for a validator, if it has one to sweep.
LEMMA CountSweep ==
    ASSUME NEW T, NEW S, NEW U, NEW ns, CountInv(T, S, U, ns), NEW R, NEW E, DOMAIN E = {},
           DOMAIN R = Validators, R = [v \in Validators |-> R[v]],
           \A v \in Validators :
               R[v] = IF BallotsOf(DOMAIN U, ns, v) = {} THEN T[v]
                      ELSE AddVote(T[v], U[LastOf(BallotsOf(DOMAIN U, ns, v))], 1)
    PROVE  CountInv(R, S, E, ns)
<1>1. S \subseteq Notes /\ DOMAIN U \subseteq S
  BY DEF CountInv
<1>2. S \ DOMAIN E = S
  OBVIOUS
<1>3. ASSUME NEW v \in Validators
      PROVE  R[v] \in Tally /\ Total(R[v]) <= Cardinality(BallotsOf(S, ns, v))
  <2>1. PICK A, B, C : A = BallotsOf(S \ DOMAIN U, ns, v) /\ B = BallotsOf(S, ns, v)
                       /\ C = BallotsOf(DOMAIN U, ns, v)
    OBVIOUS
  <2>2. IsFiniteSet(A) /\ IsFiniteSet(B) /\ IsFiniteSet(C)
        /\ Cardinality(A) \in Nat /\ Cardinality(B) \in Nat
    BY <1>1, <2>1, BallotsFinite
  <2>3. A \subseteq B /\ C \subseteq B /\ A \cap C = {} /\ C \subseteq Nat /\ C \subseteq DOMAIN U
    BY <1>1, <2>1, ParameterAssumption DEF BallotsOf
  <2>4. Cardinality(A) <= Cardinality(B)
    BY <2>2, <2>3, FS_Subset
  <2>5. T[v] \in Tally /\ Total(T[v]) \in Nat /\ Total(T[v]) <= Cardinality(A)
    BY <2>1, TotalType DEF CountInv
  <2>6. CASE C = {}
    BY <2>1, <2>2, <2>4, <2>5, <2>6
  <2>7. CASE C # {}
    <3>1. PICK n : n = LastOf(C)
      OBVIOUS
    <3>2. n \in C
      <4>1. PICK k \in Nat : \A x \in C : x < k
        BY <2>2, <2>3, FiniteBounded
      <4> QED BY <2>3, <2>7, <3>1, <4>1, LastOfIn
    <3>3. R[v] = AddVote(T[v], U[n], 1) /\ U[n] \in Choices
      BY <2>1, <2>3, <2>7, <3>1, <3>2 DEF CountInv
    <3>4. R[v] \in Tally /\ Total(R[v]) = Total(T[v]) + 1
      BY <2>5, <3>3, AddVoteTotal
    <3>5. n \notin A /\ A \cup {n} \subseteq B
      BY <2>3, <3>2
    <3>6. Cardinality(A \cup {n}) = Cardinality(A) + 1
      BY <2>2, <3>5, FS_AddElement
    <3>7. Cardinality(A \cup {n}) <= Cardinality(B)
      BY <2>2, <3>5, FS_Subset
    <3> QED BY <2>1, <2>2, <2>5, <3>4, <3>6, <3>7
  <2> QED BY <2>6, <2>7
<1>4. R \in [Validators -> Tally]
  BY <1>3
<1>5. DOMAIN E \subseteq S /\ \A n \in DOMAIN E : E[n] \in Choices
  OBVIOUS
<1> QED BY <1>1, <1>2, <1>3, <1>4, <1>5 DEF CountInv

\* A step that leaves the votes alone, and the validators of notes that have
\* voted.
LEMMA TallySame ==
    ASSUME TallyInv, PowerInv(power'), UNCHANGED <<powerAtStart, ballots>>,
           \A p \in Proposals : \A n \in voted[p] : notes'[n].validator = notes[n].validator
    PROVE  TallyInv'
<1>1. ASSUME NEW p \in Proposals
      PROVE  CountInv(tallied[p], voted[p], untallied[p], notes')
  BY CountNotes DEF TallyInv
<1>2. UNCHANGED <<powerAtStart, validatorVote, voted, untallied, tallied>>
  BY DEF ballots
<1>3. ASSUME NEW p \in Proposals
      PROVE  CountInv(tallied'[p], voted'[p], untallied'[p], notes')
  BY <1>1, <1>2
<1>4. ASSUME NEW p \in Proposals
      PROVE  CountInv(tallied[p], voted[p], untallied[p], notes)'
  BY <1>3 DEF CountInv, BallotsOf
<1>5. PowerInv(power)' /\ \A p \in Proposals : PowerInv(powerAtStart[p])' /\ VotesInv(validatorVote[p])'
  BY <1>2 DEF TallyInv, PowerInv, VotesInv
<1> QED BY <1>2, <1>4, <1>5 DEF TallyInv

\* A note that has voted exists.
LEMMA VotedExist ==
    ASSUME IInv, NEW p \in Proposals, NEW n \in voted[p]
    PROVE  n \in Notes /\ notes[n].created # NoHeight
BY DEF IInv, Types, Snapshots, Eligible

\* The sweep of one proposal.
LEMMA SweptCount ==
    ASSUME NEW p \in Proposals, CountInv(tallied[p], voted[p], untallied[p], notes),
           NEW R, R = Swept(p), NEW E, DOMAIN E = {}
    PROVE  CountInv(R, voted[p], E, notes)
<1>1. PICK T, U : T = tallied[p] /\ U = untallied[p]
  OBVIOUS
<1>2. R = [v \in Validators |->
             IF {n \in DOMAIN U : notes[n].validator = v} = {} THEN T[v]
             ELSE AddVote(T[v], U[LastOf({n \in DOMAIN U : notes[n].validator = v})], 1)]
  BY <1>1 DEF Swept
<1>3. DOMAIN R = Validators /\ R = [v \in Validators |-> R[v]]
  BY <1>2, Zenon
<1>4. ASSUME NEW v \in Validators
      PROVE  R[v] = IF BallotsOf(DOMAIN U, notes, v) = {} THEN T[v]
                    ELSE AddVote(T[v], U[LastOf(BallotsOf(DOMAIN U, notes, v))], 1)
  <2>1. BallotsOf(DOMAIN U, notes, v) = {n \in DOMAIN U : notes[n].validator = v}
    BY DEF BallotsOf
  <2> QED BY <1>2, <2>1, Zenon
<1> QED BY <1>1, <1>3, <1>4, CountSweep

\* Every action keeps the invariant of the tallies.
LEMMA TallyStep ==
    ASSUME IInv, TallyInv, Next
    PROVE  TallyInv'
<1>1. ASSUME NEW payload \in Payloads, ProposalSubmit(payload) PROVE TallyInv'
  <2>1. powerAtStart' = [powerAtStart EXCEPT ![nextId] = power] /\ nextId \in Proposals
    BY <1>1 DEF ProposalSubmit, NewProposal
  <2>2. UNCHANGED <<notes, power, validatorVote, voted, untallied, tallied>>
    BY <1>1 DEF ProposalSubmit, ballots
  <2>3. ASSUME NEW p \in Proposals PROVE PowerInv(powerAtStart'[p])
    BY <2>1 DEF TallyInv
  <2>4. ASSUME NEW p \in Proposals PROVE PowerInv(powerAtStart[p])'
    BY <2>3 DEF PowerInv
  <2>5. ASSUME NEW p \in Proposals
        PROVE  CountInv(tallied[p], voted[p], untallied[p], notes)' /\ VotesInv(validatorVote[p])'
    BY <2>2 DEF TallyInv, CountInv, BallotsOf, VotesInv
  <2> QED BY <2>1, <2>2, <2>4, <2>5 DEF TallyInv, PowerInv
<1>2. ASSUME NEW p \in Proposals, NEW v \in Validators, NEW vote \in Choices, ValidatorVote(p, v, vote)
      PROVE  TallyInv'
  <2>1. PICK votes : votes = [w \in DOMAIN validatorVote[p] \cup {v} |->
                                IF w = v THEN vote ELSE validatorVote[p][w]]
    OBVIOUS
  <2>2. validatorVote' = [validatorVote EXCEPT ![p] = votes]
    BY <1>2, <2>1 DEF ValidatorVote
  <2>3. UNCHANGED <<notes, power, powerAtStart, voted, untallied, tallied>>
    BY <1>2 DEF ValidatorVote
  <2>4. VotesInv(votes)
    BY <2>1 DEF TallyInv, VotesInv
  <2>5. ASSUME NEW q \in Proposals PROVE VotesInv(validatorVote'[q])
    BY <2>2, <2>4 DEF TallyInv
  <2>6. ASSUME NEW q \in Proposals PROVE VotesInv(validatorVote[q])'
    BY <2>5 DEF VotesInv
  <2>7. ASSUME NEW q \in Proposals
        PROVE  CountInv(tallied[q], voted[q], untallied[q], notes)' /\ PowerInv(powerAtStart[q])'
    BY <2>3 DEF TallyInv, CountInv, BallotsOf, PowerInv
  <2> QED BY <2>2, <2>3, <2>6, <2>7 DEF TallyInv, PowerInv
<1>3. ASSUME NEW p \in Proposals, NEW n \in Notes, NEW vote \in Choices, DelegatorVote(p, n, vote)
      PROVE  TallyInv'
  <2>1. PICK W : W = [m \in DOMAIN untallied[p] \cup {n} |-> IF m = n THEN vote ELSE untallied[p][m]]
    OBVIOUS
  <2>2. untallied' = [untallied EXCEPT ![p] = W] /\ voted' = [voted EXCEPT ![p] = voted[p] \cup {n}]
        /\ n \notin voted[p]
    BY <1>3, <2>1 DEF DelegatorVote, MarkVoted
  <2>3. UNCHANGED <<notes, power, powerAtStart, validatorVote, tallied>>
    BY <1>3 DEF DelegatorVote
  <2>4. CountInv(tallied[p], voted[p] \cup {n}, W, notes)
    <3>1. PICK T, S, U : T = tallied[p] /\ S = voted[p] /\ U = untallied[p]
      OBVIOUS
    <3>2. CountInv(T, S, U, notes) /\ n \notin S
      BY <2>2, <3>1 DEF TallyInv
    <3>3. W = [m \in DOMAIN U \cup {n} |-> IF m = n THEN vote ELSE U[m]]
      BY <2>1, <3>1
    <3>4. CountInv(T, S \cup {n}, W, notes)
      BY <3>2, <3>3, CountVote, SMTT(30)
    <3> QED BY <3>1, <3>4
  <2>5. /\ voted'[p] = voted[p] \cup {n} /\ untallied'[p] = W
        /\ \A q \in Proposals : q # p => voted'[q] = voted[q] /\ untallied'[q] = untallied[q]
        /\ DOMAIN untallied' = Proposals
    BY <2>2 DEF IInv, Types, TallyInv
  <2>6. ASSUME NEW q \in Proposals PROVE CountInv(tallied'[q], voted'[q], untallied'[q], notes')
    <3>1. CASE q = p
      BY <2>3, <2>4, <2>5, <3>1
    <3>2. CASE q # p
      BY <2>3, <2>5, <3>2 DEF TallyInv
    <3> QED BY <3>1, <3>2
  <2>7. ASSUME NEW q \in Proposals PROVE CountInv(tallied[q], voted[q], untallied[q], notes)'
    BY <2>6 DEF CountInv, BallotsOf
  <2>8. ASSUME NEW q \in Proposals PROVE PowerInv(powerAtStart[q])' /\ VotesInv(validatorVote[q])'
    BY <2>3 DEF TallyInv, PowerInv, VotesInv
  <2>9. /\ DOMAIN powerAtStart' = Proposals /\ DOMAIN validatorVote' = Proposals
        /\ DOMAIN tallied' = Proposals /\ DOMAIN untallied' = Proposals
    BY <2>3, <2>5 DEF TallyInv
  <2>10. PowerInv(power)'
    BY <2>3 DEF TallyInv, PowerInv
  <2> QED BY <2>7, <2>8, <2>9, <2>10 DEF TallyInv, PowerInv
<1>4. ASSUME UNCHANGED <<power, powerAtStart, notes, ballots>> PROVE TallyInv'
  BY <1>4, TallySame DEF TallyInv, PowerInv
<1>5. ASSUME NEW p \in Proposals, ProposalWithdraw(p) \/ ProposalDepositClaim(p) PROVE TallyInv'
  BY <1>4, <1>5 DEF ProposalWithdraw, ProposalDepositClaim
<1>6. ASSUME NEW n \in Notes, NEW v \in Validators, DelegateNote(n, v) PROVE TallyInv'
  <2>1. UNCHANGED <<power, powerAtStart, ballots>> /\ notes[n].created = NoHeight
        /\ \A m \in Notes : m # n => notes'[m] = notes[m]
    BY <1>6 DEF DelegateNote, IInv, Types
  <2>2. PowerInv(power')
    BY <2>1 DEF TallyInv
  <2> QED BY <2>1, <2>2, VotedExist, TallySame
<1>7. ASSUME NEW n \in Notes, NEW m \in Notes, TransferNote(n, m) PROVE TallyInv'
  <2>1. UNCHANGED <<power, powerAtStart, ballots>> /\ notes[m].created = NoHeight
    BY <1>7 DEF TransferNote
  <2>2. \A k \in Notes : k # m => notes'[k].validator = notes[k].validator
    BY <1>7 DEF TransferNote, IInv, Types, Note
  <2>3. PowerInv(power')
    BY <2>1 DEF TallyInv
  <2> QED BY <2>1, <2>2, <2>3, VotedExist, TallySame
<1>8. ASSUME NEW active \in SUBSET Validators, EndBlock(active) PROVE TallyInv'
  <2>1. PICK sweep \in SUBSET Proposals :
          /\ tallied' = [p \in Proposals |-> IF p \in sweep THEN Swept(p) ELSE tallied[p]]
          /\ untallied' = [p \in Proposals |-> IF p \in sweep THEN << >> ELSE untallied[p]]
    <3>1. PICK s : s = IF EpochEnds THEN Proposals ELSE {p \in Proposals : Ready(p)}
      OBVIOUS
    <3>2. s \in SUBSET Proposals
      BY <3>1
    <3>3. /\ tallied' = [p \in Proposals |-> IF p \in s THEN Swept(p) ELSE tallied[p]]
          /\ untallied' = [p \in Proposals |-> IF p \in s THEN << >> ELSE untallied[p]]
      BY <1>8, <3>1, Zenon DEF EndBlock
    <3> QED BY <3>2, <3>3
  <2>2. UNCHANGED <<notes, powerAtStart, validatorVote, voted>>
    BY <1>8 DEF EndBlock
  <2>3. PowerInv(power')
    <3>1. CASE EpochEnds
      <4>1. power' = [v \in active |-> LiveStake(v)]
        BY <1>8, <3>1 DEF EndBlock
      <4> QED BY <4>1, StakeIsNat DEF PowerInv
    <3>2. CASE ~EpochEnds
      BY <1>8, <3>2 DEF EndBlock, TallyInv
    <3> QED BY <3>1, <3>2
  <2>4. ASSUME NEW p \in Proposals PROVE CountInv(tallied'[p], voted'[p], untallied'[p], notes')
    <3>1. CASE p \in sweep
      <4>1. PICK R, E : R = Swept(p) /\ E = << >>
        OBVIOUS
      <4>2. tallied'[p] = R /\ untallied'[p] = E
        BY <2>1, <3>1, <4>1
      <4>3. DOMAIN E = {}
        BY <4>1
      <4>4. CountInv(R, voted[p], E, notes)
        BY <4>1, <4>3, SweptCount DEF TallyInv
      <4> QED BY <2>2, <4>2, <4>4
    <3>2. CASE p \notin sweep
      BY <2>1, <2>2, <3>2 DEF TallyInv
    <3> QED BY <3>1, <3>2
  <2>5. ASSUME NEW q \in Proposals PROVE CountInv(tallied[q], voted[q], untallied[q], notes)'
    BY <2>4 DEF CountInv, BallotsOf
  <2>6. ASSUME NEW q \in Proposals PROVE PowerInv(powerAtStart[q])' /\ VotesInv(validatorVote[q])'
    BY <2>2 DEF TallyInv, PowerInv, VotesInv
  <2>7. DOMAIN tallied' = Proposals /\ DOMAIN untallied' = Proposals
    BY <2>1
  <2> QED BY <2>2, <2>3, <2>5, <2>6, <2>7 DEF TallyInv, PowerInv
<1>9. ASSUME BeginBlock PROVE TallyInv'
  BY <1>4, <1>9 DEF BeginBlock
<1> QED BY <1>1, <1>2, <1>3, <1>5, <1>6, <1>7, <1>8, <1>9 DEF Next

\* At genesis there are no votes.
LEMMA TallyInit ==
    ASSUME Init
    PROVE  TallyInv
<1>1. PowerInv(power)
  <2>1. ASSUME NEW v \in Validators PROVE power[v] \in Nat
    <3>1. PICK S : S = {n \in DOMAIN GenesisNotes : GenesisNotes[n] = v}
      OBVIOUS
    <3>2. S \subseteq Notes /\ IsFiniteSet(Notes)
      BY <3>1, ParameterAssumption
    <3>3. Cardinality(S) \in Nat
      BY <3>2, FS_Subset, FS_CardinalityType
    <3> QED BY <3>1, <3>3 DEF Init
  <2>2. DOMAIN power = Validators
    BY DEF Init
  <2> QED BY <2>1, <2>2 DEF PowerInv
<1>2. ASSUME NEW p \in Proposals
      PROVE  CountInv(tallied[p], voted[p], untallied[p], notes)
  <2>1. PICK T, U : T = [v \in Validators |-> ZeroTally] /\ U = << >>
    OBVIOUS
  <2>2. DOMAIN U = {}
    BY <2>1
  <2>3. T \in [Validators -> Tally]
    BY <2>1, ZeroTallyTotal
  <2>4. ASSUME NEW v \in Validators
        PROVE  Total(T[v]) <= Cardinality(BallotsOf({} \ DOMAIN U, notes, v))
    <3>1. {} \ DOMAIN U \in SUBSET Notes
      OBVIOUS
    <3>2. Cardinality(BallotsOf({} \ DOMAIN U, notes, v)) \in Nat
      BY <3>1, BallotsFinite
    <3>3. Total(T[v]) = 0
      BY <2>1, ZeroTallyTotal
    <3> QED BY <3>2, <3>3
  <2>5. CountInv(T, {}, U, notes)
    BY <2>2, <2>3, <2>4 DEF CountInv
  <2>6. tallied[p] = T /\ voted[p] = {} /\ untallied[p] = U
    BY <2>1 DEF Init
  <2> QED BY <2>5, <2>6
<1>3. ASSUME NEW p \in Proposals PROVE PowerInv(powerAtStart[p]) /\ VotesInv(validatorVote[p])
  BY DEF Init, PowerInv, VotesInv
<1>4. /\ DOMAIN powerAtStart = Proposals /\ DOMAIN validatorVote = Proposals
      /\ DOMAIN untallied = Proposals /\ DOMAIN tallied = Proposals
  BY DEF Init
<1> QED BY <1>1, <1>2, <1>3, <1>4 DEF TallyInv

\* A validator's part of a tally, its own vote included, is no more than its
\* power if its delegators' votes are not: its vote counts for the rest.
LEMMA PartWithin ==
    ASSUME NEW pow, NEW votes, NEW T, NEW v, T[v] \in Tally, pow[v] \in Nat,
           Total(T[v]) <= pow[v], VotesInv(votes)
    PROVE  /\ ValidatorTally(pow, votes, T, v) \in Tally
           /\ Total(ValidatorTally(pow, votes, T, v)) <= pow[v]
<1>1. PICK t, k, part : t = T[v] /\ k = pow[v] /\ part = ValidatorTally(pow, votes, T, v)
  OBVIOUS
<1>2. t \in Tally /\ k \in Nat /\ Total(t) \in Nat /\ Total(t) <= k
  BY <1>1, TotalType
<1>3. CASE v \in DOMAIN votes
  <2>1. PICK e : e = EffectivePower(k, t)
    OBVIOUS
  <2>2. e \in Nat /\ Total(t) + e <= k
    BY <1>2, <2>1 DEF EffectivePower
  <2>3. votes[v] \in Choices /\ part = AddVote(t, votes[v], e)
    BY <1>1, <1>3, <2>1 DEF VotesInv, ValidatorTally
  <2>4. part \in Tally /\ Total(part) = Total(t) + e
    BY <1>2, <2>2, <2>3, AddVoteTotal
  <2> QED BY <1>1, <2>2, <2>4
<1>4. CASE v \notin DOMAIN votes
  <2>1. part = t
    BY <1>1, <1>4 DEF ValidatorTally
  <2> QED BY <1>1, <1>2, <2>1
<1> QED BY <1>3, <1>4

\* The votes of all validators add up to no more than the power they have.
LEMMA TallyAtMost ==
    ASSUME NEW p, NEW votes, NEW T, NEW pow, pow = powerAtStart[p], IsFiniteSet(DOMAIN pow),
           VotesInv(votes),
           \A v \in DOMAIN pow : T[v] \in Tally /\ pow[v] \in Nat /\ Total(T[v]) <= pow[v]
    PROVE  Total(CurrentTally(p, votes, T)) <= TotalPower(p)
<1>1. PICK D : D = DOMAIN pow
  OBVIOUS
<1>2. PICK parts : parts = [v \in D |-> ValidatorTally(pow, votes, T, v)]
  OBVIOUS
<1>3. ASSUME NEW v \in D
      PROVE  /\ parts[v] = ValidatorTally(pow, votes, T, v)
             /\ parts[v] \in Tally /\ Total(parts[v]) <= pow[v]
             /\ parts[v]["yes"] \in Int /\ parts[v]["no"] \in Int /\ parts[v]["abstain"] \in Int
             /\ Total(parts[v]) = parts[v]["yes"] + parts[v]["no"] + parts[v]["abstain"]
             /\ pow[v] \in Int
  <2>1. parts[v] = ValidatorTally(pow, votes, T, v)
    BY <1>2
  <2>2. parts[v] \in Tally /\ Total(parts[v]) <= pow[v]
    BY <1>1, <2>1, PartWithin
  <2>3. pow[v] \in Int
    BY <1>1
  <2> QED BY <2>1, <2>2, <2>3, TotalType
<1>4. PICK f, g, h, fg, fgh :
        /\ f = [v \in D |-> parts[v]["yes"]] /\ g = [v \in D |-> parts[v]["no"]]
        /\ h = [v \in D |-> parts[v]["abstain"]]
        /\ fg = [v \in D |-> parts[v]["yes"] + parts[v]["no"]]
        /\ fgh = [v \in D |-> Total(parts[v])]
  OBVIOUS
<1>5. IsFiniteSet(D)
  BY <1>1
<1>6. \A v \in D : f[v] \in Int /\ g[v] \in Int /\ fg[v] = f[v] + g[v] /\ fg[v] \in Int
                   /\ h[v] \in Int /\ fgh[v] = fg[v] + h[v] /\ fgh[v] \in Int
                   /\ fgh[v] <= pow[v] /\ pow[v] \in Int
  BY <1>3, <1>4
<1>7. PICK sf, sg, sh, sfg, sfgh, sp :
        /\ sf = SumFunctionOnSet(f, D) /\ sg = SumFunctionOnSet(g, D)
        /\ sh = SumFunctionOnSet(h, D) /\ sfg = SumFunctionOnSet(fg, D)
        /\ sfgh = SumFunctionOnSet(fgh, D) /\ sp = SumFunctionOnSet(pow, D)
  OBVIOUS
<1>8. sfg = sf + sg
  BY <1>5, <1>6, <1>7, SumPlus
<1>9. sfgh = sfg + sh
  BY <1>5, <1>6, <1>7, SumPlus
<1>10. sfgh <= sp
  BY <1>5, <1>6, <1>7, SumAtMost
<1>11. TotalPower(p) = sp
  BY <1>1, <1>7 DEF TotalPower, SumFunction, SumFunctionOnSet, FoldFunction
<1>12. CurrentTally(p, votes, T) = [yes |-> sf, no |-> sg, abstain |-> sh]
  <2>1. /\ [v \in D |-> ValidatorTally(pow, votes, T, v)["yes"]] = f
        /\ [v \in D |-> ValidatorTally(pow, votes, T, v)["no"]] = g
        /\ [v \in D |-> ValidatorTally(pow, votes, T, v)["abstain"]] = h
    BY <1>3, <1>4
  <2>2. SumFunction(f) = sf /\ SumFunction(g) = sg /\ SumFunction(h) = sh
    <3>1. DOMAIN f = D /\ DOMAIN g = D /\ DOMAIN h = D
      BY <1>4
    <3> QED BY <1>7, <3>1 DEF SumFunction, SumFunctionOnSet, FoldFunction
  <2> QED BY <1>1, <2>1, <2>2, Zenon DEF CurrentTally
<1>13. Total(CurrentTally(p, votes, T)) = sf + sg + sh
  BY <1>12 DEF Total
<1> QED BY <1>8, <1>9, <1>10, <1>11, <1>13

\* The tallies of the delegators' votes stay within what their notes have cast,
\* whatever is delegated, transferred, voted on and swept.
THEOREM Counting == Spec => []TallyInv
<1>1. Init => TallyInv
  BY TallyInit
<1>2. IInv /\ TallyInv /\ [Next]_vars => TallyInv'
  <2>1. SUFFICES ASSUME IInv, TallyInv, [Next]_vars PROVE TallyInv'
    OBVIOUS
  <2>2. CASE Next
    BY <2>1, <2>2, TallyStep
  <2>3. CASE UNCHANGED vars
    <3>1. UNCHANGED <<power, powerAtStart, notes, ballots>>
      BY <2>3 DEF vars, ballots
    <3> QED BY <2>1, <3>1, TallySame DEF TallyInv, PowerInv
  <2> QED BY <2>1, <2>2, <2>3
<1> QED BY <1>1, <1>2, Invariant, PTL DEF Spec

\* No tally that a validator's vote or the end of a block counts exceeds the
\* voting power it is compared with, unless a validator's delegators have cast
\* more than the snapshot gave it: current_tally counts no stake twice.
THEOREM TalliesWithinPower == Spec => []TallyWithinPower
<1>1. IInv /\ TallyInv => TallyWithinPower
  <2>1. SUFFICES ASSUME IInv, TallyInv, NEW p \in Proposals,
                        \A v \in DOMAIN powerAtStart[p] : VotesFor(p, v) <= powerAtStart[p][v]
                 PROVE  Total(CurrentTally(p, validatorVote[p], tallied[p])) <= TotalPower(p)
    BY DEF TallyWithinPower
  <2>2. PICK pow, votes, T, S, U : pow = powerAtStart[p] /\ votes = validatorVote[p]
                                   /\ T = tallied[p] /\ S = voted[p] /\ U = untallied[p]
    OBVIOUS
  <2>3. PowerInv(pow) /\ VotesInv(votes) /\ CountInv(T, S, U, notes)
    BY <2>1, <2>2 DEF TallyInv
  <2>4. IsFiniteSet(DOMAIN pow)
    BY <2>3, FS_Subset, ParameterAssumption DEF PowerInv
  <2>5. ASSUME NEW v \in DOMAIN pow
        PROVE  T[v] \in Tally /\ pow[v] \in Nat /\ Total(T[v]) <= pow[v]
    <3>1. v \in Validators /\ pow[v] \in Nat
      BY <2>3 DEF PowerInv
    <3>2. T[v] \in Tally /\ Total(T[v]) <= Cardinality(BallotsOf(S \ DOMAIN U, notes, v))
      BY <2>3, <3>1 DEF CountInv
    <3>3. PICK A, B : A = BallotsOf(S \ DOMAIN U, notes, v) /\ B = BallotsOf(S, notes, v)
      OBVIOUS
    <3>4. IsFiniteSet(B) /\ Cardinality(A) \in Nat /\ Cardinality(B) \in Nat
      BY <2>3, <3>3, BallotsFinite DEF CountInv
    <3>5. Cardinality(A) <= Cardinality(B)
      BY <3>3, <3>4, FS_Subset DEF BallotsOf
    <3>6. Cardinality(B) <= pow[v]
      BY <2>1, <2>2, <3>3 DEF VotesFor, BallotsOf
    <3>7. Total(T[v]) \in Nat
      BY <3>2, TotalType
    <3> QED BY <3>1, <3>2, <3>3, <3>4, <3>5, <3>6, <3>7
  <2>6. Total(CurrentTally(p, votes, T)) <= TotalPower(p)
    BY <2>2, <2>3, <2>4, <2>5, TallyAtMost
  <2> QED BY <2>2, <2>6
<1> QED BY <1>1, Invariant, Counting, PTL

=============================================================================

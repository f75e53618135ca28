----------------------------- MODULE Governance -----------------------------
(***************************************************************************)
(* Proposals: submission, validator and delegator votes, withdrawal,       *)
(* tallying, enactment and the claim of the deposit (the governance        *)
(* component, its action handlers and app's handler of ProposalSubmit).    *)
(*                                                                         *)
(* Delegators vote with delegation notes, which they can spend before,     *)
(* while and after they vote.  A note stands for its nullifier too.  All   *)
(* notes hold the same unbonded amount, one unit of voting power.          *)
(***************************************************************************)
EXTENDS Integers, FiniteSets, Functions

CONSTANTS
  Validators, Notes, GenesisNotes,  \* GenesisNotes: note -> its validator
  Proposals,                        \* 0 .. n, the ids that may be used
  Payloads, Choices,                \* Choices: subset of yes, no, abstain
  VotingBlocks, EpochDuration, MaxHeight,
  Quorum, PassThreshold, SlashThreshold  \* ratios [num, den]

ASSUME ParameterAssumption ==
  /\ Notes \subseteq Nat /\ IsFiniteSet(Notes) /\ IsFiniteSet(Validators)
  /\ DOMAIN GenesisNotes \subseteq Notes
  /\ \A n \in DOMAIN GenesisNotes : GenesisNotes[n] \in Validators
  /\ Proposals \subseteq Nat
  /\ Payloads \subseteq {"signaling", "emergency", "halt", "freeze", "unfreeze", "change",
                         "spend", "upgrade"}
  /\ Choices \subseteq {"yes", "no", "abstain"}
  /\ VotingBlocks \in Nat /\ EpochDuration \in Nat \ {0} /\ MaxHeight \in Nat
  /\ \A r \in {Quorum, PassThreshold, SlashThreshold} :
       r.num \in Nat /\ r.den \in Nat \ {0}

VARIABLES
  height,
  notes,        \* note -> [validator, created, spent]
  power,        \* voting power of the active validators, set at epoch ends
  nextId,
  proposal,     \* id -> [payload, state, outcome, start, end]
  unfinished,   \* the index unfinished_proposals
  powerAtStart, \* id -> voting power of the validators active at its start
  validatorVote,  \* id -> votes of validators
  voted,        \* id -> notes that voted
  untallied,    \* id -> votes of notes that wait for a sweep
  tallied,      \* id -> validator -> tally of its delegators
  nft,          \* id -> the proposal NFT in circulation
  effects,      \* what enacted proposals left in the state
  delivered,    \* proposals whose change or spend was tried in begin_block
  enacted,      \* id -> how often it was enacted
  phase,        \* "deliver", or "begin" between blocks
  stakeNow, stakeAtStart  \* live notes at the start of the block, of a proposal's

ballots == <<validatorVote, voted, untallied, tallied>>
vars == <<height, notes, power, nextId, proposal, unfinished, powerAtStart,
          ballots, nft, effects, delivered, enacted, phase, stakeNow, stakeAtStart>>
outcomes == <<effects, delivered, enacted>>
stakes == <<stakeNow, stakeAtStart>>

NoHeight == -1
NoProposal == -1
Absent == [payload |-> "none", state |-> "None", outcome |-> "none",
           start |-> 0, end |-> 0]
Fresh == [validator |-> "none", created |-> NoHeight, spent |-> NoHeight]
ZeroTally == [c \in {"yes", "no", "abstain"} |-> 0]

Live(n) == notes[n].created # NoHeight /\ notes[n].spent = NoHeight

LiveStake(v) == Cardinality({n \in Notes : Live(n) /\ notes[n].validator = v})

-----------------------------------------------------------------------------
(* Tally *)

Total(t) == t.yes + t.no + t.abstain

AddVote(t, vote, amount) == [t EXCEPT ![vote] = @ + amount]

\* a / b > r, cross-multiplied as in Ratio::cmp.
Exceeds(a, b, r) == a * r.den > b * r.num

MeetsQuorum(t, total) == ~ (Total(t) * Quorum.den < total * Quorum.num)

Slashed(t) == Exceeds(t.no, Total(t), SlashThreshold)

\* The denominator of yes_ratio: (yes + no).min(1)
YesRatioDenominator(t) == IF t.yes + t.no < 1 THEN 0 ELSE 1

Outcome(t, total) ==
  CASE ~ MeetsQuorum(t, total) -> "failed"
    [] MeetsQuorum(t, total) /\ Slashed(t) -> "slashed"
    [] OTHER -> IF Exceeds(t.yes, YesRatioDenominator(t), PassThreshold)
                THEN "passed" ELSE "failed"

EmergencyPass(t, total) ==
  /\ MeetsQuorum(t, total)
  /\ ~ Slashed(t)
  /\ Exceeds(t.yes, total, [num |-> 1, den |-> 3])

TotalPower(p) == SumFunction(powerAtStart[p])

\* The effective power of a validator that voted is what its delegators did
\* not use (saturating_sub).
\* (Mistake: the delegators' votes are added to the validator's full power.)
EffectivePowerWhole(pow, delegators) == pow

EffectivePower(pow, delegators) ==
  IF Total(delegators) < pow THEN pow - Total(delegators) ELSE 0

ValidatorTally(pow, votes, byValidator, v) ==
  IF v \in DOMAIN votes
  THEN AddVote(byValidator[v], votes[v], EffectivePower(pow[v], byValidator[v]))
  ELSE byValidator[v]

\* current_tally: the votes of p given the delegators' tallies.
CurrentTally(p, votes, byValidator) ==
  LET part(c) == SumFunction([v \in DOMAIN powerAtStart[p] |->
                    ValidatorTally(powerAtStart[p], votes, byValidator, v)[c]])
  IN  [yes |-> part("yes"), no |-> part("no"), abstain |-> part("abstain")]

\* The last of a set of notes or proposals in the order of their keys.
LastOf(S) == CHOOSE n \in S : \A m \in S : m <= n

\* tally_delegator_votes for proposal p: for every validator, the tally in the
\* state plus the vote of the note that comes last in the order of the keys,
\* since every note's new tally is computed from the state and they overwrite
\* each other.
Swept(p) ==
  [v \in Validators |->
     LET from == {n \in DOMAIN untallied[p] : notes[n].validator = v}
     IN  IF from = {} THEN tallied[p][v]
         ELSE AddVote(tallied[p][v], untallied[p][LastOf(from)], 1)]

-----------------------------------------------------------------------------
(* Actions *)

\* An emergency proposal, with halt_chain or without, and those on IBC clients.
IsEmergency(payload) == payload \in {"emergency", "halt", "freeze", "unfreeze"}

\* new_proposal takes the next id and the power of the active validators.
NewProposal ==
  /\ powerAtStart' = [powerAtStart EXCEPT ![nextId] = power]
  /\ nextId' = nextId + 1

ProposalSubmit(payload) ==
  /\ phase = "deliver"
  /\ nextId \in Proposals
  /\ height + VotingBlocks <= MaxHeight
  /\ proposal' = [proposal EXCEPT ![nextId] =
       [payload |-> payload, state |-> "Voting", outcome |-> "none",
        start |-> height, end |-> height + VotingBlocks]]
  /\ NewProposal
  /\ unfinished' = unfinished \cup {nextId}
  /\ nft' = [nft EXCEPT ![nextId] = "deposit"]
  /\ stakeAtStart' = [stakeAtStart EXCEPT ![nextId] = stakeNow]
  /\ UNCHANGED <<height, notes, power, ballots, outcomes, phase, stakeNow>>

\* check_proposal_votable
Votable(p) == proposal[p].state = "Voting"

\* put_proposal_state: the state and the index of unfinished proposals.
\* (Mistake: the index is only ever added to.)
IndexAfterSticky(p, state) == unfinished \cup {p}

IndexAfter(p, state) ==
  IF state \in {"Voting", "Withdrawn"} THEN unfinished \cup {p}
  ELSE unfinished \ {p}

PutProposalState(p, state, outcome) ==
  /\ proposal' = [proposal EXCEPT ![p].state = state, ![p].outcome = outcome]
  /\ unfinished' = IndexAfter(p, state)

MayVote(p, v) == v \in DOMAIN powerAtStart[p] /\ v \notin DOMAIN validatorVote[p]

\* (Mistake: one key for the spends of a height.)
EnactProposalOneSpend(eff, P) ==
  LET spends == {p \in P : proposal[p].payload = "spend"}
  IN  IF spends = {} THEN eff ELSE [eff EXCEPT !.spends = {LastOf(spends)}]

\* enact_proposal for the proposals P that pass together, in the order of their
\* ids: an upgrade plan replaces the one before it, and a client is as the last
\* proposal about it left it (there is one client).  A change or a spend is
\* scheduled for the next height, where the key of a change holds one only.
EnactProposal(eff, P) ==
  LET of(payload) == {p \in P : proposal[p].payload = payload}
      clients == of("freeze") \cup of("unfreeze")
      last(payload, old) == IF of(payload) = {} THEN old ELSE LastOf(of(payload))
  IN  [halted  |-> eff.halted \/ of("halt") # {},
       frozen  |-> IF clients = {} THEN eff.frozen
                   ELSE proposal[LastOf(clients)].payload = "freeze",
       upgrade |-> last("upgrade", eff.upgrade),
       change  |-> last("change", eff.change),
       spends  |-> eff.spends \cup of("spend")]

ValidatorVote(p, v, vote) ==
  LET votes == [w \in DOMAIN validatorVote[p] \cup {v} |->
                  IF w = v THEN vote ELSE validatorVote[p][w]]
      passes == /\ IsEmergency(proposal[p].payload)
                /\ EmergencyPass(CurrentTally(p, votes, tallied[p]), TotalPower(p))
  IN
  /\ phase = "deliver"
  /\ Votable(p)
  /\ MayVote(p, v)
  /\ validatorVote' = [validatorVote EXCEPT ![p] = votes]
  /\ IF passes
     THEN /\ effects' = EnactProposal(effects, {p})
          /\ enacted' = [enacted EXCEPT ![p] = @ + 1]
          /\ PutProposalState(p, "Finished", "passed")
     ELSE UNCHANGED <<effects, enacted, proposal, unfinished>>
  /\ UNCHANGED <<height, notes, power, nextId, powerAtStart, voted, untallied,
                 tallied, nft, delivered, phase, stakes>>

\* The proof shows that the note lies before the start position, which is
\* rounded down to the start of the block; the note may be spent, but not
\* before the block in which the proposal started.
\* (Mistake: the start position is not rounded.)
EligibleUnrounded(p, n) ==
  /\ notes[n].created # NoHeight /\ notes[n].created <= proposal[p].start
  /\ ~ (notes[n].spent # NoHeight /\ notes[n].spent < proposal[p].start)

Eligible(p, n) ==
  /\ notes[n].created # NoHeight /\ notes[n].created < proposal[p].start
  /\ ~ (notes[n].spent # NoHeight /\ notes[n].spent < proposal[p].start)

\* mark_nullifier_voted_on_proposal
MarkVoted(p, n) == [voted EXCEPT ![p] = @ \cup {n}]

DelegatorVote(p, n, vote) ==
  /\ phase = "deliver"
  /\ Votable(p)
  /\ Eligible(p, n)
  /\ n \notin voted[p]
  /\ notes[n].validator \in DOMAIN powerAtStart[p]  \* it has rate data
  /\ voted' = MarkVoted(p, n)
  /\ untallied' = [untallied EXCEPT ![p] =
       [m \in DOMAIN @ \cup {n} |-> IF m = n THEN vote ELSE @[m]]]
  /\ UNCHANGED <<height, notes, power, nextId, proposal, unfinished,
                 powerAtStart, validatorVote, tallied, nft, outcomes, phase,
                 stakes>>

\* The author withdraws: the deposit NFT becomes an unbonding deposit NFT.
ProposalWithdraw(p) ==
  /\ phase = "deliver"
  /\ Votable(p)
  /\ nft[p] = "deposit"
  /\ nft' = [nft EXCEPT ![p] = "unbonding_deposit"]
  /\ PutProposalState(p, "Withdrawn", "none")
  /\ UNCHANGED <<height, notes, power, nextId, powerAtStart, ballots, outcomes,
                 phase, stakes>>

\* The NFT that a claim consumes, by outcome.
ClaimNft(outcome) ==
  IF outcome = "failed_withdrawn" THEN "unbonding_deposit" ELSE "deposit"

ProposalDepositClaim(p) ==
  /\ phase = "deliver"
  /\ proposal[p].state = "Finished"
  /\ nft[p] = ClaimNft(proposal[p].outcome)
  /\ nft' = [nft EXCEPT ![p] = proposal[p].outcome]
  /\ PutProposalState(p, "Claimed", proposal[p].outcome)
  /\ UNCHANGED <<height, notes, power, nextId, powerAtStart, ballots, outcomes,
                 phase, stakes>>

-----------------------------------------------------------------------------
(* Delegation notes, which other components create and nullify *)

\* A delegation creates a note; the power follows at the end of the epoch.
DelegateNote(n, v) ==
  /\ phase = "deliver"
  /\ notes[n].created = NoHeight
  /\ notes' = [notes EXCEPT ![n] =
                 [validator |-> v, created |-> height, spent |-> NoHeight]]
  /\ UNCHANGED <<height, power, nextId, proposal, unfinished, powerAtStart,
                 ballots, nft, outcomes, phase, stakes>>

\* A transfer nullifies note n and creates note m.
TransferNote(n, m) ==
  /\ phase = "deliver"
  /\ Live(n)
  /\ notes[m].created = NoHeight
  /\ notes' = [notes EXCEPT ![n].spent = height,
                 ![m] = [validator |-> notes[n].validator, created |-> height,
                         spent |-> NoHeight]]
  /\ UNCHANGED <<height, power, nextId, proposal, unfinished, powerAtStart,
                 ballots, nft, outcomes, phase, stakes>>

-----------------------------------------------------------------------------
(* End of the block *)

\* (Mistake: one block late.)
ReadyLate(p) == p \in unfinished /\ height > proposal[p].end

Ready(p) == p \in unfinished /\ height >= proposal[p].end

\* The outcome that enact_all_passed_proposals gives to a ready proposal.
ConcludedOutcome(p) ==
  IF proposal[p].state = "Withdrawn" THEN "failed_withdrawn"
  ELSE Outcome(CurrentTally(p, validatorVote[p], Swept(p)), TotalPower(p))

Passing == {p \in Proposals : Ready(p) /\ ConcludedOutcome(p) = "passed"}

EnactAll == EnactProposal(effects, Passing)

EpochEnds == (height + 1) % EpochDuration = 0

\* Governance's end_block, then its end_epoch if the epoch ends, where the
\* staking component chooses the active validators of the next one.
EndBlock(active) ==
  LET ready == {p \in Proposals : Ready(p)}
      sweep == IF EpochEnds THEN Proposals ELSE ready
  IN
  /\ phase = "deliver"
  /\ active # {}
  /\ ~ EpochEnds => active = DOMAIN power
  /\ proposal' = [p \in Proposals |->
       IF p \in ready
       THEN [proposal[p] EXCEPT !.state = "Finished", !.outcome = ConcludedOutcome(p)]
       ELSE proposal[p]]
  /\ unfinished' = unfinished \ ready
  /\ effects' = EnactAll
  /\ enacted' = [p \in Proposals |-> IF p \in Passing THEN enacted[p] + 1 ELSE enacted[p]]
  /\ tallied' = [p \in Proposals |-> IF p \in sweep THEN Swept(p) ELSE tallied[p]]
  /\ untallied' = [p \in Proposals |-> IF p \in sweep THEN << >> ELSE untallied[p]]
  /\ power' = IF EpochEnds THEN [v \in active |-> LiveStake(v)] ELSE power
  /\ phase' = "begin"
  /\ UNCHANGED <<height, notes, nextId, powerAtStart, validatorVote, voted, nft,
                 delivered, stakes>>

\* App::begin_block applies the change scheduled for the height, if it still
\* applies, and delivers the Community Pool transactions scheduled for it.
BeginBlock ==
  /\ phase = "begin"
  /\ height < MaxHeight
  /\ height' = height + 1
  /\ delivered' = delivered \cup effects.spends \cup ({effects.change} \ {NoProposal})
  /\ effects' = [effects EXCEPT !.spends = {}, !.change = NoProposal]
  /\ stakeNow' = [v \in Validators |-> LiveStake(v)]
  /\ phase' = "deliver"
  /\ UNCHANGED <<notes, power, nextId, proposal, unfinished, powerAtStart, ballots,
                 nft, enacted, stakeAtStart>>

Init ==
  /\ height = 1
  /\ notes = [n \in Notes |->
       IF n \in DOMAIN GenesisNotes
       THEN [validator |-> GenesisNotes[n], created |-> 0, spent |-> NoHeight]
       ELSE Fresh]
  /\ power = [v \in Validators |->
       Cardinality({n \in DOMAIN GenesisNotes : GenesisNotes[n] = v})]
  /\ stakeNow = power
  /\ nextId = 0
  /\ proposal = [p \in Proposals |-> Absent]
  /\ unfinished = {}
  /\ powerAtStart = [p \in Proposals |-> << >>]
  /\ validatorVote = [p \in Proposals |-> << >>]
  /\ voted = [p \in Proposals |-> {}]
  /\ untallied = [p \in Proposals |-> << >>]
  /\ tallied = [p \in Proposals |-> [v \in Validators |-> ZeroTally]]
  /\ nft = [p \in Proposals |-> "none"]
  /\ effects = [halted |-> FALSE, frozen |-> FALSE, upgrade |-> NoProposal,
                change |-> NoProposal, spends |-> {}]
  /\ delivered = {}
  /\ phase = "deliver"
  /\ enacted = [p \in Proposals |-> 0]
  /\ stakeAtStart = [p \in Proposals |-> [v \in Validators |-> 0]]

Next ==
  \/ \E payload \in Payloads : ProposalSubmit(payload)
  \/ \E p \in Proposals, v \in Validators, vote \in Choices : ValidatorVote(p, v, vote)
  \/ \E p \in Proposals, n \in Notes, vote \in Choices : DelegatorVote(p, n, vote)
  \/ \E p \in Proposals : ProposalWithdraw(p)
  \/ \E p \in Proposals : ProposalDepositClaim(p)
  \/ \E n \in Notes, v \in Validators : DelegateNote(n, v)
  \/ \E n, m \in Notes : TransferNote(n, m)
  \/ \E active \in SUBSET Validators : EndBlock(active)
  \/ BeginBlock

Spec == Init /\ [][Next]_vars

-----------------------------------------------------------------------------
(* Properties *)

VotesFor(p, v) == Cardinality({n \in voted[p] : notes[n].validator = v})

\* However notes move, no more stake votes on a proposal than existed when the
\* block in which it was submitted began: the nullifier sets, the rounded
\* start position and the spend height check leave no way to vote twice.
StakeVotesOnce ==
  \A p \in Proposals, v \in Validators : VotesFor(p, v) <= stakeAtStart[p][v]

\* A validator does not vote for the stake of delegators that voted
\* themselves: unless delegators have more stake than the snapshot gave their
\* validator, a tally does not exceed the voting power it is compared with.
TallyWithinPower ==
  \A p \in Proposals :
    (\A v \in DOMAIN powerAtStart[p] : VotesFor(p, v) <= powerAtStart[p][v])
      => Total(CurrentTally(p, validatorVote[p], tallied[p])) <= TotalPower(p)

\* A proposal is enacted exactly once if it passes, whether it concludes early
\* by a vote or at the end of its last block, and never once withdrawn.
EnactedIffPassed ==
  \A p \in Proposals :
    /\ enacted[p] = IF proposal[p].outcome = "passed" THEN 1 ELSE 0
    /\ nft[p] = "unbonding_deposit" => enacted[p] = 0

\* No proposal outlives its voting period, and the index of unfinished
\* proposals is exact (enact_all_passed_proposals fails, and the chain stops,
\* if it meets a finished one).
ConcludedOnTime ==
  /\ unfinished = {p \in Proposals : proposal[p].state \in {"Voting", "Withdrawn"}}
  /\ \A p \in unfinished : height <= proposal[p].end

\* What a proposal schedules is tried in the very next block, but for a
\* parameter change if another one passed in the same block.
EffectsDelivered ==
  \A p \in Proposals :
    /\ proposal[p].outcome = "passed" /\ proposal[p].payload \in {"change", "spend"}
    /\ height > proposal[p].end
    /\ p \notin delivered
    => /\ proposal[p].payload = "change"
       /\ \E q \in Proposals \ {p} :
            /\ proposal[q].payload = "change" /\ proposal[q].outcome = "passed"
            /\ proposal[q].end = proposal[p].end

\* Every delegator's vote is swept into the tally of its validator.
AllVotesCounted ==
  \A p \in Proposals, v \in Validators :
    VotesFor(p, v) =
      Total(tallied[p][v]) +
      Cardinality({n \in DOMAIN untallied[p] : notes[n].validator = v})

\* A proposal passes by the votes only if the share of yes among yes and no
\* exceeds the pass threshold.
PassedByThreshold ==
  \A p \in Proposals :
    LET t == CurrentTally(p, validatorVote[p], tallied[p]) IN
    proposal[p].outcome = "passed" /\ ~ IsEmergency(proposal[p].payload)
      => Exceeds(t.yes, t.yes + t.no, PassThreshold)
=============================================================================

------------------------------ MODULE ViewSync ------------------------------
(***************************************************************************)
(* How a wallet follows the chain.  The chain puts note commitments and    *)
(* nullifiers in the block it is executing and publishes them as a compact *)
(* block; the worker of the view service scans the compact blocks in order *)
(* into an in-memory state commitment tree and commits what it finds to    *)
(* SQLite, through errors after which it tries again and crashes that lose *)
(* what it had in memory.                                                  *)
(*                                                                         *)
(* A commitment is the note itself, which is unique; a position in the     *)
(* tree is <<block, index>>, epochs left out; a nullifier is a note with a *)
(* position.  All the notes are the wallet's.                              *)
(***************************************************************************)
EXTENDS Integers, Sequences, SequencesExt

CONSTANTS
    GenesisNotes,  \* the values of the notes of the first block, a sequence
    MaxFaults      \* bound: worker errors, and as many crashes of the wallet

VARIABLES
    blocks,       \* the compact blocks; the last one is being executed
    db,           \* SQLite: sync_height, the tree and the spendable notes
    tree,         \* the in-memory tree: its blocks, and the notes it witnesses
    uncommitted,  \* Storage::uncommitted_height, 0 for None
    phase,        \* where the worker is
    faults,       \* the number of faults of each kind so far
    torn          \* history: how far a tree that is ahead of its wallet has got

workerVars == <<db, tree, uncommitted, phase, faults, torn>>

\* "syncing": waiting for the next block; "scanned": the block is in the tree
\* but not recorded; "asleep": after an error, which the error slot holds.
Phases == {"syncing", "scanned", "asleep"}

EmptyBlock == [notes |-> <<>>, nullifiers |-> {}]

EmptyTree == [blocks |-> <<>>, kept |-> {}]

\* mint_note derives the blinding of a note from its position, so that no two
\* notes have one commitment.
NewNote(h, i, value) == [height |-> h, index |-> i, value |-> value]

GenesisBlock ==
    [notes |-> [i \in DOMAIN GenesisNotes |-> NewNote(1, i, GenesisNotes[i])],
     nullifiers |-> {}]

Init ==
    /\ blocks = <<GenesisBlock, EmptyBlock>>
    /\ db = [height |-> 0, tree |-> EmptyTree, notes |-> {}]
    /\ tree = EmptyTree
    /\ uncommitted = 0
    /\ phase = "syncing"
    /\ faults = [errors |-> 0, crashes |-> 0]
    /\ torn = "no"

-----------------------------------------------------------------------------
(* The chain                                                                *)

Executing == Len(blocks)

Committed == Executing - 1

\* The chain's state commitment tree after block h.
Sct(h) == [k \in 1..h |-> blocks[k].notes]

Nullifiers(h) == UNION {blocks[k].nullifiers : k \in 1..h}

MintNote(value) ==
    /\ blocks' = [blocks EXCEPT ![Executing].notes =
                    Append(@, NewNote(Executing, Len(@) + 1, value))]
    /\ UNCHANGED workerVars

FinishBlock ==
    /\ blocks' = Append(blocks, EmptyBlock)
    /\ UNCHANGED workerVars

-----------------------------------------------------------------------------
(* The worker                                                               *)

LastSyncHeight == IF uncommitted # 0 THEN uncommitted ELSE db.height

\* The block sync expects: it skips every other one the stream delivers.
Expected == LastSyncHeight + 1

RequiresScanning(block) == block.notes # <<>> \/ block.nullifiers # {}

Sync ==
    /\ phase = "asleep"
    /\ phase' = "syncing"
    /\ UNCHANGED <<blocks, db, tree, uncommitted, faults, torn>>

ScanBlock ==
    /\ phase = "syncing"
    /\ Expected <= Committed
    /\ tree' = [blocks |-> Append(tree.blocks, blocks[Expected].notes),
                kept   |-> tree.kept \cup ToSet(blocks[Expected].notes)]
    /\ phase' = "scanned"
    /\ UNCHANGED <<blocks, db, uncommitted, faults, torn>>

\* The records of the new notes.  Their positions, and with them their
\* nullifiers, are where the worker's own tree has put them.
NewRecords ==
    { [note |-> n, position |-> <<Len(tree.blocks), n.index>>, spent |-> 0] :
        n \in ToSet(blocks[Expected].notes) }

Nullifier(record) == [note |-> record.note, position |-> record.position]

SpentRecords == {r \in db.notes : Nullifier(r) \in blocks[Expected].nullifiers}

\* An empty block only moves the height in memory: a crash forgets it.
RecordEmptyBlock ==
    /\ ~RequiresScanning(blocks[Expected])
    /\ uncommitted' = Expected
    /\ UNCHANGED <<db, tree, torn>>

\* Mutant: committing the block leaves the height of the empty blocks before it.
KeepUncommitted == uncommitted' = uncommitted

ResetUncommitted == uncommitted' = 0

\* One SQLite transaction: notes, nullifiers, tree and height.
RecordBlock ==
    /\ RequiresScanning(blocks[Expected])
    /\ tree' = [tree EXCEPT !.kept = @ \ {r.note : r \in SpentRecords}]
    /\ db' = [ height |-> Expected,
               tree   |-> tree',
               notes  |-> (db.notes \ SpentRecords) \cup NewRecords
                            \cup {[r EXCEPT !.spent = Expected] : r \in SpentRecords} ]
    /\ ResetUncommitted
    /\ torn' = IF torn = "memory" THEN "disk" ELSE torn

Record ==
    /\ phase = "scanned"
    /\ RecordEmptyBlock \/ RecordBlock
    /\ phase' = "syncing"
    /\ UNCHANGED <<blocks, faults>>

\* The stream ends, or a query of the node or of SQLite fails: sync returns
\* and the in-memory tree stays as it is.
Error ==
    /\ faults.errors < MaxFaults
    /\ phase # "asleep"
    /\ phase' = "asleep"
    /\ faults' = [faults EXCEPT !.errors = @ + 1]
    /\ torn' = IF phase = "scanned" /\ torn = "no" THEN "memory" ELSE torn
    /\ UNCHANGED <<blocks, db, tree, uncommitted>>

\* The process is killed and starts again from SQLite.
Crash ==
    /\ faults.crashes < MaxFaults
    /\ faults' = [faults EXCEPT !.crashes = @ + 1]
    /\ tree' = db.tree
    /\ uncommitted' = 0
    /\ phase' = "syncing"
    /\ torn' = IF torn = "memory" THEN "no" ELSE torn
    /\ UNCHANGED <<blocks, db>>

Worker == Sync \/ ScanBlock \/ Record \/ Error \/ Crash

-----------------------------------------------------------------------------
(* Spending a note                                                          *)

Unspent == {r \in db.notes : r.spent = 0}

\* An authentication path for the note at its recorded position.  The worker
\* holds the tree while it processes a block, and its error stops the service.
Witness(r) ==
    /\ phase = "syncing"
    /\ r.note \in tree.kept
    /\ tree.blocks[r.position[1]][r.position[2]] = r.note

ClaimedAnchor == \E h \in 1..Committed : tree.blocks = Sct(h)

NullifierUnspent(r) == Nullifier(r) \notin Nullifiers(Executing)

\* The wallet builds a spend of a note it has recorded as unspent against the
\* root of its own tree, and the chain executes it.
Spend(r) ==
    /\ r \in Unspent
    /\ Witness(r)
    /\ ClaimedAnchor
    /\ NullifierUnspent(r)
    /\ blocks' = [blocks EXCEPT ![Executing].nullifiers = @ \cup {Nullifier(r)}]
    /\ UNCHANGED workerVars

=============================================================================

---------------------------- MODULE MCGovernance ----------------------------
(***************************************************************************)
(* Governance for TLC.  The whole life of two proposals with one validator *)
(* and one genesis note; the votes alone with two validators and three     *)
(* genesis notes, two of them with the first validator.  The thresholds    *)
(* are the defaults of params.rs.                                          *)
(***************************************************************************)
EXTENDS Governance, TLC

MCGenesisNotes == 1 :> "v1" @@ 2 :> "v1" @@ 3 :> "v2"
MCOne == 1 :> "v1"
MCQuorum == [num |-> 40, den |-> 100]
MCPassThreshold == [num |-> 50, den |-> 100]
MCSlashThreshold == [num |-> 80, den |-> 100]
=============================================================================

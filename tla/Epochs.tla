------------------------------- MODULE Epochs -------------------------------
(***************************************************************************)
(* What the modules that follow the chain block by block have in common.   *)
(***************************************************************************)

CONSTANTS
    EpochDuration, \* the parameter epoch_duration
    MaxHeight      \* bound: the last block

=============================================================================

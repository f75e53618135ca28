-------------------------- MODULE MCDelegationPool --------------------------
(***************************************************************************)
(* DelegationPool for TLC.  The scale is 8: downtime keeps 5/8 and          *)
(* misbehaviour 4/8, so that rates and token amounts both round.            *)
(***************************************************************************)
EXTENDS DelegationPool, TLC

MCKept == "Jailed" :> 5 @@ "Tombstoned" :> 4
=============================================================================

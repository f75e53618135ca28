------------------------- MODULE MCValidatorManager -------------------------
(***************************************************************************)
(* ValidatorManager for TLC: two genesis validators, active until the end  *)
(* of the first epoch and then competing for one place; three keys to      *)
(* rotate between, and a planned upgrade.  An epoch is two blocks and the  *)
(* unbonding delay outlasts it.                                            *)
(***************************************************************************)
EXTENDS ValidatorManager, TLC

MCGenesisTwo == 1 :> "k1" @@ 2 :> "k2"
=============================================================================

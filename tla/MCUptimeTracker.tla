-------------------------- MODULE MCUptimeTracker --------------------------
(***************************************************************************)
(* UptimeTracker for TLC: a window shorter than the run, so that the ring  *)
(* wraps at every offset, and two keys to rotate between.                  *)
(***************************************************************************)
EXTENDS UptimeTracker

=============================================================================

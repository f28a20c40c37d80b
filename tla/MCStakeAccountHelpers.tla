----------------------- MODULE MCStakeAccountHelpers -----------------------
(***************************************************************************)
(* Small instances of StakeAccountHelpers for TLC.                         *)
(***************************************************************************)
EXTENDS StakeAccountHelpers

=============================================================================

----------------------- MODULE MCBlockfrostEpochCache -----------------------
(***************************************************************************)
(* Small instances of BlockfrostEpochCache for TLC.                        *)
(***************************************************************************)
EXTENDS BlockfrostEpochCache

=============================================================================

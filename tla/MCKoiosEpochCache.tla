-------------------------- MODULE MCKoiosEpochCache --------------------------
(***************************************************************************)
(* Small instances of KoiosEpochCache for TLC.                             *)
(***************************************************************************)
EXTENDS KoiosEpochCache

=============================================================================

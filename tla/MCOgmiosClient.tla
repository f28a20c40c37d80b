--------------------------- MODULE MCOgmiosClient ---------------------------
(***************************************************************************)
(* Small instances of OgmiosClient for TLC.                                *)
(***************************************************************************)
EXTENDS OgmiosClient

=============================================================================

----- MODULE MCTipUtxos -----
(* Small instances of TipUtxos for TLC. *)
EXTENDS TipUtxos

=============================================================================

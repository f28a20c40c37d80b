----- MODULE MCTipParameters -----
(* Small instances of TipParameters for TLC. *)
EXTENDS TipParameters

=============================================================================

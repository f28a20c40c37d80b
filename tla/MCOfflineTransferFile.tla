----------------------- MODULE MCOfflineTransferFile -----------------------
(***************************************************************************)
(* Small instances of OfflineTransferFile for TLC.                         *)
(***************************************************************************)
EXTENDS OfflineTransferFile, TLC

\* Contexts and transactions are interchangeable.
Symmetry == Permutations(Contexts) \cup Permutations(Txs)

=============================================================================

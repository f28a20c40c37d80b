----------------------------- MODULE ChainViews -----------------------------
(***************************************************************************)
(* What the status modules share.  Each follows one subject (a stake pool, *)
(* a governance action, ...) through the ledger, and defines what every    *)
(* backend answers about it.                                               *)
(*                                                                         *)
(* An answer is a set: the results a call may return, none when it raises. *)
(* A call that makes several requests reads the ledger at several moments: *)
(* its operator then takes one ledger for each.                            *)
(***************************************************************************)
EXTENDS Naturals, Sequences, FiniteSets

CONSTANTS
    None,     \* no value
    MaxEpoch  \* bound: the last epoch

ASSUME MaxEpochAssumption == MaxEpoch \in Nat
ASSUME NoneAssumption == None \notin Nat

Epochs == 0..MaxEpoch

\* What the epoch property of Yaci DevKit's and of Blockfrost's context may answer
\* in the epoch now.  Yaci keeps the first one it reads, and takes a reply it
\* cannot use for epoch 0; over Blockfrost another property may have consumed
\* every end since (BlockfrostEpochCache).
CachedEpochs(now) == 0..now

\* The elements of a set of records that come last in the order Before(_, _).
Newest(S, Before(_, _)) == {c \in S : \A d \in S : ~Before(c, d)}

Elements(s) == {s[i] : i \in DOMAIN s}

-----------------------------------------------------------------------------
(***************************************************************************)
(* Certificates in the order they land.  A ledger l has the current slot   *)
(* and a log; a certificate has a slot, a transaction, an index within it  *)
(* and its number in the log.                                              *)
(***************************************************************************)

\* Where the next certificate may stand: in a new block, or in the block of
\* the last one, in its transaction or in another.
Places(l) ==
    LET n == Len(l.log) + 1
        last == l.log[n - 1]
    IN  {[slot |-> l.slot + 1, tx |-> n, index |-> 0, number |-> n]}
        \cup (IF n = 1 \/ last.slot # l.slot THEN {}
              ELSE {[slot |-> l.slot, tx |-> last.tx, index |-> last.index + 1, number |-> n],
                    [slot |-> l.slot, tx |-> n, index |-> 0, number |-> n]})

LastOf(certificates) ==
    CHOOSE c \in certificates : \A d \in certificates : d.number <= c.number

\* No two certificates share a block.
SpreadOut(l) == \A c, d \in Elements(l.log) : c.slot = d.slot => c = d

\* The order Yaci's rows are sorted in: by slot, then by cert_index, which
\* counts within a transaction.
YaciBefore(c, d) == c.slot < d.slot \/ (c.slot = d.slot /\ c.index < d.index)

=============================================================================

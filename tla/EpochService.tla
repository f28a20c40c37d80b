---------------------------- MODULE EpochService ----------------------------
(***************************************************************************)
(* What the epoch caches of the Blockfrost and Koios contexts are kept     *)
(* against: the wall clock, and the epoch the remote service reports.      *)
(* Both are counted in epochs.  An epoch e has ended, for a client that    *)
(* compares its end_time with the clock, when clock > e.                   *)
(***************************************************************************)
EXTENDS Naturals

CONSTANT MaxEpoch  \* bound: the last epoch of a run

ASSUME MaxEpochAssumption == MaxEpoch \in Nat \ {0}

VARIABLES
    clock,  \* the epoch the wall clock is in
    chain   \* the latest epoch the service reports

serviceVars == <<clock, chain>>

Epochs == 0..MaxEpoch

ServiceTypeOK == clock \in Epochs /\ chain \in Epochs

\* A service reports a new epoch once it has a block of it, so it lags.
ServiceInit == clock \in {0, 1} /\ chain \in 0..clock

ClockTicks ==
    /\ clock < MaxEpoch
    /\ clock' = clock + 1
    /\ UNCHANGED chain

ServiceCatchesUp ==
    /\ chain < clock
    /\ chain' = chain + 1
    /\ UNCHANGED clock

ServiceNext == ClockTicks \/ ServiceCatchesUp

=============================================================================

---------------------------- MODULE OfflineClock ----------------------------
(***************************************************************************)
(* The clock of a chain, and the slot and epoch an OfflineTransferFile     *)
(* context computes from the captured genesis parameters and the time of   *)
(* its host.                                                               *)
(***************************************************************************)
EXTENDS ChainViews

CONSTANTS
    Geneses,  \* the genesis parameters of the chains considered
    Horizon   \* bound: the seconds the clock goes on in the Shelley era

\* A genesis has its network, the epochs of its Byron era, k, the lengths of
\* a Byron slot (slotDuration) and of a Shelley slot (slotLength) in ms, and
\* the slots of a Shelley epoch (epochLength).
ASSUME ClockAssumption ==
    /\ Horizon \in Nat
    /\ \A g \in Geneses :
          /\ g.byronEpochs \in Nat /\ g.k \in Nat /\ g.slotDuration \in Nat
          /\ g.slotLength \in Nat /\ g.epochLength \in Nat \ {0}

VARIABLES
    genesis, \* the chain's genesis
    zone,    \* the host's offset from UTC, in s; systemStart is read in it
    time,    \* the time since the start of the chain, in ms
    slot, epoch, slotInEpoch, msInSlot, \* what the chain counts
    tip      \* the cached last_block_slot and since when, if there is one

clockVars == <<genesis, zone, time, slot, epoch, slotInEpoch, msInSlot, tip>>

-----------------------------------------------------------------------------
(***************************************************************************)
(* The chain: it counts slots of one length until the Byron era is over,   *)
(* and of another from then on.                                            *)
(***************************************************************************)
Step == 500 \* ms between two readings of the host's clock

Byron == epoch < genesis.byronEpochs
SlotMs == IF Byron THEN genesis.slotDuration ELSE genesis.slotLength
EpochSlots == IF Byron THEN 10 * genesis.k ELSE genesis.epochLength

ByronMs == genesis.byronEpochs * 10 * genesis.k * genesis.slotDuration

Second == time \div 1000

NoTip == [slot |-> None, at |-> None]

ClockAdvances ==
    /\ time < ByronMs + 1000 * Horizon
    /\ time' = time + Step
    /\ LET slotEnds == msInSlot + Step = SlotMs
           epochEnds == slotEnds /\ slotInEpoch + 1 = EpochSlots
       IN  /\ msInSlot' = IF slotEnds THEN 0 ELSE msInSlot + Step
           /\ slot' = IF slotEnds THEN slot + 1 ELSE slot
           /\ slotInEpoch' = CASE epochEnds -> 0
                               [] slotEnds /\ ~epochEnds -> slotInEpoch + 1
                               [] OTHER -> slotInEpoch
           /\ epoch' = IF epochEnds THEN epoch + 1 ELSE epoch
    /\ tip' = IF tip # NoTip /\ time' >= tip.at + 1000 THEN NoTip ELSE tip
    /\ UNCHANGED <<genesis, zone>>

-----------------------------------------------------------------------------
(***************************************************************************)
(* The context.                                                            *)
(***************************************************************************)
\* byron_to_shelley_epoch_transition, whose second argument nobody passes.
Transition(network) ==
    CASE network = "mainnet" -> 208
      [] network = "preprod" -> 4
      [] network = "guildnet" -> 2
      [] OTHER -> 0

\* epoch, whose host takes the captured systemStart for its local time.
OfflineEpoch(seconds) == (seconds + zone) \div genesis.epochLength

\* Faulty form: the slots of the Byron era are not counted.
OfflineSlotOfShelley(ms) ==
    LET endMs == Transition(genesis.network) * 10 * genesis.k * genesis.slotDuration
        slotLength == genesis.slotLength \div 1000
    IN  CASE ms < endMs -> {ms \div genesis.slotDuration}
          [] ms >= endMs /\ slotLength = 0 -> {}
          [] OTHER -> {(ms - endMs) \div (1000 * slotLength)}

\* last_block_slot when it is computed, once a second: a slot length under a second is cut
\* to none, and the division by it raises.
OfflineSlot(ms) ==
    LET byronSlots == Transition(genesis.network) * 10 * genesis.k
        endMs == byronSlots * genesis.slotDuration
        slotLength == genesis.slotLength \div 1000
    IN  CASE ms < endMs -> {ms \div genesis.slotDuration}
          [] ms >= endMs /\ slotLength = 0 -> {}
          [] OTHER -> {byronSlots + (ms - endMs) \div (1000 * slotLength)}

SlotRead ==
    /\ tip = NoTip
    /\ \E s \in OfflineSlot(1000 * Second) : tip' = [slot |-> s, at |-> time]
    /\ UNCHANGED <<genesis, zone, time, slot, epoch, slotInEpoch, msInSlot>>

\* What chain_tip answers while the slot is cached.
ChainTip == [slot |-> tip.slot, epoch |-> OfflineEpoch(Second)]

ClockInit ==
    /\ genesis \in Geneses /\ zone \in {0, 3600}
    /\ time = 0 /\ slot = 0 /\ epoch = 0 /\ slotInEpoch = 0 /\ msInSlot = 0
    /\ tip = NoTip

ClockNext == ClockAdvances \/ SlotRead

ClockSpec == ClockInit /\ [][ClockNext]_clockVars

-----------------------------------------------------------------------------
\* The epoch and the slot are the chain's, and a cached slot is at most one
\* behind, on a host in UTC, of a chain that leaves Byron when the table
\* says, whose Shelley slots last one second, whose Byron slots last whole
\* seconds and whose Byron epochs last as many seconds as its Shelley ones
\* have slots.
ClockIsRight ==
    /\ zone = 0
    /\ Transition(genesis.network) = genesis.byronEpochs
    /\ genesis.slotLength = 1000 /\ genesis.slotDuration % 1000 = 0
    /\ genesis.byronEpochs > 0 => 10 * genesis.k * genesis.slotDuration = 1000 * genesis.epochLength
    => /\ ChainTip.epoch = epoch
       /\ OfflineSlot(1000 * Second) = {slot}
       /\ tip # NoTip => tip.slot \in {slot - 1, slot}

=============================================================================

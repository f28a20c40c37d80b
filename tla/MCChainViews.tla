---------------------------- MODULE MCChainViews ----------------------------
(***************************************************************************)
(* The status modules side by side, each behaviour about one subject: what *)
(* is reachable is the sum of what each module reaches, not the product.   *)
(***************************************************************************)
EXTENDS StakePoolViews, DRepViews, GovActionViews, CommitteeViews, OutputViews,
        KesViews, OfflineClock

Genesis(network, byronEpochs, k, slotDuration, slotLength, epochLength) ==
    [network |-> network, byronEpochs |-> byronEpochs, k |-> k,
     slotDuration |-> slotDuration, slotLength |-> slotLength, epochLength |-> epochLength]

\* The public networks with epochs of a few slots, and chains that break one
\* of the conditions of ClockIsRight each.
MCGeneses ==
    {Genesis("mainnet", 208, 1, 1000, 1000, 10), Genesis("preprod", 4, 1, 2000, 1000, 20),
     Genesis("guildnet", 2, 1, 500, 1000, 5),    Genesis("preview", 0, 1, 2000, 1000, 7),
     Genesis("preprod", 4, 1, 2000, 1000, 15),   Genesis("custom", 1, 1, 2000, 1000, 20),
     Genesis("custom", 0, 1, 1000, 500, 10),     Genesis("sanchonet", 0, 1, 1000, 1500, 10)}

VARIABLE subject

vars == <<subject, poolVars, dRepVars, actionVars, committeeVars, outputVars, kesVars, clockVars>>

Subjects == {"pool", "dRep", "action", "committee", "outputs", "kes", "clock"}

Init ==
    /\ subject \in Subjects
    /\ PoolInit /\ DRepInit /\ ActionInit /\ CommitteeInit /\ OutputInit /\ KesInit /\ ClockInit
    /\ subject # "action" => action.lifetime = CHOOSE n \in Lifetimes : TRUE
    /\ subject # "committee" => \A c \in Cold : committee.members[c].expiration = 0
    /\ subject # "outputs" => ~newestFirst
    /\ subject # "clock" => zone = 0 /\ genesis = CHOOSE g \in Geneses : TRUE

Next ==
    /\ UNCHANGED subject
    /\ \/ /\ subject = "pool" /\ PoolNext
          /\ UNCHANGED <<dRepVars, actionVars, committeeVars, outputVars, kesVars, clockVars>>
       \/ /\ subject = "dRep" /\ DRepNext
          /\ UNCHANGED <<poolVars, actionVars, committeeVars, outputVars, kesVars, clockVars>>
       \/ /\ subject = "action" /\ ActionNext
          /\ UNCHANGED <<poolVars, dRepVars, committeeVars, outputVars, kesVars, clockVars>>
       \/ /\ subject = "committee" /\ CommitteeNext
          /\ UNCHANGED <<poolVars, dRepVars, actionVars, outputVars, kesVars, clockVars>>
       \/ /\ subject = "outputs" /\ OutputNext
          /\ UNCHANGED <<poolVars, dRepVars, actionVars, committeeVars, kesVars, clockVars>>
       \/ /\ subject = "kes" /\ KesNext
          /\ UNCHANGED <<poolVars, dRepVars, actionVars, committeeVars, outputVars, clockVars>>
       \/ /\ subject = "clock" /\ ClockNext
          /\ UNCHANGED <<poolVars, dRepVars, actionVars, committeeVars, outputVars, kesVars>>

Spec == Init /\ [][Next]_vars

=============================================================================

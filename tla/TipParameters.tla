--------------------------- MODULE TipParameters ---------------------------
(***************************************************************************)
(* protocol_param of the Ogmios and cardano-cli contexts.                  *)
(*                                                                         *)
(* The parameters are refetched when _is_chain_tip_updated says so.  It    *)
(* looks at the tip at most once per _refetch_chain_tip_interval: with     *)
(* Ogmios it compares the tip's slot with the last one it saw, with        *)
(* cardano-cli it asks whether the node is still syncing.                  *)
(***************************************************************************)
EXTENDS ChainTip

CONSTANTS
    DefaultInterval,  \* DEFAULT_REFETCH_INTERVAL
    BlockInterval     \* the expected block interval, from the genesis

ASSUME IntervalsAssumption ==
    /\ BlockInterval \in Nat \ {0}
    /\ DefaultInterval \in Nat
    /\ BlockInterval < DefaultInterval

VARIABLES
    backend,    \* "ogmios" or "cli"
    synced,     \* whether the node reports a syncProgress of 100
    interval,   \* _refetch_chain_tip_interval
    lastFetch,  \* _last_chain_tip_fetch
    lastSlot,   \* _last_known_block_slot
    protocol,   \* _protocol_param
    pc,         \* "idle", or the request the current call makes next
    behind      \* whether a request has failed since the last fetch

cacheVars == <<interval, lastFetch, lastSlot, protocol>>
vars == <<tipVars, backend, synced, cacheVars, pc, behind>>

\* The cardano-cli context reads the genesis file in its constructor.
FirstInterval == IF backend = "ogmios" THEN DefaultInterval ELSE BlockInterval

Init ==
    /\ TipInit
    /\ backend \in {"ogmios", "cli"}
    /\ synced \in (IF backend = "cli" THEN BOOLEAN ELSE {TRUE})
    /\ interval = FirstInterval
    /\ lastFetch = None
    /\ lastSlot = 0
    /\ protocol = None
    /\ pc = "idle"
    /\ behind = FALSE

Goto(from, to) == pc = from /\ pc' = to /\ UNCHANGED <<backend, behind>>

CatchUp ==
    /\ ~synced
    /\ synced' = TRUE
    /\ UNCHANGED <<tipVars, backend, cacheVars, pc, behind>>

\* The interval has passed since the last check, if there was one.
CheckDue == lastFetch \notin {t \in Times : now < t + interval}

ReadMissing ==
    /\ protocol = None
    /\ Goto("idle", "fetch")
    /\ Begins
    /\ UNCHANGED <<nodeVars, reply, memo, synced, cacheVars>>

\* Faulty form: a read puts the next check off.
ReadCachedDefers ==
    /\ protocol # None /\ ~CheckDue
    /\ Goto("idle", "idle")
    /\ lastFetch' = now
    /\ AnswersAtOnce(protocol)
    /\ UNCHANGED <<nodeVars, reply, memo, synced, interval, lastSlot, protocol>>

ReadCached ==
    /\ protocol # None /\ ~CheckDue
    /\ Goto("idle", "idle")
    /\ AnswersAtOnce(protocol)
    /\ UNCHANGED <<nodeVars, reply, memo, synced, cacheVars>>

\* _is_chain_tip_updated notes the time and goes on to query the tip.
ReadDue ==
    /\ protocol # None /\ CheckDue
    /\ Goto("idle", "check")
    /\ lastFetch' = now
    /\ Begins
    /\ UNCHANGED <<nodeVars, reply, memo, synced, interval, lastSlot, protocol>>

\* The node replies to the request for its tip, which last_block_slot makes
\* when it keeps no slot, or to the one for the parameters.
NodeServes ==
    /\ \/ pc = "slot" /\ ~Memoised
       \/ pc = "check" /\ backend = "ogmios" /\ ~Memoised
       \/ pc = "fetch"
    /\ NodeReplies
    /\ UNCHANGED <<backend, synced, cacheVars, pc, behind>>

\* The slot has grown, or the node is syncing: fetch.
TipMoved ==
    \/ /\ backend = "ogmios"
       /\ SlotKnown /\ lastSlot < LastBlockSlot
       /\ lastSlot' = LastBlockSlot
       /\ KeepSlot
    \/ /\ backend = "cli"
       /\ ~synced
       /\ UNCHANGED <<lastSlot, reply, memo>>

\* It has not: answer from the cache.
TipSame ==
    \/ /\ backend = "ogmios"
       /\ SlotKnown /\ LastBlockSlot <= lastSlot
       /\ KeepSlot
       /\ UNCHANGED lastSlot
    \/ /\ backend = "cli"
       /\ synced
       /\ UNCHANGED <<lastSlot, reply, memo>>

CheckMoved ==
    /\ Goto("check", "fetch")
    /\ TipMoved
    /\ GoesOn
    /\ UNCHANGED <<nodeVars, synced, interval, lastFetch, protocol>>

CheckSame ==
    /\ Goto("check", "idle")
    /\ TipSame
    /\ Answers(protocol)
    /\ UNCHANGED <<nodeVars, synced, interval, lastFetch, protocol>>

FetchAnswers ==
    /\ pc = "fetch" /\ reply # None
    /\ pc' = "idle"
    /\ protocol' = reply.version
    /\ Answers(reply.version)
    /\ reply' = None
    /\ behind' = FALSE
    /\ UNCHANGED <<nodeVars, memo, backend, synced, interval, lastFetch, lastSlot>>

\* last_block_slot read by a caller, or by a UTxO lookup.
ReadSlot ==
    /\ Goto("idle", "slot")
    /\ Begins
    /\ UNCHANGED <<nodeVars, reply, memo, synced, cacheVars>>

SlotIsRead ==
    /\ SlotKnown
    /\ Goto("slot", "idle")
    /\ KeepSlot
    /\ GoesOn
    /\ UNCHANGED <<nodeVars, synced, cacheVars>>

\* genesis_param of the Ogmios context replaces a default interval, once.
ReadGenesis ==
    /\ backend = "ogmios"
    /\ interval = DefaultInterval
    /\ Goto("idle", "genesis")
    /\ Begins
    /\ UNCHANGED <<nodeVars, reply, memo, synced, cacheVars>>

GenesisAnswers ==
    /\ Goto("genesis", "idle")
    /\ interval' = BlockInterval
    /\ GoesOn
    /\ UNCHANGED <<nodeVars, reply, memo, synced, lastFetch, lastSlot, protocol>>

\* A request raises, and with it the call; nothing is undone.
RequestFails ==
    /\ pc # "idle"
    /\ pc' = "idle"
    /\ reply' = None
    /\ behind' = (behind \/ pc \in {"check", "fetch"})
    /\ GoesOn
    /\ UNCHANGED <<nodeVars, memo, backend, synced, cacheVars>>

Next ==
    \/ NodeNext /\ UNCHANGED <<backend, synced, cacheVars, pc, behind>>
    \/ CatchUp
    \/ ReadMissing \/ ReadCached \/ ReadDue
    \/ NodeServes
    \/ CheckMoved \/ CheckSame \/ FetchAnswers
    \/ ReadSlot \/ SlotIsRead
    \/ ReadGenesis \/ GenesisAnswers
    \/ RequestFails

Spec == Init /\ [][Next]_vars

-----------------------------------------------------------------------------
TypeOK ==
    /\ TipTypeOK
    /\ backend \in {"ogmios", "cli"}
    /\ synced \in BOOLEAN
    /\ behind \in BOOLEAN
    /\ interval \in {DefaultInterval, BlockInterval}
    /\ lastFetch \in Times \cup {None}
    /\ lastSlot \in Times
    /\ protocol \in Versions \cup {None}
    /\ pc \in {"idle", "slot", "check", "fetch", "genesis"}

\* "Seconds between chain tip checks that decide whether cached protocol
\* parameters are stale", while no request has failed since the last fetch,
\* which makes good every failure before it.  Over Ogmios, while the node
\* stays on one chain, an answer is older than the interval by no more than
\* the age of the slot that the check compared, which last_block_slot may
\* have kept for a second.  Over a cardano-cli that still syncs it is never
\* older than the interval, whatever the forks.  (Of a synced node's
\* parameters no age is promised: they are not fetched again.)
ParamsWithinInterval ==
    ~behind =>
        /\ backend = "ogmios" /\ ~forked =>
              AsRecentAs(Latency + Kept(Second) + Kept(interval))
        /\ backend = "cli" /\ ~synced => AsRecentAs(Kept(interval))

=============================================================================

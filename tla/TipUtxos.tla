------------------------------ MODULE TipUtxos ------------------------------
(***************************************************************************)
(* _utxos of the Ogmios and cardano-cli contexts, and of Kupo around one   *)
(* of them: the UTxOs of an address, kept in a TTLCache by the slot of the *)
(* tip.  Kupo has a cache of its own, keyed by the slot of the context it  *)
(* wraps; on a miss it asks its own index or, without one, the _utxos of   *)
(* the wrapped context, which answers from its own cache.  One address is  *)
(* modelled: the entries of others are independent.                        *)
(***************************************************************************)
EXTENDS ChainTip

CONSTANTS
    NodeTtl,  \* the time an entry lives in the node context's cache
    KupoTtl,  \* ... in Kupo's
    IndexLag  \* how far Kupo's index may be behind the node

ASSUME TtlAssumption ==
    NodeTtl \in Nat \ {0} /\ KupoTtl \in Nat \ {0} /\ IndexLag \in Nat

Layers == {"node", "kupo"}

VARIABLES
    source,   \* "node": no Kupo; "wrapped": Kupo without an index; "index"
    entries,  \* _utxo_cache of each: entries[l][s] was stored under slot s
    key,      \* the slot the current call of each looks up
    layer,    \* whose _utxos runs
    stage     \* "idle", or what it does next

utxoVars == <<tipVars, source, entries, key, layer, stage>>

\* The context that the caller has.
Outer == IF source = "node" THEN "node" ELSE "kupo"

UtxosInit ==
    /\ TipInit
    /\ source \in {"node", "wrapped", "index"}
    /\ entries = [l \in Layers |-> [s \in Slots |-> None]]
    /\ key = [l \in Layers |-> 0]
    /\ layer = Outer
    /\ stage = "idle"

Moves(from, to) == stage = from /\ stage' = to /\ UNCHANGED source

\* Faulty form: entries live on.
LiveForever(l, s) == entries[l][s] # None

Ttl(l) == IF l = "node" THEN NodeTtl ELSE KupoTtl
Live(l, s) == entries[l][s] # None /\ now < entries[l][s].at + Ttl(l)

Lookup ==
    /\ Moves("idle", "slot")
    /\ layer' = Outer
    /\ Begins
    /\ UNCHANGED <<nodeVars, reply, memo, entries, key>>

SlotReplies ==
    /\ stage = "slot"
    /\ ~Memoised
    /\ NodeReplies
    /\ UNCHANGED <<source, entries, key, layer, stage>>

\* last_block_slot gives the key; then "key in self._utxo_cache".
SlotAnswers ==
    /\ SlotKnown
    /\ Moves("slot", IF Live(layer, LastBlockSlot) THEN "hit" ELSE "fetch")
    /\ key' = [key EXCEPT ![layer] = LastBlockSlot]
    /\ KeepSlot
    /\ GoesOn
    /\ UNCHANGED <<nodeVars, entries, layer>>

\* _utxos returns: to the caller, or to Kupo's.
Returns(from, list) ==
    \/ /\ layer = Outer
       /\ Moves(from, "idle")
       /\ Answers(list)
       /\ reply' = None
       /\ UNCHANGED layer
    \/ /\ layer # Outer
       /\ Moves(from, "fetch")
       /\ GoesOn
       /\ reply' = [slot |-> key[layer], version |-> list, at |-> now]
       /\ layer' = Outer

\* "return self._utxo_cache[key]".
ReadEntry ==
    /\ Live(layer, key[layer])
    /\ Returns("hit", entries[layer][key[layer]].version)
    /\ UNCHANGED <<nodeVars, memo, entries, key>>

\* The entry expired since the test: KeyError.
EntryExpired ==
    /\ ~Live(layer, key[layer])
    /\ Moves("hit", "idle")
    /\ GoesOn
    /\ UNCHANGED <<nodeVars, reply, memo, entries, key, layer>>

\* Kupo's miss without an index: "self._wrapped_backend.utxos(address)".
CallWrapped ==
    /\ source = "wrapped" /\ layer = "kupo" /\ reply = None
    /\ Moves("fetch", "slot")
    /\ layer' = "node"
    /\ GoesOn
    /\ UNCHANGED <<nodeVars, reply, memo, entries, key>>

NodeLists ==
    /\ stage = "fetch" /\ layer = "node"
    /\ NodeReplies
    /\ UNCHANGED <<source, entries, key, layer, stage>>

\* Kupo's index lists what the node had some time ago.
IndexLists ==
    /\ stage = "fetch" /\ source = "index" /\ reply = None
    /\ \E v \in seen[Ago(now, IndexLag)]..version :
          reply' = [slot |-> key[layer], version |-> v, at |-> now]
    /\ GoesOn
    /\ UNCHANGED <<nodeVars, memo, source, entries, key, layer, stage>>

StoreList ==
    /\ reply # None
    /\ Returns("fetch", reply.version)
    /\ entries' = [entries EXCEPT ![layer][key[layer]] =
                                     [version |-> reply.version, at |-> now]]
    /\ UNCHANGED <<nodeVars, memo, key>>

\* A request raises, and with it the call.
LookupFails ==
    /\ stage \in {"slot", "fetch"}
    /\ stage' = "idle"
    /\ reply' = None
    /\ GoesOn
    /\ UNCHANGED <<nodeVars, memo, source, entries, key, layer>>

UtxosNext ==
    \/ NodeNext /\ UNCHANGED <<source, entries, key, layer, stage>>
    \/ Lookup \/ SlotReplies \/ SlotAnswers \/ ReadEntry \/ EntryExpired
    \/ CallWrapped \/ NodeLists \/ IndexLists \/ StoreList \/ LookupFails

UtxosSpec == UtxosInit /\ [][UtxosNext]_utxoVars

-----------------------------------------------------------------------------
UtxosTypeOK ==
    /\ TipTypeOK
    /\ source \in {"node", "wrapped", "index"}
    /\ entries \in [Layers -> [Slots -> [version : Versions, at : 0..now] \cup {None}]]
    /\ key \in [Layers -> Slots]
    /\ layer \in Layers
    /\ stage \in {"idle", "slot", "hit", "fetch"}

\* While the node stays on one chain, a list of UTxOs that is the node's, or
\* of one cache or two on top of it, is at least as recent as the tip was a
\* second before its call began, whatever fails: the slot it is looked up by
\* is no older, and an entry covers its slot.  (An index that lags may have
\* put an older list under a slot.)
UtxosFollowTip == ~forked /\ source # "index" => AsRecentAs(Latency + Kept(Second))

\* How old a list may be when the cache of a context is given it.
SourceAge(l) ==
    IF l = "node" THEN 0 ELSE IF source = "index" THEN IndexLag ELSE Latency + Kept(NodeTtl)

\* When the node switches forks the slot may be one an entry is kept under,
\* and a list is then as old as the caches it comes through allow: the lives
\* of their entries, and the age of what they were given, add up.
UtxosWithinTtl == AsRecentAs(SourceAge(Outer) + Latency + Kept(Ttl(Outer)))

=============================================================================

--------------------------- MODULE ChainTipProofs ---------------------------
(***************************************************************************)
(* Proofs about TipUtxos and TipParameters, for any times, versions,       *)
(* intervals, latencies and lives of entries.  What both rest on, the      *)
(* chain and last_block_slot, comes first.                                 *)
(***************************************************************************)
EXTENDS TipUtxos, TipParameters, TLAPS

LEMMA AgoIsBefore ==
    ASSUME NEW t \in Nat, NEW age \in Nat
    PROVE  Ago(t, age) \in 0..t
  BY DEF Ago

\* What is not longer ago than that comes after it.
LEMMA AgoIsFirst ==
    ASSUME NEW t \in Nat, NEW age \in Nat, NEW u \in Nat, t <= u + age
    PROVE  Ago(t, age) <= u
  BY DEF Ago

\* Ages add up: a moment b before t comes before a moment a before u.
LEMMA AgoOrder ==
    ASSUME NEW t \in Nat, NEW b \in Nat, NEW u \in Nat, NEW a \in Nat, t + a <= u + b
    PROVE  Ago(t, b) <= Ago(u, a)
  BY DEF Ago

-----------------------------------------------------------------------------
LEMMA TipTypeInitially == TipInit => TipTypeOK
<1> SUFFICES ASSUME TipInit PROVE TipTypeOK
  OBVIOUS
<1> USE BoundsAssumption DEF TipInit, Times, Slots, Versions
<1>1. seen \in [Times -> Versions] /\ tips \in [Slots -> Versions]
  OBVIOUS
<1>2. now \in Times /\ slot \in Slots /\ version \in Versions /\ began \in 0..now
  OBVIOUS
<1> QED BY <1>1, <1>2 DEF TipTypeOK

LEMMA NodeTypeStep == TipTypeOK /\ NodeNext => TipTypeOK' /\ now <= now'
<1> SUFFICES ASSUME TipTypeOK, NodeNext PROVE TipTypeOK' /\ now <= now'
  OBVIOUS
<1> USE NoneAssumption, BoundsAssumption DEF TipTypeOK, Times, Slots, Versions
<1>1. CASE Tick
  BY <1>1 DEF Tick
<1>2. ASSUME NEW s \in Slots, NEW v \in Versions, TipBecomes(s, v)
      PROVE  UNCHANGED forked => TipTypeOK' /\ now <= now'
  <2>1. tips' \in [Slots -> Versions]
    BY <1>2 DEF TipBecomes
  <2> QED BY <1>2, <2>1 DEF TipBecomes
<1>3. CASE NewBlock
  BY <1>2, <1>3 DEF NewBlock
<1>4. CASE Rollback
  <2>1. PICK s \in 0..slot : TipBecomes(s, version + 1)
    BY <1>4 DEF Rollback
  <2>2. s \in Slots /\ version + 1 \in Versions /\ forked' = TRUE
    BY <1>4 DEF Rollback
  <2>3. tips' \in [Slots -> Versions]
    BY <2>1, <2>2 DEF TipBecomes
  <2> QED BY <2>1, <2>2, <2>3 DEF TipBecomes
<1> QED BY <1>1, <1>3, <1>4 DEF NodeNext

\* What a step of a context has to leave in its type.
LEMMA TipTypeCall ==
    ASSUME TipTypeOK, UNCHANGED nodeVars,
           reply' \in {None, reply} \cup [slot : Slots, version : Versions, at : 0..now],
           memo' \in {None, memo} \cup [slot : Slots, at : 0..now],
           began' \in {began, now},
           answer' \in Versions \cup {None, answer}
    PROVE  TipTypeOK'
<1>1. UNCHANGED <<now, slot, version, seen, tips, forked>>
  BY DEF nodeVars
<1>2. began' \in 0..now
  BY BoundsAssumption DEF TipTypeOK, Times
<1> QED BY <1>1, <1>2 DEF TipTypeOK, Times, Slots, Versions

LEMMA NodeRepliesTyped ==
    TipTypeOK /\ NodeReplies =>
        reply' \in [slot : Slots, version : Versions, at : 0..now]
  BY BoundsAssumption DEF TipTypeOK, NodeReplies, Times

LEMMA KeepSlotTyped ==
    ASSUME TipTypeOK, SlotKnown, KeepSlot
    PROVE  /\ LastBlockSlot \in Slots
           /\ memo' \in {None, memo} \cup [slot : Slots, at : 0..now]
           /\ reply' = None
<1>1. LastBlockSlot \in Slots
  BY DEF TipTypeOK, SlotKnown, Memoised, LastBlockSlot
<1>2. now \in 0..now
  BY BoundsAssumption DEF TipTypeOK, Times
<1> QED BY <1>1, <1>2 DEF TipTypeOK, KeepSlot

-----------------------------------------------------------------------------
(***************************************************************************)
(* Versions only grow, in time and along the chain, and the past is not    *)
(* rewritten; on one chain neither is the chain.                           *)
(***************************************************************************)
Grows ==
    /\ \A t \in 0..now : seen[t] <= version
    /\ \A t, u \in 0..now : t <= u => seen[t] <= seen[u]
    /\ \A s \in Slots : tips[s] <= version
    /\ \A s, u \in Slots : s <= u => tips[s] <= tips[u]
    /\ tips[slot] = version

LEMMA GrowsInitially == TipInit => Grows
  BY BoundsAssumption DEF TipInit, Grows, Times, Slots

LEMMA TipBecomesGrows ==
    ASSUME TipTypeOK, Grows, NEW s \in Slots, NEW v \in Nat, version <= v, TipBecomes(s, v)
    PROVE  Grows'
<1> USE BoundsAssumption DEF TipTypeOK, Grows, Times, Slots, Versions, TipBecomes
<1>1. \A t \in 0..now' : seen'[t] <= version'
  OBVIOUS
<1>2. \A u \in Slots : tips'[u] = (IF u < s THEN tips[u] ELSE v) /\ tips[u] \in Nat
  OBVIOUS
<1>3. \A u \in Slots : tips'[u] <= version'
  BY <1>2
<1>4. \A u, w \in Slots : u <= w => tips'[u] <= tips'[w]
  BY <1>2
<1>5. tips'[slot'] = version'
  BY <1>2
<1> QED BY <1>1, <1>3, <1>4, <1>5

LEMMA GrowsStep ==
    ASSUME TipTypeOK, Grows, NodeNext \/ UNCHANGED nodeVars
    PROVE  /\ Grows'
           /\ now <= now' /\ version <= version'
           /\ \A t \in 0..now : seen'[t] = seen[t]
<1> USE BoundsAssumption DEF TipTypeOK, Times, Slots, Versions
<1>1. CASE Tick
  BY <1>1 DEF Tick, Grows
<1>2. CASE NewBlock
  <2>1. PICK s \in Slots, v \in {version, version + 1} \cap Versions : TipBecomes(s, v)
    BY <1>2 DEF NewBlock
  <2>2. v \in Nat /\ version \in Nat /\ version <= v
    OBVIOUS
  <2>3. Grows'
    BY <2>1, <2>2, TipBecomesGrows
  <2>4. now' = now /\ now \in Nat /\ version' = v /\ seen' = seen
    BY <2>1 DEF TipBecomes
  <2> QED BY <2>2, <2>3, <2>4
<1>3. CASE Rollback
  <2>1. PICK s \in 0..slot : TipBecomes(s, version + 1)
    BY <1>3 DEF Rollback
  <2>2. s \in Slots /\ version \in Nat /\ version + 1 \in Nat /\ version <= version + 1
    OBVIOUS
  <2>3. Grows'
    BY <2>1, <2>2, TipBecomesGrows
  <2>4. now' = now /\ now \in Nat /\ version' = version + 1 /\ seen' = seen
    BY <2>1 DEF TipBecomes
  <2> QED BY <2>2, <2>3, <2>4
<1>4. CASE UNCHANGED nodeVars
  BY <1>4 DEF nodeVars, Grows
<1> QED BY <1>1, <1>2, <1>3, <1>4 DEF NodeNext

\* What is already on chain stays, unless the node switches forks.
LEMMA ChainStays ==
    ASSUME TipTypeOK, Tick \/ NewBlock \/ UNCHANGED nodeVars
    PROVE  slot <= slot' /\ \A s \in 0..slot : tips'[s] = tips[s]
<1> USE BoundsAssumption DEF TipTypeOK, Times, Slots, Versions
<1>1. CASE Tick \/ UNCHANGED nodeVars
  BY <1>1 DEF Tick, nodeVars
<1>2. CASE NewBlock
  <2>1. PICK s \in Slots, v \in {version, version + 1} \cap Versions :
           slot < s /\ TipBecomes(s, v)
    BY <1>2 DEF NewBlock
  <2> QED BY <2>1 DEF TipBecomes
<1> QED BY <1>1, <1>2

\* What was seen earlier is no more than what was seen later.
LEMMA SeenEarlier ==
    ASSUME TipTypeOK, Grows, NEW t \in Nat, NEW u \in 0..now, t <= u, NEW v \in Nat, seen[u] <= v
    PROVE  seen[t] <= v
<1> USE BoundsAssumption DEF TipTypeOK, Times, Versions
<1>1. t \in 0..now /\ seen[t] <= seen[u]
  BY DEF Grows
<1>2. seen[t] \in Nat /\ seen[u] \in Nat
  BY <1>1
<1> QED BY <1>1, <1>2

-----------------------------------------------------------------------------
(***************************************************************************)
(* last_block_slot, on one chain: the slot kept, and the one a reply has,  *)
(* are tips the chain had when they were read, and a reply is stored in    *)
(* time.                                                                   *)
(***************************************************************************)
Timely == reply # None => now <= reply.at + Latency

MemoIsTip ==
    memo # None => memo.slot <= slot /\ seen[Ago(memo.at, Latency)] <= tips[memo.slot]

ReplyIsTip ==
    reply # None =>
        /\ reply.slot <= slot
        /\ seen[reply.at] <= tips[reply.slot]
        /\ memo # None => memo.slot <= reply.slot

LEMMA TimelyNode == TipTypeOK /\ Timely /\ NodeNext => Timely'
<1> SUFFICES ASSUME TipTypeOK, Timely, NodeNext PROVE Timely'
  OBVIOUS
<1>1. CASE Tick
  BY <1>1, BoundsAssumption DEF Tick, Timely, TipTypeOK, Times
<1>2. CASE UNCHANGED <<now, reply>>
  BY <1>2 DEF Timely
<1> QED BY <1>1, <1>2 DEF NodeNext, NewBlock, Rollback, TipBecomes

LEMMA TipNode ==
    ASSUME TipTypeOK, Grows, Tick \/ NewBlock
    PROVE  (MemoIsTip => MemoIsTip') /\ (ReplyIsTip => ReplyIsTip')
<1> USE BoundsAssumption, NoneAssumption DEF TipTypeOK, Times, Slots
<1>1. /\ UNCHANGED <<memo, reply>>
      /\ slot <= slot' /\ slot' \in Nat
      /\ \A s \in 0..slot : tips'[s] = tips[s]
      /\ \A t \in 0..now : seen'[t] = seen[t]
  <2>1. TipTypeOK'
    BY NodeTypeStep DEF NodeNext
  <2> QED BY <2>1, ChainStays, GrowsStep DEF NodeNext, Tick, NewBlock, TipBecomes
<1>2. ASSUME MemoIsTip PROVE MemoIsTip'
  <2>1. ASSUME memo # None
        PROVE  memo.slot <= slot' /\ seen'[Ago(memo.at, Latency)] <= tips'[memo.slot]
    <3>1. memo.slot \in Nat /\ memo.slot <= slot /\ memo.at \in 0..now
      BY <1>2, <2>1 DEF MemoIsTip
    <3>2. Ago(memo.at, Latency) \in 0..now
      <4>1. memo.at \in Nat /\ now \in Nat /\ memo.at <= now /\ Latency \in Nat
        BY <3>1
      <4>2. Ago(memo.at, Latency) \in 0..memo.at
        BY ONLY <4>1, AgoIsBefore
      <4> QED BY ONLY <4>1, <4>2
    <3> QED BY <1>1, <1>2, <2>1, <3>1, <3>2 DEF MemoIsTip
  <2> QED BY <1>1, <2>1 DEF MemoIsTip
<1>3. ASSUME ReplyIsTip PROVE ReplyIsTip'
  <2>1. ASSUME reply # None
        PROVE  /\ reply.slot <= slot' /\ seen'[reply.at] <= tips'[reply.slot]
               /\ memo # None => memo.slot <= reply.slot
    <3>1. reply.slot \in Nat /\ reply.slot <= slot /\ reply.at \in 0..now
      BY <1>3, <2>1 DEF ReplyIsTip
    <3> QED BY <1>1, <1>3, <2>1, <3>1 DEF ReplyIsTip
  <2> QED BY <1>1, <2>1 DEF ReplyIsTip
<1> QED BY <1>2, <1>3

LEMMA NodeRepliesTip ==
    ASSUME TipTypeOK, Grows, MemoIsTip, NodeReplies
    PROVE  MemoIsTip' /\ ReplyIsTip'
<1>1. /\ reply' = [slot |-> slot, version |-> version, at |-> now]
      /\ UNCHANGED <<now, slot, version, seen, tips, memo>>
  BY DEF NodeReplies, nodeVars
<1>2. MemoIsTip'
  BY <1>1 DEF MemoIsTip
<1>3. seen[now] <= tips[slot] /\ slot <= slot
  BY BoundsAssumption DEF TipTypeOK, Grows, Times, Slots
<1> QED BY <1>1, <1>2, <1>3 DEF MemoIsTip, ReplyIsTip

\* How old the slot a call reads may be.
SlotAge == Latency + Kept(Second)

LEMMA SlotAgeIsNat ==
    SlotAge \in Nat /\ Kept(Second) \in Nat /\ Latency \in Nat /\ Latency <= SlotAge
  BY BoundsAssumption DEF SlotAge, Kept

LEMMA LastBlockSlotIsRecent ==
    ASSUME TipTypeOK, Grows, MemoIsTip, ReplyIsTip, Timely, SlotKnown
    PROVE  /\ LastBlockSlot \in Slots /\ LastBlockSlot <= slot
           /\ seen[Ago(now, SlotAge)] <= tips[LastBlockSlot]
           /\ memo # None => memo.slot <= LastBlockSlot
<1> USE BoundsAssumption, NoneAssumption DEF TipTypeOK, Times, Slots, Versions
<1>1. CASE reply # None
  <2>1. LastBlockSlot = reply.slot /\ reply.slot \in Slots /\ reply.at \in 0..now
        /\ now <= reply.at + Latency
    BY <1>1 DEF LastBlockSlot, Timely
  <2>2. Ago(now, SlotAge) \in Nat /\ Ago(now, SlotAge) <= reply.at
    <3>0. now \in Nat /\ reply.at \in Nat /\ now <= reply.at + Latency
      BY <2>1
    <3>1. now <= reply.at + SlotAge /\ SlotAge \in Nat
      BY ONLY <3>0, SlotAgeIsNat
    <3> QED BY ONLY <3>0, <3>1, AgoIsFirst, AgoIsBefore
  <2>3. seen[reply.at] <= tips[reply.slot] /\ tips[reply.slot] \in Nat
    BY <1>1, <2>1 DEF ReplyIsTip
  <2> QED BY <1>1, <2>1, <2>2, <2>3, SeenEarlier DEF ReplyIsTip
<1>2. CASE reply = None
  <2>1. LastBlockSlot = memo.slot /\ memo # None /\ now < memo.at + Second
    BY <1>2 DEF LastBlockSlot, SlotKnown, Memoised
  <2>2. memo.slot \in Slots /\ memo.at \in 0..now
    BY <2>1
  <2>3. /\ now \in Nat /\ memo.at \in Nat /\ memo.at <= now /\ Latency \in Nat
        /\ now <= memo.at + Kept(Second) /\ Kept(Second) \in Nat
    BY <2>1, <2>2, SlotAgeIsNat DEF Kept
  <2>4. /\ Ago(now, SlotAge) <= Ago(memo.at, Latency) /\ Ago(now, SlotAge) \in Nat
        /\ Ago(memo.at, Latency) \in 0..now
    <3>1. Ago(now, SlotAge) <= Ago(memo.at, Latency)
      <4>1. now + Latency <= memo.at + SlotAge /\ SlotAge \in Nat
        BY ONLY <2>3, SlotAgeIsNat DEF SlotAge
      <4> QED BY ONLY <2>3, <4>1, AgoOrder
    <3>2. Ago(now, SlotAge) \in 0..now /\ Ago(memo.at, Latency) \in 0..memo.at
      BY ONLY <2>3, AgoIsBefore, SlotAgeIsNat
    <3>3. 0..memo.at \subseteq 0..now /\ 0..now \subseteq Nat
      BY ONLY <2>3
    <3> QED BY ONLY <3>1, <3>2, <3>3
  <2>5. seen[Ago(memo.at, Latency)] <= tips[memo.slot] /\ tips[memo.slot] \in Nat
    BY <2>1, <2>2 DEF MemoIsTip
  <2>6. seen[Ago(now, SlotAge)] <= tips[memo.slot]
    <3> HIDE DEF TipTypeOK, Times, Slots, Versions
    <3> QED BY <2>4, <2>5, SeenEarlier
  <2> QED BY <2>1, <2>2, <2>6 DEF MemoIsTip
<1> QED BY <1>1, <1>2

LEMMA KeptSlotIsTip ==
    ASSUME TipTypeOK, Grows, MemoIsTip, ReplyIsTip, Timely, SlotKnown, KeepSlot,
           UNCHANGED nodeVars
    PROVE  /\ MemoIsTip' /\ reply' = None
           /\ memo' # None
           /\ memo'.slot = LastBlockSlot
<1> USE BoundsAssumption, NoneAssumption DEF TipTypeOK, Times, Slots, Versions
<1>1. UNCHANGED <<now, slot, seen, tips>> /\ reply' = None
  BY DEF nodeVars, KeepSlot
<1>2. CASE reply # None
  <2>1. memo' = [slot |-> reply.slot, at |-> now] /\ LastBlockSlot = reply.slot
    BY <1>2 DEF KeepSlot, LastBlockSlot
  <2>2. reply.slot \in Slots /\ reply.at \in 0..now /\ now <= reply.at + Latency
    BY <1>2 DEF Timely
  <2>3. Ago(now, Latency) \in Nat /\ Ago(now, Latency) <= reply.at
    <3>1. now \in Nat /\ reply.at \in Nat /\ now <= reply.at + Latency /\ Latency \in Nat
      BY <2>2
    <3> QED BY ONLY <3>1, AgoIsFirst, AgoIsBefore
  <2>4. seen[reply.at] <= tips[reply.slot] /\ tips[reply.slot] \in Nat
    BY <1>2, <2>2 DEF ReplyIsTip
  <2>5. seen[Ago(now, Latency)] <= tips[reply.slot]
    BY <2>2, <2>3, <2>4, SeenEarlier
  <2>6. memo' # None
    BY <2>1, <2>2
  <2> QED BY <1>1, <1>2, <2>1, <2>2, <2>5, <2>6 DEF MemoIsTip, ReplyIsTip
<1>3. CASE reply = None
  BY <1>1, <1>3 DEF KeepSlot, SlotKnown, Memoised, LastBlockSlot, MemoIsTip
<1> QED BY <1>2, <1>3

-----------------------------------------------------------------------------
(***************************************************************************)
(* The caches of UTxOs.                                                    *)
(***************************************************************************)
\* Steps of the contexts.
CallNext ==
    \/ Lookup \/ SlotReplies \/ SlotAnswers \/ ReadEntry \/ EntryExpired
    \/ CallWrapped \/ NodeLists \/ IndexLists \/ StoreList \/ LookupFails
    \/ UNCHANGED utxoVars

LEMMA UtxosStepOfEither ==
    ASSUME [UtxosNext]_utxoVars
    PROVE  \/ NodeNext /\ UNCHANGED <<source, entries, key, layer, stage>>
           \/ CallNext /\ UNCHANGED nodeVars
  BY DEF UtxosNext, CallNext, Lookup, SlotReplies, NodeReplies, SlotAnswers, ReadEntry,
         EntryExpired, CallWrapped, NodeLists, IndexLists, StoreList, LookupFails, utxoVars,
         tipVars

\* The wrapped context's _utxos runs only within Kupo's.
Nested == layer # Outer => source = "wrapped" /\ layer = "node"

UtxosTyped == UtxosTypeOK /\ Nested

LEMMA UtxosTypedStep == UtxosTyped /\ [UtxosNext]_utxoVars => UtxosTyped'
<1> SUFFICES ASSUME UtxosTyped, [UtxosNext]_utxoVars PROVE UtxosTyped'
  OBVIOUS
<1> USE NoneAssumption, BoundsAssumption
<1>1. CASE NodeNext /\ UNCHANGED <<source, entries, key, layer, stage>>
  <2>1. TipTypeOK' /\ now <= now' /\ now \in Nat /\ now' \in Nat
    BY <1>1, NodeTypeStep DEF UtxosTyped, UtxosTypeOK, TipTypeOK, Times
  <2>2. \A l \in Layers, s \in Slots :
           entries[l][s] \in [version : Versions, at : 0..now'] \cup {None}
    BY <2>1 DEF UtxosTyped, UtxosTypeOK
  <2>3. entries \in [Layers -> [Slots -> [version : Versions, at : 0..now'] \cup {None}]]
    BY <2>2 DEF UtxosTyped, UtxosTypeOK
  <2> QED BY <1>1, <2>1, <2>3 DEF UtxosTyped, UtxosTypeOK, Nested, Outer
<1> DEFINE Stored == [version : Versions, at : 0..now]
           Entries == [Layers -> [Slots -> Stored \cup {None}]]
           Rest == /\ source \in {"node", "wrapped", "index"}
                   /\ key \in [Layers -> Slots]
                   /\ layer \in Layers
                   /\ stage \in {"idle", "slot", "hit", "fetch"}
                   /\ Nested
<1>2. TipTypeOK /\ Rest /\ entries \in Entries /\ now \in 0..now
  BY DEF UtxosTyped, UtxosTypeOK, TipTypeOK, Times
<1>3. SUFFICES ASSUME CallNext, UNCHANGED nodeVars
               PROVE  TipTypeOK' /\ Rest' /\ entries' \in Entries
  <2>1. CASE CallNext /\ UNCHANGED nodeVars
    <3>1. TipTypeOK' /\ Rest' /\ entries' \in Entries
      BY <1>3, <2>1
    <3>2. now' = now
      BY <2>1 DEF nodeVars
    <3> QED BY <3>1, <3>2 DEF UtxosTyped, UtxosTypeOK
  <2> QED BY <1>1, <2>1, UtxosStepOfEither
<1> USE DEF Moves, GoesOn, Nested, Outer, Layers
<1>4. CASE Lookup
  BY <1>2, <1>3, <1>4, TipTypeCall DEF Lookup, Begins
<1>5. CASE SlotReplies
  BY <1>2, <1>3, <1>5, TipTypeCall, NodeRepliesTyped DEF SlotReplies, NodeReplies
<1>6. CASE SlotAnswers
  <2>1. LastBlockSlot \in Slots /\ TipTypeOK'
    BY <1>2, <1>3, <1>6, TipTypeCall, KeepSlotTyped DEF SlotAnswers
  <2> QED BY <1>2, <1>6, <2>1 DEF SlotAnswers
<1>7. ASSUME NEW from, NEW list \in Versions, Returns(from, list),
             UNCHANGED <<memo, key>>, entries' \in Entries
      PROVE  TipTypeOK' /\ Rest' /\ entries' \in Entries
  <2>1. key[layer] \in Slots
    BY <1>2
  <2>2. TipTypeOK'
    BY <1>2, <1>3, <1>7, <2>1, TipTypeCall DEF Returns, Answers
  <2> QED BY <1>2, <1>7, <2>2 DEF Returns
<1>8. CASE ReadEntry
  <2>1. entries[layer][key[layer]].version \in Versions
    BY <1>2, <1>8 DEF ReadEntry, Live
  <2> QED BY <1>2, <1>7, <1>8, <2>1 DEF ReadEntry
<1>9. CASE EntryExpired
  BY <1>2, <1>3, <1>9, TipTypeCall DEF EntryExpired
<1>10. CASE CallWrapped
  BY <1>2, <1>3, <1>10, TipTypeCall DEF CallWrapped
<1>11. CASE NodeLists
  BY <1>2, <1>3, <1>11, TipTypeCall, NodeRepliesTyped DEF NodeLists, NodeReplies
<1>12. CASE IndexLists
  <2>1. PICK v \in seen[Ago(now, IndexLag)]..version :
           reply' = [slot |-> key[layer], version |-> v, at |-> now]
    BY <1>12 DEF IndexLists
  <2>2. now \in Nat /\ IndexLag \in Nat /\ now \in Times
    BY <1>2, TtlAssumption DEF TipTypeOK, Times
  <2>3. Ago(now, IndexLag) \in Times
    BY <2>2, AgoIsBefore DEF Times
  <2>4. v \in Versions
    BY <1>2, <2>3 DEF TipTypeOK, Versions
  <2>5. reply' \in [slot : Slots, version : Versions, at : 0..now]
    BY <1>2, <2>1, <2>4
  <2> QED BY <1>2, <1>3, <1>12, <2>5, TipTypeCall DEF IndexLists
<1>13. CASE StoreList
  <2>1. reply.version \in Versions
    BY <1>2, <1>13 DEF StoreList, TipTypeOK
  <2>2. [version |-> reply.version, at |-> now] \in Stored
    BY <1>2, <2>1
  <2>3. entries' \in Entries
    BY <1>2, <1>13, <2>2 DEF StoreList
  <2> QED BY <1>7, <1>13, <2>1, <2>3 DEF StoreList
<1>14. CASE LookupFails
  BY <1>2, <1>3, <1>14, TipTypeCall DEF LookupFails
<1>15. CASE UNCHANGED utxoVars
  BY <1>2, <1>3, <1>15, TipTypeCall DEF utxoVars, tipVars
<1> QED
  BY <1>3, <1>4, <1>5, <1>6, <1>8, <1>9, <1>10, <1>11, <1>12, <1>13, <1>14, <1>15 DEF CallNext

THEOREM UtxosTypedAlways == UtxosSpec => []UtxosTyped
<1>1. UtxosInit => UtxosTyped
  BY TipTypeInitially, BoundsAssumption
  DEF UtxosInit, UtxosTyped, UtxosTypeOK, Nested, Outer, Times, Slots, Layers
<1> QED BY <1>1, UtxosTypedStep, PTL DEF UtxosSpec

\* The state stays in its type.
THEOREM UtxosTypeCorrect == UtxosSpec => []UtxosTypeOK
  BY UtxosTypedAlways, PTL DEF UtxosTyped

-----------------------------------------------------------------------------
(***************************************************************************)
(* Across forks and failures the age of a list is bounded by what it came  *)
(* through: the request, and the entries it was kept in.                   *)
(***************************************************************************)
StoredAge(l) == SourceAge(l) + Latency
ListAge(l) == StoredAge(l) + Kept(Ttl(l))

StoredInTime ==
    \A l \in Layers, s \in Slots :
        entries[l][s] # None =>
            seen[Ago(entries[l][s].at, StoredAge(l))] <= entries[l][s].version

RepliedInTime ==
    stage = "fetch" /\ reply # None => seen[Ago(reply.at, SourceAge(layer))] <= reply.version

WithinTtl == Grows /\ Timely /\ StoredInTime /\ RepliedInTime /\ UtxosWithinTtl

LEMMA AgesAreNat ==
    ASSUME NEW l \in Layers
    PROVE  /\ SourceAge(l) \in Nat /\ StoredAge(l) \in Nat /\ ListAge(l) \in Nat
           /\ Kept(Ttl(l)) \in Nat /\ Latency \in Nat
           /\ SourceAge(l) <= StoredAge(l) /\ StoredAge(l) <= ListAge(l)
  BY BoundsAssumption, TtlAssumption DEF Layers, SourceAge, StoredAge, ListAge, Kept, Ttl

\* What is as recent as a moment is as recent as an earlier one.
LEMMA SeenAgo ==
    ASSUME TipTypeOK, Grows, NEW t \in 0..now, NEW b \in Nat, NEW u \in 0..now, NEW a \in Nat,
           t + a <= u + b, NEW v \in Nat, seen[Ago(u, a)] <= v
    PROVE  seen[Ago(t, b)] <= v
<1>1. now \in Nat
  BY BoundsAssumption DEF TipTypeOK, Times
<1>2. t \in Nat /\ u \in Nat
  BY <1>1
<1>3. Ago(t, b) <= Ago(u, a) /\ Ago(t, b) \in 0..t /\ Ago(u, a) \in 0..u
  BY <1>2, AgoOrder, AgoIsBefore
<1>4. Ago(t, b) \in Nat /\ Ago(u, a) \in 0..now
  BY <1>1, <1>2, <1>3
<1> QED BY <1>3, <1>4, SeenEarlier

\* The past that an age reaches back to is not rewritten.
LEMMA SeenStays ==
    ASSUME TipTypeOK, Grows, NodeNext \/ UNCHANGED nodeVars, NEW t \in 0..now, NEW b \in Nat
    PROVE  seen'[Ago(t, b)] = seen[Ago(t, b)]
<1>1. now \in Nat
  BY BoundsAssumption DEF TipTypeOK, Times
<1>2. Ago(t, b) \in 0..t
  BY <1>1, AgoIsBefore
<1>3. Ago(t, b) \in 0..now
  BY <1>1, <1>2
<1> QED BY <1>3, GrowsStep

\* The types in the forms that the proofs use.
LEMMA UtxosTypes ==
    ASSUME UtxosTyped
    PROVE  /\ TipTypeOK /\ now \in Nat /\ now \in 0..now /\ began \in 0..now /\ version \in Nat
           /\ layer \in Layers /\ Outer \in Layers /\ key \in [Layers -> Slots]
           /\ reply # None => reply.slot \in Slots /\ reply.version \in Nat /\ reply.at \in 0..now
           /\ \A l \in Layers, s \in Slots :
                 entries[l][s] # None =>
                     entries[l][s].version \in Nat /\ entries[l][s].at \in 0..now
<1> USE BoundsAssumption DEF UtxosTyped, UtxosTypeOK
<1>1. TipTypeOK /\ now \in Nat /\ now \in 0..now /\ began \in 0..now /\ version \in Nat
  BY DEF TipTypeOK, Times, Versions
<1>2. layer \in Layers /\ Outer \in Layers /\ key \in [Layers -> Slots]
  BY DEF Outer, Layers
<1>3. reply # None => reply.slot \in Slots /\ reply.version \in Nat /\ reply.at \in 0..now
  BY DEF TipTypeOK, Versions
<1>4. ASSUME NEW l \in Layers, NEW s \in Slots, entries[l][s] # None
      PROVE  entries[l][s].version \in Nat /\ entries[l][s].at \in 0..now
  <2>1. entries[l][s] \in [version : Versions, at : 0..now]
    BY <1>4
  <2> QED BY <2>1 DEF Versions
<1> QED BY <1>1, <1>2, <1>3, <1>4

LEMMA StoredInTimeStep ==
    ASSUME UtxosTyped, Grows, Timely, StoredInTime, RepliedInTime, [UtxosNext]_utxoVars
    PROVE  StoredInTime'
<1> SUFFICES ASSUME NEW l \in Layers, NEW s \in Slots, entries'[l][s] # None
             PROVE  seen'[Ago(entries'[l][s].at, StoredAge(l)')] <= entries'[l][s].version
  BY DEF StoredInTime
<1>1. NodeNext \/ UNCHANGED nodeVars
  BY UtxosStepOfEither
<1>2. source' = source
  BY DEF UtxosNext, Lookup, SlotReplies, SlotAnswers, ReadEntry, EntryExpired, CallWrapped,
         NodeLists, IndexLists, StoreList, Returns, LookupFails, Moves, utxoVars
<1>3. StoredAge(l)' = StoredAge(l) /\ StoredAge(l) \in Nat
  BY <1>2, AgesAreNat DEF StoredAge, SourceAge
<1>4. CASE entries'[l][s] = entries[l][s]
  <2>1. entries[l][s].at \in 0..now /\ seen[Ago(entries[l][s].at, StoredAge(l))] <= entries[l][s].version
    BY <1>4, UtxosTypes DEF StoredInTime
  <2>2. seen'[Ago(entries[l][s].at, StoredAge(l))] = seen[Ago(entries[l][s].at, StoredAge(l))]
    BY <1>1, <1>3, <2>1, SeenStays, UtxosTypes
  <2> QED BY <1>3, <1>4, <2>1, <2>2
<1>5. CASE StoreList /\ l = layer /\ s = key[layer]
  <2>1. /\ stage = "fetch" /\ reply # None /\ UNCHANGED nodeVars
        /\ entries'[l][s] = [version |-> reply.version, at |-> now]
    BY <1>5 DEF StoreList, Returns, Moves, UtxosTyped, UtxosTypeOK
  <2>2. seen[Ago(reply.at, SourceAge(l))] <= reply.version /\ now <= reply.at + Latency
    BY <1>5, <2>1 DEF RepliedInTime, Timely
  <2>3. reply.at \in 0..now /\ reply.version \in Nat /\ now \in 0..now /\ now \in Nat
    BY <2>1, UtxosTypes
  <2>4. now + SourceAge(l) <= reply.at + StoredAge(l) /\ SourceAge(l) \in Nat
    BY <2>2, <2>3, AgesAreNat DEF StoredAge
  <2>5. seen[Ago(now, StoredAge(l))] <= reply.version
    BY <1>3, <2>2, <2>3, <2>4, SeenAgo, UtxosTypes
  <2> QED BY <1>3, <2>1, <2>5 DEF nodeVars
<1>6. entries'[l][s] = entries[l][s] \/ (StoreList /\ l = layer /\ s = key[layer])
  BY DEF UtxosNext, Lookup, SlotReplies, SlotAnswers, ReadEntry, EntryExpired, CallWrapped,
         NodeLists, IndexLists, StoreList, LookupFails, utxoVars, UtxosTyped, UtxosTypeOK
<1> QED BY <1>4, <1>5, <1>6

\* A list that is not older than an entry may be leaves _utxos.
LEMMA ReturnIsInTime ==
    ASSUME UtxosTyped, WithinTtl, UNCHANGED nodeVars, NEW from, NEW list \in Nat,
           seen[Ago(now, ListAge(layer))] <= list, Returns(from, list)
    PROVE  Timely' /\ RepliedInTime' /\ UtxosWithinTtl'
<1>1. UNCHANGED <<now, seen, source>> /\ Outer' = Outer
  BY DEF nodeVars, Returns, Moves, Outer
<1>2. CASE layer = Outer
  <2>1. reply' = None /\ answer' = list /\ began' = began
    BY <1>2 DEF Returns, Answers
  <2>2. began \in 0..now /\ now \in 0..now /\ now \in Nat /\ ListAge(Outer) \in Nat /\ TipTypeOK
    BY UtxosTypes, AgesAreNat
  <2>3. began + ListAge(Outer) <= now + ListAge(Outer)
    BY <2>2
  <2>4. seen[Ago(began, ListAge(Outer))] <= list
    BY <1>2, <2>2, <2>3, SeenAgo DEF WithinTtl
  <2>5. ListAge(Outer)' = ListAge(Outer)
    BY <1>1 DEF ListAge, StoredAge, SourceAge
  <2>6. UtxosWithinTtl'
    <3>1. UtxosWithinTtl' <=> (answer' # None => answer' >= seen'[Ago(began', ListAge(Outer)')])
      BY <1>1 DEF UtxosWithinTtl, AsRecentAs, ListAge, StoredAge
    <3>2. seen[Ago(began, ListAge(Outer))] \in Nat
      <4>1. Ago(began, ListAge(Outer)) \in 0..began
        <5>1. began \in Nat
          BY <2>2
        <5> QED BY <2>2, <5>1, AgoIsBefore
      <4> QED BY <2>2, <4>1, BoundsAssumption DEF TipTypeOK, Times, Versions
    <3> QED BY <1>1, <2>1, <2>4, <2>5, <3>1, <3>2
  <2> QED BY <2>1, <2>6 DEF Timely, RepliedInTime
<1>3. CASE layer # Outer
  <2>1. /\ reply' = [slot |-> key[layer], version |-> list, at |-> now]
        /\ layer' = Outer /\ UNCHANGED <<answer, began>>
    BY <1>3 DEF Returns, GoesOn
  <2>2. source = "wrapped" /\ layer = "node" /\ Outer = "kupo"
    BY <1>3 DEF UtxosTyped, Nested, Outer
  <2>3. SourceAge("kupo") = ListAge("node") /\ SourceAge(layer)' = SourceAge("kupo")
    <3>1. SourceAge("kupo") = Latency + Kept(NodeTtl) /\ ListAge("node") = 0 + Latency + Kept(NodeTtl)
      BY <2>2 DEF SourceAge, ListAge, StoredAge, Ttl
    <3>2. SourceAge(layer)' = SourceAge("kupo")
      BY <1>1, <2>1, <2>2 DEF SourceAge
    <3> QED BY <3>1, <3>2, BoundsAssumption
  <2>4. RepliedInTime'
    BY <1>1, <2>1, <2>2, <2>3 DEF RepliedInTime
  <2>5. Timely'
    BY <1>1, <2>1, UtxosTypes, BoundsAssumption DEF Timely
  <2>6. UtxosWithinTtl'
    BY <1>1, <2>1 DEF WithinTtl, UtxosWithinTtl, AsRecentAs, SourceAge
  <2> QED BY <2>4, <2>5, <2>6
<1> QED BY <1>2, <1>3

LEMMA WithinTtlStep == UtxosTyped /\ WithinTtl /\ [UtxosNext]_utxoVars => WithinTtl'
<1> SUFFICES ASSUME UtxosTyped, WithinTtl, [UtxosNext]_utxoVars PROVE WithinTtl'
  OBVIOUS
<1>1. Grows' /\ StoredInTime'
  BY GrowsStep, StoredInTimeStep, UtxosStepOfEither, UtxosTypes DEF WithinTtl
<1>2. SUFFICES Timely' /\ RepliedInTime' /\ UtxosWithinTtl'
  BY <1>1 DEF WithinTtl
<1>3. NodeNext \/ UNCHANGED nodeVars
  BY UtxosStepOfEither
<1>4. ASSUME UNCHANGED <<answer, began, source>> PROVE UtxosWithinTtl'
  <2>1. began \in 0..now /\ ListAge(Outer) \in Nat
    BY UtxosTypes, AgesAreNat
  <2>2. seen'[Ago(began, ListAge(Outer))] = seen[Ago(began, ListAge(Outer))]
    BY <1>3, <2>1, SeenStays, UtxosTypes DEF WithinTtl
  <2> QED
    BY <1>4, <2>2
    DEF WithinTtl, UtxosWithinTtl, AsRecentAs, ListAge, StoredAge, SourceAge, Outer
<1>5. ASSUME UNCHANGED <<now, seen, reply, source, layer>>, stage' = stage \/ stage' # "fetch"
      PROVE  Timely' /\ RepliedInTime'
  BY <1>5 DEF WithinTtl, Timely, RepliedInTime, SourceAge
<1>6. ASSUME reply' = None PROVE Timely' /\ RepliedInTime'
  BY <1>6 DEF Timely, RepliedInTime
<1>7. ASSUME answer' = None PROVE UtxosWithinTtl'
  BY <1>7 DEF UtxosWithinTtl, AsRecentAs
<1>8. CASE NodeNext /\ UNCHANGED <<source, entries, key, layer, stage>>
  <2>1. UNCHANGED <<answer, began, reply>>
    BY <1>8 DEF NodeNext, Tick, NewBlock, Rollback, TipBecomes
  <2>2. Timely'
    BY <1>8, TimelyNode, UtxosTypes DEF WithinTtl
  <2>3. RepliedInTime'
    <3>1. CASE reply # None
      <4>1. reply.at \in 0..now /\ SourceAge(layer) \in Nat
        BY <3>1, UtxosTypes, AgesAreNat
      <4>2. seen'[Ago(reply.at, SourceAge(layer))] = seen[Ago(reply.at, SourceAge(layer))]
        BY <1>3, <4>1, SeenStays, UtxosTypes DEF WithinTtl
      <4> QED BY <1>8, <2>1, <4>2 DEF WithinTtl, RepliedInTime, SourceAge
    <3>2. CASE reply = None
      BY <1>6, <2>1, <3>2
    <3> QED BY <3>1, <3>2
  <2> QED BY <1>4, <1>8, <2>1, <2>2, <2>3
<1>9. CASE Lookup
  <2>1. answer' = None /\ stage' = "slot" /\ UNCHANGED <<now, reply>>
    BY <1>9 DEF Lookup, Begins, Moves, nodeVars
  <2> QED BY <1>7, <2>1 DEF WithinTtl, Timely, RepliedInTime
<1>10. CASE SlotReplies
  <2>1. /\ stage' = "slot" /\ UNCHANGED <<answer, began, source, now>>
        /\ reply' = [slot |-> slot, version |-> version, at |-> now]
    BY <1>10 DEF SlotReplies, NodeReplies, nodeVars
  <2>2. Timely'
    BY <2>1, UtxosTypes, BoundsAssumption DEF Timely
  <2> QED BY <1>4, <2>1, <2>2 DEF RepliedInTime
<1>11. CASE SlotAnswers
  BY <1>4, <1>6, <1>11 DEF SlotAnswers, KeepSlot, GoesOn, Moves
<1>12. CASE ReadEntry
  <2>1. /\ entries[layer][key[layer]] # None /\ UNCHANGED nodeVars
        /\ now < entries[layer][key[layer]].at + Ttl(layer)
        /\ Returns("hit", entries[layer][key[layer]].version)
    BY <1>12 DEF ReadEntry, Live
  <2>2. layer \in Layers /\ key[layer] \in Slots /\ now \in Nat /\ now \in 0..now
    BY UtxosTypes
  <2> DEFINE e == entries[layer][key[layer]]
  <2>3. e.version \in Nat /\ e.at \in 0..now /\ seen[Ago(e.at, StoredAge(layer))] <= e.version
    BY <2>1, <2>2, UtxosTypes DEF WithinTtl, StoredInTime
  <2>4. now + StoredAge(layer) <= e.at + ListAge(layer)
    <3>1. now < e.at + Ttl(layer) /\ Ttl(layer) \in Nat /\ StoredAge(layer) \in Nat
      BY <2>1, <2>2, AgesAreNat, TtlAssumption DEF Ttl
    <3>2. ListAge(layer) = StoredAge(layer) + (Ttl(layer) - 1)
      BY DEF ListAge, Kept
    <3> HIDE DEF e
    <3> QED BY <2>2, <2>3, <3>1, <3>2
  <2>5. seen[Ago(now, ListAge(layer))] <= e.version
    <3> HIDE DEF e
    <3> QED BY <2>2, <2>3, <2>4, AgesAreNat, SeenAgo, UtxosTypes DEF WithinTtl
  <2> QED BY <2>1, <2>3, <2>5, ReturnIsInTime
<1>13. CASE EntryExpired
  <2>1. UNCHANGED <<now, seen, reply, source, layer, answer, began>> /\ stage' = "idle"
    BY <1>13 DEF EntryExpired, Moves, GoesOn, nodeVars
  <2> QED BY <1>4, <1>5, <2>1
<1>14. CASE CallWrapped
  <2>1. UNCHANGED <<answer, began, source>> /\ reply' = None
    BY <1>14 DEF CallWrapped, Moves, GoesOn
  <2> QED BY <1>4, <1>6, <2>1
<1>15. CASE NodeLists
  <2>1. /\ layer = "node" /\ UNCHANGED <<answer, began, source, layer, now, seen>>
        /\ reply' = [slot |-> slot, version |-> version, at |-> now]
    BY <1>15 DEF NodeLists, NodeReplies, nodeVars
  <2>2. Timely'
    BY <2>1, UtxosTypes, BoundsAssumption DEF Timely
  <2>3. seen[now] <= version /\ Ago(now, 0) = now /\ SourceAge(layer)' = 0
    BY <2>1, UtxosTypes DEF WithinTtl, Grows, Ago, SourceAge
  <2> QED BY <1>4, <2>1, <2>2, <2>3 DEF RepliedInTime
<1>16. CASE IndexLists
  <2>1. PICK v \in seen[Ago(now, IndexLag)]..version :
           reply' = [slot |-> key[layer], version |-> v, at |-> now]
    BY <1>16 DEF IndexLists
  <2>2. UNCHANGED <<answer, began, source, layer, now, seen>> /\ source = "index"
    BY <1>16 DEF IndexLists, GoesOn, nodeVars
  <2>3. Timely'
    BY <2>1, <2>2, UtxosTypes, BoundsAssumption DEF Timely
  <2>4. SourceAge(layer)' = IndexLag
    BY <2>2 DEF SourceAge, UtxosTyped, Nested, Outer
  <2> QED BY <1>4, <2>1, <2>2, <2>3, <2>4 DEF RepliedInTime
<1>17. CASE StoreList
  <2>1. reply # None /\ stage = "fetch" /\ UNCHANGED nodeVars /\ Returns("fetch", reply.version)
    BY <1>17 DEF StoreList, Returns, Moves
  <2>2. /\ reply.version \in Nat /\ reply.at \in 0..now /\ now <= reply.at + Latency
        /\ seen[Ago(reply.at, SourceAge(layer))] <= reply.version
    BY <2>1, UtxosTypes DEF WithinTtl, RepliedInTime, Timely
  <2>3. layer \in Layers /\ now \in Nat /\ now \in 0..now
    BY UtxosTypes
  <2>4. now + SourceAge(layer) <= reply.at + ListAge(layer)
    BY <2>2, <2>3, AgesAreNat DEF StoredAge, ListAge
  <2>5. seen[Ago(now, ListAge(layer))] <= reply.version
    BY <2>2, <2>3, <2>4, AgesAreNat, SeenAgo, UtxosTypes DEF WithinTtl
  <2> QED BY <2>1, <2>2, <2>5, ReturnIsInTime
<1>18. CASE LookupFails
  BY <1>4, <1>6, <1>18 DEF LookupFails, GoesOn
<1>19. CASE UNCHANGED utxoVars
  <2>1. UNCHANGED <<now, seen, reply, source, layer, stage, answer, began>>
    BY <1>19 DEF utxoVars, tipVars, nodeVars
  <2> QED BY <1>4, <1>5, <2>1
<1> QED
  BY <1>8, <1>9, <1>10, <1>11, <1>12, <1>13, <1>14, <1>15, <1>16, <1>17, <1>18, <1>19
  DEF UtxosNext

\* Across forks and failures, a list of UTxOs is no older than the lives of
\* the entries and the latencies it came through, those of the wrapped
\* context or the lag of the index included.
THEOREM UtxosWithinTtlAlways == UtxosSpec => []UtxosWithinTtl
<1>1. UtxosInit => WithinTtl
  BY GrowsInitially
  DEF UtxosInit, TipInit, WithinTtl, Timely, StoredInTime, RepliedInTime, UtxosWithinTtl,
      AsRecentAs
<1>2. WithinTtl => UtxosWithinTtl
  BY DEF WithinTtl
<1> QED BY <1>1, <1>2, WithinTtlStep, UtxosTypedAlways, PTL DEF UtxosSpec

-----------------------------------------------------------------------------
(***************************************************************************)
(* On one chain a list covers the slot it is kept under, and the slot that *)
(* a call looks up was the tip a second before the call began, or later.   *)
(* A nested call of the wrapped context looks up no earlier slot.          *)
(***************************************************************************)
EntriesCover ==
    \A l \in Layers, s \in Slots :
        entries[l][s] # None => s <= slot /\ tips[s] <= entries[l][s].version

\* The outer context of the current call has its key.
KeyIsKnown == stage \in {"hit", "fetch"} \/ (stage = "slot" /\ layer # Outer)

KeysAreTips ==
    /\ KeyIsKnown =>
          /\ memo # None /\ key[Outer] <= memo.slot
          /\ seen[Ago(began, SlotAge)] <= tips[key[Outer]]
    /\ stage \in {"hit", "fetch"} => key[Outer] <= key[layer] /\ key[layer] <= memo.slot

RepliesCover ==
    /\ stage \in {"idle", "hit"} => reply = None
    /\ stage = "slot" => ReplyIsTip
    /\ stage = "fetch" /\ reply # None => tips[key[layer]] <= reply.version

Follows == MemoIsTip /\ EntriesCover /\ KeysAreTips /\ RepliesCover

LEMMA FollowsNode ==
    ASSUME UtxosTyped, Grows, Follows, Tick \/ NewBlock,
           UNCHANGED <<source, entries, key, layer, stage>>
    PROVE  Follows'
<1>1. /\ UNCHANGED <<memo, reply, began, answer>> /\ Outer' = Outer
      /\ slot \in Nat /\ slot <= slot' /\ slot' \in Nat
      /\ \A s \in 0..slot : tips'[s] = tips[s]
  <2>1. TipTypeOK /\ TipTypeOK'
    BY NodeTypeStep, UtxosTypes DEF NodeNext
  <2>2. slot \in Nat /\ slot' \in Nat
    BY <2>1, BoundsAssumption DEF TipTypeOK, Slots, Times
  <2> QED BY <2>1, <2>2, ChainStays DEF Tick, NewBlock, TipBecomes, Outer
<1>2. MemoIsTip' /\ (ReplyIsTip => ReplyIsTip')
  BY TipNode, UtxosTypes DEF Follows
<1>3. EntriesCover'
  <2> SUFFICES ASSUME NEW l \in Layers, NEW s \in Slots, entries[l][s] # None
               PROVE  s <= slot' /\ tips'[s] <= entries[l][s].version
    BY DEF EntriesCover
  <2>1. s <= slot /\ tips[s] <= entries[l][s].version /\ s \in Nat
    BY BoundsAssumption DEF Follows, EntriesCover, Slots, Times
  <2> QED BY <1>1, <2>1
<1>4. ASSUME KeyIsKnown PROVE memo.slot <= slot /\ memo.slot \in Nat /\ key[Outer] \in 0..slot
  <2>1. memo # None /\ key[Outer] <= memo.slot /\ memo.slot <= slot
    BY <1>4 DEF Follows, KeysAreTips, MemoIsTip
  <2>2. memo.slot \in Nat /\ key[Outer] \in Nat
    BY <2>1, UtxosTypes, BoundsAssumption DEF TipTypeOK, Slots, Times
  <2> QED BY <1>1, <2>1, <2>2
<1>5. KeysAreTips'
  <2>1. KeyIsKnown' <=> KeyIsKnown
    BY <1>1 DEF KeyIsKnown
  <2>2. seen'[Ago(began, SlotAge)] = seen[Ago(began, SlotAge)]
    BY SeenStays, UtxosTypes, SlotAgeIsNat DEF NodeNext
  <2> QED BY <1>1, <1>4, <2>1, <2>2 DEF Follows, KeysAreTips
<1>6. RepliesCover'
  <2>1. ASSUME stage = "fetch", reply # None PROVE tips'[key[layer]] <= reply.version
    <3>1. key[layer] <= memo.slot /\ memo.slot <= slot /\ memo.slot \in Nat /\ key[layer] \in Nat
      BY <1>4, <2>1, UtxosTypes, BoundsAssumption
      DEF Follows, KeysAreTips, KeyIsKnown, Slots, Times
    <3>2. key[layer] \in 0..slot
      BY <1>1, <3>1
    <3> QED BY <1>1, <2>1, <3>2 DEF Follows, RepliesCover
  <2> QED BY <1>1, <1>2, <2>1 DEF Follows, RepliesCover
<1> QED BY <1>2, <1>3, <1>5, <1>6 DEF Follows

\* A list that covers its key leaves _utxos.
LEMMA ReturnFollows ==
    ASSUME UtxosTyped, Grows, Follows, AsRecentAs(SlotAge),
           UNCHANGED nodeVars, UNCHANGED <<memo, key>>, EntriesCover',
           stage \in {"hit", "fetch"}, NEW from, NEW list \in Nat, tips[key[layer]] <= list,
           Returns(from, list)
    PROVE  Follows' /\ AsRecentAs(SlotAge)'
<1>1. UNCHANGED <<now, slot, seen, tips, memo, key, source>> /\ Outer' = Outer
  BY DEF nodeVars, Returns, Moves, Outer
<1>2. MemoIsTip'
  BY <1>1 DEF Follows, MemoIsTip
<1>3. /\ memo # None /\ key[Outer] <= memo.slot /\ key[Outer] <= key[layer]
      /\ seen[Ago(began, SlotAge)] <= tips[key[Outer]]
  BY DEF Follows, KeysAreTips, KeyIsKnown
<1>4. tips[key[Outer]] <= list
  <2>1. key[Outer] \in Slots /\ key[layer] \in Slots /\ TipTypeOK
    BY UtxosTypes
  <2>2. tips[key[Outer]] <= tips[key[layer]]
    BY <1>3, <2>1 DEF Grows
  <2>3. tips[key[Outer]] \in Nat /\ tips[key[layer]] \in Nat
    BY <2>1, BoundsAssumption DEF TipTypeOK, Versions
  <2> QED BY <2>2, <2>3
<1>5. seen[Ago(began, SlotAge)] <= list
  <2>1. key[Outer] \in Slots /\ TipTypeOK /\ began \in 0..now /\ began \in Nat
    BY UtxosTypes
  <2>2. Ago(began, SlotAge) \in 0..began
    BY <2>1, AgoIsBefore, SlotAgeIsNat
  <2>3. Ago(began, SlotAge) \in Times /\ tips[key[Outer]] \in Nat
    BY <2>1, <2>2, BoundsAssumption DEF TipTypeOK, Times, Versions
  <2>4. seen[Ago(began, SlotAge)] \in Nat
    BY <2>1, <2>3, BoundsAssumption DEF TipTypeOK, Versions
  <2> QED BY <1>3, <1>4, <2>3, <2>4
<1>6. CASE layer = Outer
  <2>1. stage' = "idle" /\ reply' = None /\ answer' = list /\ began' = began
    BY <1>6 DEF Returns, Moves, Answers
  <2>2. KeysAreTips' /\ RepliesCover'
    BY <2>1 DEF KeysAreTips, KeyIsKnown, RepliesCover
  <2>3. AsRecentAs(SlotAge)'
    BY <1>1, <1>5, <2>1 DEF AsRecentAs, SlotAge
  <2> QED BY <1>2, <2>2, <2>3 DEF Follows
<1>7. CASE layer # Outer
  <2>1. /\ stage' = "fetch" /\ layer' = Outer /\ UNCHANGED <<answer, began>>
        /\ reply' = [slot |-> key[layer], version |-> list, at |-> now]
    BY <1>7 DEF Returns, Moves, GoesOn
  <2>2. KeysAreTips'
    BY <1>1, <1>3, <2>1, UtxosTypes, BoundsAssumption DEF KeysAreTips, KeyIsKnown, Slots, Times
  <2>3. RepliesCover'
    BY <1>1, <1>4, <2>1 DEF RepliesCover
  <2>4. AsRecentAs(SlotAge)'
    BY <1>1, <2>1 DEF AsRecentAs, SlotAge
  <2> QED BY <1>2, <2>2, <2>3, <2>4 DEF Follows
<1> QED BY <1>6, <1>7

LEMMA FollowsCall ==
    ASSUME UtxosTyped, Grows, Timely, Follows, AsRecentAs(SlotAge), source # "index",
           CallNext, UNCHANGED nodeVars
    PROVE  Follows' /\ AsRecentAs(SlotAge)'
<1>1. UNCHANGED <<now, slot, version, seen, tips>>
  BY DEF nodeVars
<1>2. source' = source /\ Outer' = Outer
  BY DEF CallNext, Lookup, SlotReplies, SlotAnswers, ReadEntry, EntryExpired, CallWrapped,
         NodeLists, IndexLists, StoreList, Returns, LookupFails, Moves, utxoVars, Outer
<1>3. ASSUME UNCHANGED memo PROVE MemoIsTip'
  BY <1>1, <1>3 DEF Follows, MemoIsTip
<1>4. ASSUME UNCHANGED entries PROVE EntriesCover'
  BY <1>1, <1>4 DEF Follows, EntriesCover
<1>5. ASSUME UNCHANGED <<answer, began>> \/ answer' = None PROVE AsRecentAs(SlotAge)'
  BY <1>1, <1>5 DEF AsRecentAs, SlotAge
<1>6. ASSUME UNCHANGED <<memo, key, began, layer, stage>> PROVE KeysAreTips'
  BY <1>1, <1>2, <1>6 DEF Follows, KeysAreTips, KeyIsKnown
<1>7. ASSUME stage' = "idle", reply' = None PROVE KeysAreTips' /\ RepliesCover'
  BY <1>7 DEF KeysAreTips, KeyIsKnown, RepliesCover
<1>8. CASE Lookup
  <2>1. /\ stage' = "slot" /\ layer' = Outer /\ reply' = reply /\ answer' = None
        /\ UNCHANGED <<memo, entries>>
    BY <1>8 DEF Lookup, Begins, Moves
  <2>2. reply = None => RepliesCover'
    BY <2>1 DEF RepliesCover, ReplyIsTip
  <2>3. KeysAreTips'
    BY <1>2, <2>1 DEF KeysAreTips, KeyIsKnown
  <2>4. reply = None
    BY <1>8 DEF Lookup, Moves, Follows, RepliesCover
  <2> QED BY <1>3, <1>4, <1>5, <2>1, <2>2, <2>3, <2>4 DEF Follows
<1>9. CASE SlotReplies
  <2>1. NodeReplies /\ UNCHANGED <<entries, key, layer, stage, memo, began, answer>>
        /\ stage = "slot"
    BY <1>9 DEF SlotReplies, NodeReplies
  <2>2. MemoIsTip' /\ ReplyIsTip'
    BY <2>1, NodeRepliesTip, UtxosTypes DEF Follows
  <2>3. RepliesCover'
    BY <2>1, <2>2 DEF RepliesCover
  <2> QED BY <1>4, <1>5, <1>6, <2>1, <2>2, <2>3 DEF Follows
<1>10. CASE SlotAnswers
  <2>1. /\ stage = "slot" /\ stage' \in {"hit", "fetch"} /\ SlotKnown /\ KeepSlot
        /\ key' = [key EXCEPT ![layer] = LastBlockSlot]
        /\ UNCHANGED <<answer, began, entries, layer>>
    BY <1>10 DEF SlotAnswers, Moves, GoesOn
  <2>2. MemoIsTip' /\ reply' = None /\ memo' # None /\ memo'.slot = LastBlockSlot
    BY <2>1, KeptSlotIsTip, UtxosTypes DEF Follows, RepliesCover
  <2>3. /\ LastBlockSlot \in Slots /\ seen[Ago(now, SlotAge)] <= tips[LastBlockSlot]
        /\ memo # None => memo.slot <= LastBlockSlot
    BY <2>1, LastBlockSlotIsRecent, UtxosTypes DEF Follows, RepliesCover
  <2>4. key'[layer] = LastBlockSlot /\ \A l \in Layers : l # layer => key'[l] = key[l]
    BY <2>1, UtxosTypes
  <2>5. key'[Outer] <= LastBlockSlot /\ seen[Ago(began, SlotAge)] <= tips[key'[Outer]]
    <3>1. CASE layer = Outer
      <4>1. began \in 0..now /\ now \in 0..now /\ now \in Nat /\ began <= now
        BY UtxosTypes
      <4>2. tips[LastBlockSlot] \in Nat /\ LastBlockSlot \in Nat
        <5>1. tips \in [Slots -> Versions] /\ Slots \subseteq Nat /\ Versions \subseteq Nat
          BY UtxosTypes, BoundsAssumption DEF TipTypeOK, Versions, Slots, Times
        <5>2. LastBlockSlot \in Slots
          BY <2>3
        <5> QED BY <5>1, <5>2
      <4>3. began + SlotAge <= now + SlotAge /\ SlotAge \in Nat
        BY <4>1, SlotAgeIsNat
      <4>4. seen[Ago(began, SlotAge)] <= tips[LastBlockSlot]
        BY <2>3, <4>1, <4>2, <4>3, SeenAgo, UtxosTypes
      <4> QED BY <2>4, <3>1, <4>2, <4>4
    <3>2. CASE layer # Outer
      <4>1. /\ memo # None /\ key[Outer] <= memo.slot
            /\ seen[Ago(began, SlotAge)] <= tips[key[Outer]]
        BY <2>1, <3>2 DEF Follows, KeysAreTips, KeyIsKnown
      <4>2. key'[Outer] = key[Outer] /\ key[Outer] \in Nat /\ memo.slot \in Nat
            /\ LastBlockSlot \in Nat
        BY <2>3, <2>4, <3>2, <4>1, UtxosTypes, BoundsAssumption DEF TipTypeOK, Slots, Times
      <4> QED BY <2>3, <4>1, <4>2
    <3> QED BY <3>1, <3>2
  <2>6. LastBlockSlot <= LastBlockSlot
    BY <2>3, BoundsAssumption DEF Slots, Times
  <2>7. KeysAreTips'
    BY <1>1, <1>2, <2>1, <2>2, <2>4, <2>5, <2>6 DEF KeysAreTips, SlotAge
  <2>8. RepliesCover'
    BY <2>1, <2>2 DEF RepliesCover
  <2> QED BY <1>4, <1>5, <2>1, <2>2, <2>7, <2>8 DEF Follows
<1>11. CASE ReadEntry
  <2>1. /\ entries[layer][key[layer]] # None /\ UNCHANGED <<memo, key, entries>> /\ stage = "hit"
        /\ Returns("hit", entries[layer][key[layer]].version)
    BY <1>11 DEF ReadEntry, Live, Returns, Moves
  <2>2. /\ entries[layer][key[layer]].version \in Nat
        /\ tips[key[layer]] <= entries[layer][key[layer]].version
    BY <2>1, UtxosTypes DEF Follows, EntriesCover
  <2> QED BY <1>4, <2>1, <2>2, ReturnFollows
<1>12. CASE EntryExpired
  BY <1>3, <1>4, <1>5, <1>7, <1>12 DEF EntryExpired, Moves, GoesOn, Follows, RepliesCover
<1>13. CASE CallWrapped
  <2>1. /\ stage = "fetch" /\ stage' = "slot" /\ reply' = None
        /\ UNCHANGED <<memo, key, entries, answer, began>>
    BY <1>13 DEF CallWrapped, Moves, GoesOn
  <2>2. KeysAreTips'
    BY <1>1, <1>2, <2>1 DEF Follows, KeysAreTips, KeyIsKnown
  <2>3. RepliesCover'
    BY <2>1 DEF RepliesCover, ReplyIsTip
  <2> QED BY <1>3, <1>4, <1>5, <2>1, <2>2, <2>3 DEF Follows
<1>14. CASE NodeLists
  <2>1. /\ stage = "fetch" /\ UNCHANGED <<entries, key, layer, stage, memo, began, answer>>
        /\ reply' = [slot |-> slot, version |-> version, at |-> now]
    BY <1>14 DEF NodeLists, NodeReplies
  <2>2. tips[key[layer]] <= version
    BY UtxosTypes DEF Grows
  <2>3. RepliesCover'
    BY <1>1, <2>1, <2>2 DEF RepliesCover
  <2> QED BY <1>3, <1>4, <1>5, <1>6, <2>1, <2>3 DEF Follows
<1>15. CASE StoreList
  <2>1. /\ reply # None /\ stage = "fetch" /\ UNCHANGED <<memo, key>>
        /\ Returns("fetch", reply.version)
        /\ entries' = [entries EXCEPT ![layer][key[layer]] =
                                         [version |-> reply.version, at |-> now]]
    BY <1>15 DEF StoreList, Returns, Moves
  <2>2. reply.version \in Nat /\ tips[key[layer]] <= reply.version
    BY <2>1, UtxosTypes DEF Follows, RepliesCover
  <2>3. key[layer] <= slot
    <3>1. memo # None /\ key[layer] <= memo.slot /\ memo.slot <= slot
      BY <2>1 DEF Follows, KeysAreTips, KeyIsKnown, MemoIsTip
    <3>2. key[layer] \in Nat /\ memo.slot \in Nat /\ slot \in Nat
      BY <3>1, UtxosTypes, BoundsAssumption DEF TipTypeOK, Slots, Times
    <3> QED BY <3>1, <3>2
  <2>4. EntriesCover'
    <3> SUFFICES ASSUME NEW l \in Layers, NEW s \in Slots, entries'[l][s] # None
                 PROVE  s <= slot /\ tips[s] <= entries'[l][s].version
      BY <1>1 DEF EntriesCover
    <3>1. \/ entries'[l][s] = entries[l][s]
          \/ /\ l = layer /\ s = key[layer]
             /\ entries'[l][s] = [version |-> reply.version, at |-> now]
      BY <2>1 DEF UtxosTyped, UtxosTypeOK
    <3> QED BY <2>2, <2>3, <3>1 DEF Follows, EntriesCover
  <2> QED BY <2>1, <2>2, <2>4, ReturnFollows
<1>16. CASE LookupFails
  BY <1>3, <1>4, <1>5, <1>7, <1>16 DEF LookupFails, GoesOn, Follows
<1>17. CASE UNCHANGED utxoVars
  <2>1. UNCHANGED <<reply, memo, began, answer, entries, key, layer, stage>>
    BY <1>17 DEF utxoVars, tipVars
  <2>2. RepliesCover'
    BY <1>1, <2>1 DEF Follows, RepliesCover, ReplyIsTip
  <2> QED BY <1>3, <1>4, <1>5, <1>6, <2>1, <2>2 DEF Follows
<1>18. ~IndexLists
  BY DEF IndexLists
<1> QED
  BY <1>8, <1>9, <1>10, <1>11, <1>12, <1>13, <1>14, <1>15, <1>16, <1>17, <1>18 DEF CallNext

OnOneChain == ~forked /\ source # "index"

FollowsTip == Grows /\ Timely /\ (OnOneChain => Follows /\ AsRecentAs(SlotAge))

LEMMA TimelyStep == UtxosTyped /\ Timely /\ [UtxosNext]_utxoVars => Timely'
<1> SUFFICES ASSUME UtxosTyped, Timely, [UtxosNext]_utxoVars PROVE Timely'
  OBVIOUS
<1>1. CASE NodeNext
  BY <1>1, TimelyNode, UtxosTypes
<1>2. CASE CallNext /\ UNCHANGED nodeVars
  <2>1. now' = now /\ now <= now + Latency
    BY <1>2, UtxosTypes, BoundsAssumption DEF nodeVars
  <2>2. reply' = reply \/ reply' = None \/ reply'.at = now
    BY <1>2
    DEF CallNext, Lookup, SlotReplies, NodeReplies, SlotAnswers, KeepSlot, ReadEntry,
        EntryExpired, CallWrapped, NodeLists, IndexLists, StoreList, Returns, LookupFails,
        utxoVars, tipVars
  <2> QED BY <2>1, <2>2 DEF Timely
<1> QED BY <1>1, <1>2, UtxosStepOfEither

LEMMA FollowsTipStep == UtxosTyped /\ FollowsTip /\ [UtxosNext]_utxoVars => FollowsTip'
<1> SUFFICES ASSUME UtxosTyped, FollowsTip, [UtxosNext]_utxoVars PROVE FollowsTip'
  OBVIOUS
<1>1. Grows' /\ Timely'
  BY GrowsStep, TimelyStep, UtxosStepOfEither, UtxosTypes DEF FollowsTip
<1>2. SUFFICES ASSUME OnOneChain' PROVE Follows' /\ AsRecentAs(SlotAge)'
  BY <1>1 DEF FollowsTip
<1>3. OnOneChain /\ ~Rollback
  BY <1>2
  DEF OnOneChain, UtxosNext, NodeNext, Tick, NewBlock, Rollback, Lookup, SlotReplies,
      NodeReplies, SlotAnswers, ReadEntry, EntryExpired, CallWrapped, NodeLists, IndexLists,
      StoreList, Returns, LookupFails, Moves, nodeVars, utxoVars, tipVars
<1>4. Grows /\ Timely /\ Follows /\ AsRecentAs(SlotAge) /\ source # "index"
  BY <1>3 DEF FollowsTip, OnOneChain
<1>5. CASE NodeNext /\ UNCHANGED <<source, entries, key, layer, stage>>
  <2>1. Tick \/ NewBlock
    BY <1>3, <1>5 DEF NodeNext
  <2>2. Follows'
    BY <1>4, <1>5, <2>1, FollowsNode
  <2>3. UNCHANGED <<answer, began>>
    BY <2>1 DEF Tick, NewBlock, TipBecomes
  <2>4. seen'[Ago(began, SlotAge)] = seen[Ago(began, SlotAge)]
    BY <1>4, <1>5, SeenStays, UtxosTypes, SlotAgeIsNat
  <2> QED BY <1>4, <2>2, <2>3, <2>4 DEF AsRecentAs, SlotAge
<1>6. CASE CallNext /\ UNCHANGED nodeVars
  BY <1>4, <1>6, FollowsCall
<1> QED BY <1>5, <1>6, UtxosStepOfEither

\* While the node stays on one chain, a list that came from the node, through
\* one cache or two, is as recent as the tip was a second and a request
\* before its call began, whatever fails.
THEOREM UtxosFollowTipAlways == UtxosSpec => []UtxosFollowTip
<1>1. UtxosInit => FollowsTip
  BY GrowsInitially
  DEF UtxosInit, TipInit, FollowsTip, Timely, Follows, MemoIsTip, EntriesCover, KeysAreTips,
      KeyIsKnown, RepliesCover, AsRecentAs
<1>2. FollowsTip => UtxosFollowTip
  BY DEF FollowsTip, OnOneChain, UtxosFollowTip, AsRecentAs, SlotAge
<1> QED BY <1>1, <1>2, FollowsTipStep, UtxosTypedAlways, PTL DEF UtxosSpec

-----------------------------------------------------------------------------
(***************************************************************************)
(* The protocol parameters.                                                *)
(***************************************************************************)
\* Steps of the context.
ContextNext ==
    \/ CatchUp \/ ReadMissing \/ ReadCached \/ ReadDue \/ NodeServes \/ CheckMoved
    \/ CheckSame \/ FetchAnswers \/ ReadSlot \/ SlotIsRead \/ ReadGenesis
    \/ GenesisAnswers \/ RequestFails \/ UNCHANGED vars

LEMMA StepOfEither ==
    ASSUME [Next]_vars
    PROVE  \/ NodeNext /\ UNCHANGED <<backend, synced, cacheVars, pc, behind>>
           \/ ContextNext /\ UNCHANGED nodeVars
  BY DEF Next, ContextNext, CatchUp, ReadMissing, ReadCached, ReadDue, NodeServes, NodeReplies,
         CheckMoved, CheckSame, FetchAnswers, ReadSlot, SlotIsRead, ReadGenesis,
         GenesisAnswers, RequestFails, vars, tipVars

LEMMA TypeStep == TypeOK /\ [Next]_vars => TypeOK'
<1> SUFFICES ASSUME TypeOK, [Next]_vars PROVE TypeOK'
  OBVIOUS
<1>1. CASE NodeNext /\ UNCHANGED <<backend, synced, cacheVars, pc, behind>>
  BY <1>1, NodeTypeStep DEF TypeOK, cacheVars
<1> DEFINE Rest == /\ backend \in {"ogmios", "cli"}
                   /\ synced \in BOOLEAN
                   /\ behind \in BOOLEAN
                   /\ interval \in {DefaultInterval, BlockInterval}
                   /\ lastFetch \in Times \cup {None}
                   /\ lastSlot \in Times
                   /\ protocol \in Versions \cup {None}
                   /\ pc \in {"idle", "slot", "check", "fetch", "genesis"}
<1>2. TipTypeOK /\ Rest /\ now \in Times
  BY DEF TypeOK, TipTypeOK
<1>3. SUFFICES ASSUME ContextNext, UNCHANGED nodeVars PROVE TipTypeOK' /\ Rest'
  BY <1>1, StepOfEither DEF TypeOK
<1> USE DEF Goto, GoesOn, Begins, cacheVars
<1>4. CASE CatchUp
  <2>1. TipTypeOK'
    BY <1>2, <1>3, <1>4, TipTypeCall DEF CatchUp, tipVars
  <2> QED BY <1>2, <1>4, <2>1 DEF CatchUp
<1>5. CASE ReadMissing
  <2>1. TipTypeOK'
    BY <1>2, <1>3, <1>5, TipTypeCall DEF ReadMissing
  <2> QED BY <1>2, <1>5, <2>1 DEF ReadMissing
<1>6. CASE ReadCached
  <2>1. TipTypeOK'
    BY <1>2, <1>3, <1>6, TipTypeCall DEF ReadCached, AnswersAtOnce
  <2> QED BY <1>2, <1>6, <2>1 DEF ReadCached
<1>7. CASE ReadDue
  <2>1. TipTypeOK'
    BY <1>2, <1>3, <1>7, TipTypeCall DEF ReadDue
  <2> QED BY <1>2, <1>7, <2>1 DEF ReadDue
<1>8. CASE NodeServes
  <2>1. TipTypeOK'
    BY <1>2, <1>3, <1>8, TipTypeCall, NodeRepliesTyped DEF NodeServes, NodeReplies
  <2> QED BY <1>2, <1>8, <2>1 DEF NodeServes
<1>9. ASSUME (SlotKnown /\ KeepSlot) \/ UNCHANGED <<reply, memo>>,
             answer' \in Versions \cup {None, answer}, began' = began
      PROVE  TipTypeOK'
  BY <1>2, <1>3, <1>9, TipTypeCall, KeepSlotTyped
<1>10. SlotKnown => LastBlockSlot \in Times
  BY <1>2 DEF TipTypeOK, SlotKnown, Memoised, LastBlockSlot, Slots
<1>11. CASE CheckMoved
  <2>1. TipTypeOK'
    BY <1>9, <1>11 DEF CheckMoved, TipMoved
  <2> QED BY <1>2, <1>10, <1>11, <2>1 DEF CheckMoved, TipMoved
<1>12. CASE CheckSame
  <2>1. TipTypeOK'
    BY <1>2, <1>9, <1>12 DEF CheckSame, TipSame, Answers
  <2> QED BY <1>2, <1>12, <2>1 DEF CheckSame, TipSame
<1>13. CASE FetchAnswers
  <2>1. reply.version \in Versions
    BY <1>2, <1>13 DEF FetchAnswers, TipTypeOK
  <2>2. TipTypeOK'
    BY <1>2, <1>3, <1>13, <2>1, TipTypeCall DEF FetchAnswers, Answers
  <2> QED BY <1>2, <1>13, <2>1, <2>2 DEF FetchAnswers
<1>14. CASE ReadSlot
  <2>1. TipTypeOK'
    BY <1>2, <1>3, <1>14, TipTypeCall DEF ReadSlot
  <2> QED BY <1>2, <1>14, <2>1 DEF ReadSlot
<1>15. CASE SlotIsRead
  <2>1. TipTypeOK'
    BY <1>9, <1>15 DEF SlotIsRead
  <2> QED BY <1>2, <1>15, <2>1 DEF SlotIsRead
<1>16. CASE ReadGenesis
  <2>1. TipTypeOK'
    BY <1>2, <1>3, <1>16, TipTypeCall DEF ReadGenesis
  <2> QED BY <1>2, <1>16, <2>1 DEF ReadGenesis
<1>17. CASE GenesisAnswers
  <2>1. TipTypeOK'
    BY <1>2, <1>3, <1>17, TipTypeCall DEF GenesisAnswers
  <2> QED BY <1>2, <1>17, <2>1 DEF GenesisAnswers
<1>18. CASE RequestFails
  <2>1. TipTypeOK'
    BY <1>2, <1>3, <1>18, TipTypeCall DEF RequestFails
  <2> QED BY <1>2, <1>18, <2>1 DEF RequestFails
<1>19. CASE UNCHANGED vars
  <2>1. TipTypeOK'
    BY <1>2, <1>3, <1>19, TipTypeCall DEF vars, tipVars
  <2> QED BY <1>2, <1>19, <2>1 DEF vars
<1> QED
  BY <1>3, <1>4, <1>5, <1>6, <1>7, <1>8, <1>11, <1>12, <1>13, <1>14, <1>15, <1>16, <1>17, <1>18,
     <1>19 DEF ContextNext

\* The state stays in its type.
THEOREM ParamsTypeCorrect == Spec => []TypeOK
<1>1. Init => TypeOK
  <2> SUFFICES ASSUME Init PROVE TypeOK
    OBVIOUS
  <2>1. TipTypeOK /\ 0 \in Times
    BY TipTypeInitially, BoundsAssumption DEF Init, Times
  <2>2. interval \in {DefaultInterval, BlockInterval} /\ synced \in BOOLEAN
    BY DEF Init, FirstInterval
  <2> QED BY <2>1, <2>2 DEF Init, TypeOK
<1> QED BY <1>1, TypeStep, PTL DEF Spec

(***************************************************************************)
(* Calls, on any chain: the time of the last check is not later than the   *)
(* last call's beginning, and a reply is not older than that.              *)
(***************************************************************************)
Calls ==
    /\ Timely
    /\ lastFetch # None => lastFetch <= began
    /\ pc = "check" => protocol # None /\ lastFetch = began
    /\ pc # "idle" => answer = None
    /\ pc \in {"idle", "genesis"} \/ (pc = "check" /\ backend = "cli") => reply = None
    /\ reply # None => seen[began] <= reply.version

\* The types in the forms that the proofs use.
LEMMA ParamsTypes ==
    ASSUME TypeOK
    PROVE  /\ TipTypeOK /\ now \in Nat /\ now \in 0..now /\ began \in 0..now /\ version \in Nat
           /\ reply # None => reply.slot \in Slots /\ reply.version \in Nat /\ reply.at \in 0..now
           /\ lastFetch # None => lastFetch \in Nat
           /\ protocol # None => protocol \in Nat
           /\ lastSlot \in Slots /\ interval \in Nat /\ Kept(interval) \in Nat
<1> USE BoundsAssumption, IntervalsAssumption DEF TypeOK
<1>1. TipTypeOK /\ now \in Nat /\ now \in 0..now /\ began \in 0..now /\ version \in Nat
  BY DEF TipTypeOK, Times, Versions
<1>2. reply # None => reply.slot \in Slots /\ reply.version \in Nat /\ reply.at \in 0..now
  BY DEF TipTypeOK, Versions
<1>3. /\ lastFetch # None => lastFetch \in Nat
      /\ protocol # None => protocol \in Nat
      /\ lastSlot \in Slots
  BY DEF Times, Versions, Slots
<1>4. interval \in Nat /\ Kept(interval) \in Nat
  BY DEF Kept
<1> QED BY <1>1, <1>2, <1>3, <1>4

LEMMA CallsStep == TypeOK /\ Grows /\ Calls /\ [Next]_vars => Calls'
<1> SUFFICES ASSUME TypeOK, Grows, Calls, [Next]_vars PROVE Calls'
  OBVIOUS
<1> USE ParamsTypes
<1>1. CASE NodeNext /\ UNCHANGED <<backend, synced, cacheVars, pc, behind>>
  <2>1. UNCHANGED <<reply, began, answer, lastFetch, protocol, pc>>
    BY <1>1 DEF NodeNext, Tick, NewBlock, Rollback, TipBecomes, cacheVars
  <2>2. Timely'
    BY <1>1, TimelyNode DEF Calls
  <2>3. seen'[began] = seen[began]
    BY <1>1, GrowsStep
  <2> QED BY <1>1, <2>1, <2>2, <2>3 DEF Calls
<1>2. SUFFICES ASSUME ContextNext, UNCHANGED nodeVars PROVE Calls'
  BY <1>1, StepOfEither
<1>3. now' = now /\ seen' = seen /\ now <= now + Latency /\ began <= now
  BY <1>2, BoundsAssumption DEF nodeVars
<1> USE DEF Calls, Timely, Goto, GoesOn, Begins, cacheVars
<1>4. CASE CatchUp
  BY <1>3, <1>4 DEF CatchUp, tipVars
<1>5. CASE ReadMissing
  BY <1>3, <1>5 DEF ReadMissing
<1>6. CASE ReadCached
  BY <1>3, <1>6 DEF ReadCached, AnswersAtOnce
<1>7. CASE ReadDue
  BY <1>3, <1>7 DEF ReadDue
<1>8. CASE NodeServes
  <2>1. /\ reply' = [slot |-> slot, version |-> version, at |-> now]
        /\ pc \in {"slot", "fetch"} \/ (pc = "check" /\ backend = "ogmios")
        /\ UNCHANGED <<began, answer, lastFetch, protocol, pc, backend>>
    BY <1>8 DEF NodeServes, NodeReplies
  <2>2. seen[began] <= version
    BY DEF Grows
  <2> QED BY <1>3, <2>1, <2>2
<1>9. CASE CheckMoved
  BY <1>3, <1>9 DEF CheckMoved, TipMoved, KeepSlot
<1>10. CASE CheckSame
  <2>1. pc = "check" /\ pc' = "idle" /\ UNCHANGED <<began, lastFetch, protocol>>
    BY <1>10 DEF CheckSame, Answers
  <2>2. reply' = None \/ reply' = reply
    BY <1>10 DEF CheckSame, TipSame, KeepSlot
  <2>3. reply' = None
    BY <1>10, <2>2 DEF CheckSame, TipSame, KeepSlot
  <2> QED BY <1>3, <2>1, <2>3
<1>11. CASE FetchAnswers
  BY <1>3, <1>11 DEF FetchAnswers, Answers
<1>12. CASE ReadSlot
  BY <1>3, <1>12 DEF ReadSlot
<1>13. CASE SlotIsRead
  BY <1>3, <1>13 DEF SlotIsRead, KeepSlot
<1>14. CASE ReadGenesis
  BY <1>3, <1>14 DEF ReadGenesis
<1>15. CASE GenesisAnswers
  BY <1>3, <1>15 DEF GenesisAnswers
<1>16. CASE RequestFails
  BY <1>3, <1>16 DEF RequestFails
<1>17. CASE UNCHANGED vars
  BY <1>3, <1>17 DEF vars, tipVars
<1> QED
  BY <1>2, <1>4, <1>5, <1>6, <1>7, <1>8, <1>9, <1>10, <1>11, <1>12, <1>13, <1>14, <1>15, <1>16,
     <1>17 DEF ContextNext

(***************************************************************************)
(* On one chain the last slot that was compared is on chain, and what the  *)
(* node replies covers it.                                                 *)
(***************************************************************************)
SlotsAreTips ==
    /\ MemoIsTip /\ ReplyIsTip
    /\ lastSlot <= slot
    /\ pc = "fetch" /\ reply # None => tips[lastSlot] <= reply.version

LEMMA SlotsAreTipsNode ==
    ASSUME TypeOK, Grows, SlotsAreTips, Tick \/ NewBlock,
           UNCHANGED <<backend, synced, cacheVars, pc, behind>>
    PROVE  SlotsAreTips'
<1>1. /\ UNCHANGED <<reply, lastSlot, pc>> /\ slot <= slot'
      /\ \A s \in 0..slot : tips'[s] = tips[s]
  BY ChainStays, ParamsTypes DEF Tick, NewBlock, TipBecomes, cacheVars
<1>2. MemoIsTip' /\ ReplyIsTip'
  BY TipNode, ParamsTypes DEF SlotsAreTips
<1>3. slot \in Nat /\ slot' \in Nat /\ lastSlot \in Nat
  BY ParamsTypes, NodeTypeStep, BoundsAssumption DEF TipTypeOK, NodeNext, Slots, Times
<1>4. lastSlot <= slot /\ lastSlot \in 0..slot
  BY <1>3 DEF SlotsAreTips
<1> QED BY <1>1, <1>2, <1>3, <1>4 DEF SlotsAreTips

LEMMA SlotsAreTipsCall ==
    ASSUME TypeOK, Grows, Calls, SlotsAreTips, ContextNext, UNCHANGED nodeVars
    PROVE  SlotsAreTips'
<1>1. UNCHANGED <<now, slot, version, seen, tips>>
  BY DEF nodeVars
<1>2. ASSUME UNCHANGED memo, reply' = None, UNCHANGED lastSlot PROVE SlotsAreTips'
  BY <1>1, <1>2 DEF SlotsAreTips, MemoIsTip, ReplyIsTip
<1>3. ASSUME UNCHANGED <<memo, reply, lastSlot, pc>> PROVE SlotsAreTips'
  BY <1>1, <1>3 DEF SlotsAreTips, MemoIsTip, ReplyIsTip
<1>4. ASSUME SlotKnown, KeepSlot, lastSlot' \in {lastSlot, LastBlockSlot} PROVE SlotsAreTips'
  <2>1. MemoIsTip' /\ reply' = None
    BY <1>4, KeptSlotIsTip, ParamsTypes DEF SlotsAreTips, Calls
  <2>2. LastBlockSlot <= slot
    BY <1>4, LastBlockSlotIsRecent, ParamsTypes DEF SlotsAreTips, Calls
  <2> QED BY <1>1, <1>4, <2>1, <2>2 DEF SlotsAreTips, ReplyIsTip
<1> USE DEF Goto, cacheVars
<1>5. CASE NodeServes
  <2>1. NodeReplies /\ UNCHANGED <<lastSlot, pc>> /\ reply'.version = version
    BY <1>5 DEF NodeServes, NodeReplies
  <2>2. MemoIsTip' /\ ReplyIsTip'
    BY <2>1, NodeRepliesTip, ParamsTypes DEF SlotsAreTips
  <2>3. tips[lastSlot] <= version
    BY ParamsTypes DEF Grows
  <2> QED BY <1>1, <2>1, <2>2, <2>3 DEF SlotsAreTips
<1>6. CASE ReadMissing \/ ReadCached \/ ReadDue \/ ReadSlot \/ ReadGenesis \/ GenesisAnswers
  <2>1. UNCHANGED <<memo, lastSlot, reply>> /\ pc \in {"idle", "genesis"}
    BY <1>6 DEF ReadMissing, ReadCached, ReadDue, ReadSlot, ReadGenesis, GenesisAnswers
  <2> QED BY <1>2, <2>1 DEF Calls
<1>7. CASE FetchAnswers \/ RequestFails
  BY <1>2, <1>7 DEF FetchAnswers, RequestFails
<1>8. CASE CatchUp \/ UNCHANGED vars
  BY <1>3, <1>8 DEF CatchUp, vars, tipVars
<1>9. CASE CheckMoved
  <2>1. CASE backend = "cli"
    BY <1>2, <1>9, <2>1 DEF CheckMoved, TipMoved, Calls
  <2>2. CASE backend = "ogmios"
    BY <1>4, <1>9, <2>2 DEF CheckMoved, TipMoved
  <2> QED BY <2>1, <2>2 DEF TypeOK
<1>10. CASE CheckSame
  <2>1. CASE backend = "cli"
    BY <1>2, <1>10, <2>1 DEF CheckSame, TipSame, Calls
  <2>2. CASE backend = "ogmios"
    BY <1>4, <1>10, <2>2 DEF CheckSame, TipSame
  <2> QED BY <2>1, <2>2 DEF TypeOK
<1>11. CASE SlotIsRead
  BY <1>4, <1>11 DEF SlotIsRead
<1> QED BY <1>5, <1>6, <1>7, <1>8, <1>9, <1>10, <1>11 DEF ContextNext

(***************************************************************************)
(* While nothing has failed since the last fetch, the parameters are as    *)
(* recent as the last check, but for the age of what it compared.          *)
(***************************************************************************)
Fresh(age) ==
    /\ pc \in {"idle", "slot", "genesis"} /\ protocol # None /\ lastFetch # None =>
          seen[Ago(lastFetch, age)] <= protocol
    /\ AsRecentAs(age + Kept(interval))

LEMMA FreshNode ==
    ASSUME TypeOK, Grows, Calls, NEW age \in Nat, Fresh(age), NodeNext,
           UNCHANGED <<backend, synced, cacheVars, pc, behind>>
    PROVE  Fresh(age)'
<1>1. UNCHANGED <<began, answer, lastFetch, protocol, pc, interval>>
  BY DEF NodeNext, Tick, NewBlock, Rollback, TipBecomes, cacheVars
<1>2. age + Kept(interval) \in Nat /\ began \in 0..now
  BY ParamsTypes
<1>3. seen'[Ago(began, age + Kept(interval))] = seen[Ago(began, age + Kept(interval))]
  BY <1>2, SeenStays, ParamsTypes
<1>4. ASSUME lastFetch # None PROVE seen'[Ago(lastFetch, age)] = seen[Ago(lastFetch, age)]
  <2>1. lastFetch \in 0..now
    BY <1>4, ParamsTypes DEF Calls
  <2> QED BY <2>1, SeenStays, ParamsTypes
<1> QED BY <1>1, <1>3, <1>4 DEF Fresh, AsRecentAs

LEMMA FreshCall ==
    ASSUME TypeOK, Grows, Calls, NEW age \in Nat, behind \/ Fresh(age), ContextNext,
           UNCHANGED nodeVars, ~behind', CheckSame => seen[Ago(began, age)] <= protocol
    PROVE  Fresh(age)'
<1>1. now' = now /\ seen' = seen
  BY DEF nodeVars
<1>2. began \in Nat /\ began \in 0..now /\ now \in Nat /\ Kept(interval) \in Nat /\ TipTypeOK
  BY ParamsTypes
<1>3. ASSUME NEW t \in 0..now, NEW v \in Nat, seen[t] <= v, NEW u \in 0..t, NEW b \in Nat
      PROVE  seen[Ago(u, b)] <= v
  <2>1. u + 0 <= t + b /\ Ago(t, 0) = t /\ u \in 0..now
    BY <1>2 DEF Ago
  <2> QED BY <1>3, <2>1, SeenAgo, ParamsTypes
<1> USE DEF Goto, GoesOn, Begins, cacheVars
<1>4. CASE FetchAnswers
  <2>1. /\ reply # None /\ pc' = "idle" /\ protocol' = reply.version /\ answer' = reply.version
        /\ UNCHANGED <<began, lastFetch, interval>>
    BY <1>4 DEF FetchAnswers, Answers
  <2>2. seen[began] <= reply.version /\ reply.version \in Nat
    BY <2>1, ParamsTypes DEF Calls
  <2>3. seen[Ago(began, age + Kept(interval))] <= reply.version
    BY <1>2, <1>3, <2>2
  <2>4. lastFetch # None => seen[Ago(lastFetch, age)] <= reply.version
    BY <1>2, <1>3, <2>2, ParamsTypes DEF Calls
  <2>5. answer' >= seen[Ago(began, age + Kept(interval))]
    BY <2>1, <2>3
  <2> QED BY <1>1, <2>1, <2>4, <2>5 DEF Fresh, AsRecentAs
<1>5. ASSUME ~FetchAnswers PROVE Fresh(age)
  BY <1>5
  DEF ContextNext, CatchUp, ReadMissing, ReadCached, ReadDue, NodeServes, CheckMoved, CheckSame,
      ReadSlot, SlotIsRead, ReadGenesis, GenesisAnswers, RequestFails, vars
<1>6. CASE CheckSame
  <2>1. /\ pc = "check" /\ pc' = "idle" /\ answer' = protocol
        /\ UNCHANGED <<began, lastFetch, interval, protocol>>
    BY <1>6 DEF CheckSame, Answers
  <2>2. protocol \in Nat /\ lastFetch = began /\ seen[Ago(began, age)] <= protocol
    BY <1>6, <2>1, ParamsTypes DEF Calls
  <2>3. began + age <= began + (age + Kept(interval)) /\ age + Kept(interval) \in Nat
    BY <1>2
  <2>4. seen[Ago(began, age + Kept(interval))] <= protocol
    BY <1>2, <2>2, <2>3, SeenAgo
  <2>5. answer' >= seen[Ago(began, age + Kept(interval))]
    BY <2>1, <2>4
  <2> QED BY <1>1, <2>1, <2>2, <2>5 DEF Fresh, AsRecentAs
<1>7. CASE ReadCached
  <2>1. /\ lastFetch \in Times /\ now < lastFetch + interval /\ pc = "idle" /\ protocol # None
        /\ pc' = "idle" /\ began' = now /\ answer' = protocol
        /\ UNCHANGED <<protocol, lastFetch, interval>>
    BY <1>7 DEF ReadCached, CheckDue, AnswersAtOnce
  <2>2. lastFetch # None /\ Fresh(age)
    BY <1>5, <1>7, <2>1, NoneAssumption DEF ReadCached, FetchAnswers, Times
  <2>3. /\ protocol \in Nat /\ seen[Ago(lastFetch, age)] <= protocol
        /\ lastFetch \in Nat /\ lastFetch \in 0..now
    BY <1>2, <2>1, <2>2, ParamsTypes DEF Fresh, Calls
  <2>4. now <= lastFetch + Kept(interval)
    BY <1>2, <2>1, <2>3, ParamsTypes DEF Kept
  <2>5. now + age <= lastFetch + (age + Kept(interval)) /\ age + Kept(interval) \in Nat
    BY <1>2, <2>3, <2>4
  <2>6. now \in 0..now
    BY <1>2
  <2>7. seen[Ago(now, age + Kept(interval))] <= protocol
    BY <1>2, <2>3, <2>5, <2>6, SeenAgo
  <2>8. answer' >= seen[Ago(now, age + Kept(interval))]
    BY <2>1, <2>7
  <2> QED BY <1>1, <2>1, <2>2, <2>3, <2>8 DEF Fresh, AsRecentAs
<1>8. CASE ReadMissing \/ ReadDue \/ ReadSlot \/ ReadGenesis
  <2>1. /\ answer' = None /\ pc' # "idle" /\ ~FetchAnswers
        /\ pc' \in {"slot", "genesis"} => pc = "idle" /\ UNCHANGED <<protocol, lastFetch>>
    BY <1>8 DEF ReadMissing, ReadDue, ReadSlot, ReadGenesis, FetchAnswers
  <2>2. pc' \in {"slot", "genesis"} \/ pc' \in {"fetch", "check"}
    BY <1>8 DEF ReadMissing, ReadDue, ReadSlot, ReadGenesis
  <2> QED BY <1>1, <1>5, <2>1, <2>2 DEF Fresh, AsRecentAs
<1>9. CASE SlotIsRead \/ GenesisAnswers \/ RequestFails
  <2>1. /\ pc \in {"slot", "genesis"} /\ pc' = "idle" /\ ~FetchAnswers
        /\ UNCHANGED <<protocol, lastFetch, answer, began>>
    BY <1>9 DEF SlotIsRead, GenesisAnswers, RequestFails, FetchAnswers, TypeOK
  <2>2. answer = None
    BY <2>1 DEF Calls
  <2> QED BY <1>1, <1>5, <2>1, <2>2 DEF Fresh, AsRecentAs
<1>10. CASE CheckMoved
  <2>1. pc = "check" /\ pc' = "fetch" /\ UNCHANGED answer
    BY <1>10 DEF CheckMoved
  <2> QED BY <2>1 DEF Fresh, AsRecentAs, Calls
<1>11. CASE CatchUp \/ NodeServes \/ UNCHANGED vars
  <2>1. UNCHANGED <<protocol, lastFetch, interval, answer, began, pc>>
    BY <1>11 DEF CatchUp, NodeServes, NodeReplies, vars, tipVars
  <2> QED BY <1>1, <1>4, <1>5, <2>1 DEF Fresh, AsRecentAs
<1> QED BY <1>4, <1>6, <1>7, <1>8, <1>9, <1>10, <1>11 DEF ContextNext

\* A check that finds the slot no newer than the last it compared need not
\* fetch: the cached parameters cover that slot.
LEMMA SameSlotIsFresh ==
    ASSUME TypeOK, Grows, Calls, SlotsAreTips, backend = "ogmios", CheckSame,
           tips[lastSlot] <= protocol
    PROVE  seen[Ago(began, SlotAge)] <= protocol
<1>1. pc = "check" /\ SlotKnown /\ LastBlockSlot <= lastSlot
  BY DEF CheckSame, TipSame, Goto
<1>2. protocol \in Nat /\ began \in 0..now /\ began <= now /\ now \in 0..now /\ TipTypeOK
  BY <1>1, ParamsTypes DEF Calls
<1>3. LastBlockSlot \in Slots /\ seen[Ago(now, SlotAge)] <= tips[LastBlockSlot]
  BY <1>1, <1>2, LastBlockSlotIsRecent DEF SlotsAreTips, Calls
<1>4. tips[LastBlockSlot] <= tips[lastSlot] /\ lastSlot \in Slots
  BY <1>1, <1>3, ParamsTypes DEF Grows
<1>5. now \in Nat /\ began \in Nat /\ SlotAge \in Nat
  BY ParamsTypes, SlotAgeIsNat
<1>6. Ago(now, SlotAge) \in 0..now
  BY <1>5, AgoIsBefore
<1>7. seen[Ago(now, SlotAge)] \in Nat /\ tips[LastBlockSlot] \in Nat /\ tips[lastSlot] \in Nat
  BY <1>2, <1>3, <1>4, <1>6, BoundsAssumption DEF TipTypeOK, Times, Versions
<1>8. seen[Ago(now, SlotAge)] <= protocol
  BY <1>2, <1>3, <1>4, <1>7
<1>9. began + SlotAge <= now + SlotAge
  BY <1>2, <1>5
<1> QED BY <1>2, <1>5, <1>8, <1>9, SeenAgo

\* What the cached parameters cover, unless their fetch is under way.
CoversLast == pc # "fetch" /\ protocol # None => tips[lastSlot] <= protocol

LEMMA CoversLastStep ==
    ASSUME TypeOK, Grows, SlotsAreTips, behind \/ CoversLast, [Next]_vars, ~Rollback, ~behind'
    PROVE  CoversLast'
<1>1. lastSlot <= slot /\ slot \in Nat /\ lastSlot \in Nat /\ lastSlot \in 0..slot
  BY ParamsTypes, BoundsAssumption DEF SlotsAreTips, TipTypeOK, Slots, Times
<1>2. tips'[lastSlot] = tips[lastSlot]
  <2>1. Tick \/ NewBlock \/ UNCHANGED nodeVars
    BY StepOfEither DEF NodeNext
  <2> QED BY <1>1, <2>1, ChainStays, ParamsTypes
<1>3. CASE FetchAnswers
  <2>1. pc = "fetch" /\ reply # None /\ protocol' = reply.version /\ lastSlot' = lastSlot
    BY <1>3 DEF FetchAnswers
  <2> QED BY <1>2, <2>1 DEF SlotsAreTips, CoversLast
<1>4. CASE CheckMoved
  BY <1>4 DEF CheckMoved, Goto, CoversLast
<1>5. ASSUME UNCHANGED <<protocol, lastSlot>>, ~behind, pc = "fetch" => pc' = "fetch"
      PROVE  CoversLast'
  BY <1>2, <1>5 DEF CoversLast
<1>6. CASE RequestFails
  <2>1. ~behind /\ pc # "fetch" /\ UNCHANGED <<protocol, lastSlot>>
    BY <1>6 DEF RequestFails, TypeOK, cacheVars
  <2> QED BY <1>5, <2>1
<1>7. CASE CheckSame
  <2>1. ~behind /\ pc # "fetch" /\ UNCHANGED protocol
    BY <1>7 DEF CheckSame, Goto
  <2>2. UNCHANGED lastSlot
    BY <1>7 DEF CheckSame, TipSame
  <2> QED BY <1>5, <2>1, <2>2
<1>8. CASE CatchUp \/ NodeServes \/ UNCHANGED vars
  <2>1. UNCHANGED <<protocol, lastSlot, behind, pc>>
    BY <1>8 DEF CatchUp, NodeServes, cacheVars, vars
  <2> QED BY <1>5, <2>1
<1>9. CASE ReadMissing \/ ReadCached \/ ReadDue \/ ReadSlot \/ SlotIsRead \/ ReadGenesis \/ GenesisAnswers
  <2>1. pc # "fetch" /\ UNCHANGED <<protocol, lastSlot, behind>>
    BY <1>9
    DEF ReadMissing, ReadCached, ReadDue, ReadSlot, SlotIsRead, ReadGenesis, GenesisAnswers,
        Goto, cacheVars
  <2> QED BY <1>5, <2>1
<1>10. CASE NodeNext /\ UNCHANGED <<backend, synced, cacheVars, pc, behind>>
  BY <1>5, <1>10 DEF cacheVars
<1> QED BY <1>3, <1>4, <1>6, <1>7, <1>8, <1>9, <1>10, StepOfEither DEF ContextNext

OgmiosOnOneChain == backend = "ogmios" /\ ~forked
CliSyncs == backend = "cli" /\ ~synced

WithinInterval ==
    /\ Grows /\ Calls
    /\ OgmiosOnOneChain => SlotsAreTips
    /\ OgmiosOnOneChain /\ ~behind => CoversLast /\ Fresh(SlotAge)
    /\ CliSyncs /\ ~behind => Fresh(0)

LEMMA WithinIntervalStep == TypeOK /\ WithinInterval /\ [Next]_vars => WithinInterval'
<1> SUFFICES ASSUME TypeOK, WithinInterval, [Next]_vars PROVE WithinInterval'
  OBVIOUS
<1>1. Grows /\ Calls /\ Grows' /\ Calls'
  BY GrowsStep, CallsStep, StepOfEither, ParamsTypes DEF WithinInterval
<1>2. /\ backend' = backend
      /\ forked => forked'
      /\ synced => synced'
  BY DEF Next, NodeNext, Tick, NewBlock, Rollback, CatchUp, ReadMissing, ReadCached, ReadDue,
         NodeServes, NodeReplies, CheckMoved, CheckSame, FetchAnswers, ReadSlot, SlotIsRead,
         ReadGenesis, GenesisAnswers, RequestFails, Goto, nodeVars, vars, tipVars
<1>3. Rollback => forked'
  BY DEF Rollback
<1>4. ASSUME OgmiosOnOneChain' PROVE OgmiosOnOneChain /\ SlotsAreTips /\ SlotsAreTips' /\ ~Rollback
  <2>1. OgmiosOnOneChain /\ SlotsAreTips /\ ~Rollback
    BY <1>2, <1>3, <1>4 DEF OgmiosOnOneChain, WithinInterval
  <2>2. CASE NodeNext /\ UNCHANGED <<backend, synced, cacheVars, pc, behind>>
    BY <1>1, <2>1, <2>2, SlotsAreTipsNode DEF NodeNext
  <2>3. CASE ContextNext /\ UNCHANGED nodeVars
    BY <1>1, <2>1, <2>3, SlotsAreTipsCall
  <2> QED BY <2>1, <2>2, <2>3, StepOfEither
<1>5. ASSUME OgmiosOnOneChain', ~behind' PROVE CoversLast' /\ Fresh(SlotAge)'
  <2>1. behind \/ (CoversLast /\ Fresh(SlotAge))
    BY <1>4, <1>5 DEF WithinInterval
  <2>2. CoversLast'
    BY <1>1, <1>4, <1>5, <2>1, CoversLastStep
  <2>3. CASE NodeNext /\ UNCHANGED <<backend, synced, cacheVars, pc, behind>>
    <3>1. Fresh(SlotAge)
      BY <1>5, <2>1, <2>3
    <3> QED BY <1>1, <2>2, <2>3, <3>1, FreshNode, SlotAgeIsNat
  <2>4. CASE ContextNext /\ UNCHANGED nodeVars
    <3>1. ASSUME CheckSame PROVE seen[Ago(began, SlotAge)] <= protocol
      <4>1. pc = "check" /\ ~behind
        BY <1>5, <3>1 DEF CheckSame, Goto
      <4>2. tips[lastSlot] <= protocol
        <5>1. CoversLast
          BY <2>1, <4>1
        <5>2. pc # "fetch" /\ protocol # None
          BY <1>1, <4>1 DEF Calls
        <5> QED BY <5>1, <5>2 DEF CoversLast
      <4> QED BY <1>1, <1>4, <1>5, <3>1, <4>2, SameSlotIsFresh DEF OgmiosOnOneChain
    <3> QED BY <1>1, <1>5, <2>1, <2>2, <2>4, <3>1, FreshCall, SlotAgeIsNat
  <2> QED BY <2>3, <2>4, StepOfEither
<1>6. ASSUME CliSyncs', ~behind' PROVE Fresh(0)'
  <2>1. CliSyncs /\ (behind \/ Fresh(0))
    BY <1>2, <1>6 DEF CliSyncs, WithinInterval
  <2>2. CASE NodeNext /\ UNCHANGED <<backend, synced, cacheVars, pc, behind>>
    <3>1. Fresh(0)
      BY <1>6, <2>1, <2>2
    <3> QED BY <1>1, <2>2, <3>1, FreshNode
  <2>3. CASE ContextNext /\ UNCHANGED nodeVars
    <3>1. ~CheckSame
      BY <2>1 DEF CliSyncs, CheckSame, TipSame
    <3> QED BY <1>1, <1>6, <2>1, <2>3, <3>1, FreshCall
  <2> QED BY <2>2, <2>3, StepOfEither
<1> QED BY <1>1, <1>4, <1>5, <1>6 DEF WithinInterval

\* While no request has failed since the last fetch, what the context of
\* Ogmios answers on one chain is older than the interval between its checks
\* by no more than the slot that a check compares may be, and what that of a
\* syncing cardano-cli answers is not older than the interval.
THEOREM ParamsWithinIntervalAlways == Spec => []ParamsWithinInterval
<1>1. Init => WithinInterval
  BY NoneAssumption, GrowsInitially
  DEF Init, TipInit, WithinInterval, Calls, Timely, OgmiosOnOneChain, SlotsAreTips, MemoIsTip,
      ReplyIsTip, CoversLast, CliSyncs, Fresh, AsRecentAs
<1>2. TypeOK /\ WithinInterval => ParamsWithinInterval
  <2> SUFFICES ASSUME TypeOK, WithinInterval, ~behind
               PROVE  /\ OgmiosOnOneChain =>
                            AsRecentAs(Latency + Kept(Second) + Kept(interval))
                      /\ CliSyncs => AsRecentAs(Kept(interval))
    BY DEF ParamsWithinInterval, OgmiosOnOneChain, CliSyncs
  <2>1. OgmiosOnOneChain => AsRecentAs(Latency + Kept(Second) + Kept(interval))
    BY DEF WithinInterval, Fresh, SlotAge
  <2>2. 0 + Kept(interval) = Kept(interval)
    BY ParamsTypes
  <2>3. CliSyncs => AsRecentAs(Kept(interval))
    BY <2>2 DEF WithinInterval, Fresh, AsRecentAs
  <2> QED BY <2>1, <2>3
<1> QED BY <1>1, <1>2, WithinIntervalStep, ParamsTypeCorrect, PTL DEF Spec

=============================================================================

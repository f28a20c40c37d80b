---------------------------- MODULE SectionCodec ----------------------------
(***************************************************************************)
(* The sections of an offline transfer file: an online machine captures    *)
(* them, a context loads the file and answers from it, and each submission *)
(* saves the whole of it again.  Of the sections there are the pool ids,   *)
(* the records (about pools, DReps, actions, the committee) and the        *)
(* outputs of an address.                                                  *)
(***************************************************************************)
EXTENDS NoValue, Naturals, Sequences, FiniteSets

CONSTANT
    MaxEntries \* bound: entries of a section

ASSUME EntriesAssumption == MaxEntries \in Nat

VARIABLES
    online,   \* what the online machine captured
    document, \* the document in the file, None without one
    held      \* what a context has loaded, None if none has the file open

sectionVars == <<online, document, held>>

-----------------------------------------------------------------------------
(***************************************************************************)
(* An id or a value is good, or bad: one that only a later release knows.  *)
(* An output has assets, whose names are UTF-8 or not, and may have a      *)
(* datum.                                                                  *)
(***************************************************************************)
Lists(S) == UNION {[1..n -> S] : n \in 0..MaxEntries}

PoolIds == {"one", "another", "bad"}
Records == [credential : {"good", "bad", None}, status : {"good", "bad"}]
Readable == [credential : {"good", None}, status : {"good", None}]
Outputs == [names : {"utf8", "bytes"}, datum : {None, "object"}]

Captures ==
    [stake_pools : Lists(PoolIds) \cup {None}, infos : Lists(Records) \cup {None},
     utxos : Lists(Outputs)]

\* None is nothing that a section or a field could hold.
ASSUME AbsentAssumption ==
    /\ None \notin Lists(PoolIds) \cup Lists(Records) \cup Lists(Readable)
    /\ None \notin PoolIds \cup {"good", "object", "text"}

Each(section, Op(_)) == [i \in DOMAIN section |-> Op(section[i])]

-----------------------------------------------------------------------------
(***************************************************************************)
(* to_dict.  A section that is None stays absent.                          *)
(***************************************************************************)

\* Faulty form: one that is empty is left out as well.
SavedSectionNonEmpty(section) ==
    IF section # None /\ Len(section) = 0 THEN None ELSE section

SavedSection(section) == section

\* A datum is saved as the text of the object it is.
SavedOutput(o) == [o EXCEPT !.datum = IF @ = None THEN None ELSE "text"]

Saved(o) ==
    [stake_pools |-> SavedSection(o.stake_pools), infos |-> SavedSection(o.infos),
     utxos |-> Each(o.utxos, SavedOutput)]

\* An asset's name is decoded as UTF-8, or to_dict raises.
CanSave(o) == \A i \in DOMAIN o.utxos : o.utxos[i].names = "utf8"

-----------------------------------------------------------------------------
(***************************************************************************)
(* from_dict.                                                              *)
(***************************************************************************)

Decodable(section) == {i \in DOMAIN section : section[i] # "bad"}

\* The position in S that k - 1 others in S come before.
Nth(S, k) == CHOOSE i \in S : Cardinality({j \in S : j <= i}) = k

\* A pool id that cannot be decoded is left out.
LoadedPools(section) ==
    IF section = None THEN None
    ELSE [k \in 1..Cardinality(Decodable(section)) |-> section[Nth(Decodable(section), k)]]

\* Of a record what cannot be decoded is None: _from_cbor_hex and _enum_from.
Good(v) == IF v = "bad" THEN None ELSE v
LoadedRecord(r) == [credential |-> Good(r.credential), status |-> Good(r.status)]

\* A datum stays the text it is in the file.
LoadedOutput(o) == o

Loaded(d) ==
    [stake_pools |-> LoadedPools(d.stake_pools),
     infos |-> IF d.infos = None THEN None ELSE Each(d.infos, LoadedRecord),
     utxos |-> Each(d.utxos, LoadedOutput)]

-----------------------------------------------------------------------------
SectionInit ==
    /\ online \in Captures
    /\ document = None /\ held = None

WriteCapture ==
    /\ document = None /\ CanSave(online)
    /\ document' = Saved(online)
    /\ UNCHANGED <<online, held>>

Open ==
    /\ held = None /\ document # None
    /\ held' = Loaded(document)
    /\ UNCHANGED <<online, document>>

Leave ==
    /\ held # None
    /\ held' = None
    /\ UNCHANGED <<online, document>>

SaveSections ==
    /\ held # None /\ CanSave(held)
    /\ document' = Saved(held)
    /\ UNCHANGED <<online, held>>

SectionNext == WriteCapture \/ Open \/ Leave \/ SaveSections

SectionSpec == SectionInit /\ [][SectionNext]_sectionVars

-----------------------------------------------------------------------------
\* part is what whole has at the positions in S, in that order.
InOrder(part, whole, S) ==
    \E at \in [DOMAIN part -> S] :
       /\ \A i, j \in DOMAIN part : i < j => at[i] < at[j]
       /\ \A s \in S : \E i \in DOMAIN part : at[i] = s
       /\ \A i \in DOMAIN part : part[i] = whole[at[i]]

\* However often the file is loaded and saved, a context has a section if and
\* only if it was captured, be it empty, which is what tells "no answer" from
\* "none"; it has every record, less what it cannot decode, the pool ids it
\* can in their order, and every output, less what its datum is; and it can save what it has
\* without a change to what the next context loads.
SectionsSurvive ==
    held # None =>
       /\ held.infos = None <=> online.infos = None
       /\ held.stake_pools = None <=> online.stake_pools = None
       /\ online.infos # None =>
             /\ DOMAIN held.infos = DOMAIN online.infos
             /\ \A i \in DOMAIN held.infos : \A f \in {"credential", "status"} :
                   held.infos[i][f] \in {online.infos[i][f]} \ {"bad"}
                      \/ (held.infos[i][f] = None /\ online.infos[i][f] = "bad")
       /\ online.stake_pools # None =>
             InOrder(held.stake_pools, online.stake_pools,
                     {i \in DOMAIN online.stake_pools : online.stake_pools[i] # "bad"})
       /\ DOMAIN held.utxos = DOMAIN online.utxos
       /\ \A i \in DOMAIN held.utxos :
             (held.utxos[i].datum = None) = (online.utxos[i].datum = None)
       /\ CanSave(held) /\ Loaded(Saved(held)) = held

=============================================================================

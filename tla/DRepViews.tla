----------------------------- MODULE DRepViews ------------------------------
(***************************************************************************)
(* One DRep, from its registrations, updates, votes and retirements to     *)
(* what each backend answers to drep_info.  A registration lapses when the *)
(* DRep neither votes nor updates for Activity epochs.                     *)
(***************************************************************************)
EXTENDS ChainViews

CONSTANTS
    MaxDRepCertificates, \* bound: certificates of the DRep
    Activity             \* drep_activity, in epochs

ASSUME DRepAssumption == MaxDRepCertificates \in Nat /\ Activity \in Nat

\* What the ledger has of a registered DRep.
DRepEntries == [deposit : Nat, expiry : Nat]

ASSUME DRepEntryAssumption == None \notin DRepEntries

VARIABLES
    dRep,      \* the ledger, as far as the DRep is concerned
    dRepAsked, \* the ledger at the first request of a call
    dRepHeld   \* every state the DRep has been in since

dRepVars == <<dRep, dRepAsked, dRepHeld>>

-----------------------------------------------------------------------------
(***************************************************************************)
(* The ledger.  A certificate is of kind "reg", "update" or "unreg"; the   *)
(* deposit of a registration stands for its parameters.                    *)
(***************************************************************************)
CanVote(l) == l.entry # None /\ l.epoch <= l.entry.expiry

DRepState(l) ==
    [status |-> IF l.entry # None THEN "registered"
                ELSE IF l.log = <<>> THEN "not_registered" ELSE "retired",
     active |-> CanVote(l)]

DRepInit ==
    /\ dRep = [epoch |-> 0, slot |-> 0, log |-> <<>>, entry |-> None]
    /\ dRepAsked = dRep
    /\ dRepHeld = {DRepState(dRep)}

DRepMovesTo(l) ==
    /\ dRep' = l
    /\ dRepHeld' = dRepHeld \cup {DRepState(l)}
    /\ UNCHANGED dRepAsked

DRepLands(kind, p, entry) ==
    /\ Len(dRep.log) < MaxDRepCertificates
    /\ DRepMovesTo([dRep EXCEPT
          !.slot = p.slot, !.entry = entry,
          !.log = Append(@, [slot |-> p.slot, tx |-> p.tx, index |-> p.index,
                             number |-> p.number, kind |-> kind])])

Expiry == dRep.epoch + Activity

DRepRegisters ==
    /\ dRep.entry = None
    /\ \E p \in Places(dRep) :
          DRepLands("reg", p, [deposit |-> p.number, expiry |-> Expiry])

DRepUpdates ==
    /\ dRep.entry # None
    /\ \E p \in Places(dRep) :
          DRepLands("update", p, [dRep.entry EXCEPT !.expiry = Expiry])

DRepRetires ==
    /\ dRep.entry # None
    /\ \E p \in Places(dRep) : DRepLands("unreg", p, None)

DRepVotes ==
    /\ dRep.entry # None
    /\ DRepMovesTo([dRep EXCEPT !.entry.expiry = Expiry])

DRepEpochEnds ==
    /\ dRep.epoch < MaxEpoch
    /\ DRepMovesTo([dRep EXCEPT !.epoch = @ + 1, !.slot = @ + 1])

\* A call makes its first request.
DRepAsked ==
    /\ dRepAsked' = dRep
    /\ dRepHeld' = {DRepState(dRep)}
    /\ UNCHANGED dRep

DRepNext ==
    \/ DRepRegisters \/ DRepUpdates \/ DRepRetires \/ DRepVotes
    \/ DRepEpochEnds \/ DRepAsked

DRepSpec == DRepInit /\ [][DRepNext]_dRepVars

OfKind(l, kind) == {c \in Elements(l.log) : c.kind = kind}

-----------------------------------------------------------------------------
(***************************************************************************)
(* The answers.                                                            *)
(***************************************************************************)
DRepInfo(status, active, deposit, expiry) ==
    [status |-> status, active |-> active, deposit |-> deposit, expiry |-> expiry]

Unknown == DRepInfo("not_registered", FALSE, None, None)
Predefined == DRepInfo("registered", TRUE, None, None)

\* cardano-cli: whoever the ledger holds is active, lapsed or not.
CliDRepInfo(l, predefined) ==
    IF predefined THEN {Predefined}
    ELSE IF l.entry = None THEN {Unknown}
    ELSE {DRepInfo("registered", TRUE, l.entry.deposit, l.entry.expiry)}

\* Faulty form: active in the epoch before the expiry, not in it.
OgmiosFromSummaryStrict(entry, epoch) ==
    DRepInfo("registered", epoch < entry.expiry, entry.deposit, entry.expiry)

\* _drep_info_from_summary: the mandate against the epoch.
OgmiosFromSummary(entry, epoch) ==
    DRepInfo("registered", epoch <= entry.expiry, entry.deposit, entry.expiry)

\* Ogmios: the summary is read from l, then the epoch from m.  The node must
\* report the predefined ones.
OgmiosDRepInfo(l, m, predefined, reported) ==
    IF predefined THEN (IF reported THEN {Predefined} ELSE {})
    ELSE IF l.entry = None THEN {Unknown}
    ELSE {OgmiosFromSummary(l.entry, m.epoch)}

\* The mapping _drep_status of Koios.
KoiosDRepStatus(raw) ==
    CASE raw \in {"registered", "active"} -> "registered"
      [] raw \in {"retired", "deregistered"} -> "retired"
      [] OTHER -> "not_registered"

\* Koios, which keeps the DReps that were ever registered.
KoiosDRepInfo(l) ==
    IF l.log = <<>> THEN {Unknown}
    ELSE {DRepInfo(KoiosDRepStatus(IF l.entry = None THEN "deregistered" ELSE "registered"),
                   CanVote(l),
                   IF l.entry = None THEN None ELSE l.entry.deposit,
                   IF l.entry = None THEN None ELSE l.entry.expiry)}

\* _drep_status of Blockfrost: two flags make three statuses.
BlockfrostDRepStatus(retired, active) ==
    IF retired THEN "retired" ELSE IF active THEN "registered" ELSE "not_registered"

\* Blockfrost: a 404 is "not registered", for the anchor it is no anchor; any
\* other failure of either request raises.
BlockfrostDRepInfo(l, fails) ==
    IF fails THEN {}
    ELSE IF l.log = <<>> THEN {Unknown}
    ELSE {DRepInfo(BlockfrostDRepStatus(l.entry = None, CanVote(l)), CanVote(l), None, None)}

\* Equal slot and index keep the order of the three lists: registrations,
\* then updates, then retirements.
KindRank == [reg |-> 1, update |-> 2, unreg |-> 3]
DRepBefore(c, d) ==
    \/ YaciBefore(c, d)
    \/ ~YaciBefore(d, c) /\ KindRank[c.kind] < KindRank[d.kind]

DRepLatest(certificates) == Newest(certificates, DRepBefore)

\* Yaci: the registrations are read from k, the updates from l and the
\* retirements from m; what it has of predefined DReps is nothing.
YaciDRepInfo(k, l, m, predefined) ==
    LET regs == OfKind(k, "reg")
        certificates == regs \cup OfKind(l, "update") \cup OfKind(m, "unreg")
    IN  IF predefined \/ certificates = {} THEN {Unknown}
        ELSE {LET retired == c.kind = "unreg"
              IN  DRepInfo(IF retired THEN "retired" ELSE "registered", ~retired,
                           IF regs = {} THEN None ELSE LastOf(regs).number, None) :
                 c \in DRepLatest(certificates)}

-----------------------------------------------------------------------------
\* What a backend that sees the registered ones only can tell.
Listed(status) == IF status = "retired" THEN "not_registered" ELSE status

\* What the backends say of a DRep is what the ledger holds of it: its status,
\* without the difference of "retired" and "never" where the node is asked,
\* and for all but cardano-cli and Yaci whether it may vote; a lapsed DRep is
\* "not registered" over Blockfrost.  What is put together of several requests
\* held at some time during the call: over Ogmios that the DRep may vote, or
\* may not unless the epoch ends; the status Yaci works out of three lists,
\* unless two of its certificates are in one block.
DRepAnswersAreRight ==
    LET truth == DRepState(dRep)
        held == IF dRep.entry = None THEN None ELSE dRep.entry.deposit
    IN  /\ \A info \in CliDRepInfo(dRep, FALSE) \cup OgmiosDRepInfo(dRep, dRep, FALSE, TRUE) :
              info.status = Listed(truth.status) /\ info.deposit = held
        /\ \A info \in KoiosDRepInfo(dRep) :
              info.status = truth.status /\ info.active = truth.active /\ info.deposit = held
        /\ \A info \in BlockfrostDRepInfo(dRep, FALSE) :
              /\ info.active = truth.active
              /\ info.status # truth.status => truth.status = "registered" /\ ~truth.active
        /\ \A info \in OgmiosDRepInfo(dRepAsked, dRep, FALSE, TRUE) :
              info.active \/ dRepAsked.epoch = dRep.epoch =>
                 \E s \in dRepHeld : info.active = s.active
        /\ SpreadOut(dRep) =>
              \A l \in {dRepAsked, dRep} : \A info \in YaciDRepInfo(dRepAsked, l, dRep, FALSE) :
                 /\ \E s \in dRepHeld : info.status = s.status
                 /\ dRepAsked = dRep /\ dRep.entry # None => info.deposit = held

=============================================================================

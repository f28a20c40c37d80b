--------------------------- MODULE StakePoolViews ---------------------------
(***************************************************************************)
(* One stake pool, from its registrations and retirements to what each     *)
(* backend answers to stake_pools, stake_pool_info and kes_period_info.    *)
(*                                                                         *)
(* The node keeps the pool's state, and so do Blockfrost and Koios in      *)
(* part; Yaci DevKit keeps the certificates only, from which the context   *)
(* works the state out.                                                    *)
(***************************************************************************)
EXTENDS ChainViews

CONSTANTS
    MaxCertificates, \* bound: certificates of the pool
    Anchored         \* the registrations that name a metadata document

ASSUME CertificatesAssumption ==
    MaxCertificates \in Nat /\ Anchored \subseteq 1..MaxCertificates

\* What the ledger has of a registered pool: the parameters in force, those of
\* the next epoch, and when it retires.
Entries == [params : Nat, next : Nat, retiring : Epochs \cup {None}]

\* A registration has no epoch to retire in.
Certificates ==
    [slot : Nat, tx : Nat, index : Nat, number : Nat, retiring : Epochs \cup {None}]

ASSUME RecordsAssumption == None \notin Entries /\ None \notin Certificates

VARIABLES
    pool,      \* the ledger, as far as the pool is concerned
    poolAsked, \* the ledger at the first request of a call
    poolHeld   \* every status the pool has had since

poolVars == <<pool, poolAsked, poolHeld>>

Documents == {"matches", "differs", "unreachable"}

-----------------------------------------------------------------------------
(***************************************************************************)
(* The ledger.  A registration of a registered pool cancels its            *)
(* retirement, and its parameters count from the next epoch.               *)
(***************************************************************************)

PoolState(l) ==
    IF l.entry = None THEN "retired"
    ELSE IF l.entry.retiring = None THEN "registered" ELSE "retiring"

PoolInit ==
    /\ pool = [epoch |-> 0, slot |-> 0, log |-> <<>>, entry |-> None]
    /\ poolAsked = pool
    /\ poolHeld = {"retired"}

\* A certificate at p lands: it announces the retirement r, or registers if
\* r is None, and leaves the pool's entry in the ledger as given.
Lands(p, r, entry) ==
    /\ Len(pool.log) < MaxCertificates
    /\ pool' = [pool EXCEPT !.slot = p.slot, !.entry = entry,
                            !.log = Append(@, [slot |-> p.slot, tx |-> p.tx, index |-> p.index,
                                               number |-> p.number, retiring |-> r])]
    /\ poolHeld' = poolHeld \cup {PoolState(pool')}
    /\ UNCHANGED poolAsked

Registers ==
    \E p \in Places(pool) :
       Lands(p, None,
             IF pool.entry = None
             THEN [params |-> p.number, next |-> p.number, retiring |-> None]
             ELSE [pool.entry EXCEPT !.next = p.number, !.retiring = None])

Retires ==
    /\ pool.entry # None
    /\ \E p \in Places(pool), e \in Epochs :
          /\ e > pool.epoch
          /\ Lands(p, e, [pool.entry EXCEPT !.retiring = e])

PoolEpochEnds ==
    /\ pool.epoch < MaxEpoch
    /\ pool' = [pool EXCEPT
                  !.epoch = @ + 1, !.slot = @ + 1,
                  !.entry = IF @ = None \/ @.retiring = pool.epoch + 1 THEN None
                            ELSE [@ EXCEPT !.params = pool.entry.next]]
    /\ poolHeld' = poolHeld \cup {PoolState(pool')}
    /\ UNCHANGED poolAsked

\* A call makes its first request.
PoolAsked ==
    /\ poolAsked' = pool
    /\ poolHeld' = {PoolState(pool)}
    /\ UNCHANGED pool

PoolNext == Registers \/ Retires \/ PoolEpochEnds \/ PoolAsked

PoolSpec == PoolInit /\ [][PoolNext]_poolVars

Registrations(l) == {c \in Elements(l.log) : c.retiring = None}
Retirements(l) == {c \in Elements(l.log) : c.retiring # None}

-----------------------------------------------------------------------------
(***************************************************************************)
(* The answers.  doc is what a request for the metadata document finds.    *)
(***************************************************************************)

Info(status, retiring, params, metadata) ==
    [status |-> status, retiring |-> retiring, params |-> params, metadata |-> metadata]

\* Faulty form: the document is fetched, and whatever it holds will do.
CliVerifiedFetchOnly(anchored, strict, doc) ==
    ~strict \/ ~anchored \/ doc # "unreachable"

\* _parse_pool_metadata and _verify_pool_metadata: nothing to verify passes.
CliVerified(anchored, strict, doc) == ~strict \/ ~anchored \/ doc = "matches"

CliPoolInfo(l, strict, doc) ==
    IF l.entry = None THEN {}
    ELSE LET anchored == l.entry.params \in Anchored
         IN  IF ~CliVerified(anchored, strict, doc) THEN {}
             ELSE {Info(IF l.entry.retiring = None THEN "registered" ELSE "retiring",
                        l.entry.retiring, l.entry.params, anchored)}

\* A pool the node returns is reported registered; strict is ignored.
OgmiosPoolInfo(l) ==
    IF l.entry = None THEN {}
    ELSE {Info("registered", None, l.entry.params, l.entry.params \in Anchored)}

\* _verify_pool_metadata: with nothing to verify, it raises.
KoiosVerified(anchored, strict, doc) == ~strict \/ (anchored /\ doc = "matches")

\* The row Koios and Blockfrost keep of a pool: its last registration, and
\* its state, which Koios reports and Blockfrost does not.
PoolRow(l) ==
    LET reg == LastOf(Registrations(l))
        ret == LastOf(Retirements(l))
    IN  [pool_status |-> PoolState(l), params |-> reg.number,
         retiring_epoch |-> IF Retirements(l) = {} \/ ret.number < reg.number THEN None
                            ELSE ret.retiring]

KoiosPoolInfo(l, strict, doc) ==
    IF l.log = <<>> THEN {}
    ELSE LET row == PoolRow(l)
             anchored == row.params \in Anchored
         IN  IF ~KoiosVerified(anchored, strict, doc) THEN {}
             ELSE {Info(row.pool_status, row.retiring_epoch, row.params, anchored)}

\* _pool_metadata: the document is the one Blockfrost resolved, or did not.
BlockfrostVerified(anchored, strict, doc) == ~strict \/ (anchored /\ doc = "matches")

\* _retirement_status: the first retirement of the pool in the transaction of
\* its last one, against the cached epoch; "retiring" if that request fails.
RetirementStatus(l, epoch, outage) ==
    LET inTx == {c \in Retirements(l) : c.tx = LastOf(Retirements(l)).tx}
        first == CHOOSE c \in inTx : \A d \in inTx : c.number <= d.number
    IN  IF Retirements(l) = {} THEN [status |-> "registered", retiring |-> None]
        ELSE IF outage THEN [status |-> "retiring", retiring |-> None]
        ELSE IF epoch >= first.retiring THEN [status |-> "retired", retiring |-> None]
        ELSE [status |-> "retiring", retiring |-> first.retiring]

BlockfrostPoolInfo(l, epoch, strict, doc, outage) ==
    IF l.log = <<>> THEN {}
    ELSE LET row == PoolRow(l)
             anchored == row.params \in Anchored
             state == RetirementStatus(l, epoch, outage)
         IN  IF ~BlockfrostVerified(anchored, strict, doc) THEN {}
             ELSE {Info(state.status, state.retiring, row.params, anchored)}

\* Faulty form: a retirement outlives the registration that cancels it.
YaciCertificatesKept(l, m) ==
    {<<r, IF Retirements(m) = {} THEN None ELSE t>> :
        r \in Newest(Registrations(l), YaciBefore),
        t \in Newest(Retirements(m), YaciBefore) \cup {None}}

\* _pool_certificates: the last registration of l and the last retirement of
\* m, unless a later registration has cancelled it.
YaciCertificates(l, m) ==
    {<<r, IF t = None \/ t.slot < r.slot THEN None ELSE t>> :
        r \in Newest(Registrations(l), YaciBefore),
        t \in IF Retirements(m) = {} THEN {None} ELSE Newest(Retirements(m), YaciBefore)}

\* _pool_status.
YaciStatus(retirement, epoch) ==
    IF retirement = None THEN "registered"
    ELSE IF epoch < retirement.retiring THEN "retiring" ELSE "retired"

\* Faulty form: the epoch is read after the certificates.
YaciListedEpochLast(epoch, l, m) ==
    {YaciStatus(c[2], pool.epoch) # "retired" : c \in YaciCertificates(l, m)}

\* stake_pools reads the epoch, which is cached, before the certificates, so that
\* a pool is left out only if it had retired by then.
YaciListed(epoch, l, m) ==
    {YaciStatus(c[2], epoch) # "retired" : c \in YaciCertificates(l, m)}

\* stake_pool_info reads the epoch last.
YaciPoolInfo(l, m, epoch) ==
    {Info(YaciStatus(c[2], epoch), IF c[2] = None THEN None ELSE c[2].retiring,
          c[1].number, c[1].number \in Anchored) : c \in YaciCertificates(l, m)}

\* The entry of the captured section, which no longer ages.
OfflinePoolInfo(section) == IF section = None THEN {} ELSE section

-----------------------------------------------------------------------------
(***************************************************************************)
(* Relays: an address, a host name or the name of a service record, where  *)
(* only the last never has a port.  Each operator is the kind a backend    *)
(* makes of a relay.                                                       *)
(***************************************************************************)
Relays == {r \in [kind : {"address", "name", "service"}, port : BOOLEAN] :
              r.kind = "service" => ~r.port}

\* cardano-cli names the kind, and Blockfrost has a field for each.
CliRelay(r) == r.kind
BlockfrostRelay(r) == r.kind

\* Ogmios, Koios and Yaci leave the two names apart by the port alone.
InferredRelay(r) ==
    IF r.kind = "address" THEN "address"
    ELSE IF r.port THEN "name" ELSE "service"

-----------------------------------------------------------------------------
\* No registration follows a retirement.
NeverRevived(l) ==
    \A r \in Registrations(l), t \in Retirements(l) : r.number < t.number

\* The status, the retirement and the parameters of a registered pool.
StateOf(info) ==
    [status |-> info.status, retiring |-> IF info.status = "retired" THEN None ELSE info.retiring]
LedgerState(l) ==
    [status |-> PoolState(l), retiring |-> IF l.entry = None THEN None ELSE l.entry.retiring]

\* An answer worked out with a cached epoch is the ledger's, but for a pool that
\* has retired since that epoch, which is still answered as retiring.
RightAsOf(info, epoch) ==
    \/ StateOf(info) = LedgerState(pool)
    \/ /\ info.status = "retiring" /\ PoolState(pool) = "retired"
       /\ epoch < info.retiring /\ info.retiring <= pool.epoch

\* What the backends say of a pool at one moment is what the ledger holds of
\* it: cardano-cli and Koios always; Ogmios, which knows no retirement, that
\* it is registered at all; Yaci when no block holds two of its certificates,
\* and Blockfrost when it never came back and its details can be read, as far
\* as the epoch that these two have cached allows: a pool is never reported
\* retired, or registered, that is not.
PoolStatusesAreRight ==
    /\ \A info \in CliPoolInfo(pool, FALSE, "differs") : StateOf(info) = LedgerState(pool)
    /\ (CliPoolInfo(pool, FALSE, "differs") = {}) = (pool.entry = None)
    /\ (OgmiosPoolInfo(pool) = {}) = (pool.entry = None)
    /\ \A info \in KoiosPoolInfo(pool, FALSE, "differs") : StateOf(info) = LedgerState(pool)
    /\ SpreadOut(pool) =>
          \A epoch \in CachedEpochs(pool.epoch) :
             /\ \A info \in YaciPoolInfo(pool, pool, epoch) : RightAsOf(info, epoch)
             /\ NeverRevived(pool) =>
                   \A info \in BlockfrostPoolInfo(pool, epoch, FALSE, "differs", FALSE) :
                      RightAsOf(info, epoch)

\* What Yaci says of a pool held at some time during the call, although it is
\* put together of three readings, the epoch first for stake_pools and last
\* for stake_pool_info; for the latter while it is not of an epoch that began
\* during the call.  Where the cached epoch is of before the call, a pool that
\* is listed or retiring may have retired.
YaciStatusWasHeld ==
    SpreadOut(pool) =>
       \A l, m \in {poolAsked, pool} :
          /\ \A listed \in YaciListed(poolAsked.epoch, l, m) :
                listed => poolHeld \cap {"registered", "retiring"} # {}
          /\ \A epoch \in CachedEpochs(poolAsked.epoch) :
                /\ (\A listed \in YaciListed(epoch, l, m) : ~listed) => "retired" \in poolHeld
                /\ \A info \in YaciPoolInfo(l, m, epoch) :
                      \/ info.status \in poolHeld
                      \/ /\ epoch < poolAsked.epoch /\ info.status = "retiring"
                         /\ "retired" \in poolHeld

\* The parameters answered are those in force or those to come, and a strict
\* call names no document that does not match.  Only a host name without a port changes
\* its kind on the way.
PoolParamsAreRegistered ==
    /\ \A strict \in BOOLEAN, doc \in Documents :
          \A info \in CliPoolInfo(pool, strict, doc) \cup KoiosPoolInfo(pool, strict, doc)
                        \cup BlockfrostPoolInfo(pool, pool.epoch, strict, doc, TRUE) :
             /\ pool.entry # None => info.params \in {pool.entry.params, pool.entry.next}
             /\ info.metadata => info.params \in Anchored
             /\ strict /\ info.metadata => doc = "matches"
    /\ \A r \in Relays : r.kind # "name" \/ r.port =>
          {CliRelay(r), BlockfrostRelay(r), InferredRelay(r)} = {r.kind}

=============================================================================

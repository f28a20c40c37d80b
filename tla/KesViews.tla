------------------------------ MODULE KesViews ------------------------------
(***************************************************************************)
(* The counter of a stake pool's operational certificate.  The ledger      *)
(* keeps the counter of the newest block each pool minted, and accepts a   *)
(* block with that counter or the next one.                                *)
(***************************************************************************)
EXTENDS ChainViews, Integers

CONSTANTS
    KesPools,  \* the stake pools
    MaxMinted  \* bound: the length of the chain

ASSUME KesAssumption == IsFiniteSet(KesPools) /\ MaxMinted \in Nat

VARIABLES
    minted, \* the blocks, each with its pool and the counter it carries
    askedOf \* the chain when a counter was asked for, or captured

kesVars == <<minted, askedOf>>

KesInit == minted = <<>> /\ askedOf = <<>>

BlocksOf(chain, p) == {n \in DOMAIN chain : chain[n].pool = p}

\* -1 is the counter of a pool that has minted no block, less one.
OnChain(chain, p) ==
    IF BlocksOf(chain, p) = {} THEN -1
    ELSE chain[CHOOSE n \in BlocksOf(chain, p) : \A o \in BlocksOf(chain, p) : o <= n].counter

\* The counters the next block of the pool may carry.
Accepted(chain, p) == {OnChain(chain, p), OnChain(chain, p) + 1} \ {-1}

Mints ==
    /\ Len(minted) < MaxMinted
    /\ \E p \in KesPools : \E n \in Accepted(minted, p) :
          minted' = Append(minted, [pool |-> p, counter |-> n])
    /\ UNCHANGED askedOf

KesRollsBack ==
    /\ minted # <<>>
    /\ minted' = SubSeq(minted, 1, Len(minted) - 1)
    /\ UNCHANGED askedOf

KesAsked == askedOf' = minted /\ UNCHANGED minted

KesNext == Mints \/ KesRollsBack \/ KesAsked

KesSpec == KesInit /\ [][KesNext]_kesVars

-----------------------------------------------------------------------------
(***************************************************************************)
(* kes_period_info: the counter on chain and the one to use next.          *)
(***************************************************************************)
Kes(onChain) ==
    [onChain |-> onChain, next |-> IF onChain = None THEN None ELSE onChain + 1]

HasMinted(chain, p) == BlocksOf(chain, p) # {}

\* cardano-cli, of the pool that issued the certificate, and Koios: a pool
\* without a block has no counter.
CliKes(chain, p) == {Kes(IF HasMinted(chain, p) THEN OnChain(chain, p) ELSE None)}

\* Ogmios lists the pools that have a counter.
OgmiosKes(chain, p) == IF HasMinted(chain, p) THEN {Kes(OnChain(chain, p))} ELSE {}

\* Faulty form: the blocks of the pool in the order they were minted.
BlockListedOldest(chain, p) ==
    CHOOSE n \in DOMAIN chain :
        chain[n].pool = p /\ \A o \in DOMAIN chain : chain[o].pool = p => n <= o

BlockListed(chain, p) ==
    CHOOSE n \in DOMAIN chain :
        chain[n].pool = p /\ \A o \in DOMAIN chain : chain[o].pool = p => o <= n

\* Blockfrost: the pool's newest block on chain, then that block in after,
\* which a rollback may have left without it.
BlockfrostKes(chain, after, p) ==
    IF ~HasMinted(chain, p) THEN {}
    ELSE LET n == BlockListed(chain, p)
         IN  IF n \in DOMAIN after /\ after[n] = chain[n] THEN {Kes(after[n].counter)} ELSE {}

\* The captured entries carry no pool: the first is the answer.
OfflineKes(captured) == {captured[i] : i \in {1} \cap DOMAIN captured}

-----------------------------------------------------------------------------
\* The counter to use next is one that the ledger accepts in the pool's next
\* block, also if the pool has rotated once since it was asked for; every
\* backend says the same of a pool that has minted a block, and so does the
\* capture if it is of that pool first.  Two rotations, or a rollback past
\* one, make the counter a refused one.
NextCounterIsAccepted ==
    \A p \in KesPools :
        LET was == OnChain(askedOf, p)
            now == OnChain(minted, p)
            captured == [i \in {1} |-> Kes(was)]
        IN  now \in {was, was + 1} =>
                /\ \A a \in CliKes(askedOf, p) \cup OgmiosKes(askedOf, p) :
                      a.next # None => a.next \in Accepted(minted, p)
                /\ OgmiosKes(askedOf, p) \subseteq CliKes(askedOf, p)
                /\ BlockfrostKes(askedOf, minted, p) \subseteq OgmiosKes(askedOf, p)
                /\ HasMinted(askedOf, p) => OfflineKes(captured) = OgmiosKes(askedOf, p)

=============================================================================

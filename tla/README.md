# Verification of pccontext

`pccontext` gives PyCardano one interface, the *chain context*, over seven
sources of chain data: Blockfrost, Koios, Ogmios, Kupo, cardano-cli, Yaci DevKit
and a JSON file carried to a machine without network.  The transactions package
builds staking transactions from what a context answers.  The modules in this
directory model the parts of it that keep state or depend on each other's state,
check them with TLC on small instances, and prove with TLAPS what holds for
every instance.

Paths below are relative to `src/pccontext/`.

## 1. Inventory

| Component | State it keeps | Operations | What is hard about it |
|---|---|---|---|
| Offline transfer file (`backend/offline_transfer_file.py`, `models/offline_transfer_model.py`, `utils/file_utils.py`) | the whole file in memory, read once; the file | construct (create, load), `submit_tx_cbor`, queries over captured sections | several contexts over one file, no lock, a save that empties the file first, saves that raise half way, processes that die, a file refreshed under an open context |
| Blockfrost context (`backend/blockfrost.py`) | `_epoch_info`, `_epoch`, `_genesis_param`, `_protocol_param`; temporary files | three cached properties sharing one check; status queries; submit, evaluate | one check for three caches, requests that fail between the check and the fetch, a temporary file that must not stay |
| Koios context (`backend/koios.py`) | the same four attributes | the same three properties, one nested in another; queries by page | an attribute that changes its type, the epoch ending between nested reads, errors answered as empty lists |
| Ogmios context (`backend/ogmios.py`) | `_ogmios` and its lock, parameters and the slot they were checked at, a UTxO cache with a time to live, a one-second slot memo | `client`, `close`, cached properties, `_utxos`, status queries, submit, evaluate | threads sharing one client, closing while querying, staleness measured by the tip, rollbacks |
| cardano-cli context (`backend/cardano_cli.py`) | as Ogmios, without a client; temporary files | the same over subprocesses, with fallback commands for submit and evaluate | staleness by sync progress, a fallback after a command whose effect is unknown |
| Kupo extension (`backend/kupo.py`) | a UTxO cache and a datum cache around another context | `_utxos`, everything else delegated | the wrapped context's slot as cache key, its cached lists stored once more, an index that lags |
| Yaci DevKit context (`backend/yaci_devkit.py`) | the epoch, the parameters and the genesis, read once | queries by page, state put together from certificates | defaults for unknown addresses, the order of certificates within a block, lists that change between pages, an epoch that is never read again |
| Status queries of all contexts (pools, DReps, actions, committee, KES, outputs) | none | seven backends answer the same questions from different sources | several requests to one answer, while the ledger moves on; sources that lack what the answer needs |
| Staking helpers (`transactions/stake_*.py`, `vote_delegation.py`, `withdraw_rewards.py`) | none | nine helpers: ask for the account, refuse or build | answers that differ by backend, the ledger moving on between call and landing, captures |
| Assembly and signing (`transactions/assemble.py`, `sign.py`, `witness.py`) | none of their own; lists shared with the caller | merge witnesses, sign | witnesses lost, or shared between transactions |
| Models (`models/*.py`) | none | from and to dictionaries | several names of one field, values that change their shape or their type |
| Explorer, enums, utilities, `backend/base.py` | none | formatting | nothing that a model would show |

The components meet in three places.  The helpers read every backend through
`stake_address_info`, whose conventions for "unknown" and "not registered" are the
backend's own.  Kupo and the UTxO caches read the tip through the wrapped context's
`last_block_slot`.  And the offline file stands between an online machine that
captures and an offline one that records.

What makes each part correct, and where in the code it could go wrong, is listed
under `hazards` in `PROJECT.json`, each at its line with the properties that would
catch it, or the reason no property does yet.

## 2. Modules

| Module | Models | Composed of |
|---|---|---|
| `SubmissionLog` | what "submitting" to a file promises: a log that only gets longer, every acknowledged transaction recorded first (abstract) | |
| `OfflineTransferFile` | contexts over one transfer file | `SubmissionLog` by refinement |
| `EpochService` | wall clock and the remote service's latest epoch | |
| `BlockfrostEpochCache` | the three cached properties and their shared check | `EpochService` |
| `KoiosEpochCache` | the same in the Koios context | `EpochService` |
| `OgmiosClient` | the client shared by threads | |
| `ChainTip` | the node's tip, the clock, `last_block_slot` | |
| `TipParameters` | `protocol_param` and `_is_chain_tip_updated` of Ogmios and cardano-cli | `ChainTip` |
| `TipUtxos` | `_utxos` of Ogmios, cardano-cli and Kupo | `ChainTip` |
| `StakeAccountHelpers` | the nine helpers over every backend's answers and a ledger | |
| `Submission` | `submit_tx_cbor` and `evaluate_tx_cbor` of the online contexts | `NoValue` |
| `Assembly` | `witness`, `sign_transaction`, `assemble_transaction` | `NoValue` |
| `ParameterCodec` | protocol parameters from a report to the fees, and through a file | `NoValue` |
| `SectionCodec` | the captured sections through a file | `NoValue` |
| `ChainViews` | what the next seven share: epochs, the order of certificates | |
| `StakePoolViews`, `DRepViews`, `GovActionViews`, `CommitteeViews`, `OutputViews`, `KesViews` | the ledger as far as one subject is concerned, and what every backend answers about it | `ChainViews` |
| `OfflineClock` | a chain's clock, and the slot and epoch computed from its genesis | `ChainViews` |
| `ChainTipProofs` | theorems about `TipUtxos` and `TipParameters` | `TLAPS` |
| `ViewsProofs` | theorems about the seven modules over `ChainViews` | `TLAPS` |
| `TransactionsProofs` | theorems about `Submission`, `Assembly`, `ParameterCodec` and `SectionCodec` | `TLAPS` |
| the other `*Proofs` | theorems about the module of that name | `TLAPS` |
| `MC*` | the module TLC is given; `MCChainViews` and `MCTransactionsCodecs` hold several modules, one behaviour being about one of them | |

`map` in `PROJECT.json` relates every definition to the lines it stands for.  In
outline:

**OfflineTransferFile.**  `mem[c]` is a context's `_offline_transfer`, `disk` and
`content` the file.  Constructing is `FindMissing`, `CreateFile`, `FillNewFile`
(`check()` and `OfflineTransfer.new`) then `Load`; a submission is `AppendEntry`
(both lists, in memory), `OpenForWriting` (`open(path, "w")`, which empties the
file), `WriteDocument` (written and closed) and `Acknowledge` (the call returns), so
that a process may die, or another context load the file, before the caller is told.
`SaveFailsEarly`, `WriteFails`, `CreateFails` and `LoadFails` are the points at which
a call raises; `Crash` ends a process, `Refresh` is the online machine capturing
again.  When two contexts write at once, the longer document's tail may stay behind
the shorter: `WriteOver` allows the file to end up torn exactly then.  The captured
sections are abstracted to the number of the capture.  `acked` records what callers
were told.  `content` keeps the last document of a file that is torn; what can still be
had of it is `Held`, which is nothing once no context is open on such a file.  The
properties are about that.

**BlockfrostEpochCache, KoiosEpochCache.**  A read begins as `ReadMissing`,
`ReadCached` or `ReadEnded`, and every request it makes is a step of its own, so
that the clock and the service move in between; `RequestFails` may take the place
of any answer and undoes nothing.  In Koios `Updated` is the number stored over the
`_epoch_info` record, `ReadRaises` the `TypeError` of every later check, and
`NestedEpoch` the read of `epoch` inside `protocol_param`.

**OgmiosClient.**  The steps are the accesses to `_ogmios` and to the lock: the
check outside, the acquisition, the check and the creation inside, the release, and
the read for `return`; for `close()`, the swap under the lock and the close after
it.

**ChainTip, TipParameters, TipUtxos.**  The clock counts ticks, `Second` of them to a
second, and slots begin with the seconds; what is read of the chain is a version.
`seen[t]` keeps the version at each tick and `tips[s]` the one up to each slot of the
chain, so that "no older than" is a property of one state.  A request is the node's
reply (`NodeReplies`), which takes up to `Latency` ticks to arrive, and the step that
stores it.  The time stamps are the code's: `_last_chain_tip_fetch`,
`_last_known_block_slot`, the insertion of a `TTLCache` entry, and that of the slot which
`ttl_cache(ttl=1)` keeps for a full second from there (`Memoised`), on no boundary of
the clock.  `behind` says that a request of a check or of a fetch has failed since the
last fetch.  In `TipUtxos` there are two caches: `layer` is the one whose `_utxos` runs,
`source` who is asked on a miss.  Kupo without an index calls the wrapped context
(`CallWrapped`), whose answer may come from its own cache and is then stored anew
(`Returns`, `StoreList`); with one it asks the index, which is up to `IndexLag` ticks
behind the node (`IndexLists`).

**StakeAccountHelpers.**  `backend`, `offline` and `patient` are chosen once and
never change: which context answers, whether through a captured file, and whether
callers let a transaction land before the next call on that account.  `...Answers`
is what `stake_address_info` may return for an account, `Refuses` the test a helper
makes of it.  The nine helpers make five different tests, and are modelled as five
kinds.  The ledger, other wallets and rewards are external.

**Submission.**  A call is a sequence of requests, `step` the one that is next.  A
request is `ok`, `rejected`, `lost` (the node took it and the reply never came) or
`undelivered`.  `SubmitLatest` and `SubmitLegacy` are the two commands of
cardano-cli, `forms` what the installed release understands, `Attempt` one of the
three commands for costs and `Blame` whom the errors speak against.  `tx` is the
node's copy of the transaction, which is forged, evicted or made invalid meanwhile.
`left` are the calls whose temporary file is still there.

**Assembly.**  A list is a number and `lists` maps it to its elements, so that a
transaction and a caller can hold the same one, as in Python.  `Witness` returns a
list to a caller; `Assemble` passes lists that were returned; `Sign` does both.

**ParameterCodec.**  `Declared` has the fields with their aliases in the order of
the class; `ReadKey` is a turn of the loop of `BaseModel.from_dict`, for the keys in
any order, `Construct` is `__post_init__`, `Dictionary` is `to_dict` and `FeesOf` is
`to_pycardano`.  The reports are the shapes the five services send, and one from
before deposits were by byte.

**SectionCodec.**  `online` is what was captured, `document` the file, `held` what a
context has loaded.  A value is good or bad, where bad is one that this release
cannot decode; there are two good pool ids, which tells their order.  What is left of
a list is written with `Nth`, the places that remain counted off, and not with
`SelectSeq`, whose definition the prover cannot unfold.

**ChainViews and the modules over it.**  Each has a ledger (`pool`, `dRep`,
`action`, `committee`, `rows`, `minted`, `genesis` with the clock), actions that move
it on, and for every backend an operator with the answer: a set, empty when the call
raises.  A call that makes several requests reads several ledgers: `poolAsked` and
its like keep the one at its first request, `poolHeld` and its like every state since,
so that "was so at some time during the call" is a property of one state.  Blocks
hold several transactions and transactions several certificates; `Places` says where
the next one may stand.  `CachedEpochs` are the epochs that a context which keeps its
epoch may work with: any one so far over Yaci, which never reads it again, and over
Blockfrost, where another property may have consumed the ends since.  Koios is given one
as recent as its call, or raises, as `KoiosEpochCache` has it.  In `OutputViews` a list is collected by `PageFetched`, with
outputs created and spent in between.  In `OfflineClock` the chain counts its slots
and epochs one by one, and `OfflineSlot`, `OfflineEpoch` compute them.

## 3. Runs

Every run but the violation runs explores its whole state space.

| Run | Instance | Shows |
|---|---|---|
| `offline_single` | 1 context, 3 transactions, up to 4 entries, 2 captures; saves raise at any point, crashes while the file is whole, the one between the write and the answer included | what was acknowledged is never lost (`AckedRecoverable`), no step drops an entry that could be had (`RecordsOnlyGrow`), the file refines `SubmissionLog` (`ImplementsLog`) |
| `offline_shared` | 2 contexts, 2 transactions, 2 entries, every fault | the two lists stay in step everywhere (`HistoryAgrees`) |
| `offline_lost_update` | 2 contexts, no fault | **violation**: the second save drops what the first recorded |
| `blockfrost_reads` | 5 epochs, any reads, requests failing | `AnswersAreCurrent`, `EndIsSeen`, `AnswersNeverRegress` |
| `koios_failures` | 5 epochs, any reads, requests failing | `AnswersAreCurrent`, `ParamsFollowEpoch` |
| `koios_type_error` | the same | **violation**: a read after an epoch has ended raises `TypeError` |
| `ogmios_threads` | 3 threads, 2 calls each, creation failing, with or without a client supplied | `NoClientLost`, `ClosedOnce`, `HandedAClient`, `OneForAll`, `EveryCallEnds` |
| `stake_helpers` | 1 account, 3 balances, 2 pending transactions, all 5 backends, online and captured, patient or not | `TrustedBuildsAreValid`, `RefusalsAreDue`, `TrustedNeverRejected` |
| `tip_params` | 6 ticks, 2 to a second, replies of up to 1; intervals of 3 and 2, 2 versions, failures, forks, both contexts | `ParamsWithinInterval` |
| `tip_utxos` | 5 ticks, 2 to a second, replies of up to 1; entries living 2 in either cache, an index 1 behind, 2 versions, failures, forks; a node's context, Kupo around it, Kupo with an index | `UtxosFollowTip`, `UtxosWithinTtl` |
| `chain_views` | 3 epochs; a pool and a DRep with 4 certificates each, an action with 2 votes, 2 committee members and 2 hot credentials, 5 outputs in pages of 2, 2 pools and 4 blocks, 8 geneses | one property or two per subject: where every backend's answer is the ledger's, and under which conditions the others are |
| `transactions_codecs` | 2 calls under every loss, every set of command forms; 2 transactions, 2 keys, 3 lists of up to 2 witnesses; 6 reports, 2 saves, keys in any order; sections of up to 2 entries | `VerdictsAreTrue`, `FilesAreRemoved`, `EvaluationsAreTrue`, `WitnessesStay`, `ParametersAreReported`, `SectionsSurvive` |

One run per module covers all its configurations: what a property needs of them is
its own hypothesis, over variables that record what has happened so far (`used` and
`failed` in the Blockfrost module, `behind` and `forked` over the tip, `Unclosed`
over the client), and not a separate model.  The trivial case and the interesting
one are therefore both in the state space of every run.

**Bounds.**  Each is a constant of its module, in a guard.  `MaxEntries` and
`MaxCapture`: an overwrite needs two contexts with one entry each, a torn file one
write, a regress one refresh; four entries let a sole context append, fail, retry
and crash in any order.  `MaxEpoch`: a stale answer needs two epoch ends, a lost
end two readers and two ends.  `MaxCalls`, three threads: a race for the lock needs
two threads and a close a third.  `MaxTime`: an interval, and after it the age of
the slot compared, must pass, or one entry's life in each of two caches.  `Second`, `Latency`, `NodeTtl`,
`KupoTtl`, `IndexLag`, `DefaultInterval`, `BlockInterval` are the smallest that differ
from nothing: two ticks let a block fall within a second in which the slot is kept.  The ages
that the properties over the tip allow are exact: with one tick less TLC finds each of
them violated in these instances: `ParamsWithinInterval` for either context, `UtxosWithinTtl`
for each source, `UtxosFollowTip` over Kupo around a context (with `NodeTtl = 2` an entry of
the context alone is gone before the last tick matters).  So they are without `~behind`,
`~forked` over Ogmios or `source # "index"`.  `MaxVersion`: staleness is a difference between two versions.
`MaxRewards`, `MaxPending`: two lovelace tell a part of a balance from the whole,
two transactions let one overtake the other.  `MaxCertificates` and
`MaxDRepCertificates`: a registration, its retirement, a registration that cancels it
and one more, in any arrangement over blocks and transactions.  `MaxEpoch` of the
views: a retirement two epochs ahead, a term and a lapse, and an epoch cached before a
call in which the epoch ends.  `Lifetimes`: the parameter
changes while an action is open.  `MaxOutputs`, `PageSize`, `MaxPages`: a list of more
pages than Yaci reads, rows moving across the end of a page.  `MaxMinted`: two
rotations and a rollback.  `Geneses`: the public networks with short epochs, and one
chain for each condition of `ClockIsRight` that breaks it; `Horizon` is more than one
epoch of each.  `MaxLists`, `MaxElements`: a list passed twice and appended to.
`MaxSaves`: what a first save changes must survive a second.  Deadlock is not checked in these
runs: with every counter at its bound, or every process gone, the system may stop.

**Fairness.**  Only `EveryCallEnds` needs any.  `FairSpec` is weak fairness of
`Continues(t)` for each thread: a thread in the middle of a call runs on when it
can, which is what the interpreter's scheduling gives it.  No thread is obliged to
begin a call.  Weak fairness suffices for the lock because the calls of the
instance are finite in number, so that the lock is free for good in the end.  No
failing or closing is assumed away.

## 4. What the runs found

Two runs expect a violation:

* `_epoch_info` of Koios is overwritten with an epoch number (`backend/koios.py:148`)
  and every later read raises `TypeError` (`koios_type_error`).
* Two contexts over one transfer file lose each other's transactions
  (`offline_lost_update`).

Further behaviours explain why properties have the hypotheses they have.  Each
can be seen by dropping the hypothesis:

* a process that dies over a torn file loses what it held (`AckedRecoverable` without
  the exclusion of `"tear"`);
* a submission that raised is recorded by the next one, and twice if it is repeated;
  so is one whose process died between the write and the answer;
* over Blockfrost the property that first sees the end of an epoch hides it from the
  others, and a request that fails after the check hides it from its own
  (`SoleReader`);
* a slot that `last_block_slot` has kept for most of a second may be compared, or be
  the key of a list, after the next block: the age of the slot adds to the interval, and
  lists are as recent as the tip a second before the call, not at it;
* over Ogmios a fetch that fails after the new slot was recorded is not made up for
  until the tip has moved again, and then all is (`~behind` in `ParamsWithinInterval`); over
  cardano-cli a synced node's parameters are never fetched again (`~synced`);
  until `genesis_param` is read the interval is the 1000 seconds of the default;
* Kupo without an index keeps for `KupoTtl` what the wrapped context has kept for
  `NodeTtl`, so that across a fork a list may be as old as both together
  (`UtxosWithinTtl`); an index that lags puts an older list under a slot
  (`source # "index"` in `UtxosFollowTip`);
* over Koios a failed request reads as "not registered" (`~call.outage` in
  `RefusalsAreDue`), and each exclusion from `Trusted` is a helper that builds what
  the ledger rejects: a registration of a registered address is refused over
  Blockfrost only, where `active_epoch` is set (`docs/source/transactions.rst:10-13`
  says a helper raises);
* over Ogmios a `close()` between the check and the return of `client` hands out
  `None` (`backend/ogmios.py:210`; `Unclosed` in `HandedAClient`), where the comment on
  `close` promises that a later query opens a new client.

Stake pools (`StakePoolViews`):

* a pool that has retired is reported retiring as long as the epoch a context works with
  is an older one (`RightAsOf`): over Yaci for the life of the context
  (`backend/yaci_devkit.py:267`), whose `stake_pools` lists it too; over Blockfrost for the
  rest of an epoch whose beginning another property has consumed
  (`backend/blockfrost.py:663`);
* Yaci keeps a retirement that a registration in the same block has cancelled
  (`backend/yaci_devkit.py:809` compares slots only; `SpreadOut`), although its comment
  claims the ledger's resolution, and `stake_pool_info` reads the epoch last, so that
  across the end of an epoch a pool that came back is answered as retired;
  `stake_pools` reads the epoch first and is not affected;
* over Blockfrost a pool that came back stays retiring or retired (`NeverRevived`), of two
  retirements in a transaction the first counts, and a failed request for the details
  reads as retiring at an unknown epoch;
* a strict call about a pool without metadata is answered by cardano-cli and raises over
  Koios and Blockfrost, and a single host name without a port becomes a service
  record over Ogmios, Koios and Yaci.

DReps, actions and the committee (`DRepViews`, `GovActionViews`, `CommitteeViews`):

* a DRep that has lapsed is active over cardano-cli and Yaci, not active over Ogmios and
  Koios, and not registered over Blockfrost; Yaci does not know the predefined
  ones;
* cardano-cli reports an action that it does not find as expired, or as dropped if there
  are no proposals at all, whatever became of it, and `gov_action_votes` does not tell a ratified
  action from an open one; Yaci dates an action by the lifetime of today, and never
  has an outcome;
* Koios and Blockfrost count a vote that was cast again as two, and committee votes
  have no voter there; the last of two votes in one block is not determined over Yaci;
* a committee member whose term is over is reported active by Blockfrost while the cached
  epoch is an older one (`backend/blockfrost.py:1181`); `committee_state` of Koios raises
  `TypeError` once an epoch has ended under its `epoch` (`backend/koios.py:814`);
* given both credentials of a committee member, Koios, Blockfrost and the file answer
  the first member that either one matches, Ogmios one that both match, and
  cardano-cli ignores the hot one, except that it answers it for a member that has
  none;
* a captured committee member ages, captured pools and DReps do not.

Outputs, counters and the clock (`OutputViews`, `KesViews`, `OfflineClock`):

* a row that is removed between two pages moves the next one past the reader: a live output
  is missing from Yaci's list, and `utxo` then reports it spent; past 1000 pages the
  list ends without a word; Koios asks for the outputs of an address and for the pools without
  a range, although `backend/koios.py:682-686` says that responses are cut;
* the counter to use next is stale after two rotations, or after a rollback past
  one; a captured counter is that of the first pool captured, whichever is asked for;
* the offline epoch is read in the host's time zone, and off by the Byron era unless
  its epochs last as long; a slot length under a second is cut to 0 and divided by;
  a custom network's Byron era is taken to be empty.

Submission (`Submission`):

* over cardano-cli a lost reply makes the fallback submit again, and a transaction the
  node has is reported to have failed; a failing `txid` raises although the
  transaction was submitted, and so does a reply of Yaci that cannot be read;
* the temporary file of Blockfrost stays when a request raises anything but
  `ApiError`;
* costs without a name are kept by position, which shifts when one is missing; Koios
  and Yaci leave some purposes under the node's name.

Assembly and the codecs (`Assembly`, `ParameterCodec`, `SectionCodec`):

* a list passed for two transactions is shared by them, and what is appended for the one is in
  the other;
* an exact price of Ogmios is a float after a save; `min_utxo` comes back as
  `utxo_cost_per_byte`, which has the same second alias;
* an asset's name that is not UTF-8 makes a save raise, before the file is opened; a
  datum comes back as text; what cannot be decoded is lost with the first save.

## 5. What is proved

The theorems hold for every value of the constants, from the assumptions named in
the modules: bounds are naturals, `None` and its like are not among the values, records
and lists they stand in for, the faults are known kinds, a genesis' fields
are naturals and its epoch has a slot at least.

**`OfflineTransferFileProofs`.**  `TypeCorrect`.  `HistoryAgreesAlways`: inductive
as it stands, since every document comes from one of the first two by adding to
both lists (`WithEntryInStep`).  For a single context (`SingleContext`) `SoleInv`
relates memory and file by what the context is doing: an open context's copy extends the
file's, by the transaction under way while a save is running, and equals it when the
document is written.  `SafeInv` adds that the file is torn only under a context that still
runs or before anything was acknowledged, which takes that no process dies over a torn
file (`SurvivableFaults`, `"tear" \notin Faults`).  From the two follow
`SoleContextAckedRecoverable`, `SoleContextImplementsLog` (each step is a step of
`SubmissionLog` over `Held`, or a stutter) and `SoleContextRecordsOnlyGrow`.  Under
`"tear"` all three are false.

**`BlockfrostEpochCacheProofs`, `KoiosEpochCacheProofs`.**  `Reported` says that
nothing the context knows is ahead of the service.  `AnswersNeverRegressAlways` and
`EndIsSeenAlways` follow from it.  `AnswersAreCurrentAlways` needs `SoleInv`: a
sole reader's cached answer is, outside a call, as recent as the epoch whose end
is looked for.  For Koios it is
`Recent`: while `_epoch_info` still is a record, what is cached of the epoch and the
parameters is at least as recent as the epoch it names; once it is a number, reads
raise and answer nothing.

**`OgmiosClientProofs`.**  `ClosedOnceAlways` and `NoClientLostAlways` are inductive
with the type, by the freshness of a client just made (`CreateIsFresh`).
`HandedAClientAlways` and `OneForAllAlways` rest on `KeptOpen`: until a close takes a client
out, whoever is about to return finds the client it checked for.

**`ChainTipProofs`.**  `Grows` says that the versions in the history `seen` and along the
chain `tips` only grow, `Timely` that a reply is stored in time.  About the UTxO caches:
`StoredInTime` and `RepliedInTime` bound the age of an entry and of a reply by what they
came through, the wrapped context's entry and its request, or the index, included;
`UtxosWithinTtlAlways` follows with the age `Live` admits, across forks.
`UtxosFollowTipAlways` is about one chain, where keys matter: `EntriesCover` says that an
entry under a slot covers the chain up to that slot, `MemoIsTip` and `KeysAreTips` that the
slot that is kept, and the one a call looks up, were the tip when a reply was made less than a
second and its way before, and that the wrapped context looks up no earlier slot than Kupo did.
About the parameters: `Calls` says what a call knows at each of its steps, and
`SlotsAreTips` that the last slot compared is on the chain.  `CoversLast` says that the
cached version covers that slot unless its fetch is under way: a check that finds the slot
no newer has therefore found the version of a slot that is at most `SlotAge` old.
`Fresh` carries that from one check to the next, for Ogmios with that age and for a syncing
cardano-cli with none; both begin anew with each fetch, which is why failures
before it do not matter.

**`StakeAccountHelpersProofs`.**  `TrustedBuildsAreValidAlways` and `RefusalsAreDueAlways` come from
a table: `Told` and `Found` say what an answer of each backend tells of the account it is about.
`TrustedNeverRejectedAlways` adds `Awaited` and `Unpaid`: while a patient caller's
transaction is under way nothing else of that account is, and nobody else can undo what
it was checked against.

**`ViewsProofs`.**  Each property of `chain_views` is a theorem of its own module's
specification, for any number of certificates, votes, blocks, outputs and epochs.  What
an answer is right about is one state, but which states there are takes an invariant:

* `Landed` says what a log of certificates is whose places were handed out by `Places`:
  numbered, in the order of slots, a transaction in one slot.  `PoolInv`, `DRepInv` and
  `ActionInv` add how the entry in the ledger follows from the last certificate
  (`EntryFollows`), from which the status each backend derives is the ledger's.  That Yaci,
  which sorts by slot, finds the last one takes `SpreadOut`, that no slot has two.  With a
  cached epoch the status may differ, and only from retired to retiring (`RightAsOf`), since
  such an epoch is at most the ledger's (`CachedEpochsPast`).
* `PoolSince`, `DRepSince` and `ActionSince` relate what a call saw first to the ledger of
  now: a log of certificates is a beginning of the later one, the epochs of an action are
  filled in and never changed, and what the subject was in between was held.  `YaciStatusWasHeldAlways` needs it, since its
  three readings may be of three ledgers.
* The committee's properties hold of every state of `CommitteeInv`, which is its type and
  that a capture is of an earlier epoch and the same terms; a cached epoch is again at most
  the ledger's; those of `KesViews` of every
  state of its type.  The counter of a pool is that of its greatest position on the
  chain (`BlocksOf`), and what two chains have at it decides both.
* `PagesFollow` says that what was read of the pages so far includes every row before
  their end that was there when the call began, and, in a list that grows at its end,
  equals that beginning.  It holds as long as no row is removed: one that is moves the later ones
  across the end of a page.
* `ClockCounts` says that the slots, the epochs and the rests that the chain counted up
  amount to its time, in either era.  The step from one era to the other is where the
  regularity of the genesis (`Regular`, the hypothesis of `ClockIsRight`) is used, and
  `Multiples` and `Divided` are the arithmetic of whole epochs.  `TipFollows` bounds the
  age of the cached slot by one reading of the clock.

The proof of `ActionStatusesAreRight` is where the model was found wrong: `ActionStatus`
was a `CASE` whose guards overlap, for an enacted action has been ratified too.  What
such a `CASE` means is left open; the code asks in an order, and so does the `IF` now.

**`TransactionsProofs`.**  `StepsAgree` says, for each step of a submission, what the
requests before it have done to the transaction and to the file; `VerdictsAreTrueAlways`
and `FilesAreRemovedAlways` follow from it.  `EvaluationsAreTrueAlways` adds `ErrorsAgree`, that
an attempt fails with anything but "unsupported" only where the release has a form of the
command; and `CostsOfPresent`, by the positions of what is present (`Ranks`,
`EachRankIsTaken`: as many ranks as elements, no two alike, hence each is taken).  For
`WitnessesStayAlways` one must know who holds which list: `Owned` says that the list a
transaction has was passed for it, and that its list of bootstrap witnesses no caller and
no other transaction has, so that what is appended in place to one list shows up where
it was passed and nowhere else.  For `ParametersAreReportedAlways` the tables of names are
reduced to `FieldsOfKeys`, which field each key is of, and to `SavedKeys`; `Comes` says of a
field, by what was read and what is still unread, that it will have one of given values,
`Lacks` that it will have none.  No order of the keys disturbs either (`ReadingKeeps`), but
for the cost models, of which the raw ones must be read last.  `CodecInv` says what each
field comes to, from the report and again from each file (`SaveKeeps`), so that nothing is
lost however often the object is saved.  `SectionInv` says that the file is that of the
capture or of what a context first had of it; that it stays so rests on `KeptStays`,
that loading what was saved of what was loaded changes nothing.

**Model-checked only.**  `EveryCallEnds`, because liveness under fairness is out of the
prover's reach.  The two violation runs are TLC's, as counterexamples are.
Every inductive invariant named above was checked by TLC on the run of its module before
it was proved.

## 6. Plan

What is modelled comes before anything new.

1. The capacity of the UTxO caches: the least recent entries are evicted, which no
   property above notices, since an entry that is gone is fetched again.
2. The codecs of the remaining sections, where one differs from the three kinds.
3. One abstract specification for what the caches promise, an answer that the source had
   recently and never an older one again, and the two epoch caches shown to implement it.

## 7. Not modelled

PyCardano (building, balancing and signing transactions), the services, nodes and
ledger beyond what their answers are; logging, formatting and the terminal explorer.
Of the models, the fields that are copied from a report to the object and back; of
an action what it contains, of an output its assets and its address, of a pool its stake.
The treasury and the stake distributions are figures passed on from one request.
Genesis parameters beyond those the clock and the intervals use.

The datum cache of Kupo and the script lookups key what never changes by its hash.
Parallel use of a Blockfrost or Koios context by threads is not modelled: the code
makes no provision for it and the documents promise none.  An interval the caller
chose as exactly the default, and epoch 0 (taken for "no epoch") beyond its effect on
the caches, are noted as hazards only.

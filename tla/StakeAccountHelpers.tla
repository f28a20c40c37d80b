------------------------ MODULE StakeAccountHelpers ------------------------
(***************************************************************************)
(* The staking helpers of pccontext.transactions, over the answers each    *)
(* backend gives to stake_address_info.                                    *)
(*                                                                         *)
(* A helper asks its context for the state of a stake address, refuses or  *)
(* builds a transaction, and leaves it to the caller to submit it.  By the *)
(* time the transaction reaches the ledger the account may have changed.   *)
(* An offline context answers from what was captured of another backend.   *)
(*                                                                         *)
(* The helpers fall into five kinds by the check they make: the four that  *)
(* register, the two that delegate stake, vote_delegation (no check), the  *)
(* deregistration and the withdrawal.                                      *)
(***************************************************************************)
EXTENDS Naturals, FiniteSets

CONSTANTS
    Accounts,   \* stake addresses
    MaxRewards, \* bound: rewards of an account
    MaxPending  \* bound: transactions built and not landed

Helpers == {"register", "delegate", "vote", "deregister", "withdraw"}
Nodes == {"ogmios", "cli"}
Backends == {"blockfrost", "koios", "yaci"} \cup Nodes

ASSUME BoundsAssumption == MaxRewards \in Nat \ {0} /\ MaxPending \in Nat \ {0}

VARIABLES
    backend,   \* the context that answers stake_address_info
    offline,   \* whether the answers come from a file captured of it
    patient,   \* whether an account is left alone until a transaction lands
    ledger,    \* ledger[a]: the account of stake address a
    captured,  \* captured[a]: the account when the file was captured
    pending,   \* transactions built and not landed
    call,      \* the last call: its helper, what it saw and what came of it
    rejected   \* the helper of the last transaction to land, if it was rejected

setting == <<backend, offline, patient>>
vars == <<setting, ledger, captured, pending, call, rejected>>

Account == [status : {"never", "registered", "deregistered"}, rewards : 0..MaxRewards]
Transaction == [helper : Helpers, account : Accounts, amount : 0..MaxRewards]
Outcomes == {"none", "built", "refused", "raised"}

Fresh == [status |-> "never", rewards |-> 0]

Init ==
    /\ backend \in Backends
    /\ offline \in BOOLEAN
    /\ patient \in BOOLEAN
    /\ ledger = [a \in Accounts |-> Fresh]
    /\ captured = ledger
    /\ pending = {}
    /\ call = [helper |-> "register", saw |-> Fresh, outage |-> FALSE,
               outcome |-> "none", amount |-> 0]
    /\ rejected = {}

Registered(account) == account.status = "registered"

(***************************************************************************)
(* stake_address_info: what each backend may answer for an account.  The   *)
(* list it returns is empty or has one record.  Fields left out take the   *)
(* defaults of the model, active = True and active_epoch = None.           *)
(***************************************************************************)
Answer(kind, active, hasActiveEpoch, rewards) ==
    [kind |-> kind, active |-> active, hasActiveEpoch |-> hasActiveEpoch,
     rewards |-> rewards]

Raises == Answer("raises", FALSE, FALSE, 0)
Empty == Answer("empty", FALSE, FALSE, 0)
Default(rewards) == Answer("found", TRUE, FALSE, rewards)

When(condition, answer) == {a \in {answer} : condition}

\* An account the service does not know is a 404, raised as BlockfrostError.
\* What active_epoch it reports for a deregistered one is left open.
BlockfrostAnswers(account) ==
    CASE Registered(account) -> {Answer("found", TRUE, TRUE, account.rewards)}
      [] account.status = "never" -> {Raises}
      [] account.status = "deregistered" ->
            {Answer("found", FALSE, hasEpoch, account.rewards) : hasEpoch \in BOOLEAN}

\* The status of the record is not read.  Whether a deregistered account has
\* a record is left open.
KoiosAnswers(account) ==
    When(account.status # "never", Default(account.rewards))
        \cup When(~Registered(account), Empty)

\* No response gives a StakeAddressInfo() of defaults.  An unexpected status
\* is printed and leaves the response unbound.
YaciAnswers(account) ==
    IF Registered(account) THEN {Default(account.rewards)} ELSE {Default(0), Raises}

\* Faulty form: a record of defaults for an address that is not registered.
NodeDefaults(account) ==
    {Default(IF Registered(account) THEN account.rewards ELSE 0)}

\* Ogmios and cardano-cli list registered accounts only.
NodeAnswers(account) ==
    {IF Registered(account) THEN Default(account.rewards) ELSE Empty}

\* A request that fails raises, but for Koios, which logs it and answers [].
OutageAnswers == {IF backend = "koios" THEN Empty ELSE Raises}

OnlineAnswers(account) ==
    CASE backend = "blockfrost" -> BlockfrostAnswers(account)
      [] backend = "koios" -> KoiosAnswers(account)
      [] backend = "yaci" -> YaciAnswers(account)
      [] backend \in Nodes -> NodeAnswers(account)

\* An offline context finds the records captured under their own address.  A
\* capture that raised is not there, nor the defaults of Yaci, which have no
\* address.
OfflineAnswers(account) ==
    {IF answer = Raises \/ (backend = "yaci" /\ ~Registered(account)) THEN Empty
     ELSE answer : answer \in OnlineAnswers(account)}

View(a) == IF offline THEN captured[a] ELSE ledger[a]

Answers(a, outage) ==
    IF offline THEN OfflineAnswers(captured[a])
    ELSE IF outage THEN OutageAnswers
    ELSE OnlineAnswers(ledger[a])

(***************************************************************************)
(* The helpers.                                                            *)
(***************************************************************************)
\* Faulty forms: a registration is never refused; a withdrawal is refused the
\* wrong way round.
RefusesNoRegistration(helper, info) ==
    CASE helper = "register" -> FALSE
      [] helper = "delegate" ->
            info.kind = "empty" \/ (~info.active /\ ~info.hasActiveEpoch)
      [] helper = "deregister" -> info.kind = "empty" \/ ~info.active
      [] helper = "withdraw" ->
            info.kind = "empty" \/ ~info.active \/ info.rewards = 0

RefusesFunded(helper, info) ==
    CASE helper = "register" ->
            info.kind = "found" /\ info.active /\ info.hasActiveEpoch
      [] helper = "delegate" ->
            info.kind = "empty" \/ (~info.active /\ ~info.hasActiveEpoch)
      [] helper = "deregister" -> info.kind = "empty" \/ ~info.active
      [] helper = "withdraw" ->
            info.kind = "empty" \/ ~info.active \/ info.rewards # 0

\* Whether a helper refuses, given the list of stake_address_info.
Refuses(helper, info) ==
    CASE helper = "register" ->
            info.kind = "found" /\ info.active /\ info.hasActiveEpoch
      [] helper = "delegate" ->
            info.kind = "empty" \/ (~info.active /\ ~info.hasActiveEpoch)
      [] helper = "deregister" -> info.kind = "empty" \/ ~info.active
      [] helper = "withdraw" ->
            info.kind = "empty" \/ ~info.active \/ info.rewards = 0

\* What withdraw_rewards withdraws.
Amount(helper, info) == IF helper = "withdraw" THEN info.rewards ELSE 0

Called(helper, a, outage, outcome, amount) ==
    call' = [helper |-> helper, saw |-> View(a), outage |-> outage,
             outcome |-> outcome, amount |-> amount]

Alone(a) == patient => \A tx \in pending : tx.account # a

\* stake_address_info raises, and with it the helper.
CallRaises(helper, a, outage) ==
    /\ helper # "vote"
    /\ Alone(a)
    /\ Raises \in Answers(a, outage)
    /\ Called(helper, a, outage, "raised", 0)
    /\ UNCHANGED <<setting, ledger, captured, pending, rejected>>

Refuse(helper, a, outage) ==
    /\ helper # "vote"
    /\ Alone(a)
    /\ \E info \in Answers(a, outage) \ {Raises} : Refuses(helper, info)
    /\ Called(helper, a, outage, "refused", 0)
    /\ UNCHANGED <<setting, ledger, captured, pending, rejected>>

Build(helper, a, outage, amount) ==
    /\ Alone(a)
    /\ Cardinality(pending) < MaxPending
    /\ pending' = pending \cup {[helper |-> helper, account |-> a, amount |-> amount]}
    /\ Called(helper, a, outage, "built", amount)
    /\ UNCHANGED <<setting, ledger, captured, rejected>>

BuildChecked(helper, a, outage) ==
    /\ helper # "vote"
    /\ \E info \in Answers(a, outage) \ {Raises} :
          ~Refuses(helper, info) /\ Build(helper, a, outage, Amount(helper, info))

BuildUnchecked(a) == Build("vote", a, FALSE, 0)

(***************************************************************************)
(* The ledger.                                                             *)
(***************************************************************************)
\* What the node accepts.  A withdrawal takes the whole balance.
Valid(helper, account, amount) ==
    CASE helper = "register" -> ~Registered(account)
      [] helper \in {"delegate", "vote", "deregister"} -> Registered(account)
      [] helper = "withdraw" ->
            Registered(account) /\ amount = account.rewards /\ amount > 0

Applied(helper, account) ==
    CASE helper = "register"   -> [account EXCEPT !.status = "registered"]
      [] helper = "deregister" -> [status |-> "deregistered", rewards |-> 0]
      [] helper = "withdraw"   -> [account EXCEPT !.rewards = 0]
      [] helper \in {"delegate", "vote"} -> account

Land(tx) ==
    /\ pending' = pending \ {tx}
    /\ \/ /\ Valid(tx.helper, ledger[tx.account], tx.amount)
          /\ ledger' = [ledger EXCEPT ![tx.account] = Applied(tx.helper, @)]
          /\ rejected' = {}
       \/ /\ ~Valid(tx.helper, ledger[tx.account], tx.amount)
          /\ rejected' = {tx.helper}
          /\ UNCHANGED ledger
    /\ UNCHANGED <<setting, captured, call>>

\* An epoch ends and pays rewards.
PayRewards(a) ==
    /\ Alone(a)
    /\ Registered(ledger[a])
    /\ ledger[a].rewards < MaxRewards
    /\ ledger' = [ledger EXCEPT ![a].rewards = @ + 1]
    /\ UNCHANGED <<setting, captured, pending, call, rejected>>

\* Another wallet of the same keys registers or deregisters the address.
OtherWallet(a) ==
    /\ Alone(a)
    /\ \E helper \in {"register", "deregister"} :
          /\ Valid(helper, ledger[a], 0)
          /\ ledger' = [ledger EXCEPT ![a] = Applied(helper, @)]
    /\ UNCHANGED <<setting, captured, pending, call, rejected>>

\* The online machine captures the accounts.
Capture ==
    /\ offline
    /\ captured' = ledger
    /\ UNCHANGED <<setting, ledger, pending, call, rejected>>

Next ==
    \/ \E a \in Accounts :
        \/ \E helper \in Helpers, outage \in (IF offline THEN {FALSE} ELSE BOOLEAN) :
              \/ CallRaises(helper, a, outage)
              \/ Refuse(helper, a, outage)
              \/ BuildChecked(helper, a, outage)
        \/ BuildUnchecked(a)
        \/ PayRewards(a) \/ OtherWallet(a)
    \/ \E tx \in pending : Land(tx)
    \/ Capture

Spec == Init /\ [][Next]_vars

-----------------------------------------------------------------------------
TypeOK ==
    /\ backend \in Backends
    /\ offline \in BOOLEAN
    /\ patient \in BOOLEAN
    /\ ledger \in [Accounts -> Account]
    /\ captured \in [Accounts -> Account]
    /\ pending \subseteq Transaction
    /\ call \in [helper : Helpers, saw : Account, outage : BOOLEAN,
                 outcome : Outcomes, amount : 0..MaxRewards]
    /\ rejected \subseteq Helpers

(***************************************************************************)
(* The helpers that keep the promise of the documentation, to raise        *)
(* "rather than building something the node will reject", by what answers  *)
(* stake_address_info.  The others build: a registration of a registered   *)
(* address wherever active_epoch is not set; over Blockfrost a delegation  *)
(* from a deregistered address, whose active_epoch may be; over Koios and  *)
(* Yaci whatever needs a registered address, for their records say active  *)
(* of any; and everywhere the delegation of any address's vote.            *)
(***************************************************************************)
Trusted ==
    CASE backend = "blockfrost" -> {"register", "deregister", "withdraw"}
      [] backend \in Nodes \/ (backend = "yaci" /\ offline) ->
            {"delegate", "deregister", "withdraw"}
      [] backend = "koios" \/ (backend = "yaci" /\ ~offline) -> {"withdraw"}

BuiltIsValid(helpers) ==
    call.outcome = "built" /\ call.helper \in helpers =>
        Valid(call.helper, call.saw, call.amount)

\* What these helpers build, the node would have accepted when the context's
\* answer was true; a withdrawal is of a registered address and of its whole
\* balance.  Over a file, the answer was true when it was captured.
TrustedBuildsAreValid == BuiltIsValid(Trusted)

\* A helper refuses nothing the node would have accepted, unless a request
\* failed.
RefusalsAreDue ==
    call.outcome = "refused" /\ ~call.outage =>
        LET amount == IF call.helper = "withdraw" THEN call.saw.rewards ELSE 0
        IN  ~Valid(call.helper, call.saw, amount)

\* When an account is left alone between a call and the landing of what it
\* built, the node accepts what these helpers build online, call after call.
TrustedNeverRejected == patient /\ ~offline => rejected \cap Trusted = {}

=============================================================================

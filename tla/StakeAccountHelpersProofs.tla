--------------------- MODULE StakeAccountHelpersProofs ----------------------
(***************************************************************************)
(* Proofs about StakeAccountHelpers, for any accounts, rewards and number  *)
(* of transactions under way.                                              *)
(***************************************************************************)
EXTENDS StakeAccountHelpers, TLAPS

\* What a backend may answer.
AnswerType == [kind : {"raises", "empty", "found"}, active : BOOLEAN,
               hasActiveEpoch : BOOLEAN, rewards : 0..MaxRewards]

\* A record found of an account, by what answers.
Found(account, info) ==
    /\ info.kind = "found"
    /\ info.rewards \in {account.rewards, 0}
    /\ Registered(account) => info.rewards = account.rewards
    /\ info.active /\ backend \in {"blockfrost"} \cup Nodes => Registered(account)
    /\ info.active /\ backend = "blockfrost" => info.hasActiveEpoch
    /\ backend # "blockfrost" => info.active /\ ~info.hasActiveEpoch
    /\ Registered(account) => info.active

\* Every backend answers with one, unless the account is not registered.
LEMMA AnswersOfBackends ==
    ASSUME backend \in Backends, NEW account \in Account, NEW info \in OnlineAnswers(account)
    PROVE  (info \in {Raises, Empty} /\ ~Registered(account)) \/ Found(account, info)
<1> USE DEF Found
<1> USE DEF Backends, Nodes, Answer, Raises, Empty, Default, Registered, Account
<1>1. CASE backend = "blockfrost"
  <2>1. info \in BlockfrostAnswers(account)
    BY <1>1 DEF OnlineAnswers
  <2>2. \/ /\ account.status = "registered"
           /\ info = Answer("found", TRUE, TRUE, account.rewards)
        \/ account.status # "registered" /\ info = Raises
        \/ /\ account.status # "registered"
           /\ \E hasEpoch \in BOOLEAN : info = Answer("found", FALSE, hasEpoch, account.rewards)
    BY <2>1 DEF BlockfrostAnswers
  <2> QED BY <1>1, <2>2
<1>2. CASE backend = "koios"
  <2>1. info \in KoiosAnswers(account)
    BY <1>2 DEF OnlineAnswers
  <2>2. info = Default(account.rewards) \/ (~Registered(account) /\ info = Empty)
    BY <2>1 DEF KoiosAnswers, When
  <2> QED BY <1>2, <2>2
<1>3. CASE backend = "yaci"
  <2>1. info \in YaciAnswers(account)
    BY <1>3 DEF OnlineAnswers
  <2>2. \/ Registered(account) /\ info = Default(account.rewards)
        \/ ~Registered(account) /\ info \in {Default(0), Raises}
    BY <2>1 DEF YaciAnswers
  <2> QED BY <1>3, <2>2
<1>4. CASE backend \in Nodes
  <2>1. info \in NodeAnswers(account)
    BY <1>4 DEF OnlineAnswers
  <2>2. \/ Registered(account) /\ info = Default(account.rewards)
        \/ ~Registered(account) /\ info = Empty
    BY <2>1 DEF NodeAnswers
  <2> QED BY <1>4, <2>2
<1> QED BY <1>1, <1>2, <1>3, <1>4

\* What a helper is told of an account, if its call is not raised.
Told(account, outage, info) ==
    \/ info = Empty /\ ((outage /\ backend = "koios") \/ ~Registered(account))
    \/ Found(account, info) /\ (offline /\ backend = "yaci" => Registered(account))

LEMMA AnswersAreTold ==
    ASSUME TypeOK, NEW a \in Accounts, NEW outage \in BOOLEAN,
           NEW info \in Answers(a, outage) \ {Raises}
    PROVE  View(a) \in Account /\ Told(View(a), outage, info)
<1>1. View(a) \in Account
  BY DEF TypeOK, View
<1>2. CASE offline
  <2>1. View(a) = captured[a] /\ info \in OfflineAnswers(captured[a])
    BY <1>2 DEF View, Answers
  <2>2. PICK answer \in OnlineAnswers(View(a)) :
           info = IF answer = Raises \/ (backend = "yaci" /\ ~Registered(View(a))) THEN Empty
                  ELSE answer
    BY <2>1 DEF OfflineAnswers
  <2>3. (answer \in {Raises, Empty} /\ ~Registered(View(a))) \/ Found(View(a), answer)
    BY <1>1, AnswersOfBackends DEF TypeOK
  <2>4. Found(View(a), answer) => answer # Raises
    BY DEF Found, Raises, Answer
  <2> QED BY <1>1, <2>2, <2>3, <2>4 DEF Told
<1>3. CASE ~offline /\ outage
  BY <1>1, <1>3 DEF Answers, OutageAnswers, Told
<1>4. CASE ~offline /\ ~outage
  <2>1. info \in OnlineAnswers(View(a))
    BY <1>4 DEF Answers, View
  <2>2. (info = Empty /\ ~Registered(View(a))) \/ Found(View(a), info)
    BY <1>1, <2>1, AnswersOfBackends DEF TypeOK
  <2> QED BY <1>1, <1>4, <2>2 DEF Told
<1> QED BY <1>2, <1>3, <1>4

-----------------------------------------------------------------------------
(***************************************************************************)
(* An account that is not registered has no rewards, on the ledger and in  *)
(* a capture of it.                                                        *)
(***************************************************************************)
Unpaid(account) == Registered(account) \/ account.rewards = 0
NoneUnpaid == \A a \in Accounts : Unpaid(ledger[a]) /\ Unpaid(captured[a])

\* What the helpers build that are trusted is valid for the account they saw.
LEMMA BuiltFromTold ==
    ASSUME TypeOK, NEW account \in Account, Unpaid(account), NEW outage \in BOOLEAN, NEW info,
           Told(account, outage, info), NEW helper \in Trusted, ~Refuses(helper, info)
    PROVE  Valid(helper, account, Amount(helper, info))
<1>1. helper \in {"register", "delegate", "deregister", "withdraw"}
  BY DEF Trusted, TypeOK, Backends, Nodes
<1>2. account.rewards \in 0..MaxRewards
  BY DEF Account
<1>3. CASE helper = "register"
  BY <1>3 DEF Trusted, TypeOK, Backends, Nodes, Refuses, Told, Found, Valid, Empty, Answer
<1>4. CASE helper = "delegate"
  BY <1>4 DEF Trusted, TypeOK, Backends, Nodes, Refuses, Told, Found, Valid, Empty, Answer
<1>5. CASE helper = "deregister"
  BY <1>5 DEF Trusted, TypeOK, Backends, Nodes, Refuses, Told, Found, Valid, Empty, Answer
<1>6. CASE helper = "withdraw"
  <2>1. Found(account, info) /\ info.rewards # 0
    BY <1>6 DEF Refuses, Told, Empty, Answer
  <2>2. info.rewards = account.rewards /\ Registered(account)
    BY <2>1 DEF Found, Unpaid
  <2> QED
    BY <1>2, <1>6, <2>1, <2>2, BoundsAssumption DEF Valid, Amount
<1> QED BY <1>1, <1>3, <1>4, <1>5, <1>6

\* What is refused, with no request failing, is not valid for that account.
LEMMA RefusedFromTold ==
    ASSUME TypeOK, NEW account \in Account, Unpaid(account), NEW info,
           Told(account, FALSE, info),
           NEW helper \in {"register", "delegate", "deregister", "withdraw"},
           Refuses(helper, info)
    PROVE  ~Valid(helper, account, IF helper = "withdraw" THEN account.rewards ELSE 0)
<1>1. account.rewards \in 0..MaxRewards
  BY DEF Account
<1>2. CASE helper = "register"
  BY <1>2 DEF TypeOK, Backends, Refuses, Told, Found, Valid, Empty, Answer
<1>3. CASE helper \in {"delegate", "deregister"}
  BY <1>3 DEF Refuses, Told, Found, Valid, Empty, Answer
<1>4. CASE helper = "withdraw"
  BY <1>1, <1>4, BoundsAssumption DEF Refuses, Told, Found, Valid, Empty, Answer
<1> QED BY <1>2, <1>3, <1>4

-----------------------------------------------------------------------------
\* The state stays in its type.
THEOREM TypeCorrect == Spec => []TypeOK
<1> USE BoundsAssumption
<1>1. Init => TypeOK
  BY DEF Init, TypeOK, Fresh, Account, Helpers, Outcomes, Transaction
<1>2. TypeOK /\ [Next]_vars => TypeOK'
  <2> SUFFICES ASSUME TypeOK, [Next]_vars PROVE TypeOK'
    OBVIOUS
  <2> USE DEF setting
  <2>1. ASSUME NEW helper \in Helpers, NEW a \in Accounts, NEW outage \in BOOLEAN,
               CallRaises(helper, a, outage) \/ Refuse(helper, a, outage)
        PROVE  TypeOK'
    BY <2>1 DEF CallRaises, Refuse, Called, View, TypeOK, Outcomes
  <2>2. ASSUME NEW helper \in Helpers, NEW a \in Accounts, NEW outage \in BOOLEAN,
               NEW amount \in 0..MaxRewards, Build(helper, a, outage, amount)
        PROVE  TypeOK'
    BY <2>2 DEF Build, Called, View, TypeOK, Outcomes, Transaction
  <2>3. ASSUME NEW helper \in Helpers, NEW a \in Accounts, NEW outage \in BOOLEAN,
               BuildChecked(helper, a, outage)
        PROVE  TypeOK'
    <3>1. PICK info \in Answers(a, outage) \ {Raises} :
             Build(helper, a, outage, Amount(helper, info))
      BY <2>3 DEF BuildChecked
    <3>2. View(a) \in Account /\ Told(View(a), outage, info)
      BY AnswersAreTold
    <3>3. Amount(helper, info) \in 0..MaxRewards
      BY <3>2 DEF Amount, Told, Found, Empty, Answer, Account
    <3> QED BY <2>2, <3>1, <3>3
  <2>4. ASSUME NEW a \in Accounts, BuildUnchecked(a) PROVE TypeOK'
    <3>1. "vote" \in Helpers /\ 0 \in 0..MaxRewards
      BY DEF Helpers
    <3>2. Build("vote", a, FALSE, 0)
      BY <2>4 DEF BuildUnchecked
    <3> QED BY <2>2, <3>1, <3>2
  <2>5. ASSUME NEW tx \in pending, Land(tx) PROVE TypeOK'
    <3>1. tx.helper \in Helpers /\ tx.account \in Accounts
      BY DEF TypeOK, Transaction
    <3>2. \A account \in Account : Applied(tx.helper, account) \in Account
      BY <3>1 DEF Applied, Account, Helpers
    <3>3. ledger' \in [Accounts -> Account]
      BY <2>5, <3>1, <3>2 DEF Land, TypeOK
    <3> QED BY <2>5, <3>1, <3>3 DEF Land, TypeOK
  <2>6. ASSUME NEW a \in Accounts, PayRewards(a) PROVE TypeOK'
    <3>1. [ledger[a] EXCEPT !.rewards = @ + 1] \in Account
      BY <2>6 DEF PayRewards, TypeOK, Account
    <3>2. ledger' \in [Accounts -> Account]
      BY <2>6, <3>1 DEF PayRewards, TypeOK
    <3> QED BY <2>6, <3>2 DEF PayRewards, TypeOK
  <2>7. ASSUME NEW a \in Accounts, OtherWallet(a) PROVE TypeOK'
    <3>1. PICK helper \in {"register", "deregister"} :
             ledger' = [ledger EXCEPT ![a] = Applied(helper, @)]
      BY <2>7 DEF OtherWallet
    <3>2. Applied(helper, ledger[a]) \in Account
      BY DEF Applied, Account, TypeOK
    <3>3. ledger' \in [Accounts -> Account]
      BY <3>1, <3>2 DEF TypeOK
    <3> QED BY <2>7, <3>3 DEF OtherWallet, TypeOK
  <2>8. CASE Capture
    BY <2>8 DEF Capture, TypeOK
  <2>9. CASE UNCHANGED vars
    BY <2>9 DEF vars, TypeOK
  <2> QED
    BY <2>1, <2>3, <2>4, <2>5, <2>6, <2>7, <2>8, <2>9 DEF Next
<1> QED BY <1>1, <1>2, PTL DEF Spec

\* What answers does not change.
LEMMA SettingStays == ASSUME [Next]_vars PROVE UNCHANGED setting
<1>1. ASSUME NEW helper, NEW a, NEW outage,
             CallRaises(helper, a, outage) \/ Refuse(helper, a, outage)
                \/ BuildChecked(helper, a, outage)
      PROVE  UNCHANGED setting
  BY <1>1 DEF CallRaises, Refuse, BuildChecked, Build
<1>2. ASSUME NEW a, BuildUnchecked(a) \/ PayRewards(a) \/ OtherWallet(a)
      PROVE  UNCHANGED setting
  BY <1>2 DEF BuildUnchecked, Build, PayRewards, OtherWallet
<1>3. ASSUME NEW tx, Land(tx) PROVE UNCHANGED setting
  BY <1>3 DEF Land
<1>4. Capture \/ UNCHANGED vars => UNCHANGED setting
  BY DEF Capture, vars
<1> QED BY <1>1, <1>2, <1>3, <1>4 DEF Next

LEMMA AppliedUnpaid ==
    ASSUME NEW helper \in Helpers, NEW account \in Account, Unpaid(account)
    PROVE  Unpaid(Applied(helper, account))
  BY BoundsAssumption DEF Helpers, Account, Applied, Unpaid, Registered

LEMMA NoneUnpaidStep == TypeOK /\ NoneUnpaid /\ [Next]_vars => NoneUnpaid'
<1> SUFFICES ASSUME TypeOK, NoneUnpaid, [Next]_vars, NEW b \in Accounts
             PROVE  Unpaid(ledger'[b]) /\ Unpaid(captured'[b])
  BY DEF NoneUnpaid
<1>1. CASE UNCHANGED <<ledger, captured>>
  BY <1>1 DEF NoneUnpaid
<1>2. ASSUME NEW tx \in pending, Land(tx) PROVE Unpaid(ledger'[b]) /\ Unpaid(captured'[b])
  <2>1. tx.helper \in Helpers /\ tx.account \in Accounts
    BY DEF TypeOK, Transaction
  <2>2. Unpaid(Applied(tx.helper, ledger[tx.account]))
    BY <2>1, AppliedUnpaid DEF TypeOK, NoneUnpaid
  <2> QED BY <1>2, <2>1, <2>2 DEF Land, TypeOK, NoneUnpaid
<1>3. ASSUME NEW a \in Accounts, PayRewards(a)
      PROVE  Unpaid(ledger'[b]) /\ Unpaid(captured'[b])
  <2>1. Registered(ledger[a]) /\ captured' = captured
    BY <1>3 DEF PayRewards
  <2>2. CASE b = a
    BY <1>3, <2>1, <2>2 DEF PayRewards, TypeOK, NoneUnpaid, Unpaid, Registered, Account
  <2>3. CASE b # a
    BY <1>3, <2>1, <2>3 DEF PayRewards, TypeOK, NoneUnpaid
  <2> QED BY <2>2, <2>3
<1>4. ASSUME NEW a \in Accounts, OtherWallet(a)
      PROVE  Unpaid(ledger'[b]) /\ Unpaid(captured'[b])
  <2>1. PICK helper \in {"register", "deregister"} :
           ledger' = [ledger EXCEPT ![a] = Applied(helper, @)]
    BY <1>4 DEF OtherWallet
  <2>2. Unpaid(Applied(helper, ledger[a]))
    BY AppliedUnpaid DEF TypeOK, NoneUnpaid, Helpers
  <2> QED BY <1>4, <2>1, <2>2 DEF OtherWallet, TypeOK, NoneUnpaid
<1>5. CASE Capture
  BY <1>5 DEF Capture, NoneUnpaid
<1>6. ASSUME NEW helper, NEW a, NEW outage,
             CallRaises(helper, a, outage) \/ Refuse(helper, a, outage)
                \/ BuildChecked(helper, a, outage)
      PROVE  UNCHANGED <<ledger, captured>>
  BY <1>6 DEF CallRaises, Refuse, BuildChecked, Build
<1>7. ASSUME NEW a \in Accounts, BuildUnchecked(a) PROVE UNCHANGED <<ledger, captured>>
  BY <1>7 DEF BuildUnchecked, Build
<1>8. UNCHANGED vars => UNCHANGED <<ledger, captured>>
  BY DEF vars
<1> QED
  BY <1>1, <1>2, <1>3, <1>4, <1>5, <1>6, <1>7, <1>8 DEF Next

-----------------------------------------------------------------------------
(***************************************************************************)
(* What a call builds or refuses, it does on what it saw.                  *)
(***************************************************************************)
CallsAreSound == NoneUnpaid /\ TrustedBuildsAreValid /\ RefusalsAreDue

LEMMA BuiltStep ==
    ASSUME TypeOK, NoneUnpaid, NEW a \in Accounts, NEW helper \in Helpers,
           NEW outage \in BOOLEAN, BuildChecked(helper, a, outage), helper \in Trusted
    PROVE  \E amount \in 0..MaxRewards :
              Build(helper, a, outage, amount) /\ Valid(helper, View(a), amount)
<1>1. PICK info \in Answers(a, outage) \ {Raises} :
         ~Refuses(helper, info) /\ Build(helper, a, outage, Amount(helper, info))
  BY DEF BuildChecked
<1>2. View(a) \in Account /\ Told(View(a), outage, info) /\ Unpaid(View(a))
  BY AnswersAreTold DEF NoneUnpaid, View
<1>3. Valid(helper, View(a), Amount(helper, info))
  BY <1>1, <1>2, BuiltFromTold
<1>4. Amount(helper, info) \in 0..MaxRewards
  BY <1>2, BoundsAssumption DEF Amount, Told, Found, Empty, Answer, Account
<1> QED BY <1>1, <1>3, <1>4

LEMMA CallsAreSoundStep == TypeOK /\ CallsAreSound /\ [Next]_vars => CallsAreSound'
<1> SUFFICES ASSUME TypeOK, CallsAreSound, [Next]_vars PROVE CallsAreSound'
  OBVIOUS
<1> USE DEF CallsAreSound, TrustedBuildsAreValid, BuiltIsValid, RefusalsAreDue
<1>1. NoneUnpaid'
  BY NoneUnpaidStep
<1>2. Trusted' = Trusted
  <2>1. UNCHANGED setting
    BY SettingStays
  <2> QED BY <2>1 DEF setting, Trusted
<1>3. CASE UNCHANGED call
  BY <1>1, <1>2, <1>3
<1>4. ASSUME NEW helper \in Helpers, NEW a \in Accounts, NEW outage \in BOOLEAN,
             CallRaises(helper, a, outage)
      PROVE  CallsAreSound'
  BY <1>1, <1>4 DEF CallRaises, Called
<1>5. ASSUME NEW helper \in Helpers, NEW a \in Accounts, NEW outage \in BOOLEAN,
             Refuse(helper, a, outage)
      PROVE  CallsAreSound'
  <2>1. /\ helper # "vote" /\ call'.outcome = "refused" /\ call'.helper = helper
        /\ call'.saw = View(a) /\ call'.outage = outage
    BY <1>5 DEF Refuse, Called
  <2>2. PICK info \in Answers(a, outage) \ {Raises} : Refuses(helper, info)
    BY <1>5 DEF Refuse
  <2>3. View(a) \in Account /\ Told(View(a), outage, info) /\ Unpaid(View(a))
    BY AnswersAreTold DEF NoneUnpaid, View
  <2>4. ASSUME ~outage
        PROVE  ~Valid(helper, View(a), IF helper = "withdraw" THEN View(a).rewards ELSE 0)
    BY <2>1, <2>2, <2>3, <2>4, RefusedFromTold DEF Helpers
  <2> QED BY <1>1, <2>1, <2>4
<1>6. ASSUME NEW helper \in Helpers, NEW a \in Accounts, NEW outage \in BOOLEAN,
             BuildChecked(helper, a, outage)
      PROVE  CallsAreSound'
  <2>1. call'.outcome = "built" /\ call'.helper = helper /\ call'.saw = View(a)
    BY <1>6 DEF BuildChecked, Build, Called
  <2>2. helper \in Trusted => Valid(helper, View(a), call'.amount)
    <3> SUFFICES ASSUME helper \in Trusted PROVE Valid(helper, View(a), call'.amount)
      OBVIOUS
    <3>1. PICK amount \in 0..MaxRewards :
             Build(helper, a, outage, amount) /\ Valid(helper, View(a), amount)
      BY <1>6, BuiltStep
    <3> QED BY <3>1 DEF Build, Called
  <2> QED BY <1>1, <1>2, <2>1, <2>2
<1>7. ASSUME NEW a \in Accounts, BuildUnchecked(a) PROVE CallsAreSound'
  <2>1. call'.outcome = "built" /\ call'.helper = "vote"
    BY <1>7 DEF BuildUnchecked, Build, Called
  <2>2. "vote" \notin Trusted
    BY DEF Trusted, TypeOK, Backends, Nodes
  <2> QED BY <1>1, <1>2, <2>1, <2>2
<1> QED
  BY <1>3, <1>4, <1>5, <1>6, <1>7 DEF Next, Land, PayRewards, OtherWallet, Capture, vars

LEMMA CallsAreSoundAlways == Spec => []CallsAreSound
<1>1. Init => CallsAreSound
  BY DEF Init, CallsAreSound, NoneUnpaid, Unpaid, Fresh, TrustedBuildsAreValid, BuiltIsValid,
         RefusalsAreDue
<1>2. TypeOK /\ CallsAreSound /\ [Next]_vars => CallsAreSound'
  BY CallsAreSoundStep
<1> QED BY <1>1, <1>2, TypeCorrect, PTL DEF Spec

\* What the trusted helpers build, the node would have accepted when the
\* context's answer was true.
THEOREM TrustedBuildsAreValidAlways == Spec => []TrustedBuildsAreValid
<1>1. CallsAreSound => TrustedBuildsAreValid
  BY DEF CallsAreSound
<1> QED BY <1>1, CallsAreSoundAlways, PTL

\* No helper refuses what the node would have accepted, unless a request
\* failed.
THEOREM RefusalsAreDueAlways == Spec => []RefusalsAreDue
<1>1. CallsAreSound => RefusalsAreDue
  BY DEF CallsAreSound
<1> QED BY <1>1, CallsAreSoundAlways, PTL

-----------------------------------------------------------------------------
(***************************************************************************)
(* When an account is left alone, one transaction of it is under way at a  *)
(* time, and what was valid for it when it was built still is.             *)
(***************************************************************************)
Awaited ==
    patient /\ ~offline =>
       /\ rejected \cap Trusted = {}
       /\ \A s, t \in pending : s.account = t.account => s = t
       /\ \A t \in pending :
             t.helper \in Trusted => Valid(t.helper, ledger[t.account], t.amount)

LEMMA AwaitedStep == TypeOK /\ NoneUnpaid /\ Awaited /\ [Next]_vars => Awaited'
<1> SUFFICES ASSUME TypeOK, NoneUnpaid, Awaited, [Next]_vars PROVE Awaited'
  OBVIOUS
<1>1. UNCHANGED setting /\ Trusted' = Trusted
  <2>1. UNCHANGED setting
    BY SettingStays
  <2> QED BY <2>1 DEF setting, Trusted
<1>2. SUFFICES ASSUME patient, ~offline
      PROVE  /\ rejected' \cap Trusted = {}
             /\ \A s, t \in pending' : s.account = t.account => s = t
             /\ \A t \in pending' :
                   t.helper \in Trusted => Valid(t.helper, ledger'[t.account], t.amount)
  BY <1>1 DEF Awaited, setting
<1> DEFINE Goal == /\ rejected' \cap Trusted = {}
                   /\ \A s, t \in pending' : s.account = t.account => s = t
                   /\ \A t \in pending' :
                         t.helper \in Trusted => Valid(t.helper, ledger'[t.account], t.amount)
<1>3. CASE UNCHANGED <<rejected, pending, ledger>>
  BY <1>2, <1>3 DEF Awaited
<1>4. ASSUME NEW helper \in Helpers, NEW a \in Accounts, NEW outage, NEW amount,
             Build(helper, a, outage, amount),
             helper \in Trusted => Valid(helper, ledger[a], amount)
      PROVE  Goal
  <2>1. /\ pending' = pending \cup {[helper |-> helper, account |-> a, amount |-> amount]}
        /\ UNCHANGED <<rejected, ledger>> /\ \A t \in pending : t.account # a
    BY <1>2, <1>4 DEF Build, Alone
  <2> QED BY <1>2, <1>4, <2>1 DEF Awaited
<1>5. ASSUME NEW helper \in Helpers, NEW a \in Accounts, NEW outage \in BOOLEAN,
             BuildChecked(helper, a, outage)
      PROVE  Goal
  <2>1. CASE helper \in Trusted
    <3>1. PICK amount \in 0..MaxRewards :
             Build(helper, a, outage, amount) /\ Valid(helper, View(a), amount)
      BY <1>5, <2>1, BuiltStep
    <3> QED BY <1>2, <1>4, <3>1 DEF View
  <2>2. CASE helper \notin Trusted
    <3>1. PICK info : Build(helper, a, outage, Amount(helper, info))
      BY <1>5 DEF BuildChecked
    <3> QED BY <1>4, <2>2, <3>1
  <2> QED BY <2>1, <2>2
<1>6. ASSUME NEW a \in Accounts, BuildUnchecked(a) PROVE Goal
  <2>1. "vote" \in Helpers /\ "vote" \notin Trusted
    BY DEF Helpers, Trusted, TypeOK, Backends, Nodes
  <2>2. Build("vote", a, FALSE, 0)
    BY <1>6 DEF BuildUnchecked
  <2> QED BY <1>4, <2>1, <2>2
<1>7. ASSUME NEW tx \in pending, Land(tx) PROVE Goal
  <2>1. /\ pending' = pending \ {tx}
        /\ \A t \in pending' : t.account # tx.account /\ t \in pending
    BY <1>2, <1>7 DEF Land, Awaited
  <2>2. tx.account \in Accounts /\ \A t \in pending' : t.account \in Accounts
    BY <2>1 DEF TypeOK, Transaction
  <2>3. \A t \in pending' : ledger'[t.account] = ledger[t.account]
    BY <1>7, <2>1, <2>2 DEF Land, TypeOK
  <2>4. rejected' \cap Trusted = {}
    BY <1>2, <1>7 DEF Land, Awaited
  <2> QED BY <1>2, <2>1, <2>3, <2>4 DEF Awaited
<1>8. ASSUME NEW a \in Accounts, PayRewards(a) \/ OtherWallet(a) PROVE Goal
  <2>1. UNCHANGED <<pending, rejected>> /\ \A t \in pending : t.account # a
    BY <1>2, <1>8 DEF PayRewards, OtherWallet, Alone
  <2>2. \A t \in pending : ledger'[t.account] = ledger[t.account]
    <3> SUFFICES ASSUME NEW t \in pending PROVE ledger'[t.account] = ledger[t.account]
      OBVIOUS
    <3>1. t.account \in Accounts /\ t.account # a
      BY <2>1 DEF TypeOK, Transaction
    <3> QED BY <1>8, <3>1 DEF PayRewards, OtherWallet, TypeOK
  <2> QED BY <1>2, <2>1, <2>2 DEF Awaited
<1>9. ASSUME NEW helper, NEW a, NEW outage,
             CallRaises(helper, a, outage) \/ Refuse(helper, a, outage)
      PROVE  UNCHANGED <<rejected, pending, ledger>>
  BY <1>9 DEF CallRaises, Refuse
<1>10. Capture \/ UNCHANGED vars => UNCHANGED <<rejected, pending, ledger>>
  BY DEF Capture, vars
<1> QED
  BY <1>3, <1>5, <1>6, <1>7, <1>8, <1>9, <1>10 DEF Next

\* When an account is left alone between a call and the landing of what it
\* built, the node accepts what the trusted helpers build online.
THEOREM TrustedNeverRejectedAlways == Spec => []TrustedNeverRejected
<1>1. Init => Awaited
  BY DEF Init, Awaited
<1>2. TypeOK /\ CallsAreSound /\ Awaited /\ [Next]_vars => Awaited'
  BY AwaitedStep DEF CallsAreSound
<1>3. Awaited => TrustedNeverRejected
  BY DEF Awaited, TrustedNeverRejected
<1> QED BY <1>1, <1>2, <1>3, TypeCorrect, CallsAreSoundAlways, PTL DEF Spec

=============================================================================

--------------------------- MODULE TransactionsProofs ------------------------
(***************************************************************************)
(* Proofs about what happens to a transaction and to the data it is built  *)
(* from: Submission, Assembly, ParameterCodec and SectionCodec, for any    *)
(* number of calls, signers, lists, saves and entries.                     *)
(***************************************************************************)
EXTENDS Submission, Assembly, ParameterCodec, SectionCodec, Integers, Functions,
        FiniteSetTheorems, TLAPS

-----------------------------------------------------------------------------
(***************************************************************************)
(* Positions in order.                                                     *)
(***************************************************************************)

\* How many of S there are up to r.
Rank(S, r) == Cardinality({s \in S : s <= r})

\* Ranks start at 1, end at the number of elements, and grow with the element.
LEMMA Ranks ==
    ASSUME NEW n \in Nat, NEW S \in SUBSET (1..n)
    PROVE  /\ IsFiniteSet(S) /\ Cardinality(S) \in Nat /\ Cardinality(S) <= n
           /\ \A r \in S : Rank(S, r) \in 1..Cardinality(S)
           /\ \A r, s \in S : r < s => Rank(S, r) < Rank(S, s)
<1>. DEFINE Upto(r) == {s \in S : s <= r}
<1>1. IsFiniteSet(1..n) /\ Cardinality(1..n) = n
  BY FS_Interval
<1>2. IsFiniteSet(S) /\ Cardinality(S) <= n
  BY <1>1, FS_Subset
<1>3. ASSUME NEW T \in SUBSET S
      PROVE  /\ IsFiniteSet(T) /\ Cardinality(T) \in Nat /\ Cardinality(T) <= Cardinality(S)
  BY <1>2, <1>3, FS_Subset, FS_CardinalityType
<1>4. ASSUME NEW r \in S PROVE Rank(S, r) \in 1..Cardinality(S)
  <2>1. Upto(r) \in SUBSET S /\ Upto(r) # {}
    OBVIOUS
  <2>2. IsFiniteSet(Upto(r)) /\ Cardinality(Upto(r)) \in Nat /\ Cardinality(Upto(r)) <= Cardinality(S)
    BY <1>3, <2>1
  <2>3. Cardinality(Upto(r)) # 0
    BY <2>1, <2>2, FS_EmptySet
  <2>4. Cardinality(S) \in Nat
    BY <1>2, FS_CardinalityType
  <2>. HIDE DEF Upto
  <2>5. Cardinality(Upto(r)) \in 1..Cardinality(S)
    BY <2>2, <2>3, <2>4
  <2>. QED  BY <2>5 DEF Rank, Upto
<1>5. ASSUME NEW r \in S, NEW s \in S, r < s PROVE Rank(S, r) < Rank(S, s)
  <2>1. /\ Upto(r) \in SUBSET Upto(s) /\ Upto(r) # Upto(s)
        /\ Upto(r) \in SUBSET S /\ Upto(s) \in SUBSET S
    <3>1. r \in Int /\ s \in Int /\ S \subseteq Int
      OBVIOUS
    <3>2. s \in Upto(s) /\ s \notin Upto(r)
      BY <1>5, <3>1
    <3>3. Upto(r) \subseteq Upto(s)
      <4>. SUFFICES ASSUME NEW x \in S, x <= r PROVE x <= s
        OBVIOUS
      <4>. QED  BY <1>5, <3>1
    <3>. QED  BY <3>2, <3>3
  <2>2. /\ IsFiniteSet(Upto(s)) /\ Cardinality(Upto(r)) \in Nat /\ Cardinality(Upto(s)) \in Nat
    BY <1>3, <2>1
  <2>. HIDE DEF Upto
  <2>3. Cardinality(Upto(r)) <= Cardinality(Upto(s)) /\ Cardinality(Upto(s)) # Cardinality(Upto(r))
    BY <2>1, <2>2, FS_Subset
  <2>4. Cardinality(Upto(r)) < Cardinality(Upto(s))
    BY <2>2, <2>3
  <2>. QED  BY <2>4 DEF Rank, Upto
<1>. QED  BY <1>2, <1>4, <1>5, FS_CardinalityType

\* There are as many ranks as elements, so that each is some element's.
LEMMA EachRankIsTaken ==
    ASSUME NEW n \in Nat, NEW S \in SUBSET (1..n), NEW k \in 1..Cardinality(S)
    PROVE  \E r \in S : Rank(S, r) = k
<1>. DEFINE rank == [r \in S |-> Rank(S, r)]
            T == 1..Cardinality(S)
<1>1. /\ IsFiniteSet(S) /\ Cardinality(S) \in Nat
      /\ \A r \in S : Rank(S, r) \in T
      /\ \A r, s \in S : r < s => Rank(S, r) < Rank(S, s)
  BY Ranks
<1>2. IsFiniteSet(T) /\ Cardinality(T) = Cardinality(S)
  BY <1>1, FS_Interval
<1>3. rank \in Injection(S, T)
  <2>1. rank \in [S -> T]
    BY <1>1
  <2>2. ASSUME NEW r \in S, NEW s \in S, rank[r] = rank[s] PROVE r = s
    <3>1. r \in Int /\ s \in Int /\ Rank(S, r) \in Int /\ Rank(S, s) \in Int /\ Rank(S, r) = Rank(S, s)
      BY <1>1, <2>2
    <3>. QED  BY <1>1, <3>1
  <2>. QED  BY <2>1, <2>2 DEF Injection, IsInjective
<1>4. rank \in Surjection(S, T)
  BY <1>2, <1>3, FS_Injection
<1>. QED  BY <1>4 DEF Surjection

\* In all of 1..n a number has itself as its rank.
LEMMA RankOfAll ==
    ASSUME NEW n \in Nat, NEW r \in 1..n
    PROVE  Rank(1..n, r) = r
<1>1. {s \in 1..n : s <= r} = 1..r
  OBVIOUS
<1>2. Cardinality(1..r) = r
  BY FS_Interval
<1>. QED  BY <1>1, <1>2 DEF Rank

\* Nth lists a set of positions in order.
LEMMA NthInOrder ==
    ASSUME NEW n \in Nat, NEW S \in SUBSET (1..n)
    PROVE  /\ \A k \in 1..Cardinality(S) : Nth(S, k) \in S /\ Rank(S, Nth(S, k)) = k
           /\ \A j, k \in 1..Cardinality(S) : j < k => Nth(S, j) < Nth(S, k)
           /\ \A r \in S : Rank(S, r) \in 1..Cardinality(S) /\ Nth(S, Rank(S, r)) = r
<1>1. /\ Cardinality(S) \in Nat
      /\ \A r \in S : Rank(S, r) \in 1..Cardinality(S)
      /\ \A r, s \in S : r < s => Rank(S, r) < Rank(S, s)
  BY Ranks
<1>2. ASSUME NEW k \in 1..Cardinality(S) PROVE Nth(S, k) \in S /\ Rank(S, Nth(S, k)) = k
  <2>1. \E r \in S : Rank(S, r) = k
    BY EachRankIsTaken
  <2>2. Nth(S, k) = CHOOSE r \in S : Rank(S, r) = k
    BY Zenon DEF Nth, Rank
  <2>. QED  BY <2>1, <2>2
<1>3. ASSUME NEW r \in S, NEW s \in S, ~(r < s) PROVE ~(Rank(S, r) < Rank(S, s))
  <2>1. r \in Int /\ s \in Int /\ Rank(S, r) \in Int /\ Rank(S, s) \in Int
    BY <1>1
  <2>2. r = s \/ s < r
    BY <1>3, <2>1
  <2>3. CASE r = s
    BY <2>1, <2>3
  <2>4. CASE s < r
    <3>1. Rank(S, s) < Rank(S, r)
      BY <1>1, <2>4
    <3>. QED  BY <2>1, <3>1
  <2>. QED  BY <2>2, <2>3, <2>4
<1>4. ASSUME NEW j \in 1..Cardinality(S), NEW k \in 1..Cardinality(S), j < k
      PROVE  Nth(S, j) < Nth(S, k)
  <2>1. /\ Nth(S, j) \in S /\ Nth(S, k) \in S
        /\ Rank(S, Nth(S, j)) < Rank(S, Nth(S, k))
    BY <1>2, <1>4
  <2>. QED  BY <1>3, <2>1
<1>5. ASSUME NEW r \in S PROVE Nth(S, Rank(S, r)) = r
  <2>. DEFINE s == Nth(S, Rank(S, r))
  <2>1. s \in S /\ Rank(S, s) = Rank(S, r) /\ Rank(S, r) \in Int
    BY <1>1, <1>2
  <2>. HIDE DEF s
  <2>2. ~(r < s) /\ ~(s < r)
    <3>1. ~(Rank(S, r) < Rank(S, s)) /\ ~(Rank(S, s) < Rank(S, r))
      BY <2>1
    <3>. QED  BY <1>1, <2>1, <3>1
  <2>3. s \in Int /\ r \in Int
    BY <2>1
  <2>4. s = r
    BY <2>2, <2>3
  <2>. QED  BY <2>4 DEF s
<1>. QED  BY <1>1, <1>2, <1>4, <1>5

\* The number at a position of 1..n is the position.
LEMMA NthOfAll ==
    ASSUME NEW n \in Nat, NEW k \in 1..n
    PROVE  Nth(1..n, k) = k
<1>1. Rank(1..n, k) = k
  BY RankOfAll
<1>2. 1..n \in SUBSET (1..n) /\ k \in 1..n
  OBVIOUS
<1>3. Nth(1..n, Rank(1..n, k)) = k
  BY <1>2, NthInOrder
<1>. QED  BY <1>1, <1>3

-----------------------------------------------------------------------------
(***************************************************************************)
(* Submission.                                                             *)
(***************************************************************************)

Submitting == {"submit_latest", "submit_legacy", "txid", "submit"}

Typed ==
    /\ step \in Steps \cup {None}
    /\ backend \in Backends
    /\ file \in BOOLEAN
    /\ told \in [accepted : BOOLEAN, lost : BOOLEAN, errors : Seq({"unsupported", "failure"})]

\* What a call has learnt when it comes to a step, and whose step it is.
StepsAgree ==
    /\ step \in {"submit_latest", "submit"} => ~told.accepted /\ ~told.lost
    /\ step = "submit_legacy" /\ told.accepted => told.lost
    /\ step = "txid" => told.accepted
    /\ step \in Steps \ Submitting => ~told.accepted
    /\ step = "submit" => backend # "cli"
    /\ step = "evaluate" => backend # "cli" /\ (file => backend = "blockfrost")

Sound == Typed /\ StepsAgree /\ VerdictsAreTrue

\* What a request adds to what a call has learnt.
LEMMA RequestTells ==
    ASSUME Typed, NEW outcome \in Outcomes, Request(outcome)
    PROVE  /\ Typed => told' \in [accepted : BOOLEAN, lost : BOOLEAN,
                                  errors : Seq({"unsupported", "failure"})]
           /\ outcome = "ok" => told'.accepted
           /\ outcome \in {"rejected", "undelivered"} => told'.accepted = told.accepted
           /\ told'.lost = (told.lost \/ outcome = "lost")
           /\ told'.errors = told.errors
<1> DEFINE accepts == tx = "absent" /\ valid /\ outcome # "undelivered"
<1>1. /\ told' = [told EXCEPT !.accepted = @ \/ accepts, !.lost = @ \/ outcome = "lost"]
      /\ outcome = "ok" => accepts
      /\ outcome = "rejected" => ~accepts
  BY DEF Request
<1>2. /\ told'.accepted = (told.accepted \/ accepts)
      /\ told'.lost = (told.lost \/ outcome = "lost")
      /\ told'.errors = told.errors
  BY <1>1 DEF Typed
<1>3. told' \in [accepted : BOOLEAN, lost : BOOLEAN, errors : Seq({"unsupported", "failure"})]
  BY <1>1 DEF Typed
<1> QED BY <1>1, <1>2, <1>3 DEF Typed

\* Whatever comes next, what a call has learnt stays right.
LEMMA SoundStep == Sound /\ [Next]_vars => Sound'
<1> SUFFICES ASSUME Sound, [Next]_vars PROVE Sound'
  OBVIOUS
<1> USE NoneAssumption DEF Sound, Typed, StepsAgree, VerdictsAreTrue, Steps, Submitting, Verdicts
<1>1. CASE NodeMoves \/ UNCHANGED vars
  BY <1>1 DEF NodeMoves, vars
<1>2. ASSUME NEW b \in Backends, BeginSubmit(b) PROVE Sound'
  BY <1>2 DEF BeginSubmit, Begin, NothingTold, Backends
<1>3. ASSUME NEW b \in Backends, BeginEvaluate(b) PROVE Sound'
  <2>1. /\ told' = NothingTold /\ backend' = b /\ file' = (b \in {"cli", "blockfrost"})
        /\ step' = IF b = "cli" THEN "evaluate_latest" ELSE "evaluate"
    BY <1>3 DEF BeginEvaluate, Begin
  <2>2. /\ told' \in [accepted : BOOLEAN, lost : BOOLEAN, errors : Seq({"unsupported", "failure"})]
        /\ ~told'.accepted
    BY <2>1 DEF NothingTold
  <2>3. Typed'
    BY <2>1, <2>2
  <2>4. StepsAgree' /\ VerdictsAreTrue'
    BY <2>1, <2>2 DEF Backends
  <2> QED BY <2>3, <2>4
<1>4. CASE EraUnknown
  BY <1>4 DEF EraUnknown, Ends
<1>5. CASE SubmitLatest
  <2>1. CASE step' = "submit_legacy" /\ UNCHANGED <<told, backend, file>>
    BY <1>5, <2>1 DEF SubmitLatest
  <2>2. ASSUME NEW outcome \in Outcomes, Request(outcome), UNCHANGED <<backend, file>>,
               step' = IF outcome = "ok" THEN "txid" ELSE "submit_legacy"
        PROVE  Sound'
    BY <1>5, <2>2, RequestTells DEF SubmitLatest, Outcomes
  <2> QED BY <1>5, <2>1, <2>2 DEF SubmitLatest
<1>6. CASE SubmitLegacy
  <2>1. PICK outcome \in Outcomes :
           /\ Request(outcome)
           /\ IF outcome = "ok"
              THEN step' = "txid" /\ UNCHANGED <<valid, forms, calls, backend, file, left, verdict>>
              ELSE Ends("failed", FALSE)
    BY <1>6 DEF SubmitLegacy
  <2> QED BY <1>6, <2>1, RequestTells DEF SubmitLegacy, Ends, Outcomes
<1>7. CASE Txid
  BY <1>7 DEF Txid, Ends
<1>8. CASE Submit
  <2>1. PICK outcome \in Outcomes : Request(outcome) /\ EndSubmit(outcome)
    BY <1>8 DEF Submit
  <2>2. step = "submit" /\ step' = None /\ backend' = backend /\ file' = FALSE
    BY <1>8, <2>1 DEF Submit, EndSubmit, Ends
  <2>3. \/ outcome = "ok" /\ verdict' = "hash"
        \/ outcome # "ok" /\ verdict' \in {"failed", "error"}
    BY <2>1 DEF EndSubmit, Ends
  <2> QED BY <2>1, <2>2, <2>3, RequestTells DEF Outcomes
<1>9. CASE UnreadableReply
  BY <1>9, RequestTells DEF UnreadableReply, Ends, Outcomes
<1>10. CASE Attempt
  <2>1. /\ step \in {"evaluate_latest", "evaluate_legacy", "evaluate_flat"}
        /\ step' \in {"evaluate_legacy", "evaluate_flat", "evaluated", "costs"}
        /\ backend' = backend /\ file' = file /\ verdict' = verdict
    BY <1>10 DEF Attempt, Attempts, NextAttempt
  <2>2. /\ told' \in [accepted : BOOLEAN, lost : BOOLEAN, errors : Seq({"unsupported", "failure"})]
        /\ told'.accepted = told.accepted
    BY <1>10 DEF Attempt
  <2>. QED  BY <2>1, <2>2
<1>11. CASE NoAttemptLeft
  BY <1>11 DEF NoAttemptLeft, Ends, Blame
<1>12. CASE ParseCosts
  BY <1>12 DEF ParseCosts, Ends
<1>13. CASE Evaluate
  BY <1>13 DEF Evaluate, Ends
<1> QED
  BY <1>1, <1>2, <1>3, <1>4, <1>5, <1>6, <1>7, <1>8, <1>9, <1>10, <1>11, <1>12, <1>13 DEF Next

\* What a call has learnt is right at every step.
LEMMA SoundAlways == Spec => []Sound
<1>1. Init => Sound
  <2> SUFFICES ASSUME Init PROVE Sound
    OBVIOUS
  <2> USE NoneAssumption DEF Init, Steps
  <2>1. told \in [accepted : BOOLEAN, lost : BOOLEAN, errors : Seq({"unsupported", "failure"})]
    BY DEF NothingTold
  <2>2. Typed
    BY <2>1 DEF Typed, Backends
  <2>3. StepsAgree
    BY DEF StepsAgree, NothingTold
  <2>4. VerdictsAreTrue
    BY DEF VerdictsAreTrue, Verdicts
  <2> QED BY <2>2, <2>3, <2>4 DEF Sound
<1> QED BY <1>1, SoundStep, PTL DEF Spec

\* A caller that is given a hash, or told that there is none to be had, has
\* submitted; one that is told of a failure has not, unless a reply was lost.
THEOREM VerdictsAreTrueAlways == Spec => []VerdictsAreTrue
<1>1. Sound => VerdictsAreTrue
  BY DEF Sound
<1> QED BY <1>1, SoundAlways, PTL

\* Only Blockfrost leaves a temporary file behind, when its call raises an
\* error that is no verdict on the transaction.
THEOREM FilesAreRemovedAlways == Spec => FilesAreRemoved
<1> DEFINE Removed ==
      left' # left => backend = "blockfrost" /\ verdict' = "error" /\ left' = left \cup {calls}
<1>1. Sound /\ [Next]_vars => [Removed]_vars
  <2> SUFFICES ASSUME Sound, Next, left' # left
               PROVE  backend = "blockfrost" /\ verdict' = "error" /\ left' = left \cup {calls}
    BY DEF vars
  <2>1. CASE Submit
    BY <2>1 DEF Submit, EndSubmit, Ends
  <2>2. CASE Evaluate
    BY <2>2 DEF Evaluate, Ends, Sound, StepsAgree
  <2> QED
    BY <2>1, <2>2
    DEF Next, NodeMoves, BeginSubmit, BeginEvaluate, Begin, EraUnknown, SubmitLatest, SubmitLegacy,
        Txid, UnreadableReply, Attempt, NoAttemptLeft, ParseCosts, Ends
<1> QED BY <1>1, SoundAlways, PTL DEF Spec, FilesAreRemoved

\* What the errors of the attempts so far say of the forms there are.
ErrorsAgree ==
    /\ step \in Submitting \cup {"evaluate", "evaluate_latest"} => told.errors = <<>>
    /\ step = "costs" => forms # {}
    /\ forms = {} => \A i \in DOMAIN told.errors : told.errors[i] = "unsupported"
    /\ step = None /\ verdict = "cli_error" => \A i \in DOMAIN told.errors : told.errors[i] = "unsupported"
    /\ step = None /\ verdict = "failed" /\ Len(told.errors) = 3 => forms # {}

\* The attempts of an evaluation have an error each, and one that is no
\* "unsupported" only where the release has a form of the command.
LEMMA ErrorsAgreeAlways == Spec => []ErrorsAgree
<1>1. Init => ErrorsAgree
  BY NoneAssumption DEF Init, ErrorsAgree, NothingTold, Submitting, Steps, Verdicts
<1>2. Sound /\ ErrorsAgree /\ [Next]_vars => ErrorsAgree'
  <2>. SUFFICES ASSUME Sound, ErrorsAgree, [Next]_vars PROVE ErrorsAgree'
    OBVIOUS
  <2>. USE NoneAssumption DEF ErrorsAgree, Steps, Submitting, Verdicts
  <2>0. told.errors \in Seq({"unsupported", "failure"}) /\ Typed
    BY DEF Sound, Typed
  <2>1. CASE NodeMoves \/ UNCHANGED vars
    BY <2>1 DEF NodeMoves, vars
  <2>2. ASSUME NEW b \in Backends, BeginSubmit(b) \/ BeginEvaluate(b) PROVE ErrorsAgree'
    <3>1. told'.errors = <<>> /\ step' \in Steps \ {"costs"}
      BY <2>2 DEF BeginSubmit, BeginEvaluate, Begin, NothingTold
    <3>. QED  BY <3>1
  <2>4. CASE EraUnknown
    BY <2>4 DEF EraUnknown, Ends
  <2>5. CASE SubmitLatest
    <3>1. told'.errors = <<>>
      BY <2>0, <2>5, RequestTells DEF SubmitLatest
    <3>2. step' \in Submitting
      BY <2>5 DEF SubmitLatest
    <3>. QED  BY <3>1, <3>2
  <2>6. CASE SubmitLegacy
    <3>1. told'.errors = <<>>
      BY <2>0, <2>6, RequestTells DEF SubmitLegacy
    <3>2. step' = "txid" \/ (step' = None /\ verdict' = "failed")
      BY <2>6 DEF SubmitLegacy, Ends
    <3>. QED  BY <3>1, <3>2
  <2>7. CASE Txid
    BY <2>7 DEF Txid, Ends
  <2>8. CASE Submit
    <3>1. PICK outcome \in Outcomes : Request(outcome) /\ EndSubmit(outcome)
      BY <2>8 DEF Submit
    <3>2. told'.errors = <<>>
      BY <2>0, <2>8, <3>1, RequestTells DEF Submit
    <3>3. step' = None /\ verdict' \in {"hash", "failed", "error"}
      BY <3>1 DEF EndSubmit, Ends
    <3>. QED  BY <3>2, <3>3
  <2>9. CASE UnreadableReply
    <3>1. told'.errors = <<>>
      BY <2>0, <2>9, RequestTells DEF UnreadableReply, Outcomes
    <3>2. step' = None /\ verdict' = "error"
      BY <2>9 DEF UnreadableReply, Ends
    <3>. QED  BY <3>1, <3>2
  <2>10. CASE Attempt
    <3>1. CASE step' = "costs" /\ UNCHANGED <<told, forms>> /\ forms # {}
      BY <3>1
    <3>2. ASSUME NEW error \in {"unsupported", "failure"}, forms = {} => error = "unsupported",
                 step' \in {"evaluate_legacy", "evaluate_flat", "evaluated"}, UNCHANGED forms,
                 told' = [told EXCEPT !.errors = Append(@, error)]
          PROVE  ErrorsAgree'
      <4>1. told'.errors = Append(told.errors, error)
        BY <3>2 DEF Sound, Typed
      <4>2. forms = {} => \A i \in DOMAIN told'.errors : told'.errors[i] = "unsupported"
        BY <2>0, <3>2, <4>1
      <4>. QED  BY <3>2, <4>2
    <3>. QED  BY <2>10, <3>1, <3>2 DEF Attempt, Attempts, NextAttempt
  <2>11. CASE NoAttemptLeft
    BY <2>11 DEF NoAttemptLeft, Ends, Blame
  <2>12. CASE ParseCosts
    BY <2>12 DEF ParseCosts, Ends
  <2>13. CASE Evaluate
    BY <2>13 DEF Evaluate, Ends
  <2>. QED
    BY <2>1, <2>2, <2>4, <2>5, <2>6, <2>7, <2>8, <2>9, <2>10, <2>11, <2>12, <2>13 DEF Next
<1>. QED  BY <1>1, <1>2, SoundAlways, PTL DEF Spec

\* The entries for what is present, of which those in named have a name.
Payload(present, named) ==
    [i \in 1..Cardinality(present) |->
        [name |-> IF Nth(present, i) \in named THEN Nth(present, i) ELSE None,
         units |-> Nth(present, i)]]

CostsFit(n, present, payload) ==
    CliCosts(payload, [i \in 1..n |-> i]) = {[r \in present |-> r]}

\* cardano-cli's costs of what is present: each under the redeemer it is of.
LEMMA CostsOfPresent ==
    ASSUME NEW n \in Nat, NEW present \in SUBSET (1..n), NEW named \in SUBSET (1..n),
           present = 1..n \/ present \subseteq named
    PROVE  CostsFit(n, present, Payload(present, named))
<1>. DEFINE payload == Payload(present, named)
            redeemers == [i \in 1..n |-> i]
            c == Cardinality(present)
            Name(i) == IF payload[i].name # None THEN payload[i].name ELSE redeemers[i]
            Chosen(r) == CHOOSE i \in DOMAIN payload :
                           Name(i) = r /\ \A j \in DOMAIN payload : Name(j) = r => j <= i
<1>1. /\ c \in Nat /\ c <= n
      /\ \A i \in 1..c : Nth(present, i) \in present /\ Rank(present, Nth(present, i)) = i
      /\ \A r \in present : Rank(present, r) \in 1..c /\ Nth(present, Rank(present, r)) = r
  BY NthInOrder, Ranks
<1>2. /\ DOMAIN payload = 1..c
      /\ \A i \in 1..c : /\ payload[i].units = Nth(present, i)
                         /\ payload[i].name = IF Nth(present, i) \in named THEN Nth(present, i) ELSE None
  BY DEF Payload
<1>. HIDE DEF payload
<1>3. /\ None \notin Nat /\ Len(redeemers) = n
      /\ \A i \in 1..c : Nth(present, i) # None /\ Nth(present, i) \in 1..n
  <2>1. None \notin Nat /\ Len(redeemers) = n
    BY NoneAssumption
  <2>2. \A r \in present : r \in 1..n /\ r # None
    BY <2>1
  <2>. QED  BY <1>1, <2>1, <2>2
<1>. HIDE DEF c
<1>4. ASSUME NEW i \in 1..c PROVE Name(i) = Nth(present, i)
  <2>1. CASE Nth(present, i) \in named
    <3>1. payload[i].name = Nth(present, i)
      BY <1>2, <2>1
    <3>. QED  BY <1>3, <3>1
  <2>2. CASE Nth(present, i) \notin named
    <3>1. present = 1..n
      BY <1>1, <2>2
    <3>2. c = n
      BY <3>1, FS_Interval DEF c
    <3>3. Nth(present, i) = i
      BY <3>1, <3>2, NthOfAll
    <3>. QED  BY <1>2, <2>2, <3>2, <3>3
  <2>. QED  BY <2>1, <2>2
<1>5. ASSUME NEW i \in DOMAIN payload PROVE ~(payload[i].name = None /\ i > Len(redeemers))
  <2>1. i \in 1..c
    BY <1>2
  <2>2. c \in Nat /\ c <= n
    BY <1>1
  <2>3. i <= n
    BY <2>1, <2>2
  <2>. QED  BY <1>3, <2>1, <2>3
<1>. HIDE DEF Name, redeemers
<1>6. {Name(i) : i \in DOMAIN payload} = present
  <2>1. ASSUME NEW r \in present PROVE r \in {Name(i) : i \in DOMAIN payload}
    <3>1. Rank(present, r) \in DOMAIN payload /\ Name(Rank(present, r)) = r
      BY <1>1, <1>2, <1>4
    <3>. QED  BY <3>1
  <2>2. ASSUME NEW i \in DOMAIN payload PROVE Name(i) \in present
    BY <1>1, <1>2, <1>4
  <2>. QED  BY <2>1, <2>2
<1>7. ASSUME NEW r \in present PROVE payload[Chosen(r)].units = r
  <2>. DEFINE k == Rank(present, r)
  <2>1. k \in 1..c /\ Name(k) = r
    BY <1>1, <1>4
  <2>2. ASSUME NEW j \in DOMAIN payload, Name(j) = r PROVE j = k
    BY <1>1, <1>2, <1>4, <2>2
  <2>. HIDE DEF k
  <2>3. k \in DOMAIN payload /\ \A j \in DOMAIN payload : Name(j) = r => j <= k
    <3>1. k \in DOMAIN payload /\ k \in Int
      <4>1. k \in DOMAIN payload
        BY <1>2, <2>1
      <4>2. k \in Int
        BY <2>1
      <4>. QED  BY <4>1, <4>2
    <3>. QED  BY <2>2, <3>1
  <2>4. Chosen(r) = k
    BY <2>1, <2>2, <2>3
  <2>. QED  BY <1>1, <1>2, <2>1, <2>4 DEF k
<1>8. CliCosts(payload, redeemers) =
         {[r \in {Name(i) : i \in DOMAIN payload} |-> payload[Chosen(r)].units]}
  BY <1>5, Zenon DEF CliCosts, Name, redeemers
<1>9. [r \in present |-> payload[Chosen(r)].units] = [r \in present |-> r]
  <2>. HIDE DEF Chosen
  <2>. QED  BY <1>7
<1>. HIDE DEF Chosen
<1>10. CliCosts(payload, redeemers) = {[r \in present |-> payload[Chosen(r)].units]}
  BY <1>6, <1>8
<1>. QED  BY <1>9, <1>10 DEF redeemers, payload, CostsFit

\* The services name a purpose alike, where they know it.
LEMMA TagsAgree ==
    \A purpose \in DOMAIN Tag :
       /\ purpose \in {"spend", "mint", "withdraw"} => KoiosTag(purpose) = OgmiosTag(purpose)
       /\ purpose \notin {"vote", "propose"} => YaciTag(purpose) = OgmiosTag(purpose)
BY DEF Tag, KoiosTag, OgmiosTag, YaciTag

\* An evaluation is blamed on the release only if it understood no form, and
\* on the transaction only if it understood one; the costs are kept under the
\* redeemers they are of.
THEOREM EvaluationsAreTrueAlways == Spec => []EvaluationsAreTrue
<1>1. Sound /\ ErrorsAgree => EvaluationsAreTrue
  <2>. SUFFICES ASSUME Sound, ErrorsAgree PROVE EvaluationsAreTrue
    OBVIOUS
  <2>1. step = None /\ verdict = "cli_error" =>
           "failure" \notin {told.errors[i] : i \in 1..Len(told.errors)}
    BY DEF ErrorsAgree, Sound, Typed
  <2>2. step = None /\ verdict = "failed" /\ Len(told.errors) = 3 => forms # {}
    BY DEF ErrorsAgree
  <2>3. ASSUME NEW n \in 0..3, NEW present \in SUBSET (1..n), NEW named \in SUBSET (1..n),
               present = 1..n \/ present \subseteq named
        PROVE  LET Named(r) == [name |-> IF r \in named THEN r ELSE None, units |-> r]
                   payload == [i \in 1..Cardinality(present) |->
                                 Named(CHOOSE r \in present : Cardinality({s \in present : s <= r}) = i)]
               IN  CliCosts(payload, [i \in 1..n |-> i]) = {[r \in present |-> r]}
    <3>. DEFINE Named(r) == [name |-> IF r \in named THEN r ELSE None, units |-> r]
                payload == [i \in 1..Cardinality(present) |->
                              Named(CHOOSE r \in present : Cardinality({s \in present : s <= r}) = i)]
    <3>1. payload = Payload(present, named)
      BY Zenon DEF Nth, Payload
    <3>. HIDE DEF payload
    <3>2. CostsFit(n, present, payload)
      BY <2>3, <3>1, CostsOfPresent
    <3>. QED  BY <3>2 DEF payload, CostsFit
  <2>. QED  BY <2>1, <2>2, <2>3, TagsAgree, Zenon DEF EvaluationsAreTrue
<1>. QED  BY <1>1, SoundAlways, ErrorsAgreeAlways, PTL

-----------------------------------------------------------------------------
(***************************************************************************)
(* Assembly.  A list is a number, and what it holds changes in place.      *)
(***************************************************************************)

Elements == [tx : Transactions, key : Keys]
\* The elements of a list.
Held(list) == {list[i] : i \in DOMAIN list}

\* new is all, but for the elements of l at the end of slot.
Grown(S, all, slot, l, new) ==
    /\ new \in Seq(Seq(S)) /\ Len(new) = Len(all)
    /\ \A k \in DOMAIN all : k # slot => new[k] = all[k]
    /\ Held(new[slot]) = Held(all[slot]) \cup Held(all[l])

\* A list to whose elements those of another are added, in place.
LEMMA AppendedList ==
    ASSUME NEW S, NEW all \in Seq(Seq(S)), NEW slot \in DOMAIN all, NEW l \in DOMAIN all,
           NEW new, new = [all EXCEPT ![slot] = @ \o all[l]]
    PROVE  Grown(S, all, slot, l, new)
<1>1. all[slot] \in Seq(S) /\ all[l] \in Seq(S) /\ all[slot] \o all[l] \in Seq(S)
  OBVIOUS
<1>2. /\ new \in Seq(Seq(S)) /\ Len(new) = Len(all)
      /\ \A k \in DOMAIN all : k # slot => new[k] = all[k]
      /\ new[slot] = all[slot] \o all[l]
  BY <1>1
<1>3. ASSUME NEW a \in Seq(S), NEW b \in Seq(S)
      PROVE  Held(a \o b) = Held(a) \cup Held(b)
  <2>1. /\ DOMAIN a = 1..Len(a) /\ DOMAIN b = 1..Len(b) /\ DOMAIN (a \o b) = 1..(Len(a) + Len(b))
        /\ Len(a) \in Nat /\ Len(b) \in Nat
        /\ \A i \in 1..Len(a) : (a \o b)[i] = a[i]
        /\ \A i \in 1..Len(b) : (a \o b)[Len(a) + i] = b[i]
    OBVIOUS
  <2>2. ASSUME NEW i \in DOMAIN (a \o b)
        PROVE  (a \o b)[i] \in Held(a) \cup Held(b)
    <3>1. CASE i <= Len(a)
      BY <2>1, <3>1 DEF Held
    <3>2. CASE i > Len(a)
      <4>1. i - Len(a) \in 1..Len(b) /\ i = Len(a) + (i - Len(a))
        BY <2>1, <3>2
      <4>. QED  BY <2>1, <4>1 DEF Held
    <3>. QED  BY <2>1, <3>1, <3>2
  <2>3. ASSUME NEW i \in DOMAIN a PROVE a[i] \in Held(a \o b)
    BY <2>1 DEF Held
  <2>4. ASSUME NEW i \in DOMAIN b PROVE b[i] \in Held(a \o b)
    <3>1. Len(a) + i \in DOMAIN (a \o b) /\ (a \o b)[Len(a) + i] = b[i]
      BY <2>1
    <3>. QED  BY <3>1 DEF Held
  <2>. QED  BY <2>2, <2>3, <2>4, Zenon DEF Held
<1>. QED  BY <1>1, <1>2, <1>3 DEF Grown

\* What a slot holds, by whether it has a list.
LEMMA HoldsHeld ==
    ASSUME NEW all, NEW l
    PROVE  /\ l = None => Holds(all, l) = {}
           /\ l # None => Holds(all, l) = Held(all[l])
  BY DEF Holds, Held

\* o is the outcome of an update of slot by l: the elements of l in it too,
\* and no other list different.
WitnessesTaken(S, all, slot, l, o) ==
    /\ o.lists \in Seq(Seq(S)) /\ Len(o.lists) = Len(all)
    /\ o.slot = IF slot = None THEN l ELSE slot
    /\ \A k \in DOMAIN all : k # slot => o.lists[k] = all[k]
    /\ Holds(o.lists, o.slot) = Holds(all, slot) \cup Holds(all, l)

\* The same, with a list of its own for a slot that was empty.
BootstrapTaken(S, all, slot, l, o) ==
    /\ o.lists \in Seq(Seq(S)) /\ Len(o.lists) >= Len(all)
    /\ \/ o.slot = slot
       \/ slot = None /\ o.slot = Len(all) + 1 /\ o.slot = Len(o.lists)
    /\ \A k \in DOMAIN all : k # slot => o.lists[k] = all[k]
    /\ Holds(o.lists, o.slot) = Holds(all, slot) \cup Holds(all, l)

\* _update_witness_set takes the elements of the list it is given.
LEMMA WitnessesUpdated ==
    ASSUME NEW S, NEW all \in Seq(Seq(S)),
           NEW slot \in DOMAIN all \cup {None}, NEW l \in DOMAIN all \cup {None},
           NEW o, o = UpdatedWitnesses(all, slot, l)
    PROVE  WitnessesTaken(S, all, slot, l, o)
<1>. USE DEF WitnessesTaken
<1>0. None \notin DOMAIN all
  BY AssemblyAssumption
<1>1. CASE l = None \/ slot = None
  BY <1>0, <1>1 DEF UpdatedWitnesses, Outcome, Holds
<1>2. CASE l # None /\ slot # None
  <2>1. o.lists = [all EXCEPT ![slot] = @ \o all[l]] /\ o.slot = slot
    BY <1>2 DEF UpdatedWitnesses, Outcome
  <2>. DEFINE new == o.lists
  <2>2. slot \in DOMAIN all /\ l \in DOMAIN all
    BY <1>2
  <2>. HIDE DEF new
  <2>3. /\ new \in Seq(Seq(S)) /\ Len(new) = Len(all)
        /\ \A k \in DOMAIN all : k # slot => new[k] = all[k]
        /\ Held(new[slot]) = Held(all[slot]) \cup Held(all[l])
    <3>1. new = [all EXCEPT ![slot] = @ \o all[l]]
      BY <2>1 DEF new
    <3>. HIDE DEF new
    <3>2. Grown(S, all, slot, l, new)
      BY <2>2, <3>1, AppendedList
    <3>. QED  BY <3>2 DEF Grown
  <2>4. Holds(new, slot) = Holds(all, slot) \cup Holds(all, l)
    BY <1>2, <2>3, HoldsHeld
  <2>. QED  BY <1>2, <2>1, <2>3, <2>4 DEF new
<1>. QED  BY <1>1, <1>2

\* So does assemble_transaction with bootstrap witnesses, into a copy.
LEMMA BootstrapUpdated ==
    ASSUME NEW S, NEW all \in Seq(Seq(S)),
           NEW slot \in DOMAIN all \cup {None}, NEW l \in DOMAIN all \cup {None},
           NEW o, o = UpdatedBootstrap(all, slot, l)
    PROVE  BootstrapTaken(S, all, slot, l, o)
<1>. USE DEF BootstrapTaken
<1>0. None \notin DOMAIN all /\ None # Len(all) + 1 /\ DOMAIN all = 1..Len(all)
  BY AssemblyAssumption
<1>1. CASE l = None
  BY <1>0, <1>1 DEF UpdatedBootstrap, Outcome, Holds
<1>2. CASE l # None /\ slot = None
  <2>1. o.lists = Append(all, all[l]) /\ o.slot = Len(all) + 1
    BY <1>2 DEF UpdatedBootstrap, Outcome
  <2>2. all[l] \in Seq(S) /\ o.lists[o.slot] = all[l]
    BY <1>2, <2>1
  <2>. DEFINE new == o.lists
  <2>3. /\ new \in Seq(Seq(S)) /\ Len(new) = Len(all) + 1
        /\ \A k \in DOMAIN all : new[k] = all[k]
    BY <2>1, <2>2
  <2>4. Holds(new, o.slot) = Holds(all, l) /\ Holds(all, slot) = {}
    BY <1>0, <1>2, <2>1, <2>2, HoldsHeld
  <2>. QED  BY <1>0, <1>2, <2>1, <2>3, <2>4
<1>3. CASE l # None /\ slot # None
  <2>1. o.lists = [all EXCEPT ![slot] = @ \o all[l]] /\ o.slot = slot
    BY <1>3 DEF UpdatedBootstrap, Outcome
  <2>. DEFINE new == o.lists
  <2>2. slot \in DOMAIN all /\ l \in DOMAIN all
    BY <1>3
  <2>. HIDE DEF new
  <2>3. /\ new \in Seq(Seq(S)) /\ Len(new) = Len(all)
        /\ \A k \in DOMAIN all : k # slot => new[k] = all[k]
        /\ Held(new[slot]) = Held(all[slot]) \cup Held(all[l])
    <3>1. new = [all EXCEPT ![slot] = @ \o all[l]]
      BY <2>1 DEF new
    <3>. HIDE DEF new
    <3>2. Grown(S, all, slot, l, new)
      BY <2>2, <3>1, AppendedList
    <3>. QED  BY <3>2 DEF Grown
  <2>4. Holds(new, slot) = Holds(all, slot) \cup Holds(all, l)
    BY <1>3, <2>3, HoldsHeld
  <2>5. Holds(o.lists, o.slot) = Holds(new, slot)
    BY <2>1 DEF new
  <2>6. Len(new) >= Len(all)
    BY <2>3
  <2>. QED  BY <2>1, <2>3, <2>4, <2>5, <2>6 DEF new
<1>. QED  BY <1>1, <1>2, <1>3

\* Who holds which list, all being what the lists are: a list of bootstrap
\* witnesses is one transaction's, and no caller has it.
Owned(all) ==
    /\ all \in Seq(Seq(Elements))
    /\ returned \subseteq DOMAIN all
    /\ \A t \in Transactions :
          /\ witnesses[t] \in DOMAIN all \cup {None}
          /\ bootstrap[t] \in DOMAIN all \cup {None}
          /\ given[t].lists \subseteq DOMAIN all
          /\ witnesses[t] # None => witnesses[t] \in given[t].lists
          /\ bootstrap[t] \notin returned
          /\ \A u \in Transactions :
                /\ bootstrap[t] # None => bootstrap[t] \notin given[u].lists
                /\ bootstrap[t] # None /\ u # t => bootstrap[u] # bootstrap[t]

Shared(t) == \E u \in Transactions \ {t} : given[t].lists \cap given[u].lists # {}

\* WitnessesStay, all being what the lists are.
Stay(all) ==
    \A t \in Transactions :
       /\ given[t].vkeys \subseteq Holds(all, witnesses[t])
       /\ Holds(all, witnesses[t]) \subseteq given[t].vkeys \/ Shared(t)
       /\ Holds(all, bootstrap[t]) = given[t].bootstrap

Slots ==
    /\ DOMAIN witnesses = Transactions /\ DOMAIN bootstrap = Transactions
    /\ DOMAIN given = Transactions

AssemblyInv == Slots /\ Owned(lists) /\ Stay(lists)

\* A new list changes none of those there are.
LEMMA NewList ==
    ASSUME AssemblyInv, NEW new \in Seq(Elements)
    PROVE  Owned(Append(lists, new)) /\ Stay(Append(lists, new))
<1>. DEFINE all == Append(lists, new)
<1>0. /\ lists \in Seq(Seq(Elements)) /\ None \notin DOMAIN lists
      /\ DOMAIN lists \subseteq DOMAIN all /\ all \in Seq(Seq(Elements))
      /\ \A k \in DOMAIN lists : all[k] = lists[k]
  BY AssemblyAssumption DEF AssemblyInv, Owned
<1>. HIDE DEF all
<1>1. Owned(all)
  BY <1>0 DEF AssemblyInv, Owned
<1>2. ASSUME NEW l \in DOMAIN lists \cup {None} PROVE Holds(all, l) = Holds(lists, l)
  BY <1>0 DEF Holds
<1>3. Stay(all)
  <2>1. ASSUME NEW t \in Transactions
        PROVE  Holds(all, witnesses[t]) = Holds(lists, witnesses[t])
               /\ Holds(all, bootstrap[t]) = Holds(lists, bootstrap[t])
    BY <1>2 DEF AssemblyInv, Owned
  <2>. QED  BY <2>1, Zenon DEF AssemblyInv, Stay
<1>. QED  BY <1>1, <1>3 DEF all

\* assemble_transaction on lists that are owned as they should be.
LEMMA AssembledStays ==
    ASSUME NEW all, Slots, Owned(all), Stay(all), NEW t \in Transactions,
           NEW v \in DOMAIN all \cup {None}, NEW b \in returned \cup {None}, NEW r,
           v # None => \A u \in Transactions : bootstrap[u] # v,
           AssembledOver(all, t, v, b, r)
    PROVE  AssemblyInv'
<1>. DEFINE first == UpdatedWitnesses(all, witnesses[t], v)
            second == UpdatedBootstrap(first.lists, bootstrap[t], b)
            A == first.lists
            B == second.lists
            w == first.slot
            c == second.slot
<1>1. /\ lists' = B /\ returned' = returned
      /\ witnesses' = [witnesses EXCEPT ![t] = w]
      /\ bootstrap' = [bootstrap EXCEPT ![t] = c]
      /\ given' = [given EXCEPT ![t] =
                     [vkeys |-> @.vkeys \cup Holds(all, v),
                      bootstrap |-> @.bootstrap \cup Holds(A, b),
                      lists |-> @.lists \cup ({v} \ {None})]]
  BY DEF AssembledOver
<1>2. /\ all \in Seq(Seq(Elements)) /\ None \notin DOMAIN all
      /\ DOMAIN all = 1..Len(all) /\ Len(all) \in Nat
      /\ witnesses[t] \in DOMAIN all \cup {None} /\ bootstrap[t] \in DOMAIN all \cup {None}
      /\ b \in DOMAIN all \cup {None}
  BY AssemblyAssumption DEF Owned
<1>3. /\ A \in Seq(Seq(Elements)) /\ Len(A) = Len(all)
      /\ w = IF witnesses[t] = None THEN v ELSE witnesses[t]
      /\ \A k \in DOMAIN all : k # witnesses[t] => A[k] = all[k]
      /\ Holds(A, w) = Holds(all, witnesses[t]) \cup Holds(all, v)
  <2>1. WitnessesTaken(Elements, all, witnesses[t], v, first)
    BY <1>2, WitnessesUpdated
  <2>. QED  BY <2>1 DEF WitnessesTaken
<1>4. DOMAIN A = DOMAIN all
  BY <1>2, <1>3
<1>. HIDE DEF first
<1>5. /\ B \in Seq(Seq(Elements)) /\ Len(B) >= Len(A)
      /\ \/ c = bootstrap[t]
         \/ bootstrap[t] = None /\ c = Len(A) + 1 /\ c = Len(B)
      /\ \A k \in DOMAIN A : k # bootstrap[t] => B[k] = A[k]
      /\ Holds(B, c) = Holds(A, bootstrap[t]) \cup Holds(A, b)
  <2>1. bootstrap[t] \in DOMAIN A \cup {None} /\ b \in DOMAIN A \cup {None}
    BY <1>2, <1>4
  <2>2. BootstrapTaken(Elements, A, bootstrap[t], b, second)
    BY <1>3, <2>1, BootstrapUpdated
  <2>. QED  BY <2>2 DEF BootstrapTaken
<1>6. /\ DOMAIN all \subseteq DOMAIN B /\ DOMAIN B = 1..Len(B)
      /\ \/ c = bootstrap[t]
         \/ bootstrap[t] = None /\ c \in DOMAIN B /\ c \notin DOMAIN all /\ c # None
  BY <1>2, <1>3, <1>4, <1>5, AssemblyAssumption
<1>. HIDE DEF second
<1>. DEFINE more == [vkeys |-> given[t].vkeys \cup Holds(all, v),
                     bootstrap |-> given[t].bootstrap \cup Holds(A, b),
                     lists |-> given[t].lists \cup ({v} \ {None})]
<1>7. /\ witnesses'[t] = w /\ bootstrap'[t] = c
      /\ given'[t].vkeys = given[t].vkeys \cup Holds(all, v)
      /\ given'[t].bootstrap = given[t].bootstrap \cup Holds(A, b)
      /\ given'[t].lists = given[t].lists \cup ({v} \ {None})
  <2>1. given' = [given EXCEPT ![t] = more]
    BY <1>1, Zenon
  <2>2. given'[t] = more
    BY <2>1 DEF Slots
  <2>. QED  BY <1>1, <2>2 DEF Slots
<1>8. /\ Slots'
      /\ \A u \in Transactions : u # t => /\ witnesses'[u] = witnesses[u] /\ bootstrap'[u] = bootstrap[u]
                                          /\ given'[u] = given[u]
  BY <1>1 DEF Slots
<1>. HIDE DEF A, B, w, c
<1>9. Owned(lists)'
  <2>1. /\ lists' \in Seq(Seq(Elements)) /\ returned' \subseteq DOMAIN lists'
    BY <1>1, <1>5, <1>6 DEF Owned
  <2>2. ASSUME NEW u \in Transactions
        PROVE  /\ witnesses'[u] \in DOMAIN lists' \cup {None}
               /\ bootstrap'[u] \in DOMAIN lists' \cup {None}
               /\ given'[u].lists \subseteq DOMAIN all
               /\ witnesses'[u] # None => witnesses'[u] \in given'[u].lists
               /\ bootstrap'[u] \notin returned'
    <3>1. CASE u = t
      BY <1>1, <1>2, <1>3, <1>6, <1>7, <3>1 DEF Owned
    <3>2. CASE u # t
      BY <1>1, <1>6, <1>8, <3>2 DEF Owned
    <3>. QED  BY <3>1, <3>2
  <2>3. ASSUME NEW u \in Transactions, NEW x \in Transactions, bootstrap'[u] # None
        PROVE  /\ bootstrap'[u] \notin given'[x].lists
               /\ x # u => bootstrap'[x] # bootstrap'[u]
    <3>1. bootstrap'[u] = bootstrap[u] \/ bootstrap'[u] \notin DOMAIN all
      BY <1>6, <1>7, <1>8
    <3>2. given'[x].lists = given[x].lists \/ given'[x].lists = given[x].lists \cup ({v} \ {None})
      BY <1>7, <1>8
    <3>3. bootstrap'[u] \notin given'[x].lists
      BY <2>2, <2>3, <3>1, <3>2 DEF Owned
    <3>4. ASSUME x # u PROVE bootstrap'[x] # bootstrap'[u]
      BY <1>2, <1>6, <1>7, <1>8, <2>3, <3>4 DEF Owned
    <3>. QED  BY <3>3, <3>4
  <2>. QED  BY <1>6, <1>1, <2>1, <2>2, <2>3 DEF Owned
\* What the lists of a transaction hold after the assembly.
<1>10. ASSUME NEW k \in DOMAIN all, k # witnesses[t], k # bootstrap[t]
       PROVE  Holds(B, k) = Holds(all, k)
  <2>1. B[k] = all[k] /\ k # None
    BY <1>2, <1>3, <1>4, <1>5, <1>10
  <2>. QED  BY <2>1 DEF Holds
<1>11. Holds(B, w) = Holds(A, w)
  <2>1. w # None => w \in DOMAIN A /\ w # bootstrap[t]
    <3>1. CASE witnesses[t] = None
      BY <1>2, <1>3, <1>4, <3>1
    <3>2. CASE witnesses[t] # None
      BY <1>2, <1>3, <1>4, <3>2 DEF Owned
    <3>. QED  BY <3>1, <3>2
  <2>. QED  BY <1>5, <2>1 DEF Holds
<1>12. Holds(A, bootstrap[t]) = Holds(all, bootstrap[t])
  <2>1. bootstrap[t] # None => bootstrap[t] \in DOMAIN all /\ bootstrap[t] # witnesses[t]
    BY <1>2 DEF Owned
  <2>2. bootstrap[t] # None => A[bootstrap[t]] = all[bootstrap[t]]
    BY <1>3, <2>1
  <2>. QED  BY <2>2 DEF Holds
<1>13. ASSUME NEW u \in Transactions, Shared(u) PROVE Shared(u)'
  <2>1. \A x \in Transactions : given[x].lists \subseteq given'[x].lists
    BY <1>7, <1>8
  <2>. QED  BY <1>13, <2>1 DEF Shared
<1>14. ASSUME NEW u \in Transactions
       PROVE  /\ given'[u].vkeys \subseteq Holds(B, witnesses'[u])
              /\ Holds(B, witnesses'[u]) \subseteq given'[u].vkeys \/ Shared(u)'
              /\ Holds(B, bootstrap'[u]) = given'[u].bootstrap
  <2>1. /\ given[u].vkeys \subseteq Holds(all, witnesses[u])
        /\ Holds(all, witnesses[u]) \subseteq given[u].vkeys \/ Shared(u)
        /\ Holds(all, bootstrap[u]) = given[u].bootstrap
    BY DEF Stay
  <2>2. CASE u = t
    BY <1>3, <1>5, <1>7, <1>11, <1>12, <1>13, <2>1, <2>2
  <2>3. CASE u # t
    <3>1. witnesses'[u] = witnesses[u] /\ bootstrap'[u] = bootstrap[u] /\ given'[u] = given[u]
      BY <1>8, <2>3
    <3>2. Holds(B, bootstrap[u]) = Holds(all, bootstrap[u])
      <4>1. CASE bootstrap[u] = None
        BY <4>1 DEF Holds
      <4>2. CASE bootstrap[u] # None
        <5>1. bootstrap[u] \in DOMAIN all /\ bootstrap[u] # bootstrap[t] /\ bootstrap[u] # witnesses[t]
          BY <1>2, <2>3, <4>2 DEF Owned
        <5>. QED  BY <1>10, <5>1
      <4>. QED  BY <4>1, <4>2
    <3>3. CASE witnesses[u] = None
      BY <1>13, <2>1, <3>1, <3>2, <3>3 DEF Holds
    <3>4. CASE witnesses[u] # None /\ witnesses[u] # witnesses[t]
      <4>1. witnesses[u] \in DOMAIN all /\ witnesses[u] # bootstrap[t]
        BY <1>2, <3>4 DEF Owned
      <4>2. Holds(B, witnesses[u]) = Holds(all, witnesses[u])
        BY <1>10, <3>4, <4>1
      <4>. QED  BY <1>13, <2>1, <3>1, <3>2, <4>2
    <3>5. CASE witnesses[u] # None /\ witnesses[u] = witnesses[t]
      <4>1. w = witnesses[u] /\ Holds(B, witnesses[u]) = Holds(all, witnesses[u]) \cup Holds(all, v)
        BY <1>3, <1>11, <3>5
      <4>2. witnesses[u] \in given[u].lists \cap given[t].lists
        BY <3>5 DEF Owned
      <4>3. Shared(u)'
        BY <2>3, <4>2, <1>7, <3>1 DEF Shared
      <4>. QED  BY <2>1, <3>1, <3>2, <4>1, <4>3
    <3>. QED  BY <3>3, <3>4, <3>5
  <2>. QED  BY <2>2, <2>3
<1>15. Stay(lists)'
  BY <1>1, <1>14, Zenon DEF Stay
<1>. QED  BY <1>8, <1>9, <1>15 DEF AssemblyInv

\* Lists are owned as they should be, whatever is signed and assembled.
THEOREM AssemblyInvAlways == AssemblySpec => []AssemblyInv
<1>1. AssemblyInit => AssemblyInv
  <2>. SUFFICES ASSUME AssemblyInit PROVE AssemblyInv
    OBVIOUS
  <2>. USE DEF AssemblyInit, Nothing
  <2>1. Slots
    BY DEF Slots
  <2>2. Owned(lists)
    BY DEF Owned
  <2>3. Stay(lists)
    BY DEF Stay, Holds
  <2>. QED  BY <2>1, <2>2, <2>3 DEF AssemblyInv
<1>2. AssemblyInv /\ [AssemblyNext]_assemblyVars => AssemblyInv'
  <2>. SUFFICES ASSUME AssemblyInv, [AssemblyNext]_assemblyVars PROVE AssemblyInv'
    OBVIOUS
  <2>1. ASSUME NEW t \in Transactions, NEW key \in Keys PROVE Signature(t, key) \in Seq(Elements)
    BY DEF Signature, Elements
  <2>2. /\ lists \in Seq(Seq(Elements)) /\ Len(lists) \in Nat /\ DOMAIN lists = 1..Len(lists)
        /\ returned \subseteq DOMAIN lists
    BY DEF AssemblyInv, Owned
  <2>3. ASSUME NEW t \in Transactions, NEW key \in Keys, Witness(t, key) PROVE AssemblyInv'
    <3>. DEFINE all == Append(lists, Signature(t, key))
    <3>1. /\ lists' = all /\ returned' = returned \cup {Len(lists) + 1}
          /\ UNCHANGED <<witnesses, bootstrap, redeemer, given>>
      BY <2>3 DEF Witness
    <3>2. Owned(all) /\ Stay(all) /\ Slots
      BY <2>1, NewList DEF AssemblyInv
    <3>3. Len(lists) + 1 \in DOMAIN all /\ Len(lists) + 1 \notin DOMAIN lists /\ Len(lists) + 1 # None
      BY <2>2, AssemblyAssumption
    <3>. HIDE DEF all
    <3>4. Owned(lists)'
      <4>1. \A u \in Transactions : bootstrap[u] \in DOMAIN lists \cup {None}
        BY DEF AssemblyInv, Owned
      <4>. QED  BY <3>1, <3>2, <3>3, <4>1 DEF Owned
    <3>5. Stay(lists)' /\ Slots'
      BY <3>1, <3>2 DEF Stay, Shared, Slots
    <3>. QED  BY <3>4, <3>5 DEF AssemblyInv
  <2>4. ASSUME NEW t \in Transactions, NEW key \in Keys, Sign(t, key) PROVE AssemblyInv'
    <3>. DEFINE all == Append(lists, Signature(t, key))
                l == Len(lists) + 1
    <3>1. Owned(all) /\ Stay(all) /\ Slots
      BY <2>1, NewList DEF AssemblyInv
    <3>2. l \in DOMAIN all /\ l \notin DOMAIN lists /\ l # None
      BY <2>2, AssemblyAssumption
    <3>3. \A u \in Transactions : bootstrap[u] # l
      BY <3>2 DEF AssemblyInv, Owned
    <3>4. AssembledOver(all, t, l, None, None)
      BY <2>4 DEF Sign
    <3>. HIDE DEF all, l
    <3>. QED  BY <3>1, <3>2, <3>3, <3>4, AssembledStays
  <2>5. ASSUME NEW t \in Transactions, NEW v \in returned \cup {None}, NEW b \in returned \cup {None},
               NEW r \in {None, 1}, Assemble(t, v, b, r)
        PROVE  AssemblyInv'
    <3>1. Owned(lists) /\ Stay(lists) /\ Slots
      BY DEF AssemblyInv
    <3>2. v \in DOMAIN lists \cup {None}
      BY <2>2
    <3>3. v # None => \A u \in Transactions : bootstrap[u] # v
      BY <3>1 DEF Owned
    <3>4. AssembledOver(lists, t, v, b, r)
      BY <2>5 DEF Assemble
    <3>. QED  BY <3>1, <3>2, <3>3, <3>4, AssembledStays
  <2>6. CASE UNCHANGED assemblyVars
    BY <2>6 DEF assemblyVars, AssemblyInv, Owned, Stay, Shared, Slots
  <2>. QED  BY <2>3, <2>4, <2>5, <2>6 DEF AssemblyNext
<1>. QED  BY <1>1, <1>2, PTL DEF AssemblySpec

\* Every witness passed for a transaction is in it and stays, and there is no
\* other unless a list was passed for two transactions.
THEOREM WitnessesStayAlways == AssemblySpec => []WitnessesStay
<1>1. AssemblyInv => WitnessesStay
  BY DEF AssemblyInv, Stay, Shared, WitnessesStay
<1>. QED  BY <1>1, AssemblyInvAlways, PTL

-----------------------------------------------------------------------------
(***************************************************************************)
(* The sections of a transfer file.                                        *)
(***************************************************************************)

\* A section is a sequence of at most MaxEntries entries.
LEMMA ListFields ==
    ASSUME NEW S, NEW l \in Lists(S)
    PROVE  \E n \in 0..MaxEntries : n \in Nat /\ DOMAIN l = 1..n /\ l \in [1..n -> S]
  BY EntriesAssumption DEF Lists

\* The pools of a loaded section: the good ones, in the order of the file.
LEMMA PoolsLoaded ==
    ASSUME NEW l \in Lists(PoolIds)
    PROVE  /\ LoadedPools(l) \in Lists(PoolIds)
           /\ InOrder(LoadedPools(l), l, Decodable(l))
           /\ LoadedPools(LoadedPools(l)) = LoadedPools(l)
<1>0. l # None
  BY AbsentAssumption
<1>1. PICK n \in 0..MaxEntries : n \in Nat /\ DOMAIN l = 1..n /\ l \in [1..n -> PoolIds]
  BY ListFields
<1>. DEFINE D == Decodable(l)
            c == Cardinality(D)
            loaded == LoadedPools(l)
<1>2. D \in SUBSET (1..n)
  BY <1>1 DEF Decodable
<1>3. c \in Nat /\ c <= n
  BY <1>1, <1>2, Ranks
<1>4. /\ \A k \in 1..c : Nth(D, k) \in D
      /\ \A j, k \in 1..c : j < k => Nth(D, j) < Nth(D, k)
      /\ \A r \in D : Rank(D, r) \in 1..c /\ Nth(D, Rank(D, r)) = r
  BY <1>1, <1>2, NthInOrder
<1>5. loaded = [k \in 1..c |-> l[Nth(D, k)]]
  BY <1>0 DEF LoadedPools
<1>6. ASSUME NEW k \in 1..c PROVE loaded[k] \in PoolIds /\ loaded[k] # "bad"
  BY <1>1, <1>2, <1>4, <1>5 DEF Decodable
<1>7. loaded \in [1..c -> PoolIds]
  BY <1>5, <1>6
<1>8. c \in 0..MaxEntries
  BY <1>1, <1>3, EntriesAssumption
<1>9. loaded \in Lists(PoolIds)
  BY <1>7, <1>8 DEF Lists
<1>10. InOrder(loaded, l, D)
  <2>. DEFINE at == [k \in 1..c |-> Nth(D, k)]
  <2>1. DOMAIN loaded = 1..c /\ at \in [DOMAIN loaded -> D]
    BY <1>4, <1>5
  <2>2. \A i, j \in DOMAIN loaded : i < j => at[i] < at[j]
    BY <1>4, <2>1
  <2>3. ASSUME NEW s \in D PROVE \E i \in DOMAIN loaded : at[i] = s
    BY <1>4, <2>1
  <2>4. \A i \in DOMAIN loaded : loaded[i] = l[at[i]]
    BY <1>5, <2>1
  <2>. HIDE DEF at, D, loaded
  <2>. QED  BY <2>1, <2>2, <2>3, <2>4 DEF InOrder
<1>11. LoadedPools(loaded) = loaded
  <2>1. loaded # None
    BY <1>9, AbsentAssumption
  <2>2. Decodable(loaded) = 1..c
    BY <1>6, <1>7 DEF Decodable
  <2>. HIDE DEF loaded, c
  <2>3. Cardinality(1..c) = c
    BY <1>3, FS_Interval
  <2>4. LoadedPools(loaded) = [k \in 1..c |-> loaded[Nth(1..c, k)]]
    BY <2>1, <2>2, <2>3 DEF LoadedPools
  <2>5. \A k \in 1..c : Nth(1..c, k) = k
    BY <1>3, NthOfAll
  <2>. QED  BY <1>7, <2>4, <2>5
<1>. QED  BY <1>9, <1>10, <1>11

\* A record loads as what of it can be decoded, and then stays.
LEMMA RecordsLoaded ==
    ASSUME NEW r \in Records
    PROVE  /\ LoadedRecord(r) \in Readable
           /\ LoadedRecord(LoadedRecord(r)) = LoadedRecord(r)
           /\ \A f \in {"credential", "status"} :
                 \/ LoadedRecord(r)[f] \in {r[f]} \ {"bad"}
                 \/ LoadedRecord(r)[f] = None /\ r[f] = "bad"
  BY AbsentAssumption DEF LoadedRecord, Records, Readable, Good

\* An output keeps its names, and whether it has a datum.
LEMMA OutputsSaved ==
    ASSUME NEW o \in Outputs
    PROVE  /\ SavedOutput(o).names = o.names
           /\ (SavedOutput(o).datum = None) = (o.datum = None)
           /\ SavedOutput(SavedOutput(o)) = SavedOutput(o)
  BY AbsentAssumption DEF SavedOutput, Outputs

\* What a context has of a capture.
Kept(c) == Loaded(Saved(c))

\* What a context has, section by section.
LEMMA KeptFields ==
    ASSUME NEW c \in Captures
    PROVE  /\ Kept(c).stake_pools = LoadedPools(c.stake_pools)
           /\ Kept(c).infos = IF c.infos = None THEN None
                              ELSE [i \in DOMAIN c.infos |-> LoadedRecord(c.infos[i])]
           /\ Kept(c).utxos = [i \in DOMAIN c.utxos |-> SavedOutput(c.utxos[i])]
           /\ Kept(c) = [stake_pools |-> Kept(c).stake_pools, infos |-> Kept(c).infos,
                         utxos |-> Kept(c).utxos]
  BY DEF Kept, Loaded, Saved, SavedSection, Each, LoadedOutput

\* What is loaded of what was saved, section by section.
LEMMA LoadedOf ==
    ASSUME NEW d
    PROVE  Loaded(Saved(d)) =
             [stake_pools |-> LoadedPools(d.stake_pools),
              infos |-> IF d.infos = None THEN None
                        ELSE [i \in DOMAIN d.infos |-> LoadedRecord(d.infos[i])],
              utxos |-> [i \in DOMAIN d.utxos |-> SavedOutput(d.utxos[i])]]
  BY DEF Loaded, Saved, SavedSection, Each, LoadedOutput

\* What the sections of a capture hold.
LEMMA CaptureFields ==
    ASSUME NEW c \in Captures
    PROVE  /\ c.stake_pools \in Lists(PoolIds) \cup {None}
           /\ c.infos # None =>
                 c.infos \in Lists(Records) /\ \A i \in DOMAIN c.infos : c.infos[i] \in Records
           /\ c.utxos \in Lists(Outputs) /\ \A i \in DOMAIN c.utxos : c.utxos[i] \in Outputs
<1>1. /\ c.stake_pools \in Lists(PoolIds) \cup {None} /\ c.infos \in Lists(Records) \cup {None}
      /\ c.utxos \in Lists(Outputs)
  BY DEF Captures
<1>2. ASSUME NEW S, NEW l \in Lists(S), NEW i \in DOMAIN l PROVE l[i] \in S
  BY ListFields
<1>. QED  BY <1>1, <1>2

\* What a context has stays what it is, however often it is saved and loaded.
LEMMA KeptStays ==
    ASSUME NEW c \in Captures
    PROVE  Loaded(Saved(Kept(c))) = Kept(c)
<1>. DEFINE k == Kept(c)
<1>1. /\ c.stake_pools \in Lists(PoolIds) \cup {None}
      /\ c.infos # None => c.infos \in Lists(Records) /\ \A i \in DOMAIN c.infos : c.infos[i] \in Records
      /\ c.utxos \in Lists(Outputs) /\ \A i \in DOMAIN c.utxos : c.utxos[i] \in Outputs
  BY CaptureFields
<1>2. /\ k.stake_pools = LoadedPools(c.stake_pools)
      /\ k.infos = IF c.infos = None THEN None
                   ELSE [i \in DOMAIN c.infos |-> LoadedRecord(c.infos[i])]
      /\ k.utxos = [i \in DOMAIN c.utxos |-> SavedOutput(c.utxos[i])]
      /\ k = [stake_pools |-> k.stake_pools, infos |-> k.infos, utxos |-> k.utxos]
  BY KeptFields
<1>. HIDE DEF k
<1>3. LoadedPools(k.stake_pools) = k.stake_pools
  <2>1. CASE c.stake_pools = None
    BY <1>2, <2>1 DEF LoadedPools
  <2>2. CASE c.stake_pools # None
    BY <1>1, <1>2, <2>2, PoolsLoaded
  <2>. QED  BY <2>1, <2>2
<1>4. (IF k.infos = None THEN None ELSE [i \in DOMAIN k.infos |-> LoadedRecord(k.infos[i])]) = k.infos
  <2>1. CASE k.infos = None
    BY <2>1
  <2>2. CASE k.infos # None
    <3>1. /\ k.infos = [i \in DOMAIN c.infos |-> LoadedRecord(c.infos[i])]
          /\ \A i \in DOMAIN c.infos : LoadedRecord(LoadedRecord(c.infos[i])) = LoadedRecord(c.infos[i])
      BY <1>1, <1>2, <2>2, RecordsLoaded
    <3>2. [i \in DOMAIN k.infos |-> LoadedRecord(k.infos[i])] = k.infos
      BY <3>1
    <3>. QED  BY <2>2, <3>2
  <2>. QED  BY <2>1, <2>2
<1>5. [i \in DOMAIN k.utxos |-> SavedOutput(k.utxos[i])] = k.utxos
  <2>1. \A i \in DOMAIN c.utxos : SavedOutput(SavedOutput(c.utxos[i])) = SavedOutput(c.utxos[i])
    BY <1>1, OutputsSaved
  <2>. QED  BY <1>2, <2>1
<1>6. Loaded(Saved(k)) = [stake_pools |-> k.stake_pools, infos |-> k.infos, utxos |-> k.utxos]
  BY <1>3, <1>4, <1>5, LoadedOf
<1>. QED  BY <1>2, <1>6 DEF k

\* The document is that of the capture, or of what a context has of it.
SectionInv ==
    /\ online \in Captures
    /\ document # None => CanSave(online) /\ document \in {Saved(online), Saved(Kept(online))}
    /\ held # None => CanSave(online) /\ held = Kept(online)

\* The document is that of the capture or of what a context has of it, and a
\* context has what a first one had.
THEOREM SectionInvAlways == SectionSpec => []SectionInv
<1>1. SectionInit => SectionInv
  BY DEF SectionInit, SectionInv
<1>2. SectionInv /\ [SectionNext]_sectionVars => SectionInv'
  <2>. SUFFICES ASSUME SectionInv, [SectionNext]_sectionVars PROVE SectionInv'
    OBVIOUS
  <2>0. online' = online /\ Kept(online)' = Kept(online) /\ Saved(online)' = Saved(online)
        /\ CanSave(online)' = CanSave(online) /\ Saved(Kept(online))' = Saved(Kept(online))
    <3>1. online' = online
      BY DEF SectionNext, sectionVars, WriteCapture, Open, Leave, SaveSections
    <3>2. ASSUME NEW c, c = online PROVE Kept(c) = Kept(online) /\ Saved(c) = Saved(online)
            /\ CanSave(c) = CanSave(online) /\ Saved(Kept(c)) = Saved(Kept(online))
      BY <3>2
    <3>. QED  BY <3>1, <3>2
  <2>1. Loaded(Saved(Kept(online))) = Kept(online)
    BY KeptStays DEF SectionInv
  <2>2. CASE WriteCapture
    BY <2>0, <2>2 DEF WriteCapture, SectionInv
  <2>3. CASE Open
    BY <2>0, <2>1, <2>3 DEF Open, SectionInv, Kept
  <2>4. CASE Leave
    BY <2>0, <2>4 DEF Leave, SectionInv
  <2>5. CASE SaveSections
    BY <2>0, <2>5 DEF SaveSections, SectionInv
  <2>6. CASE UNCHANGED sectionVars
    BY <2>0, <2>6 DEF sectionVars, SectionInv
  <2>. QED  BY <2>2, <2>3, <2>4, <2>5, <2>6 DEF SectionNext
<1>. QED  BY <1>1, <1>2, PTL DEF SectionSpec

\* However often the file is loaded and saved, its sections are had as they
\* were captured, less what cannot be decoded.
THEOREM SectionsSurviveAlways == SectionSpec => []SectionsSurvive
<1>1. SectionInv => SectionsSurvive
  <2>. SUFFICES ASSUME SectionInv, held # None PROVE SectionsSurvive
    BY DEF SectionsSurvive
  <2>1. /\ online.stake_pools \in Lists(PoolIds) \cup {None}
        /\ online.infos # None =>
              online.infos \in Lists(Records) /\ \A i \in DOMAIN online.infos : online.infos[i] \in Records
        /\ online.utxos \in Lists(Outputs) /\ \A i \in DOMAIN online.utxos : online.utxos[i] \in Outputs
    BY CaptureFields DEF SectionInv
  <2>2. /\ held.stake_pools = LoadedPools(online.stake_pools)
        /\ held.infos = IF online.infos = None THEN None
                        ELSE [i \in DOMAIN online.infos |-> LoadedRecord(online.infos[i])]
        /\ held.utxos = [i \in DOMAIN online.utxos |-> SavedOutput(online.utxos[i])]
    BY KeptFields DEF SectionInv
  <2>3. held.infos = None <=> online.infos = None
    <3>1. CASE online.infos # None
      <4>1. PICK n \in 0..MaxEntries : online.infos \in [1..n -> Records] /\ DOMAIN online.infos = 1..n
        BY <2>1, <3>1, ListFields
      <4>2. held.infos \in [1..n -> Readable]
        BY <2>1, <2>2, <3>1, <4>1, RecordsLoaded
      <4>3. held.infos \in Lists(Readable)
        BY <4>2 DEF Lists
      <4>. QED  BY <3>1, <4>3, AbsentAssumption
    <3>. QED  BY <2>2, <3>1
  <2>4. held.stake_pools = None <=> online.stake_pools = None
    <3>1. CASE online.stake_pools # None
      <4>1. held.stake_pools \in Lists(PoolIds)
        BY <2>1, <2>2, <3>1, PoolsLoaded
      <4>. QED  BY <3>1, <4>1, AbsentAssumption
    <3>. QED  BY <2>2, <3>1 DEF LoadedPools
  <2>5. ASSUME online.infos # None
        PROVE  /\ DOMAIN held.infos = DOMAIN online.infos
               /\ \A i \in DOMAIN held.infos : \A f \in {"credential", "status"} :
                     held.infos[i][f] \in {online.infos[i][f]} \ {"bad"}
                        \/ (held.infos[i][f] = None /\ online.infos[i][f] = "bad")
    <3>1. held.infos = [i \in DOMAIN online.infos |-> LoadedRecord(online.infos[i])]
      BY <2>2, <2>5
    <3>2. ASSUME NEW i \in DOMAIN online.infos, NEW f \in {"credential", "status"}
          PROVE  held.infos[i][f] \in {online.infos[i][f]} \ {"bad"}
                    \/ (held.infos[i][f] = None /\ online.infos[i][f] = "bad")
      BY <2>1, <2>5, <3>1, RecordsLoaded
    <3>. QED  BY <3>1, <3>2
  <2>6. online.stake_pools # None =>
           InOrder(held.stake_pools, online.stake_pools, Decodable(online.stake_pools))
    BY <2>1, <2>2, PoolsLoaded
  <2>7. /\ DOMAIN held.utxos = DOMAIN online.utxos
        /\ \A i \in DOMAIN held.utxos : /\ (held.utxos[i].datum = None) = (online.utxos[i].datum = None)
                                       /\ held.utxos[i].names = online.utxos[i].names
    BY <2>1, <2>2, OutputsSaved
  <2>8. CanSave(held)
    BY <2>7 DEF SectionInv, CanSave
  <2>9. Loaded(Saved(held)) = held
    BY KeptStays DEF SectionInv
  <2>. QED  BY <2>3, <2>4, <2>5, <2>6, <2>7, <2>8, <2>9 DEF SectionsSurvive, Decodable
<1>. QED  BY <1>1, SectionInvAlways, PTL

-----------------------------------------------------------------------------
(***************************************************************************)
(* The class of the parameters: what is an alias of what.                  *)
(***************************************************************************)

\* The last of some fields is the one of the greatest place among them.
LEMMA LastIs ==
    ASSUME NEW fits, fits \subseteq Nat, NEW last \in fits, \A i \in fits : i <= last
    PROVE  LastName(fits) = Declared[last].name
<1>1. PICK chosen \in fits : chosen = CHOOSE i \in fits : \A j \in fits : j <= i
    OBVIOUS
<1>2. \A j \in fits : j <= CHOOSE i \in fits : \A k \in fits : k <= i
    OBVIOUS
<1>3. (CHOOSE i \in fits : \A j \in fits : j <= i) = last
    BY <1>1, <1>2
<1> QED  BY <1>3 DEF LastName

\* The fields, their names and their aliases, as the class declares them.
LEMMA DeclaredPlaces == DOMAIN Declared = 1 .. 10
BY DEF Declared

LEMMA DeclaredNames ==
    /\ Declared[1].name = "cost_models" /\ Declared[2].name = "execution_unit_prices"
    /\ Declared[3].name = "min_fee_coefficient"
    /\ Declared[4].name = "min_fee_ref_script_cost_per_byte"
    /\ Declared[5].name = "min_utxo" /\ Declared[6].name = "tx_fee_per_byte"
    /\ Declared[7].name = "price_mem" /\ Declared[8].name = "coins_per_utxo_word"
    /\ Declared[9].name = "coins_per_utxo_byte" /\ Declared[10].name = "utxo_cost_per_byte"
BY DEF Declared, Field

\* Whether a key is an alias of the field at a place.
Fits(key, i) == \E a \in DOMAIN Declared[i].aliases : Declared[i].aliases[a] = key

LEMMA DeclaredAliases ==
    ASSUME NEW key
    PROVE  /\ Fits(key, 1) <=> key \in {"cost_models", "costModels", "plutusCostModels",
                                        "cost_models_raw"}
           /\ Fits(key, 2) <=> key \in {"execution_unit_prices", "executionUnitPrices",
                                        "scriptExecutionPrices"}
           /\ Fits(key, 3) <=> key \in {"min_fee_coefficient", "txFeePerByte", "min_fee_a",
                                        "minFeeCoefficient"}
           /\ Fits(key, 4) <=> key \in {"min_fee_reference_scripts", "minFeeReferenceScripts",
                                        "min_fee_ref_script_cost_per_byte",
                                        "minFeeRefScriptCostPerByte"}
           /\ Fits(key, 5) <=> key \in {"min_utxo", "utxoCostPerByte"}
           /\ Fits(key, 6) <=> key \in {"tx_fee_per_byte", "txFeePerByte"}
           /\ Fits(key, 7) <=> key \in {"price_mem", "executionUnitPricesPriceMemory"}
           /\ Fits(key, 8) <=> key \in {"coins_per_utxo_word", "coinsPerUtxoWord"}
           /\ Fits(key, 9) <=> key \in {"coins_per_utxo_byte", "coinsPerUtxoByte",
                                        "coins_per_utxo_size"}
           /\ Fits(key, 10) <=> key \in {"utxo_cost_per_byte", "utxoCostPerByte"}
BY DEF Declared, Field, Fits

\* A key is of the last field it is an alias of.
LEMMA FieldAt ==
    ASSUME NEW key, NEW last \in 1 .. 10, Fits(key, last),
           \A i \in 1 .. 10 : i > last => ~Fits(key, i)
    PROVE  FieldOf(key) = Declared[last].name
<1> DEFINE fits == {i \in DOMAIN Declared : Fits(key, i)}
<1>1. fits \subseteq Nat /\ last \in fits /\ \A i \in fits : i <= last
    BY DeclaredPlaces
<1> HIDE DEF fits
<1>2. LastName(fits) = Declared[last].name
    BY <1>1, LastIs
<1> QED  BY <1>2 DEF FieldOf, fits, Fits

\* Whose keys those of the reports and of the saved form are.
LEMMA FieldsOfKeys ==
    /\ FieldOf("costModels") = "cost_models" /\ FieldOf("cost_models") = "cost_models"
    /\ FieldOf("cost_models_raw") = "cost_models"
    /\ FieldOf("executionUnitPrices") = "execution_unit_prices"
    /\ FieldOf("min_fee_a") = "min_fee_coefficient"
    /\ FieldOf("minFeeRefScriptCostPerByte") = "min_fee_ref_script_cost_per_byte"
    /\ FieldOf("min_fee_ref_script_cost_per_byte") = "min_fee_ref_script_cost_per_byte"
    /\ FieldOf("min_utxo") = "min_utxo" /\ FieldOf("txFeePerByte") = "tx_fee_per_byte"
    /\ FieldOf("price_mem") = "price_mem"
    /\ FieldOf("executionUnitPricesPriceMemory") = "price_mem"
    /\ FieldOf("coins_per_utxo_word") = "coins_per_utxo_word"
    /\ FieldOf("coinsPerUtxoWord") = "coins_per_utxo_word"
    /\ FieldOf("coins_per_utxo_size") = "coins_per_utxo_byte"
    /\ FieldOf("coinsPerUtxoByte") = "coins_per_utxo_byte"
    /\ FieldOf("utxoCostPerByte") = "utxo_cost_per_byte"
<1>1. ASSUME NEW key, NEW last \in 1 .. 10, Fits(key, last),
             last < 10 => ~Fits(key, 10), last < 9 => ~Fits(key, 9), last < 8 => ~Fits(key, 8),
             last < 7 => ~Fits(key, 7), last < 6 => ~Fits(key, 6), last < 5 => ~Fits(key, 5),
             last < 4 => ~Fits(key, 4), last < 3 => ~Fits(key, 3), last < 2 => ~Fits(key, 2)
      PROVE  FieldOf(key) = Declared[last].name
    <2>1. ASSUME NEW i \in 1 .. 10, i > last
          PROVE  ~Fits(key, i)
        BY <1>1, <2>1
    <2> QED  BY <1>1, <2>1, FieldAt
<1>2. FieldOf("costModels") = "cost_models" /\ FieldOf("cost_models") = "cost_models"
      /\ FieldOf("cost_models_raw") = "cost_models"
    BY <1>1, DeclaredAliases, DeclaredNames
<1>3. FieldOf("executionUnitPrices") = "execution_unit_prices"
      /\ FieldOf("min_fee_a") = "min_fee_coefficient"
    BY <1>1, DeclaredAliases, DeclaredNames
<1>4. FieldOf("minFeeRefScriptCostPerByte") = "min_fee_ref_script_cost_per_byte"
      /\ FieldOf("min_fee_ref_script_cost_per_byte") = "min_fee_ref_script_cost_per_byte"
    BY <1>1, DeclaredAliases, DeclaredNames
<1>5. FieldOf("min_utxo") = "min_utxo" /\ FieldOf("txFeePerByte") = "tx_fee_per_byte"
    BY <1>1, DeclaredAliases, DeclaredNames
<1>6. FieldOf("price_mem") = "price_mem" /\ FieldOf("executionUnitPricesPriceMemory") = "price_mem"
    BY <1>1, DeclaredAliases, DeclaredNames
<1>7. FieldOf("coins_per_utxo_word") = "coins_per_utxo_word"
      /\ FieldOf("coinsPerUtxoWord") = "coins_per_utxo_word"
    BY <1>1, DeclaredAliases, DeclaredNames
<1>8. FieldOf("coins_per_utxo_size") = "coins_per_utxo_byte"
      /\ FieldOf("coinsPerUtxoByte") = "coins_per_utxo_byte"
      /\ FieldOf("utxoCostPerByte") = "utxo_cost_per_byte"
    BY <1>1, DeclaredAliases, DeclaredNames
<1> QED  BY <1>2, <1>3, <1>4, <1>5, <1>6, <1>7, <1>8

-----------------------------------------------------------------------------
(***************************************************************************)
(* What a field will have when every key is read, d being the keys still   *)
(* unread and a what has been read.                                        *)
(***************************************************************************)
Has(a, field) == field \in DOMAIN a /\ a[field] # None

\* One of the values.
Comes(d, a, field, values) ==
    /\ Has(a, field) => a[field] \in values
    /\ \A i \in d : FieldOf(i.key) = field => i.value = None \/ Decoded(field, i.value) \in values
    /\ Has(a, field) \/ \E i \in d : FieldOf(i.key) = field /\ i.value # None

\* None, whether a key says so or no key is about it.
Lacks(d, a, field) ==
    /\ ~Has(a, field)
    /\ \A i \in d : FieldOf(i.key) = field => i.value = None

\* A key says so.
Named(d, a, field) ==
    field \in DOMAIN a \/ \E i \in d : FieldOf(i.key) = field

\* A value is not None.
LEMMA ValuesAreSome ==
    ASSUME NEW n \in Nat, NEW order \in {"ledger", "named"}
    PROVE  /\ Number(n) # None /\ Exact(n) # None /\ Costs(order) # None
           /\ Within(Number(n)) # None /\ Within(Exact(n)) # None
           /\ Text(Exact(n)) # None /\ Within(Text(Exact(n))) # None
<1>1. Number(n) \in Scalars /\ Exact(n) \in Scalars /\ [as |-> "text", of |-> n] \in Scalars
    BY DEF Scalars, Number, Exact
<1>2. Exact(n) # None
    BY <1>1, ValuesAssumption DEF Values
<1>3. Text(Exact(n)) = [as |-> "text", of |-> n]
    BY <1>2 DEF Text, Exact
<1> QED  BY <1>1, <1>3, ValuesAssumption DEF Values, Within, Costs

\* What is decoded of a null is null.
LEMMA NoneStays ==
    ASSUME NEW field
    PROVE  Decoded(field, None) = None
BY DEF Decoded, Plain

\* A key that is read changes its own field only.
LEMMA ReadingOne ==
    ASSUME NEW item \in unread, unread' = unread \ {item}, KeyRead(item), NEW field
    PROVE  /\ FieldOf(item.key) # field =>
                /\ field \in DOMAIN args' <=> field \in DOMAIN args
                /\ field \in DOMAIN args => args'[field] = args[field]
           /\ FieldOf(item.key) = field =>
                /\ field \in DOMAIN args'
                /\ item.value # None => args'[field] = Decoded(field, item.value)
                /\ item.value = None =>
                      args'[field] = IF Has(args, field) THEN args[field] ELSE None
<1>1. CASE item.value = None /\ Given(FieldOf(item.key))
    BY <1>1 DEF KeyRead, Given, Has
<1>2. CASE ~(item.value = None /\ Given(FieldOf(item.key)))
    <2>1. args' = [f \in DOMAIN args \cup {FieldOf(item.key)} |->
                     IF f = FieldOf(item.key) THEN Decoded(FieldOf(item.key), item.value)
                     ELSE args[f]]
        BY <1>2 DEF KeyRead
    <2> QED  BY <1>2, <2>1, NoneStays DEF Given, Has
<1> QED  BY <1>1, <1>2

\* In whatever order the keys are read, a field comes to what it was to come to.
LEMMA ReadingKeeps ==
    ASSUME NEW item \in unread, unread' = unread \ {item}, KeyRead(item), NEW field, NEW values,
           None \notin values
    PROVE  /\ Comes(unread, args, field, values) => Comes(unread', args', field, values)
           /\ Lacks(unread, args, field) => Lacks(unread', args', field)
           /\ Named(unread, args, field) => Named(unread', args', field)
<1>1. /\ FieldOf(item.key) # field =>
           /\ field \in DOMAIN args' <=> field \in DOMAIN args
           /\ field \in DOMAIN args => args'[field] = args[field]
      /\ FieldOf(item.key) = field =>
           /\ field \in DOMAIN args'
           /\ item.value # None => args'[field] = Decoded(field, item.value)
           /\ item.value = None => args'[field] = IF Has(args, field) THEN args[field] ELSE None
    BY ReadingOne
<1>2. ASSUME Comes(unread, args, field, values)
      PROVE  Comes(unread', args', field, values)
    <2>1. CASE FieldOf(item.key) # field
        BY <1>1, <1>2, <2>1 DEF Comes, Has
    <2>2. CASE FieldOf(item.key) = field /\ item.value = None
        BY <1>1, <1>2, <2>2 DEF Comes, Has
    <2>3. CASE FieldOf(item.key) = field /\ item.value # None
        BY <1>1, <1>2, <2>3 DEF Comes, Has
    <2> QED  BY <2>1, <2>2, <2>3
<1>3. ASSUME Lacks(unread, args, field)
      PROVE  Lacks(unread', args', field)
    BY <1>1, <1>3 DEF Lacks, Has
<1>4. ASSUME Named(unread, args, field)
      PROVE  Named(unread', args', field)
    BY <1>1, <1>4 DEF Named
<1> QED  BY <1>2, <1>3, <1>4

-----------------------------------------------------------------------------
(***************************************************************************)
(* What there is to come to, by the service that reported and the number   *)
(* of times the object was saved.                                          *)
(***************************************************************************)
Fee == Number(Reported.fee)
PerByte == Number(Reported.perByte)
RefScript == Number(Reported.refScript)
Price(s, n) == IF s = "ogmios" /\ n = 0 THEN Exact(Reported.price) ELSE Number(Reported.price)
Due(s) == Costs(IF s = "yaci" THEN "named" ELSE "ledger")

FeeComes(d, a) ==
    /\ \/ Comes(d, a, "min_fee_coefficient", {Fee})
       \/ Lacks(d, a, "min_fee_coefficient") /\ Comes(d, a, "tx_fee_per_byte", {Fee})
    /\ Lacks(d, a, "tx_fee_per_byte") \/ Comes(d, a, "tx_fee_per_byte", {Fee})

PriceComes(d, a, price) ==
    \/ /\ Comes(d, a, "price_mem", {price})
       /\ \/ Lacks(d, a, "execution_unit_prices")
          \/ Comes(d, a, "execution_unit_prices", {Within(price)})
    \/ /\ Lacks(d, a, "price_mem")
       /\ Comes(d, a, "execution_unit_prices", {Within(price)})

\* Under one of the names, or computed from what a word costs.
PerByteComes(d, a) ==
    \/ Comes(d, a, "coins_per_utxo_byte", {PerByte})
    \/ /\ Lacks(d, a, "coins_per_utxo_byte") \/ Comes(d, a, "coins_per_utxo_byte", {Number(0)})
       /\ Comes(d, a, "utxo_cost_per_byte", {PerByte})
    \/ /\ Lacks(d, a, "coins_per_utxo_byte") /\ Named(d, a, "coins_per_utxo_byte")
       /\ Lacks(d, a, "utxo_cost_per_byte")
       /\ Comes(d, a, "coins_per_utxo_word", {Word})

RefScriptComes(d, a) ==
    Comes(d, a, "min_fee_ref_script_cost_per_byte", {RefScript, Within(RefScript)})

RawCosts == Entry("cost_models_raw", Costs("ledger"))

\* The raw ones are read last, over the named ones.
CostsCome(d, a, s, n) ==
    \/ Comes(d, a, "cost_models", {Due(s)})
    \/ s = "blockfrost" /\ n = 0 /\ RawCosts \in d

MinUtxoComes(d, a, n) ==
    IF n = 0 THEN Comes(d, a, "min_utxo", {Word}) ELSE Lacks(d, a, "min_utxo")

ReadingInv ==
    /\ FeeComes(unread, args)
    /\ PriceComes(unread, args, Price(service, saves))
    /\ PerByteComes(unread, args)
    /\ service \in {"cli", "koios", "ogmios"} => RefScriptComes(unread, args)
    /\ CostsCome(unread, args, service, saves)
    /\ saves = 0 => unread \subseteq Report(service)
    /\ service = "blockfrost" => MinUtxoComes(unread, args, saves)

ObjectInv ==
    /\ DOMAIN params = Names
    /\ params["min_fee_coefficient"] = Fee /\ params["tx_fee_per_byte"] \in {None, Fee}
    /\ params["price_mem"] = Price(service, saves)
    /\ params["execution_unit_prices"] = Within(Price(service, saves))
    /\ \/ params["coins_per_utxo_byte"] = PerByte
       \/ params["coins_per_utxo_byte"] = Number(0) /\ params["utxo_cost_per_byte"] = PerByte
    /\ service \in {"cli", "koios", "ogmios"} =>
           params["min_fee_ref_script_cost_per_byte"] \in {RefScript, Within(RefScript)}
    /\ params["cost_models"] = Due(service)
    /\ service = "blockfrost" => params["min_utxo"] = IF saves = 0 THEN Word ELSE None

\* What is held, at each stage, are values.
CodecTypeOK ==
    /\ service \in Services /\ saves \in Nat
    /\ \A i \in unread : i.value \in Values \cup {None}
    /\ \A f \in DOMAIN args : args[f] \in Values \cup {None}
    /\ params \in {None} \cup [Names -> Values \cup {None}]

CodecInv ==
    /\ CodecTypeOK
    /\ params = None => ReadingInv
    /\ params # None => ObjectInv /\ unread = {} /\ args = NoArgs

\* Nor is what is due.
LEMMA DueAreSome ==
    ASSUME NEW s, NEW n
    PROVE  /\ None \notin {Fee} /\ None \notin {PerByte} /\ None \notin {Number(0)}
           /\ None \notin {Word} /\ None \notin {RefScript, Within(RefScript)}
           /\ None \notin {Due(s)} /\ None \notin {Price(s, n)} /\ None \notin {Within(Price(s, n))}
<1>1. /\ Reported.fee \in Nat /\ Reported.price \in Nat /\ Reported.perByte \in Nat
      /\ Reported.refScript \in Nat /\ 8 * Reported.perByte + 5 \in Nat
    BY DEF Reported
<1> QED  BY <1>1, ValuesAreSome DEF Fee, PerByte, Word, RefScript, Due, Price

\* Reading a key keeps what there is to come to.  Only of the cost models it must be known
\* that the raw ones are still to come, or were read last.
LEMMA ReadKeyKeeps ==
    ASSUME CodecInv, ReadKey, params = None
    PROVE  ReadingInv'
<1>1. PICK item \in unread :
           /\ item.key = "cost_models_raw" => \A i \in unread : i.key # "cost_models"
           /\ unread' = unread \ {item}
           /\ KeyRead(item)
    BY DEF ReadKey
<1>2. UNCHANGED <<service, params, saves>>
    BY DEF ReadKey
<1>3. ReadingInv
    BY DEF CodecInv
<1>4. ASSUME NEW field, NEW values, None \notin values
      PROVE  /\ Comes(unread, args, field, values) => Comes(unread', args', field, values)
             /\ Lacks(unread, args, field) => Lacks(unread', args', field)
             /\ Named(unread, args, field) => Named(unread', args', field)
    BY <1>1, <1>4, ReadingKeeps
<1>5. ASSUME NEW field
      PROVE  /\ Lacks(unread, args, field) => Lacks(unread', args', field)
             /\ Named(unread, args, field) => Named(unread', args', field)
    BY <1>4, None \notin {}
<1> DEFINE price == Price(service, saves)
<1>6. /\ None \notin {Fee} /\ None \notin {PerByte} /\ None \notin {Number(0)}
      /\ None \notin {Word} /\ None \notin {RefScript, Within(RefScript)}
      /\ None \notin {Due(service)} /\ None \notin {price} /\ None \notin {Within(price)}
    BY DueAreSome
<1>7. FeeComes(unread', args')
    <2>1. Comes(unread, args, "min_fee_coefficient", {Fee})
             => Comes(unread', args', "min_fee_coefficient", {Fee})
        BY <1>4, <1>6
    <2>2. Comes(unread, args, "tx_fee_per_byte", {Fee})
             => Comes(unread', args', "tx_fee_per_byte", {Fee})
        BY <1>4, <1>6
    <2> QED  BY <1>3, <1>5, <2>1, <2>2 DEF ReadingInv, FeeComes
<1>8. PriceComes(unread', args', price)
    <2>1. Comes(unread, args, "price_mem", {price}) => Comes(unread', args', "price_mem", {price})
        BY <1>4, <1>6
    <2>2. Comes(unread, args, "execution_unit_prices", {Within(price)})
             => Comes(unread', args', "execution_unit_prices", {Within(price)})
        BY <1>4, <1>6
    <2>3. PriceComes(unread, args, price)
        BY <1>3 DEF ReadingInv
    <2> HIDE DEF price
    <2> QED  BY <1>5, <2>1, <2>2, <2>3 DEF PriceComes
<1>9. PerByteComes(unread', args')
    <2>1. Comes(unread, args, "coins_per_utxo_byte", {PerByte})
             => Comes(unread', args', "coins_per_utxo_byte", {PerByte})
        BY <1>4, <1>6
    <2>2. Comes(unread, args, "coins_per_utxo_byte", {Number(0)})
             => Comes(unread', args', "coins_per_utxo_byte", {Number(0)})
        BY <1>4, <1>6
    <2>3. Comes(unread, args, "utxo_cost_per_byte", {PerByte})
             => Comes(unread', args', "utxo_cost_per_byte", {PerByte})
        BY <1>4, <1>6
    <2>4. Comes(unread, args, "coins_per_utxo_word", {Word})
             => Comes(unread', args', "coins_per_utxo_word", {Word})
        BY <1>4, <1>6
    <2> QED  BY <1>3, <1>5, <2>1, <2>2, <2>3, <2>4 DEF ReadingInv, PerByteComes
<1>10. service \in {"cli", "koios", "ogmios"} => RefScriptComes(unread', args')
    BY <1>3, <1>4, <1>6 DEF ReadingInv, RefScriptComes
<1>11. CostsCome(unread', args', service, saves)
    <2>1. CASE Comes(unread, args, "cost_models", {Due(service)})
        BY <1>4, <1>6, <2>1 DEF CostsCome
    <2>2. CASE service = "blockfrost" /\ saves = 0 /\ RawCosts \in unread /\ item # RawCosts
        BY <1>1, <2>2 DEF CostsCome
    <2>3. CASE service = "blockfrost" /\ saves = 0 /\ RawCosts \in unread /\ item = RawCosts
        <3>1. \A i \in unread : i.key # "cost_models" /\ i \in Report("blockfrost")
            BY <1>1, <1>3, <2>3 DEF RawCosts, Entry, ReadingInv
        <3>2. \A i \in unread' : FieldOf(i.key) # "cost_models"
            BY <1>1, <2>3, <3>1, FieldsOfKeys DEF Report, RawCosts, Entry
        <3>3. item.value = Due(service) /\ FieldOf(item.key) = "cost_models"
            BY <2>3, FieldsOfKeys DEF RawCosts, Entry, Due
        <3>4. item.value # None /\ Decoded("cost_models", item.value) = Due(service)
            BY <1>6, <3>3 DEF Decoded, Plain, Due, Costs
        <3>5. "cost_models" \in DOMAIN args' /\ args'["cost_models"] = Due(service)
            BY <1>1, <3>3, <3>4, ReadingOne
        <3> QED  BY <1>6, <3>2, <3>5 DEF CostsCome, Comes, Has
    <2> QED  BY <1>3, <2>1, <2>2, <2>3 DEF ReadingInv, CostsCome
<1>12. service = "blockfrost" => MinUtxoComes(unread', args', saves)
    BY <1>3, <1>4, <1>5, <1>6 DEF ReadingInv, MinUtxoComes
<1>13. saves = 0 => unread' \subseteq Report(service)
    BY <1>1, <1>3 DEF ReadingInv
<1> QED  BY <1>2, <1>7, <1>8, <1>9, <1>10, <1>11, <1>12, <1>13 DEF ReadingInv

-----------------------------------------------------------------------------
(***************************************************************************)
(* Each report comes to what is due.                                       *)
(***************************************************************************)
\* A number is decoded as it is, and so is a dictionary around one, except that of the price
\* of reference scripts, which is the number in it.
LEMMA NumbersDecoded ==
    ASSUME NEW field, NEW n \in Nat, NEW order \in {"ledger", "named"}
    PROVE  /\ Decoded(field, Number(n)) = Number(n) /\ Decoded(field, Costs(order)) = Costs(order)
           /\ field # "min_fee_ref_script_cost_per_byte" =>
                 Decoded(field, Within(Number(n))) = Within(Number(n))
           /\ Decoded("min_fee_ref_script_cost_per_byte", Within(Number(n))) = Number(n)
<1>1. /\ Number(n).as = "number" /\ Costs(order).as = "costs"
      /\ Within(Number(n)).as = "dict" /\ Within(Number(n)).of = Number(n)
    BY DEF Number, Costs, Within
<1>2. Number(n) # None /\ Costs(order) # None /\ Within(Number(n)) # None
    BY ValuesAreSome
<1>3. Plain(Number(n)) = Number(n) /\ Plain(Costs(order)) = Costs(order)
    BY <1>1 DEF Plain
<1> QED  BY <1>1, <1>2, <1>3 DEF Decoded

LEMMA ReportedAreNumbers ==
    /\ Reported.fee \in Nat /\ Reported.price \in Nat /\ Reported.perByte \in Nat
    /\ Reported.refScript \in Nat /\ 8 * Reported.perByte + 5 \in Nat
BY DEF Reported

\* What a dictionary says under a key, and under no other key of the same field.
Says(d, key, value) ==
    /\ Entry(key, value) \in d
    /\ \A i \in d : FieldOf(i.key) = FieldOf(key) => i.value \in {None, value}

\* A field that one key of a dictionary is about comes to what that key says.
LEMMA OneKey ==
    ASSUME NEW d, NEW key, NEW value, Says(d, key, value), value # None,
           NEW field, field = FieldOf(key), Decoded(field, value) = value
    PROVE  Comes(d, NoArgs, field, {value})
<1>1. ~Has(NoArgs, field)
    BY DEF Has, NoArgs
<1>2. Entry(key, value).key = key /\ Entry(key, value).value = value
    BY DEF Entry
<1>3. \A i \in d : FieldOf(i.key) = field
                     => i.value = None \/ Decoded(field, i.value) \in {value}
    BY DEF Says
<1> QED  BY <1>1, <1>2, <1>3 DEF Comes, Says

\* A field that no key is about comes to None.
LEMMA NoKey ==
    ASSUME NEW d, NEW field, \A i \in d : FieldOf(i.key) = field => i.value = None
    PROVE  Lacks(d, NoArgs, field)
BY DEF Lacks, Has, NoArgs

\* What a service reports comes to what is due: each field that matters is said under one
\* key, or under none.
LEMMA InitReports ==
    ASSUME CodecInit, service # "ogmios"
    PROVE  ReadingInv
<1> DEFINE price == Number(Reported.price)
<1>1. /\ unread = Report(service) /\ args = NoArgs /\ saves = 0
      /\ service \in {"cli", "koios", "blockfrost", "yaci", "alonzo"}
    BY DEF CodecInit, Services
<1>2. /\ \A field : /\ Decoded(field, Fee) = Fee /\ Decoded(field, PerByte) = PerByte
                     /\ Decoded(field, RefScript) = RefScript /\ Decoded(field, Word) = Word
                     /\ Decoded(field, price) = price
                     /\ \A o \in {"ledger", "named"} : Decoded(field, Costs(o)) = Costs(o)
      /\ Decoded("execution_unit_prices", Within(price)) = Within(price)
    BY ReportedAreNumbers, NumbersDecoded DEF Fee, PerByte, RefScript, Word
<1>3. /\ Fee # None /\ PerByte # None /\ RefScript # None /\ Word # None /\ price # None
      /\ Within(price) # None /\ Costs("ledger") # None /\ Costs("named") # None
    BY ReportedAreNumbers, ValuesAreSome DEF Fee, PerByte, RefScript, Word
<1>4. Price(service, saves) = price
    BY <1>1 DEF Price
<1> HIDE DEF price
<1>5. CASE service = "cli"
    <2>1. unread = {Entry("txFeePerByte", Fee), Entry("utxoCostPerByte", PerByte),
                    Entry("executionUnitPrices", Within(price)),
                    Entry("costModels", Costs("ledger")),
                    Entry("minFeeRefScriptCostPerByte", RefScript)}
        BY <1>1, <1>5 DEF Report, Fee, PerByte, RefScript, price
    <2>2. /\ Says(unread, "txFeePerByte", Fee)
          /\ Says(unread, "utxoCostPerByte", PerByte)
          /\ Says(unread, "executionUnitPrices", Within(price))
          /\ Says(unread, "costModels", Costs("ledger"))
          /\ Says(unread, "minFeeRefScriptCostPerByte", RefScript)
        BY <2>1, FieldsOfKeys DEF Says, Entry
    <2>3. /\ Comes(unread, args, "tx_fee_per_byte", {Fee})
          /\ Comes(unread, args, "utxo_cost_per_byte", {PerByte})
          /\ Comes(unread, args, "execution_unit_prices", {Within(price)})
          /\ Comes(unread, args, "cost_models", {Costs("ledger")})
          /\ Comes(unread, args, "min_fee_ref_script_cost_per_byte", {RefScript})
        BY <1>1, <1>2, <1>3, <2>2, FieldsOfKeys, OneKey
    <2>4. /\ Lacks(unread, args, "min_fee_coefficient")
          /\ Lacks(unread, args, "price_mem")
          /\ Lacks(unread, args, "coins_per_utxo_byte")
        BY <1>1, <2>1, FieldsOfKeys, NoKey DEF Entry
    <2>5. RefScriptComes(unread, args)
        BY <2>3 DEF RefScriptComes, Comes
    <2> QED  BY <1>1, <1>4, <1>5, <2>3, <2>4, <2>5
             DEF ReadingInv, FeeComes, PriceComes, PerByteComes, CostsCome, Due
<1>6. CASE service = "koios"
    <2>1. unread = {Entry("min_fee_a", Fee), Entry("coins_per_utxo_size", PerByte),
                    Entry("price_mem", price), Entry("cost_models", Costs("ledger")),
                    Entry("min_fee_ref_script_cost_per_byte", RefScript)}
        BY <1>1, <1>6 DEF Report, Fee, PerByte, RefScript, price
    <2>2. /\ Says(unread, "min_fee_a", Fee)
          /\ Says(unread, "coins_per_utxo_size", PerByte)
          /\ Says(unread, "price_mem", price)
          /\ Says(unread, "cost_models", Costs("ledger"))
          /\ Says(unread, "min_fee_ref_script_cost_per_byte", RefScript)
        BY <2>1, FieldsOfKeys DEF Says, Entry
    <2>3. /\ Comes(unread, args, "min_fee_coefficient", {Fee})
          /\ Comes(unread, args, "coins_per_utxo_byte", {PerByte})
          /\ Comes(unread, args, "price_mem", {price})
          /\ Comes(unread, args, "cost_models", {Costs("ledger")})
          /\ Comes(unread, args, "min_fee_ref_script_cost_per_byte", {RefScript})
        BY <1>1, <1>2, <1>3, <2>2, FieldsOfKeys, OneKey
    <2>4. /\ Lacks(unread, args, "tx_fee_per_byte")
          /\ Lacks(unread, args, "execution_unit_prices")
        BY <1>1, <2>1, FieldsOfKeys, NoKey DEF Entry
    <2>5. RefScriptComes(unread, args)
        BY <2>3 DEF RefScriptComes, Comes
    <2> QED  BY <1>1, <1>4, <1>6, <2>3, <2>4, <2>5
             DEF ReadingInv, FeeComes, PriceComes, PerByteComes, CostsCome, Due
<1>7. CASE service = "blockfrost"
    <2>1. unread = {Entry("min_fee_a", Fee), Entry("min_utxo", Word),
                    Entry("coins_per_utxo_size", PerByte), Entry("coins_per_utxo_word", PerByte),
                    Entry("price_mem", price), Entry("cost_models", Costs("named")), RawCosts}
        BY <1>1, <1>7 DEF Report, Fee, PerByte, RefScript, price, RawCosts
    <2>2. /\ Says(unread, "min_fee_a", Fee)
          /\ Says(unread, "min_utxo", Word)
          /\ Says(unread, "coins_per_utxo_size", PerByte)
          /\ Says(unread, "price_mem", price)
        BY <2>1, FieldsOfKeys DEF Says, Entry, RawCosts
    <2>3. /\ Comes(unread, args, "min_fee_coefficient", {Fee})
          /\ Comes(unread, args, "min_utxo", {Word})
          /\ Comes(unread, args, "coins_per_utxo_byte", {PerByte})
          /\ Comes(unread, args, "price_mem", {price})
        BY <1>1, <1>2, <1>3, <2>2, FieldsOfKeys, OneKey
    <2>4. /\ Lacks(unread, args, "tx_fee_per_byte")
          /\ Lacks(unread, args, "execution_unit_prices")
        BY <1>1, <2>1, FieldsOfKeys, NoKey DEF Entry, RawCosts
    <2> QED  BY <1>1, <1>4, <1>7, <2>1, <2>3, <2>4
             DEF ReadingInv, FeeComes, PriceComes, PerByteComes, CostsCome, MinUtxoComes
<1>8. CASE service = "yaci"
    <2>1. unread = {Entry("min_fee_a", Fee), Entry("coins_per_utxo_size", PerByte),
                    Entry("price_mem", price), Entry("cost_models", Costs("named")),
                    Entry("cost_models_raw", None)}
        BY <1>1, <1>8 DEF Report, Fee, PerByte, RefScript, price
    <2>2. /\ Says(unread, "min_fee_a", Fee)
          /\ Says(unread, "coins_per_utxo_size", PerByte)
          /\ Says(unread, "price_mem", price)
          /\ Says(unread, "cost_models", Costs("named"))
        BY <2>1, FieldsOfKeys DEF Says, Entry
    <2>3. /\ Comes(unread, args, "min_fee_coefficient", {Fee})
          /\ Comes(unread, args, "coins_per_utxo_byte", {PerByte})
          /\ Comes(unread, args, "price_mem", {price})
          /\ Comes(unread, args, "cost_models", {Costs("named")})
        BY <1>1, <1>2, <1>3, <2>2, FieldsOfKeys, OneKey
    <2>4. /\ Lacks(unread, args, "tx_fee_per_byte")
          /\ Lacks(unread, args, "execution_unit_prices")
        BY <1>1, <2>1, FieldsOfKeys, NoKey DEF Entry
    <2> QED  BY <1>1, <1>4, <1>8, <2>3, <2>4
             DEF ReadingInv, FeeComes, PriceComes, PerByteComes, CostsCome, Due
<1>9. CASE service = "alonzo"
    <2>1. unread = {Entry("min_fee_a", Fee), Entry("coins_per_utxo_word", Word),
                    Entry("coins_per_utxo_size", None), Entry("price_mem", price),
                    Entry("cost_models", Costs("ledger"))}
        BY <1>1, <1>9 DEF Report, Fee, PerByte, RefScript, price
    <2>2. /\ Says(unread, "min_fee_a", Fee)
          /\ Says(unread, "coins_per_utxo_word", Word)
          /\ Says(unread, "price_mem", price)
          /\ Says(unread, "cost_models", Costs("ledger"))
        BY <2>1, FieldsOfKeys DEF Says, Entry
    <2>3. /\ Comes(unread, args, "min_fee_coefficient", {Fee})
          /\ Comes(unread, args, "coins_per_utxo_word", {Word})
          /\ Comes(unread, args, "price_mem", {price})
          /\ Comes(unread, args, "cost_models", {Costs("ledger")})
        BY <1>1, <1>2, <1>3, <2>2, FieldsOfKeys, OneKey
    <2>4. /\ Lacks(unread, args, "tx_fee_per_byte")
          /\ Lacks(unread, args, "execution_unit_prices")
          /\ Lacks(unread, args, "utxo_cost_per_byte")
          /\ Lacks(unread, args, "coins_per_utxo_byte")
        BY <1>1, <2>1, FieldsOfKeys, NoKey DEF Entry
    <2>5. Named(unread, args, "coins_per_utxo_byte")
        BY <2>1, FieldsOfKeys DEF Named, Entry
    <2> QED  BY <1>1, <1>4, <1>9, <2>3, <2>4, <2>5
             DEF ReadingInv, FeeComes, PriceComes, PerByteComes, CostsCome, Due
<1> QED  BY <1>1, <1>5, <1>6, <1>7, <1>8, <1>9

\* Ogmios' context gives the arguments by field.
LEMMA InitArguments ==
    ASSUME CodecInit, service = "ogmios"
    PROVE  ReadingInv
<1>1. unread = {} /\ args = OgmiosArgs /\ saves = 0
    BY DEF CodecInit, Report
<1>2. None \notin {Fee} /\ None \notin {PerByte} /\ None \notin {Word}
      /\ None \notin {RefScript, Within(RefScript)} /\ None \notin {Due(service)}
      /\ None \notin {Price(service, saves)}
    BY DueAreSome
<1>3. /\ args["min_fee_coefficient"] = Fee /\ args["coins_per_utxo_byte"] = PerByte
      /\ args["price_mem"] = Price(service, saves) /\ args["cost_models"] = Due(service)
      /\ args["min_fee_ref_script_cost_per_byte"] = Within(RefScript)
    BY <1>1 DEF OgmiosArgs, Fee, PerByte, Price, Due, RefScript
<1>4. /\ {"min_fee_coefficient", "coins_per_utxo_byte", "price_mem", "cost_models",
          "min_fee_ref_script_cost_per_byte"} \subseteq DOMAIN args
      /\ "tx_fee_per_byte" \notin DOMAIN args /\ "execution_unit_prices" \notin DOMAIN args
    BY <1>1 DEF OgmiosArgs
<1>5. FeeComes(unread, args)
    BY <1>1, <1>2, <1>3, <1>4 DEF FeeComes, Comes, Lacks, Has
<1>6. PriceComes(unread, args, Price(service, saves))
    BY <1>1, <1>2, <1>3, <1>4 DEF PriceComes, Comes, Lacks, Has
<1>7. PerByteComes(unread, args)
    BY <1>1, <1>2, <1>3, <1>4 DEF PerByteComes, Comes, Has
<1>8. RefScriptComes(unread, args)
    BY <1>1, <1>2, <1>3, <1>4 DEF RefScriptComes, Comes, Has
<1>9. CostsCome(unread, args, service, saves)
    BY <1>1, <1>2, <1>3, <1>4 DEF CostsCome, Comes, Has
<1> QED  BY <1>1, <1>5, <1>6, <1>7, <1>8, <1>9 DEF ReadingInv

-----------------------------------------------------------------------------
(***************************************************************************)
(* The object has what its arguments came to, and what they imply.         *)
(***************************************************************************)
Of(o, field) ==
    IF field \in DOMAIN o THEN o[field]
    ELSE IF field \in DOMAIN Defaults THEN Defaults[field] ELSE None

\* The names of the fields.
LEMMA NamesAre ==
    Names = {"cost_models", "execution_unit_prices", "min_fee_coefficient",
             "min_fee_ref_script_cost_per_byte", "min_utxo", "tx_fee_per_byte", "price_mem",
             "coins_per_utxo_word", "coins_per_utxo_byte", "utxo_cost_per_byte"}
<1>1. Names = {Declared[i].name : i \in 1 .. 10}
    BY DeclaredPlaces DEF Names
<1> QED  BY <1>1, DeclaredNames

\* The object, field by field.
LEMMA CompletedIs ==
    ASSUME NEW o
    PROVE  /\ DOMAIN Completed(o) = Names
           /\ \A f \in {"cost_models", "min_fee_ref_script_cost_per_byte", "min_utxo",
                        "tx_fee_per_byte", "coins_per_utxo_word", "utxo_cost_per_byte"} :
                 Completed(o)[f] = Of(o, f)
           /\ Completed(o)["execution_unit_prices"] =
                 IF Of(o, "execution_unit_prices") = None THEN Within(Of(o, "price_mem"))
                 ELSE Of(o, "execution_unit_prices")
           /\ Completed(o)["price_mem"] =
                 IF Of(o, "price_mem") = None /\ Of(o, "execution_unit_prices") # None
                 THEN Of(o, "execution_unit_prices").of ELSE Of(o, "price_mem")
           /\ Completed(o)["coins_per_utxo_byte"] =
                 IF Of(o, "coins_per_utxo_byte") # None THEN Of(o, "coins_per_utxo_byte")
                 ELSE IF Of(o, "utxo_cost_per_byte") # None THEN Of(o, "utxo_cost_per_byte")
                 ELSE IF Of(o, "coins_per_utxo_word") # None
                 THEN Number(Of(o, "coins_per_utxo_word").of \div 8) ELSE None
           /\ Completed(o)["min_fee_coefficient"] =
                 IF Of(o, "min_fee_coefficient") = None THEN Of(o, "tx_fee_per_byte")
                 ELSE Of(o, "min_fee_coefficient")
BY NamesAre DEF Completed, Of

\* When every key is read, a field has what it came to.
LEMMA AllRead ==
    ASSUME NEW a, NEW field
    PROVE  /\ \A values : Comes({}, a, field, values) => Of(a, field) \in values
           /\ Lacks({}, a, field) => Of(a, field) \in {None} \cup
                 {Defaults[f] : f \in DOMAIN Defaults \cap {field}}
           /\ Lacks({}, a, field) /\ field \notin DOMAIN Defaults => Of(a, field) = None
           /\ Lacks({}, a, field) /\ Named({}, a, field) => Of(a, field) = None
BY DEF Comes, Lacks, Named, Of, Has

\* Either name of the fee, either shape of the price and either unit of the deposit give the
\* object what was reported.
LEMMA ConstructCompletes ==
    ASSUME CodecInv, Construct
    PROVE  ObjectInv'
<1>1. /\ params = None /\ unread = {} /\ params' = Completed(args)
      /\ UNCHANGED <<service, saves>> /\ ReadingInv
    BY DEF Construct, CodecInv
<1> DEFINE price == Price(service, saves)
           o == Completed(args)
<1>2. /\ DOMAIN Defaults = {"coins_per_utxo_byte", "coins_per_utxo_word"}
      /\ Defaults["coins_per_utxo_byte"] = Number(0)
    BY DEF Defaults
<1>3. /\ Fee # None /\ PerByte # None /\ Number(0) # None /\ Word # None
      /\ price # None /\ Within(price) # None /\ Within(price).of = price
    BY DueAreSome DEF Within
<1> HIDE DEF price
<1>4. o["min_fee_coefficient"] = Fee /\ o["tx_fee_per_byte"] \in {None, Fee}
    <2>1. FeeComes({}, args)
        BY <1>1 DEF ReadingInv
    <2>2. \/ Of(args, "min_fee_coefficient") = Fee
          \/ Of(args, "min_fee_coefficient") = None /\ Of(args, "tx_fee_per_byte") = Fee
        BY <1>2, <2>1, AllRead DEF FeeComes
    <2>3. Of(args, "tx_fee_per_byte") \in {None, Fee}
        BY <1>2, <2>1, AllRead DEF FeeComes
    <2> QED  BY <1>3, <2>2, <2>3, CompletedIs
<1>5. o["price_mem"] = price /\ o["execution_unit_prices"] = Within(price)
    <2>1. PriceComes({}, args, price)
        BY <1>1 DEF ReadingInv, price
    <2>2. \/ /\ Of(args, "price_mem") = price
             /\ Of(args, "execution_unit_prices") \in {None, Within(price)}
          \/ Of(args, "price_mem") = None /\ Of(args, "execution_unit_prices") = Within(price)
        BY <1>2, <2>1, AllRead DEF PriceComes
    <2> QED  BY <1>3, <2>2, CompletedIs
<1>6. \/ o["coins_per_utxo_byte"] = PerByte
      \/ o["coins_per_utxo_byte"] = Number(0) /\ o["utxo_cost_per_byte"] = PerByte
    <2>1. PerByteComes({}, args)
        BY <1>1 DEF ReadingInv
    <2>2. CASE Comes({}, args, "coins_per_utxo_byte", {PerByte})
        BY <1>3, <2>2, AllRead, CompletedIs
    <2>3. CASE /\ \/ Lacks({}, args, "coins_per_utxo_byte")
                  \/ Comes({}, args, "coins_per_utxo_byte", {Number(0)})
               /\ Comes({}, args, "utxo_cost_per_byte", {PerByte})
        <3>1. Of(args, "utxo_cost_per_byte") = PerByte
            BY <2>3, AllRead
        <3>2. Of(args, "coins_per_utxo_byte") \in {None, Number(0)}
            BY <1>2, <2>3, AllRead
        <3> QED  BY <1>3, <3>1, <3>2, CompletedIs
    <2>4. CASE /\ Lacks({}, args, "coins_per_utxo_byte") /\ Named({}, args, "coins_per_utxo_byte")
               /\ Lacks({}, args, "utxo_cost_per_byte")
               /\ Comes({}, args, "coins_per_utxo_word", {Word})
        <3>1. /\ Of(args, "coins_per_utxo_byte") = None /\ Of(args, "utxo_cost_per_byte") = None
              /\ Of(args, "coins_per_utxo_word") = Word
            BY <1>2, <2>4, AllRead
        <3>2. o["coins_per_utxo_byte"] = Number(Word.of \div 8)
            BY <1>3, <3>1, CompletedIs
        <3>3. Word.of = 29 /\ PerByte = Number(3) /\ 29 \div 8 = 3
            BY DEF Word, Number, Reported, PerByte
        <3> QED  BY <3>2, <3>3
    <2> QED  BY <2>1, <2>2, <2>3, <2>4 DEF PerByteComes
<1>7. service \in {"cli", "koios", "ogmios"} =>
         o["min_fee_ref_script_cost_per_byte"] \in {RefScript, Within(RefScript)}
    BY <1>1, AllRead, CompletedIs DEF ReadingInv, RefScriptComes
<1>8. o["cost_models"] = Due(service)
    BY <1>1, AllRead, CompletedIs DEF ReadingInv, CostsCome
<1>9. service = "blockfrost" => o["min_utxo"] = IF saves = 0 THEN Word ELSE None
    BY <1>1, <1>2, AllRead, CompletedIs DEF ReadingInv, MinUtxoComes
<1>10. DOMAIN o = Names
    BY CompletedIs
<1> HIDE DEF o
<1> QED  BY <1>1, <1>4, <1>5, <1>6, <1>7, <1>8, <1>9, <1>10 DEF ObjectInv, o, price

-----------------------------------------------------------------------------
(***************************************************************************)
(* A dictionary that was saved comes to what was in the object.            *)
(***************************************************************************)
\* Of two fields that share a key, to_dict saves one under it.
LEMMA SavedKeys ==
    /\ SavedKey(1) = "costModels" /\ SavedKey(2) = "executionUnitPrices"
    /\ SavedKey(3) = "txFeePerByte" /\ SavedKey(4) = "min_fee_ref_script_cost_per_byte"
    /\ SavedKey(5) = "utxoCostPerByte" /\ SavedKey(6) = "txFeePerByte"
    /\ SavedKey(7) = "executionUnitPricesPriceMemory" /\ SavedKey(8) = "coinsPerUtxoWord"
    /\ SavedKey(9) = "coinsPerUtxoByte" /\ SavedKey(10) = "utxoCostPerByte"
BY DEF SavedKey, Declared, Field

\* What is saved is under the key of a field that has a value.
LEMMA SavedUnder ==
    ASSUME NEW o, NEW e \in Dictionary(o)
    PROVE  \E j \in 1 .. 10 : e.key = SavedKey(j) /\ o[Declared[j].name] # None
<1> DEFINE valued == {i \in DOMAIN Declared : o[Declared[i].name] # None}
           SavedOf(k) == Encoded(o[LastName({i \in valued : SavedKey(i) = k})])
<1>1. Dictionary(o) = {Entry(k, SavedOf(k)) : k \in {SavedKey(i) : i \in valued}}
    BY DEF Dictionary
<1>2. valued \subseteq 1 .. 10 /\ \A i \in valued : o[Declared[i].name] # None
    BY DeclaredPlaces
<1> HIDE DEF valued, SavedOf
<1>3. PICK k \in {SavedKey(i) : i \in valued} : e = Entry(k, SavedOf(k))
    BY <1>1
<1>4. e.key = k
    BY <1>3 DEF Entry
<1> QED  BY <1>2, <1>3, <1>4

\* A key that is read of a saved dictionary is of one field.
LEMMA SavedFields ==
    ASSUME NEW o, NEW e \in Dictionary(o), NEW i \in 1 .. 10, SavedKey(i) # "txFeePerByte",
           SavedKey(i) # "utxoCostPerByte", FieldOf(e.key) = Declared[i].name
    PROVE  e.key = SavedKey(i)
<1>1. PICK j \in 1 .. 10 : e.key = SavedKey(j)
    BY SavedUnder
<1>2. FieldOf(SavedKey(j)) = IF j = 3 THEN Declared[6].name ELSE IF j = 5 THEN Declared[10].name
                             ELSE Declared[j].name
    BY SavedKeys, FieldsOfKeys, DeclaredNames
<1>3. i # 3 /\ i # 5 /\ i # 6 /\ i # 10
    BY SavedKeys
<1>4. \A k, l \in 1 .. 10 : Declared[k].name = Declared[l].name => k = l
    BY DeclaredNames
<1> QED  BY <1>1, <1>2, <1>3, <1>4

\* Under a key is the last of the fields that share it and have a value.
LEMMA SavedLast ==
    ASSUME NEW o, NEW last \in 1 .. 10, o[Declared[last].name] # None,
           \A j \in 1 .. 10 :
              j > last /\ SavedKey(j) = SavedKey(last) => o[Declared[j].name] = None
    PROVE  /\ Entry(SavedKey(last), Encoded(o[Declared[last].name])) \in Dictionary(o)
           /\ \A e \in Dictionary(o) :
                 e.key = SavedKey(last) => e.value = Encoded(o[Declared[last].name])
<1> DEFINE valued == {i \in DOMAIN Declared : o[Declared[i].name] # None}
           Shares(k) == {i \in valued : SavedKey(i) = k}
<1>1. Dictionary(o) =
         {Entry(k, Encoded(o[LastName(Shares(k))])) : k \in {SavedKey(i) : i \in valued}}
    BY DEF Dictionary
<1>2. LastName(Shares(SavedKey(last))) = Declared[last].name
    <2>1. /\ Shares(SavedKey(last)) \subseteq Nat /\ last \in Shares(SavedKey(last))
          /\ \A i \in Shares(SavedKey(last)) : i <= last
        BY DeclaredPlaces
    <2> HIDE DEF Shares
    <2> QED  BY <2>1, LastIs
<1>3. last \in valued
    BY DeclaredPlaces
<1> HIDE DEF Shares, valued
<1>4. Entry(SavedKey(last), Encoded(o[Declared[last].name])) \in Dictionary(o)
    BY <1>1, <1>2, <1>3
<1>5. ASSUME NEW e \in Dictionary(o), e.key = SavedKey(last)
      PROVE  e.value = Encoded(o[Declared[last].name])
    <2>1. PICK k \in {SavedKey(i) : i \in valued} : e = Entry(k, Encoded(o[LastName(Shares(k))]))
        BY <1>1
    <2>2. k = SavedKey(last) /\ e.value = Encoded(o[LastName(Shares(k))])
        BY <1>5, <2>1 DEF Entry
    <2> QED  BY <1>2, <2>2
<1> QED  BY <1>4, <1>5

\* The field comes to what is decoded of what it was encoded as.
LEMMA SavedComes ==
    ASSUME NEW o, NEW last \in 1 .. 10, o[Declared[last].name] # None,
           \A j \in 1 .. 10 :
              j > last /\ SavedKey(j) = SavedKey(last) => o[Declared[j].name] = None,
           Encoded(o[Declared[last].name]) # None,
           NEW field, FieldOf(SavedKey(last)) = field,
           \A e \in Dictionary(o) : FieldOf(e.key) = field => e.key = SavedKey(last)
    PROVE  Comes(Dictionary(o), NoArgs, field, {Decoded(field, Encoded(o[Declared[last].name]))})
<1> DEFINE value == Encoded(o[Declared[last].name])
<1>1. /\ Entry(SavedKey(last), value) \in Dictionary(o)
      /\ \A e \in Dictionary(o) : e.key = SavedKey(last) => e.value = value
    BY SavedLast
<1>2. ~Has(NoArgs, field)
    BY DEF Has, NoArgs
<1>3. /\ Entry(SavedKey(last), value).key = SavedKey(last)
      /\ Entry(SavedKey(last), value).value = value
    BY DEF Entry
<1> HIDE DEF value
<1>4. value # None
    BY DEF value
<1> QED  BY <1>1, <1>2, <1>3, <1>4 DEF Comes, value

\* A number is saved as it is; a fraction as text, which is loaded as a number.
LEMMA SavedValues ==
    ASSUME NEW n \in Nat, NEW order \in {"ledger", "named"}
    PROVE  /\ Encoded(Number(n)) = Number(n) /\ Encoded(Costs(order)) = Costs(order)
           /\ Encoded(Within(Number(n))) = Within(Number(n))
           /\ Encoded(Exact(n)) = Text(Exact(n))
           /\ Encoded(Within(Exact(n))) = Within(Text(Exact(n)))
           /\ \A field : Decoded(field, Text(Exact(n))) = Number(n)
           /\ Decoded("execution_unit_prices", Within(Text(Exact(n)))) = Within(Number(n))
<1>1. /\ Number(n) # None /\ Exact(n) # None /\ Costs(order) # None /\ Text(Exact(n)) # None
      /\ Within(Text(Exact(n))) # None
    BY ValuesAreSome
<1>2. Text(Exact(n)) = [as |-> "text", of |-> n]
    BY <1>1 DEF Text, Exact
<1>3. Text(Number(n)) = Number(n) /\ Text(Costs(order)) = Costs(order)
    BY DEF Text, Number, Costs
<1>4. /\ Encoded(Number(n)) = Number(n) /\ Encoded(Costs(order)) = Costs(order)
      /\ Encoded(Within(Number(n))) = Within(Number(n))
    BY <1>3 DEF Encoded, Number, Costs, Within
<1>5. Encoded(Exact(n)) = Text(Exact(n)) /\ Encoded(Within(Exact(n))) = Within(Text(Exact(n)))
    BY DEF Encoded, Exact, Within
<1>6. Plain(Text(Exact(n))) = Number(n)
    BY <1>1, <1>2 DEF Plain
<1>7. \A field : Decoded(field, Text(Exact(n))) = Number(n)
    BY <1>2, <1>6 DEF Decoded
<1>8. Decoded("execution_unit_prices", Within(Text(Exact(n)))) = Within(Number(n))
    BY <1>1, <1>6 DEF Decoded, Within
<1> QED  BY <1>4, <1>5, <1>7, <1>8

\* The saved form of an object that has what was reported comes to it again.
LEMMA SaveKeeps ==
    ASSUME CodecInv, SaveAndLoad
    PROVE  ReadingInv'
<1> DEFINE o == params
           d == Dictionary(o)
           price == Number(Reported.price)
<1>1. /\ unread' = d /\ args' = NoArgs /\ service' = service /\ saves' # 0
      /\ ObjectInv
    BY DEF SaveAndLoad, CodecInv, CodecTypeOK
<1>2. /\ Fee # None /\ PerByte # None /\ Number(0) # None /\ RefScript # None
      /\ Within(RefScript) # None /\ Due(service) # None
      /\ Price(service, saves) # None /\ Within(Price(service, saves)) # None
    BY DueAreSome
<1>3. \A field : /\ Decoded(field, Encoded(Fee)) = Fee /\ Encoded(Fee) = Fee
                 /\ Decoded(field, Encoded(PerByte)) = PerByte /\ Encoded(PerByte) = PerByte
                 /\ Decoded(field, Encoded(Number(0))) = Number(0) /\ Encoded(Number(0)) = Number(0)
                 /\ Decoded(field, Encoded(Due(service))) = Due(service)
                 /\ Encoded(Due(service)) = Due(service)
    BY ReportedAreNumbers, NumbersDecoded, SavedValues DEF Fee, PerByte, Due
<1>4. /\ DOMAIN o = Names /\ o["min_fee_coefficient"] = Fee /\ o["tx_fee_per_byte"] \in {None, Fee}
      /\ o["price_mem"] = Price(service, saves)
      /\ o["execution_unit_prices"] = Within(Price(service, saves))
      /\ \/ o["coins_per_utxo_byte"] = PerByte
         \/ o["coins_per_utxo_byte"] = Number(0) /\ o["utxo_cost_per_byte"] = PerByte
      /\ service \in {"cli", "koios", "ogmios"} =>
            o["min_fee_ref_script_cost_per_byte"] \in {RefScript, Within(RefScript)}
      /\ o["cost_models"] = Due(service)
    BY <1>1 DEF ObjectInv
<1> HIDE DEF o
<1>5. ASSUME NEW e \in d
      PROVE  /\ FieldOf(e.key) \notin {"min_fee_coefficient", "min_utxo"}
             /\ FieldOf(e.key) = "tx_fee_per_byte" => e.key = "txFeePerByte"
             /\ FieldOf(e.key) = "utxo_cost_per_byte" => e.key = "utxoCostPerByte"
    <2>1. PICK j \in 1 .. 10 : e.key = SavedKey(j)
        BY <1>5, SavedUnder DEF d
    <2> QED  BY <2>1, SavedKeys, FieldsOfKeys
<1> HIDE DEF d
<1>6. FeeComes(d, NoArgs)
    <2>1. Lacks(d, NoArgs, "min_fee_coefficient")
        BY <1>5, NoKey
    <2>2. CASE o["tx_fee_per_byte"] # None
        <3>1. /\ o[Declared[6].name] = Fee /\ FieldOf(SavedKey(6)) = "tx_fee_per_byte"
              /\ \A j \in 1 .. 10 : j > 6 => SavedKey(j) # SavedKey(6)
              /\ SavedKey(6) = "txFeePerByte"
            BY <1>4, <2>2, DeclaredNames, SavedKeys, FieldsOfKeys
        <3>2. Comes(d, NoArgs, "tx_fee_per_byte", {Decoded("tx_fee_per_byte", Encoded(Fee))})
            BY <1>2, <1>3, <1>5, <3>1, SavedComes DEF d
        <3> QED  BY <1>3, <2>1, <3>2 DEF FeeComes
    <2>3. CASE o["tx_fee_per_byte"] = None
        <3>1. /\ o[Declared[3].name] = Fee /\ FieldOf(SavedKey(3)) = "tx_fee_per_byte"
              /\ \A j \in 1 .. 10 : j > 3 /\ SavedKey(j) = SavedKey(3) => o[Declared[j].name] = None
              /\ SavedKey(3) = "txFeePerByte"
            BY <1>4, <2>3, DeclaredNames, SavedKeys, FieldsOfKeys
        <3>2. Comes(d, NoArgs, "tx_fee_per_byte", {Decoded("tx_fee_per_byte", Encoded(Fee))})
            BY <1>2, <1>3, <1>5, <3>1, SavedComes DEF d
        <3> QED  BY <1>3, <2>1, <3>2 DEF FeeComes
    <2> QED  BY <2>2, <2>3
<1>7. PriceComes(d, NoArgs, price)
    <2>1. /\ Encoded(Price(service, saves)) # None
          /\ Decoded("price_mem", Encoded(Price(service, saves))) = price
          /\ Encoded(Within(Price(service, saves))) # None
          /\ Decoded("execution_unit_prices", Encoded(Within(Price(service, saves)))) = Within(price)
        BY ReportedAreNumbers, SavedValues, NumbersDecoded, ValuesAreSome DEF Price
    <2>2. /\ o[Declared[7].name] = Price(service, saves) /\ FieldOf(SavedKey(7)) = "price_mem"
          /\ \A j \in 1 .. 10 : j > 7 => SavedKey(j) # SavedKey(7)
          /\ \A e \in d : FieldOf(e.key) = "price_mem" => e.key = SavedKey(7)
        BY <1>4, DeclaredNames, SavedKeys, FieldsOfKeys, SavedFields DEF d
    <2>3. Comes(d, NoArgs, "price_mem", {Decoded("price_mem", Encoded(Price(service, saves)))})
        BY <1>2, <2>1, <2>2, SavedComes DEF d
    <2>4. /\ o[Declared[2].name] = Within(Price(service, saves))
          /\ FieldOf(SavedKey(2)) = "execution_unit_prices"
          /\ \A j \in 1 .. 10 : j > 2 => SavedKey(j) # SavedKey(2)
          /\ \A e \in d : FieldOf(e.key) = "execution_unit_prices" => e.key = SavedKey(2)
        BY <1>4, DeclaredNames, SavedKeys, FieldsOfKeys, SavedFields DEF d
    <2>5. Comes(d, NoArgs, "execution_unit_prices",
                {Decoded("execution_unit_prices", Encoded(Within(Price(service, saves))))})
        BY <1>2, <2>1, <2>4, SavedComes DEF d
    <2> QED  BY <2>1, <2>3, <2>5 DEF PriceComes
<1>8. PerByteComes(d, NoArgs)
    <2>1. /\ Declared[9].name = "coins_per_utxo_byte" /\ FieldOf(SavedKey(9)) = "coins_per_utxo_byte"
          /\ \A j \in 1 .. 10 : j > 9 => SavedKey(j) # SavedKey(9)
          /\ \A e \in d : FieldOf(e.key) = "coins_per_utxo_byte" => e.key = SavedKey(9)
        BY DeclaredNames, SavedKeys, FieldsOfKeys, SavedFields DEF d
    <2>2. CASE o["coins_per_utxo_byte"] = PerByte
        <3>1. Comes(d, NoArgs, "coins_per_utxo_byte", {Decoded("coins_per_utxo_byte", Encoded(PerByte))})
            BY <1>2, <1>3, <2>1, <2>2, SavedComes DEF d
        <3> QED  BY <1>3, <3>1 DEF PerByteComes
    <2>3. CASE o["coins_per_utxo_byte"] = Number(0) /\ o["utxo_cost_per_byte"] = PerByte
        <3>1. Comes(d, NoArgs, "coins_per_utxo_byte", {Decoded("coins_per_utxo_byte", Encoded(Number(0)))})
            BY <1>2, <1>3, <2>1, <2>3, SavedComes DEF d
        <3>2. /\ o[Declared[10].name] = PerByte /\ FieldOf(SavedKey(10)) = "utxo_cost_per_byte"
              /\ SavedKey(10) = "utxoCostPerByte"
            BY <2>3, DeclaredNames, SavedKeys, FieldsOfKeys
        <3>3. Comes(d, NoArgs, "utxo_cost_per_byte", {Decoded("utxo_cost_per_byte", Encoded(PerByte))})
            BY <1>2, <1>3, <1>5, <3>2, SavedComes DEF d
        <3> QED  BY <1>3, <3>1, <3>3 DEF PerByteComes
    <2> QED  BY <1>4, <2>2, <2>3
<1>9. service \in {"cli", "koios", "ogmios"} => RefScriptComes(d, NoArgs)
    <2> DEFINE field == "min_fee_ref_script_cost_per_byte"
    <2> SUFFICES ASSUME service \in {"cli", "koios", "ogmios"}
                 PROVE  RefScriptComes(d, NoArgs)
        OBVIOUS
    <2>1. /\ Declared[4].name = field /\ FieldOf(SavedKey(4)) = field
          /\ \A j \in 1 .. 10 : j > 4 => SavedKey(j) # SavedKey(4)
          /\ \A e \in d : FieldOf(e.key) = field => e.key = SavedKey(4)
        BY DeclaredNames, SavedKeys, FieldsOfKeys, SavedFields DEF d
    <2>2. o[field] \in {RefScript, Within(RefScript)}
        BY <1>4
    <2>3. Encoded(o[field]) # None /\ Decoded(field, Encoded(o[field])) = RefScript
        BY <1>2, <2>2, ReportedAreNumbers, SavedValues, NumbersDecoded DEF RefScript
    <2>4. Comes(d, NoArgs, field, {Decoded(field, Encoded(o[field]))})
        BY <1>2, <2>1, <2>2, <2>3, SavedComes DEF d
    <2> QED  BY <2>3, <2>4 DEF RefScriptComes, Comes
<1>10. CostsCome(d, NoArgs, service, saves')
    <2>1. /\ o[Declared[1].name] = Due(service) /\ FieldOf(SavedKey(1)) = "cost_models"
          /\ \A j \in 1 .. 10 : j > 1 => SavedKey(j) # SavedKey(1)
          /\ \A e \in d : FieldOf(e.key) = "cost_models" => e.key = SavedKey(1)
        BY <1>4, DeclaredNames, SavedKeys, FieldsOfKeys, SavedFields DEF d
    <2>2. Comes(d, NoArgs, "cost_models", {Decoded("cost_models", Encoded(Due(service)))})
        BY <1>2, <1>3, <2>1, SavedComes DEF d
    <2> QED  BY <1>3, <2>2 DEF CostsCome
<1>11. MinUtxoComes(d, NoArgs, saves')
    BY <1>1, <1>5, NoKey DEF MinUtxoComes
<1>12. Price(service, saves') = price
    BY <1>1 DEF Price
<1> HIDE DEF price
<1> QED  BY <1>1, <1>6, <1>7, <1>8, <1>9, <1>10, <1>11, <1>12 DEF ReadingInv

-----------------------------------------------------------------------------
(***************************************************************************)
(* The three steps, and what follows.                                      *)
(***************************************************************************)
\* Decoding and encoding make values of values.
LEMMA CodedAreValues ==
    ASSUME NEW v \in Values \cup {None}
    PROVE  /\ \A field : Decoded(field, v) \in Values \cup {None}
           /\ v # None => Encoded(v) \in Values
<1>1. \A w \in Scalars : Plain(w) \in Scalars /\ Text(w) \in Scalars
    BY DEF Scalars, Plain, Text, Number
<1>2. \A w \in Scalars : Within(w) \in Values
    BY DEF Within, Values
<1>3. CASE v \in Scalars
    BY <1>1, <1>3 DEF Decoded, Encoded, Values, Scalars
<1>4. CASE v \in [as : {"dict"}, of : Scalars]
    <2>1. v.as = "dict" /\ v.of \in Scalars
        BY <1>4
    <2>2. Plain(v.of) \in Values /\ Within(Plain(v.of)) \in Values /\ Within(Text(v.of)) \in Values
        BY <1>1, <1>2, <2>1 DEF Values
    <2>3. v # None
        BY <1>4, ValuesAssumption DEF Values
    <2> QED  BY <2>1, <2>2, <2>3 DEF Decoded, Encoded
<1>5. CASE v \in [as : {"costs"}, of : {"ledger", "named"}]
    <2>1. v.as = "costs" /\ v # None /\ v \in Values
        BY <1>5, ValuesAssumption DEF Values
    <2> QED  BY <2>1 DEF Decoded, Encoded, Plain, Text
<1>6. CASE v = None
    BY <1>6, NoneStays
<1> QED  BY <1>3, <1>4, <1>5, <1>6 DEF Values

\* Numbers, fractions, dictionaries around them and cost models are values.
LEMMA NumbersAreValues ==
    /\ \A n \in Nat : /\ Number(n) \in Values /\ Exact(n) \in Values
                      /\ Within(Number(n)) \in Values /\ Within(Exact(n)) \in Values
    /\ \A order \in {"ledger", "named"} : Costs(order) \in Values
<1>1. \A n \in Nat : Number(n) \in Scalars /\ Exact(n) \in Scalars
    BY DEF Number, Exact, Scalars
<1> QED  BY <1>1 DEF Values, Within, Costs

\* It holds of every report.
LEMMA CodecInvInit ==
    ASSUME CodecInit
    PROVE  CodecInv
<1>1. \A i \in unread : i.value \in Values \cup {None}
    BY ReportedAreNumbers, NumbersAreValues DEF CodecInit, Services, Report, Entry, Word
<1>2. \A f \in DOMAIN args : args[f] \in Values \cup {None}
    BY ReportedAreNumbers, NumbersAreValues DEF CodecInit, OgmiosArgs, NoArgs, Word
<1> QED  BY <1>1, <1>2, InitReports, InitArguments DEF CodecInit, CodecTypeOK, CodecInv

\* What is saved is what some field has.
LEMMA SavedAreHeld ==
    ASSUME NEW o, NEW e \in Dictionary(o)
    PROVE  \E i \in 1 .. 10 : /\ o[Declared[i].name] # None
                             /\ e.value = Encoded(o[Declared[i].name])
<1>1. PICK j \in 1 .. 10 : e.key = SavedKey(j) /\ o[Declared[j].name] # None
    BY SavedUnder
<1>2. CASE \A i \in 1 .. 10 : i > j /\ SavedKey(i) = SavedKey(j) => o[Declared[i].name] = None
    BY <1>1, <1>2, SavedLast
<1>3. CASE \E i \in 1 .. 10 : i > j /\ SavedKey(i) = SavedKey(j) /\ o[Declared[i].name] # None
    <2>1. PICK i \in 1 .. 10 : i > j /\ SavedKey(i) = SavedKey(j) /\ o[Declared[i].name] # None
        BY <1>3
    <2>2. \A k \in 1 .. 10 : k > i => SavedKey(k) # SavedKey(i)
        BY <2>1, SavedKeys
    <2>3. e.value = Encoded(o[Declared[i].name])
        BY <1>1, <2>1, <2>2, SavedLast
    <2> QED  BY <2>1, <2>3
<1> QED  BY <1>2, <1>3

\* An object's fields are values.
LEMMA ConstructTypes ==
    ASSUME CodecInv, Construct
    PROVE  params' \in [Names -> Values \cup {None}]
<1>1. /\ params' = Completed(args) /\ unread' = unread /\ args' = NoArgs
      /\ UNCHANGED <<service, saves>> /\ ObjectInv'
    BY ConstructCompletes DEF Construct
<1>2. \A f : Of(args, f) \in Values \cup {None}
    BY NumbersAreValues DEF Of, Defaults, CodecInv, CodecTypeOK
<1>3. /\ Fee \in Values /\ PerByte \in Values /\ Number(0) \in Values
      /\ Due(service') \in Values /\ Price(service', saves') \in Values
      /\ Within(Price(service', saves')) \in Values
    BY ReportedAreNumbers, NumbersAreValues DEF Fee, PerByte, Due, Price
<1>4. \A f \in {"min_fee_ref_script_cost_per_byte", "min_utxo", "tx_fee_per_byte",
                "coins_per_utxo_word", "utxo_cost_per_byte"} : params'[f] \in Values \cup {None}
    BY <1>1, <1>2, CompletedIs
<1>5. \A f \in {"cost_models", "execution_unit_prices", "min_fee_coefficient", "price_mem",
                "coins_per_utxo_byte"} : params'[f] \in Values \cup {None}
    BY <1>1, <1>3 DEF ObjectInv
<1>6. params' = [f \in Names |-> params'[f]]
    BY <1>1 DEF Completed
<1> QED  BY <1>4, <1>5, <1>6, NamesAre

\* Values stay values.
LEMMA CodecTypeStep ==
    ASSUME CodecInv, [CodecNext]_codecVars
    PROVE  CodecTypeOK'
<1>1. CASE ReadKey
    <2>1. PICK item \in unread : unread' = unread \ {item} /\ KeyRead(item)
        BY <1>1 DEF ReadKey
    <2>2. ASSUME NEW f \in DOMAIN args'
          PROVE  args'[f] \in Values \cup {None}
        <3>1. CASE FieldOf(item.key) # f
            <4>1. f \in DOMAIN args /\ args'[f] = args[f]
                BY <2>1, <2>2, <3>1, ReadingOne
            <4> QED  BY <4>1 DEF CodecInv, CodecTypeOK
        <3>2. CASE FieldOf(item.key) = f
            <4>1. \/ args'[f] = Decoded(f, item.value) \/ args'[f] = None
                  \/ f \in DOMAIN args /\ args'[f] = args[f]
                BY <2>1, <3>2, ReadingOne DEF Has
            <4>2. item.value \in Values \cup {None}
                BY <2>1 DEF CodecInv, CodecTypeOK
            <4> QED  BY <4>1, <4>2, CodedAreValues DEF CodecInv, CodecTypeOK
        <3> QED  BY <3>1, <3>2
    <2> QED  BY <1>1, <2>1, <2>2 DEF ReadKey, CodecInv, CodecTypeOK
<1>2. CASE Construct
    <2>1. params' \in [Names -> Values \cup {None}]
        BY <1>2, ConstructTypes
    <2> QED  BY <1>2, <2>1 DEF Construct, NoArgs, CodecInv, CodecTypeOK
<1>3. CASE SaveAndLoad
    <2>1. /\ params # None /\ params' = None /\ unread' = Dictionary(params) /\ saves' = saves + 1
          /\ UNCHANGED <<service, args>> /\ params \in [Names -> Values \cup {None}]
        BY <1>3 DEF SaveAndLoad, CodecInv, CodecTypeOK
    <2>2. ASSUME NEW e \in Dictionary(params)
          PROVE  e.value \in Values
        <3>1. PICK i \in 1 .. 10 : /\ params[Declared[i].name] # None
                                  /\ e.value = Encoded(params[Declared[i].name])
            BY <2>2, SavedAreHeld
        <3>2. Declared[i].name \in Names
            BY DeclaredPlaces DEF Names
        <3>3. params[Declared[i].name] \in Values \cup {None}
            BY <2>1, <3>2
        <3> QED  BY <3>1, <3>3, CodedAreValues
    <2> QED  BY <2>1, <2>2 DEF CodecInv, CodecTypeOK
<1>4. CASE UNCHANGED codecVars
    BY <1>4 DEF codecVars, CodecInv, CodecTypeOK
<1> QED  BY <1>1, <1>2, <1>3, <1>4 DEF CodecNext

\* Every step keeps what there is to come to.
LEMMA CodecInvStep ==
    ASSUME CodecInv, [CodecNext]_codecVars
    PROVE  CodecInv'
<1>0. CodecTypeOK'
    BY CodecTypeStep
<1>1. CASE ReadKey
    <2>1. params = None /\ params' = None
        <3>1. unread # {} /\ params' = params
            BY <1>1 DEF ReadKey
        <3> QED  BY <3>1 DEF CodecInv
    <2> QED  BY <1>0, <1>1, <2>1, ReadKeyKeeps DEF CodecInv
<1>2. CASE Construct
    <2>1. /\ ObjectInv' /\ unread' = {} /\ args' = NoArgs /\ params' = Completed(args)
        BY <1>2, ConstructCompletes DEF Construct
    <2>2. params' # None
        BY <1>2, ConstructTypes, ValuesAssumption
    <2> QED  BY <1>0, <2>1, <2>2 DEF CodecInv
<1>3. CASE SaveAndLoad
    <2>1. params' = None
        BY <1>3 DEF SaveAndLoad
    <2> QED  BY <1>0, <1>3, <2>1, SaveKeeps DEF CodecInv
<1>4. CASE UNCHANGED codecVars
    BY <1>0, <1>4 DEF codecVars, CodecInv, ReadingInv, ObjectInv, FeeComes, PriceComes,
                      PerByteComes, RefScriptComes, CostsCome, MinUtxoComes
<1> QED  BY <1>1, <1>2, <1>3, <1>4 DEF CodecNext

\* What a service reported of the parameters, and how often they went through a file.
THEOREM CodecInvAlways == CodecSpec => []CodecInv
BY CodecInvInit, CodecInvStep, PTL DEF CodecSpec

\* Fees are computed with what was reported, in whatever order from_dict meets the keys and
\* however often to_dict saved the object.
THEOREM ParametersAreReportedAlways == CodecSpec => []ParametersAreReported
<1>1. CodecInv => ParametersAreReported
    <2> SUFFICES ASSUME CodecInv, params # None
                 PROVE  ParametersAreReported
        BY DEF ParametersAreReported
    <2>1. ObjectInv
        BY DEF CodecInv
    <2> DEFINE ref == params.min_fee_ref_script_cost_per_byte
    <2>2. /\ FeesOf(params).fee = Number(Reported.fee)
          /\ FeesOf(params).price = Price(service, saves)
          /\ FeesOf(params).costs = Due(service)
        BY <2>1 DEF FeesOf, ObjectInv, Fee
    <2>3. FeesOf(params).perByte = PerByte
        <3>1. PerByte \notin {None, Number(0)}
            BY DueAreSome DEF PerByte, Number, Reported
        <3> QED  BY <2>1, <3>1 DEF FeesOf, ObjectInv
    <2>4. service \in {"cli", "koios", "ogmios"} => FeesOf(params).refScript = RefScript
        <3>1. /\ RefScript # None /\ Within(RefScript) # None /\ RefScript.as = "number"
              /\ Within(RefScript).as = "dict" /\ Within(RefScript).of = RefScript
            BY DueAreSome DEF RefScript, Within, Number
        <3> QED  BY <2>1, <3>1 DEF FeesOf, ObjectInv
    <2> QED  BY <2>1, <2>2, <2>3, <2>4 DEF ParametersAreReported, ObjectInv, Price, Due,
                                                PerByte, RefScript
<1> QED  BY <1>1, CodecInvAlways, PTL
=============================================================================

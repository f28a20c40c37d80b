----------------------------- MODULE Submission -----------------------------
(***************************************************************************)
(* submit_tx_cbor and evaluate_tx_cbor of the online contexts: what a      *)
(* caller is told of one transaction, and what becomes of the temporary    *)
(* files, while requests are rejected, get lost or lose their replies.     *)
(*                                                                         *)
(* cardano-cli goes through several forms of a command, of which the       *)
(* installed release has some.                                             *)
(***************************************************************************)
EXTENDS NoValue, Naturals, Sequences, FiniteSets

CONSTANT
    MaxCalls  \* bound: calls of the two methods

ASSUME MaxCallsAssumption == MaxCalls \in Nat

Steps == {"submit_latest", "submit_legacy", "txid", "submit",
          "evaluate_latest", "evaluate_legacy", "evaluate_flat", "evaluated", "costs", "evaluate"}
Verdicts == {"hash", "no_id", "failed", "cli_error", "costs", "error"}

ASSUME NoneAssumption == None \notin Steps \cup Verdicts \cup Nat

Backends == {"cli", "blockfrost", "koios", "ogmios", "yaci"}
Forms == {"latest", "legacy", "flat"}

VARIABLES
    tx,      \* where the node has it: "absent", "mempool" or "chain"
    valid,   \* the ledger rules would accept it
    forms,   \* the forms the installed cardano-cli understands
    calls,   \* calls begun so far
    step,    \* of the call that is running, None without one
    backend, \* the context of the last call
    file,    \* the running call's temporary file exists
    left,    \* calls whose temporary file was left behind
    verdict, \* what the last call told its caller
    told     \* observations of the last call, for the properties

vars == <<tx, valid, forms, calls, step, backend, file, left, verdict, told>>

NothingTold == [accepted |-> FALSE, lost |-> FALSE, errors |-> <<>>]

Init ==
    /\ tx = "absent" /\ valid \in BOOLEAN /\ forms \in SUBSET Forms
    /\ calls = 0 /\ step = None /\ backend = "cli"
    /\ file = FALSE /\ left = {}
    /\ verdict = None /\ told = NothingTold

-----------------------------------------------------------------------------
(***************************************************************************)
(* The node.  It accepts a valid transaction it does not have.             *)
(***************************************************************************)
Forges == tx = "mempool" /\ tx' = "chain"
Evicts == tx = "mempool" /\ tx' = "absent"
Spends == tx # "chain" /\ valid /\ valid' = FALSE  \* another takes its inputs

NodeMoves ==
    /\ \/ (Forges \/ Evicts) /\ UNCHANGED valid
       \/ Spends /\ UNCHANGED tx
    /\ UNCHANGED <<forms, calls, step, backend, file, left, verdict, told>>

Outcomes == {"ok", "rejected", "lost", "undelivered"}

\* A request reaches the node or does not, and its reply the caller.
Request(outcome) ==
    LET accepts == tx = "absent" /\ valid /\ outcome # "undelivered"
    IN  /\ outcome = "ok" => accepts
        /\ outcome = "rejected" => ~accepts
        /\ tx' = IF accepts THEN "mempool" ELSE tx
        /\ told' = [told EXCEPT !.accepted = @ \/ accepts, !.lost = @ \/ outcome = "lost"]

-----------------------------------------------------------------------------
(***************************************************************************)
(* Calls.                                                                  *)
(***************************************************************************)
Begin(b, first) ==
    /\ step = None /\ calls < MaxCalls
    /\ calls' = calls + 1 /\ backend' = b /\ step' = first
    /\ told' = NothingTold
    /\ UNCHANGED <<tx, valid, forms, left, verdict>>

\* The call ends; keeps says that its temporary file stays.
Ends(v, keeps) ==
    /\ verdict' = v /\ step' = None
    /\ file' = FALSE
    /\ left' = IF file /\ keeps THEN left \cup {calls} ELSE left
    /\ UNCHANGED <<valid, forms, calls, backend>>

\* All but Ogmios and Yaci write the transaction to a temporary file.
BeginSubmit(b) ==
    /\ Begin(b, IF b = "cli" THEN "submit_latest" ELSE "submit")
    /\ file' = (b \in {"cli", "blockfrost", "koios"})

\* The era cardano-cli writes into the file is that of a tip it cannot query.
EraUnknown ==
    /\ step \in {"submit_latest", "evaluate_latest"}
    /\ Ends("error", FALSE) /\ UNCHANGED <<tx, told>>

\* The first form fails, or is not understood; the second follows.
SubmitLatest ==
    /\ step = "submit_latest"
    /\ \/ /\ "latest" \in forms
          /\ \E outcome \in Outcomes :
                /\ Request(outcome)
                /\ step' = IF outcome = "ok" THEN "txid" ELSE "submit_legacy"
       \/ /\ "latest" \notin forms
          /\ step' = "submit_legacy" /\ UNCHANGED <<tx, told>>
    /\ UNCHANGED <<valid, forms, calls, backend, file, left, verdict>>

\* Faulty form: that the second form has failed too goes unnoticed.
SubmitLegacyIgnored ==
    /\ step = "submit_legacy"
    /\ \E outcome \in Outcomes :
          /\ "legacy" \in forms \/ outcome = "undelivered"
          /\ Request(outcome)
    /\ step' = "txid"
    /\ UNCHANGED <<valid, forms, calls, backend, file, left, verdict>>

SubmitLegacy ==
    /\ step = "submit_legacy"
    /\ \E outcome \in Outcomes :
          /\ "legacy" \in forms \/ outcome = "undelivered"
          /\ Request(outcome)
          /\ IF outcome = "ok"
             THEN step' = "txid" /\ UNCHANGED <<valid, forms, calls, backend, file, left, verdict>>
             ELSE Ends("failed", FALSE)

\* The id of the transaction is asked for in both forms, and may still fail.
Txid ==
    /\ step = "txid"
    /\ \/ forms \cap {"latest", "legacy"} # {} /\ Ends("hash", FALSE)
       \/ Ends("no_id", FALSE)
    /\ UNCHANGED <<tx, told>>

\* Faulty form: the file is removed after a successful submission only.
EndSubmitRemovesLast(outcome) ==
    IF outcome = "ok" THEN Ends("hash", FALSE) ELSE Ends("failed", TRUE)

\* What the contexts other than cardano-cli tell.  Blockfrost raises what is
\* no ApiError as it is, and then leaves the file; Koios removes it always.
EndSubmit(outcome) ==
    CASE outcome = "ok" -> Ends("hash", FALSE)
      [] outcome = "rejected" -> Ends("failed", FALSE)
      [] OTHER -> Ends(IF backend = "koios" THEN "failed" ELSE "error", backend = "blockfrost")

Submit ==
    /\ step = "submit"
    /\ \E outcome \in Outcomes : Request(outcome) /\ EndSubmit(outcome)

\* Yaci cannot read the body of a reply that says the request succeeded.
UnreadableReply ==
    /\ step = "submit" /\ backend = "yaci"
    /\ Request("ok") /\ Ends("error", FALSE)

-----------------------------------------------------------------------------
(***************************************************************************)
(* evaluate_tx_cbor.  A failing attempt has an error, which says that the  *)
(* command is not understood ("unsupported") or not.                       *)
(***************************************************************************)
\* The transaction has redeemers; about one without, cardano-cli is not asked.
BeginEvaluate(b) ==
    /\ Begin(b, IF b = "cli" THEN "evaluate_latest" ELSE "evaluate")
    /\ file' = (b \in {"cli", "blockfrost"})

Attempts == [evaluate_latest |-> "latest", evaluate_legacy |-> "legacy", evaluate_flat |-> "flat"]
NextAttempt == [evaluate_latest |-> "evaluate_legacy", evaluate_legacy |-> "evaluate_flat",
                evaluate_flat |-> "evaluated"]

Attempt ==
    /\ step \in DOMAIN Attempts
    /\ \/ /\ Attempts[step] \in forms
          /\ step' = "costs" /\ UNCHANGED told
       \/ \E error \in {"unsupported", "failure"} :
             /\ Attempts[step] \notin forms => error = "unsupported"
             /\ step' = NextAttempt[step]
             /\ told' = [told EXCEPT !.errors = Append(@, error)]
    /\ UNCHANGED <<tx, valid, forms, calls, backend, file, left, verdict>>

\* Faulty form: one form that is not understood is enough.
BlameAnyUnsupported(errors) ==
    IF \E i \in DOMAIN errors : errors[i] = "unsupported" THEN "cli_error" ELSE "failed"

\* The release is to blame if it understood no form, else the transaction.
Blame(errors) ==
    IF \A i \in DOMAIN errors : errors[i] = "unsupported" THEN "cli_error" ELSE "failed"

NoAttemptLeft ==
    /\ step = "evaluated"
    /\ Ends(Blame(told.errors), FALSE)
    /\ UNCHANGED <<tx, told>>

\* The output is read once the file is gone; it may not be what is expected.
ParseCosts ==
    /\ step = "costs"
    /\ \E v \in {"costs", "failed"} : Ends(v, FALSE)
    /\ UNCHANGED <<tx, told>>

\* The others ask once.  Blockfrost leaves the file when the request raises;
\* the services' result without units is a failure, for Koios and Ogmios the
\* request raises.
Evaluate ==
    /\ step = "evaluate"
    /\ \/ Ends("costs", FALSE)
       \/ backend \in {"blockfrost", "yaci"} /\ Ends("failed", FALSE)
       \/ Ends("error", TRUE)
    /\ UNCHANGED <<tx, told>>

Next ==
    \/ NodeMoves
    \/ \E b \in Backends : BeginSubmit(b) \/ BeginEvaluate(b)
    \/ EraUnknown \/ SubmitLatest \/ SubmitLegacy \/ Txid
    \/ Submit \/ UnreadableReply
    \/ Attempt \/ NoAttemptLeft \/ ParseCosts \/ Evaluate

Spec == Init /\ [][Next]_vars

-----------------------------------------------------------------------------
(***************************************************************************)
(* The units of a transaction's redeemers, by the names PyCardano looks    *)
(* them up under.                                                          *)
(***************************************************************************)

\* The purposes as the node names them, and the tags.
Tag == [spend |-> "spend", mint |-> "mint", publish |-> "certificate",
        withdraw |-> "withdrawal", vote |-> "voting", propose |-> "proposing"]

\* Ogmios has a table of all of them, and cardano-cli one with more names.
OgmiosTag(purpose) == Tag[purpose]
KoiosTag(purpose) == IF purpose = "withdraw" THEN "withdrawal" ELSE purpose
YaciTag(purpose) == IF purpose \in {"withdraw", "publish"} THEN Tag[purpose] ELSE purpose

\* _parse_script_costs: an entry that names its redeemer is kept under that
\* name, any other under the redeemer at its position, of which there must be
\* one.  redeemers is their sequence; an entry has a name or None, and units.
CliCosts(payload, redeemers) ==
    LET Name(i) == IF payload[i].name # None THEN payload[i].name ELSE redeemers[i]
    IN  IF \E i \in DOMAIN payload : payload[i].name = None /\ i > Len(redeemers) THEN {}
        ELSE {[r \in {Name(i) : i \in DOMAIN payload} |->
                 payload[CHOOSE i \in DOMAIN payload :
                           Name(i) = r /\ \A j \in DOMAIN payload : Name(j) = r => j <= i].units]}

-----------------------------------------------------------------------------
\* A caller that is given a hash, or told that there is none to be had, has
\* submitted: the node accepted the transaction during the call.  One that is
\* told of a failure has not, unless a reply was lost on the way.
VerdictsAreTrue ==
    step = None =>
       /\ verdict \in {"hash", "no_id"} => told.accepted
       /\ verdict = "failed" /\ ~told.lost => ~told.accepted

\* The temporary file of a call is left behind by Blockfrost alone, when the
\* call ends with an error that is not a verdict on the transaction.
FilesAreRemoved ==
    [][left' # left => backend = "blockfrost" /\ verdict' = "error" /\ left' = left \cup {calls}]_vars

\* An evaluation is blamed on the release only if it understood no form, and
\* on the transaction only if it understood one; what it costs is kept under
\* the right redeemer when every entry names one, or none is missing.
EvaluationsAreTrue ==
    /\ step = None /\ verdict = "cli_error" => "failure" \notin {told.errors[i] : i \in 1..Len(told.errors)}
    /\ step = None /\ verdict = "failed" /\ Len(told.errors) = 3 => forms # {}
    /\ \A n \in 0..3 : \A present, named \in SUBSET (1..n) :
          LET redeemers == [i \in 1..n |-> i]
              Entry(r) == [name |-> IF r \in named THEN r ELSE None, units |-> r]
              Rank(r) == Cardinality({s \in present : s <= r})
              payload == [i \in 1..Cardinality(present) |->
                            Entry(CHOOSE r \in present : Rank(r) = i)]
          IN  present = 1..n \/ present \subseteq named =>
                 CliCosts(payload, redeemers) = {[r \in present |-> r]}
    /\ \A purpose \in DOMAIN Tag :
          /\ purpose \in {"spend", "mint", "withdraw"} => KoiosTag(purpose) = OgmiosTag(purpose)
          /\ purpose \notin {"vote", "propose"} => YaciTag(purpose) = OgmiosTag(purpose)

=============================================================================

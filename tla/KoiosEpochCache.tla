-------------------------- MODULE KoiosEpochCache --------------------------
(***************************************************************************)
(* The cached properties of KoiosChainContext.                             *)
(*                                                                         *)
(* They are laid out as in the Blockfrost context, with two differences.   *)
(* _check_epoch_and_update replaces _epoch_info, a record with an end_time, *)
(* by the bare number of the new epoch, so that the next check finds no    *)
(* end_time to compare and raises TypeError.  And protocol_param reads the *)
(* epoch property on its way, with a check of its own.                     *)
(***************************************************************************)
EXTENDS EpochService

CONSTANTS
    None,   \* nothing cached
    Number  \* an _epoch_info that is an int

Getters == {"epoch", "genesis_param", "protocol_param"}

ASSUME NoneAssumption == None \notin Nat
ASSUME NumberAssumption == Number \notin Nat

VARIABLES
    epochInfo,  \* _epoch_info: the epoch whose end_time is compared, or Number
    cached,     \* _epoch, _genesis_param and _protocol_param
    pc,         \* "idle", or what the current call does next
    getter,     \* the property being read
    asOf,       \* the epoch the service reported when the call began
    answer,     \* the last answer: its property, its epoch and that call's asOf
    typeErrors  \* properties whose reading has raised TypeError

ctxVars == <<epochInfo, cached, pc, getter, asOf, answer, typeErrors>>
vars == <<serviceVars, ctxVars>>

\* The constructor fetches the tip's epoch and that epoch's record.
Init ==
    /\ ServiceInit
    /\ epochInfo = chain
    /\ cached = [g \in Getters |-> IF g = "epoch" THEN chain ELSE None]
    /\ pc = "idle"
    /\ getter = "epoch"
    /\ asOf = chain
    /\ answer = [getter |-> "epoch", value |-> chain, asOf |-> chain]
    /\ typeErrors = {}

\* "not self._epoch": epoch 0 is as good as no epoch.
Missing(g) == cached[g] = None \/ (g = "epoch" /\ cached[g] = 0)

NoEndTime == epochInfo = Number
Ended == ~NoEndTime /\ clock > epochInfo
Lasts == ~NoEndTime /\ clock <= epochInfo

\* Where a property continues once it has decided to fetch: protocol_param
\* needs the epoch property for the arguments of its request.
Refetch(g) == IF g = "protocol_param" THEN "nested" ELSE "fetch"

Answer(g, value, began) ==
    answer' = [getter |-> g, value |-> value, asOf |-> began]

Begin(g, next) ==
    /\ pc = "idle"
    /\ getter' = g
    /\ asOf' = chain
    /\ pc' = next

ReadMissing(g) ==
    /\ Missing(g)
    /\ Begin(g, Refetch(g))
    /\ UNCHANGED <<serviceVars, epochInfo, cached, answer, typeErrors>>

ReadCached(g) ==
    /\ ~Missing(g) /\ Lasts
    /\ Begin(g, "idle")
    /\ Answer(g, cached[g], chain)
    /\ UNCHANGED <<serviceVars, epochInfo, cached, typeErrors>>

ReadEnded(g) ==
    /\ ~Missing(g) /\ Ended
    /\ Begin(g, "check")
    /\ UNCHANGED <<serviceVars, epochInfo, cached, answer, typeErrors>>

\* _epoch_info["end_time"] of an int.
ReadRaises(g) ==
    /\ ~Missing(g) /\ NoEndTime
    /\ Begin(g, "idle")
    /\ typeErrors' = typeErrors \cup {g}
    /\ UNCHANGED <<serviceVars, epochInfo, cached, answer>>

\* Faulty form: a record of the new epoch, as in the Blockfrost context.
UpdatedRecord == chain

\* The get_tip() of _check_epoch_and_update answers, with the epoch's number.
Updated == Number

CheckAnswers ==
    /\ pc = "check"
    /\ epochInfo' = Updated
    /\ pc' = Refetch(getter)
    /\ UNCHANGED <<serviceVars, cached, getter, asOf, answer, typeErrors>>

\* protocol_param evaluates self.epoch.
NestedEpoch ==
    /\ pc = "nested"
    /\ \/ /\ Missing("epoch")
          /\ pc' = "nestedFetch"
          /\ UNCHANGED typeErrors
       \/ /\ ~Missing("epoch") /\ Lasts
          /\ pc' = "fetch"
          /\ UNCHANGED typeErrors
       \/ /\ ~Missing("epoch") /\ Ended
          /\ pc' = "nestedCheck"
          /\ UNCHANGED typeErrors
       \/ /\ ~Missing("epoch") /\ NoEndTime
          /\ pc' = "idle"
          /\ typeErrors' = typeErrors \cup {getter}
    /\ UNCHANGED <<serviceVars, epochInfo, cached, getter, asOf, answer>>

NestedCheckAnswers ==
    /\ pc = "nestedCheck"
    /\ epochInfo' = Updated
    /\ pc' = "nestedFetch"
    /\ UNCHANGED <<serviceVars, cached, getter, asOf, answer, typeErrors>>

NestedFetchAnswers ==
    /\ pc = "nestedFetch"
    /\ cached' = [cached EXCEPT !["epoch"] = chain]
    /\ pc' = "fetch"
    /\ UNCHANGED <<serviceVars, epochInfo, getter, asOf, answer, typeErrors>>

\* Faulty form: the latest parameters.
FetchedLatest == chain

\* get_epoch_params(epoch_no=self.epoch) answers for the epoch it is asked
\* for; the other two requests for the latest.
Fetched == IF getter = "protocol_param" THEN cached["epoch"] ELSE chain

FetchAnswers ==
    /\ pc = "fetch"
    /\ cached' = [cached EXCEPT ![getter] = Fetched]
    /\ Answer(getter, Fetched, asOf)
    /\ pc' = "idle"
    /\ UNCHANGED <<serviceVars, epochInfo, getter, asOf, typeErrors>>

\* A request raises, and with it the property; nothing is undone.
RequestFails ==
    /\ pc \in {"check", "nestedCheck", "nestedFetch", "fetch"}
    /\ pc' = "idle"
    /\ UNCHANGED <<serviceVars, epochInfo, cached, getter, asOf, answer, typeErrors>>

Next ==
    \/ ServiceNext /\ UNCHANGED ctxVars
    \/ \E g \in Getters :
        ReadMissing(g) \/ ReadCached(g) \/ ReadEnded(g) \/ ReadRaises(g)
    \/ CheckAnswers
    \/ NestedEpoch \/ NestedCheckAnswers \/ NestedFetchAnswers
    \/ FetchAnswers
    \/ RequestFails

Spec == Init /\ [][Next]_vars

-----------------------------------------------------------------------------
TypeOK ==
    /\ ServiceTypeOK
    /\ epochInfo \in Epochs \cup {Number}
    /\ cached \in [Getters -> Epochs \cup {None}]
    /\ cached["epoch"] # None
    /\ pc \in {"idle", "check", "nested", "nestedCheck", "nestedFetch", "fetch"}
    /\ getter \in Getters
    /\ asOf \in Epochs
    /\ answer \in [getter : Getters, value : Epochs, asOf : Epochs]
    /\ typeErrors \subseteq Getters

\* An epoch or a set of protocol parameters is never older than what the
\* service reported when the property was read, whichever properties are
\* read and whichever requests fail: an end that one property has consumed
\* makes the others raise, not answer from the epoch before.
AnswersAreCurrent ==
    answer.getter # "genesis_param" => answer.value >= answer.asOf

\* The parameters cached are never those of a later epoch than the epoch
\* property is at: they were requested for it.
ParamsFollowEpoch ==
    cached["protocol_param"] # None => cached["protocol_param"] <= cached["epoch"]

\* A property that is read answers, or fails with the request it made.
NeverTypeError == typeErrors = {}

=============================================================================

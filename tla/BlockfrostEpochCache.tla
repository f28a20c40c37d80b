------------------------ MODULE BlockfrostEpochCache ------------------------
(***************************************************************************)
(* The three cached properties of BlockFrostChainContext.                  *)
(*                                                                         *)
(* epoch, genesis_param and protocol_param each keep the last answer of    *)
(* the service, and all three ask _check_epoch_and_update whether it is    *)
(* out of date.  That method says so once per epoch: it moves _epoch_info  *)
(* on, and the next property that asks is told nothing has changed.        *)
(*                                                                         *)
(* One caller uses the context; every request of a call is a step of its   *)
(* own, for the service may move on in between.  A set of parameters is    *)
(* abstracted to the epoch it was read in.                                 *)
(***************************************************************************)
EXTENDS EpochService

CONSTANT None  \* nothing cached

ASSUME NoneAssumption == None \notin Nat

Getters == {"epoch", "genesis_param", "protocol_param"}

VARIABLES
    epochInfo,  \* _epoch_info: the epoch whose end_time is compared
    cached,     \* _epoch, _genesis_param and _protocol_param
    pc,         \* "idle", or the request the current call makes next
    getter,     \* the property being read
    asOf,       \* the epoch the service reported when the call began
    answer,     \* the last answer: its property, its epoch and that call's asOf
    used,       \* the properties read so far
    failed      \* whether a request has failed so far

ctxVars == <<epochInfo, cached, pc, getter, asOf, answer, used, failed>>
vars == <<serviceVars, ctxVars>>

\* The constructor fetches the latest epoch and nothing else.
Init ==
    /\ ServiceInit
    /\ epochInfo = chain
    /\ cached = [g \in Getters |-> IF g = "epoch" THEN chain ELSE None]
    /\ pc = "idle"
    /\ getter = "epoch"
    /\ asOf = chain
    /\ answer = [getter |-> "epoch", value |-> chain, asOf |-> chain]
    /\ used = {}
    /\ failed = FALSE

\* "not self._epoch": epoch 0 is as good as no epoch.
Missing(g) == cached[g] = None \/ (g = "epoch" /\ cached[g] = 0)

\* Faulty form: an epoch late.
EndedLate == clock > epochInfo + 1

Ended == clock > epochInfo

Answer(g, value, began) ==
    answer' = [getter |-> g, value |-> value, asOf |-> began]

Begin(g, next) ==
    /\ pc = "idle"
    /\ getter' = g
    /\ asOf' = chain
    /\ pc' = next
    /\ used' = used \cup {g}

\* Nothing cached: fetch, without asking whether the epoch has ended.
ReadMissing(g) ==
    /\ Missing(g)
    /\ Begin(g, "fetch")
    /\ UNCHANGED <<serviceVars, epochInfo, cached, answer, failed>>

\* _check_epoch_and_update returns False: answer from the cache.
ReadCached(g) ==
    /\ ~Missing(g) /\ ~Ended
    /\ Begin(g, "idle")
    /\ Answer(g, cached[g], chain)
    /\ UNCHANGED <<serviceVars, epochInfo, cached, failed>>

\* It finds the epoch over and goes on to request the latest one.
ReadEnded(g) ==
    /\ ~Missing(g) /\ Ended
    /\ Begin(g, "check")
    /\ UNCHANGED <<serviceVars, epochInfo, cached, answer, failed>>

\* Faulty form: the caches dropped before anything is fetched.
CheckAnswersDrops ==
    /\ pc = "check"
    /\ epochInfo' = chain
    /\ cached' = [g \in Getters |-> None]
    /\ pc' = "fetch"
    /\ UNCHANGED <<serviceVars, getter, asOf, answer, used, failed>>

\* api.epoch_latest() answers; _check_epoch_and_update returns True.
CheckAnswers ==
    /\ pc = "check"
    /\ epochInfo' = chain
    /\ pc' = "fetch"
    /\ UNCHANGED <<serviceVars, cached, getter, asOf, answer, used, failed>>

\* Faulty form: the answer is not cached.
FetchUncached ==
    /\ pc = "fetch"
    /\ Answer(getter, chain, asOf)
    /\ pc' = "idle"
    /\ UNCHANGED <<serviceVars, epochInfo, cached, getter, asOf, used, failed>>

\* api.epoch_latest(), api.genesis() or api.epoch_latest_parameters() answers.
FetchAnswers ==
    /\ pc = "fetch"
    /\ cached' = [cached EXCEPT ![getter] = chain]
    /\ Answer(getter, chain, asOf)
    /\ pc' = "idle"
    /\ UNCHANGED <<serviceVars, epochInfo, getter, asOf, used, failed>>

\* The request raises, and with it the property; nothing is undone.
RequestFails ==
    /\ pc \in {"check", "fetch"}
    /\ pc' = "idle"
    /\ failed' = TRUE
    /\ UNCHANGED <<serviceVars, epochInfo, cached, getter, asOf, answer, used>>

Next ==
    \/ ServiceNext /\ UNCHANGED ctxVars
    \/ \E g \in Getters : ReadMissing(g) \/ ReadCached(g) \/ ReadEnded(g)
    \/ CheckAnswers
    \/ FetchAnswers
    \/ RequestFails

Spec == Init /\ [][Next]_vars

-----------------------------------------------------------------------------
TypeOK ==
    /\ ServiceTypeOK
    /\ epochInfo \in Epochs
    /\ cached \in [Getters -> Epochs \cup {None}]
    /\ pc \in {"idle", "check", "fetch"}
    /\ getter \in Getters
    /\ asOf \in Epochs
    /\ answer \in [getter : Getters, value : Epochs, asOf : Epochs]
    /\ used \subseteq Getters
    /\ failed \in BOOLEAN

\* A caller of one property alone whose requests succeed never gets an epoch
\* or a set of protocol parameters older than the service reported when the
\* property was read.  (Genesis never changes.)  A caller of two may: the
\* property that learns of the end first keeps it from the other.
SoleReader == ~failed /\ \E g \in Getters : used \subseteq {g}

AnswersAreCurrent ==
    SoleReader /\ answer.getter # "genesis_param" => answer.value >= answer.asOf

\* Whatever is read, while requests succeed an epoch's end is never lost on
\* everyone: some cached property is as recent as _epoch_info.
EndIsSeen ==
    ~failed /\ pc # "fetch" => \E g \in Getters : cached[g] # None /\ cached[g] >= epochInfo

\* A property never answers with an older epoch than it has answered before,
\* whichever of its requests fail.
AnswersNeverRegress ==
    [][\A g \in Getters :
         cached[g] # None => cached'[g] # None /\ cached'[g] >= cached[g]]_vars

=============================================================================

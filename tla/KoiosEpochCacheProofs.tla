------------------------ MODULE KoiosEpochCacheProofs ------------------------
(***************************************************************************)
(* Proofs about KoiosEpochCache, for any number of epochs and whether or   *)
(* not requests fail.                                                      *)
(***************************************************************************)
EXTENDS KoiosEpochCache, TLAPS

\* The state stays in its type.
THEOREM TypeCorrect == Spec => []TypeOK
<1> USE MaxEpochAssumption, NoneAssumption, NumberAssumption
<1>1. Init => TypeOK
  BY DEF Init, ServiceInit, TypeOK, ServiceTypeOK, Epochs, Getters
<1>2. TypeOK /\ [Next]_vars => TypeOK'
  <2> SUFFICES ASSUME TypeOK, [Next]_vars PROVE TypeOK'
    OBVIOUS
  <2> USE DEF TypeOK, ServiceTypeOK, Epochs, serviceVars, ctxVars, Begin, Answer
  <2>1. CASE ServiceNext /\ UNCHANGED ctxVars
    BY <2>1 DEF ServiceNext, ClockTicks, ServiceCatchesUp
  <2>2. ASSUME NEW g \in Getters, ReadMissing(g) PROVE TypeOK'
    BY <2>2 DEF ReadMissing, Refetch
  <2>3. ASSUME NEW g \in Getters, ReadCached(g) PROVE TypeOK'
    BY <2>3 DEF ReadCached, Missing
  <2>4. ASSUME NEW g \in Getters, ReadEnded(g) PROVE TypeOK'
    BY <2>4 DEF ReadEnded
  <2>5. ASSUME NEW g \in Getters, ReadRaises(g) PROVE TypeOK'
    BY <2>5 DEF ReadRaises
  <2>6. CASE CheckAnswers
    BY <2>6 DEF CheckAnswers, Updated, Refetch
  <2>7. CASE NestedEpoch
    BY <2>7 DEF NestedEpoch
  <2>8. CASE NestedCheckAnswers
    BY <2>8 DEF NestedCheckAnswers, Updated
  <2>9. CASE NestedFetchAnswers
    BY <2>9 DEF NestedFetchAnswers, Getters
  <2>10. CASE FetchAnswers
    BY <2>10 DEF FetchAnswers, Fetched, Getters
  <2>11. CASE RequestFails
    BY <2>11 DEF RequestFails
  <2>12. CASE UNCHANGED vars
    BY <2>12 DEF vars
  <2> QED
    BY <2>1, <2>2, <2>3, <2>4, <2>5, <2>6, <2>7, <2>8, <2>9, <2>10, <2>11, <2>12
    DEF Next
<1> QED BY <1>1, <1>2, PTL DEF Spec

-----------------------------------------------------------------------------
(***************************************************************************)
(* The strengthening.  What is cached was reported by the service; and as  *)
(* long as _epoch_info has an end_time, it is still the constructor's and  *)
(* every property cached is at least as recent.  A request for parameters  *)
(* is under way only for an epoch that is not older than the call.         *)
(***************************************************************************)
Reported ==
    /\ chain <= clock
    /\ asOf <= chain
    /\ \A g \in Getters : cached[g] # None => cached[g] <= chain

Recent ==
    /\ epochInfo # Number =>
          /\ epochInfo <= cached["epoch"]
          /\ cached["protocol_param"] # None => epochInfo <= cached["protocol_param"]
    /\ pc = "fetch" /\ getter = "protocol_param" => asOf <= cached["epoch"]

IInv == Reported /\ Recent /\ AnswersAreCurrent /\ ParamsFollowEpoch

LEMMA IInvInitially == Init => IInv
  BY MaxEpochAssumption, NoneAssumption
  DEF Init, ServiceInit, IInv, Reported, Recent, AnswersAreCurrent,
      ParamsFollowEpoch, Getters

\* Time passes for a call under way.
LEMMA IInvService ==
    TypeOK /\ IInv /\ ServiceNext /\ UNCHANGED ctxVars => IInv'
  BY NoneAssumption, NumberAssumption, MaxEpochAssumption
  DEF TypeOK, ServiceTypeOK, Epochs, IInv, Reported, Recent, AnswersAreCurrent,
      ParamsFollowEpoch, ServiceNext, ClockTicks, ServiceCatchesUp, ctxVars,
      serviceVars, Getters

LEMMA IInvStep == TypeOK /\ IInv /\ [Next]_vars => IInv'
<1> SUFFICES ASSUME TypeOK, IInv, [Next]_vars PROVE IInv'
  OBVIOUS
<1> USE NoneAssumption, NumberAssumption, MaxEpochAssumption
    DEF TypeOK, ServiceTypeOK, Epochs, IInv, Reported, Recent, AnswersAreCurrent,
        ParamsFollowEpoch, Getters, serviceVars, ctxVars, Begin, Answer
<1>1. CASE ServiceNext /\ UNCHANGED ctxVars
  BY <1>1, IInvService
<1>2. ASSUME NEW g \in Getters, ReadMissing(g) PROVE IInv'
  BY <1>2 DEF ReadMissing, Refetch
<1>3. ASSUME NEW g \in Getters, ReadCached(g) PROVE IInv'
  <2>1. epochInfo # Number /\ clock <= epochInfo /\ cached[g] # None
    BY <1>3 DEF ReadCached, Missing, Lasts, NoEndTime
  <2>2. g # "genesis_param" => cached[g] >= chain
    BY <2>1
  <2> QED BY <1>3, <2>2 DEF ReadCached
<1>4. ASSUME NEW g \in Getters, ReadEnded(g) \/ ReadRaises(g) PROVE IInv'
  BY <1>4 DEF ReadEnded, ReadRaises
<1>5. CASE CheckAnswers
  BY <1>5 DEF CheckAnswers, Updated, Refetch
<1>6. CASE NestedEpoch
  <2>1. pc' = "fetch" => cached["epoch"] >= asOf
    BY <1>6 DEF NestedEpoch, Lasts, NoEndTime
  <2> QED BY <1>6, <2>1 DEF NestedEpoch
<1>7. CASE NestedCheckAnswers
  BY <1>7 DEF NestedCheckAnswers, Updated
<1>8. CASE NestedFetchAnswers
  BY <1>8 DEF NestedFetchAnswers
<1>9. CASE FetchAnswers
  <2>1. CASE getter = "protocol_param"
    BY <1>9, <2>1 DEF FetchAnswers, Fetched
  <2>2. CASE getter # "protocol_param"
    BY <1>9, <2>2 DEF FetchAnswers, Fetched
  <2> QED BY <2>1, <2>2
<1>10. CASE RequestFails
  BY <1>10 DEF RequestFails
<1>11. CASE UNCHANGED vars
  BY <1>11 DEF vars
<1> QED
  BY <1>1, <1>2, <1>3, <1>4, <1>5, <1>6, <1>7, <1>8, <1>9, <1>10, <1>11 DEF Next

\* No answer is from an epoch before the one the service reported when the
\* property was read, whatever is read and whatever fails: once the end of
\* an epoch was noticed, the next check raises.
THEOREM AnswersAreCurrentAlways == Spec => []AnswersAreCurrent
<1>1. IInv => AnswersAreCurrent
  BY DEF IInv
<1> QED BY <1>1, IInvInitially, IInvStep, TypeCorrect, PTL DEF Spec

\* Parameters are those of the epoch property, or of an earlier epoch.
THEOREM ParamsFollowEpochAlways == Spec => []ParamsFollowEpoch
<1>1. IInv => ParamsFollowEpoch
  BY DEF IInv
<1> QED BY <1>1, IInvInitially, IInvStep, TypeCorrect, PTL DEF Spec

=============================================================================

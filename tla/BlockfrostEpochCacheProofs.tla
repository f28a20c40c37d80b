--------------------- MODULE BlockfrostEpochCacheProofs ---------------------
(***************************************************************************)
(* Proofs about BlockfrostEpochCache, for any number of epochs.            *)
(***************************************************************************)
EXTENDS BlockfrostEpochCache, TLAPS

\* The state stays in its type.
THEOREM TypeCorrect == Spec => []TypeOK
<1> USE MaxEpochAssumption, NoneAssumption
<1>1. Init => TypeOK
  <2> SUFFICES ASSUME Init PROVE TypeOK
    OBVIOUS
  <2> USE DEF Init, ServiceInit, Epochs, Getters
  <2>1. ServiceTypeOK
    BY DEF ServiceTypeOK
  <2>2. cached \in [Getters -> Epochs \cup {None}]
    OBVIOUS
  <2>3. answer \in [getter : Getters, value : Epochs, asOf : Epochs]
    OBVIOUS
  <2> QED BY <2>1, <2>2, <2>3 DEF TypeOK
<1>2. TypeOK /\ [Next]_vars => TypeOK'
  <2> SUFFICES ASSUME TypeOK, [Next]_vars PROVE TypeOK'
    OBVIOUS
  <2> USE DEF TypeOK, ServiceTypeOK, Epochs, serviceVars, ctxVars, Begin, Answer
  <2>1. CASE ClockTicks /\ UNCHANGED ctxVars
    BY <2>1 DEF ClockTicks
  <2>2. CASE ServiceCatchesUp /\ UNCHANGED ctxVars
    BY <2>2 DEF ServiceCatchesUp
  <2>3. ASSUME NEW g \in Getters, ReadMissing(g) PROVE TypeOK'
    BY <2>3 DEF ReadMissing
  <2>4. ASSUME NEW g \in Getters, ReadCached(g) PROVE TypeOK'
    BY <2>4 DEF ReadCached, Missing
  <2>5. ASSUME NEW g \in Getters, ReadEnded(g) PROVE TypeOK'
    BY <2>5 DEF ReadEnded
  <2>6. CASE CheckAnswers
    BY <2>6 DEF CheckAnswers
  <2>7. CASE FetchAnswers
    BY <2>7 DEF FetchAnswers
  <2>8. CASE RequestFails
    BY <2>8 DEF RequestFails
  <2>9. CASE UNCHANGED vars
    BY <2>9 DEF vars
  <2> QED
    BY <2>1, <2>2, <2>3, <2>4, <2>5, <2>6, <2>7, <2>8, <2>9 DEF Next, ServiceNext
<1> QED BY <1>1, <1>2, PTL DEF Spec

-----------------------------------------------------------------------------
(***************************************************************************)
(* No step of the context goes back in time: the service never does, and   *)
(* what is cached, checked and begun was reported by it.                   *)
(***************************************************************************)
Reported ==
    /\ chain <= clock
    /\ epochInfo <= chain
    /\ asOf <= chain
    /\ \A g \in Getters : cached[g] # None => cached[g] <= chain

LEMMA ReportedInitially == Init => Reported
  BY MaxEpochAssumption, NoneAssumption
  DEF Init, ServiceInit, Reported, Getters

LEMMA ReportedStep == TypeOK /\ Reported /\ [Next]_vars => Reported'
<1> SUFFICES ASSUME TypeOK, Reported, [Next]_vars PROVE Reported'
  OBVIOUS
<1> USE NoneAssumption, MaxEpochAssumption
    DEF TypeOK, ServiceTypeOK, Epochs, Reported, serviceVars, ctxVars, Begin
<1>1. CASE ServiceNext /\ UNCHANGED ctxVars
  BY <1>1 DEF ServiceNext, ClockTicks, ServiceCatchesUp
<1>2. ASSUME NEW g \in Getters, ReadMissing(g) \/ ReadCached(g) \/ ReadEnded(g)
      PROVE Reported'
  BY <1>2 DEF ReadMissing, ReadCached, ReadEnded
<1>3. CASE CheckAnswers
  BY <1>3 DEF CheckAnswers
<1>4. CASE FetchAnswers
  BY <1>4 DEF FetchAnswers
<1>5. CASE RequestFails
  BY <1>5 DEF RequestFails
<1>6. CASE UNCHANGED vars
  BY <1>6 DEF vars
<1> QED BY <1>1, <1>2, <1>3, <1>4, <1>5, <1>6 DEF Next

\* Whatever is read and whatever fails, a property never answers with an
\* older epoch than before: a failed request leaves the old answer in place,
\* a successful one brings a newer.
THEOREM AnswersNeverRegressAlways == Spec => AnswersNeverRegress
<1> DEFINE Kept ==
        \A g \in Getters :
          cached[g] # None => cached'[g] # None /\ cached'[g] >= cached[g]
<1>1. TypeOK /\ Reported /\ [Next]_vars => [Kept]_vars
  <2> SUFFICES ASSUME TypeOK, Reported, Next PROVE Kept
    BY DEF vars
  <2> USE NoneAssumption, MaxEpochAssumption
      DEF TypeOK, ServiceTypeOK, Epochs
  <2>1. CASE FetchAnswers
    BY <2>1 DEF FetchAnswers, Reported
  <2>2. ASSUME cached' = cached PROVE Kept
    BY <2>2
  <2>3. CASE ~FetchAnswers
    BY <2>3, <2>2 DEF Next, ctxVars, ReadMissing, ReadCached, ReadEnded,
                      CheckAnswers, RequestFails
  <2> QED BY <2>1, <2>3
<1> QED
  BY <1>1, TypeCorrect, ReportedInitially, ReportedStep, PTL DEF Spec, AnswersNeverRegress

-----------------------------------------------------------------------------
(***************************************************************************)
(* A caller that has read one property and met no failure.  The check and  *)
(* the fetch then always came in pairs: outside a call, what is cached is  *)
(* as recent as the epoch whose end is looked for.                         *)
(***************************************************************************)
SoleInv ==
    /\ pc # "idle" => getter \in used
    /\ SoleReader => \A g \in used :
          pc # "fetch" /\ cached[g] # None => cached[g] >= epochInfo
    /\ used = {} => cached["epoch"] >= epochInfo /\ pc = "idle"
                    /\ \A g \in Getters \ {"epoch"} : cached[g] = None
    /\ AnswersAreCurrent

LEMMA SoleInvInitially == Init => SoleInv
  BY MaxEpochAssumption
  DEF Init, ServiceInit, SoleInv, SoleReader, AnswersAreCurrent, Getters

LEMMA SoleInvStep == TypeOK /\ Reported /\ SoleInv /\ [Next]_vars => SoleInv'
<1> SUFFICES ASSUME TypeOK, Reported, SoleInv, [Next]_vars PROVE SoleInv'
  OBVIOUS
<1> USE NoneAssumption, MaxEpochAssumption
    DEF TypeOK, ServiceTypeOK, Epochs, SoleInv, AnswersAreCurrent, SoleReader,
        serviceVars, ctxVars, Begin, Answer
<1>1. CASE ServiceNext /\ UNCHANGED ctxVars
  BY <1>1
<1>2. ASSUME NEW g \in Getters, ReadMissing(g) PROVE SoleInv'
  BY <1>2 DEF ReadMissing, Missing
<1>3. ASSUME NEW g \in Getters, ReadCached(g) PROVE SoleInv'
  <2>1. cached[g] # None /\ clock <= epochInfo
    BY <1>3 DEF ReadCached, Missing, Ended
  <2>2. SoleReader' => cached[g] >= epochInfo
    BY <1>3, <2>1 DEF ReadCached
  <2>3. SoleReader' => cached[g] >= chain
    BY <2>1, <2>2 DEF Reported
  <2> QED BY <1>3, <2>2, <2>3 DEF ReadCached
<1>4. ASSUME NEW g \in Getters, ReadEnded(g) PROVE SoleInv'
  BY <1>4 DEF ReadEnded, Missing
<1>5. CASE CheckAnswers
  BY <1>5 DEF CheckAnswers
<1>6. CASE FetchAnswers
  BY <1>6 DEF FetchAnswers, Reported
<1>7. CASE RequestFails
  BY <1>7 DEF RequestFails
<1>8. CASE UNCHANGED vars
  BY <1>8 DEF vars
<1> QED BY <1>1, <1>2, <1>3, <1>4, <1>5, <1>6, <1>7, <1>8 DEF Next

\* "keeps PyCardano's semantics": a caller of one property alone, whose
\* requests succeed, never gets an answer from an epoch before the one the
\* service reported when it asked.
THEOREM AnswersAreCurrentAlways == Spec => []AnswersAreCurrent
<1>1. SoleInv => AnswersAreCurrent
  BY DEF SoleInv
<1> QED
  BY <1>1, SoleInvInitially, SoleInvStep, TypeCorrect, ReportedInitially,
     ReportedStep, PTL DEF Spec

-----------------------------------------------------------------------------
\* Any readers whose requests succeed: the end of an epoch reaches at least
\* one of the cached properties, for the property that consumed the check
\* goes on to fetch.
THEOREM EndIsSeenAlways == Spec => []EndIsSeen
<1> USE NoneAssumption, MaxEpochAssumption
    DEF TypeOK, ServiceTypeOK, Epochs, EndIsSeen
<1>1. Init => EndIsSeen
  BY DEF Init, ServiceInit, Getters
<1>2. TypeOK /\ Reported /\ EndIsSeen /\ [Next]_vars => EndIsSeen'
  <2> SUFFICES ASSUME TypeOK, Reported, EndIsSeen, [Next]_vars PROVE EndIsSeen'
    OBVIOUS
  <2> USE DEF serviceVars, ctxVars, Begin
  <2>1. CASE ServiceNext /\ UNCHANGED ctxVars
    BY <2>1
  <2>2. ASSUME NEW g \in Getters, ReadMissing(g) PROVE EndIsSeen'
    BY <2>2 DEF ReadMissing
  <2>3. ASSUME NEW g \in Getters, ReadCached(g) \/ ReadEnded(g) PROVE EndIsSeen'
    BY <2>3 DEF ReadCached, ReadEnded
  <2>4. CASE CheckAnswers
    BY <2>4 DEF CheckAnswers
  <2>5. CASE FetchAnswers
    <3>1. cached'[getter] = chain /\ epochInfo' = epochInfo
      BY <2>5 DEF FetchAnswers
    <3>2. cached'[getter] # None /\ cached'[getter] >= epochInfo'
      BY <3>1 DEF Reported
    <3> QED BY <3>2
  <2>6. CASE RequestFails
    BY <2>6 DEF RequestFails
  <2>7. CASE UNCHANGED vars
    BY <2>7 DEF vars
  <2> QED BY <2>1, <2>2, <2>3, <2>4, <2>5, <2>6, <2>7 DEF Next
<1> QED
  BY <1>1, <1>2, TypeCorrect, ReportedInitially, ReportedStep, PTL DEF Spec

=============================================================================

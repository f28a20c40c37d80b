------------------------- MODULE OgmiosClientProofs -------------------------
(***************************************************************************)
(* Proofs about OgmiosClient, for any set of threads and number of calls.  *)
(***************************************************************************)
EXTENDS OgmiosClient, TLAPS

\* The state stays in its type.
THEOREM TypeCorrect == Spec => []TypeOK
<1> USE NoneAssumption, MaxCallsAssumption
<1>1. Init => TypeOK
  BY DEF Init, TypeOK, Known
<1>2. TypeOK /\ [Next]_vars => TypeOK'
  <2> SUFFICES ASSUME TypeOK, [Next]_vars PROVE TypeOK'
    OBVIOUS
  <2> USE DEF TypeOK, Known, Goto, Call
  <2>1. ASSUME NEW t \in Threads, FirstCheck(t) PROVE TypeOK'
    BY <2>1 DEF FirstCheck
  <2>2. ASSUME NEW t \in Threads, Acquire(t) PROVE TypeOK'
    BY <2>2 DEF Acquire
  <2>3. ASSUME NEW t \in Threads, Create(t) PROVE TypeOK'
    BY <2>3 DEF Create
  <2>4. ASSUME NEW t \in Threads, FindCreated(t) PROVE TypeOK'
    BY <2>4 DEF FindCreated
  <2>5. ASSUME NEW t \in Threads, CreateFails(t) PROVE TypeOK'
    BY <2>5 DEF CreateFails
  <2>6. ASSUME NEW t \in Threads, Return(t) PROVE TypeOK'
    BY <2>6 DEF Return
  <2>7. ASSUME NEW t \in Threads, Request(t) PROVE TypeOK'
    BY <2>7 DEF Request
  <2>8. ASSUME NEW t \in Threads, BeginClose(t) PROVE TypeOK'
    BY <2>8 DEF BeginClose
  <2>9. ASSUME NEW t \in Threads, Swap(t) PROVE TypeOK'
    BY <2>9 DEF Swap
  <2>10. ASSUME NEW t \in Threads, CloseClient(t) PROVE TypeOK'
    BY <2>10 DEF CloseClient
  <2>11. CASE UNCHANGED vars
    BY <2>11 DEF vars
  <2> QED
    BY <2>1, <2>2, <2>3, <2>4, <2>5, <2>6, <2>7, <2>8, <2>9, <2>10, <2>11
    DEF Next, Begins, Continues
<1> QED BY <1>1, <1>2, PTL DEF Spec

-----------------------------------------------------------------------------
(***************************************************************************)
(* Closing.  A number is given to one client only, so a client just made   *)
(* was never closed; and what a close() takes out nobody else can take.    *)
(***************************************************************************)
LEMMA CreateIsFresh ==
    ASSUME TypeOK, NEW t \in Threads, Create(t)
    PROVE  /\ ogmios' \notin closed
           /\ ogmios' \notin Known
           /\ Known' = Known \cup {ogmios'}
<1>1. ogmios' = created + 1 /\ created' = created + 1 /\ created \in Nat
  BY DEF Create, TypeOK
<1>2. Known' = Known \cup {created + 1} /\ created + 1 \notin Known
  BY <1>1 DEF Known
<1> QED BY <1>1, <1>2 DEF TypeOK, Known

\* No close() closes a client twice or under another's hands, and the context
\* never keeps a closed one.
THEOREM ClosedOnceAlways == Spec => []ClosedOnce
<1>1. Init => ClosedOnce
  BY DEF Init, ClosedOnce
<1>2. TypeOK /\ ClosedOnce /\ [Next]_vars => ClosedOnce'
  <2> SUFFICES ASSUME TypeOK, ClosedOnce, [Next]_vars PROVE ClosedOnce'
    OBVIOUS
  <2> USE NoneAssumption DEF TypeOK, ClosedOnce, Goto, Call
  <2>1. ASSUME NEW t \in Threads, FirstCheck(t) \/ BeginClose(t) PROVE ClosedOnce'
    BY <2>1 DEF FirstCheck, BeginClose
  <2>2. ASSUME NEW t \in Threads, Acquire(t) \/ FindCreated(t) \/ CreateFails(t)
        PROVE ClosedOnce'
    BY <2>2 DEF Acquire, FindCreated, CreateFails
  <2>3. ASSUME NEW t \in Threads, Create(t) PROVE ClosedOnce'
    <3>1. /\ closed' = closed /\ held' = held
          /\ pc' = [pc EXCEPT ![t] = "return"]
      BY <2>3 DEF Create
    <3>2. ogmios' \notin closed /\ ogmios' \notin Known
      BY <2>3, CreateIsFresh
    <3>3. \A u \in Threads : held[u] # ogmios' \/ held[u] = None
      BY <3>2
    <3> QED BY <3>1, <3>2, <3>3
  <2>4. ASSUME NEW t \in Threads, Return(t) \/ Request(t) PROVE ClosedOnce'
    BY <2>4 DEF Return, Request
  <2>5. ASSUME NEW t \in Threads, Swap(t) PROVE ClosedOnce'
    <3>1. /\ closed' = closed /\ ogmios' = None
          /\ pc' = [pc EXCEPT ![t] = "close"]
          /\ held' = [held EXCEPT ![t] = ogmios]
      BY <2>5 DEF Swap
    <3>2. None \notin closed
      <4>1. closed \subseteq Nat
        BY DEF Known
      <4> QED BY <4>1
    <3>3. ASSUME NEW u \in Threads, NEW v \in Threads,
                 pc'[u] = "close", pc'[v] = "close", held'[u] # None
          PROVE  held'[u] \notin closed \cup {None} /\ (held'[u] = held'[v] => u = v)
      <4>1. CASE u = t
        <5>1. held'[u] = ogmios /\ ogmios \notin closed
          BY <3>1, <4>1
        <5>2. v # t => held'[v] = held[v] /\ (held[v] = None \/ held[v] # ogmios)
          BY <3>1, <3>3
        <5> QED BY <3>3, <4>1, <5>1, <5>2
      <4>2. CASE u # t
        <5>1. held'[u] = held[u] /\ pc[u] = "close"
          BY <3>1, <3>3, <4>2
        <5>2. held[u] \notin closed \cup {ogmios}
          BY <3>3, <5>1
        <5>3. v = t => held'[v] = ogmios
          BY <3>1
        <5>4. v # t => held'[v] = held[v] /\ pc[v] = "close"
          BY <3>1, <3>3
        <5> QED BY <3>3, <5>1, <5>2, <5>3, <5>4
      <4> QED BY <4>1, <4>2
    <3> QED BY <3>1, <3>2, <3>3
  <2>6. ASSUME NEW t \in Threads, CloseClient(t) PROVE ClosedOnce'
    BY <2>6 DEF CloseClient
  <2>7. CASE UNCHANGED vars
    BY <2>7 DEF vars
  <2> QED
    BY <2>1, <2>2, <2>3, <2>4, <2>5, <2>6, <2>7 DEF Next, Begins, Continues
<1> QED BY <1>1, <1>2, TypeCorrect, PTL DEF Spec

\* No connection is left behind: a client that is open is the context's, or
\* the one a close() has in hand.
THEOREM NoClientLostAlways == Spec => []NoClientLost
<1>1. Init => NoClientLost
  BY DEF Init, NoClientLost, Known
<1>2. TypeOK /\ NoClientLost /\ [Next]_vars => NoClientLost'
  <2> SUFFICES ASSUME TypeOK, NoClientLost, [Next]_vars PROVE NoClientLost'
    OBVIOUS
  <2> USE NoneAssumption DEF TypeOK, NoClientLost, Beheld, Goto, Call, Known
  <2>1. ASSUME NEW t \in Threads, FirstCheck(t) \/ BeginClose(t) PROVE NoClientLost'
    BY <2>1 DEF FirstCheck, BeginClose
  <2>2. ASSUME NEW t \in Threads, Acquire(t) \/ FindCreated(t) \/ CreateFails(t)
        PROVE NoClientLost'
    BY <2>2 DEF Acquire, FindCreated, CreateFails
  <2>3. ASSUME NEW t \in Threads, Create(t) PROVE NoClientLost'
    <3>1. Known' = Known \cup {ogmios'}
      BY <2>3, CreateIsFresh
    <3>2. \A k \in Known \ closed : Beheld(k)
      BY <2>3 DEF Create
    <3>3. ASSUME NEW k, Beheld(k) PROVE Beheld(k)'
      BY <2>3, <3>3 DEF Create
    <3>4. closed' = closed
      BY <2>3 DEF Create
    <3> HIDE DEF Known, Beheld
    <3> QED BY <3>1, <3>2, <3>3, <3>4
  <2>4. ASSUME NEW t \in Threads, Return(t) \/ Request(t) PROVE NoClientLost'
    BY <2>4 DEF Return, Request
  <2>5. ASSUME NEW t \in Threads, Swap(t) PROVE NoClientLost'
    BY <2>5 DEF Swap
  <2>6. ASSUME NEW t \in Threads, CloseClient(t) PROVE NoClientLost'
    <3>1. /\ ogmios' = ogmios /\ created' = created /\ held' = held
          /\ closed' = closed \cup ({held[t]} \ {None})
          /\ pc' = [pc EXCEPT ![t] = "idle"]
      BY <2>6 DEF CloseClient
    <3>2. ASSUME NEW k \in Known, k \notin closed', k # ogmios
          PROVE  \E u \in Threads : pc'[u] = "close" /\ held[u] = k
      <4>1. PICK u \in Threads : pc[u] = "close" /\ held[u] = k
        BY <3>1, <3>2
      <4>2. k # None
        OBVIOUS
      <4>3. u # t
        BY <3>1, <3>2, <4>1, <4>2
      <4> QED BY <3>1, <4>1, <4>3
    <3> QED BY <3>1, <3>2
  <2>7. CASE UNCHANGED vars
    BY <2>7 DEF vars
  <2> QED
    BY <2>1, <2>2, <2>3, <2>4, <2>5, <2>6, <2>7 DEF Next, Begins, Continues
<1> QED BY <1>1, <1>2, TypeCorrect, PTL DEF Spec

-----------------------------------------------------------------------------
(***************************************************************************)
(* As long as no close() has taken a client out, one that was made stays:  *)
(* the second read of the attribute finds what the check found.            *)
(***************************************************************************)
KeptOpen ==
    Unclosed => \A t \in Threads :
       /\ pc[t] \in {"return", "request"} => ogmios # None
       /\ pc[t] = "request" => held[t] = ogmios

LEMMA KeptOpenStep == TypeOK /\ KeptOpen /\ [Next]_vars => KeptOpen'
<1> SUFFICES ASSUME TypeOK, KeptOpen, [Next]_vars, Unclosed' PROVE KeptOpen'
  BY DEF KeptOpen
<1> USE NoneAssumption DEF TypeOK, KeptOpen, Unclosed, Goto, Call
<1>1. ASSUME NEW t \in Threads, FirstCheck(t) \/ BeginClose(t) PROVE KeptOpen'
  BY <1>1 DEF FirstCheck, BeginClose
<1>2. ASSUME NEW t \in Threads, Acquire(t) \/ FindCreated(t) \/ CreateFails(t)
      PROVE KeptOpen'
  BY <1>2 DEF Acquire, FindCreated, CreateFails
<1>3. ASSUME NEW t \in Threads, Create(t) PROVE KeptOpen'
  <2>1. ogmios' # None
    BY <1>3 DEF Create
  <2> QED BY <1>3, <2>1 DEF Create
<1>4. ASSUME NEW t \in Threads, Return(t) \/ Request(t) PROVE KeptOpen'
  BY <1>4 DEF Return, Request
<1>5. ASSUME NEW t \in Threads, Swap(t) PROVE KeptOpen'
  BY <1>5 DEF Swap
<1>6. ASSUME NEW t \in Threads, CloseClient(t) PROVE KeptOpen'
  <2>1. held[t] = None \/ held[t] \in closed'
    BY <1>6 DEF CloseClient
  <2> QED BY <1>6, <2>1 DEF CloseClient
<1>7. CASE UNCHANGED vars
  BY <1>7 DEF vars
<1> QED
  BY <1>1, <1>2, <1>3, <1>4, <1>5, <1>6, <1>7 DEF Next, Begins, Continues

LEMMA KeptOpenAlways == Spec => []KeptOpen
<1>1. Init => KeptOpen
  BY DEF Init, KeptOpen
<1> QED BY <1>1, KeptOpenStep, TypeCorrect, PTL DEF Spec

\* A query of a context from which no close() has taken a client is handed
\* one, whatever failed before ...
THEOREM HandedAClientAlways == Spec => []HandedAClient
<1>1. KeptOpen => HandedAClient
  BY DEF KeptOpen, HandedAClient
<1> QED BY <1>1, KeptOpenAlways, PTL

\* ... and every query the same one, however threads race for the first use.
THEOREM OneForAllAlways == Spec => []OneForAll
<1>1. KeptOpen => OneForAll
  BY DEF KeptOpen, OneForAll
<1> QED BY <1>1, KeptOpenAlways, PTL

=============================================================================

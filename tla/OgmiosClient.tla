---------------------------- MODULE OgmiosClient ----------------------------
(***************************************************************************)
(* The pyogmios client of an OgmiosChainContext shared by threads.         *)
(*                                                                         *)
(* The client property makes a client on first use, under a lock with a    *)
(* second check inside it, and then reads the attribute once more to       *)
(* return it.  close() takes the client out under the lock and closes it   *)
(* after the lock.  Every query goes through the property.                 *)
(***************************************************************************)
EXTENDS Naturals, FiniteSets

CONSTANTS
    Threads,   \* threads sharing the context
    None,      \* no client; nobody holds the lock
    MaxCalls   \* bound: calls a thread makes

ASSUME NoneAssumption == None \notin Nat /\ None \notin Threads
ASSUME MaxCallsAssumption == MaxCalls \in Nat

VARIABLES
    ogmios,   \* _ogmios: a client or None
    lock,     \* _ogmios_lock: the thread that holds it, or None
    created,  \* how many clients the context has had
    closed,   \* clients that close() was called on
    pc,       \* pc[t]: what thread t does next
    held,     \* held[t]: the client thread t has in hand, or None
    calls     \* calls[t]: calls thread t has begun

vars == <<ogmios, lock, created, closed, pc, held, calls>>

\* Clients are numbered in the order the context gets them.
Known == 1..created

\* The caller may have supplied a client; else there is none yet.
Init ==
    /\ created \in {0, 1}
    /\ ogmios = IF created = 1 THEN 1 ELSE None
    /\ lock = None
    /\ closed = {}
    /\ pc = [t \in Threads |-> "idle"]
    /\ held = [t \in Threads |-> None]
    /\ calls = [t \in Threads |-> 0]

Goto(t, from, to) ==
    /\ pc[t] = from
    /\ pc' = [pc EXCEPT ![t] = to]

Call(t, to) ==
    /\ Goto(t, "idle", to)
    /\ calls[t] < MaxCalls
    /\ calls' = [calls EXCEPT ![t] = @ + 1]
    /\ held' = [held EXCEPT ![t] = None]

(***************************************************************************)
(* A query: self.client, then a request through what it returned.          *)
(***************************************************************************)
\* The check outside the lock.
FirstCheck(t) ==
    /\ Call(t, IF ogmios = None THEN "acquire" ELSE "return")
    /\ UNCHANGED <<ogmios, lock, created, closed>>

Acquire(t) ==
    /\ lock = None
    /\ lock' = t
    /\ Goto(t, "acquire", "locked")
    /\ UNCHANGED <<ogmios, created, closed, held, calls>>

\* Faulty forms: no check under the lock; a client that is not kept.
CreateUnchecked(t) ==
    /\ Goto(t, "locked", "return")
    /\ created' = created + 1
    /\ ogmios' = created + 1
    /\ lock' = None
    /\ UNCHANGED <<closed, held, calls>>

CreateUnkept(t) ==
    /\ Goto(t, "locked", "return")
    /\ ogmios = None
    /\ created' = created + 1
    /\ lock' = None
    /\ UNCHANGED <<ogmios, closed, held, calls>>

\* The check under the lock, the client made if there is none, the release.
Create(t) ==
    /\ Goto(t, "locked", "return")
    /\ ogmios = None
    /\ created' = created + 1
    /\ ogmios' = created + 1
    /\ lock' = None
    /\ UNCHANGED <<closed, held, calls>>

FindCreated(t) ==
    /\ Goto(t, "locked", "return")
    /\ ogmios # None
    /\ lock' = None
    /\ UNCHANGED <<ogmios, created, closed, held, calls>>

\* Faulty form: the lock is not released.
CreateFailsHolding(t) ==
    /\ Goto(t, "locked", "idle")
    /\ ogmios = None
    /\ UNCHANGED <<ogmios, lock, created, closed, held, calls>>

\* pyogmios.Client(url) raises; leaving the with block releases the lock.
CreateFails(t) ==
    /\ Goto(t, "locked", "idle")
    /\ ogmios = None
    /\ lock' = None
    /\ UNCHANGED <<ogmios, created, closed, held, calls>>

\* "return self._ogmios", read again outside the lock.
Return(t) ==
    /\ Goto(t, "return", "request")
    /\ held' = [held EXCEPT ![t] = ogmios]
    /\ UNCHANGED <<ogmios, lock, created, closed, calls>>

Request(t) ==
    /\ Goto(t, "request", "idle")
    /\ UNCHANGED <<ogmios, lock, created, closed, held, calls>>

(***************************************************************************)
(* close(), and __exit__ which calls it.                                   *)
(***************************************************************************)
BeginClose(t) ==
    /\ Call(t, "swap")
    /\ UNCHANGED <<ogmios, lock, created, closed>>

\* Faulty form: the client stays with the context.
SwapKeeps(t) ==
    /\ lock = None
    /\ Goto(t, "swap", "close")
    /\ held' = [held EXCEPT ![t] = ogmios]
    /\ UNCHANGED <<ogmios, lock, created, closed, calls>>

\* "client, self._ogmios = self._ogmios, None", the lock taken and released.
Swap(t) ==
    /\ lock = None
    /\ Goto(t, "swap", "close")
    /\ held' = [held EXCEPT ![t] = ogmios]
    /\ ogmios' = None
    /\ UNCHANGED <<lock, created, closed, calls>>

\* Faulty form: closes a client that is not there.
CloseNothing(t) ==
    /\ Goto(t, "close", "idle")
    /\ closed' = closed \cup {held[t]}
    /\ UNCHANGED <<ogmios, lock, created, held, calls>>

CloseClient(t) ==
    /\ Goto(t, "close", "idle")
    /\ closed' = closed \cup ({held[t]} \ {None})
    /\ UNCHANGED <<ogmios, lock, created, held, calls>>

Begins(t) == FirstCheck(t) \/ BeginClose(t)

Continues(t) ==
    \/ Acquire(t) \/ Create(t) \/ FindCreated(t) \/ CreateFails(t)
    \/ Return(t) \/ Request(t) \/ Swap(t) \/ CloseClient(t)

Next == \E t \in Threads : Begins(t) \/ Continues(t)

\* A thread in the middle of a call runs on; nobody has to begin one.
Fairness == \A t \in Threads : WF_vars(Continues(t))

Spec == Init /\ [][Next]_vars

FairSpec == Spec /\ Fairness

-----------------------------------------------------------------------------
TypeOK ==
    /\ ogmios \in Known \cup {None}
    /\ lock \in Threads \cup {None}
    /\ created \in Nat
    /\ closed \subseteq Known
    /\ pc \in [Threads -> {"idle", "acquire", "locked", "return", "request",
                          "swap", "close"}]
    /\ held \in [Threads -> Known \cup {None}]
    /\ calls \in [Threads -> 0..MaxCalls]

\* A client that is in use is the context's, or some close() is about to
\* close it: no connection is left open that nothing refers to.
Beheld(k) == \E t \in Threads : pc[t] = "close" /\ held[t] = k

NoClientLost == \A k \in Known \ closed : k = ogmios \/ Beheld(k)

\* The context never keeps a client that was closed, and no two close()
\* calls close the same one: a later query opens a new one.
ClosedOnce ==
    /\ ogmios \notin closed
    /\ \A t, u \in Threads :
          pc[t] = "close" /\ pc[u] = "close" /\ held[t] # None =>
             /\ held[t] \notin closed \cup {ogmios}
             /\ held[t] = held[u] => t = u

\* As long as no close() has taken a client out, a query is handed one, and
\* all queries the same: "one client serves the context's whole lifetime".
Unclosed == closed = {} /\ \A t \in Threads : pc[t] = "close" => held[t] = None

HandedAClient ==
    Unclosed => \A t \in Threads : pc[t] = "request" => held[t] # None

OneForAll ==
    Unclosed => \A t, u \in Threads :
                   pc[t] = "request" /\ pc[u] = "request" => held[t] = held[u]

\* However many threads contend for the lock, fail under it and close, every
\* call comes to its end.
EveryCallEnds == \A t \in Threads : pc[t] # "idle" ~> pc[t] = "idle"

=============================================================================

------------------------------ MODULE ChainTip ------------------------------
(***************************************************************************)
(* What the caches of the node contexts are kept against: the clock, in    *)
(* ticks, of which a second has several, and the tip of the node's chain,  *)
(* whose slots begin with the seconds.  What a caller reads of the chain   *)
(* (the protocol parameters, or the UTxOs of an address) is abstracted to  *)
(* its version.                                                            *)
(*                                                                         *)
(* The module also has what the contexts share: the requests to the node,  *)
(* whose replies take a while to arrive; last_block_slot, which keeps the  *)
(* slot of the tip for a second; and the steps of a call.                  *)
(***************************************************************************)
EXTENDS Naturals

CONSTANTS
    None,        \* nothing known, cached or answered
    Second,      \* ticks in a second
    Latency,     \* ticks at most from a reply's making to its being stored
    MaxTime,     \* bound: ticks
    MaxVersion   \* bound: versions of what is read

ASSUME NoneAssumption ==
    None \notin Nat /\ None \notin [slot : 0..MaxTime, at : 0..MaxTime]
ASSUME BoundsAssumption ==
    /\ Second \in Nat \ {0}
    /\ Latency \in Nat
    /\ MaxTime \in Nat
    /\ MaxVersion \in Nat

Times == 0..MaxTime
Slots == Times
Versions == 0..MaxVersion

VARIABLES
    now,      \* the clock
    slot,     \* the slot of the node's tip
    version,  \* the version, at the tip, of what is read
    seen,     \* seen[t]: the version when tick t began
    tips,     \* tips[s]: the version on the node's chain up to slot s
    forked,   \* whether the node has switched to another fork so far
    reply,    \* the reply to the current request, and when it was made
    memo,     \* the slot last_block_slot keeps, and when it was stored
    began,    \* when the current or last call began
    answer    \* what the last call answered; None while a call is under way

nodeVars == <<now, slot, version, seen, tips, forked>>
tipVars == <<nodeVars, reply, memo, began, answer>>

TipTypeOK ==
    /\ now \in Times
    /\ slot \in Slots
    /\ version \in Versions
    /\ seen \in [Times -> Versions]
    /\ tips \in [Slots -> Versions]
    /\ forked \in BOOLEAN
    /\ reply = None \/ reply \in [slot : Slots, version : Versions, at : 0..now]
    /\ memo = None \/ memo \in [slot : Slots, at : 0..now]
    /\ began \in 0..now
    /\ answer \in Versions \cup {None}

TipInit ==
    /\ now = 0
    /\ slot = 0
    /\ version = 0
    /\ seen = [t \in Times |-> 0]
    /\ tips = [s \in Slots |-> 0]
    /\ forked = FALSE
    /\ reply = None
    /\ memo = None
    /\ began = 0
    /\ answer = None

(***************************************************************************)
(* The clock and the node.                                                 *)
(***************************************************************************)
Tick ==
    /\ now < MaxTime
    /\ reply # None => now < reply.at + Latency
    /\ now' = now + 1
    /\ seen' = [seen EXCEPT ![now + 1] = version]
    /\ UNCHANGED <<slot, version, tips, forked, reply, memo, began, answer>>

\* The node's tip is a block of slot s, with version v of what is read.
TipBecomes(s, v) ==
    /\ slot' = s
    /\ version' = v
    /\ tips' = [u \in Slots |-> IF u < s THEN tips[u] ELSE v]
    /\ UNCHANGED <<now, seen, reply, memo, began, answer>>

\* A block, made in the current slot or arriving late, which may change what
\* is read.
NewBlock ==
    /\ \E s \in Slots, v \in {version, version + 1} \cap Versions :
          slot < s /\ s * Second <= now /\ TipBecomes(s, v)
    /\ UNCHANGED forked

\* The node switches to a fork whose tip may be at an older slot, and where
\* what is read is not as it was.
Rollback ==
    /\ version < MaxVersion
    /\ \E s \in 0..slot : TipBecomes(s, version + 1)
    /\ forked' = TRUE

NodeNext == Tick \/ NewBlock \/ Rollback

\* The node makes its reply to a request.
NodeReplies ==
    /\ reply = None
    /\ reply' = [slot |-> slot, version |-> version, at |-> now]
    /\ UNCHANGED <<nodeVars, memo, began, answer>>

(***************************************************************************)
(* last_block_slot.  A second is counted from the storing of the slot, on  *)
(* no clock's boundary.  Its request is made when no slot is kept.         *)
(***************************************************************************)
\* Faulty form: kept forever.
MemoisedForever == memo # None

Memoised == memo # None /\ now < memo.at + Second
SlotKnown == reply # None \/ Memoised
LastBlockSlot == IF reply # None THEN reply.slot ELSE memo.slot
KeepSlot ==
    /\ memo' = IF reply # None THEN [slot |-> reply.slot, at |-> now] ELSE memo
    /\ reply' = None

(***************************************************************************)
(* Calls begin, answer or raise.                                           *)
(***************************************************************************)
Begins == began' = now /\ answer' = None
GoesOn == UNCHANGED <<began, answer>>
AnswersAtOnce(value) == began' = now /\ answer' = value
Answers(value) == answer' = value /\ UNCHANGED began

\* What is kept for so many ticks is last used one tick before their end.
Kept(ticks) == ticks - 1

\* That many ticks before t, or the beginning.
Ago(t, age) == IF t < age THEN 0 ELSE t - age

\* The last answer is as recent as the tip was that many ticks before its
\* call began.
AsRecentAs(age) == answer # None => answer >= seen[Ago(began, age)]

=============================================================================

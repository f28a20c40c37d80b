--------------------------- MODULE GovActionViews ---------------------------
(***************************************************************************)
(* One governance action, from its proposal to what each backend answers   *)
(* to gov_action_info, gov_action_votes and gov_actions_all.  The node     *)
(* knows live proposals only, a chain index every one, and Yaci DevKit the *)
(* certificates without the outcome.                                       *)
(***************************************************************************)
EXTENDS ChainViews

CONSTANTS
    Lifetimes, \* the values of the parameter govActionLifetime
    MaxVotes   \* bound: votes cast on the action

ASSUME GovActionAssumption == Lifetimes \subseteq Nat /\ MaxVotes \in Nat

VARIABLES
    action,      \* the ledger, as far as the action is concerned
    actionAsked, \* the ledger at the first request of a call
    actionHeld   \* every status the action has had since

actionVars == <<action, actionAsked, actionHeld>>

Voters == {"committee", "drep", "pool"}

\* What becomes of an action; None while it is open.
Outcomes == {"ratified", "enacted", "dropped", "expired"}

ASSUME OpenAssumption == None \notin Outcomes

\* The epochs a backend reports for what became of an action.
NoOutcome == [ratified |-> None, enacted |-> None, dropped |-> None, expired |-> None]

-----------------------------------------------------------------------------
(***************************************************************************)
(* The ledger.  An action is open, then ratified and enacted with the next *)
(* epoch, or expired and removed with the next, or dropped because another *)
(* was enacted.  While it is listed among the proposals it is live.        *)
(***************************************************************************)
ActionInit ==
    /\ \E n \in Lifetimes :
          action = [epoch |-> 0, slot |-> 0, log |-> <<>>, others |-> FALSE, lifetime |-> n,
                    proposed |-> None, expires |-> None, live |-> FALSE,
                    status |-> None, outcome |-> NoOutcome]
    /\ actionAsked = action
    /\ actionHeld = {None}

ActionMovesTo(l) ==
    /\ action' = l
    /\ actionHeld' = actionHeld \cup {l.status}
    /\ UNCHANGED actionAsked

Proposes ==
    /\ action.proposed = None
    /\ ActionMovesTo([action EXCEPT !.proposed = action.epoch, !.live = TRUE,
                                    !.expires = action.epoch + action.lifetime])

Votes(voter) ==
    /\ action.live /\ action.epoch <= action.expires
    /\ Len(action.log) < MaxVotes
    /\ \E p \in Places(action) :
          ActionMovesTo([action EXCEPT
             !.slot = p.slot,
             !.log = Append(@, [slot |-> p.slot, tx |-> p.tx, index |-> p.index,
                                number |-> p.number, voter |-> voter])])

\* What the next epoch may make of the action.
NextStatuses ==
    IF ~action.live THEN {action.status}
    ELSE CASE action.status = "ratified" -> {"enacted"}
           [] action.status = "expired" -> {"expired"}
           [] OTHER -> {"ratified", "dropped",
                        IF action.epoch + 1 > action.expires THEN "expired" ELSE None}

ActionEpochEnds ==
    /\ action.epoch < MaxEpoch
    /\ \E status \in NextStatuses, others \in BOOLEAN, lifetime \in Lifetimes :
          ActionMovesTo([action EXCEPT
             !.epoch = @ + 1, !.slot = @ + 1, !.others = others, !.lifetime = lifetime,
             !.live = @ /\ action.status = None /\ status # "dropped",
             !.status = status,
             !.outcome = IF status = action.status THEN @
                         ELSE [@ EXCEPT ![status] = action.epoch + 1]])

\* A call makes its first request.
ActionAsked ==
    /\ actionAsked' = action
    /\ actionHeld' = {action.status}
    /\ UNCHANGED action

ActionNext ==
    \/ Proposes \/ ActionEpochEnds \/ ActionAsked
    \/ \E voter \in Voters : Votes(voter)

ActionSpec == ActionInit /\ [][ActionNext]_actionVars

-----------------------------------------------------------------------------
(***************************************************************************)
(* The answers.                                                            *)
(***************************************************************************)
ActionInfo(proposed, expires, outcome) ==
    [proposed |-> proposed, expires |-> expires, outcome |-> outcome]

\* Faulty form: an enacted action stays ratified, which it was before.
ActionStatusRatifiedFirst(o) ==
    IF o.ratified # None THEN "ratified"
    ELSE IF o.enacted # None THEN "enacted"
    ELSE IF o.dropped # None THEN "dropped"
    ELSE IF o.expired # None THEN "expired"
    ELSE None

\* The property status of GovActionInfo, and through as_gov_action_info of
\* GovActionVotes.
ActionStatus(o) ==
    IF o.enacted # None THEN "enacted"
    ELSE IF o.ratified # None THEN "ratified"
    ELSE IF o.dropped # None THEN "dropped"
    ELSE IF o.expired # None THEN "expired"
    ELSE None

\* cardano-cli: gov-state is read from l, then the epoch from m, which dates
\* everything.  An action that is not listed has expired, or was dropped if
\* none is.
CliActionInfo(l, m) ==
    LET ratified == l.live /\ l.status = "ratified"
        dropped == ~l.live /\ ~l.others
        expired == /\ ~ratified /\ ~dropped
                   /\ ~l.live \/ l.status = "expired" \/ m.epoch > l.expires
        Dated(happened) == IF happened THEN m.epoch ELSE None
    IN  {ActionInfo(IF l.live THEN l.proposed ELSE None, IF l.live THEN l.expires ELSE None,
                    [NoOutcome EXCEPT !.ratified = Dated(ratified), !.dropped = Dated(dropped),
                                      !.expired = Dated(expired)])}

\* gov_action_votes and the entries of gov_actions_all, _build_gov_action_votes:
\* live proposals only, of which the outcome is that the voting has ended.
CliActionVotes(l, m) ==
    IF ~l.live THEN {}
    ELSE {ActionInfo(l.proposed, l.expires,
                     [NoOutcome EXCEPT !.expired = IF m.epoch > l.expires THEN m.epoch ELSE None])}

\* Ogmios: the live proposals, without an outcome.
OgmiosActionInfo(l) ==
    IF l.live THEN {ActionInfo(l.proposed, l.expires, NoOutcome)} ELSE {}

\* Koios, and Blockfrost, which does not report when it was proposed.
KoiosActionInfo(l) ==
    IF l.proposed = None THEN {} ELSE {ActionInfo(l.proposed, l.expires, l.outcome)}
BlockfrostActionInfo(l) ==
    IF l.proposed = None THEN {} ELSE {ActionInfo(None, l.expires, l.outcome)}

\* Yaci: the proposal of l with the lifetime of m.
YaciActionInfo(l, m) ==
    IF l.proposed = None THEN {}
    ELSE {ActionInfo(l.proposed, l.proposed + m.lifetime, NoOutcome)}

\* The captured sections: the votes answer where the infos do not.
OfflineActionInfo(infos, votes) == IF infos # {} THEN infos ELSE votes

-----------------------------------------------------------------------------
(***************************************************************************)
(* Votes.  A voter may vote again, and the ledger keeps the last vote.     *)
(***************************************************************************)
VotesOf(voter, l) == {c \in Elements(l.log) : c.voter = voter}

Vote(voter, number) == [voter |-> voter, vote |-> number]

\* cardano-cli and Ogmios, from what the ledger keeps.
NodeVotes(l) ==
    {Vote(v, LastOf(VotesOf(v, l)).number) : v \in {c.voter : c \in Elements(l.log)}}

\* Koios and Blockfrost: the rows of the service, which name the committee
\* member's hot credential in no field that is read.
RowVotes(rows) == {Vote(IF c.voter = "committee" THEN None ELSE c.voter, c.number) : c \in rows}

\* Faulty form: any of a voter's rows, in the order they were served.
YaciVotesUnsorted(voter, l) == {Vote(voter, c.number) : c \in VotesOf(voter, l)}

\* Yaci: of each voter the last row by slot and index, which leaves two
\* transactions of one block in the order they were served.
YaciVotes(voter, l) ==
    {Vote(voter, c.number) : c \in Newest(VotesOf(voter, l), YaciBefore)}

-----------------------------------------------------------------------------
\* The status each backend answers.  cardano-cli: the one the action has,
\* while it is live and no epoch ends between the two requests; of one that
\* is gone, never that it is open.  Its votes do not tell ratified from open,
\* and call expired what is ratified in its last epoch.  Koios and Blockfrost:
\* the one it has.  Ogmios finds exactly the live ones.  The last epoch of
\* Yaci is right while the lifetime is what it was.  A capture, of
\* either section, answers the status of its time.
ActionStatusesAreRight ==
    /\ actionAsked.epoch = action.epoch =>
          \A info \in CliActionInfo(actionAsked, action) :
             IF actionAsked.live
             THEN ActionStatus(info.outcome) \in actionHeld /\ info.expires = action.expires
             ELSE ActionStatus(info.outcome) \in {"dropped", "expired"}
    /\ \A info \in CliActionVotes(action, action) :
          \/ ActionStatus(info.outcome) = action.status
          \/ action.status = "ratified"
    /\ \A info \in KoiosActionInfo(action) \cup BlockfrostActionInfo(action) :
          ActionStatus(info.outcome) = action.status /\ info.expires = action.expires
    /\ (OgmiosActionInfo(action) # {}) = action.live
    /\ \A info \in YaciActionInfo(action, action) :
          action.proposed + action.lifetime = action.expires => info.expires = action.expires
    /\ \A infos \in {{}, BlockfrostActionInfo(actionAsked)} :
          \A info \in OfflineActionInfo(infos, KoiosActionInfo(actionAsked)) :
             ActionStatus(info.outcome) \in actionHeld

\* Each voter is counted once, with its last vote: over the node always, over
\* Yaci unless two of its votes are in one block.  Koios and Blockfrost count
\* every row, of which the last one of the voter is one.
VotesAreLast ==
    LET voted == {c.voter : c \in Elements(action.log)}
        last == NodeVotes(action)
    IN  /\ \A v \in voted : Cardinality({x \in last : x.voter = v}) = 1
        /\ \A v \in voted : SpreadOut(action) => YaciVotes(v, action) \subseteq last
        /\ {x.vote : x \in last} \subseteq {x.vote : x \in RowVotes(Elements(action.log))}

=============================================================================

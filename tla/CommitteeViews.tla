--------------------------- MODULE CommitteeViews ---------------------------
(***************************************************************************)
(* The constitutional committee, and what each backend answers to          *)
(* committee_state and committee_member_info.  A member has a cold         *)
(* credential, a term, and a hot credential while it has authorized one;   *)
(* a capture is older than the question and ages with the epoch.           *)
(***************************************************************************)
EXTENDS ChainViews

CONSTANT HotCredentials

ASSUME HotAssumption == None \notin HotCredentials

VARIABLES
    committee,        \* the ledger, as far as the committee is concerned
    committeeCaptured \* the committee when it was captured

committeeVars == <<committee, committeeCaptured>>

\* The two members by their cold credential, in the order they are listed.
Cold == {1, 2}

-----------------------------------------------------------------------------
(***************************************************************************)
(* The ledger.  A member is elected with a term, authorizes and replaces   *)
(* its hot credential, which another member may have authorized too, and   *)
(* may resign.                                                             *)
(***************************************************************************)
CommitteeInit ==
    /\ \E terms \in [Cold -> Epochs] :
          committee = [epoch |-> 0,
                       members |-> [c \in Cold |-> [cold |-> c, hot |-> None, resigned |-> FALSE,
                                                    expiration |-> terms[c]]]]
    /\ committeeCaptured = committee

Authorizes(c, h) ==
    /\ ~committee.members[c].resigned
    /\ committee' = [committee EXCEPT !.members[c].hot = h]
    /\ UNCHANGED committeeCaptured

Resigns(c) ==
    /\ committee' = [committee EXCEPT !.members[c].hot = None, !.members[c].resigned = TRUE]
    /\ UNCHANGED committeeCaptured

CommitteeEpochEnds ==
    /\ committee.epoch < MaxEpoch
    /\ committee' = [committee EXCEPT !.epoch = @ + 1]
    /\ UNCHANGED committeeCaptured

Captured ==
    /\ committeeCaptured' = committee
    /\ UNCHANGED committee

CommitteeNext ==
    \/ CommitteeEpochEnds \/ Captured
    \/ \E c \in Cold : Resigns(c) \/ \E h \in HotCredentials : Authorizes(c, h)

CommitteeSpec == CommitteeInit /\ [][CommitteeNext]_committeeVars

\* A term runs to the end of its last epoch.
MemberStatus(member, epoch) == IF epoch > member.expiration THEN "expired" ELSE "active"

-----------------------------------------------------------------------------
(***************************************************************************)
(* The answers.  A call names a cold credential, a hot one or both; a      *)
(* credential it leaves out is None.                                       *)
(***************************************************************************)
MemberInfo(member, hot, status) ==
    [cold |-> member.cold, hot |-> hot, expiration |-> member.expiration, status |-> status]

\* The first member of a list of them at one of the positions that fit.
FirstFit(members, fitting) ==
    {members[i] : i \in {f \in fitting : \A g \in fitting : f <= g}}

\* Faulty form: a credential that is not given matches one that is not there.
EitherMatchesUnchecked(m, cold, hot) == m.cold = cold \/ m.hot = hot

\* Blockfrost, Koios and the transfer file take a member either one matches.
EitherMatches(m, cold, hot) ==
    (cold # None /\ m.cold = cold) \/ (hot # None /\ m.hot = hot)

\* committee_state of the node, which cardano-cli and Ogmios pass on.
NodeCommittee(l) ==
    [c \in Cold |-> MemberInfo(l.members[c], l.members[c].hot,
                               MemberStatus(l.members[c], l.epoch))]

\* cardano-cli asks by the cold credential if it is given and else by the hot
\* one.  A member without a hot credential is given the one of the call.
CliMemberInfo(l, cold, hot) ==
    LET members == NodeCommittee(l)
        fitting == {c \in Cold : IF cold # None THEN c = cold
                                 ELSE hot # None /\ members[c].hot = hot}
    IN  {[m EXCEPT !.hot = IF @ = None THEN hot ELSE @] : m \in FirstFit(members, fitting)}

\* Ogmios wants both to match.
OgmiosMemberInfo(l, cold, hot) ==
    IF cold = None /\ hot = None THEN {}
    ELSE FirstFit(NodeCommittee(l),
                  {c \in Cold : cold \in {None, c} /\ hot \in {None, l.members[c].hot}})

\* _committee_member of Koios and of Blockfrost: a member without a hot
\* credential is "unrecognized".
ServiceMember(member, epoch) ==
    MemberInfo(member, member.hot,
               IF member.expiration < epoch THEN "expired"
               ELSE IF member.hot # None THEN "active" ELSE "unrecognized")

ServiceCommittee(l, epoch) == [c \in Cold |-> ServiceMember(l.members[c], epoch)]

\* The committee is read from l, then the epoch property, at m.  Over Koios it
\* is as recent as that read (KoiosEpochCache), unless an earlier one has made
\* it raise.
BlockfrostCommittee(l, m) == {ServiceCommittee(l, e) : e \in CachedEpochs(m.epoch)}

KoiosCommittee(l, m, raises) ==
    IF raises THEN {} ELSE {ServiceCommittee(l, e) : e \in l.epoch..m.epoch}

ServiceMemberInfo(members, cold, hot) ==
    FirstFit(members, {c \in Cold : EitherMatches(members[c], cold, hot)})

\* Faulty form: a captured status stays what it was.
AgedNever(member, epoch) == member

\* _aged_status; the epoch is None when it cannot be computed.
Aged(member, epoch) ==
    IF member.status = "expired" \/ epoch = None \/ member.expiration >= epoch THEN member
    ELSE [member EXCEPT !.status = "expired"]

\* The captured infos, a sequence of members, are searched before the
\* captured committee, which is None if it was not.
OfflineMemberInfo(infos, state, cold, hot, epoch) ==
    LET candidates == infos \o (IF state = None THEN <<>> ELSE <<state[1], state[2]>>)
        fitting == {i \in DOMAIN candidates : EitherMatches(candidates[i], cold, hot)}
    IN  {Aged(m, epoch) : m \in FirstFit(candidates, fitting)}

-----------------------------------------------------------------------------
ServiceCommittees(l, m) ==
    BlockfrostCommittee(l, m) \cup UNION {KoiosCommittee(l, m, raises) : raises \in BOOLEAN}

ServiceInfos(cold, hot) ==
    UNION {ServiceMemberInfo(members, cold, hot) : members \in ServiceCommittees(committee, committee)}

\* Every backend answers about the member that was asked for, when one
\* credential is given; when both are, Ogmios does, cardano-cli by the cold
\* one, and the others unless the hot one is some other member's.
AskedForIsAnswered ==
    LET Others(cold, hot) == {c \in Cold : c # cold /\ committee.members[c].hot = hot}
    IN  \A cold \in Cold \cup {None}, hot \in HotCredentials \cup {None} :
          /\ \A m \in OgmiosMemberInfo(committee, cold, hot) :
                cold \in {None, m.cold} /\ hot \in {None, m.hot}
          /\ \A m \in CliMemberInfo(committee, cold, hot) :
                IF cold = None THEN m.hot = hot
                ELSE m.cold = cold /\ (hot = None => m.hot = committee.members[cold].hot)
          /\ cold = None \/ hot = None \/ Others(cold, hot) = {} =>
                \A m \in ServiceInfos(cold, hot)
                            \cup OfflineMemberInfo(<<>>, NodeCommittee(committee), cold, hot, None) :
                   IF cold = None THEN m.hot = hot ELSE m.cold = cold

\* A member whose term is over is expired and no other is: over the node, and
\* in a capture as old as may be, once the epoch can be computed.  The services
\* report nobody expired whose term is not over, though the epoch may end
\* during the call; Koios, where it answers, reports whoever's term was over
\* when the call began, while Blockfrost may have the epoch from long before.
\* Over both only one that has authorized a hot credential is active.
ExpiryIsRight ==
    LET epoch == committee.epoch
        Right(m) == (m.status = "expired") = (epoch > m.expiration)
        section == NodeCommittee(committeeCaptured)
    IN  \A c \in Cold :
          /\ Right(NodeCommittee(committee)[c])
          /\ \A members \in ServiceCommittees(committeeCaptured, committee) :
                members[c].status = "expired" => epoch > members[c].expiration
          /\ \A members \in KoiosCommittee(committeeCaptured, committee, FALSE) :
                committeeCaptured.epoch > members[c].expiration => members[c].status = "expired"
          /\ \A infos \in {<<>>, <<section[2], section[1]>>} :
                \A m \in OfflineMemberInfo(infos, section, c, None, epoch) : Right(m)
          /\ \A members \in ServiceCommittees(committee, committee) :
                members[c].status = "active" => ~committee.members[c].resigned

=============================================================================

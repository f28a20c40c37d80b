----------------------------- MODULE ViewsProofs -----------------------------
(***************************************************************************)
(* What the backends answer about a subject of the ledger: the properties  *)
(* of the status modules for every number of certificates, votes, outputs, *)
(* pages and epochs.  Each rests on an invariant that ties the ledger to   *)
(* the log of what has landed, and the ledger a call began with to the one *)
(* it ends with; the answers then follow from the ledger by definition.    *)
(***************************************************************************)
EXTENDS StakePoolViews, DRepViews, GovActionViews, CommitteeViews, OutputViews,
        KesViews, OfflineClock,
        Integers, WellFoundedInduction, FiniteSetTheorems, SequenceTheorems, TLAPS

-----------------------------------------------------------------------------
(***************************************************************************)
(* Certificates in the order they land.                                    *)
(***************************************************************************)
\* The flags of a ledger, kept folded in the proofs.
Flags == BOOLEAN

\* A cached epoch is at most the current one.
LEMMA CachedEpochsPast ==
    ASSUME NEW now \in Nat
    PROVE  /\ CachedEpochs(now) \subseteq Nat /\ now \in CachedEpochs(now)
           /\ \A e \in CachedEpochs(now) : e <= now
BY DEF CachedEpochs

\* A nonempty set of naturals with a bound has a greatest one.
LEMMA GreatestExists ==
    ASSUME NEW n \in Nat, NEW S, S \subseteq 0..n, S # {}
    PROVE  \E m \in S : \A k \in S : k <= m
<1>. DEFINE R == {ss \in Nat \X Nat : ss[1] < ss[2]}
            T == {x \in 0..n : n - x \in S}
<1>1. T \subseteq Nat /\ T # {}
  <2>1. PICK s \in S : TRUE
    OBVIOUS
  <2>2. n - s \in T
    BY <2>1
  <2>. QED  BY <2>2
<1>2. PICK x \in T : \A y \in T : ~(<<y, x>> \in R)
  <2>. HIDE DEF R, T
  <2>1. IsWellFoundedOn(R, Nat)
    BY NatLessThanWellFounded, Zenon DEF R, OpToRel
  <2>. QED  BY <1>1, <2>1, WFMin
<1>3. ASSUME NEW k \in S PROVE k <= n - x
  <2>1. n - k \in T /\ n - k \in Nat /\ x \in Nat /\ k \in Nat
    OBVIOUS
  <2>2. ~(<<n - k, x>> \in R)
    BY <1>2, <2>1
  <2>3. ~(n - k < x)
    BY <2>1, <2>2
  <2>. QED  BY <2>1, <2>3
<1>. QED  BY <1>3

-----------------------------------------------------------------------------
\* A log in the order its certificates land, none of them after the slot: they
\* are numbered, and those of one transaction are in one slot.
Landed(log, now) ==
    /\ now \in Nat
    /\ \A i \in DOMAIN log :
          /\ log[i].number = i
          /\ log[i].tx \in Nat /\ log[i].tx <= i
          /\ log[i].index \in Nat
          /\ log[i].slot \in Nat /\ log[i].slot <= now
    /\ \A i, j \in DOMAIN log :
          /\ i <= j => log[i].slot <= log[j].slot
          /\ log[i].tx = log[j].tx => log[i].slot = log[j].slot

\* Where the next certificate may stand, in a log that has landed.
LEMMA PlacesFit ==
    ASSUME NEW l, NEW C, l.log \in Seq(C), Landed(l.log, l.slot), NEW p \in Places(l)
    PROVE  /\ p.slot \in Nat /\ p.tx \in Nat /\ p.index \in Nat /\ p.number \in Nat
           /\ p.number = Len(l.log) + 1
           /\ \/ p.slot = l.slot + 1 /\ p.tx = p.number
              \/ /\ l.log # <<>> /\ p.slot = l.slot /\ l.log[Len(l.log)].slot = l.slot
                 /\ p.tx \in {p.number, l.log[Len(l.log)].tx}
<1>. DEFINE n == Len(l.log) + 1
            last == l.log[n - 1]
<1>0. n \in Nat /\ l.slot \in Nat /\ n - 1 = Len(l.log)
  BY DEF Landed
<1>1. CASE p = [slot |-> l.slot + 1, tx |-> n, index |-> 0, number |-> n]
  BY <1>0, <1>1
<1>2. CASE /\ n # 1 /\ last.slot = l.slot
           /\ p = [slot |-> l.slot, tx |-> last.tx, index |-> last.index + 1, number |-> n]
  <2>1. last.index \in Nat /\ last.tx \in Nat
    BY <1>0, <1>2 DEF Landed
  <2>. QED  BY <1>0, <1>2, <2>1
<1>3. CASE /\ n # 1 /\ last.slot = l.slot
           /\ p = [slot |-> l.slot, tx |-> n, index |-> 0, number |-> n]
  BY <1>0, <1>3
<1>. QED  BY <1>1, <1>2, <1>3 DEF Places

\* A log goes on in order when a certificate is added to it at such a place.
LEMMA LandsInOrder ==
    ASSUME NEW l, NEW C, l.log \in Seq(C), Landed(l.log, l.slot),
           NEW p \in Places(l), NEW c \in C,
           c.slot = p.slot, c.tx = p.tx, c.index = p.index, c.number = p.number
    PROVE  /\ Append(l.log, c) \in Seq(C)
           /\ Landed(Append(l.log, c), p.slot)
           /\ p.number = Len(l.log) + 1
           /\ p.slot >= l.slot
<1>. DEFINE n == Len(l.log) + 1
            log == Append(l.log, c)
<1>0. /\ n \in Nat /\ n >= 1 /\ DOMAIN l.log = 1..(n - 1) /\ DOMAIN log = 1..n
      /\ log[n] = c /\ \A i \in 1..(n - 1) : log[i] = l.log[i]
      /\ log \in Seq(C)
  OBVIOUS
<1>1. /\ p.number = n /\ p.index \in Nat
      /\ \/ p.slot = l.slot + 1 /\ p.tx = n
         \/ n > 1 /\ l.log[n - 1].slot = l.slot /\ p.slot = l.slot /\ p.tx \in {n, l.log[n - 1].tx}
  BY <1>0, PlacesFit
<1>2. p.slot \in Nat /\ p.slot >= l.slot /\ p.tx \in Nat /\ p.tx <= n
  BY <1>0, <1>1 DEF Landed
<1>3. ASSUME NEW i \in 1..n
      PROVE  /\ log[i].number = i
             /\ log[i].tx \in Nat /\ log[i].tx <= i
             /\ log[i].index \in Nat
             /\ log[i].slot \in Nat /\ log[i].slot <= p.slot
             /\ i < n => log[i].slot <= l.slot
  BY <1>0, <1>1, <1>2 DEF Landed
<1>4. ASSUME NEW i \in 1..n
      PROVE  log[i].tx = p.tx => log[i].slot = p.slot
  <2>. SUFFICES ASSUME i # n, log[i].tx = p.tx PROVE log[i].slot = p.slot
    BY <1>0
  <2>1. i \in DOMAIN l.log /\ n - 1 \in DOMAIN l.log /\ log[i] = l.log[i] /\ log[i].tx <= i /\ log[i].tx # n
    BY <1>0, <1>3
  <2>2. p.slot = l.slot /\ l.log[n - 1].slot = l.slot /\ p.tx = l.log[n - 1].tx
    BY <1>1, <2>1
  <2>. QED  BY <2>1, <2>2 DEF Landed
<1>5. ASSUME NEW i \in 1..n, NEW j \in 1..n
      PROVE  /\ i <= j => log[i].slot <= log[j].slot
             /\ log[i].tx = log[j].tx => log[i].slot = log[j].slot
  <2>0. log[n].slot = p.slot /\ log[n].tx = p.tx /\ n \in Nat
    BY <1>0
  <2>1. CASE i < n /\ j < n
    <3>1. /\ i \in DOMAIN l.log /\ j \in DOMAIN l.log
          /\ log[i] = l.log[i] /\ log[j] = l.log[j]
      BY <1>0, <2>1
    <3>2. /\ i <= j => l.log[i].slot <= l.log[j].slot
          /\ l.log[i].tx = l.log[j].tx => l.log[i].slot = l.log[j].slot
      BY <3>1, Zenon DEF Landed
    <3>. HIDE DEF log, n
    <3>. QED  BY <3>1, <3>2
  <2>2. CASE j = n
    <3>1. log[i].slot <= p.slot
      BY <1>3
    <3>2. log[i].tx = p.tx => log[i].slot = p.slot
      BY <1>4
    <3>. HIDE DEF log, n
    <3>. QED  BY <2>0, <2>2, <3>1, <3>2
  <2>3. CASE i = n
    BY <1>0, <1>2, <1>3, <1>4, <2>3
  <2>. QED  BY <1>0, <2>1, <2>2, <2>3
<1>. HIDE DEF log, n
<1>6. Landed(log, p.slot)
  BY <1>0, <1>2, <1>3, <1>5 DEF Landed
<1>. QED  BY <1>0, <1>1, <1>2, <1>6 DEF log, n

-----------------------------------------------------------------------------
\* A certificate stands where its number says.
LEMMA Positions ==
    ASSUME NEW log, NEW now, Landed(log, now), NEW C, log \in Seq(C), NEW c \in Elements(log)
    PROVE  c.number \in DOMAIN log /\ log[c.number] = c /\ c.number \in Nat
<1>1. PICK i \in DOMAIN log : c = log[i]
  BY DEF Elements
<1>. QED  BY <1>1 DEF Landed

\* Some certificates of a log have a last one: what LastOf returns is it.
LEMMA LastOfSome ==
    ASSUME NEW log, NEW now, Landed(log, now), NEW C, log \in Seq(C),
           NEW S, S \subseteq Elements(log), S # {}
    PROVE  LastOf(S) \in S /\ \A d \in S : d.number <= LastOf(S).number
<1>. DEFINE N == {c.number : c \in S}
<1>1. \A c \in S : c.number \in DOMAIN log /\ log[c.number] = c /\ c.number \in Nat
  BY Positions
<1>2. N \subseteq 0..Len(log) /\ N # {} /\ Len(log) \in Nat
  BY <1>1
<1>3. PICK m \in N : \A k \in N : k <= m
  BY <1>2, GreatestExists
<1>4. PICK c \in S : c.number = m
  OBVIOUS
<1>5. \A d \in S : d.number <= c.number
  BY <1>3, <1>4
<1>. QED  BY <1>5 DEF LastOf

\* No two of the log share a slot: the order in it is that of the slots.
LEMMA SlotsOrder ==
    ASSUME NEW l, Landed(l.log, l.slot), NEW C, l.log \in Seq(C), SpreadOut(l),
           NEW c \in Elements(l.log), NEW d \in Elements(l.log)
    PROVE  /\ c.slot \in Nat /\ d.slot \in Nat /\ c.number \in Nat /\ d.number \in Nat
           /\ c.slot < d.slot <=> c.number < d.number
           /\ c.slot = d.slot <=> c = d
           /\ c.number = d.number <=> c = d
           /\ YaciBefore(c, d) <=> c.number < d.number
<1>1. PICK i \in DOMAIN l.log, j \in DOMAIN l.log : c = l.log[i] /\ d = l.log[j]
  BY DEF Elements
<1>2. /\ c.number = i /\ d.number = j /\ i \in Nat /\ j \in Nat
      /\ c.slot \in Nat /\ d.slot \in Nat /\ c.index \in Nat /\ d.index \in Nat
  BY <1>1 DEF Landed
<1>3. /\ i <= j => c.slot <= d.slot
      /\ j <= i => d.slot <= c.slot
  BY <1>1 DEF Landed
<1>4. c.slot = d.slot <=> c = d
  BY DEF SpreadOut
<1>5. c.number = d.number <=> c = d
  BY <1>1, <1>2
<1>6. c.slot < d.slot <=> c.number < d.number
  BY <1>2, <1>3, <1>4, <1>5
<1>7. YaciBefore(c, d) <=> c.number < d.number
  BY <1>2, <1>4, <1>5, <1>6 DEF YaciBefore
<1>. QED  BY <1>2, <1>4, <1>5, <1>6, <1>7

\* Sorted as Yaci's rows are, the newest is the last one.
LEMMA NewestIsLast ==
    ASSUME NEW l, Landed(l.log, l.slot), NEW C, l.log \in Seq(C), SpreadOut(l),
           NEW S, S \subseteq Elements(l.log)
    PROVE  /\ \A c \in Newest(S, YaciBefore) : c \in S /\ \A d \in S : d.number <= c.number
           /\ S # {} => LastOf(S) \in Newest(S, YaciBefore)
<1>1. Newest(S, YaciBefore) = {c \in S : \A d \in S : ~YaciBefore(c, d)}
  BY DEF Newest
<1>2. \A c, d \in S : /\ c.number \in Nat /\ d.number \in Nat
                      /\ YaciBefore(c, d) <=> c.number < d.number
  BY SlotsOrder
<1>3. S # {} => LastOf(S) \in S /\ \A d \in S : d.number <= LastOf(S).number
  BY LastOfSome
<1>. QED  BY <1>1, <1>2, <1>3

-----------------------------------------------------------------------------
(***************************************************************************)
(* The constitutional committee.                                           *)
(***************************************************************************)
Members == [cold : Cold, hot : HotCredentials \cup {None}, resigned : BOOLEAN, expiration : Epochs]

\* A ledger of the committee: a member that has resigned has no hot credential.
CommitteeLedgers ==
    {l \in [epoch : Epochs, members : [Cold -> Members]] :
        \A c \in Cold : l.members[c].cold = c /\ (l.members[c].resigned => l.members[c].hot = None)}

\* What becomes of one member leaves the others what they were.
LEMMA MemberChanges ==
    ASSUME NEW l \in CommitteeLedgers, NEW c \in Cold, NEW m \in Members,
           m.cold = c, m.resigned => m.hot = None, m.expiration = l.members[c].expiration
    PROVE  /\ [l EXCEPT !.members[c] = m] \in CommitteeLedgers
           /\ [l EXCEPT !.members[c] = m].epoch = l.epoch
           /\ \A d \in Cold : [l EXCEPT !.members[c] = m].members[d].expiration
                                 = l.members[d].expiration
BY DEF CommitteeLedgers

\* A capture has the members' terms, and is no newer than the committee.
CommitteeInv ==
    /\ committee \in CommitteeLedgers /\ committeeCaptured \in CommitteeLedgers
    /\ committeeCaptured.epoch <= committee.epoch
    /\ \A c \in Cold : committeeCaptured.members[c].expiration = committee.members[c].expiration

\* The committee's ledger, the one a call began with and the members that were
\* asked for fit together (all of CommitteeViews' actions).
THEOREM CommitteeInvAlways == CommitteeSpec => []CommitteeInv
<1>1. CommitteeInit => CommitteeInv
  <2>. SUFFICES ASSUME CommitteeInit PROVE CommitteeInv
    OBVIOUS
  <2>1. PICK terms \in [Cold -> Epochs] :
          committee = [epoch |-> 0,
                       members |-> [c \in Cold |-> [cold |-> c, hot |-> None, resigned |-> FALSE,
                                                    expiration |-> terms[c]]]]
    BY DEF CommitteeInit
  <2>2. 0 \in Epochs
    BY MaxEpochAssumption DEF Epochs
  <2>3. committee \in CommitteeLedgers
    BY <2>1, <2>2 DEF CommitteeLedgers, Members
  <2>. QED  BY <2>1, <2>2, <2>3, MaxEpochAssumption DEF CommitteeInit, CommitteeInv, Epochs
<1>2. CommitteeInv /\ [CommitteeNext]_committeeVars => CommitteeInv'
  <2>. SUFFICES ASSUME CommitteeInv, [CommitteeNext]_committeeVars PROVE CommitteeInv'
    OBVIOUS
  <2>. USE MaxEpochAssumption
  <2>1. ASSUME NEW c \in Cold, NEW h \in HotCredentials, Authorizes(c, h) PROVE CommitteeInv'
    <3>. DEFINE m == [committee.members[c] EXCEPT !.hot = h]
    <3>1. m \in Members /\ m.cold = c /\ ~m.resigned /\ m.expiration = committee.members[c].expiration
      BY <2>1 DEF CommitteeInv, CommitteeLedgers, Members, Authorizes
    <3>2. committee' = [committee EXCEPT !.members[c] = m] /\ UNCHANGED committeeCaptured
      BY <2>1 DEF Authorizes
    <3>. HIDE DEF m
    <3>. QED  BY <3>1, <3>2, MemberChanges DEF CommitteeInv
  <2>2. ASSUME NEW c \in Cold, Resigns(c) PROVE CommitteeInv'
    <3>. DEFINE x == [committee.members[c] EXCEPT !.hot = None]
                m == [x EXCEPT !.resigned = TRUE]
    <3>1. /\ committee.members[c] \in Members /\ committee.members[c].cold = c
          /\ committee \in [epoch : Epochs, members : [Cold -> Members]]
      BY DEF CommitteeInv, CommitteeLedgers
    <3>2. /\ x \in Members /\ x.cold = c /\ x.hot = None
          /\ x.expiration = committee.members[c].expiration
      BY <3>1 DEF Members
    <3>3. /\ m \in Members /\ m.cold = c /\ m.hot = None
          /\ m.expiration = committee.members[c].expiration
      <4>. HIDE DEF x
      <4>. QED  BY <3>2 DEF Members
    <3>4. committee' = [committee EXCEPT !.members[c] = m] /\ UNCHANGED committeeCaptured
      BY <2>2, <3>1 DEF Resigns
    <3>. HIDE DEF m
    <3>. QED  BY <3>3, <3>4, MemberChanges DEF CommitteeInv
  <2>3. CASE CommitteeEpochEnds
    BY <2>3 DEF CommitteeInv, CommitteeLedgers, CommitteeEpochEnds, Epochs
  <2>4. CASE Captured
    BY <2>4 DEF CommitteeInv, CommitteeLedgers, Captured, Epochs
  <2>5. CASE UNCHANGED committeeVars
    BY <2>5 DEF CommitteeInv, committeeVars
  <2>. QED  BY <2>1, <2>2, <2>3, <2>4, <2>5 DEF CommitteeNext
<1>. QED  BY <1>1, <1>2, PTL DEF CommitteeSpec

\* What the transfer file answers is one of the captured members, aged.
LEMMA OfflineFits ==
    ASSUME NEW infos, NEW l \in CommitteeLedgers, NEW cold, NEW hot, NEW today,
           infos \in {<<>>, <<NodeCommittee(l)[2], NodeCommittee(l)[1]>>},
           NEW m \in OfflineMemberInfo(infos, NodeCommittee(l), cold, hot, today)
    PROVE  \E c \in Cold : /\ m = Aged(NodeCommittee(l)[c], today)
                           /\ EitherMatches(NodeCommittee(l)[c], cold, hot)
<1>. DEFINE state == NodeCommittee(l)
            candidates == infos \o (IF state = None THEN <<>> ELSE <<state[1], state[2]>>)
            fitting == {i \in DOMAIN candidates : EitherMatches(candidates[i], cold, hot)}
<1>1. OfflineMemberInfo(infos, state, cold, hot, today)
         = {Aged(x, today) : x \in FirstFit(candidates, fitting)}
  BY DEF OfflineMemberInfo
<1>2. \A i \in DOMAIN candidates : candidates[i] \in {state[1], state[2]}
  OBVIOUS
<1>3. PICK i \in fitting : m = Aged(candidates[i], today)
  BY <1>1 DEF FirstFit
<1>. QED  BY <1>2, <1>3 DEF Cold

\* What a service and the node say of a captured member.
LEMMA CommitteeStatuses ==
    ASSUME NEW l \in CommitteeLedgers, NEW c \in Cold, NEW today \in Nat
    PROVE  /\ (MemberStatus(l.members[c], today) = "expired") <=> (today > l.members[c].expiration)
           /\ (ServiceMember(l.members[c], today).status = "expired")
                 <=> (today > l.members[c].expiration)
           /\ ServiceMember(l.members[c], today).status = "active" => l.members[c].hot # None
           /\ ServiceMember(l.members[c], today).expiration = l.members[c].expiration
           /\ ServiceMember(l.members[c], today).cold = c
           /\ ServiceMember(l.members[c], today).hot = l.members[c].hot
           /\ l.members[c].expiration \in Nat
<1>1. l.members[c] \in Members /\ l.members[c].cold = c
  BY DEF CommitteeLedgers
<1>2. l.members[c].expiration \in Nat
  BY <1>1, MaxEpochAssumption DEF Members, Epochs
<1>. QED  BY <1>1, <1>2 DEF MemberStatus, ServiceMember, MemberInfo

\* The answer of the node is the ledger's.
LEMMA NodeAnswers ==
    ASSUME NEW l \in CommitteeLedgers, NEW c \in Cold
    PROVE  LET m == NodeCommittee(l)[c]
           IN  /\ m.cold = c /\ m.hot = l.members[c].hot
               /\ m.expiration = l.members[c].expiration
               /\ m.status = MemberStatus(l.members[c], l.epoch)
BY DEF CommitteeLedgers, NodeCommittee, MemberInfo

\* A service works its answer out with one epoch that is not of the future.
LEMMA ServiceEpochs ==
    ASSUME NEW l \in CommitteeLedgers, NEW m \in CommitteeLedgers, l.epoch \in Nat, m.epoch \in Nat,
           NEW members \in ServiceCommittees(l, m)
    PROVE  \E e \in Nat : e <= m.epoch /\ members = ServiceCommittee(l, e)
<1>1. CASE members \in BlockfrostCommittee(l, m)
  BY <1>1, CachedEpochsPast DEF BlockfrostCommittee
<1>2. CASE members \in KoiosCommittee(l, m, FALSE)
  BY <1>2 DEF KoiosCommittee
<1>. QED  BY <1>1, <1>2 DEF ServiceCommittees, KoiosCommittee

\* A member counts as expired when the ledger says so, for every backend
\* (cc_member_info of the contexts).
THEOREM ExpiryIsRightAlways == CommitteeSpec => []ExpiryIsRight
<1>1. CommitteeInv => ExpiryIsRight
  <2>. SUFFICES ASSUME CommitteeInv, NEW c \in Cold
                PROVE  LET today == committee.epoch
                           Right(m) == (m.status = "expired") = (today > m.expiration)
                           section == NodeCommittee(committeeCaptured)
                       IN  /\ Right(NodeCommittee(committee)[c])
                           /\ \A members \in ServiceCommittees(committeeCaptured, committee) :
                                 members[c].status = "expired" => today > members[c].expiration
                           /\ \A members \in KoiosCommittee(committeeCaptured, committee, FALSE) :
                                 committeeCaptured.epoch > members[c].expiration
                                    => members[c].status = "expired"
                           /\ \A infos \in {<<>>, <<section[2], section[1]>>} :
                                 \A m \in OfflineMemberInfo(infos, section, c, None, today) : Right(m)
                           /\ \A members \in ServiceCommittees(committee, committee) :
                                 members[c].status = "active" => ~committee.members[c].resigned
    BY Zenon DEF ExpiryIsRight
  <2>. DEFINE today == committee.epoch
              Right(m) == (m.status = "expired") <=> (today > m.expiration)
              section == NodeCommittee(committeeCaptured)
  <2>0. /\ committee \in CommitteeLedgers /\ committeeCaptured \in CommitteeLedgers
        /\ committee.epoch \in Nat /\ committeeCaptured.epoch \in Nat
        /\ committeeCaptured.epoch <= committee.epoch
    BY MaxEpochAssumption DEF CommitteeInv, CommitteeLedgers, Epochs
  <2>1. Right(NodeCommittee(committee)[c])
    BY <2>0, CommitteeStatuses, NodeAnswers
  <2>2. ASSUME NEW members \in ServiceCommittees(committeeCaptured, committee)
        PROVE  members[c].status = "expired" => today > members[c].expiration
    <3>1. PICK e \in Nat : e <= today /\ members = ServiceCommittee(committeeCaptured, e)
      BY <2>0, ServiceEpochs
    <3>. QED  BY <2>0, <3>1, CommitteeStatuses DEF ServiceCommittee
  <2>5. ASSUME NEW members \in KoiosCommittee(committeeCaptured, committee, FALSE)
        PROVE  committeeCaptured.epoch > members[c].expiration => members[c].status = "expired"
    <3>1. PICK e \in committeeCaptured.epoch..committee.epoch :
             members = ServiceCommittee(committeeCaptured, e)
      BY DEF KoiosCommittee
    <3>2. e \in Nat /\ committeeCaptured.epoch <= e
      BY <2>0
    <3>. QED  BY <2>0, <3>1, <3>2, CommitteeStatuses DEF ServiceCommittee
  <2>3. ASSUME NEW infos \in {<<>>, <<section[2], section[1]>>},
               NEW m \in OfflineMemberInfo(infos, section, c, None, today)
        PROVE  Right(m)
    <3>1. PICK d \in Cold : m = Aged(section[d], today)
      BY <2>0, <2>3, OfflineFits
    <3>2. /\ section[d].expiration = committeeCaptured.members[d].expiration
          /\ section[d].expiration \in Nat
          /\ (section[d].status = "expired") <=> (committeeCaptured.epoch > section[d].expiration)
      BY <2>0, CommitteeStatuses, NodeAnswers
    <3>3. today # None
      BY <2>0, NoneAssumption
    <3>4. CASE section[d].status = "expired" \/ section[d].expiration >= today
      BY <2>0, <3>1, <3>2, <3>4 DEF Aged
    <3>5. CASE ~(section[d].status = "expired" \/ section[d].expiration >= today)
      <4>1. m = [section[d] EXCEPT !.status = "expired"]
        BY <3>1, <3>3, <3>5 DEF Aged
      <4>2. m.status = "expired" /\ m.expiration = section[d].expiration
        BY <4>1 DEF NodeCommittee, MemberInfo
      <4>. QED  BY <2>0, <3>2, <3>5, <4>2
    <3>. QED  BY <3>4, <3>5
  <2>4. ASSUME NEW members \in ServiceCommittees(committee, committee)
        PROVE  members[c].status = "active" => ~committee.members[c].resigned
    <3>1. PICK e \in Nat : members = ServiceCommittee(committee, e)
      BY <2>0, ServiceEpochs
    <3>. QED  BY <2>0, <3>1, CommitteeStatuses DEF ServiceCommittee, CommitteeLedgers
  <2>. DEFINE Same(m) == (m.status = "expired") = (today > m.expiration)
  <2>6. Same(NodeCommittee(committee)[c])
    BY <2>1
  <2>7. \A infos \in {<<>>, <<section[2], section[1]>>} :
           \A m \in OfflineMemberInfo(infos, section, c, None, today) : Same(m)
    BY <2>3
  <2>. QED  BY <2>2, <2>4, <2>5, <2>6, <2>7, Zenon
<1>. QED  BY <1>1, CommitteeInvAlways, PTL

\* Who is asked for by a credential is answered, as the ledger has it
\* (cc_member_info of the contexts).
THEOREM AskedForIsAnsweredAlways == CommitteeSpec => []AskedForIsAnswered
<1>1. CommitteeInv => AskedForIsAnswered
  <2>. SUFFICES ASSUME CommitteeInv,
                       NEW cold \in Cold \cup {None}, NEW hot \in HotCredentials \cup {None}
                PROVE
          LET Others == {c \in Cold : c # cold /\ committee.members[c].hot = hot}
          IN  /\ \A m \in OgmiosMemberInfo(committee, cold, hot) :
                    cold \in {None, m.cold} /\ hot \in {None, m.hot}
              /\ \A m \in CliMemberInfo(committee, cold, hot) :
                    IF cold = None THEN m.hot = hot
                    ELSE m.cold = cold /\ (hot = None => m.hot = committee.members[cold].hot)
              /\ cold = None \/ hot = None \/ Others = {} =>
                    \A m \in ServiceInfos(cold, hot)
                                \cup OfflineMemberInfo(<<>>, NodeCommittee(committee), cold, hot, None) :
                       IF cold = None THEN m.hot = hot ELSE m.cold = cold
    BY Zenon DEF AskedForIsAnswered
  <2>. DEFINE Others == {c \in Cold : c # cold /\ committee.members[c].hot = hot}
              node == NodeCommittee(committee)
  <2>0. committee \in CommitteeLedgers /\ None \notin Cold /\ committee.epoch \in Nat
    BY MaxEpochAssumption, NoneAssumption DEF CommitteeInv, Cold, CommitteeLedgers, Epochs
  <2>1. ASSUME NEW m \in OgmiosMemberInfo(committee, cold, hot)
        PROVE  cold \in {None, m.cold} /\ hot \in {None, m.hot}
    <3>1. PICK c \in Cold : m = node[c] /\ cold \in {None, c} /\ hot \in {None, committee.members[c].hot}
      BY <2>1 DEF OgmiosMemberInfo, FirstFit
    <3>. QED  BY <2>0, <3>1, NodeAnswers
  <2>2. ASSUME NEW m \in CliMemberInfo(committee, cold, hot)
        PROVE  IF cold = None THEN m.hot = hot
               ELSE m.cold = cold /\ (hot = None => m.hot = committee.members[cold].hot)
    <3>1. PICK c \in Cold : /\ m = [node[c] EXCEPT !.hot = IF @ = None THEN hot ELSE @]
                            /\ IF cold # None THEN c = cold ELSE hot # None /\ node[c].hot = hot
      BY <2>2 DEF CliMemberInfo, FirstFit
    <3>2. m.cold = c /\ m.hot = IF committee.members[c].hot = None THEN hot ELSE committee.members[c].hot
      BY <2>0, <3>1, NodeAnswers DEF NodeCommittee, MemberInfo
    <3>. QED  BY <2>0, <3>1, <3>2, NodeAnswers
  <2>3. ASSUME cold = None \/ hot = None \/ Others = {},
               NEW members \in ServiceCommittees(committee, committee),
               NEW m \in ServiceMemberInfo(members, cold, hot)
        PROVE  IF cold = None THEN m.hot = hot ELSE m.cold = cold
    <3>0. PICK e \in Nat : members = ServiceCommittee(committee, e)
      BY <2>0, ServiceEpochs
    <3>1. PICK c \in Cold : /\ m = ServiceMember(committee.members[c], e)
                            /\ EitherMatches(m, cold, hot)
      BY <3>0 DEF ServiceMemberInfo, ServiceCommittee, FirstFit
    <3>. QED  BY <2>0, <2>3, <3>1, CommitteeStatuses DEF EitherMatches
  <2>4. ASSUME cold = None \/ hot = None \/ Others = {},
               NEW m \in OfflineMemberInfo(<<>>, node, cold, hot, None)
        PROVE  IF cold = None THEN m.hot = hot ELSE m.cold = cold
    <3>1. PICK c \in Cold : m = Aged(node[c], None) /\ EitherMatches(node[c], cold, hot)
      BY <2>0, <2>4, OfflineFits
    <3>2. m = node[c]
      BY <3>1 DEF Aged
    <3>. QED  BY <2>0, <2>4, <3>1, <3>2, NodeAnswers DEF EitherMatches
  <2>5. ASSUME cold = None \/ hot = None \/ Others = {},
               NEW m \in ServiceInfos(cold, hot)
                           \cup OfflineMemberInfo(<<>>, node, cold, hot, None)
        PROVE  IF cold = None THEN m.hot = hot ELSE m.cold = cold
    BY <2>3, <2>4, <2>5 DEF ServiceInfos
  <2>. QED  BY <2>1, <2>2, <2>5, Zenon
<1>. QED  BY <1>1, CommitteeInvAlways, PTL

-----------------------------------------------------------------------------
(***************************************************************************)
(* The certificates of block producers.                                    *)
(***************************************************************************)
Blocks == [pool : KesPools, counter : Nat]
KesTypeOK == minted \in Seq(Blocks) /\ askedOf \in Seq(Blocks)

\* The counter on chain is that of the newest block.
LEMMA NewestBlock ==
    ASSUME NEW chain \in Seq(Blocks), NEW p \in KesPools
    PROVE  IF HasMinted(chain, p)
           THEN /\ BlockListed(chain, p) \in DOMAIN chain
                /\ chain[BlockListed(chain, p)].pool = p
                /\ OnChain(chain, p) = chain[BlockListed(chain, p)].counter
                /\ OnChain(chain, p) \in Nat
           ELSE OnChain(chain, p) = -1
<1>. DEFINE B == BlocksOf(chain, p)
            newest == CHOOSE n \in B : \A o \in B : o <= n
            Fits(n) == n \in DOMAIN chain /\ chain[n].pool = p
                       /\ \A o \in DOMAIN chain : chain[o].pool = p => o <= n
<1>1. CASE HasMinted(chain, p)
  <2>1. B # {} /\ B \subseteq 0..Len(chain) /\ Len(chain) \in Nat
    BY <1>1 DEF HasMinted, BlocksOf
  <2>2. \E m \in B : \A k \in B : k <= m
    BY <2>1, GreatestExists
  <2>3. newest \in B /\ \A k \in B : k <= newest
    BY <2>2
  <2>4. Fits(newest)
    BY <2>3 DEF BlocksOf
  <2>5. /\ BlockListed(chain, p) \in DOMAIN chain /\ chain[BlockListed(chain, p)].pool = p
        /\ \A o \in DOMAIN chain : chain[o].pool = p => o <= BlockListed(chain, p)
    BY <2>4, Zenon DEF BlockListed
  <2>6. BlockListed(chain, p) = newest
    <3>1. BlockListed(chain, p) \in B /\ newest \in DOMAIN chain /\ chain[newest].pool = p
      BY <2>4, <2>5 DEF BlocksOf
    <3>2. BlockListed(chain, p) <= newest /\ newest <= BlockListed(chain, p)
      BY <2>3, <2>5, <3>1
    <3>. QED  BY <2>1, <2>3, <3>1, <3>2
  <2>7. OnChain(chain, p) = chain[newest].counter
    BY <2>1, Zenon DEF OnChain
  <2>8. chain[newest] \in Blocks
    BY <2>4
  <2>. QED  BY <1>1, <2>5, <2>6, <2>7, <2>8 DEF Blocks
<1>2. CASE ~HasMinted(chain, p)
  BY <1>2 DEF HasMinted, OnChain
<1>. QED  BY <1>1, <1>2

\* The chains and the certificates of the KES model are well formed.
THEOREM KesTypeCorrect == KesSpec => []KesTypeOK
<1>1. KesInit => KesTypeOK
  BY DEF KesInit, KesTypeOK
<1>2. KesTypeOK /\ [KesNext]_kesVars => KesTypeOK'
  <2>. SUFFICES ASSUME KesTypeOK, [KesNext]_kesVars PROVE KesTypeOK'
    OBVIOUS
  <2>1. ASSUME NEW p \in KesPools, NEW n \in Accepted(minted, p),
               minted' = Append(minted, [pool |-> p, counter |-> n]), UNCHANGED askedOf
        PROVE  KesTypeOK'
    <3>1. n \in Nat
      BY NewestBlock DEF KesTypeOK, Accepted
    <3>. QED  BY <2>1, <3>1 DEF KesTypeOK, Blocks
  <2>2. CASE KesRollsBack
    BY <2>2 DEF KesRollsBack, KesTypeOK
  <2>3. CASE KesAsked
    BY <2>3 DEF KesAsked, KesTypeOK
  <2>4. CASE UNCHANGED kesVars
    BY <2>4 DEF kesVars, KesTypeOK
  <2>. QED  BY <2>1, <2>2, <2>3, <2>4 DEF KesNext, Mints
<1>. QED  BY <1>1, <1>2, PTL DEF KesSpec

\* The counter the contexts report as the next one is one the chain accepts
\* (kes_period_info of the contexts).
THEOREM NextCounterIsAcceptedAlways == KesSpec => []NextCounterIsAccepted
<1>1. KesTypeOK => NextCounterIsAccepted
  <2>. SUFFICES ASSUME KesTypeOK, NEW p \in KesPools,
                       OnChain(minted, p) \in {OnChain(askedOf, p), OnChain(askedOf, p) + 1}
                PROVE
          /\ \A a \in CliKes(askedOf, p) \cup OgmiosKes(askedOf, p) :
                a.next # None => a.next \in Accepted(minted, p)
          /\ OgmiosKes(askedOf, p) \subseteq CliKes(askedOf, p)
          /\ BlockfrostKes(askedOf, minted, p) \subseteq OgmiosKes(askedOf, p)
          /\ HasMinted(askedOf, p) =>
                OfflineKes([i \in {1} |-> Kes(OnChain(askedOf, p))]) = OgmiosKes(askedOf, p)
    BY Zenon DEF NextCounterIsAccepted
  <2>. DEFINE was == OnChain(askedOf, p)
  <2>1. CASE HasMinted(askedOf, p)
    <3>1. was \in Nat /\ was + 1 \in Accepted(minted, p) /\ was # None
      BY <2>1, NewestBlock, NoneAssumption DEF KesTypeOK, Accepted
    <3>2. CliKes(askedOf, p) = {Kes(was)} /\ OgmiosKes(askedOf, p) = {Kes(was)}
      BY <2>1 DEF CliKes, OgmiosKes
    <3>3. Kes(was).next = was + 1
      BY <3>1 DEF Kes
    <3>4. BlockfrostKes(askedOf, minted, p) \subseteq {Kes(was)}
      BY <2>1, NewestBlock DEF BlockfrostKes, KesTypeOK
    <3>5. OfflineKes([i \in {1} |-> Kes(was)]) = {Kes(was)}
      BY DEF OfflineKes
    <3>. QED  BY <3>1, <3>2, <3>3, <3>4, <3>5
  <2>2. CASE ~HasMinted(askedOf, p)
    <3>1. Kes(None).next = None
      BY DEF Kes
    <3>. QED  BY <2>2, <3>1 DEF CliKes, OgmiosKes, BlockfrostKes
  <2>. QED  BY <2>1, <2>2
<1>. QED  BY <1>1, KesTypeCorrect, PTL

-----------------------------------------------------------------------------
(***************************************************************************)
(* A stake pool.                                                           *)
(***************************************************************************)
\* The entry is what the last certificate and the epoch make of it: a pool
\* without a certificate has none, a registration makes one without a
\* retirement, and a retirement one that lasts until its epoch.  The
\* parameters to come are those of the last registration.
EntryFollows(l) ==
    LET last == l.log[Len(l.log)]
    IN  /\ l.log = <<>> => l.entry = None
        /\ l.log # <<>> =>
              /\ l.log[1].retiring = None
              /\ last.retiring = None => l.entry # None /\ l.entry.retiring = None
              /\ last.retiring # None =>
                    IF last.retiring <= l.epoch THEN l.entry = None
                    ELSE l.entry # None /\ l.entry.retiring = last.retiring
        /\ l.entry # None =>
              /\ l.entry.next \in DOMAIN l.log /\ l.log[l.entry.next].retiring = None
              /\ \A i \in DOMAIN l.log : i > l.entry.next => l.log[i].retiring # None

PoolLedgers ==
    {l \in [epoch : Epochs, slot : Nat, log : Seq(Certificates), entry : Entries \cup {None}] :
        Landed(l.log, l.slot) /\ EntryFollows(l)}

StatusOf(certificate) == IF certificate.retiring = None THEN "registered" ELSE "retiring"

\* What has happened since the call began: certificates have been added, each
\* of which gave the pool a status, and no retirement that was announced has
\* taken effect within its epoch.
PoolSince ==
    /\ poolAsked.epoch <= pool.epoch
    /\ Len(poolAsked.log) <= Len(pool.log)
    /\ \A i \in DOMAIN poolAsked.log : pool.log[i] = poolAsked.log[i]
    /\ {PoolState(poolAsked), PoolState(pool)} \subseteq poolHeld
    /\ \A i \in DOMAIN pool.log : i > Len(poolAsked.log) =>
          /\ StatusOf(pool.log[i]) \in poolHeld
          /\ pool.log[i].retiring # None => pool.log[i].retiring > poolAsked.epoch

PoolInv == pool \in PoolLedgers /\ poolAsked \in PoolLedgers /\ PoolSince

\* What a ledger of a pool is made of.
LEMMA PoolLedgerFields ==
    ASSUME NEW l \in PoolLedgers
    PROVE  /\ l.epoch \in Nat /\ l.slot \in Nat /\ l.log \in Seq(Certificates)
           /\ l.entry # None => l.entry \in Entries /\ l.entry.retiring \in Nat \cup {None}
           /\ \A i \in DOMAIN l.log :
                 l.log[i] \in Certificates /\ l.log[i].retiring \in Nat \cup {None}
           /\ Len(l.log) \in Nat
           /\ Landed(l.log, l.slot) /\ EntryFollows(l)
<1>1. Epochs \subseteq Nat
  BY MaxEpochAssumption DEF Epochs
<1>2. /\ l.epoch \in Epochs /\ l.slot \in Nat /\ l.log \in Seq(Certificates)
      /\ l.entry \in Entries \cup {None} /\ Landed(l.log, l.slot) /\ EntryFollows(l)
  BY DEF PoolLedgers
<1>3. l.entry # None => l.entry \in Entries /\ l.entry.retiring \in Nat \cup {None}
  BY <1>1, <1>2 DEF Entries
<1>4. \A i \in DOMAIN l.log :
         l.log[i] \in Certificates /\ l.log[i].retiring \in Nat \cup {None}
  <2>. TAKE i \in DOMAIN l.log
  <2>1. l.log[i] \in Certificates
    BY <1>2
  <2>. QED  BY <1>1, <2>1 DEF Certificates
<1>5. l.epoch \in Nat
  BY <1>1, <1>2
<1>6. Len(l.log) \in Nat
  BY <1>2
<1>. QED  BY <1>2, <1>3, <1>4, <1>5, <1>6

\* What a ledger becomes when a certificate lands, as in Lands.
WithCertificate(l, p, r, entry) ==
    [l EXCEPT !.slot = p.slot, !.entry = entry,
              !.log = Append(@, [slot |-> p.slot, tx |-> p.tx, index |-> p.index,
                                 number |-> p.number, retiring |-> r])]

\* A certificate that lands leaves a ledger, and the status of its kind.
LEMMA PoolLands ==
    ASSUME NEW l \in PoolLedgers, NEW p \in Places(l), NEW r \in Epochs \cup {None},
           NEW entry \in Entries, entry.retiring = r,
           r = None => entry.next = p.number,
           r # None => r > l.epoch /\ l.entry # None /\ entry.next = l.entry.next,
           NEW m, m = WithCertificate(l, p, r, entry)
    PROVE  /\ m \in PoolLedgers
           /\ m.epoch = l.epoch /\ m.entry = entry
           /\ Len(m.log) = Len(l.log) + 1
           /\ \A i \in DOMAIN l.log : m.log[i] = l.log[i]
           /\ m.log[Len(m.log)].retiring = r
<1>. DEFINE c == [slot |-> p.slot, tx |-> p.tx, index |-> p.index,
                  number |-> p.number, retiring |-> r]
            n == Len(l.log) + 1
            log == Append(l.log, c)
<1>1. /\ l \in [epoch : Epochs, slot : Nat, log : Seq(Certificates),
                entry : Entries \cup {None}]
      /\ Landed(l.log, l.slot)
  BY DEF PoolLedgers
<1>2. c \in Certificates
  BY <1>1, PlacesFit DEF Certificates
<1>3. /\ log \in Seq(Certificates) /\ Landed(log, p.slot) /\ p.number = n
      /\ p.slot >= l.slot /\ p.slot \in Nat
  BY <1>1, <1>2, LandsInOrder, PlacesFit
<1>. HIDE DEF log
<1>4. m = [l EXCEPT !.slot = p.slot, !.entry = entry, !.log = log]
  BY Zenon DEF log, WithCertificate
<1>5. /\ m.slot = p.slot /\ m.entry = entry /\ m.log = log /\ m.epoch = l.epoch
      /\ m \in [epoch : Epochs, slot : Nat, log : Seq(Certificates),
                entry : Entries \cup {None}]
  BY <1>1, <1>3, <1>4
<1>6. /\ Len(log) = n /\ n \in Nat /\ n >= 1 /\ log[n].retiring = r /\ DOMAIN log = 1..n
      /\ DOMAIN l.log = 1..(n - 1) /\ \A i \in 1..(n - 1) : log[i] = l.log[i]
  BY <1>1 DEF log
<1>7. EntryFollows(m)
  <2>1. log # <<>> /\ entry # None
    BY <1>6, RecordsAssumption
  <2>2. log[1].retiring = None
    BY <1>6, PoolLedgerFields DEF EntryFollows
  <2>3. r # None => ~(r <= m.epoch)
    BY <1>5, PoolLedgerFields, MaxEpochAssumption DEF Epochs
  <2>4. CASE r = None
    BY <1>3, <1>5, <1>6, <2>1, <2>2, <2>3, <2>4 DEF EntryFollows
  <2>5. CASE r # None
    <3>1. /\ entry.next \in 1..(n - 1) /\ log[entry.next].retiring = None
          /\ \A i \in 1..(n - 1) : i > entry.next => log[i].retiring # None
      BY <1>6, <2>5, PoolLedgerFields DEF EntryFollows
    <3>2. \A i \in 1..n : i > entry.next => log[i].retiring # None
      BY <1>6, <2>5, <3>1
    <3>. QED  BY <1>5, <1>6, <2>1, <2>2, <2>3, <2>5, <3>1, <3>2 DEF EntryFollows
  <2>. QED  BY <2>4, <2>5
<1>. QED  BY <1>3, <1>5, <1>6, <1>7 DEF PoolLedgers

\* The end of an epoch makes a ledger of a ledger.
LEMMA EpochEndsFollows ==
    ASSUME NEW l \in PoolLedgers, l.epoch < MaxEpoch, NEW m,
           m = [l EXCEPT !.epoch = @ + 1, !.slot = @ + 1,
                         !.entry = IF @ = None \/ @.retiring = l.epoch + 1 THEN None
                                   ELSE [@ EXCEPT !.params = l.entry.next]]
    PROVE  m \in PoolLedgers /\ m.log = l.log /\ m.epoch = l.epoch + 1
<1>. DEFINE entry == IF l.entry = None \/ l.entry.retiring = l.epoch + 1 THEN None
                     ELSE [l.entry EXCEPT !.params = l.entry.next]
<1>1. /\ l \in [epoch : Epochs, slot : Nat, log : Seq(Certificates),
                entry : Entries \cup {None}]
      /\ Landed(l.log, l.slot) /\ EntryFollows(l)
  BY DEF PoolLedgers
<1>2. entry # None => /\ l.entry # None /\ entry.next = l.entry.next
                      /\ entry.retiring = l.entry.retiring /\ l.entry.retiring # l.epoch + 1
  BY <1>1 DEF Entries
<1>3. entry \in Entries \cup {None}
  BY <1>1 DEF Entries
<1>4. (entry = None) <=> (l.entry = None \/ l.entry.retiring = l.epoch + 1)
  BY <1>1, <1>3, RecordsAssumption DEF Entries
<1>. HIDE DEF entry
<1>5. m = [l EXCEPT !.epoch = l.epoch + 1, !.slot = l.slot + 1, !.entry = entry]
  BY <1>1 DEF entry
<1>6. l.epoch + 1 \in Epochs /\ l.slot + 1 \in Nat /\ l.epoch \in Nat
  BY <1>1, MaxEpochAssumption DEF Epochs
<1>7. /\ m.epoch = l.epoch + 1 /\ m.slot = l.slot + 1 /\ m.log = l.log /\ m.entry = entry
      /\ m \in [epoch : Epochs, slot : Nat, log : Seq(Certificates),
                entry : Entries \cup {None}]
  BY <1>1, <1>3, <1>5, <1>6
<1>8. Landed(m.log, m.slot)
  BY <1>1, <1>7 DEF Landed
<1>9. EntryFollows(m)
  <2>1. CASE l.log = <<>>
    BY <1>1, <1>4, <1>7, <2>1 DEF EntryFollows
  <2>2. CASE l.log # <<>>
    <3>1. l.log[Len(l.log)].retiring \in Nat \cup {None}
      BY <2>2, PoolLedgerFields
    <3>. QED  BY <1>1, <1>2, <1>4, <1>6, <1>7, <2>2, <3>1, NoneAssumption DEF EntryFollows
  <2>. QED  BY <2>1, <2>2
<1>. QED  BY <1>7, <1>8, <1>9 DEF PoolLedgers

\* The state of a pool is that of its last certificate, while its retirement
\* has not taken effect.
LEMMA StateOfLast ==
    ASSUME NEW l \in PoolLedgers
    PROVE  LET last == l.log[Len(l.log)]
           IN  /\ l.log = <<>> => PoolState(l) = "retired" /\ l.entry = None
               /\ l.log # <<>> =>
                     /\ PoolState(l) = IF last.retiring = None THEN "registered"
                                       ELSE IF l.epoch < last.retiring THEN "retiring" ELSE "retired"
                     /\ (l.entry # None) <=> (PoolState(l) # "retired")
                     /\ l.entry # None => l.entry.retiring = last.retiring
                     /\ Len(l.log) \in DOMAIN l.log
<1>1. l.log # <<>> => Len(l.log) \in DOMAIN l.log
  BY PoolLedgerFields
<1>. QED  BY <1>1, PoolLedgerFields DEF EntryFollows, PoolState

\* The pool's ledger follows from its certificates, and so does what has
\* happened since a call began.
THEOREM PoolInvAlways == PoolSpec => []PoolInv
<1>1. PoolInit => PoolInv
  <2>. SUFFICES ASSUME PoolInit PROVE PoolInv
    OBVIOUS
  <2>1. pool = [epoch |-> 0, slot |-> 0, log |-> <<>>, entry |-> None] /\ poolAsked = pool
        /\ poolHeld = {"retired"}
    BY DEF PoolInit
  <2>2. Landed(pool.log, pool.slot) /\ EntryFollows(pool) /\ PoolState(pool) = "retired"
    BY <2>1 DEF Landed, EntryFollows, PoolState
  <2>3. 0 \in Epochs
    BY MaxEpochAssumption DEF Epochs
  <2>. QED  BY <2>1, <2>2, <2>3 DEF PoolInv, PoolLedgers, PoolSince
<1>2. PoolInv /\ [PoolNext]_poolVars => PoolInv'
  <2>. SUFFICES ASSUME PoolInv, [PoolNext]_poolVars PROVE PoolInv'
    OBVIOUS
  <2>0. /\ pool \in PoolLedgers /\ poolAsked \in PoolLedgers /\ PoolSince
        /\ pool.epoch \in Nat /\ poolAsked.epoch \in Nat
        /\ Len(pool.log) \in Nat /\ Len(poolAsked.log) \in Nat
        /\ DOMAIN pool.log = 1..Len(pool.log) /\ DOMAIN poolAsked.log = 1..Len(poolAsked.log)
    BY PoolLedgerFields DEF PoolInv
  \* A certificate with the retirement r has landed.
  <2>1. ASSUME NEW r \in Epochs \cup {None}, pool' \in PoolLedgers,
               pool'.epoch = pool.epoch, Len(pool'.log) = Len(pool.log) + 1,
               \A i \in DOMAIN pool.log : pool'.log[i] = pool.log[i],
               pool'.log[Len(pool'.log)].retiring = r, r # None => r > pool.epoch,
               poolHeld' = poolHeld \cup {PoolState(pool')}, UNCHANGED poolAsked
        PROVE  PoolInv'
    <3>1. DOMAIN pool'.log = 1..(Len(pool.log) + 1)
      BY <2>1, PoolLedgerFields
    <3>2. PoolState(pool') = StatusOf(pool'.log[Len(pool'.log)])
      <4>1. r # None => r \in Nat
        BY MaxEpochAssumption DEF Epochs
      <4>. QED  BY <2>0, <2>1, <3>1, <4>1, StateOfLast DEF StatusOf
    <3>3. ASSUME NEW i \in DOMAIN pool'.log, i > Len(poolAsked'.log)
          PROVE  /\ StatusOf(pool'.log[i]) \in poolHeld'
                 /\ pool'.log[i].retiring # None => pool'.log[i].retiring > poolAsked'.epoch
      <4>1. CASE i \in DOMAIN pool.log
        BY <2>0, <2>1, <3>3, <4>1 DEF PoolSince
      <4>2. CASE i = Len(pool'.log)
        <5>1. r # None => r \in Nat
          BY MaxEpochAssumption DEF Epochs
        <5>. QED  BY <2>0, <2>1, <3>2, <4>2, <5>1 DEF PoolSince
      <4>. QED  BY <2>0, <2>1, <3>1, <4>1, <4>2
    <3>4. PoolSince'
      BY <2>0, <2>1, <3>1, <3>3 DEF PoolSince
    <3>. QED  BY <2>0, <2>1, <3>4 DEF PoolInv
  <2>2. CASE Registers
    <3>1. PICK p \in Places(pool) :
             Lands(p, None,
                   IF pool.entry = None
                   THEN [params |-> p.number, next |-> p.number, retiring |-> None]
                   ELSE [pool.entry EXCEPT !.next = p.number, !.retiring = None])
      BY <2>2 DEF Registers
    <3>. DEFINE entry == IF pool.entry = None
                         THEN [params |-> p.number, next |-> p.number, retiring |-> None]
                         ELSE [pool.entry EXCEPT !.next = p.number, !.retiring = None]
    <3>2. p.number \in Nat
      BY <2>0, PoolLedgerFields, PlacesFit
    <3>3. entry \in Entries /\ entry.retiring = None /\ entry.next = p.number
      BY <2>0, <3>2, PoolLedgerFields DEF Entries
    <3>. HIDE DEF entry
    <3>4. /\ pool' = WithCertificate(pool, p, None, entry)
          /\ poolHeld' = poolHeld \cup {PoolState(pool')} /\ UNCHANGED poolAsked
      BY <3>1, Zenon DEF Lands, WithCertificate, entry
    <3>5. /\ pool' \in PoolLedgers /\ pool'.epoch = pool.epoch
          /\ Len(pool'.log) = Len(pool.log) + 1
          /\ \A i \in DOMAIN pool.log : pool'.log[i] = pool.log[i]
          /\ pool'.log[Len(pool'.log)].retiring = None
      BY <2>0, <3>3, <3>4, PoolLands
    <3>. QED  BY <2>1, <3>4, <3>5
  <2>3. CASE Retires
    <3>1. PICK p \in Places(pool), e \in Epochs :
             /\ pool.entry # None /\ e > pool.epoch
             /\ Lands(p, e, [pool.entry EXCEPT !.retiring = e])
      BY <2>3 DEF Retires
    <3>. DEFINE entry == [pool.entry EXCEPT !.retiring = e]
    <3>0. pool.entry \in Entries
      BY <2>0, <3>1, PoolLedgerFields
    <3>9. e \in Nat /\ e # None
      BY NoneAssumption, MaxEpochAssumption DEF Epochs
    <3>2. entry \in Entries /\ entry.retiring = e /\ entry.next = pool.entry.next /\ e # None
      BY <3>0, <3>9 DEF Entries
    <3>. HIDE DEF entry
    <3>4. /\ pool' = WithCertificate(pool, p, e, entry)
          /\ poolHeld' = poolHeld \cup {PoolState(pool')} /\ UNCHANGED poolAsked
      BY <3>1, Zenon DEF Lands, WithCertificate, entry
    <3>5. /\ pool' \in PoolLedgers /\ pool'.epoch = pool.epoch
          /\ Len(pool'.log) = Len(pool.log) + 1
          /\ \A i \in DOMAIN pool.log : pool'.log[i] = pool.log[i]
          /\ pool'.log[Len(pool'.log)].retiring = e
      BY <2>0, <3>1, <3>2, <3>4, PoolLands
    <3>. QED  BY <2>1, <3>1, <3>4, <3>5
  <2>4. CASE PoolEpochEnds
    <3>1. pool' \in PoolLedgers /\ pool'.log = pool.log /\ pool'.epoch = pool.epoch + 1
      BY <2>0, <2>4, EpochEndsFollows DEF PoolEpochEnds
    <3>. QED  BY <2>0, <2>4, <3>1 DEF PoolEpochEnds, PoolInv, PoolSince
  <2>5. CASE PoolAsked
    BY <2>0, <2>5 DEF PoolAsked, PoolInv, PoolSince
  <2>6. CASE UNCHANGED poolVars
    BY <2>0, <2>6 DEF poolVars, PoolInv, PoolSince
  <2>. QED  BY <2>2, <2>3, <2>4, <2>5, <2>6 DEF PoolNext
<1>. QED  BY <1>1, <1>2, PTL DEF PoolSpec
-----------------------------------------------------------------------------
\* The last certificate of a log is a registration or a retirement of it.
LEMMA CertificatesOf ==
    ASSUME NEW l \in PoolLedgers, NEW i \in DOMAIN l.log
    PROVE  /\ l.log[i] \in Elements(l.log) /\ l.log[i].number = i /\ i \in Nat /\ i <= Len(l.log)
           /\ l.log[i].retiring = None => l.log[i] \in Registrations(l)
           /\ l.log[i].retiring # None => l.log[i] \in Retirements(l)
BY PoolLedgerFields DEF Elements, Landed, Registrations, Retirements

\* The last registration and the last retirement; the later one is the last
\* certificate.
LEMMA LastCertificates ==
    ASSUME NEW l \in PoolLedgers, l.log # <<>>
    PROVE  LET last == l.log[Len(l.log)]
               reg == LastOf(Registrations(l))
               ret == LastOf(Retirements(l))
           IN  /\ reg \in Registrations(l) /\ reg.number \in DOMAIN l.log
               /\ \A r \in Registrations(l) : r.number \in Nat /\ r.number <= reg.number
               /\ Retirements(l) # {} =>
                     /\ ret \in Retirements(l) /\ ret.number \in DOMAIN l.log
                     /\ \A t \in Retirements(l) : t.number \in Nat /\ t.number <= ret.number
               /\ last.retiring = None =>
                     /\ reg = last
                     /\ Retirements(l) # {} => ret.number < reg.number
               /\ last.retiring # None =>
                     /\ Retirements(l) # {} /\ ret = last
                     /\ reg.number < ret.number
               /\ l.entry # None => reg.number = l.entry.next
<1>. DEFINE n == Len(l.log)
            reg == LastOf(Registrations(l))
            ret == LastOf(Retirements(l))
<1>0. /\ l.log \in Seq(Certificates) /\ Landed(l.log, l.slot) /\ EntryFollows(l)
      /\ n \in Nat /\ n \in DOMAIN l.log /\ 1 \in DOMAIN l.log
  BY PoolLedgerFields
<1>1. /\ Registrations(l) \subseteq Elements(l.log) /\ Retirements(l) \subseteq Elements(l.log)
      /\ Registrations(l) # {}
  BY <1>0, CertificatesOf DEF Registrations, Retirements, EntryFollows
<1>2. \A c \in Elements(l.log) : /\ c.number \in DOMAIN l.log /\ l.log[c.number] = c
                                 /\ c.number \in Nat /\ c.number <= n
  <2>. TAKE c \in Elements(l.log)
  <2>1. c.number \in DOMAIN l.log /\ l.log[c.number] = c /\ c.number \in Nat
    BY <1>0, Positions
  <2>. QED  BY <1>0, <2>1
<1>3. reg \in Registrations(l) /\ \A r \in Registrations(l) : r.number <= reg.number
  BY <1>0, <1>1, LastOfSome
<1>4. Retirements(l) # {} =>
         ret \in Retirements(l) /\ \A t \in Retirements(l) : t.number <= ret.number
  BY <1>0, <1>1, LastOfSome
<1>5. reg.retiring = None /\ (Retirements(l) # {} => ret.retiring # None)
  BY <1>3, <1>4 DEF Registrations, Retirements
<1>9. /\ reg.number \in Nat /\ reg.number <= n /\ l.log[reg.number] = reg
      /\ Retirements(l) # {} =>
            ret.number \in Nat /\ ret.number <= n /\ l.log[ret.number] = ret
  BY <1>1, <1>2, <1>3, <1>4
<1>6. /\ l.log[n].number = n
      /\ l.log[n].retiring = None => l.log[n] \in Registrations(l)
      /\ l.log[n].retiring # None => l.log[n] \in Retirements(l)
  BY <1>0, CertificatesOf
<1>. HIDE DEF n, reg, ret
<1>7. CASE l.log[n].retiring = None
  <2>1. reg.number = n
    BY <1>0, <1>1, <1>2, <1>3, <1>6, <1>7
  <2>2. reg = l.log[n]
    BY <1>1, <1>2, <1>3, <2>1
  <2>3. Retirements(l) # {} => ret.number < reg.number
    BY <1>0, <1>5, <1>7, <1>9, <2>1
  <2>4. l.entry # None => l.entry.next = n
    BY <1>0, <1>7 DEF EntryFollows, n
  <2>. QED  BY <1>1, <1>2, <1>3, <1>4, <1>7, <2>1, <2>2, <2>3, <2>4 DEF n, reg, ret
<1>8. CASE l.log[n].retiring # None
  <2>1. Retirements(l) # {} /\ ret.number = n
    BY <1>0, <1>1, <1>2, <1>4, <1>6, <1>8
  <2>2. ret = l.log[n]
    BY <1>1, <1>2, <1>4, <2>1
  <2>3. reg.number < ret.number
    BY <1>0, <1>5, <1>8, <1>9, <2>1
  <2>4. l.entry # None => l.entry.next = reg.number
    <3>. SUFFICES ASSUME l.entry # None PROVE l.entry.next = reg.number
      OBVIOUS
    <3>1. /\ l.entry.next \in DOMAIN l.log /\ l.log[l.entry.next].retiring = None
          /\ \A i \in DOMAIN l.log : i > l.entry.next => l.log[i].retiring # None
      BY <1>0 DEF EntryFollows
    <3>2. l.entry.next \in Nat /\ l.entry.next <= reg.number
      BY <1>3, <3>1, CertificatesOf
    <3>3. ~(reg.number > l.entry.next)
      BY <1>1, <1>2, <1>3, <1>5, <3>1
    <3>. QED  BY <1>1, <1>2, <1>3, <3>2, <3>3
  <2>. QED  BY <1>1, <1>2, <1>3, <1>4, <1>8, <2>1, <2>2, <2>3, <2>4 DEF n, reg, ret
<1>. QED  BY <1>7, <1>8

\* What Yaci's context makes of two readings: the last registration of the one,
\* and the last retirement of the other unless the registration is later.
LEMMA YaciPairs ==
    ASSUME NEW l \in PoolLedgers, NEW m \in PoolLedgers, SpreadOut(l), SpreadOut(m),
           NEW c \in YaciCertificates(l, m)
    PROVE  /\ c[1] \in Registrations(l)
           /\ \A r \in Registrations(l) : r.number <= c[1].number
           /\ \/ c[2] = None /\ \A t \in Retirements(m) : t.slot < c[1].slot
              \/ /\ c[2] # None /\ c[2] \in Retirements(m) /\ ~(c[2].slot < c[1].slot)
                 /\ \A t \in Retirements(m) : t.number <= c[2].number
<1>1. PICK r \in Newest(Registrations(l), YaciBefore),
           t \in IF Retirements(m) = {} THEN {None} ELSE Newest(Retirements(m), YaciBefore) :
              c = <<r, IF t = None \/ t.slot < r.slot THEN None ELSE t>>
  BY DEF YaciCertificates
<1>0. /\ l.log \in Seq(Certificates) /\ Landed(l.log, l.slot)
      /\ m.log \in Seq(Certificates) /\ Landed(m.log, m.slot)
      /\ Registrations(l) \subseteq Elements(l.log) /\ Retirements(m) \subseteq Elements(m.log)
  BY PoolLedgerFields DEF Registrations, Retirements
<1>2. r \in Registrations(l) /\ \A d \in Registrations(l) : d.number <= r.number
  BY <1>0, NewestIsLast
<1>3. r.slot \in Nat
  BY <1>0, <1>2 DEF Elements, Landed
<1>4. CASE Retirements(m) = {}
  BY <1>1, <1>2, <1>4
<1>5. CASE Retirements(m) # {}
  <2>1. t \in Retirements(m) /\ \A d \in Retirements(m) : d.number <= t.number
    BY <1>0, <1>5, NewestIsLast
  <2>2. t \in Certificates /\ t # None /\ t.slot \in Nat
    <3>1. PICK i \in DOMAIN m.log : t = m.log[i]
      BY <1>0, <2>1 DEF Elements
    <3>2. m.log[i] \in Certificates /\ m.log[i].slot \in Nat
      BY <1>0 DEF Landed
    <3>. QED  BY <3>1, <3>2, RecordsAssumption
  <2>3. \A d \in Retirements(m) : d.slot \in Nat /\ d.slot <= t.slot
    <3>. TAKE d \in Retirements(m)
    <3>1. d.number <= t.number
      BY <2>1
    <3>2. /\ d.slot \in Nat /\ d.number \in Nat /\ t.number \in Nat
          /\ t.slot < d.slot <=> t.number < d.number
      BY <1>0, <2>1, SlotsOrder
    <3>. QED  BY <2>2, <3>1, <3>2
  <2>. QED  BY <1>1, <1>2, <1>3, <2>1, <2>2, <2>3
<1>. QED  BY <1>4, <1>5
-----------------------------------------------------------------------------
\* If there are registrations, Yaci's context finds one to answer from.
LEMMA YaciCertificatesExist ==
    ASSUME NEW l \in PoolLedgers, NEW m \in PoolLedgers, SpreadOut(l), SpreadOut(m),
           Registrations(l) # {}
    PROVE  YaciCertificates(l, m) # {}
<1>1. /\ l.log \in Seq(Certificates) /\ Landed(l.log, l.slot)
      /\ m.log \in Seq(Certificates) /\ Landed(m.log, m.slot)
      /\ Registrations(l) \subseteq Elements(l.log) /\ Retirements(m) \subseteq Elements(m.log)
  BY PoolLedgerFields DEF Registrations, Retirements
<1>2. LastOf(Registrations(l)) \in Newest(Registrations(l), YaciBefore)
  BY <1>1, NewestIsLast
<1>3. Retirements(m) # {} => LastOf(Retirements(m)) \in Newest(Retirements(m), YaciBefore)
  BY <1>1, NewestIsLast
<1>4. \E t : t \in IF Retirements(m) = {} THEN {None} ELSE Newest(Retirements(m), YaciBefore)
  BY <1>3, Zenon
<1>5. PICK t : t \in IF Retirements(m) = {} THEN {None} ELSE Newest(Retirements(m), YaciBefore)
  BY <1>4
<1>6. <<LastOf(Registrations(l)),
        IF t = None \/ t.slot < LastOf(Registrations(l)).slot THEN None ELSE t>>
           \in YaciCertificates(l, m)
  BY <1>2, <1>5 DEF YaciCertificates
<1>. QED  BY <1>6

\* The fields of an answer about a pool.
LEMMA InfoFields ==
    ASSUME NEW s, NEW t, NEW p, NEW m
    PROVE  /\ Info(s, t, p, m).params = p /\ Info(s, t, p, m).metadata = m
           /\ StateOf(Info(s, t, p, m)) =
                 [status |-> s, retiring |-> IF s = "retired" THEN None ELSE t]
BY Zenon DEF Info, StateOf

\* Koios answers the status of the ledger.
LEMMA KoiosIsRight ==
    ASSUME NEW l \in PoolLedgers, NEW info \in KoiosPoolInfo(l, FALSE, "differs")
    PROVE  StateOf(info) = LedgerState(l)
<1>. DEFINE row == PoolRow(l)
<1>1. l.log # <<>> /\ info = Info(row.pool_status, row.retiring_epoch, row.params, row.params \in Anchored)
  BY DEF KoiosPoolInfo
<1>2. row.pool_status = PoolState(l)
  BY DEF PoolRow
<1>3. PoolState(l) # "retired" => row.retiring_epoch = l.entry.retiring
  BY <1>1, LastCertificates, StateOfLast DEF PoolRow
<1>4. l.entry = None <=> PoolState(l) = "retired"
  BY <1>1, StateOfLast
<1>. HIDE DEF row
<1>. QED  BY <1>1, <1>2, <1>3, <1>4 DEF StateOf, LedgerState, Info

\* Yaci's certificates, read at once, end as the log does.
LEMMA YaciAtOnce ==
    ASSUME NEW l \in PoolLedgers, SpreadOut(l), NEW c \in YaciCertificates(l, l)
    PROVE  /\ l.log # <<>>
           /\ c[2] = IF l.log[Len(l.log)].retiring = None THEN None ELSE l.log[Len(l.log)]
<1>. DEFINE last == l.log[Len(l.log)]
            reg == LastOf(Registrations(l))
            ret == LastOf(Retirements(l))
<1>1. l.log # <<>>
  BY YaciPairs DEF Registrations, Elements
<1>2. /\ c[1] \in Registrations(l) /\ c[1] \in Elements(l.log)
      /\ c[1] = reg
  <2>1. c[1] \in Registrations(l) /\ \A r \in Registrations(l) : r.number <= c[1].number
    BY YaciPairs
  <2>2. reg \in Registrations(l) /\ reg.number \in Nat /\ \A r \in Registrations(l) : r.number \in Nat /\ r.number <= reg.number
    BY <1>1, LastCertificates
  <2>3. reg.number = c[1].number
    BY <2>1, <2>2
  <2>. QED  BY <2>1, <2>2, <2>3, SlotsOrder, PoolLedgerFields DEF Registrations
<1>3. CASE last.retiring = None
  <2>1. c[2] = None
    <3>. SUFFICES ASSUME c[2] \in Retirements(l), ~(c[2].slot < c[1].slot) PROVE FALSE
      BY YaciPairs
    <3>1. c[2].number <= ret.number /\ ret.number < reg.number /\ c[2].number \in Nat /\ reg.number \in Nat /\ ret.number \in Nat
      BY <1>1, <1>3, LastCertificates
    <3>2. c[2].slot < c[1].slot <=> c[2].number < c[1].number
      BY <1>2, SlotsOrder, PoolLedgerFields DEF Retirements
    <3>. QED  BY <1>2, <3>1, <3>2
  <2>. QED  BY <1>1, <1>3, <2>1
<1>4. CASE last.retiring # None
  <2>1. ret \in Retirements(l) /\ ret = last /\ reg.number < ret.number
        /\ \A t \in Retirements(l) : t.number \in Nat /\ t.number <= ret.number
    BY <1>1, <1>4, LastCertificates
  <2>2. ~(ret.slot < c[1].slot)
    <3>1. ret.slot < c[1].slot <=> ret.number < c[1].number
      BY <1>2, <2>1, SlotsOrder, PoolLedgerFields DEF Retirements
    <3>2. reg.number \in Nat
      BY <1>1, LastCertificates
    <3>. QED  BY <1>2, <2>1, <3>1, <3>2
  <2>3. c[2] # None /\ c[2] \in Retirements(l) /\ \A t \in Retirements(l) : t.number <= c[2].number
    BY <2>1, <2>2, YaciPairs
  <2>4. c[2] = last
    <3>1. c[2].number = ret.number
      BY <2>1, <2>3
    <3>. QED  BY <2>1, <2>3, <3>1, SlotsOrder, PoolLedgerFields DEF Retirements
  <2>. QED  BY <1>1, <1>4, <2>3, <2>4
<1>. QED  BY <1>3, <1>4

\* A status worked out of the last certificate with an epoch that is not of
\* the future is right as of that epoch.
LEMMA RightOfLast ==
    ASSUME pool \in PoolLedgers, pool.log # <<>>, NEW e \in Nat, e <= pool.epoch, NEW info,
           LET last == pool.log[Len(pool.log)]
           IN  IF last.retiring = None THEN info.status = "registered" /\ info.retiring = None
               ELSE IF e >= last.retiring THEN info.status = "retired"
               ELSE info.status = "retiring" /\ info.retiring = last.retiring
    PROVE  RightAsOf(info, e)
<1>. DEFINE last == pool.log[Len(pool.log)]
<1>1. /\ PoolState(pool) = IF last.retiring = None THEN "registered"
                           ELSE IF pool.epoch < last.retiring THEN "retiring" ELSE "retired"
      /\ pool.entry # None <=> PoolState(pool) # "retired"
      /\ pool.entry # None => pool.entry.retiring = last.retiring
      /\ last.retiring # None => last.retiring \in Nat
      /\ pool.epoch \in Nat
  BY PoolLedgerFields, StateOfLast
<1>. HIDE DEF last
<1>2. CASE last.retiring = None
  BY <1>1, <1>2 DEF RightAsOf, StateOf, LedgerState, last
<1>3. CASE last.retiring # None /\ e >= last.retiring
  <2>1. info.status = "retired" /\ PoolState(pool) = "retired"
    BY <1>1, <1>3 DEF last
  <2>. QED  BY <1>1, <2>1 DEF RightAsOf, StateOf, LedgerState
<1>4. CASE last.retiring # None /\ e < last.retiring
  <2>1. info.status = "retiring" /\ info.retiring = last.retiring
    BY <1>1, <1>4 DEF last
  <2>. QED  BY <1>1, <1>4, <2>1 DEF RightAsOf, StateOf, LedgerState
<1>. QED  BY <1>1, <1>2, <1>3, <1>4

\* Yaci's answer at one moment about a pool with no two certificates in one
\* block is right as of the epoch its context has cached.
LEMMA YaciIsRight ==
    ASSUME pool \in PoolLedgers, SpreadOut(pool), NEW e \in CachedEpochs(pool.epoch),
           NEW info \in YaciPoolInfo(pool, pool, e)
    PROVE  RightAsOf(info, e)
<1>1. PICK c \in YaciCertificates(pool, pool) :
         info = Info(YaciStatus(c[2], e), IF c[2] = None THEN None ELSE c[2].retiring,
                     c[1].number, c[1].number \in Anchored)
  BY DEF YaciPoolInfo
<1>. DEFINE last == pool.log[Len(pool.log)]
<1>2. pool.log # <<>> /\ c[2] = IF last.retiring = None THEN None ELSE last
  BY YaciAtOnce
<1>3. pool.epoch \in Nat /\ e \in Nat /\ e <= pool.epoch
  BY CachedEpochsPast, PoolLedgerFields
<1>4. last # None /\ (last.retiring # None => last.retiring \in Nat)
  BY <1>2, CertificatesOf, PoolLedgerFields, RecordsAssumption, StateOfLast
<1>5. info.status = YaciStatus(c[2], e) /\ info.retiring = IF c[2] = None THEN None ELSE c[2].retiring
  BY <1>1 DEF Info
<1>6. IF last.retiring = None THEN info.status = "registered" /\ info.retiring = None
      ELSE IF e >= last.retiring THEN info.status = "retired"
      ELSE info.status = "retiring" /\ info.retiring = last.retiring
  <2>. HIDE DEF last
  <2>. QED  BY <1>2, <1>3, <1>4, <1>5 DEF YaciStatus
<1>. QED  BY <1>2, <1>3, <1>6, RightOfLast

\* Blockfrost's answer at one moment about a pool that never came back is right
\* as of the epoch its context has cached, unless a certificate shares its
\* block with another.
LEMMA BlockfrostIsRight ==
    ASSUME pool \in PoolLedgers, SpreadOut(pool), NeverRevived(pool),
           NEW e \in CachedEpochs(pool.epoch),
           NEW info \in BlockfrostPoolInfo(pool, e, FALSE, "differs", FALSE)
    PROVE  RightAsOf(info, e)
<1>. DEFINE l == pool
            last == l.log[Len(l.log)]
            ret == LastOf(Retirements(l))
            inTx == {c \in Retirements(l) : c.tx = ret.tx}
            first == CHOOSE c \in inTx : \A d \in inTx : c.number <= d.number
            state == RetirementStatus(l, e, FALSE)
<1>0. pool.epoch \in Nat /\ e \in Nat /\ e <= pool.epoch
  BY CachedEpochsPast, PoolLedgerFields
<1>1. l.log # <<>> /\ info.status = state.status /\ info.retiring = state.retiring
  <2>1. PICK p, m : l.log # <<>> /\ info = Info(state.status, state.retiring, p, m)
    BY Zenon DEF BlockfrostPoolInfo, BlockfrostVerified
  <2>. HIDE DEF state
  <2>. QED  BY <2>1 DEF Info
<1>2. CASE Retirements(l) = {}
  <2>1. state = [status |-> "registered", retiring |-> None]
    BY <1>2 DEF RetirementStatus
  <2>2. last.retiring = None
    BY <1>1, <1>2, LastCertificates
  <2>. HIDE DEF state
  <2>. QED  BY <1>0, <1>1, <2>1, <2>2, RightOfLast
<1>3. CASE Retirements(l) # {}
  <2>1. last.retiring # None /\ ret = last /\ ret \in Retirements(l)
    BY <1>1, <1>3, LastCertificates DEF NeverRevived
  <2>2. \A c \in inTx : c = ret
    <3>. TAKE c \in inTx
    <3>1. PICK i \in DOMAIN l.log, j \in DOMAIN l.log : c = l.log[i] /\ ret = l.log[j]
      BY <2>1 DEF Retirements, Elements
    <3>2. c.slot = ret.slot
      BY <3>1, PoolLedgerFields DEF Landed
    <3>. QED  BY <2>1, <3>2 DEF SpreadOut, Retirements
  <2>3. ret \in inTx /\ ret.number <= ret.number
    <3>1. Len(l.log) \in DOMAIN l.log /\ last.number \in Nat
      BY <1>1, CertificatesOf, StateOfLast
    <3>. QED  BY <2>1, <3>1
  <2>4. first = last
    <3>1. first \in inTx
      BY <2>2, <2>3
    <3>. QED  BY <2>1, <2>2, <3>1
  <2>5. state = IF e >= last.retiring THEN [status |-> "retired", retiring |-> None]
                ELSE [status |-> "retiring", retiring |-> last.retiring]
    BY <1>3, <2>4 DEF RetirementStatus
  <2>6. IF e >= last.retiring THEN info.status = "retired"
        ELSE info.status = "retiring" /\ info.retiring = last.retiring
    <3>. HIDE DEF state, last
    <3>. QED  BY <1>1, <2>5
  <2>. HIDE DEF state
  <2>. QED  BY <1>0, <1>1, <2>1, <2>6, RightOfLast
<1>. QED  BY <1>2, <1>3

\* The backends answer the status the pool has on the ledger (stake_pool_info
\* of the contexts).
THEOREM PoolStatusesAreRightAlways == PoolSpec => []PoolStatusesAreRight
<1>1. PoolInv => PoolStatusesAreRight
  <2>. SUFFICES ASSUME PoolInv PROVE PoolStatusesAreRight
    OBVIOUS
  <2>0. pool \in PoolLedgers
    BY DEF PoolInv
  <2>1. \A info \in CliPoolInfo(pool, FALSE, "differs") : StateOf(info) = LedgerState(pool)
    <3>1. ASSUME NEW info \in CliPoolInfo(pool, FALSE, "differs")
          PROVE  StateOf(info) = LedgerState(pool)
      <4>1. pool.entry # None /\ \E m :
               info = Info(IF pool.entry.retiring = None THEN "registered" ELSE "retiring",
                           pool.entry.retiring, pool.entry.params, m)
        BY Zenon DEF CliPoolInfo
      <4>. QED  BY <4>1, InfoFields DEF LedgerState, PoolState
    <3>. QED  BY <3>1
  <2>2. (CliPoolInfo(pool, FALSE, "differs") = {}) <=> (pool.entry = None)
    BY DEF CliPoolInfo, CliVerified
  <2>3. (OgmiosPoolInfo(pool) = {}) <=> (pool.entry = None)
    BY DEF OgmiosPoolInfo
  <2>. QED  BY <2>0, <2>1, <2>2, <2>3, KoiosIsRight, YaciIsRight, BlockfrostIsRight
            DEF PoolStatusesAreRight
<1>. QED  BY <1>1, PoolInvAlways, PTL

\* The parameters the backends answer are registered ones, and the metadata
\* was verified where that was asked for (stake_pool_info of the contexts).
THEOREM PoolParamsAreRegisteredAlways == PoolSpec => []PoolParamsAreRegistered
<1>1. PoolInv => PoolParamsAreRegistered
  <2>. SUFFICES ASSUME PoolInv PROVE PoolParamsAreRegistered
    OBVIOUS
  <2>0. pool \in PoolLedgers
    BY DEF PoolInv
  <2>1. pool.log # <<>> /\ pool.entry # None => PoolRow(pool).params = pool.entry.next
    BY <2>0, LastCertificates DEF PoolRow
  <2>2. ASSUME NEW strict \in BOOLEAN, NEW doc \in Documents,
               NEW info \in CliPoolInfo(pool, strict, doc) \cup KoiosPoolInfo(pool, strict, doc)
                             \cup BlockfrostPoolInfo(pool, pool.epoch, strict, doc, TRUE)
        PROVE  /\ pool.entry # None => info.params \in {pool.entry.params, pool.entry.next}
               /\ info.metadata => info.params \in Anchored
               /\ strict /\ info.metadata => doc = "matches"
    <3>1. CASE info \in CliPoolInfo(pool, strict, doc)
      <4>1. pool.entry # None /\ (strict /\ pool.entry.params \in Anchored => doc = "matches")
        BY <3>1 DEF CliPoolInfo, CliVerified
      <4>2. PICK x, y : info = Info(x, y, pool.entry.params, pool.entry.params \in Anchored)
        BY <3>1, Zenon DEF CliPoolInfo
      <4>3. info.params = pool.entry.params /\ info.metadata = (pool.entry.params \in Anchored)
        BY <4>2 DEF Info
      <4>. QED  BY <4>1, <4>3
    <3>. DEFINE params == PoolRow(pool).params
    <3>2. CASE info \in KoiosPoolInfo(pool, strict, doc)
      <4>1. /\ pool.log # <<>> /\ KoiosVerified(params \in Anchored, strict, doc)
            /\ info.params = params /\ info.metadata = (params \in Anchored)
        BY <3>2 DEF KoiosPoolInfo, Info
      <4>. HIDE DEF params
      <4>. QED  BY <2>1, <4>1 DEF KoiosVerified, params
    <3>3. CASE info \in BlockfrostPoolInfo(pool, pool.epoch, strict, doc, TRUE)
      <4>1. /\ pool.log # <<>> /\ BlockfrostVerified(params \in Anchored, strict, doc)
            /\ info.params = params /\ info.metadata = (params \in Anchored)
        <5>1. PICK x, y : /\ pool.log # <<>> /\ BlockfrostVerified(params \in Anchored, strict, doc)
                          /\ info = Info(x, y, params, params \in Anchored)
          BY <3>3, Zenon DEF BlockfrostPoolInfo
        <5>. HIDE DEF params
        <5>. QED  BY <5>1 DEF Info
      <4>. HIDE DEF params
      <4>. QED  BY <2>1, <4>1 DEF BlockfrostVerified, params
    <3>. QED  BY <3>1, <3>2, <3>3
  <2>3. ASSUME NEW r \in Relays, r.kind # "name" \/ r.port
        PROVE  {CliRelay(r), BlockfrostRelay(r), InferredRelay(r)} = {r.kind}
    BY <2>3 DEF Relays, CliRelay, BlockfrostRelay, InferredRelay
  <2>. QED  BY <2>2, <2>3 DEF PoolParamsAreRegistered
<1>. QED  BY <1>1, PoolInvAlways, PTL
-----------------------------------------------------------------------------
\* The readings of a call: the certificates of the first are among those of
\* any later one.
LEMMA ReadingsGrow ==
    ASSUME PoolInv, NEW l \in {poolAsked, pool}
    PROVE  /\ l \in PoolLedgers
           /\ Registrations(poolAsked) \subseteq Registrations(l)
           /\ Retirements(poolAsked) \subseteq Retirements(l)
           /\ Registrations(l) \subseteq Registrations(pool)
           /\ Retirements(l) \subseteq Retirements(pool)
           /\ SpreadOut(pool) => SpreadOut(l)
           /\ l.log = <<>> => poolAsked.log = <<>>
<1>1. /\ pool \in PoolLedgers /\ poolAsked \in PoolLedgers /\ PoolSince
      /\ Len(pool.log) \in Nat /\ Len(poolAsked.log) \in Nat
      /\ DOMAIN pool.log = 1..Len(pool.log) /\ DOMAIN poolAsked.log = 1..Len(poolAsked.log)
  BY PoolLedgerFields DEF PoolInv
<1>2. Elements(poolAsked.log) \subseteq Elements(pool.log)
  BY <1>1 DEF Elements, PoolSince
<1>3. /\ Registrations(poolAsked) \subseteq Registrations(pool)
      /\ Retirements(poolAsked) \subseteq Retirements(pool)
      /\ SpreadOut(pool) => SpreadOut(poolAsked)
  BY <1>2 DEF Registrations, Retirements, SpreadOut
<1>4. pool.log = <<>> => poolAsked.log = <<>>
  BY <1>1, PoolLedgerFields DEF PoolSince
<1>. QED  BY <1>1, <1>3, <1>4

\* The status Yaci's context works out of any two readings, at the epoch of the
\* first, is one the pool has had since.
LEMMA YaciStatusHeld ==
    ASSUME PoolInv, SpreadOut(pool), NEW l \in {poolAsked, pool}, NEW m \in {poolAsked, pool},
           NEW c \in YaciCertificates(l, m)
    PROVE  YaciStatus(c[2], poolAsked.epoch) \in poolHeld
<1>. DEFINE r == c[1]
            t == c[2]
            n == Len(poolAsked.log)
            last == poolAsked.log[n]
<1>0. /\ pool \in PoolLedgers /\ poolAsked \in PoolLedgers /\ PoolSince
      /\ l \in PoolLedgers /\ m \in PoolLedgers /\ SpreadOut(l) /\ SpreadOut(m)
      /\ n \in Nat /\ poolAsked.epoch \in Nat /\ DOMAIN poolAsked.log = 1..n
  BY ReadingsGrow, PoolLedgerFields DEF PoolInv
<1>1. /\ r \in Registrations(l)
      /\ \A d \in Registrations(l) : d.number <= r.number
      /\ \/ t = None /\ \A d \in Retirements(m) : d.slot < r.slot
         \/ /\ t # None /\ t \in Retirements(m) /\ ~(t.slot < r.slot)
            /\ \A d \in Retirements(m) : d.number <= t.number
  BY <1>0, YaciPairs
<1>2. r \in Registrations(pool) /\ r \in Elements(pool.log) /\ r.retiring = None
  BY <1>1, ReadingsGrow DEF Registrations
<1>3. /\ r.number \in DOMAIN pool.log /\ pool.log[r.number] = r /\ r.number \in Nat
  BY <1>0, <1>2, Positions, PoolLedgerFields
\* Which certificate the first reading ends with.
<1>4. n > 0 => /\ n \in DOMAIN poolAsked.log /\ last.number = n /\ last \in Elements(pool.log)
               /\ last.retiring = None => last \in Registrations(l)
               /\ last.retiring # None => last \in Retirements(m)
  <2>. SUFFICES ASSUME n > 0 PROVE /\ n \in DOMAIN poolAsked.log /\ last.number = n
                                   /\ last \in Elements(pool.log)
                                   /\ last.retiring = None => last \in Registrations(l)
                                   /\ last.retiring # None => last \in Retirements(m)
    OBVIOUS
  <2>1. /\ n \in DOMAIN poolAsked.log /\ last.number = n
        /\ last.retiring = None => last \in Registrations(poolAsked)
        /\ last.retiring # None => last \in Retirements(poolAsked)
    BY <1>0, CertificatesOf
  <2>2. last \in Elements(pool.log)
    BY <1>0, <2>1 DEF PoolSince, Elements
  <2>. QED  BY <2>1, <2>2, ReadingsGrow
<1>5. n > 0 => PoolState(poolAsked) = IF last.retiring = None THEN "registered"
                                      ELSE IF poolAsked.epoch < last.retiring THEN "retiring"
                                      ELSE "retired"
  BY <1>0, StateOfLast
<1>6. /\ PoolState(poolAsked) \in poolHeld
      /\ \A i \in DOMAIN pool.log : i > n =>
            /\ StatusOf(pool.log[i]) \in poolHeld
            /\ pool.log[i].retiring # None => pool.log[i].retiring > poolAsked.epoch
  BY <1>0 DEF PoolSince
<1>. HIDE DEF n, last, r, t
<1>7. CASE t = None /\ \A d \in Retirements(m) : d.slot < r.slot
  <2>1. CASE r.number > n
    BY <1>2, <1>3, <1>6, <1>7, <2>1 DEF StatusOf, YaciStatus, t
  <2>2. CASE ~(r.number > n)
    <3>1. n > 0
      BY <1>0, <1>3, <2>2, PoolLedgerFields
    <3>2. last.retiring = None
      <4>. SUFFICES ASSUME last.retiring # None PROVE FALSE
        OBVIOUS
      <4>1. last.slot < r.slot
        BY <1>4, <1>7, <3>1
      <4>2. last.number < r.number
        BY <1>0, <1>2, <1>4, <3>1, <4>1, SlotsOrder, PoolLedgerFields
      <4>. QED  BY <1>0, <1>3, <1>4, <2>2, <3>1, <4>2
    <3>. QED  BY <1>5, <1>6, <1>7, <3>1, <3>2 DEF YaciStatus, t
  <2>. QED  BY <2>1, <2>2
<1>8. CASE /\ t # None /\ t \in Retirements(m) /\ ~(t.slot < r.slot)
           /\ \A d \in Retirements(m) : d.number <= t.number
  <2>1. t \in Elements(pool.log) /\ t.retiring # None
    BY <1>8, ReadingsGrow DEF Retirements
  <2>2. /\ t.number \in DOMAIN pool.log /\ pool.log[t.number] = t /\ t.number \in Nat
        /\ t.retiring \in Nat
    BY <1>0, <2>1, Positions, PoolLedgerFields
  <2>3. r.number < t.number
    <3>1. /\ t.slot < r.slot <=> t.number < r.number
          /\ t.number = r.number <=> t = r
      BY <1>0, <1>2, <2>1, SlotsOrder, PoolLedgerFields
    <3>. QED  BY <1>2, <1>3, <1>8, <2>1, <2>2, <3>1
  <2>4. YaciStatus(t, poolAsked.epoch)
           = IF poolAsked.epoch < t.retiring THEN "retiring" ELSE "retired"
    BY <1>8 DEF YaciStatus
  <2>5. CASE t.number > n
    BY <1>0, <1>6, <2>1, <2>2, <2>4, <2>5 DEF StatusOf, t
  <2>6. CASE ~(t.number > n)
    <3>1. n > 0 /\ t.number <= n
      BY <1>0, <1>3, <2>2, <2>3, <2>6
    <3>2. last.retiring # None
      BY <1>0, <1>1, <1>3, <1>4, <2>2, <2>3, <3>1
    <3>3. t.number = n
      BY <1>0, <1>4, <1>8, <2>2, <3>1, <3>2
    <3>4. t = last
      BY <1>4, <3>1, <3>3, <1>0, <2>2 DEF PoolSince, last, n
    <3>. QED  BY <1>5, <1>6, <2>4, <3>1, <3>2, <3>4 DEF t
  <2>. QED  BY <2>5, <2>6
<1>. QED  BY <1>1, <1>7, <1>8

\* What Yaci's context says of a pool, from certificates it reads in several
\* requests, held at some time during the call.
THEOREM YaciStatusWasHeldAlways == PoolSpec => []YaciStatusWasHeld
<1>1. PoolInv => YaciStatusWasHeld
  <2>. SUFFICES ASSUME PoolInv, SpreadOut(pool),
                       NEW l \in {poolAsked, pool}, NEW m \in {poolAsked, pool}
                PROVE
          /\ \A listed \in YaciListed(poolAsked.epoch, l, m) :
                listed => poolHeld \cap {"registered", "retiring"} # {}
          /\ \A e \in CachedEpochs(poolAsked.epoch) :
                /\ (\A listed \in YaciListed(e, l, m) : ~listed) => "retired" \in poolHeld
                /\ \A info \in YaciPoolInfo(l, m, e) :
                      \/ info.status \in poolHeld
                      \/ /\ e < poolAsked.epoch /\ info.status = "retiring"
                         /\ "retired" \in poolHeld
    BY Zenon DEF YaciStatusWasHeld
  <2>0. poolAsked.epoch \in Nat
    BY PoolLedgerFields DEF PoolInv
  <2>1. \A c \in YaciCertificates(l, m) :
           /\ YaciStatus(c[2], poolAsked.epoch) \in poolHeld
           /\ YaciStatus(c[2], poolAsked.epoch) \in {"registered", "retiring", "retired"}
    BY YaciStatusHeld DEF YaciStatus
  <2>2. ASSUME NEW listed \in YaciListed(poolAsked.epoch, l, m), listed
        PROVE  poolHeld \cap {"registered", "retiring"} # {}
    <3>1. PICK c \in YaciCertificates(l, m) : YaciStatus(c[2], poolAsked.epoch) # "retired"
      BY <2>2, Zenon DEF YaciListed
    <3>. QED  BY <2>1, <3>1
  \* What the status is with an earlier epoch.
  <2>5. ASSUME NEW e \in CachedEpochs(poolAsked.epoch), NEW c \in YaciCertificates(l, m)
        PROVE  /\ e \in Nat /\ e <= poolAsked.epoch
               /\ \/ YaciStatus(c[2], e) = YaciStatus(c[2], poolAsked.epoch)
                  \/ /\ e < poolAsked.epoch
                     /\ YaciStatus(c[2], e) = "retiring"
                     /\ YaciStatus(c[2], poolAsked.epoch) = "retired"
    <3>1. e \in Nat /\ e <= poolAsked.epoch
      BY <2>0, CachedEpochsPast
    <3>2. c[2] = None \/ c[2].retiring \in Nat
      <4>1. m \in PoolLedgers
        BY ReadingsGrow
      <4>2. c[2] = None \/ c[2] \in Retirements(m)
        BY YaciPairs, ReadingsGrow
      <4>. QED  BY <4>1, <4>2, Positions, PoolLedgerFields DEF Retirements
    <3>. QED  BY <2>0, <3>1, <3>2 DEF YaciStatus
  <2>3. ASSUME NEW e \in CachedEpochs(poolAsked.epoch),
               \A listed \in YaciListed(e, l, m) : ~listed
        PROVE  "retired" \in poolHeld
    <3>0. \A c \in YaciCertificates(l, m) : YaciStatus(c[2], e) = "retired"
      BY <2>3, Zenon DEF YaciListed
    <3>1. \A c \in YaciCertificates(l, m) : YaciStatus(c[2], poolAsked.epoch) = "retired"
      BY <2>5, <3>0
    <3>2. CASE YaciCertificates(l, m) # {}
      BY <2>1, <3>1, <3>2
    <3>3. CASE YaciCertificates(l, m) = {}
      <4>1. Registrations(l) = {}
        BY <3>3, YaciCertificatesExist, ReadingsGrow
      <4>2. l.log = <<>>
        BY <4>1, ReadingsGrow, LastCertificates
      <4>3. PoolState(poolAsked) = "retired"
        BY <4>2, ReadingsGrow, StateOfLast
      <4>. QED  BY <4>3 DEF PoolInv, PoolSince
    <3>. QED  BY <3>2, <3>3
  <2>4. ASSUME NEW e \in CachedEpochs(poolAsked.epoch), NEW info \in YaciPoolInfo(l, m, e)
        PROVE  \/ info.status \in poolHeld
               \/ /\ e < poolAsked.epoch /\ info.status = "retiring"
                  /\ "retired" \in poolHeld
    <3>1. PICK c \in YaciCertificates(l, m) : info.status = YaciStatus(c[2], e)
      BY DEF YaciPoolInfo, Info
    <3>. QED  BY <2>1, <2>5, <3>1
  <2>. QED  BY <2>2, <2>3, <2>4
<1>. QED  BY <1>1, PoolInvAlways, PTL

-----------------------------------------------------------------------------
(***************************************************************************)
(* A DRep.                                                                 *)
(***************************************************************************)
DRepCertificates ==
    [slot : Nat, tx : Nat, index : Nat, number : Nat, kind : {"reg", "update", "unreg"}]

\* The DRep is registered unless its last certificate is a retirement, with the
\* deposit of its last registration, which comes first.
DRepFollows(l) ==
    /\ l.log = <<>> => l.entry = None
    /\ l.log # <<>> =>
          /\ l.log[1].kind = "reg"
          /\ l.entry # None <=> l.log[Len(l.log)].kind # "unreg"
    /\ l.entry # None =>
          /\ l.entry.deposit \in DOMAIN l.log /\ l.log[l.entry.deposit].kind = "reg"
          /\ \A i \in DOMAIN l.log : i > l.entry.deposit => l.log[i].kind # "reg"

DRepLedgerType ==
    [epoch : Epochs, slot : Nat, log : Seq(DRepCertificates), entry : DRepEntries \cup {None}]

DRepLedgers == {l \in DRepLedgerType : Landed(l.log, l.slot) /\ DRepFollows(l)}

StatusAfter(certificate) == IF certificate.kind = "unreg" THEN "retired" ELSE "registered"

\* What has happened since the call began: certificates have been added, each
\* of which gave the DRep a status.
DRepSince ==
    /\ dRepAsked.epoch <= dRep.epoch
    /\ Len(dRepAsked.log) <= Len(dRep.log)
    /\ \A i \in DOMAIN dRepAsked.log : dRep.log[i] = dRepAsked.log[i]
    /\ {DRepState(dRepAsked), DRepState(dRep)} \subseteq dRepHeld
    /\ \A i \in DOMAIN dRep.log : i > Len(dRepAsked.log) =>
          \E s \in dRepHeld : s.status = StatusAfter(dRep.log[i])

DRepInv == dRep \in DRepLedgers /\ dRepAsked \in DRepLedgers /\ DRepSince

\* What a ledger of a DRep is made of.
LEMMA DRepLedgerFields ==
    ASSUME NEW l \in DRepLedgers
    PROVE  /\ l \in DRepLedgerType /\ Landed(l.log, l.slot) /\ DRepFollows(l)
           /\ l.epoch \in Nat /\ l.slot \in Nat /\ l.log \in Seq(DRepCertificates)
           /\ Len(l.log) \in Nat /\ DOMAIN l.log = 1..Len(l.log)
           /\ l.entry # None => l.entry \in DRepEntries
<1>1. /\ l \in DRepLedgerType /\ Landed(l.log, l.slot) /\ DRepFollows(l)
  BY DEF DRepLedgers
<1>2. l.epoch \in Nat
  BY <1>1, MaxEpochAssumption DEF DRepLedgerType, Epochs
<1>3. /\ l.slot \in Nat /\ l.log \in Seq(DRepCertificates)
      /\ l.entry # None => l.entry \in DRepEntries
  BY <1>1 DEF DRepLedgerType
<1>4. Len(l.log) \in Nat /\ DOMAIN l.log = 1..Len(l.log)
  BY <1>3
<1>. QED  BY <1>1, <1>2, <1>3, <1>4

\* What a ledger becomes when a certificate lands, as in DRepLands.
WithDRepCertificate(l, p, kind, entry) ==
    [l EXCEPT !.slot = p.slot, !.entry = entry,
              !.log = Append(@, [slot |-> p.slot, tx |-> p.tx, index |-> p.index,
                                 number |-> p.number, kind |-> kind])]

\* A certificate that lands leaves a ledger, and the status of its kind.
LEMMA DRepCertificateLands ==
    ASSUME NEW l \in DRepLedgers, NEW p \in Places(l), NEW kind \in {"reg", "update", "unreg"},
           NEW entry \in DRepEntries \cup {None},
           (entry = None) <=> (kind = "unreg"),
           kind = "reg" => entry.deposit = p.number,
           kind = "update" => entry.deposit = l.entry.deposit,
           kind # "reg" => l.entry # None,
           NEW m, m = WithDRepCertificate(l, p, kind, entry)
    PROVE  /\ m \in DRepLedgers
           /\ m.epoch = l.epoch
           /\ Len(m.log) = Len(l.log) + 1
           /\ \A i \in DOMAIN l.log : m.log[i] = l.log[i]
           /\ DRepState(m).status = StatusAfter(m.log[Len(m.log)])
<1>. DEFINE c == [slot |-> p.slot, tx |-> p.tx, index |-> p.index,
                  number |-> p.number, kind |-> kind]
            n == Len(l.log) + 1
            log == Append(l.log, c)
<1>1. l \in DRepLedgerType /\ Landed(l.log, l.slot) /\ DRepFollows(l)
      /\ l.log \in Seq(DRepCertificates)
  BY DRepLedgerFields
<1>2. c \in DRepCertificates
  BY <1>1, PlacesFit DEF DRepCertificates
<1>3. /\ log \in Seq(DRepCertificates) /\ Landed(log, p.slot) /\ p.number = n
      /\ p.slot >= l.slot /\ p.slot \in Nat
  BY <1>1, <1>2, LandsInOrder, PlacesFit
<1>. HIDE DEF log
<1>4. m = [l EXCEPT !.slot = p.slot, !.entry = entry, !.log = log]
  BY Zenon DEF log, WithDRepCertificate
<1>5. /\ m.slot = p.slot /\ m.entry = entry /\ m.log = log /\ m.epoch = l.epoch
      /\ m \in DRepLedgerType
  BY <1>1, <1>3, <1>4 DEF DRepLedgerType
<1>6. /\ Len(log) = n /\ n \in Nat /\ n >= 1 /\ log[n].kind = kind /\ DOMAIN log = 1..n
      /\ DOMAIN l.log = 1..(n - 1) /\ \A i \in 1..(n - 1) : log[i] = l.log[i]
      /\ l.log = <<>> <=> n = 1
  BY <1>1 DEF log
<1>7. DRepFollows(m)
  <2>1. log # <<>>
    BY <1>6
  <2>2. log[1].kind = "reg"
    BY <1>1, <1>6 DEF DRepFollows
  <2>3. CASE kind # "update"
    BY <1>3, <1>5, <1>6, <2>1, <2>2, <2>3 DEF DRepFollows
  <2>4. CASE kind = "update"
    <3>1. /\ entry.deposit \in 1..(n - 1) /\ log[entry.deposit].kind = "reg"
          /\ \A i \in 1..(n - 1) : i > entry.deposit => log[i].kind # "reg"
      BY <1>1, <1>6, <2>4 DEF DRepFollows
    <3>. QED  BY <1>5, <1>6, <2>1, <2>2, <2>4, <3>1 DEF DRepFollows
  <2>. QED  BY <2>3, <2>4
<1>8. DRepState(m).status = StatusAfter(m.log[Len(m.log)])
  BY <1>5, <1>6 DEF DRepState, StatusAfter
<1>. QED  BY <1>3, <1>5, <1>6, <1>7, <1>8 DEF DRepLedgers

\* The DRep's ledger follows from its certificates, and so does what has
\* happened since a call began.
THEOREM DRepInvAlways == DRepSpec => []DRepInv
<1>1. DRepInit => DRepInv
  <2>. SUFFICES ASSUME DRepInit PROVE DRepInv
    OBVIOUS
  <2>1. dRep = [epoch |-> 0, slot |-> 0, log |-> <<>>, entry |-> None] /\ dRepAsked = dRep
        /\ dRepHeld = {DRepState(dRep)}
    BY DEF DRepInit
  <2>2. Landed(dRep.log, dRep.slot) /\ DRepFollows(dRep)
    BY <2>1 DEF Landed, DRepFollows
  <2>3. 0 \in Epochs
    BY MaxEpochAssumption DEF Epochs
  <2>4. dRep \in DRepLedgerType
    BY <2>1, <2>3 DEF DRepLedgerType
  <2>. QED  BY <2>1, <2>2, <2>4 DEF DRepInv, DRepLedgers, DRepSince
<1>2. DRepInv /\ [DRepNext]_dRepVars => DRepInv'
  <2>. SUFFICES ASSUME DRepInv, [DRepNext]_dRepVars PROVE DRepInv'
    OBVIOUS
  <2>0. /\ dRep \in DRepLedgers /\ dRepAsked \in DRepLedgers /\ DRepSince
        /\ dRep.epoch \in Nat /\ dRepAsked.epoch \in Nat
        /\ Len(dRep.log) \in Nat /\ Len(dRepAsked.log) \in Nat
        /\ DOMAIN dRep.log = 1..Len(dRep.log) /\ DOMAIN dRepAsked.log = 1..Len(dRepAsked.log)
        /\ dRep.log \in Seq(DRepCertificates) /\ Landed(dRep.log, dRep.slot)
        /\ dRep.entry # None => dRep.entry \in DRepEntries
        /\ dRep \in DRepLedgerType
    BY DRepLedgerFields DEF DRepInv
  <2>e. Expiry \in Nat
    BY <2>0, DRepAssumption DEF Expiry
  \* A certificate has landed.
  <2>1. ASSUME dRep' \in DRepLedgers,
               dRep'.epoch = dRep.epoch, Len(dRep'.log) = Len(dRep.log) + 1,
               \A i \in DOMAIN dRep.log : dRep'.log[i] = dRep.log[i],
               DRepState(dRep').status = StatusAfter(dRep'.log[Len(dRep'.log)]),
               dRepHeld' = dRepHeld \cup {DRepState(dRep')}, UNCHANGED dRepAsked
        PROVE  DRepInv'
    <3>1. DOMAIN dRep'.log = 1..(Len(dRep.log) + 1)
      BY <2>1, DRepLedgerFields
    <3>2. ASSUME NEW i \in DOMAIN dRep'.log, i > Len(dRepAsked'.log)
          PROVE  \E s \in dRepHeld' : s.status = StatusAfter(dRep'.log[i])
      <4>1. CASE i \in DOMAIN dRep.log
        BY <2>0, <2>1, <3>2, <4>1 DEF DRepSince
      <4>2. CASE i = Len(dRep'.log)
        BY <2>1, <4>2
      <4>. QED  BY <2>0, <2>1, <3>1, <4>1, <4>2
    <3>3. /\ dRepAsked'.epoch <= dRep'.epoch
          /\ Len(dRepAsked'.log) <= Len(dRep'.log)
          /\ \A i \in DOMAIN dRepAsked'.log : dRep'.log[i] = dRepAsked'.log[i]
      <4>1. \A i \in DOMAIN dRepAsked.log : i \in DOMAIN dRep.log /\ dRep.log[i] = dRepAsked.log[i]
        BY <2>0 DEF DRepSince
      <4>2. \A i \in DOMAIN dRepAsked'.log : dRep'.log[i] = dRepAsked'.log[i]
        BY <2>1, <4>1
      <4>3. dRepAsked.epoch <= dRep.epoch /\ Len(dRepAsked.log) <= Len(dRep.log)
        BY <2>0 DEF DRepSince
      <4>4. dRepAsked'.epoch <= dRep'.epoch /\ Len(dRepAsked'.log) <= Len(dRep'.log)
        BY <2>0, <2>1, <4>3
      <4>. QED  BY <4>2, <4>4
    <3>4. {DRepState(dRepAsked'), DRepState(dRep')} \subseteq dRepHeld'
      BY <2>0, <2>1 DEF DRepSince
    <3>5. DRepSince'
      BY <3>2, <3>3, <3>4, Zenon DEF DRepSince
    <3>. QED  BY <2>0, <2>1, <3>5 DEF DRepInv
  \* One of the kind has, which leaves the entry.
  <2>2. ASSUME NEW p \in Places(dRep), NEW kind \in {"reg", "update", "unreg"},
               NEW entry \in DRepEntries \cup {None}, DRepLands(kind, p, entry),
               (entry = None) <=> (kind = "unreg"),
               kind = "reg" => entry.deposit = p.number,
               kind = "update" => entry.deposit = dRep.entry.deposit,
               kind # "reg" => dRep.entry # None
        PROVE  DRepInv'
    <3>1. /\ dRep' = WithDRepCertificate(dRep, p, kind, entry)
          /\ dRepHeld' = dRepHeld \cup {DRepState(dRep')} /\ UNCHANGED dRepAsked
      BY <2>2, Zenon DEF DRepLands, DRepMovesTo, WithDRepCertificate
    <3>2. /\ dRep' \in DRepLedgers /\ dRep'.epoch = dRep.epoch
          /\ Len(dRep'.log) = Len(dRep.log) + 1
          /\ \A i \in DOMAIN dRep.log : dRep'.log[i] = dRep.log[i]
          /\ DRepState(dRep').status = StatusAfter(dRep'.log[Len(dRep'.log)])
      BY <2>0, <2>2, <3>1, DRepCertificateLands
    <3>. QED  BY <2>1, <3>1, <3>2
  <2>3. CASE DRepRegisters
    <3>1. PICK p \in Places(dRep) :
             DRepLands("reg", p, [deposit |-> p.number, expiry |-> Expiry])
      BY <2>3 DEF DRepRegisters
    <3>. DEFINE entry == [deposit |-> p.number, expiry |-> Expiry]
    <3>2. p.number \in Nat
      BY <2>0, PlacesFit
    <3>3. entry \in DRepEntries /\ entry.deposit = p.number /\ entry # None
      BY <2>e, <3>2, DRepEntryAssumption DEF DRepEntries
    <3>4. DRepLands("reg", p, entry)
      BY <3>1
    <3>. HIDE DEF entry
    <3>. QED  BY <2>2, <3>3, <3>4
  <2>4. CASE DRepUpdates
    <3>1. PICK p \in Places(dRep) : DRepLands("update", p, [dRep.entry EXCEPT !.expiry = Expiry])
      BY <2>4 DEF DRepUpdates
    <3>. DEFINE entry == [dRep.entry EXCEPT !.expiry = Expiry]
    <3>2. /\ dRep.entry # None
          /\ entry \in DRepEntries /\ entry.deposit = dRep.entry.deposit /\ entry # None
      BY <2>0, <2>e, <2>4, DRepEntryAssumption DEF DRepEntries, DRepUpdates
    <3>3. DRepLands("update", p, entry)
      BY <3>1
    <3>. HIDE DEF entry
    <3>. QED  BY <2>2, <3>2, <3>3
  <2>5. CASE DRepRetires
    BY <2>2, <2>5 DEF DRepRetires
  <2>6. ASSUME dRep' \in DRepLedgers, dRep'.log = dRep.log, dRep'.epoch >= dRep.epoch,
               dRepHeld' = dRepHeld \cup {DRepState(dRep')}, UNCHANGED dRepAsked
        PROVE  DRepInv'
    <3>1. dRep'.epoch \in Nat
      BY <2>6, DRepLedgerFields
    <3>. QED  BY <2>0, <2>6, <3>1 DEF DRepInv, DRepSince
  <2>7. CASE DRepVotes
    <3>. DEFINE entry == [dRep.entry EXCEPT !.expiry = Expiry]
    <3>1. /\ dRep.entry # None
          /\ entry \in DRepEntries /\ entry.deposit = dRep.entry.deposit /\ entry # None
      BY <2>0, <2>e, <2>7, DRepEntryAssumption DEF DRepEntries, DRepVotes
    <3>2. dRep' = [dRep EXCEPT !.entry = entry]
      BY <2>7, Zenon DEF DRepVotes, DRepMovesTo
    <3>. HIDE DEF entry
    <3>3. /\ dRep' \in DRepLedgerType /\ dRep'.log = dRep.log /\ dRep'.epoch = dRep.epoch
          /\ dRep'.slot = dRep.slot /\ dRep'.entry = entry
      BY <2>0, <3>1, <3>2 DEF DRepLedgerType
    <3>4. DRepFollows(dRep)
      BY <2>0, DRepLedgerFields
    <3>5. DRepFollows(dRep')
      BY <3>1, <3>3, <3>4 DEF DRepFollows
    <3>6. dRep' \in DRepLedgers
      BY <2>0, <3>3, <3>5 DEF DRepLedgers
    <3>. QED  BY <2>0, <2>6, <2>7, <3>3, <3>6 DEF DRepVotes, DRepMovesTo
  <2>8. CASE DRepEpochEnds
    <3>1. dRep' = [dRep EXCEPT !.epoch = dRep.epoch + 1, !.slot = dRep.slot + 1]
      BY <2>0, <2>8 DEF DRepEpochEnds, DRepMovesTo, DRepLedgerType
    <3>2. dRep.epoch + 1 \in Epochs /\ dRep.slot + 1 \in Nat /\ dRep.slot \in Nat
      BY <2>0, <2>8, MaxEpochAssumption, DRepLedgerFields DEF DRepEpochEnds, Epochs
    <3>3. /\ dRep' \in DRepLedgerType /\ dRep'.log = dRep.log /\ dRep'.epoch = dRep.epoch + 1
          /\ dRep'.slot = dRep.slot + 1 /\ dRep'.entry = dRep.entry
      BY <2>0, <3>1, <3>2 DEF DRepLedgerType
    <3>4. DRepFollows(dRep') /\ Landed(dRep'.log, dRep'.slot)
      BY <2>0, <3>2, <3>3, DRepLedgerFields DEF DRepFollows, Landed
    <3>5. dRep' \in DRepLedgers
      BY <3>3, <3>4 DEF DRepLedgers
    <3>. QED  BY <2>0, <2>6, <2>8, <3>3, <3>5 DEF DRepEpochEnds, DRepMovesTo
  <2>9. CASE DRepAsked
    BY <2>0, <2>9 DEF DRepAsked, DRepInv, DRepSince
  <2>10. CASE UNCHANGED dRepVars
    BY <2>0, <2>10 DEF dRepVars, DRepInv, DRepSince
  <2>. QED  BY <2>3, <2>4, <2>5, <2>7, <2>8, <2>9, <2>10 DEF DRepNext
<1>. QED  BY <1>1, <1>2, PTL DEF DRepSpec
-----------------------------------------------------------------------------
\* The fields of an answer about a DRep.
LEMMA DRepInfoFields ==
    ASSUME NEW status, NEW active, NEW deposit, NEW expiry, NEW info,
           info = DRepInfo(status, active, deposit, expiry)
    PROVE  /\ info.status = status /\ info.deposit = deposit
           /\ active \in BOOLEAN => info.active = active
BY DEF DRepInfo

\* The fields of the answer about a DRep nobody knows.
LEMMA UnknownFields ==
    ASSUME NEW info, info = Unknown
    PROVE  info.status = "not_registered" /\ info.active = FALSE /\ info.deposit = None
BY DEF Unknown, DRepInfo

\* What a ledger says of a DRep is what its last certificate says.
LEMMA DRepTruth ==
    ASSUME NEW l \in DRepLedgers
    PROVE  /\ DRepState(l).status = IF l.entry # None THEN "registered"
                                    ELSE IF l.log = <<>> THEN "not_registered" ELSE "retired"
           /\ DRepState(l).active = CanVote(l)
           /\ CanVote(l) \in BOOLEAN
           /\ l.entry # None <=> l.log # <<>> /\ l.log[Len(l.log)].kind # "unreg"
           /\ CanVote(l) => l.entry # None
           /\ l.entry # None => l.entry.deposit \in Nat /\ l.entry.expiry \in Nat
<1>1. /\ DRepState(l).status = IF l.entry # None THEN "registered"
                               ELSE IF l.log = <<>> THEN "not_registered" ELSE "retired"
      /\ DRepState(l).active = CanVote(l)
  BY DEF DRepState, CanVote
<1>2. CanVote(l) \in BOOLEAN /\ (CanVote(l) => l.entry # None)
  BY DEF CanVote
<1>3. /\ l.entry # None <=> l.log # <<>> /\ l.log[Len(l.log)].kind # "unreg"
      /\ l.entry # None => l.entry.deposit \in Nat /\ l.entry.expiry \in Nat
  BY DRepLedgerFields DEF DRepFollows, DRepEntries
<1>. QED  BY <1>1, <1>2, <1>3

\* What the node answers of the ledger it was asked about.
LEMMA NodeAnswersOfDRep ==
    ASSUME NEW l \in DRepLedgers,
           NEW info \in CliDRepInfo(l, FALSE) \cup OgmiosDRepInfo(l, l, FALSE, TRUE)
    PROVE  /\ info.status = Listed(DRepState(l).status)
           /\ info.deposit = IF l.entry = None THEN None ELSE l.entry.deposit
<1>1. CASE l.entry = None
  <2>1. info = Unknown
    BY <1>1, Zenon DEF CliDRepInfo, OgmiosDRepInfo
  <2>. QED  BY <1>1, <2>1, UnknownFields, DRepTruth DEF Listed
<1>2. CASE l.entry # None
  <2>1. \E active : info = DRepInfo("registered", active, l.entry.deposit, l.entry.expiry)
    BY <1>2, Zenon DEF CliDRepInfo, OgmiosDRepInfo, OgmiosFromSummary
  <2>. QED  BY <1>2, <2>1, DRepInfoFields, DRepTruth DEF Listed
<1>. QED  BY <1>1, <1>2

\* What Koios answers of the ledger.
LEMMA KoiosAnswersOfDRep ==
    ASSUME NEW l \in DRepLedgers, NEW info \in KoiosDRepInfo(l)
    PROVE  /\ info.status = DRepState(l).status /\ info.active = DRepState(l).active
           /\ info.deposit = IF l.entry = None THEN None ELSE l.entry.deposit
<1>1. CASE l.log = <<>>
  <2>1. info = Unknown
    BY <1>1, Zenon DEF KoiosDRepInfo
  <2>. QED  BY <1>1, <2>1, UnknownFields, DRepTruth
<1>2. CASE l.log # <<>>
  <2>1. PICK expiry :
           info = DRepInfo(KoiosDRepStatus(IF l.entry = None THEN "deregistered" ELSE "registered"),
                           CanVote(l), IF l.entry = None THEN None ELSE l.entry.deposit, expiry)
    BY <1>2, Zenon DEF KoiosDRepInfo
  <2>2. KoiosDRepStatus("deregistered") = "retired" /\ KoiosDRepStatus("registered") = "registered"
    BY DEF KoiosDRepStatus
  <2>. QED  BY <1>2, <2>1, <2>2, DRepInfoFields, DRepTruth
<1>. QED  BY <1>1, <1>2

\* What Blockfrost answers of the ledger: a lapsed DRep is "not registered".
LEMMA BlockfrostAnswersOfDRep ==
    ASSUME NEW l \in DRepLedgers, NEW info \in BlockfrostDRepInfo(l, FALSE)
    PROVE  /\ info.active = DRepState(l).active
           /\ info.status # DRepState(l).status =>
                 DRepState(l).status = "registered" /\ ~DRepState(l).active
<1>1. CASE l.log = <<>>
  <2>1. info = Unknown
    BY <1>1, Zenon DEF BlockfrostDRepInfo
  <2>. QED  BY <1>1, <2>1, UnknownFields, DRepTruth
<1>2. CASE l.log # <<>>
  <2>1. info = DRepInfo(BlockfrostDRepStatus(l.entry = None, CanVote(l)), CanVote(l), None, None)
    BY <1>2, Zenon DEF BlockfrostDRepInfo
  <2>2. BlockfrostDRepStatus(l.entry = None, CanVote(l))
           = IF l.entry = None THEN "retired" ELSE IF CanVote(l) THEN "registered" ELSE "not_registered"
    BY Zenon DEF BlockfrostDRepStatus
  <2>. QED  BY <1>2, <2>1, <2>2, DRepInfoFields, DRepTruth
<1>. QED  BY <1>1, <1>2

\* Over Ogmios the summary is the ledger's at the first request, the epoch that
\* of the second: who may still vote might then.
LEMMA OgmiosVotesHeld ==
    ASSUME DRepInv, NEW info \in OgmiosDRepInfo(dRepAsked, dRep, FALSE, TRUE),
           info.active \/ dRepAsked.epoch = dRep.epoch
    PROVE  \E s \in dRepHeld : info.active = s.active
<1>0. /\ dRepAsked \in DRepLedgers /\ dRep \in DRepLedgers
      /\ dRepAsked.epoch \in Nat /\ dRep.epoch \in Nat /\ dRepAsked.epoch <= dRep.epoch
      /\ DRepState(dRepAsked) \in dRepHeld
  BY DRepLedgerFields DEF DRepInv, DRepSince
<1>1. info.active = CanVote(dRepAsked)
  <2>1. CASE dRepAsked.entry = None
    <3>1. info = Unknown
      BY <2>1, Zenon DEF OgmiosDRepInfo
    <3>. QED  BY <2>1, <3>1, UnknownFields DEF CanVote
  <2>2. CASE dRepAsked.entry # None
    <3>. DEFINE x == dRepAsked.entry.expiry
    <3>1. x \in Nat
      BY <1>0, <2>2, DRepTruth
    <3>2. PICK a \in BOOLEAN :
             /\ info = DRepInfo("registered", a, dRepAsked.entry.deposit, x)
             /\ a <=> dRep.epoch <= x
      <4>1. info = DRepInfo("registered", dRep.epoch <= x, dRepAsked.entry.deposit, x)
        BY <2>2, Zenon DEF OgmiosDRepInfo, OgmiosFromSummary
      <4>2. (dRep.epoch <= x) \in BOOLEAN
        OBVIOUS
      <4>. QED  BY <4>1, <4>2, Zenon
    <3>3. info.active = a
      BY <3>2, DRepInfoFields
    <3>4. CanVote(dRepAsked) \in BOOLEAN /\ (CanVote(dRepAsked) <=> dRepAsked.epoch <= x)
      BY <1>0, <2>2, DRepTruth DEF CanVote
    <3>. HIDE DEF x
    <3>. QED  BY <1>0, <3>1, <3>2, <3>3, <3>4
  <2>. QED  BY <2>1, <2>2
<1>. QED  BY <1>0, <1>1, DRepTruth

-----------------------------------------------------------------------------
\* Between two certificates in different blocks the kind does not count.
LEMMA DRepOrder ==
    ASSUME NEW l \in DRepLedgers, SpreadOut(l), NEW S, S \subseteq Elements(l.log)
    PROVE  /\ \A c \in DRepLatest(S) : c \in S /\ \A d \in S : d.number <= c.number
<1>1. \A c, d \in S : /\ c.number \in Nat /\ d.number \in Nat
                      /\ YaciBefore(c, d) <=> c.number < d.number
                      /\ c.number = d.number <=> c = d
  BY SlotsOrder, DRepLedgerFields
<1>2. S # {} => LastOf(S) \in S /\ \A d \in S : d.number <= LastOf(S).number
  BY LastOfSome, DRepLedgerFields
<1>3. DRepLatest(S) = {c \in S : \A d \in S : ~DRepBefore(c, d)}
  BY DEF DRepLatest, Newest
<1>4. \A c, d \in S : c.number < d.number => DRepBefore(c, d)
  BY <1>1 DEF DRepBefore
<1>. QED  BY <1>1, <1>3, <1>4

\* The three lists of a call, of any two readings of it.
LEMMA YaciLists ==
    ASSUME DRepInv, NEW l \in {dRepAsked, dRep}
    PROVE  LET regs == OfKind(dRepAsked, "reg")
               certificates == regs \cup OfKind(l, "update") \cup OfKind(dRep, "unreg")
           IN  /\ certificates \subseteq Elements(dRep.log)
               /\ \A c \in certificates : /\ c.number \in DOMAIN dRep.log
                                          /\ dRep.log[c.number] = c /\ c.number \in Nat
               /\ \A i \in DOMAIN dRepAsked.log :
                     dRepAsked.log[i] \in certificates /\ dRepAsked.log[i].number = i
<1>. DEFINE regs == OfKind(dRepAsked, "reg")
            certificates == regs \cup OfKind(l, "update") \cup OfKind(dRep, "unreg")
<1>0. /\ dRepAsked \in DRepLedgers /\ dRep \in DRepLedgers /\ DRepSince
      /\ Len(dRep.log) \in Nat /\ Len(dRepAsked.log) \in Nat
      /\ DOMAIN dRep.log = 1..Len(dRep.log) /\ DOMAIN dRepAsked.log = 1..Len(dRepAsked.log)
      /\ dRep.log \in Seq(DRepCertificates) /\ dRepAsked.log \in Seq(DRepCertificates)
      /\ Landed(dRep.log, dRep.slot) /\ Landed(dRepAsked.log, dRepAsked.slot)
  BY DRepLedgerFields DEF DRepInv
<1>1. Elements(dRepAsked.log) \subseteq Elements(dRep.log)
  BY <1>0 DEF DRepSince, Elements
<1>2. certificates \subseteq Elements(dRep.log)
  BY <1>1 DEF OfKind
<1>3. \A c \in certificates : /\ c.number \in DOMAIN dRep.log
                              /\ dRep.log[c.number] = c /\ c.number \in Nat
  BY <1>0, <1>2, Positions
<1>4. ASSUME NEW i \in DOMAIN dRepAsked.log
      PROVE  dRepAsked.log[i] \in certificates /\ dRepAsked.log[i].number = i
  <2>. DEFINE c == dRepAsked.log[i]
  <2>1. c.kind \in {"reg", "update", "unreg"} /\ c.number = i
    <3>1. c \in DRepCertificates
      BY <1>0
    <3>. QED  BY <1>0, <3>1 DEF DRepCertificates, Landed
  <2>2. c \in Elements(dRepAsked.log)
    BY DEF Elements
  <2>. HIDE DEF c
  <2>. QED  BY <1>1, <2>1, <2>2 DEF OfKind, c
<1>. QED  BY <1>2, <1>3, <1>4

\* The status Yaci's context works out of the three lists is one the DRep has
\* had since the first.
LEMMA YaciDRepHeld ==
    ASSUME DRepInv, SpreadOut(dRep), NEW l \in {dRepAsked, dRep},
           NEW info \in YaciDRepInfo(dRepAsked, l, dRep, FALSE)
    PROVE  /\ \E s \in dRepHeld : info.status = s.status
           /\ dRepAsked = dRep /\ dRep.entry # None => info.deposit = dRep.entry.deposit
<1>. DEFINE regs == OfKind(dRepAsked, "reg")
            certificates == regs \cup OfKind(l, "update") \cup OfKind(dRep, "unreg")
            n == Len(dRepAsked.log)
            last == dRepAsked.log[n]
<1>0. /\ dRepAsked \in DRepLedgers /\ dRep \in DRepLedgers /\ DRepSince
      /\ n \in Nat /\ DOMAIN dRepAsked.log = 1..n
      /\ DRepState(dRepAsked) \in dRepHeld
      /\ dRepAsked.log # <<>> => n >= 1
      /\ dRepAsked.log \in Seq(DRepCertificates)
      /\ Landed(dRepAsked.log, dRepAsked.slot)
  BY DRepLedgerFields DEF DRepInv, DRepSince
<1>1. /\ certificates \subseteq Elements(dRep.log)
      /\ \A c \in certificates : /\ c.number \in DOMAIN dRep.log
                                 /\ dRep.log[c.number] = c /\ c.number \in Nat
      /\ \A i \in DOMAIN dRepAsked.log :
            dRepAsked.log[i] \in certificates /\ dRepAsked.log[i].number = i
  BY YaciLists
<1>2. certificates = {} => dRepAsked.log = <<>>
  BY <1>0, <1>1
<1>3. CASE certificates = {}
  <2>1. info = Unknown
    BY <1>3, Zenon DEF YaciDRepInfo
  <2>. QED  BY <1>0, <1>2, <1>3, <2>1, UnknownFields, DRepTruth
<1>4. CASE certificates # {}
  <2>1. PICK c \in DRepLatest(certificates) : \E active :
           info = DRepInfo(IF c.kind = "unreg" THEN "retired" ELSE "registered", active,
                           IF regs = {} THEN None ELSE LastOf(regs).number, None)
    BY <1>4, Zenon DEF YaciDRepInfo
  <2>2. c \in certificates /\ \A d \in certificates : d.number <= c.number
    BY <1>0, <1>1, DRepOrder
  <2>3. /\ info.status = IF c.kind = "unreg" THEN "retired" ELSE "registered"
        /\ info.deposit = IF regs = {} THEN None ELSE LastOf(regs).number
    BY <2>1, DRepInfoFields
  <2>4. /\ c.number \in DOMAIN dRep.log /\ dRep.log[c.number] = c /\ c.number \in Nat
        /\ \A i \in DOMAIN dRepAsked.log : dRepAsked.log[i].number = i /\ i <= c.number
    BY <1>1, <2>2
  <2>5. \E s \in dRepHeld : info.status = s.status
    <3>1. CASE c.number > n
      BY <1>0, <2>3, <2>4, <3>1 DEF DRepSince, StatusAfter
    <3>2. CASE ~(c.number > n)
      <4>. HIDE DEF certificates
      <4>1. c.number \in 1..n
        BY <1>0, <2>4, <3>2, DRepLedgerFields
      <4>2. c.number = n /\ n >= 1
        BY <1>0, <2>4, <4>1
      <4>3. c = last
        BY <1>0, <2>4, <4>1, <4>2 DEF DRepSince
      <4>4. DRepState(dRepAsked).status = info.status
        BY <1>0, <2>3, <4>2, <4>3, DRepTruth
      <4>. QED  BY <1>0, <4>4
    <3>. QED  BY <3>1, <3>2
  <2>6. ASSUME dRepAsked = dRep, dRep.entry # None
        PROVE  info.deposit = dRep.entry.deposit
    <3>. DEFINE e == dRep.entry.deposit
    <3>1. /\ e \in DOMAIN dRep.log /\ dRep.log[e].kind = "reg"
          /\ \A i \in DOMAIN dRep.log : i > e => dRep.log[i].kind # "reg"
      BY <1>0, <2>6, DRepLedgerFields DEF DRepFollows
    <3>2. dRep.log[e] \in regs /\ dRep.log[e].number = e
      BY <1>1, <2>6, <3>1 DEF OfKind, Elements
    <3>3. /\ LastOf(regs) \in regs /\ \A d \in regs : d.number <= LastOf(regs).number
      <4>1. regs \subseteq Elements(dRepAsked.log) /\ regs # {}
        BY <3>2 DEF OfKind
      <4>. HIDE DEF regs
      <4>. QED  BY <1>0, <4>1, LastOfSome
    <3>4. LastOf(regs).number \in DOMAIN dRep.log /\ e <= LastOf(regs).number
          /\ dRep.log[LastOf(regs).number].kind = "reg"
      BY <1>1, <3>2, <3>3 DEF OfKind
    <3>. HIDE DEF e, regs
    <3>5. LastOf(regs).number = e
      BY <1>0, <2>6, <3>1, <3>4
    <3>. QED  BY <2>3, <3>2, <3>5 DEF e
  <2>. QED  BY <2>5, <2>6
<1>. QED  BY <1>3, <1>4

\* What the backends say of a DRep is what the ledger holds of it, or held at
\* some time during the call.
THEOREM DRepAnswersAreRightAlways == DRepSpec => []DRepAnswersAreRight
<1>1. DRepInv => DRepAnswersAreRight
  <2>. SUFFICES ASSUME DRepInv PROVE DRepAnswersAreRight
    OBVIOUS
  <2>0. dRep \in DRepLedgers
    BY DEF DRepInv
  <2>1. \A info \in CliDRepInfo(dRep, FALSE) \cup OgmiosDRepInfo(dRep, dRep, FALSE, TRUE) :
           /\ info.status = Listed(DRepState(dRep).status)
           /\ info.deposit = IF dRep.entry = None THEN None ELSE dRep.entry.deposit
    BY <2>0, NodeAnswersOfDRep
  <2>2. SpreadOut(dRep) =>
           \A l \in {dRepAsked, dRep} : \A info \in YaciDRepInfo(dRepAsked, l, dRep, FALSE) :
              /\ \E s \in dRepHeld : info.status = s.status
              /\ dRepAsked = dRep /\ dRep.entry # None =>
                    info.deposit = IF dRep.entry = None THEN None ELSE dRep.entry.deposit
    BY YaciDRepHeld
  <2>. QED  BY <2>0, <2>1, <2>2, KoiosAnswersOfDRep, BlockfrostAnswersOfDRep, OgmiosVotesHeld
            DEF DRepAnswersAreRight
<1>. QED  BY <1>1, DRepInvAlways, PTL

-----------------------------------------------------------------------------
(***************************************************************************)
(* A governance action and its votes.                                      *)
(***************************************************************************)
ActionVotes == [slot : Nat, tx : Nat, index : Nat, number : Nat, voter : Voters]

ActionLedgerType ==
    [epoch : Epochs, slot : Nat, log : Seq(ActionVotes), others : Flags,
     lifetime : Lifetimes, proposed : Nat \cup {None}, expires : Nat \cup {None},
     live : Flags, status : Outcomes \cup {None},
     outcome : [ratified : Nat \cup {None}, enacted : Nat \cup {None},
                dropped : Nat \cup {None}, expired : Nat \cup {None}]]

\* What the ledger tells of an action that has come to the status.
OutcomeFollows(o, status) ==
    /\ status # "enacted" => o.enacted = None
    /\ status \notin {"ratified", "enacted"} => o.ratified = None
    /\ status # "dropped" => o.dropped = None
    /\ status # "expired" => o.expired = None
    /\ status = "ratified" => o.ratified # None
    /\ status = "enacted" => o.enacted # None
    /\ status = "dropped" => o.dropped # None
    /\ status = "expired" => o.expired # None

\* A live action is open until its last epoch, or about to be enacted or
\* removed; one that is gone has had an outcome.
LifeFollows(l) ==
    /\ l.proposed = None => ~l.live /\ l.status = None
    /\ l.proposed # None => l.expires \in Nat
    /\ l.live => l.status \in {None, "ratified", "expired"}
    /\ ~l.live /\ l.proposed # None => l.status \in {"enacted", "dropped", "expired"}
    /\ l.live /\ l.status = None => l.epoch <= l.expires
    /\ l.status = "expired" => l.epoch > l.expires

ActionLedgers ==
    {l \in ActionLedgerType : /\ Landed(l.log, l.slot)
                              /\ OutcomeFollows(l.outcome, l.status)
                              /\ LifeFollows(l)}

\* What has happened since the call began.
ActionSince ==
    /\ actionAsked.epoch <= action.epoch
    /\ actionAsked.proposed # None => /\ action.proposed = actionAsked.proposed
                                      /\ action.expires = actionAsked.expires
    /\ actionAsked.status \in actionHeld /\ action.status \in actionHeld

ActionInv == action \in ActionLedgers /\ actionAsked \in ActionLedgers /\ ActionSince

\* What a ledger of a governance action is made of.
LEMMA ActionLedgerFields ==
    ASSUME NEW l \in ActionLedgers
    PROVE  /\ l \in ActionLedgerType /\ Landed(l.log, l.slot) /\ LifeFollows(l)
           /\ OutcomeFollows(l.outcome, l.status)
           /\ l.epoch \in Nat /\ l.epoch \in Epochs /\ l.slot \in Nat /\ l.log \in Seq(ActionVotes)
           /\ l.live \in Flags /\ l.lifetime \in Nat /\ l.status \in Outcomes \cup {None}
           /\ l.outcome \in [ratified : Nat \cup {None}, enacted : Nat \cup {None},
                             dropped : Nat \cup {None}, expired : Nat \cup {None}]
<1>1. /\ l \in ActionLedgerType /\ Landed(l.log, l.slot) /\ LifeFollows(l)
      /\ OutcomeFollows(l.outcome, l.status)
  BY DEF ActionLedgers
<1>2. /\ l.epoch \in Epochs /\ l.slot \in Nat /\ l.log \in Seq(ActionVotes)
      /\ l.live \in Flags /\ l.lifetime \in Lifetimes /\ l.status \in Outcomes \cup {None}
  BY <1>1 DEF ActionLedgerType
<1>4. l.epoch \in Nat
  BY <1>2, MaxEpochAssumption DEF Epochs
<1>5. l.lifetime \in Nat
  BY <1>2, GovActionAssumption
<1>3. l.outcome \in [ratified : Nat \cup {None}, enacted : Nat \cup {None},
                     dropped : Nat \cup {None}, expired : Nat \cup {None}]
  BY <1>1 DEF ActionLedgerType
<1>. QED  BY <1>1, <1>2, <1>3, <1>4, <1>5

\* What a ledger becomes when a vote lands, as in Votes.
WithVote(l, p, voter) ==
    [l EXCEPT !.slot = p.slot,
              !.log = Append(@, [slot |-> p.slot, tx |-> p.tx, index |-> p.index,
                                 number |-> p.number, voter |-> voter])]

\* A vote that lands leaves a ledger of the same action.
LEMMA VoteLands ==
    ASSUME NEW l \in ActionLedgers, NEW p \in Places(l), NEW voter \in Voters,
           NEW m, m = WithVote(l, p, voter)
    PROVE  /\ m \in ActionLedgers /\ m.epoch = l.epoch /\ m.proposed = l.proposed
           /\ m.expires = l.expires /\ m.status = l.status
<1>. DEFINE c == [slot |-> p.slot, tx |-> p.tx, index |-> p.index,
                  number |-> p.number, voter |-> voter]
            log == Append(l.log, c)
<1>1. l \in ActionLedgerType /\ Landed(l.log, l.slot) /\ l.log \in Seq(ActionVotes)
      /\ LifeFollows(l) /\ OutcomeFollows(l.outcome, l.status)
  BY ActionLedgerFields
<1>2. c \in ActionVotes
  BY <1>1, PlacesFit DEF ActionVotes
<1>3. log \in Seq(ActionVotes) /\ Landed(log, p.slot) /\ p.slot \in Nat
  BY <1>1, <1>2, LandsInOrder, PlacesFit
<1>. HIDE DEF log
<1>4. m = [l EXCEPT !.slot = p.slot, !.log = log]
  BY Zenon DEF log, WithVote
<1>5. /\ m \in ActionLedgerType /\ m.slot = p.slot /\ m.log = log /\ m.epoch = l.epoch
      /\ m.proposed = l.proposed /\ m.expires = l.expires /\ m.status = l.status
      /\ m.live = l.live /\ m.outcome = l.outcome
  BY <1>1, <1>3, <1>4 DEF ActionLedgerType
<1>6. LifeFollows(m)
  BY <1>1, <1>5 DEF LifeFollows
<1>. QED  BY <1>1, <1>3, <1>5, <1>6 DEF ActionLedgers

\* What the next epoch makes of a ledger, as in ActionEpochEnds.
WithStatus(l, status, others, lifetime) ==
    [l EXCEPT
       !.epoch = @ + 1, !.slot = @ + 1, !.others = others, !.lifetime = lifetime,
       !.live = @ /\ l.status = None /\ status # "dropped",
       !.status = status,
       !.outcome = IF status = l.status THEN @ ELSE [@ EXCEPT ![status] = l.epoch + 1]]

\* The next epoch leaves a ledger, whatever it makes of the action.
LEMMA EpochBringsStatus ==
    ASSUME NEW l \in ActionLedgers, l.epoch < MaxEpoch,
           NEW status, NEW others \in BOOLEAN, NEW lifetime \in Lifetimes,
           status \in IF ~l.live THEN {l.status}
                      ELSE CASE l.status = "ratified" -> {"enacted"}
                             [] l.status = "expired" -> {"expired"}
                             [] OTHER -> {"ratified", "dropped",
                                          IF l.epoch + 1 > l.expires THEN "expired" ELSE None},
           NEW m, m = WithStatus(l, status, others, lifetime)
    PROVE  /\ m \in ActionLedgers /\ m.epoch = l.epoch + 1 /\ m.proposed = l.proposed
           /\ m.expires = l.expires
<1>. DEFINE live == l.live /\ l.status = None /\ status # "dropped"
            outcome == IF status = l.status THEN l.outcome
                       ELSE [l.outcome EXCEPT ![status] = l.epoch + 1]
            next == l.epoch + 1
            later == l.slot + 1
<1>1. /\ l \in ActionLedgerType /\ Landed(l.log, l.slot) /\ l.log \in Seq(ActionVotes)
      /\ LifeFollows(l) /\ OutcomeFollows(l.outcome, l.status)
      /\ l.epoch \in Nat /\ l.slot \in Nat /\ l.live \in Flags
      /\ l.status \in Outcomes \cup {None}
  BY ActionLedgerFields
<1>2. /\ ~l.live => status = l.status
      /\ l.live /\ l.status = "ratified" => status = "enacted"
      /\ l.live /\ l.status = "expired" => status = "expired"
      /\ l.live /\ l.status = None => \/ status \in {"ratified", "dropped"}
                                      \/ status = "expired" /\ l.epoch + 1 > l.expires
                                      \/ status = None /\ ~(l.epoch + 1 > l.expires)
      /\ status \in Outcomes \cup {None}
  BY <1>1, OpenAssumption DEF LifeFollows, Outcomes
<1>a. live \in Flags /\ others \in Flags
  BY DEF Flags
<1>b. live <=> (l.live /\ l.status = None /\ status # "dropped")
  OBVIOUS
<1>3. next \in Epochs /\ next \in Nat /\ later \in Nat
      /\ next = l.epoch + 1 /\ later = l.slot + 1
  BY <1>1, MaxEpochAssumption DEF Epochs
<1>4. /\ outcome \in [ratified : Nat \cup {None}, enacted : Nat \cup {None},
                      dropped : Nat \cup {None}, expired : Nat \cup {None}]
      /\ OutcomeFollows(outcome, status)
  <2>0. /\ l.outcome \in [ratified : Nat \cup {None}, enacted : Nat \cup {None},
                          dropped : Nat \cup {None}, expired : Nat \cup {None}]
        /\ next # None
    BY <1>3, ActionLedgerFields, NoneAssumption
  <2>1. CASE status = l.status
    BY <1>1, <2>0, <2>1
  <2>2. CASE status # l.status
    <3>1. /\ l.live
          /\ \/ l.status = "ratified" /\ status = "enacted"
             \/ l.status = None /\ status \in {"ratified", "dropped", "expired"}
      BY <1>1, <1>2, <2>2, OpenAssumption DEF LifeFollows
    <3>2. outcome = [l.outcome EXCEPT ![status] = next]
      BY <2>2
    <3>3. /\ next \in Nat /\ next # None
          /\ l.status \in {None, "ratified"} /\ status \in Outcomes
          /\ l.status = "ratified" <=> status = "enacted"
      BY <1>3, <2>0, <3>1, OpenAssumption DEF Outcomes
    <3>. HIDE DEF outcome, next
    <3>4. /\ l.outcome.enacted = None /\ l.outcome.dropped = None /\ l.outcome.expired = None
          /\ status # "enacted" => l.outcome.ratified = None
      BY <1>1, <3>3, OpenAssumption DEF OutcomeFollows, Outcomes
    <3>5. CASE status = "enacted"
      <4>1. outcome = [l.outcome EXCEPT !.enacted = next]
        BY <3>2, <3>5
      <4>. QED  BY <2>0, <3>3, <3>4, <3>5, <4>1 DEF OutcomeFollows
    <3>6. CASE status = "ratified"
      <4>1. outcome = [l.outcome EXCEPT !.ratified = next]
        BY <3>2, <3>6
      <4>. QED  BY <2>0, <3>3, <3>4, <3>6, <4>1 DEF OutcomeFollows
    <3>7. CASE status = "dropped"
      <4>1. outcome = [l.outcome EXCEPT !.dropped = next]
        BY <3>2, <3>7
      <4>. QED  BY <2>0, <3>3, <3>4, <3>7, <4>1 DEF OutcomeFollows
    <3>8. CASE status = "expired"
      <4>1. outcome = [l.outcome EXCEPT !.expired = next]
        BY <3>2, <3>8
      <4>. QED  BY <2>0, <3>3, <3>4, <3>8, <4>1 DEF OutcomeFollows
    <3>. QED  BY <3>3, <3>5, <3>6, <3>7, <3>8 DEF Outcomes
  <2>. QED  BY <2>1, <2>2
<1>5. m = [l EXCEPT !.epoch = next, !.slot = later, !.others = others, !.lifetime = lifetime,
                    !.live = live, !.status = status, !.outcome = outcome]
  BY <1>1, Zenon DEF WithStatus, ActionLedgerType
<1>. HIDE DEF live, outcome, next, later
<1>6. /\ m \in ActionLedgerType /\ m.slot = later /\ m.log = l.log /\ m.epoch = next
      /\ m.proposed = l.proposed /\ m.expires = l.expires /\ m.status = status
      /\ m.live = live /\ m.outcome = outcome
  <2>1. /\ m.slot = later /\ m.log = l.log /\ m.epoch = next
        /\ m.proposed = l.proposed /\ m.expires = l.expires /\ m.status = status
        /\ m.live = live /\ m.outcome = outcome
    BY <1>1, <1>5 DEF ActionLedgerType
  <2>2. m \in ActionLedgerType
    BY <1>1, <1>2, <1>a, <1>3, <1>4, <1>5 DEF ActionLedgerType
  <2>. QED  BY <2>1, <2>2
<1>7. Landed(m.log, m.slot)
  BY <1>1, <1>3, <1>6 DEF Landed
<1>8. LifeFollows(m)
  BY <1>1, <1>2, <1>b, <1>3, <1>6, OpenAssumption DEF LifeFollows, Outcomes
<1>. QED  BY <1>3, <1>4, <1>6, <1>7, <1>8 DEF ActionLedgers

\* The ledger's outcome is that of the status the action has come to, and what
\* a call began with is what the action was.
THEOREM ActionInvAlways == ActionSpec => []ActionInv
<1>1. ActionInit => ActionInv
  <2>. SUFFICES ASSUME ActionInit PROVE ActionInv
    OBVIOUS
  <2>1. PICK n \in Lifetimes :
           action = [epoch |-> 0, slot |-> 0, log |-> <<>>, others |-> FALSE, lifetime |-> n,
                     proposed |-> None, expires |-> None, live |-> FALSE,
                     status |-> None, outcome |-> NoOutcome]
    BY DEF ActionInit
  <2>2. /\ action.epoch = 0 /\ action.slot = 0 /\ action.log = <<>> /\ action.proposed = None
        /\ ~action.live /\ action.status = None /\ action.outcome = NoOutcome
    BY <2>1
  <2>3. Landed(action.log, action.slot) /\ LifeFollows(action)
        /\ OutcomeFollows(action.outcome, action.status)
    BY <2>2, OpenAssumption DEF Landed, LifeFollows, OutcomeFollows, NoOutcome, Outcomes
  <2>4. 0 \in Epochs
    BY MaxEpochAssumption DEF Epochs
  <2>5. action \in ActionLedgerType
    BY <2>1, <2>4 DEF Flags, ActionLedgerType, NoOutcome
  <2>. QED  BY <2>2, <2>3, <2>5, <2>4, MaxEpochAssumption
            DEF ActionInit, ActionInv, ActionLedgers, ActionSince, Epochs
<1>2. ActionInv /\ [ActionNext]_actionVars => ActionInv'
  <2>. SUFFICES ASSUME ActionInv, [ActionNext]_actionVars PROVE ActionInv'
    OBVIOUS
  <2>0. /\ action \in ActionLedgers /\ actionAsked \in ActionLedgers /\ ActionSince
        /\ action.epoch \in Nat /\ actionAsked.epoch \in Nat
    BY ActionLedgerFields DEF ActionInv
  <2>1. ASSUME action' \in ActionLedgers, action'.epoch >= action.epoch,
               action.proposed # None => /\ action'.proposed = action.proposed
                                         /\ action'.expires = action.expires,
               ActionMovesTo(action')
        PROVE  ActionInv'
    <3>1. action'.epoch \in Nat
      BY <2>1, ActionLedgerFields
    <3>. QED  BY <2>0, <2>1, <3>1 DEF ActionInv, ActionSince, ActionMovesTo
  <2>2. CASE Proposes
    <3>. DEFINE expires == action.epoch + action.lifetime
                today == action.epoch
    <3>1. /\ action.proposed = None /\ ActionMovesTo(action')
          /\ action' = [action EXCEPT !.proposed = today, !.live = TRUE, !.expires = expires]
      BY <2>2, Zenon DEF Proposes, ActionMovesTo
    <3>2. /\ action \in ActionLedgerType /\ Landed(action.log, action.slot)
          /\ LifeFollows(action) /\ OutcomeFollows(action.outcome, action.status)
          /\ TRUE \in Flags /\ expires \in Nat /\ today \in Nat /\ today <= expires /\ today = action.epoch
      BY <2>0, ActionLedgerFields DEF Flags
    <3>. HIDE DEF expires, today
    <3>3. /\ action' \in ActionLedgerType /\ action'.epoch = today
          /\ action'.slot = action.slot /\ action'.log = action.log
          /\ action'.live = TRUE /\ action'.proposed = today /\ action'.expires = expires
          /\ action'.status = action.status /\ action'.outcome = action.outcome
      BY <3>1, <3>2 DEF ActionLedgerType
    <3>4. LifeFollows(action')
      BY <3>1, <3>2, <3>3, NoneAssumption, OpenAssumption DEF LifeFollows, Outcomes
    <3>5. action' \in ActionLedgers
      BY <3>2, <3>3, <3>4 DEF ActionLedgers
    <3>. QED  BY <2>0, <2>1, <3>1, <3>2, <3>3, <3>5
  <2>3. ASSUME NEW voter \in Voters, Votes(voter)
        PROVE  ActionInv'
    <3>1. PICK p \in Places(action) : ActionMovesTo(WithVote(action, p, voter))
      BY <2>3, Zenon DEF Votes, WithVote
    <3>2. action' = WithVote(action, p, voter) /\ ActionMovesTo(action')
      BY <3>1 DEF ActionMovesTo
    <3>. QED  BY <2>0, <2>1, <3>2, VoteLands
  <2>4. CASE ActionEpochEnds
    <3>1. PICK status \in NextStatuses, others \in BOOLEAN, lifetime \in Lifetimes :
             ActionMovesTo(WithStatus(action, status, others, lifetime))
      BY <2>4, Zenon DEF ActionEpochEnds, WithStatus
    <3>2. action' = WithStatus(action, status, others, lifetime) /\ ActionMovesTo(action')
      BY <3>1 DEF ActionMovesTo
    <3>3. action.epoch < MaxEpoch
      BY <2>4 DEF ActionEpochEnds
    <3>4. action' \in ActionLedgers /\ action'.epoch = action.epoch + 1
          /\ action'.proposed = action.proposed /\ action'.expires = action.expires
      BY <2>0, <3>2, <3>3, EpochBringsStatus DEF NextStatuses
    <3>. QED  BY <2>0, <2>1, <3>2, <3>4
  <2>5. CASE ActionAsked
    BY <2>0, <2>5 DEF ActionAsked, ActionInv, ActionSince
  <2>6. CASE UNCHANGED actionVars
    BY <2>0, <2>6 DEF actionVars, ActionInv, ActionSince
  <2>. QED  BY <2>2, <2>3, <2>4, <2>5, <2>6 DEF ActionNext
<1>. QED  BY <1>1, <1>2, PTL DEF ActionSpec
-----------------------------------------------------------------------------
\* The fields of an answer about an action.
LEMMA ActionInfoFields ==
    ASSUME NEW proposed, NEW expires, NEW outcome, NEW info,
           info = ActionInfo(proposed, expires, outcome)
    PROVE  info.proposed = proposed /\ info.expires = expires /\ info.outcome = outcome
BY DEF ActionInfo

\* The status read off an outcome is the one it is the outcome of.
LEMMA StatusOfOutcome ==
    ASSUME NEW o, NEW status \in Outcomes \cup {None}, OutcomeFollows(o, status)
    PROVE  ActionStatus(o) = status
<1>1. CASE status \in {"enacted", "ratified"}
  BY <1>1, OpenAssumption DEF OutcomeFollows, ActionStatus, Outcomes
<1>2. CASE status \in {"dropped", "expired"}
  BY <1>2, OpenAssumption DEF OutcomeFollows, ActionStatus, Outcomes
<1>3. CASE status = None
  BY <1>3, OpenAssumption DEF OutcomeFollows, ActionStatus, Outcomes
<1>. QED  BY <1>1, <1>2, <1>3 DEF Outcomes

\* cardano-cli, the epoch of the two requests being the same.
LEMMA CliStatus ==
    ASSUME NEW l \in ActionLedgers, NEW today \in Nat, today = l.epoch, NEW m, m.epoch = today,
           NEW info \in CliActionInfo(l, m)
    PROVE  IF l.live THEN ActionStatus(info.outcome) = l.status /\ info.expires = l.expires
           ELSE ActionStatus(info.outcome) \in {"dropped", "expired"}
<1>. DEFINE ratified == l.live /\ l.status = "ratified"
            dropped == ~l.live /\ ~l.others
            expired == /\ ~ratified /\ ~dropped
                       /\ ~l.live \/ l.status = "expired" \/ m.epoch > l.expires
            o == [NoOutcome EXCEPT !.ratified = IF ratified THEN m.epoch ELSE None,
                                   !.dropped = IF dropped THEN m.epoch ELSE None,
                                   !.expired = IF expired THEN m.epoch ELSE None]
<1>1. info = ActionInfo(IF l.live THEN l.proposed ELSE None, IF l.live THEN l.expires ELSE None, o)
  BY Zenon DEF CliActionInfo
<1>2. /\ o.enacted = None
      /\ o.ratified = IF ratified THEN m.epoch ELSE None
      /\ o.dropped = IF dropped THEN m.epoch ELSE None
      /\ o.expired = IF expired THEN m.epoch ELSE None
  BY DEF NoOutcome
<1>3. info.outcome = o /\ info.expires = IF l.live THEN l.expires ELSE None
  <2>. HIDE DEF o
  <2>1. \E proposed, expires : /\ info = ActionInfo(proposed, expires, o)
                               /\ expires = IF l.live THEN l.expires ELSE None
    BY <1>1, Zenon
  <2>. QED  BY <2>1, ActionInfoFields
<1>4. LifeFollows(l) /\ l.status \in Outcomes \cup {None} /\ today # None
  BY ActionLedgerFields, NoneAssumption
<1>. HIDE DEF o
<1>5. ActionStatus(o) = IF ratified THEN "ratified" ELSE IF dropped THEN "dropped"
                        ELSE IF expired THEN "expired" ELSE None
  BY <1>2, <1>4 DEF ActionStatus
<1>6. CASE l.live
  <2>1. l.status \in {None, "ratified", "expired"} /\ (l.status = None => ~(today > l.expires))
    <3>1. l.proposed # None => l.expires \in Nat
      BY <1>4 DEF LifeFollows
    <3>. QED  BY <1>4, <1>6, <3>1 DEF LifeFollows
  <2>. QED  BY <1>3, <1>5, <1>6, <2>1, OpenAssumption DEF Outcomes
<1>7. CASE ~l.live
  BY <1>3, <1>5, <1>7
<1>. QED  BY <1>6, <1>7

\* What cardano-cli's votes tell of a live action, unless it is ratified.
LEMMA CliVotesStatus ==
    ASSUME NEW l \in ActionLedgers, NEW info \in CliActionVotes(l, l)
    PROVE  ActionStatus(info.outcome) = l.status \/ l.status = "ratified"
<1>. DEFINE o == [NoOutcome EXCEPT !.expired = IF l.epoch > l.expires THEN l.epoch ELSE None]
<1>1. l.live /\ info = ActionInfo(l.proposed, l.expires, o)
  BY Zenon DEF CliActionVotes
<1>2. /\ o.enacted = None /\ o.ratified = None /\ o.dropped = None
      /\ o.expired = IF l.epoch > l.expires THEN l.epoch ELSE None
  BY DEF NoOutcome
<1>3. info.outcome = o
  <2>. HIDE DEF o
  <2>. QED  BY <1>1, ActionInfoFields
<1>4. LifeFollows(l) /\ l.epoch \in Nat /\ l.epoch # None
  BY ActionLedgerFields, NoneAssumption
<1>. HIDE DEF o
<1>5. ActionStatus(o) = IF l.epoch > l.expires THEN "expired" ELSE None
  BY <1>2, <1>4 DEF ActionStatus
<1>6. /\ l.status \in {None, "ratified", "expired"} /\ l.expires \in Nat
      /\ l.status = None => ~(l.epoch > l.expires)
      /\ l.status = "expired" => l.epoch > l.expires
  BY <1>1, <1>4 DEF LifeFollows
<1>. QED  BY <1>3, <1>5, <1>6

\* Koios and Blockfrost answer the status of the ledger.
LEMMA IndexedStatus ==
    ASSUME NEW l \in ActionLedgers, NEW info \in KoiosActionInfo(l) \cup BlockfrostActionInfo(l)
    PROVE  ActionStatus(info.outcome) = l.status /\ info.expires = l.expires
<1>1. \E proposed : info = ActionInfo(proposed, l.expires, l.outcome)
  BY Zenon DEF KoiosActionInfo, BlockfrostActionInfo
<1>2. info.outcome = l.outcome /\ info.expires = l.expires
  BY <1>1, ActionInfoFields
<1>. QED  BY <1>2, StatusOfOutcome, ActionLedgerFields

\* The status each backend answers of an action is the one it has, as far as
\* the backend can tell (gov_action_info, gov_action_votes and gov_actions_all).
THEOREM ActionStatusesAreRightAlways == ActionSpec => []ActionStatusesAreRight
<1>1. ActionInv => ActionStatusesAreRight
  <2>. SUFFICES ASSUME ActionInv PROVE ActionStatusesAreRight
    OBVIOUS
  <2>0. /\ action \in ActionLedgers /\ actionAsked \in ActionLedgers /\ ActionSince
        /\ action.epoch \in Nat /\ actionAsked.epoch \in Nat
    BY ActionLedgerFields DEF ActionInv
  <2>1. ASSUME actionAsked.epoch = action.epoch, NEW info \in CliActionInfo(actionAsked, action)
        PROVE  IF actionAsked.live
               THEN ActionStatus(info.outcome) \in actionHeld /\ info.expires = action.expires
               ELSE ActionStatus(info.outcome) \in {"dropped", "expired"}
    <3>1. IF actionAsked.live
          THEN ActionStatus(info.outcome) = actionAsked.status /\ info.expires = actionAsked.expires
          ELSE ActionStatus(info.outcome) \in {"dropped", "expired"}
      BY <2>0, <2>1, CliStatus
    <3>2. actionAsked.live => actionAsked.expires = action.expires
      BY <2>0, ActionLedgerFields DEF ActionSince, LifeFollows
    <3>. QED  BY <2>0, <3>1, <3>2 DEF ActionSince
  <2>2. (OgmiosActionInfo(action) # {}) = action.live
    <3>1. action.live \in BOOLEAN
      BY <2>0, ActionLedgerFields DEF Flags
    <3>2. (OgmiosActionInfo(action) # {}) <=> action.live
      BY DEF OgmiosActionInfo
    <3>. QED  BY <3>1, <3>2
  <2>3. ASSUME NEW info \in YaciActionInfo(action, action),
               action.proposed + action.lifetime = action.expires
        PROVE  info.expires = action.expires
    <3>1. info = ActionInfo(action.proposed, action.proposed + action.lifetime, NoOutcome)
      BY Zenon DEF YaciActionInfo
    <3>. QED  BY <2>3, <3>1 DEF ActionInfo
  <2>4. ASSUME NEW infos \in {{}, BlockfrostActionInfo(actionAsked)},
               NEW info \in OfflineActionInfo(infos, KoiosActionInfo(actionAsked))
        PROVE  ActionStatus(info.outcome) \in actionHeld
    <3>1. info \in KoiosActionInfo(actionAsked) \cup BlockfrostActionInfo(actionAsked)
      BY DEF OfflineActionInfo
    <3>. QED  BY <2>0, <3>1, IndexedStatus DEF ActionSince
  <2>5. \A info \in CliActionVotes(action, action) :
           ActionStatus(info.outcome) = action.status \/ action.status = "ratified"
    BY <2>0, CliVotesStatus
  <2>6. \A info \in KoiosActionInfo(action) \cup BlockfrostActionInfo(action) :
           ActionStatus(info.outcome) = action.status /\ info.expires = action.expires
    BY <2>0, IndexedStatus
  <2>. QED  BY <2>1, <2>2, <2>3, <2>4, <2>5, <2>6, Zenon DEF ActionStatusesAreRight
<1>. QED  BY <1>1, ActionInvAlways, PTL

-----------------------------------------------------------------------------
\* What the node keeps of a voter is its last vote.
LEMMA NodeKeepsLast ==
    ASSUME NEW l \in ActionLedgers, NEW v \in {c.voter : c \in Elements(l.log)}
    PROVE  /\ LastOf(VotesOf(v, l)) \in VotesOf(v, l)
           /\ \A d \in VotesOf(v, l) : d.number <= LastOf(VotesOf(v, l)).number
           /\ VotesOf(v, l) \subseteq Elements(l.log) /\ VotesOf(v, l) # {}
<1>. DEFINE S == VotesOf(v, l)
<1>1. S \subseteq Elements(l.log) /\ S # {}
  BY DEF VotesOf
<1>2. Landed(l.log, l.slot) /\ l.log \in Seq(ActionVotes)
  BY ActionLedgerFields
<1>. HIDE DEF S
<1>3. LastOf(S) \in S /\ \A d \in S : d.number <= LastOf(S).number
  BY <1>1, <1>2, LastOfSome
<1>. QED  BY <1>1, <1>3 DEF S

\* The fields of a vote.
LEMMA VoteFields ==
    ASSUME NEW voter, NEW number
    PROVE  Vote(voter, number).voter = voter /\ Vote(voter, number).vote = number
BY DEF Vote

\* Each voter is counted once, with its last vote (gov_action_votes).
THEOREM VotesAreLastAlways == ActionSpec => []VotesAreLast
<1>1. ActionInv => VotesAreLast
  <2>. SUFFICES ASSUME ActionInv PROVE VotesAreLast
    OBVIOUS
  <2>. DEFINE voted == {c.voter : c \in Elements(action.log)}
              last == NodeVotes(action)
              Kept(v) == Vote(v, LastOf(VotesOf(v, action)).number)
  <2>0. action \in ActionLedgers /\ Landed(action.log, action.slot)
        /\ action.log \in Seq(ActionVotes)
    BY ActionLedgerFields DEF ActionInv
  <2>1. last = {Kept(v) : v \in voted}
    BY DEF NodeVotes
  <2>2. ASSUME NEW v \in voted PROVE Cardinality({x \in last : x.voter = v}) = 1
    <3>1. {x \in last : x.voter = v} = {Kept(v)}
      BY <2>1, VoteFields
    <3>. QED  BY <3>1, FS_Singleton
  <2>3. ASSUME NEW v \in voted, SpreadOut(action) PROVE YaciVotes(v, action) \subseteq last
    <3>. SUFFICES ASSUME NEW y \in YaciVotes(v, action) PROVE y \in last
      OBVIOUS
    <3>1. PICK c \in Newest(VotesOf(v, action), YaciBefore) : y = Vote(v, c.number)
      BY Zenon DEF YaciVotes
    <3>2. /\ LastOf(VotesOf(v, action)) \in VotesOf(v, action)
          /\ \A d \in VotesOf(v, action) : d.number <= LastOf(VotesOf(v, action)).number
          /\ VotesOf(v, action) \subseteq Elements(action.log)
      BY <2>0, NodeKeepsLast
    <3>3. c \in VotesOf(v, action) /\ \A d \in VotesOf(v, action) : d.number <= c.number
      BY <2>0, <2>3, <3>1, <3>2, NewestIsLast
    <3>4. c.number \in Nat /\ LastOf(VotesOf(v, action)).number \in Nat
      BY <2>0, <3>2, <3>3, Positions
    <3>5. c.number = LastOf(VotesOf(v, action)).number
      BY <3>2, <3>3, <3>4
    <3>. QED  BY <2>1, <3>1, <3>5, Zenon
  <2>4. {x.vote : x \in last} \subseteq {x.vote : x \in RowVotes(Elements(action.log))}
    <3>1. ASSUME NEW v \in voted
          PROVE  Kept(v).vote \in {x.vote : x \in RowVotes(Elements(action.log))}
      <4>. DEFINE c == LastOf(VotesOf(v, action))
      <4>1. c \in Elements(action.log)
        BY <2>0, NodeKeepsLast
      <4>. HIDE DEF c
      <4>2. \E w : Vote(w, c.number) \in RowVotes(Elements(action.log))
        BY <4>1, Zenon DEF RowVotes
      <4>3. Kept(v) = Vote(v, c.number)
        BY DEF c
      <4>. QED  BY <4>2, <4>3, VoteFields
    <3>. HIDE DEF Kept
    <3>. QED  BY <2>1, <3>1
  <2>. QED  BY <2>2, <2>3, <2>4, Zenon DEF VotesAreLast
<1>. QED  BY <1>1, ActionInvAlways, PTL

-----------------------------------------------------------------------------
(***************************************************************************)
(* The outputs of an address, page by page.                                *)
(***************************************************************************)
Distinct(s) == \A i, j \in DOMAIN s : s[i] = s[j] => i = j

PagingType ==
    [limit : {None, MaxPages}, pages : Nat, collected : Seq(Nat), over : Flags,
     asked : SUBSET Nat, removed : Flags, beyond : Flags]

\* The rows are outputs of the address, each of them once.
RowsFollow ==
    /\ outputs \in Nat /\ rows \in Seq(Nat) /\ newestFirst \in Flags
    /\ Distinct(rows) /\ Live \subseteq 1..outputs

\* As long as no row was taken away, the pages that were fetched hold the rows
\* there were when the call began, as far as the list has been read; in a list
\* that grows at its end they are its beginning.
PagesFollow ==
    /\ ~paging.over =>
          /\ paging.pages * PageSize <= Len(rows)
          /\ \A k \in DOMAIN rows : k <= paging.pages * PageSize /\ rows[k] \in paging.asked =>
                rows[k] \in Elements(paging.collected)
          /\ ~newestFirst =>
                /\ Len(paging.collected) = paging.pages * PageSize
                /\ \A k \in DOMAIN paging.collected : paging.collected[k] = rows[k]
    /\ paging.over /\ ~paging.beyond => paging.asked \cap Live \subseteq Elements(paging.collected)
    /\ ~newestFirst => Distinct(paging.collected)

OutputInv ==
    /\ RowsFollow
    /\ paging \in PagingType /\ paging.asked \subseteq 1..outputs
    /\ ~paging.removed => PagesFollow

\* Where the pages of a list end.
LEMMA PageEnds ==
    ASSUME NEW n \in Nat
    PROVE  /\ n * PageSize \in Nat /\ (n + 1) * PageSize \in Nat
           /\ (n + 1) * PageSize = n * PageSize + PageSize
           /\ 0 * PageSize = 0 /\ PageSize \in Nat /\ PageSize > 0
BY PagesAssumption

\* A page of the list from position a on, the next one beginning after last.
PageFits(page, list, a, last) ==
    /\ page \in Seq(Nat) /\ Len(page) \in Nat
    /\ a <= Len(list) =>
          /\ a + Len(page) <= Len(list)
          /\ Len(page) < PageSize => Len(list) < last /\ a + Len(page) = Len(list)
          /\ ~(Len(page) < PageSize) => Len(list) >= last /\ a + Len(page) = last
          /\ \A k \in 1..Len(page) : a + k \in DOMAIN list /\ page[k] = list[a + k]

\* A page is the part of the list it is said to be.
LEMMA PageIs ==
    ASSUME NEW list \in Seq(Nat), NEW n \in Nat,
           NEW a, a = n * PageSize, NEW last, last = (n + 1) * PageSize,
           NEW page, page = PageOf(list, n)
    PROVE  PageFits(page, list, a, last)
<1>. DEFINE z == IF last <= Len(list) THEN last ELSE Len(list)
<1>1. a \in Nat /\ last \in Nat /\ last = a + PageSize /\ PageSize \in Nat /\ PageSize > 0
  BY PageEnds
<1>2. page = SubSeq(list, a + 1, z)
  BY DEF PageOf
<1>3. z \in Nat /\ z <= Len(list) /\ Len(list) \in Nat
  BY <1>1
<1>4. page \in Seq(Nat) /\ Len(page) \in Nat
  BY <1>1, <1>2, <1>3
<1>5. ASSUME a <= Len(list)
      PROVE  /\ Len(page) = z - a
             /\ \A k \in 1..Len(page) : a + k \in DOMAIN list /\ page[k] = list[a + k]
  <2>1. /\ z - (a + 1) + 1 = z - a /\ a + 1 \in Int /\ z \in Int
        /\ \A i \in (a + 1)..z : list[i] \in Nat
    BY <1>1, <1>3
  <2>2. a <= z
    BY <1>1, <1>5 DEF z
  <2>. HIDE DEF z
  <2>3. /\ Len(page) = IF a + 1 <= z THEN z - a ELSE 0
        /\ \A k \in 1..(z - a) : page[k] = list[(a + 1) + k - 1]
    BY <1>2, <2>1, SubSeqProperties
  <2>4. Len(page) = z - a
    BY <1>1, <1>3, <2>2, <2>3
  <2>5. \A k \in 1..(z - a) : (a + 1) + k - 1 = a + k /\ a + k \in 1..Len(list)
    BY <1>1, <1>3
  <2>6. z - a \in Nat /\ DOMAIN list = 1..Len(list)
    BY <1>1, <1>3, <2>2
  <2>7. \A k \in 1..(z - a) : a + k \in DOMAIN list /\ page[k] = list[a + k]
    BY <2>3, <2>5, <2>6
  <2>. QED  BY <2>4, <2>7
<1>6. ASSUME a <= Len(list)
      PROVE  /\ a + Len(page) <= Len(list)
             /\ Len(page) < PageSize => Len(list) < last /\ a + Len(page) = Len(list)
             /\ ~(Len(page) < PageSize) => Len(list) >= last /\ a + Len(page) = last
  BY <1>1, <1>3, <1>4, <1>5, <1>6
<1>. HIDE DEF z
<1>. QED  BY <1>4, <1>5, <1>6 DEF PageFits

\* The elements of a sequence are those at its positions.
LEMMA ElementsOf ==
    ASSUME NEW S, NEW s \in Seq(S)
    PROVE  /\ Elements(s) \subseteq S
           /\ \A x \in Elements(s) : \E i \in 1..Len(s) : x = s[i]
           /\ \A i \in 1..Len(s) : s[i] \in Elements(s)
           /\ DOMAIN s = 1..Len(s) /\ Len(s) \in Nat
BY DEF Elements

\* The positions and the elements of two sequences put together.
LEMMA Concatenated ==
    ASSUME NEW s \in Seq(Nat), NEW t \in Seq(Nat)
    PROVE  /\ s \o t \in Seq(Nat) /\ Len(s \o t) = Len(s) + Len(t)
           /\ \A k \in 1..Len(s) : (s \o t)[k] = s[k]
           /\ \A k \in 1..Len(t) : (s \o t)[Len(s) + k] = t[k]
           /\ \A k \in DOMAIN (s \o t) :
                 k \in 1..Len(s) \/ \E j \in 1..Len(t) : k = Len(s) + j
           /\ Elements(s) \subseteq Elements(s \o t) /\ Elements(t) \subseteq Elements(s \o t)
<1>1. /\ s \o t \in Seq(Nat) /\ Len(s \o t) = Len(s) + Len(t)
      /\ \A k \in 1..Len(s) : (s \o t)[k] = s[k]
      /\ \A k \in 1..Len(t) : (s \o t)[Len(s) + k] = t[k]
      /\ Len(s) \in Nat /\ Len(t) \in Nat /\ DOMAIN (s \o t) = 1..(Len(s) + Len(t))
  OBVIOUS
<1>2. ASSUME NEW k \in DOMAIN (s \o t), ~(k \in 1..Len(s))
      PROVE  \E j \in 1..Len(t) : k = Len(s) + j
  <2>1. k - Len(s) \in 1..Len(t) /\ k = Len(s) + (k - Len(s))
    BY <1>1, <1>2
  <2>. QED  BY <2>1
<1>3. /\ \A k \in 1..Len(s) : s[k] \in Elements(s \o t)
      /\ \A k \in 1..Len(t) : t[k] \in Elements(s \o t)
  <2>1. \A k \in 1..Len(s) : k \in DOMAIN (s \o t)
    BY <1>1
  <2>2. \A k \in 1..Len(t) : Len(s) + k \in DOMAIN (s \o t)
    BY <1>1
  <2>. QED  BY <1>1, <2>1, <2>2 DEF Elements
<1>4. Elements(s) \subseteq Elements(s \o t)
  <2>1. \A x \in Elements(s) : \E i \in 1..Len(s) : x = s[i]
    BY ElementsOf
  <2>. QED  BY <1>3, <2>1
<1>5. Elements(t) \subseteq Elements(s \o t)
  <2>1. \A x \in Elements(t) : \E i \in 1..Len(t) : x = t[i]
    BY ElementsOf
  <2>. QED  BY <1>3, <2>1
<1>. QED  BY <1>1, <1>2, <1>4, <1>5

-----------------------------------------------------------------------------
\* An output that is created does not disturb the pages.
LEMMA CreatedFits ==
    ASSUME OutputInv, OutputCreated
    PROVE  OutputInv'
<1>. DEFINE n == outputs + 1
            N == paging.pages * PageSize
<1>0. /\ outputs \in Nat /\ rows \in Seq(Nat) /\ newestFirst \in Flags /\ Distinct(rows)
      /\ Live \subseteq 1..outputs /\ n \in Nat /\ n > outputs
      /\ paging \in PagingType /\ paging.asked \subseteq 1..outputs
      /\ \A k \in DOMAIN rows : rows[k] \in Nat /\ rows[k] < n /\ rows[k] \in Live
      /\ Len(rows) \in Nat /\ DOMAIN rows = 1..Len(rows)
  <2>1. /\ outputs \in Nat /\ rows \in Seq(Nat) /\ newestFirst \in Flags /\ Distinct(rows)
        /\ Live \subseteq 1..outputs /\ n \in Nat /\ n > outputs
        /\ paging \in PagingType /\ paging.asked \subseteq 1..outputs
    BY DEF OutputInv, RowsFollow
  <2>2. \A k \in DOMAIN rows : rows[k] \in Live
    BY DEF Live, Elements
  <2>. QED  BY <2>1, <2>2
<1>1. /\ outputs' = n /\ newestFirst' = newestFirst /\ paging' = paging
      /\ rows' = IF newestFirst THEN <<n>> \o rows ELSE Append(rows, n)
  BY DEF OutputCreated
<1>2. N \in Nat
  <2>1. paging.pages \in Nat
    BY <1>0 DEF PagingType
  <2>. QED  BY <2>1, PageEnds
<1>. HIDE DEF n, N
<1>3. /\ rows' \in Seq(Nat) /\ Len(rows') = Len(rows) + 1 /\ DOMAIN rows' = 1..(Len(rows) + 1)
      /\ newestFirst => /\ rows'[1] = n
                        /\ \A k \in 2..(Len(rows) + 1) : rows'[k] = rows[k - 1]
      /\ ~newestFirst => /\ rows'[Len(rows) + 1] = n
                         /\ \A k \in 1..Len(rows) : rows'[k] = rows[k]
  <2>1. CASE newestFirst
    <3>1. rows' = <<n>> \o rows
      BY <1>1, <2>1
    <3>2. /\ rows' \in Seq(Nat) /\ Len(rows') = 1 + Len(rows) /\ rows'[1] = n
          /\ \A k \in 1..Len(rows) : rows'[1 + k] = rows[k]
      BY <1>0, <3>1
    <3>3. \A k \in 2..(Len(rows) + 1) : k - 1 \in 1..Len(rows) /\ 1 + (k - 1) = k
      BY <1>0
    <3>. QED  BY <1>0, <2>1, <3>2, <3>3
  <2>2. CASE ~newestFirst
    BY <1>0, <1>1, <2>2
  <2>. QED  BY <2>1, <2>2
\* Where the rows are now.
<1>4. ASSUME NEW k \in DOMAIN rows'
      PROVE  \/ rows'[k] = n /\ k = IF newestFirst THEN 1 ELSE Len(rows) + 1
             \/ \E j \in DOMAIN rows : rows'[k] = rows[j] /\ j <= k
                                       /\ k = IF newestFirst THEN j + 1 ELSE j
  <2>1. CASE newestFirst
    <3>1. CASE k = 1
      BY <1>3, <2>1, <3>1
    <3>2. CASE k # 1
      <4>1. k - 1 \in DOMAIN rows /\ rows'[k] = rows[k - 1] /\ k - 1 <= k /\ k = (k - 1) + 1
        BY <1>0, <1>3, <2>1, <3>2
      <4>. QED  BY <2>1, <4>1
    <3>. QED  BY <3>1, <3>2
  <2>2. CASE ~newestFirst
    BY <1>0, <1>3, <2>2
  <2>. QED  BY <2>1, <2>2
<1>5. Distinct(rows')
  <2>. SUFFICES ASSUME NEW i \in DOMAIN rows', NEW j \in DOMAIN rows', rows'[i] = rows'[j]
                PROVE  i = j
    BY DEF Distinct
  <2>. QED  BY <1>0, <1>4 DEF Distinct
<1>6. Live' \subseteq 1..n /\ Live' \subseteq Live \cup {n}
  <2>. SUFFICES ASSUME NEW x \in Live' PROVE x \in 1..n /\ x \in Live \cup {n}
    OBVIOUS
  <2>1. PICK k \in DOMAIN rows' : x = rows'[k]
    BY DEF Live, Elements
  <2>. QED  BY <1>0, <1>4, <2>1
<1>7. RowsFollow'
  BY <1>0, <1>1, <1>3, <1>5, <1>6 DEF RowsFollow
<1>8. paging.asked \subseteq 1..n /\ n \notin paging.asked
  BY <1>0
<1>9. ASSUME ~paging.removed PROVE PagesFollow'
  <2>0. PagesFollow
    BY <1>9 DEF OutputInv
  <2>1. ASSUME ~paging.over
        PROVE  /\ N <= Len(rows')
               /\ \A k \in DOMAIN rows' : k <= N /\ rows'[k] \in paging.asked =>
                     rows'[k] \in Elements(paging.collected)
    <3>1. N <= Len(rows) /\ \A j \in DOMAIN rows : j <= N /\ rows[j] \in paging.asked =>
                               rows[j] \in Elements(paging.collected)
      BY <2>0, <2>1 DEF PagesFollow, N
    <3>2. N <= Len(rows')
      BY <1>0, <1>2, <1>3, <3>1
    <3>3. ASSUME NEW k \in DOMAIN rows', k <= N, rows'[k] \in paging.asked
          PROVE  rows'[k] \in Elements(paging.collected)
      <4>1. PICK j \in DOMAIN rows : rows'[k] = rows[j] /\ j <= k
        BY <1>4, <1>8, <3>3
      <4>2. j <= N
        BY <1>0, <1>2, <1>3, <3>3, <4>1
      <4>. QED  BY <3>1, <3>3, <4>1, <4>2
    <3>. QED  BY <3>2, <3>3
  <2>2. ASSUME ~paging.over, ~newestFirst
        PROVE  /\ Len(paging.collected) = N
               /\ \A k \in DOMAIN paging.collected : paging.collected[k] = rows'[k]
    <3>1. /\ Len(paging.collected) = N /\ N <= Len(rows)
          /\ \A k \in DOMAIN paging.collected : paging.collected[k] = rows[k]
      BY <2>0, <2>2 DEF PagesFollow, N
    <3>2. paging.collected \in Seq(Nat)
      BY <1>0 DEF PagingType
    <3>3. \A k \in DOMAIN paging.collected : k \in 1..Len(rows)
      BY <1>0, <1>2, <3>1, <3>2
    <3>. QED  BY <1>3, <2>2, <3>1, <3>3
  <2>3. ASSUME paging.over, ~paging.beyond
        PROVE  paging.asked \cap Live' \subseteq Elements(paging.collected)
    BY <1>6, <1>8, <2>0, <2>3 DEF PagesFollow
  <2>4. ~newestFirst => Distinct(paging.collected)
    BY <2>0 DEF PagesFollow
  <2>. QED  BY <1>1, <2>1, <2>2, <2>3, <2>4 DEF PagesFollow, N
<1>. QED  BY <1>0, <1>1, <1>7, <1>8, <1>9 DEF OutputInv

\* Neither does one that is spent, when the list is over.
LEMMA SpentFits ==
    ASSUME OutputInv, OutputSpent
    PROVE  OutputInv'
<1>0. /\ outputs \in Nat /\ rows \in Seq(Nat) /\ newestFirst \in Flags /\ Distinct(rows)
      /\ Live \subseteq 1..outputs /\ paging \in PagingType /\ paging.asked \subseteq 1..outputs
      /\ Len(rows) \in Nat /\ DOMAIN rows = 1..Len(rows)
  BY DEF OutputInv, RowsFollow
<1>1. PICK i \in DOMAIN rows :
         rows' = [k \in 1..(Len(rows) - 1) |-> IF k < i THEN rows[k] ELSE rows[k + 1]]
  BY DEF OutputSpent
<1>2. /\ paging' = [paging EXCEPT !.removed = paging.removed \/ ~paging.over]
      /\ outputs' = outputs /\ newestFirst' = newestFirst
  BY DEF OutputSpent
<1>3. Len(rows) - 1 \in Nat /\ i \in 1..Len(rows)
  BY <1>0
<1>4. ASSUME NEW k \in 1..(Len(rows) - 1)
      PROVE  \E j \in DOMAIN rows : rows'[k] = rows[j] /\ j = IF k < i THEN k ELSE k + 1
  <2>1. /\ rows'[k] = IF k < i THEN rows[k] ELSE rows[k + 1]
        /\ k \in DOMAIN rows /\ k + 1 \in DOMAIN rows
    BY <1>0, <1>1
  <2>. QED  BY <2>1
<1>5. rows' \in Seq(Nat) /\ DOMAIN rows' = 1..(Len(rows) - 1)
  <2>1. \A k \in 1..(Len(rows) - 1) : rows'[k] \in Nat
    BY <1>0, <1>4
  <2>2. rows' = [k \in 1..(Len(rows) - 1) |-> rows'[k]]
    BY <1>1, Zenon
  <2>. QED  BY <1>1, <1>3, <2>1, <2>2
<1>6. Distinct(rows')
  <2>. SUFFICES ASSUME NEW k \in DOMAIN rows', NEW m \in DOMAIN rows', rows'[k] = rows'[m]
                PROVE  k = m
    BY DEF Distinct
  <2>1. PICK x \in DOMAIN rows : rows'[k] = rows[x] /\ x = IF k < i THEN k ELSE k + 1
    BY <1>4, <1>5
  <2>2. PICK y \in DOMAIN rows : rows'[m] = rows[y] /\ y = IF m < i THEN m ELSE m + 1
    BY <1>4, <1>5
  <2>3. x = y
    BY <1>0, <2>1, <2>2 DEF Distinct
  <2>. QED  BY <1>3, <1>5, <2>1, <2>2, <2>3
<1>7. Live' \subseteq Live
  BY <1>4, <1>5 DEF Live, Elements
<1>8. RowsFollow'
  BY <1>0, <1>2, <1>5, <1>6, <1>7 DEF RowsFollow
<1>. DEFINE removed == paging.removed \/ ~paging.over
<1>9. removed \in Flags /\ paging' = [paging EXCEPT !.removed = removed]
  BY <1>2 DEF Flags
<1>10. removed <=> (paging.removed \/ ~paging.over)
  OBVIOUS
<1>. HIDE DEF removed
<1>11. /\ paging' \in PagingType /\ paging'.asked = paging.asked /\ paging'.removed = removed
       /\ paging'.over = paging.over /\ paging'.beyond = paging.beyond
       /\ paging'.collected = paging.collected
  BY <1>0, <1>9 DEF PagingType
<1>12. ASSUME ~paging'.removed PROVE PagesFollow'
  <2>1. ~paging.removed /\ paging.over
    BY <1>10, <1>11, <1>12
  <2>2. PagesFollow
    BY <2>1 DEF OutputInv
  <2>. QED  BY <1>2, <1>7, <1>11, <2>1, <2>2 DEF PagesFollow
<1>. QED  BY <1>0, <1>2, <1>8, <1>11, <1>12 DEF OutputInv

\* A list that is begun has no page yet.
LEMMA PagingFits ==
    ASSUME OutputInv, PagingBegins
    PROVE  OutputInv'
<1>1. PICK limit \in {None, MaxPages} :
         paging' = [limit |-> limit, pages |-> 0, collected |-> <<>>, over |-> FALSE,
                    asked |-> Live, removed |-> FALSE, beyond |-> FALSE]
  BY DEF PagingBegins, Paging
<1>2. outputs' = outputs /\ rows' = rows /\ newestFirst' = newestFirst /\ Live' = Live
  BY DEF PagingBegins, Live
<1>3. Live \subseteq 1..outputs /\ outputs \in Nat /\ rows \in Seq(Nat)
  BY DEF OutputInv, RowsFollow
<1>4. Live \in SUBSET Nat /\ Len(rows) \in Nat
  BY <1>3
<1>5. paging' \in PagingType /\ paging'.asked \subseteq 1..outputs
  BY <1>1, <1>3, <1>4 DEF PagingType, Flags
<1>6. /\ ~paging'.over /\ paging'.pages = 0 /\ paging'.collected = <<>>
      /\ paging'.pages * PageSize = 0
  BY <1>1, PageEnds
<1>7. PagesFollow'
  <2>1. \A k \in DOMAIN rows : ~(k <= 0)
    BY <1>3
  <2>2. Distinct(<<>>) /\ DOMAIN (<<>>) = {} /\ Len(<<>>) = 0
    BY DEF Distinct
  <2>. QED  BY <1>2, <1>4, <1>6, <2>1, <2>2 DEF PagesFollow
<1>. QED  BY <1>2, <1>5, <1>7 DEF OutputInv, RowsFollow, Live

\* A page that is fetched is the next part of the list.
LEMMA FetchedFits ==
    ASSUME OutputInv, PageFetched
    PROVE  OutputInv'
<1>. DEFINE n == paging.pages + 1
            N == paging.pages * PageSize
            M == n * PageSize
            page == PageOf(rows, paging.pages)
            collected == paging.collected \o page
            over == LastPage(page, n)
            beyond == Beyond
<1>0. /\ outputs \in Nat /\ rows \in Seq(Nat) /\ Distinct(rows) /\ RowsFollow
      /\ paging \in PagingType /\ paging.asked \subseteq 1..outputs
      /\ Len(rows) \in Nat /\ DOMAIN rows = 1..Len(rows)
  BY DEF OutputInv, RowsFollow
<1>1. /\ ~paging.over /\ outputs' = outputs /\ rows' = rows /\ newestFirst' = newestFirst
      /\ paging' = [paging EXCEPT !.collected = collected, !.pages = n, !.over = over,
                                  !.beyond = beyond]
  BY <1>0, Zenon DEF PageFetched, PagingType
<1>2. /\ paging.pages \in Nat /\ n \in Nat /\ paging.collected \in Seq(Nat)
      /\ paging.limit \in {None, MaxPages}
  BY <1>0 DEF PagingType
<1>3. N \in Nat /\ M \in Nat /\ M = N + PageSize /\ PageSize \in Nat /\ PageSize > 0
  BY <1>2, PageEnds
<1>. HIDE DEF N, M
<1>4. /\ page \in Seq(Nat) /\ Len(page) \in Nat
      /\ N <= Len(rows) =>
            /\ N + Len(page) <= Len(rows)
            /\ Len(page) < PageSize => Len(rows) < M /\ N + Len(page) = Len(rows)
            /\ ~(Len(page) < PageSize) => Len(rows) >= M /\ N + Len(page) = M
            /\ \A k \in 1..Len(page) : N + k \in DOMAIN rows /\ page[k] = rows[N + k]
  <2>1. N = paging.pages * PageSize /\ M = (paging.pages + 1) * PageSize
    BY DEF N, M
  <2>. HIDE DEF page
  <2>2. page = PageOf(rows, paging.pages)
    BY DEF page
  <2>3. rows \in Seq(Nat) /\ paging.pages \in Nat
    BY <1>0, <1>2
  <2>4. PageFits(page, rows, N, M)
    BY <2>1, <2>2, <2>3, PageIs
  <2>. QED  BY <2>4 DEF PageFits
<1>. HIDE DEF page
<1>5. /\ over <=> Len(page) < PageSize \/ n = paging.limit
      /\ beyond <=> paging.limit # None /\ Len(rows) > paging.limit * PageSize
      /\ over \in Flags /\ beyond \in Flags
  BY DEF LastPage, Beyond, Flags
<1>6. /\ collected \in Seq(Nat) /\ Len(collected) = Len(paging.collected) + Len(page)
      /\ \A k \in 1..Len(paging.collected) : collected[k] = paging.collected[k]
      /\ \A k \in 1..Len(page) : collected[Len(paging.collected) + k] = page[k]
      /\ \A k \in DOMAIN collected :
            k \in 1..Len(paging.collected) \/ \E j \in 1..Len(page) : k = Len(paging.collected) + j
      /\ Elements(paging.collected) \subseteq Elements(collected)
      /\ Elements(page) \subseteq Elements(collected)
  BY <1>2, <1>4, Concatenated
<1>7. over /\ ~beyond => Len(page) < PageSize \/ Len(rows) <= M
  <2>. SUFFICES ASSUME over, ~beyond, n = paging.limit PROVE Len(rows) <= M
    BY <1>5
  <2>1. paging.limit # None /\ M = paging.limit * PageSize
    BY <1>2, NoneAssumption DEF M
  <2>. HIDE DEF beyond
  <2>2. ~(Len(rows) > M)
    BY <1>5, <2>1
  <2>. QED  BY <1>0, <1>3, <2>2
<1>. HIDE DEF collected, over, beyond, n
<1>8. /\ paging' \in PagingType /\ paging'.collected = collected /\ paging'.pages = n
      /\ paging'.over = over /\ paging'.beyond = beyond /\ paging'.removed = paging.removed
      /\ paging'.asked = paging.asked
  BY <1>0, <1>1, <1>2, <1>5, <1>6 DEF PagingType
<1>9. ASSUME ~paging.removed PROVE PagesFollow'
  <2>. DEFINE L == N + Len(page)
  <2>0. /\ N <= Len(rows)
        /\ \A k \in DOMAIN rows : k <= N /\ rows[k] \in paging.asked =>
              rows[k] \in Elements(paging.collected)
        /\ ~newestFirst => /\ Len(paging.collected) = N
                           /\ \A k \in DOMAIN paging.collected : paging.collected[k] = rows[k]
    BY <1>1, <1>9 DEF OutputInv, PagesFollow, N
  <2>1. L \in Nat /\ L <= Len(rows) /\ L = N + Len(page)
    BY <1>0, <1>3, <1>4, <2>0
  <2>. HIDE DEF L
  <2>2. ASSUME NEW k \in DOMAIN rows, k <= L, rows[k] \in paging.asked
        PROVE  rows[k] \in Elements(collected)
    <3>1. CASE k <= N
      BY <1>6, <2>0, <2>2, <3>1
    <3>2. CASE ~(k <= N)
      <4>1. k - N \in 1..Len(page) /\ N + (k - N) = k
        <5>1. k \in Nat /\ Len(page) \in Nat /\ k <= N + Len(page)
          BY <1>0, <1>4, <2>1, <2>2
        <5>. QED  BY <1>3, <3>2, <5>1
      <4>2. page[k - N] = rows[k]
        BY <1>4, <2>0, <4>1
      <4>3. page[k - N] \in Elements(page)
        BY <1>4, <4>1, ElementsOf
      <4>. QED  BY <1>6, <4>2, <4>3
    <3>. QED  BY <3>1, <3>2
  <2>3. ~over => L = M /\ M <= Len(rows)
    <3>1. ~over => ~(Len(page) < PageSize)
      BY <1>5
    <3>2. ~(Len(page) < PageSize) => L = M
      BY <1>4, <2>0, <2>1
    <3>. QED  BY <2>1, <3>1, <3>2
  <2>4. over /\ ~beyond => L = Len(rows)
    <3>1. Len(page) < PageSize => L = Len(rows)
      BY <1>4, <2>0, <2>1
    <3>2. ~(Len(page) < PageSize) => L = M
      BY <1>4, <2>0, <2>1
    <3>3. L <= Len(rows) /\ L \in Nat /\ Len(rows) \in Nat
      BY <1>0, <2>1
    <3>. QED  BY <1>7, <3>1, <3>2, <3>3
  <2>5. ASSUME over, ~beyond, NEW x \in paging.asked \cap Live PROVE x \in Elements(collected)
    <3>1. PICK k \in DOMAIN rows : x = rows[k]
      BY DEF Live, Elements
    <3>2. k <= L
      BY <1>0, <2>4, <2>5, <3>1
    <3>. QED  BY <2>2, <3>1, <3>2
  <2>6. ASSUME ~newestFirst
        PROVE  /\ Len(collected) = L
               /\ \A k \in DOMAIN collected : k \in DOMAIN rows /\ collected[k] = rows[k]
    <3>1. Len(collected) = L
      <4>1. Len(collected) = Len(paging.collected) + Len(page) /\ Len(paging.collected) = N
        BY <1>6, <2>0, <2>6
      <4>. QED  BY <2>1, <4>1
    <3>2. ASSUME NEW k \in DOMAIN collected
          PROVE  k \in DOMAIN rows /\ collected[k] = rows[k]
      <4>1. CASE k \in 1..Len(paging.collected)
        <5>1. k \in DOMAIN paging.collected /\ k \in Nat /\ k >= 1 /\ k <= N
          BY <1>2, <2>0, <2>6, <4>1
        <5>2. k \in DOMAIN rows
          BY <1>0, <1>3, <2>0, <5>1
        <5>3. collected[k] = paging.collected[k] /\ paging.collected[k] = rows[k]
          BY <1>6, <2>0, <2>6, <4>1, <5>1
        <5>. QED  BY <5>2, <5>3
      <4>2. ASSUME NEW j \in 1..Len(page), k = Len(paging.collected) + j
            PROVE  k \in DOMAIN rows /\ collected[k] = rows[k]
        BY <1>4, <1>6, <2>0, <2>6, <4>2
      <4>. QED  BY <1>6, <4>1, <4>2
    <3>. QED  BY <3>1, <3>2
  <2>7. ~newestFirst => Distinct(collected)
    BY <1>0, <2>6 DEF Distinct
  <2>8. Live' = Live
    BY <1>1 DEF Live
  <2>9. paging'.pages * PageSize = M
    BY <1>8 DEF M, n
  <2>. QED  BY <1>1, <1>8, <2>2, <2>3, <2>5, <2>6, <2>7, <2>8, <2>9 DEF PagesFollow
<1>. QED  BY <1>0, <1>1, <1>8, <1>9 DEF OutputInv, RowsFollow, Live

\* The pages fetched so far cover the list as far as it has been read.
THEOREM OutputInvAlways == OutputSpec => []OutputInv
<1>1. OutputInit => OutputInv
  <2>. SUFFICES ASSUME OutputInit PROVE OutputInv
    OBVIOUS
  <2>1. outputs = 0 /\ rows = <<>> /\ newestFirst \in Flags /\ Live = {}
    BY DEF OutputInit, Flags, Live, Elements
  <2>2. paging = [limit |-> None, pages |-> 0, collected |-> <<>>, over |-> FALSE,
                  asked |-> {}, removed |-> FALSE, beyond |-> FALSE]
    BY <2>1 DEF OutputInit, Paging
  <2>3. RowsFollow
    BY <2>1 DEF RowsFollow, Distinct
  <2>4. paging \in PagingType /\ paging.asked \subseteq 1..outputs
    BY <2>2 DEF PagingType, Flags
  <2>5. /\ ~paging.over /\ paging.pages = 0 /\ paging.collected = <<>>
        /\ paging.pages * PageSize = 0
    BY <2>2, PageEnds
  <2>6. PagesFollow
    BY <2>1, <2>5 DEF PagesFollow, Distinct
  <2>. QED  BY <2>3, <2>4, <2>6 DEF OutputInv
<1>2. OutputInv /\ [OutputNext]_outputVars => OutputInv'
  <2>. SUFFICES ASSUME OutputInv, [OutputNext]_outputVars PROVE OutputInv'
    OBVIOUS
  <2>2. CASE UNCHANGED outputVars
    BY <2>2 DEF outputVars, OutputInv, RowsFollow, PagesFollow, Live
  <2>. QED  BY <2>2, CreatedFits, SpentFits, PagingFits, FetchedFits DEF OutputNext
<1>. QED  BY <1>1, <1>2, PTL DEF OutputSpec

-----------------------------------------------------------------------------
\* A list without a repetition is as long as the set of its elements is large.
LEMMA DistinctCounts ==
    ASSUME NEW s \in Seq(Nat), Distinct(s)
    PROVE  Len(s) = Cardinality(Elements(s))
<1>1. Len(s) \in Nat /\ DOMAIN s = 1..Len(s)
  OBVIOUS
<1>2. \A i \in 1..Len(s) : s[i] \in Elements(s)
  BY <1>1 DEF Elements
<1>3. \A x \in Elements(s) : \E i \in 1..Len(s) : s[i] = x
  BY <1>1 DEF Elements
<1>. DEFINE E == Elements(s)
<1>4. s \in [1..Len(s) -> E]
  BY <1>1, <1>2
<1>. HIDE DEF E
<1>5. s \in Bijection(1..Len(s), E)
  <2>1. s \in Injection(1..Len(s), E)
    <3>1. \A i, j \in 1..Len(s) : s[i] = s[j] => i = j
      BY <1>1 DEF Distinct
    <3>. QED  BY <1>1, <1>4, <3>1 DEF Injection, IsInjective
  <2>2. s \in Surjection(1..Len(s), E)
    BY <1>3, <1>4 DEF Surjection, E
  <2>. QED  BY <2>1, <2>2 DEF Bijection
<1>6. ExistsBijection(1..Len(s), E)
  BY <1>5 DEF ExistsBijection
<1>. QED  BY <1>1, <1>6, FS_CountingElements DEF E

\* The fields of an answer about an output.
LEMMA OutputFields ==
    ASSUME NEW o, NEW spent \in BOOLEAN
    PROVE  Output(o, spent).output = o /\ Output(o, spent).spent = spent
BY DEF Output

\* A list collected page by page has every output that was there all the time,
\* and has it once in a list that grows at its end (_paginate and utxo of the
\* contexts).
THEOREM LiveOutputsAreFoundAlways == OutputSpec => []LiveOutputsAreFound
<1>1. OutputInv => LiveOutputsAreFound
  <2>. SUFFICES ASSUME OutputInv PROVE LiveOutputsAreFound
    OBVIOUS
  <2>. DEFINE collected == Elements(paging.collected)
  <2>0. /\ outputs \in Nat /\ rows \in Seq(Nat) /\ Live \subseteq 1..outputs
        /\ paging \in PagingType /\ paging.collected \in Seq(Nat) /\ paging.asked \subseteq 1..outputs
    BY DEF OutputInv, RowsFollow, PagingType
  <2>1. ASSUME paging.over, ~paging.removed, ~paging.beyond
        PROVE  /\ paging.asked \cap Live \subseteq collected
               /\ ~newestFirst => Len(paging.collected) = Cardinality(collected)
               /\ \A o \in paging.asked \cap Live : \A x \in YaciOutput(o, collected) : ~x.spent
    <3>1. paging.asked \cap Live \subseteq collected
      BY <2>1 DEF OutputInv, PagesFollow
    <3>2. ~newestFirst => Distinct(paging.collected)
      BY <2>1 DEF OutputInv, PagesFollow
    <3>3. ~newestFirst => Len(paging.collected) = Cardinality(collected)
      BY <2>0, <3>2, DistinctCounts
    <3>4. ASSUME NEW o \in paging.asked \cap Live, NEW x \in YaciOutput(o, collected)
          PROVE  ~x.spent
      <4>1. o \in collected
        BY <3>1, <3>4
      <4>2. x = Output(o, FALSE)
        BY <3>4, <4>1, Zenon DEF YaciOutput
      <4>. QED  BY <4>2, OutputFields
    <3>. QED  BY <3>1, <3>3, <3>4
  <2>2. ASSUME NEW o \in 1..(MaxOutputs + 1)
        PROVE  /\ NodeOutput(o) \subseteq BlockfrostOutput(o)
               /\ \A x \in BlockfrostOutput(o) \cup KoiosOutput(o, FALSE) : x.spent = (o \notin Live)
               /\ \A x \in OfflineOutput(o, paging.asked) : x.output \in 1..outputs
    <3>1. ASSUME NEW x \in NodeOutput(o) PROVE x \in BlockfrostOutput(o)
      <4>1. o \in Live /\ x = Output(o, FALSE)
        BY DEF NodeOutput
      <4>2. o \in 1..outputs /\ (o \notin Live) = FALSE
        BY <2>0, <4>1
      <4>3. BlockfrostOutput(o) = {Output(o, FALSE)}
        BY <4>2, Zenon DEF BlockfrostOutput
      <4>. QED  BY <4>1, <4>3
    <3>2. ASSUME NEW x \in BlockfrostOutput(o) \cup KoiosOutput(o, FALSE)
          PROVE  x.spent = (o \notin Live)
      <4>1. x = Output(o, o \notin Live)
        BY <3>2, Zenon DEF BlockfrostOutput, KoiosOutput
      <4>2. (o \notin Live) \in BOOLEAN
        OBVIOUS
      <4>. QED  BY <4>1, <4>2, OutputFields, Zenon
    <3>3. ASSUME NEW x \in OfflineOutput(o, paging.asked) PROVE x.output \in 1..outputs
      <4>1. o \in paging.asked /\ x = Output(o, FALSE)
        BY DEF OfflineOutput
      <4>. QED  BY <2>0, <4>1, OutputFields
    <3>. QED  BY <3>1, <3>2, <3>3, Zenon
  <2>3. ASSUME Len(rows) <= PageSize PROVE Elements(Unpaged) = Live
    <3>1. /\ PageSize \in Nat /\ Len(rows) \in Nat /\ DOMAIN rows = 1..Len(rows)
      BY <2>0, PagesAssumption
    <3>2. PageFits(Unpaged, rows, 0, PageSize)
      <4>1. 0 * PageSize = 0 /\ (0 + 1) * PageSize = PageSize
        BY <3>1
      <4>. QED  BY <2>0, <4>1, PageIs DEF Unpaged
    <3>. HIDE DEF Unpaged
    <3>3. /\ Len(Unpaged) \in Nat
          /\ Len(Unpaged) < PageSize => 0 + Len(Unpaged) = Len(rows)
          /\ ~(Len(Unpaged) < PageSize) => Len(rows) >= PageSize /\ 0 + Len(Unpaged) = PageSize
          /\ \A k \in 1..Len(Unpaged) : Unpaged[k] = rows[0 + k]
          /\ DOMAIN Unpaged = 1..Len(Unpaged)
      BY <3>1, <3>2 DEF PageFits
    <3>4. Len(Unpaged) = Len(rows)
      <4>1. CASE Len(Unpaged) < PageSize
        BY <3>3, <4>1
      <4>2. CASE ~(Len(Unpaged) < PageSize)
        <5>1. Len(rows) >= PageSize /\ 0 + Len(Unpaged) = PageSize
          BY <3>3, <4>2
        <5>2. Len(rows) \in Nat /\ Len(Unpaged) \in Nat /\ PageSize \in Nat
          BY <3>1, <3>3
        <5>. QED  BY <2>3, <5>1, <5>2
      <4>. QED  BY <4>1, <4>2
    <3>5. \A k \in 1..Len(Unpaged) : Unpaged[k] = rows[k]
      BY <3>3
    <3>. QED  BY <3>1, <3>3, <3>4, <3>5 DEF Elements, Live
  <2>. QED  BY <2>1, <2>2, <2>3, Zenon DEF LiveOutputsAreFound
<1>. QED  BY <1>1, OutputInvAlways, PTL

-----------------------------------------------------------------------------
(***************************************************************************)
(* The clock of an offline host.                                           *)
(***************************************************************************)
\* Multiples of a natural number: the arithmetic the clock needs.
LEMMA Multiples ==
    ASSUME NEW a \in Nat, NEW b \in Nat, NEW c \in Nat
    PROVE  /\ a * c \in Nat /\ (a + 1) * c = a * c + c /\ 0 * c = 0
           /\ a <= b => a * c <= b * c
<1>1. /\ a * c \in Nat /\ (a + 1) * c = a * c + c /\ 0 * c = 0
  OBVIOUS
<1>2. ASSUME a <= b PROVE a * c <= b * c
  <2>. DEFINE d == b - a
  <2>1. d \in Nat /\ b = a + d
    BY <1>2
  <2>. HIDE DEF d
  <2>2. (a + d) * c = a * c + d * c
    BY <2>1
  <2>3. d * c \in Nat
    BY <2>1
  <2>. QED  BY <1>1, <2>1, <2>2, <2>3
<1>. QED  BY <1>1, <1>2

\* A quotient is known by the multiples around the dividend.
LEMMA Divided ==
    ASSUME NEW a \in Nat, NEW b \in Nat, b > 0, NEW q \in Nat,
           q * b <= a, a < q * b + b
    PROVE  a \div b = q
<1>. DEFINE p == a \div b
            r == a % b
<1>1. p \in Nat /\ r \in Nat /\ r < b /\ a = p * b + r
  OBVIOUS
<1>. HIDE DEF p, r
<1>2. ~(p > q)
  <2>. SUFFICES ASSUME p > q PROVE FALSE
    OBVIOUS
  <2>1. (q + 1) * b <= p * b /\ (q + 1) * b = q * b + b
    BY <1>1, Multiples
  <2>2. q * b \in Nat /\ p * b \in Nat
    BY <1>1, Multiples
  <2>. QED  BY <1>1, <2>1, <2>2
<1>3. ~(p < q)
  <2>. SUFFICES ASSUME p < q PROVE FALSE
    OBVIOUS
  <2>1. (p + 1) * b <= q * b /\ (p + 1) * b = p * b + b
    BY <1>1, Multiples
  <2>2. q * b \in Nat /\ p * b \in Nat
    BY <1>1, Multiples
  <2>. QED  BY <1>1, <2>1, <2>2
<1>4. p = q
  BY <1>1, <1>2, <1>3
<1>. QED  BY <1>4 DEF p
\* The conditions of ClockIsRight.
Regular ==
    /\ zone = 0
    /\ Transition(genesis.network) = genesis.byronEpochs
    /\ genesis.slotLength = 1000 /\ genesis.slotDuration % 1000 = 0
    /\ genesis.byronEpochs > 0 => 10 * genesis.k * genesis.slotDuration = 1000 * genesis.epochLength

ByronSlots == genesis.byronEpochs * 10 * genesis.k

\* What the chain has counted is what the time amounts to.
ClockCounts ==
    /\ time \in Nat /\ slot \in Nat /\ epoch \in Nat /\ slotInEpoch \in Nat /\ msInSlot \in Nat
    /\ msInSlot % 500 = 0
    /\ Byron => /\ slot = epoch * (10 * genesis.k) + slotInEpoch
                /\ slotInEpoch < 10 * genesis.k
                /\ time = slot * genesis.slotDuration + msInSlot
                /\ msInSlot < genesis.slotDuration
    /\ ~Byron => /\ slot = ByronSlots + (epoch - genesis.byronEpochs) * genesis.epochLength
                             + slotInEpoch
                 /\ slotInEpoch < genesis.epochLength
                 /\ time = ByronMs + (slot - ByronSlots) * 1000 + msInSlot
                 /\ msInSlot < 1000

\* A cached slot is the chain's of this reading of the clock or of the last.
TipFollows ==
    tip # NoTip =>
       /\ tip.at \in Nat
       /\ \/ time = tip.at /\ tip.slot = slot
          \/ time = tip.at + Step /\ (tip.slot = slot \/ tip.slot = slot - 1)

ClockInv == genesis \in Geneses /\ (Regular => ClockCounts /\ TipFollows)

\* The length of the Byron era in slots, in ms and in Shelley slots.
LEMMA Eras ==
    ASSUME NEW B \in Nat, NEW k \in Nat, NEW D \in Nat, NEW E \in Nat, E > 0,
           B > 0 => 10 * k * D = 1000 * E
    PROVE  /\ B * 10 * k \in Nat /\ B * 10 * k = B * (10 * k)
           /\ B * 10 * k * D \in Nat /\ B * E \in Nat
           /\ B * 10 * k * D = (B * 10 * k) * D
           /\ B * 10 * k * D = 1000 * (B * E)
           /\ B > 0 => 10 * k > 0 /\ D > 0
<1>. DEFINE K == 10 * k
<1>0. K \in Nat /\ K = 10 * k /\ (B > 0 => K * D = 1000 * E) /\ B * 10 * k = B * K
  OBVIOUS
<1>. HIDE DEF K
<1>1. B * K \in Nat /\ (B * K) * D \in Nat /\ B * E \in Nat
  BY <1>0, Multiples
<1>2. (B * K) * D = 1000 * (B * E)
  <2>1. CASE B = 0
    BY <1>0, <2>1
  <2>2. CASE B > 0
    <3>1. (B * K) * D = B * (K * D) /\ B * (1000 * E) = 1000 * (B * E)
      BY <1>0
    <3>. QED  BY <1>0, <2>2, <3>1
  <2>. QED  BY <2>1, <2>2
<1>3. B > 0 => K > 0 /\ D > 0
  <2>1. K = 0 => K * D = 0
    BY <1>0
  <2>2. D = 0 => K * D = 0
    BY <1>0
  <2>. QED  BY <1>0, <2>1, <2>2
<1>. QED  BY <1>0, <1>1, <1>2, <1>3

\* The genesis parameters of a regular chain.
LEMMA GenesisFits ==
    ASSUME genesis \in Geneses, Regular
    PROVE  /\ genesis.byronEpochs \in Nat /\ genesis.k \in Nat /\ genesis.slotDuration \in Nat
           /\ genesis.epochLength \in Nat /\ genesis.epochLength > 0 /\ genesis.slotLength = 1000
           /\ 10 * genesis.k \in Nat
           /\ genesis.slotDuration % 1000 = 0
           /\ ByronSlots \in Nat /\ ByronSlots = genesis.byronEpochs * (10 * genesis.k)
           /\ ByronMs \in Nat /\ ByronMs = ByronSlots * genesis.slotDuration
           /\ genesis.byronEpochs * genesis.epochLength \in Nat
           /\ ByronMs = 1000 * (genesis.byronEpochs * genesis.epochLength)
           /\ genesis.byronEpochs > 0 =>
                 /\ 10 * genesis.k > 0 /\ genesis.slotDuration > 0
                 /\ (10 * genesis.k) * genesis.slotDuration = 1000 * genesis.epochLength
<1>1. /\ genesis.byronEpochs \in Nat /\ genesis.k \in Nat /\ genesis.slotDuration \in Nat
      /\ genesis.epochLength \in Nat /\ genesis.epochLength > 0 /\ genesis.slotLength = 1000
      /\ genesis.slotDuration % 1000 = 0
      /\ genesis.byronEpochs > 0 => 10 * genesis.k * genesis.slotDuration = 1000 * genesis.epochLength
  BY ClockAssumption DEF Regular
<1>2. 10 * genesis.k \in Nat
  BY <1>1
<1>. QED  BY <1>1, <1>2, Eras DEF ByronSlots, ByronMs

\* An instant of an era that counts by steps of D, in which msInSlot is a
\* multiple of the clock's step.
LEMMA ClockAdvancesFits ==
    ASSUME genesis \in Geneses, Regular, ClockCounts, ClockAdvances
    PROVE  ClockCounts' /\ (slot' = slot \/ slot' = slot + 1) /\ slot' >= slot /\ time' = time + 500
<1>. DEFINE B == genesis.byronEpochs
            K == 10 * genesis.k
            D == genesis.slotDuration
            E == genesis.epochLength
            S == ByronSlots
            T == ByronMs
<1>1. /\ B \in Nat /\ K \in Nat /\ D \in Nat /\ E \in Nat /\ E > 0
      /\ genesis.slotLength = 1000 /\ D % 1000 = 0
      /\ S \in Nat /\ S = B * K /\ T \in Nat /\ T = S * D
      /\ B > 0 => K > 0 /\ D > 0
  BY GenesisFits
<1>2. /\ time \in Nat /\ slot \in Nat /\ epoch \in Nat /\ slotInEpoch \in Nat /\ msInSlot \in Nat
      /\ msInSlot % 500 = 0
      /\ epoch < B => /\ slot = epoch * K + slotInEpoch /\ slotInEpoch < K
                      /\ time = slot * D + msInSlot /\ msInSlot < D
      /\ ~(epoch < B) => /\ slot = S + (epoch - B) * E + slotInEpoch /\ slotInEpoch < E
                         /\ time = T + (slot - S) * 1000 + msInSlot /\ msInSlot < 1000
  BY DEF ClockCounts, Byron
<1>. DEFINE ms == IF epoch < B THEN D ELSE 1000
            slots == IF epoch < B THEN K ELSE E
            slotEnds == msInSlot + 500 = ms
            epochEnds == slotEnds /\ slotInEpoch + 1 = slots
<1>3. /\ time' = time + 500
      /\ msInSlot' = IF slotEnds THEN 0 ELSE msInSlot + 500
      /\ slot' = IF slotEnds THEN slot + 1 ELSE slot
      /\ slotInEpoch' = IF epochEnds THEN 0 ELSE IF slotEnds THEN slotInEpoch + 1 ELSE slotInEpoch
      /\ epoch' = IF epochEnds THEN epoch + 1 ELSE epoch
      /\ genesis' = genesis
  <2>1. /\ SlotMs = ms /\ EpochSlots = slots
    BY <1>1 DEF SlotMs, EpochSlots, Byron
  <2>2. Step = 500
    BY DEF Step
  <2>. QED  BY <2>1, <2>2 DEF ClockAdvances
<1>4. /\ S' = S /\ T' = T /\ B' = B /\ K' = K /\ D' = D /\ E' = E
  BY <1>3 DEF ByronSlots, ByronMs
<1>5. msInSlot + 500 <= ms
  <2>1. CASE epoch < B
    BY <1>1, <1>2, <2>1
  <2>2. CASE ~(epoch < B)
    BY <1>2, <2>2
  <2>. QED  BY <2>1, <2>2
<1>6. slotInEpoch + 1 <= slots
  BY <1>1, <1>2
<1>. DEFINE ByronAt(t, s, e, x, m) == /\ s = e * K + x /\ x < K /\ t = s * D + m /\ m < D
            ShelleyAt(t, s, e, x, m) == /\ s = S + (e - B) * E + x /\ x < E
                                        /\ t = T + (s - S) * 1000 + m /\ m < 1000
<1>7. /\ time' \in Nat /\ slot' \in Nat /\ epoch' \in Nat /\ slotInEpoch' \in Nat
      /\ msInSlot' \in Nat /\ msInSlot' % 500 = 0
  BY <1>2, <1>3
<1>8. /\ epoch' < B => ByronAt(time', slot', epoch', slotInEpoch', msInSlot')
      /\ ~(epoch' < B) => ShelleyAt(time', slot', epoch', slotInEpoch', msInSlot')
  <2>. HIDE DEF B, K, D, E, S, T
  <2>0. (slot + 1) * D = slot * D + D /\ (epoch + 1) * K = epoch * K + K
        /\ slot * D \in Nat /\ epoch * K \in Nat
    BY <1>1, <1>2, Multiples
  <2>1. CASE ~slotEnds
    <3>1. /\ time' = time + 500 /\ slot' = slot /\ epoch' = epoch
          /\ slotInEpoch' = slotInEpoch /\ msInSlot' = msInSlot + 500 /\ msInSlot + 500 < ms
      BY <1>1, <1>2, <1>3, <1>5, <2>1
    <3>2. CASE epoch < B
      BY <1>1, <1>2, <2>0, <3>1, <3>2
    <3>3. CASE ~(epoch < B)
      <4>1. (epoch - B) * E \in Nat /\ epoch - B \in Nat
        BY <1>1, <1>2, <3>3, Multiples
      <4>. QED  BY <1>1, <1>2, <3>1, <3>3, <4>1
    <3>. QED  BY <3>2, <3>3
  <2>2. CASE slotEnds /\ ~epochEnds
    <3>1. /\ time' = time + 500 /\ slot' = slot + 1 /\ epoch' = epoch
          /\ slotInEpoch' = slotInEpoch + 1 /\ msInSlot' = 0
          /\ slotInEpoch + 1 < slots /\ msInSlot + 500 = ms
      BY <1>1, <1>2, <1>3, <1>6, <2>2
    <3>2. CASE epoch < B
      BY <1>1, <1>2, <2>0, <3>1, <3>2
    <3>3. CASE ~(epoch < B)
      <4>1. (epoch - B) * E \in Nat /\ epoch - B \in Nat
        BY <1>1, <1>2, <3>3, Multiples
      <4>. QED  BY <1>1, <1>2, <3>1, <3>3, <4>1
    <3>. QED  BY <3>2, <3>3
  <2>3. CASE epochEnds
    <3>1. /\ time' = time + 500 /\ slot' = slot + 1 /\ epoch' = epoch + 1
          /\ slotInEpoch' = 0 /\ msInSlot' = 0
          /\ slotInEpoch + 1 = slots /\ msInSlot + 500 = ms
      BY <1>1, <1>2, <1>3, <2>3
    <3>2. CASE epoch + 1 < B
      BY <1>1, <1>2, <2>0, <3>1, <3>2
    <3>3. CASE epoch + 1 = B
      <4>1. slot + 1 = S /\ time + 500 = T
        BY <1>1, <1>2, <2>0, <3>1, <3>3
      <4>2. (epoch + 1 - B) * E = 0 /\ (slot + 1 - S) = 0
        BY <1>1, <1>2, <3>3, <4>1
      <4>. QED  BY <1>1, <1>2, <3>1, <3>3, <4>1, <4>2
    <3>4. CASE epoch >= B
      <4>1. (epoch - B) * E \in Nat /\ epoch - B \in Nat
            /\ ((epoch - B) + 1) * E = (epoch - B) * E + E
            /\ (epoch - B) + 1 = epoch + 1 - B
        BY <1>1, <1>2, <3>4, Multiples
      <4>. QED  BY <1>1, <1>2, <3>1, <3>4, <4>1
    <3>. QED  BY <1>1, <1>2, <3>2, <3>3, <3>4
  <2>. QED  BY <2>1, <2>2, <2>3
<1>9. ClockCounts'
  <2>1. Byron' <=> epoch' < B
    BY <1>4 DEF Byron
  <2>2. ByronSlots' = S /\ ByronMs' = T /\ genesis' = genesis
    BY <1>3, <1>4
  <2>3. Byron' => /\ slot' = epoch' * (10 * genesis'.k) + slotInEpoch'
                  /\ slotInEpoch' < 10 * genesis'.k
                  /\ time' = slot' * genesis'.slotDuration + msInSlot'
                  /\ msInSlot' < genesis'.slotDuration
    BY <1>8, <2>1, <2>2
  <2>4. ~Byron' => /\ slot' = ByronSlots' + (epoch' - genesis'.byronEpochs) * genesis'.epochLength
                               + slotInEpoch'
                   /\ slotInEpoch' < genesis'.epochLength
                   /\ time' = ByronMs' + (slot' - ByronSlots') * 1000 + msInSlot'
                   /\ msInSlot' < 1000
    BY <1>8, <2>1, <2>2
  <2>5. msInSlot' % 500 = 0 /\ time' \in Nat /\ slot' \in Nat /\ epoch' \in Nat
        /\ slotInEpoch' \in Nat /\ msInSlot' \in Nat
    BY <1>7
  <2>. QED  BY ONLY <2>3, <2>4, <2>5, Zenon DEF ClockCounts
<1>. QED  BY <1>2, <1>3, <1>9
\* What the context works out of the time of the chain.
LEMMA ClockReads ==
    ASSUME genesis \in Geneses, Regular, ClockCounts
    PROVE  /\ ChainTip.epoch = epoch
           /\ OfflineSlot(1000 * Second) = {slot}
<1>. DEFINE B == genesis.byronEpochs
            K == 10 * genesis.k
            D == genesis.slotDuration
            E == genesis.epochLength
            S == ByronSlots
            T == ByronMs
            BE == B * E
            second == time \div 1000
            ms == 1000 * second
<1>1. /\ B \in Nat /\ K \in Nat /\ D \in Nat /\ E \in Nat /\ E > 0
      /\ genesis.slotLength = 1000 /\ D % 1000 = 0
      /\ S \in Nat /\ S = B * K /\ T \in Nat /\ T = S * D /\ BE \in Nat /\ T = 1000 * BE
      /\ B > 0 => K > 0 /\ D > 0 /\ K * D = 1000 * E
  BY GenesisFits
<1>2. /\ time \in Nat /\ slot \in Nat /\ epoch \in Nat /\ slotInEpoch \in Nat /\ msInSlot \in Nat
      /\ epoch < B => /\ slot = epoch * K + slotInEpoch /\ slotInEpoch < K
                      /\ time = slot * D + msInSlot /\ msInSlot < D
      /\ ~(epoch < B) => /\ slot = S + (epoch - B) * E + slotInEpoch /\ slotInEpoch < E
                         /\ time = T + (slot - S) * 1000 + msInSlot /\ msInSlot < 1000
  BY DEF ClockCounts, Byron
<1>3. /\ second \in Nat /\ ms \in Nat /\ ms <= time /\ time < ms + 1000
  BY <1>2
<1>4. /\ Transition(genesis.network) = B /\ zone = 0
      /\ S = Transition(genesis.network) * 10 * genesis.k
  BY DEF Regular, ByronSlots
<1>5. ChainTip.epoch = second \div E
  <2>1. ChainTip.epoch = (second + zone) \div E
    BY DEF ChainTip, OfflineEpoch, Second
  <2>2. second + zone = second
    BY <1>3, <1>4
  <2>. QED  BY <2>1, <2>2
<1>6. OfflineSlot(ms) = IF ms < T THEN {ms \div D} ELSE {S + (ms - T) \div 1000}
  <2>1. genesis.slotLength \div 1000 = 1 /\ 1000 * 1 = 1000 /\ 1 # 0
    BY <1>1
  <2>. DEFINE N == Transition(genesis.network) * 10 * genesis.k
              L == genesis.slotLength \div 1000
  <2>2. OfflineSlot(ms) = CASE ms < N * D -> {ms \div D}
                            [] ms >= N * D /\ L = 0 -> {}
                            [] OTHER -> {N + (ms - N * D) \div (1000 * L)}
    BY Zenon DEF OfflineSlot
  <2>3. N = S /\ N * D = T /\ L = 1
    BY <1>1, <1>4, <2>1
  <2>. HIDE DEF N, L, ms
  <2>4. OfflineSlot(ms) = CASE ms < T -> {ms \div D}
                            [] ms >= T /\ L = 0 -> {}
                            [] OTHER -> {S + (ms - T) \div 1000}
    BY <2>1, <2>2, <2>3
  <2>. HIDE DEF S, T, D
  <2>5. CASE ms < T
    BY <2>3, <2>4, <2>5
  <2>6. CASE ~(ms < T)
    BY <2>3, <2>4, <2>6
  <2>. QED  BY <2>5, <2>6
<1>. HIDE DEF B, K, D, E, S, T, BE, second
<1>7. CASE epoch < B
  <2>1. /\ slot * D \in Nat /\ (slot + 1) * D = slot * D + D
        /\ epoch * K \in Nat /\ (epoch + 1) * K = epoch * K + K
        /\ epoch * E \in Nat /\ (epoch + 1) * E = epoch * E + E
    BY <1>1, <1>2, Multiples
  \* The epoch is that of the slot.
  <2>2. (epoch * K) * D <= slot * D /\ (slot + 1) * D <= ((epoch + 1) * K) * D
    <3>1. /\ epoch * K <= slot /\ slot + 1 <= (epoch + 1) * K
          /\ (epoch + 1) * K \in Nat /\ slot + 1 \in Nat
      BY <1>1, <1>2, <1>7, <2>1
    <3>. HIDE DEF ms
    <3>. QED  BY <1>1, <1>2, <2>1, <3>1, Multiples
  <2>3. (epoch * K) * D = 1000 * (epoch * E) /\ ((epoch + 1) * K) * D = 1000 * (epoch * E + E)
    <3>1. (epoch * K) * D = epoch * (K * D) /\ ((epoch + 1) * K) * D = (epoch + 1) * (K * D)
      BY <1>1, <1>2
    <3>2. K * D = 1000 * E
      BY <1>1, <1>2, <1>7
    <3>3. epoch * (1000 * E) = 1000 * (epoch * E)
          /\ (epoch + 1) * (1000 * E) = 1000 * (epoch * E + E)
      BY <1>1, <1>2
    <3>. QED  BY <3>1, <3>2, <3>3
  <2>4. 1000 * (epoch * E) <= slot * D /\ slot * D + D <= 1000 * (epoch * E + E)
    BY <2>1, <2>2, <2>3
  <2>5. epoch * E <= second /\ second < epoch * E + E
    BY <1>1, <1>2, <1>3, <1>7, <2>1, <2>4
  <2>6. second \div E = epoch
    BY <1>1, <1>2, <1>3, <2>1, <2>5, Divided
  \* The second is within the slot, and the slot within the era.
  <2>7. slot * D <= ms /\ ms < slot * D + D
    <3>1. PICK d \in Nat : D = 1000 * d
      <4>1. D = 1000 * (D \div 1000) /\ D \div 1000 \in Nat
        BY <1>1
      <4>. QED  BY <4>1
    <3>2. slot * D = 1000 * (slot * d) /\ slot * d \in Nat
      BY <1>2, <3>1, Multiples
    <3>. QED  BY <1>1, <1>2, <1>3, <1>7, <2>1, <3>2
  <2>8. ms < T
    <3>1. (epoch + 1) * E <= B * E
      BY <1>1, <1>2, <1>7, Multiples
    <3>2. epoch * E + E <= BE
      BY <2>1, <3>1 DEF BE
    <3>. QED  BY <1>1, <1>3, <2>1, <2>5, <3>2
  <2>9. ms \div D = slot
    <3>. HIDE DEF ms
    <3>. QED  BY <1>1, <1>2, <1>3, <1>7, <2>7, Divided
  <2>. QED  BY <1>5, <1>6, <2>6, <2>8, <2>9 DEF second, Second
<1>8. CASE ~(epoch < B)
  <2>. DEFINE e == epoch - B
  <2>1. e \in Nat /\ epoch = B + e /\ e * E \in Nat /\ slot - S = e * E + slotInEpoch
        /\ slot - S \in Nat
    <3>1. e \in Nat /\ epoch = B + e
      BY <1>1, <1>2, <1>8
    <3>2. e * E \in Nat
      BY <1>1, <3>1, Multiples
    <3>. HIDE DEF e
    <3>3. slot = S + e * E + slotInEpoch
      BY <1>2, <1>8 DEF e
    <3>. QED  BY <1>1, <1>2, <3>1, <3>2, <3>3
  <2>2. epoch * E = BE + e * E
    BY <1>1, <2>1 DEF BE
  <2>. HIDE DEF e
  <2>3. second = BE + (slot - S) /\ ms = T + (slot - S) * 1000
    BY <1>1, <1>2, <1>3, <1>8, <2>1
  <2>4. second \div E = epoch
    BY <1>1, <1>2, <1>3, <1>8, <2>1, <2>2, <2>3, Divided
  <2>5. ~(ms < T) /\ (ms - T) \div 1000 = slot - S
    BY <1>1, <2>1, <2>3
  <2>6. S + (slot - S) = slot
    BY <1>1, <1>2
  <2>. QED  BY <1>5, <1>6, <2>4, <2>5, <2>6 DEF second, Second
<1>. QED  BY <1>7, <1>8

\* What the chain has counted is what the time amounts to, and a cached slot
\* follows it.
THEOREM ClockInvAlways == ClockSpec => []ClockInv
<1>1. ClockInit => ClockInv
  <2>. SUFFICES ASSUME ClockInit PROVE ClockInv
    OBVIOUS
  <2>1. /\ genesis \in Geneses /\ tip = NoTip /\ time = 0 /\ slot = 0 /\ epoch = 0
        /\ slotInEpoch = 0 /\ msInSlot = 0
    BY DEF ClockInit
  <2>2. ASSUME Regular PROVE ClockCounts
    <3>1. /\ genesis.byronEpochs \in Nat /\ genesis.k \in Nat /\ genesis.slotDuration \in Nat
          /\ genesis.epochLength \in Nat /\ genesis.epochLength > 0
          /\ 10 * genesis.k \in Nat
          /\ genesis.byronEpochs > 0 => 10 * genesis.k > 0 /\ genesis.slotDuration > 0
      BY <2>1, <2>2, GenesisFits
    <3>2. CASE genesis.byronEpochs > 0
      <4>1. 0 * (10 * genesis.k) = 0 /\ 0 * genesis.slotDuration = 0
        BY <3>1, Multiples
      <4>. QED  BY <2>1, <3>1, <3>2, <4>1 DEF ClockCounts, Byron
    <3>3. CASE genesis.byronEpochs = 0
      <4>1. ByronSlots = 0 /\ ByronMs = 0
        BY <3>1, <3>3 DEF ByronSlots, ByronMs
      <4>2. (epoch - genesis.byronEpochs) * genesis.epochLength = 0
        BY <2>1, <3>1, <3>3
      <4>. QED  BY <2>1, <3>1, <3>3, <4>1, <4>2 DEF ClockCounts, Byron
    <3>. QED  BY <3>1, <3>2, <3>3
  <2>. QED  BY <2>1, <2>2 DEF ClockInv, TipFollows
<1>2. ClockInv /\ [ClockNext]_clockVars => ClockInv'
  <2>. SUFFICES ASSUME ClockInv, [ClockNext]_clockVars PROVE ClockInv'
    OBVIOUS
  <2>0. genesis \in Geneses
    BY DEF ClockInv
  <2>1. CASE ClockAdvances
    <3>1. genesis' = genesis /\ (Regular' <=> Regular)
      BY <2>1 DEF ClockAdvances, Regular
    <3>2. ASSUME Regular PROVE ClockCounts' /\ TipFollows'
      <4>1. ClockCounts /\ TipFollows
        BY <3>2 DEF ClockInv
      <4>2. /\ ClockCounts' /\ (slot' = slot \/ slot' = slot + 1) /\ time' = time + 500
            /\ time \in Nat /\ slot \in Nat
        BY <2>0, <2>1, <3>2, <4>1, ClockAdvancesFits DEF ClockCounts
      <4>3. tip' = IF tip # NoTip /\ time' >= tip.at + 1000 THEN NoTip ELSE tip
        BY <2>1 DEF ClockAdvances
      <4>4. TipFollows'
        <5>. SUFFICES ASSUME tip' # NoTip
                      PROVE  /\ tip'.at \in Nat
                             /\ \/ time' = tip'.at /\ tip'.slot = slot'
                                \/ time' = tip'.at + 500 /\ (tip'.slot = slot' \/ tip'.slot = slot' - 1)
          BY DEF TipFollows, Step, NoTip
        <5>1. tip' = tip /\ tip # NoTip /\ ~(time' >= tip.at + 1000)
          BY <4>3
        <5>2. /\ tip.at \in Nat
              /\ \/ time = tip.at /\ tip.slot = slot
                 \/ time = tip.at + 500 /\ (tip.slot = slot \/ tip.slot = slot - 1)
          BY <4>1, <5>1 DEF TipFollows, Step
        <5>. QED  BY <4>2, <5>1, <5>2
      <4>. QED  BY <4>2, <4>4
    <3>. QED  BY <2>0, <3>1, <3>2 DEF ClockInv
  <2>2. CASE SlotRead
    <3>1. PICK s \in OfflineSlot(1000 * Second) : tip' = [slot |-> s, at |-> time]
      BY <2>2 DEF SlotRead
    <3>2. UNCHANGED <<genesis, zone, time, slot, epoch, slotInEpoch, msInSlot>>
      BY <2>2 DEF SlotRead
    <3>3. (Regular' <=> Regular) /\ (ClockCounts' <=> ClockCounts)
      BY <3>2 DEF Regular, ClockCounts, Byron, ByronSlots, ByronMs
    <3>4. ASSUME Regular PROVE TipFollows'
      <4>1. ClockCounts
        BY <3>4 DEF ClockInv
      <4>2. s = slot
        BY <2>0, <3>1, <3>4, <4>1, ClockReads
      <4>. QED  BY <3>1, <3>2, <4>1, <4>2 DEF TipFollows, ClockCounts
    <3>. QED  BY <2>0, <3>2, <3>3, <3>4 DEF ClockInv
  <2>3. CASE UNCHANGED clockVars
    BY <2>3 DEF clockVars, ClockInv, Regular, ClockCounts, TipFollows, Byron, ByronSlots, ByronMs,
                NoTip
  <2>. QED  BY <2>1, <2>2, <2>3 DEF ClockNext
<1>. QED  BY <1>1, <1>2, PTL DEF ClockSpec

\* The epoch and the slot an offline host computes are the chain's
\* (OfflineTransferFileContext's epoch and last_block_slot).
THEOREM ClockIsRightAlways == ClockSpec => []ClockIsRight
<1>1. ClockInv => ClockIsRight
  <2>. SUFFICES ASSUME ClockInv, Regular
                PROVE  /\ ChainTip.epoch = epoch
                       /\ OfflineSlot(1000 * Second) = {slot}
                       /\ tip # NoTip => tip.slot \in {slot - 1, slot}
    BY Zenon DEF ClockIsRight, Regular
  <2>1. genesis \in Geneses /\ ClockCounts /\ TipFollows
    BY DEF ClockInv
  <2>. QED  BY <2>1, ClockReads DEF TipFollows
<1>. QED  BY <1>1, ClockInvAlways, PTL

=============================================================================

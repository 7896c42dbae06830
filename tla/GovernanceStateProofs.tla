----------------------- MODULE GovernanceStateProofs -----------------------
(***************************************************************************)
(* Proofs about the replayed governance state, for any number of           *)
(* identities, groups, devices and entries.                                *)
(***************************************************************************)
EXTENDS GovernanceState, FiniteSetTheorems, TLAPS

----------------------------------------------------------------------------
\* What the entries do to the groups

\* Every entry and ballot is one of the actions.
LEMMA NextCases ==
    ASSUME Next
    PROVE  \/ \E author \in Identity, g \in GroupId, caps \in Grants :
                 DefineGroup(author, g, caps)
           \/ \E author \in Identity, new \in Policies :
                 PolicyChange(author, new) \/ ContentTypePolicy(author, new.allowlist)
           \/ \E author \in Identity, g \in GroupId, i \in Identity, time \in Time,
                 invite \in Invite \cup {Nil} : AddMember(author, g, i, invite, time)
           \/ \E author \in Identity, g \in GroupId, i \in Identity, time \in Time,
                 cascade \in Cascades : RemoveMember(author, g, i, cascade, time)
           \/ \E author \in Identity, subject \in Subjects, g \in GroupId, close \in Time,
                 quorum \in Quorums : ProposeVote(author, subject, g, close, quorum)
           \/ \E author \in Identity, proposal \in openVotes :
                 \E cert \in SUBSET {b \in ballots : b.vote = proposal} :
                    SettleVote(author, proposal, cert)
           \/ \E author \in Identity, proposal \in openVotes, approve \in BOOLEAN,
                 time \in Time : CastBallot(author, proposal, approve, time)
           \/ \E author \in Identity, d \in Device :
                 EnrollDevice(author, d) \/ RevokeDevice(author, d)
           \/ \E author \in Identity, n \in AppName : RegisterName(author, n)
           \/ \E author \in Identity, p \in Pointer, action \in {"Delist", "Relist"} :
                 Moderate(author, p, action)
           \/ \E author \in Identity,
                 reason \in {"MemberAdmitted", "MemberRevoked", "SelfInitiated"} :
                 RotateEpoch(author, reason)
BY DEF Next, GroupEntry, MembershipEntry, VoteEntry, Ballot, RecordEntry

----------------------------------------------------------------------------
\* Types

\* genesis gives a well-formed state.
LEMMA InitType == Init => TypeOK
<1> SUFFICES ASSUME Init PROVE TypeOK
  OBVIOUS
<1>1. groups \in [GroupId -> Group \cup {Nil}]
  <2>1. NoMembers \in [Identity -> MembershipRecord \cup {Nil}]
    BY DEF NoMembers
  <2>2. [NoMembers EXCEPT ![Founder] = [by |-> Nil, at |-> 0, invite |-> Nil]]
           \in [Identity -> MembershipRecord \cup {Nil}]
    BY <2>1, TimeAssumption, FounderAssumption DEF MembershipRecord
  <2>3. PICK caps \in Grants :
          groups = [g \in GroupId |->
              CASE g = "founders" -> [capabilities |-> All, members |->
                        [NoMembers EXCEPT ![Founder] = [by |-> Nil, at |-> 0, invite |-> Nil]]]
                [] g = "everyone" -> NewGroup(caps)
                [] OTHER -> Nil]
    BY DEF Init
  <2>4. NewGroup(caps) \in Group
    BY <2>1 DEF NewGroup, Group
  <2>5. [capabilities |-> All, members |->
           [NoMembers EXCEPT ![Founder] = [by |-> Nil, at |-> 0, invite |-> Nil]]] \in Group
    BY <2>2 DEF Group
  <2> QED BY <2>3, <2>4, <2>5
<1> QED BY <1>1, BoundAssumption DEF Init, TypeOK

\* A change of one group's members or capabilities leaves the groups well formed.
LEMMA GroupsType ==
    ASSUME TypeOK, Next
    PROVE  groups' \in [GroupId -> Group \cup {Nil}]
<1>1. ASSUME NEW author \in Identity, NEW g \in GroupId, NEW caps \in Grants,
             DefineGroup(author, g, caps)
      PROVE  groups' \in [GroupId -> Group \cup {Nil}]
  <2>1. NewGroup(caps) \in Group
    BY DEF NewGroup, Group, NoMembers
  <2>2. groups[g] # Nil => [groups[g] EXCEPT !.capabilities = caps] \in Group
    BY DEF TypeOK, Group
  <2> QED BY <1>1, <2>1, <2>2 DEF DefineGroup, TypeOK
<1>2. ASSUME NEW author \in Identity, NEW g \in GroupId, NEW i \in Identity,
             NEW time \in Time, NEW invite \in Invite \cup {Nil},
             AddMember(author, g, i, invite, time)
      PROVE  groups' \in [GroupId -> Group \cup {Nil}]
  <2>1. [by |-> author, at |-> time, invite |-> invite] \in MembershipRecord
    BY DEF MembershipRecord
  <2>2. groups[g] \in Group
    BY <1>2 DEF AddMember, TypeOK
  <2> QED BY <1>2, <2>1, <2>2 DEF AddMember, TypeOK, Group
<1>3. ASSUME NEW author \in Identity, NEW g \in GroupId, NEW i \in Identity,
             NEW time \in Time, NEW cascade \in Cascades,
             RemoveMember(author, g, i, cascade, time)
      PROVE  groups' \in [GroupId -> Group \cup {Nil}]
  <2>1. groups[g] \in Group
    BY <1>3 DEF RemoveMember, TypeOK
  <2>2. PICK gone : groups' = [groups EXCEPT ![g].members =
                        [m \in Identity |-> IF m \in gone THEN Nil ELSE @[m]]]
    BY <1>3 DEF RemoveMember
  <2> QED BY <2>1, <2>2 DEF TypeOK, Group
<1>4. CASE groups' = groups
  BY <1>4 DEF TypeOK
<1> QED
  BY NextCases, <1>1, <1>2, <1>3, <1>4
  DEF PolicyChange, ContentTypePolicy, ProposeVote, SettleVote, CastBallot, EnrollDevice,
      RevokeDevice, RegisterName, Moderate, RotateEpoch, authority

\* Every entry and ballot keeps the state well formed.
LEMMA NextType == TypeOK /\ [Next]_vars => TypeOK'
<1> SUFFICES ASSUME TypeOK, [Next]_vars PROVE TypeOK'
  OBVIOUS
<1>1. CASE UNCHANGED vars
  BY <1>1 DEF TypeOK, vars
<1>2. CASE Next
  <2>1. groups' \in [GroupId -> Group \cup {Nil}]
    BY <1>2, GroupsType
  <2> DEFINE Rest == /\ certificates' \in [Device -> Identity \cup {Nil}]
                     /\ revoked' \subseteq Device
                     /\ delisted' \subseteq Pointer
                     /\ appNames' \in [AppName -> Identity \cup {Nil}]
                     /\ epoch' \in 0..MaxEpochs
                     /\ rotationRef' = (IF epoch' = 0 THEN Nil ELSE epoch')
                     /\ openVotes' \subseteq Proposals
                     /\ passedVotes' \subseteq Admissions
                     /\ ballots' \subseteq Ballots
                     /\ length' \in Nat
  <2> SUFFICES Rest
    BY <2>1 DEF TypeOK
  <2>2. ASSUME UNCHANGED <<records, votes>>, length' = length + 1
        PROVE  Rest
    BY <2>2 DEF TypeOK, records, votes
  <2>3. ASSUME NEW author \in Identity, NEW g \in GroupId, NEW caps \in Grants,
               DefineGroup(author, g, caps)
        PROVE  Rest
    BY <2>2, <2>3 DEF DefineGroup, Applied
  <2>4. ASSUME NEW author \in Identity, NEW new \in Policies,
               PolicyChange(author, new) \/ ContentTypePolicy(author, new.allowlist)
        PROVE  Rest
    BY <2>2, <2>4 DEF PolicyChange, ContentTypePolicy, Applied
  <2>5. ASSUME NEW author \in Identity, NEW g \in GroupId, NEW i \in Identity,
               NEW time \in Time, NEW invite \in Invite \cup {Nil},
               AddMember(author, g, i, invite, time)
        PROVE  Rest
    BY <2>2, <2>5 DEF AddMember, Applied
  <2>6. ASSUME NEW author \in Identity, NEW g \in GroupId, NEW i \in Identity,
               NEW time \in Time, NEW cascade \in Cascades,
               RemoveMember(author, g, i, cascade, time)
        PROVE  Rest
    BY <2>2, <2>6 DEF RemoveMember, Applied
  <2>7. ASSUME NEW author \in Identity, NEW subject \in Subjects, NEW g \in GroupId,
               NEW close \in Time, NEW quorum \in Quorums,
               ProposeVote(author, subject, g, close, quorum)
        PROVE  Rest
    <3>1. Members(g) \in SUBSET Identity
      BY DEF Members
    <3>2. [subject |-> subject, electorate |-> g, roster |-> Members(g),
           close |-> close, quorum |-> quorum] \in Proposals
      BY <3>1, VoteAssumption DEF Proposals
    <3> QED BY <2>7, <3>2 DEF ProposeVote, Applied, TypeOK, records, authority
  <2>8. ASSUME NEW author \in Identity, NEW proposal \in openVotes,
               NEW cert \in SUBSET {b \in ballots : b.vote = proposal},
               SettleVote(author, proposal, cert)
        PROVE  Rest
    <3>1. proposal.subject \in Admissions
      BY DEF TypeOK, Proposals
    <3> QED BY <2>8, <3>1 DEF SettleVote, Applied, TypeOK, records, authority
  <2>9. ASSUME NEW author \in Identity, NEW proposal \in openVotes, NEW approve \in BOOLEAN,
               NEW time \in Time, CastBallot(author, proposal, approve, time)
        PROVE  Rest
    <3>1. [vote |-> proposal, voter |-> author, approve |-> approve, at |-> time] \in Ballots
      BY DEF TypeOK, Ballots
    <3> QED BY <2>9, <3>1 DEF CastBallot, TypeOK, records, authority
  <2>10. ASSUME NEW author \in Identity, NEW d \in Device,
                EnrollDevice(author, d) \/ RevokeDevice(author, d)
         PROVE  Rest
    BY <2>10 DEF EnrollDevice, RevokeDevice, Applied, TypeOK, votes, authority
  <2>11. ASSUME NEW author \in Identity, NEW n \in AppName, RegisterName(author, n)
         PROVE  Rest
    BY <2>11 DEF RegisterName, Applied, TypeOK, votes, authority
  <2>12. ASSUME NEW author \in Identity, NEW p \in Pointer, NEW action \in {"Delist", "Relist"},
                Moderate(author, p, action)
         PROVE  Rest
    BY <2>12 DEF Moderate, Applied, TypeOK, votes, authority
  <2>13. ASSUME NEW author \in Identity,
                NEW reason \in {"MemberAdmitted", "MemberRevoked", "SelfInitiated"},
                RotateEpoch(author, reason)
         PROVE  Rest
    BY <2>13, BoundAssumption DEF RotateEpoch, Applied, TypeOK, votes, authority
  <2> HIDE DEF Rest
  <2> QED BY <1>2, NextCases, <2>3, <2>4, <2>5, <2>6, <2>7, <2>8, <2>9, <2>10, <2>11, <2>12, <2>13
<1> QED BY <1>1, <1>2

\* The replayed state is well formed whatever is appended (state.rs, apply).
THEOREM StateTypeCorrect == Spec => []TypeOK
BY InitType, NextType, PTL DEF Spec

----------------------------------------------------------------------------
\* Devices

\* A revoked device holds no certificate.
RevokedUncertified == \A d \in revoked : certificates[d] = Nil

\* What a step does to the device records.
LEMMA DeviceStep ==
    ASSUME TypeOK, [Next]_vars
    PROVE  \/ UNCHANGED <<certificates, revoked>>
           \/ \E author \in Identity, d \in Device :
                 EnrollDevice(author, d) \/ RevokeDevice(author, d)
<1>1. CASE UNCHANGED vars
  BY <1>1 DEF vars
<1>2. CASE Next
  BY <1>2, NextCases
  DEF DefineGroup, PolicyChange, ContentTypePolicy, AddMember, RemoveMember, ProposeVote,
      SettleVote, CastBallot, RegisterName, Moderate, RotateEpoch, records
<1> QED BY <1>1, <1>2

\* Revocation is recorded for good and enrolment respects it.
LEMMA DevicesStep ==
    ASSUME TypeOK, RevokedUncertified, [Next]_vars
    PROVE  /\ RevokedUncertified'
           /\ \A d \in revoked : d \in revoked' /\ certificates'[d] = Nil
<1>1. CASE UNCHANGED <<certificates, revoked>>
  BY <1>1 DEF RevokedUncertified
<1>2. ASSUME NEW author \in Identity, NEW d \in Device, EnrollDevice(author, d)
      PROVE  /\ RevokedUncertified'
             /\ \A e \in revoked : e \in revoked' /\ certificates'[e] = Nil
  BY <1>2 DEF EnrollDevice, RevokedUncertified, TypeOK
<1>3. ASSUME NEW author \in Identity, NEW d \in Device, RevokeDevice(author, d)
      PROVE  /\ RevokedUncertified'
             /\ \A e \in revoked : e \in revoked' /\ certificates'[e] = Nil
  BY <1>3 DEF RevokeDevice, RevokedUncertified, TypeOK
<1> QED BY <1>1, <1>2, <1>3, DeviceStep

\* A device key that has been revoked never signs for anybody again, whatever
\* certificates are appended after it (state.rs, mutate of DeviceEnrollment and
\* DeviceRevocation).
THEOREM RevokedForever == Spec => RevocationIsFinal
<1>1. Init => RevokedUncertified
  BY DEF Init, RevokedUncertified
<1>2. TypeOK /\ RevokedUncertified /\ [Next]_vars
        => /\ RevokedUncertified'
           /\ \A d \in revoked : d \in revoked' /\ certificates'[d] = Nil
  BY DevicesStep
<1> QED BY <1>1, <1>2, StateTypeCorrect, PTL DEF Spec, RevocationIsFinal

----------------------------------------------------------------------------
\* Votes

\* The approvers of a proposal are finitely many, and signing more ballots
\* takes none of them away.
LEMMA ApproversGrow ==
    ASSUME TypeOK, ballots \subseteq ballots', NEW p \in Proposals
    PROVE  /\ IsFiniteSet(Approvers(p))
           /\ Cardinality(Approvers(p)) \in Nat
           /\ Cardinality(Approvers(p)') \in Nat
           /\ Cardinality(Approvers(p)) <= Cardinality(Approvers(p)')
<1>1. IsFiniteSet(p.roster)
  BY FiniteAssumption, FS_Subset DEF Proposals
<1>2. Approvers(p)' \in SUBSET p.roster /\ Approvers(p) \in SUBSET Approvers(p)'
  BY DEF Approvers
<1>3. IsFiniteSet(Approvers(p)')
  BY <1>1, <1>2, FS_Subset
<1> QED BY <1>2, <1>3, FS_Subset, FS_CardinalityType

\* A certificate that verifies has as many approvers behind it as the quorum
\* asks for: no voter is counted twice.
LEMMA VerifyMeansQuorum ==
    ASSUME TypeOK, NEW p \in Proposals,
           NEW cert \in SUBSET {b \in ballots : b.vote = p}, Verify(p, cert)
    PROVE  /\ \E b \in ballots : b.vote = p
           /\ Cardinality(Approvers(p)) >= p.quorum
<1> DEFINE B == {b \in cert : b.approve}
           voter == [b \in B |-> b.voter]
<1>1. \E b \in ballots : b.vote = p
  BY DEF Verify
<1>2. IsFiniteSet(Approvers(p))
  BY ApproversGrow, FiniteAssumption, FS_Subset DEF Approvers, Proposals
<1>3. voter \in Injection(B, Approvers(p))
  <2>1. voter \in [B -> Approvers(p)]
    BY DEF Verify, Approvers
  <2>2. \A b, c \in B : voter[b] = voter[c] => b = c
    BY DEF Verify
  <2> QED BY <2>1, <2>2 DEF Injection, IsInjective
<1>4. Cardinality(B) <= Cardinality(Approvers(p)) /\ IsFiniteSet(B)
  BY <1>2, <1>3, FS_Injection
<1>5. Cardinality(B) >= p.quorum
  BY DEF Verify
<1>6. Cardinality(B) \in Nat /\ Cardinality(Approvers(p)) \in Nat /\ p.quorum \in Nat
  BY <1>2, <1>4, FS_CardinalityType, VoteAssumption DEF Proposals
<1> QED BY <1>1, <1>4, <1>5, <1>6

\* What a step does to the votes.
LEMMA VoteStepCases ==
    ASSUME [Next]_vars
    PROVE  \/ /\ UNCHANGED passedVotes
              /\ ballots \subseteq ballots'
           \/ \E author \in Identity, proposal \in openVotes :
                 \E cert \in SUBSET {b \in ballots : b.vote = proposal} :
                    SettleVote(author, proposal, cert)
<1>1. CASE UNCHANGED vars
  BY <1>1 DEF vars
<1>2. CASE Next
  BY <1>2, NextCases
  DEF DefineGroup, PolicyChange, ContentTypePolicy, AddMember, RemoveMember, ProposeVote,
      CastBallot, EnrollDevice, RevokeDevice, RegisterName, Moderate, RotateEpoch, votes
<1> QED BY <1>1, <1>2

\* A vote that passed stays backed, and one that passes is.
LEMMA QuorumStep ==
    ASSUME TypeOK, PassedHasQuorum, [Next]_vars
    PROVE  PassedHasQuorum'
<1>1. ASSUME NEW s \in passedVotes, ballots \subseteq ballots'
      PROVE  \E b \in ballots' : /\ b.vote.subject = s
                                 /\ Cardinality(Approvers(b.vote)') >= b.vote.quorum
  <2>1. PICK b \in ballots : /\ b.vote.subject = s
                             /\ Cardinality(Approvers(b.vote)) >= b.vote.quorum
    BY DEF PassedHasQuorum
  <2>2. b.vote \in Proposals /\ b.vote.quorum \in Nat
    BY VoteAssumption DEF TypeOK, Ballots, Proposals
  <2>3. Cardinality(Approvers(b.vote)') >= b.vote.quorum
    BY <1>1, <2>1, <2>2, ApproversGrow
  <2> QED BY <1>1, <2>1, <2>3
<1>2. CASE UNCHANGED passedVotes /\ ballots \subseteq ballots'
  BY <1>1, <1>2 DEF PassedHasQuorum
<1>3. ASSUME NEW author \in Identity, NEW proposal \in openVotes,
             NEW cert \in SUBSET {b \in ballots : b.vote = proposal},
             SettleVote(author, proposal, cert)
      PROVE  PassedHasQuorum'
  <2>1. UNCHANGED ballots /\ passedVotes' = passedVotes \cup {proposal.subject}
    BY <1>3 DEF SettleVote
  <2>2. proposal \in Proposals
    BY DEF TypeOK
  <2>3. PICK b \in ballots : b.vote = proposal /\ Cardinality(Approvers(proposal)) >= proposal.quorum
    BY <1>3, <2>2, VerifyMeansQuorum DEF SettleVote
  <2>4. Approvers(proposal)' = Approvers(proposal)
    BY <2>1 DEF Approvers
  <2> QED BY <1>1, <2>1, <2>3, <2>4 DEF PassedHasQuorum
<1> QED BY <1>2, <1>3, VoteStepCases

\* Whatever is proposed, cast and appended, in any order: a vote counts as
\* passed only with a quorum of distinct approvers of its frozen roster
\* (vote.rs, verify; state.rs, mutate of VoteOutcome).
THEOREM PassedVotesAreBacked == Spec => []PassedHasQuorum
<1>1. Init => PassedHasQuorum
  BY DEF Init, PassedHasQuorum
<1>2. TypeOK /\ PassedHasQuorum /\ [Next]_vars => PassedHasQuorum'
  BY QuorumStep
<1> QED BY <1>1, <1>2, StateTypeCorrect, PTL DEF Spec

----------------------------------------------------------------------------
\* Power

\* Who may manage a group reaches whatever the group reaches.
LEMMA ReachThrough ==
    ASSUME NEW g \in GroupId, NEW h \in GroupId, groups[h] # Nil,
           GroupGrants(h, ManageMembership(g))
    PROVE  Reach(g) \subseteq Reach(h)
BY DEF Reach

\* Who manages a powerful group is powerful.
LEMMA ManagersHavePower ==
    ASSUME NEW g \in GroupId, NEW i \in Identity, Powerful(g), Holds(i, ManageMembership(g))
    PROVE  HasPower(i)
<1>1. PICK h \in GroupId : i \in Members(h) /\ GroupGrants(h, ManageMembership(g))
  BY DEF Holds
<1>2. groups[h] # Nil
  BY <1>1 DEF Members
<1>3. Powerful(h)
  BY <1>1, <1>2, ReachThrough DEF Powerful
<1> QED BY <1>1, <1>3 DEF HasPower

\* New membership records are the work of additions.
LEMMA NewRecords ==
    ASSUME TypeOK, [Next]_vars, NEW g \in GroupId, NEW i \in Identity,
           groups[g] # Nil, groups'[g] # Nil,
           groups'[g].members[i] # groups[g].members[i], groups'[g].members[i] # Nil
    PROVE  \E author \in Identity, invite \in Invite \cup {Nil}, time \in Time :
              /\ AddMember(author, g, i, invite, time)
              /\ groups'[g].members[i] = [by |-> author, at |-> time, invite |-> invite]
<1> groups[g] \in Group
  BY DEF TypeOK
<1>1. groups' # groups
  OBVIOUS
<1>2. ~ \E author \in Identity, h \in GroupId, caps \in Grants : DefineGroup(author, h, caps)
  BY DEF DefineGroup, TypeOK, Group
<1>3. ASSUME NEW author \in Identity, NEW h \in GroupId, NEW j \in Identity, NEW time \in Time,
             NEW cascade \in Cascades, RemoveMember(author, h, j, cascade, time)
      PROVE  FALSE
  <2>1. PICK gone : groups' = [groups EXCEPT ![h].members =
                        [m \in Identity |-> IF m \in gone THEN Nil ELSE @[m]]]
    BY <1>3 DEF RemoveMember
  <2> QED BY <2>1 DEF TypeOK, Group
<1>4. ASSUME NEW author \in Identity, NEW h \in GroupId, NEW j \in Identity, NEW time \in Time,
             NEW invite \in Invite \cup {Nil}, AddMember(author, h, j, invite, time)
      PROVE  /\ h = g /\ j = i
             /\ groups'[g].members[i] = [by |-> author, at |-> time, invite |-> invite]
  <2>1. groups' = [groups EXCEPT ![h].members[j] = [by |-> author, at |-> time,
                                                   invite |-> invite]]
    BY <1>4 DEF AddMember
  <2> QED BY <2>1 DEF TypeOK, Group
<1>5. CASE UNCHANGED vars
  BY <1>1, <1>5 DEF vars
<1>6. CASE Next
  BY <1>1, <1>2, <1>3, <1>4, <1>6, NextCases
  DEF PolicyChange, ContentTypePolicy, ProposeVote, SettleVote, CastBallot, EnrollDevice,
      RevokeDevice, RegisterName, Moderate, RotateEpoch, authority
<1> QED BY <1>5, <1>6

\* The state change that PowerFromPower is about.
PowerStep ==
    \A g \in GroupId, i \in Identity :
          /\ groups[g] # Nil /\ groups'[g] # Nil
          /\ groups'[g].members[i] # groups[g].members[i]
          /\ groups'[g].members[i] # Nil
          /\ Powerful(g)
          => LET new == groups'[g].members[i]
             IN HasPower(new.by) \/ Admission(g, i, new.invite) \in passedVotes

\* Nobody comes into governance power through the entries of those who have
\* none: a member of a group that confers it was put there by somebody who had
\* it, or by a vote on that admission (state.rs, authorize of MembershipChange).
THEOREM PowerComesFromPower == Spec => PowerFromPower
<1>1. ASSUME TypeOK, [Next]_vars PROVE PowerStep
  <2> SUFFICES ASSUME NEW g \in GroupId, NEW i \in Identity,
                      groups[g] # Nil, groups'[g] # Nil,
                      groups'[g].members[i] # groups[g].members[i],
                      groups'[g].members[i] # Nil, Powerful(g)
               PROVE  LET new == groups'[g].members[i]
                      IN HasPower(new.by) \/ Admission(g, i, new.invite) \in passedVotes
    BY DEF PowerStep
  <2>1. PICK author \in Identity, invite \in Invite \cup {Nil}, time \in Time :
              /\ AddMember(author, g, i, invite, time)
              /\ groups'[g].members[i] = [by |-> author, at |-> time, invite |-> invite]
    BY <1>1, NewRecords
  <2>2. MayAdd(author, g, i, invite)
    BY <2>1 DEF AddMember
  <2>3. Holds(author, ManageMembership(g)) \/ Admission(g, i, invite) \in passedVotes
    BY <2>2 DEF MayAdd
  <2> QED BY <2>1, <2>3, ManagersHavePower, SMTT(40)
<1>2. TypeOK /\ [Next]_vars => PowerStep
  BY <1>1
<1> QED BY <1>2, StateTypeCorrect, PTL DEF Spec, PowerFromPower, PowerStep
=============================================================================

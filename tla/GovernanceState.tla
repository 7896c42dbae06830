-------------------------- MODULE GovernanceState --------------------------
(***************************************************************************)
(* The authorization state that a chain of governance entries replays to   *)
(* (crates/intranet-governance/src/state.rs) and the votes that settle     *)
(* admissions (vote.rs): one action per kind of entry, with authorize's    *)
(* condition as its guard and mutate's effect, refused when the candidate  *)
(* state breaks the `everyone` ceiling or the policy is incoherent.        *)
(*                                                                         *)
(* A hash of contents is modelled by the contents: a vote is identified by *)
(* its proposal, the action a vote authorizes by the admission itself.  A  *)
(* rotation entry is identified by its ordinal, which on one chain is as   *)
(* good as its hash.  Maps are total functions with Nil for an absent key. *)
(* Entries that change nothing (AppEntry) are left out.                    *)
(***************************************************************************)
EXTENDS Integers, FiniteSets

CONSTANTS
    Nil,            \* Option::None
    All,            \* CapabilitySet::All
    Identity,       \* the identities of the network's members and joiners
    Founder,        \* the author of genesis
    GroupId,        \* group names, "founders" and "everyone" among them
    Device,         \* device keys
    Pointer,        \* pointers that moderation may delist
    AppName,        \* application names
    Time,           \* the values of self-attested timestamps
    Window,         \* the windows a cascade may be given
    Invite,         \* invites a membership may come from
    Grants,         \* the capability sets an entry may give a group
    Policies,       \* the policies an entry may set
    Subjects,       \* the admissions votes are held about
    Quorums,        \* the quorums a proposal may ask for
    MaxEntries,     \* bound: entries after genesis
    MaxVotes,       \* bound: votes open or passed
    MaxBallots,     \* bound: ballots cast
    MaxEpochs       \* bound: epoch rotations

MembershipRecord == [by : Identity \cup {Nil}, at : Time, invite : Invite \cup {Nil}]
Group == [capabilities : Grants \cup {All},
          members : [Identity -> MembershipRecord \cup {Nil}]]
Admissions == [group : GroupId, identity : Identity, invite : Invite \cup {Nil}]
Proposals == [subject : Admissions, electorate : GroupId, roster : SUBSET Identity,
              close : Time, quorum : Quorums]
Ballots == [vote : Proposals, voter : Identity, approve : BOOLEAN, at : Time]

ASSUME NilAssumption == Nil \notin MembershipRecord \cup Group \cup Identity \cup Nat
ASSUME FounderAssumption == Founder \in Identity /\ {"founders", "everyone"} \subseteq GroupId
ASSUME TimeAssumption == 0 \in Time /\ Time \subseteq Int /\ Window \subseteq Nat
ASSUME VoteAssumption == Subjects \subseteq Admissions /\ Quorums \subseteq Nat
ASSUME FiniteAssumption == IsFiniteSet(Identity)
ASSUME BoundAssumption ==
    MaxEntries \in Nat /\ MaxVotes \in Nat /\ MaxBallots \in Nat /\ MaxEpochs \in Nat

VARIABLES
    groups,         \* groups[g]: Nil, or its capabilities and members
    policy,         \* the network policy
    certificates,   \* device_certificates[d]: the identity, or Nil
    revoked,        \* revoked_devices
    delisted,       \* delisted pointers
    appNames,       \* app_names[n]: the owner, or Nil
    epoch,          \* the number of rotations
    rotationRef,    \* epoch_rotation_ref: the last rotation entry, or Nil
    openVotes,      \* open_votes
    passedVotes,    \* passed_votes
    ballots,        \* every ballot a voter has signed
    length          \* entries on the chain after genesis

vars == <<groups, policy, certificates, revoked, delisted, appNames, epoch,
          rotationRef, openVotes, passedVotes, ballots, length>>
authority == <<groups, policy>>
records == <<certificates, revoked, delisted, appNames, epoch, rotationRef>>
votes == <<openVotes, passedVotes, ballots>>

----------------------------------------------------------------------------
\* Capabilities and groups

Cap(kind) == [kind |-> kind, of |-> Nil]
ManageMembership(g) == [kind |-> "ManageMembership", of |-> g]
Extension(name) == [kind |-> "Extension", of |-> name]

\* Capability::intrinsic_tier
GovernanceKinds == {"ApproveNode", "RevokeNode", "DefineGroup", "DefinePolicy",
                    "DefineContentPolicy", "ModerateContent", "AuditReputation"}
OrdinaryKinds == {"ReadContent", "Publish"}

RegisterAppName == Extension("register-app-name")
ReclaimAppName == Extension("reclaim-app-name")

\* NetworkPolicy::extension_tier: the tier the registry resolves a name to, Nil
\* for a name nobody registered.
ExtensionTier(name) == policy.extensions[name]

NoMembers == [i \in Identity |-> Nil]
NewGroup(caps) == [capabilities |-> caps, members |-> NoMembers]
Members(g) == IF groups[g] = Nil THEN {}
              ELSE {i \in Identity : groups[g].members[i] # Nil}

\* CapabilitySet::grants
GroupGrants(g, cap) == groups[g].capabilities # All => cap \in groups[g].capabilities

\* GovernanceState::identity_holds and is_member
Holds(i, cap) == \E g \in GroupId : i \in Members(g) /\ GroupGrants(g, cap)
IsMember(i) == \E g \in GroupId : i \in Members(g)

----------------------------------------------------------------------------
\* Tiers and the candidate checks

\* tier_of_inner: managing g is of ordinary tier.  A group that is being
\* visited counts as ordinary, so that a cycle of groups managing one another
\* ends; an unknown group or an unregistered extension is an error, which every
\* caller treats like governance tier.
ManagingIsOrdinary[visiting \in SUBSET GroupId] ==
    [g \in GroupId |->
        \/ g \in visiting
        \/ /\ groups[g] # Nil
           /\ groups[g].capabilities # All
           /\ \A c \in groups[g].capabilities :
                 \/ c.kind \in OrdinaryKinds
                 \/ c.kind = "Extension" /\ ExtensionTier(c.of) = "Ordinary"
                 \/ c.kind = "ManageMembership"
                    /\ ManagingIsOrdinary[visiting \cup {g}][c.of]]

\* Mutation: what the managed group may manage in turn is not looked at.
IsOrdinaryOneLevel(c) ==
    \/ c.kind \in OrdinaryKinds
    \/ c.kind = "Extension" /\ ExtensionTier(c.of) = "Ordinary"
    \/ /\ c.kind = "ManageMembership"
       /\ groups[c.of] # Nil
       /\ groups[c.of].capabilities # All
       /\ \A h \in groups[c.of].capabilities :
             \/ h.kind \in OrdinaryKinds \cup {"ManageMembership"}
             \/ h.kind = "Extension" /\ ExtensionTier(h.of) = "Ordinary"

\* tier_of(capability) is Ok(Ordinary).
IsOrdinary(c) == \/ c.kind \in OrdinaryKinds
                 \/ c.kind = "Extension" /\ ExtensionTier(c.of) = "Ordinary"
                 \/ c.kind = "ManageMembership" /\ ManagingIsOrdinary[{}][c.of]

\* check_everyone_invariant and check_policy_coherence, of a candidate state.
EveryoneIsOrdinary == /\ groups["everyone"].capabilities # All
                      /\ \A c \in groups["everyone"].capabilities : IsOrdinary(c)
PolicyIsCoherent == ~(policy.model = "MemberVote" /\ policy.admission = "AutoAdmit")

\* An entry is applied only if the state it leads to passes the checks.
Applied == /\ length' = length + 1
           /\ EveryoneIsOrdinary'
           /\ PolicyIsCoherent'

----------------------------------------------------------------------------
\* Groups and policy

DefineGroup(author, g, caps) ==
    /\ Holds(author, Cap("DefineGroup"))
    /\ groups' = [groups EXCEPT ![g] = IF @ = Nil THEN NewGroup(caps)
                                       ELSE [@ EXCEPT !.capabilities = caps]]
    /\ UNCHANGED <<policy, records, votes>>
    /\ Applied

PolicyChange(author, new) ==
    /\ Holds(author, Cap("DefinePolicy"))
    /\ policy' = new
    /\ UNCHANGED <<groups, records, votes>>
    /\ Applied

ContentTypePolicy(author, allowlist) ==
    /\ Holds(author, Cap("DefineContentPolicy"))
    /\ policy' = [policy EXCEPT !.allowlist = allowlist]
    /\ UNCHANGED <<groups, records, votes>>
    /\ Applied

\* The body of an addition, which is what a vote on it is about (action_hash).
Admission(g, i, invite) == [group |-> g, identity |-> i, invite |-> invite]

\* Mutation: who may manage some group may add to any.
MayAddAnywhere(author, g, i, invite) ==
    IF policy.model = "MemberVote"
    THEN Admission(g, i, invite) \in passedVotes /\ IsMember(author)
    ELSE \E h \in GroupId : Holds(author, ManageMembership(h))

\* authorize, of MembershipAction::Add.
MayAdd(author, g, i, invite) ==
    IF policy.model = "MemberVote"
    THEN Admission(g, i, invite) \in passedVotes /\ IsMember(author)
    ELSE Holds(author, ManageMembership(g))

\* An addition overwrites the record of somebody who is a member already.
AddMember(author, g, i, invite, time) ==
    /\ groups[g] # Nil
    /\ MayAdd(author, g, i, invite)
    /\ groups' = [groups EXCEPT ![g].members[i] = [by |-> author, at |-> time,
                                                   invite |-> invite]]
    /\ UNCHANGED <<policy, records, votes>>
    /\ Applied

\* Mutation: those the removed member added go, and nobody they added.
CascadeOnce(g, i, window, time) ==
    {m \in Members(g) \ {i} : /\ groups[g].members[m].by = i
                              /\ window # Nil => groups[g].members[m].at >= time - window}

\* The work list of remove_membership, run to its end: the least set that takes
\* in everybody added by the removed member, or by somebody taken in, no
\* earlier than the window allows.
Cascade(g, i, window, time) ==
    LET Rest == Members(g) \ {i}
        Added(m, S) == /\ groups[g].members[m].by \in S \cup {i}
                       /\ window # Nil => groups[g].members[m].at >= time - window
        Closed == {S \in SUBSET Rest : \A m \in Rest : Added(m, S) => m \in S}
    IN {m \in Rest : \A S \in Closed : m \in S}

\* MembershipAction::Remove.  A member may always leave; cascade is Nil or a
\* record whose window is Nil when it covers the whole history.
RemoveMember(author, g, i, cascade, time) ==
    /\ groups[g] # Nil
    /\ IF i = author THEN IsMember(author) ELSE Holds(author, ManageMembership(g))
    /\ i \in Members(g)
    /\ LET gone == {i} \cup IF cascade = Nil THEN {}
                            ELSE Cascade(g, i, cascade.window, time)
       IN groups' = [groups EXCEPT ![g].members =
                        [m \in Identity |-> IF m \in gone THEN Nil ELSE @[m]]]
    /\ UNCHANGED <<policy, records, votes>>
    /\ Applied

----------------------------------------------------------------------------
\* Votes

\* VoteProposed: the roster must be the group's membership here and now, so it
\* is taken from the state.
ProposeVote(author, subject, electorate, close, quorum) ==
    /\ Cardinality(openVotes) + Cardinality(passedVotes) < MaxVotes
    /\ IsMember(author)
    /\ groups[electorate] # Nil
    /\ openVotes' = openVotes \cup
          {[subject |-> subject, electorate |-> electorate,
            roster |-> Members(electorate), close |-> close, quorum |-> quorum]}
    /\ UNCHANGED <<authority, records, passedVotes, ballots>>
    /\ Applied

\* Ballot::cast: anybody may sign anything; certificates are where it counts.
CastBallot(voter, proposal, approve, time) ==
    /\ Cardinality(ballots) < MaxBallots
    /\ ballots' = ballots \cup {[vote |-> proposal, voter |-> voter,
                                 approve |-> approve, at |-> time]}
    /\ UNCHANGED <<authority, records, openVotes, passedVotes, length>>

\* Mutation: ballots are counted, not voters.
VerifyCountingBallots(proposal, cert) ==
    /\ cert # {}
    /\ \A b \in cert : b.voter \in proposal.roster /\ b.at <= proposal.close
    /\ Cardinality({b \in cert : b.approve}) >= proposal.quorum

\* QuorumCertificate::verify says Passed, of ballots for this vote.
Verify(proposal, cert) ==
    /\ cert # {}
    /\ \A b \in cert : b.voter \in proposal.roster /\ b.at <= proposal.close
    /\ \A b, c \in cert : b.voter = c.voter => b = c
    /\ Cardinality({b \in cert : b.approve}) >= proposal.quorum

\* VoteOutcome: the certificate is checked against the proposal the log holds.
SettleVote(author, proposal, cert) ==
    /\ IsMember(author)
    /\ Verify(proposal, cert)
    /\ openVotes' = openVotes \ {proposal}
    /\ passedVotes' = passedVotes \cup {proposal.subject}
    /\ UNCHANGED <<authority, records, ballots>>
    /\ Applied

----------------------------------------------------------------------------
\* Devices, names, moderation and rotations

\* authorize_device_record: one's own devices, as a member.  A revoked key is
\* accepted and has no effect.
EnrollDevice(author, d) ==
    /\ IsMember(author)
    /\ certificates' = IF d \in revoked THEN certificates
                       ELSE [certificates EXCEPT ![d] = author]
    /\ UNCHANGED <<authority, revoked, delisted, appNames, epoch, rotationRef, votes>>
    /\ Applied

\* The device key is not looked up: it may be anybody's, or nobody's.
RevokeDevice(author, d) ==
    /\ IsMember(author)
    /\ certificates' = [certificates EXCEPT ![d] = Nil]
    /\ revoked' = revoked \cup {d}
    /\ UNCHANGED <<authority, delisted, appNames, epoch, rotationRef, votes>>
    /\ Applied

\* A free name is registered, a taken one reclaimed.
RegisterName(author, n) ==
    /\ Holds(author, IF appNames[n] = Nil THEN RegisterAppName ELSE ReclaimAppName)
    /\ appNames' = [appNames EXCEPT ![n] = author]
    /\ UNCHANGED <<authority, certificates, revoked, delisted, epoch, rotationRef, votes>>
    /\ Applied

Moderate(author, p, action) ==
    /\ Holds(author, Cap("ModerateContent"))
    /\ delisted' = IF action = "Delist" THEN delisted \cup {p} ELSE delisted \ {p}
    /\ UNCHANGED <<authority, certificates, revoked, appNames, epoch, rotationRef, votes>>
    /\ Applied

MayRotate(author, reason) ==
    CASE reason = "MemberAdmitted" -> Holds(author, Cap("ApproveNode"))
      [] reason = "MemberRevoked"  -> Holds(author, Cap("RevokeNode"))
      [] reason = "SelfInitiated"  -> IsMember(author)

RotateEpoch(author, reason) ==
    /\ epoch < MaxEpochs
    /\ MayRotate(author, reason)
    /\ epoch' = epoch + 1
    /\ rotationRef' = epoch + 1
    /\ UNCHANGED <<authority, certificates, revoked, delisted, appNames, votes>>
    /\ Applied

----------------------------------------------------------------------------
\* genesis: the creator alone in `founders`, nobody in `everyone`.
Init ==
    /\ policy \in Policies
    /\ \E caps \in Grants :
          groups = [g \in GroupId |->
              CASE g = "founders" -> [capabilities |-> All, members |->
                        [NoMembers EXCEPT ![Founder] = [by |-> Nil, at |-> 0, invite |-> Nil]]]
                [] g = "everyone" -> NewGroup(caps)
                [] OTHER -> Nil]
    /\ EveryoneIsOrdinary
    /\ PolicyIsCoherent
    /\ certificates = [d \in Device |-> Nil]
    /\ revoked = {}
    /\ delisted = {}
    /\ appNames = [n \in AppName |-> Nil]
    /\ epoch = 0
    /\ rotationRef = Nil
    /\ openVotes = {}
    /\ passedVotes = {}
    /\ ballots = {}
    /\ length = 0

Cascades == {Nil} \cup [window : Window \cup {Nil}]

GroupEntry(author) ==
    \/ \E g \in GroupId, caps \in Grants : DefineGroup(author, g, caps)
    \/ \E new \in Policies : PolicyChange(author, new)
    \/ \E new \in Policies : ContentTypePolicy(author, new.allowlist)

MembershipEntry(author) ==
    \E g \in GroupId, i \in Identity, time \in Time :
        \/ \E invite \in Invite \cup {Nil} : AddMember(author, g, i, invite, time)
        \/ \E cascade \in Cascades : RemoveMember(author, g, i, cascade, time)

VoteEntry(author) ==
    \/ \E subject \in Subjects, g \in GroupId, close \in Time, quorum \in Quorums :
          ProposeVote(author, subject, g, close, quorum)
    \/ \E proposal \in openVotes :
          \E cert \in SUBSET {b \in ballots : b.vote = proposal} :
             SettleVote(author, proposal, cert)

Ballot(author) ==
    \E proposal \in openVotes, approve \in BOOLEAN, time \in Time :
        CastBallot(author, proposal, approve, time)

RecordEntry(author) ==
    \/ \E d \in Device : EnrollDevice(author, d) \/ RevokeDevice(author, d)
    \/ \E n \in AppName : RegisterName(author, n)
    \/ \E p \in Pointer, action \in {"Delist", "Relist"} : Moderate(author, p, action)
    \/ \E reason \in {"MemberAdmitted", "MemberRevoked", "SelfInitiated"} :
          RotateEpoch(author, reason)

Next == \E author \in Identity : \/ length < MaxEntries /\ GroupEntry(author)
                                 \/ length < MaxEntries /\ MembershipEntry(author)
                                 \/ length < MaxEntries /\ VoteEntry(author)
                                 \/ length < MaxEntries /\ RecordEntry(author)
                                 \/ Ballot(author)

Spec == Init /\ [][Next]_vars

----------------------------------------------------------------------------
\* Properties

\* Every part of the replayed state is well formed.
TypeOK ==
    /\ groups \in [GroupId -> Group \cup {Nil}]
    /\ certificates \in [Device -> Identity \cup {Nil}]
    /\ revoked \subseteq Device
    /\ delisted \subseteq Pointer
    /\ appNames \in [AppName -> Identity \cup {Nil}]
    /\ epoch \in 0..MaxEpochs
    /\ rotationRef = (IF epoch = 0 THEN Nil ELSE epoch)
    /\ openVotes \subseteq Proposals
    /\ passedVotes \subseteq Admissions
    /\ ballots \subseteq Ballots
    /\ length \in Nat

\* The groups that the members of g can put people into, directly or by way of
\* other groups: the least set that holds g and is closed under managing.
Reach(g) ==
    LET Manages(h, k) == groups[h] # Nil /\ GroupGrants(h, ManageMembership(k))
        Closed == {S \in SUBSET GroupId :
                     g \in S /\ \A h \in S, k \in GroupId : Manages(h, k) => k \in S}
    IN {h \in GroupId : \A S \in Closed : h \in S}

\* A capability that is of governance tier by itself.
IsGovernance(c) == \/ c.kind \in GovernanceKinds
                   \/ c.kind = "Extension" /\ ExtensionTier(c.of) = "Governance"

\* Members of g hold governance power, or can make themselves hold it.
Powerful(g) == \E h \in Reach(g) :
    /\ groups[h] # Nil
    /\ groups[h].capabilities # All => \E c \in groups[h].capabilities : IsGovernance(c)

HasPower(i) == \E g \in GroupId : i \in Members(g) /\ Powerful(g)

\* The `everyone` ceiling holds through any chain of managed groups, cycles
\* included, whatever order groups, grants and the extension registry are
\* changed in: no path of manage-membership leads from `everyone` to a
\* capability of governance tier (state.rs, tier_of and check_everyone_invariant).
EveryoneCeiling == ~Powerful("everyone")

\* Power comes from power: who is put into a group that confers governance
\* power was put there by somebody who had it already, or by a passed vote on
\* that very admission (state.rs, authorize of MembershipChange).
PowerFromPower ==
    [][\A g \in GroupId, i \in Identity :
          /\ groups[g] # Nil /\ groups'[g] # Nil
          /\ groups'[g].members[i] # groups[g].members[i]
          /\ groups'[g].members[i] # Nil
          /\ Powerful(g)
          => LET new == groups'[g].members[i]
             IN HasPower(new.by) \/ Admission(g, i, new.invite) \in passedVotes]_vars

\* A cascading removal takes exactly the removed member's additions within the
\* window, and theirs in turn: nobody who stays was added in the window by
\* somebody who goes, and who goes was added in the window by somebody who goes
\* (state.rs, remove_membership).
CascadeIsExact ==
    [][\A g \in GroupId :
          LET gone == Members(g) \ Members(g)'
              InWindow(m, window, time) ==
                  window # Nil => groups[g].members[m].at >= time - window
          IN \A i \in gone, author \in Identity, time \in Time, window \in Window \cup {Nil} :
                RemoveMember(author, g, i, [window |-> window], time) =>
                   \A m \in Members(g) \ {i} :
                      m \in gone <=> /\ groups[g].members[m].by \in gone
                                    /\ InWindow(m, window, time)]_vars

\* The voters of p's roster who approved in time.
Approvers(p) == {i \in p.roster : \E b \in ballots : /\ b.vote = p
                                                     /\ b.voter = i
                                                     /\ b.approve
                                                     /\ b.at <= p.close}

\* A vote counts as passed only when distinct voters of the roster its proposal
\* was opened with, in the required number, have approved in time, however
\* often each of them has voted (vote.rs, verify; state.rs, mutate of VoteOutcome).
PassedHasQuorum ==
    \A s \in passedVotes :
        \E b \in ballots : b.vote.subject = s /\ Cardinality(Approvers(b.vote)) >= b.vote.quorum

\* A device key that has been revoked never signs for anybody again (state.rs,
\* revoked_devices and device_is_authorized).
RevocationIsFinal ==
    [][\A d \in revoked : d \in revoked' /\ certificates'[d] = Nil]_vars
=============================================================================

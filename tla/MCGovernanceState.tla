------------------------- MODULE MCGovernanceState -------------------------
(* A small instance of GovernanceState for TLC.  Every history starts with a *)
(* choice of the subject it is about, so that the kinds of entry that touch *)
(* one another are interleaved and unrelated ones are not multiplied.       *)
EXTENDS GovernanceState, TLC

VARIABLE focus      \* what this history is about

MCGrants == {All, {}, {ManageMembership("crew")}, {ManageMembership("founders")},
             {ManageMembership("everyone"), RegisterAppName}, {ReclaimAppName}}

Registry(reclaim) == [n \in {"register-app-name", "reclaim-app-name"} |->
                         IF n = "register-app-name" THEN "Ordinary" ELSE reclaim]

PolicyWith(model, admission, reclaim, allowlist) ==
    [model |-> model, electorate |-> "everyone", quorum |-> 2,
     admission |-> admission, extensions |-> Registry(reclaim), allowlist |-> allowlist]

MCPolicies == {PolicyWith("CapabilityHolders", "AutoAdmit", "Governance", {}),
               PolicyWith("CapabilityHolders", "AutoAdmit", Nil, {"post"}),
               PolicyWith("CapabilityHolders", "ExplicitIntake", "Ordinary", {}),
               PolicyWith("MemberVote", "ExplicitIntake", "Governance", {}),
               PolicyWith("MemberVote", "AutoAdmit", "Governance", {})}

MCSubjects == {Admission("everyone", i, Nil) : i \in Identity \ {Founder}}
DefaultPolicy == PolicyWith("CapabilityHolders", "AutoAdmit", "Governance", {})
VotePolicy == PolicyWith("MemberVote", "ExplicitIntake", "Governance", {})

\* How long a history of each kind is.
Lengths == [authority |-> 3, cascade |-> 4, voting |-> 5, records |-> 3]

MCInit == /\ Init
          /\ focus \in DOMAIN Lengths
          /\ focus # "authority" =>
                groups["everyone"].capabilities = {} /\ policy = DefaultPolicy

\* Comings and goings of the history that is about votes.
Electorate(author) ==
    \/ PolicyChange(author, VotePolicy)
    \/ \E i \in Identity : \/ AddMember(author, "everyone", i, Nil, 0)
                          \/ RemoveMember(author, "everyone", i, Nil, 0)

Entry(author) ==
    \/ focus = "authority" /\ GroupEntry(author)
    \/ focus # "voting" /\ MembershipEntry(author)
    \/ focus = "voting" /\ (VoteEntry(author) \/ Electorate(author))
    \/ focus = "records" /\ RecordEntry(author)

MCNext == /\ \E author \in Identity : \/ length < Lengths[focus] /\ Entry(author)
                                     \/ Ballot(author)
          /\ focus' = focus

MCSpec == MCInit /\ [][MCNext]_<<vars, focus>>

MemberSymmetry == Permutations(Identity \ {Founder})
=============================================================================

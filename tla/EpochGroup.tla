----------------------------- MODULE EpochGroup -----------------------------
(***************************************************************************)
(* The network's MLS group (crates/intranet-epoch/src/group.rs) and the    *)
(* delivery of its keys (crates/intranet-transport/src/node.rs, the epoch  *)
(* methods of MemberNode and the handlers of Epoch).  Every commit is an   *)
(* entry of the governance log, and the log orders them: a member applies  *)
(* the commits of its canonical chain, and asks for a Welcome when it has  *)
(* no group.                                                               *)
(*                                                                         *)
(* MLS itself is external.  A group state is its number in `mls`; the key  *)
(* exported from it is that number too.  A commit leads from one state to  *)
(* another, is readable only by the other members of the state it was made *)
(* in, and ends the session of a member whose leaf it removes.             *)
(* The genesis entry stands for the log up to the start: everyone in       *)
(* Enrolled has been admitted by then.                                     *)
(***************************************************************************)
EXTENDS Keyring, Sequences, SequencesExt

CONSTANTS
    Founder,        \* the node that created the network
    Enrolled,       \* nodes admitted before the history begins
    FullHistory,    \* whether policy.history_access is FullHistory
    MaxRequests,    \* bound: key requests made
    MaxLosses       \* bound: requests and responses lost

ASSUME EpochAssumption == /\ Founder \in Member /\ Enrolled \subseteq Member
                          /\ FullHistory \in BOOLEAN
                          /\ {MaxRequests, MaxLosses} \subseteq Nat

VARIABLES
    body,       \* body[h]: what entry h says of rotation and membership
    mls,        \* the states of the group: how each was made, who is in it
    group,      \* group[n]: the GroupSession of n; at = 0 when it has none
    key,        \* key[n]: the keys recorded, by rotation
    pending,    \* pending[n]: the key package whose private half is kept, or 0
    packages,   \* packages[n]: key packages generated
    inbound,    \* inbound[n]: requests accepted for a decision
    mail,       \* requests and responses on their way
    asked,      \* how many requests were made
    losses,     \* how many requests and responses were lost
    saved,      \* saved[n]: the saved session and the rotation it belongs to
    current,    \* current[n]: the rotation n's session was last recorded under
    given       \* <<n, h>>: the key of h reached n as history

groupVars == <<mls, group, key, current>>
askVars == <<pending, packages, inbound, mail, asked, losses>>
restVars == <<saved, given>>
epochVars == <<vars, keyVars, body, groupVars, askVars, restVars>>

NoGroup == [at |-> 0, active |-> FALSE]
Overlay(f, S, g) == [x \in DOMAIN f \cup S |-> IF x \in S THEN g[x] ELSE f[x]]

----------------------------------------------------------------------------
\* What the log says

\* canonical_chain, oldest entry first.
ChainOf(n) == LET chain == CanonicalChain(n) IN
    [i \in 1 .. Cardinality(chain) |-> CHOOSE h \in chain : Cardinality(Ancestry(h)) = i]

\* GovernanceState::is_member on n's canonical chain.
IsMember(n, x) ==
    LET chain == CanonicalChain(n)
        Removed(E) == \E r \in E : body[r] = [type |-> "Remove", who |-> x]
    IN  \/ x \in Enrolled /\ ~Removed(chain)
        \/ \E a \in chain : /\ body[a] = [type |-> "Admit", who |-> x]
                            /\ ~Removed({r \in chain : a \in Ancestry(r)})

\* An entry of node n on top of its canonical tip, inserted into its own log.
AppendEntry(n, h, kind, what) ==
    LET tip == CanonicalTip(n) IN
    /\ held[n] # {}
    /\ h \in Hash \ Signed
    /\ Sign(n, h, tip, kind, 0, TRUE, entry[tip].fin)
    /\ body' = Overlay(body, {h}, [x \in {h} |-> what])
    /\ finalized' = finalized

ChangeMembership(n, x, type, h) ==
    /\ type = "Admit" <=> ~IsMember(n, x)
    /\ AppendEntry(n, h, "MembershipChange", [type |-> type, who |-> x])
    /\ UNCHANGED <<keyVars, groupVars, askVars, restVars>>

\* n pulls from m (GovernanceSync).
SyncFrom(n, m) ==
    /\ ~(held[m] \subseteq held[n])
    /\ held' = [held EXCEPT ![n] = @ \cup held[m]]
    /\ UNCHANGED <<entry, finalized, keyVars, body, groupVars, askVars, restVars>>

----------------------------------------------------------------------------
\* The group

\* A commit by n that leaves S in the group, having removed or added `who`.
NewState(n, S, who, adds) == [from |-> group[n].at, by |-> n, leaves |-> S, who |-> who, adds |-> adds]

\* merge_pending_commit, and the entry that carries the commit: the group moves
\* first, then the log, then the keyring.
Commit(n, state, kind, h) ==
    LET made == Len(mls) + 1 IN
    /\ group[n].active
    /\ AppendEntry(n, h, kind, [type |-> "Rotation", makes |-> made])
    /\ mls' = Append(mls, state)
    /\ group' = [group EXCEPT ![n].at = made]
    /\ records' = [records EXCEPT ![n] = WithTentative(@, {h})]
    /\ canonical' = [canonical EXCEPT ![n] = h]
    /\ key' = [key EXCEPT ![n] = Overlay(@, {h}, [x \in {h} |-> made])]
    /\ current' = [current EXCEPT ![n] = h]
    /\ UNCHANGED <<voided, pruned>>

\* create_epoch_group: once, by the founder, recorded under genesis.
CreateEpochGroup(n) ==
    LET genesis == CHOOSE r \in Roots(held[n]) : TRUE IN
    /\ n = Founder /\ mls = <<>> /\ held[n] # {}
    /\ mls' = <<[from |-> 0, by |-> n, leaves |-> {n}, who |-> Nil, adds |-> FALSE]>>
    /\ group' = [group EXCEPT ![n] = [at |-> 1, active |-> TRUE]]
    /\ records' = [records EXCEPT ![n] = WithTentative(@, {genesis})]
    /\ canonical' = [canonical EXCEPT ![n] = genesis]
    /\ key' = [key EXCEPT ![n] = Overlay(@, {genesis}, [x \in {genesis} |-> 1])]
    /\ current' = [current EXCEPT ![n] = genesis]
    /\ UNCHANGED <<vars, voided, pruned, body, askVars, restVars>>

Leaves(n) == mls[group[n].at].leaves

\* The commits of a GroupSession: rotate, add_member, replace_member (the leaf is
\* removed and another added in one commit), remove_member.
Rotate(n) == NewState(n, Leaves(n), Nil, FALSE)
AddMember(n, x) == NewState(n, Leaves(n) \cup {x}, x, TRUE)
ReplaceMember(n, x) == NewState(n, (Leaves(n) \ {x}) \cup {x}, x, TRUE)
RemoveMember(n, x) == NewState(n, Leaves(n) \ {x}, x, FALSE)

\* rotate_epoch.
RotateEpoch(n, h) ==
    /\ group[n].active
    /\ Commit(n, Rotate(n), "SelfRotation", h)
    /\ UNCHANGED <<askVars, restVars>>

\* Mutation: the epoch is rotated, and the leaf stays.
RevokeByRotating(n, x, h) ==
    /\ group[n].active
    /\ ~IsMember(n, x) /\ x \in Leaves(n)
    /\ Commit(n, NewState(n, Leaves(n), x, FALSE), "EpochRotation", h)
    /\ UNCHANGED <<askVars, restVars>>

\* revoke_epoch_member: refused while x is a member, nothing to do without a leaf.
RevokeEpochMember(n, x, h) ==
    /\ group[n].active
    /\ ~IsMember(n, x) /\ x \in Leaves(n)
    /\ Commit(n, RemoveMember(n, x), "EpochRotation", h)
    /\ UNCHANGED <<askVars, restVars>>

\* Whether session g of n can process the commit that made state c.
CanProcess(n, g, c) == g.active /\ mls[c].from = g.at /\ mls[c].by # n

\* apply_commit: the session after it, which is over if n's leaf was removed,
\* also when another one takes its place.
Processed(n, c) ==
    [at |-> c, active |-> n \in mls[c].leaves /\ ~(mls[c].adds /\ mls[c].who = n)]

\* Mutation: a commit that does not apply is recorded under the key at hand.
ApplyEntryRegardless(n, acc, h) ==
    IF h \in acc.held \/ body[h].type # "Rotation" \/ Parent(h) = Nil THEN acc
    ELSE LET g == IF CanProcess(n, acc.group, body[h].makes)
                  THEN Processed(n, body[h].makes) ELSE acc.group
         IN  [group |-> g, held |-> acc.held \cup {h},
              applied |-> Append(acc.applied, <<h, g.at>>)]

\* Mutation: a member's own rotation is not an epoch rotation.
ApplyEntryOfRevocations(n, acc, h) ==
    IF h \in acc.held \/ entry[h].kind # "EpochRotation" \/ ~CanProcess(n, acc.group, body[h].makes) THEN acc
    ELSE LET g == Processed(n, body[h].makes) IN
         IF ~g.active THEN [acc EXCEPT !.group = g]
         ELSE [group |-> g, held |-> acc.held \cup {h}, applied |-> Append(acc.applied, <<h, g.at>>)]

\* One entry of the chain in apply_pending_rotations.  A commit that does not
\* apply is skipped; one that ends the session yields no key.
ApplyEntry(n, acc, h) ==
    IF h \in acc.held \/ body[h].type # "Rotation" \/ Parent(h) = Nil THEN acc
    ELSE LET c == body[h].makes IN
         IF ~CanProcess(n, acc.group, c) THEN acc
         ELSE LET g == Processed(n, c) IN
              IF ~g.active THEN [acc EXCEPT !.group = g]
              ELSE [group |-> g, held |-> acc.held \cup {h},
                    applied |-> Append(acc.applied, <<h, g.at>>)]

\* What the loop of apply_pending_rotations comes to on n's canonical chain.
AfterPending(n) ==
    FoldLeft(LAMBDA acc, h : ApplyEntry(n, acc, h),
             [group |-> group[n], held |-> DOMAIN records[n], applied |-> <<>>], ChainOf(n))

\* apply_pending_rotations.
ApplyPendingRotations(n) ==
    LET after == AfterPending(n)
        new   == {after.applied[i][1] : i \in DOMAIN after.applied}
        last  == IF new = {} THEN Nil ELSE after.applied[Len(after.applied)][1]
        keyOf == [h \in new |-> (CHOOSE p \in ToSet(after.applied) : p[1] = h)[2]]
    IN  /\ group[n].at # 0
        /\ after.group # group[n] \/ new # {}
        /\ group' = [group EXCEPT ![n] = after.group]
        /\ records' = [records EXCEPT ![n] = WithTentative(@, new)]
        /\ canonical' = [canonical EXCEPT ![n] = IF new = {} THEN @ ELSE last]
        /\ key' = [key EXCEPT ![n] = Overlay(@, new, keyOf)]
        /\ current' = [current EXCEPT ![n] = IF new = {} THEN @ ELSE last]
        /\ UNCHANGED <<vars, voided, pruned, body, mls, askVars, restVars>>

\* reconcile_epoch_keys.  That it reports needs_rewelcome changes nothing here.
ReconcileEpochKeys(n) ==
    /\ ReconcileKeys(n)
    /\ UNCHANGED <<body, groupVars, askVars, restVars>>

----------------------------------------------------------------------------
\* Key delivery

\* prepare_join: a fresh key package.
PrepareJoin(n) == packages[n] + 1

\* request_epoch_key: the key package is generated once and asked with again.
RequestEpochKey(n, r) ==
    LET package == IF pending[n] = 0 THEN PrepareJoin(n) ELSE pending[n] IN
    /\ asked < MaxRequests /\ n # r
    /\ pending' = [pending EXCEPT ![n] = package]
    /\ packages' = [packages EXCEPT ![n] = IF package > @ THEN package ELSE @]
    /\ asked' = asked + 1
    /\ mail' = mail \cup {[type |-> "Request", id |-> asked + 1, from |-> n, to |-> r, package |-> package]}
    /\ UNCHANGED <<vars, keyVars, body, groupVars, inbound, losses, restVars>>

\* screen_epoch_request.  Requests and key packages are those of their sender.
Screen(m) == held[m.to] # {} /\ IsMember(m.to, m.from) /\ group[m.to].at # 0

\* A request arrives: answered at once when it fails, otherwise kept for a
\* decision.
ScreenEpochRequest(m) ==
    LET ok == Screen(m) IN
    /\ m.type = "Request"
    /\ mail' = (mail \ {m}) \cup IF ok THEN {} ELSE {[type |-> "Refused", id |-> m.id, to |-> m.from]}
    /\ inbound' = [inbound EXCEPT ![m.to] = @ \cup IF ok THEN {m} ELSE {}]
    /\ UNCHANGED <<vars, keyVars, body, groupVars, pending, packages, asked, losses, restVars>>

\* keys_for_new_member under the policy's history_access.
KeysForNewMember(r) == IF FullHistory THEN DOMAIN records[r] ELSE {}

\* answer_epoch_key: the leaf is added or replaced, the rotation appended, and
\* the Welcome sent with the history the policy grants.
AnswerEpochKey(r, m, h) ==
    LET history == KeysForNewMember(r) \ {h}
        state == IF m.from \in Leaves(r) THEN ReplaceMember(r, m.from) ELSE AddMember(r, m.from)
    IN
    /\ m \in inbound[r]
    /\ group[r].active
    /\ Commit(r, state, "EpochRotation", h)
    /\ inbound' = [inbound EXCEPT ![r] = @ \ {m}]
    /\ mail' = mail \cup {[type |-> "Welcome", id |-> m.id, to |-> m.from, package |-> m.package,
                           ref |-> h, makes |-> Len(mls) + 1,
                           history |-> [g \in history |-> key[r][g]]]}
    /\ UNCHANGED <<pending, packages, asked, losses, restVars>>

\* answer_epoch_key with a session that is over: an error, and the channel is
\* dropped with the request.
AnswerFails(r, m) ==
    /\ m \in inbound[r] /\ ~group[r].active
    /\ inbound' = [inbound EXCEPT ![r] = @ \ {m}]
    /\ UNCHANGED <<vars, keyVars, body, groupVars, pending, packages, mail, asked, losses, restVars>>

DeclineEpochKey(r, m) ==
    /\ m \in inbound[r]
    /\ inbound' = [inbound EXCEPT ![r] = @ \ {m}]
    /\ mail' = mail \cup {[type |-> "Refused", id |-> m.id, to |-> m.from]}
    /\ UNCHANGED <<vars, keyVars, body, groupVars, pending, packages, asked, losses, restVars>>

\* PendingMember::join.
Join(m) == [at |-> m.makes, active |-> TRUE]

\* accept_welcome: the pending key package is taken first.  A Welcome for
\* another package does not open.
HearWelcome(m) ==
    LET n == m.to
        new == DOMAIN m.history \cup {m.ref}
        keys == Overlay(m.history, {m.ref}, [x \in {m.ref} |-> m.makes])
    IN  /\ m.type = "Welcome"
        /\ mail' = mail \ {m}
        /\ pending' = [pending EXCEPT ![n] = 0]
        /\ IF pending[n] # m.package
           THEN UNCHANGED <<keyVars, groupVars, given>>
           ELSE /\ group' = [group EXCEPT ![n] = Join(m)]
                /\ records' = [records EXCEPT ![n] = WithTentative(@, new)]
                /\ canonical' = [canonical EXCEPT ![n] = m.ref]
                /\ key' = [key EXCEPT ![n] = Overlay(@, new, keys)]
                /\ current' = [current EXCEPT ![n] = m.ref]
                /\ given' = given \cup ({n} \X DOMAIN m.history)
                /\ UNCHANGED <<voided, pruned, mls>>
        /\ UNCHANGED <<vars, body, packages, inbound, asked, losses, saved>>

HearRefusal(m) ==
    /\ m.type = "Refused"
    /\ mail' = mail \ {m}
    /\ UNCHANGED <<vars, keyVars, body, groupVars, pending, packages, inbound, asked, losses, restVars>>

\* The connection is lost with a message; nothing is kept of it.
LoseMail(m) ==
    /\ losses < MaxLosses
    /\ mail' = mail \ {m}
    /\ losses' = losses + 1
    /\ UNCHANGED <<vars, keyVars, body, groupVars, pending, packages, inbound, asked, restVars>>

----------------------------------------------------------------------------
\* Restarts

\* GroupSession::save, and the rotation the caller saves with it.
Save(n) == [session |-> group[n], ref |-> current[n]]

\* GroupSession::restore.
RestoredSession(s) == s.session

\* save_epoch_group.
SaveEpochGroup(n) ==
    /\ group[n].at # 0
    /\ saved[n] # Save(n)
    /\ saved' = [saved EXCEPT ![n] = Save(n)]
    /\ UNCHANGED <<vars, keyVars, body, groupVars, askVars, given>>

\* The process restarts: restore_epoch_group brings back the session, whose key
\* is recorded in an empty keyring.  The log comes back, requests do not.
Restart(n) ==
    LET s == saved[n] IN
    /\ s.session.active
    /\ group' = [group EXCEPT ![n] = RestoredSession(s)]
    /\ records' = [records EXCEPT ![n] = [h \in {s.ref} |-> "Tentative"]]
    /\ canonical' = [canonical EXCEPT ![n] = s.ref]
    /\ key' = [key EXCEPT ![n] = [h \in {s.ref} |-> s.session.at]]
    /\ current' = [current EXCEPT ![n] = s.ref]
    /\ voided' = [voided EXCEPT ![n] = {}] /\ pruned' = [pruned EXCEPT ![n] = {}]
    /\ pending' = [pending EXCEPT ![n] = 0] /\ inbound' = [inbound EXCEPT ![n] = {}]
    /\ mail' = {m \in mail : m.to # n \/ m.type = "Request"}
    /\ given' = {p \in given : p[1] # n}
    /\ UNCHANGED <<vars, body, mls, packages, asked, losses, saved>>

----------------------------------------------------------------------------

\* The members S share the first state of the group; with nobody in S there is
\* no group yet.
EpochInit(S) ==
    LET genesis == CHOOSE h \in Hash : \A g \in Hash : h <= g
        fin == CHOOSE p \in Params : TRUE
    IN  /\ entry = [h \in {genesis} |-> NewEntry(h, Nil, "Genesis", 0, TRUE, fin)]
        /\ held = [n \in Node |-> {genesis}] /\ finalized = [n \in Node |-> Nil]
        /\ body = [h \in {genesis} |-> [type |-> "Rotation", makes |-> 1]]
        /\ mls = IF S = {} THEN <<>>
                 ELSE <<[from |-> 0, by |-> Founder, leaves |-> S, who |-> Nil, adds |-> FALSE]>>
        /\ group = [n \in Member |-> IF n \in S THEN [at |-> 1, active |-> TRUE] ELSE NoGroup]
        /\ records = [n \in Member |-> [h \in IF n \in S THEN {genesis} ELSE {} |-> "Tentative"]]
        /\ canonical = [n \in Member |-> IF n \in S THEN genesis ELSE Nil]
        /\ key = [n \in Member |-> [h \in IF n \in S THEN {genesis} ELSE {} |-> 1]]
        /\ current = canonical
        /\ voided = [n \in Member |-> {}] /\ pruned = [n \in Member |-> {}]
        /\ pending = [n \in Member |-> 0] /\ packages = [n \in Member |-> 0]
        /\ inbound = [n \in Member |-> {}] /\ mail = {} /\ asked = 0 /\ losses = 0
        /\ saved = [n \in Member |-> [session |-> NoGroup, ref |-> Nil]]
        /\ given = {}

Rotating(n) == \E h \in Hash :
    \/ RotateEpoch(n, h)
    \/ \E x \in Member : RevokeEpochMember(n, x, h)

Answering(n) == \E m \in inbound[n] :
    \/ \E h \in Hash : AnswerEpochKey(n, m, h)
    \/ AnswerFails(n, m)
    \/ DeclineEpochKey(n, m)

Posting(m) == ScreenEpochRequest(m) \/ HearWelcome(m) \/ HearRefusal(m) \/ LoseMail(m)

EpochNext ==
    \/ \E n \in Member :
          \/ CreateEpochGroup(n) \/ Rotating(n) \/ Answering(n)
          \/ ApplyPendingRotations(n) \/ ReconcileEpochKeys(n)
          \/ SaveEpochGroup(n) \/ Restart(n)
          \/ \E m \in Member : SyncFrom(n, m) \/ RequestEpochKey(n, m)
          \/ \E x \in Member, h \in Hash, type \in {"Admit", "Remove"} : ChangeMembership(n, x, type, h)
    \/ \E m \in mail : Posting(m)

EpochSpec == EpochInit({}) /\ [][EpochNext]_epochVars

----------------------------------------------------------------------------
\* Properties

\* The states a state descends from, itself included.
Lineage[s \in 0 .. 100] == IF s = 0 THEN {} ELSE Lineage[mls[s].from] \cup {s}

\* Whatever a member records under a rotation is the key that rotation made:
\* two members never open or wrap under different keys of one name, however
\* their commits, Welcomes, restarts and reorganisations interleave (node.rs,
\* apply_pending_rotations, accept_welcome, restore_epoch_group).
KeysAgree ==
    \A n \in Member : \A h \in DOMAIN records[n] : key[n][h] = body[h].makes

\* "The removed identity holds only superseded keys and cannot derive the new
\* one" (node.rs, revoke_epoch_member): once a rotation has excluded x, x holds
\* the key of no rotation that descends from it, until somebody delivers x a
\* key again.
RevokedHoldNothingNew ==
    \A s, t \in DOMAIN mls :
        /\ mls[s].who # Nil /\ ~mls[s].adds
        /\ s \in Lineage[t]
        /\ ~ \E u \in Lineage[t] \ Lineage[s] : mls[u].adds /\ mls[u].who = mls[s].who
        => LET x == mls[s].who IN
           \A h \in DOMAIN records[x] : body[h].makes = t => <<x, h>> \in given

\* Everyone whom the founder's log calls a member is where the founder is.
InStep ==
    \A n \in Member : IsMember(Founder, n) =>
        /\ held[n] = held[Founder] /\ canonical[n] = canonical[Founder]
        /\ group[n].active /\ group[n].at = group[Founder].at
=============================================================================

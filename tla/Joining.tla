------------------------------ MODULE Joining ------------------------------
(***************************************************************************)
(* Invites, the join handshake and the waiting room                        *)
(* (crates/intranet-invite/src, and request_join, answer_join, decide_join *)
(* and screen_join of MemberNode in crates/intranet-transport/src/node.rs) *)
(* over the replicas of the governance log.                                *)
(*                                                                         *)
(* What a chain replays to is kept with its last entry, in `after`: the    *)
(* admins, who hold manage-membership:everyone and approve-node, the       *)
(* members of `everyone` with the invite each came by, and the admission   *)
(* mode.  GovernanceState has all of it.  An invite is its contents.       *)
(***************************************************************************)
EXTENDS GovernanceLog, Functions

CONSTANTS
    Joiner,         \* identities that are not members at the start
    Invite,         \* the invites that have been issued
    Last,           \* bound: the clock stops here
    MaxAsks,        \* bound: requests sent
    MaxDrops        \* bound: requests and answers lost

Tickets == [issuer : Node, subject : Joiner \cup {Nil}, issued : Nat, expires : Nat,
            uses : Nat, fit : BOOLEAN]

ASSUME JoiningAssumption ==
    /\ Joiner \cap Node = {} /\ IsFiniteSet(Joiner) /\ IsFiniteSet(Node)
    /\ Invite \subseteq Tickets /\ Nil \notin Invite
    /\ {Last, MaxAsks, MaxDrops} \subseteq Nat
    /\ Hash # {} /\ Params # {} /\ 0..Last \subseteq Time /\ "MembershipChange" \in Kind

VARIABLES
    body,       \* body[h]: what entry h changes, and who signed it
    after,      \* after[h]: what the chain that ends in h replays to, or Nil
    room,       \* room[n]: the waiting room of n, by joiner
    inbound,    \* inbound[n]: requests screened and not yet answered
    post,       \* requests and answers on their way
    asks,       \* how many requests were sent
    drops,      \* how many requests and answers were lost
    clock       \* the clock that answer_join is given

logVars == <<entry, held, finalized, body, after>>
askVars == <<inbound, post, asks, drops>>
joinVars == <<logVars, room, askVars, clock>>

----------------------------------------------------------------------------
\* Governance

\* governance_state: None when the log is empty or does not replay.
StateOf(n) == IF held[n] = {} THEN Nil ELSE after[CanonicalTip(n)]

\* is_member, of `everyone` and of the admins' group.
IsMember(state, x) == x \in state.admins \cup DOMAIN state.via

\* authorize, of the bodies used here: all of them need an admin.
Authorized(state, author) == author \in state.admins

Mutate(state, b) ==
    CASE b.type = "Add"    -> [state EXCEPT !.via = [x \in DOMAIN @ \cup {b.who} |->
                                                        IF x = b.who THEN b.invite ELSE @[x]]]
      [] b.type = "Remove" -> [state EXCEPT !.via = Restrict(@, DOMAIN @ \ {b.who})]
      [] b.type = "Strip"  -> [state EXCEPT !.admins = @ \ {b.who}]
      [] b.type = "Mode"   -> [state EXCEPT !.mode = b.mode]

\* apply: an entry that is not authorized ends the replay for good.
Apply(state, b) == IF state = Nil THEN Nil
                   ELSE IF ~Authorized(state, b.by) THEN Nil
                   ELSE Mutate(state, b)

\* invite_use_count: the members who came by the invite.
InviteUseCount(state, invite) ==
    Cardinality({x \in DOMAIN state.via : state.via[x] = invite})

\* Node n signs b on top of its canonical tip and inserts it.  insert does not
\* ask for authorization.
Insert(n, h, b) ==
    LET tip == CanonicalTip(n)
        next == Apply(after[tip], b)
    IN  /\ h \in Hash \ Signed
        /\ Sign(n, h, tip, "MembershipChange", clock, next # Nil, entry[tip].fin)
        /\ body' = [x \in Signed \cup {h} |-> IF x = h THEN b ELSE body[x]]
        /\ after' = [x \in Signed \cup {h} |-> IF x = h THEN next ELSE after[x]]
        /\ finalized' = finalized

\* WaitingRoom::reconcile, in the state the log has after the step.
ReconcileRoom(n) ==
    LET state == StateOf(n)' IN
    IF state = Nil THEN room[n]
    ELSE Restrict(room[n], {x \in DOMAIN room[n] : ~IsMember(state, x)})

\* append_entry.
AppendEntry(n, h, b) ==
    /\ Insert(n, h, b)
    /\ room' = [room EXCEPT ![n] = ReconcileRoom(n)]
    /\ UNCHANGED <<askVars, clock>>

\* Mutation: the waiting room is left as it is.
SyncFromOnly(n, m) ==
    /\ ~(held[m] \subseteq held[n])
    /\ held' = [held EXCEPT ![n] = @ \cup held[m]]
    /\ UNCHANGED <<entry, finalized, body, after, room, askVars, clock>>

\* n pulls from m (GovernanceSync).
SyncFrom(n, m) ==
    /\ ~(held[m] \subseteq held[n])
    /\ held' = [held EXCEPT ![n] = @ \cup held[m]]
    /\ UNCHANGED <<entry, finalized, body, after>>
    /\ room' = [room EXCEPT ![n] = ReconcileRoom(n)]
    /\ UNCHANGED <<askVars, clock>>

\* An admin admits, removes, strips an admin or changes the mode.
Administer(n, h) ==
    /\ StateOf(n) # Nil /\ n \in StateOf(n).admins
    /\ \/ \E x \in Joiner :
             \/ /\ ~IsMember(StateOf(n), x)
                /\ AppendEntry(n, h, [type |-> "Add", who |-> x, invite |-> Nil, by |-> n])
             \/ /\ IsMember(StateOf(n), x)
                /\ AppendEntry(n, h, [type |-> "Remove", who |-> x, by |-> n])
       \/ \E m \in StateOf(n).admins \ {n} :
             AppendEntry(n, h, [type |-> "Strip", who |-> m, by |-> n])
       \/ \E mode \in {"AutoAdmit", "ExplicitIntake"} \ {StateOf(n).mode} :
             AppendEntry(n, h, [type |-> "Mode", mode |-> mode, by |-> n])

----------------------------------------------------------------------------
\* Invites

\* Mutation: the last use is had twice.
ValidateOneMore(invite, x, state, now) ==
    /\ invite.fit
    /\ invite.issued <= now /\ now <= invite.expires
    /\ invite.subject \in {Nil, x}
    /\ invite.issuer \in state.admins
    /\ InviteUseCount(state, invite) <= invite.uses

\* Invite::validate.  An invite is fit when its signature verifies, it names
\* this network and it has an address to dial.
Validate(invite, x, state, now) ==
    /\ invite.fit
    /\ invite.issued <= now /\ now <= invite.expires
    /\ invite.subject \in {Nil, x}
    /\ invite.issuer \in state.admins
    /\ InviteUseCount(state, invite) < invite.uses

----------------------------------------------------------------------------
\* The waiting room

\* admit_to_waiting: who is there already keeps the place and the arrival.
AdmitToWaiting(r, x, invite, now) ==
    [y \in DOMAIN r \cup {x} |-> IF y \in DOMAIN r THEN r[y] ELSE [invite |-> invite, at |-> now]]

ArrivalsForInvite(n, invite) == Cardinality({x \in DOMAIN room[n] : room[n][x].invite = invite})

----------------------------------------------------------------------------
\* The handshake

\* request_join.
RequestJoin(x, n, invite) ==
    /\ asks < MaxAsks
    /\ asks' = asks + 1
    /\ post' = post \cup {[type |-> "Request", id |-> asks + 1, from |-> x, to |-> n, invite |-> invite]}
    /\ UNCHANGED <<logVars, room, inbound, drops, clock>>

Reply(m, answer) == [type |-> answer, id |-> m.id, to |-> m.from, by |-> m.to]

\* Mutation: the use that is asked for is counted already.
ScreenRefusalEarly(m) ==
    LET state == StateOf(m.to) IN
    IF state = Nil THEN "CannotEvaluate"
    ELSE IF IsMember(state, m.from) THEN "AlreadyMember"
    ELSE IF ArrivalsForInvite(m.to, m.invite) + InviteUseCount(state, m.invite) + 1 >= m.invite.uses
         THEN "InviteCeiling" ELSE "None"

\* screen_join: what is refused on arrival.
ScreenRefusal(m) ==
    LET state == StateOf(m.to) IN
    IF state = Nil THEN "CannotEvaluate"
    ELSE IF IsMember(state, m.from) THEN "AlreadyMember"
    ELSE LET used == InviteUseCount(state, m.invite)
             remaining == IF used > m.invite.uses THEN 0 ELSE m.invite.uses - used
         IN  IF ArrivalsForInvite(m.to, m.invite) >= remaining THEN "InviteCeiling" ELSE "None"

\* A request arrives: refused at once, or surfaced for a decision.
ScreenJoin(m) ==
    LET ok == ScreenRefusal(m) = "None" IN
    /\ m.type = "Request"
    /\ post' = (post \ {m}) \cup IF ok THEN {} ELSE {Reply(m, "Refused")}
    /\ inbound' = [inbound EXCEPT ![m.to] = @ \cup IF ok THEN {m} ELSE {}]
    /\ UNCHANGED <<logVars, room, asks, drops, clock>>

\* answer_join takes the request and sends what decide_join says.
Answer(n, m, answer) ==
    /\ inbound' = [inbound EXCEPT ![n] = @ \ {m}]
    /\ post' = post \cup {Reply(m, answer)}
    /\ UNCHANGED <<asks, drops, clock>>

\* decide_join without a state, or with an invite that does not validate.
DecideRefused(n, m) ==
    /\ m \in inbound[n]
    /\ StateOf(n) # Nil => ~Validate(m.invite, m.from, StateOf(n), clock)
    /\ Answer(n, m, "Refused")
    /\ UNCHANGED <<logVars, room>>

\* decide_join under auto-admit: the entry is inserted, whoever n is.
DecideAdmitted(n, m, h) ==
    /\ m \in inbound[n]
    /\ StateOf(n) # Nil /\ StateOf(n).mode = "AutoAdmit"
    /\ Validate(m.invite, m.from, StateOf(n), clock)
    /\ Insert(n, h, [type |-> "Add", who |-> m.from, invite |-> m.invite, by |-> n])
    /\ room' = [room EXCEPT ![n] = Restrict(@, DOMAIN @ \ {m.from})]
    /\ Answer(n, m, "Admitted")

\* decide_join under explicit intake.
DecideWaiting(n, m) ==
    /\ m \in inbound[n]
    /\ StateOf(n) # Nil /\ StateOf(n).mode = "ExplicitIntake"
    /\ Validate(m.invite, m.from, StateOf(n), clock)
    /\ room' = [room EXCEPT ![n] = AdmitToWaiting(@, m.from, m.invite, clock)]
    /\ Answer(n, m, "Waiting")
    /\ UNCHANGED logVars

\* decline_join.
DeclineJoin(n, m) ==
    /\ m \in inbound[n]
    /\ Answer(n, m, "Refused")
    /\ UNCHANGED <<logVars, room>>

\* The joiner hears the answer.
HearAnswer(m) ==
    /\ m.type # "Request"
    /\ post' = post \ {m}
    /\ UNCHANGED <<logVars, room, inbound, asks, drops, clock>>

\* A message is lost with its connection.
LosePost(m) ==
    /\ drops < MaxDrops
    /\ post' = post \ {m}
    /\ drops' = drops + 1
    /\ UNCHANGED <<logVars, room, inbound, asks, clock>>

ClockTick ==
    /\ clock < Last
    /\ clock' = clock + 1
    /\ UNCHANGED <<logVars, room, askVars>>

----------------------------------------------------------------------------

\* Every node is a member; some are admins.
JoinInit(admins, mode) ==
    LET genesis == CHOOSE h \in Hash : \A g \in Hash : h <= g
        start == [admins |-> admins, mode |-> mode, via |-> [x \in Node \ admins |-> Nil]]
        fin == CHOOSE p \in Params : TRUE
    IN  /\ entry = [h \in {genesis} |-> NewEntry(h, Nil, "Genesis", 0, TRUE, fin)]
        /\ held = [n \in Node |-> {genesis}] /\ finalized = [n \in Node |-> Nil]
        /\ body = [h \in {genesis} |-> [type |-> "Genesis", by |-> Nil]]
        /\ after = [h \in {genesis} |-> start]
        /\ room = [n \in Node |-> [x \in {} |-> Nil]]
        /\ inbound = [n \in Node |-> {}]
        /\ post = {} /\ asks = 0 /\ drops = 0 /\ clock = 0

Deciding(n) == \E m \in inbound[n] :
    \/ DecideRefused(n, m)
    \/ \E h \in Hash : DecideAdmitted(n, m, h)
    \/ DecideWaiting(n, m)
    \/ DeclineJoin(n, m)

JoinNext ==
    \/ \E n \in Node : \/ Deciding(n)
                       \/ \E h \in Hash : Administer(n, h)
                       \/ \E m \in Node : SyncFrom(n, m)
                       \/ \E x \in Joiner, t \in Invite : RequestJoin(x, n, t)
    \/ \E m \in post : ScreenJoin(m) \/ HearAnswer(m) \/ LosePost(m)
    \/ ClockTick

JoinSpec == /\ \E admins \in SUBSET Node, mode \in {"AutoAdmit", "ExplicitIntake"} :
                  admins # {} /\ JoinInit(admins, mode)
            /\ [][JoinNext]_joinVars

----------------------------------------------------------------------------
\* Properties

\* "it is the state at *use* that must govern" (invite/lib.rs, issue): whatever
\* was appended, synced or stripped since the request was screened, an admission
\* rests on an invite that was good for the joiner, at the time of the entry and
\* in the very state the entry extends (node.rs, decide_join).
AdmissionsWereValid ==
    \A h \in Signed : body[h].type = "Add" /\ body[h].invite # Nil =>
        LET invite == body[h].invite
            state == after[Parent(h)]
        IN  /\ state # Nil /\ state.mode = "AutoAdmit"
            /\ invite.issuer \in state.admins
            /\ invite.subject \in {Nil, body[h].who}
            /\ invite.issued <= entry[h].time /\ entry[h].time <= invite.expires

\* However admitters race and their branches meet, no chain holds more members
\* by an invite than the invite allows (state.rs, invite_use_count: "every node
\* reaches the same answer").
InviteWithinLimit ==
    \A h \in Signed : after[h] # Nil =>
        \A t \in Invite : InviteUseCount(after[h], t) <= t.uses

\* "The waiting room ... has to follow the log" (node.rs,
\* reconcile_waiting_room): a step that brings entries leaves no member waiting.
RoomFollowsLog ==
    [][\A n \in Node : held'[n] # held[n] /\ StateOf(n)' # Nil =>
          \A x \in DOMAIN room'[n] : ~IsMember(StateOf(n)', x)]_joinVars

\* A place in the waiting room, its arrival and its invite are kept until the log
\* makes the joiner a member: asking again by any invite changes nothing
\* (waiting_room.rs, admit_to_waiting).
PlacesAreKept ==
    [][\A n \in Node : \A x \in DOMAIN room[n] :
          IF x \in DOMAIN room'[n] THEN room'[n][x] = room[n][x]
          ELSE StateOf(n)' # Nil => IsMember(StateOf(n)', x)]_joinVars

----------------------------------------------------------------------------
\* What a comment says of the handshake that it does not do

\* "An auto-admit network still requires the *admitting* node to be authorized to
\* admit" (node.rs, decide_join): a joiner that is told Admitted was admitted by
\* an entry that replays.
AdmitterIsAuthorized ==
    \A h \in Signed : body[h].type = "Add" => after[h] # Nil

\* Every admission by an invite rests on an invite that was good for it in the
\* state it extends, and no chain holds more members by an invite than it allows
\* (node.rs, decide_join; state.rs, invite_use_count).
InvitesGovern == AdmissionsWereValid /\ InviteWithinLimit

\* A place in the waiting room is kept as it is until the log makes the joiner a
\* member, and is gone from the step that brings the news (waiting_room.rs,
\* admit_to_waiting; node.rs, reconcile_waiting_room).
RoomFollowsTheLog == RoomFollowsLog /\ PlacesAreKept
=============================================================================

----------------------------- MODULE MCJoining -----------------------------
(* Small instances of Joining for TLC.  Every history is about one question: *)
(* admitters that race under auto-admit, the waiting rooms under explicit    *)
(* intake, or joiners that keep asking one admin.                            *)
EXTENDS Joining

CONSTANTS j1, j2

VARIABLE focus      \* the question of this history

MCParams == {[k |-> 2, t |-> 0]}

\* A bearer invite for one use, one for two that runs out,
\* one for j2 alone, and one for two.
Single == [issuer |-> 1, subject |-> Nil, issued |-> 0, expires |-> 1, uses |-> 1, fit |-> TRUE]
Double == [issuer |-> 2, subject |-> Nil, issued |-> 0, expires |-> 0, uses |-> 2, fit |-> TRUE]
Named == [issuer |-> 1, subject |-> j2, issued |-> 1, expires |-> 1, uses |-> 1, fit |-> TRUE]
Pair == [Single EXCEPT !.uses = 2]
MCInvite == {Single, Double, Named, Pair}

FreeHash == {h \in Hash \ Signed : \A g \in Hash \ Signed : h <= g}

MCInit ==
    /\ focus \in {"auto", "intake", "through"}
    /\ CASE focus = "auto" -> JoinInit({1, 2}, "AutoAdmit")
         [] focus = "intake" -> JoinInit({1, 2}, "ExplicitIntake")
         [] focus = "through" -> JoinInit({1}, "AutoAdmit")

\* An answer on its way changes nothing until it is heard, and hearing it nothing
\* else, so it is heard before the next step.
Quiet == \A m \in post : m.type = "Request"
Heard == \E m \in post : HearAnswer(m)

\* Two admins admit by invites of both while one of them administers.
AutoNext ==
    \/ Heard
    \/ /\ Quiet
       /\ \/ \E h \in FreeHash : Administer(1, h)
          \/ \E n \in Node : \E m \in inbound[n] :
                DecideRefused(n, m) \/ \E h \in IF n = 1 THEN FreeHash ELSE Hash : DecideAdmitted(n, m, h)
          \/ \E n, m \in Node : SyncFrom(n, m)
          \/ asks < 2 /\ \E n \in Node, t \in {Single, Double} :
                RequestJoin(IF asks = 0 THEN j1 ELSE j2, n, t)
          \/ \E m \in post : ScreenJoin(m)
          \/ ClockTick

\* Two admins keep waiting rooms.
IntakeNext ==
    \/ Heard
    \/ /\ Quiet
       /\ \/ \E h \in FreeHash \ {4} : Administer(1, h)
          \/ \E n \in Node : \E m \in inbound[n] :
                \/ DecideRefused(n, m) \/ DecideWaiting(n, m)
                \/ \E h \in FreeHash \ {4} : DecideAdmitted(n, m, h)
          \/ SyncFrom(2, 1)
          \/ asks < 3 /\ \E t \in IF asks < 2 THEN {Single} ELSE {Single, Named} :
                RequestJoin(IF asks = 0 THEN j1 ELSE j2, 2, t)
          \/ \E m \in post : ScreenJoin(m)
          \/ ClockTick

\* The joiners ask the only admin by one invite until they are members there.
Undecided(x) == \E m \in post \cup inbound[1] : (m.type = "Request" /\ m.from = x) \/ m.to = x

ThroughProgress ==
    \/ Heard
    \/ \E m \in inbound[1] : DecideRefused(1, m) \/ \E h \in FreeHash : DecideAdmitted(1, m, h)
    \/ SyncFrom(2, 1)
    \/ \E x \in Joiner : ~IsMember(StateOf(1), x) /\ ~Undecided(x) /\ RequestJoin(x, 1, Pair)
    \/ \E m \in post : ScreenJoin(m)

ThroughNext ==
    \/ ThroughProgress
    \/ \E m \in post : LosePost(m)
    \/ \E n \in Node : \E m \in inbound[n] : drops < MaxDrops /\ m.id = 1 /\ DeclineJoin(n, m)

\* Nothing is left for the joiners or the nodes to do.
ThroughIdle ==
    /\ post = {} /\ inbound[1] = {} /\ held[1] \subseteq held[2]
    /\ asks = MaxAsks \/ \A x \in Joiner : IsMember(StateOf(1), x)

MCNext ==
    /\ focus' = focus
    /\ \/ focus = "auto" /\ AutoNext
       \/ focus = "intake" /\ IntakeNext
       \/ focus = "through" /\ ThroughNext

\* The nodes and the joiners keep running: WF of ThroughProgress, with ENABLED
\* written out.
MCSpec == /\ MCInit /\ [][MCNext]_<<joinVars, focus>>
          /\ []<>(focus # "through" \/ ThroughIdle) \/ []<><<ThroughProgress>>_joinVars

\* Joiners that hold an invite with room for them, and ask again when a request or
\* an answer is lost or they are turned away, all become members everywhere
\* (node.rs, request_join, screen_join, answer_join).
JoinersGetThrough ==
    <>[](focus = "through" => \A n \in Node, x \in Joiner : IsMember(StateOf(n), x))
=============================================================================

-------------------------- MODULE ConnectionTiers --------------------------
(***************************************************************************)
(* How a member node follows the connections to its peers: the tier it     *)
(* records for each, the deadline on relayed circuits and the closing of   *)
(* circuits (crates/intranet-transport/src/node.rs, next_swarm_event and   *)
(* close_stale_circuit).                                                   *)
(*                                                                         *)
(* The swarm opens and closes connections and runs the hole-punch          *)
(* negotiation (DCUtR) on its own; the node learns of it from events, and  *)
(* by then the connections may have moved on.  The events about one peer   *)
(* come in the order they happened in; those about two peers in any order. *)
(* A relayed_since instant is kept as the time passed since then, counted  *)
(* up to the deadline.                                                     *)
(***************************************************************************)
EXTENDS Integers, Sequences, FiniteSetsExt

CONSTANTS
    Peer,       \* the peers, ordered like the keys of the node's maps
    None,       \* Option::None
    Deadline,   \* circuit_upgrade_deadline, in ticks
    MaxEvents   \* bound: connection and negotiation events of the swarm

ASSUME PeerAssumption == Peer \subseteq Nat /\ None \notin Nat \cup {"Direct", "HolePunched", "Relayed"}
ASSUME DeadlineAssumption == Deadline \in Nat \ {0} /\ MaxEvents \in Nat

VARIABLES
    circuits,       \* circuits[p]: open relayed connections to p, in the swarm
    directs,        \* directs[p]: open direct connections to p, in the swarm
    queue,          \* queue[p]: swarm events about p the node has not handled
    happened,       \* how many events the swarm has started of its own accord
    tiers,          \* tiers[p]: the recorded tier, or None
    relayedFor,     \* relayedFor[p]: ticks since relayed_since[p], or None
    report          \* the NodeEvent that the last step returned, or None

swarm == <<circuits, directs, happened>>
vars == <<circuits, directs, queue, happened, tiers, relayedFor, report>>

Tier == {"Direct", "HolePunched", "Relayed"}

Established(p, relayed) == [type |-> "Established", peer |-> p, relayed |-> relayed]
Closed(p, left) == [type |-> "Closed", peer |-> p, left |-> left]
Dcutr(p, ok) == [type |-> "Dcutr", peer |-> p, ok |-> ok]

Event(p) == [type : {"Established"}, peer : {p}, relayed : BOOLEAN]
            \cup [type : {"Closed"}, peer : {p}, left : Nat]
            \cup [type : {"Dcutr"}, peer : {p}, ok : BOOLEAN]

NodeEvent(type, p) == [type |-> type, peer |-> p]

Open(p) == circuits[p] + directs[p]

\* The events left once the first about p is handled.
Rest(p) == [queue EXCEPT ![p] = Tail(@)]

----------------------------------------------------------------------------
\* The swarm

\* Something the swarm does by itself, seen by the node as the event e.
Happens(e) == /\ happened < MaxEvents
              /\ happened' = happened + 1
              /\ queue' = [queue EXCEPT ![e.peer] = Append(@, e)]
              /\ report' = None
              /\ UNCHANGED <<tiers, relayedFor>>

OpenCircuit(p) == /\ circuits' = [circuits EXCEPT ![p] = @ + 1]
                  /\ UNCHANGED directs
                  /\ Happens(Established(p, TRUE))

OpenDirect(p) == /\ directs' = [directs EXCEPT ![p] = @ + 1]
                 /\ UNCHANGED circuits
                 /\ Happens(Established(p, FALSE))

\* A connection ends: the peer, an idle timeout, the relay's own ceiling.
CloseCircuit(p) == /\ circuits[p] > 0
                   /\ circuits' = [circuits EXCEPT ![p] = @ - 1]
                   /\ UNCHANGED directs
                   /\ Happens(Closed(p, Open(p) - 1))

CloseDirect(p) == /\ directs[p] > 0
                  /\ directs' = [directs EXCEPT ![p] = @ - 1]
                  /\ UNCHANGED circuits
                  /\ Happens(Closed(p, Open(p) - 1))

\* The negotiation over a circuit ends and says so.  It reports this node's own
\* dial, so it may fail although the other side's dial got through.  It may
\* also end without a word, which is no step at all.
Negotiated(p, ok) == /\ circuits[p] > 0
                     /\ ok => directs[p] > 0
                     /\ UNCHANGED <<circuits, directs>>
                     /\ Happens(Dcutr(p, ok))

----------------------------------------------------------------------------
\* What the node asks of the swarm

\* The closing of the connections of p, one after another.
ClosedOneByOne(p) == [i \in 1 .. Open(p) |-> Closed(p, Open(p) - i)]

\* disconnect_peer_id for all the peers in S, with the events q still to handle.
DisconnectPeers(S, q) ==
    /\ circuits' = [p \in Peer |-> IF p \in S THEN 0 ELSE circuits[p]]
    /\ directs' = [p \in Peer |-> IF p \in S THEN 0 ELSE directs[p]]
    /\ queue' = [p \in Peer |-> IF p \in S THEN q[p] \o ClosedOneByOne(p) ELSE q[p]]
    /\ UNCHANGED happened

----------------------------------------------------------------------------
\* The node's event loop

\* A circuit to a peer that is already reached directly is closed again; it may
\* have gone by itself meanwhile.
RefuseCircuit(p) ==
    /\ IF circuits[p] > 0
       THEN /\ circuits' = [circuits EXCEPT ![p] = @ - 1]
            /\ queue' = [queue EXCEPT ![p] = Append(Tail(@), Closed(p, Open(p) - 1))]
       ELSE /\ queue' = Rest(p)
            /\ UNCHANGED circuits
    /\ report' = None
    /\ UNCHANGED <<directs, happened, tiers, relayedFor>>

\* The tier recorded for p when a connection is established.
TierAfter(p, relayed) ==
    IF relayed THEN "Relayed"
    ELSE IF tiers[p] \in {"HolePunched", "Relayed"} THEN "HolePunched"
    ELSE "Direct"

\* Mutation: a circuit to a peer reached directly is recorded like any other.
HandleEstablishedAlike(e) ==
    LET p    == e.peer
        tier == TierAfter(p, e.relayed)
    IN  /\ tiers' = [tiers EXCEPT ![p] = tier]
        /\ relayedFor' = [relayedFor EXCEPT ![p] =
                             IF tier # "Relayed" THEN None
                             ELSE IF @ = None THEN 0 ELSE @]
        /\ queue' = Rest(p)
        /\ report' = NodeEvent("Connected", p)
        /\ UNCHANGED swarm

\* ConnectionEstablished.
HandleEstablished(e) ==
    LET p    == e.peer
        tier == TierAfter(p, e.relayed)
    IN  IF e.relayed /\ tiers[p] \notin {None, "Relayed"}
        THEN RefuseCircuit(p)
        ELSE /\ tiers' = [tiers EXCEPT ![p] = tier]
             /\ relayedFor' = [relayedFor EXCEPT ![p] =
                                  IF tier # "Relayed" THEN None
                                  ELSE IF @ = None THEN 0 ELSE @]
             /\ queue' = Rest(p)
             /\ report' = NodeEvent("Connected", p)
             /\ UNCHANGED swarm

\* ConnectionClosed: only the last connection to go is a disconnect.
HandleClosed(e) ==
    /\ queue' = Rest(e.peer)
    /\ IF e.left > 0
       THEN /\ report' = None
            /\ UNCHANGED <<tiers, relayedFor>>
       ELSE /\ tiers' = [tiers EXCEPT ![e.peer] = None]
            /\ relayedFor' = [relayedFor EXCEPT ![e.peer] = None]
            /\ report' = NodeEvent("Disconnected", e.peer)
    /\ UNCHANGED swarm

\* dcutr::Event.
HandleDcutr(e) ==
    /\ relayedFor' = [relayedFor EXCEPT ![e.peer] = None]
    /\ IF e.ok
       THEN /\ tiers' = [tiers EXCEPT ![e.peer] = "HolePunched"]
            /\ report' = NodeEvent("HolePunchSucceeded", e.peer)
            /\ queue' = Rest(e.peer)
            /\ UNCHANGED swarm
       ELSE /\ tiers' = [tiers EXCEPT ![e.peer] = None]
            /\ report' = NodeEvent("HolePunchFailed", e.peer)
            /\ DisconnectPeers({e.peer}, Rest(e.peer))

HandleEvent ==
    \E p \in Peer :
        /\ queue[p] # <<>>
        /\ LET e == Head(queue[p])
           IN  \/ e.type = "Established" /\ HandleEstablished(e)
               \/ e.type = "Closed" /\ HandleClosed(e)
               \/ e.type = "Dcutr" /\ HandleDcutr(e)

NothingToHandle == \A p \in Peer : queue[p] = <<>>

\* Mutation: an expired deadline is armed again.
RearmDeadlines ==
    LET expired == {p \in Peer : relayedFor[p] # None /\ relayedFor[p] >= Deadline}
    IN  /\ NothingToHandle
        /\ expired # {}
        /\ relayedFor' = [p \in Peer |-> IF p \in expired THEN 0 ELSE relayedFor[p]]
        /\ report' = None
        /\ UNCHANGED <<queue, tiers, swarm>>

\* The deadline branch of the wait, with close_stale_circuit.  A timeout only
\* wins over the swarm when the swarm has no event ready.
CloseStaleCircuits ==
    LET expired == {p \in Peer : relayedFor[p] # None /\ relayedFor[p] >= Deadline}
        stale   == {p \in expired : tiers[p] = "Relayed"}
    IN  /\ NothingToHandle
        /\ expired # {}
        /\ relayedFor' = [p \in Peer |-> IF p \in expired THEN None ELSE relayedFor[p]]
        /\ tiers' = [p \in Peer |-> IF p \in stale THEN None ELSE tiers[p]]
        /\ DisconnectPeers(stale, queue)
        /\ report' = IF stale = {} THEN None ELSE NodeEvent("HolePunchFailed", Min(stale))

\* Time passes.
Tick ==
    /\ \E p \in Peer : relayedFor[p] # None /\ relayedFor[p] < Deadline
    /\ relayedFor' = [p \in Peer |->
                         IF relayedFor[p] = None \/ relayedFor[p] = Deadline
                         THEN relayedFor[p] ELSE relayedFor[p] + 1]
    /\ report' = None
    /\ UNCHANGED <<queue, tiers, swarm>>

Init ==
    /\ circuits = [p \in Peer |-> 0]
    /\ directs = [p \in Peer |-> 0]
    /\ queue = [p \in Peer |-> <<>>]
    /\ happened = 0
    /\ tiers = [p \in Peer |-> None]
    /\ relayedFor = [p \in Peer |-> None]
    /\ report = None

Next ==
    \/ \E p \in Peer : \/ OpenCircuit(p)
                       \/ OpenDirect(p)
                       \/ CloseCircuit(p)
                       \/ CloseDirect(p)
                       \/ \E ok \in BOOLEAN : Negotiated(p, ok)
    \/ HandleEvent
    \/ CloseStaleCircuits
    \/ Tick

\* The node keeps calling next_event and time keeps passing; nothing obliges
\* the swarm, the peers or the relay to do anything.
Fairness == WF_vars(HandleEvent) /\ WF_vars(CloseStaleCircuits) /\ WF_vars(Tick)

Spec == Init /\ [][Next]_vars /\ Fairness

----------------------------------------------------------------------------
\* Properties

TypeOK ==
    /\ circuits \in [Peer -> Nat] /\ directs \in [Peer -> Nat]
    /\ tiers \in [Peer -> Tier \cup {None}]
    /\ relayedFor \in [Peer -> (0 .. Deadline) \cup {None}]
    /\ DOMAIN queue = Peer
    /\ \A p \in Peer : queue[p] \in Seq(Event(p))

\* Once the node has handled what the swarm told it of a peer, it records a tier
\* for the peer exactly if it is connected to it: no race of closings, refusals
\* and reconnections leaves a tier behind or loses one (node.rs, the handlers of
\* ConnectionEstablished, ConnectionClosed and dcutr::Event).
TiersFollowConnections ==
    \A p \in Peer : queue[p] = <<>> => (tiers[p] # None <=> Open(p) > 0)

\* A peer is recorded as relayed exactly while its deadline runs, so no circuit
\* is without a deadline and no direct connection can be closed by one
\* (node.rs, relayed_since).
DeadlineIffRelayed ==
    \A p \in Peer : tiers[p] = "Relayed" <=> relayedFor[p] # None

\* The deadline never closes a direct connection: "one that raced it is caught
\* here rather than being disconnected after succeeding" (node.rs,
\* close_stale_circuit).
DeadlineSparesDirect == CloseStaleCircuits => directs' = directs

\* A peer recorded as relayed does not stay so, whether or not the negotiation
\* ever says how it ended (node.rs, CIRCUIT_UPGRADE_DEADLINE).
RelayedIsTemporary ==
    \A p \in Peer : tiers[p] = "Relayed" ~> tiers[p] # "Relayed"

\* Whatever order connections, refusals, negotiations and deadlines come in, the
\* record of a peer follows its connections, a deadline runs exactly while the
\* peer is relayed, and it closes no direct connection (node.rs, the connection
\* handlers and close_stale_circuit).
TiersAreRight ==
    /\ [](TypeOK /\ TiersFollowConnections /\ DeadlineIffRelayed)
    /\ [][DeadlineSparesDirect]_vars
=============================================================================

----------------------- MODULE ConnectionTiersProofs ------------------------
(***************************************************************************)
(* What is proved of the tiers and deadlines of connections, for any       *)
(* peers, deadline and number of events.                                   *)
(***************************************************************************)
EXTENDS ConnectionTiers, TLAPS

----------------------------------------------------------------------------
\* The deadline of ConnectionTiers runs for exactly the peers recorded as
\* relayed, for any peers, deadline and number of events.  What the events
\* still to be handled say does not matter: every handler moves the tier and the
\* deadline of its peer together.

DeadlineInv ==
    /\ tiers = [p \in Peer |-> tiers[p]]
    /\ relayedFor \in [Peer -> (0 .. Deadline) \cup {None}]
    /\ DeadlineIffRelayed

\* A step that moves the tier and the deadline of one peer, to t and d.
LEMMA OnePeer ==
    ASSUME DeadlineInv, NEW p, NEW t, NEW d \in (0 .. Deadline) \cup {None},
           tiers' = [tiers EXCEPT ![p] = t], relayedFor' = [relayedFor EXCEPT ![p] = d],
           t = "Relayed" <=> d # None
    PROVE  DeadlineInv'
BY DEF DeadlineInv, DeadlineIffRelayed

\* ConnectionEstablished.
LEMMA EstablishedKeeps ==
    ASSUME DeadlineInv, NEW e, HandleEstablished(e)
    PROVE  DeadlineInv'
<1> DEFINE p == e.peer
           t == TierAfter(p, e.relayed)
           d == IF t # "Relayed" THEN None ELSE IF relayedFor[p] = None THEN 0 ELSE relayedFor[p]
<1>1. CASE e.relayed /\ tiers[p] \notin {None, "Relayed"}
  BY <1>1 DEF HandleEstablished, RefuseCircuit, DeadlineInv, DeadlineIffRelayed
<1>2. CASE ~(e.relayed /\ tiers[p] \notin {None, "Relayed"})
  <2>1. tiers' = [tiers EXCEPT ![p] = t]
    BY <1>2 DEF HandleEstablished
  <2>2. relayedFor' = [relayedFor EXCEPT ![p] =
           IF t # "Relayed" THEN None ELSE IF @ = None THEN 0 ELSE @]
    BY <1>2 DEF HandleEstablished
  <2> HIDE DEF p, t
  <2>3. CASE p \in Peer
    <3>1. relayedFor' = [relayedFor EXCEPT ![p] = d]
      BY <2>2, <2>3 DEF DeadlineInv
    <3>2. relayedFor[p] \in (0 .. Deadline) \cup {None}
      BY <2>3 DEF DeadlineInv
    <3>3. d \in (0 .. Deadline) \cup {None} /\ (t = "Relayed" <=> d # None)
      BY <3>2, PeerAssumption, DeadlineAssumption
    <3> HIDE DEF d
    <3> QED BY <2>1, <3>1, <3>3, OnePeer
  <2>4. CASE p \notin Peer
    BY <2>1, <2>2, <2>4 DEF DeadlineInv, DeadlineIffRelayed
  <2> QED BY <2>3, <2>4
<1> QED BY <1>1, <1>2

\* Every step keeps the invariant.
LEMMA DeadlineInvNext == DeadlineInv /\ [Next]_vars => DeadlineInv'
<1> SUFFICES ASSUME DeadlineInv, [Next]_vars PROVE DeadlineInv'
  OBVIOUS
<1> USE PeerAssumption
<1>1. ASSUME UNCHANGED <<tiers, relayedFor>> PROVE DeadlineInv'
  BY <1>1 DEF DeadlineInv, DeadlineIffRelayed
<1>2. ASSUME NEW e, Happens(e) PROVE DeadlineInv'
  BY <1>1, <1>2 DEF Happens
<1>3. ASSUME NEW p \in Peer, \/ OpenCircuit(p) \/ OpenDirect(p) \/ CloseCircuit(p) \/ CloseDirect(p)
                             \/ \E ok \in BOOLEAN : Negotiated(p, ok)
      PROVE  DeadlineInv'
  BY <1>2, <1>3 DEF OpenCircuit, OpenDirect, CloseCircuit, CloseDirect, Negotiated
<1>4. ASSUME NEW e, HandleEstablished(e) PROVE DeadlineInv'
  BY <1>4, EstablishedKeeps
<1>5. ASSUME NEW e, HandleClosed(e) PROVE DeadlineInv'
  <2>1. CASE e.left > 0
    BY <1>1, <1>5, <2>1 DEF HandleClosed
  <2>2. CASE ~(e.left > 0)
    <3>1. tiers' = [tiers EXCEPT ![e.peer] = None] /\ relayedFor' = [relayedFor EXCEPT ![e.peer] = None]
      BY <1>5, <2>2 DEF HandleClosed
    <3>2. None # "Relayed"
      OBVIOUS
    <3> QED BY <3>1, <3>2, OnePeer
  <2> QED BY <2>1, <2>2
<1>6. ASSUME NEW e, HandleDcutr(e) PROVE DeadlineInv'
  <2>1. PICK t \in {"HolePunched", None} :
           tiers' = [tiers EXCEPT ![e.peer] = t] /\ relayedFor' = [relayedFor EXCEPT ![e.peer] = None]
    BY <1>6 DEF HandleDcutr
  <2>2. t # "Relayed"
    OBVIOUS
  <2> QED BY <2>1, <2>2, OnePeer
<1>7. CASE HandleEvent
  BY <1>4, <1>5, <1>6, <1>7 DEF HandleEvent
<1>8. CASE CloseStaleCircuits
  <2> DEFINE expired == {p \in Peer : relayedFor[p] # None /\ relayedFor[p] >= Deadline}
             stale   == {p \in expired : tiers[p] = "Relayed"}
  <2>1. /\ relayedFor' = [p \in Peer |-> IF p \in expired THEN None ELSE relayedFor[p]]
        /\ tiers' = [p \in Peer |-> IF p \in stale THEN None ELSE tiers[p]]
    BY <1>8 DEF CloseStaleCircuits
  <2>2. stale = expired /\ expired \subseteq Peer
    BY DEF DeadlineInv, DeadlineIffRelayed
  <2> HIDE DEF expired, stale
  <2> QED BY <2>1, <2>2 DEF DeadlineInv, DeadlineIffRelayed
<1>9. CASE Tick
  <2>1. /\ relayedFor' = [p \in Peer |-> IF relayedFor[p] = None \/ relayedFor[p] = Deadline
                                         THEN relayedFor[p] ELSE relayedFor[p] + 1]
        /\ tiers' = tiers
    BY <1>9 DEF Tick
  <2>2. ASSUME NEW p \in Peer
        PROVE  relayedFor'[p] \in (0 .. Deadline) \cup {None} /\ (relayedFor'[p] = None <=> relayedFor[p] = None)
    <3>1. relayedFor[p] \in (0 .. Deadline) \cup {None}
      BY DEF DeadlineInv
    <3> QED BY <2>1, <3>1, DeadlineAssumption
  <2> QED BY <2>1, <2>2 DEF DeadlineInv, DeadlineIffRelayed
<1>10. CASE UNCHANGED vars
  BY <1>1, <1>10 DEF vars
<1> QED BY <1>3, <1>7, <1>8, <1>9, <1>10 DEF Next

----------------------------------------------------------------------------
\* The record of a peer follows its connections.  Between two events of the
\* swarm the node lags behind, so the invariant is about what the events still
\* to be handled will make of the record: a record without a connection has the
\* last closing ahead of it, a connection without a record its establishing, and
\* a direct connection is either recorded for good or announced by an event that
\* no last closing follows.

\* What an event says of the connections to its peer.
Begins(e) == e.type = "Established"
BeginsDirect(e) == e.type = "Established" /\ ~e.relayed
Ends(e) == e.type = "Closed" /\ e.left = 0
Lives(e) == e.type = "Established" \/ (e.type = "Dcutr" /\ e.ok)

\* The recorded tier t of a peer follows its c circuits and d direct connections,
\* once the events q are handled.
Follows(q, c, d, t) ==
    /\ c + d = 0 => /\ t # None => \E j \in DOMAIN q : Ends(q[j])
                    /\ \A i \in DOMAIN q : Lives(q[i]) => \E j \in DOMAIN q : i < j /\ Ends(q[j])
    /\ c + d > 0 => /\ t = None => \E j \in DOMAIN q : Begins(q[j])
                    /\ \A i \in DOMAIN q : Ends(q[i]) => \E j \in DOMAIN q : i < j /\ Begins(q[j])
    /\ d > 0 => \/ t \in {"Direct", "HolePunched"} /\ \A i \in DOMAIN q : ~Ends(q[i])
                \/ \E j \in DOMAIN q : /\ BeginsDirect(q[j])
                                       /\ \A i \in DOMAIN q : i > j => ~Ends(q[i])

ConnInv ==
    /\ circuits \in [Peer -> Nat] /\ directs \in [Peer -> Nat]
    /\ tiers \in [Peer -> Tier \cup {None}]
    /\ queue = [p \in Peer |-> queue[p]]
    /\ \A p \in Peer : queue[p] \in Seq(Event(p))
    /\ \A p \in Peer : Follows(queue[p], circuits[p], directs[p], tiers[p])

\* A new event at the end of the queue.
LEMMA AppendKeeps ==
    ASSUME NEW S, NEW q \in Seq(S), NEW e \in S, NEW t,
           NEW c \in Nat, NEW d \in Nat, NEW c2 \in Nat, NEW d2 \in Nat,
           Follows(q, c, d, t), d2 > 0 => d > 0 \/ BeginsDirect(e),
           \/ Begins(e) /\ c2 + d2 > 0
           \/ e.type = "Closed" /\ e.left = c2 + d2 /\ c + d > 0
           \/ e.type = "Dcutr" /\ (e.ok => c2 + d2 > 0) /\ c2 = c /\ d2 = d
    PROVE  Follows(Append(q, e), c2, d2, t)
<1> DEFINE r == Append(q, e)
<1>1. /\ DOMAIN q = 1 .. Len(q) /\ Len(q) \in Nat /\ DOMAIN r = 1 .. Len(q) + 1
      /\ \A i \in DOMAIN q : i \in DOMAIN r /\ r[i] = q[i]
      /\ Len(q) + 1 \in DOMAIN r /\ r[Len(q) + 1] = e
      /\ \A i \in DOMAIN r : i \in DOMAIN q \/ i = Len(q) + 1
      /\ \A i \in DOMAIN q : i < Len(q) + 1
  OBVIOUS
<1> HIDE DEF r
<1>2. c2 + d2 = 0 => /\ t # None => \E j \in DOMAIN r : Ends(r[j])
                     /\ \A i \in DOMAIN r : Lives(r[i]) => \E j \in DOMAIN r : i < j /\ Ends(r[j])
  <2> SUFFICES ASSUME c2 + d2 = 0
               PROVE  /\ t # None => \E j \in DOMAIN r : Ends(r[j])
                      /\ \A i \in DOMAIN r : Lives(r[i]) => \E j \in DOMAIN r : i < j /\ Ends(r[j])
    OBVIOUS
  <2>1. CASE e.type = "Closed"
    <3>1. Ends(e) /\ ~Lives(e)
      BY <2>1 DEF Ends, Lives, Begins
    <3> QED BY <1>1, <3>1
  <2>2. CASE e.type = "Dcutr"
    <3>1. ~Lives(e) /\ c + d = 0
      BY <2>2 DEF Lives, Begins
    <3> QED BY <1>1, <3>1 DEF Follows
  <2> QED BY <2>1, <2>2 DEF Begins
<1>3. c2 + d2 > 0 => /\ t = None => \E j \in DOMAIN r : Begins(r[j])
                     /\ \A i \in DOMAIN r : Ends(r[i]) => \E j \in DOMAIN r : i < j /\ Begins(r[j])
  <2> SUFFICES ASSUME c2 + d2 > 0
               PROVE  /\ t = None => \E j \in DOMAIN r : Begins(r[j])
                      /\ \A i \in DOMAIN r : Ends(r[i]) => \E j \in DOMAIN r : i < j /\ Begins(r[j])
    OBVIOUS
  <2>1. ~Ends(e)
    BY DEF Ends, Begins
  <2>2. CASE Begins(e)
    BY <1>1, <2>1, <2>2
  <2>3. CASE ~Begins(e)
    <3>1. c + d > 0
      BY <2>3
    <3> QED BY <1>1, <2>1, <3>1 DEF Follows
  <2> QED BY <2>2, <2>3
<1>4. d2 > 0 => \/ t \in {"Direct", "HolePunched"} /\ \A i \in DOMAIN r : ~Ends(r[i])
                \/ \E j \in DOMAIN r : /\ BeginsDirect(r[j])
                                       /\ \A i \in DOMAIN r : i > j => ~Ends(r[i])
  <2> SUFFICES ASSUME d2 > 0
               PROVE  \/ t \in {"Direct", "HolePunched"} /\ \A i \in DOMAIN r : ~Ends(r[i])
                      \/ \E j \in DOMAIN r : /\ BeginsDirect(r[j])
                                             /\ \A i \in DOMAIN r : i > j => ~Ends(r[i])
    OBVIOUS
  <2>1. ~Ends(e)
    BY DEF Ends, Begins
  <2>2. CASE BeginsDirect(e)
    BY <1>1, <2>2
  <2>3. CASE d > 0
    BY <1>1, <2>1, <2>3 DEF Follows
  <2> QED BY <2>2, <2>3
<1> QED BY <1>2, <1>3, <1>4 DEF Follows, r

\* The event at the head of the queue is handled, and t2 recorded.
LEMMA TailKeeps ==
    ASSUME NEW S, NEW q \in Seq(S), q # <<>>, NEW t, NEW t2, NEW c \in Nat, NEW d \in Nat,
           Follows(q, c, d, t),
           LET e == Head(q) IN
           \/ /\ Begins(e) /\ t2 # None
              /\ BeginsDirect(e) \/ t \in {"Direct", "HolePunched"} => t2 \in {"Direct", "HolePunched"}
           \/ e.type = "Closed" /\ t2 = (IF e.left > 0 THEN t ELSE None) /\ e.left \in Nat
           \/ e.type = "Dcutr" /\ e.ok /\ t2 = "HolePunched" /\ t2 # None
    PROVE  Follows(Tail(q), c, d, t2)
<1> DEFINE r == Tail(q)
           e == Head(q)
<1>1. /\ DOMAIN q = 1 .. Len(q) /\ Len(q) \in Nat /\ DOMAIN r = 1 .. Len(q) - 1
      /\ \A i \in DOMAIN r : i \in Nat /\ i + 1 \in DOMAIN q /\ r[i] = q[i + 1]
      /\ \A i \in DOMAIN q : i # 1 => i - 1 \in DOMAIN r /\ q[i] = r[i - 1]
      /\ 1 \in DOMAIN q /\ q[1] = e
      /\ \A i \in DOMAIN q : i # 1 => i > 1
  BY SMTT(40)
<1>2. \/ /\ Begins(e) /\ t2 # None
         /\ BeginsDirect(e) \/ t \in {"Direct", "HolePunched"} => t2 \in {"Direct", "HolePunched"}
      \/ e.type = "Closed" /\ t2 = (IF e.left > 0 THEN t ELSE None) /\ e.left \in Nat
      \/ e.type = "Dcutr" /\ e.ok /\ t2 = "HolePunched" /\ t2 # None
  OBVIOUS
<1> HIDE DEF r, e
<1>3. c + d = 0 => /\ t2 # None => \E j \in DOMAIN r : Ends(r[j])
                   /\ \A i \in DOMAIN r : Lives(r[i]) => \E j \in DOMAIN r : i < j /\ Ends(r[j])
  <2> SUFFICES ASSUME c + d = 0
               PROVE  /\ t2 # None => \E j \in DOMAIN r : Ends(r[j])
                      /\ \A i \in DOMAIN r : Lives(r[i]) => \E j \in DOMAIN r : i < j /\ Ends(r[j])
    OBVIOUS
  <2>1. ASSUME NEW i \in DOMAIN r, Lives(r[i]) PROVE \E j \in DOMAIN r : i < j /\ Ends(r[j])
    <3>1. PICK k \in DOMAIN q : i + 1 < k /\ Ends(q[k])
      BY <1>1, <2>1 DEF Follows
    <3>2. k - 1 \in DOMAIN r /\ Ends(r[k - 1]) /\ i < k - 1
      BY <1>1, <3>1
    <3> QED BY <3>2
  <2>2. ASSUME t2 # None PROVE \E j \in DOMAIN r : Ends(r[j])
    <3>1. \E k \in DOMAIN q : k # 1 /\ Ends(q[k])
      <4>1. CASE Lives(e)
        BY <4>1, <1>1 DEF Follows
      <4>2. CASE ~Lives(e)
        <5>1. e.type = "Closed" /\ e.left > 0 /\ t2 = t
          BY <4>2, <1>2, <2>2 DEF Lives, Begins
        <5>2. ~Ends(e)
          BY <5>1 DEF Ends
        <5> QED BY <5>1, <5>2, <2>2, <1>1 DEF Follows
      <4> QED BY <4>1, <4>2
    <3> QED BY <3>1, <1>1
  <2> QED BY <2>1, <2>2
<1>4. c + d > 0 => /\ t2 = None => \E j \in DOMAIN r : Begins(r[j])
                   /\ \A i \in DOMAIN r : Ends(r[i]) => \E j \in DOMAIN r : i < j /\ Begins(r[j])
  <2> SUFFICES ASSUME c + d > 0
               PROVE  /\ t2 = None => \E j \in DOMAIN r : Begins(r[j])
                      /\ \A i \in DOMAIN r : Ends(r[i]) => \E j \in DOMAIN r : i < j /\ Begins(r[j])
    OBVIOUS
  <2>1. ASSUME NEW i \in DOMAIN r, Ends(r[i]) PROVE \E j \in DOMAIN r : i < j /\ Begins(r[j])
    <3>1. PICK k \in DOMAIN q : i + 1 < k /\ Begins(q[k])
      BY <1>1, <2>1 DEF Follows
    <3>2. k - 1 \in DOMAIN r /\ Begins(r[k - 1]) /\ i < k - 1
      BY <1>1, <3>1
    <3> QED BY <3>2
  <2>2. ASSUME t2 = None PROVE \E j \in DOMAIN r : Begins(r[j])
    <3>1. e.type = "Closed" /\ (Ends(e) \/ t = None)
      BY <1>2, <2>2 DEF Ends
    <3>2. ~Begins(e)
      BY <3>1 DEF Begins
    <3>3. \E k \in DOMAIN q : k # 1 /\ Begins(q[k])
      BY <3>1, <3>2, <1>1 DEF Follows
    <3> QED BY <3>3, <1>1
  <2> QED BY <2>1, <2>2
<1>5. d > 0 => \/ t2 \in {"Direct", "HolePunched"} /\ \A i \in DOMAIN r : ~Ends(r[i])
               \/ \E j \in DOMAIN r : /\ BeginsDirect(r[j])
                                      /\ \A i \in DOMAIN r : i > j => ~Ends(r[i])
  <2> SUFFICES ASSUME d > 0
               PROVE  \/ t2 \in {"Direct", "HolePunched"} /\ \A i \in DOMAIN r : ~Ends(r[i])
                      \/ \E j \in DOMAIN r : /\ BeginsDirect(r[j])
                                             /\ \A i \in DOMAIN r : i > j => ~Ends(r[i])
    OBVIOUS
  <2>1. CASE t \in {"Direct", "HolePunched"} /\ \A i \in DOMAIN q : ~Ends(q[i])
    <3>1. ~Ends(e)
      BY <1>1, <2>1
    <3>2. t2 \in {"Direct", "HolePunched"}
      BY <1>2, <2>1, <3>1 DEF Ends
    <3> QED BY <1>1, <2>1, <3>2
  <2>2. ASSUME NEW k \in DOMAIN q, BeginsDirect(q[k]), \A i \in DOMAIN q : i > k => ~Ends(q[i])
        PROVE  \/ t2 \in {"Direct", "HolePunched"} /\ \A i \in DOMAIN r : ~Ends(r[i])
               \/ \E j \in DOMAIN r : /\ BeginsDirect(r[j])
                                      /\ \A i \in DOMAIN r : i > j => ~Ends(r[i])
    <3>1. CASE k = 1
      <4>1. BeginsDirect(e)
        BY <1>1, <2>2, <3>1
      <4>2. t2 \in {"Direct", "HolePunched"}
        BY <1>2, <4>1 DEF BeginsDirect
      <4>3. \A i \in DOMAIN r : ~Ends(r[i])
        BY <1>1, <2>2, <3>1
      <4> QED BY <4>2, <4>3
    <3>2. CASE k # 1
      <4>1. k - 1 \in DOMAIN r /\ BeginsDirect(r[k - 1])
        BY <1>1, <2>2, <3>2
      <4>2. \A i \in DOMAIN r : i > k - 1 => ~Ends(r[i])
        BY <1>1, <2>2
      <4> QED BY <4>1, <4>2
    <3> QED BY <3>1, <3>2
  <2> QED BY <2>1, <2>2 DEF Follows
<1> QED BY <1>3, <1>4, <1>5 DEF Follows, r

\* A peer is disconnected: n connections close one after another.
LEMMA EmptiedKeeps ==
    ASSUME NEW p, NEW q \in Seq(Event(p)), NEW n \in Nat,
           n = 0 => \A i \in DOMAIN q : Lives(q[i]) => \E j \in DOMAIN q : i < j /\ Ends(q[j])
    PROVE  LET r == q \o [i \in 1 .. n |-> Closed(p, n - i)]
           IN  r \in Seq(Event(p)) /\ Follows(r, 0, 0, None)
<1> DEFINE w == [i \in 1 .. n |-> Closed(p, n - i)]
           r == q \o w
<1>1. w \in Seq(Event(p)) /\ Len(w) = n /\ \A i \in 1 .. n : w[i] = Closed(p, n - i)
  <2>1. ASSUME NEW i \in 1 .. n PROVE Closed(p, n - i) \in Event(p)
    BY DEF Closed, Event
  <2> QED BY <2>1
<1> HIDE DEF w
<1>2. /\ r \in Seq(Event(p)) /\ DOMAIN q = 1 .. Len(q) /\ Len(q) \in Nat
      /\ DOMAIN r = 1 .. Len(q) + n
      /\ \A i \in DOMAIN q : i \in DOMAIN r /\ r[i] = q[i]
      /\ \A i \in DOMAIN r : i > Len(q) => i - Len(q) \in 1 .. n /\ r[i] = w[i - Len(q)]
  BY <1>1
<1> HIDE DEF r
<1>3. ASSUME NEW i \in DOMAIN r, Lives(r[i]) PROVE \E j \in DOMAIN r : i < j /\ Ends(r[j])
  <2>1. i \in DOMAIN q
    <3> SUFFICES ASSUME i > Len(q) PROVE FALSE
      BY <1>2
    <3>1. r[i].type = "Closed"
      BY <1>1, <1>2 DEF Closed
    <3> QED BY <1>3, <3>1 DEF Lives
  <2>2. CASE n = 0
    BY <1>2, <1>3, <2>1, <2>2
  <2>3. CASE n > 0
    <3>1. Len(q) + n \in DOMAIN r /\ i < Len(q) + n
      BY <1>2, <2>1, <2>3
    <3>2. r[Len(q) + n] = Closed(p, 0)
      <4>1. (Len(q) + n) - Len(q) = n /\ n - n = 0 /\ n \in 1 .. n /\ Len(q) + n > Len(q)
        BY <1>2, <2>3
      <4>2. r[Len(q) + n] = w[n]
        BY <1>2, <3>1, <4>1
      <4> QED BY <1>1, <4>1, <4>2
    <3>3. Ends(r[Len(q) + n])
      BY <3>2 DEF Ends, Closed
    <3> QED BY <3>1, <3>3
  <2> QED BY <2>2, <2>3
<1>4. Follows(r, 0, 0, None)
  BY <1>3 DEF Follows
<1> QED BY <1>2, <1>4 DEF r, w

\* A step about one peer.
LEMMA OneQueue ==
    ASSUME ConnInv, NEW p \in Peer, NEW q \in Seq(Event(p)), NEW c \in Nat, NEW d \in Nat,
           NEW t \in Tier \cup {None},
           Follows(q, c, d, t),
           queue' = [queue EXCEPT ![p] = q], circuits' = [circuits EXCEPT ![p] = c],
           directs' = [directs EXCEPT ![p] = d], tiers' = [tiers EXCEPT ![p] = t]
    PROVE  ConnInv'
<1>1. /\ circuits' \in [Peer -> Nat] /\ directs' \in [Peer -> Nat]
      /\ tiers' \in [Peer -> Tier \cup {None}]
      /\ queue' = [x \in Peer |-> queue'[x]]
  BY DEF ConnInv
<1>2. ASSUME NEW x \in Peer
      PROVE  queue'[x] \in Seq(Event(x)) /\ Follows(queue'[x], circuits'[x], directs'[x], tiers'[x])
  <2>1. CASE x = p
    <3>1. queue'[p] = q /\ circuits'[p] = c /\ directs'[p] = d /\ tiers'[p] = t
      BY DEF ConnInv
    <3> QED BY <2>1, <3>1
  <2>2. CASE x # p
    <3>1. /\ queue'[x] = queue[x] /\ circuits'[x] = circuits[x]
          /\ directs'[x] = directs[x] /\ tiers'[x] = tiers[x]
      BY <2>2 DEF ConnInv
    <3>2. queue[x] \in Seq(Event(x)) /\ Follows(queue[x], circuits[x], directs[x], tiers[x])
      BY DEF ConnInv
    <3> QED BY <3>1, <3>2
  <2> QED BY <2>1, <2>2
<1>3. \A x \in Peer : (Follows(queue[x], circuits[x], directs[x], tiers[x]))'
  BY <1>2 DEF Follows
<1> QED BY <1>1, <1>2, <1>3 DEF ConnInv

\* Something the swarm does by itself.
LEMMA SwarmKeeps ==
    ASSUME ConnInv, NEW p \in Peer,
           \/ OpenCircuit(p) \/ OpenDirect(p) \/ CloseCircuit(p) \/ CloseDirect(p)
           \/ \E ok \in BOOLEAN : Negotiated(p, ok)
    PROVE  ConnInv'
<1> DEFINE q == queue[p]
           c == circuits[p]
           d == directs[p]
           t == tiers[p]
<1>1. q \in Seq(Event(p)) /\ c \in Nat /\ d \in Nat /\ t \in Tier \cup {None} /\ Follows(q, c, d, t)
  BY DEF ConnInv
<1>2. ASSUME NEW e \in Event(p), NEW c2 \in Nat, NEW d2 \in Nat, Happens(e),
             circuits' = [circuits EXCEPT ![p] = c2], directs' = [directs EXCEPT ![p] = d2],
             d2 > 0 => d > 0 \/ BeginsDirect(e),
             \/ Begins(e) /\ c2 + d2 > 0
             \/ e.type = "Closed" /\ e.left = c2 + d2 /\ c + d > 0
             \/ e.type = "Dcutr" /\ (e.ok => c2 + d2 > 0) /\ c2 = c /\ d2 = d
      PROVE  ConnInv'
  <2>1. Append(q, e) \in Seq(Event(p))
    BY <1>1
  <2>2. e.peer = p
    BY DEF Event
  <2>3. queue' = [queue EXCEPT ![p] = Append(q, e)] /\ tiers' = [tiers EXCEPT ![p] = t]
    BY <1>2, <2>2 DEF Happens, ConnInv
  <2> HIDE DEF q, c, d, t
  <2>4. Follows(Append(q, e), c2, d2, t)
    BY <1>1, <1>2, AppendKeeps
  <2> QED BY <1>1, <1>2, <2>1, <2>3, <2>4, OneQueue
<1>3. /\ \A b \in BOOLEAN : /\ Established(p, b) \in Event(p) /\ Begins(Established(p, b))
                            /\ BeginsDirect(Established(p, b)) <=> ~b
      /\ \A n \in Nat : /\ Closed(p, n) \in Event(p)
                        /\ Closed(p, n).type = "Closed" /\ Closed(p, n).left = n
      /\ \A b \in BOOLEAN : /\ Dcutr(p, b) \in Event(p)
                            /\ Dcutr(p, b).type = "Dcutr" /\ Dcutr(p, b).ok = b
  BY DEF Established, Closed, Dcutr, Event, Begins, BeginsDirect
<1>4. circuits = [circuits EXCEPT ![p] = c] /\ directs = [directs EXCEPT ![p] = d]
  BY DEF ConnInv
<1>5. CASE OpenCircuit(p)
  <2>1. c + 1 \in Nat /\ c + 1 + d > 0
    BY <1>1
  <2> QED BY <1>1, <1>2, <1>3, <1>4, <1>5, <2>1 DEF OpenCircuit
<1>6. CASE OpenDirect(p)
  <2>1. d + 1 \in Nat /\ c + (d + 1) > 0
    BY <1>1
  <2> QED BY <1>1, <1>2, <1>3, <1>4, <1>6, <2>1 DEF OpenDirect
<1>7. CASE CloseCircuit(p)
  <2> DEFINE n == c - 1
             f == Closed(p, (c + d) - 1)
  <2>1. c > 0
    BY <1>7 DEF CloseCircuit
  <2>2. n \in Nat /\ (c + d) - 1 = n + d /\ (c + d) - 1 \in Nat /\ c + d > 0
    BY <1>1, <2>1
  <2>3. circuits' = [circuits EXCEPT ![p] = n] /\ directs' = directs /\ Happens(f)
    BY <1>7 DEF CloseCircuit, Open
  <2>4. f \in Event(p) /\ f.type = "Closed" /\ f.left = n + d
    BY <1>3, <2>2
  <2> HIDE DEF c, d, n, f
  <2> QED BY <1>1, <1>2, <1>4, <2>2, <2>3, <2>4
<1>8. CASE CloseDirect(p)
  <2>1. d > 0
    BY <1>8 DEF CloseDirect
  <2>2. d - 1 \in Nat /\ (c + d) - 1 = c + (d - 1) /\ (c + d) - 1 \in Nat /\ c + d > 0
    BY <1>1, <2>1
  <2>3. directs' = [directs EXCEPT ![p] = d - 1] /\ circuits' = circuits /\ Happens(Closed(p, (c + d) - 1))
    BY <1>8 DEF CloseDirect, Open
  <2> HIDE DEF c, d
  <2> QED BY <1>1, <1>2, <1>3, <1>4, <2>1, <2>2, <2>3, ZenonT(60)
<1>9. ASSUME NEW ok \in BOOLEAN, Negotiated(p, ok) PROVE ConnInv'
  <2>1. c + d > 0
    BY <1>1, <1>9 DEF Negotiated
  <2> QED BY <1>1, <1>2, <1>3, <1>4, <1>9, <2>1 DEF Negotiated
<1> QED BY <1>5, <1>6, <1>7, <1>8, <1>9

\* The node handles an event.
LEMMA HandleKeeps ==
    ASSUME ConnInv, HandleEvent
    PROVE  ConnInv'
<1>1. PICK p \in Peer : /\ queue[p] # <<>>
                        /\ LET e == Head(queue[p])
                           IN  \/ e.type = "Established" /\ HandleEstablished(e)
                               \/ e.type = "Closed" /\ HandleClosed(e)
                               \/ e.type = "Dcutr" /\ HandleDcutr(e)
  BY DEF HandleEvent
<1> DEFINE q == queue[p]
           c == circuits[p]
           d == directs[p]
           t == tiers[p]
           e == Head(q)
<1>2. q \in Seq(Event(p)) /\ c \in Nat /\ d \in Nat /\ t \in Tier \cup {None} /\ Follows(q, c, d, t)
  BY DEF ConnInv
<1>3. e \in Event(p) /\ Tail(q) \in Seq(Event(p))
  BY <1>1, <1>2
<1>4. e.peer = p
  BY <1>3 DEF Event
<1>5. circuits = [circuits EXCEPT ![p] = c] /\ directs = [directs EXCEPT ![p] = d] /\ tiers = [tiers EXCEPT ![p] = t]
  BY DEF ConnInv
<1>6. Rest(p) = [queue EXCEPT ![p] = Tail(q)]
  BY DEF Rest, ConnInv
<1>7. ASSUME NEW t2 \in Tier \cup {None}, queue' = Rest(p), UNCHANGED <<circuits, directs>>,
             tiers' = [tiers EXCEPT ![p] = t2],
             \/ /\ Begins(e) /\ t2 # None
                /\ BeginsDirect(e) \/ t \in {"Direct", "HolePunched"} => t2 \in {"Direct", "HolePunched"}
             \/ e.type = "Closed" /\ t2 = (IF e.left > 0 THEN t ELSE None) /\ e.left \in Nat
             \/ e.type = "Dcutr" /\ e.ok /\ t2 = "HolePunched" /\ t2 # None
      PROVE  ConnInv'
  <2>1. Follows(Tail(q), c, d, t2)
    BY <1>1, <1>2, <1>7, TailKeeps
  <2> QED BY <1>2, <1>3, <1>5, <1>6, <1>7, <2>1, OneQueue
<1>8. CASE e.type = "Established" /\ HandleEstablished(e)
  <2>1. e.relayed \in BOOLEAN /\ Begins(e) /\ (BeginsDirect(e) <=> ~e.relayed)
    BY <1>3, <1>8 DEF Event, Begins, BeginsDirect
  <2>2. CASE e.relayed /\ t \notin {None, "Relayed"}
    <3>1. RefuseCircuit(p)
      BY <1>4, <1>8, <2>2 DEF HandleEstablished
    <3>2. t \in {"Direct", "HolePunched"} /\ t # None
      BY <1>2, <2>2 DEF Tier
    <3>3. CASE c = 0
      <4>1. queue' = Rest(p) /\ UNCHANGED <<circuits, directs, tiers>>
        BY <3>1, <3>3 DEF RefuseCircuit
      <4> QED BY <1>2, <1>5, <1>7, <2>1, <3>2, <4>1
    <3>4. CASE c # 0
      <4> DEFINE n == c - 1
                 f == Closed(p, n + d)
      <4>1. c > 0 /\ n \in Nat /\ n + d \in Nat /\ (c + d) - 1 = n + d
        BY <1>2, <3>4
      <4>2. /\ circuits' = [circuits EXCEPT ![p] = n] /\ directs' = directs /\ tiers' = tiers
            /\ queue' = [queue EXCEPT ![p] = Append(Tail(q), Closed(p, (c + d) - 1))]
        BY <3>1, <4>1 DEF RefuseCircuit, Open, ConnInv
      <4>3. Follows(Tail(q), c, d, t)
        BY <1>1, <1>2, <2>1, <3>2, TailKeeps
      <4>4. f \in Event(p) /\ f.type = "Closed" /\ f.left = n + d
        BY <4>1 DEF Closed, Event
      <4>5. queue' = [queue EXCEPT ![p] = Append(Tail(q), f)]
        BY <4>1, <4>2
      <4>6. c + d > 0
        BY <1>2, <3>4
      <4> HIDE DEF q, c, d, t, n, f
      <4>7. Follows(Append(Tail(q), f), n, d, t)
        BY <1>2, <1>3, <4>1, <4>3, <4>4, <4>6, AppendKeeps
      <4>8. Append(Tail(q), f) \in Seq(Event(p))
        BY <1>3, <4>4
      <4> QED BY <1>2, <1>5, <4>1, <4>2, <4>5, <4>7, <4>8, OneQueue
    <3> QED BY <3>3, <3>4
  <2>3. CASE ~(e.relayed /\ t \notin {None, "Relayed"})
    <3> DEFINE t2 == TierAfter(p, e.relayed)
    <3>1. /\ tiers' = [tiers EXCEPT ![p] = t2] /\ queue' = Rest(p)
          /\ UNCHANGED <<circuits, directs>>
      BY <1>4, <1>8, <2>3 DEF HandleEstablished, swarm
    <3>2. t2 \in Tier \cup {None} /\ t2 # None
      BY PeerAssumption DEF TierAfter, Tier
    <3>3. BeginsDirect(e) \/ t \in {"Direct", "HolePunched"} => t2 \in {"Direct", "HolePunched"}
      BY <2>1, <2>3, PeerAssumption DEF TierAfter
    <3> HIDE DEF t2
    <3> QED BY <1>7, <2>1, <3>1, <3>2, <3>3
  <2> QED BY <2>2, <2>3
<1>9. CASE e.type = "Closed" /\ HandleClosed(e)
  <2>1. e.left \in Nat
    BY <1>3, <1>9 DEF Event
  <2>2. CASE e.left > 0
    <3>1. queue' = Rest(p) /\ UNCHANGED <<circuits, directs, tiers>>
      BY <1>4, <1>9, <2>2 DEF HandleClosed, swarm
    <3> QED BY <1>2, <1>5, <1>7, <1>9, <2>1, <2>2, <3>1
  <2>3. CASE ~(e.left > 0)
    <3>1. /\ queue' = Rest(p) /\ UNCHANGED <<circuits, directs>>
          /\ tiers' = [tiers EXCEPT ![p] = None]
      BY <1>4, <1>9, <2>3 DEF HandleClosed, swarm
    <3> QED BY <1>2, <1>7, <1>9, <2>1, <2>3, <3>1
  <2> QED BY <2>2, <2>3
<1>10. CASE e.type = "Dcutr" /\ HandleDcutr(e)
  <2>1. e.ok \in BOOLEAN
    BY <1>3, <1>10 DEF Event
  <2>2. CASE e.ok
    <3>1. /\ queue' = Rest(p) /\ UNCHANGED <<circuits, directs>>
          /\ tiers' = [tiers EXCEPT ![p] = "HolePunched"]
      BY <1>4, <1>10, <2>2 DEF HandleDcutr, swarm
    <3>2. "HolePunched" \in Tier \cup {None} /\ "HolePunched" # None
      BY PeerAssumption DEF Tier
    <3> QED BY <1>2, <1>7, <1>10, <2>2, <3>1, <3>2
  <2>3. CASE ~e.ok
    <3> DEFINE r == Tail(q) \o [i \in 1 .. c + d |-> Closed(p, (c + d) - i)]
    <3>1. /\ DisconnectPeers({p}, Rest(p))
          /\ tiers' = [tiers EXCEPT ![p] = None]
      BY <1>4, <1>10, <2>3 DEF HandleDcutr
    <3>2. /\ circuits' = [circuits EXCEPT ![p] = 0] /\ directs' = [directs EXCEPT ![p] = 0]
          /\ queue' = [queue EXCEPT ![p] = r]
      <4>1. /\ circuits' = [x \in Peer |-> IF x \in {p} THEN 0 ELSE circuits[x]]
            /\ directs' = [x \in Peer |-> IF x \in {p} THEN 0 ELSE directs[x]]
            /\ queue' = [x \in Peer |-> IF x \in {p} THEN Rest(p)[x] \o ClosedOneByOne(x) ELSE Rest(p)[x]]
        BY <3>1 DEF DisconnectPeers
      <4>2. ClosedOneByOne(p) = [i \in 1 .. c + d |-> Closed(p, (c + d) - i)]
        BY DEF ClosedOneByOne, Open
      <4>3. Rest(p)[p] = Tail(q) /\ \A x \in Peer : x # p => Rest(p)[x] = queue[x]
        BY DEF Rest, ConnInv
      <4>4. queue' = [x \in Peer |-> IF x = p THEN r ELSE queue[x]]
        BY <4>1, <4>2, <4>3
      <4> HIDE DEF r, q, c, d
      <4> QED BY <4>1, <4>4 DEF ConnInv
    <3>3. c + d \in Nat
      BY <1>2
    <3>4. ASSUME c + d = 0
          PROVE  \A i \in DOMAIN Tail(q) : Lives(Tail(q)[i]) => \E j \in DOMAIN Tail(q) : i < j /\ Ends(Tail(q)[j])
      <4> SUFFICES ASSUME NEW i \in DOMAIN Tail(q), Lives(Tail(q)[i])
                   PROVE  \E j \in DOMAIN Tail(q) : i < j /\ Ends(Tail(q)[j])
        OBVIOUS
      <4>0. q \in Seq(Event(p)) /\ q # <<>>
        BY <1>1, <1>2
      <4> HIDE DEF q, c, d
      <4>1. /\ \A k \in DOMAIN Tail(q) : k \in Nat /\ k + 1 \in DOMAIN q /\ Tail(q)[k] = q[k + 1]
            /\ \A k \in DOMAIN q : k # 1 => k - 1 \in DOMAIN Tail(q) /\ q[k] = Tail(q)[k - 1] /\ k \in Nat
        BY <4>0
      <4>2. PICK k \in DOMAIN q : i + 1 < k /\ Ends(q[k])
        BY <1>2, <3>4, <4>1 DEF Follows
      <4>3. k - 1 \in DOMAIN Tail(q) /\ Ends(Tail(q)[k - 1]) /\ i < k - 1
        BY <4>1, <4>2
      <4> QED BY <4>3
    <3>5. r \in Seq(Event(p)) /\ Follows(r, 0, 0, None)
      <4> DEFINE n == c + d
                 u == Tail(q)
      <4>1. n \in Nat /\ u \in Seq(Event(p))
        BY <3>3, <1>3
      <4>2. n = 0 => \A i \in DOMAIN u : Lives(u[i]) => \E j \in DOMAIN u : i < j /\ Ends(u[j])
        BY <3>4
      <4> HIDE DEF n, u
      <4>3. LET v == u \o [i \in 1 .. n |-> Closed(p, n - i)]
            IN  v \in Seq(Event(p)) /\ Follows(v, 0, 0, None)
        BY <4>1, <4>2, EmptiedKeeps
      <4> QED BY <4>3 DEF n, u
    <3> HIDE DEF r
    <3> QED BY <3>1, <3>2, <3>5, OneQueue
  <2> QED BY <2>1, <2>2, <2>3
<1> QED BY <1>1, <1>8, <1>9, <1>10

\* The deadline closes circuits.
LEMMA StaleKeeps ==
    ASSUME ConnInv, CloseStaleCircuits
    PROVE  ConnInv' /\ directs' = directs
<1> DEFINE expired == {p \in Peer : relayedFor[p] # None /\ relayedFor[p] >= Deadline}
           stale   == {p \in expired : tiers[p] = "Relayed"}
<1>1. /\ NothingToHandle /\ DisconnectPeers(stale, queue)
      /\ tiers' = [p \in Peer |-> IF p \in stale THEN None ELSE tiers[p]]
  BY DEF CloseStaleCircuits
<1>2. \A p \in stale : p \in Peer /\ tiers[p] = "Relayed"
  OBVIOUS
<1> HIDE DEF stale
<1>3. /\ circuits' = [p \in Peer |-> IF p \in stale THEN 0 ELSE circuits[p]]
      /\ directs' = [p \in Peer |-> IF p \in stale THEN 0 ELSE directs[p]]
      /\ queue' = [p \in Peer |-> IF p \in stale THEN queue[p] \o ClosedOneByOne(p) ELSE queue[p]]
  BY <1>1 DEF DisconnectPeers
<1>4. ASSUME NEW p \in stale PROVE directs[p] = 0
  <2>1. queue[p] = <<>> /\ tiers[p] = "Relayed" /\ directs[p] \in Nat
    BY <1>1, <1>2 DEF NothingToHandle, ConnInv
  <2>2. Follows(<<>>, circuits[p], directs[p], "Relayed")
    BY <1>2, <2>1 DEF ConnInv
  <2> QED BY <2>1, <2>2 DEF Follows
<1>5. directs' = directs
  BY <1>3, <1>4 DEF ConnInv
<1>6. ASSUME NEW p \in Peer
      PROVE  /\ circuits'[p] \in Nat /\ directs'[p] \in Nat /\ tiers'[p] \in Tier \cup {None}
             /\ queue'[p] \in Seq(Event(p))
             /\ Follows(queue'[p], circuits'[p], directs'[p], tiers'[p])
  <2>1. queue[p] = <<>> /\ queue[p] \in Seq(Event(p)) /\ circuits[p] \in Nat /\ directs[p] \in Nat
    BY <1>1 DEF NothingToHandle, ConnInv
  <2>2. CASE p \in stale
    <3> DEFINE n == Open(p)
               u == queue[p]
    <3>1. n \in Nat /\ u \in Seq(Event(p))
      BY <2>1 DEF Open
    <3>2. n = 0 => \A i \in DOMAIN u : Lives(u[i]) => \E j \in DOMAIN u : i < j /\ Ends(u[j])
      BY <2>1
    <3>3. /\ queue'[p] = u \o [i \in 1 .. n |-> Closed(p, n - i)]
          /\ circuits'[p] = 0 /\ directs'[p] = 0 /\ tiers'[p] = None
      BY <1>1, <1>3, <2>2 DEF ClosedOneByOne
    <3> HIDE DEF n, u
    <3>4. LET v == u \o [i \in 1 .. n |-> Closed(p, n - i)]
          IN  v \in Seq(Event(p)) /\ Follows(v, 0, 0, None)
      BY <3>1, <3>2, EmptiedKeeps
    <3> QED BY <3>3, <3>4
  <2>3. CASE p \notin stale
    <3>1. /\ queue'[p] = queue[p] /\ circuits'[p] = circuits[p]
          /\ directs'[p] = directs[p] /\ tiers'[p] = tiers[p]
      BY <1>1, <1>3, <2>3
    <3>2. /\ tiers[p] \in Tier \cup {None}
          /\ Follows(queue[p], circuits[p], directs[p], tiers[p])
      BY DEF ConnInv
    <3> QED BY <2>1, <3>1, <3>2
  <2> QED BY <2>2, <2>3
<1>7. \A p \in Peer : (Follows(queue[p], circuits[p], directs[p], tiers[p]))'
  BY <1>6 DEF Follows
<1>8. /\ circuits' \in [Peer -> Nat] /\ directs' \in [Peer -> Nat]
      /\ tiers' \in [Peer -> Tier \cup {None}]
      /\ queue' = [p \in Peer |-> queue'[p]]
  BY <1>1, <1>3, <1>6
<1> QED BY <1>5, <1>6, <1>7, <1>8 DEF ConnInv

\* Every step keeps the record in line with the connections.
LEMMA ConnInvNext == ConnInv /\ [Next]_vars => ConnInv' /\ [DeadlineSparesDirect]_vars
<1> SUFFICES ASSUME ConnInv, [Next]_vars PROVE ConnInv' /\ [DeadlineSparesDirect]_vars
  OBVIOUS
<1>1. DeadlineSparesDirect
  BY StaleKeeps DEF DeadlineSparesDirect
<1>2. ASSUME UNCHANGED <<circuits, directs, queue, tiers>> PROVE ConnInv'
  BY <1>2 DEF ConnInv, Follows
<1>3. CASE Tick
  <2>1. UNCHANGED <<circuits, directs, queue, tiers>>
    BY <1>3 DEF Tick, swarm
  <2> QED BY <1>1, <1>2, <2>1
<1>4. CASE UNCHANGED vars
  BY <1>1, <1>2, <1>4 DEF vars
<1>5. ConnInv'
  BY <1>3, <1>4, SwarmKeeps, HandleKeeps, StaleKeeps DEF Next
<1> QED BY <1>1, <1>5

\* Whatever order connections, refusals, negotiations and deadlines come in, the
\* record of a peer follows its connections, a deadline runs exactly while the
\* peer is relayed, and it closes no direct connection (node.rs, next_swarm_event
\* and close_stale_circuit).
THEOREM TiersFollow == Spec => TiersAreRight
<1>1. Init => DeadlineInv
  BY PeerAssumption DEF Init, DeadlineInv, DeadlineIffRelayed
<1>2. Init => ConnInv
  <2> SUFFICES ASSUME Init PROVE ConnInv
    OBVIOUS
  <2>1. /\ circuits \in [Peer -> Nat] /\ directs \in [Peer -> Nat]
        /\ tiers \in [Peer -> Tier \cup {None}] /\ queue = [p \in Peer |-> queue[p]]
    BY DEF Init
  <2>2. ASSUME NEW p \in Peer
        PROVE  queue[p] \in Seq(Event(p)) /\ Follows(queue[p], circuits[p], directs[p], tiers[p])
    <3>1. queue[p] = <<>> /\ circuits[p] = 0 /\ directs[p] = 0 /\ tiers[p] = None
      BY DEF Init
    <3> QED BY <3>1 DEF Follows
  <2> QED BY <2>1, <2>2 DEF ConnInv
<1>3. ConnInv /\ DeadlineInv => TypeOK /\ TiersFollowConnections /\ DeadlineIffRelayed
  <2> SUFFICES ASSUME ConnInv, DeadlineInv PROVE TypeOK /\ TiersFollowConnections
    BY DEF DeadlineInv
  <2>1. TypeOK
    BY DEF ConnInv, DeadlineInv, TypeOK
  <2>2. ASSUME NEW p \in Peer, queue[p] = <<>> PROVE tiers[p] # None <=> Open(p) > 0
    <3>1. Follows(<<>>, circuits[p], directs[p], tiers[p]) /\ circuits[p] \in Nat /\ directs[p] \in Nat
      BY <2>2 DEF ConnInv
    <3> QED BY <3>1 DEF Follows, Open
  <2> QED BY <2>1, <2>2 DEF TiersFollowConnections
<1> QED BY <1>1, <1>2, <1>3, ConnInvNext, DeadlineInvNext, PTL DEF Spec, TiersAreRight
=============================================================================

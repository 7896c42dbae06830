--------------------------- MODULE RealtimeProofs ---------------------------
(***************************************************************************)
(* What is proved of the real-time services: the ceilings of the relay     *)
(* guard, and what a call session converges on.                            *)
(***************************************************************************)
EXTENDS Calls, RelayGuard, FiniteSetTheorems, TLAPS

----------------------------------------------------------------------------
\* The ceilings of RelayGuard hold for any limits, clients and invites.
\*
\* Each ceiling is tested before one reservation or one circuit is added.
\* That the test is enough needs identifiers that are not in use, since an
\* identifier that came twice would replace a reservation and leave the
\* circuits of the old one under the new: RelayTypeOK has them below the
\* counter.

Relayed == [reservation : Nat, openedAt : Nat, bytes : Nat]

GuardInv ==
    /\ RelayTypeOK
    /\ \A c \in DOMAIN relayed : relayed[c] \in Relayed
    /\ CeilingsHold
    /\ CircuitsAreReserved

----------------------------------------------------------------------------
\* Counting

\* What is drawn from a bounded set stays within its bound.
LEMMA Fewer ==
    ASSUME NEW S, NEW R, NEW k \in Nat, IsFiniteSet(S), Cardinality(S) <= k, R \subseteq S
    PROVE  Cardinality(R) <= k
<1>1. Cardinality(R) <= Cardinality(S) /\ Cardinality(R) \in Nat /\ Cardinality(S) \in Nat
  BY FS_Subset, FS_CardinalityType
<1> QED BY <1>1

\* A set below its bound has room for one element.
LEMMA OneMore ==
    ASSUME NEW S, NEW R, NEW x, NEW k \in Nat, IsFiniteSet(S), Cardinality(S) < k,
           R \subseteq S \cup {x}
    PROVE  Cardinality(R) <= k
<1>1. Cardinality(S) \in Nat
  BY FS_CardinalityType
<1>2. IsFiniteSet(S \cup {x}) /\ Cardinality(S \cup {x}) <= Cardinality(S) + 1
  <2>1. CASE x \in S
    <3>1. S \cup {x} = S
      BY <2>1
    <3>2. IsFiniteSet(S \cup {x}) /\ Cardinality(S \cup {x}) = Cardinality(S)
      BY <3>1, Zenon
    <3> QED BY <1>1, <3>2
  <2>2. CASE x \notin S
    <3>1. IsFiniteSet(S \cup {x}) /\ Cardinality(S \cup {x}) = Cardinality(S) + 1
      BY <2>2, FS_AddElement
    <3> QED BY <1>1, <3>1
  <2> QED BY <2>1, <2>2
<1>3. Cardinality(R) <= Cardinality(S \cup {x}) /\ Cardinality(R) \in Nat
      /\ Cardinality(S \cup {x}) \in Nat
  BY <1>2, FS_Subset, FS_CardinalityType
<1> QED BY <1>1, <1>2, <1>3

\* The guard holds finitely many reservations and circuits.
LEMMA GuardFinite ==
    ASSUME RelayTypeOK
    PROVE  /\ IsFiniteSet(DOMAIN reservations) /\ IsFiniteSet(DOMAIN relayed)
           /\ \A i : IsFiniteSet(HeldBy(i)) /\ IsFiniteSet(HeldUnder(i))
<1>1. IsFiniteSet(0 .. nextId - 1)
  BY FS_Interval DEF RelayTypeOK
<1>2. IsFiniteSet(DOMAIN reservations) /\ IsFiniteSet(DOMAIN relayed)
  BY <1>1, FS_Subset DEF RelayTypeOK
<1> QED BY <1>2, FS_Subset DEF HeldBy, HeldUnder

----------------------------------------------------------------------------
\* The invariant is inductive

\* Steps after which the guard holds no reservation that it did not hold, and of
\* the circuits it held the ones that are still reserved, within their bytes.
LEMMA FewerKeeps ==
    ASSUME GuardInv, DOMAIN reservations' \subseteq DOMAIN reservations,
           \A r \in DOMAIN reservations' : reservations'[r] = reservations[r],
           DOMAIN relayed' \subseteq DOMAIN relayed,
           \A c \in DOMAIN relayed' : /\ relayed'[c] \in Relayed
                                      /\ relayed'[c].bytes <= RelayLimits.bytes
                                      /\ relayed'[c].openedAt = relayed[c].openedAt
                                      /\ relayed'[c].reservation = relayed[c].reservation
                                      /\ relayed'[c].reservation \in DOMAIN reservations',
           nextId' = nextId, uptime' \in Nat, uptime <= uptime'
    PROVE  GuardInv'
<1>1. RelayTypeOK'
  BY DEF GuardInv, RelayTypeOK, Relayed
<1>2. IsFiniteSet(DOMAIN reservations) /\ IsFiniteSet(DOMAIN relayed)
  BY GuardFinite DEF GuardInv
<1>3. /\ Cardinality(DOMAIN reservations') <= RelayLimits.reservations
      /\ Cardinality(DOMAIN relayed') <= RelayLimits.circuits
  BY <1>2, Fewer, RelayAssumption DEF GuardInv, CeilingsHold
<1>4. ASSUME NEW i \in Client PROVE Cardinality(HeldBy(i)') <= RelayLimits.perIdentity
  <2>1. HeldBy(i)' \subseteq HeldBy(i)
    BY DEF HeldBy
  <2>2. IsFiniteSet(HeldBy(i)) /\ Cardinality(HeldBy(i)) <= RelayLimits.perIdentity
    BY GuardFinite DEF GuardInv, CeilingsHold
  <2> QED BY <2>1, <2>2, Fewer, RelayAssumption
<1>5. ASSUME NEW t \in Ticket PROVE Cardinality(HeldUnder(t)') <= RelayLimits.perInvite
  <2>1. HeldUnder(t)' \subseteq HeldUnder(t)
    BY DEF HeldUnder
  <2>2. IsFiniteSet(HeldUnder(t)) /\ Cardinality(HeldUnder(t)) <= RelayLimits.perInvite
    BY GuardFinite DEF GuardInv, CeilingsHold
  <2> QED BY <2>1, <2>2, Fewer, RelayAssumption
<1>6. CeilingsHold'
  BY <1>3, <1>4, <1>5 DEF CeilingsHold
<1> QED BY <1>1, <1>6 DEF GuardInv, CircuitsAreReserved

\* A reservation is granted under an identifier that is not in use.
LEMMA TryReserveKeeps ==
    ASSUME GuardInv, NEW q \in Requester, TryReserve(q)
    PROVE  GuardInv'
<1>1. /\ nextId \in Nat /\ nextId \notin DOMAIN reservations /\ nextId \notin DOMAIN relayed
      /\ DOMAIN reservations' = DOMAIN reservations \cup {nextId}
      /\ reservations'[nextId] = q
      /\ \A r \in DOMAIN reservations : reservations'[r] = reservations[r]
      /\ nextId' = nextId + 1 /\ UNCHANGED <<relayed, uptime>>
  BY DEF TryReserve, With, GuardInv, RelayTypeOK
<1>2. RelayTypeOK'
  <2>1. (DOMAIN reservations \cup DOMAIN relayed \subseteq 0 .. nextId - 1)'
    BY <1>1 DEF GuardInv, RelayTypeOK
  <2>2. (DOMAIN reservations \cap DOMAIN relayed = {})'
    BY <1>1 DEF GuardInv, RelayTypeOK
  <2> QED BY <1>1, <2>1, <2>2 DEF GuardInv, RelayTypeOK
<1>3. Cardinality(DOMAIN reservations') <= RelayLimits.reservations
  BY <1>1, GuardFinite, OneMore, RelayAssumption DEF TryReserve, GuardInv
<1>4. ASSUME NEW i \in Client PROVE Cardinality(HeldBy(i)') <= RelayLimits.perIdentity
  <2>1. IsFiniteSet(HeldBy(i)) /\ Cardinality(HeldBy(i)) <= RelayLimits.perIdentity
    BY GuardFinite DEF GuardInv, CeilingsHold
  <2>2. CASE i = q.identity
    <3>1. HeldBy(i)' \subseteq HeldBy(i) \cup {nextId}
      BY <1>1 DEF HeldBy
    <3>2. Cardinality(HeldBy(i)) < RelayLimits.perIdentity
      BY <2>2 DEF TryReserve
    <3> QED BY <2>1, <3>1, <3>2, OneMore, RelayAssumption
  <2>3. CASE i # q.identity
    <3>1. HeldBy(i)' \subseteq HeldBy(i)
      BY <1>1, <2>3 DEF HeldBy
    <3> QED BY <2>1, <3>1, Fewer, RelayAssumption
  <2> QED BY <2>2, <2>3
<1>5. ASSUME NEW t \in Ticket PROVE Cardinality(HeldUnder(t)') <= RelayLimits.perInvite
  <2>1. IsFiniteSet(HeldUnder(t)) /\ Cardinality(HeldUnder(t)) <= RelayLimits.perInvite
    BY GuardFinite DEF GuardInv, CeilingsHold
  <2>2. CASE t = q.invite
    <3>1. HeldUnder(t)' \subseteq HeldUnder(t) \cup {nextId}
      BY <1>1 DEF HeldUnder
    <3>2. Cardinality(HeldUnder(t)) < RelayLimits.perInvite
      BY <2>2, RelayAssumption DEF TryReserve
    <3> QED BY <2>1, <3>1, <3>2, OneMore, RelayAssumption
  <2>3. CASE t # q.invite
    <3>1. HeldUnder(t)' \subseteq HeldUnder(t)
      BY <1>1, <2>3 DEF HeldUnder
    <3> QED BY <2>1, <3>1, Fewer, RelayAssumption
  <2> QED BY <2>2, <2>3
<1>6. CeilingsHold'
  BY <1>1, <1>3, <1>4, <1>5 DEF CeilingsHold, GuardInv
<1> QED BY <1>1, <1>2, <1>6 DEF GuardInv, CircuitsAreReserved

\* A circuit is opened under a reservation that is held.
LEMMA OpenRelayedKeeps ==
    ASSUME GuardInv, NEW r \in DOMAIN reservations, OpenRelayed(r)
    PROVE  GuardInv'
<1>1. /\ nextId \in Nat /\ nextId \notin DOMAIN reservations /\ nextId \notin DOMAIN relayed
      /\ DOMAIN relayed' = DOMAIN relayed \cup {nextId}
      /\ relayed'[nextId] = [reservation |-> r, openedAt |-> uptime, bytes |-> 0]
      /\ \A c \in DOMAIN relayed : relayed'[c] = relayed[c]
      /\ nextId' = nextId + 1 /\ UNCHANGED <<reservations, uptime>>
  BY DEF OpenRelayed, With, GuardInv, RelayTypeOK
<1>2. r \in Nat /\ uptime \in Nat
  BY DEF GuardInv, RelayTypeOK
<1>3. RelayTypeOK'
  <2>1. (DOMAIN reservations \cup DOMAIN relayed \subseteq 0 .. nextId - 1)'
    BY <1>1 DEF GuardInv, RelayTypeOK
  <2>2. (DOMAIN reservations \cap DOMAIN relayed = {})'
    BY <1>1 DEF GuardInv, RelayTypeOK
  <2>3. \A c \in DOMAIN relayed' : /\ relayed'[c].reservation \in Nat
                                   /\ relayed'[c].bytes \in Nat
                                   /\ relayed'[c].openedAt \in 0 .. uptime'
    BY <1>1, <1>2 DEF GuardInv, RelayTypeOK
  <2> QED BY <1>1, <2>1, <2>2, <2>3 DEF GuardInv, RelayTypeOK
<1>4. Cardinality(DOMAIN relayed') <= RelayLimits.circuits
  BY <1>1, GuardFinite, OneMore, RelayAssumption DEF OpenRelayed, GuardInv
<1>5. \A c \in DOMAIN relayed' : relayed'[c] \in Relayed /\ relayed'[c].bytes <= RelayLimits.bytes
  BY <1>1, <1>2, RelayAssumption DEF GuardInv, CeilingsHold, Relayed
<1>6. CeilingsHold'
  BY <1>1, <1>4, <1>5 DEF CeilingsHold, GuardInv, HeldBy, HeldUnder
<1> QED BY <1>1, <1>3, <1>5, <1>6 DEF GuardInv, CircuitsAreReserved

\* Bytes are reported for a circuit.
LEMMA RecordBytesKeeps ==
    ASSUME GuardInv, NEW c \in DOMAIN relayed, NEW n \in ByteCounts, RecordBytes(c, n)
    PROVE  GuardInv'
<1>1. UNCHANGED <<reservations, nextId, uptime>> /\ uptime \in Nat /\ relayed[c] \in Relayed
  BY DEF RecordBytes, GuardInv, RelayTypeOK
<1>2. CASE relayed[c].bytes + n > RelayLimits.bytes
  <2>1. DOMAIN relayed' \subseteq DOMAIN relayed /\ \A d \in DOMAIN relayed' : relayed'[d] = relayed[d]
    BY <1>2 DEF RecordBytes, Without, Restrict
  <2> QED BY <1>1, <2>1, FewerKeeps DEF GuardInv, CeilingsHold, CircuitsAreReserved
<1>3. CASE ~(relayed[c].bytes + n > RelayLimits.bytes)
  <2>1. /\ DOMAIN relayed' = DOMAIN relayed
        /\ \A d \in DOMAIN relayed \ {c} : relayed'[d] = relayed[d]
        /\ relayed'[c] = [relayed[c] EXCEPT !.bytes = @ + n]
    BY <1>3 DEF RecordBytes
  <2>2. /\ relayed'[c] \in Relayed /\ relayed'[c].bytes = relayed[c].bytes + n
        /\ relayed'[c].openedAt = relayed[c].openedAt
        /\ relayed'[c].reservation = relayed[c].reservation
        /\ relayed'[c].bytes <= RelayLimits.bytes
    BY <1>1, <1>3, <2>1, RelayAssumption DEF Relayed
  <2>3. \A d \in DOMAIN relayed \ {c} : /\ relayed[d] \in Relayed
                                         /\ relayed[d].bytes <= RelayLimits.bytes
    BY DEF GuardInv, CeilingsHold
  <2>4. \A d \in DOMAIN relayed' : /\ relayed'[d] \in Relayed
                                   /\ relayed'[d].bytes <= RelayLimits.bytes
                                   /\ relayed'[d].openedAt = relayed[d].openedAt
                                   /\ relayed'[d].reservation = relayed[d].reservation
    <3> TAKE d \in DOMAIN relayed'
    <3>1. CASE d = c
      BY <2>2, <3>1
    <3>2. CASE d # c
      BY <2>1, <2>3, <3>2
    <3> QED BY <3>1, <3>2
  <2>5. \A d \in DOMAIN relayed' : relayed'[d].reservation \in DOMAIN reservations'
    BY <1>1, <2>1, <2>4 DEF GuardInv, CircuitsAreReserved
  <2> QED BY <1>1, <2>1, <2>4, <2>5, FewerKeeps
<1> QED BY <1>2, <1>3

\* The guard starts empty.
LEMMA GuardInvInit == RelayInit => GuardInv
<1> SUFFICES ASSUME RelayInit PROVE GuardInv
  OBVIOUS
<1>1. DOMAIN reservations = {} /\ DOMAIN relayed = {} /\ nextId = 0 /\ uptime = 0
  BY DEF RelayInit
<1>2. \A i : HeldBy(i) = {} /\ HeldUnder(i) = {}
  BY <1>1 DEF HeldBy, HeldUnder
<1>3. RelayTypeOK
  BY <1>1 DEF RelayTypeOK
<1>4. Cardinality({}) = 0
  BY FS_EmptySet
<1>5. CeilingsHold
  <2>1. /\ Cardinality(DOMAIN reservations) = 0 /\ Cardinality(DOMAIN relayed) = 0
        /\ \A i : Cardinality(HeldBy(i)) = 0 /\ Cardinality(HeldUnder(i)) = 0
    BY <1>1, <1>2, <1>4, Zenon
  <2> QED BY <1>1, <2>1, RelayAssumption DEF CeilingsHold
<1> QED BY <1>1, <1>3, <1>5 DEF GuardInv, CircuitsAreReserved

\* Every operation keeps the invariant.
LEMMA GuardInvNext == GuardInv /\ [RelayNext]_relayVars => GuardInv'
<1> SUFFICES ASSUME GuardInv, [RelayNext]_relayVars PROVE GuardInv'
  OBVIOUS
<1>1. ASSUME NEW q \in Requester, TryReserve(q) PROVE GuardInv'
  BY <1>1, TryReserveKeeps
<1>2. ASSUME NEW r \in DOMAIN reservations, Release(r) PROVE GuardInv'
  <2>1. /\ DOMAIN reservations' = DOMAIN reservations \ {r}
        /\ \A x \in DOMAIN reservations' : reservations'[x] = reservations[x]
        /\ DOMAIN relayed' = {c \in DOMAIN relayed : relayed[c].reservation # r}
        /\ \A c \in DOMAIN relayed' : relayed'[c] = relayed[c]
        /\ UNCHANGED <<nextId, uptime>> /\ uptime \in Nat
    BY <1>2 DEF Release, Without, Restrict, GuardInv, RelayTypeOK
  <2> QED BY <2>1, FewerKeeps DEF GuardInv, CeilingsHold, CircuitsAreReserved
<1>3. ASSUME NEW r \in DOMAIN reservations, OpenRelayed(r) PROVE GuardInv'
  BY <1>3, OpenRelayedKeeps
<1>4. ASSUME NEW c \in DOMAIN relayed, NEW n \in ByteCounts, RecordBytes(c, n) PROVE GuardInv'
  BY <1>4, RecordBytesKeeps
<1>5. ASSUME NEW S, relayed' = Without(relayed, S), UNCHANGED <<reservations, nextId, uptime>>
      PROVE  GuardInv'
  <2>1. /\ DOMAIN relayed' \subseteq DOMAIN relayed
        /\ \A c \in DOMAIN relayed' : relayed'[c] = relayed[c]
        /\ uptime \in Nat
    BY <1>5 DEF Without, Restrict, GuardInv, RelayTypeOK
  <2> QED BY <1>5, <2>1, FewerKeeps DEF GuardInv, CeilingsHold, CircuitsAreReserved
<1>6. ASSUME NEW c \in DOMAIN relayed, CloseRelayed(c) PROVE GuardInv'
  BY <1>5, <1>6 DEF CloseRelayed
<1>7. CASE ExpireCircuits
  BY <1>5, <1>7 DEF ExpireCircuits
<1>8. CASE TimePasses
  <2>1. uptime \in Nat
    BY DEF GuardInv, RelayTypeOK
  <2> QED BY <1>8, <2>1, FewerKeeps DEF TimePasses, GuardInv, CeilingsHold, CircuitsAreReserved
<1>9. CASE UNCHANGED relayVars
  <2>1. uptime \in Nat
    BY DEF GuardInv, RelayTypeOK
  <2> QED BY <1>9, <2>1, FewerKeeps DEF relayVars, GuardInv, CeilingsHold, CircuitsAreReserved
<1> QED BY <1>1, <1>2, <1>3, <1>4, <1>6, <1>7, <1>8, <1>9 DEF RelayNext

\* The books of a relay are well formed, no ceiling is passed and no circuit
\* outlives its reservation, whatever the limits (RelayGuard::try_reserve, release,
\* open_circuit, record_bytes and expire).
THEOREM RelayIsSafe == RelaySpec => []RelayIsBounded
<1>1. GuardInv => RelayIsBounded
  BY DEF GuardInv, RelayIsBounded
<1> QED BY <1>1, GuardInvInit, GuardInvNext, PTL DEF RelaySpec

----------------------------------------------------------------------------
\* What a CallSession converges on, for any participants, relays and clock.
\* The session keeps the best proposal only, so the argument needs that
\* nothing competes while no proposal is in flight: every proposal that is
\* not settled on arrival puts one in flight, and one stays in flight until
\* the handover ends and the contest with it.

IsSignal(m) ==
    /\ m.to \in Participant
    /\ m.type = "Propose" => m.body \in Proposal

CallInv ==
    /\ CallTypeOK
    /\ instant \in 0 .. MaxInstant
    /\ \A m \in signals : IsSignal(m)
    /\ contest = [p \in Participant |-> contest[p]]
    /\ \A p \in Participant : \A c \in contest[p] : c.proposal \in Proposal /\ c.at \in 0 .. MaxInstant
    /\ \A p \in Participant : session[p].inFlight = Nil => Contested(p) = {}
    /\ WinnerIsEarliest

\* What CallInv says of one participant, of its session s and of what competes, C.
Consistent(s, C) ==
    /\ s \in Session
    /\ s.pending # Nil <=> s.inFlight # Nil
    /\ s.inFlight # Nil => s.pending = s.inFlight.topology /\ s.receivedAt # Nil
    /\ s.inFlight = Nil => C = {}
    /\ s.inFlight # Nil =>
          /\ \E c \in C : c.proposal = s.inFlight /\ c.at = s.receivedAt
          /\ \A c \in C : \/ c.at > s.receivedAt
                          \/ c.at = s.receivedAt /\ c.proposal.proposer >= s.inFlight.proposer

ByParticipant ==
    /\ session = [p \in Participant |-> session[p]]
    /\ contest = [p \in Participant |-> contest[p]]
    /\ instant \in 0 .. MaxInstant
    /\ \A m \in signals : IsSignal(m)
    /\ \A p \in Participant :
          /\ \A c \in contest[p] : c.proposal \in Proposal /\ c.at \in 0 .. MaxInstant
          /\ Consistent(session[p], Contested(p))

\* The invariant, one participant at a time.
LEMMA CallInvByParticipant == CallInv <=> ByParticipant
<1>1. session \in [Participant -> Session] <=>
         session = [p \in Participant |-> session[p]] /\ \A p \in Participant : session[p] \in Session
  OBVIOUS
<1> QED BY <1>1 DEF ByParticipant, CallInv, CallTypeOK, WinnerIsEarliest, Consistent

\* A proposal competes, and the better of it and the one in flight is kept.
LEMMA ReceiveKeeps ==
    ASSUME NEW s, NEW C, NEW b \in Proposal, NEW now \in 0 .. MaxInstant,
           \A c \in C : c.proposal \in Proposal /\ c.at \in 0 .. MaxInstant,
           Consistent(s, C), ~IsSettled(s, b)
    PROVE  Consistent(ReceiveProposal(s, b, now),
                      C \cup {[proposal |-> b, at |-> now, settled |-> FALSE]})
<1> DEFINE new == [proposal |-> b, at |-> now, settled |-> FALSE]
           D == C \cup {new}
<1> SUFFICES Consistent(ReceiveProposal(s, b, now), D)
  OBVIOUS
<1>1. s \in Session /\ new.proposal = b /\ new.at = now
  BY DEF Consistent
<1>2. b.topology \in Topology /\ b.proposer \in Nat /\ b # Nil /\ b.topology # Nil
  BY CallAssumption DEF Proposal
<1>3. now \in Nat
  BY CallAssumption
<1>4. s.inFlight # Nil => /\ s.receivedAt \in Nat /\ s.inFlight \in Proposal
                          /\ s.inFlight.proposer \in Nat
  <2> SUFFICES ASSUME s.inFlight # Nil
               PROVE  /\ s.receivedAt \in Nat /\ s.inFlight \in Proposal
                      /\ s.inFlight.proposer \in Nat
    OBVIOUS
  <2>1. s.receivedAt \in 0 .. MaxInstant /\ s.inFlight \in Proposal
    BY <1>1 DEF Session, Consistent
  <2> QED BY <2>1, CallAssumption DEF Proposal
<1>5. \A c \in C : c.at \in Nat /\ c.proposal.proposer \in Nat
  BY CallAssumption DEF Proposal
<1>6. CASE s.inFlight # Nil /\ ~IncomingWins(s, b, now)
  <2>1. ReceiveProposal(s, b, now) = s
    BY <1>6 DEF ReceiveProposal
  <2>2. \/ new.at > s.receivedAt
        \/ new.at = s.receivedAt /\ new.proposal.proposer >= s.inFlight.proposer
    BY <1>1, <1>2, <1>3, <1>4, <1>6 DEF IncomingWins
  <2> HIDE DEF new
  <2> QED BY <1>6, <2>1, <2>2 DEF Consistent
<1>7. CASE ~(s.inFlight # Nil /\ ~IncomingWins(s, b, now))
  <2> DEFINE r == [s EXCEPT !.pending = b.topology, !.inFlight = b, !.receivedAt = now]
  <2>1. ReceiveProposal(s, b, now) = r
    BY <1>7 DEF ReceiveProposal
  <2>2. /\ r \in Session
        /\ r.pending = b.topology /\ r.inFlight = b /\ r.receivedAt = now
    BY <1>1, <1>2 DEF Session
  <2>3. \A c \in C : \/ c.at > now
                     \/ c.at = now /\ c.proposal.proposer >= b.proposer
    <3>1. CASE s.inFlight = Nil
      BY <3>1 DEF Consistent
    <3>2. CASE s.inFlight # Nil
      <4>1. \A c \in C : \/ c.at > s.receivedAt
                         \/ c.at = s.receivedAt /\ c.proposal.proposer >= s.inFlight.proposer
        BY <3>2 DEF Consistent
      <4> QED BY <1>2, <1>3, <1>4, <1>5, <1>7, <3>2, <4>1 DEF IncomingWins
    <3> QED BY <3>1, <3>2
  <2>4. \A c \in D : \/ c.at > now
                     \/ c.at = now /\ c.proposal.proposer >= b.proposer
    BY <1>1, <1>2, <1>3, <2>3
  <2>5. now # Nil
    BY CallAssumption
  <2> HIDE DEF r, new
  <2> QED BY <1>1, <1>2, <2>1, <2>2, <2>4, <2>5 DEF Consistent
<1> QED BY <1>6, <1>7

\* A handover ends, and the contest for it.
LEMMA FinishKeeps ==
    ASSUME NEW s, NEW C, Consistent(s, C), s.pending # Nil
    PROVE  Consistent(CompleteHandover(s), {}) /\ Consistent(AbandonHandover(s), {})
<1>1. s \in Session /\ s.pending \in Topology
  BY DEF Consistent, Session
<1>2. /\ AbandonHandover(s) \in Session
      /\ AbandonHandover(s).pending = Nil /\ AbandonHandover(s).inFlight = Nil
  BY <1>1 DEF AbandonHandover, Session
<1>3. /\ CompleteHandover(s) \in Session
      /\ CompleteHandover(s).pending = Nil /\ CompleteHandover(s).inFlight = Nil
  BY <1>1, <1>2 DEF CompleteHandover, Session
<1> QED BY <1>2, <1>3 DEF Consistent

\* Who takes part is no part of the contest.
LEMMA ParticipantsKeep ==
    ASSUME NEW s, NEW C, NEW x, Consistent(s, C)
    PROVE  Consistent([s EXCEPT !.participants = @ \ {x}], C)
<1> DEFINE r == [s EXCEPT !.participants = @ \ {x}]
<1>1. s \in Session
  BY DEF Consistent
<1>2. /\ r \in Session /\ r.pending = s.pending
      /\ r.inFlight = s.inFlight /\ r.receivedAt = s.receivedAt
  BY <1>1 DEF Session
<1> HIDE DEF r
<1>3. Consistent(r, C)
  BY <1>2 DEF Consistent
<1> QED BY <1>3 DEF r

\* Steps that touch the session and the contest of one participant.
LEMMA OneParticipant ==
    ASSUME CallInv, NEW p \in Participant, NEW s, NEW S,
           session' = [session EXCEPT ![p] = s], contest' = [contest EXCEPT ![p] = S],
           \A c \in S : c.proposal \in Proposal /\ c.at \in 0 .. MaxInstant,
           Consistent(s, {c \in S : ~c.settled}),
           instant' = instant, \A m \in signals' : IsSignal(m)
    PROVE  CallInv'
<1>1. /\ session = [i \in Participant |-> session[i]]
      /\ contest = [i \in Participant |-> contest[i]]
      /\ instant \in 0 .. MaxInstant
      /\ \A i \in Participant :
            /\ \A c \in contest[i] : c.proposal \in Proposal /\ c.at \in 0 .. MaxInstant
            /\ Consistent(session[i], Contested(i))
  BY CallInvByParticipant DEF ByParticipant
<1>2. /\ session' = [i \in Participant |-> session'[i]]
      /\ contest' = [i \in Participant |-> contest'[i]]
      /\ session'[p] = s /\ contest'[p] = S
      /\ \A i \in Participant \ {p} : session'[i] = session[i] /\ contest'[i] = contest[i]
  BY <1>1
<1>3. ASSUME NEW i \in Participant
      PROVE  /\ \A c \in contest'[i] : c.proposal \in Proposal /\ c.at \in 0 .. MaxInstant
             /\ Consistent(session'[i], Contested(i)')
  <2>1. CASE i = p
    <3>1. Contested(p)' = {c \in S : ~c.settled}
      BY <1>2 DEF Contested
    <3> QED BY <1>2, <2>1, <3>1
  <2>2. CASE i # p
    <3>1. Contested(i)' = Contested(i)
      BY <1>2, <2>2 DEF Contested
    <3> QED BY <1>1, <1>2, <2>2, <3>1
  <2> QED BY <2>1, <2>2
<1>4. ByParticipant'
  BY <1>1, <1>2, <1>3 DEF ByParticipant, IsSignal
<1> QED BY <1>4, CallInvByParticipant, PTL

\* Every step keeps the invariant.
LEMMA CallInvNext == CallInv /\ [CallNext]_callVars => CallInv'
<1> SUFFICES ASSUME CallInv, [CallNext]_callVars PROVE CallInv'
  OBVIOUS
<1>0. /\ session = [i \in Participant |-> session[i]]
      /\ contest = [i \in Participant |-> contest[i]]
      /\ instant \in 0 .. MaxInstant
      /\ \A m \in signals : IsSignal(m)
      /\ \A i \in Participant :
            /\ \A c \in contest[i] : c.proposal \in Proposal /\ c.at \in 0 .. MaxInstant
            /\ Consistent(session[i], Contested(i))
  BY CallInvByParticipant DEF ByParticipant
<1>1. ASSUME UNCHANGED <<session, contest>>, instant' \in 0 .. MaxInstant,
             \A m \in signals' : IsSignal(m)
      PROVE  CallInv'
  BY <1>1 DEF CallInv, CallTypeOK, WinnerIsEarliest, Contested, IsSignal
<1>2. ASSUME NEW p \in Participant, NEW choice \in RelayId \cup {Nil}, Propose(p, choice)
      PROVE  CallInv'
  <2> DEFINE trigger == EvaluateCall(session[p], session[p].active \notin down)
             b == [proposer |-> p, topology |-> ProposedTopology(trigger, choice), trigger |-> trigger]
  <2>1. /\ trigger # Nil /\ b.topology # Nil
        /\ signals' = signals \cup
              {[to |-> q, type |-> "Propose", body |-> b] : q \in session[p].participants}
        /\ UNCHANGED <<session, contest, instant>>
    BY <1>2 DEF Propose
  <2>2. trigger \in Trigger
    BY <2>1 DEF EvaluateCall, Trigger
  <2>3. ProposedTopology(trigger, choice) \in Topology
    BY <2>1 DEF ProposedTopology, Topology
  <2> HIDE DEF trigger
  <2>4. b \in Proposal
    BY <2>2, <2>3 DEF Proposal
  <2>5. session[p].participants \subseteq Participant
    BY <1>0 DEF Consistent, Session
  <2> HIDE DEF b
  <2>6. \A m \in signals' : IsSignal(m)
    BY <1>0, <2>1, <2>4, <2>5 DEF IsSignal
  <2> QED BY <1>0, <1>1, <2>1, <2>6
<1>3. ASSUME NEW p \in Participant, NEW x,
             session' = [session EXCEPT ![p].participants = @ \ {x}],
             contest' = contest, instant' = instant,
             \A m \in signals' : IsSignal(m)
      PROVE  CallInv'
  <2> DEFINE s == [session[p] EXCEPT !.participants = @ \ {x}]
  <2>1. session' = [session EXCEPT ![p] = s] /\ contest' = [contest EXCEPT ![p] = contest[p]]
    BY <1>0, <1>3
  <2>2. Consistent(s, Contested(p))
    BY <1>0, ParticipantsKeep
  <2>3. Contested(p) = {c \in contest[p] : ~c.settled}
    BY DEF Contested
  <2> HIDE DEF s
  <2> QED BY <1>0, <1>3, <2>1, <2>2, <2>3, OneParticipant
<1>4. ASSUME NEW p \in Participant, LeaveCall(p)
      PROVE  CallInv'
  <2> DEFINE T == {[to |-> q, type |-> "Leave", body |-> p] : q \in session[p].participants \ {p}}
  <2>1. /\ session' = [session EXCEPT ![p].participants = @ \ {p}]
        /\ contest' = contest /\ instant' = instant /\ signals' = signals \cup T
    BY <1>4 DEF LeaveCall
  <2>2. session[p].participants \subseteq Participant
    BY <1>0 DEF Consistent, Session
  <2>3. \A m \in T : IsSignal(m)
    BY <2>2 DEF IsSignal
  <2> HIDE DEF T
  <2>4. \A m \in signals' : IsSignal(m)
    BY <1>0, <2>1, <2>3
  <2> QED BY <1>3, <2>1, <2>4
<1>5. ASSUME NEW p \in Participant, NEW s, FinishHandover(p, s),
             s \in {CompleteHandover(session[p]), AbandonHandover(session[p])}
      PROVE  CallInv'
  <2>1. /\ session[p].pending # Nil
        /\ session' = [session EXCEPT ![p] = s] /\ contest' = [contest EXCEPT ![p] = {}]
        /\ UNCHANGED <<signals, instant>>
    BY <1>5 DEF FinishHandover
  <2>2. Consistent(s, {})
    BY <1>0, <1>5, <2>1, FinishKeeps
  <2>3. PICK S : S = {}
    OBVIOUS
  <2>4. /\ contest' = [contest EXCEPT ![p] = S]
        /\ \A c \in S : c.proposal \in Proposal /\ c.at \in 0 .. MaxInstant
        /\ {c \in S : ~c.settled} = {}
    BY <2>1, <2>3
  <2>5. Consistent(s, {c \in S : ~c.settled})
    BY <2>2, <2>4
  <2> QED BY <1>0, <2>1, <2>4, <2>5, OneParticipant
<1>6. ASSUME NEW m \in signals, HearProposal(m)
      PROVE  CallInv'
  <2> DEFINE p == m.to
             s == session[p]
             new == [proposal |-> m.body, at |-> instant, settled |-> IsSettled(s, m.body)]
             S == contest[p] \cup {new}
             r == ReceiveProposal(s, m.body, instant)
  <2>1. /\ session' = [session EXCEPT ![p] = r]
        /\ contest' = [contest EXCEPT ![p] = S]
        /\ signals' = signals \ {m} /\ instant' = instant
    BY <1>6 DEF HearProposal
  <2>2. p \in Participant /\ m.body \in Proposal
    BY <1>0, <1>6 DEF HearProposal, IsSignal
  <2>3. Consistent(s, Contested(p))
    BY <1>0, <2>2
  <2>4. \A c \in S : c.proposal \in Proposal /\ c.at \in 0 .. MaxInstant
    BY <1>0, <2>2
  <2>5. Consistent(r, {c \in S : ~c.settled})
    <3>1. CASE IsSettled(s, m.body)
      <4>1. r = s
        BY <3>1 DEF ReceiveProposal
      <4>2. {c \in S : ~c.settled} = Contested(p)
        BY <3>1 DEF Contested
      <4> QED BY <2>3, <4>1, <4>2
    <3>2. CASE ~IsSettled(s, m.body)
      <4>1. new = [proposal |-> m.body, at |-> instant, settled |-> FALSE]
        BY <3>2 DEF IsSettled
      <4>2. {c \in S : ~c.settled}
               = Contested(p) \cup {[proposal |-> m.body, at |-> instant, settled |-> FALSE]}
        <5>1. new.settled = FALSE
          BY <4>1
        <5> HIDE DEF new
        <5>2. {c \in S : ~c.settled} = Contested(p) \cup {new}
          BY <5>1 DEF Contested
        <5> QED BY <4>1, <5>2
      <4>3. \A c \in Contested(p) : c.proposal \in Proposal /\ c.at \in 0 .. MaxInstant
        BY <1>0, <2>2 DEF Contested
      <4> HIDE DEF p, s, S
      <4> QED BY <1>0, <2>2, <2>3, <3>2, <4>2, <4>3, ReceiveKeeps
    <3> QED BY <3>1, <3>2
  <2> HIDE DEF p, s, S, r
  <2> QED BY <1>0, <2>1, <2>2, <2>4, <2>5, OneParticipant
<1>7. ASSUME NEW m \in signals, HearLeave(m)
      PROVE  CallInv'
  <2>1. m.to \in Participant
    BY <1>0 DEF IsSignal
  <2>2. /\ session' = [session EXCEPT ![m.to].participants = @ \ {m.body}]
        /\ contest' = contest /\ instant' = instant
        /\ \A x \in signals' : IsSignal(x)
    BY <1>0, <1>7 DEF HearLeave
  <2> QED BY <1>3, <2>1, <2>2
<1>8. ASSUME NEW r \in RelayId, RelayDrops(r) PROVE CallInv'
  BY <1>0, <1>1, <1>8 DEF RelayDrops
<1>9. ASSUME NEW t, SetClock(t) PROVE CallInv'
  BY <1>0, <1>1, <1>9 DEF SetClock
<1>10. CASE UNCHANGED callVars
  BY <1>0, <1>1, <1>10 DEF callVars
<1> QED BY <1>2, <1>4, <1>5, <1>6, <1>7, <1>8, <1>9, <1>10 DEF CallNext

\* Every call opens as a mesh with nothing in flight.
LEMMA CallInvInit == CallInit => CallInv
<1> SUFFICES ASSUME CallInit PROVE CallInv
  OBVIOUS
<1>1. OpenSession(Participant) \in Session
  BY DEF OpenSession, Session, Topology
<1>2. /\ OpenSession(Participant).pending = Nil /\ OpenSession(Participant).inFlight = Nil
  BY DEF OpenSession
<1>3. \A p \in Participant : Contested(p) = {}
  BY DEF CallInit, Contested
<1>4. instant \in 0 .. MaxInstant
  BY CallAssumption DEF CallInit
<1> QED BY <1>1, <1>2, <1>3, <1>4 DEF CallInit, CallInv, CallTypeOK, WinnerIsEarliest

----------------------------------------------------------------------------

\* A session converges on the earliest proposal it received, and of the earliest
\* on the lowest proposer's, for any number of participants and whichever way
\* its clock is set (CallSession::receive_proposal).
THEOREM EarliestWins == CallSpec => []WinnerIsEarliest
<1>1. CallInv => WinnerIsEarliest
  BY DEF CallInv
<1> QED BY <1>1, CallInvInit, CallInvNext, PTL DEF CallSpec

\* Every session is well formed, and a handover is pending exactly while the
\* proposal for it is kept (CallSession).
THEOREM SessionsAreSound == CallSpec => []CallTypeOK
<1>1. CallInv => CallTypeOK
  BY DEF CallInv
<1> QED BY <1>1, CallInvInit, CallInvNext, PTL DEF CallSpec
=============================================================================

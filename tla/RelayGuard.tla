----------------------------- MODULE RelayGuard -----------------------------
(***************************************************************************)
(* The resource ceilings of a bootstrap relay                              *)
(* (crates/intranet-transport/src/relay_limits.rs, RelayGuard): the        *)
(* reservations it grants, the circuits opened under them, and when it     *)
(* closes them.                                                            *)
(*                                                                         *)
(* Identifiers are drawn from one counter.  A requester is an identity     *)
(* with the invite it is metered against, or Admitted once it is in.       *)
(***************************************************************************)
EXTENDS Integers, FiniteSets, FiniteSetsExt, Functions

CONSTANTS
    Client,         \* per-network identities
    Ticket,         \* invites
    Admitted,       \* the place of an invite, for an identity that is admitted
    RelayLimits,    \* the configured ceilings
    ByteCounts,     \* how many bytes can be reported at a time
    MaxIds,         \* bound: identifiers drawn
    MaxUptime       \* bound: the clock

ASSUME RelayAssumption ==
    /\ {RelayLimits.reservations, RelayLimits.perIdentity, RelayLimits.perInvite,
        RelayLimits.circuits, RelayLimits.duration, RelayLimits.bytes} \subseteq Nat
    /\ ByteCounts \subseteq Nat /\ Admitted \notin Ticket

VARIABLES
    reservations,   \* ReservationId -> the requester
    relayed,        \* CircuitId -> its reservation, when it was opened, its bytes
    nextId,         \* the next identifier
    uptime          \* the clock

relayVars == <<reservations, relayed, nextId, uptime>>

Requester == [identity : Client, invite : Ticket \cup {Admitted}]

HeldBy(identity) == {r \in DOMAIN reservations : reservations[r].identity = identity}
HeldUnder(invite) == {r \in DOMAIN reservations : reservations[r].invite = invite}

\* f with the pair (x, y) added, and f without the keys in S.
With(f, x, y) == [z \in DOMAIN f \cup {x} |-> IF z = x THEN y ELSE f[z]]
Without(f, S) == Restrict(f, DOMAIN f \ S)

\* Mutation: an admitted identity and one that waits are metered apart.
TryReserveApart(requester) ==
    LET alike == {r \in HeldBy(requester.identity) : reservations[r].invite = requester.invite}
    IN  /\ nextId < MaxIds
        /\ Cardinality(DOMAIN reservations) < RelayLimits.reservations
        /\ Cardinality(alike) < RelayLimits.perIdentity
        /\ requester.invite # Admitted =>
              Cardinality(HeldUnder(requester.invite)) < RelayLimits.perInvite
        /\ reservations' = With(reservations, nextId, requester)
        /\ nextId' = nextId + 1
        /\ UNCHANGED <<relayed, uptime>>

\* try_reserve, when no ceiling is in the way.
TryReserve(requester) ==
    /\ nextId < MaxIds
    /\ Cardinality(DOMAIN reservations) < RelayLimits.reservations
    /\ Cardinality(HeldBy(requester.identity)) < RelayLimits.perIdentity
    /\ requester.invite # Admitted =>
          Cardinality(HeldUnder(requester.invite)) < RelayLimits.perInvite
    /\ reservations' = With(reservations, nextId, requester)
    /\ nextId' = nextId + 1
    /\ UNCHANGED <<relayed, uptime>>

\* release.
Release(r) ==
    /\ r \in DOMAIN reservations
    /\ reservations' = Without(reservations, {r})
    /\ relayed' = Without(relayed, {c \in DOMAIN relayed : relayed[c].reservation = r})
    /\ UNCHANGED <<nextId, uptime>>

\* open_circuit, against a reservation that is live.
OpenRelayed(r) ==
    /\ nextId < MaxIds
    /\ r \in DOMAIN reservations
    /\ Cardinality(DOMAIN relayed) < RelayLimits.circuits
    /\ relayed' = With(relayed, nextId, [reservation |-> r, openedAt |-> uptime, bytes |-> 0])
    /\ nextId' = nextId + 1
    /\ UNCHANGED <<reservations, uptime>>

\* record_bytes: the report that takes a circuit past its ceiling closes it.
RecordBytes(c, n) ==
    /\ c \in DOMAIN relayed
    /\ relayed' = IF relayed[c].bytes + n > RelayLimits.bytes
                  THEN Without(relayed, {c})
                  ELSE [relayed EXCEPT ![c].bytes = @ + n]
    /\ UNCHANGED <<reservations, nextId, uptime>>

Outlived == {c \in DOMAIN relayed : uptime - relayed[c].openedAt > RelayLimits.duration}

\* expire.
ExpireCircuits ==
    /\ Outlived # {}
    /\ relayed' = Without(relayed, Outlived)
    /\ UNCHANGED <<reservations, nextId, uptime>>

\* close_circuit.
CloseRelayed(c) ==
    /\ c \in DOMAIN relayed
    /\ relayed' = Without(relayed, {c})
    /\ UNCHANGED <<reservations, nextId, uptime>>

TimePasses == /\ uptime < MaxUptime
              /\ uptime' = uptime + 1
              /\ UNCHANGED <<reservations, relayed, nextId>>

RelayInit == /\ reservations = << >> /\ relayed = << >>
             /\ nextId = 0 /\ uptime = 0

RelayNext ==
    \/ \E q \in Requester : TryReserve(q)
    \/ \E r \in DOMAIN reservations : Release(r) \/ OpenRelayed(r)
    \/ \E c \in DOMAIN relayed : \/ CloseRelayed(c)
                                 \/ \E n \in ByteCounts : RecordBytes(c, n)
    \/ ExpireCircuits
    \/ TimePasses

RelaySpec == RelayInit /\ [][RelayNext]_relayVars

----------------------------------------------------------------------------
\* Properties

\* What the guard holds is well formed, with no identifier used twice
\* (relay_limits.rs, RelayGuard and take_id).
RelayTypeOK ==
    /\ nextId \in Nat /\ uptime \in Nat
    /\ DOMAIN reservations \cup DOMAIN relayed \subseteq 0 .. nextId - 1
    /\ DOMAIN reservations \cap DOMAIN relayed = {}
    /\ \A r \in DOMAIN reservations : reservations[r] \in Requester
    /\ \A c \in DOMAIN relayed : /\ relayed[c].reservation \in Nat
                                 /\ relayed[c].bytes \in Nat
                                 /\ relayed[c].openedAt \in 0 .. uptime

\* No sequence of reservations, releases and circuits, by identities that wait
\* and are then admitted, takes the relay past a ceiling (relay_limits.rs,
\* try_reserve, open_circuit and record_bytes).
CeilingsHold ==
    /\ Cardinality(DOMAIN reservations) <= RelayLimits.reservations
    /\ Cardinality(DOMAIN relayed) <= RelayLimits.circuits
    /\ \A i \in Client : Cardinality(HeldBy(i)) <= RelayLimits.perIdentity
    /\ \A t \in Ticket : Cardinality(HeldUnder(t)) <= RelayLimits.perInvite
    /\ \A c \in DOMAIN relayed : relayed[c].bytes <= RelayLimits.bytes

\* A circuit is open only while the reservation it was opened under is held
\* (relay_limits.rs, release and open_circuit).
CircuitsAreReserved ==
    \A c \in DOMAIN relayed : relayed[c].reservation \in DOMAIN reservations

\* The relay's books are well formed, within every ceiling, and no circuit
\* outlives its reservation (relay_limits.rs, RelayGuard).
RelayIsBounded == RelayTypeOK /\ CeilingsHold /\ CircuitsAreReserved
=============================================================================

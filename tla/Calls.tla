------------------------------- MODULE Calls -------------------------------
(***************************************************************************)
(* How the participants of a call move it between mesh and relays          *)
(* (crates/intranet-realtime/src/call.rs, CallSession), with proposals     *)
(* carried by signalling messages that arrive in any order                 *)
(* (crates/intranet-transport/src/node.rs, send_signal and the handler of  *)
(* Signal).                                                                *)
(*                                                                         *)
(* A topology is "Mesh" or the relay that carries the call.  The instants  *)
(* at which proposals are received come from one clock, which may be set   *)
(* back.                                                                   *)
(***************************************************************************)
EXTENDS Integers, FiniteSets

CONSTANTS
    Participant,    \* identities, ordered as proposers are compared
    RelayId,        \* the relays a proposal can name
    Threshold,      \* participants from which a call is relayed
    Nil,            \* Option::None
    MaxProposals,   \* bound: proposals made in a history
    MaxInstant      \* bound: the clock

Topology == {"Mesh"} \cup RelayId
Trigger == {"ThresholdReached", "BelowThreshold", "RelayUnavailable"}
Proposal == [proposer : Participant, topology : Topology, trigger : Trigger]

ASSUME CallAssumption == /\ Participant \subseteq Nat
                         /\ Threshold \in Nat /\ MaxInstant \in Nat
                         /\ "Mesh" \notin RelayId
                         /\ Nil \notin Topology \cup Proposal \cup (0 .. MaxInstant)

VARIABLES
    session,    \* session[p]: the CallSession of p
    signals,    \* signalling messages on their way
    down,       \* relays that have become unreachable
    instant,    \* the clock
    proposed,   \* how many proposals have been made
    contest     \* contest[p]: what p has received since its last handover, and when

callVars == <<session, signals, down, instant, proposed, contest>>

Session == [participants : SUBSET Participant, active : Topology,
            pending : Topology \cup {Nil}, inFlight : Proposal \cup {Nil},
            receivedAt : (0 .. MaxInstant) \cup {Nil}]

----------------------------------------------------------------------------
\* CallSession

OpenSession(S) == [participants |-> S, active |-> "Mesh", pending |-> Nil,
                   inFlight |-> Nil, receivedAt |-> Nil]

\* CallSession::evaluate: why s should change its topology, if it should.
EvaluateCall(s, relayReachable) ==
    LET atThreshold == Cardinality(s.participants) >= Threshold
    IN  CASE s.active = "Mesh" /\ atThreshold -> "ThresholdReached"
          [] s.active # "Mesh" /\ ~relayReachable -> "RelayUnavailable"
          [] s.active # "Mesh" /\ relayReachable /\ ~atThreshold -> "BelowThreshold"
          [] OTHER -> Nil

\* CallSession::propose, given the relay that was chosen, or Nil.
ProposedTopology(trigger, choice) == IF trigger = "BelowThreshold" THEN "Mesh" ELSE choice

IsSettled(s, proposal) == s.active = proposal.topology /\ s.pending = Nil

\* Mutation: a tie goes to the proposal that arrived last.
LastTieWins(s, proposal, now) == now <= s.receivedAt

\* The tie-break of receive_proposal against the proposal in flight.
IncomingWins(s, proposal, now) ==
    \/ now < s.receivedAt
    \/ now = s.receivedAt /\ proposal.proposer < s.inFlight.proposer

\* CallSession::receive_proposal.
ReceiveProposal(s, proposal, now) ==
    IF IsSettled(s, proposal) THEN s
    ELSE IF s.inFlight # Nil /\ ~IncomingWins(s, proposal, now) THEN s
    ELSE [s EXCEPT !.pending = proposal.topology, !.inFlight = proposal,
                   !.receivedAt = now]

\* CallSession::abandon_handover.
AbandonHandover(s) == [s EXCEPT !.pending = Nil, !.inFlight = Nil, !.receivedAt = Nil]

\* CallSession::complete_handover, of a session with a handover pending.
CompleteHandover(s) == [AbandonHandover(s) EXCEPT !.active = s.pending]

----------------------------------------------------------------------------
\* The participants

Propose(p, choice) ==
    LET trigger  == EvaluateCall(session[p], session[p].active \notin down)
        topology == ProposedTopology(trigger, choice)
        proposal == [proposer |-> p, topology |-> topology, trigger |-> trigger]
    IN  /\ proposed < MaxProposals
        /\ trigger # Nil
        /\ topology # Nil           \* else NoRelayAvailable
        /\ signals' = signals \cup
              {[to |-> q, type |-> "Propose", body |-> proposal] : q \in session[p].participants}
        /\ proposed' = proposed + 1
        /\ UNCHANGED <<session, down, instant, contest>>

LeaveCall(p) ==
    /\ p \in session[p].participants
    /\ session' = [session EXCEPT ![p].participants = @ \ {p}]
    /\ signals' = signals \cup
          {[to |-> q, type |-> "Leave", body |-> p] : q \in session[p].participants \ {p}}
    /\ UNCHANGED <<down, instant, proposed, contest>>

HearProposal(m) ==
    LET s == session[m.to] IN
    /\ m.type = "Propose"
    /\ session' = [session EXCEPT ![m.to] = ReceiveProposal(s, m.body, instant)]
    /\ contest' = [contest EXCEPT ![m.to] = @ \cup
                      {[proposal |-> m.body, at |-> instant, settled |-> IsSettled(s, m.body)]}]
    /\ signals' = signals \ {m}
    /\ UNCHANGED <<down, instant, proposed>>

HearLeave(m) ==
    /\ m.type = "Leave"
    /\ session' = [session EXCEPT ![m.to].participants = @ \ {m.body}]
    /\ signals' = signals \ {m}
    /\ UNCHANGED <<down, instant, proposed, contest>>

\* The new transport is up, or has failed to come up.
FinishHandover(p, s) ==
    /\ session[p].pending # Nil
    /\ session' = [session EXCEPT ![p] = s]
    /\ contest' = [contest EXCEPT ![p] = {}]
    /\ UNCHANGED <<signals, down, instant, proposed>>

RelayDrops(r) == /\ r \notin down
                 /\ down' = down \cup {r}
                 /\ UNCHANGED <<session, signals, instant, proposed, contest>>

SetClock(t) == /\ t \in 0 .. MaxInstant /\ t # instant
               /\ instant' = t
               /\ UNCHANGED <<session, signals, down, proposed, contest>>

CallInit ==
    /\ session = [p \in Participant |-> OpenSession(Participant)]
    /\ signals = {} /\ down = {} /\ instant = 0 /\ proposed = 0
    /\ contest = [p \in Participant |-> {}]

CallNext ==
    \/ \E p \in Participant :
          \/ \E choice \in RelayId \cup {Nil} : Propose(p, choice)
          \/ LeaveCall(p)
          \/ FinishHandover(p, CompleteHandover(session[p]))
          \/ FinishHandover(p, AbandonHandover(session[p]))
    \/ \E m \in signals : HearProposal(m) \/ HearLeave(m)
    \/ \E r \in RelayId : RelayDrops(r)
    \/ \E t \in {instant - 1, instant + 1} : SetClock(t)

CallSpec == CallInit /\ [][CallNext]_callVars

----------------------------------------------------------------------------
\* Properties

\* Every session is well formed, and a handover is pending exactly while the
\* proposal for it is kept (call.rs, CallSession).
CallTypeOK ==
    /\ session \in [Participant -> Session]
    /\ \A p \in Participant :
          LET s == session[p] IN
          /\ s.pending # Nil <=> s.inFlight # Nil
          /\ s.inFlight # Nil => s.pending = s.inFlight.topology /\ s.receivedAt # Nil

Contested(p) == {c \in contest[p] : ~c.settled}

\* The proposal a session converges on is the one received first of all that
\* competed since its last handover, and of those received at the same instant
\* the lowest proposer's, however they were interleaved and whichever way the
\* clock was set between them (call.rs, receive_proposal).
WinnerIsEarliest ==
    \A p \in Participant : session[p].inFlight # Nil =>
        LET s == session[p] IN
        /\ \E c \in Contested(p) : c.proposal = s.inFlight /\ c.at = s.receivedAt
        /\ \A c \in Contested(p) :
              \/ c.at > s.receivedAt
              \/ c.at = s.receivedAt /\ c.proposal.proposer >= s.inFlight.proposer
=============================================================================

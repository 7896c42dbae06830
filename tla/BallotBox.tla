----------------------------- MODULE BallotBox -----------------------------
(***************************************************************************)
(* Ballots (crates/intranet-governance/src/vote.rs) and their collection     *)
(* (the ballot protocol of crates/intranet-transport/src/node.rs): a node     *)
(* records the ballots that qualify for a vote it knows to be open, asks      *)
(* peers for the ones it lacks, and assembles a certificate from what it has. *)
(*                                                                         *)
(* A ballot is its voter, its choice, the time the voter gives it and its     *)
(* hash, the order certificates and answers list ballots in.                  *)
(***************************************************************************)
EXTENDS MemberView

CONSTANTS
    Vote,           \* vote ids
    Proposal,       \* Proposal[v]: [electorate, close, quorum], frozen when v was opened
    CastTime,       \* the times a voter's clock may show
    MaxBallots,     \* MAX_BALLOTS_PER_RESPONSE
    MaxCast         \* bound: ballots cast

ASSUME BallotAssumption == CastTime \subseteq Nat /\ MaxCast \in Nat

VARIABLES
    ballots,        \* ballots[n][v]: the ballots n holds for v
    cast,           \* the ballots cast, each with the vote it is in
    ballotPost      \* ballot messages in flight

ballotVars == <<ballots, cast, ballotPost>>

Ballot == [voter : Node, approve : BOOLEAN, time : CastTime, hash : 1 .. MaxCast]

BallotInit == /\ ballots = [n \in Node |-> [v \in Vote |-> {}]]
              /\ cast = {} /\ ballotPost = {}

VoteIsOpen(n, v) == at[n] # 0 /\ v \in History[at[n]].votes

\* record_ballot: what the ballot must satisfy to be recorded.
Qualifies(n, v, b) ==
    /\ VoteIsOpen(n, v)
    /\ b.voter \in Proposal[v].electorate
    /\ b.time <= Proposal[v].close

\* cast_ballot: refused, and not recorded, when it does not qualify.
CastBallot(n, v, b) ==
    /\ Cardinality(cast) < MaxCast
    /\ b.voter = n /\ \A c \in cast : c.ballot.hash # b.hash
    /\ Qualifies(n, v, b)
    /\ cast' = cast \cup {[vote |-> v, ballot |-> b]}
    /\ ballots' = [ballots EXCEPT ![n][v] = @ \cup {b}]
    /\ UNCHANGED ballotPost

BallotMessage(kind, from, to, vote, body) ==
    [kind |-> kind, from |-> from, to |-> to, vote |-> vote, body |-> body]

\* sync_ballots_with and sync_open_votes_with: for a vote the node knows is open.
AskBallots(n, m, v) ==
    /\ VoteIsOpen(n, v)
    /\ \A q \in ballotPost : ~({q.from, q.to} = {n, m} /\ q.vote = v)
    /\ ballotPost' = ballotPost \cup {BallotMessage("ask", n, m, v, ballots[n][v])}
    /\ UNCHANGED <<ballots, cast>>

\* serve_ballots: the ballots that the requester does not list, in hash order.
Unheld(n, v, have) == ballots[n][v] \ have
CutBallots(S) == {b \in S : Cardinality({c \in S : c.hash < b.hash}) < MaxBallots}

ServeBallots(q) ==
    IF IsMember(q.to, q.from) /\ VoteIsOpen(q.to, q.vote)
    THEN BallotMessage("ballots", q.to, q.from, q.vote,
                       CutBallots(Unheld(q.to, q.vote, q.body)))
    ELSE BallotMessage("refused", q.to, q.from, q.vote, {})

AnswerBallots(q) ==
    /\ q \in ballotPost /\ q.kind = "ask"
    /\ ballotPost' = (ballotPost \ {q}) \cup {ServeBallots(q)}
    /\ UNCHANGED <<ballots, cast>>

HearBallots(q) ==
    /\ q \in ballotPost /\ q.kind = "ballots"
    /\ ballots' = [ballots EXCEPT ![q.to][q.vote] =
                      @ \cup {b \in q.body : Qualifies(q.to, q.vote, b)}]
    /\ ballotPost' = ballotPost \ {q}
    /\ UNCHANGED cast

HearBallotRefusal(q) == /\ q \in ballotPost /\ q.kind = "refused"
                        /\ ballotPost' = ballotPost \ {q}
                        /\ UNCHANGED <<ballots, cast>>

HandleBallots(q) == AnswerBallots(q) \/ HearBallots(q) \/ HearBallotRefusal(q)

LoseBallotMessage(q) == /\ q \in ballotPost
                        /\ ballotPost' = ballotPost \ {q}
                        /\ UNCHANGED <<ballots, cast>>

\* The node restarts: ballots are held in memory only.
RestartBallots(n) ==
    /\ ballots' = [ballots EXCEPT ![n] = [v \in Vote |-> {}]]
    /\ ballotPost' = {q \in ballotPost : q.to # n /\ q.from # n}
    /\ UNCHANGED cast

\* The nodes and the chain, whoever is connected and whatever is lost.
CollectionNext ==
    \/ /\ at' = at
       /\ \/ \E n \in Node, v \in Vote, b \in Ballot : CastBallot(n, v, b)
          \/ \E n, m \in Node, v \in Vote : AskBallots(n, m, v)
          \/ \E q \in ballotPost : HandleBallots(q) \/ LoseBallotMessage(q)
          \/ \E n \in Node : RestartBallots(n)
    \/ \E n, m \in Node : SyncAccepted(n, m) /\ UNCHANGED ballotVars
    \/ \E n \in Node : AppendEntry(n) /\ UNCHANGED ballotVars

BallotSpec == /\ at \in [Node -> 0 .. Len(History)] /\ BallotInit
              /\ [][CollectionNext]_<<at, ballotVars>>

CastBefore(b, c) == b.time < c.time \/ (b.time = c.time /\ b.hash < c.hash)

\* Mutation: every ballot goes in.
AssembleEverything(S) == S

\* QuorumCertificate::assemble: of each voter the ballot that is earliest by its
\* time, and by its hash when the times are equal.
Assemble(S) == {b \in S : \A c \in S : c.voter = b.voter => ~CastBefore(c, b)}

\* assemble_certificate: for a vote the node knows is open.
Certificate(n, v) == Assemble(ballots[n][v])

\* QuorumCertificate::verify.
VerifiesAs(v, cert) ==
    IF /\ cert # {}
       /\ \A b \in cert : b.voter \in Proposal[v].electorate /\ b.time <= Proposal[v].close
       /\ \A b, c \in cert : b.voter = c.voter => b = c
    THEN IF Cardinality({b \in cert : b.approve}) >= Proposal[v].quorum
         THEN "passed" ELSE "failed"
    ELSE "invalid"

\* While both know the vote is open, the node has every ballot the peer has.
BallotsAgree(n, m) ==
    \A v \in Vote : (VoteIsOpen(n, v) /\ VoteIsOpen(m, v) /\ IsMember(m, n))
                      => ballots[m][v] \subseteq ballots[n][v]

BallotTypeOK == \A n \in Node, v \in Vote : ballots[n][v] \subseteq Ballot

\* Whatever ballots have reached a node, in whatever order and whatever its view
\* of the members was by then, the certificate it assembles is one every verifier
\* accepts: the comment of record_ballot says a collection must never hand an
\* assembler ballots that make its certificate invalid.
CertificatesVerify ==
    /\ BallotTypeOK
    /\ \A n \in Node, v \in Vote :
           ballots[n][v] # {} => VerifiesAs(v, Certificate(n, v)) # "invalid"
=============================================================================

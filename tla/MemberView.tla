----------------------------- MODULE MemberView -----------------------------
(***************************************************************************)
(* What the stores of a member node ask of the governance log: the state    *)
(* MemberNode::governance_state replays from the node's canonical chain.    *)
(*                                                                         *)
(* The log itself is the subject of GovernanceLog and GovernanceState.  Here *)
(* the canonical chain is a constant sequence of replayed states, and a      *)
(* node has replayed a prefix of it.  A sync that accepts entries moves the  *)
(* node forward, and the handler of its response asks the same peer for its  *)
(* advertisements and its pointers; the stores take those questions from     *)
(* SyncAccepted.                                                            *)
(***************************************************************************)
EXTENDS Integers, Sequences, FiniteSets, TLC

CONSTANTS
    Node,       \* member nodes, numbered in the order of their identities
    Nil,        \* None
    History     \* the states along the canonical chain

ASSUME HistoryAssumption ==
    /\ Node \subseteq Nat
    /\ \A i \in DOMAIN History :
          /\ History[i].members \subseteq Node
          /\ History[i].readers \subseteq History[i].members
          /\ History[i].publishers \subseteq History[i].members

VARIABLE at     \* at[n]: how much of the chain n has replayed

\* governance_state: a node that holds no replayable chain has no state.
StateOf(n) == IF at[n] = 0 THEN Nil ELSE History[at[n]]

IsMember(n, who) == at[n] # 0 /\ who \in History[at[n]].members

\* may_serve: the requester holds read-content in the server's own view.
MaySeeContent(n, who) == at[n] # 0 /\ who \in History[at[n]].readers

\* The node appends an entry of its own.
AppendEntry(n) ==
    /\ at[n] < Len(History)
    /\ \A m \in Node : at[m] <= at[n]
    /\ at' = [at EXCEPT ![n] = @ + 1]

\* SyncResponse::Entries: the node accepts entries that the peer holds.
SyncAccepted(n, m) ==
    /\ at[n] < at[m]
    /\ \E i \in at[n] + 1 .. at[m] : at' = [at EXCEPT ![n] = i]

\* The first of a node-ordered list, cut to k.
FirstOf(S, k) == {x \in S : Cardinality({y \in S : y < x}) < k}
=============================================================================

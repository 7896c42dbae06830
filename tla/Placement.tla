----------------------------- MODULE Placement -----------------------------
(***************************************************************************)
(* Rendezvous hashing (crates/intranet-ledger/src/placement.rs): the       *)
(* ranking that replica placement and live-stream tiers share.             *)
(*                                                                         *)
(* The hash of a key and a node is a number given by the constant Draw.    *)
(***************************************************************************)
EXTENDS Integers, Sequences, SequencesExt

CONSTANT Draw       \* Draw[key][node]: the hash of key and node, as a number

\* score.
PlacementScore(key, node, weight) == Draw[key][node] * weight

RanksBefore(key, weight, a, b) ==
    LET sa == PlacementScore(key, a, weight[a])
        sb == PlacementScore(key, b, weight[b])
    IN  sa > sb \/ (sa = sb /\ a < b)

\* rank: the nodes that offer something, best first; weight maps the candidates
\* to what they offer.
Rank(key, weight) ==
    SetToSortSeq({n \in DOMAIN weight : weight[n] > 0},
                 LAMBDA a, b : RanksBefore(key, weight, a, b))

\* select.
Select(key, weight, n) ==
    LET ranked == Rank(key, weight)
    IN  SubSeq(ranked, 1, IF n < Len(ranked) THEN n ELSE Len(ranked))
=============================================================================

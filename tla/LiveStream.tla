----------------------------- MODULE LiveStream -----------------------------
(***************************************************************************)
(* A live broadcast (crates/intranet-realtime/src/stream.rs, LiveStream):  *)
(* its first redistribution tier, the window of fresh chunks and who holds *)
(* them, and the recording made of it.                                     *)
(*                                                                         *)
(* The ledger maps the nodes that advertise to the upload they offer and   *)
(* whether they relay media.  The broadcaster keeps every chunk, in the    *)
(* order it was produced in.                                               *)
(***************************************************************************)
EXTENDS Placement, Functions, FiniteSets, FiniteSetsExt

CONSTANTS
    StreamNode,     \* identities, ordered
    StreamKey,      \* the stream's identifier
    TierSize,       \* tier_size
    LiveWindow,     \* window
    Offers,         \* the advertisements a node may make: [up, willing]
    Sequence,       \* chunk numbers
    MaxChunks,      \* bound: chunks produced
    MaxChanges      \* bound: changes of the ledger

ASSUME StreamAssumption == /\ StreamNode \subseteq Nat /\ Sequence \subseteq Nat
                           /\ TierSize \in Nat /\ LiveWindow \in Nat
                           /\ \A o \in Offers : o.up \in Nat /\ o.willing \in BOOLEAN

VARIABLES
    offers,         \* the ledger: node -> its advertisement
    changes,        \* how often the ledger has changed
    tier,           \* the current tier
    tierFrom,       \* the ledger the tier was computed from
    chunks,         \* chunk number -> the chunk, inside the live window
    holders,        \* chunk number -> who is known to hold it
    kept            \* every chunk produced: <<number, chunk>>

streamVars == <<offers, changes, tier, tierFrom, chunks, holders, kept>>

----------------------------------------------------------------------------
\* The tier

\* media_relay_candidates, with the upload they offer.
Candidates(ledger) ==
    [n \in {m \in DOMAIN ledger : ledger[m].willing} |-> ledger[n].up]

\* Mutation: positions are dealt out by the size of the candidate set.
AssignTierModulo(ledger) ==
    LET ranked == SetToSortSeq(DOMAIN Candidates(ledger), LAMBDA a, b : a < b)
        first  == Len(ranked) % 3
    IN  SubSeq(ranked, first + 1, IF first + TierSize < Len(ranked)
                                  THEN first + TierSize ELSE Len(ranked))

\* assign_tier.
AssignTier(ledger) == Select(StreamKey, Candidates(ledger), TierSize)

\* tier_needs_recompute.
TierNeedsRecompute(t, ledger) ==
    ~ \A i \in DOMAIN t : t[i] \in DOMAIN ledger /\ ledger[t[i]].willing

\* recompute_tier, called when it is needed.
RecomputeTier ==
    /\ TierNeedsRecompute(tier, offers)
    /\ tier' = AssignTier(offers)
    /\ tierFrom' = offers
    /\ UNCHANGED <<offers, changes, chunks, holders, kept>>

\* A node advertises anew, or its advertisement expires.
Advertise(n, offer) ==
    /\ changes < MaxChanges
    /\ offers' = [m \in DOMAIN offers \cup {n} |-> IF m = n THEN offer ELSE offers[m]]
    /\ changes' = changes + 1
    /\ UNCHANGED <<tier, tierFrom, chunks, holders, kept>>

Withdraw(n) ==
    /\ n \in DOMAIN offers
    /\ changes < MaxChanges
    /\ offers' = Restrict(offers, DOMAIN offers \ {n})
    /\ changes' = changes + 1
    /\ UNCHANGED <<tier, tierFrom, chunks, holders, kept>>

----------------------------------------------------------------------------
\* The window

\* The numbers that stay when the window holds the numbers S: the newest.
Fresh(S) == {s \in S : Cardinality({t \in S : t > s}) < LiveWindow}

\* produce_chunk.  Holders recorded under a number stay when the number is
\* produced again.
ProduceChunk(s) ==
    LET fresh == Fresh(DOMAIN chunks \cup {s})
        cid   == Len(kept) + 1
    IN  /\ Len(kept) < MaxChunks
        /\ chunks' = [t \in fresh |-> IF t = s THEN cid ELSE chunks[t]]
        /\ holders' = [t \in fresh |-> IF t \in DOMAIN holders THEN holders[t] ELSE {}]
        /\ kept' = Append(kept, <<s, cid>>)
        /\ UNCHANGED <<offers, changes, tier, tierFrom>>

\* record_holder: ignored for a chunk outside the window.
RecordHolder(s, n) ==
    /\ s \in DOMAIN chunks
    /\ holders' = [holders EXCEPT ![s] = @ \cup {n}]
    /\ UNCHANGED <<offers, changes, tier, tierFrom, chunks, kept>>

----------------------------------------------------------------------------
\* The recording

ByNumber(all) == SortSeq(all, LAMBDA a, b : a[1] < b[1])

\* Mutation: only the live window is recorded.
IntoVodWindow(all) == [i \in 1 .. Cardinality(DOMAIN chunks) |->
                          chunks[SetToSortSeq(DOMAIN chunks, LAMBDA a, b : a < b)[i]]]

\* into_vod with retention enabled: the chunks of the manifest, or <<>> for a
\* broadcast that is empty, has a gap or numbers two chunks alike.
IntoVod(all) ==
    LET ordered == ByNumber(all)
    IN  IF \E i \in 1 .. Len(ordered) - 1 : ordered[i + 1][1] # ordered[i][1] + 1
        THEN <<>>
        ELSE [i \in DOMAIN ordered |-> ordered[i][2]]

StreamInit ==
    /\ offers \in [StreamNode -> Offers] /\ changes = 0
    /\ tier = AssignTier(offers) /\ tierFrom = offers
    /\ chunks = << >> /\ holders = << >> /\ kept = <<>>

StreamNext ==
    \/ RecomputeTier
    \/ \E n \in StreamNode : \/ Withdraw(n)
                             \/ \E o \in Offers : Advertise(n, o)
                             \/ \E s \in Sequence : RecordHolder(s, n)
    \/ \E s \in Sequence : ProduceChunk(s)

StreamSpec == StreamInit /\ [][StreamNext]_streamVars

----------------------------------------------------------------------------
\* Properties

\* The window and the record of holders cover the same chunks, never more than
\* the window takes, whatever order chunks are produced in (stream.rs,
\* produce_chunk and record_holder).
WindowIsConsistent ==
    /\ DOMAIN holders = DOMAIN chunks
    /\ Cardinality(DOMAIN chunks) <= LiveWindow
    /\ \A s \in DOMAIN chunks : \E i \in DOMAIN kept : kept[i] = <<s, chunks[s]>>

\* When nodes only leave or stop volunteering between two assignments of the
\* tier, every member of it that still volunteers keeps its place (stream.rs,
\* assign_tier; placement.rs, rank).
SurvivorsKeepTheirPlace ==
    [][ (tier' # tier
         /\ \A n \in DOMAIN Candidates(offers) :
               n \in DOMAIN Candidates(tierFrom)
               /\ Candidates(tierFrom)[n] = Candidates(offers)[n])
        => Range(tier) \cap DOMAIN Candidates(offers) \subseteq Range(tier') ]_streamVars

\* A tier that was just computed needs no recomputing (stream.rs,
\* tier_needs_recompute).
RecomputeSettles == [][tierFrom' # tierFrom => ~TierNeedsRecompute(tier', offers')]_streamVars

\* The recording has every chunk of the broadcast once, in the order of their
\* numbers, or is refused (stream.rs, into_vod).
RecordingIsWhole ==
    LET vod == IntoVod(kept) IN
    vod # <<>> =>
        /\ {vod[i] : i \in DOMAIN vod} = {kept[i][2] : i \in DOMAIN kept}
        /\ \A i, j \in DOMAIN vod : \A k, l \in DOMAIN kept :
              (i < j /\ kept[k][2] = vod[i] /\ kept[l][2] = vod[j]) => kept[k][1] < kept[l][1]

\* The live window is a consistent, bounded piece of the broadcast, and the
\* recording all of it (stream.rs, produce_chunk and into_vod).
WindowMeetsRecording == WindowIsConsistent /\ RecordingIsWhole

\* The tier moves only as far as the ledger forces it to (stream.rs, assign_tier
\* and tier_needs_recompute).
TierIsStable == SurvivorsKeepTheirPlace /\ RecomputeSettles
=============================================================================

----------------------------- MODULE MediaRelay -----------------------------
(***************************************************************************)
(* Call media carried by nodes that agreed to relay it: the ceilings a     *)
(* relay keeps to (crates/intranet-transport/src/media_limits.rs,          *)
(* MediaRelayGuard) and the forwarding of envelopes (node.rs, the handler  *)
(* of Media, send_media, relay_call).                                      *)
(*                                                                         *)
(* Bytes and milliseconds are small numbers.  The clock that refills are   *)
(* given may be set back.  What a refusal counts is left out; the event    *)
(* that reports it is kept.                                                *)
(***************************************************************************)
EXTENDS Integers, Sequences, FiniteSets, FiniteSetsExt

CONSTANTS
    MediaNode,      \* identities of nodes, relays and participants alike
    Call,           \* the calls
    Ceilings,       \* the MediaRelayLimits a node may set
    Rosters,        \* the participant sets a node may be told of
    FrameSize,      \* sizes of frames
    MilliPerSec,    \* milliseconds in a second
    NoRoster,       \* a call that is not carried
    Everyone,       \* Recipient::Participants
    MaxFrames,      \* bound: frames sent
    MaxAdvance      \* bound: how far the clock runs forward in all

ASSUME MediaAssumption ==
    /\ \A l \in Ceilings : {l.calls, l.participants, l.rate, l.burst} \subseteq Nat
    /\ FrameSize \subseteq Nat /\ MilliPerSec \in Nat \ {0}
    /\ Rosters \subseteq SUBSET MediaNode /\ Everyone \notin MediaNode
    /\ \A roster \in Rosters : IsFiniteSet(roster)
    /\ MaxFrames \in Nat

VARIABLES
    guard,      \* guard[n]: the MediaRelayGuard of n
    envelopes,  \* media envelopes on their way
    frames,     \* the frames sent: who by, in which call, for whom
    heard,      \* heard[n][f]: how often n was handed frame f (MediaReceived)
    fanned,     \* fanned[f]: who a relay undertook to reach with frame f
    lost,       \* <<f, n>>: a copy of frame f for n was lost on the way
    clock,      \* the time refills are given
    advanced,   \* how far the clock has run forward in all
    refusal     \* why the last step refused an envelope, or "none"

network == <<envelopes, frames, heard, fanned, lost>>
timing == <<clock, advanced>>
mediaVars == <<guard, envelopes, frames, heard, fanned, lost, clock, advanced, refusal>>

NewGuard(l) == [limits |-> l, calls |-> [c \in Call |-> NoRoster], allowance |-> l.burst,
                lastRefill |-> -1, forwarded |-> 0,
                topRate |-> l.rate, topBurst |-> l.burst]

Carried(g) == {c \in Call : g.calls[c] # NoRoster}

----------------------------------------------------------------------------
\* MediaRelayGuard

\* set_limits.  topRate and topBurst remember the highest ceilings there were.
SetLimits(n, l) ==
    /\ guard' = [guard EXCEPT ![n].limits = l, ![n].allowance = Min({@, l.burst}),
                              ![n].topRate = Max({@, l.rate}), ![n].topBurst = Max({@, l.burst})]
    /\ refusal' = "none"
    /\ UNCHANGED <<network, timing>>

\* Mutation: one call too many.
CarryRefusalLate(g, call, roster) ==
    IF Cardinality(roster) > g.limits.participants THEN "ParticipantCeiling"
    ELSE IF call \notin Carried(g) /\ Cardinality(Carried(g)) > g.limits.calls
         THEN "CallCeiling"
    ELSE "none"

\* Why try_carry refuses a call.
CarryRefusal(g, call, roster) ==
    IF Cardinality(roster) > g.limits.participants THEN "ParticipantCeiling"
    ELSE IF call \notin Carried(g) /\ Cardinality(Carried(g)) >= g.limits.calls
         THEN "CallCeiling"
    ELSE "none"

\* relay_call, try_carry.
TryCarry(n, call, roster) ==
    LET why == CarryRefusal(guard[n], call, roster) IN
    /\ guard' = IF why = "none" THEN [guard EXCEPT ![n].calls[call] = roster] ELSE guard
    /\ refusal' = why
    /\ UNCHANGED <<network, timing>>

\* stop_relaying, stop_carrying.
StopCarrying(n, call) ==
    /\ call \in Carried(guard[n])
    /\ guard' = [guard EXCEPT ![n].calls[call] = NoRoster]
    /\ refusal' = "none"
    /\ UNCHANGED <<network, timing>>

\* What a refill at time now earns: nothing the first time, and nothing when
\* the clock has not moved forward.
Earned(g, now) ==
    IF g.lastRefill = -1 \/ now <= g.lastRefill THEN 0
    ELSE (g.limits.rate * (now - g.lastRefill)) \div MilliPerSec

\* refill_media_allowance, refill.
Refill(n) ==
    /\ guard' = [guard EXCEPT
          ![n].allowance =
              IF Earned(guard[n], clock) = 0 THEN @
              ELSE Min({@ + Earned(guard[n], clock), guard[n].limits.burst}),
          ![n].lastRefill = clock]
    /\ refusal' = "none"
    /\ UNCHANGED <<network, timing>>

\* Who the guard g of node n sends a frame to.
Recipients(n, g, e) ==
    IF e.to = Everyone THEN g.calls[e.call] \ {e.from, n} ELSE {e.to}

DeliverLocally(n, g, e) == e.to = Everyone /\ n \in g.calls[e.call]

\* What leaves the node for one envelope.
Cost(n, g, e) == e.size * Cardinality(Recipients(n, g, e))

\* Why authorize refuses an envelope.
AuthorizeRefusal(n, g, e) ==
    IF e.call \notin Carried(g) THEN "NotCarried"
    ELSE IF e.from \notin g.calls[e.call] THEN "SenderNotParticipant"
    ELSE IF e.to # Everyone /\ e.to \notin g.calls[e.call] THEN "RecipientNotParticipant"
    ELSE IF Cost(n, g, e) > g.allowance THEN "AllowanceExhausted"
    ELSE "none"

----------------------------------------------------------------------------
\* The nodes

Envelope(f, frame, to, peer, at) ==
    [frame |-> f, call |-> frame.call, from |-> frame.from, size |-> frame.size,
     to |-> to, peer |-> peer, at |-> at]

\* What the node relay sends participant t of envelope e.
CopyFor(t, relay, e) ==
    [frame |-> e.frame, call |-> e.call, from |-> e.from, size |-> e.size,
     to |-> t, peer |-> relay, at |-> t]

\* A participant sends a frame, to one participant or to all of them, through
\* the node at: the recipient itself, or a relay (send_media).
SendMedia(n, call, to, size, at) ==
    LET frame == [call |-> call, from |-> n, size |-> size, to |-> to] IN
    /\ Len(frames) < MaxFrames
    /\ n \notin {to, at}
    /\ frames' = Append(frames, frame)
    /\ envelopes' = envelopes \cup {Envelope(Len(frames) + 1, frame, to, n, at)}
    /\ refusal' = "none"
    /\ UNCHANGED <<guard, heard, fanned, lost, timing>>

\* A frame is handed to the application of n.
Hear(S, f) == heard' = [n \in MediaNode |-> [g \in 1 .. MaxFrames |->
                            heard[n][g] + IF n \in S /\ g = f THEN 1 ELSE 0]]

\* The envelope is for this node.
HandleOwn(n, e) ==
    /\ e.to = n
    /\ Hear({n}, e.frame)
    /\ envelopes' = envelopes \ {e}
    /\ refusal' = "none"
    /\ UNCHANGED <<guard, frames, fanned, lost, timing>>

\* Only a frame of the peer that handed it over is forwarded.
HandleForeign(n, e) ==
    /\ e.to # n /\ e.from # e.peer
    /\ envelopes' = envelopes \ {e}
    /\ refusal' = "none"
    /\ UNCHANGED <<guard, frames, heard, fanned, lost, timing>>

HandleRefused(n, e) ==
    /\ e.to # n /\ e.from = e.peer
    /\ refusal' = AuthorizeRefusal(n, guard[n], e)
    /\ refusal' # "none"
    /\ envelopes' = envelopes \ {e}
    /\ UNCHANGED <<guard, frames, heard, fanned, lost, timing>>

\* Mutation: the copies keep the recipient field of the envelope they copy.
HandleForwardAsIs(n, e) ==
    LET to == Recipients(n, guard[n], e)
    IN  /\ e.to # n /\ e.from = e.peer
        /\ AuthorizeRefusal(n, guard[n], e) = "none"
        /\ guard' = [guard EXCEPT ![n].allowance = @ - Cost(n, guard[n], e),
                                  ![n].forwarded = @ + Cost(n, guard[n], e)]
        /\ Hear(IF DeliverLocally(n, guard[n], e) THEN {n} ELSE {}, e.frame)
        /\ envelopes' = (envelopes \ {e}) \cup {[e EXCEPT !.peer = n, !.at = t] : t \in to}
        /\ fanned' = [fanned EXCEPT ![e.frame] = @ \cup to]
        /\ refusal' = "none"
        /\ UNCHANGED <<frames, lost, timing>>

\* The guard authorizes and charges the envelope; every copy is addressed to the
\* participant it goes to.
HandleForward(n, e) ==
    LET to == Recipients(n, guard[n], e)
    IN  /\ e.to # n /\ e.from = e.peer
        /\ AuthorizeRefusal(n, guard[n], e) = "none"
        /\ guard' = [guard EXCEPT ![n].allowance = @ - Cost(n, guard[n], e),
                                  ![n].forwarded = @ + Cost(n, guard[n], e)]
        /\ Hear(IF DeliverLocally(n, guard[n], e) THEN {n} ELSE {}, e.frame)
        /\ envelopes' = (envelopes \ {e}) \cup
                           {CopyFor(t, n, e) : t \in to}
        /\ fanned' = [fanned EXCEPT ![e.frame] = @ \cup to]
        /\ refusal' = "none"
        /\ UNCHANGED <<frames, lost, timing>>

\* An envelope is lost: the connection failed.
LoseEnvelope(e) ==
    /\ envelopes' = envelopes \ {e}
    /\ lost' = lost \cup {<<e.at, e.frame>>}
    /\ refusal' = "none"
    /\ UNCHANGED <<guard, frames, heard, fanned, timing>>

\* Time passes, or the clock is set back.
ClockForward == /\ advanced < MaxAdvance
                /\ clock' = clock + 1 /\ advanced' = advanced + 1
                /\ refusal' = "none"
                /\ UNCHANGED <<guard, network>>

ClockBack == /\ clock > 0
             /\ clock' = clock - 1
             /\ refusal' = "none"
             /\ UNCHANGED <<guard, network, advanced>>

MediaInit ==
    /\ \E l \in Ceilings : guard = [n \in MediaNode |-> NewGuard(l)]
    /\ envelopes = {} /\ frames = <<>> /\ lost = {}
    /\ heard = [n \in MediaNode |-> [f \in 1 .. MaxFrames |-> 0]]
    /\ fanned = [f \in 1 .. MaxFrames |-> {}]
    /\ clock = 0 /\ advanced = 0 /\ refusal = "none"

Metering(n) == (\E l \in Ceilings : SetLimits(n, l)) \/ Refill(n)

Carrying(n) == \E c \in Call : StopCarrying(n, c)
                               \/ \E roster \in Rosters : TryCarry(n, c, roster)

Sending(n) == \E c \in Call, size \in FrameSize, at \in MediaNode :
                 \E to \in MediaNode \cup {Everyone} : SendMedia(n, c, to, size, at)

Handling(e) == \/ HandleOwn(e.at, e)
               \/ HandleForeign(e.at, e)
               \/ HandleRefused(e.at, e)
               \/ HandleForward(e.at, e)

MediaNext ==
    \/ \E n \in MediaNode : Metering(n) \/ Carrying(n) \/ Sending(n)
    \/ \E e \in envelopes : Handling(e) \/ LoseEnvelope(e)
    \/ ClockForward \/ ClockBack

MediaSpec == MediaInit /\ [][MediaNext]_mediaVars

----------------------------------------------------------------------------
\* Properties

\* The guard's numbers stay in range: the allowance never goes below zero, where
\* the code's u64 would wrap, nor above the burst (media_limits.rs, allowance).
MediaTypeOK ==
    \A n \in MediaNode : /\ guard[n].allowance \in 0 .. guard[n].limits.burst
                         /\ guard[n].forwarded \in Nat
                         /\ guard[n].calls \in [Call -> (SUBSET MediaNode) \cup {NoRoster}]

\* Whatever the order of refills, frames, changed ceilings and clock readings
\* that went back and came again, a relay has forwarded, or may still forward,
\* no more than its highest burst and what its highest rate earns over the time
\* that has run forward (media_limits.rs, authorize, refill, set_limits).
ForwardedWithinPromise ==
    \A n \in MediaNode :
        guard[n].forwarded + guard[n].allowance
            <= guard[n].topBurst + (guard[n].topRate * advanced) \div MilliPerSec

\* Nobody is handed a frame twice, or their own frame back, however many nodes
\* carry the call and whichever of them are in it: a forwarded copy is never
\* forwarded again (node.rs, the handler of Media).
HeardAtMostOnce ==
    \A n \in MediaNode, f \in 1 .. Len(frames) :
        heard[n][f] <= 1 /\ (heard[n][f] = 1 => n # frames[f].from)

\* Everyone a relay undertook to reach with a frame has heard it, or a copy for
\* them is on its way or was lost: a fan-out is served whole (media_limits.rs,
\* authorize; node.rs, the handler of Media).
FanOutIsWhole ==
    \A f \in 1 .. Len(frames) : \A n \in fanned[f] :
        \/ heard[n][f] = 1
        \/ <<n, f>> \in lost
        \/ \E e \in envelopes : e.frame = f /\ e.to = n /\ e.at = n

\* A node takes on a call only within its ceilings; lowering a ceiling drops no
\* call it agreed to (media_limits.rs, try_carry and set_limits).
CallsAreKept ==
    \A n \in MediaNode :
        LET before == Carried(guard[n])
            after  == Carried(guard'[n])
        IN  /\ ~(after \subseteq before) => Cardinality(after) <= guard[n].limits.calls
            /\ guard'[n].limits # guard[n].limits => guard'[n].calls = guard[n].calls

\* A relay keeps to its ceilings: the allowance is in range, no more is forwarded
\* than was promised, and calls are taken on within the ceiling and kept when it
\* is lowered (media_limits.rs, MediaRelayGuard).
MediaCeilingsHold ==
    [](MediaTypeOK /\ ForwardedWithinPromise) /\ [][CallsAreKept]_mediaVars

\* A frame reaches everyone a relay undertook to reach, once, unless it is lost
\* (node.rs, the handler of Media).
MediaArrivesOnce == HeardAtMostOnce /\ FanOutIsWhole
=============================================================================

---------------------------- MODULE MCRealtime ----------------------------
(* Small instances of the real-time services for TLC.  The services share no *)
(* state, so every history is about one of them.                             *)
EXTENDS Calls, MediaRelay, LiveStream, RelayGuard, DirectDelivery

VARIABLE focus      \* the service this history is about

vars == <<callVars, mediaVars, streamVars, relayVars, directVars, focus>>

MCCeilings == {[calls |-> 1, participants |-> 3, rate |-> 1, burst |-> 2],
               [calls |-> 2, participants |-> 2, rate |-> 2, burst |-> 3]}
MCRosters == {{1, 2, 3}, {2, 3}, {1, 2}}
MCOffers == {[up |-> 1, willing |-> TRUE], [up |-> 2, willing |-> TRUE],
             [up |-> 1, willing |-> FALSE]}
MCDraw == [k \in {"stream"} |-> [n \in 1 .. 4 |-> (n * 3) % 4]]
MCRelayLimits == [reservations |-> 3, perIdentity |-> 2, perInvite |-> 1,
                  circuits |-> 2, duration |-> 1, bytes |-> 2]

MCInit == /\ CallInit /\ MediaInit /\ StreamInit /\ RelayInit /\ DirectInit
          /\ focus \in {"call", "meter", "carry", "fan out", "tier", "window", "relay", "direct"}
          /\ focus \notin {"meter", "carry", "fan out"} =>
                \A n \in MediaNode : guard[n].limits.calls = 1
          /\ focus # "tier" => \A n \in StreamNode : offers[n] = [up |-> 1, willing |-> TRUE]

\* One relay whose ceilings, clock and traffic vary.
MeterNext == \/ Metering(1) \/ TryCarry(1, 1, {2, 3})
             \/ \E size \in FrameSize : SendMedia(2, 1, Everyone, size, 1)
             \/ \E e \in envelopes : Handling(e)
             \/ ClockForward \/ ClockBack

\* Several nodes that carry a call, and one frame in it.
FanOutNext ==
    \/ \E n \in MediaNode, roster \in Rosters : TryCarry(n, 1, roster)
    \/ frames = <<>> /\ \E n \in MediaNode : Sending(n)
    \/ \E e \in envelopes : Handling(e) \/ LoseEnvelope(e)

\* One relay that is asked to carry calls.
CarryNext == Carrying(1) \/ \E l \in Ceilings : SetLimits(1, l)

TierNext == RecomputeTier \/ \E n \in StreamNode :
                Withdraw(n) \/ \E o \in Offers : Advertise(n, o)

WindowNext == \E s \in Sequence : ProduceChunk(s) \/ \E n \in {1, 2} : RecordHolder(s, n)

MCNext ==
    /\ focus' = focus
    /\ \/ focus = "call" /\ CallNext
          /\ UNCHANGED <<mediaVars, streamVars, relayVars, directVars>>
       \/ /\ \/ focus = "meter" /\ MeterNext
             \/ focus = "carry" /\ CarryNext
             \/ focus = "fan out" /\ FanOutNext
          /\ UNCHANGED <<callVars, streamVars, relayVars, directVars>>
       \/ ((focus = "tier" /\ TierNext) \/ (focus = "window" /\ WindowNext))
          /\ UNCHANGED <<callVars, mediaVars, relayVars, directVars>>
       \/ focus = "relay" /\ RelayNext
          /\ UNCHANGED <<callVars, mediaVars, streamVars, directVars>>
       \/ focus = "direct" /\ DirectNext
          /\ UNCHANGED <<callVars, mediaVars, streamVars, relayVars>>

MCSpec == MCInit /\ [][MCNext]_vars
=============================================================================

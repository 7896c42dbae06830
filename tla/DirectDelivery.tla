--------------------------- MODULE DirectDelivery ---------------------------
(***************************************************************************)
(* Messages handed from member to member                                   *)
(* (crates/intranet-transport/src/node.rs, send_direct, handle_direct and  *)
(* the handlers of Direct; direct_limits.rs, DirectMeter).                 *)
(*                                                                         *)
(* A message crosses a connection that may fail before or after it is      *)
(* handled; the recipient meters it, answers, and hands it to a consumer.  *)
(* A sender whose message failed may send it again.  The recipient is one  *)
(* node; instants are ticks of its monotonic clock.                        *)
(***************************************************************************)
EXTENDS Integers, Sequences, FiniteSets, FiniteSetsExt, SequencesExt

CONSTANTS
    Sender,         \* identities that send
    Kind,           \* the (namespace, kind) labels of messages
    PerWindow,      \* PER_WINDOW
    Window,         \* WINDOW, in ticks
    MaxTracked,     \* MAX_TRACKED
    MaxMessages,    \* bound: messages sent
    MaxTick         \* bound: the clock

ASSUME DirectAssumption ==
    /\ {PerWindow, Window, MaxTracked, MaxMessages, MaxTick} \subseteq Nat
    /\ Window > 0 /\ PerWindow > 0

VARIABLES
    consumers,      \* direct_consumers: the kinds something here handles
    seen,           \* DirectMeter::seen: sender -> the instants it was admitted at
    tick,           \* the clock
    requests,       \* messages on their way to the recipient
    answers,        \* acknowledgements on their way back
    outcome,        \* outcome[m]: what the sender of message m was told
    consumed,       \* messages handed to a consumer (DirectReceived)
    admitted        \* <<sender, instant>> of every message the meter let in

directVars == <<consumers, seen, tick, requests, answers, outcome, consumed, admitted>>

Sent == 1 .. Len(outcome)

----------------------------------------------------------------------------
\* DirectMeter

Recent(history) == SelectSeq(history, LAMBDA t : tick - t < Window)

Tracked(m) == {s \in Sender : m[s] # <<>>}

\* Mutation: a full meter forgets everyone.
ForgetAll(m) == [s \in Sender |-> <<>>]

\* forget_stale: a sender with nothing inside the window is dropped.  A sender
\* that is not tracked has no history.
ForgetStale(m) == [s \in Sender |-> Recent(m[s])]

\* Whether a sender the meter does not know has to be refused for want of room.
IsFull(m, sender) == sender \notin Tracked(m) /\ Cardinality(Tracked(m)) >= MaxTracked

\* DirectMeter::admit: whether a message of sender is within the limit, and the
\* histories it leaves.
Meter(sender) ==
    LET swept   == IF IsFull(seen, sender) THEN ForgetStale(seen) ELSE seen
        history == Recent(swept[sender])
        within  == ~IsFull(swept, sender) /\ Len(history) < PerWindow
    IN  [within |-> within,
         seen |-> IF IsFull(swept, sender) THEN swept
                  ELSE [swept EXCEPT ![sender] =
                           IF within THEN Append(history, tick) ELSE history]]

----------------------------------------------------------------------------
\* The sender and the recipient

\* send_direct.
SendDirect(sender, kind) ==
    /\ Len(outcome) < MaxMessages
    /\ outcome' = Append(outcome, "waiting")
    /\ requests' = requests \cup {[id |-> Len(outcome) + 1, sender |-> sender, kind |-> kind]}
    /\ UNCHANGED <<consumers, seen, tick, answers, consumed, admitted>>

\* handle_direct.
HandleKind(kind) ==
    /\ kind \notin consumers
    /\ consumers' = consumers \cup {kind}
    /\ UNCHANGED <<seen, tick, requests, answers, outcome, consumed, admitted>>

\* The acknowledgement: the meter first, then whether the kind is handled.
AckOf(m, within) ==
    IF ~within THEN "RateLimited"
    ELSE IF m.kind \notin consumers THEN "Unsupported"
    ELSE "Received"

\* A message arrives: it is metered, answered, and reported.
ReceiveDirect(m) ==
    LET meter == Meter(m.sender)
        ack   == AckOf(m, meter.within)
    IN  /\ requests' = requests \ {m}
        /\ seen' = meter.seen
        /\ admitted' = IF meter.within THEN Append(admitted, <<m.sender, tick>>) ELSE admitted
        /\ answers' = answers \cup {[id |-> m.id, ack |-> ack]}
        /\ consumed' = IF meter.within /\ m.kind \in consumers
                       THEN consumed \cup {m.id} ELSE consumed
        /\ UNCHANGED <<consumers, tick, outcome>>

\* The sender is told: the acknowledgement (DirectDelivered), or that the
\* connection failed on the way there or back (DirectFailed).
HearAck(a) ==
    /\ answers' = answers \ {a}
    /\ outcome' = [outcome EXCEPT ![a.id] = a.ack]
    /\ UNCHANGED <<consumers, seen, tick, requests, consumed, admitted>>

LoseRequest(m) ==
    /\ requests' = requests \ {m}
    /\ outcome' = [outcome EXCEPT ![m.id] = "failed"]
    /\ UNCHANGED <<consumers, seen, tick, answers, consumed, admitted>>

LoseAck(a) ==
    /\ answers' = answers \ {a}
    /\ outcome' = [outcome EXCEPT ![a.id] = "failed"]
    /\ UNCHANGED <<consumers, seen, tick, requests, consumed, admitted>>

TickDirect == /\ tick < MaxTick
              /\ tick' = tick + 1
              /\ UNCHANGED <<consumers, seen, requests, answers, outcome, consumed, admitted>>

DirectInit ==
    /\ consumers = {} /\ seen = [s \in Sender |-> <<>>] /\ tick = 0
    /\ requests = {} /\ answers = {} /\ outcome = <<>> /\ consumed = {} /\ admitted = <<>>

DirectNext ==
    \/ \E s \in Sender, k \in Kind : SendDirect(s, k)
    \/ \E k \in Kind : HandleKind(k)
    \/ \E m \in requests : ReceiveDirect(m) \/ LoseRequest(m)
    \/ \E a \in answers : HearAck(a) \/ LoseAck(a)
    \/ TickDirect

DirectSpec == DirectInit /\ [][DirectNext]_directVars

----------------------------------------------------------------------------
\* Properties

\* No stretch of Window ticks, wherever it begins, sees more than PerWindow
\* messages of one sender let in, although the meter prunes histories and
\* forgets senders when it is full (direct_limits.rs, admit and forget_stale).
WindowHolds ==
    \A s \in Sender, t \in 0 .. tick :
        Len(SelectSeq(admitted, LAMBDA a : a[1] = s /\ a[2] \in t .. t + Window - 1)) <= PerWindow

\* The meter never tracks more senders than it has room for (direct_limits.rs,
\* MAX_TRACKED).
MeterIsBounded == Cardinality(Tracked(seen)) <= MaxTracked

\* "Received means a consumer that understands the payload got it": a sender is
\* told Received only of a message a consumer was handed, and told it was
\* refused only of one no consumer was handed (node.rs, the handler of Direct).
AckIsTrue ==
    \A i \in Sent : /\ outcome[i] = "Received" => i \in consumed
                    /\ outcome[i] \in {"RateLimited", "Unsupported"} => i \notin consumed

\* Senders are metered in any window, by a meter that stays small, and are told
\* the truth about what became of a message (direct_limits.rs; node.rs, the
\* handler of Direct).
DeliveryIsMetered == WindowHolds /\ MeterIsBounded /\ AckIsTrue
=============================================================================

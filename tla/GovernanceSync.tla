--------------------------- MODULE GovernanceSync ---------------------------
(***************************************************************************)
(* Replication of the governance log between member nodes: the sync        *)
(* protocol that crates/intranet-transport/src/node.rs runs over           *)
(* request/response streams, on top of heads, ancestors_first and insert   *)
(* of crates/intranet-governance/src/log.rs.                               *)
(*                                                                         *)
(* One exchange is Heads -> heads, Fetch -> entries.  Each side of a       *)
(* connection pulls for itself, exchanges of one pair may overlap, and     *)
(* their messages travel on streams of their own, in any order.            *)
(* A member node never calls GovernanceLog::reconcile, so the log it keeps *)
(* is GovernanceLog with nothing finalized: the refinement mapping.        *)
(***************************************************************************)
EXTENDS Integers, FiniteSets, Sequences

CONSTANTS
    Node, Hash, Nil, Kind, Time, Params, Verdict,   \* as in GovernanceLog
    Author,             \* the nodes that append entries of their own
    MaxEntries,         \* MAX_ENTRIES_PER_RESPONSE
    MaxEvents           \* bound: lost connections, failed requests and pulls that a
                        \* caller starts, together, in one behaviour

ASSUME LogAssumption == /\ Hash \subseteq Nat /\ Nil \notin Hash
                        /\ Time \subseteq Int /\ Params \subseteq [k : Nat, t : Nat]
                        /\ Verdict \subseteq BOOLEAN
ASSUME AuthorAssumption == Author \subseteq Node
ASSUME BoundAssumption == /\ MaxEntries \in Nat \ {0}
                          /\ MaxEvents \in Nat

VARIABLES
    entry, held,    \* as in GovernanceLog
    link,           \* the connected pairs of nodes
    msgs,           \* requests and responses in flight
    count           \* how often each bounded event has happened

vars == <<entry, held, link, msgs, count>>

\* `finalized` of every member node: nothing ever sets it.
NeverFinalized == [n \in Node |-> Nil]

Log == INSTANCE GovernanceLog WITH finalized <- NeverFinalized

----------------------------------------------------------------------------
\* Messages: SyncRequest and SyncResponse

HeadsRequest(a, b) == [type |-> "HeadsRequest", from |-> a, to |-> b]

HeadsResponse(a, b, heads) ==
    [type |-> "HeadsResponse", from |-> a, to |-> b, heads |-> heads]

FetchRequest(a, b, wanted, have) ==
    [type |-> "FetchRequest", from |-> a, to |-> b, wanted |-> wanted, have |-> have]

EntriesResponse(a, b, entries, truncated) ==
    [type |-> "EntriesResponse", from |-> a, to |-> b,
     entries |-> entries, truncated |-> truncated]

InFlight(type, a, b) == {m \in msgs : m.type = type /\ m.from = a /\ m.to = b}

\* One more of the bounded events.
Counted(event) == /\ count.disconnects + count.timeouts + count.resyncs < MaxEvents
                  /\ count' = [count EXCEPT ![event] = @ + 1]

\* Taking m off the wire and putting the messages in `out` on it.
Exchange(m, out) == msgs' = (msgs \ {m}) \cup out

----------------------------------------------------------------------------
\* GovernanceLog::ancestors_first on the log E

\* ancestry of a hash that is not in the log is that hash alone.
AncestryIn(E, h) == IF h \in E THEN Log!Ancestry(h) ELSE {h}

Needed(E, wanted, have) ==
    (UNION {Log!Ancestry(h) : h \in wanted \cap E}) \ (UNION {AncestryIn(E, h) : h \in have})

\* Mutation: by hash alone.
BeforeByHash(g, h) == g < h

\* By depth from the root, then by hash.
Before(g, h) ==
    LET dg == Cardinality(Log!Ancestry(g))
        dh == Cardinality(Log!Ancestry(h))
    IN  dg < dh \/ (dg = dh /\ g < h)

\* The entries of S in that order.
Ordered(S) ==
    [i \in 1 .. Cardinality(S) |->
        CHOOSE h \in S : Cardinality({g \in S : Before(g, h)}) = i - 1]

Truncate(s) == SubSeq(s, 1, IF Len(s) > MaxEntries THEN MaxEntries ELSE Len(s))

----------------------------------------------------------------------------
\* The loop over insert in the handler of SyncResponse::Entries

\* The log E after insert of h: an entry whose parent is missing is refused.
Inserted(E, h) == IF Log!Parent(h) \in E \cup {Nil} THEN E \cup {h} ELSE E

\* The log E after inserting s in order.
InsertAll(E, s) ==
    LET after[i \in 0 .. Len(s)] ==
            IF i = 0 THEN E ELSE Inserted(after[i - 1], s[i])
    IN  after[Len(s)]

----------------------------------------------------------------------------
\* Steps

\* An entry the node signs itself, append_entry; the genesis comes first.
AppendEntry(n) ==
    /\ n \in Author
    /\ Log!InsertGenesis(n) \/ Log!InsertOwn(n)
    /\ UNCHANGED <<link, msgs, count>>

\* ConnectionEstablished, direct: each side starts a pull.
Connect(a, b) ==
    /\ a # b
    /\ {a, b} \notin link
    /\ link' = link \cup {{a, b}}
    /\ msgs' = msgs \cup {HeadsRequest(a, b), HeadsRequest(b, a)}
    /\ UNCHANGED <<entry, held, count>>

\* Mutation: the log is given up with the connection.
DisconnectForgets(a, b) ==
    /\ {a, b} \in link
    /\ Counted("disconnects")
    /\ link' = link \ {{a, b}}
    /\ msgs' = {m \in msgs : {m.from, m.to} # {a, b}}
    /\ held' = [held EXCEPT ![a] = {}]
    /\ UNCHANGED entry

\* ConnectionClosed: what was in flight is lost, and nothing is remembered.
Disconnect(a, b) ==
    /\ {a, b} \in link
    /\ link' = link \ {{a, b}}
    /\ msgs' = {m \in msgs : {m.from, m.to} # {a, b}}
    /\ Counted("disconnects")
    /\ UNCHANGED <<entry, held>>

\* OutboundFailure on a live connection: reported, never retried.
Timeout(m) ==
    /\ Exchange(m, {})
    /\ Counted("timeouts")
    /\ UNCHANGED <<entry, held, link>>

\* sync_with, called on a peer that is already connected.
SyncWith(a, b) ==
    /\ a # b
    /\ {a, b} \in link
    /\ msgs' = msgs \cup {HeadsRequest(a, b)}
    /\ Counted("resyncs")
    /\ UNCHANGED <<entry, held, link>>

\* SyncRequest::Heads at its receiver.
AnswerHeads(m) ==
    /\ Exchange(m, {HeadsResponse(m.to, m.from, Log!Heads(held[m.to]))})
    /\ UNCHANGED <<entry, held, link, count>>

\* SyncResponse::Heads: ask for the tips not held, or stop.
HandleHeads(m) ==
    LET wanted == m.heads \ held[m.to]
    IN  /\ Exchange(m, IF wanted = {} THEN {}
                       ELSE {FetchRequest(m.to, m.from, wanted, Log!Heads(held[m.to]))})
        /\ UNCHANGED <<entry, held, link, count>>

\* SyncRequest::Fetch at its receiver.
AnswerFetch(m) ==
    LET needed == Ordered(Needed(held[m.to], m.wanted, m.have))
    IN  /\ Exchange(m, {EntriesResponse(m.to, m.from, Truncate(needed),
                                        Len(needed) > MaxEntries)})
        /\ UNCHANGED <<entry, held, link, count>>

\* Mutation: a response that was cut is not followed up.
HandleEntriesOnce(m) ==
    /\ held' = [held EXCEPT ![m.to] = InsertAll(@, m.entries)]
    /\ Exchange(m, {})
    /\ UNCHANGED <<entry, link, count>>

\* SyncResponse::Entries: insert what came, and start again when it was cut.
HandleEntries(m) ==
    /\ held' = [held EXCEPT ![m.to] = InsertAll(@, m.entries)]
    /\ Exchange(m, IF m.truncated THEN {HeadsRequest(m.to, m.from)} ELSE {})
    /\ UNCHANGED <<entry, link, count>>

\* The event loop of `b` takes one message of this type that `a` sent.
Deliver(type, a, b) ==
    \E m \in InFlight(type, a, b) :
        \/ type = "HeadsRequest" /\ AnswerHeads(m)
        \/ type = "HeadsResponse" /\ HandleHeads(m)
        \/ type = "FetchRequest" /\ AnswerFetch(m)
        \/ type = "EntriesResponse" /\ HandleEntries(m)

MessageType == {"HeadsRequest", "HeadsResponse", "FetchRequest", "EntriesResponse"}

Init ==
    /\ Log!Init
    /\ link = {}
    /\ msgs = {}
    /\ count = [disconnects |-> 0, timeouts |-> 0, resyncs |-> 0]

Next ==
    \/ \E n \in Node : AppendEntry(n)
    \/ \E a, b \in Node : Connect(a, b) \/ Disconnect(a, b) \/ SyncWith(a, b)
    \/ \E m \in msgs : Timeout(m)
    \/ \E a, b \in Node, type \in MessageType : Deliver(type, a, b)

\* A node's event loop keeps turning, so a message on a live connection is
\* taken in the end.  Nobody has to append, connect, disconnect or re-sync.
Fairness == \A a \in Node : \A b \in Node \ {a} :
                \A type \in MessageType : WF_vars(Deliver(type, a, b))

Spec == Init /\ [][Next]_vars /\ Fairness

----------------------------------------------------------------------------
\* Properties

\* Logs are closed under ancestry, messages travel between connected nodes and
\* carry signed entries.
TypeOK ==
    /\ \A n \in Node : \A h \in held[n] : Log!Ancestry(h) \subseteq held[n]
    /\ link \subseteq SUBSET Node
    /\ \A m \in msgs :
          /\ m.type \in MessageType
          /\ {m.from, m.to} \in link
          /\ m.type = "HeadsResponse" => m.heads \subseteq Log!Signed
          /\ m.type = "FetchRequest" => /\ m.wanted \subseteq Log!Signed
                                        /\ m.have \subseteq held[m.from]
          /\ m.type = "EntriesResponse" => /\ Len(m.entries) <= MaxEntries
                                           /\ m.entries \in Seq(Log!Signed)

\* No entry of a response is refused when it arrives, however the log has moved
\* since the request and however the response was cut (log.rs, ancestors_first:
\* "a receiver handed a child before its parent silently drops the child").
NothingRejected ==
    \A m \in msgs : m.type = "EntriesResponse" =>
        \A i \in 1 .. Len(m.entries) : m.entries[i] \in InsertAll(held[m.to], m.entries)

\* The member nodes' logs are GovernanceLog replicas: whatever the messages do,
\* a log changes only by appending and by inserting a set of entries closed
\* under ancestry (log.rs, insert).
LogsAreReplicas == Log!Spec

\* What the peer holds when a pull starts reaches the node, unless the
\* connection is lost or a request on it fails first (node.rs, the handlers of
\* SyncResponse).
PullDelivers ==
    \A a, b \in Node, h \in Hash :
        (HeadsRequest(a, b) \in msgs /\ h \in held[b])
            ~> (h \in held[a] \/ {a, b} \notin link \/ count.timeouts > 0)
=============================================================================

---------------------------- MODULE PointerStore ----------------------------
(***************************************************************************)
(* Mutable pointers and DEK wrappings (crates/intranet-storage/src/         *)
(* pointer.rs) and the exchange that spreads them (the pointer protocol of   *)
(* crates/intranet-transport/src/node.rs): a digest of what is held, a fetch  *)
(* of what is worth having, both cut at MaxPointers.                          *)
(*                                                                         *)
(* A record is its version and its hash; the hash stands for the content,     *)
(* and two records of a pointer have different hashes.  A wrapping is the     *)
(* rotation it is under and who made it, and unwraps to the committed DEK:    *)
(* its maker is an honest member.  Signatures are taken to hold.             *)
(***************************************************************************)
EXTENDS MemberView, Functions

CONSTANTS
    Pointer,        \* pointer ids, numbered in their order
    OwnerOf,        \* OwnerOf[p]: the identity that may update p
    MaxPointers,    \* MAX_POINTERS_PER_RESPONSE
    MaxVersion,     \* bound: versions
    MaxHash         \* bound: record hashes

ASSUME OwnerAssumption == OwnerOf \in [Pointer -> Node]

VARIABLES
    pointers,       \* pointers[n][p]: the record n holds, or Nil
    wrappings,      \* wrappings[n][p]: rotation -> who made the wrapping held
    published,      \* published[p]: the records the owner has signed
    pointerPost     \* pointer messages in flight

pointerVars == <<pointers, wrappings, published, pointerPost>>

Record == [version : 0 .. MaxVersion, hash : 1 .. MaxHash]

NoWrappings == [r \in {} |-> Nil]

PointerInit ==
    /\ pointers = [n \in Node |-> [p \in Pointer |-> Nil]]
    /\ wrappings = [n \in Node |-> [p \in Pointer |-> NoWrappings]]
    /\ published = [p \in Pointer |-> {}]
    /\ pointerPost = {}

\* resolve, supersedes: a higher version, and the lower hash of equal versions.
Supersedes(a, b) ==
    a.version > b.version \/ (a.version = b.version /\ a.hash < b.hash)

\* check_publish_gates: the content type is allowed, and the owner may publish
\* it, which here is membership in the publishers of the state.
MayPublish(n, who) == at[n] # 0 /\ who \in History[at[n]].publishers

IsDelisted(n, p) == p \in History[at[n]].delisted

\* pointer_is_publishable, against the receiver's own state.
IsPublishable(n, p) == MayPublish(n, OwnerOf[p]) /\ ~IsDelisted(n, p)

\* Mutation: the last record to come wins.
AcceptLast(n, p, r) == IF IsPublishable(n, p) THEN r ELSE pointers[n][p]

\* accept_pointer: what n then holds for p.
Accept(n, p, r) ==
    IF IsPublishable(n, p) /\ (pointers[n][p] = Nil \/ Supersedes(r, pointers[n][p]))
    THEN r ELSE pointers[n][p]

\* accept_wrapping: from a current member; the last one to come replaces what
\* was held under its rotation.
AcceptWrappings(n, p, news) ==
    [r \in DOMAIN wrappings[n][p] \cup {r \in DOMAIN news : IsMember(n, news[r])} |->
        IF r \in DOMAIN news /\ IsMember(n, news[r]) THEN news[r] ELSE wrappings[n][p][r]]

\* MutablePointer::publish, which signs version 0, or update of a record the
\* owner has signed before, not always the last; the node then accepts it.
SignPointer(p, r) ==
    LET n == OwnerOf[p]
    IN  /\ MayPublish(n, n)
        /\ r \in Record
        /\ \A s \in published[p] : s.hash # r.hash
        /\ ~(r.version > 0 /\ \A s \in published[p] : s.version # r.version - 1)
        /\ published' = [published EXCEPT ![p] = @ \cup {r}]
        /\ pointers' = [pointers EXCEPT ![n][p] = Accept(n, p, r)]
        /\ UNCHANGED <<wrappings, pointerPost>>

\* DekWrapping::create by a member that holds the pointer and the key of the
\* rotation its state says is canonical; the node then accepts it.
Rewrap(n, p) ==
    /\ IsMember(n, n)
    /\ pointers[n][p] # Nil
    /\ LET r == History[at[n]].rotation
       IN  /\ r \notin DOMAIN wrappings[n][p]
           /\ wrappings' = [wrappings EXCEPT ![n][p] = AcceptWrappings(n, p, [x \in {r} |-> n])]
    /\ UNCHANGED <<pointers, published, pointerPost>>

PointerMessage(kind, from, to, body, cut) ==
    [kind |-> kind, from |-> from, to |-> to, body |-> body, cut |-> cut]

\* The messages of an exchange that n started with m.
PointerExchange(q, n, m) ==
    IF q.kind \in {"digest?", "fetch?"} THEN q.from = n /\ q.to = m ELSE q.from = m /\ q.to = n

\* sync_pointers_with.  Connections start one exchange at a time.
AskPointers(n, m) == PointerMessage("digest?", n, m, {}, FALSE)

StartPointerSync(n, m) ==
    /\ \A q \in pointerPost : ~PointerExchange(q, n, m)
    /\ pointerPost' = pointerPost \cup {AskPointers(n, m)}
    /\ UNCHANGED <<pointers, wrappings, published>>

PointersAfterSync(n, m) ==
    /\ pointerPost' = pointerPost \cup {AskPointers(n, m)}
    /\ UNCHANGED <<pointers, wrappings, published>>

\* serve_pointers: refused unless the requester may read content; delisted
\* pointers are left out of digests and of records.
ServedPointers(n, ids) ==
    {p \in ids : pointers[n][p] # Nil /\ ~IsDelisted(n, p)}

ServePointers(q) ==
    LET n == q.to
        ids == ServedPointers(n, IF q.kind = "digest?" THEN Pointer ELSE q.body)
        first == FirstOf(ids, MaxPointers)
        cut == Cardinality(ids) > MaxPointers
    IN  CASE ~MaySeeContent(n, q.from) -> PointerMessage("refused", n, q.from, {}, FALSE)
          [] MaySeeContent(n, q.from) /\ q.kind = "digest?" ->
                PointerMessage("digest", n, q.from, [p \in first |-> pointers[n][p]], cut)
          [] OTHER -> PointerMessage("records", n, q.from,
                [p \in first |-> [record |-> pointers[n][p], keys |-> wrappings[n][p]]], cut)

AnswerPointers(q) ==
    /\ q \in pointerPost /\ q.kind \in {"digest?", "fetch?"}
    /\ pointerPost' = (pointerPost \ {q}) \cup {ServePointers(q)}
    /\ UNCHANGED <<pointers, wrappings, published>>

\* pointers_worth_fetching: unknown, higher, or another record of the version.
WorthFetching(n, digest) ==
    {p \in DOMAIN digest :
        \/ pointers[n][p] = Nil
        \/ digest[p].version > pointers[n][p].version
        \/ digest[p].version = pointers[n][p].version /\ digest[p].hash # pointers[n][p].hash}

\* The response handler.
HearPointerDigest(q) ==
    /\ q \in pointerPost /\ q.kind = "digest"
    /\ pointerPost' = (pointerPost \ {q}) \cup
          {PointerMessage("fetch?", q.to, q.from, w, FALSE) :
              w \in {WorthFetching(q.to, q.body)} \ {{}}}
    /\ UNCHANGED <<pointers, wrappings, published>>

HearRecords(q) ==
    /\ q \in pointerPost /\ q.kind = "records"
    /\ pointers' = [pointers EXCEPT ![q.to] = [p \in Pointer |->
          IF p \in DOMAIN q.body THEN Accept(q.to, p, q.body[p].record) ELSE @[p]]]
    /\ wrappings' = [wrappings EXCEPT ![q.to] = [p \in Pointer |->
          IF p \in DOMAIN q.body THEN AcceptWrappings(q.to, p, q.body[p].keys) ELSE @[p]]]
    /\ pointerPost' = pointerPost \ {q}
    /\ UNCHANGED published

\* PointerSyncRefused is reported and nothing changes.
HearPointerRefusal(q) ==
    /\ q \in pointerPost /\ q.kind = "refused"
    /\ pointerPost' = pointerPost \ {q}
    /\ UNCHANGED <<pointers, wrappings, published>>

HandlePointers(q) ==
    AnswerPointers(q) \/ HearPointerDigest(q) \/ HearRecords(q) \/ HearPointerRefusal(q)

LosePointerMessage(q) ==
    /\ q \in pointerPost
    /\ pointerPost' = pointerPost \ {q}
    /\ UNCHANGED <<pointers, wrappings, published>>

\* The node restarts: pointers and wrappings are held in memory only.
RestartPointers(n) ==
    /\ pointers' = [pointers EXCEPT ![n] = [p \in Pointer |-> Nil]]
    /\ wrappings' = [wrappings EXCEPT ![n] = [p \in Pointer |-> NoWrappings]]
    /\ pointerPost' = {q \in pointerPost : q.to # n /\ q.from # n}
    /\ UNCHANGED published

\* The pointer stores and the chain, whoever is connected and whatever is lost.
PointerNext ==
    \/ /\ at' = at
       /\ \/ \E p \in Pointer, r \in Record : SignPointer(p, r)
          \/ \E n \in Node, p \in Pointer : Rewrap(n, p)
          \/ \E n, m \in Node : StartPointerSync(n, m)
          \/ \E q \in pointerPost : HandlePointers(q) \/ LosePointerMessage(q)
          \/ \E n \in Node : RestartPointers(n)
    \/ \E n, m \in Node : SyncAccepted(n, m) /\ PointersAfterSync(n, m)
    \/ \E n \in Node : AppendEntry(n) /\ UNCHANGED pointerVars

PointerSpec == /\ at \in [Node -> 0 .. Len(History)] /\ PointerInit
               /\ [][PointerNext]_<<at, pointerVars>>

Pointers == INSTANCE LatestWins WITH Replica <- Node, Key <- Pointer, None <- Nil,
              Later <- Supersedes, signed <- published, held <- pointers

\* The pointer store implements LatestWins: a member replaces a record only by one
\* of a higher version or, of equal versions, of a lower hash, and holds none that
\* the owner did not sign (pointer.rs, supersedes and accept_pointer).
PointersKeepLatest == Pointers!LatestSpec

\* What the peer offers first, to a node that may read it, the node holds as late.
PointersAgree(n, m) ==
    MaySeeContent(m, n) =>
        \A p \in FirstOf(ServedPointers(m, Pointer), MaxPointers) :
            IsPublishable(n, p) =>
                pointers[n][p] # Nil /\ ~Supersedes(pointers[m][p], pointers[n][p])

PointerTypeOK ==
    /\ \A n \in Node, p \in Pointer : pointers[n][p] \in Record \cup {Nil}
    /\ \A p \in Pointer : published[p] \subseteq Record
=============================================================================

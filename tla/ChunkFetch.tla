----------------------------- MODULE ChunkFetch ------------------------------
(***************************************************************************)
(* A member node fetching chunks from the swarm: the calls that start or   *)
(* extend a fetch, the provider queries and chunk requests it keeps        *)
(* outstanding, and the arms of the event loop that take their outcomes    *)
(* (crates/intranet-transport/src/node.rs, on FetchPlan).                  *)
(*                                                                         *)
(* Queries and requests are counted per chunk.  An answer to one is        *)
(* matched to the plan by the chunk alone, so which of two requests for a  *)
(* chunk is answered makes no difference to the node.                      *)
(*                                                                         *)
(* The node has discovery.  Without it find_providers asks nobody, and a   *)
(* fetch waits for providers for ever.                                     *)
(***************************************************************************)
EXTENDS FetchPlan, FiniteSetsExt

CONSTANTS ChunksOf,       \* Object -> the chunks its manifest names
          Bound,          \* Object -> Manifest::ciphertext_bound
          Size,           \* Chunk -> the length of its bytes
          Batches,        \* the arguments fetch_chunks is called with
          Concurrencies,  \* the concurrencies either call is given
          NoPlan,         \* MemberNode.fetch = None
          MaxCalls,       \* bound on calls of fetch_chunks and fetch_object
          MaxOther        \* bound on request_chunk, store_chunk and forget_chunk

ASSUME FetchAssumption ==
    /\ IsFiniteSet(Chunk)
    /\ ChunksOf \in [Object -> SUBSET Chunk]
    /\ Bound \in [Object -> Nat]
    /\ Size \in [Chunk -> Nat \ {0}]
    /\ Batches \subseteq SUBSET Chunk
    /\ Concurrencies \subseteq Nat
    /\ NoPlan \notin Plan
    /\ {MaxHolders, MaxSources, MaxCalls, MaxOther} \subseteq Nat

VARIABLES store,      \* the chunks this node holds
          fetch,      \* the running plan, or NoPlan
          queries,    \* provider queries outstanding, per chunk
          requests,   \* chunk requests outstanding, per chunk
          overrun,    \* MemberNode.overrun_objects
          waiting,    \* a call was made and no FetchComplete has followed it
          taken,      \* Object -> the stored chunks that a fetch of it took
          calls, oneOffs, local

vars == <<store, fetch, queries, requests, overrun, waiting, taken,
          calls, oneOffs, local>>

TypeOK ==
    /\ store \in SUBSET Chunk
    /\ fetch = NoPlan \/ fetch \in Plan
    /\ queries \in [Chunk -> Nat]
    /\ requests \in [Chunk -> Nat]
    /\ overrun \in SUBSET Object
    /\ waiting \in BOOLEAN
    /\ taken \in [Object -> SUBSET Chunk]
    /\ calls \in 0..MaxCalls
    /\ oneOffs \in 0..MaxOther
    /\ local \in 0..MaxOther

Init ==
    /\ store = {}
    /\ fetch = NoPlan
    /\ queries = [c \in Chunk |-> 0]
    /\ requests = [c \in Chunk |-> 0]
    /\ overrun = {}
    /\ waiting = FALSE
    /\ taken = [o \in Object |-> {}]
    /\ calls = 0
    /\ oneOffs = 0
    /\ local = 0

Running == fetch # NoPlan
Bytes(chunks) == MapThenSumSet(LAMBDA c : Size[c], chunks)
AddOne(counts, chunks) == [c \in Chunk |-> IF c \in chunks THEN counts[c] + 1 ELSE counts[c]]

(***************************************************************************)
(* drive_fetch, from plan p with `outstanding` requests: send what the     *)
(* plan says to send next.                                                 *)
(***************************************************************************)
DriveFetch(p, outstanding) ==
    \E issued \in NextRequests(p) :
        /\ fetch' = Issue(p, issued)
        /\ requests' = AddOne(outstanding, issued)

(***************************************************************************)
(* drive_fetch and then completed_fetch: a plan with nothing pending is    *)
(* dropped and its FetchComplete queued for the application.               *)
(***************************************************************************)
DriveAndComplete(p, outstanding) ==
    \/ /\ IsComplete(p)
       /\ fetch' = NoPlan
       /\ requests' = outstanding
       /\ waiting' = FALSE
    \/ /\ ~IsComplete(p)
       /\ DriveFetch(p, outstanding)
       /\ UNCHANGED waiting

\* start_fetch looks up every chunk that waits for providers, again if need be.
QueriesFor(p, was) == InState(p, "AwaitingProviders")

\* The plan a call extends: the running one, or a new one.
PlanFor(concurrency) == IF Running THEN fetch ELSE NewPlan(concurrency)

(***************************************************************************)
(* start_fetch, from the plan as it was to the plan extended with what the *)
(* caller wants: query the providers it needs and issue what is next.      *)
(***************************************************************************)
StartFetch(was, now) ==
    /\ queries' = AddOne(queries, QueriesFor(now, was))
    /\ DriveFetch(now, requests)
    /\ waiting' = TRUE

\* fetch_chunks: chunks already held are skipped.
FetchChunks(batch, concurrency) ==
    LET plan == PlanFor(concurrency)
    IN /\ calls < MaxCalls
       /\ calls' = calls + 1
       /\ StartFetch(plan, Extend(plan, batch \ store))
       /\ UNCHANGED <<store, overrun, taken, oneOffs, local>>

\* Mutation: what is already held of the object is not taken off its allowance.
AllowanceWhole(o) == Bound[o]

\* The bytes a fetch of o may still take; negative when it holds too many.
Allowance(o) == Bound[o] - Bytes(ChunksOf[o] \cap store)

(***************************************************************************)
(* fetch_object: refused for an object that overran, and for one of which  *)
(* too many bytes are held already; nothing to start when all are held.    *)
(***************************************************************************)
FetchObject(o, concurrency) ==
    /\ calls < MaxCalls
    /\ calls' = calls + 1
    /\ o \notin overrun
    /\ UNCHANGED <<store, taken, oneOffs, local>>
    /\ \/ /\ Allowance(o) < 0
          /\ overrun' = overrun \cup {o}
          /\ UNCHANGED <<fetch, queries, requests, waiting>>
       \/ /\ Allowance(o) >= 0
          /\ ~(ChunksOf[o] \subseteq store)
          /\ LET plan == PlanFor(concurrency)
             IN StartFetch(plan, ExtendWithin(plan, o, ChunksOf[o] \ store, Allowance(o)))
          /\ UNCHANGED overrun

(***************************************************************************)
(* The last step of a provider query.  With a plan running its answer goes *)
(* to record_providers; without one it is only reported.                   *)
(***************************************************************************)
ProvidersFound(c) ==
    /\ queries[c] > 0
    /\ queries' = [queries EXCEPT ![c] = @ - 1]
    /\ IF Running
       THEN \E p \in {RecordProviders(fetch, c, holders, usable) :
                         holders \in 0..MaxHolders, usable \in 0..MaxSources} :
              DriveAndComplete(p, requests)
       ELSE UNCHANGED <<fetch, requests, waiting>>
    /\ UNCHANGED <<store, overrun, taken, calls, oneOffs, local>>

\* The request for c that is answered is no longer outstanding.
Answered(c) == [requests EXCEPT ![c] = @ - 1]

\* A budget of o covers c, which the plan has in flight.
PaysFor(p, o, c) ==
    /\ p.state[c] = "InFlight"
    /\ \E i \in BudgetsOf(p, c) : p.budgets[i].object = o

(***************************************************************************)
(* A chunk response whose bytes verify.  They enter the store, are weighed *)
(* by admit_to_fetch, and leave it again if no caller had room for them    *)
(* and they were not held before.                                          *)
(***************************************************************************)
ChunkArrives(c) ==
    /\ requests[c] > 0
    /\ IF ~Running
       THEN /\ store' = store \cup {c}
            /\ requests' = Answered(c)
            /\ UNCHANGED <<fetch, overrun, waiting>>
       ELSE LET weighed == Admit(fetch, c, Size[c])
            IN /\ overrun' = overrun \cup OverrunObjects(weighed)
               /\ \/ /\ Admits(fetch, c, Size[c])
                     /\ store' = store \cup {c}
                     /\ DriveAndComplete(RecordReceived(weighed, c), Answered(c))
                  \/ /\ ~Admits(fetch, c, Size[c])
                     /\ UNCHANGED store
                     /\ DriveAndComplete(weighed, Answered(c))
    /\ taken' = [o \in Object |->
                   IF c \in store' /\ Running /\ PaysFor(fetch, o, c)
                   THEN taken[o] \cup {c} ELSE taken[o]]
    /\ UNCHANGED <<queries, calls, oneOffs, local>>

(***************************************************************************)
(* Every other outcome of a request: bytes that fail verification, a       *)
(* NotHeld, a refusal, or an OutboundFailure (timeout, lost connection).   *)
(***************************************************************************)
ChunkUnavailable(c) ==
    /\ requests[c] > 0
    /\ IF Running THEN DriveAndComplete(RecordFailed(fetch, c), Answered(c))
       ELSE /\ requests' = Answered(c)
            /\ UNCHANGED <<fetch, waiting>>
    /\ UNCHANGED <<store, queries, overrun, taken, calls, oneOffs, local>>

\* request_chunk: one chunk from one peer, outside any plan.
RequestChunk(c) ==
    /\ oneOffs + local < MaxOther
    /\ oneOffs' = oneOffs + 1
    /\ requests' = AddOne(requests, {c})
    /\ UNCHANGED <<store, fetch, queries, overrun, waiting, taken, calls, local>>

\* store_chunk: bytes this node published itself.
StoreChunk(c) ==
    /\ oneOffs + local < MaxOther
    /\ local' = local + 1
    /\ c \notin store
    /\ store' = store \cup {c}
    /\ UNCHANGED <<taken, fetch, queries, requests, overrun, waiting, calls, oneOffs>>

ForgetChunk(c) ==
    /\ oneOffs + local < MaxOther
    /\ local' = local + 1
    /\ c \in store
    /\ store' = store \ {c}
    /\ taken' = [o \in Object |-> taken[o] \ {c}]
    /\ UNCHANGED <<fetch, queries, requests, overrun, waiting, calls, oneOffs>>

Next ==
    \/ \E batch \in Batches, k \in Concurrencies : FetchChunks(batch, k)
    \/ \E o \in Object, k \in Concurrencies : FetchObject(o, k)
    \/ \E c \in Chunk : ProvidersFound(c)
    \/ \E c \in Chunk : ChunkArrives(c)
    \/ \E c \in Chunk : ChunkUnavailable(c)
    \/ \E c \in Chunk : RequestChunk(c)
    \/ \E c \in Chunk : StoreChunk(c)
    \/ \E c \in Chunk : ForgetChunk(c)

(***************************************************************************)
(* A Kademlia query ends (it has a timeout), and so does a request: with a *)
(* response or, at the latest when it times out, with an OutboundFailure.  *)
(* Less is assumed here: while anything is outstanding, something of it is *)
(* answered; what, and with which answer, is left open.  This is           *)
(* WF_vars(Answer) with ENABLED written out.                               *)
(***************************************************************************)
Answer == \E c \in Chunk : ProvidersFound(c) \/ ChunkArrives(c) \/ ChunkUnavailable(c)

NothingOutstanding == \A c \in Chunk : queries[c] = 0 /\ requests[c] = 0

Fairness == []<>NothingOutstanding \/ []<><<Answer>>_vars

Spec == Init /\ [][Next]_vars /\ Fairness
------------------------------------------------------------------------------
(***************************************************************************)
(* Properties                                                              *)
(***************************************************************************)

(***************************************************************************)
(* The plan's own count of outstanding requests is the number of chunks it *)
(* has in flight and within its concurrency; and when the application made *)
(* no request_chunk of its own, it is exactly what is on the wire          *)
(* (node.rs:2069-2071), so the limit bounds every call together.  Every    *)
(* path out of InFlight must give its slot back once: arrival, refusal for *)
(* lack of budget, failure with and without a next source.                 *)
(***************************************************************************)
OutstandingIsBounded ==
    /\ Running => /\ fetch.inflight = Cardinality(InState(fetch, "InFlight"))
                  /\ fetch.inflight <= fetch.concurrency
    /\ oneOffs = 0 => MapThenSumSet(LAMBDA c : requests[c], Chunk) =
                        (IF Running THEN fetch.inflight ELSE 0)

(***************************************************************************)
(* A pending chunk is somebody's turn: one that waits for providers has a  *)
(* query outstanding, one in flight a request, and one that is ready is    *)
(* held back only by a full plan.  Otherwise no event will ever move it    *)
(* and the fetch never ends (note_fetch_outcome's "would leave a chunk in  *)
(* flight forever").                                                       *)
(***************************************************************************)
NothingIsStranded ==
    Running => \A c \in Chunk :
        /\ fetch.state[c] = "AwaitingProviders" => queries[c] > 0
        /\ fetch.state[c] = "InFlight" => requests[c] > 0
        /\ fetch.state[c] = "Ready" => /\ fetch.candidates[c] > 0
                                       /\ fetch.inflight = fetch.concurrency

(***************************************************************************)
(* fetch_object takes "no more bytes for them than it declares": whatever  *)
(* the order of calls, shared chunks, retries, later fetches of the same   *)
(* object and forgotten chunks, what the fetches of an object have put in  *)
(* the store stays within its declared bound, unless it was marked as      *)
(* overrun.                                                                *)
(***************************************************************************)
KeptWithinDeclared ==
    \A o \in Object \ overrun : Bytes(taken[o]) <= Bound[o]

(***************************************************************************)
(* One object running out never costs another its chunks: a chunk is given *)
(* up as over budget exactly when no caller without a budget wants it and  *)
(* every budget that covers it has run out, and until then it is pending   *)
(* or settled on its own merits (fetch.rs:118-135).                        *)
(***************************************************************************)
GivenUpOnlyWhenUnwanted ==
    Running => \A c \in Chunk :
        /\ fetch.state[c] = "OverBudget" =>
             /\ c \notin fetch.unbudgeted
             /\ \A i \in DOMAIN fetch.budgets :
                  c \in fetch.budgets[i].chunks => fetch.budgets[i].exceeded
        /\ fetch.state[c] \in {"AwaitingProviders", "Ready"} =>
             \/ c \in fetch.unbudgeted
             \/ \E i \in DOMAIN fetch.budgets :
                  c \in fetch.budgets[i].chunks /\ ~fetch.budgets[i].exceeded

(***************************************************************************)
(* A fetch that asks for something ends: its plan is dropped and its       *)
(* FetchComplete queued, whatever mixture of arrivals, refusals, failures  *)
(* and overruns it meets.                                                  *)
(***************************************************************************)
FetchEnds ==
    (Running /\ \E c \in Chunk : fetch.state[c] # Absent) ~> ~Running

(***************************************************************************)
(* The plan, the wire and the queries agree, so that nothing waits for     *)
(* what will not come (fetch.rs, issue and note_fetch_outcome).            *)
(***************************************************************************)
SlotsAreExact == OutstandingIsBounded /\ NothingIsStranded

(***************************************************************************)
(* A budget bounds what its own object may take and costs no other object  *)
(* anything (fetch.rs, admit and abandon_exhausted_budgets).               *)
(***************************************************************************)
BudgetsHold == KeptWithinDeclared /\ GivenUpOnlyWhenUnwanted
==============================================================================

------------------------------ MODULE FetchPlan ------------------------------
(***************************************************************************)
(* The state machine behind a swarm fetch: which chunks are wanted, which  *)
(* wait for providers, which may be asked for, which are outstanding, and  *)
(* which byte budgets the arrivals are charged to                          *)
(* (crates/intranet-storage/src/fetch.rs).  A plan is a value and every    *)
(* method an operator that returns the plan after it; the node that drives *)
(* it is module ChunkFetch.                                                *)
(*                                                                         *)
(* Sources are abstracted to how many are left to try: which one is asked  *)
(* next is the ranking's business, and no property depends on it.  The     *)
(* candidates and holder count a Ready or InFlight chunk carries are       *)
(* functions of their own, zero in every other state.                      *)
(***************************************************************************)
EXTENDS Integers, FiniteSets, Sequences

CONSTANTS Chunk,        \* content identifiers
          Object,       \* objects, by the identifier of their manifest
          MaxHolders,   \* bound on the holders a provider query reports
          MaxSources    \* bound on the sources the ranking leaves to try

Pending  == {"AwaitingProviders", "Ready", "InFlight"}
Settled  == {"Exhausted", "Done", "OverBudget"}
Absent   == "Absent"

Budget == [object: Object, chunks: SUBSET Chunk, remaining: Nat, exceeded: BOOLEAN]

Plan == [state: [Chunk -> Pending \cup Settled \cup {Absent}],
         candidates: [Chunk -> 0..MaxSources],
         holders: [Chunk -> 0..MaxHolders],
         concurrency: Nat \ {0},
         inflight: Nat,
         budgets: Seq(Budget),
         unbudgeted: SUBSET Chunk]

\* The plan with chunk c in a state that carries no candidates.
Become(plan, c, s) ==
    [plan EXCEPT !.state[c] = s, !.candidates[c] = 0, !.holders[c] = 0]

(***************************************************************************)
(* FetchPlan::new with no chunks, as the node calls it.  A concurrency of  *)
(* zero is corrected to one.                                               *)
(***************************************************************************)
NewPlan(concurrency) ==
    [state |-> [c \in Chunk |-> Absent],
     candidates |-> [c \in Chunk |-> 0],
     holders |-> [c \in Chunk |-> 0],
     concurrency |-> IF concurrency = 0 THEN 1 ELSE concurrency,
     inflight |-> 0,
     budgets |-> << >>,
     unbudgeted |-> {}]

InState(plan, s) == {c \in Chunk : plan.state[c] = s}

(***************************************************************************)
(* want: a chunk new to the plan, or one abandoned for lack of budget,     *)
(* waits for providers; any other keeps its state, Exhausted included.     *)
(***************************************************************************)
WantAll(plan, chunks) ==
    [plan EXCEPT !.state = [c \in Chunk |->
        IF c \in chunks /\ plan.state[c] \in {Absent, "OverBudget"}
        THEN "AwaitingProviders" ELSE plan.state[c]]]

Extend(plan, chunks) ==
    [WantAll(plan, chunks) EXCEPT !.unbudgeted = @ \cup chunks]

ExtendWithin(plan, object, chunks, bytes) ==
    [WantAll(plan, chunks) EXCEPT !.budgets =
        Append(@, [object |-> object, chunks |-> chunks,
                   remaining |-> bytes, exceeded |-> FALSE])]

BudgetsOf(plan, c) == {i \in DOMAIN plan.budgets : c \in plan.budgets[i].chunks}

(***************************************************************************)
(* doomed: nobody asked for the chunk without a budget, somebody asked for *)
(* it with one, and every such budget has run out.                         *)
(***************************************************************************)
Doomed(plan, c) ==
    /\ c \notin plan.unbudgeted
    /\ BudgetsOf(plan, c) # {}
    /\ \A i \in BudgetsOf(plan, c) : plan.budgets[i].exceeded

(***************************************************************************)
(* abandon_exhausted_budgets: doomed chunks not yet asked for are let go.  *)
(***************************************************************************)
AbandonExhausted(plan) ==
    LET abandoned == {c \in Chunk : /\ plan.state[c] \in {"AwaitingProviders", "Ready"}
                                    /\ Doomed(plan, c)}
        cleared(f) == [c \in Chunk |-> IF c \in abandoned THEN 0 ELSE f[c]]
    IN [plan EXCEPT !.state = [c \in Chunk |->
                        IF c \in abandoned THEN "OverBudget" ELSE plan.state[c]],
                    !.candidates = cleared(@),
                    !.holders = cleared(@)]

\* The charging loop of admit: a live budget covering c pays or runs out.
Charge(plan, c, bytes) ==
    [plan EXCEPT !.budgets = [i \in DOMAIN plan.budgets |->
        LET b == plan.budgets[i] IN
        IF b.exceeded \/ c \notin b.chunks THEN b
        ELSE IF bytes <= b.remaining THEN [b EXCEPT !.remaining = @ - bytes]
        ELSE [b EXCEPT !.exceeded = TRUE]]]

\* admit's "room": an unbudgeted caller, or a live budget that could pay.
HasRoom(plan, c, bytes) ==
    \/ c \in plan.unbudgeted
    \/ \E i \in BudgetsOf(plan, c) : /\ ~plan.budgets[i].exceeded
                                     /\ bytes <= plan.budgets[i].remaining

\* admit's "ran_out": a live budget covering c could not pay.
RanOut(plan, c, bytes) ==
    \E i \in BudgetsOf(plan, c) : /\ ~plan.budgets[i].exceeded
                                  /\ bytes > plan.budgets[i].remaining

\* Mutation: a refused chunk keeps its slot among the outstanding requests.
RefuseKeepingSlot(plan, c) ==
    Become(plan, c, "OverBudget")

\* The tail of admit, when no caller had room: the request is let go.
Refuse(plan, c) ==
    [Become(plan, c, "OverBudget") EXCEPT !.inflight = @ - 1]

(***************************************************************************)
(* admit(cid, bytes): the plan after a verified chunk is weighed, and      *)
(* whether it is kept.  A chunk the plan has not in flight is nobody's     *)
(* charge.                                                                 *)
(***************************************************************************)
Admits(plan, c, bytes) ==
    plan.state[c] = "InFlight" => HasRoom(plan, c, bytes)

Admit(plan, c, bytes) ==
    IF plan.state[c] # "InFlight" THEN plan
    ELSE LET charged == Charge(plan, c, bytes)
             weighed == IF RanOut(plan, c, bytes) THEN AbandonExhausted(charged)
                                                  ELSE charged
         IN IF HasRoom(plan, c, bytes) THEN weighed ELSE Refuse(weighed, c)

(***************************************************************************)
(* record_providers: only a chunk waiting for them takes them.  `holders`  *)
(* is what the query reported, `usable` how many sources the ranking left, *)
(* from the providers or, when those gave none, from the connected peers.  *)
(***************************************************************************)
RecordProviders(plan, c, holders, usable) ==
    IF plan.state[c] # "AwaitingProviders" THEN plan
    ELSE IF usable = 0 THEN Become(plan, c, "Exhausted")
    ELSE [plan EXCEPT !.state[c] = "Ready", !.candidates[c] = usable,
                      !.holders[c] = holders]

(***************************************************************************)
(* next_requests: as many ready chunks as the concurrency leaves room for, *)
(* scarcest first, ties broken by identifier (here: either way).           *)
(***************************************************************************)
NextRequests(plan) ==
    LET ready == InState(plan, "Ready")
        room  == plan.concurrency - plan.inflight
    IN {issued \in SUBSET ready :
          /\ Cardinality(issued) =
               IF Cardinality(ready) < room THEN Cardinality(ready) ELSE room
          /\ \A c \in issued, d \in ready \ issued :
               plan.holders[c] <= plan.holders[d]}

Issue(plan, issued) ==
    [plan EXCEPT !.state = [c \in Chunk |->
                     IF c \in issued THEN "InFlight" ELSE plan.state[c]],
                 !.candidates = [c \in Chunk |->
                     IF c \in issued THEN plan.candidates[c] - 1
                                     ELSE plan.candidates[c]],
                 !.inflight = @ + Cardinality(issued)]

RecordReceived(plan, c) ==
    IF plan.state[c] # "InFlight" THEN plan
    ELSE [Become(plan, c, "Done") EXCEPT !.inflight = @ - 1]

\* On to the next source, if there is one and still a reason to ask it.
AfterFailure(plan, c) ==
    IF Doomed(plan, c) THEN Become(plan, c, "OverBudget")
    ELSE IF plan.candidates[c] = 0 THEN Become(plan, c, "Exhausted")
    ELSE [plan EXCEPT !.state[c] = "Ready"]

RecordFailed(plan, c) ==
    IF plan.state[c] # "InFlight" THEN plan
    ELSE [AfterFailure(plan, c) EXCEPT !.inflight = @ - 1]

\* Mutation: a chunk given up for lack of budget keeps the fetch open.
IsCompleteWithinBudget(plan) ==
    \A c \in Chunk : plan.state[c] \in {Absent, "Done", "Exhausted"}

IsComplete(plan) == \A c \in Chunk : plan.state[c] \notin Pending

OverrunObjects(plan) ==
    {plan.budgets[i].object : i \in {j \in DOMAIN plan.budgets : plan.budgets[j].exceeded}}
==============================================================================

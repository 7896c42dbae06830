---------------------------- MODULE Replication ----------------------------
(***************************************************************************)
(* Replica maintenance (crates/intranet-storage/src/replication.rs): what a  *)
(* node knows of the holders of some content from signed, expiring            *)
(* announcements, how it assesses the content against the replication target, *)
(* and the repair it plans.                                                  *)
(*                                                                         *)
(* The module is a library: announcements travel by gossip (a message stays   *)
(* available, and may be heard late, again or never), and the assigned nodes  *)
(* copy and announce (Copy, Announce), as the callers arrange it.             *)
(***************************************************************************)
EXTENDS MemberView, Placement

CONSTANTS
    Content,        \* content ids
    Target,         \* the replication target
    HoldingTtl,     \* ttl_millis
    Offerings,      \* what the members may offer: functions from nodes to storage
    MaxTime         \* bound: the clock

VARIABLES
    holders,        \* holders[n][c][m]: when m last announced c, as n knows; or Nil
    offers,         \* the storage the members offer, in everybody's ledger
    stored,         \* stored[m]: the content m really holds
    announced,      \* the announcements made: [node, content, time]
    heard,          \* heard[n]: the announcements n has recorded
    now

replicationVars == <<holders, offers, stored, announced, heard, now>>

ReplicationInit ==
    /\ holders = [n \in Node |-> [c \in Content |-> [m \in Node |-> Nil]]]
    /\ offers \in Offerings
    /\ stored \in [Node -> SUBSET Content]
    /\ announced = {} /\ heard = [n \in Node |-> {}] /\ now = 0

\* HoldingAnnouncement::create.
Announce(m) ==
    /\ announced' = announced \cup {[node |-> m, content |-> stored[m], time |-> now]}
    /\ announced' # announced
    /\ UNCHANGED <<holders, offers, stored, heard, now>>

\* ReplicationView::record: from a member, keeping the freshest time.
Fresher(old, t) == IF old = Nil \/ old < t THEN t ELSE old
RecordHolding(n, a) ==
    /\ a \in announced /\ IsMember(n, a.node)
    /\ holders' = [holders EXCEPT ![n] = [c \in Content |->
          IF c \in a.content THEN [@[c] EXCEPT ![a.node] = Fresher(@, a.time)] ELSE @[c]]]
    /\ heard' = [heard EXCEPT ![n] = @ \cup {a}]
    /\ UNCHANGED <<offers, stored, announced, now>>

\* expire and reconcile.
KeepHolders(n, keep) ==
    /\ holders' = [holders EXCEPT ![n] = [c \in Content |-> [m \in Node |->
                      IF m \in keep[c] THEN @[c][m] ELSE Nil]]]
    /\ UNCHANGED <<offers, stored, announced, heard, now>>
ExpireHolders(n) ==
    KeepHolders(n, [c \in Content |->
        {m \in Node : holders[n][c][m] # Nil /\ now - holders[n][c][m] <= HoldingTtl}])
ReconcileHolders(n) ==
    /\ at[n] # 0
    /\ KeepHolders(n, [c \in Content |-> History[at[n]].members])

HoldersOf(n, c) == {m \in Node : holders[n][c][m] # Nil}

\* assess: the standing of c when the nodes of S hold it.
Ranked(c) == Rank(c, offers)
Assigned(c) == {Ranked(c)[i] : i \in 1 .. IF Target < Len(Ranked(c)) THEN Target ELSE Len(Ranked(c))}
Health(c, S) ==
    LET eligible == Len(Ranked(c))
        durable == Cardinality(S \cap Assigned(c))
        attainable == IF Target < eligible THEN Target ELSE eligible
    IN  CASE S = {} -> "lost"
          [] S # {} /\ durable >= attainable /\ durable >= Target -> "healthy"
          [] S # {} /\ durable < Target /\ durable >= attainable -> "degraded"
          [] OTHER -> "under-replicated"

\* Mutation: holders that are not assigned count.
PlanTooFew(n, c) ==
    LET S == HoldersOf(n, c)
        needed == Target - Cardinality(S)
        lacking == SelectSeq(Ranked(c), LAMBDA m : m \notin S)
    IN  IF Health(c, S) # "under-replicated" THEN {}
        ELSE {lacking[i] : i \in 1 .. IF needed < Len(lacking) THEN needed ELSE Len(lacking)}

\* plan_repair: the nodes of the ranking that do not hold c, as many as the
\* assigned holders are short of the target.
PlanRepair(n, c) ==
    LET S == HoldersOf(n, c)
        needed == Target - Cardinality(S \cap Assigned(c))
        lacking == SelectSeq(Ranked(c), LAMBDA m : m \notin S)
    IN  IF Health(c, S) # "under-replicated" THEN {}
        ELSE {lacking[i] : i \in 1 .. IF needed < Len(lacking) THEN needed ELSE Len(lacking)}

\* Mutation: only a node that offers more than a unit repairs.
RunsRepairLarge(n) == offers[n] > 1

\* runs_repair.
RunsRepair(n) == offers[n] > 0

\* A node that a repairer's plan names takes a copy from one that has it.
Copy(n, m, c) ==
    /\ RunsRepair(n) /\ m \in PlanRepair(n, c) /\ c \notin stored[m]
    /\ \E h \in HoldersOf(n, c) : c \in stored[h]
    /\ stored' = [stored EXCEPT ![m] = @ \cup {c}]
    /\ UNCHANGED <<holders, offers, announced, heard, now>>

\* A member changes what it offers.
Reoffer == /\ offers' \in Offerings
           /\ UNCHANGED <<holders, stored, announced, heard, now>>

TimePasses == /\ now < MaxTime /\ now' = now + 1
              /\ UNCHANGED <<holders, offers, stored, announced, heard>>

ReplicationTypeOK ==
    \A n, m \in Node, c \in Content : holders[n][c][m] \in 0 .. now \cup {Nil}

\* An announcement that a node has recorded and that is still within its time to
\* live counts, whatever older announcements came after it and whenever the view
\* was expired (record keeps the freshest time).
LiveHoldersCount ==
    \A n \in Node : \A a \in heard[n] : \A c \in a.content :
        (now - a.time <= HoldingTtl /\ a.node \in History[Len(History)].members)
            => a.node \in HoldersOf(n, c)

\* A plan is enough: once the nodes that it names hold the content it is no longer
\* under-replicated, and it names nobody who is not assigned (plan_repair).
PlansSuffice ==
    \A n \in Node, c \in Content :
        LET plan == PlanRepair(n, c)
        IN  /\ Health(c, HoldersOf(n, c)) = "under-replicated" =>
                  Health(c, HoldersOf(n, c) \cup plan) \in {"healthy", "degraded"}
            /\ plan \subseteq Assigned(c)

\* Content that somebody holds is on all the nodes that it is assigned to.
Repaired ==
    \A c \in Content : (\E m \in Node : c \in stored[m]) => \A m \in Assigned(c) : c \in stored[m]

\* What a node knows of the holders is current, and the repair it plans from that
\* is enough (replication.rs, record and plan_repair).
RepairIsSound == ReplicationTypeOK /\ LiveHoldersCount /\ PlansSuffice
=============================================================================

------------------------------ MODULE MCStores ------------------------------
(* Small instances of the stores of a member node for TLC.  The stores share *)
(* the member's view of the governance chain and nothing else, so every       *)
(* history is about one of them.                                             *)
EXTENDS CapabilityLedger, PointerStore, BallotBox, Replication, SearchIndex, AppDirectory

VARIABLES
    focus,      \* the store this history is about
    faults      \* restarts and losses so far

CONSTANTS
    MaxFaults,      \* bound: restarts and losses
    MaxInFlight     \* bound: exchanges that connections start while others are under way

vars == <<at, ledgerVars, pointerVars, ballotVars, replicationVars, indexVars, directoryVars,
          focus, faults>>

State(members, publishers, delisted, rotation, votes, names) ==
    [members |-> members, readers |-> members, publishers |-> publishers,
     delisted |-> delisted, rotation |-> rotation, votes |-> votes, names |-> names]

\* A network that grows, then revokes a member, delists a pointer, gives one of its
\* names to another one and closes a vote.
MCHistory == <<State({1, 2}, {1}, {}, 1, {"v"}, [a \in {"a"} |-> 1]),
               State({1, 2, 3}, {1}, {}, 2, {"v"}, [a \in {"a", "b"} |-> 1]),
               State({1, 3}, {1}, {1}, 3, {}, [a \in {"a", "b"} |-> IF a = "a" THEN 1 ELSE 2])>>
\* Rival listings of a name, and a second name that one of the publishers has too.
MCListing == <<[name |-> "a", app |-> 1, publisher |-> 1], [name |-> "a", app |-> 2, publisher |-> 2],
               [name |-> "b", app |-> 1, publisher |-> 1]>>
MCOwnerOf == [p \in {1, 2} |-> 1]
MCProposal == [v \in {"v"} |-> [electorate |-> {1, 2}, close |-> 2, quorum |-> 2]]
MCDraw == [c \in {"c"} |-> [n \in 1 .. 3 |-> ((2 * n) % 5) + 1]]
MCOfferings == {[n \in 1 .. 3 |-> 1], [n \in 1 .. 3 |-> IF n = 3 THEN 4 ELSE 1],
                [n \in 1 .. 3 |-> IF n = 2 THEN 0 ELSE 1],
                [n \in 1 .. 3 |-> IF n = 1 THEN 1 ELSE 0]}

FocusOn(f) == focus = f

MCInit ==
    /\ faults = 0
    /\ LedgerInit /\ PointerInit /\ BallotInit /\ ReplicationInit /\ IndexInit /\ DirectoryInit
    /\ focus \in {"ledger", "pointer", "wrapping", "ballot", "holders", "repair", "index", "directory"}
    /\ at = [n \in Node |-> IF FocusOn("ballot") THEN 2
                           ELSE IF FocusOn("directory") THEN (IF n = 2 THEN 2 ELSE 1)
                           ELSE IF n # 1 THEN 0
                           ELSE IF FocusOn("repair") \/ FocusOn("pointer") THEN 2 ELSE 1]
    /\ ~(FocusOn("holders") \/ FocusOn("repair")) =>
          /\ offers = [n \in Node |-> 1] /\ stored = [n \in Node |-> {}]
    /\ FocusOn("holders") => stored[1] = {} /\ offers[2] > 0

\* The pairs that are connected: what node 2 has reaches node 3 through node 1,
\* and the pointers of node 1 reach node 2 through node 3.
Links(hub) == {pair \in Node \X Node : pair[1] # pair[2] /\ hub \in {pair[1], pair[2]}}
Hub == IF FocusOn("pointer") \/ FocusOn("wrapping") \/ FocusOn("revoked") THEN 3 ELSE 1
Connected == Links(Hub)

\* Connections start an exchange while fewer than MaxInFlight are under way.
Quiet(post) == Cardinality(post) < MaxInFlight

Fault == faults < MaxFaults /\ faults' = faults + 1

\* Node 1 advertises once, node 2 twice and in either order of its clock.  The
\* chain stops before the revocation, which is the subject of RevokedSpec.
MCLedgerNext ==
    \/ /\ faults' = faults
       /\ \/ at' = at /\ \/ \E n \in {1, 2}, ad \in Advertisement : ad.issued <= n /\ Advertise(n, ad)
                         \/ \E c \in Connected : Quiet(ledgerPost) /\ StartLedgerSync(c[1], c[2])
                         \/ \E p \in ledgerPost : HandleLedger(p)
          \/ \E c \in Connected : Quiet(ledgerPost) /\ SyncAccepted(c[1], c[2]) /\ LedgerAfterSync(c[1], c[2])
          \/ \E n \in Node : at[n] < 2 /\ AppendEntry(n) /\ UNCHANGED ledgerVars
    \/ /\ Fault /\ at' = at
       /\ \/ \E p \in ledgerPost : LoseLedgerMessage(p)
          \/ RestartLedger(Hub)

\* Three members, of whom 2 and 3 advertise before 2 is revoked.
RevokedNext ==
    /\ faults' = faults
    /\ \/ at' = at /\ \/ \E n \in {2, 3} : Advertise(n, [issued |-> 1, offer |-> 1])
                      \/ \E c \in Connected : StartLedgerSync(c[1], c[2])
                      \/ \E p \in ledgerPost : HandleLedger(p)
       \/ \E c \in Connected : SyncAccepted(c[1], c[2]) /\ LedgerAfterSync(c[1], c[2])
       \/ AppendEntry(1) /\ UNCHANGED ledgerVars

\* Two records of pointer 1 and one of pointer 2, exchanged: versions that differ,
\* and records of the same version.
MCRecord == {[version |-> 0, hash |-> 1], [version |-> 0, hash |-> 2], [version |-> 1, hash |-> 1]}

MCPointerNext ==
    \/ /\ faults' = faults
       /\ \/ at' = at /\ \/ \E r \in MCRecord : Cardinality(published[1]) < 2 /\ SignPointer(1, r)
                         \/ SignPointer(2, [version |-> 0, hash |-> 1])
                         \/ \E c \in Connected : Quiet(pointerPost) /\ StartPointerSync(c[1], c[2])
                         \/ \E q \in pointerPost : HandlePointers(q)
          \/ \E c \in Connected : Quiet(pointerPost) /\ SyncAccepted(c[1], c[2]) /\ PointersAfterSync(c[1], c[2])
          \/ AppendEntry(1) /\ UNCHANGED pointerVars
    \/ /\ Fault /\ at' = at
       /\ \/ \E q \in pointerPost : LosePointerMessage(q)
          \/ RestartPointers(Hub)

\* One pointer that is wrapped again after each rotation.
WrappingNext ==
    /\ faults' = faults
    /\ \/ at' = at /\ \/ SignPointer(1, [version |-> 0, hash |-> 1])
                      \/ \E n \in Node : Rewrap(n, 1)
                      \/ \E c \in Connected : Quiet(pointerPost) /\ StartPointerSync(c[1], c[2])
                      \/ \E q \in pointerPost : HandlePointers(q)
       \/ \E c \in Connected : Quiet(pointerPost) /\ SyncAccepted(c[1], c[2]) /\ PointersAfterSync(c[1], c[2])
       \/ AppendEntry(1) /\ UNCHANGED pointerVars

\* Voter 1 may change their choice with the time; voter 2 votes for it, or too late.
BallotNext ==
    \/ /\ faults' = faults
       /\ \/ at' = at /\ \/ \E n \in Node, v \in Vote, b \in Ballot :
                                 b.hash = Cardinality(cast) + 1 /\ b.approve = (b.time = 1) /\ (n = 2 => b.time # 2)
                                 /\ CastBallot(n, v, b)
                         \/ \E c \in Connected, v \in Vote :
                                 Quiet(ballotPost) /\ AskBallots(c[1], c[2], v)
                         \/ \E q \in ballotPost : HandleBallots(q)
          \/ \E c \in Connected : SyncAccepted(c[1], c[2]) /\ UNCHANGED ballotVars
          \/ AppendEntry(1) /\ UNCHANGED ballotVars
    \/ /\ Fault /\ at' = at
       /\ \/ \E q \in ballotPost : LoseBallotMessage(q)
          \/ RestartBallots(Hub)

\* What one node knows of the holders.
HoldersNext ==
    /\ faults' = faults
    /\ \/ at' = at /\ \/ \E m \in Node \ {1} : Announce(m)
                      \/ \E a \in announced : RecordHolding(1, a)
                      \/ ExpireHolders(1) \/ ReconcileHolders(1)
                      \/ TimePasses
       \/ AppendEntry(1) /\ UNCHANGED replicationVars

\* One node repairs; announcements are heard at once and none expires.
RepairProgress ==
    /\ FocusOn("repair")
    /\ \/ \E m \in Node : Announce(m)
       \/ \E a \in announced : a \notin heard[1] /\ RecordHolding(1, a)
       \/ \E m \in Node, c \in Content : Copy(1, m, c)

RepairNext ==
    /\ at' = at
    /\ \/ faults' = faults /\ RepairProgress
       \/ Fault /\ Reoffer

\* The publishers are a member that stays and one that is revoked; old postings
\* are offered again.
MCPosting == {p \in Posting : p.publisher \in {1, 2} /\ p.pointer \in p.terms}

IndexNext ==
    /\ faults' = faults
    /\ \/ /\ at' = at
          /\ \/ \E p \in MCPosting : p.time <= day /\ (InsertPosting(p) \/ Reindex(p))
             \/ ExpirePostings \/ Revalidate \/ DayPasses
             \/ MarkTruncated(1)
       \/ AppendEntry(Indexer) /\ UNCHANGED indexVars

\* Node 2 stays behind, looks at the directory once and sees what it published
\* itself: its query never ends.  Then node 3 reads it while the chain moves, and
\* once more, with answers still to come, unless there was a fault.
Published(e) == e \in collections[Listing[e].publisher]

DirectoryNext ==
    \/ /\ faults' = faults
       /\ \/ /\ at' = at
             /\ \/ \E e \in DOMAIN Listing : (e > 1 => Published(e - 1)) /\ PublishListing(e)
                \/ turn[2] = 0 /\ Published(2) /\ OpenDirectory(2)
                \/ faults = 0 /\ turn[2] = 1 /\ OpenDirectory(3)
                \/ checked[3] # at[3] /\ RevalidateView(3)
                \/ \E found \in SUBSET {1, 2} : ProvidersFound(3, found)
                \/ \E q \in directoryPost : HandleDirectory(q)
          \/ AppendEntry(1) /\ UNCHANGED directoryVars
          \/ \E n \in {1, 3}, m \in {1, 2} : SyncAccepted(n, m) /\ UNCHANGED directoryVars
    \/ /\ Fault /\ at' = at /\ turn[3] < 2
       /\ \/ \E q \in directoryPost : LoseDirectoryMessage(q)
          \/ directoryPost # {} /\ RestartDirectory(Hub)

MCNext ==
    /\ focus' = focus
    /\ \/ /\ \/ FocusOn("ledger") /\ MCLedgerNext
             \/ FocusOn("revoked") /\ RevokedNext
          /\ UNCHANGED <<pointerVars, ballotVars, replicationVars, indexVars, directoryVars>>
       \/ /\ \/ FocusOn("pointer") /\ MCPointerNext
             \/ FocusOn("wrapping") /\ WrappingNext
          /\ UNCHANGED <<ledgerVars, ballotVars, replicationVars, indexVars, directoryVars>>
       \/ FocusOn("ballot") /\ BallotNext
          /\ UNCHANGED <<ledgerVars, pointerVars, replicationVars, indexVars, directoryVars>>
       \/ /\ \/ FocusOn("holders") /\ HoldersNext
             \/ FocusOn("repair") /\ RepairNext
          /\ UNCHANGED <<ledgerVars, pointerVars, ballotVars, indexVars, directoryVars>>
       \/ FocusOn("index") /\ IndexNext
          /\ UNCHANGED <<ledgerVars, pointerVars, ballotVars, replicationVars, directoryVars>>
       \/ FocusOn("directory") /\ DirectoryNext
          /\ UNCHANGED <<ledgerVars, pointerVars, ballotVars, replicationVars, indexVars>>

(* Fairness.  A connection asks the peer whenever it is established, and      *)
(* connections are established again and again: every connected pair starts   *)
(* an exchange infinitely often (which with MaxInFlight = 1 also says that     *)
(* messages are answered), and no node stays behind its peer for ever.  Nobody  *)
(* asks for ballots once the vote is closed, which everybody learns from node 1. *)
(* The conditions are written out, one alternative per focus, because TLC is    *)
(* slow at ENABLED.                                                         *)
CaughtUp(c) == at[c[1]] >= at[c[2]]
Exchanges(n, m) ==
    \/ FocusOn("ledger") /\ StartLedgerSync(n, m)
    \/ (FocusOn("pointer") \/ FocusOn("wrapping")) /\ StartPointerSync(n, m)
    \/ FocusOn("ballot") /\ \E v \in Vote : AskBallots(n, m, v)
MCFairness ==
    \/ /\ []<>FocusOn("ledger")
       /\ \A c \in Links(1) : []<>CaughtUp(c) /\ []<><<Exchanges(c[1], c[2])>>_vars
    \/ /\ []<>(FocusOn("pointer") \/ FocusOn("wrapping"))
       /\ \A c \in Links(3) : []<>CaughtUp(c) /\ []<><<Exchanges(c[1], c[2])>>_vars
    \/ /\ []<>FocusOn("ballot")
       /\ \A c \in Links(1) : []<>CaughtUp(c)
       /\ \/ []<>(at[1] = 3)
          \/ \A c \in Links(1) : []<><<Exchanges(c[1], c[2])>>_vars
    \/ []<>FocusOn("repair") /\ WF_replicationVars(RepairProgress)
    \/ []<>(FocusOn("holders") \/ FocusOn("index") \/ FocusOn("directory"))

MCSpec == MCInit /\ [][MCNext]_vars /\ MCFairness

(* The same network when a member is revoked.  Every pair exchanges on its own: *)
(* an exchange under way goes on, and one that is over is started again.        *)
ExchangeStep(c) ==
    /\ FocusOn("revoked")
    /\ \/ StartLedgerSync(c[1], c[2])
       \/ \E p \in ledgerPost : LedgerExchange(p, c[1], c[2]) /\ HandleLedger(p)
CatchUpStep(c) == /\ FocusOn("revoked")
                  /\ SyncAccepted(c[1], c[2]) /\ LedgerAfterSync(c[1], c[2])

RevokedInit ==
    /\ faults = 0 /\ focus = "revoked"
    /\ LedgerInit /\ PointerInit /\ BallotInit /\ IndexInit /\ ReplicationInit /\ DirectoryInit
    /\ offers = [n \in Node |-> 1] /\ stored = [n \in Node |-> {}]
    /\ at = [n \in Node |-> 2]
RevokedSpec ==
    /\ RevokedInit /\ [][MCNext]_vars
    /\ \A c \in Links(3) : WF_ledgerVars(ExchangeStep(c)) /\ WF_<<at, ledgerVars>>(CatchUpStep(c))

\* Members that stay connected hold, in the end, the same advertisements
\* (sync_ledger_with, and the handler of a cut answer that asks again).
LedgersConverge == <>[](\A c \in Connected : LedgersAgree(c[1], c[2]))

\* Repair converges: once what the members offer stops changing, content that
\* somebody holds ends up on all the nodes it is then assigned to, although the
\* repairer plans from announcements and never sees what the others hold.
RepairedInTheEnd == <>[](FocusOn("repair") => Repaired)

\* Members that stay connected end with the same advertisements, the same pointer
\* records, whichever of two records of one version reached whom first, and the
\* ballots they can still count, whatever was lost or cut on the way (node.rs,
\* sync_ledger_with, pointers_worth_fetching, sync_ballots_with).
StoresConverge ==
    <>[](\A c \in Connected : /\ LedgersAgree(c[1], c[2])
                              /\ PointersAgree(c[1], c[2])
                              /\ BallotsAgree(c[1], c[2]))
=============================================================================

--------------------------- MODULE GovernanceLog ---------------------------
(***************************************************************************)
(* The hash-chained governance log of crates/intranet-governance/src/log.rs, *)
(* replicated on several nodes: insertion, fork choice and bounded         *)
(* finality.                                                               *)
(*                                                                         *)
(* An entry names its parent by hash, so everything above an entry is      *)
(* fixed when it is signed.  Three facts that the code recomputes by       *)
(* walking that fixed path are kept with the entry instead:                *)
(*   anc      the path from the root down to it, itself included           *)
(*            (GovernanceLog::ancestry), as a set;                         *)
(*   replays  whether GovernanceState::replay accepts that path;           *)
(*   fin      the finality parameters of the state it replays to.          *)
(* Hashes are naturals because fork choice compares them; which hash an    *)
(* entry gets is arbitrary.                                                *)
(***************************************************************************)
EXTENDS Integers, FiniteSets

CONSTANTS
    Node,       \* the nodes that hold a replica
    Hash,       \* the hashes an entry may get
    Nil,        \* Option::None
    Kind,       \* the kinds of entry body in use, besides genesis
    Time,       \* the values a self-attested timestamp or a clock may take
    Params,     \* the finality parameters a policy may set
    Verdict     \* what replay may say of a new entry: authorized or not

\* FinalityParams { k, t_millis }
FinalityParams == [k : Nat, t : Nat]

ASSUME HashAssumption == Hash \subseteq Nat
ASSUME NilAssumption == Nil \notin Hash
ASSUME TimeAssumption == Time \subseteq Int
ASSUME ParamsAssumption == Params \subseteq FinalityParams
ASSUME VerdictAssumption == Verdict \subseteq BOOLEAN

VARIABLES
    entry,      \* every entry anybody has signed, by hash
    held,       \* held[n]: the keys of node n's `entries` map
    finalized   \* finalized[n]: node n's `finalized` field

vars == <<entry, held, finalized>>

----------------------------------------------------------------------------
\* The shape of the log

Signed == DOMAIN entry
Parent(h) == entry[h].parent

\* EntryBody::is_capability_gated and LogEntry::is_capability_gated: what a
\* member may write without holding a capability carries no weight.
UngatedKinds == {"Genesis", "DeviceEnrollment", "DeviceRevocation", "VoteProposed",
                 "VoteOutcome", "SelfRotation", "AppEntry", "SelfRemoval"}

IsCapabilityGated(h) == entry[h].kind \notin UngatedKinds

Ancestry(h) == entry[h].anc

\* The hash of the genesis entry in the log E, if it has one.
Roots(E) == {h \in E : Parent(h) = Nil}

Heads(E) == {h \in E : \A c \in E : Parent(c) # h}

----------------------------------------------------------------------------
\* Fork choice: best_branch_below, as the choice of the tip it ends in

\* The tips of the branches that run through `start`.
Tips(E, start) == {h \in Heads(E) : start \in Ancestry(h)}

\* The number of capability-gated actions on the path to h.
Weight(h) == Cardinality({a \in Ancestry(h) : IsCapabilityGated(a)})

\* (count, Reverse(tip)) is the greater pair.
Beats(g, h) == \/ Weight(g) > Weight(h)
               \/ Weight(g) = Weight(h) /\ g < h

IsBest(b, S) == b \in S /\ \A h \in S \ {b} : Beats(b, h)

BestTip(E, start) == CHOOSE b \in Tips(E, start) : IsBest(b, Tips(E, start))

\* Fork choice is constrained to branches through the finalized entry.
Start(n) == IF finalized[n] # Nil THEN finalized[n]
                                  ELSE CHOOSE r \in Roots(held[n]) : TRUE

CanonicalTip(n) == BestTip(held[n], Start(n))

\* Mutation: the chain is not extended below the finalized entry.
ChainToFinalized(n) == IF held[n] = {} THEN {}
                       ELSE IF finalized[n] # Nil THEN Ancestry(finalized[n])
                       ELSE Ancestry(CanonicalTip(n))

\* canonical_chain, as the set of its entries; empty for an empty log.
CanonicalChain(n) == IF held[n] = {} THEN {} ELSE Ancestry(CanonicalTip(n))

----------------------------------------------------------------------------
\* Bounded finality

\* How many capability-gated actions bury h on the chain that ends in tip.
Depth(h, tip) == Cardinality({a \in Ancestry(tip) : /\ IsCapabilityGated(a)
                                                    /\ h \in Ancestry(a) \ {a}})

\* FinalityParams::is_final, with the parameters in force at the tip.
MeetsBoth(h, tip, now) == /\ Depth(h, tip) >= entry[tip].fin.k
                          /\ now - entry[h].time >= entry[tip].fin.t

\* The entries of the chain that pass the test at `now`, and the last of them.
Finalizable(tip, now) == {h \in Ancestry(tip) : MeetsBoth(h, tip, now)}

NewlyFinal(h, tip, now) ==
    /\ h \in Finalizable(tip, now)
    /\ \A g \in Finalizable(tip, now) : g \in Ancestry(h)

IsFinal(n, h) == finalized[n] # Nil /\ h \in Ancestry(finalized[n])

----------------------------------------------------------------------------
\* Operations

\* The entry record for a body signed on top of p (Nil for genesis).
NewEntry(h, p, kind, time, replays, fin) ==
    [parent  |-> p,
     anc     |-> IF p = Nil THEN {h} ELSE Ancestry(p) \cup {h},
     kind    |-> kind,
     time    |-> time,
     replays |-> replays,
     fin     |-> fin]

\* Signing an entry on top of p and inserting it into the signer's own log.
Sign(n, h, p, kind, time, replays, fin) ==
    /\ entry' = [x \in Signed \cup {h} |->
                    IF x = h THEN NewEntry(h, p, kind, time, replays, fin) ELSE entry[x]]
    /\ held' = [held EXCEPT ![n] = @ \cup {h}]

\* insert with no parent: only a genesis body, and only into a log with no
\* other root.  A network has one genesis.
InsertGenesis(n) ==
    /\ Signed = {}
    /\ \E h \in Hash, time \in Time, fin \in Params :
          Sign(n, h, Nil, "Genesis", time, TRUE, fin)
    /\ finalized' = finalized

\* insert of an entry the node signs itself.  The parent is any entry held: the
\* signer reads the canonical tip, and the log may have moved since.  Whether
\* the signer was authorized is not looked at; an unauthorized entry makes the
\* path it is on fail to replay from there on.
InsertOwn(n) ==
    /\ \E p \in held[n], h \in Hash \ Signed, kind \in Kind, time \in Time,
          authorized \in Verdict :
          \E fin \in IF kind = "PolicyChange" THEN Params ELSE {entry[p].fin} :
             Sign(n, h, p, kind, time, entry[p].replays /\ authorized, fin)
    /\ finalized' = finalized

\* insert of entries that arrive by sync, any number of them: insert takes an
\* entry only when its parent is there, so the log stays closed under ancestry.
InsertSynced(n) ==
    /\ \E S \in SUBSET (Signed \ held[n]) :
          /\ S # {}
          /\ \A h \in S : Ancestry(h) \subseteq held[n] \cup S
          /\ held' = [held EXCEPT ![n] = @ \cup S]
    /\ UNCHANGED <<entry, finalized>>

\* Mutation: the scan may end above what is final already.
ReconcileBackwards(n) ==
    /\ held[n] # {}
    /\ entry[CanonicalTip(n)].replays
    /\ \E now \in Time, h \in CanonicalChain(n) :
          /\ NewlyFinal(h, CanonicalTip(n), now)
          /\ finalized' = [finalized EXCEPT ![n] = h]
    /\ UNCHANGED <<entry, held>>

\* reconcile(now): advance_finality along the canonical chain, never back.
Reconcile(n) ==
    /\ held[n] # {}
    /\ entry[CanonicalTip(n)].replays
    /\ \E now \in Time, h \in CanonicalChain(n) :
          /\ NewlyFinal(h, CanonicalTip(n), now)
          /\ finalized[n] # Nil => h \notin Ancestry(finalized[n])
          /\ finalized' = [finalized EXCEPT ![n] = h]
    /\ UNCHANGED <<entry, held>>

Init ==
    /\ entry = [h \in {} |-> Nil]
    /\ held = [n \in Node |-> {}]
    /\ finalized = [n \in Node |-> Nil]

Next == \E n \in Node : \/ InsertGenesis(n)
                        \/ InsertOwn(n)
                        \/ InsertSynced(n)
                        \/ Reconcile(n)

Spec == Init /\ [][Next]_vars

----------------------------------------------------------------------------
\* Properties

EntryType ==
    [parent : Hash \cup {Nil}, anc : SUBSET Hash, kind : Kind \cup {"Genesis"},
     time : Time, replays : BOOLEAN, fin : Params]

\* Every signed entry is well formed, its path is its parent's path and itself,
\* and a replica holds signed entries only.
TypeOK ==
    /\ Signed \in SUBSET Hash
    /\ \A h \in Signed :
          /\ entry[h] \in EntryType
          /\ IF Parent(h) = Nil THEN Ancestry(h) = {h}
                               ELSE /\ Parent(h) \in Signed
                                    /\ Ancestry(h) = Ancestry(Parent(h)) \cup {h}
    /\ held \in [Node -> SUBSET Signed]
    /\ finalized \in [Node -> Signed \cup {Nil}]

\* "Once an entry is final it can never be displaced" (log.rs, reconcile):
\* whatever is inserted later, the finalized entry and everything above it
\* are on the canonical chain.
FinalStaysCanonical ==
    \A n \in Node : finalized[n] # Nil => Ancestry(finalized[n]) \subseteq CanonicalChain(n)

\* A finalized entry stays buried: fork choice may move to another branch below
\* it, but never to one on which fewer capability-gated actions follow it than
\* the k that made it final (log.rs, best_branch_below with advance_finality).
FinalStaysBuried ==
    \A n \in Node : finalized[n] # Nil =>
        \E p \in Params : Depth(finalized[n], CanonicalTip(n)) >= p.k

\* Two replicas with the same entries disagree about the canonical chain only
\* when one of them has finalized an entry that is off the other's chain: fork
\* choice itself depends on nothing but the entries (log.rs, canonical_chain).
DisagreementIsFinality ==
    \A m, n \in Node :
        /\ held[m] = held[n]
        /\ finalized[m] # Nil => finalized[m] \in CanonicalChain(n)
        /\ finalized[n] # Nil => finalized[n] \in CanonicalChain(m)
        => CanonicalChain(m) = CanonicalChain(n)

\* Finality only ever moves forward, down one branch (log.rs, advance_finality).
FinalityForward ==
    \A n \in Node : finalized[n] # Nil =>
        /\ finalized'[n] # Nil
        /\ finalized[n] \in entry'[finalized'[n]].anc

\* Finality is for good: whatever forks, syncs and finalizes when, what a replica
\* has made final stays on its chain and buried, and the point of finality moves
\* down one branch only (log.rs, reconcile).
FinalityIsForGood ==
    [](FinalStaysCanonical /\ FinalStaysBuried) /\ [][FinalityForward]_vars
=============================================================================

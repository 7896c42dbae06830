------------------------------ MODULE Keyring ------------------------------
(***************************************************************************)
(* The epoch keys a member holds (crates/intranet-epoch/src/keyring.rs)    *)
(* over its replica of the governance log.  A rotation is a log entry, its *)
(* key is named by that entry's hash, and reconcile settles keys by the    *)
(* canonical chain and by finality, both of which move under it.           *)
(*                                                                         *)
(* The key itself is a function of the rotation, so a record is its        *)
(* status.  The ordinal is diagnostic and the application order only       *)
(* decides in which order a delivery lists the keys.                       *)
(***************************************************************************)
EXTENDS GovernanceLog

CONSTANT Member     \* the nodes whose keyrings are followed

ASSUME MemberAssumption == Member \subseteq Node

VARIABLES
    records,        \* records[n]: the status of every key held, by rotation
    canonical,      \* canonical[n]: the rotation whose key is the current one
    voided,         \* history: rotations whose keys n has voided
    pruned          \* history: rotations whose keys n has pruned

keyVars == <<records, canonical, voided, pruned>>

RotationStatus == {"Tentative", "Final"}

\* The entries that produce an epoch: EpochRotation, and genesis for the first.
RotationKinds == {"Genesis", "EpochRotation", "SelfRotation"}

Rotations(E) == {h \in E : entry[h].kind \in RotationKinds}

\* Mutation: only the part of the chain that is still open is looked at.
OpenRotations(n) ==
    Rotations(CanonicalChain(n) \ IF finalized[n] = Nil THEN {}
                                  ELSE Ancestry(finalized[n]) \ {finalized[n]})

CanonicalRotations(n) == Rotations(CanonicalChain(n))

\* The last of a set of rotations on one chain, and the one that follows h.
Newest(S) == CHOOSE h \in S : S \subseteq Ancestry(h)

IsSuccessor(g, h, S) == /\ h \in Ancestry(g) \ {g}
                        /\ \A x \in S : h \in Ancestry(x) \ {x} => g \in Ancestry(x)

----------------------------------------------------------------------------
\* Operations

\* Any step of the log; it may move the canonical chain.
LogStep ==
    /\ Next
    /\ UNCHANGED <<records, canonical, voided, pruned>>

\* Records of the rotations S as tentative, over those already there.
WithTentative(r, S) ==
    [h \in DOMAIN r \cup S |-> IF h \in S THEN "Tentative" ELSE r[h]]

\* record: after rotating, applying a commit or opening a Welcome.  The Welcome
\* may come before the entry it names does.
Record(n) ==
    \E h \in Rotations(Signed) :
        /\ records' = [records EXCEPT ![n] = WithTentative(@, {h})]
        /\ canonical' = [canonical EXCEPT ![n] = h]
        /\ UNCHANGED <<entry, held, finalized, voided, pruned>>

\* accept_delivered: history that came with a Welcome; an empty one is refused.
AcceptDelivered(n) ==
    \E S \in SUBSET Rotations(Signed), last \in Rotations(Signed) :
        /\ last \in S
        /\ records' = [records EXCEPT ![n] = WithTentative(@, S)]
        /\ canonical' = [canonical EXCEPT ![n] = last]
        /\ UNCHANGED <<entry, held, finalized, voided, pruned>>

\* reconcile, its three passes in order: void what the canonical chain does not
\* contain, mark what is final, prune what a final rotation supersedes.
ReconcileKeys(n) ==
    LET kept     == DOMAIN records[n] \cap CanonicalRotations(n)
        doomed   == DOMAIN records[n] \ kept
        status   == [h \in kept |-> IF IsFinal(n, h) THEN "Final" ELSE records[n][h]]
        current  == IF canonical[n] \in doomed THEN Nil ELSE canonical[n]
        obsolete == {h \in kept : \E g \in kept : IsSuccessor(g, h, kept) /\ status[g] = "Final"}
    IN  /\ records' = [records EXCEPT ![n] = [h \in kept \ obsolete |-> status[h]]]
        /\ canonical' = [canonical EXCEPT ![n] =
                            IF current = Nil /\ kept # {} THEN Newest(kept) ELSE current]
        /\ voided' = [voided EXCEPT ![n] = @ \cup doomed]
        /\ pruned' = [pruned EXCEPT ![n] = @ \cup obsolete]
        /\ UNCHANGED <<entry, held, finalized>>

KeyringInit ==
    /\ Init
    /\ records = [n \in Member |-> [h \in {} |-> "Tentative"]]
    /\ canonical = [n \in Member |-> Nil]
    /\ voided = [n \in Member |-> {}]
    /\ pruned = [n \in Member |-> {}]

KeyringNext == \/ LogStep
               \/ \E n \in Member : Record(n) \/ AcceptDelivered(n) \/ ReconcileKeys(n)

KeyringSpec == KeyringInit /\ [][KeyringNext]_<<vars, keyVars>>

----------------------------------------------------------------------------
\* Properties

\* A key belongs to a rotation, and a key that is marked final is the key of
\* an entry that is final (keyring.rs, reconcile's second pass).
KeyringTypeOK ==
    \A n \in Member :
        /\ DOMAIN records[n] \subseteq Rotations(Signed)
        /\ \A h \in DOMAIN records[n] :
              /\ records[n][h] \in RotationStatus
              /\ records[n][h] = "Final" => IsFinal(n, h)
        /\ canonical[n] \in Rotations(Signed) \cup {Nil}

\* Pruning never discards "the material a void needs" (keyring.rs, reconcile's
\* third pass): a member that has pruned anything holds, from then on, the key
\* of a final rotation, which no reorganisation of the log can void.
PruningLeavesAFinalKey ==
    \A n \in Member : pruned[n] # {} => \E h \in DOMAIN records[n] : IsFinal(n, h)

\* A key that has been marked final is never voided; it goes only by being
\* superseded (keyring.rs, RotationStatus: "no competing branch can displace it").
FinalKeysAreNotVoided ==
    \A n \in Member : \A h \in DOMAIN records[n] :
        records[n][h] = "Final" => h \notin voided'[n] \ voided[n]

\* Keys follow finality: a key is marked final only with its entry, a key marked
\* final is never voided, and who has pruned keys is left with a final one
\* (keyring.rs, reconcile).
KeysFollowFinality ==
    /\ [](KeyringTypeOK /\ PruningLeavesAFinalKey)
    /\ [][FinalKeysAreNotVoided]_<<vars, keyVars>>
=============================================================================

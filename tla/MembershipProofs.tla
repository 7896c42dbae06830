-------------------------- MODULE MembershipProofs --------------------------
(***************************************************************************)
(* What follows the log and is proved over its tree (GovernanceLogProofs): *)
(* the keys of Keyring and the admissions of Joining.                      *)
(***************************************************************************)
EXTENDS Joining, Keyring, GovernanceLogProofs

----------------------------------------------------------------------------
\* The keys of Keyring follow the finality of the log, for any nodes, entries and
\* policies, however the log forks and whatever is delivered.
\*
\* That a member who has pruned keys still holds a final one is not inductive alone.
\* It needs that a key marked final belongs to a final entry, that final entries
\* stay final and on the canonical chain (the tree of GovernanceLogProofs), and that
\* of the final keys one is the newest, which nothing that is kept supersedes.

KeyInv ==
    /\ TreeInv
    /\ records = [n \in Member |-> records[n]]
    /\ canonical = [n \in Member |-> canonical[n]]
    /\ voided = [n \in Member |-> voided[n]]
    /\ pruned = [n \in Member |-> pruned[n]]
    /\ KeyringTypeOK
    /\ PruningLeavesAFinalKey

\* Of entries on one path, one is the newest, and it is below all the others.
LEMMA NewestExists ==
    ASSUME TreeInv, NEW t \in Signed, NEW S \in SUBSET Ancestry(t), S # {}
    PROVE  Newest(S) \in S /\ S \subseteq Ancestry(Newest(S))
<1> DEFINE f == [x \in S |-> Cardinality(Ancestry(x))]
<1>1. \A x \in S : /\ x \in Signed /\ x \in Ancestry(x) /\ Ancestry(x) \subseteq Signed
                   /\ IsFiniteSet(Ancestry(x))
  BY FS_Subset DEF TreeInv, PathsNest
<1>2. Cardinality(Signed) \in Nat /\ IsFiniteSet(Signed)
  BY FS_CardinalityType DEF TreeInv
<1>3. f \in [S -> Nat]
  BY <1>1, FS_CardinalityType
<1>4. \A x \in S : f[x] <= Cardinality(Signed)
  BY <1>1, <1>2, FS_Subset
<1>5. PICK m \in S : \A x \in S : f[x] <= f[m]
  <2> HIDE DEF f
  <2> QED BY <1>2, <1>3, <1>4, GreatestValue
<1>6. ASSUME NEW x \in S PROVE x \in Ancestry(m)
  <2>1. CASE m \in Ancestry(x)
    <3>1. Ancestry(m) \subseteq Ancestry(x)
      BY <1>1, <2>1 DEF TreeInv, PathsNest
    <3>2. Cardinality(Ancestry(x)) <= Cardinality(Ancestry(m))
      BY <1>5
    <3>3. /\ Cardinality(Ancestry(m)) <= Cardinality(Ancestry(x))
          /\ Cardinality(Ancestry(m)) = Cardinality(Ancestry(x)) => Ancestry(m) = Ancestry(x)
      BY <1>1, <3>1, FS_Subset
    <3>4. Cardinality(Ancestry(x)) \in Nat /\ Cardinality(Ancestry(m)) \in Nat
      BY <1>1, FS_CardinalityType
    <3> QED BY <1>1, <3>2, <3>3, <3>4
  <2>2. m \in Ancestry(x) \/ x \in Ancestry(m)
    BY DEF TreeInv, PathsNest
  <2> QED BY <2>1, <2>2
<1>7. S \subseteq Ancestry(m)
  BY <1>6
<1> QED BY <1>7 DEF Newest

\* A rotation that is final for a member is a rotation of its canonical chain.
LEMMA FinalIsCanonical ==
    ASSUME TreeInv, NEW n \in Member, NEW h \in Rotations(Signed), IsFinal(n, h)
    PROVE  h \in CanonicalRotations(n)
<1>1. h \in CanonicalChain(n)
  BY FinalOnChain, MemberAssumption DEF FinalStaysCanonical, IsFinal
<1> QED BY <1>1 DEF CanonicalRotations, Rotations

\* Keys that are recorded or delivered are added, and leave the log alone.
LEMMA TentativeKeeps ==
    ASSUME KeyInv, NEW n \in Member, NEW S \in SUBSET Rotations(Signed), NEW c \in S,
           records' = [records EXCEPT ![n] = WithTentative(@, S)],
           canonical' = [canonical EXCEPT ![n] = c],
           UNCHANGED <<entry, held, finalized, voided, pruned>>
    PROVE  KeyInv'
<1>1. TreeInv'
  BY DEF KeyInv, TreeInv, TypeOK, PathsNest, OneRoot, HeldClosed, FinalHeld,
         Signed, Parent, Ancestry
<1>2. /\ Rotations(Signed)' = Rotations(Signed)
      /\ \A m \in Member : \A h : IsFinal(m, h)' <=> IsFinal(m, h)
  BY DEF Rotations, Signed, IsFinal, Ancestry
<1>3. /\ \A m \in Member \ {n} : records'[m] = records[m] /\ canonical'[m] = canonical[m]
      /\ records'[n] = WithTentative(records[n], S) /\ canonical'[n] = c
      /\ records' = [m \in Member |-> records'[m]]
      /\ canonical' = [m \in Member |-> canonical'[m]]
  BY DEF KeyInv
<1>4. /\ DOMAIN records'[n] = DOMAIN records[n] \cup S
      /\ \A h \in DOMAIN records'[n] :
            records'[n][h] = IF h \in S THEN "Tentative" ELSE records[n][h]
  BY <1>3 DEF WithTentative
<1>5. KeyringTypeOK'
  <2> SUFFICES ASSUME NEW m \in Member
               PROVE  /\ DOMAIN records'[m] \subseteq Rotations(Signed)
                      /\ \A h \in DOMAIN records'[m] :
                            /\ records'[m][h] \in RotationStatus
                            /\ records'[m][h] = "Final" => IsFinal(m, h)
                      /\ canonical'[m] \in Rotations(Signed) \cup {Nil}
    BY <1>2 DEF KeyringTypeOK
  <2>1. CASE m # n
    BY <2>1, <1>3 DEF KeyInv, KeyringTypeOK
  <2>2. CASE m = n
    BY <2>2, <1>3, <1>4 DEF KeyInv, KeyringTypeOK, RotationStatus
  <2> QED BY <2>1, <2>2
<1>6. PruningLeavesAFinalKey'
  <2> SUFFICES ASSUME NEW m \in Member, pruned[m] # {}
               PROVE  \E h \in DOMAIN records'[m] : IsFinal(m, h)
    BY <1>2 DEF PruningLeavesAFinalKey
  <2>1. PICK h \in DOMAIN records[m] : IsFinal(m, h)
    BY DEF KeyInv, PruningLeavesAFinalKey
  <2> QED BY <2>1, <1>3, <1>4
<1> QED BY <1>1, <1>3, <1>5, <1>6 DEF KeyInv

\* A step of the log leaves the keys alone; what was final stays final.
LEMMA LogStepKeeps ==
    ASSUME KeyInv, [Next]_vars, UNCHANGED keyVars
    PROVE  KeyInv'
<1>1. TreeInv'
  BY TreeInvNext DEF KeyInv
<1>2. Rotations(Signed) \subseteq Rotations(Signed)'
  BY LogGrows DEF KeyInv, Rotations
<1>3. \A n \in Member : \A h : IsFinal(n, h) => IsFinal(n, h)'
  BY <1>1, FinalForEver, MemberAssumption DEF KeyInv
<1>4. KeyringTypeOK'
  BY <1>2, <1>3 DEF KeyInv, KeyringTypeOK, keyVars
<1>5. PruningLeavesAFinalKey'
  BY <1>3 DEF KeyInv, PruningLeavesAFinalKey, keyVars
<1> QED BY <1>1, <1>4, <1>5 DEF KeyInv, keyVars

\* The three sets and functions of reconcile.
Kept(n) == DOMAIN records[n] \cap CanonicalRotations(n)
Marked(n) == [h \in Kept(n) |-> IF IsFinal(n, h) THEN "Final" ELSE records[n][h]]
Obsolete(n) == {h \in Kept(n) :
                   \E g \in Kept(n) : IsSuccessor(g, h, Kept(n)) /\ Marked(n)[g] = "Final"}

\* What reconcile keeps is on the canonical chain, a final key is kept, and one
\* that is final is left when some key is pruned.
LEMMA ReconcileLeaves ==
    ASSUME KeyInv, NEW n \in Member
    PROVE  /\ Kept(n) # {} => Newest(Kept(n)) \in Kept(n)
           /\ \A h \in Kept(n) : /\ Marked(n)[h] \in RotationStatus
                                 /\ Marked(n)[h] = "Final" => IsFinal(n, h)
           /\ \A h \in DOMAIN records[n] : IsFinal(n, h) => h \in Kept(n)
           /\ pruned[n] \cup Obsolete(n) # {} => \E h \in Kept(n) \ Obsolete(n) : IsFinal(n, h)
<1> DEFINE kept     == Kept(n)
           status   == Marked(n)
           obsolete == Obsolete(n)
<1> USE DEF Kept, Marked, Obsolete
<1>1. ASSUME NEW h \in kept
      PROVE  status[h] \in RotationStatus /\ (status[h] = "Final" <=> IsFinal(n, h))
  <2>1. records[n][h] \in RotationStatus /\ (records[n][h] = "Final" => IsFinal(n, h))
    BY DEF KeyInv, KeyringTypeOK
  <2> QED BY <2>1 DEF RotationStatus
<1>2. ASSUME NEW h \in DOMAIN records[n], IsFinal(n, h) PROVE h \in kept
  BY <1>2, FinalIsCanonical DEF KeyInv, KeyringTypeOK
<1>3. ASSUME NEW S \in SUBSET kept, S # {}
      PROVE  Newest(S) \in S /\ S \subseteq Ancestry(Newest(S))
  <2>1. S \subseteq CanonicalChain(n) /\ held[n] # {}
    BY <1>3 DEF CanonicalRotations, Rotations, CanonicalChain
  <2>2. CanonicalTip(n) \in Signed /\ CanonicalChain(n) = Ancestry(CanonicalTip(n))
    BY <2>1, ChainHeld, MemberAssumption DEF KeyInv, TreeInv, TypeOK
  <2> QED BY <1>3, <2>1, <2>2, NewestExists DEF KeyInv
<1>4. ASSUME pruned[n] \cup obsolete # {}
      PROVE  \E h \in kept \ obsolete : IsFinal(n, h)
  <2> DEFINE F == {h \in kept : IsFinal(n, h)}
  <2>1. F # {}
    <3>1. CASE obsolete # {}
      BY <3>1, <1>1
    <3>2. CASE pruned[n] # {}
      BY <3>2, <1>2 DEF KeyInv, PruningLeavesAFinalKey
    <3> QED BY <1>4, <3>1, <3>2
  <2>2. PICK m \in F : F \subseteq Ancestry(m)
    <3>1. F \in SUBSET kept
      OBVIOUS
    <3> HIDE DEF F
    <3> QED BY <2>1, <3>1, <1>3
  <2>3. m \notin obsolete
    <3> SUFFICES ASSUME NEW g \in kept, IsSuccessor(g, m, kept), status[g] = "Final"
                 PROVE  FALSE
      OBVIOUS
    <3>1. g \in Ancestry(m) /\ m \in Ancestry(g) \ {g}
      BY <1>1, <2>2 DEF IsSuccessor
    <3>2. m \in Signed
      BY DEF KeyInv, KeyringTypeOK, Rotations
    <3> QED BY <3>1, <3>2 DEF KeyInv, TreeInv, PathsNest
  <2> QED BY <2>3
<1> QED BY <1>1, <1>2, <1>3, <1>4

\* The three passes of reconcile keep what the keys promise.
LEMMA ReconcileKeysKeeps ==
    ASSUME KeyInv, NEW n \in Member, ReconcileKeys(n)
    PROVE  KeyInv' /\ FinalKeysAreNotVoided
<1> DEFINE kept     == Kept(n)
           status   == Marked(n)
           obsolete == Obsolete(n)
<1>1. /\ kept # {} => Newest(kept) \in kept
      /\ \A h \in kept : /\ status[h] \in RotationStatus
                         /\ status[h] = "Final" => IsFinal(n, h)
      /\ \A h \in DOMAIN records[n] : IsFinal(n, h) => h \in kept
      /\ pruned[n] \cup obsolete # {} => \E h \in kept \ obsolete : IsFinal(n, h)
  BY ReconcileLeaves
<1>2. PICK c \in kept \cup {Nil, canonical[n]} :
         /\ records' = [records EXCEPT ![n] = [h \in kept \ obsolete |-> status[h]]]
         /\ canonical' = [canonical EXCEPT ![n] = c]
         /\ voided' = [voided EXCEPT ![n] = @ \cup (DOMAIN records[n] \ kept)]
         /\ pruned' = [pruned EXCEPT ![n] = @ \cup obsolete]
         /\ UNCHANGED <<entry, held, finalized>>
  BY <1>1 DEF ReconcileKeys, Kept, Marked, Obsolete
<1>3. kept \subseteq Rotations(Signed) /\ canonical[n] \in Rotations(Signed) \cup {Nil}
  BY DEF KeyInv, KeyringTypeOK, Kept
<1> HIDE DEF kept, status, obsolete
<1>4. TreeInv'
  BY <1>2 DEF KeyInv, TreeInv, TypeOK, PathsNest, OneRoot, HeldClosed, FinalHeld,
              Signed, Parent, Ancestry
<1>5. /\ Rotations(Signed)' = Rotations(Signed)
      /\ \A m \in Member : \A h : IsFinal(m, h)' <=> IsFinal(m, h)
  BY <1>2 DEF Rotations, Signed, IsFinal, Ancestry
<1>6. /\ \A m \in Member \ {n} : /\ records'[m] = records[m] /\ canonical'[m] = canonical[m]
                                 /\ voided'[m] = voided[m] /\ pruned'[m] = pruned[m]
      /\ records'[n] = [h \in kept \ obsolete |-> status[h]] /\ canonical'[n] = c
      /\ voided'[n] = voided[n] \cup (DOMAIN records[n] \ kept)
      /\ pruned'[n] = pruned[n] \cup obsolete
  BY <1>2 DEF KeyInv
<1>7. /\ records' = [m \in Member |-> records'[m]]
      /\ canonical' = [m \in Member |-> canonical'[m]]
      /\ voided' = [m \in Member |-> voided'[m]]
      /\ pruned' = [m \in Member |-> pruned'[m]]
  BY <1>2 DEF KeyInv
<1>8. KeyringTypeOK'
  <2> SUFFICES ASSUME NEW m \in Member
               PROVE  /\ DOMAIN records'[m] \subseteq Rotations(Signed)
                      /\ \A h \in DOMAIN records'[m] :
                            /\ records'[m][h] \in RotationStatus
                            /\ records'[m][h] = "Final" => IsFinal(m, h)
                      /\ canonical'[m] \in Rotations(Signed) \cup {Nil}
    BY <1>5 DEF KeyringTypeOK
  <2>1. CASE m # n
    BY <2>1, <1>6 DEF KeyInv, KeyringTypeOK
  <2>2. CASE m = n
    <3>1. DOMAIN records'[n] = kept \ obsolete /\ \A h \in kept \ obsolete : records'[n][h] = status[h]
      BY <1>6
    <3> QED BY <2>2, <3>1, <1>1, <1>3, <1>6
  <2> QED BY <2>1, <2>2
<1>9. PruningLeavesAFinalKey'
  <2> SUFFICES ASSUME NEW m \in Member, pruned'[m] # {}
               PROVE  \E h \in DOMAIN records'[m] : IsFinal(m, h)
    BY <1>5 DEF PruningLeavesAFinalKey
  <2>1. CASE m # n
    BY <2>1, <1>6 DEF KeyInv, PruningLeavesAFinalKey
  <2>2. CASE m = n
    BY <2>2, <1>1, <1>6
  <2> QED BY <2>1, <2>2
<1>10. FinalKeysAreNotVoided
  <2> SUFFICES ASSUME NEW m \in Member, NEW h \in DOMAIN records[m], records[m][h] = "Final"
               PROVE  h \notin voided'[m] \ voided[m]
    BY DEF FinalKeysAreNotVoided
  <2>1. IsFinal(m, h)
    BY DEF KeyInv, KeyringTypeOK
  <2>2. CASE m # n
    BY <2>2, <1>6
  <2>3. CASE m = n
    BY <2>1, <2>3, <1>1, <1>6
  <2> QED BY <2>2, <2>3
<1> QED BY <1>4, <1>7, <1>8, <1>9, <1>10 DEF KeyInv

\* Every step keeps the invariant, and voids no key that is marked final.
LEMMA KeyInvNext ==
    KeyInv /\ [KeyringNext]_<<vars, keyVars>> =>
        KeyInv' /\ [FinalKeysAreNotVoided]_<<vars, keyVars>>
<1> SUFFICES ASSUME KeyInv, [KeyringNext]_<<vars, keyVars>>
             PROVE  KeyInv' /\ [FinalKeysAreNotVoided]_<<vars, keyVars>>
  OBVIOUS
<1>1. ASSUME UNCHANGED voided PROVE FinalKeysAreNotVoided
  BY <1>1 DEF FinalKeysAreNotVoided
<1>2. CASE LogStep
  <2>1. Next /\ UNCHANGED keyVars
    BY <1>2 DEF LogStep, keyVars
  <2> QED BY <1>1, <2>1, LogStepKeeps DEF keyVars
<1>3. ASSUME NEW n \in Member, Record(n) PROVE KeyInv' /\ FinalKeysAreNotVoided
  <2>1. PICK h \in Rotations(Signed) :
           /\ records' = [records EXCEPT ![n] = WithTentative(@, {h})]
           /\ canonical' = [canonical EXCEPT ![n] = h]
           /\ UNCHANGED <<entry, held, finalized, voided, pruned>>
    BY <1>3 DEF Record
  <2>2. {h} \in SUBSET Rotations(Signed) /\ h \in {h}
    OBVIOUS
  <2> QED BY <1>1, <2>1, <2>2, TentativeKeeps
<1>4. ASSUME NEW n \in Member, AcceptDelivered(n) PROVE KeyInv' /\ FinalKeysAreNotVoided
  <2>1. PICK S \in SUBSET Rotations(Signed), last \in Rotations(Signed) :
           /\ last \in S
           /\ records' = [records EXCEPT ![n] = WithTentative(@, S)]
           /\ canonical' = [canonical EXCEPT ![n] = last]
           /\ UNCHANGED <<entry, held, finalized, voided, pruned>>
    BY <1>4 DEF AcceptDelivered
  <2> QED BY <1>1, <2>1, TentativeKeeps
<1>5. ASSUME NEW n \in Member, ReconcileKeys(n) PROVE KeyInv' /\ FinalKeysAreNotVoided
  BY <1>5, ReconcileKeysKeeps
<1>6. CASE UNCHANGED <<vars, keyVars>>
  <2>1. UNCHANGED vars /\ UNCHANGED keyVars
    BY <1>6
  <2> QED BY <1>6, <2>1, LogStepKeeps
<1> QED BY <1>2, <1>3, <1>4, <1>5, <1>6 DEF KeyringNext

\* A member starts without keys.
LEMMA KeyInvInit == KeyringInit => KeyInv
BY TreeInvInit DEF KeyringInit, KeyInv, KeyringTypeOK, PruningLeavesAFinalKey

\* Keys follow finality, for any members and any log (keyring.rs, reconcile): a
\* key is marked final only with its entry, no key marked final is voided, and
\* who has pruned keys is left with one of a final rotation.
THEOREM KeysAreSafe == KeyringSpec => KeysFollowFinality
<1>1. KeyringSpec => []KeyInv /\ [][FinalKeysAreNotVoided]_<<vars, keyVars>>
  BY KeyInvInit, KeyInvNext, PTL DEF KeyringSpec
<1>2. KeyInv => KeyringTypeOK /\ PruningLeavesAFinalKey
  BY DEF KeyInv
<1> QED BY <1>1, <1>2, PTL DEF KeysFollowFinality

----------------------------------------------------------------------------
\* The admissions of Joining: every one rests on an invite that was good in the
\* state it extends, and no chain holds more members by an invite than the invite
\* allows, for any number of nodes, joiners and invites.
\*
\* The bound is not inductive alone.  An admitter counts the uses of an invite in
\* the state of its canonical tip, so the argument needs the tree of
\* GovernanceLogProofs, in which fork choice has an answer that is held, and the
\* shape of what chains replay to, so that one entry more can be counted.

\* What a chain may replay to: counted invites within their limits.
ChainState(s) ==
    /\ s = [admins |-> s.admins, mode |-> s.mode, via |-> s.via]
    /\ IsFiniteSet(DOMAIN s.via)
    /\ \A t \in Invite : InviteUseCount(s, t) <= t.uses

IsRequest(m) == m.from \in Joiner /\ m.to \in Node /\ m.invite \in Invite

JoinInv ==
    /\ TreeInv
    /\ DOMAIN after = Signed /\ DOMAIN body = Signed
    /\ clock \in 0..Last
    /\ inbound \in [Node -> SUBSET UNION {inbound[n] : n \in Node}]
    /\ \A n \in Node : \A m \in inbound[n] : IsRequest(m)
    /\ \A m \in post : m.type = "Request" => IsRequest(m)
    /\ \A h \in Signed : after[h] # Nil => ChainState(after[h])
    /\ \A h \in Signed : Parent(h) = Nil => body[h].type = "Genesis"
    /\ AdmissionsWereValid

----------------------------------------------------------------------------
\* Counting

\* A count is a natural, and an invite's limit too.
LEMMA CountType ==
    ASSUME NEW s, NEW t \in Invite, IsFiniteSet(DOMAIN s.via)
    PROVE  /\ InviteUseCount(s, t) \in Nat /\ t.uses \in Nat
           /\ IsFiniteSet({x \in DOMAIN s.via : s.via[x] = t})
<1>1. IsFiniteSet({x \in DOMAIN s.via : s.via[x] = t})
  BY FS_Subset
<1> QED BY <1>1, FS_CardinalityType, JoiningAssumption DEF InviteUseCount, Tickets

\* A state whose members by t are among those of another counts no more of them.
LEMMA CountShrinks ==
    ASSUME NEW s, NEW r, NEW t \in Invite, IsFiniteSet(DOMAIN s.via),
           {x \in DOMAIN r.via : r.via[x] = t} \subseteq {x \in DOMAIN s.via : s.via[x] = t}
    PROVE  InviteUseCount(r, t) <= InviteUseCount(s, t)
<1>1. IsFiniteSet({x \in DOMAIN s.via : s.via[x] = t})
  BY CountType
<1> QED BY <1>1, FS_Subset DEF InviteUseCount

\* One element more makes a set at most one larger.
LEMMA OneMore ==
    ASSUME NEW S, NEW x, IsFiniteSet(S)
    PROVE  IsFiniteSet(S \cup {x}) /\ Cardinality(S \cup {x}) <= Cardinality(S) + 1
<1>1. Cardinality(S) \in Nat
  BY FS_CardinalityType
<1>2. CASE x \in S
  <2>1. S \cup {x} = S
    BY <1>2
  <2>2. IsFiniteSet(S \cup {x}) /\ Cardinality(S \cup {x}) = Cardinality(S)
    BY <2>1, Zenon
  <2> QED BY <1>1, <2>2
<1>3. CASE x \notin S
  <2>1. IsFiniteSet(S \cup {x}) /\ Cardinality(S \cup {x}) = Cardinality(S) + 1
    BY <1>3, FS_AddElement
  <2> QED BY <1>1, <2>1
<1> QED BY <1>2, <1>3

\* An admission uses an invite once at most.
LEMMA CountGrows ==
    ASSUME NEW s, NEW r, NEW t \in Invite, NEW who, IsFiniteSet(DOMAIN s.via),
           {x \in DOMAIN r.via : r.via[x] = t}
              \subseteq {x \in DOMAIN s.via : s.via[x] = t} \cup {who}
    PROVE  InviteUseCount(r, t) <= InviteUseCount(s, t) + 1
<1> DEFINE S == {x \in DOMAIN s.via : s.via[x] = t}
           R == {x \in DOMAIN r.via : r.via[x] = t}
<1>1. IsFiniteSet(S) /\ Cardinality(S) \in Nat
  BY CountType, FS_CardinalityType
<1>2. /\ IsFiniteSet(S \cup {who})
      /\ Cardinality(S \cup {who}) <= Cardinality(S) + 1
  <2> HIDE DEF S
  <2> QED BY <1>1, OneMore
<1>3. R \subseteq S \cup {who}
  OBVIOUS
<1>4. /\ Cardinality(R) <= Cardinality(S \cup {who})
      /\ Cardinality(R) \in Nat /\ Cardinality(S \cup {who}) \in Nat
  <2> HIDE DEF S, R
  <2> QED BY <1>2, <1>3, FS_Subset, FS_CardinalityType
<1>5. InviteUseCount(r, t) = Cardinality(R) /\ InviteUseCount(s, t) = Cardinality(S)
  BY DEF InviteUseCount
<1> HIDE DEF S, R
<1> QED BY <1>1, <1>2, <1>4, <1>5

\* What an entry may do to a chain: an admission by no invite, or by one with a
\* use left, a removal, a strip or a change of mode.
GoodBody(s, b) ==
    \/ /\ b.type = "Add"
       /\ b.invite = Nil \/ (b.invite \in Invite /\ InviteUseCount(s, b.invite) < b.invite.uses)
    \/ b.type \in {"Remove", "Strip", "Mode"}

\* Such an entry keeps every invite within its limit, or ends the replay.
LEMMA ApplyKeeps ==
    ASSUME NEW s, NEW b, ChainState(s), GoodBody(s, b), Apply(s, b) # Nil
    PROVE  ChainState(Apply(s, b))
<1> DEFINE r == Mutate(s, b)
<1>1. Apply(s, b) = r
  BY DEF Apply
<1>2. IsFiniteSet(DOMAIN s.via)
  BY DEF ChainState
<1>3. CASE b.type = "Add"
  <2>1. r = [admins |-> s.admins, mode |-> s.mode,
             via |-> [x \in DOMAIN s.via \cup {b.who} |-> IF x = b.who THEN b.invite ELSE s.via[x]]]
    BY <1>3 DEF Mutate, ChainState
  <2>2. DOMAIN r.via = DOMAIN s.via \cup {b.who}
    BY <2>1
  <2>3. IsFiniteSet(DOMAIN r.via)
    BY <2>2, <1>2, FS_AddElement
  <2>4. ASSUME NEW t \in Invite
        PROVE  InviteUseCount(r, t) <= t.uses
    <3>1. /\ InviteUseCount(s, t) \in Nat /\ t.uses \in Nat
          /\ InviteUseCount(r, t) \in Nat
          /\ InviteUseCount(s, t) <= t.uses
      <4> HIDE DEF r
      <4> QED BY <1>2, <2>3, CountType DEF ChainState
    <3>2. CASE b.invite = t
      <4>1. {x \in DOMAIN r.via : r.via[x] = t}
               \subseteq {x \in DOMAIN s.via : s.via[x] = t} \cup {b.who}
        BY <2>1
      <4>2. InviteUseCount(s, t) < t.uses
        BY <3>2, <1>3, JoiningAssumption DEF GoodBody
      <4>3. InviteUseCount(r, t) <= InviteUseCount(s, t) + 1
        <5> HIDE DEF r
        <5> QED BY <4>1, <1>2, CountGrows
      <4> HIDE DEF r
      <4> QED BY <3>1, <4>2, <4>3
    <3>3. CASE b.invite # t
      <4>1. {x \in DOMAIN r.via : r.via[x] = t} \subseteq {x \in DOMAIN s.via : s.via[x] = t}
        BY <2>1, <3>3
      <4>2. InviteUseCount(r, t) <= InviteUseCount(s, t)
        <5> HIDE DEF r
        <5> QED BY <4>1, <1>2, CountShrinks
      <4> HIDE DEF r
      <4> QED BY <3>1, <4>2
    <3> QED BY <3>2, <3>3
  <2>5. r = [admins |-> r.admins, mode |-> r.mode, via |-> r.via]
    BY <2>1
  <2> QED BY <1>1, <2>3, <2>4, <2>5 DEF ChainState
<1>4. CASE b.type = "Remove"
  <2>1. r = [admins |-> s.admins, mode |-> s.mode,
             via |-> [x \in DOMAIN s.via \ {b.who} |-> s.via[x]]]
    BY <1>4 DEF Mutate, ChainState, Restrict
  <2>2. DOMAIN r.via \subseteq DOMAIN s.via
    BY <2>1
  <2>3. IsFiniteSet(DOMAIN r.via)
    <3> HIDE DEF r
    <3> QED BY <2>2, <1>2, FS_Subset
  <2>4. ASSUME NEW t \in Invite
        PROVE  InviteUseCount(r, t) <= t.uses
    <3>1. {x \in DOMAIN r.via : r.via[x] = t} \subseteq {x \in DOMAIN s.via : s.via[x] = t}
      BY <2>1
    <3> HIDE DEF r
    <3>2. InviteUseCount(r, t) <= InviteUseCount(s, t)
      BY <3>1, <1>2, CountShrinks
    <3>3. InviteUseCount(s, t) \in Nat /\ t.uses \in Nat /\ InviteUseCount(r, t) \in Nat
      BY <1>2, <2>3, CountType
    <3> QED BY <3>2, <3>3 DEF ChainState
  <2>5. r = [admins |-> r.admins, mode |-> r.mode, via |-> r.via]
    BY <2>1
  <2> QED BY <1>1, <2>3, <2>4, <2>5 DEF ChainState
<1>5. CASE b.type \in {"Strip", "Mode"}
  <2>1. r = [admins |-> r.admins, mode |-> r.mode, via |-> s.via]
    BY <1>5 DEF Mutate, ChainState
  <2>2. r.via = s.via
    BY <2>1
  <2> HIDE DEF r
  <2> QED BY <1>1, <2>1, <2>2 DEF ChainState, InviteUseCount
<1> QED BY <1>3, <1>4, <1>5 DEF GoodBody

----------------------------------------------------------------------------
\* The invariant is inductive

\* The network starts with one entry that everybody holds, and no invite used.
LEMMA JoinInvInit ==
    ASSUME NEW admins \in SUBSET Node, NEW mode, JoinInit(admins, mode)
    PROVE  JoinInv
<1> DEFINE g == CHOOSE h \in Hash : \A x \in Hash : h <= x
           start == [admins |-> admins, mode |-> mode, via |-> [x \in Node \ admins |-> Nil]]
           fin == CHOOSE p \in Params : TRUE
<1>1. g \in Hash
  <2>1. \E h \in Hash : \A x \in Hash : h <= x
    BY LeastNat, HashAssumption, JoiningAssumption
  <2> QED BY <2>1
<1>2. fin \in Params
  BY JoiningAssumption
<1>3. /\ entry = [h \in {g} |-> NewEntry(h, Nil, "Genesis", 0, TRUE, fin)]
      /\ held = [n \in Node |-> {g}] /\ finalized = [n \in Node |-> Nil]
      /\ body = [h \in {g} |-> [type |-> "Genesis", by |-> Nil]]
      /\ after = [h \in {g} |-> start]
      /\ inbound = [n \in Node |-> {}] /\ post = {} /\ clock = 0
  BY DEF JoinInit
<1> HIDE DEF g, fin
<1>4. Signed = {g}
  BY <1>3 DEF Signed
<1>5. /\ entry[g] = [parent |-> Nil, anc |-> {g}, kind |-> "Genesis", time |-> 0,
                     replays |-> TRUE, fin |-> fin]
      /\ Parent(g) = Nil /\ Ancestry(g) = {g}
  BY <1>3 DEF NewEntry, Parent, Ancestry
<1>6. 0 \in Time /\ 0 \in 0..Last
  BY JoiningAssumption
<1>7. TypeOK
  <2>1. entry[g] \in EntryType
    BY <1>1, <1>2, <1>5, <1>6, SMTT(40) DEF EntryType
  <2> QED BY <1>1, <1>3, <1>4, <1>5, <2>1 DEF TypeOK
<1>8. TreeInv
  <2>1. g # Nil
    BY <1>1, NilAssumption
  <2>2. IsFiniteSet(Signed)
    BY <1>4, FS_Singleton
  <2>3. PathsNest /\ OneRoot
    BY <1>4, <1>5, <2>1 DEF PathsNest, OneRoot
  <2>4. HeldClosed /\ FinalHeld
    BY <1>3, <1>5 DEF HeldClosed, FinalHeld
  <2> QED BY <1>7, <2>2, <2>3, <2>4 DEF TreeInv
<1>9. ChainState(start)
  <2>1. IsFiniteSet(DOMAIN start.via)
    BY JoiningAssumption, FS_Subset
  <2>2. ASSUME NEW t \in Invite PROVE InviteUseCount(start, t) <= t.uses
    <3>1. {x \in DOMAIN start.via : start.via[x] = t} = {}
      BY JoiningAssumption
    <3>2. InviteUseCount(start, t) = 0
      BY <3>1, FS_EmptySet DEF InviteUseCount
    <3> QED BY <3>2, JoiningAssumption DEF Tickets
  <2> QED BY <2>1, <2>2 DEF ChainState
<1> HIDE DEF start
<1>10. AdmissionsWereValid
  BY <1>3, <1>4 DEF AdmissionsWereValid
<1>11. inbound \in [Node -> SUBSET UNION {inbound[n] : n \in Node}]
  BY <1>3
<1> QED BY <1>3, <1>4, <1>6, <1>8, <1>9, <1>10, <1>11 DEF JoinInv

\* A node signs a good body on top of its canonical tip.
LEMMA InsertKeeps ==
    ASSUME JoinInv, NEW n \in Node, NEW h \in Hash, NEW b,
           Insert(n, h, b), StateOf(n) # Nil, GoodBody(StateOf(n), b),
           clock' = clock,
           b.type = "Add" /\ b.invite # Nil =>
              /\ StateOf(n).mode = "AutoAdmit"
              /\ Validate(b.invite, b.who, StateOf(n), clock)
    PROVE  /\ TreeInv'
           /\ (DOMAIN after = Signed /\ DOMAIN body = Signed)'
           /\ (\A x \in Signed : after[x] # Nil => ChainState(after[x]))'
           /\ (\A x \in Signed : Parent(x) = Nil => body[x].type = "Genesis")'
           /\ AdmissionsWereValid'
<1> DEFINE tip == CanonicalTip(n)
           next == Apply(after[tip], b)
<1>1. held[n] # {} /\ StateOf(n) = after[tip]
  BY DEF StateOf
<1>2. tip \in held[n] /\ tip \in Signed
  BY <1>1, ChainHeld DEF JoinInv, TreeInv, TypeOK
<1>3. /\ h \in Hash \ Signed
      /\ Sign(n, h, tip, "MembershipChange", clock, next # Nil, entry[tip].fin)
      /\ body' = [x \in Signed \cup {h} |-> IF x = h THEN b ELSE body[x]]
      /\ after' = [x \in Signed \cup {h} |-> IF x = h THEN next ELSE after[x]]
      /\ finalized' = finalized
  BY DEF Insert
<1> HIDE DEF tip, next
<1>4. /\ entry[tip].fin \in Params /\ clock \in Time /\ "MembershipChange" \in Kind
      /\ (next # Nil) \in BOOLEAN
  <2>1. entry[tip] \in EntryType
    BY <1>2 DEF JoinInv, TreeInv, TypeOK
  <2> QED BY <2>1, JoiningAssumption DEF EntryType, JoinInv
<1>5. TreeInv'
  BY <1>2, <1>3, <1>4, SignKeepsTree DEF JoinInv
<1>6. /\ Signed' = Signed \cup {h}
      /\ \A x \in Signed : entry'[x] = entry[x]
      /\ entry'[h] = NewEntry(h, tip, "MembershipChange", clock, next # Nil, entry[tip].fin)
  BY <1>3, SignKeeps DEF JoinInv, TreeInv
<1>7. /\ Parent(h)' = tip /\ entry'[h].time = clock
      /\ \A x \in Signed : Parent(x)' = Parent(x)
  <2>1. LET e == NewEntry(h, tip, "MembershipChange", clock, next # Nil, entry[tip].fin)
        IN  e.parent = tip /\ e.time = clock
    BY DEF NewEntry
  <2>2. entry'[h].parent = tip /\ entry'[h].time = clock
    BY <1>6, <2>1
  <2> QED BY <1>6, <2>2 DEF Parent
<1>8. /\ after'[h] = next /\ body'[h] = b
      /\ \A x \in Signed : after'[x] = after[x] /\ body'[x] = body[x]
  BY <1>3
<1>9. (\A x \in Signed : after[x] # Nil => ChainState(after[x]))'
  <2>1. next # Nil => ChainState(next)
    BY <1>1, <1>2, ApplyKeeps DEF next, JoinInv
  <2>2. \A x \in Signed : after'[x] # Nil => ChainState(after'[x])
    BY <1>8 DEF JoinInv
  <2> QED BY <2>1, <2>2, <1>6, <1>8
<1>10. AdmissionsWereValid'
  <2>1. ASSUME NEW x \in Signed', (body[x].type = "Add" /\ body[x].invite # Nil)'
        PROVE  (/\ after[Parent(x)] # Nil /\ after[Parent(x)].mode = "AutoAdmit"
                /\ body[x].invite.issuer \in after[Parent(x)].admins
                /\ body[x].invite.subject \in {Nil, body[x].who}
                /\ body[x].invite.issued <= entry[x].time
                /\ entry[x].time <= body[x].invite.expires)'
    <3>1. CASE x = h
      <4>1. after'[tip] = StateOf(n)
        BY <1>1, <1>2, <1>8
      <4> QED BY <2>1, <3>1, <4>1, <1>7, <1>8 DEF Validate
    <3>2. CASE x \in Signed
      <4>1. /\ after[Parent(x)] # Nil /\ after[Parent(x)].mode = "AutoAdmit"
            /\ body[x].invite.issuer \in after[Parent(x)].admins
            /\ body[x].invite.subject \in {Nil, body[x].who}
            /\ body[x].invite.issued <= entry[x].time
            /\ entry[x].time <= body[x].invite.expires
        BY <2>1, <3>2, <1>8 DEF JoinInv, AdmissionsWereValid
      <4>2. Parent(x) \in Signed
        BY <2>1, <3>2, <1>8 DEF JoinInv, TreeInv, TypeOK
      <4> QED BY <3>2, <4>1, <4>2, <1>6, <1>7, <1>8
    <3> QED BY <3>1, <3>2, <1>6
  <2> QED BY <2>1 DEF AdmissionsWereValid
<1>11. (\A x \in Signed : Parent(x) = Nil => body[x].type = "Genesis")'
  <2>1. tip # Nil
    BY <1>2, NilAssumption DEF JoinInv, TreeInv, TypeOK
  <2> QED BY <2>1, <1>6, <1>7, <1>8 DEF JoinInv
<1> QED BY <1>3, <1>5, <1>6, <1>9, <1>10, <1>11

\* Steps that leave the log alone.
LEMMA LogUnchanged ==
    ASSUME JoinInv, UNCHANGED logVars
    PROVE  /\ TreeInv'
           /\ (DOMAIN after = Signed /\ DOMAIN body = Signed)'
           /\ (\A x \in Signed : after[x] # Nil => ChainState(after[x]))'
           /\ (\A x \in Signed : Parent(x) = Nil => body[x].type = "Genesis")'
           /\ AdmissionsWereValid'
<1>1. UNCHANGED <<entry, held, finalized, body, after>>
  BY DEF logVars
<1>2. TreeInv'
  BY <1>1, TreeInvNext DEF JoinInv, vars
<1> QED BY <1>1, <1>2 DEF JoinInv, Signed, Parent, AdmissionsWereValid

\* n learns what m holds.
LEMMA SyncKeeps ==
    ASSUME JoinInv, NEW n \in Node, NEW m \in Node, SyncFrom(n, m)
    PROVE  JoinInv'
<1>1. /\ ~(held[m] \subseteq held[n])
      /\ held' = [held EXCEPT ![n] = @ \cup held[m]]
      /\ UNCHANGED <<entry, finalized, body, after, inbound, post, clock>>
  BY DEF SyncFrom, askVars
<1>2. InsertSynced(n)
  <2>1. held \in [Node -> SUBSET Signed] /\ HeldClosed
    BY DEF JoinInv, TreeInv, TypeOK
  <2>2. /\ (held[m] \ held[n]) \in SUBSET (Signed \ held[n])
        /\ held[m] \ held[n] # {}
        /\ \A h \in held[m] \ held[n] : Ancestry(h) \subseteq held[n] \cup (held[m] \ held[n])
        /\ held' = [held EXCEPT ![n] = @ \cup (held[m] \ held[n])]
    BY <1>1, <2>1 DEF HeldClosed
  <2> QED BY <1>1, <2>2 DEF InsertSynced
<1>3. TreeInv'
  BY <1>2, InsertSyncedKeepsTree DEF JoinInv
<1> QED BY <1>1, <1>3 DEF JoinInv, Signed, Parent, AdmissionsWereValid

\* Requests come from joiners, by invites that were issued, before and after m
\* is answered.
LEMMA AnswerKeeps ==
    ASSUME JoinInv, NEW n \in Node, NEW m \in inbound[n],
           \E answer \in {"Refused", "Waiting", "Admitted"} : Answer(n, m, answer)
    PROVE  /\ (clock \in 0..Last)'
           /\ (inbound \in [Node -> SUBSET UNION {inbound[i] : i \in Node}])'
           /\ (\A i \in Node : \A r \in inbound[i] : IsRequest(r))'
           /\ (\A r \in post : r.type = "Request" => IsRequest(r))'
BY DEF JoinInv, Answer, Reply, IsRequest

\* Every step keeps the invariant.
LEMMA JoinInvNext == JoinInv /\ [JoinNext]_joinVars => JoinInv'
<1> SUFFICES ASSUME JoinInv, [JoinNext]_joinVars PROVE JoinInv'
  OBVIOUS
<1> USE DEF askVars
<1>1. ASSUME NEW n \in Node, NEW m \in inbound[n],
             DecideRefused(n, m) \/ DecideWaiting(n, m) \/ DeclineJoin(n, m)
      PROVE  JoinInv'
  <2>1. UNCHANGED logVars /\ (Answer(n, m, "Refused") \/ Answer(n, m, "Waiting"))
    BY <1>1 DEF DecideRefused, DecideWaiting, DeclineJoin
  <2>2. /\ (clock \in 0..Last)'
        /\ (inbound \in [Node -> SUBSET UNION {inbound[i] : i \in Node}])'
        /\ (\A i \in Node : \A r \in inbound[i] : IsRequest(r))'
        /\ (\A r \in post : r.type = "Request" => IsRequest(r))'
    <3>1. \E answer \in {"Refused", "Waiting", "Admitted"} : Answer(n, m, answer)
      BY <2>1
    <3> QED BY <3>1, AnswerKeeps
  <2> QED BY <2>1, <2>2, LogUnchanged DEF JoinInv
<1>2. ASSUME NEW n \in Node, NEW m \in inbound[n], NEW h \in Hash, DecideAdmitted(n, m, h)
      PROVE  JoinInv'
  <2> DEFINE b == [type |-> "Add", who |-> m.from, invite |-> m.invite, by |-> n]
  <2>1. /\ StateOf(n) # Nil /\ StateOf(n).mode = "AutoAdmit"
        /\ Validate(m.invite, m.from, StateOf(n), clock)
        /\ Insert(n, h, b) /\ Answer(n, m, "Admitted")
    BY <1>2 DEF DecideAdmitted
  <2>2. GoodBody(StateOf(n), b)
    BY <2>1 DEF GoodBody, Validate, JoinInv, IsRequest
  <2>3. clock' = clock
    BY <2>1 DEF Answer
  <2>4. b.type = "Add" /\ b.invite # Nil =>
           /\ StateOf(n).mode = "AutoAdmit"
           /\ Validate(b.invite, b.who, StateOf(n), clock)
    BY <2>1
  <2> HIDE DEF b
  <2>5. /\ TreeInv'
        /\ (DOMAIN after = Signed /\ DOMAIN body = Signed)'
        /\ (\A x \in Signed : after[x] # Nil => ChainState(after[x]))'
        /\ (\A x \in Signed : Parent(x) = Nil => body[x].type = "Genesis")'
        /\ AdmissionsWereValid'
    BY <2>1, <2>2, <2>3, <2>4, InsertKeeps
  <2>6. /\ (clock \in 0..Last)'
        /\ (inbound \in [Node -> SUBSET UNION {inbound[i] : i \in Node}])'
        /\ (\A i \in Node : \A r \in inbound[i] : IsRequest(r))'
        /\ (\A r \in post : r.type = "Request" => IsRequest(r))'
    <3>1. \E answer \in {"Refused", "Waiting", "Admitted"} : Answer(n, m, answer)
      BY <2>1
    <3> QED BY <3>1, AnswerKeeps
  <2> QED BY <2>5, <2>6 DEF JoinInv
<1>3. ASSUME NEW n \in Node, NEW h \in Hash, Administer(n, h)
      PROVE  JoinInv'
  <2>1. PICK b : /\ AppendEntry(n, h, b)
                 /\ b.type \in {"Remove", "Strip", "Mode"} \/ (b.type = "Add" /\ b.invite = Nil)
    <3>1. CASE \E x \in Joiner :
                  AppendEntry(n, h, [type |-> "Add", who |-> x, invite |-> Nil, by |-> n])
      BY <3>1
    <3>2. CASE \E x \in Joiner : AppendEntry(n, h, [type |-> "Remove", who |-> x, by |-> n])
      BY <3>2
    <3>3. CASE \E x \in StateOf(n).admins \ {n} :
                  AppendEntry(n, h, [type |-> "Strip", who |-> x, by |-> n])
      BY <3>3
    <3>4. CASE \E mode \in {"AutoAdmit", "ExplicitIntake"} :
                  AppendEntry(n, h, [type |-> "Mode", mode |-> mode, by |-> n])
      BY <3>4
    <3> QED BY <1>3, <3>1, <3>2, <3>3, <3>4 DEF Administer
  <2>2. StateOf(n) # Nil /\ GoodBody(StateOf(n), b)
    BY <1>3, <2>1 DEF Administer, GoodBody
  <2>3. Insert(n, h, b) /\ UNCHANGED <<inbound, post, clock>>
    BY <2>1 DEF AppendEntry
  <2>4. ~(b.type = "Add" /\ b.invite # Nil)
    BY <2>1
  <2>5. /\ TreeInv'
        /\ (DOMAIN after = Signed /\ DOMAIN body = Signed)'
        /\ (\A x \in Signed : after[x] # Nil => ChainState(after[x]))'
        /\ (\A x \in Signed : Parent(x) = Nil => body[x].type = "Genesis")'
        /\ AdmissionsWereValid'
    BY <2>2, <2>3, <2>4, InsertKeeps
  <2> QED BY <2>3, <2>5 DEF JoinInv, IsRequest
<1>4. ASSUME NEW n \in Node, NEW x \in Joiner, NEW t \in Invite, RequestJoin(x, n, t)
      PROVE  JoinInv'
  <2>1. UNCHANGED logVars /\ UNCHANGED <<inbound, clock>>
    BY <1>4 DEF RequestJoin
  <2>2. (\A r \in post : r.type = "Request" => IsRequest(r))'
    BY <1>4 DEF RequestJoin, JoinInv, IsRequest
  <2> QED BY <2>1, <2>2, LogUnchanged DEF JoinInv
<1>5. ASSUME NEW m \in post, ScreenJoin(m)
      PROVE  JoinInv'
  <2>1. UNCHANGED logVars /\ clock' = clock /\ IsRequest(m)
    BY <1>5 DEF ScreenJoin, JoinInv
  <2>2. (\A r \in post : r.type = "Request" => IsRequest(r))'
    BY <1>5 DEF ScreenJoin, JoinInv, Reply
  <2>3. PICK S \in SUBSET {m} : inbound' = [inbound EXCEPT ![m.to] = @ \cup S]
    BY <1>5 DEF ScreenJoin
  <2>4. m.to \in Node
    BY <2>1 DEF IsRequest
  <2>5. (inbound \in [Node -> SUBSET UNION {inbound[n] : n \in Node}])'
    BY <2>3, <2>4 DEF JoinInv
  <2>6. (\A n \in Node : \A r \in inbound[n] : IsRequest(r))'
    BY <2>1, <2>3, <2>4 DEF JoinInv, IsRequest
  <2> QED BY <2>1, <2>2, <2>5, <2>6, LogUnchanged DEF JoinInv
<1>6. ASSUME NEW m \in post, HearAnswer(m) \/ LosePost(m)
      PROVE  JoinInv'
  <2>1. UNCHANGED logVars /\ UNCHANGED <<inbound, clock>> /\ post' = post \ {m}
    BY <1>6 DEF HearAnswer, LosePost
  <2> QED BY <2>1, LogUnchanged DEF JoinInv, IsRequest
<1>7. CASE ClockTick
  <2>1. UNCHANGED logVars /\ UNCHANGED <<inbound, post>> /\ clock' \in 0..Last
    BY <1>7, JoiningAssumption DEF ClockTick, JoinInv
  <2> QED BY <2>1, LogUnchanged DEF JoinInv, IsRequest
<1>8. CASE UNCHANGED joinVars
  BY <1>8, LogUnchanged DEF joinVars, JoinInv, IsRequest
<1>9. ASSUME NEW n \in Node, NEW m \in Node, SyncFrom(n, m) PROVE JoinInv'
  BY <1>9, SyncKeeps
<1> QED BY <1>1, <1>2, <1>3, <1>4, <1>5, <1>6, <1>7, <1>8, <1>9 DEF JoinNext, Deciding

\* The invariant holds from the start, whoever the admins are.
LEMMA JoinInvHolds == JoinSpec => []JoinInv
<1>1. (\E admins \in SUBSET Node, mode \in {"AutoAdmit", "ExplicitIntake"} :
          admins # {} /\ JoinInit(admins, mode)) => JoinInv
  BY JoinInvInit
<1> QED BY <1>1, JoinInvNext, PTL DEF JoinSpec

----------------------------------------------------------------------------
\* What it says

\* However admitters race, every admission by invite rests on an invite that was
\* good for the joiner at the time and in the state the entry extends, and no
\* chain of the log holds more members by an invite than it allows (decide_join,
\* Invite::validate and invite_use_count).
THEOREM InvitesAreKept == JoinSpec => []InvitesGovern
<1>1. JoinInv => InvitesGovern
  BY DEF JoinInv, InvitesGovern, InviteWithinLimit, ChainState
<1> QED BY <1>1, JoinInvHolds, PTL
=============================================================================

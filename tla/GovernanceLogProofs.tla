------------------------ MODULE GovernanceLogProofs ------------------------
(***************************************************************************)
(* Proofs about GovernanceLog, for every set of nodes, hashes, kinds,      *)
(* timestamps and finality parameters.                                     *)
(***************************************************************************)
EXTENDS GovernanceLog, FiniteSetTheorems, WellFoundedInduction, TLAPS

----------------------------------------------------------------------------
\* Least and greatest elements

\* A non-empty set of naturals has a least element.
LEMMA LeastNat ==
    ASSUME NEW S, S \subseteq Nat, S # {}
    PROVE  \E m \in S : \A x \in S : m <= x
<1>1. PICK m \in S : \A x \in S : ~ (<<x, m>> \in OpToRel(<, Nat))
  BY NatLessThanWellFounded, WFMin
<1>2. \A x \in S : ~ (x < m)
  BY <1>1 DEF OpToRel
<1> QED BY <1>2

\* A bounded function into the naturals takes its greatest value somewhere.
LEMMA GreatestValue ==
    ASSUME NEW S, S # {}, NEW f \in [S -> Nat], NEW B \in Nat,
           \A x \in S : f[x] <= B
    PROVE  \E m \in S : \A x \in S : f[x] <= f[m]
<1> DEFINE T == {B - f[x] : x \in S}
<1>1. T \subseteq Nat /\ T # {}
  OBVIOUS
<1>2. PICK d \in T : \A e \in T : d <= e
  BY <1>1, LeastNat
<1>3. PICK m \in S : d = B - f[m]
  OBVIOUS
<1>4. \A x \in S : B - f[m] <= B - f[x]
  BY <1>2, <1>3
<1> QED BY <1>4

----------------------------------------------------------------------------
\* The inductive invariant

\* Below a path lie only paths that extend it, and a path is a chain.
PathsNest ==
    \A h \in Signed :
        /\ h \in Ancestry(h) /\ h # Parent(h)
        /\ Ancestry(h) \subseteq Signed
        /\ \A a \in Ancestry(h) : Ancestry(a) \subseteq Ancestry(h)
        /\ \A a, b \in Ancestry(h) : a \in Ancestry(b) \/ b \in Ancestry(a)
        /\ \A a \in Ancestry(h) : h \in Ancestry(a) => a = h

\* The network has one genesis, and every path starts there.
OneRoot == Signed # {} =>
    \E r \in Signed : Parent(r) = Nil /\ \A h \in Signed : r \in Ancestry(h)

\* insert refuses an entry whose parent is missing.
HeldClosed == \A n \in Node : \A h \in held[n] : Ancestry(h) \subseteq held[n]

FinalHeld == \A n \in Node : finalized[n] # Nil => finalized[n] \in held[n]

TreeInv == /\ TypeOK
           /\ IsFiniteSet(Signed)
           /\ PathsNest
           /\ OneRoot
           /\ HeldClosed
           /\ FinalHeld

\* Signing an entry leaves the entries already signed as they were.
LEMMA SignKeeps ==
    ASSUME TypeOK, NEW n \in Node, NEW h \in Hash \ Signed, NEW p, NEW kind, NEW time,
           NEW replays, NEW fin, Sign(n, h, p, kind, time, replays, fin)
    PROVE  /\ Signed' = Signed \cup {h}
           /\ \A x \in Signed : entry'[x] = entry[x]
           /\ entry'[h] = NewEntry(h, p, kind, time, replays, fin)
           /\ held' = [held EXCEPT ![n] = @ \cup {h}]
BY DEF Sign, Signed

\* A new entry, signed as genesis or on top of one that the signer holds, keeps
\* the tree a tree.
LEMMA SignKeepsTree ==
    ASSUME TreeInv, NEW n \in Node, NEW h \in Hash \ Signed, NEW p, NEW kind,
           NEW time \in Time, NEW replays \in BOOLEAN, NEW fin \in Params,
           Sign(n, h, p, kind, time, replays, fin), UNCHANGED finalized,
           \/ p = Nil /\ Signed = {} /\ kind = "Genesis"
           \/ p \in held[n] /\ kind \in Kind
    PROVE  TreeInv'
<1> USE NilAssumption
<1>1. /\ Signed' = Signed \cup {h}
      /\ \A x \in Signed : entry'[x] = entry[x]
      /\ entry'[h] = NewEntry(h, p, kind, time, replays, fin)
      /\ held' = [held EXCEPT ![n] = @ \cup {h}]
  BY SignKeeps DEF TreeInv
<1>2. \A x \in Signed : Ancestry(x)' = Ancestry(x) /\ Parent(x)' = Parent(x)
  BY <1>1 DEF Ancestry, Parent
<1>3. /\ Parent(h)' = p
      /\ Ancestry(h)' = IF p = Nil THEN {h} ELSE Ancestry(p) \cup {h}
  BY <1>1 DEF Ancestry, Parent, NewEntry
<1>4. p # Nil => p \in held[n] /\ p \in Signed /\ Ancestry(p) \subseteq Signed
  BY DEF TreeInv, TypeOK, PathsNest
<1>5. held[n] \subseteq Signed /\ held \in [Node -> SUBSET Signed]
  BY DEF TreeInv, TypeOK
<1>6. TypeOK'
  <2>1. (Signed \in SUBSET Hash)'
    BY <1>1 DEF TreeInv, TypeOK
  <2>2. ASSUME NEW x \in Signed
        PROVE  /\ entry'[x] \in EntryType
               /\ IF Parent(x)' = Nil THEN Ancestry(x)' = {x}
                  ELSE /\ Parent(x)' \in Signed'
                       /\ Ancestry(x)' = Ancestry(Parent(x))' \cup {x}
    BY <1>1, <1>2 DEF TreeInv, TypeOK, Parent, Ancestry
  <2>3. entry'[h] \in EntryType
    <3>1. Ancestry(h)' \in SUBSET Hash
      BY <1>3, <1>4 DEF TreeInv, TypeOK
    <3>2. p \in Hash \cup {Nil} /\ kind \in Kind \cup {"Genesis"}
      BY <1>4 DEF TreeInv, TypeOK
    <3> QED BY <1>1, <3>1, <3>2 DEF EntryType, NewEntry, Ancestry
  <2>4. IF Parent(h)' = Nil THEN Ancestry(h)' = {h}
        ELSE /\ Parent(h)' \in Signed'
             /\ Ancestry(h)' = Ancestry(Parent(h))' \cup {h}
    <3>1. CASE p = Nil
      BY <3>1, <1>3
    <3>2. CASE p # Nil
      <4>1. entry'[Parent(h)'] = entry[p]
        BY <3>2, <1>1, <1>3, <1>4
      <4> QED BY <3>2, <4>1, <1>1, <1>3, <1>4 DEF Ancestry
    <3> QED BY <3>1, <3>2
  <2>5. (held \in [Node -> SUBSET Signed])'
    BY <1>1, <1>5
  <2>6. (finalized \in [Node -> Signed \cup {Nil}])'
    BY <1>1 DEF TreeInv, TypeOK
  <2> QED BY <2>1, <2>2, <2>3, <2>4, <2>5, <2>6, <1>1 DEF TypeOK, Parent, Ancestry
<1>7. IsFiniteSet(Signed)'
  BY <1>1, FS_AddElement DEF TreeInv
<1>8. PathsNest'
  <2>1. ASSUME NEW x \in Signed
        PROVE  /\ x \in Ancestry(x)' /\ x # Parent(x)'
               /\ Ancestry(x)' \subseteq Signed
               /\ \A a \in Ancestry(x)' : Ancestry(a)' \subseteq Ancestry(x)'
               /\ \A a, b \in Ancestry(x)' : a \in Ancestry(b)' \/ b \in Ancestry(a)'
               /\ \A a \in Ancestry(x)' : x \in Ancestry(a)' => a = x
    BY <1>2 DEF TreeInv, PathsNest
  <2>2. CASE p = Nil
    BY <1>1, <1>3, <2>1, <2>2 DEF PathsNest
  <2>3. CASE p # Nil
    <3>1. Ancestry(h)' = Ancestry(p) \cup {h} /\ Ancestry(p) = Ancestry(p)'
      BY <1>2, <1>3, <1>4, <2>3
    <3>2. h \notin Ancestry(p)
      BY <1>4, <2>3
    <3>3. \A a \in Ancestry(h)' : Ancestry(a)' \subseteq Ancestry(h)'
      BY <3>1, <2>1, <1>4, <2>3
    <3>4. \A a, b \in Ancestry(h)' : a \in Ancestry(b)' \/ b \in Ancestry(a)'
      BY <3>1, <2>1, <1>4, <2>3
    <3>5. \A a \in Ancestry(h)' : h \in Ancestry(a)' => a = h
      BY <3>1, <2>1, <1>4, <2>3
    <3> QED BY <1>1, <1>3, <1>4, <2>1, <2>3, <3>1, <3>3, <3>4, <3>5 DEF PathsNest
  <2> QED BY <2>2, <2>3
<1>9. OneRoot'
  <2>1. CASE p = Nil
    <3>1. Signed = {}
      BY <2>1, <1>5 DEF TreeInv, TypeOK
    <3> QED BY <3>1, <1>1, <1>3, <2>1 DEF OneRoot
  <2>2. CASE p # Nil
    <3>1. PICK r \in Signed : Parent(r) = Nil /\ \A x \in Signed : r \in Ancestry(x)
      BY <2>2, <1>4 DEF TreeInv, OneRoot
    <3>2. \A x \in Signed' : r \in Ancestry(x)'
      BY <3>1, <2>2, <1>1, <1>2, <1>3, <1>4
    <3> QED BY <3>1, <3>2, <1>1, <1>2 DEF OneRoot
  <2> QED BY <2>1, <2>2
<1>10. HeldClosed'
  <2>1. ASSUME NEW m \in Node, NEW x \in held'[m]
        PROVE  Ancestry(x)' \subseteq held'[m]
    <3>1. CASE x = h
      <4>1. m = n
        BY <1>1, <1>5, <3>1
      <4> QED BY <3>1, <4>1, <1>1, <1>3, <1>4, <1>5 DEF TreeInv, HeldClosed
    <3>2. CASE x # h
      BY <3>2, <1>1, <1>2, <1>5 DEF TreeInv, HeldClosed
    <3> QED BY <3>1, <3>2
  <2> QED BY <2>1 DEF HeldClosed
<1>11. FinalHeld'
  BY <1>1, <1>5 DEF TreeInv, FinalHeld
<1> QED BY <1>6, <1>7, <1>8, <1>9, <1>10, <1>11 DEF TreeInv

\* Entries that arrive by sync leave the tree alone and every log closed.
LEMMA InsertSyncedKeepsTree ==
    ASSUME TreeInv, NEW n \in Node, InsertSynced(n)
    PROVE  TreeInv'
<1>1. PICK S \in SUBSET (Signed \ held[n]) :
         /\ S # {}
         /\ \A h \in S : Ancestry(h) \subseteq held[n] \cup S
         /\ held' = [held EXCEPT ![n] = @ \cup S]
  BY DEF InsertSynced
<1>2. UNCHANGED <<entry, finalized>>
  BY DEF InsertSynced
<1>3. \A h : Ancestry(h)' = Ancestry(h) /\ Parent(h)' = Parent(h)
  BY <1>2 DEF Ancestry, Parent
<1>4. held \in [Node -> SUBSET Signed] /\ Signed' = Signed
  BY <1>2 DEF TreeInv, TypeOK, Signed
<1>5. TypeOK'
  BY <1>1, <1>2, <1>3, <1>4 DEF TreeInv, TypeOK
<1>6. PathsNest' /\ OneRoot' /\ IsFiniteSet(Signed)'
  BY <1>3, <1>4 DEF TreeInv, PathsNest, OneRoot
<1>7. HeldClosed'
  BY <1>1, <1>3, <1>4 DEF TreeInv, HeldClosed
<1>8. FinalHeld'
  BY <1>1, <1>2, <1>4 DEF TreeInv, FinalHeld
<1> QED BY <1>5, <1>6, <1>7, <1>8 DEF TreeInv

\* reconcile only moves the finalized point, along a chain that is held.
LEMMA ReconcileKeepsTree ==
    ASSUME TreeInv, NEW n \in Node, Reconcile(n), CanonicalChain(n) \subseteq held[n]
    PROVE  TreeInv'
<1>1. PICK h \in CanonicalChain(n) : finalized' = [finalized EXCEPT ![n] = h]
  BY DEF Reconcile
<1>2. UNCHANGED <<entry, held>>
  BY DEF Reconcile
<1>3. TypeOK'
  BY <1>1, <1>2 DEF TreeInv, TypeOK, Signed, Parent, Ancestry
<1>4. PathsNest' /\ OneRoot' /\ IsFiniteSet(Signed)' /\ HeldClosed'
  BY <1>2 DEF TreeInv, PathsNest, OneRoot, HeldClosed, Signed, Parent, Ancestry
<1>5. FinalHeld'
  BY <1>1, <1>2 DEF TreeInv, FinalHeld, TypeOK
<1> QED BY <1>3, <1>4, <1>5 DEF TreeInv

----------------------------------------------------------------------------
\* Fork choice has an answer

\* Weights are naturals, and no path is longer than the log.
LEMMA WeightType ==
    ASSUME TreeInv, NEW h \in Signed
    PROVE  /\ IsFiniteSet(Ancestry(h))
           /\ Weight(h) \in Nat
           /\ Cardinality(Ancestry(h)) \in Nat
           /\ Cardinality(Signed) \in Nat
           /\ Cardinality(Ancestry(h)) <= Cardinality(Signed)
           /\ Weight(h) <= Cardinality(Signed)
<1>1. Ancestry(h) \subseteq Signed /\ IsFiniteSet(Signed)
  BY DEF TreeInv, PathsNest
<1>2. {a \in Ancestry(h) : IsCapabilityGated(a)} \subseteq Signed
  BY <1>1
<1> QED BY <1>1, <1>2, FS_Subset, FS_CardinalityType DEF Weight

\* Every entry of a log lies above one of its heads.
TipsBelow == \A n \in Node : \A b \in held[n] : \E t \in Heads(held[n]) : b \in Ancestry(t)

\* In a tree closed under ancestry every branch ends in a head.
LEMMA TipsBelowHold == TreeInv => TipsBelow
<1> SUFFICES ASSUME TreeInv, NEW n \in Node, NEW b \in held[n]
             PROVE  \E t \in Heads(held[n]) : b \in Ancestry(t)
  BY DEF TipsBelow
<1> DEFINE S == {h \in held[n] : b \in Ancestry(h)}
           f == [h \in S |-> Cardinality(Ancestry(h))]
<1>1. held[n] \subseteq Signed
  BY DEF TreeInv, TypeOK
<1>2. b \in S
  BY <1>1 DEF TreeInv, PathsNest
<1>3. f \in [S -> Nat] /\ \A x \in S : f[x] <= Cardinality(Signed)
  BY <1>1, WeightType
<1>4. Cardinality(Signed) \in Nat
  BY <1>1, WeightType
<1>5. PICK m \in S : \A x \in S : f[x] <= f[m]
  <2> HIDE DEF S, f
  <2> QED BY <1>2, <1>3, <1>4, GreatestValue
<1>6. ASSUME NEW c \in held[n], Parent(c) = m
      PROVE  FALSE
  <2>1. c \in Signed /\ m \in Signed /\ m # Nil
    BY <1>1, NilAssumption DEF TreeInv, TypeOK
  <2>2. Ancestry(c) = Ancestry(m) \cup {c} /\ m \in Ancestry(m)
    BY <2>1, <1>6 DEF TreeInv, TypeOK, PathsNest
  <2>3. c \notin Ancestry(m)
    <3>1. c \in Ancestry(m) => c = m
      BY <2>1, <2>2 DEF TreeInv, PathsNest
    <3>2. c # m
      BY <2>1, <1>6 DEF TreeInv, PathsNest
    <3> QED BY <3>1, <3>2
  <2>4. Cardinality(Ancestry(c)) = Cardinality(Ancestry(m)) + 1
    <3>1. IsFiniteSet(Ancestry(m))
      BY <2>1, WeightType
    <3> QED BY <3>1, <2>2, <2>3, FS_AddElement
  <2>5. c \in S
    BY <2>2
  <2>6. f[c] = Cardinality(Ancestry(c)) /\ f[m] = Cardinality(Ancestry(m)) /\ f[c] <= f[m]
    BY <2>5, <1>5
  <2>7. Cardinality(Ancestry(m)) \in Nat
    BY <2>1, WeightType
  <2> HIDE DEF f, S
  <2> QED BY <2>4, <2>6, <2>7
<1> QED BY <1>5, <1>6 DEF Heads

\* Two best elements of a set are one.
LEMMA BestUnique ==
    ASSUME TreeInv, NEW S \in SUBSET Signed, NEW b, NEW c, IsBest(b, S), IsBest(c, S)
    PROVE  b = c
<1>1. SUFFICES ASSUME b # c PROVE FALSE
  OBVIOUS
<1>2. b \in Signed /\ c \in Signed /\ Beats(b, c) /\ Beats(c, b)
  BY <1>1 DEF IsBest
<1>3. Weight(b) \in Nat /\ Weight(c) \in Nat
  BY <1>2, WeightType
<1>4. b \in Nat /\ c \in Nat
  BY <1>2, HashAssumption DEF TreeInv, TypeOK
<1> QED BY <1>2, <1>3, <1>4 DEF Beats

\* A non-empty set of entries has a best one: the lowest hash among those of the
\* greatest weight.
LEMMA BestExists ==
    ASSUME TreeInv, NEW S \in SUBSET Signed, S # {}
    PROVE  \E b \in S : IsBest(b, S)
<1> DEFINE f == [h \in S |-> Weight(h)]
<1>1. f \in [S -> Nat] /\ \A x \in S : f[x] <= Cardinality(Signed)
  BY WeightType
<1>2. Cardinality(Signed) \in Nat
  BY FS_CardinalityType DEF TreeInv
<1>3. PICK m \in S : \A x \in S : f[x] <= f[m]
  <2> HIDE DEF f
  <2> QED BY <1>1, <1>2, GreatestValue
<1> DEFINE H == {h \in S : Weight(h) = Weight(m)}
<1>4. H \subseteq Nat /\ m \in H
  BY HashAssumption DEF TreeInv, TypeOK
<1>5. PICK b \in H : \A x \in H : b <= x
  <2> HIDE DEF H
  <2> QED BY <1>4, LeastNat
<1>6. ASSUME NEW h \in S \ {b}
      PROVE  Beats(b, h)
  <2>1. Weight(h) \in Nat /\ Weight(b) \in Nat /\ Weight(h) <= Weight(m) /\ Weight(b) = Weight(m)
    BY <1>3, <1>5, <1>6, WeightType
  <2>2. h \in Nat /\ b \in Nat
    BY HashAssumption DEF TreeInv, TypeOK
  <2>3. CASE h \in H
    BY <2>1, <2>2, <2>3, <1>5, <1>6 DEF Beats
  <2>4. CASE h \notin H
    BY <2>1, <2>4, <1>6 DEF Beats
  <2> QED BY <2>3, <2>4
<1> QED BY <1>5, <1>6 DEF IsBest

\* Fork choice on a log that is not empty: there is a start, and the canonical
\* tip is the best of the tips below it.
CanonicalTipIsBest ==
    \A n \in Node : held[n] # {} =>
        /\ Start(n) \in held[n]
        /\ finalized[n] = Nil => \A h \in Signed : Start(n) \in Ancestry(h)
        /\ Tips(held[n], Start(n)) \subseteq held[n]
        /\ IsBest(CanonicalTip(n), Tips(held[n], Start(n)))

\* Fork choice always has an answer: the tip that canonical_chain ends in is the
\* one best tip through the start.
LEMMA CanonicalTipHolds == TreeInv => CanonicalTipIsBest
<1> SUFFICES ASSUME TreeInv, NEW n \in Node, held[n] # {}
             PROVE  /\ Start(n) \in held[n]
                    /\ finalized[n] = Nil => \A h \in Signed : Start(n) \in Ancestry(h)
                    /\ Tips(held[n], Start(n)) \subseteq held[n]
                    /\ IsBest(CanonicalTip(n), Tips(held[n], Start(n)))
  BY DEF CanonicalTipIsBest
<1>1. held[n] \subseteq Signed
  BY DEF TreeInv, TypeOK
<1>2. /\ Start(n) \in held[n]
      /\ finalized[n] = Nil => \A h \in Signed : Start(n) \in Ancestry(h)
  <2>1. CASE finalized[n] # Nil
    BY <2>1 DEF TreeInv, FinalHeld, Start
  <2>2. CASE finalized[n] = Nil
    <3>1. PICK r \in Signed : Parent(r) = Nil /\ \A h \in Signed : r \in Ancestry(h)
      BY <1>1 DEF TreeInv, OneRoot
    <3>2. r \in held[n]
      BY <1>1, <3>1 DEF TreeInv, HeldClosed
    <3>3. ASSUME NEW q \in Roots(held[n])
          PROVE  q = r
      <4>1. q \in Signed /\ Parent(q) = Nil
        BY <1>1 DEF Roots
      <4>2. Ancestry(q) = {q}
        BY <4>1 DEF TreeInv, TypeOK
      <4> QED BY <4>1, <4>2, <3>1
    <3>4. Roots(held[n]) = {r}
      BY <3>1, <3>2, <3>3 DEF Roots
    <3>5. Start(n) = r
      BY <2>2, <3>4 DEF Start
    <3> QED BY <3>1, <3>2, <3>5
  <2> QED BY <2>1, <2>2
<1>3. Tips(held[n], Start(n)) \subseteq held[n]
  BY DEF Tips, Heads
<1>4. Tips(held[n], Start(n)) # {}
  BY <1>2, TipsBelowHold DEF TipsBelow, Tips
<1>5. \E b \in Tips(held[n], Start(n)) : IsBest(b, Tips(held[n], Start(n)))
  BY <1>1, <1>3, <1>4, BestExists
<1>6. IsBest(CanonicalTip(n), Tips(held[n], Start(n)))
  BY <1>5 DEF CanonicalTip, BestTip
<1> QED BY <1>2, <1>3, <1>6

----------------------------------------------------------------------------
\* The tree invariant holds

\* The canonical chain runs from the start to the canonical tip, and is held.
LEMMA ChainHeld ==
    ASSUME TreeInv, NEW n \in Node, held[n] # {}
    PROVE  /\ CanonicalTip(n) \in held[n]
           /\ Start(n) \in Ancestry(CanonicalTip(n))
           /\ CanonicalChain(n) = Ancestry(CanonicalTip(n))
           /\ CanonicalChain(n) \subseteq held[n]
<1>1. /\ IsBest(CanonicalTip(n), Tips(held[n], Start(n)))
      /\ Tips(held[n], Start(n)) \subseteq held[n]
  BY CanonicalTipHolds DEF CanonicalTipIsBest
<1>2. CanonicalTip(n) \in held[n] /\ Start(n) \in Ancestry(CanonicalTip(n))
  BY <1>1 DEF IsBest, Tips
<1> QED BY <1>2 DEF CanonicalChain, TreeInv, HeldClosed

\* Empty logs make a tree.
LEMMA TreeInvInit == Init => TreeInv
<1> SUFFICES ASSUME Init PROVE TreeInv
  OBVIOUS
<1>1. Signed = {}
  BY DEF Init, Signed
<1>2. TypeOK
  BY <1>1 DEF Init, TypeOK
<1> QED BY <1>1, <1>2, FS_EmptySet
        DEF Init, TreeInv, PathsNest, OneRoot, HeldClosed, FinalHeld

\* Every operation of the log keeps the tree a tree.
LEMMA TreeInvNext == TreeInv /\ [Next]_vars => TreeInv'
<1> SUFFICES ASSUME TreeInv, [Next]_vars PROVE TreeInv'
  OBVIOUS
<1>1. ASSUME NEW n \in Node, InsertGenesis(n) PROVE TreeInv'
  <2>1. PICK h \in Hash, time \in Time, fin \in Params :
           Sign(n, h, Nil, "Genesis", time, TRUE, fin)
    BY <1>1 DEF InsertGenesis
  <2>2. Signed = {} /\ UNCHANGED finalized
    BY <1>1 DEF InsertGenesis
  <2> QED BY <2>1, <2>2, SignKeepsTree
<1>2. ASSUME NEW n \in Node, InsertOwn(n) PROVE TreeInv'
  <2>1. PICK p \in held[n], h \in Hash \ Signed, kind \in Kind, time \in Time,
             authorized \in Verdict :
           \E fin \in IF kind = "PolicyChange" THEN Params ELSE {entry[p].fin} :
              Sign(n, h, p, kind, time, entry[p].replays /\ authorized, fin)
    BY <1>2 DEF InsertOwn
  <2>2. entry[p].fin \in Params /\ entry[p].replays \in BOOLEAN
    <3>1. entry[p] \in EntryType
      BY DEF TreeInv, TypeOK
    <3> QED BY <3>1 DEF EntryType
  <2>3. PICK fin \in Params : Sign(n, h, p, kind, time, entry[p].replays /\ authorized, fin)
    BY <2>1, <2>2
  <2>4. UNCHANGED finalized
    BY <1>2 DEF InsertOwn
  <2>5. (entry[p].replays /\ authorized) \in BOOLEAN
    OBVIOUS
  <2> QED BY <2>3, <2>4, <2>5, SignKeepsTree
<1>3. ASSUME NEW n \in Node, InsertSynced(n) PROVE TreeInv'
  BY <1>3, InsertSyncedKeepsTree
<1>4. ASSUME NEW n \in Node, Reconcile(n) PROVE TreeInv'
  <2>1. CanonicalChain(n) \subseteq held[n]
    BY <1>4, ChainHeld DEF Reconcile
  <2> QED BY <1>4, <2>1, ReconcileKeepsTree
<1>5. CASE UNCHANGED vars
  BY <1>5 DEF vars, TreeInv, TypeOK, PathsNest, OneRoot, HeldClosed, FinalHeld,
              Signed, Parent, Ancestry
<1> QED BY <1>1, <1>2, <1>3, <1>4, <1>5 DEF Next

\* Every reachable state is well typed, the entries form one tree and every
\* replica holds a part of it that is closed under ancestry.
THEOREM TreeCorrect == Spec => []TreeInv
BY TreeInvInit, TreeInvNext, PTL DEF Spec

\* The type invariant that the runs check.
THEOREM TypeCorrect == Spec => []TypeOK
<1>1. TreeInv => TypeOK
  BY DEF TreeInv
<1> QED BY <1>1, TreeCorrect, PTL

----------------------------------------------------------------------------
\* Finality

\* What is final is on the canonical chain, which starts there.
LEMMA FinalOnChain == TreeInv => FinalStaysCanonical
<1> SUFFICES ASSUME TreeInv, NEW n \in Node, finalized[n] # Nil
             PROVE  Ancestry(finalized[n]) \subseteq CanonicalChain(n)
  BY DEF FinalStaysCanonical
<1>1. held[n] # {} /\ Start(n) = finalized[n]
  BY DEF TreeInv, FinalHeld, Start
<1>2. /\ finalized[n] \in Ancestry(CanonicalTip(n))
      /\ CanonicalChain(n) = Ancestry(CanonicalTip(n))
      /\ CanonicalTip(n) \in Signed
  BY <1>1, ChainHeld DEF TreeInv, TypeOK
<1> QED BY <1>2 DEF TreeInv, PathsNest

\* Once final, always canonical: no branch presented later, however long,
\* displaces a finalized entry or anything above it.
THEOREM FinalCannotBeDisplaced == Spec => []FinalStaysCanonical
BY FinalOnChain, TreeCorrect, PTL

\* A step takes the finalized point of a replica nowhere but further down.
LEMMA FinalStepsForward ==
    ASSUME TreeInv, TreeInv', [Next]_vars, NEW n \in Node, finalized[n] # Nil
    PROVE  /\ finalized'[n] # Nil
           /\ finalized[n] \in entry'[finalized'[n]].anc
<1>1. CASE finalized'[n] = finalized[n]
  BY <1>1 DEF TreeInv, TypeOK, PathsNest, Ancestry
<1>2. CASE finalized'[n] # finalized[n]
  <2>1. Reconcile(n)
    <3>1. PICK m \in Node : \/ InsertGenesis(m) \/ InsertOwn(m)
                            \/ InsertSynced(m) \/ Reconcile(m)
      BY <1>2 DEF Next, vars
    <3>2. Reconcile(m)
      BY <3>1, <1>2 DEF InsertGenesis, InsertOwn, InsertSynced
    <3> QED BY <3>2, <1>2 DEF Reconcile, TreeInv, TypeOK
  <2>2. PICK h \in CanonicalChain(n) :
           h \notin Ancestry(finalized[n]) /\ finalized' = [finalized EXCEPT ![n] = h]
    BY <2>1 DEF Reconcile
  <2>3. entry' = entry /\ finalized'[n] = h
    BY <2>1, <2>2 DEF Reconcile, TreeInv, TypeOK
  <2>4. /\ h \in Ancestry(CanonicalTip(n)) /\ finalized[n] \in Ancestry(CanonicalTip(n))
        /\ CanonicalTip(n) \in Signed
    BY <2>1, ChainHeld DEF Reconcile, Start, TreeInv, TypeOK
  <2>5. h \in Signed /\ finalized[n] \in Ancestry(h)
    BY <2>2, <2>4 DEF TreeInv, PathsNest
  <2> QED BY <2>3, <2>5, NilAssumption DEF TreeInv, TypeOK, Ancestry
<1> QED BY <1>1, <1>2

\* The finalized point never moves back or sideways.
THEOREM FinalityOnlyForward == Spec => [][FinalityForward]_vars
<1>1. TreeInv /\ TreeInv' /\ [Next]_vars => FinalityForward
  BY FinalStepsForward DEF FinalityForward
<1> QED BY <1>1, TreeCorrect, PTL DEF Spec

\* The depth of an entry below a tip is the weight the tip adds to it.
DepthCompletesWeight ==
    \A t \in Signed : \A f \in Ancestry(t) :
        /\ Weight(t) \in Nat /\ Weight(f) \in Nat /\ Depth(f, t) \in Nat
        /\ Weight(t) = Weight(f) + Depth(f, t)

\* The weight of a tip is that of an entry above it and of what buries the entry.
LEMMA DepthCompletes == TreeInv => DepthCompletesWeight
<1> SUFFICES ASSUME TreeInv, NEW t \in Signed, NEW f \in Ancestry(t)
             PROVE  /\ Weight(t) \in Nat /\ Weight(f) \in Nat /\ Depth(f, t) \in Nat
                    /\ Weight(t) = Weight(f) + Depth(f, t)
  BY DEF DepthCompletesWeight
<1> DEFINE G(h) == {a \in Ancestry(h) : IsCapabilityGated(a)}
           D == {a \in Ancestry(t) : IsCapabilityGated(a) /\ f \in Ancestry(a) \ {a}}
<1>1. f \in Signed /\ Ancestry(f) \subseteq Ancestry(t)
  BY DEF TreeInv, PathsNest
<1>2. IsFiniteSet(Ancestry(t)) /\ Weight(t) \in Nat /\ Weight(f) \in Nat
  BY <1>1, WeightType
<1>3. IsFiniteSet(D) /\ IsFiniteSet(G(f))
  BY <1>1, <1>2, FS_Subset
<1>4. G(t) = G(f) \cup D
  <2>1. \A a \in Ancestry(t) : a \in Ancestry(f) \/ f \in Ancestry(a) \ {a}
    BY <1>1 DEF TreeInv, PathsNest
  <2> QED BY <1>1, <2>1
<1>5. G(f) \cap D = {}
  BY <1>1 DEF TreeInv, PathsNest
<1>6. Cardinality(G(t)) = Cardinality(G(f)) + Cardinality(D) - 0
  <2> HIDE DEF G, D
  <2> QED BY <1>3, <1>4, <1>5, FS_Union, FS_EmptySet
<1>7. Cardinality(D) \in Nat
  BY <1>3, FS_CardinalityType
<1> QED BY <1>2, <1>6, <1>7 DEF Weight, Depth

\* A path that extends another is at least as heavy.
HeavierBelow == \A t \in Signed : \A f \in Ancestry(t) :
    Weight(f) \in Nat /\ Weight(t) \in Nat /\ Weight(f) <= Weight(t)

\* Weight never falls on the way down a branch.
LEMMA HeavierBelowHolds == TreeInv => HeavierBelow
BY DepthCompletes DEF DepthCompletesWeight, HeavierBelow

\* No tip below the start outweighs the canonical one.
TipIsHeaviest == \A n \in Node : held[n] # {} =>
    \A u \in Tips(held[n], Start(n)) : Weight(u) <= Weight(CanonicalTip(n))

\* No tip through the start outweighs the canonical one.
LEMMA TipIsHeaviestHolds == TreeInv => TipIsHeaviest
<1> SUFFICES ASSUME TreeInv, NEW n \in Node, held[n] # {}, NEW u \in Tips(held[n], Start(n))
             PROVE  Weight(u) <= Weight(CanonicalTip(n))
  BY DEF TipIsHeaviest
<1>1. /\ IsBest(CanonicalTip(n), Tips(held[n], Start(n)))
      /\ Tips(held[n], Start(n)) \subseteq Signed
  BY CanonicalTipHolds DEF CanonicalTipIsBest, TreeInv, TypeOK
<1>2. Weight(u) \in Nat /\ Weight(CanonicalTip(n)) \in Nat
  BY <1>1, WeightType DEF IsBest
<1>3. u # CanonicalTip(n) => Beats(CanonicalTip(n), u)
  BY <1>1 DEF IsBest
<1> QED BY <1>2, <1>3 DEF Beats

\* While the finalized point of a replica stays, its canonical chain never loses
\* weight: whatever arrives, some tip lies below the old one.
LEMMA ChainGainsWeight ==
    ASSUME TreeInv, TreeInv', NEW n \in Node, finalized'[n] = finalized[n],
           finalized[n] # Nil, held[n] \subseteq held'[n],
           \A x \in Signed : x \in Signed' /\ entry'[x] = entry[x]
    PROVE  Weight(CanonicalTip(n)) <= Weight(CanonicalTip(n))'
<1>0. PICK t \in held[n] : t = CanonicalTip(n)
  BY ChainHeld DEF TreeInv, FinalHeld
<1>1. CanonicalTipIsBest' /\ TipIsHeaviest' /\ TipsBelow' /\ HeavierBelow'
  BY CanonicalTipHolds, TipIsHeaviestHolds, TipsBelowHold, HeavierBelowHolds, PTL
<1>2. /\ held[n] # {} /\ Start(n) = finalized[n] /\ held'[n] # {}
      /\ t \in Signed /\ finalized[n] \in Ancestry(t)
  BY <1>0, ChainHeld DEF TreeInv, FinalHeld, Start, TypeOK
<1>3. PICK u \in Heads(held[n])' : t \in Ancestry(u)'
  BY <1>1, <1>2 DEF TipsBelow
<1>4. Start(n)' = finalized[n]
  BY <1>2 DEF Start
<1>5. u \in Signed' /\ finalized[n] \in Ancestry(u)'
  <2>1. u \in Signed'
    BY DEF Heads, TreeInv, TypeOK
  <2>2. Ancestry(t)' = Ancestry(t)
    BY <1>2 DEF Ancestry
  <2> QED BY <2>1, <2>2, <1>2, <1>3, SMTT(40) DEF TreeInv, PathsNest
<1>6. u \in Tips(held[n], Start(n))'
  BY <1>4, <1>5 DEF Tips
<1>7. Weight(t) <= Weight(u)'
  <2>1. \A a \in Ancestry(t) : entry'[a] = entry[a]
    BY <1>2 DEF TreeInv, PathsNest
  <2>2. Ancestry(t)' = Ancestry(t)
    BY <1>2 DEF Ancestry
  <2>3. {a \in Ancestry(t)' : IsCapabilityGated(a)'} = {a \in Ancestry(t) : IsCapabilityGated(a)}
    BY <2>1, <2>2 DEF IsCapabilityGated
  <2> QED BY <2>2, <2>3, <1>1, <1>3, <1>5 DEF HeavierBelow, Weight
<1>8. Weight(u)' <= Weight(CanonicalTip(n))'
  BY <1>1, <1>2, <1>6 DEF TipIsHeaviest
<1>9. CanonicalTip(n)' \in Signed'
  BY <1>1, <1>2 DEF CanonicalTipIsBest, IsBest, TreeInv, TypeOK
<1> QED
  <2>1. Weight(t) \in Nat
    BY <1>2, WeightType
  <2>2. Weight(u)' \in Nat /\ Weight(CanonicalTip(n))' \in Nat
    BY <1>1, <1>5, <1>9 DEF HeavierBelow, TreeInv, PathsNest
  <2> QED BY <1>0, <1>7, <1>8, <2>1, <2>2

\* No step takes an entry away from anybody, or changes one.
LEMMA LogGrows ==
    ASSUME TreeInv, [Next]_vars
    PROVE  /\ \A x \in Signed : x \in Signed' /\ entry'[x] = entry[x]
           /\ \A n \in Node : held[n] \subseteq held'[n]
<1>1. held \in [Node -> SUBSET Signed]
  BY DEF TreeInv, TypeOK
<1>2. ASSUME NEW n \in Node, NEW h \in Hash \ Signed, NEW p, NEW kind, NEW time,
             NEW replays, NEW fin, Sign(n, h, p, kind, time, replays, fin)
      PROVE  /\ \A x \in Signed : x \in Signed' /\ entry'[x] = entry[x]
             /\ \A m \in Node : held[m] \subseteq held'[m]
  BY <1>1, <1>2, SignKeeps, SMTT(40) DEF TreeInv
<1>3. ASSUME NEW n \in Node, InsertGenesis(n) \/ InsertOwn(n)
      PROVE  /\ \A x \in Signed : x \in Signed' /\ entry'[x] = entry[x]
             /\ \A m \in Node : held[m] \subseteq held'[m]
  BY <1>2, <1>3 DEF InsertGenesis, InsertOwn
<1>4. ASSUME NEW n \in Node, InsertSynced(n) \/ Reconcile(n)
      PROVE  /\ \A x \in Signed : x \in Signed' /\ entry'[x] = entry[x]
             /\ \A m \in Node : held[m] \subseteq held'[m]
  BY <1>1, <1>4 DEF InsertSynced, Reconcile, Signed
<1>5. CASE UNCHANGED vars
  BY <1>5 DEF vars, Signed
<1> QED BY <1>3, <1>4, <1>5 DEF Next

\* What is final for a replica is final for it ever after.
LEMMA FinalForEver ==
    ASSUME TreeInv, TreeInv', [Next]_vars, NEW n \in Node, NEW h, IsFinal(n, h)
    PROVE  IsFinal(n, h)'
<1>1. finalized'[n] # Nil /\ finalized[n] \in Signed
  BY FinalStepsForward DEF IsFinal, TreeInv, TypeOK
<1>2. h \in entry'[finalized[n]].anc
  BY <1>1, LogGrows DEF IsFinal, Ancestry
<1>3. finalized'[n] \in Signed' /\ finalized[n] \in entry'[finalized'[n]].anc
  BY <1>1, FinalStepsForward DEF IsFinal, TreeInv, TypeOK
<1> QED BY <1>1, <1>2, <1>3 DEF IsFinal, TreeInv, PathsNest, Ancestry

\* The weight of an entry is fixed when it is signed.
LEMMA WeightIsFixed ==
    ASSUME TreeInv, [Next]_vars, NEW h \in Signed
    PROVE  Weight(h)' = Weight(h)
<1>1. \A a \in Ancestry(h) : entry'[a] = entry[a]
  BY LogGrows DEF TreeInv, PathsNest
<1>2. Ancestry(h)' = Ancestry(h)
  BY LogGrows DEF Ancestry
<1>3. {a \in Ancestry(h)' : IsCapabilityGated(a)'} = {a \in Ancestry(h) : IsCapabilityGated(a)}
  BY <1>1, <1>2 DEF IsCapabilityGated
<1> QED BY <1>3 DEF Weight

\* Making an entry of the canonical chain final changes where fork choice starts
\* and not where it ends.
LEMMA ReconcileKeepsTip ==
    ASSUME TreeInv, TreeInv', NEW n \in Node, Reconcile(n)
    PROVE  CanonicalTip(n)' = CanonicalTip(n)
<1>1. PICK h \in CanonicalChain(n) : /\ finalized[n] # Nil => h \notin Ancestry(finalized[n])
                                     /\ finalized' = [finalized EXCEPT ![n] = h]
  BY DEF Reconcile
<1>2. held[n] # {} /\ UNCHANGED <<entry, held>>
  BY DEF Reconcile
<1>3. PICK t \in held[n] : t = CanonicalTip(n)
  BY <1>2, ChainHeld
<1>4. t \in Signed /\ h \in Ancestry(t) /\ Start(n) \in Ancestry(t) /\ h \in Signed
  BY <1>2, <1>3, ChainHeld DEF TreeInv, TypeOK, PathsNest
<1>5. Start(n) \in Ancestry(h)
  <2>1. CASE finalized[n] = Nil
    BY <2>1, <1>2, <1>4, CanonicalTipHolds DEF CanonicalTipIsBest
  <2>2. CASE finalized[n] # Nil
    BY <2>2, <1>1, <1>4 DEF Start, TreeInv, PathsNest
  <2> QED BY <2>1, <2>2
<1>6. Start(n)' = h
  BY <1>1, <1>4, NilAssumption DEF Start, TreeInv, TypeOK
<1>7. Tips(held[n], h) \subseteq Tips(held[n], Start(n)) /\ Tips(held[n], h) \subseteq Signed
  BY <1>5 DEF Tips, Heads, TreeInv, TypeOK, PathsNest
<1>8. IsBest(t, Tips(held[n], h))
  <2>1. IsBest(t, Tips(held[n], Start(n)))
    BY <1>2, <1>3, CanonicalTipHolds DEF CanonicalTipIsBest
  <2> QED BY <2>1, <1>4, <1>7 DEF IsBest, Tips
<1>9. PICK u \in held[n] : u = CanonicalTip(n)'
  <2>1. CanonicalTipIsBest'
    BY CanonicalTipHolds, PTL
  <2> QED BY <2>1, <1>2 DEF CanonicalTipIsBest, IsBest
<1>10. IsBest(u, Tips(held[n], h))
  <2>1. CanonicalTipIsBest'
    BY CanonicalTipHolds, PTL
  <2>2. IsBest(CanonicalTip(n), Tips(held[n], Start(n)))'
    BY <2>1, <1>2 DEF CanonicalTipIsBest
  <2> QED BY <2>2, <1>2, <1>6, <1>9, SMTT(40) DEF IsBest, Tips, Heads, Parent, Ancestry,
             Beats, Weight, IsCapabilityGated
<1>11. u = t
  BY <1>7, <1>8, <1>10, BestUnique
<1> QED BY <1>3, <1>9, <1>11

\* No operation of the log digs a finalized entry up again.
LEMMA BuriedNext ==
    TreeInv /\ TreeInv' /\ FinalStaysBuried /\ [Next]_vars => FinalStaysBuried'
<1> SUFFICES ASSUME TreeInv, TreeInv', FinalStaysBuried, [Next]_vars,
                    NEW n \in Node, finalized'[n] # Nil
             PROVE  \E p \in Params : Depth(finalized[n], CanonicalTip(n))' >= p.k
  BY DEF FinalStaysBuried
<1>1. CASE finalized'[n] = finalized[n]
  <2>1. PICK f \in held[n] : f = finalized[n]
    BY <1>1 DEF TreeInv, FinalHeld
  <2>2. PICK t \in held[n] : t = CanonicalTip(n)
    BY <2>1, ChainHeld
  <2>3. PICK p \in Params : Depth(f, t) >= p.k
    BY <1>1, <2>1, <2>2 DEF FinalStaysBuried
  <2>4. f \in Signed /\ t \in Signed /\ f \in Ancestry(t)
    BY <1>1, <2>1, <2>2, ChainHeld DEF Start, TreeInv, TypeOK
  <2>5. /\ Weight(t) = Weight(f) + Depth(f, t)
        /\ Weight(t) \in Nat /\ Weight(f) \in Nat /\ Depth(f, t) \in Nat
    BY <2>4, DepthCompletes DEF DepthCompletesWeight
  <2>6. PICK u \in held'[n] : u = CanonicalTip(n)' /\ f \in Ancestry(u)'
    <3>1. CanonicalTipIsBest'
      BY CanonicalTipHolds, PTL
    <3>2. f \in held'[n]
      BY <2>1, LogGrows
    <3>3. IsBest(CanonicalTip(n), Tips(held[n], Start(n)))'
      BY <3>1, <3>2 DEF CanonicalTipIsBest
    <3>4. Start(n)' = f
      BY <1>1, <2>1 DEF Start
    <3> QED BY <3>3, <3>4 DEF IsBest, Tips, Heads
  <2>7. u \in Signed'
    BY DEF TreeInv, TypeOK
  <2>8. /\ Weight(u)' = Weight(f)' + Depth(f, u)'
        /\ Weight(u)' \in Nat /\ Weight(f)' \in Nat /\ Depth(f, u)' \in Nat
    <3>1. DepthCompletesWeight'
      BY DepthCompletes, PTL
    <3> QED BY <3>1, <2>6, <2>7 DEF DepthCompletesWeight
  <2>9. Weight(f)' = Weight(f)
    BY <2>4, WeightIsFixed
  <2>10. Weight(t) <= Weight(u)'
    <3>1. Weight(CanonicalTip(n)) <= Weight(CanonicalTip(n))'
      BY <1>1, LogGrows, ChainGainsWeight
    <3> QED BY <3>1, <2>2, <2>6 DEF Weight, Ancestry, IsCapabilityGated
  <2>11. p.k \in Nat
    BY ParamsAssumption DEF FinalityParams
  <2>12. Depth(f, u)' >= p.k
    BY <2>3, <2>5, <2>8, <2>9, <2>10, <2>11
  <2> QED BY <1>1, <2>1, <2>6, <2>12 DEF Depth, Ancestry, IsCapabilityGated
<1>2. CASE finalized'[n] # finalized[n]
  <2>1. Reconcile(n)
    <3>1. PICK m \in Node : \/ InsertGenesis(m) \/ InsertOwn(m)
                            \/ InsertSynced(m) \/ Reconcile(m)
      BY <1>2 DEF Next, vars
    <3>2. Reconcile(m)
      BY <3>1, <1>2 DEF InsertGenesis, InsertOwn, InsertSynced
    <3> QED BY <3>2, <1>2 DEF Reconcile, TreeInv, TypeOK
  <2>2. PICK now \in Time, h \in CanonicalChain(n) :
           /\ NewlyFinal(h, CanonicalTip(n), now)
           /\ finalized' = [finalized EXCEPT ![n] = h]
    BY <2>1 DEF Reconcile
  <2>3. PICK t \in held[n] : t = CanonicalTip(n)
    BY <2>1, ChainHeld DEF Reconcile
  <2>4. Depth(h, t) >= entry[t].fin.k
    BY <2>2, <2>3 DEF NewlyFinal, Finalizable, MeetsBoth
  <2>5. entry[t].fin \in Params
    <3>1. entry[t] \in EntryType
      BY DEF TreeInv, TypeOK
    <3> QED BY <3>1 DEF EntryType
  <2>6. CanonicalTip(n)' = t /\ finalized'[n] = h
    BY <2>1, <2>2, <2>3, ReconcileKeepsTip DEF TreeInv, TypeOK
  <2>7. Depth(h, t)' = Depth(h, t)
    BY <2>1 DEF Reconcile, Depth, Ancestry, IsCapabilityGated
  <2>8. Depth(h, t)' >= entry[t].fin.k
    BY <2>4, <2>7
  <2>9. Depth(finalized[n], CanonicalTip(n))' = Depth(h, t)'
    BY <2>6 DEF Depth, Ancestry, IsCapabilityGated
  <2> QED BY <2>5, <2>8, <2>9
<1> QED BY <1>1, <1>2

\* A finalized entry stays buried under at least as many capability-gated actions
\* as some policy demands, on whichever branch fork choice later prefers.
THEOREM FinalBuriedForever == Spec => []FinalStaysBuried
<1>1. Init => FinalStaysBuried
  BY DEF Init, FinalStaysBuried
<1> QED BY <1>1, BuriedNext, TreeCorrect, PTL DEF Spec

\* What a replica has made final stays on its chain and buried, and finality
\* only moves on, for any replicas, entries, clocks and policies.
THEOREM FinalForGood == Spec => FinalityIsForGood
BY FinalCannotBeDisplaced, FinalBuriedForever, FinalityOnlyForward, PTL
   DEF FinalityIsForGood

----------------------------------------------------------------------------
\* Agreement

\* Replicas with the same entries follow the same chain unless one of them has
\* finalized an entry the other has given up.
THEOREM OnlyFinalityDivides == Spec => []DisagreementIsFinality
<1>1. TreeInv => DisagreementIsFinality
  <2> SUFFICES ASSUME TreeInv, NEW m \in Node, NEW n \in Node, held[m] = held[n],
                      finalized[m] # Nil => finalized[m] \in CanonicalChain(n),
                      finalized[n] # Nil => finalized[n] \in CanonicalChain(m)
               PROVE  CanonicalChain(m) = CanonicalChain(n)
    BY DEF DisagreementIsFinality
  <2>1. CASE held[m] = {}
    BY <2>1 DEF CanonicalChain
  <2>2. CASE held[m] # {}
    <3>1. /\ IsBest(CanonicalTip(m), Tips(held[n], Start(m)))
          /\ IsBest(CanonicalTip(n), Tips(held[n], Start(n)))
      BY <2>2, CanonicalTipHolds DEF CanonicalTipIsBest
    <3>2. /\ CanonicalTip(m) \in Signed /\ CanonicalTip(n) \in Signed
          /\ CanonicalChain(m) = Ancestry(CanonicalTip(m))
          /\ CanonicalChain(n) = Ancestry(CanonicalTip(n))
      BY <2>2, ChainHeld DEF TreeInv, TypeOK
    <3>3. Start(m) \in Ancestry(CanonicalTip(n)) /\ Start(n) \in Ancestry(CanonicalTip(m))
      BY <2>2, <3>2, CanonicalTipHolds DEF CanonicalTipIsBest, Start
    <3>4. /\ CanonicalTip(n) \in Tips(held[n], Start(m))
          /\ CanonicalTip(m) \in Tips(held[n], Start(n))
      BY <3>1, <3>3 DEF IsBest, Tips
    <3>5. CanonicalTip(m) # CanonicalTip(n) =>
             Beats(CanonicalTip(m), CanonicalTip(n)) /\ Beats(CanonicalTip(n), CanonicalTip(m))
      BY <3>1, <3>4, SMTT(40) DEF IsBest
    <3>6. CanonicalTip(m) = CanonicalTip(n)
      <4>1. CanonicalTip(m) \in Nat /\ CanonicalTip(n) \in Nat
        BY <3>2, HashAssumption DEF TreeInv, TypeOK
      <4>2. Weight(CanonicalTip(m)) \in Nat /\ Weight(CanonicalTip(n)) \in Nat
        BY <3>2, WeightType
      <4> QED BY <3>5, <4>1, <4>2 DEF Beats
    <3> QED BY <3>2, <3>6
  <2> QED BY <2>1, <2>2
<1> QED BY <1>1, TreeCorrect, PTL
=============================================================================

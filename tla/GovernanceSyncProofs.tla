------------------------ MODULE GovernanceSyncProofs ------------------------
(***************************************************************************)
(* Proofs about GovernanceSync, for every set of nodes, hashes and bodies, *)
(* every response limit and any number of lost connections.                *)
(*                                                                         *)
(* The log below is the one of GovernanceLogProofs, with nothing           *)
(* finalized; its invariant, TreeInv, carries over step by step.           *)
(***************************************************************************)
EXTENDS GovernanceSync, FiniteSetTheorems, WellFoundedInduction, TLAPS

\* What the lemmas about insert and ancestors_first need to know of the log.
Tree ==
    /\ IsFiniteSet(Log!Signed)
    /\ held \in [Node -> SUBSET Log!Signed]
    /\ \A n \in Node : \A h \in held[n] : Log!Ancestry(h) \subseteq held[n]
    /\ \A h \in Log!Signed :
          /\ h \in Nat /\ h # Nil
          /\ h \in Log!Ancestry(h) /\ Log!Ancestry(h) \subseteq Log!Signed
          /\ \A a \in Log!Ancestry(h) : Log!Ancestry(a) \subseteq Log!Ancestry(h)
          /\ \A a \in Log!Ancestry(h) : h \in Log!Ancestry(a) => a = h
          /\ IF Log!Parent(h) = Nil THEN Log!Ancestry(h) = {h}
             ELSE /\ Log!Parent(h) \in Log!Signed
                  /\ Log!Parent(h) # h
                  /\ Log!Ancestry(h) = Log!Ancestry(Log!Parent(h)) \cup {h}

----------------------------------------------------------------------------
\* insert, one entry after another

\* Induction up to n, about a set.
LEMMA UpTo ==
    ASSUME NEW n \in Nat, NEW T, 0 \in T, \A i \in 1 .. n : i - 1 \in T => i \in T
    PROVE  \A i \in 0 .. n : i \in T
<1> SUFFICES ASSUME NEW k \in 0 .. n, k \notin T PROVE FALSE
  OBVIOUS
<1> DEFINE U == {i \in 0 .. n : i \notin T}
<1>1. U \subseteq Nat /\ U # {}
  OBVIOUS
<1> HIDE DEF U
<1>2. PICK m \in U : \A x \in U : ~(x < m)
  <2>1. PICK m \in U : \A x \in U : ~(<<x, m>> \in OpToRel(<, Nat))
    BY <1>1, NatLessThanWellFounded, WFMin
  <2> QED BY <1>1, <2>1 DEF OpToRel
<1>3. m \in 0 .. n /\ m \notin T
  BY DEF U
<1>4. m # 0 /\ m - 1 \in 0 .. n /\ m - 1 < m
  BY <1>3
<1>5. m - 1 \in T
  BY <1>2, <1>4 DEF U
<1> QED BY <1>3, <1>4, <1>5

\* The loop runs: there are logs between the first and the last.
LEMMA InsertAllRuns ==
    ASSUME NEW E, NEW S, NEW s \in Seq(S)
    PROVE  \E f : /\ f[0] = E
                  /\ \A i \in 1 .. Len(s) : f[i] = Inserted(f[i - 1], s[i])
                  /\ InsertAll(E, s) = f[Len(s)]
<1> DEFINE n == Len(s)
           Loop(g, k) == g = [i \in 0 .. k |-> IF i = 0 THEN E ELSE Inserted(g[i - 1], s[i])]
           T == {k \in 0 .. n : \E g : Loop(g, k)}
<1>1. n \in Nat
  OBVIOUS
<1> HIDE DEF n
<1>2. 0 \in T
  <2> DEFINE g == [i \in 0 .. 0 |-> E]
  <2>1. Loop(g, 0)
    OBVIOUS
  <2> HIDE DEF g
  <2>2. \E k : Loop(k, 0)
    BY <2>1
  <2> QED BY <1>1, <2>2
<1>3. ASSUME NEW i \in 1 .. n, i - 1 \in T PROVE i \in T
  <2>1. PICK g : Loop(g, i - 1)
    BY <1>3
  <2> DEFINE h == [j \in 0 .. i |-> IF j = i THEN Inserted(g[i - 1], s[i]) ELSE g[j]]
  <2>2. ASSUME NEW j \in 0 .. i PROVE h[j] = IF j = 0 THEN E ELSE Inserted(h[j - 1], s[j])
    <3>1. CASE j = i
      <4>1. i - 1 \in 0 .. i /\ i - 1 # i /\ i # 0
        BY <1>1
      <4> QED BY <3>1, <4>1
    <3>2. CASE j # i
      <4>1. j \in 0 .. i - 1 /\ h[j] = g[j]
        BY <1>1, <3>2
      <4>2. g[j] = IF j = 0 THEN E ELSE Inserted(g[j - 1], s[j])
        BY <2>1, <4>1
      <4>3. j # 0 => j - 1 \in 0 .. i /\ j - 1 # i /\ h[j - 1] = g[j - 1]
        BY <1>1, <4>1
      <4> HIDE DEF h
      <4> QED BY <4>1, <4>2, <4>3
    <3> QED BY <3>1, <3>2
  <2>3. h = [j \in 0 .. i |-> h[j]]
    OBVIOUS
  <2> HIDE DEF h
  <2>4. Loop(h, i)
    BY <2>2, <2>3
  <2> QED BY <1>1, <2>4
<1>4. n \in T
  <2> HIDE DEF T
  <2>1. \A i \in 0 .. n : i \in T
    BY <1>1, <1>2, <1>3, UpTo
  <2> QED BY <1>1, <2>1
<1> DEFINE f == CHOOSE g : Loop(g, n)
<1>5. Loop(f, n)
  BY <1>4
<1>6. InsertAll(E, s) = f[n]
  BY DEF InsertAll, n
<1> HIDE DEF f
<1>7. \A i \in 0 .. n : f[i] = IF i = 0 THEN E ELSE Inserted(f[i - 1], s[i])
  BY <1>5
<1>8. f[0] = E /\ \A i \in 1 .. n : f[i] = Inserted(f[i - 1], s[i])
  BY <1>1, <1>7
<1> QED BY <1>6, <1>8 DEF n

\* A log closed under ancestry.
Closed(E) == \A h \in E : Log!Ancestry(h) \subseteq E

\* The entries of s can be inserted into E in order.
Feeds(E, s) ==
    \A i \in 1 .. Len(s) : \/ Log!Parent(s[i]) \in E \cup {Nil}
                           \/ \E j \in 1 .. i - 1 : Log!Parent(s[i]) = s[j]

\* Inserting one entry keeps the log closed.
LEMMA InsertedCloses ==
    ASSUME Tree, NEW E, E \subseteq Log!Signed, Closed(E), NEW h \in Log!Signed
    PROVE  /\ E \subseteq Inserted(E, h)
           /\ Inserted(E, h) \subseteq Log!Signed
           /\ Closed(Inserted(E, h))
<1>1. E \subseteq Inserted(E, h) /\ Inserted(E, h) \subseteq Log!Signed
  BY DEF Inserted
<1>2. CASE Log!Parent(h) = Nil
  <2>1. Log!Ancestry(h) = {h}
    BY <1>2 DEF Tree
  <2> QED BY <1>1, <2>1 DEF Closed, Inserted
<1>3. CASE Log!Parent(h) # Nil
  <2>1. Log!Ancestry(h) = Log!Ancestry(Log!Parent(h)) \cup {h}
    BY <1>3 DEF Tree
  <2> QED BY <1>1, <1>3, <2>1 DEF Closed, Inserted
<1> QED BY <1>2, <1>3

\* The handler's loop only adds, keeps the log closed, and takes all of s when
\* s comes in an order the log can take.
LEMMA InsertAllFacts ==
    ASSUME Tree, NEW E, E \subseteq Log!Signed, Closed(E), NEW s \in Seq(Log!Signed)
    PROVE  /\ E \subseteq InsertAll(E, s)
           /\ InsertAll(E, s) \subseteq Log!Signed
           /\ Closed(InsertAll(E, s))
           /\ Feeds(E, s) => \A i \in 1 .. Len(s) : s[i] \in InsertAll(E, s)
<1>1. PICK f : /\ f[0] = E
               /\ \A i \in 1 .. Len(s) : f[i] = Inserted(f[i - 1], s[i])
               /\ InsertAll(E, s) = f[Len(s)]
  BY InsertAllRuns
<1> DEFINE n == Len(s)
           T == {i \in 0 .. n : /\ E \subseteq f[i] /\ f[i] \subseteq Log!Signed /\ Closed(f[i])
                                /\ Feeds(E, s) => \A j \in 1 .. i : s[j] \in f[i]}
<1>2. n \in Nat /\ \A i \in 1 .. n : s[i] \in Log!Signed
  OBVIOUS
<1> HIDE DEF n
<1>3. 0 \in T
  BY <1>1, <1>2
<1>4. ASSUME NEW i \in 1 .. n, i - 1 \in T PROVE i \in T
  <2> DEFINE F == f[i - 1]
             G == f[i]
  <2>1. /\ E \subseteq F /\ F \subseteq Log!Signed /\ Closed(F)
        /\ Feeds(E, s) => \A j \in 1 .. i - 1 : s[j] \in F
    BY <1>4
  <2>2. G = Inserted(F, s[i]) /\ s[i] \in Log!Signed
    BY <1>1, <1>2 DEF n
  <2> HIDE DEF F, G
  <2>3. F \subseteq G /\ G \subseteq Log!Signed /\ Closed(G)
    BY <2>1, <2>2, InsertedCloses
  <2>4. ASSUME Feeds(E, s) PROVE \A j \in 1 .. i : s[j] \in G
    <3>1. \A j \in 1 .. i - 1 : s[j] \in F
      BY <2>1, <2>4
    <3>2. Log!Parent(s[i]) \in F \cup {Nil}
      BY <2>1, <2>4, <3>1 DEF Feeds, n
    <3>3. s[i] \in G
      BY <2>2, <3>2 DEF Inserted
    <3>4. \A j \in 1 .. i : j = i \/ j \in 1 .. i - 1
      BY <1>2
    <3> QED BY <2>3, <3>1, <3>3, <3>4
  <2>5. /\ E \subseteq f[i] /\ f[i] \subseteq Log!Signed /\ Closed(f[i])
        /\ Feeds(E, s) => \A j \in 1 .. i : s[j] \in f[i]
    BY <2>1, <2>3, <2>4 DEF G
  <2> QED BY <1>2, <2>5
<1>5. n \in T
  <2> HIDE DEF T
  <2>1. \A i \in 0 .. n : i \in T
    BY <1>2, <1>3, <1>4, UpTo
  <2> QED BY <1>2, <2>1
<1> QED BY <1>1, <1>5 DEF n

----------------------------------------------------------------------------
\* ancestors_first

\* An entry lies deeper than every other on the path to it.
LEMMA AncestorsAreBefore ==
    ASSUME Tree, NEW h \in Log!Signed, NEW a \in Log!Ancestry(h), a # h
    PROVE  Before(a, h)
<1> DEFINE A == Log!Ancestry(a)
           H == Log!Ancestry(h)
<1>1. A \subseteq H /\ h \in H /\ h \notin A /\ IsFiniteSet(H)
  BY FS_Subset DEF Tree
<1> HIDE DEF A, H
<1>2. IsFiniteSet(A) /\ Cardinality(A) \in Nat /\ Cardinality(H) \in Nat
  BY <1>1, FS_Subset, FS_CardinalityType
<1>3. Cardinality(A) < Cardinality(H)
  <2>1. A # H /\ Cardinality(A) <= Cardinality(H) /\ (Cardinality(A) = Cardinality(H) => A = H)
    BY <1>1, FS_Subset
  <2> QED BY <1>2, <2>1
<1> QED BY <1>3 DEF Before, A, H

\* Before orders the entries of the log.
LEMMA BeforeOrders ==
    ASSUME Tree
    PROVE  /\ \A g \in Log!Signed : ~Before(g, g)
           /\ \A g, h \in Log!Signed : g = h \/ Before(g, h) \/ Before(h, g)
           /\ \A f, g, h \in Log!Signed : Before(f, g) /\ Before(g, h) => Before(f, h)
<1>1. ASSUME NEW h \in Log!Signed PROVE h \in Nat /\ Cardinality(Log!Ancestry(h)) \in Nat
  BY FS_Subset, FS_CardinalityType DEF Tree
<1> QED BY <1>1 DEF Before

\* The number of entries of S before h, and that they fill 0 .. |S| - 1.
Rank(S, h) == Cardinality({g \in S : Before(g, h)})

LEMMA RanksFill ==
    ASSUME Tree, NEW S, S \subseteq Log!Signed
    PROVE  /\ Cardinality(S) \in Nat
           /\ \A h \in S : Rank(S, h) \in 0 .. Cardinality(S) - 1
           /\ \A g, h \in S : Before(g, h) => Rank(S, g) < Rank(S, h)
           /\ \A i \in 0 .. Cardinality(S) - 1 : \E h \in S : Rank(S, h) = i
<1> DEFINE n == Cardinality(S)
           B(h) == {g \in S : Before(g, h)}
<1>1. IsFiniteSet(S) /\ n \in Nat
  BY FS_Subset, FS_CardinalityType DEF Tree
<1>2. ASSUME NEW h \in S
      PROVE  IsFiniteSet(B(h)) /\ Rank(S, h) \in Nat /\ Rank(S, h) <= n - 1
  <2> DEFINE C == B(h)
  <2>1. C \subseteq S /\ h \notin C
    BY BeforeOrders
  <2> HIDE DEF C
  <2>2. IsFiniteSet(C) /\ Cardinality(C) \in Nat /\ Cardinality(C) <= n /\ Cardinality(C) # n
    BY <1>1, <2>1, FS_Subset, FS_CardinalityType
  <2>3. Cardinality(C) <= n - 1
    BY <1>1, <2>2
  <2> QED BY <2>2, <2>3 DEF C, Rank
<1>3. ASSUME NEW g \in S, NEW h \in S, Before(g, h) PROVE Rank(S, g) < Rank(S, h)
  <2> DEFINE C == B(g)
             D == B(h)
  <2>1. C \subseteq D /\ g \in D /\ g \notin C
    BY <1>3, BeforeOrders
  <2>2. IsFiniteSet(D) /\ Rank(S, g) \in Nat /\ Rank(S, h) \in Nat
    BY <1>2
  <2>3. Rank(S, g) = Cardinality(C) /\ Rank(S, h) = Cardinality(D)
    BY DEF Rank
  <2> HIDE DEF C, D
  <2>4. Cardinality(C) <= Cardinality(D) /\ Cardinality(C) # Cardinality(D)
    BY <2>1, <2>2, FS_Subset
  <2> QED BY <2>2, <2>3, <2>4
<1>4. \A h \in S : Rank(S, h) \in Nat /\ Rank(S, h) <= n - 1
  BY <1>2
<1> HIDE DEF n
<1>5. \A h \in S : Rank(S, h) \in 0 .. n - 1
  BY <1>1, <1>4
<1>6. \A i \in 0 .. n - 1 : \E h \in S : Rank(S, h) = i
  <2> DEFINE m == n - 1
             I == 0 .. m
             r == [h \in S |-> Rank(S, h)]
  <2>1. IsFiniteSet(I) /\ Cardinality(I) = n
    <3>1. m \in Int /\ 0 \in Int /\ n = IF 0 > m THEN 0 ELSE m - 0 + 1
      BY <1>1
    <3> HIDE DEF m
    <3> QED BY <3>1, FS_Interval
  <2>2. r \in [S -> I]
    BY <1>5
  <2>3. \A g, h \in S : r[g] = r[h] => g = h
    BY <1>3, <1>4, BeforeOrders
  <2> HIDE DEF I, r
  <2>4. r \in Injection(S, I)
    BY <2>2, <2>3 DEF Injection, IsInjective
  <2>5. r \in Surjection(S, I)
    BY <1>1, <2>1, <2>4, FS_Injection DEF n
  <2>6. \A i \in I : \E h \in S : r[h] = i
    BY <2>5 DEF Surjection
  <2> QED BY <2>6 DEF I, r
<1> QED BY <1>1, <1>3, <1>5, <1>6 DEF n

\* Ordered(S) lists S, each entry after those of S on the path to it.
LEMMA OrderedLists ==
    ASSUME Tree, NEW S, S \subseteq Log!Signed
    PROVE  /\ Ordered(S) \in Seq(S)
           /\ \A i \in 1 .. Len(Ordered(S)) :
                 \A p \in S : p \in Log!Ancestry(Ordered(S)[i]) /\ p # Ordered(S)[i]
                                 => \E j \in 1 .. i - 1 : Ordered(S)[j] = p
<1> DEFINE n == Cardinality(S)
           s == Ordered(S)
<1>1. n \in Nat
  BY RanksFill
<1>2. ASSUME NEW i \in 1 .. n PROVE s[i] \in S /\ Rank(S, s[i]) = i - 1
  <2> DEFINE k == i - 1
  <2>1. k \in 0 .. n - 1
    BY <1>1
  <2>2. s[i] = CHOOSE h \in S : Rank(S, h) = k
    BY DEF Ordered, Rank
  <2> HIDE DEF k, s
  <2>3. \E h \in S : Rank(S, h) = k
    BY <2>1, RanksFill
  <2>4. s[i] \in S /\ Rank(S, s[i]) = k
    BY <2>2, <2>3
  <2> QED BY <2>4 DEF k
<1> DEFINE F(i) == CHOOSE h \in S : Cardinality({g \in S : Before(g, h)}) = i - 1
<1>3. s = [i \in 1 .. n |-> F(i)]
  BY DEF Ordered
<1> HIDE DEF F, n, s
<1>4. s \in Seq(S) /\ Len(s) = n
  <2>1. s \in [1 .. n -> S]
    BY <1>2, <1>3
  <2> QED BY <1>1, <2>1
<1>5. ASSUME NEW i \in 1 .. n, NEW p \in S, p \in Log!Ancestry(s[i]), p # s[i]
      PROVE  \E j \in 1 .. i - 1 : s[j] = p
  <2> DEFINE k == Rank(S, p)
             j == k + 1
  <2>1. Before(p, s[i])
    BY <1>2, <1>5, AncestorsAreBefore
  <2>2. k < Rank(S, s[i]) /\ k \in 0 .. n - 1
    BY <1>2, <2>1, RanksFill DEF n
  <2> HIDE DEF k
  <2>3. j \in 1 .. n /\ j \in 1 .. i - 1 /\ j - 1 = k
    BY <1>1, <1>2, <2>2
  <2> HIDE DEF j
  <2>4. s[j] \in S /\ Rank(S, s[j]) = k
    BY <1>2, <2>3
  <2>5. s[j] = p
    <3>1. Rank(S, s[j]) = Rank(S, p) /\ Rank(S, p) \in Nat
      BY <1>1, <2>2, <2>4 DEF k
    <3>2. ~Before(p, s[j]) /\ ~Before(s[j], p)
      BY <2>4, <3>1, RanksFill
    <3> QED BY <2>4, <3>2, BeforeOrders
  <2> QED BY <2>3, <2>5
<1> QED BY <1>4, <1>5 DEF s

\* What a Fetch is answered with can be inserted, in order, into every closed
\* log that holds the requester's tips, wherever the answer is cut.
LEMMA AnswerFeeds ==
    ASSUME Tree, NEW E, E \subseteq Log!Signed, Closed(E),
           NEW R, R \subseteq Log!Signed, Closed(R), NEW wanted, NEW have, have \subseteq R
    PROVE  /\ Truncate(Ordered(Needed(E, wanted, have))) \in Seq(Log!Signed)
           /\ Len(Truncate(Ordered(Needed(E, wanted, have)))) <= MaxEntries
           /\ Feeds(R, Truncate(Ordered(Needed(E, wanted, have))))
<1> DEFINE S == Needed(E, wanted, have)
           s == Ordered(S)
           t == Truncate(s)
<1>1. S \subseteq E
  BY DEF Needed, Closed
<1>2. ASSUME NEW h \in S, Log!Parent(h) # Nil
      PROVE  /\ Log!Parent(h) \in Log!Ancestry(h) /\ Log!Parent(h) # h
             /\ Log!Parent(h) \in R \/ Log!Parent(h) \in S
  <2> DEFINE p == Log!Parent(h)
  <2>1. h \in Log!Signed
    BY <1>1
  <2>2. p \in Log!Signed /\ p # h /\ p \in Log!Ancestry(p) /\ p \in Log!Ancestry(h)
    BY <1>2, <2>1 DEF Tree
  <2>3. PICK w \in wanted \cap E : h \in Log!Ancestry(w)
    BY DEF Needed
  <2>4. p \in Log!Ancestry(w)
    BY <2>2, <2>3 DEF Tree
  <2>5. ASSUME NEW x \in have, p \in AncestryIn(E, x) PROVE p \in R
    <3>1. x \in R /\ x \in Log!Signed
      OBVIOUS
    <3>2. Log!Ancestry(x) \subseteq R
      BY <3>1 DEF Closed
    <3> QED BY <2>5, <3>1, <3>2 DEF AncestryIn
  <2>6. p \in R \/ p \in S
    BY <2>3, <2>4, <2>5 DEF Needed
  <2> QED BY <2>2, <2>6
<1>3. S \subseteq Log!Signed
  BY <1>1
<1> HIDE DEF S
<1>4. /\ s \in Seq(S)
      /\ \A i \in 1 .. Len(s) :
            \A p \in S : p \in Log!Ancestry(s[i]) /\ p # s[i] => \E j \in 1 .. i - 1 : s[j] = p
  BY <1>3, OrderedLists
<1> HIDE DEF s
<1> DEFINE k == IF Len(s) > MaxEntries THEN MaxEntries ELSE Len(s)
<1>5. k \in Nat /\ k <= Len(s) /\ k <= MaxEntries /\ Len(s) \in Nat
  BY <1>4, BoundAssumption
<1>6. t = SubSeq(s, 1, k)
  BY DEF Truncate
<1> HIDE DEF k, t
<1>7. t \in Seq(S) /\ Len(t) = k /\ \A i \in 1 .. k : t[i] = s[i]
  BY <1>4, <1>5, <1>6
<1>8. t \in Seq(Log!Signed)
  BY <1>3, <1>7
<1>9. Feeds(R, t)
  <2> SUFFICES ASSUME NEW i \in 1 .. Len(t), Log!Parent(t[i]) # Nil, Log!Parent(t[i]) \notin R
               PROVE  \E j \in 1 .. i - 1 : Log!Parent(t[i]) = t[j]
    BY DEF Feeds
  <2>1. i \in 1 .. k /\ i \in 1 .. Len(s) /\ t[i] = s[i] /\ s[i] \in S
    BY <1>4, <1>5, <1>7
  <2>2. PICK j \in 1 .. i - 1 : s[j] = Log!Parent(s[i])
    BY <1>2, <1>4, <2>1
  <2>3. j \in 1 .. k
    BY <1>5, <2>1
  <2> QED BY <1>7, <2>1, <2>2, <2>3
<1> QED BY <1>5, <1>7, <1>8, <1>9 DEF S, s, t

----------------------------------------------------------------------------
\* The messages in flight

\* What the receiver of m may count on.  The last line makes NothingRejected
\* inductive: what a message carries fits the log as it is when it arrives.
Sound(m) ==
    /\ m.type \in MessageType
    /\ m.from \in Node /\ m.to \in Node /\ {m.from, m.to} \in link
    /\ m.type = "HeadsResponse" => m.heads \subseteq Log!Signed
    /\ m.type = "FetchRequest" => m.wanted \subseteq Log!Signed /\ m.have \subseteq held[m.from]
    /\ m.type = "EntriesResponse" => /\ m.entries \in Seq(Log!Signed)
                                     /\ Len(m.entries) <= MaxEntries
                                     /\ Feeds(held[m.to], m.entries)

MessagesInv == link \subseteq SUBSET Node /\ \A m \in msgs : Sound(m)

\* Logs grow, and an entry stays as it was signed.
Grows == /\ \A x \in Log!Signed : x \in Log!Signed' /\ entry'[x] = entry[x]
         /\ \A n \in Node : held[n] \subseteq held'[n]

\* A message in flight stays sound while the logs grow and its link lasts.
LEMMA SoundStays ==
    ASSUME Tree, Grows, NEW m, Sound(m), {m.from, m.to} \in link'
    PROVE  Sound(m)'
<1>1. Log!Signed \subseteq Log!Signed'
  BY DEF Grows
<1>2. CASE m.type = "EntriesResponse"
  <2> DEFINE s == m.entries
             R == held[m.to]
             Q == held'[m.to]
  <2>1. s \in Seq(Log!Signed) /\ Len(s) \in Nat /\ Feeds(R, s) /\ m.to \in Node
    BY <1>2 DEF Sound
  <2>2. R \subseteq Q
    BY <2>1 DEF Grows
  <2>3. \A i \in 1 .. Len(s) : s[i] \in Log!Signed
    BY <2>1
  <2>4. \A i \in 1 .. Len(s) : Log!Parent(s[i])' = Log!Parent(s[i])
    BY <2>3 DEF Grows, Log!Parent
  <2>5. s \in Seq(Log!Signed')
    BY <1>1, <2>1
  <2> HIDE DEF s, R, Q
  <2>6. \A i \in 1 .. Len(s) : \/ Log!Parent(s[i])' \in Q \cup {Nil}
                               \/ \E j \in 1 .. i - 1 : Log!Parent(s[i])' = s[j]
    BY <2>1, <2>2, <2>4 DEF Feeds
  <2>7. Feeds(held[m.to], m.entries)'
    BY <2>6 DEF Feeds, Q, s
  <2>8. m.entries \in Seq(Log!Signed')
    BY <2>5 DEF s
  <2> QED BY <1>2, <2>7, <2>8 DEF Sound
<1>3. CASE m.type # "EntriesResponse"
  BY <1>1, <1>3 DEF Sound, Grows
<1> QED BY <1>2, <1>3

\* The step of the log that a step of the protocol makes.
LogStep == \E n \in Node : Log!InsertGenesis(n) \/ Log!InsertOwn(n) \/ Log!InsertSynced(n)

\* Taking in a response inserts a set closed under ancestry, or nothing.
LEMMA HandleEntriesIsInsert ==
    ASSUME Tree, NEW m, Sound(m), m.type = "EntriesResponse", HandleEntries(m)
    PROVE  LogStep \/ UNCHANGED <<entry, held>>
<1> DEFINE n == m.to
           E == held[n]
           A == InsertAll(E, m.entries)
           S == A \ E
<1>1. n \in Node /\ m.entries \in Seq(Log!Signed)
  BY DEF Sound
<1>2. held \in [Node -> SUBSET Log!Signed] /\ E \subseteq Log!Signed /\ Closed(E)
  BY <1>1 DEF Tree, Closed
<1>3. held' = [held EXCEPT ![n] = A] /\ entry' = entry
  BY DEF HandleEntries
<1> HIDE DEF n, E
<1>4. E \subseteq A /\ A \subseteq Log!Signed /\ Closed(A)
  BY <1>1, <1>2, InsertAllFacts
<1> HIDE DEF A
<1>5. CASE S = {}
  <2>1. A = E
    BY <1>4, <1>5
  <2>2. held' = held
    BY <1>1, <1>2, <1>3, <2>1 DEF E
  <2> QED BY <1>3, <2>2
<1>6. CASE S # {}
  <2>1. held' = [held EXCEPT ![n] = held[n] \cup S] /\ S \in SUBSET (Log!Signed \ held[n])
    BY <1>3, <1>4 DEF E
  <2>2. \A h \in S : Log!Ancestry(h) \subseteq held[n] \cup S
    BY <1>4 DEF Closed, E
  <2> HIDE DEF S
  <2>3. Log!InsertSynced(n)
    BY <1>3, <1>6, <2>1, <2>2 DEF Log!InsertSynced, NeverFinalized
  <2> QED BY <1>1, <2>3 DEF LogStep
<1> QED BY <1>5, <1>6

\* Every step of the protocol is a step of the log or leaves the log alone.
LEMMA StepOfLog ==
    ASSUME Tree, MessagesInv, [Next]_vars
    PROVE  LogStep \/ UNCHANGED <<entry, held>>
<1>1. CASE \E n \in Node : AppendEntry(n)
  BY <1>1 DEF AppendEntry, LogStep
<1>2. CASE \E a, b \in Node : Connect(a, b) \/ Disconnect(a, b) \/ SyncWith(a, b)
  BY <1>2 DEF Connect, Disconnect, SyncWith
<1>3. CASE \E m \in msgs : Timeout(m)
  BY <1>3 DEF Timeout
<1>4. CASE \E a, b \in Node, type \in MessageType : Deliver(type, a, b)
  <2>1. PICK a \in Node, b \in Node, type \in MessageType : Deliver(type, a, b)
    BY <1>4
  <2>2. PICK m \in msgs : /\ m.type = type
                          /\ \/ AnswerHeads(m)
                             \/ HandleHeads(m)
                             \/ AnswerFetch(m)
                             \/ type = "EntriesResponse" /\ HandleEntries(m)
    BY <2>1 DEF Deliver, InFlight
  <2>3. Sound(m)
    BY DEF MessagesInv
  <2>4. CASE AnswerHeads(m) \/ HandleHeads(m) \/ AnswerFetch(m)
    BY <2>4 DEF AnswerHeads, HandleHeads, AnswerFetch
  <2>5. CASE type = "EntriesResponse" /\ HandleEntries(m)
    BY <2>2, <2>3, <2>5, HandleEntriesIsInsert
  <2> QED BY <2>2, <2>4, <2>5
<1>5. CASE UNCHANGED vars
  BY <1>5 DEF vars
<1> QED BY <1>1, <1>2, <1>3, <1>4, <1>5 DEF Next

\* What makes a message sound when it is sent.
LEMMA SentHeadsRequest ==
    ASSUME NEW a \in Node, NEW b \in Node, {a, b} \in link'
    PROVE  Sound(HeadsRequest(a, b))'
BY DEF Sound, HeadsRequest, MessageType

LEMMA SentHeadsResponse ==
    ASSUME NEW a \in Node, NEW b \in Node, {a, b} \in link', NEW heads, heads \subseteq Log!Signed'
    PROVE  Sound(HeadsResponse(a, b, heads))'
BY DEF Sound, HeadsResponse, MessageType

LEMMA SentFetchRequest ==
    ASSUME NEW a \in Node, NEW b \in Node, {a, b} \in link',
           NEW wanted, wanted \subseteq Log!Signed', NEW have, have \subseteq held'[a]
    PROVE  Sound(FetchRequest(a, b, wanted, have))'
BY DEF Sound, FetchRequest, MessageType

LEMMA SentEntriesResponse ==
    ASSUME NEW a \in Node, NEW b \in Node, {a, b} \in link',
           NEW entries, entries \in Seq(Log!Signed'), Len(entries) <= MaxEntries,
           (Feeds(held[b], entries))', NEW cut
    PROVE  Sound(EntriesResponse(a, b, entries, cut))'
BY DEF Sound, EntriesResponse, MessageType

\* Every step keeps the messages in flight sound.
LEMMA MessagesNext ==
    ASSUME Tree, Tree', Grows, MessagesInv, [Next]_vars
    PROVE  MessagesInv'
<1>0. \A n \in Node : held[n] \subseteq Log!Signed /\ Closed(held[n])
  BY DEF Tree, Closed
<1> USE DEF MessagesInv
<1>1. ASSUME NEW m \in msgs, link' = link PROVE Sound(m)'
  <2>1. Sound(m) /\ {m.from, m.to} \in link'
    BY <1>1 DEF Sound
  <2> QED BY <2>1, SoundStays
<1>2. ASSUME NEW n \in Node, AppendEntry(n) PROVE MessagesInv'
  BY <1>1, <1>2 DEF AppendEntry
<1>3. ASSUME NEW a \in Node, NEW b \in Node, Connect(a, b) PROVE MessagesInv'
  <2>1. link' = link \cup {{a, b}} /\ link' \subseteq SUBSET Node
    BY <1>3 DEF Connect
  <2>2. ASSUME NEW m \in msgs PROVE Sound(m)'
    <3>1. Sound(m) /\ {m.from, m.to} \in link'
      BY <2>1 DEF Sound
    <3> QED BY <3>1, SoundStays
  <2>3. Sound(HeadsRequest(a, b))' /\ Sound(HeadsRequest(b, a))'
    <3>1. {a, b} \in link' /\ {b, a} \in link'
      BY <2>1
    <3> QED BY <3>1, SentHeadsRequest
  <2> QED BY <1>3, <2>1, <2>2, <2>3 DEF Connect
<1>4. ASSUME NEW a \in Node, NEW b \in Node, Disconnect(a, b) PROVE MessagesInv'
  <2>1. ASSUME NEW m \in msgs' PROVE Sound(m)'
    <3>1. m \in msgs /\ {m.from, m.to} # {a, b}
      BY <1>4 DEF Disconnect
    <3>2. Sound(m) /\ {m.from, m.to} \in link'
      BY <1>4, <3>1 DEF Sound, Disconnect
    <3> QED BY <3>2, SoundStays
  <2>2. link' \subseteq SUBSET Node
    BY <1>4 DEF Disconnect
  <2> QED BY <2>1, <2>2
<1>5. ASSUME NEW a \in Node, NEW b \in Node, SyncWith(a, b) PROVE MessagesInv'
  <2>1. link' = link /\ {a, b} \in link' /\ msgs' = msgs \cup {HeadsRequest(a, b)}
    BY <1>5 DEF SyncWith
  <2>2. Sound(HeadsRequest(a, b))'
    BY <2>1, SentHeadsRequest
  <2> QED BY <1>1, <2>1, <2>2
<1>6. ASSUME NEW m \in msgs, NEW out, Exchange(m, out), link' = link,
             \A x \in out : Sound(x)'
      PROVE  MessagesInv'
  BY <1>1, <1>6 DEF Exchange
<1>7. ASSUME NEW m \in msgs, Timeout(m) PROVE MessagesInv'
  BY <1>6, <1>7 DEF Timeout
<1>8. ASSUME NEW m \in msgs PROVE Sound(m) /\ m.to \in Node /\ m.from \in Node /\ {m.to, m.from} \in link
  <2>1. Sound(m) /\ {m.to, m.from} = {m.from, m.to}
    OBVIOUS
  <2> QED BY <2>1 DEF Sound
<1> HIDE DEF MessagesInv
<1>9. ASSUME NEW m \in msgs, AnswerHeads(m) PROVE MessagesInv'
  <2> DEFINE heads == Log!Heads(held[m.to])
  <2>1. Exchange(m, {HeadsResponse(m.to, m.from, heads)}) /\ link' = link /\ held' = held
    BY <1>9 DEF AnswerHeads
  <2>2. heads \subseteq Log!Signed'
    <3>1. heads \subseteq held[m.to] /\ entry' = entry
      BY <1>9 DEF AnswerHeads, Log!Heads
    <3> QED BY <1>0, <1>8, <3>1 DEF Log!Signed
  <2> HIDE DEF heads
  <2>3. \A x \in {HeadsResponse(m.to, m.from, heads)} : Sound(x)'
    BY <1>8, <2>1, <2>2, SentHeadsResponse
  <2> QED BY <1>6, <2>1, <2>3
<1>10. ASSUME NEW m \in msgs, m.type = "HeadsResponse", HandleHeads(m) PROVE MessagesInv'
  <2> DEFINE have == Log!Heads(held[m.to])
             wanted == m.heads \ held[m.to]
             out == IF wanted = {} THEN {} ELSE {FetchRequest(m.to, m.from, wanted, have)}
  <2>1. Exchange(m, out) /\ link' = link /\ held' = held
    BY <1>10 DEF HandleHeads
  <2>2. have \subseteq held'[m.to]
    BY <2>1 DEF Log!Heads
  <2>3. wanted \subseteq Log!Signed'
    <3>1. m.heads \subseteq Log!Signed /\ entry' = entry
      BY <1>8, <1>10 DEF HandleHeads, Sound
    <3> QED BY <3>1 DEF Log!Signed
  <2> HIDE DEF have, wanted
  <2>4. \A x \in {FetchRequest(m.to, m.from, wanted, have)} : Sound(x)'
    BY <1>8, <2>1, <2>2, <2>3, SentFetchRequest
  <2>5. \A x \in out : Sound(x)'
    BY <2>4
  <2> HIDE DEF out
  <2> QED BY <1>6, <2>1, <2>5
<1>11. ASSUME NEW m \in msgs, m.type = "FetchRequest", AnswerFetch(m) PROVE MessagesInv'
  <2> DEFINE E == held[m.to]
             R == held[m.from]
             needed == Ordered(Needed(E, m.wanted, m.have))
             t == Truncate(needed)
             cut == Len(needed) > MaxEntries
  <2>1. /\ Exchange(m, {EntriesResponse(m.to, m.from, t, cut)})
        /\ link' = link /\ held' = held /\ entry' = entry
    BY <1>11 DEF AnswerFetch
  <2>2. E \subseteq Log!Signed /\ Closed(E) /\ R \subseteq Log!Signed /\ Closed(R) /\ m.have \subseteq R
    <3>1. m.have \subseteq R /\ m.to \in Node /\ m.from \in Node
      BY <1>8, <1>11 DEF Sound
    <3> QED BY <1>0, <3>1
  <2> HIDE DEF E, R
  <2>3. t \in Seq(Log!Signed) /\ Len(t) <= MaxEntries /\ Feeds(R, t)
    BY <2>2, AnswerFeeds
  <2> HIDE DEF t, cut
  <2>4. t \in Seq(Log!Signed')
    BY <2>1, <2>3 DEF Log!Signed
  <2>5. ASSUME NEW b, NEW e, Feeds(held[b], e) PROVE (Feeds(held[b], e))'
    BY <2>1, <2>5 DEF Feeds, Log!Parent
  <2>6. ASSUME NEW a \in Node, NEW b \in Node, {a, b} \in link', NEW e, NEW c,
               e \in Seq(Log!Signed'), Len(e) <= MaxEntries, Feeds(held[b], e)
        PROVE  Sound(EntriesResponse(a, b, e, c))'
    BY <2>5, <2>6, SentEntriesResponse
  <2>7. \A x \in {EntriesResponse(m.to, m.from, t, cut)} : Sound(x)'
    BY <1>8, <2>1, <2>3, <2>4, <2>6 DEF R
  <2> QED BY <1>6, <2>1, <2>7
<1>12. ASSUME NEW m \in msgs, HandleEntries(m) PROVE MessagesInv'
  <2> DEFINE out == IF m.truncated THEN {HeadsRequest(m.to, m.from)} ELSE {}
  <2>1. Exchange(m, out) /\ link' = link
    BY <1>12 DEF HandleEntries
  <2>2. Sound(HeadsRequest(m.to, m.from))'
    BY <1>8, <2>1, SentHeadsRequest
  <2>3. \A x \in out : Sound(x)'
    BY <2>2
  <2> HIDE DEF out
  <2> QED BY <1>6, <2>1, <2>3
<1>13. ASSUME NEW a \in Node, NEW b \in Node, NEW type \in MessageType, Deliver(type, a, b)
       PROVE  MessagesInv'
  <2>1. PICK m \in msgs : /\ m.type = type
                          /\ \/ AnswerHeads(m)
                             \/ type = "HeadsResponse" /\ HandleHeads(m)
                             \/ type = "FetchRequest" /\ AnswerFetch(m)
                             \/ HandleEntries(m)
    BY <1>13 DEF Deliver, InFlight
  <2> QED BY <1>9, <1>10, <1>11, <1>12, <2>1
<1>14. CASE UNCHANGED vars
  BY <1>1, <1>14 DEF vars, MessagesInv
<1> QED BY <1>2, <1>3, <1>4, <1>5, <1>7, <1>13, <1>14 DEF Next

----------------------------------------------------------------------------
\* The log below

LP == INSTANCE GovernanceLogProofs WITH finalized <- NeverFinalized

\* What TreeInv says, in the words of GovernanceSync.
LEMMA TreeFacts ==
    ASSUME LP!TreeInv
    PROVE  Tree
<1>1. LP!Signed = Log!Signed /\ \A h : LP!Ancestry(h) = Log!Ancestry(h) /\ LP!Parent(h) = Log!Parent(h)
  BY DEF LP!Signed, Log!Signed, LP!Ancestry, Log!Ancestry, LP!Parent, Log!Parent
<1>2. IsFiniteSet(Log!Signed)
  BY <1>1 DEF LP!TreeInv, LP!IsFiniteSet, IsFiniteSet
<1>3. LP!TypeOK /\ LP!PathsNest /\ LP!HeldClosed
  BY DEF LP!TreeInv
<1>4. held \in [Node -> SUBSET Log!Signed] /\ Log!Signed \subseteq Hash
  BY <1>1, <1>3 DEF LP!TypeOK
<1>5. ASSUME NEW h \in Log!Signed
      PROVE  /\ h \in Nat /\ h # Nil
             /\ h \in Log!Ancestry(h) /\ Log!Ancestry(h) \subseteq Log!Signed
             /\ \A a \in Log!Ancestry(h) : Log!Ancestry(a) \subseteq Log!Ancestry(h)
             /\ \A a \in Log!Ancestry(h) : h \in Log!Ancestry(a) => a = h
             /\ Log!Parent(h) # h
  BY <1>1, <1>3, <1>4, LogAssumption DEF LP!PathsNest
<1>6. ASSUME NEW h \in Log!Signed
      PROVE  IF Log!Parent(h) = Nil THEN Log!Ancestry(h) = {h}
             ELSE /\ Log!Parent(h) \in Log!Signed
                  /\ Log!Ancestry(h) = Log!Ancestry(Log!Parent(h)) \cup {h}
  BY <1>1, <1>3 DEF LP!TypeOK
<1>7. \A n \in Node : \A h \in held[n] : Log!Ancestry(h) \subseteq held[n]
  BY <1>1, <1>3 DEF LP!HeldClosed
<1> QED BY <1>2, <1>4, <1>5, <1>6, <1>7 DEF Tree

\* A step of the log, as GovernanceLogProofs and as GovernanceSync write it.
LEMMA SameStep ==
    ASSUME LogStep \/ UNCHANGED <<entry, held>>
    PROVE  [LP!Next]_(LP!vars) /\ [Log!Next]_(Log!vars)
<1>1. CASE UNCHANGED <<entry, held>>
  BY <1>1 DEF LP!vars, Log!vars, NeverFinalized
<1>2. CASE LogStep
  <2>1. PICK n \in Node : Log!InsertGenesis(n) \/ Log!InsertOwn(n) \/ Log!InsertSynced(n)
    BY <1>2 DEF LogStep
  <2>2. Log!InsertGenesis(n) => LP!InsertGenesis(n)
    BY DEF Log!InsertGenesis, LP!InsertGenesis, Log!Sign, LP!Sign, Log!NewEntry, LP!NewEntry,
           Log!Signed, LP!Signed, Log!Ancestry, LP!Ancestry
  <2>3. Log!InsertOwn(n) => LP!InsertOwn(n)
    BY DEF Log!InsertOwn, LP!InsertOwn, Log!Sign, LP!Sign, Log!NewEntry, LP!NewEntry,
           Log!Signed, LP!Signed, Log!Ancestry, LP!Ancestry
  <2>4. Log!InsertSynced(n) => LP!InsertSynced(n)
    BY DEF Log!InsertSynced, LP!InsertSynced, Log!Signed, LP!Signed, Log!Ancestry, LP!Ancestry
  <2> QED BY <2>1, <2>2, <2>3, <2>4 DEF LP!Next, Log!Next
<1> QED BY <1>1, <1>2

----------------------------------------------------------------------------
\* The inductive invariant and what follows from it

SyncInv == LP!TreeInv /\ MessagesInv

LEMMA SyncInvInit == Init => SyncInv
<1> SUFFICES ASSUME Init PROVE SyncInv
  OBVIOUS
<1>1. LP!Init
  BY DEF Init, Log!Init, LP!Init
<1>2. LP!TreeInv
  BY <1>1, LP!TreeInvInit, LogAssumption DEF LP!FinalityParams
<1>3. MessagesInv
  BY DEF Init, MessagesInv
<1> QED BY <1>2, <1>3 DEF SyncInv

LEMMA SyncInvNext ==
    ASSUME SyncInv, [Next]_vars
    PROVE  SyncInv' /\ [Log!Next]_(Log!vars)
<1>1. LP!TreeInv /\ MessagesInv /\ Tree
  BY TreeFacts DEF SyncInv
<1>2. [LP!Next]_(LP!vars) /\ [Log!Next]_(Log!vars)
  BY <1>1, StepOfLog, SameStep
<1>3. LP!TreeInv'
  BY <1>1, <1>2, LP!TreeInvNext, LogAssumption DEF LP!FinalityParams
<1>4. Tree'
  BY <1>3, TreeFacts, PTL
<1>5. Grows
  <2>1. /\ \A x \in LP!Signed : x \in LP!Signed' /\ entry'[x] = entry[x]
        /\ \A n \in Node : held[n] \subseteq held'[n]
    BY <1>1, <1>2, LP!LogGrows, LogAssumption DEF LP!FinalityParams
  <2> QED BY <2>1 DEF Grows, LP!Signed, Log!Signed
<1>6. MessagesInv'
  BY <1>1, <1>4, <1>5, MessagesNext
<1> QED BY <1>2, <1>3, <1>6 DEF SyncInv

\* Logs stay closed under ancestry, messages travel between connected nodes and
\* carry signed entries, at most as many as a response may hold (node.rs, the
\* handlers of SyncRequest and SyncResponse).
THEOREM SyncTypeCorrect == Spec => []TypeOK
<1>1. SyncInv => TypeOK
  <2> SUFFICES ASSUME SyncInv PROVE TypeOK
    OBVIOUS
  <2>1. Tree /\ MessagesInv
    BY TreeFacts DEF SyncInv
  <2>2. \A n \in Node : \A h \in held[n] : Log!Ancestry(h) \subseteq held[n]
    BY <2>1 DEF Tree
  <2> QED BY <2>1, <2>2 DEF TypeOK, MessagesInv, Sound
<1>2. SyncInv /\ [Next]_vars => SyncInv'
  BY SyncInvNext
<1> QED BY <1>1, <1>2, SyncInvInit, PTL DEF Spec

\* No entry of a response is refused when it arrives, however the log has moved
\* since the request and however the response was cut (log.rs, ancestors_first).
THEOREM ResponsesAreTaken == Spec => []NothingRejected
<1>1. SyncInv => NothingRejected
  <2> SUFFICES ASSUME SyncInv, NEW m \in msgs, m.type = "EntriesResponse"
               PROVE  \A i \in 1 .. Len(m.entries) : m.entries[i] \in InsertAll(held[m.to], m.entries)
    BY DEF NothingRejected
  <2> DEFINE E == held[m.to]
             s == m.entries
  <2>1. Tree /\ Sound(m)
    BY TreeFacts DEF SyncInv, MessagesInv
  <2>2. m.to \in Node /\ s \in Seq(Log!Signed) /\ Feeds(E, s)
    BY <2>1 DEF Sound
  <2>3. E \subseteq Log!Signed /\ Closed(E)
    BY <2>1, <2>2 DEF Tree, Closed
  <2> HIDE DEF E, s
  <2>4. \A i \in 1 .. Len(s) : s[i] \in InsertAll(E, s)
    BY <2>1, <2>2, <2>3, InsertAllFacts
  <2> QED BY <2>4 DEF E, s
<1>2. SyncInv /\ [Next]_vars => SyncInv'
  BY SyncInvNext
<1> QED BY <1>1, <1>2, SyncInvInit, PTL DEF Spec

\* The member nodes' logs implement GovernanceLog: whatever is sent, lost, cut
\* or repeated, a log changes only by appending and by inserting a set of
\* entries closed under ancestry (log.rs, insert).
THEOREM SyncImplementsLog == Spec => LogsAreReplicas
<1>1. Init => Log!Init
  BY DEF Init
<1>2. SyncInv /\ [Next]_vars => SyncInv' /\ [Log!Next]_(Log!vars)
  BY SyncInvNext
<1> QED BY <1>1, <1>2, SyncInvInit, PTL DEF Spec, LogsAreReplicas, Log!Spec
=============================================================================

---------------------------- MODULE StoresProofs ----------------------------
(***************************************************************************)
(* The capability ledger and the pointer store implement LatestWins, for   *)
(* any nodes, pointers, chains and limits, whatever is lost, delayed or    *)
(* restarted.                                                              *)
(*                                                                         *)
(* A step of the concrete store is a step of the abstract one because what *)
(* a message carries was signed for the key it is carried under.  That is  *)
(* the invariant: messages are answered from stores, and stores filled     *)
(* from messages.                                                          *)
(*                                                                         *)
(* A certificate assembled from the ballots a node holds verifies, for any *)
(* votes, voters and clocks.                                               *)
(***************************************************************************)
EXTENDS CapabilityLedger, PointerStore, BallotBox, NaturalsInduction, WellFoundedInduction, TLAPS

----------------------------------------------------------------------------
\* The ledger

\* Everything held and everything carried was signed by the node it is of.
LedgerInv ==
    /\ ledger \in [Node -> [Node -> Advertisement \cup {Nil}]]
    /\ advertised \in [Node -> SUBSET Advertisement]
    /\ \A n, m \in Node : ledger[n][m] # Nil => ledger[n][m] \in advertised[m]
    /\ \A p \in ledgerPost :
          /\ p.from \in Node /\ p.to \in Node
          /\ p.kind = "ads" => \A m \in DOMAIN p.body \cap Node : p.body[m] \in advertised[m]

\* What a member then holds after an insert of signed advertisements.
LEMMA InsertLearns ==
    ASSUME LedgerInv, NEW n \in Node, NEW news, NEW signed \in [Node -> SUBSET Advertisement],
           \A m \in Node : advertised[m] \subseteq signed[m],
           \A m \in DOMAIN news \cap Node : news[m] \in signed[m]
    PROVE  /\ Insert(n, news) \in [Node -> Advertisement \cup {Nil}]
           /\ \A m \in Node :
                 /\ Insert(n, news)[m] # Nil => Insert(n, news)[m] \in signed[m]
                 /\ \/ Insert(n, news)[m] = ledger[n][m]
                    \/ Insert(n, news)[m] \in signed[m] /\ ledger[n][m] = Nil
                    \/ Insert(n, news)[m] \in signed[m] /\ LaterAd(Insert(n, news)[m], ledger[n][m])
<1>1. ASSUME NEW m \in Node
      PROVE  /\ Insert(n, news)[m] \in Advertisement \cup {Nil}
             /\ Insert(n, news)[m] # Nil => Insert(n, news)[m] \in signed[m]
             /\ \/ Insert(n, news)[m] = ledger[n][m]
                \/ Insert(n, news)[m] \in signed[m] /\ ledger[n][m] = Nil
                \/ Insert(n, news)[m] \in signed[m] /\ LaterAd(Insert(n, news)[m], ledger[n][m])
  <2>1. CASE /\ m \in DOMAIN news
             /\ IsMember(n, m)
             /\ ledger[n][m] = Nil \/ ledger[n][m].issued < news[m].issued
    <3>1. Insert(n, news)[m] = news[m] /\ news[m] \in signed[m]
      BY <2>1 DEF Insert
    <3>2. ledger[n][m] # Nil => LaterAd(news[m], ledger[n][m])
      <4> SUFFICES ASSUME ledger[n][m] # Nil PROVE LaterAd(news[m], ledger[n][m])
        OBVIOUS
      <4>1. ledger[n][m] \in Advertisement /\ news[m] \in Advertisement
        BY <3>1 DEF LedgerInv
      <4> QED BY <2>1, <4>1 DEF LaterAd, Advertisement
    <3> QED BY <3>1, <3>2
  <2>2. CASE ~(/\ m \in DOMAIN news
               /\ IsMember(n, m)
               /\ ledger[n][m] = Nil \/ ledger[n][m].issued < news[m].issued)
    <3>1. Insert(n, news)[m] = ledger[n][m]
      BY <2>2 DEF Insert
    <3> QED BY <3>1 DEF LedgerInv
  <2> QED BY <2>1, <2>2
<1>2. Insert(n, news) = [m \in Node |-> Insert(n, news)[m]]
  BY DEF Insert
<1> QED BY <1>1, <1>2

\* A step of the ledgers is a step of the abstract ones, and keeps the invariant.
LEMMA LedgerStep ==
    ASSUME LedgerInv, [LedgerNext]_<<at, ledgerVars>>
    PROVE  LedgerInv' /\ [Ledgers!LatestNext]_(Ledgers!latestVars)
<1> USE DEF Ledgers!latestVars
<1>1. ASSUME NEW n \in Node, NEW news, ledger' = [ledger EXCEPT ![n] = Insert(n, news)],
             advertised' \in [Node -> SUBSET Advertisement],
             \A m \in Node : advertised[m] \subseteq advertised'[m],
             \A m \in DOMAIN news \cap Node : news[m] \in advertised'[m],
             \A p \in ledgerPost' : p \in ledgerPost \/
                (p.from \in Node /\ p.to \in Node /\ p.kind # "ads")
      PROVE  LedgerInv' /\ Ledgers!Learn
  <2>1. /\ Insert(n, news) \in [Node -> Advertisement \cup {Nil}]
        /\ \A m \in Node :
              /\ Insert(n, news)[m] # Nil => Insert(n, news)[m] \in advertised'[m]
              /\ \/ Insert(n, news)[m] = ledger[n][m]
                 \/ Insert(n, news)[m] \in advertised'[m] /\ ledger[n][m] = Nil
                 \/ Insert(n, news)[m] \in advertised'[m] /\ LaterAd(Insert(n, news)[m], ledger[n][m])
    BY <1>1, InsertLearns
  <2>2. /\ ledger'[n] = Insert(n, news)
        /\ \A i \in Node \ {n} : ledger'[i] = ledger[i]
        /\ ledger' \in [Node -> [Node -> Advertisement \cup {Nil}]]
    BY <1>1, <2>1 DEF LedgerInv
  <2>3. Ledgers!Learn
    BY <1>1, <2>1, <2>2 DEF Ledgers!Learn
  <2>4. \A i, m \in Node : ledger'[i][m] # Nil => ledger'[i][m] \in advertised'[m]
    BY <1>1, <2>1, <2>2 DEF LedgerInv
  <2>5. \A p \in ledgerPost' :
          /\ p.from \in Node /\ p.to \in Node
          /\ p.kind = "ads" => \A m \in DOMAIN p.body \cap Node : p.body[m] \in advertised'[m]
    BY <1>1 DEF LedgerInv
  <2> QED BY <1>1, <2>2, <2>3, <2>4, <2>5 DEF LedgerInv
<1>2. ASSUME NEW n \in Node, NEW ad \in Advertisement, Advertise(n, ad)
      PROVE  LedgerInv' /\ Ledgers!Learn
  <2>1. /\ advertised' = [advertised EXCEPT ![n] = @ \cup {ad}]
        /\ ledger' = [ledger EXCEPT ![n] = Insert(n, [m \in {n} |-> ad])] /\ ledgerPost' = ledgerPost
    BY <1>2 DEF Advertise
  <2>2. DOMAIN [m \in {n} |-> ad] = {n} /\ [m \in {n} |-> ad][n] = ad
    OBVIOUS
  <2>3. /\ advertised' \in [Node -> SUBSET Advertisement]
        /\ \A m \in Node : advertised[m] \subseteq advertised'[m]
        /\ ad \in advertised'[n]
    BY <2>1 DEF LedgerInv
  <2> QED BY <1>1, <2>1, <2>2, <2>3
<1>3. ASSUME NEW n \in Node, NEW m \in Node,
             ledgerPost' = ledgerPost \cup {AskDigest(n, m)}, UNCHANGED <<ledger, advertised>>
      PROVE  LedgerInv' /\ UNCHANGED <<advertised, ledger>>
  BY <1>3 DEF LedgerInv, AskDigest, LedgerMessage
<1>4. ASSUME NEW p \in ledgerPost, AnswerLedger(p)
      PROVE  LedgerInv' /\ UNCHANGED <<advertised, ledger>>
  <2>1. p.to \in Node /\ p.from \in Node
    BY DEF LedgerInv
  <2>2. \A m \in DOMAIN Fetched(p.to, p.body) \cap Node : Fetched(p.to, p.body)[m] \in advertised[m]
    BY <2>1 DEF Fetched, FirstOf, Matched, LedgerInv
  <2>3. PICK a : /\ ledgerPost' = (ledgerPost \ {p}) \cup {a}
                 /\ a.from = p.to /\ a.to = p.from
                 /\ a.kind = "ads" => a.body = Fetched(p.to, p.body)
    <3> DEFINE answer == IF p.kind = "digest?"
                 THEN LedgerMessage("digest", p.to, p.from, LedgerDigest(p.to), FALSE)
                 ELSE LedgerMessage("ads", p.to, p.from, Fetched(p.to, p.body),
                                    Cardinality(Matched(p.to, p.body)) > MaxAds)
    <3>1. ledgerPost' = (ledgerPost \ {p}) \cup {answer}
      BY <1>4 DEF AnswerLedger
    <3>2. /\ answer.from = p.to /\ answer.to = p.from
          /\ answer.kind = "ads" => answer.body = Fetched(p.to, p.body)
      BY DEF LedgerMessage
    <3> HIDE DEF answer
    <3> QED BY <3>1, <3>2
  <2>4. UNCHANGED <<ledger, advertised>>
    BY <1>4 DEF AnswerLedger
  <2> QED BY <2>1, <2>2, <2>3, <2>4 DEF LedgerInv
<1>5. ASSUME NEW p \in ledgerPost, HearDigest(p)
      PROVE  LedgerInv' /\ UNCHANGED <<advertised, ledger>>
  BY <1>5 DEF HearDigest, LedgerInv, LedgerMessage
<1>6. ASSUME NEW p \in ledgerPost, HearAds(p)
      PROVE  LedgerInv' /\ Ledgers!Learn
  <2>1. /\ p.to \in Node /\ p.from \in Node
        /\ \A m \in DOMAIN p.body \cap Node : p.body[m] \in advertised[m]
    BY <1>6 DEF HearAds, LedgerInv
  <2>2. /\ ledger' = [ledger EXCEPT ![p.to] = Insert(p.to, p.body)]
        /\ advertised' = advertised
        /\ ledgerPost' \subseteq ledgerPost \cup {AskDigest(p.to, p.from)}
    BY <1>6 DEF HearAds
  <2>3. \A q \in ledgerPost' : q \in ledgerPost \/ (q.from \in Node /\ q.to \in Node /\ q.kind # "ads")
    BY <2>1, <2>2 DEF AskDigest, LedgerMessage
  <2>4. advertised \in [Node -> SUBSET Advertisement]
    BY DEF LedgerInv
  <2> QED BY <1>1, <2>1, <2>2, <2>3, <2>4
<1>7. ASSUME NEW p \in ledgerPost, LoseLedgerMessage(p)
      PROVE  LedgerInv' /\ UNCHANGED <<advertised, ledger>>
  BY <1>7 DEF LoseLedgerMessage, LedgerInv
<1>8. ASSUME NEW n \in Node, RestartLedger(n)
      PROVE  LedgerInv' /\ Ledgers!Forget(n)
  <2>1. /\ ledger' = [ledger EXCEPT ![n] = [m \in Node |-> Nil]] /\ advertised' = advertised
        /\ ledgerPost' \subseteq ledgerPost
    BY <1>8 DEF RestartLedger
  <2> QED BY <2>1 DEF LedgerInv, Ledgers!Forget
<1>9. CASE UNCHANGED ledgerVars
  BY <1>9 DEF ledgerVars, LedgerInv
<1>10. CASE UNCHANGED <<at, ledgerVars>>
  BY <1>9, <1>10
<1> QED BY <1>2, <1>3, <1>4, <1>5, <1>6, <1>7, <1>8, <1>9, <1>10
        DEF LedgerNext, HandleLedger, StartLedgerSync, LedgerAfterSync, Ledgers!LatestNext

\* Every behaviour of the ledgers is one of LatestWins (ledger/lib.rs, insert, with
\* the digest, fetch and restart of node.rs around it).
THEOREM LedgersImplementLatest == LedgerSpec => LedgerKeepsLatest
<1>1. LedgerInit => LedgerInv /\ Ledgers!LatestInit
  BY DEF LedgerInit, LedgerInv, Ledgers!LatestInit
<1>2. LedgerInv /\ [LedgerNext]_<<at, ledgerVars>> =>
        LedgerInv' /\ [Ledgers!LatestNext]_(Ledgers!latestVars)
  BY LedgerStep
<1> QED BY <1>1, <1>2, PTL DEF LedgerSpec, LedgerKeepsLatest, Ledgers!LatestSpec

----------------------------------------------------------------------------
\* The pointer store

\* Everything held and everything carried was signed for its pointer.
PointerInv ==
    /\ pointers \in [Node -> [Pointer -> Record \cup {Nil}]]
    /\ published \in [Pointer -> SUBSET Record]
    /\ \A n \in Node, p \in Pointer : pointers[n][p] # Nil => pointers[n][p] \in published[p]
    /\ \A q \in pointerPost :
          /\ q.from \in Node /\ q.to \in Node
          /\ q.kind = "records" =>
                \A p \in DOMAIN q.body \cap Pointer : q.body[p].record \in published[p]

\* What a member holds of p after a signed record of it came.
LEMMA AcceptLearns ==
    ASSUME PointerInv, NEW n \in Node, NEW p \in Pointer, NEW signed \in SUBSET Record,
           published[p] \subseteq signed, NEW r \in signed
    PROVE  /\ Accept(n, p, r) \in Record \cup {Nil}
           /\ Accept(n, p, r) # Nil => Accept(n, p, r) \in signed
           /\ \/ Accept(n, p, r) = pointers[n][p]
              \/ Accept(n, p, r) \in signed /\ pointers[n][p] = Nil
              \/ Accept(n, p, r) \in signed /\ Supersedes(Accept(n, p, r), pointers[n][p])
<1>1. pointers[n][p] \in Record \cup {Nil}
  BY DEF PointerInv
<1>2. CASE IsPublishable(n, p) /\ (pointers[n][p] = Nil \/ Supersedes(r, pointers[n][p]))
  <2>1. Accept(n, p, r) = r
    BY <1>2 DEF Accept
  <2> QED BY <1>2, <2>1
<1>3. CASE ~(IsPublishable(n, p) /\ (pointers[n][p] = Nil \/ Supersedes(r, pointers[n][p])))
  <2>1. Accept(n, p, r) = pointers[n][p]
    BY <1>3 DEF Accept
  <2> QED BY <1>1, <2>1 DEF PointerInv
<1> QED BY <1>2, <1>3

\* A step of the pointer stores is a step of the abstract ones, and keeps the
\* invariant.
LEMMA PointerStep ==
    ASSUME PointerInv, [PointerNext]_<<at, pointerVars>>
    PROVE  PointerInv' /\ [Pointers!LatestNext]_(Pointers!latestVars)
<1> USE DEF Pointers!latestVars
<1>1. ASSUME NEW n \in Node, NEW f \in [Pointer -> Record \cup {Nil}],
             pointers' = [pointers EXCEPT ![n] = f],
             published' \in [Pointer -> SUBSET Record],
             \A p \in Pointer : published[p] \subseteq published'[p],
             \A p \in Pointer :
                \/ f[p] = pointers[n][p]
                \/ \E r \in published'[p] : f[p] = Accept(n, p, r),
             pointerPost' \subseteq pointerPost
      PROVE  PointerInv' /\ Pointers!Learn
  <2>1. ASSUME NEW p \in Pointer
        PROVE  /\ f[p] \in Record \cup {Nil}
               /\ f[p] # Nil => f[p] \in published'[p]
               /\ \/ f[p] = pointers[n][p]
                  \/ f[p] \in published'[p] /\ pointers[n][p] = Nil
                  \/ f[p] \in published'[p] /\ Supersedes(f[p], pointers[n][p])
    <3>1. CASE f[p] = pointers[n][p]
      BY <1>1, <3>1 DEF PointerInv
    <3>2. CASE \E r \in published'[p] : f[p] = Accept(n, p, r)
      <4>1. PICK r \in published'[p] : f[p] = Accept(n, p, r)
        BY <3>2
      <4>2. published'[p] \in SUBSET Record /\ published[p] \subseteq published'[p]
        BY <1>1
      <4> QED BY <4>1, <4>2, AcceptLearns
    <3> QED BY <1>1, <3>1, <3>2
  <2>2. /\ pointers'[n] = f
        /\ \A i \in Node \ {n} : pointers'[i] = pointers[i]
    BY <1>1 DEF PointerInv
  <2>4. pointers' \in [Node -> [Pointer -> Record \cup {Nil}]]
    BY <1>1 DEF PointerInv
  <2>5. Pointers!Learn
    BY <1>1, <2>1, <2>2 DEF Pointers!Learn
  <2>6. \A i \in Node, p \in Pointer : pointers'[i][p] # Nil => pointers'[i][p] \in published'[p]
    BY <1>1, <2>1, <2>2 DEF PointerInv
  <2>7. \A q \in pointerPost' :
          /\ q.from \in Node /\ q.to \in Node
          /\ q.kind = "records" =>
                \A p \in DOMAIN q.body \cap Pointer : q.body[p].record \in published'[p]
    BY <1>1 DEF PointerInv
  <2> QED BY <1>1, <2>4, <2>5, <2>6, <2>7 DEF PointerInv
<1>2. ASSUME NEW p \in Pointer, NEW r \in Record, SignPointer(p, r)
      PROVE  PointerInv' /\ Pointers!Learn
  <2> DEFINE n == OwnerOf[p]
             f == [pointers[n] EXCEPT ![p] = Accept(n, p, r)]
  <2>1. n \in Node
    BY OwnerAssumption
  <2>2. /\ published' = [published EXCEPT ![p] = @ \cup {r}]
        /\ pointers' = [pointers EXCEPT ![n][p] = Accept(n, p, r)] /\ pointerPost' = pointerPost
    BY <1>2 DEF SignPointer
  <2>3. pointers' = [pointers EXCEPT ![n] = f]
    BY <2>2
  <2>4. /\ published' \in [Pointer -> SUBSET Record]
        /\ \A x \in Pointer : published[x] \subseteq published'[x]
        /\ r \in published'[p]
        /\ pointerPost' \subseteq pointerPost
    BY <2>2 DEF PointerInv
  <2>5. pointers[n] \in [Pointer -> Record \cup {Nil}]
    BY <2>1 DEF PointerInv
  <2>6. /\ f \in [Pointer -> Record \cup {Nil}]
        /\ f[p] = Accept(n, p, r)
        /\ \A x \in Pointer \ {p} : f[x] = pointers[n][x]
    <3>1. Accept(n, p, r) \in Record \cup {Nil}
      BY <2>5 DEF Accept
    <3> QED BY <2>5, <3>1
  <2>7. \A x \in Pointer : \/ f[x] = pointers[n][x]
                          \/ \E s \in published'[x] : f[x] = Accept(n, x, s)
    BY <2>4, <2>6
  <2> HIDE DEF n, f
  <2> QED BY <1>1, <2>1, <2>3, <2>4, <2>6, <2>7
<1>3. ASSUME NEW S, pointerPost' \subseteq pointerPost \cup S, UNCHANGED <<pointers, published>>,
             \A q \in S :
                /\ q.from \in Node /\ q.to \in Node
                /\ q.kind = "records" =>
                      \A p \in DOMAIN q.body \cap Pointer : q.body[p].record \in published[p]
      PROVE  PointerInv' /\ UNCHANGED <<published, pointers>>
  BY <1>3 DEF PointerInv
<1>4. ASSUME NEW n \in Node, NEW m \in Node, StartPointerSync(n, m) \/ PointersAfterSync(n, m)
      PROVE  PointerInv' /\ UNCHANGED <<published, pointers>>
  <2>1. /\ pointerPost' \subseteq pointerPost \cup {AskPointers(n, m)}
        /\ UNCHANGED <<pointers, published>>
    BY <1>4 DEF StartPointerSync, PointersAfterSync
  <2>2. /\ AskPointers(n, m).from \in Node /\ AskPointers(n, m).to \in Node
        /\ AskPointers(n, m).kind # "records"
    BY DEF AskPointers, PointerMessage
  <2> QED BY <1>3, <2>1, <2>2, ZenonT(60)
<1>5. ASSUME NEW q \in pointerPost, AnswerPointers(q)
      PROVE  PointerInv' /\ UNCHANGED <<published, pointers>>
  <2>1. q.to \in Node /\ q.from \in Node
    BY DEF PointerInv
  <2> DEFINE a == ServePointers(q)
             ids == ServedPointers(q.to, IF q.kind = "digest?" THEN Pointer ELSE q.body)
             first == FirstOf(ids, MaxPointers)
             cut == Cardinality(ids) > MaxPointers
             rec == [p \in first |-> [record |-> pointers[q.to][p], keys |-> wrappings[q.to][p]]]
  <2>2. \/ a = PointerMessage("refused", q.to, q.from, {}, FALSE)
        \/ a = PointerMessage("digest", q.to, q.from, [p \in first |-> pointers[q.to][p]], cut)
        \/ a = PointerMessage("records", q.to, q.from, rec, cut)
    BY DEF ServePointers
  <2>3. \A p \in DOMAIN rec \cap Pointer : rec[p].record \in published[p]
    BY <2>1 DEF FirstOf, ServedPointers, PointerInv
  <2> HIDE DEF rec, first, cut, ids
  <2>4. /\ a.from \in Node /\ a.to \in Node
        /\ a.kind = "records" =>
              \A p \in DOMAIN a.body \cap Pointer : a.body[p].record \in published[p]
    BY <2>1, <2>2, <2>3 DEF PointerMessage
  <2>5. /\ pointerPost' \subseteq pointerPost \cup {a}
        /\ UNCHANGED <<pointers, published>>
    BY <1>5 DEF AnswerPointers
  <2> HIDE DEF a
  <2> QED BY <1>3, <2>4, <2>5
<1>6. ASSUME NEW q \in pointerPost, HearPointerDigest(q)
      PROVE  PointerInv' /\ UNCHANGED <<published, pointers>>
  <2>1. q.to \in Node /\ q.from \in Node
    BY DEF PointerInv
  <2> DEFINE S == {PointerMessage("fetch?", q.to, q.from, w, FALSE) :
                      w \in {WorthFetching(q.to, q.body)} \ {{}}}
  <2>2. pointerPost' \subseteq pointerPost \cup S /\ UNCHANGED <<pointers, published>>
    BY <1>6 DEF HearPointerDigest
  <2>3. \A x \in S : x.from \in Node /\ x.to \in Node /\ x.kind # "records"
    BY <2>1 DEF PointerMessage
  <2> HIDE DEF S
  <2> QED BY <1>3, <2>2, <2>3
<1>7. ASSUME NEW q \in pointerPost, HearRecords(q)
      PROVE  PointerInv' /\ Pointers!Learn
  <2> DEFINE f == [p \in Pointer |-> IF p \in DOMAIN q.body THEN Accept(q.to, p, q.body[p].record)
                                     ELSE pointers[q.to][p]]
  <2>1. /\ q.to \in Node
        /\ \A p \in DOMAIN q.body \cap Pointer : q.body[p].record \in published[p]
    BY <1>7 DEF HearRecords, PointerInv
  <2>2. /\ pointers' = [pointers EXCEPT ![q.to] = f]
        /\ published' = published /\ pointerPost' \subseteq pointerPost
    BY <1>7, <2>1 DEF HearRecords
  <2>3. /\ f \in [Pointer -> Record \cup {Nil}]
        /\ \A p \in Pointer : \/ f[p] = pointers[q.to][p]
                              \/ \E r \in published'[p] : f[p] = Accept(q.to, p, r)
    <3>1. /\ pointers[q.to] \in [Pointer -> Record \cup {Nil}]
          /\ \A p \in Pointer : published[p] \subseteq Record
      BY <2>1 DEF PointerInv
    <3>2. \A p \in DOMAIN q.body \cap Pointer :
             Accept(q.to, p, q.body[p].record) \in Record \cup {Nil}
      BY <2>1, <3>1 DEF Accept
    <3> QED BY <2>1, <2>2, <3>1, <3>2
  <2>4. published \in [Pointer -> SUBSET Record]
    BY DEF PointerInv
  <2> HIDE DEF f
  <2> QED BY <1>1, <2>1, <2>2, <2>3, <2>4
<1>8. ASSUME NEW q \in pointerPost, HearPointerRefusal(q) \/ LosePointerMessage(q)
      PROVE  PointerInv' /\ UNCHANGED <<published, pointers>>
  BY <1>8 DEF HearPointerRefusal, LosePointerMessage, PointerInv
<1>9. ASSUME NEW n \in Node, RestartPointers(n)
      PROVE  PointerInv' /\ Pointers!Forget(n)
  <2>1. /\ pointers' = [pointers EXCEPT ![n] = [p \in Pointer |-> Nil]] /\ published' = published
        /\ pointerPost' \subseteq pointerPost
    BY <1>9 DEF RestartPointers
  <2> QED BY <2>1 DEF PointerInv, Pointers!Forget
<1>10. ASSUME UNCHANGED <<pointers, published, pointerPost>>
       PROVE  PointerInv' /\ UNCHANGED <<published, pointers>>
  BY <1>10 DEF PointerInv
<1>11. ASSUME NEW n \in Node, NEW p \in Pointer, Rewrap(n, p)
       PROVE  PointerInv' /\ UNCHANGED <<published, pointers>>
  BY <1>10, <1>11 DEF Rewrap
<1>12. CASE UNCHANGED pointerVars
  BY <1>10, <1>12 DEF pointerVars
<1>13. CASE UNCHANGED <<at, pointerVars>>
  BY <1>12, <1>13
<1> QED BY <1>2, <1>4, <1>5, <1>6, <1>7, <1>8, <1>9, <1>11, <1>12, <1>13
        DEF PointerNext, HandlePointers, Pointers!LatestNext

\* Every behaviour of the pointer stores is one of LatestWins (pointer.rs,
\* supersedes and accept_pointer, with the exchange of node.rs around them).
THEOREM PointersImplementLatest == PointerSpec => PointersKeepLatest
<1>1. PointerInit => PointerInv /\ Pointers!LatestInit
  BY DEF PointerInit, PointerInv, Pointers!LatestInit
<1>2. PointerInv /\ [PointerNext]_<<at, pointerVars>> =>
        PointerInv' /\ [Pointers!LatestNext]_(Pointers!latestVars)
  BY PointerStep
<1> QED BY <1>1, <1>2, PTL DEF PointerSpec, PointersKeepLatest, Pointers!LatestSpec

----------------------------------------------------------------------------
\* The ballots

\* Whatever a node holds was cast, and qualified when it was recorded; whatever is
\* on its way was cast.  A hash belongs to one ballot.
BallotInv ==
    /\ ballots \in [Node -> [Vote -> SUBSET Ballot]]
    /\ cast \subseteq [vote : Vote, ballot : Ballot]
    /\ \A c, d \in cast : c.ballot.hash = d.ballot.hash => c.ballot = d.ballot
    /\ \A n \in Node, v \in Vote : \A b \in ballots[n][v] :
          /\ \E c \in cast : c.ballot = b
          /\ b.voter \in Proposal[v].electorate /\ b.time <= Proposal[v].close
    /\ \A q \in ballotPost :
          /\ q.from \in Node /\ q.to \in Node /\ q.vote \in Vote
          /\ q.kind = "ballots" => \A b \in q.body : \E c \in cast : c.ballot = b

\* A set of naturals has a least element.
LEMMA LeastNat ==
    ASSUME NEW S, S \subseteq Nat, S # {}
    PROVE  \E m \in S : \A x \in S : m <= x
<1>1. PICK m \in S : \A x \in S : ~ (<<x, m>> \in OpToRel(<, Nat))
  BY NatLessThanWellFounded, WFMin
<1>2. \A x \in S : ~ (x < m)
  BY <1>1 DEF OpToRel
<1> QED BY <1>2

\* Times and hashes are numbers, which ballots are ordered by.
LEMMA BallotOrder == \A b \in Ballot : b.time \in Nat /\ b.hash \in Nat
<1> TAKE b \in Ballot
<1>1. b.time \in CastTime /\ b.hash \in 1 .. MaxCast
  BY DEF Ballot
<1>2. b.time \in Nat
  BY <1>1, BallotAssumption, Zenon
<1>3. b.hash \in Nat
  BY <1>1, BallotAssumption
<1> QED BY <1>2, <1>3

\* Of the ballots of a voter, one was cast before all the others.
LEMMA EarliestExists ==
    ASSUME NEW S \in SUBSET Ballot, S # {}
    PROVE  \E b \in S : \A c \in S : ~CastBefore(c, b)
<1>1. \A b \in S : b.time \in Nat /\ b.hash \in Nat
  BY BallotOrder
<1>2. PICK t \in {b.time : b \in S} : \A u \in {b.time : b \in S} : t <= u
  <2>1. {b.time : b \in S} \subseteq Nat /\ {b.time : b \in S} # {}
    BY <1>1
  <2> QED BY <2>1, LeastNat
<1> DEFINE T == {b \in S : b.time = t}
<1>3. PICK h \in {b.hash : b \in T} : \A u \in {b.hash : b \in T} : h <= u
  <2>1. {b.hash : b \in T} \subseteq Nat /\ {b.hash : b \in T} # {}
    BY <1>1, <1>2
  <2> QED BY <2>1, LeastNat
<1>4. PICK b \in T : b.hash = h
  BY <1>3
<1>5. ASSUME NEW c \in S PROVE ~CastBefore(c, b)
  <2>1. b.time = t /\ t <= c.time /\ c.time \in Nat /\ t \in Nat /\ b.hash \in Nat /\ c.hash \in Nat
    BY <1>1, <1>2, <1>4
  <2>2. c.time = t => b.hash <= c.hash
    BY <1>3, <1>4
  <2> QED BY <2>1, <2>2 DEF CastBefore
<1> QED BY <1>4, <1>5

\* The certificate assembled from ballots that qualified is not empty, has one
\* ballot of each voter, and only ballots that qualify.
LEMMA AssembledIsValid ==
    ASSUME BallotInv, NEW n \in Node, NEW v \in Vote, ballots[n][v] # {}
    PROVE  VerifiesAs(v, Certificate(n, v)) # "invalid"
<1> DEFINE S == ballots[n][v]
           cert == Certificate(n, v)
<1>1. S \subseteq Ballot
  BY DEF BallotInv
<1>2. cert # {}
  <2>1. PICK b \in S : \A c \in S : ~CastBefore(c, b)
    BY <1>1, EarliestExists
  <2> QED BY <2>1 DEF Certificate, Assemble
<1>3. \A b \in cert : b.voter \in Proposal[v].electorate /\ b.time <= Proposal[v].close
  BY DEF Certificate, Assemble, BallotInv
<1>4. ASSUME NEW b \in cert, NEW c \in cert, b.voter = c.voter PROVE b = c
  <2>1. b \in S /\ c \in S /\ ~CastBefore(c, b) /\ ~CastBefore(b, c)
    BY <1>4 DEF Certificate, Assemble
  <2>2. b.time \in Nat /\ b.hash \in Nat /\ c.time \in Nat /\ c.hash \in Nat
    BY <1>1, <2>1, BallotOrder
  <2>3. b.hash = c.hash
    BY <2>1, <2>2 DEF CastBefore
  <2> QED BY <2>1, <2>3 DEF BallotInv
<1> HIDE DEF cert
<1>5. VerifiesAs(v, cert) # "invalid"
  BY <1>2, <1>3, <1>4 DEF VerifiesAs
<1> QED BY <1>5 DEF cert

\* Every step of the nodes and of the chain keeps the invariant.
LEMMA BallotStep ==
    ASSUME BallotInv, [CollectionNext]_<<at, ballotVars>>
    PROVE  BallotInv'
<1>1. ASSUME NEW n \in Node, NEW v \in Vote, NEW b \in Ballot, CastBallot(n, v, b)
      PROVE  BallotInv'
  <2>1. /\ cast' = cast \cup {[vote |-> v, ballot |-> b]}
        /\ ballots' = [ballots EXCEPT ![n][v] = @ \cup {b}]
        /\ ballotPost' = ballotPost
        /\ \A c \in cast : c.ballot.hash # b.hash
        /\ b.voter \in Proposal[v].electorate /\ b.time <= Proposal[v].close
    BY <1>1 DEF CastBallot, Qualifies
  <2>2. ballots' \in [Node -> [Vote -> SUBSET Ballot]]
    BY <2>1 DEF BallotInv
  <2>3. cast' \subseteq [vote : Vote, ballot : Ballot]
    BY <2>1 DEF BallotInv
  <2>4. \A c, d \in cast' : c.ballot.hash = d.ballot.hash => c.ballot = d.ballot
    BY <2>1 DEF BallotInv
  <2>5. ASSUME NEW k \in Node, NEW w \in Vote, NEW x \in ballots'[k][w]
        PROVE  /\ \E c \in cast' : c.ballot = x
               /\ x.voter \in Proposal[w].electorate /\ x.time <= Proposal[w].close
    <3>1. x \in ballots[k][w] \/ (k = n /\ w = v /\ x = b)
      BY <2>1, <2>5 DEF BallotInv
    <3>2. CASE x \in ballots[k][w]
      BY <2>1, <3>2 DEF BallotInv
    <3>3. CASE k = n /\ w = v /\ x = b
      <4>1. [vote |-> v, ballot |-> b] \in cast' /\ [vote |-> v, ballot |-> b].ballot = x
        BY <2>1, <3>3
      <4> QED BY <2>1, <3>3, <4>1
    <3> QED BY <3>1, <3>2, <3>3
  <2>6. \A q \in ballotPost' :
          /\ q.from \in Node /\ q.to \in Node /\ q.vote \in Vote
          /\ q.kind = "ballots" => \A x \in q.body : \E c \in cast' : c.ballot = x
    BY <2>1 DEF BallotInv
  <2> QED BY <2>2, <2>3, <2>4, <2>5, <2>6 DEF BallotInv
<1>2. ASSUME NEW n \in Node, NEW m \in Node, NEW v \in Vote, AskBallots(n, m, v)
      PROVE  BallotInv'
  <2>1. ASSUME NEW q \in ballotPost' \ ballotPost
        PROVE  q.from \in Node /\ q.to \in Node /\ q.vote \in Vote /\ q.kind # "ballots"
    BY <1>2 DEF AskBallots, BallotMessage
  <2>2. UNCHANGED <<ballots, cast>>
    BY <1>2 DEF AskBallots
  <2> QED BY <2>1, <2>2 DEF BallotInv
<1>3. ASSUME NEW q \in ballotPost, AnswerBallots(q)
      PROVE  BallotInv'
  <2>1. UNCHANGED <<ballots, cast>> /\ ballotPost' = (ballotPost \ {q}) \cup {ServeBallots(q)}
    BY <1>3 DEF AnswerBallots
  <2>2. q.from \in Node /\ q.to \in Node /\ q.vote \in Vote
    BY DEF BallotInv
  <2>3. /\ ServeBallots(q).from \in Node /\ ServeBallots(q).to \in Node
        /\ ServeBallots(q).vote \in Vote
        /\ \A b \in ServeBallots(q).body : b \in ballots[q.to][q.vote]
    BY <2>2 DEF ServeBallots, BallotMessage, CutBallots, Unheld
  <2>4. \A b \in ServeBallots(q).body : \E c \in cast : c.ballot = b
    BY <2>2, <2>3 DEF BallotInv
  <2> HIDE DEF ServeBallots
  <2> QED BY <2>1, <2>3, <2>4 DEF BallotInv
<1>4. ASSUME NEW q \in ballotPost, HearBallots(q)
      PROVE  BallotInv'
  <2>1. /\ q.to \in Node /\ q.vote \in Vote
        /\ \A b \in q.body : \E c \in cast : c.ballot = b
        /\ \A b \in q.body : b \in Ballot
    BY <1>4 DEF BallotInv, HearBallots
  <2>2. /\ cast' = cast /\ ballotPost' \subseteq ballotPost
        /\ ballots' = [ballots EXCEPT ![q.to][q.vote] =
                           @ \cup {b \in q.body : Qualifies(q.to, q.vote, b)}]
    BY <1>4 DEF HearBallots
  <2>3. ballots' \in [Node -> [Vote -> SUBSET Ballot]]
    BY <2>1, <2>2 DEF BallotInv
  <2>4. ASSUME NEW k \in Node, NEW w \in Vote, NEW x \in ballots'[k][w]
        PROVE  /\ \E c \in cast : c.ballot = x
               /\ x.voter \in Proposal[w].electorate /\ x.time <= Proposal[w].close
    <3>1. x \in ballots[k][w] \/ (w = q.vote /\ x \in q.body /\ Qualifies(q.to, q.vote, x))
      BY <2>1, <2>2, <2>4 DEF BallotInv
    <3> QED BY <2>1, <3>1 DEF BallotInv, Qualifies
  <2> QED BY <2>2, <2>3, <2>4 DEF BallotInv
<1>5. ASSUME NEW n \in Node, RestartBallots(n)
      PROVE  BallotInv'
  <2>1. ballots' \in [Node -> [Vote -> SUBSET Ballot]]
    BY <1>5 DEF RestartBallots, BallotInv
  <2>2. \A k \in Node, w \in Vote : ballots'[k][w] \subseteq ballots[k][w]
    BY <1>5 DEF RestartBallots, BallotInv
  <2>3. cast' = cast /\ ballotPost' \subseteq ballotPost
    BY <1>5 DEF RestartBallots
  <2> QED BY <2>1, <2>2, <2>3 DEF BallotInv
<1>6. ASSUME NEW q \in ballotPost, HearBallotRefusal(q) \/ LoseBallotMessage(q)
      PROVE  BallotInv'
  BY <1>6 DEF HearBallotRefusal, LoseBallotMessage, BallotInv
<1>7. CASE UNCHANGED ballotVars
  BY <1>7 DEF ballotVars, BallotInv
<1> QED
  BY <1>1, <1>2, <1>3, <1>4, <1>5, <1>6, <1>7
     DEF CollectionNext, HandleBallots, ballotVars

\* A collection never hands an assembler ballots that make its certificate invalid
\* (the comment of record_ballot, node.rs), for any votes, electorates, clocks and
\* limits, in whatever order ballots arrive.
THEOREM CertificatesAreValid == BallotSpec => []CertificatesVerify
<1>1. BallotSpec => BallotInv
  BY DEF BallotSpec, BallotInit, BallotInv
<1>2. BallotInv => CertificatesVerify
  BY AssembledIsValid DEF CertificatesVerify, BallotTypeOK, BallotInv
<1> QED BY <1>1, <1>2, BallotStep, PTL DEF BallotSpec
=============================================================================

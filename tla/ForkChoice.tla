----------------------------- MODULE ForkChoice -----------------------------
(***************************************************************************)
(* The walks of log.rs over parent and child links, as the code writes     *)
(* them: the recursion down the tree of best_branch_below, the climb to    *)
(* the root of ancestry, and the scan along the chain of advance_finality. *)
(* GovernanceLog states what they compute without walking; the properties  *)
(* here say that the two agree.  Recursive, so for TLC only.               *)
(***************************************************************************)
EXTENDS GovernanceLog, SequencesExt

\* ancestry(hash): the path from the root down to hash.
RECURSIVE AncestryPath(_)
AncestryPath(hash) ==
    IF Parent(hash) = Nil THEN <<hash>> ELSE Append(AncestryPath(Parent(hash)), hash)

GatedCount(path) == Cardinality({i \in DOMAIN path : IsCapabilityGated(path[i])})

\* Mutation: ties go to the higher tip hash.
BetterHighTip(p, q) == \/ GatedCount(p) > GatedCount(q)
                       \/ GatedCount(p) = GatedCount(q) /\ Last(p) > Last(q)

\* `better`: the higher capability-gated count, then the lower tip hash.
Better(p, q) == \/ GatedCount(p) > GatedCount(q)
                \/ GatedCount(p) = GatedCount(q) /\ Last(p) < Last(q)

\* best_branch_below(node): the winning branch, node itself excluded.
RECURSIVE BestBranchBelow(_, _)
BestBranchBelow(E, node) ==
    LET paths == {<<c>> \o BestBranchBelow(E, c) : c \in {h \in E : Parent(h) = node}}
    IN  IF paths = {} THEN <<>>
        ELSE CHOOSE p \in paths : \A q \in paths \ {p} : Better(p, q)

CanonicalPath(n) == AncestryPath(Start(n)) \o BestBranchBelow(held[n], Start(n))

\* advance_finality: the last index of the chain that passes, 0 if none does.
LastFinalIndex(path, now) ==
    LET params == entry[Last(path)].fin
        passes == {i \in DOMAIN path :
                      /\ GatedCount(SubSeq(path, i + 1, Len(path))) >= params.k
                      /\ now - entry[path[i]].time >= params.t}
    IN  Max(passes \cup {0})

\* The recursive fork choice, which compares subtrees from the leaves up, ends
\* in the one tip that beats every other tip through the start (log.rs,
\* best_branch_below and canonical_chain).
ForkChoiceIsBestTip ==
    \A n \in Node : held[n] # {} =>
        /\ CanonicalPath(n) = AncestryPath(CanonicalTip(n))
        /\ ToSet(CanonicalPath(n)) = CanonicalChain(n)

\* The scan of advance_finality picks the entry that NewlyFinal describes, and
\* the comparison of positions is the comparison of ancestries.
FinalityScanAgrees ==
    \A n \in Node : held[n] # {} =>
        LET path == CanonicalPath(n)
            already == {i \in DOMAIN path : path[i] = finalized[n]}
        IN  \A now \in Time :
              LET last == LastFinalIndex(path, now)
              IN  /\ {h \in Signed : NewlyFinal(h, Last(path), now)}
                       = IF last = 0 THEN {} ELSE {path[last]}
                  /\ last # 0 /\ finalized[n] # Nil =>
                       ((\A i \in already : last > i) <=> path[last] \notin Ancestry(finalized[n]))

\* The walks of the code, over any tree of entries, times and policies, compute
\* what the definitions say of a chain and its finality: fork choice depends on
\* nothing but the entries and the finalized one, and finality is read off the
\* chain it chose (log.rs, canonical_chain and advance_finality).
WalksAgree == ForkChoiceIsBestTip /\ FinalityScanAgrees
=============================================================================

---------------------------- MODULE SearchIndex ----------------------------
(***************************************************************************)
(* The local index of one node (crates/intranet-search/src/index.rs), the    *)
(* postings in it (posting.rs) and the query over it (query.rs).             *)
(*                                                                         *)
(* A posting is its pointer, its publisher, the terms it matched and when it  *)
(* was published; the record is its own id.  Scores are left out: a query     *)
(* answers which pointers match and whether the answer may be incomplete.     *)
(***************************************************************************)
EXTENDS MemberView

CONSTANTS
    Indexer,        \* the node whose index this is
    Term, Indexed,  \* terms, and the pointers that are indexed
    PostingTtl,     \* ttl_millis
    MaxPostings,    \* bound: postings held
    MaxDay          \* bound: the clock

VARIABLES
    postings,       \* the postings held
    byTerm,         \* by_term: term -> postings listed under it
    truncated,      \* truncated_terms
    day,            \* the clock that expiry is asked with
    checkedAt       \* how much of the chain the index was last revalidated against

indexVars == <<postings, byTerm, truncated, day, checkedAt>>

Posting == [pointer : Indexed, publisher : Node, terms : (SUBSET Term) \ {{}}, time : 0 .. MaxDay]

IndexInit == /\ postings = {} /\ truncated = {} /\ day = 0 /\ checkedAt = 0
             /\ byTerm = [t \in Term |-> {}]

\* Posting::validate, with validate_entry_context of the append-sets.
PostingIsValid(p) ==
    /\ IsMember(Indexer, p.publisher)
    /\ p.pointer \notin History[at[Indexer]].delisted

\* remove_all.
WithoutIds(S) == [t \in Term |-> byTerm[t] \ S]

\* insert.
InsertPosting(p) ==
    /\ PostingIsValid(p)
    /\ Cardinality(postings) < MaxPostings
    /\ postings' = postings \cup {p}
    /\ byTerm' = [t \in Term |-> IF t \in p.terms THEN byTerm[t] \cup {p} ELSE byTerm[t]]
    /\ UNCHANGED <<truncated, day, checkedAt>>

\* reindex: what the index held for the pointer is removed first, and the new
\* posting is then inserted if it is valid.
Reindex(p) ==
    LET old == {q \in postings : q.pointer = p.pointer}
    IN  /\ postings' = (postings \ old) \cup (IF PostingIsValid(p) THEN {p} ELSE {})
        /\ byTerm' = [t \in Term |-> IF PostingIsValid(p) /\ t \in p.terms
                                     THEN WithoutIds(old)[t] \cup {p} ELSE WithoutIds(old)[t]]
        /\ UNCHANGED <<truncated, day, checkedAt>>

\* expire and revalidate.
RemovePostings(S) == /\ postings' = postings \ S
                     /\ byTerm' = WithoutIds(S)
                     /\ UNCHANGED <<truncated, day>>
ExpirePostings == /\ RemovePostings({p \in postings : day - p.time > PostingTtl})
                  /\ UNCHANGED checkedAt

\* Mutation: only the publisher's membership is looked at again.
RevalidateMembers ==
    /\ at[Indexer] # 0
    /\ RemovePostings({p \in postings : ~IsMember(Indexer, p.publisher)})
    /\ checkedAt' = at[Indexer]

Revalidate ==
    /\ at[Indexer] # 0
    /\ RemovePostings({p \in postings : ~PostingIsValid(p)})
    /\ checkedAt' = at[Indexer]

\* mark_truncated.
MarkTruncated(t) == /\ truncated' = truncated \cup {t}
                    /\ UNCHANGED <<postings, byTerm, day, checkedAt>>

DayPasses == /\ day < MaxDay /\ day' = day + 1
             /\ UNCHANGED <<postings, byTerm, truncated, checkedAt>>

\* search: the pointers that match some term of the query.
Matches(query) == {p.pointer : p \in UNION {byTerm[t] \cap postings : t \in query}}
Incomplete(query) == query \cap truncated # {}

IndexTypeOK == postings \subseteq Posting /\ truncated \subseteq Term

\* The two halves of the index agree after any sequence of insertions, updates,
\* expiries and revalidations: a term lists exactly the postings that have it, so
\* a query neither misses a posting held nor finds one that was removed.
IndexIsConsistent ==
    \A t \in Term : byTerm[t] = {p \in postings : t \in p.terms}

\* Moderation holds without the publisher's help (revalidate): from the moment a
\* node has revalidated its index against a state until it replays another one, no
\* query surfaces delisted content or the posting of somebody who is not a member,
\* however often old postings are offered again.
ModerationHolds ==
    (checkedAt # 0 /\ checkedAt = at[Indexer]) =>
        \A q \in SUBSET Term : Matches(q) \subseteq
            {p.pointer : p \in {p \in postings :
                /\ p.publisher \in History[checkedAt].members
                /\ p.pointer \notin History[checkedAt].delisted}}

\* The index is consistent, and moderated from the moment it was revalidated
\* (index.rs, insert, reindex, expire and revalidate).
IndexIsSound == IndexTypeOK /\ IndexIsConsistent /\ ModerationHolds
=============================================================================

---------------------------- MODULE AppDirectory ----------------------------
(***************************************************************************)
(* The app directory of a network: an append-set (crates/intranet-storage/   *)
(* src/appendset.rs) that members publish listings into, the collection       *)
(* protocol that enumerates it (crates/intranet-transport/src/node.rs), and   *)
(* the reading of it against the log (crates/intranet-app/src/registry.rs).   *)
(*                                                                         *)
(* The caller is the one of tests/app_registry.rs: it opens a view with its   *)
(* own entries, asks the providers that the DHT names, and inserts what they  *)
(* answer against the state it replayed when it opened the view, or when it   *)
(* last revalidated it.  A listing is its name, its app and its publisher,    *)
(* numbered in the order of the entry ids; signatures are taken to hold.      *)
(***************************************************************************)
EXTENDS MemberView

CONSTANTS
    Listing,        \* the listings that are published, by number
    MaxEntries,     \* MAX_COLLECTION_ENTRIES
    MaxOpen         \* bound: how often a view is opened

ASSUME ListingAssumption ==
    \A e \in DOMAIN Listing : e \in Nat /\ Listing[e].publisher \in Node

VARIABLES
    collections,    \* collections[n]: the entries n holds for the directory
    view,           \* view[n]: the entries of n's view
    partial,        \* partial[n]: the view's truncated flag
    checked,        \* checked[n]: the prefix of the chain n's caller last replayed
    opened,         \* opened[n]: the one it replayed when it opened the view
    turn,           \* turn[n]: how many views n has opened
    asking,         \* asking[n]: a provider query of n is under way
    due,            \* due[n]: what the providers that n asked held when it asked
    directoryPost   \* collection requests and responses in flight

directoryVars == <<collections, view, partial, checked, opened, turn, asking, due, directoryPost>>
viewVars == <<view, partial, checked, opened, turn, asking, due>>

DirectoryInit ==
    /\ collections = [n \in Node |-> {}]
    /\ view = [n \in Node |-> {}]
    /\ partial = [n \in Node |-> FALSE]
    /\ checked = [n \in Node |-> 0]
    /\ opened = [n \in Node |-> 0]
    /\ turn = [n \in Node |-> 0]
    /\ asking = [n \in Node |-> FALSE]
    /\ due = [n \in Node |-> {}]
    /\ directoryPost = {}

\* AppendSetEntry::validate against the state i of the chain: the publisher is a
\* member and the app that is referred to is not delisted.
MemberValid(i, e) == Listing[e].publisher \in History[i].members
EntryIsValid(i, e) == /\ Listing[e].publisher \in History[i].members
                      /\ Listing[e].app \notin History[i].delisted

\* AppendSetView::insert of each of the entries in S, and revalidate.
Inserted(i, S) == {e \in S : EntryIsValid(i, e)}

\* announce and publish_to_collection: no check is made, and nothing is replaced.
PublishListing(e) ==
    LET n == Listing[e].publisher
    IN  /\ e \notin collections[n]
        /\ collections' = [collections EXCEPT ![n] = @ \cup {e}]
        /\ UNCHANGED <<viewVars, directoryPost>>

\* A new view with the node's own entries, and enumerate_collection.
OpenDirectory(n) ==
    /\ at[n] # 0
    /\ turn[n] < MaxOpen
    /\ turn' = [turn EXCEPT ![n] = @ + 1]
    /\ opened' = [opened EXCEPT ![n] = at[n]]
    /\ checked' = [checked EXCEPT ![n] = at[n]]
    /\ view' = [view EXCEPT ![n] = Inserted(at[n], collections[n])]
    /\ partial' = [partial EXCEPT ![n] = FALSE]
    /\ asking' = [asking EXCEPT ![n] = TRUE]
    /\ due' = [due EXCEPT ![n] = {}]
    /\ UNCHANGED <<collections, directoryPost>>

Question(n, m) == [kind |-> "entries?", from |-> n, to |-> m, turn |-> turn[n], body |-> {}, cut |-> FALSE]
Reply(q, kind, body, isCut) ==
    [kind |-> kind, from |-> q.to, to |-> q.from, turn |-> q.turn, body |-> body, cut |-> isCut]

\* The query ends with some of the providers that have announced the collection,
\* CollectionProviders is returned and the caller asks each (request_collection).
ProvidersFound(n, found) ==
    /\ asking[n]
    /\ asking' = [asking EXCEPT ![n] = FALSE]
    /\ found \subseteq {m \in Node \ {n} : collections[m] # {}}
    /\ directoryPost' = directoryPost \cup {Question(n, m) : m \in found}
    /\ due' = [due EXCEPT ![n] = UNION {collections[m] : m \in found}]
    /\ UNCHANGED <<collections, view, partial, checked, opened, turn>>

\* Mutation: a cut enumeration does not say so.
ServeUncut(q) ==
    IF MaySeeContent(q.to, q.from)
    THEN Reply(q, "entries", FirstOf(collections[q.to], MaxEntries), FALSE)
    ELSE Reply(q, "refused", {}, FALSE)

\* serve_collection: the first entries in the order of their ids.
ServeCollection(q) ==
    IF MaySeeContent(q.to, q.from)
    THEN Reply(q, "entries", FirstOf(collections[q.to], MaxEntries),
               Cardinality(collections[q.to]) > MaxEntries)
    ELSE Reply(q, "refused", {}, FALSE)

AnswerQuestion(q) ==
    /\ q.kind = "entries?"
    /\ directoryPost' = (directoryPost \ {q}) \cup {ServeCollection(q)}
    /\ UNCHANGED <<collections, viewVars>>

\* CollectionEnumerated does not say which question it answers: an answer to a
\* question of an earlier view goes into the view of now.
HearEntries(q) ==
    LET n == q.to
    IN  /\ q.kind = "entries"
        /\ view' = [view EXCEPT ![n] = @ \cup Inserted(checked[n], q.body)]
        /\ partial' = [partial EXCEPT ![n] = @ \/ q.cut]
        /\ directoryPost' = directoryPost \ {q}
        /\ UNCHANGED <<collections, checked, opened, turn, asking, due>>

\* The view of n will not have what the listings of m have to say.
Without(n, m) == {e \in due[n] : Listing[e].publisher # m}
Abandon(n, m, t) ==
    due' = IF turn[n] = t THEN [due EXCEPT ![n] = Without(n, m)] ELSE due

\* A refusal is an empty enumeration.
HearRefusal(q) ==
    /\ q.kind = "refused"
    /\ directoryPost' = directoryPost \ {q}
    /\ Abandon(q.to, q.from, q.turn)
    /\ UNCHANGED <<collections, view, partial, checked, opened, turn, asking>>

HandleDirectory(q) == AnswerQuestion(q) \/ HearEntries(q) \/ HearRefusal(q)

\* A question or its answer is lost: no handler hears of it.
LoseDirectoryMessage(q) ==
    /\ directoryPost' = directoryPost \ {q}
    /\ IF q.kind = "entries?" THEN Abandon(q.from, q.to, q.turn) ELSE Abandon(q.to, q.from, q.turn)
    /\ UNCHANGED <<collections, view, partial, checked, opened, turn, asking>>

\* The node restarts: its collections and its view are held in memory only, and
\* its connections are gone.
RestartDirectory(n) ==
    /\ collections' = [collections EXCEPT ![n] = {}]
    /\ view' = [view EXCEPT ![n] = {}]
    /\ partial' = [partial EXCEPT ![n] = FALSE]
    /\ checked' = [checked EXCEPT ![n] = 0]
    /\ opened' = [opened EXCEPT ![n] = 0]
    /\ asking' = [asking EXCEPT ![n] = FALSE]
    /\ directoryPost' = {q \in directoryPost : n \notin {q.from, q.to}}
    /\ due' = [m \in Node |-> IF m = n THEN {}
                ELSE IF \E q \in directoryPost : {q.from, q.to} = {n, m} THEN Without(m, n) ELSE due[m]]
    /\ UNCHANGED turn

\* AppendSetView::revalidate, which checks what the view holds once more.
RevalidateView(n) ==
    /\ checked[n] # 0
    /\ checked' = [checked EXCEPT ![n] = at[n]]
    /\ view' = [view EXCEPT ![n] = Inserted(at[n], @)]
    /\ UNCHANGED <<collections, partial, opened, turn, asking, due, directoryPost>>

\* resolve: the app that the log gives the name, or Nil.
Resolve(i, name) ==
    IF name \in DOMAIN History[i].names THEN History[i].names[name] ELSE Nil

\* browse: the listings of the view that the state i of the chain bears out, with
\* whether their app is delisted.
Resolved(i, e) ==
    [name |-> Listing[e].name, app |-> Listing[e].app, delisted |-> Listing[e].app \in History[i].delisted]
Browse(n, i) == {Resolved(i, e) : e \in {e \in view[n] : Resolve(i, Listing[e].name) = Listing[e].app}}

----------------------------------------------------------------------------
\* Properties

DirectoryTypeOK ==
    \A n \in Node : /\ view[n] \cup due[n] \cup collections[n] \subseteq DOMAIN Listing
                    /\ opened[n] <= checked[n] /\ checked[n] <= at[n]

\* A directory that does not say it is incomplete is not: when all its questions
\* are answered and nothing was cut, the view has every listing that the asked
\* members held when they were asked and that was valid ever since, although
\* answers to earlier questions mix with these (node.rs, serve_collection;
\* appendset.rs, mark_truncated: "so consumers can degrade honestly").
DirectoryIsWhole ==
    \A n \in Node :
        (~partial[n] /\ \A q \in directoryPost : n \notin {q.from, q.to}) =>
            \A e \in due[n] :
                (\A i \in opened[n] .. checked[n] : EntryIsValid(i, e)) => e \in view[n]

\* Whatever rival listings reached whom, and however old the views are, members
\* that have replayed the same chain never list different apps under one name
\* (registry.rs, browse: it "can never invent one or misattribute a name").
DirectoriesAgree ==
    \A n, m \in Node : at[n] = at[m] /\ at[n] # 0 =>
        \A a \in Browse(n, at[n]), b \in Browse(m, at[m]) : a.name = b.name => a = b

\* A view revalidated against the chain of now lists no delisted app and nothing
\* of a revoked member, also when older answers come in afterwards (appendset.rs,
\* validate and revalidate).
DirectoryIsModerated ==
    \A n \in Node : checked[n] = at[n] /\ at[n] # 0 =>
        /\ \A e \in view[n] : MemberValid(at[n], e)
        /\ \A l \in Browse(n, at[n]) : ~l.delisted

\* A directory is whole or says that it is not, agrees with every other one on
\* what a name stands for, and lists nothing that was moderated away (node.rs,
\* serve_collection; registry.rs, browse; appendset.rs, revalidate).
DirectoryIsSound == /\ DirectoryTypeOK
                    /\ DirectoryIsWhole /\ DirectoriesAgree /\ DirectoryIsModerated
=============================================================================

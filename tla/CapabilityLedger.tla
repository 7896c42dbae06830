-------------------------- MODULE CapabilityLedger --------------------------
(***************************************************************************)
(* The capability ledger of each member (crates/intranet-ledger/src/lib.rs  *)
(* and advertisement.rs) and the exchange that spreads it (the ledger       *)
(* protocol of crates/intranet-transport/src/node.rs): a digest of who      *)
(* advertised when, a fetch of what is missing or older, at most MaxAds      *)
(* advertisements per answer, and a new digest after a cut answer.           *)
(*                                                                         *)
(* An advertisement is its issue time and what it offers; the node it is of  *)
(* is the key it is stored under.  Signatures are taken to hold: an          *)
(* advertisement enters the model only by Advertise of the node it is of.    *)
(* MemberNode never calls remove, expire or reconcile on its ledger and      *)
(* hands it out by shared reference only, so no action does either.          *)
(***************************************************************************)
EXTENDS MemberView

CONSTANTS
    Offer,          \* what an advertisement may offer
    MaxAds,         \* MAX_ADVERTISEMENTS_PER_RESPONSE
    MaxIssued       \* bound: issue times

VARIABLES
    ledger,         \* ledger[n][m]: m's advertisement as n holds it, or Nil
    advertised,     \* advertised[m]: the advertisements m has signed
    ledgerPost      \* ledger messages in flight

ledgerVars == <<ledger, advertised, ledgerPost>>

Advertisement == [issued : 1 .. MaxIssued, offer : Offer]

LedgerInit ==
    /\ ledger = [n \in Node |-> [m \in Node |-> Nil]]
    /\ advertised = [m \in Node |-> {}]
    /\ ledgerPost = {}

\* insert, for the advertisements news[m] of the nodes m in its domain.
Insert(n, news) ==
    [m \in Node |-> IF /\ m \in DOMAIN news
                       /\ IsMember(n, m)
                       /\ ledger[n][m] = Nil \/ ledger[n][m].issued < news[m].issued
                    THEN news[m] ELSE ledger[n][m]]

\* advertise: only a node that sees itself as a member.  No two advertisements
\* of a node bear the same millisecond; its clock may still be set back.
Advertise(n, ad) ==
    /\ IsMember(n, n)
    /\ \A b \in advertised[n] : b.issued # ad.issued
    /\ advertised' = [advertised EXCEPT ![n] = @ \cup {ad}]
    /\ ledger' = [ledger EXCEPT ![n] = Insert(n, [m \in {n} |-> ad])]
    /\ UNCHANGED ledgerPost

\* digest, wanted_from, fetch.
LedgerDigest(n) == [m \in {m \in Node : ledger[n][m] # Nil} |-> ledger[n][m].issued]

\* Mutation: a newer advertisement of a known node is not asked for.
WantedUnknown(n, digest) == {m \in DOMAIN digest : ledger[n][m] = Nil}

WantedFrom(n, digest) ==
    {m \in DOMAIN digest : ledger[n][m] = Nil \/ ledger[n][m].issued < digest[m]}
Matched(n, nodes) == {m \in nodes : ledger[n][m] # Nil}
Fetched(n, nodes) == [m \in FirstOf(Matched(n, nodes), MaxAds) |-> ledger[n][m]]

LedgerMessage(kind, from, to, body, cut) ==
    [kind |-> kind, from |-> from, to |-> to, body |-> body, cut |-> cut]

\* The messages of an exchange that n started with m.
LedgerExchange(p, n, m) ==
    IF p.kind \in {"digest?", "fetch?"} THEN p.from = n /\ p.to = m ELSE p.from = m /\ p.to = n

\* sync_ledger_with: on every direct connection, and again whenever a governance
\* sync accepted entries.  Connections start one exchange at a time.
AskDigest(n, m) == LedgerMessage("digest?", n, m, <<>>, FALSE)

StartLedgerSync(n, m) ==
    /\ \A p \in ledgerPost : ~LedgerExchange(p, n, m)
    /\ ledgerPost' = ledgerPost \cup {AskDigest(n, m)}
    /\ UNCHANGED <<ledger, advertised>>

LedgerAfterSync(n, m) == /\ ledgerPost' = ledgerPost \cup {AskDigest(n, m)}
                         /\ UNCHANGED <<ledger, advertised>>

\* The request handler.
AnswerLedger(p) ==
    /\ p \in ledgerPost /\ p.kind \in {"digest?", "fetch?"}
    /\ LET answer == IF p.kind = "digest?"
                     THEN LedgerMessage("digest", p.to, p.from, LedgerDigest(p.to), FALSE)
                     ELSE LedgerMessage("ads", p.to, p.from, Fetched(p.to, p.body),
                                        Cardinality(Matched(p.to, p.body)) > MaxAds)
       IN  ledgerPost' = (ledgerPost \ {p}) \cup {answer}
    /\ UNCHANGED <<ledger, advertised>>

\* The response handler: a digest is answered by a fetch of what is wanted, and
\* a cut list of advertisements by a new digest.
HearDigest(p) ==
    /\ p \in ledgerPost /\ p.kind = "digest"
    /\ LET wanted == WantedFrom(p.to, p.body)
       IN  ledgerPost' = (ledgerPost \ {p}) \cup
              {LedgerMessage("fetch?", p.to, p.from, w, FALSE) : w \in {wanted} \ {{}}}
    /\ UNCHANGED <<ledger, advertised>>

HearAds(p) ==
    /\ p \in ledgerPost /\ p.kind = "ads"
    /\ ledger' = [ledger EXCEPT ![p.to] = Insert(p.to, p.body)]
    /\ ledgerPost' = (ledgerPost \ {p}) \cup
                     (IF p.cut THEN {AskDigest(p.to, p.from)} ELSE {})
    /\ UNCHANGED advertised

LoseLedgerMessage(p) == /\ p \in ledgerPost
                        /\ ledgerPost' = ledgerPost \ {p}
                        /\ UNCHANGED <<ledger, advertised>>

HandleLedger(p) == AnswerLedger(p) \/ HearDigest(p) \/ HearAds(p)

\* The node restarts: the ledger is held in memory only.
RestartLedger(n) == /\ ledger' = [ledger EXCEPT ![n] = [m \in Node |-> Nil]]
                    /\ ledgerPost' = {p \in ledgerPost : p.to # n /\ p.from # n}
                    /\ UNCHANGED advertised

\* The ledgers and the chain, whoever is connected and whatever is lost.
LedgerNext ==
    \/ /\ at' = at
       /\ \/ \E n \in Node, ad \in Advertisement : Advertise(n, ad)
          \/ \E n, m \in Node : StartLedgerSync(n, m)
          \/ \E p \in ledgerPost : HandleLedger(p) \/ LoseLedgerMessage(p)
          \/ \E n \in Node : RestartLedger(n)
    \/ \E n, m \in Node : SyncAccepted(n, m) /\ LedgerAfterSync(n, m)
    \/ \E n \in Node : AppendEntry(n) /\ UNCHANGED ledgerVars

LedgerSpec == /\ at \in [Node -> 0 .. Len(History)] /\ LedgerInit
              /\ [][LedgerNext]_<<at, ledgerVars>>

LedgerTypeOK ==
    /\ \A n, m \in Node : ledger[n][m] \in Advertisement \cup {Nil}
    /\ \A m \in Node : advertised[m] \subseteq Advertisement

LaterAd(a, b) == a.issued > b.issued

Ledgers == INSTANCE LatestWins WITH Replica <- Node, Key <- Node, None <- Nil,
              Later <- LaterAd, signed <- advertised, held <- ledger

\* The ledger implements LatestWins: whatever comes late, twice or after a
\* restart, a member never goes back to an earlier advertisement, and holds none
\* that its node did not sign (ledger/lib.rs, insert).
LedgerKeepsLatest == Ledgers!LatestSpec

\* Two connected members end up with the same advertisements: what the peer holds
\* of a member in the node's view, the node holds as late, although every answer
\* is cut to MaxAds, messages are lost and ledgers are lost in a restart.
LedgersAgree(n, m) ==
    \A k \in Node : (ledger[m][k] # Nil /\ IsMember(n, k)) =>
        ledger[n][k] # Nil /\ ~LaterAd(ledger[m][k], ledger[n][k])
=============================================================================

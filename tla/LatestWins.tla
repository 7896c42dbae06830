----------------------------- MODULE LatestWins -----------------------------
(***************************************************************************)
(* What the ledger and the pointer store promise: for every key a replica   *)
(* holds one of the records that were signed for it, and replaces it only   *)
(* by a later one.  Later is a strict total order on the records of a key,   *)
(* so whoever has seen the same records holds the same one, whatever order   *)
(* they came in.  A replica that restarts holds nothing and starts again.    *)
(***************************************************************************)
CONSTANTS
    Replica, Key,
    None,                   \* no record held
    Later(_, _)             \* Later(a, b): a supersedes b

VARIABLES
    signed,     \* signed[k]: the records signed for k so far
    held        \* held[n][k]: the record that n holds for k, or None

latestVars == <<signed, held>>

LatestInit == /\ signed = [k \in Key |-> {}]
              /\ held = [n \in Replica |-> [k \in Key |-> None]]

\* Records are signed, and replicas take records that were signed and are later.
Learn ==
    /\ \A k \in Key : signed[k] \subseteq signed'[k]
    /\ \A n \in Replica, k \in Key :
          \/ held'[n][k] = held[n][k]
          \/ held'[n][k] \in signed'[k] /\ held[n][k] = None
          \/ held'[n][k] \in signed'[k] /\ Later(held'[n][k], held[n][k])

Forget(n) == /\ signed' = signed
             /\ held' = [held EXCEPT ![n] = [k \in Key |-> None]]

LatestNext == Learn \/ \E n \in Replica : Forget(n)

LatestSpec == LatestInit /\ [][LatestNext]_latestVars
=============================================================================

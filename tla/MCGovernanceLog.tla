-------------------------- MODULE MCGovernanceLog --------------------------
(* Small instances of GovernanceLog and ForkChoice for TLC: two replicas under *)
(* one policy, with entries that may be unauthorized; and one replica whose    *)
(* finality parameters the chain itself changes.                               *)
EXTENDS ForkChoice

VARIABLE focus      \* which of the two instances this history is of

mcVars == <<vars, focus>>

MCDepthParams == {[k |-> 1, t |-> 0]}
MCTwoParams == {[k |-> 1, t |-> 1], [k |-> 2, t |-> 0]}
MCParams == MCDepthParams \cup MCTwoParams

MCInit == Init /\ focus \in {"replicas", "policy"}

\* What may be signed, and who takes part.
InFocus ==
    LET signed == {entry'[h] : h \in DOMAIN entry'} IN
    \* Replica 1 founds the network; fork choice never compares the hash of the
    \* genesis entry with another, so one will do.
    /\ held'[1] # {} /\ \A h \in DOMAIN entry' : entry'[h].kind = "Genesis" => h = 3
    /\ focus = "replicas" => \A e \in signed :
          e.time = 0 /\ e.fin \in MCDepthParams /\ e.kind # "PolicyChange"
    /\ focus = "policy" => /\ \A e \in signed :
                                 e.replays /\ e.fin \in MCTwoParams /\ e.kind # "DefineGroup"
                           /\ \A n \in Node \ {1} : held'[n] = {}

MCNext == Next /\ focus' = focus /\ InFocus

MCSpec == MCInit /\ [][MCNext]_mcVars
=============================================================================

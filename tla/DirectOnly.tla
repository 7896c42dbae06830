----------------------------- MODULE DirectOnly -----------------------------
(***************************************************************************)
(* The wrapper that keeps one protocol off relayed circuits                *)
(* (crates/intranet-transport/src/direct_only.rs), between the swarm and   *)
(* the behaviour it wraps, both external.  The swarm dials, accepts,       *)
(* refuses and closes connections; the inner behaviour keeps what it wants *)
(* to send to a peer it has no connection to, asks for a dial, and is told *)
(* of connections and of dials that failed only through the wrapper.       *)
(*                                                                         *)
(* The calls that the swarm makes for one connection, the handler request  *)
(* and the event that follows it, are one step: nothing is polled between  *)
(* them.  An address change alters no state and is left out.               *)
(***************************************************************************)
EXTENDS Naturals, Sequences, SequencesExt, TLC

CONSTANTS
    Remote,         \* the peers
    MaxConnections, \* how many connections are ever tried
    MaxAsks         \* how many times the inner behaviour has something to send

ASSUME DirectOnlyAssumption == MaxConnections \in Nat /\ MaxAsks \in Nat

VARIABLES
    links,      \* connections of the swarm: [peer, path] by id, path "dialling" at first
    tried,      \* the last connection id
    wrapper,    \* the fields of DirectOnly
    inner,      \* what the inner behaviour knows and holds: see below
    commands,   \* what the inner behaviour will return from poll
    notified,   \* connections whose handler was given something
    asks        \* how many times something was to be sent

directVars == <<links, tried, wrapper, inner, commands, notified, asks>>

Path == {"direct", "circuit"}
Without(f, x) == [y \in DOMAIN f \ {x} |-> f[y]]

\* relayed: circuits and whose they are; dialling: dials that inner asked for and
\* that are not settled; permitted: connections inner was given, oldest first.
new == [relayed |-> <<>>, dialling |-> {}, permitted |-> [p \in Remote |-> <<>>]]

permitted_for(w, p) == Len(w.permitted[p])

circuit_only(w, p) ==
    permitted_for(w, p) = 0 /\ \E c \in DOMAIN w.relayed : w.relayed[c] = p

-----------------------------------------------------------------------------
(* The inner behaviour, as direct_only.rs and the tests describe it: what  *)
(* it holds for a peer goes out on the peer's first connection and is      *)
(* given up when a dial to the peer fails, except for the swarm's refusal  *)
(* to dial a peer that it is already connected to or dialling.  joined:    *)
(* peers whose dial was so refused while a dial of somebody else was under *)
(* way.  Such a peer waits until that dial fails, a direct connection is   *)
(* made or something else is sent to it: when the other dial lands on a    *)
(* circuit, this behaviour hears nothing.                                  *)

Settled(i, p) == [i EXCEPT !.waiting = @ \ {p}, !.joined = @ \ {p}]

InnerDialFailure(i, p) == Settled(i, p)

InnerEstablished(i, c, p, other_established) ==
    LET told == [i EXCEPT !.connections[p] = @ \cup {c}]
    IN IF other_established = 0 THEN Settled(told, p) ELSE told

InnerClosed(i, c, p, remaining_established) ==
    [i EXCEPT !.connections[p] = IF remaining_established = 0 THEN {} ELSE @ \ {c}]

-----------------------------------------------------------------------------
(* The callbacks of the wrapper.  Each gives the wrapper and the inner     *)
(* behaviour after it.                                                     *)

handle_established_inbound_connection(s, c, p, path) ==
    IF path = "circuit" THEN [s EXCEPT !.w.relayed = (c :> p) @@ @] ELSE s

\* Mutation: a dial that lands on a circuit is not reported as failed.
outbound_unreported(s, c, p, path) ==
    IF path = "circuit" THEN [s EXCEPT !.w.relayed = (c :> p) @@ @, !.w.dialling = @ \ {c}]
                        ELSE [s EXCEPT !.w.dialling = @ \ {c}]

handle_established_outbound_connection(s, c, p, path) ==
    LET settled == [s EXCEPT !.w.dialling = @ \ {c}]
        withheld == [settled EXCEPT !.w.relayed = (c :> p) @@ @]
    IN IF path = "direct" THEN settled
       ELSE IF c \in s.w.dialling THEN [withheld EXCEPT !.i = InnerDialFailure(@, p)]
       ELSE withheld

on_connection_established(s, c, p) ==
    IF c \in DOMAIN s.w.relayed THEN s
    ELSE [w |-> [s.w EXCEPT !.permitted[p] = Append(@, c)],
          i |-> InnerEstablished(s.i, c, p, permitted_for(s.w, p))]

on_connection_closed(s, c, p) ==
    IF c \in DOMAIN s.w.relayed THEN [s EXCEPT !.w.relayed = Without(@, c)]
    ELSE LET w == [s.w EXCEPT !.permitted[p] = SelectSeq(@, LAMBDA id : id # c)]
         IN [w |-> w, i |-> InnerClosed(s.i, c, p, permitted_for(w, p))]

on_dial_failure(s, c, p) ==
    IF c \in s.w.dialling
    THEN [w |-> [s.w EXCEPT !.dialling = @ \ {c}], i |-> InnerDialFailure(s.i, p)]
    ELSE IF c \in DOMAIN s.w.relayed THEN [s EXCEPT !.w.relayed = Without(@, c)]
    ELSE [s EXCEPT !.i = InnerDialFailure(@, p)]

on_listen_failure(s, c, p) == [s EXCEPT !.w.relayed = Without(@, c)]

-----------------------------------------------------------------------------
State == [w |-> wrapper, i |-> inner]
Becomes(s) == wrapper' = s.w /\ inner' = s.i

Connected(p) == \E c \in DOMAIN links : links[c].peer = p /\ links[c].path # "dialling"
Dialling(p) == \E c \in DOMAIN links : links[c].peer = p /\ links[c].path = "dialling"

\* An id for a new connection.
Fresh(c) == tried < MaxConnections /\ c = tried + 1 /\ tried' = c

\* Another behaviour, or the node, dials p.
StrangerDials(p) ==
    /\ \E c \in {tried + 1} : Fresh(c) /\ links' = (c :> [peer |-> p, path |-> "dialling"]) @@ links
    /\ UNCHANGED <<wrapper, inner, commands, notified, asks>>

\* A dial is answered over one path.  Another behaviour may refuse the connection,
\* before this one is asked for a handler or after.
Land(c, path, refused) ==
    /\ c \in DOMAIN links /\ links[c].path = "dialling"
    /\ LET p == links[c].peer
           asked == handle_established_outbound_connection(State, c, p, path)
       IN CASE refused = "no" -> /\ links' = [links EXCEPT ![c].path = path]
                                 /\ Becomes(on_connection_established(asked, c, p))
            [] refused = "before" -> /\ links' = Without(links, c)
                                     /\ Becomes(on_dial_failure(State, c, p))
            [] refused = "after" -> /\ links' = Without(links, c)
                                    /\ Becomes(on_dial_failure(asked, c, p))
    /\ UNCHANGED <<tried, commands, notified, asks>>

\* No address answers.
DialFails(c) ==
    /\ c \in DOMAIN links /\ links[c].path = "dialling"
    /\ links' = Without(links, c)
    /\ Becomes(on_dial_failure(State, c, links[c].peer))
    /\ UNCHANGED <<tried, commands, notified, asks>>

Accept(p, path, refused) ==
    /\ \E c \in {tried + 1} :
          /\ Fresh(c)
          /\ LET asked == handle_established_inbound_connection(State, c, p, path)
             IN CASE refused = "no" -> /\ links' = (c :> [peer |-> p, path |-> path]) @@ links
                                       /\ Becomes(on_connection_established(asked, c, p))
                  [] refused = "before" -> /\ links' = links
                                           /\ Becomes(on_listen_failure(State, c, p))
                  [] refused = "after" -> /\ links' = links
                                          /\ Becomes(on_listen_failure(asked, c, p))
    /\ UNCHANGED <<commands, notified, asks>>

Hangup(c) ==
    /\ c \in DOMAIN links /\ links[c].path # "dialling"
    /\ links' = Without(links, c)
    /\ Becomes(on_connection_closed(State, c, links[c].peer))
    /\ UNCHANGED <<tried, commands, notified, asks>>

-----------------------------------------------------------------------------
\* The inner behaviour has something for p: it tells the handler of a connection
\* it knows, or of any, or holds it and asks for a dial.
Ask(p) ==
    /\ asks < MaxAsks /\ asks' = asks + 1
    /\ IF inner.connections[p] = {}
       THEN /\ inner' = [inner EXCEPT !.waiting = @ \cup {p}]
            /\ commands' = Append(commands, [type |-> "Dial", peer |-> p])
       ELSE /\ \E handler \in {{}} \cup {{c} : c \in inner.connections[p]} :
                  commands' = Append(commands, [type |-> "Notify", peer |-> p, handler |-> handler])
            /\ inner' = inner
    /\ UNCHANGED <<links, tried, wrapper, notified>>

\* The swarm is given a dial: it is refused when there is a connection to the peer
\* or a dial under way, which inner takes no notice of.
SwarmDials(w, p) ==
    \/ /\ Connected(p) \/ Dialling(p)
       /\ inner' = [inner EXCEPT !.joined =
             IF p \in inner.waiting /\ ~\E c \in w.dialling : links[c].peer = p
             THEN @ \cup {p} ELSE @]
       /\ UNCHANGED <<links, tried, wrapper>>
    \/ /\ ~Connected(p) /\ ~Dialling(p)
       /\ \E c \in {tried + 1} :
             /\ Fresh(c)
             /\ links' = (c :> [peer |-> p, path |-> "dialling"]) @@ links
             /\ wrapper' = [w EXCEPT !.dialling = @ \cup {c}]
       /\ inner' = inner

PollDial(p) ==
    IF circuit_only(wrapper, p)
    THEN Becomes([State EXCEPT !.i = InnerDialFailure(@, p)]) /\ UNCHANGED <<links, tried>>
    ELSE SwarmDials(wrapper, p)

Target(w, cmd) ==
    IF cmd.handler # {} THEN cmd.handler \ DOMAIN w.relayed
    ELSE {w.permitted[cmd.peer][n] : n \in {1} \cap DOMAIN w.permitted[cmd.peer]}

PollNotify(cmd) ==
    /\ notified' = notified \cup (Target(wrapper, cmd) \cap DOMAIN links)
    /\ UNCHANGED <<links, tried, wrapper, inner>>

poll ==
    /\ commands # <<>> /\ commands' = Tail(commands)
    /\ LET cmd == Head(commands)
       IN \/ cmd.type = "Dial" /\ PollDial(cmd.peer) /\ notified' = notified
          \/ cmd.type = "Notify" /\ PollNotify(cmd)
    /\ asks' = asks

DirectInit ==
    /\ links = <<>> /\ tried = 0 /\ wrapper = new
    /\ inner = [connections |-> [p \in Remote |-> {}], waiting |-> {}, joined |-> {}]
    /\ commands = <<>> /\ notified = {} /\ asks = 0

DirectNext ==
    \/ poll
    \/ \E p \in Remote :
          \/ Ask(p) \/ StrangerDials(p)
          \/ \E path \in Path, refused \in {"no", "before", "after"} : Accept(p, path, refused)
    \/ \E c \in DOMAIN links :
          \/ DialFails(c) \/ Hangup(c)
          \/ \E path \in Path, refused \in {"no", "before", "after"} : Land(c, path, refused)

-----------------------------------------------------------------------------
\* The inner behaviour knows exactly the direct connections that are open, in its
\* own account and in the wrapper's, and the wrapper remembers exactly the open
\* circuits and the dials under way, whichever of them were refused or closed in
\* whatever order (direct_only.rs, on_swarm_event).
SeesDirectOnly ==
    LET Open(p, path) == {c \in DOMAIN links : links[c] = [peer |-> p, path |-> path]} IN
    /\ \A p \in Remote :
          /\ inner.connections[p] = Open(p, "direct")
          /\ ToSet(wrapper.permitted[p]) = Open(p, "direct")
          /\ {c \in DOMAIN wrapper.relayed : wrapper.relayed[c] = p} = Open(p, "circuit")
    /\ \A c \in wrapper.dialling : c \in DOMAIN links /\ links[c].path = "dialling"

\* What inner held for a peer goes out when the peer has a connection it may use,
\* though circuits to the peer are open already: the first direct connection is
\* announced as the first (direct_only.rs, on_swarm_event).
SentOnceConnected ==
    \A p \in inner.waiting : inner.connections[p] = {}

\* Nothing is handed to the handler of a circuit, which has no use for it and
\* would panic (direct_only.rs, poll).
CircuitsCarryNothing ==
    \A c \in notified \cap DOMAIN links : links[c].path = "direct"

\* Nothing is held without a dial of its own that will settle it, unless the
\* swarm refused that dial because somebody else was dialling (direct_only.rs,
\* handle_established_outbound_connection).
HeldForADial ==
    \A p \in inner.waiting \ inner.joined :
       \/ \E n \in DOMAIN commands : commands[n] = [type |-> "Dial", peer |-> p]
       \/ \E c \in wrapper.dialling : links[c].peer = p

\* The wrapped protocol lives on direct connections alone: it sees exactly those,
\* sends over nothing else, and waits for nothing that will not be settled
\* (direct_only.rs, on_swarm_event and poll).
WrapperIsSound ==
    SeesDirectOnly /\ SentOnceConnected /\ CircuitsCarryNothing /\ HeldForADial
=============================================================================

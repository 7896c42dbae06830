---------------------------- MODULE MCTransport ----------------------------
(***************************************************************************)
(* Connections, dials and messages, which share no state: every history is *)
(* about one of them.  Of the messages, plain and rich values of every     *)
(* kind are sent; the faults strike the rich ones and the default, which   *)
(* between them carry every variant and every field.                       *)
(***************************************************************************)
EXTENDS ConnectionTiers, DirectOnly, WireChannel

CONSTANT Tokens             \* the numbers a damaged token may hold

VARIABLE focus              \* "connections", "dials" or "messages"

mcVars == <<vars, directVars, wireVars, focus>>

----------------------------------------------------------------------------
\* Values to send.  For a format of a writer, the plain values: everything at
\* its default except at most one field; and the rich values: every option
\* present, every collection filled to two items, every text and byte string
\* non-empty, one value per choice of a sum type.  The number of values grows
\* with the number of fields, not with their product.

Fill(n, x) == [i \in 1 .. n |-> x]

RECURSIVE Default(_)
Default(f) ==
    CASE f.is = "nothing" -> << >>
      [] f.is \in {"fixed", "identity"} -> 1
      [] f.is = "below" -> 0
      [] f.is = "bytes" -> << >>
      [] f.is = "text" -> IF f.colon = "inside" THEN <<1, Colon, 2>> ELSE <<1>>
      [] f.is \in {"opt", "list", "addresses"} -> << >>
      [] f.is \in {"set", "dict"} -> {}
      [] f.is = "fields" ->
           [name \in {f.fs[i][1] : i \in DOMAIN f.fs} |->
               LET i == CHOOSE j \in DOMAIN f.fs : f.fs[j][1] = name
               IN  Default(f.fs[i][2])]
      [] f.is = "cases" -> <<f.cs[1][2], Default(f.cs[1][3])>>
      [] f.is \in {"framed", "domain", "signed"} -> Default(f.of)

RECURSIVE Others(_)
Others(f) ==
    LET d == Default(f.of)
        some == {d} \cup Others(f.of)
    IN  CASE f.is = "nothing" -> {}
          [] f.is = "fixed" -> {0, 2}
          [] f.is = "identity" -> {2}
          [] f.is = "below" -> 1 .. f.n - 1
          [] f.is = "bytes" -> {<<1>>, Fill(Min({f.max, Unbounded}), 2)}
          [] f.is = "text" ->
               CASE f.colon = "inside" -> {<<2, Colon, 1>>}
                 [] f.colon = "any" ->
                      {<<2>>, Fill(Min({f.max, Unbounded}), Colon)}
                        \cup (IF f.min = 0 THEN {<< >>} ELSE {})
                 [] OTHER -> {<<2>>, Fill(Min({f.max, Unbounded}), 1)}
          [] f.is = "opt" -> {<<x>> : x \in some}
          [] f.is = "list" -> {<<d>>, Fill(Min({f.max, Unbounded}), d)} \cup {<<x, d>> : x \in some}
          [] f.is = "set" -> {{x} : x \in some} \cup {{d, x} : x \in Others(f.of)}
          [] f.is = "dict" ->
               {{<<Default(f.key), x>>} : x \in some}
                 \cup {{<<Default(f.key), d>>, <<k, x>>} :
                          k \in Others(f.key), x \in some}
          [] f.is = "fields" ->
               LET base == Default(f) IN
               UNION {{[base EXCEPT ![f.fs[i][1]] = x] : x \in Others(f.fs[i][2])}
                         : i \in DOMAIN f.fs}
          [] f.is = "cases" ->
               UNION {{<<f.cs[i][2], x>> : x \in {Default(f.cs[i][3])} \cup Others(f.cs[i][3])}
                         : i \in DOMAIN f.cs}
          [] f.is \in {"framed", "domain", "signed"} -> Others(f.of)
          [] f.is = "addresses" ->
               {<< <<1, 2>> >>, << <<1, 2>>, <<2, 2>> >>, << <<2>>, <<1, 2>> >>,
                << <<1>>, <<2>> >>, << << >>, <<1>> >>} \cup {Fill(f.max, Fill(f.length, 2))}

RECURSIVE Rich(_)
Rich(f) ==
    LET within == Rich(f.of)
    IN  CASE f.is = "nothing" -> {<< >>}
          [] f.is \in {"fixed", "identity"} -> {2}
          [] f.is = "below" -> {1}
          [] f.is = "bytes" -> {<<1, 2>>}
          [] f.is = "text" -> {IF f.colon = "inside" THEN <<2, Colon, 2>> ELSE <<1, 2>>}
          [] f.is = "opt" -> {<<x>> : x \in within}
          [] f.is = "list" -> {<<x, Default(f.of)>> : x \in within}
          [] f.is = "set" -> {{x, Default(f.of)} : x \in within}
          [] f.is = "dict" ->
               {{<<k, x>>, <<Default(f.key), Default(f.of)>>} :
                   k \in Rich(f.key), x \in within}
          [] f.is = "fields" ->
               LET pick == [name \in {f.fs[i][1] : i \in DOMAIN f.fs} |->
                              LET i == CHOOSE j \in DOMAIN f.fs : f.fs[j][1] = name
                              IN  CHOOSE x \in Rich(f.fs[i][2]) : TRUE]
               IN  {pick} \cup
                   UNION {{[pick EXCEPT ![f.fs[i][1]] = x] : x \in Rich(f.fs[i][2])}
                             : i \in DOMAIN f.fs}
          [] f.is = "cases" ->
               UNION {{<<f.cs[i][2], x>> : x \in Rich(f.cs[i][3])} : i \in DOMAIN f.cs}
          [] f.is \in {"framed", "domain", "signed"} -> within
          [] f.is = "addresses" -> {<< <<1, 2>>, <<2, 2>> >>}

Samples(f) == {Default(f)} \cup Others(f) \cup Rich(f)

Values == [k \in Kinds |-> Samples(Writer[k])]
Fragile == [k \in Kinds |-> {Default(Writer[k])} \cup Rich(Writer[k])]

MCInit == Init /\ DirectInit /\ WireInit /\ focus \in {"connections", "dials", "messages"}

MCFault ==
    /\ phase = "sent" /\ fault = "none"
    /\ msg[2] \in Fragile[msg[1]]
    /\ \/ \E n \in 0 .. Len(wire) : Cut(n)
       \/ \E n \in Tokens : Pad(NumTok(n))
       \/ \E i \in DOMAIN wire, n \in Tokens : Alter(i, NumTok(n))
       \/ \E i \in DOMAIN wire : Swap(i)
       \/ \E k \in Kinds : Divert(k)

MessageNext ==
    \/ phase = "idle" /\ \E k \in Kinds : \E v \in Values[k] : Write(k, v)
    \/ MCFault
    \/ read_framed
    \/ Close

MCNext ==
    /\ focus' = focus
    /\ \/ focus = "connections" /\ Next /\ UNCHANGED <<directVars, wireVars>>
       \/ focus = "dials" /\ DirectNext /\ UNCHANGED <<vars, wireVars>>
       \/ focus = "messages" /\ MessageNext /\ UNCHANGED <<vars, directVars>>

MCSpec == MCInit /\ [][MCNext]_mcVars /\ Fairness
=============================================================================

------------------------------- MODULE Codec -------------------------------
(***************************************************************************)
(* The canonical encoding every message, signature and hash of the system  *)
(* is built from: `Enc` (crates/intranet-crypto/src/enc.rs) writes a value *)
(* field by field, `Dec` (dec.rs) reads one back and refuses whatever      *)
(* `Enc` could not have written.                                           *)
(*                                                                         *)
(* A format says in which order a function of the source writes or reads   *)
(* its fields.  The encode function and the decode function of a message   *)
(* are two formats, each translated from its own lines of the source, and  *)
(* nothing here makes them agree.                                          *)
(*                                                                         *)
(* Data abstraction: a fixed-width field (u8, u32, u64, i64, a hash, a     *)
(* key) is one token holding a number; a length or a count is one token; a *)
(* byte string is its length and one token per byte; a domain tag is one   *)
(* token; a signature is one token that names the signer and the payload   *)
(* signed (no two payloads share one).                                     *)
(***************************************************************************)
EXTENDS Naturals, FiniteSets, Sequences, SequencesExt, TLC

CONSTANTS
    Cap,        \* every ceiling on a count or a length (MAX_... in the source)
    Over        \* how far past a reader's ceiling an unbounded writer may go

ASSUME CapAssumption == Cap \in Nat \ {0, 1} /\ Over \in Nat

NoCeiling == 100                       \* a length the reader does not bound
Unbounded == Cap + Over                \* what a writer without a bound sends

\* --------------------------------------------------------------- formats
Nothing == [is |-> "nothing"]
Fixed == [is |-> "fixed"]
Identity == [is |-> "identity"]
Below(n) == [is |-> "below", n |-> n]
Bool == Below(2)
Bytes(max) == [is |-> "bytes", max |-> max]

\* Text with the shape the reader insists on: a smallest length, and whether
\* the separator ':' may occur ("any"), must not ("never"), or must occur with
\* text on both sides ("inside").
Text(min, max, colon) ==
    [is |-> "text", min |-> min, max |-> max, colon |-> colon]
Str == Text(0, NoCeiling, "any")
Opt(f) == [is |-> "opt", of |-> f]
List(f, max) == [is |-> "list", of |-> f, max |-> max]
SetOf(f, max) == [is |-> "set", of |-> f, max |-> max]
Dict(key, f, max) == [is |-> "dict", key |-> key, of |-> f, max |-> max]
Fields(fs) == [is |-> "fields", fs |-> fs]
F(name, f) == <<name, f>>
Cases(cs) == [is |-> "cases", cs |-> cs]
C(tag, name, f) == <<tag, name, f>>
Framed(f) == [is |-> "framed", of |-> f]
Domain(tag, f) == [is |-> "domain", tag |-> tag, of |-> f]

\* The fields of f, then `by`'s signature over the payload format `over`.
Signed(f, by, over) ==
    [is |-> "signed", of |-> f, by |-> by, over |-> over]

\* Addresses written as a shared ending and one head per address.
Addresses(maxCount, maxLength) ==
    [is |-> "addresses", max |-> maxCount, length |-> maxLength]

\* ---------------------------------------------------------------- tokens
Colon == 3
NotUtf8 == 0
NumTok(n) == <<n>>
TagTok(tag) == <<"tag", tag>>
SigTok(signer, payload) == <<"sig", signer, payload>>
IsNum(tok) == Len(tok) = 1

\* ------------------------------------------------------------------- Enc
\* The longest sequence every one of these ends with.
common_suffix(addresses) ==
    IF addresses = << >> THEN << >>
    ELSE LET first == addresses[1]
             Shared(n) == \A i \in DOMAIN addresses :
                 /\ n <= Len(addresses[i])
                 /\ \A j \in 0 .. n - 1 :
                      addresses[i][Len(addresses[i]) - j] = first[Len(first) - j]
             length == CHOOSE n \in 0 .. Len(first) :
                 Shared(n) /\ \A m \in 0 .. Len(first) : Shared(m) => m <= n
         IN  SubSeq(first, Len(first) - length + 1, Len(first))

EncBytes(bytes) ==
    <<NumTok(Len(bytes))>> \o [i \in 1 .. Len(bytes) |-> NumTok(bytes[i])]

put_addresses(addresses) ==
    LET suffix == common_suffix(addresses)
        Head1(a) == EncBytes(SubSeq(a, 1, Len(a) - Len(suffix)))
    IN  EncBytes(suffix) \o <<NumTok(Len(addresses))>>
          \o FlattenSeq([i \in 1 .. Len(addresses) |-> Head1(addresses[i])])

RECURSIVE Encode(_, _)
Encode(f, v) ==
    LET Items(s) ==
          <<NumTok(Len(s))>> \o FlattenSeq([i \in 1 .. Len(s) |-> Encode(f.of, s[i])])
    IN  CASE f.is = "nothing" -> << >>
          [] f.is \in {"fixed", "identity", "below"} -> <<NumTok(v)>>
          [] f.is \in {"bytes", "text"} -> EncBytes(v)
          [] f.is = "opt" ->
               IF v = << >> THEN <<NumTok(0)>>
               ELSE <<NumTok(1)>> \o Encode(f.of, v[1])
          [] f.is = "list" -> Items(v)
          [] f.is = "set" -> Items(SetToSeq(v))
          [] f.is = "dict" ->
               LET s == SetToSeq(v) IN
               <<NumTok(Len(s))>> \o FlattenSeq([i \in 1 .. Len(s) |->
                   Encode(f.key, s[i][1]) \o Encode(f.of, s[i][2])])
          [] f.is = "fields" ->
               FlattenSeq([i \in 1 .. Len(f.fs) |->
                   Encode(f.fs[i][2], v[f.fs[i][1]])])
          [] f.is = "cases" ->
               LET i == CHOOSE j \in DOMAIN f.cs : f.cs[j][2] = v[1] IN
               <<NumTok(f.cs[i][1])>> \o Encode(f.cs[i][3], v[2])
          [] f.is = "framed" ->
               LET b == Encode(f.of, v) IN <<NumTok(Len(b))>> \o b
          [] f.is = "domain" -> <<TagTok(f.tag)>> \o Encode(f.of, v)
          [] f.is = "signed" ->
               Encode(f.of, v) \o <<SigTok(v[f.by], Encode(f.over, v))>>
          [] f.is = "addresses" -> put_addresses(v)

\* ------------------------------------------------------------------- Dec
\* A reader's answer: a value and what is left of the input, or a refusal.
Refused == [ok |-> FALSE]
Got(v, rest) == [ok |-> TRUE, v |-> v, rest |-> rest]

\* take of a fixed-width number.  (A tag or a signature read where a number
\* is due is refused: its bytes would be a number no ceiling admits.)
DecNumber(t) ==
    IF t = << >> THEN Refused
    ELSE IF IsNum(Head(t)) THEN Got(Head(t)[1], Tail(t)) ELSE Refused

\* A count or length, checked against what is left of the input.
DecLength(t) ==
    LET d == DecNumber(t) IN
    IF ~d.ok THEN Refused
    ELSE IF d.v > Len(d.rest) THEN Refused ELSE d

DecBytes(t) ==
    LET d == DecLength(t) IN
    IF ~d.ok THEN Refused
    ELSE IF \A i \in 1 .. d.v : IsNum(d.rest[i])
         THEN Got([i \in 1 .. d.v |-> d.rest[i][1]], SubSeq(d.rest, d.v + 1, Len(d.rest)))
         ELSE Refused

\* What d.str() and the checks a reader makes on the text admit.
TextOk(f, s) ==
    /\ Len(s) \in f.min .. f.max
    /\ \A i \in DOMAIN s : s[i] # NotUtf8
    /\ f.colon = "never" => \A i \in DOMAIN s : s[i] # Colon
    /\ f.colon = "inside" =>
         \E i \in 2 .. Len(s) - 1 :
             s[i] = Colon /\ \A j \in 1 .. i - 1 : s[j] # Colon

\* Keeps d when the check holds, refuses otherwise.
Where(d, check) == IF check THEN d ELSE Refused

\* Collecting pairs into a map: the last pair of a key wins.
Collect(pairs) ==
    {pairs[i] : i \in {j \in DOMAIN pairs :
        \A k \in DOMAIN pairs : k > j => pairs[k][1] # pairs[j][1]}}

\* Reads the addresses back, each head joined to the shared ending; the
\* ceilings are applied to the addresses as reconstructed.
RECURSIVE DecHeads(_, _, _)
DecHeads(n, suffix, t) ==
    IF n = 0 THEN Got(<< >>, t)
    ELSE LET head == DecBytes(t) IN
         IF ~head.ok THEN Refused
         ELSE LET more == DecHeads(n - 1, suffix, head.rest) IN
              IF ~more.ok THEN Refused
              ELSE Got(<<head.v \o suffix>> \o more.v, more.rest)

get_addresses(f, t) ==
    LET suffix == LET d == DecBytes(t) IN IF d.ok THEN Where(d, TextOk(Str, d.v)) ELSE d
        count == IF suffix.ok THEN DecLength(suffix.rest) ELSE Refused
        all == IF count.ok THEN DecHeads(count.v, suffix.v, count.rest) ELSE Refused
    IN  IF ~all.ok THEN Refused
        ELSE Where(all, /\ Len(all.v) <= f.max
                        /\ \A i \in DOMAIN all.v :
                             TextOk(Text(0, f.length, "any"), all.v[i]))

RECURSIVE Decode(_, _)
RECURSIVE DecItems(_, _, _)
RECURSIVE DecFields(_, _)

\* n items of one format.
DecItems(f, n, t) ==
    IF n = 0 THEN Got(<< >>, t)
    ELSE LET d == Decode(f, t) IN
         IF ~d.ok THEN Refused
         ELSE LET more == DecItems(f, n - 1, d.rest) IN
              IF ~more.ok THEN Refused ELSE Got(<<d.v>> \o more.v, more.rest)

\* Named fields in the order the reader takes them.
DecFields(fs, t) ==
    IF fs = << >> THEN Got(<< >>, t)
    ELSE LET d == Decode(fs[1][2], t) IN
         IF ~d.ok THEN Refused
         ELSE LET more == DecFields(Tail(fs), d.rest) IN
              IF ~more.ok THEN Refused
              ELSE Got((fs[1][1] :> d.v) @@ more.v, more.rest)

\* finish: the whole input is one value of the format.
DecodeAll(f, t) ==
    LET d == Decode(f, t) IN
    IF ~d.ok THEN Refused ELSE Where(d, d.rest = << >>)

\* The signature that closes a signed value is `by`'s over the payload the
\* reader re-encodes from what it has just read.
verify(f, d) ==
    IF ~d.ok THEN Refused
    ELSE IF d.rest = << >> THEN Refused
    ELSE Where(Got(d.v, Tail(d.rest)),
               Head(d.rest) = SigTok(d.v[f.by], Encode(f.over, d.v)))

\* Dec::domain: the tag the reader expects, and nothing else.
DecDomain(tag, t) ==
    IF t = << >> THEN Refused
    ELSE Where(Got(tag, Tail(t)), Head(t) = TagTok(tag))

Decode(f, t) ==
    LET n == DecNumber(t)
        bytes == DecBytes(t)
        count == DecLength(t)
        items == IF count.ok THEN DecItems(f.of, count.v, count.rest) ELSE Refused
        pair == Fields(<<F("key", f.key), F("value", f.of)>>)
        pairs == IF count.ok THEN DecItems(pair, count.v, count.rest) ELSE Refused
    IN  CASE f.is = "nothing" -> Got(<< >>, t)
          [] f.is = "fixed" -> n
          [] f.is = "identity" -> IF n.ok THEN Where(n, n.v # 0) ELSE n
          [] f.is = "below" -> IF n.ok THEN Where(n, n.v < f.n) ELSE n
          [] f.is = "bytes" ->
               IF bytes.ok THEN Where(bytes, Len(bytes.v) <= f.max) ELSE bytes
          [] f.is = "text" ->
               IF bytes.ok THEN Where(bytes, TextOk(f, bytes.v)) ELSE bytes
          [] f.is = "opt" ->
               IF ~n.ok THEN n
               ELSE IF n.v = 0 THEN Got(<< >>, n.rest)
               ELSE IF n.v # 1 THEN Refused
               ELSE LET d == Decode(f.of, n.rest) IN
                    IF d.ok THEN Got(<<d.v>>, d.rest) ELSE d
          [] f.is = "list" ->
               IF items.ok THEN Where(items, Len(items.v) <= f.max) ELSE items
          [] f.is = "set" ->
               IF items.ok
               THEN Where(Got(Range(items.v), items.rest), Len(items.v) <= f.max)
               ELSE items
          [] f.is = "dict" ->
               IF pairs.ok
               THEN Where(Got(Collect([i \in DOMAIN pairs.v |->
                                  <<pairs.v[i].key, pairs.v[i].value>>]), pairs.rest),
                          Len(pairs.v) <= f.max)
               ELSE pairs
          [] f.is = "fields" -> DecFields(f.fs, t)
          [] f.is = "cases" ->
               IF ~n.ok THEN n
               ELSE IF \A i \in DOMAIN f.cs : f.cs[i][1] # n.v THEN Refused
               ELSE LET i == CHOOSE j \in DOMAIN f.cs : f.cs[j][1] = n.v
                        d == Decode(f.cs[i][3], n.rest)
                    IN  IF d.ok THEN Got(<<f.cs[i][2], d.v>>, d.rest) ELSE d
          [] f.is = "framed" ->
               IF ~count.ok THEN count
               ELSE LET d == DecodeAll(f.of, SubSeq(count.rest, 1, count.v)) IN
                    IF d.ok
                    THEN Got(d.v, SubSeq(count.rest, count.v + 1, Len(count.rest)))
                    ELSE d
          [] f.is = "domain" ->
               LET d == DecDomain(f.tag, t) IN IF d.ok THEN Decode(f.of, d.rest) ELSE d
          [] f.is = "signed" -> verify(f, Decode(f.of, t))
          [] f.is = "addresses" -> get_addresses(f, t)
=============================================================================

---------------------------- MODULE ContentObject ----------------------------
(***************************************************************************)
(* An object that grows by appending, and a reader that follows it by      *)
(* fetching only the chunks it lacks (crates/intranet-storage/src:         *)
(* object.rs, chunk.rs, crypto.rs, store.rs).                              *)
(*                                                                         *)
(* A plaintext is a sequence of Data.  Sealing is deterministic and an     *)
(* identifier is the hash of the sealed bytes, so an identifier stands for *)
(* the sealed chunk it names: it records the key and the plaintext.  The   *)
(* key of an object is fixed for its life; `Dek` is that key.              *)
(***************************************************************************)
EXTENDS Integers, Sequences, SequencesExt

CONSTANTS Floor, Ceiling,   \* ChunkSpec::FLOOR and ChunkSpec::CEILING
          TargetSize,       \* NetworkPolicy.target_chunk_size
          MaxAppend,        \* bound on the length of one append
          MaxPlain,         \* bound on the length of the object
          MaxFollows,       \* bound on the versions the reader fetches
          MaxDropped        \* bound on the chunks the reader drops

\* How the rolling hash takes a byte: it ends no chunk, it ends one that has
\* reached the target, or it ends any chunk that has reached the minimum.
Data == {"plain", "lenient", "strict"}

Clamp(n, low, high) == IF n < low THEN low ELSE IF n > high THEN high ELSE n

from_target(size) ==
    LET target == Clamp(size, Floor, Ceiling)
        least == target \div 4
        most == target * 4
    IN  [min    |-> IF least < Floor \div 4 THEN Floor \div 4 ELSE least,
         target |-> target,
         max    |-> IF most > Ceiling THEN Ceiling ELSE most]

Chunking == from_target(TargetSize)

ASSUME ObjectAssumption ==
    /\ {Floor, Ceiling, TargetSize, MaxAppend, MaxPlain, MaxFollows, MaxDropped} \subseteq Nat
    /\ Floor \div 4 > 0 /\ Floor <= Ceiling

VARIABLES plain,     \* everything appended so far
          tail,      \* AppendOnlyObject.tail
          object,    \* AppendOnlyObject.object: its manifest
          known,     \* the manifest the reader has
          held,      \* the reader's ChunkStore
          read,      \* what its last decode returned, and of which plaintext
          follows,   \* versions it fetched
          dropped    \* chunks it dropped

objectVars == <<plain, tail, object, known, held, read, follows, dropped>>

(***************************************************************************)
(* The chunker.  FastCDC starts afresh at every boundary; a chunk of a     *)
(* region ends before the first byte past the minimum that its mask lets   *)
(* end it, the mask being looser past the target, at the latest at the     *)
(* maximum, or with the region.                                            *)
(***************************************************************************)
Ends(region, from, n) ==
    LET next == region[from + n]
    IN  \/ n >= Chunking.max
        \/ n >= Chunking.target /\ next = "lenient"
        \/ next = "strict"

CutLength(region, from) ==
    LET left == Len(region) - from + 1
        cuts == {n \in Chunking.min .. left - 1 : Ends(region, from, n)}
    IN  IF cuts = {} THEN left ELSE CHOOSE n \in cuts : \A m \in cuts : n <= m

cut(region) ==
    LET cutFrom[from \in 1 .. Len(region) + 1] ==
            IF from > Len(region) THEN <<>>
            ELSE LET n == CutLength(region, from)
                 IN  <<SubSeq(region, from, from + n - 1)>> \o cutFrom[from + n]
    IN  cutFrom[1]

split(plaintext) ==
    IF plaintext = <<>> THEN <<>>
    ELSE IF Len(plaintext) <= Chunking.target THEN <<plaintext>>
    ELSE cut(plaintext)

Seal(pieces) == [i \in DOMAIN pieces |-> [dek |-> "Dek", plaintext |-> pieces[i]]]

Manifest(chunks, length) == [chunks |-> chunks, plaintextLen |-> length]

NoObject == Manifest(<<>>, 0)

encode(plaintext) == Manifest(Seal(split(plaintext)), Len(plaintext))

\* EncodedObject::new_chunks_since
new_chunks_since(manifest, previous) == ToSet(manifest.chunks) \ ToSet(previous.chunks)

\* decode: the plaintext, or nothing when a chunk is missing or the lengths
\* do not add up.
decode(manifest, blobs) ==
    LET whole == FlattenSeq([i \in DOMAIN manifest.chunks |-> manifest.chunks[i].plaintext])
    IN  {p \in {whole} : /\ ToSet(manifest.chunks) \subseteq blobs
                         /\ Len(p) = manifest.plaintextLen}
------------------------------------------------------------------------------
ObjectInit ==
    /\ plain = <<>>
    /\ tail = <<>>
    /\ object = NoObject
    /\ known = NoObject
    /\ held = {}
    /\ read = [got |-> {<<>>}, of |-> <<>>]
    /\ follows = 0
    /\ dropped = 0

\* Mutation: the exemption is asked of the region.
PiecesByRegion(settled, region) == split(region)

\* The exemption of small content is asked of the object, not of the region.
Pieces(settled, region) ==
    IF settled = 0 /\ Len(region) <= Chunking.target THEN <<region>> ELSE cut(region)

\* AppendOnlyObject::extend
extend(more) ==
    /\ Len(plain) + Len(more) <= MaxPlain
    /\ more # <<>>
    /\ LET kept    == IF tail = <<>> THEN object.chunks ELSE Front(object.chunks)
           settled == object.plaintextLen - Len(tail)
           region  == tail \o more
           pieces  == Pieces(settled, region)
       IN  /\ tail' = Last(pieces)
           /\ object' = Manifest(kept \o Seal(pieces), settled + Len(region))
    /\ plain' = plain \o more
    /\ UNCHANGED <<known, held, read, follows, dropped>>

\* The reader resolves the object, fetches what it lacks and decodes it.
Follow ==
    /\ follows < MaxFollows
    /\ known # object
    /\ follows' = follows + 1
    /\ known' = object
    /\ held' = held \cup new_chunks_since(object, known)
    /\ read' = [got |-> decode(object, held'), of |-> plain]
    /\ UNCHANGED <<plain, tail, object, dropped>>

\* ChunkStore::remove
Drop(c) ==
    /\ dropped < MaxDropped
    /\ c \in held
    /\ held' = held \ {c}
    /\ dropped' = dropped + 1
    /\ UNCHANGED <<plain, tail, object, known, read, follows>>

ObjectNext ==
    \/ \E n \in 1..MaxAppend : \E more \in [1..n -> Data] : extend(more)
    \/ Follow
    \/ \E c \in held : Drop(c)
------------------------------------------------------------------------------
(***************************************************************************)
(* However the appends divide the plaintext, the object is the one a       *)
(* whole-object encode yields: same boundaries, same chunks, same          *)
(* manifest.  extend re-cuts only the tail.                                *)
(***************************************************************************)
AppendsEncodeTheWhole == object = encode(plain)

(***************************************************************************)
(* The chunks new_chunks_since leaves out are ones the reader fetched for  *)
(* an earlier version: unless it has dropped one since, every read gives   *)
(* the plaintext of the version it asked for.                              *)
(***************************************************************************)
DeltaSuffices == dropped = 0 => read.got = {read.of}

(***************************************************************************)
(* A read never returns part of an object as the whole: after a drop,      *)
(* decode either fails or returns everything.                              *)
(***************************************************************************)
ReadsAreWhole == read.got \subseteq {read.of}

(***************************************************************************)
(* However an object is appended to and followed, a reader gets the whole  *)
(* of the version it asked for or, when it lost a chunk, nothing; and the  *)
(* versions are what a whole encode yields (object.rs, extend, decode and  *)
(* new_chunks_since).                                                      *)
(***************************************************************************)
VersionsAreWhole == AppendsEncodeTheWhole /\ DeltaSuffices /\ ReadsAreWhole
==============================================================================

---------------------------- MODULE WireChannel ----------------------------
(***************************************************************************)
(* One message at a time from a writer to a reader: encoded, carried over  *)
(* a stream that may end early, carry extra bytes or a damaged one, or     *)
(* hand the bytes to the reader of another protocol, read up to the        *)
(* ceiling of the message type (crates/intranet-transport/src/sync.rs) and *)
(* decoded.  The formats are those of WireFormats.                         *)
(***************************************************************************)
EXTENDS WireFormats

CONSTANT Kinds              \* the kinds of message of this instance

VARIABLES
    phase,      \* "idle", "sent" or "read"
    msg,        \* what was sent: <<kind, value>>
    wire,       \* the tokens in transit
    fault,      \* what happened to them
    reader,     \* the kind whose decode function is given the tokens
    got         \* what that function returned

wireVars == <<phase, msg, wire, fault, reader, got>>

\* ------------------------------------------------------------ the protocols
\* wire_message!: each type with its encode and decode functions.
Writer == [k \in Kinds |->
    CASE k = "Entry" -> encode_entry
      [] k = "SyncRequest" -> SyncRequest_encode
      [] k = "SyncResponse" -> SyncResponse_encode
      [] k = "BallotRequest" -> BallotRequest_encode
      [] k = "BallotResponse" -> BallotResponse_encode
      [] k = "ChunkRequest" -> ChunkRequest_encode
      [] k = "ChunkResponse" -> ChunkResponse_encode
      [] k = "CollectionRequest" -> CollectionRequest_encode
      [] k = "CollectionResponse" -> CollectionResponse_encode
      [] k = "AppendSetEntry" -> AppendSetEntry_encode
      [] k = "PointerRequest" -> PointerRequest_encode
      [] k = "PointerResponse" -> PointerResponse_encode
      [] k = "Posting" -> encode_posting
      [] k = "LedgerRequest" -> LedgerRequest_encode
      [] k = "LedgerResponse" -> LedgerResponse_encode
      [] k = "Manifest" -> Manifest_canonical_bytes
      [] k = "DirectoryListing" -> DirectoryListing_to_payload
      [] k = "Invite" -> encode_invite
      [] k = "JoinRequest" -> JoinRequest_encode
      [] k = "JoinResponse" -> JoinResponse_encode
      [] k = "EpochKeyRequest" -> EpochKeyRequest_encode
      [] k = "EpochKeyResponse" -> EpochKeyResponse_encode
      [] k = "Signal" -> Signal_encode
      [] k = "SignalAck" -> SignalAck_encode
      [] k = "MediaEnvelope" -> MediaEnvelope_encode
      [] k = "MediaAck" -> MediaAck_encode
      [] k = "DirectMessage" -> DirectMessage_encode
      [] k = "DirectAck" -> DirectAck_encode
      [] k = "CommonOwnership" -> Ownership_encode]

Reader == [k \in Kinds |->
    CASE k = "Entry" -> decode_entry
      [] k = "SyncRequest" -> SyncRequest_decode
      [] k = "SyncResponse" -> SyncResponse_decode
      [] k = "BallotRequest" -> BallotRequest_decode
      [] k = "BallotResponse" -> BallotResponse_decode
      [] k = "ChunkRequest" -> ChunkRequest_decode
      [] k = "ChunkResponse" -> ChunkResponse_decode
      [] k = "CollectionRequest" -> CollectionRequest_decode
      [] k = "CollectionResponse" -> CollectionResponse_decode
      [] k = "AppendSetEntry" -> AppendSetEntry_decode
      [] k = "PointerRequest" -> PointerRequest_decode
      [] k = "PointerResponse" -> PointerResponse_decode
      [] k = "Posting" -> decode_posting
      [] k = "LedgerRequest" -> LedgerRequest_decode
      [] k = "LedgerResponse" -> LedgerResponse_decode
      [] k = "Manifest" -> Manifest_from_bytes
      [] k = "DirectoryListing" -> parse_listing
      [] k = "Invite" -> decode_invite
      [] k = "JoinRequest" -> JoinRequest_decode
      [] k = "JoinResponse" -> JoinResponse_decode
      [] k = "EpochKeyRequest" -> EpochKeyRequest_decode
      [] k = "EpochKeyResponse" -> EpochKeyResponse_decode
      [] k = "Signal" -> Signal_decode
      [] k = "SignalAck" -> SignalAck_decode
      [] k = "MediaEnvelope" -> MediaEnvelope_decode
      [] k = "MediaAck" -> MediaAck_decode
      [] k = "DirectMessage" -> DirectMessage_decode
      [] k = "DirectAck" -> DirectAck_decode
      [] k = "CommonOwnership" -> Ownership_decode]

\* The kinds whose every field is under a signature the reader checks.
SignedKinds ==
    {"Entry", "BallotRequest", "ChunkRequest", "CollectionRequest", "AppendSetEntry",
     "PointerRequest", "Posting", "JoinRequest", "EpochKeyRequest", "Signal",
     "DirectMessage", "CommonOwnership"} \cap Kinds

\* Mutation: the frame limit leaves no room for what surrounds the payload.
MaxBytesNoAllowance(k) ==
    CASE k \in {"ChunkResponse", "MediaEnvelope", "DirectMessage"} -> Cap
      [] k = "EpochKeyResponse" -> Cap + Cap * (Cap + 2)
      [] OTHER -> 1000

\* MAX_BYTES, in tokens: the payload's own ceiling plus an allowance (1024
\* bytes) for the fields around it; the default is far above every message
\* of the model.
FrameAllowance == 8 + 2 * Cap
MaxBytes(k) ==
    CASE k \in {"ChunkResponse", "MediaEnvelope", "DirectMessage"} ->
           Cap + FrameAllowance
      [] k = "EpochKeyResponse" -> Cap + Cap * (Cap + 2) + FrameAllowance
      [] OTHER -> 1000

\* ----------------------------------------------------------------- actions
Idle ==
    /\ phase = "idle" /\ msg = << >> /\ wire = << >> /\ fault = "none"
    /\ reader = "none" /\ got = Refused

WireInit == Idle

\* write_request / write_response: encode and write the whole message.
Write(k, v) ==
    /\ phase = "idle"
    /\ phase' = "sent" /\ msg' = <<k, v>> /\ reader' = k
    /\ wire' = Encode(Writer[k], v)
    /\ UNCHANGED <<fault, got>>

\* A fault of the stream: at most one per message.
Disturb(kind) ==
    /\ phase = "sent" /\ fault = "none"
    /\ fault' = kind
    /\ UNCHANGED <<phase, msg, got>>

Cut(n) ==
    /\ n < Len(wire)
    /\ wire' = SubSeq(wire, 1, n)
    /\ Disturb("cut") /\ UNCHANGED reader

Pad(tok) ==
    /\ wire' = Append(wire, tok)
    /\ Disturb("padded") /\ UNCHANGED reader

Alter(i, tok) ==
    /\ i \in DOMAIN wire /\ wire[i] # tok
    /\ wire' = [wire EXCEPT ![i] = tok]
    /\ Disturb("altered") /\ UNCHANGED reader

Swap(i) ==
    /\ i \in 1 .. Len(wire) - 1 /\ wire[i] # wire[i + 1]
    /\ wire' = [wire EXCEPT ![i] = wire[i + 1], ![i + 1] = wire[i]]
    /\ Disturb("swapped") /\ UNCHANGED reader

Divert(k) ==
    /\ k # reader
    /\ reader' = k
    /\ Disturb("diverted") /\ UNCHANGED wire

\* What read_framed hands to decode: take(MAX_BYTES), then to the end.
Seen == SubSeq(wire, 1, Min({Len(wire), MaxBytes(reader)}))

read_framed ==
    /\ phase = "sent"
    /\ phase' = "read"
    /\ got' = DecodeAll(Reader[reader], Seen)
    /\ UNCHANGED <<msg, wire, fault, reader>>

Close ==
    /\ phase = "read"
    /\ phase' = "idle" /\ msg' = << >> /\ wire' = << >> /\ fault' = "none"
    /\ reader' = "none" /\ got' = Refused

\* -------------------------------------------------------------- properties
Accepted == phase = "read" /\ got.ok

\* What a peer writes, the peer at the other end reads back unchanged: every
\* encode function agrees with its decode function on every variant and
\* field, and no legal message is longer than its frame limit
\* (each wire.rs; sync.rs MAX_..._BYTES).
RoundTrips ==
    (phase = "read" /\ fault = "none") => got = Got(msg[2], << >>)

\* A signed message that decode accepts is the one its signer wrote: no
\* damaged, shortened, extended or redirected copy passes, since each
\* signature payload covers every field the decoder returns
\* (wire.rs decode functions; payload functions).
Authentic ==
    (Accepted /\ msg[1] \in SignedKinds) => <<reader, got.v>> = msg

\* The kinds with a set or a map, whose items are read in any order, and the
\* invite, whose addresses may be cut at a shorter common ending than the
\* writer would choose.
Loose == {"Entry", "SyncResponse", "Posting", "Invite", "JoinRequest"}

\* Whatever decode accepts is exactly what encode writes for the value it
\* returned: no two byte strings carry the same value (dec.rs: InvalidBool,
\* TrailingBytes and the tags of sum types are refused for this).
OneEncoding ==
    (Accepted /\ reader \notin Loose) => Encode(Writer[reader], got.v) = Seen

\* Bytes of one message kind are refused by the reader of every other
\* (Enc::domain, Dec::domain: one tag per kind).
Separate == Accepted => reader = msg[1]

\* What a reader accepts is one value in its one encoding, of the kind the reader
\* is for and, when it is signed, what the signer wrote (the decode functions of
\* each wire.rs).
AcceptedIsAuthentic == Authentic /\ OneEncoding /\ Separate
=============================================================================

----------------------------- MODULE WireFormats ----------------------------
(***************************************************************************)
(* The formats of what peers exchange, in the vocabulary of Codec.         *)
(*                                                                         *)
(* Governance (crates/intranet-governance): what an entry's author signs   *)
(* (entry.rs, policy.rs, capability.rs, vote.rs), what travels (the put_   *)
(* functions of wire.rs) and what a peer reads back (the get_ functions).  *)
(*                                                                         *)
(* Content: chunks, collections, append-set entries, pointers and wrapped  *)
(* keys (crates/intranet-storage/src/wire.rs), search postings             *)
(* (intranet-search) and capability advertisements (intranet-ledger).      *)
(*                                                                         *)
(* Sessions: what a member is admitted, keyed in, called and addressed by. *)
(* Invites and joins (crates/intranet-invite), key delivery                *)
(* (intranet-epoch), call signalling and media (intranet-realtime), direct *)
(* messages (intranet-transport/src/direct.rs) and proofs of common        *)
(* ownership (intranet-identity/src/linking.rs).                           *)
(***************************************************************************)
EXTENDS Codec

\* ------------------------------------------------- capabilities and policy
Capability_encode ==
    Cases([i \in 1 .. 8 |->
              C(i - 1, <<"ApproveNode", "RevokeNode", "DefineGroup", "DefinePolicy",
                         "DefineContentPolicy", "ModerateContent", "AuditReputation",
                         "ReadContent">>[i], Nothing)]
          \o <<C(8, "ManageMembership", Str), C(9, "Publish", Str),
               C(10, "Extension", Str)>>)

get_capability ==
    Cases([i \in 1 .. 8 |->
              C(i - 1, <<"ApproveNode", "RevokeNode", "DefineGroup", "DefinePolicy",
                         "DefineContentPolicy", "ModerateContent", "AuditReputation",
                         "ReadContent">>[i], Nothing)]
          \o <<C(8, "ManageMembership", Str), C(9, "Publish", Str),
               C(10, "Extension", Str)>>)

CapabilitySet_encode ==
    Cases(<<C(0, "All", Nothing), C(1, "Explicit", SetOf(Capability_encode, Cap))>>)

get_capability_set ==
    Cases(<<C(0, "All", Nothing), C(1, "Explicit", SetOf(get_capability, NoCeiling))>>)

PolicyValue_encode ==
    Cases(<<C(0, "Int", Fixed), C(1, "Text", Str), C(2, "Flag", Bool)>>)

\* Admission and history are variants without fields, a tier is a u8; the
\* replication factor is a u16 written as a u32.
NetworkPolicy_encode ==
    Fields(<<F("admission_mode", Below(2)),
             F("governance_model",
               Cases(<<C(0, "CapabilityHolders", Nothing),
                       C(1, "MemberVote", Fields(<<F("electorate", Str),
                            F("quorum", Fixed), F("window_millis", Fixed)>>))>>)),
             F("history_access", Below(2)),
             F("content_type_allowlist", SetOf(Str, Cap)),
             F("extension_capabilities", Dict(Str, Below(2), Cap)),
             F("app_policy", Dict(Text(0, NoCeiling, "inside"), PolicyValue_encode, Cap)),
             F("bootstrap_relays", List(Text(0, Cap, "any"), Cap)),
             F("k", Fixed), F("t_millis", Fixed),
             F("replication_factor", Below(3)),
             F("mesh_relay_threshold", Fixed), F("target_chunk_size", Fixed)>>)

get_policy ==
    Fields(<<F("admission_mode", Below(2)),
             F("governance_model",
               Cases(<<C(0, "CapabilityHolders", Nothing),
                       C(1, "MemberVote", Fields(<<F("electorate", Str),
                            F("quorum", Fixed), F("window_millis", Fixed)>>))>>)),
             F("history_access", Below(2)),
             F("content_type_allowlist", SetOf(Str, NoCeiling)),
             F("extension_capabilities", Dict(Str, Below(2), NoCeiling)),
             F("app_policy", Dict(Text(0, NoCeiling, "inside"),
                 Cases(<<C(0, "Int", Fixed), C(1, "Text", Str), C(2, "Flag", Bool)>>),
                 NoCeiling)),
             F("bootstrap_relays", List(Text(0, Cap, "any"), Cap)),
             F("k", Fixed), F("t_millis", Fixed),
             F("replication_factor", Below(3)),
             F("mesh_relay_threshold", Fixed), F("target_chunk_size", Fixed)>>)

\* ------------------------------------------------------------------- votes
Proposal_encode ==
    Fields(<<F("subject", Fixed), F("electorate", Str),
             F("electorate_snapshot", SetOf(Identity, Cap)),
             F("snapshot_ref", Fixed), F("close_time", Fixed), F("quorum", Fixed)>>)

get_proposal ==
    Fields(<<F("subject", Fixed), F("electorate", Str),
             F("electorate_snapshot", SetOf(Identity, Cap)),
             F("snapshot_ref", Fixed), F("close_time", Fixed), F("quorum", Fixed)>>)

\* What a voter signs.
Ballot_payload ==
    Domain("ballot", Fields(<<F("vote_id", Fixed), F("voter", Identity),
                              F("approve", Bool), F("cast_at", Fixed)>>))

Ballot_encode ==
    Signed(Fields(<<F("vote_id", Fixed), F("voter", Identity),
                    F("approve", Bool), F("cast_at", Fixed)>>), "voter", Ballot_payload)

\* Inside a certificate a ballot's signature is carried and not checked: the
\* certificate's own verification does that when the outcome is applied.
CarriedBallot ==
    Fields(<<F("vote_id", Fixed), F("voter", Identity), F("approve", Bool),
             F("cast_at", Fixed), F("signature", Fixed)>>)

Certificate_encode ==
    Fields(<<F("vote_id", Fixed), F("ballots", List(CarriedBallot, Cap)),
             F("merkle_root", Fixed)>>)

get_certificate ==
    Fields(<<F("vote_id", Fixed),
             F("ballots", List(Fields(<<F("vote_id", Fixed), F("voter", Identity),
                 F("approve", Bool), F("cast_at", Fixed), F("signature", Fixed)>>), Cap)),
             F("merkle_root", Fixed)>>)

\* ------------------------------------------------------------ entry bodies
InviteProvenance_encode == Fields(<<F("invite_id", Fixed), F("issuer", Identity)>>)
get_invite_provenance == Fields(<<F("invite_id", Fixed), F("issuer", Identity)>>)

\* What the author signs.
EntryBody_encode ==
    Cases(<<C(0, "Genesis", Fields(<<F("network", Fixed),
                F("policy", NetworkPolicy_encode),
                F("everyone_capabilities", SetOf(Capability_encode, Cap))>>)),
            C(1, "DefineGroup",
                Fields(<<F("group", Str), F("capabilities", CapabilitySet_encode)>>)),
            C(2, "MembershipChange", Fields(<<F("group", Str), F("identity", Identity),
                F("action", Cases(<<C(0, "Add", Opt(InviteProvenance_encode)),
                                    C(1, "Remove", Opt(Opt(Fixed)))>>))>>)),
            C(3, "PolicyChange", NetworkPolicy_encode),
            C(4, "ContentTypePolicy", SetOf(Str, Cap)),
            C(5, "EpochRotation",
                Fields(<<F("reason", Below(3)), F("commit", Bytes(Unbounded))>>)),
            C(6, "DeviceEnrollment", Fields(<<F("network", Fixed), F("identity", Identity),
                F("device", Identity), F("label", Str), F("issued_at", Fixed),
                F("signature", Fixed)>>)),
            C(7, "DeviceRevocation", Fields(<<F("network", Fixed), F("identity", Identity),
                F("device", Identity), F("revoked_at", Fixed), F("signature", Fixed)>>)),
            C(8, "Moderation",
                Fields(<<F("action", Below(2)), F("target_pointer_id", Fixed)>>)),
            C(9, "AppNameRegistration", Fields(<<F("name", Str), F("app_id", Fixed)>>)),
            C(10, "VoteProposed", Proposal_encode),
            C(11, "VoteOutcome", Certificate_encode),
            C(12, "AppEntry", Fields(<<F("namespace", Text(1, NoCeiling, "never")),
                F("kind", Text(1, NoCeiling, "any")), F("required", Capability_encode),
                F("payload", Bytes(Unbounded))>>))>>)

\* What travels.
put_body ==
    Cases(<<C(0, "Genesis", Fields(<<F("network", Fixed),
                F("policy", NetworkPolicy_encode),
                F("everyone_capabilities", SetOf(Capability_encode, Cap))>>)),
            C(1, "DefineGroup",
                Fields(<<F("group", Str), F("capabilities", CapabilitySet_encode)>>)),
            C(2, "MembershipChange", Fields(<<F("group", Str), F("identity", Identity),
                F("action", Cases(<<C(0, "Add", Opt(InviteProvenance_encode)),
                                    C(1, "Remove", Opt(Opt(Fixed)))>>))>>)),
            C(3, "PolicyChange", NetworkPolicy_encode),
            C(4, "ContentTypePolicy", SetOf(Str, Cap)),
            C(5, "EpochRotation",
                Fields(<<F("reason", Below(3)), F("commit", Bytes(Unbounded))>>)),
            C(10, "VoteProposed", Proposal_encode),
            C(11, "VoteOutcome", Certificate_encode),
            C(6, "DeviceEnrollment", Fields(<<F("network", Fixed), F("identity", Identity),
                F("device", Identity), F("label", Str), F("issued_at", Fixed),
                F("signature", Fixed)>>)),
            C(7, "DeviceRevocation", Fields(<<F("network", Fixed), F("identity", Identity),
                F("device", Identity), F("revoked_at", Fixed), F("signature", Fixed)>>)),
            C(8, "Moderation",
                Fields(<<F("action", Below(2)), F("target_pointer_id", Fixed)>>)),
            C(9, "AppNameRegistration", Fields(<<F("name", Str), F("app_id", Fixed)>>)),
            C(12, "AppEntry", Fields(<<F("namespace", Text(1, NoCeiling, "never")),
                F("kind", Text(1, NoCeiling, "any")), F("required", Capability_encode),
                F("payload", Bytes(Unbounded))>>))>>)

\* What a peer reads.
get_body ==
    Cases(<<C(0, "Genesis", Fields(<<F("network", Fixed), F("policy", get_policy),
                F("everyone_capabilities", SetOf(get_capability, NoCeiling))>>)),
            C(1, "DefineGroup",
                Fields(<<F("group", Str), F("capabilities", get_capability_set)>>)),
            C(2, "MembershipChange", Fields(<<F("group", Str), F("identity", Identity),
                F("action", Cases(<<C(0, "Add", Opt(get_invite_provenance)),
                                    C(1, "Remove", Opt(Opt(Fixed)))>>))>>)),
            C(3, "PolicyChange", get_policy),
            C(4, "ContentTypePolicy", SetOf(Str, NoCeiling)),
            C(5, "EpochRotation",
                Fields(<<F("reason", Below(3)), F("commit", Bytes(Cap))>>)),
            C(10, "VoteProposed", get_proposal),
            C(11, "VoteOutcome", get_certificate),
            C(6, "DeviceEnrollment", Fields(<<F("network", Fixed), F("identity", Identity),
                F("device", Identity), F("label", Str), F("issued_at", Fixed),
                F("signature", Fixed)>>)),
            C(7, "DeviceRevocation", Fields(<<F("network", Fixed), F("identity", Identity),
                F("device", Identity), F("revoked_at", Fixed), F("signature", Fixed)>>)),
            C(8, "Moderation",
                Fields(<<F("action", Below(2)), F("target_pointer_id", Fixed)>>)),
            C(9, "AppNameRegistration", Fields(<<F("name", Str), F("app_id", Fixed)>>)),
            C(12, "AppEntry", Fields(<<F("namespace", Text(1, NoCeiling, "never")),
                F("kind", Text(1, NoCeiling, "any")), F("required", get_capability),
                F("payload", Bytes(Cap))>>))>>)

\* ----------------------------------------------------------------- entries
LogEntry_payload ==
    Domain("governance-entry", Fields(<<F("parent", Opt(Fixed)), F("timestamp", Fixed),
                             F("author", Identity), F("body", EntryBody_encode)>>))

encode_entry ==
    Domain("wire.entry",
        Signed(Fields(<<F("parent", Opt(Fixed)), F("timestamp", Fixed),
                        F("author", Identity), F("body", put_body)>>),
               "author", LogEntry_payload))

decode_entry ==
    Domain("wire.entry",
        Signed(Fields(<<F("parent", Opt(Fixed)), F("timestamp", Fixed),
                        F("author", Identity), F("body", get_body)>>),
               "author", LogEntry_payload))

\* ------------------------------------------------------------------- sync
SyncRequest_encode ==
    Domain("wire.sync-request",
        Cases(<<C(0, "Heads", Nothing),
                C(1, "Fetch", Fields(<<F("wanted", List(Fixed, Cap)),
                                       F("have", List(Fixed, Cap))>>))>>))

SyncRequest_decode ==
    Domain("wire.sync-request",
        Cases(<<C(0, "Heads", Nothing),
                C(1, "Fetch", Fields(<<F("wanted", List(Fixed, NoCeiling)),
                                       F("have", List(Fixed, NoCeiling))>>))>>))

SyncResponse_encode ==
    Domain("wire.sync-response",
        Cases(<<C(0, "Heads", List(Fixed, Cap)),
                C(1, "Entries", Fields(<<F("entries", List(Framed(encode_entry), Cap)),
                                         F("truncated", Bool)>>))>>))

\* One entry that cannot be read refuses the whole response.
SyncResponse_decode ==
    Domain("wire.sync-response",
        Cases(<<C(0, "Heads", List(Fixed, NoCeiling)),
                C(1, "Entries", Fields(<<F("entries", List(Framed(decode_entry), NoCeiling)),
                                         F("truncated", Bool)>>))>>))

\* ---------------------------------------------------------------- ballots
BallotRequest_payload ==
    Domain("ballot-request", Fields(<<F("vote_id", Fixed), F("have", List(Fixed, Cap)),
                                      F("requester", Identity)>>))

BallotRequest_encode ==
    Domain("wire.ballot-request",
        Signed(Fields(<<F("vote_id", Fixed), F("have", List(Fixed, Cap)),
                        F("requester", Identity)>>), "requester", BallotRequest_payload))

BallotRequest_decode ==
    Domain("wire.ballot-request",
        Signed(Fields(<<F("vote_id", Fixed), F("have", List(Fixed, Cap)),
                        F("requester", Identity)>>), "requester", BallotRequest_payload))

BallotResponse_encode ==
    Domain("wire.ballot-response",
        Cases(<<C(0, "Ballots", Fields(<<F("ballots", List(Ballot_encode, Cap)),
                                         F("truncated", Bool)>>)),
                C(1, "Refused", Below(3))>>))

\* Every ballot is verified as it is read.
BallotResponse_decode ==
    Domain("wire.ballot-response",
        Cases(<<C(0, "Ballots", Fields(<<F("ballots", List(
                    Signed(Fields(<<F("vote_id", Fixed), F("voter", Identity),
                                    F("approve", Bool), F("cast_at", Fixed)>>),
                           "voter", Ballot_payload), Cap)),
                    F("truncated", Bool)>>)),
                C(1, "Refused", Below(3))>>))

\* ------------------------------------------------------------------ chunks
ChunkRequest_payload ==
    Domain("chunk-request", Fields(<<F("cid", Fixed), F("requester", Identity)>>))

ChunkRequest_encode ==
    Domain("wire.chunk-request",
        Signed(Fields(<<F("cid", Fixed), F("requester", Identity)>>),
               "requester", ChunkRequest_payload))

ChunkRequest_decode ==
    Domain("wire.chunk-request",
        Signed(Fields(<<F("cid", Fixed), F("requester", Identity)>>),
               "requester", ChunkRequest_payload))

ChunkResponse_encode ==
    Domain("wire.chunk-response",
        Cases(<<C(0, "Chunk", Bytes(Cap)), C(1, "NotHeld", Nothing),
                C(2, "Refused", Below(2))>>))

ChunkResponse_decode ==
    Domain("wire.chunk-response",
        Cases(<<C(0, "Chunk", Bytes(Cap)), C(1, "NotHeld", Nothing),
                C(2, "Refused", Below(2))>>))

\* ------------------------------------------------------------- collections
CollectionRequest_payload ==
    Domain("collection-request",
        Fields(<<F("collection_id", Fixed), F("requester", Identity)>>))

CollectionRequest_encode ==
    Domain("wire.collection-request",
        Signed(Fields(<<F("collection_id", Fixed), F("requester", Identity)>>),
               "requester", CollectionRequest_payload))

CollectionRequest_decode ==
    Domain("wire.collection-request",
        Signed(Fields(<<F("collection_id", Fixed), F("requester", Identity)>>),
               "requester", CollectionRequest_payload))

CollectionResponse_encode ==
    Domain("wire.collection-response",
        Cases(<<C(0, "Entries", Fields(<<F("payloads", List(Bytes(Cap), Cap)),
                                         F("truncated", Bool)>>)),
                C(1, "Refused", Below(2))>>))

CollectionResponse_decode ==
    Domain("wire.collection-response",
        Cases(<<C(0, "Entries", Fields(<<F("payloads", List(Bytes(NoCeiling), NoCeiling)),
                                         F("truncated", Bool)>>)),
                C(1, "Refused", Below(2))>>))

AppendSetEntry_payload ==
    Domain("append-set-entry",
        Fields(<<F("collection_id", Fixed), F("payload", Bytes(Unbounded)),
                 F("references", Opt(Fixed)), F("publisher_identity", Identity)>>))

AppendSetEntry_encode ==
    Domain("wire.appendset-entry",
        Signed(Fields(<<F("collection_id", Fixed), F("payload", Bytes(Unbounded)),
                        F("references", Opt(Fixed)), F("publisher_identity", Identity)>>),
               "publisher_identity", AppendSetEntry_payload))

AppendSetEntry_decode ==
    Domain("wire.appendset-entry",
        Signed(Fields(<<F("collection_id", Fixed), F("payload", Bytes(Cap)),
                        F("references", Opt(Fixed)), F("publisher_identity", Identity)>>),
               "publisher_identity", AppendSetEntry_payload))

\* ---------------------------------------------------------------- pointers
\* A digest request signs an empty list of wanted pointers.
PointerRequest_payload ==
    Domain("pointer-request",
        Fields(<<F("requester", Identity), F("wanted", List(Fixed, Unbounded))>>))

PointerRequest_encode ==
    Domain("wire.pointer-request",
        Cases(<<C(0, "Digest", Signed(Fields(<<F("wanted", Nothing),
                      F("requester", Identity)>>), "requester", PointerRequest_payload)),
                C(1, "Fetch", Signed(Fields(<<F("wanted", List(Fixed, Unbounded)),
                      F("requester", Identity)>>), "requester", PointerRequest_payload))>>))

PointerRequest_decode ==
    Domain("wire.pointer-request",
        Cases(<<C(0, "Digest", Signed(Fields(<<F("wanted", Nothing),
                      F("requester", Identity)>>), "requester", PointerRequest_payload)),
                C(1, "Fetch", Signed(Fields(<<F("wanted", List(Fixed, Cap)),
                      F("requester", Identity)>>), "requester", PointerRequest_payload))>>))

MutablePointer_payload ==
    Domain("mutable-pointer",
        Fields(<<F("pointer_id", Fixed), F("owner_identity", Identity),
                 F("content_type", Str), F("current_cid", Fixed),
                 F("dek_commitment", Fixed), F("version", Fixed)>>))

put_pointer ==
    Signed(Fields(<<F("pointer_id", Fixed), F("owner_identity", Identity),
                    F("content_type", Str), F("current_cid", Fixed),
                    F("dek_commitment", Fixed), F("version", Fixed)>>),
           "owner_identity", MutablePointer_payload)

get_pointer ==
    Signed(Fields(<<F("pointer_id", Fixed), F("owner_identity", Identity),
                    F("content_type", Str), F("current_cid", Fixed),
                    F("dek_commitment", Fixed), F("version", Fixed)>>),
           "owner_identity", MutablePointer_payload)

DekWrapping_payload ==
    Domain("dek-wrapping",
        Fields(<<F("pointer_id", Fixed), F("wrapped_dek", Bytes(Cap)),
                 F("rotation_ref", Fixed), F("wrapper_identity", Identity)>>))

put_wrapping ==
    Signed(Fields(<<F("pointer_id", Fixed), F("wrapped_dek", Bytes(Cap)),
                    F("rotation_ref", Fixed), F("wrapper_identity", Identity)>>),
           "wrapper_identity", DekWrapping_payload)

get_wrapping ==
    Signed(Fields(<<F("pointer_id", Fixed), F("wrapped_dek", Bytes(Cap)),
                    F("rotation_ref", Fixed), F("wrapper_identity", Identity)>>),
           "wrapper_identity", DekWrapping_payload)

PointerResponse_encode ==
    Domain("wire.pointer-response",
        Cases(<<C(0, "Digest", Fields(<<F("entries", List(Fields(<<F("pointer_id", Fixed),
                      F("version", Fixed), F("record_hash", Fixed)>>), Cap)),
                      F("truncated", Bool)>>)),
                C(1, "Records", Fields(<<F("records", List(Fields(<<F("pointer", put_pointer),
                      F("wrappings", List(put_wrapping, Unbounded))>>), Cap)),
                      F("truncated", Bool)>>)),
                C(2, "Refused", Below(2))>>))

PointerResponse_decode ==
    Domain("wire.pointer-response",
        Cases(<<C(0, "Digest", Fields(<<F("entries", List(Fields(<<F("pointer_id", Fixed),
                      F("version", Fixed), F("record_hash", Fixed)>>), Cap)),
                      F("truncated", Bool)>>)),
                C(1, "Records", Fields(<<F("records", List(Fields(<<F("pointer", get_pointer),
                      F("wrappings", List(get_wrapping, Cap))>>), Cap)),
                      F("truncated", Bool)>>)),
                C(2, "Refused", Below(2))>>))

\* ---------------------------------------------------------------- postings
Posting_payload ==
    Domain("search-posting", Fields(<<F("pointer_id", Fixed),
        F("terms", Dict(Str, Fields(<<F("frequency", Fixed), F("best_field", Below(4))>>), Unbounded)),
        F("published_at", Fixed), F("publisher_identity", Identity)>>))

encode_posting ==
    Domain("wire.posting", Signed(Fields(<<F("pointer_id", Fixed),
        F("terms", Dict(Str, Fields(<<F("frequency", Fixed), F("best_field", Below(4))>>), Unbounded)),
        F("published_at", Fixed), F("publisher_identity", Identity)>>),
        "publisher_identity", Posting_payload))

decode_posting ==
    Domain("wire.posting", Signed(Fields(<<F("pointer_id", Fixed),
        F("terms", Dict(Str, Fields(<<F("frequency", Fixed), F("best_field", Below(4))>>), Cap)),
        F("published_at", Fixed), F("publisher_identity", Identity)>>),
        "publisher_identity", Posting_payload))

\* ----------------------------------------------------------- advertisements
BandwidthCap_encode ==
    Fields(<<F("up", Fixed), F("down", Fixed),
             F("window", Opt(Fields(<<F("start_minute", Below(3)),
                                      F("end_minute", Below(3))>>)))>>)

Advertisement_payload ==
    Domain("capability-advertisement", Fields(<<F("network", Fixed), F("node", Identity),
        F("storage_offered", Fixed), F("bandwidth_cap", BandwidthCap_encode),
        F("relay_bootstrap_willing", Bool), F("relay_media_willing", Bool),
        F("compute_class", Below(3)), F("issued_at", Fixed)>>))

put_advertisement ==
    Signed(Fields(<<F("network", Fixed), F("node", Identity), F("storage_offered", Fixed),
        F("bandwidth_cap", Fields(<<F("up", Fixed), F("down", Fixed),
            F("window", Opt(Fields(<<F("start_minute", Below(3)),
                                     F("end_minute", Below(3))>>)))>>)),
        F("relay_bootstrap_willing", Bool), F("relay_media_willing", Bool),
        F("compute_class", Below(3)), F("issued_at", Fixed)>>),
        "node", Advertisement_payload)

\* Below(3) stands for a minute below 1440.
get_advertisement ==
    Signed(Fields(<<F("network", Fixed), F("node", Identity), F("storage_offered", Fixed),
        F("bandwidth_cap", Fields(<<F("up", Fixed), F("down", Fixed),
            F("window", Opt(Fields(<<F("start_minute", Below(3)),
                                     F("end_minute", Below(3))>>)))>>)),
        F("relay_bootstrap_willing", Bool), F("relay_media_willing", Bool),
        F("compute_class", Below(3)), F("issued_at", Fixed)>>),
        "node", Advertisement_payload)

encode_advertisement == Domain("wire.advertisement", put_advertisement)
decode_advertisement == Domain("wire.advertisement", get_advertisement)

LedgerRequest_encode ==
    Domain("wire.ledger-request",
        Cases(<<C(0, "Digest", Nothing), C(1, "Fetch", List(Identity, Cap))>>))

LedgerRequest_decode ==
    Domain("wire.ledger-request",
        Cases(<<C(0, "Digest", Nothing), C(1, "Fetch", List(Identity, NoCeiling))>>))

LedgerResponse_encode ==
    Domain("wire.ledger-response",
        Cases(<<C(0, "Digest", List(Fields(<<F("node", Identity), F("issued_at", Fixed)>>), Cap)),
                C(1, "Advertisements",
                    Fields(<<F("advertisements", List(Framed(encode_advertisement), Cap)),
                             F("truncated", Bool)>>))>>))

LedgerResponse_decode ==
    Domain("wire.ledger-response",
        Cases(<<C(0, "Digest", List(Fields(<<F("node", Identity), F("issued_at", Fixed)>>), NoCeiling)),
                C(1, "Advertisements",
                    Fields(<<F("advertisements", List(Framed(decode_advertisement), NoCeiling)),
                             F("truncated", Bool)>>))>>))

\* ------------------------------------------------ manifests and directories
Manifest_canonical_bytes ==
    Domain("manifest", Fields(<<F("chunks", List(Fixed, Cap)), F("plaintext_len", Fixed)>>))

\* The parser bounds the count by what the input can back, and wants the
\* input used up.
Manifest_from_bytes ==
    Domain("manifest",
        Fields(<<F("chunks", List(Fixed, NoCeiling)), F("plaintext_len", Fixed)>>))

DirectoryListing_to_payload ==
    Domain("app-directory-listing", Fields(<<F("name", Str), F("app_id", Fixed),
                                             F("title", Str), F("description", Str)>>))

parse_listing ==
    Domain("app-directory-listing", Fields(<<F("name", Str), F("app_id", Fixed),
                                             F("title", Str), F("description", Str)>>))

\* ----------------------------------------------------------------- invites
InviteSubject == Cases(<<C(0, "Bearer", Nothing), C(1, "Identity", Identity)>>)

\* What the issuer signs, with the signature: invite_id is its hash.  The
\* addresses appear whole.
Invite_id ==
    Domain("invite", Fields(<<F("network", Fixed),
        F("bootstrap_addresses", List(Text(0, Cap, "any"), Cap)),
        F("issuer", Identity), F("subject", InviteSubject), F("issued_at", Fixed),
        F("expires_at", Fixed), F("max_uses", Fixed), F("signature", Fixed)>>))

put_invite ==
    Fields(<<F("network", Fixed), F("bootstrap_addresses", Addresses(Cap, Cap)),
             F("issuer", Identity), F("subject", InviteSubject), F("issued_at", Fixed),
             F("expires_at", Fixed), F("max_uses", Fixed), F("signature", Fixed)>>)

get_invite ==
    Fields(<<F("network", Fixed), F("bootstrap_addresses", Addresses(Cap, Cap)),
             F("issuer", Identity), F("subject", InviteSubject), F("issued_at", Fixed),
             F("expires_at", Fixed), F("max_uses", Fixed), F("signature", Fixed)>>)

encode_invite == Domain("wire.invite", put_invite)
decode_invite == Domain("wire.invite", get_invite)

JoinRequest_payload ==
    Domain("join-request", Fields(<<F("joiner", Identity), F("invite", Invite_id)>>))

JoinRequest_encode ==
    Domain("wire.join-request",
        Signed(Fields(<<F("joiner", Identity), F("invite", put_invite)>>),
               "joiner", JoinRequest_payload))

JoinRequest_decode ==
    Domain("wire.join-request",
        Signed(Fields(<<F("joiner", Identity), F("invite", get_invite)>>),
               "joiner", JoinRequest_payload))

JoinResponse_encode ==
    Domain("wire.join-response",
        Cases(<<C(0, "Admitted", Fixed), C(1, "Waiting", Nothing),
                C(2, "Refused", Below(5))>>))

JoinResponse_decode ==
    Domain("wire.join-response",
        Cases(<<C(0, "Admitted", Fixed), C(1, "Waiting", Nothing),
                C(2, "Refused", Below(5))>>))

\* ------------------------------------------------------------ key delivery
EpochKeyRequest_payload ==
    Domain("epoch-key-request",
        Fields(<<F("requester", Identity), F("key_package", Bytes(Cap))>>))

EpochKeyRequest_encode ==
    Domain("wire.epoch-key-request",
        Signed(Fields(<<F("requester", Identity), F("key_package", Bytes(Cap))>>),
               "requester", EpochKeyRequest_payload))

EpochKeyRequest_decode ==
    Domain("wire.epoch-key-request",
        Signed(Fields(<<F("requester", Identity), F("key_package", Bytes(Cap))>>),
               "requester", EpochKeyRequest_payload))

\* The history holds every key of the responder's keyring: nothing on the
\* writer's side bounds it.
EpochKeyResponse_encode ==
    Domain("wire.epoch-key-response",
        Cases(<<C(0, "Welcome", Fields(<<F("welcome", Bytes(Cap)), F("rotation_ref", Fixed),
                      F("history", List(Fields(<<F("rotation_ref", Fixed),
                                                 F("sealed", Bytes(Cap))>>), Unbounded))>>)),
                C(1, "Refused", Below(4))>>))

EpochKeyResponse_decode ==
    Domain("wire.epoch-key-response",
        Cases(<<C(0, "Welcome", Fields(<<F("welcome", Bytes(Cap)), F("rotation_ref", Fixed),
                      F("history", List(Fields(<<F("rotation_ref", Fixed),
                                                 F("sealed", Bytes(NoCeiling))>>), Cap))>>)),
                C(1, "Refused", Below(4))>>))

\* ------------------------------------------------------------------- calls
put_signal_body ==
    Cases(<<C(0, "Invite", Fields(<<F("call", Fixed), F("sender", Identity),
                F("recipient", Identity), F("sealed_key", Bytes(Cap))>>)),
            C(1, "Propose", Fields(<<F("call", Fixed), F("proposer", Identity),
                F("topology", Cases(<<C(0, "Mesh", Nothing), C(1, "Relayed", Identity)>>)),
                F("trigger", Below(3)), F("proposed_at", Fixed)>>)),
            C(2, "Leave", Fixed)>>)

get_signal_body ==
    Cases(<<C(0, "Invite", Fields(<<F("call", Fixed), F("sender", Identity),
                F("recipient", Identity), F("sealed_key", Bytes(Cap))>>)),
            C(1, "Propose", Fields(<<F("call", Fixed), F("proposer", Identity),
                F("topology", Cases(<<C(0, "Mesh", Nothing), C(1, "Relayed", Identity)>>)),
                F("trigger", Below(3)), F("proposed_at", Fixed)>>)),
            C(2, "Leave", Fixed)>>)

\* Mutation: the signature does not cover the proposed topology.
SignalPayloadNoTopology ==
    Domain("call-signal", Fields(<<F("body",
        Cases(<<C(0, "Invite", Fields(<<F("call", Fixed), F("sender", Identity),
                    F("recipient", Identity), F("sealed_key", Bytes(Cap))>>)),
                C(1, "Propose", Fields(<<F("call", Fixed), F("proposer", Identity),
                    F("trigger", Below(3)), F("proposed_at", Fixed)>>)),
                C(2, "Leave", Fixed)>>)), F("sender", Identity)>>))

Signal_payload ==
    Domain("call-signal", Fields(<<F("body", put_signal_body), F("sender", Identity)>>))

Signal_encode ==
    Domain("wire.call-signal",
        Signed(Fields(<<F("body", put_signal_body), F("sender", Identity)>>),
               "sender", Signal_payload))

Signal_decode ==
    Domain("wire.call-signal",
        Signed(Fields(<<F("body", get_signal_body), F("sender", Identity)>>),
               "sender", Signal_payload))

SignalAck_encode == Domain("wire.call-signal-ack", Nothing)
SignalAck_decode == Domain("wire.call-signal-ack", Nothing)

Recipient_encode == Cases(<<C(0, "One", Identity), C(1, "Participants", Nothing)>>)
Recipient_decode == Cases(<<C(0, "One", Identity), C(1, "Participants", Nothing)>>)

\* No signature: the frame is sealed under the call key.
MediaEnvelope_encode ==
    Domain("wire.call-media", Fields(<<F("call", Fixed), F("from", Identity),
        F("to", Recipient_encode), F("sequence", Fixed), F("ciphertext", Bytes(Cap))>>))

MediaEnvelope_decode ==
    Domain("wire.call-media", Fields(<<F("call", Fixed), F("from", Identity),
        F("to", Recipient_decode), F("sequence", Fixed), F("ciphertext", Bytes(Cap))>>))

MediaAck_encode == Domain("wire.call-media-ack", Nothing)

MediaAck_decode == Domain("wire.call-media-ack", Nothing)

\* --------------------------------------------------------- direct messages
\* check_label: one to MAX_DIRECT_LABEL_BYTES bytes.
check_label == Text(1, Cap, "any")

DirectMessage_signed ==
    Domain("direct-message", Fields(<<F("sender", Identity), F("namespace", check_label),
                              F("kind", check_label), F("payload", Bytes(Cap))>>))

DirectMessage_encode ==
    Domain("wire.direct",
        Signed(Fields(<<F("sender", Identity), F("namespace", check_label),
                        F("kind", check_label), F("payload", Bytes(Cap))>>),
               "sender", DirectMessage_signed))

DirectMessage_decode ==
    Domain("wire.direct",
        Signed(Fields(<<F("sender", Identity), F("namespace", check_label),
                        F("kind", check_label), F("payload", Bytes(Cap))>>),
               "sender", DirectMessage_signed))

DirectAck_encode ==
    Domain("wire.direct-ack",
        Cases(<<C(1, "Received", Nothing),
                C(2, "Refused", Cases(<<C(1, "Unsupported", Nothing),
                                        C(2, "RateLimited", Nothing),
                                        C(3, "Rejected", Nothing)>>))>>))

DirectAck_decode ==
    Domain("wire.direct-ack",
        Cases(<<C(1, "Received", Nothing),
                C(2, "Refused", Cases(<<C(1, "Unsupported", Nothing),
                                        C(2, "RateLimited", Nothing),
                                        C(3, "Rejected", Nothing)>>))>>))

\* -------------------------------------------------------- common ownership
Ownership_payload ==
    Domain("common-ownership",
        Fields(<<F("first_network", Fixed), F("first_identity", Identity),
                 F("second_network", Fixed), F("second_identity", Identity)>>))

\* Both sides sign the one statement.
Ownership_encode ==
    Domain("wire.common-ownership",
        Signed(Signed(Fields(<<F("first_network", Fixed), F("first_identity", Identity),
                       F("second_network", Fixed), F("second_identity", Identity)>>),
                      "first_identity", Ownership_payload),
               "second_identity", Ownership_payload))

Ownership_decode ==
    Domain("wire.common-ownership",
        Signed(Signed(Fields(<<F("first_network", Fixed), F("first_identity", Identity),
                       F("second_network", Fixed), F("second_identity", Identity)>>),
                      "first_identity", Ownership_payload),
               "second_identity", Ownership_payload))
=============================================================================

CONSTANTS
    Peer = {1, 2}
    None = None
    Deadline = 2
    MaxEvents = 5
    Remote = {1, 2}
    MaxConnections = 3
    MaxAsks = 2
    Cap = 2
    Over = 0
    Tokens = {0, 1, 2, 3}
    Kinds = {"Entry", "SyncRequest", "SyncResponse", "BallotRequest", "BallotResponse",
             "ChunkRequest", "ChunkResponse", "CollectionRequest", "CollectionResponse",
             "AppendSetEntry", "PointerRequest", "PointerResponse", "Posting",
             "LedgerRequest", "LedgerResponse", "Manifest", "DirectoryListing",
             "Invite", "JoinRequest", "JoinResponse", "EpochKeyRequest",
             "EpochKeyResponse", "Signal", "SignalAck", "MediaEnvelope", "MediaAck",
             "DirectMessage", "DirectAck", "CommonOwnership"}
SPECIFICATION MCSpec
INVARIANTS WrapperIsSound  AcceptedIsAuthentic
PROPERTIES  RelayedIsTemporary
CHECK_DEADLOCK FALSE

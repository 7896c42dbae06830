CONSTANTS
    Nil = Nil
    Node = {1, 2, 3}
    History <- MCHistory
    MaxFaults = 1
    MaxInFlight = 1
    Offer = {1}
    MaxAds = 1
    MaxIssued = 2
    Pointer = {1, 2}
    OwnerOf <- MCOwnerOf
    MaxPointers = 1
    MaxVersion = 1
    MaxHash = 2
    Vote = {"v"}
    Proposal <- MCProposal
    CastTime = {1, 2, 3}
    MaxBallots = 1
    MaxCast = 2
    Draw <- MCDraw
    Content = {"c"}
    Target = 2
    HoldingTtl = 1
    Offerings <- MCOfferings
    MaxTime = 2
    Indexer = 1
    Term = {1, 2}
    Indexed = {1, 2}
    PostingTtl = 0
    MaxPostings = 2
    MaxDay = 1
    Listing <- MCListing
    MaxEntries = 1
    MaxOpen = 2
SPECIFICATION RevokedSpec
PROPERTY LedgersConverge
CHECK_DEADLOCK FALSE

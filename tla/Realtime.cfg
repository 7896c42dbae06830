CONSTANTS
    Nil = Nil
    Participant = {1, 2}
    RelayId = {"r1", "r2"}
    Threshold = 2
    MaxProposals = 2
    MaxInstant = 1
    MediaNode = {1, 2, 3}
    Call = {1, 2}
    Ceilings <- MCCeilings
    Rosters <- MCRosters
    FrameSize = {1}
    MilliPerSec = 2
    NoRoster = NoRoster
    Everyone = Everyone
    MaxFrames = 3
    MaxAdvance = 3
    Draw <- MCDraw
    StreamNode = {1, 2, 3, 4}
    StreamKey = "stream"
    TierSize = 2
    LiveWindow = 2
    Offers <- MCOffers
    Sequence = {1, 2, 3, 4}
    MaxChunks = 4
    MaxChanges = 2
    Client = {c1, c2}
    Ticket = {t1}
    Admitted = Admitted
    RelayLimits <- MCRelayLimits
    ByteCounts = {1, 2}
    MaxIds = 4
    MaxUptime = 2
    Sender = {s1, s2}
    Kind = {k1, k2}
    PerWindow = 1
    Window = 2
    MaxTracked = 1
    MaxMessages = 3
    MaxTick = 3
SPECIFICATION MCSpec
INVARIANTS WinnerIsEarliest MediaArrivesOnce WindowMeetsRecording  DeliveryIsMetered
PROPERTIES MediaCeilingsHold TierIsStable
CHECK_DEADLOCK FALSE

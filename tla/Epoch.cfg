CONSTANTS
    Node = {1, 2, 3}
    Member = {1, 2, 3}
    Hash = {1, 2, 3, 4, 5}
    Nil = Nil
    Kind = {"EpochRotation"}
    Time = {0}
    Verdict = {TRUE}
    Params <- MCDepthParams
    Founder = 1
    Enrolled = {1, 2, 3}
    FullHistory = TRUE
    MaxRequests = 3
    MaxLosses = 1
SPECIFICATION MCSpec
INVARIANTS MCKeysAgree RevokedHoldNothingNew
PROPERTIES KeysFollowFinality KeyReachesMembers
CHECK_DEADLOCK FALSE

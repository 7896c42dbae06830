CONSTANTS
    Node = {1, 2}
    Hash = {1, 2, 3, 4}
    Nil = Nil
    Kind = {"MembershipChange"}
    Time = {0, 1}
    Verdict = {TRUE}
    Params <- MCParams
    j1 = j1
    j2 = j2
    Joiner = {j1, j2}
    Invite <- MCInvite
    Last = 1
    MaxAsks = 4
    MaxDrops = 1
SPECIFICATION MCSpec
INVARIANTS InvitesGovern
PROPERTIES RoomFollowsTheLog JoinersGetThrough
CHECK_DEADLOCK FALSE

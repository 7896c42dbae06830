CONSTANTS
    Nil = Nil
    All = All
    Identity = {f, a, b}
    Founder = f
    GroupId = {"founders", "everyone", "crew"}
    Device = {d1}
    Pointer = {p1}
    AppName = {app}
    Time = {0, 1}
    Window = {0}
    Invite = {}
    Grants <- MCGrants
    Policies <- MCPolicies
    Subjects <- MCSubjects
    Quorums = {1, 2}
    MaxEntries = 5
    MaxVotes = 1
    MaxBallots = 2
    MaxEpochs = 1
SYMMETRY MemberSymmetry
SPECIFICATION MCSpec
INVARIANTS EveryoneCeiling PassedHasQuorum
PROPERTIES PowerFromPower 
CHECK_DEADLOCK FALSE

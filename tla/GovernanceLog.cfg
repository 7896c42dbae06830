CONSTANTS
    Node = {1, 2}
    Hash = {1, 2, 3, 4}
    Nil = Nil
    Kind = {"DefineGroup", "PolicyChange", "DeviceEnrollment"}
    Time = {0, 1}
    Verdict = {TRUE, FALSE}
    Params <- MCParams
SPECIFICATION MCSpec
INVARIANTS DisagreementIsFinality WalksAgree
PROPERTY FinalityIsForGood
CHECK_DEADLOCK FALSE

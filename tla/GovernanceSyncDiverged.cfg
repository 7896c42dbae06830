CONSTANTS
    Node = {n1, n2}
    Author = {n1, n2}
    Hash = {1, 2, 3, 4}
    Nil = Nil
    Kind = {"DefineGroup"}
    Time = {0}
    Verdict = {TRUE}
    Params <- MCParams
    MaxEntries = 2
    MaxEvents = 0
SPECIFICATION Spec
PROPERTY PullDelivers
CHECK_DEADLOCK FALSE

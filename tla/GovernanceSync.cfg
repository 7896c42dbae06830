CONSTANTS
    Node = {n1, n2}
    Author = {n1, n2}
    Hash = {1, 2, 3}
    Nil = Nil
    Kind = {"DefineGroup"}
    Time = {0}
    Verdict = {TRUE}
    Params <- MCParams
    MaxEntries = 2
    MaxEvents = 1
SPECIFICATION Spec
INVARIANTS NothingRejected
PROPERTIES LogsAreReplicas PullDelivers
CHECK_DEADLOCK FALSE

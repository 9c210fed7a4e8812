SPECIFICATION FairSpec
CONSTANTS
    Handlers = {h1, h2}
    Instances = {i1, i2}
    Operations = {"prepare", "broadcast", "release", "status", "webhook", "sweep"}
    SweepLimit = 1
    Answers = {"BROADCASTED", "COMPLETED", "FAILED"}
    MaxPayments = 1
    MaxSubmits = 3
    MaxPolls = 2
    MaxFaults = 1
INVARIANTS CashoutInv RowNeverAhead SubmittedOnce
PROPERTIES ForwardOnly RowCatchesUp

SPECIFICATION Spec
CONSTANTS
    Handlers = {h1, h2}
    Instances = {i1}
    Operations = {"prepare", "broadcast", "release", "status", "webhook", "sweep"}
    SweepLimit = 1
    Answers = {"BROADCASTED"}
    MaxPayments = 1
    MaxSubmits = 1
    MaxPolls = 1
    MaxFaults = 0
PROPERTY RowsOnlyAdvance

SPECIFICATION Spec
CONSTANTS
    Clients = {"ast", "tool"}
    Chans = {"rx", "tx"}
    MaxPipes = 2
    SkbCap = 2
    Routes <- Chain
    MaxJobs = 1
    MaxFaults = 1
    MaxPlugs = 1
CHECK_DEADLOCK FALSE
INVARIANTS PipelinesAreTrue  MirrorAgrees 
 

SPECIFICATION Spec
CONSTANTS
    Procs = {1, 2, 3}
    Mixes <- MCMixes
    Timeout = 4
    Interval = 1
    Growth = 2
    MaxInterval = 2
    ProbeTime = 1
    MaxFaults = 1
INVARIANTS
    FailuresAreRaces
    StopRemoves
PROPERTIES
    WaitIsBounded
    CommandsEnd

SPECIFICATION ContainerSpec
CONSTANTS
    Runs = {r1, r2}
    None = None
    MaxOutages = 1
    MaxCrashes = 1
CHECK_DEADLOCK FALSE
INVARIANTS
    JobsInHand
    ResultsAreTrue
PROPERTIES
    RunsAndJobsEnd

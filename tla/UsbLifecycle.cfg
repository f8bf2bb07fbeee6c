SPECIFICATION FairSpec
CONSTANT MaxFaults = 3
INVARIANTS
    OneController
    DriverRestored
    ReadyMeansServing
PROPERTIES
    Recovers

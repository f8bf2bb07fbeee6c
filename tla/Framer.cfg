SPECIFICATION Spec
CONSTANTS
    Kinds = {2, 3, 4}
    Handle = 42
    Payloads <- MCPayloads
    Cuts <- MCCuts
    MaxFrame = 12
    MaxAhead = 3
    MaxLosses <- MCLosses
INVARIANTS
    FragmentsIgnored
    Resyncs

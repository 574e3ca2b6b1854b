SPECIFICATION StreamsSpec
CONSTANTS
    PipeSize = 1
    MaxWrites = 2
INVARIANTS
    CaptureInv
PROPERTIES
    CaptureEnds

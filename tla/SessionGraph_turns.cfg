SPECIFICATION Spec
CONSTANTS
    Refs <- MCRefs
    Known <- MCKnown
    MaxRetries = 1
    RawTail = 1
    MinNew = 1
    MaxMsgs = 2
    MaxFaults = 1
    Crashes = {"message", "hold", "image"}
INVARIANTS
    OwedImageIsPlanned
    ReviewedIsGrounded
    
PROPERTIES
    HumanOKSpec
    RunEnds
CHECK_DEADLOCK FALSE

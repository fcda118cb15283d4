CONSTANTS
    StartFrom = {"loop", "foreign"}
    StopFrom = {"loop", "foreign"}
    MaxStarts = 1
    MaxStops = 1
    DestroyAnywhere = FALSE
SPECIFICATION Spec
INVARIANTS ClientSafety
PROPERTIES StopIsHeeded Reconnects
CHECK_DEADLOCK FALSE

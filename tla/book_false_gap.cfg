\* OKX, whose stream loses an event and goes on.
SPECIFICATION Spec
CONSTANTS
    Ticks = 2
    MaxDepth = 2
    TruncateEvery = 1
    MaxPeel = 5
    CheckDepth = 2
    WalkDepth = 2
    Adapters = {"okx"}
    Opening <- Narrow
    MaxUpdates = 4
    Tasks = {t1}
    BufferSize = 2
    Lossy = {"okx"}
    Unreliable = FALSE
\* The venue's updates are bounded.
PROPERTIES
  IntactStreamIsAccepted
CHECK_DEADLOCK FALSE

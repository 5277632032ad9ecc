SPECIFICATION Spec
CHECK_DEADLOCK FALSE
CONSTANTS
    None = None
    Envoys = {1, 2, 3, 4, 5, 6}
    Targets = {"t"}
    MaxASPath = 2
    Self = 3
    PeerIds = {1, 2}
    MaxRoutes = 2
INVARIANT LoopFindsBest

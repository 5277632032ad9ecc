SPECIFICATION FairSpec
CONSTANTS
    None = None
    Envoys = {1, 2, 3, 4}
    Targets = {"t"}
    MaxASPath = 1
    Peers <- NextPeer
    Configs <- LastFronts
    MaxGeneration <- LastReloads
    StaleAfter = 0
    MaxFaults = 1
INVARIANT DistanceBounded
PROPERTY MeshSettles

SPECIFICATION RequestsFairSpec
CONSTANTS
    None = None
    Envoys = {1, 2, 3}
    Targets = {"t"}
    MaxASPath = 2
    Peers <- FanPeers
    Configs <- FrontOnly
    MaxGeneration <- NoReload
    StaleAfter = 1
    MaxFaults = 1
INVARIANT PathsSimple
INVARIANT TableFresh
PROPERTY MeshSettles
PROPERTY RequestsEnd

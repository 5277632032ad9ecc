SPECIFICATION FairSpec
CONSTANTS
    None = None
    Runs = {1, 2}
    MaxFaults = 1
    ShellCommands <- MCShell
    Scripted <- MCScripted
    Within <- MCWithin
    References <- MCReferences
    Registry <- MCRegistry
    Locals <- MCLocals
    Bodies <- MCBodies
    UILocals <- MCUILocals
INVARIANT TornLoads
INVARIANT Stoppable
INVARIANT ServersTiedToRun
INVARIANT PickedVersionSupported
 
 
 
CHECK_DEADLOCK FALSE

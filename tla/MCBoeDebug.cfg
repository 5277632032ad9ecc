SPECIFICATION Spec
CONSTANTS
    None = None
    Runs = {1}
    MaxFaults = 1
    ShellCommands <- MCShell
    Scripted <- MCScripted
    Within <- MCWithin
    References <- MCReferences
    Registry <- MCRegistry
    Locals <- MCLocals
    Bodies <- MCBodies
    UILocals <- MCUILocals
INVARIANT PluginHostMatches
CHECK_DEADLOCK FALSE

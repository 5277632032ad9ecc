SPECIFICATION Spec
CONSTANT None = None
CONSTANT Streams = {s1, s2}
CONSTANT Alone = s1
CONSTANT MaxChunks = 2
CONSTANT MaxGuardrails = 3
CONSTANT MaxAttempts = 2
CONSTANT Directives = {"rules"}
CONSTANT Includes = {"include"}
CONSTANT MaxEngines = 2
CONSTANT Hosts = {1, 2}
CONSTANT MaxLayers = 2
CONSTANT Resolution = 3
CONSTANT Window = 2
CONSTANT MaxLoad = 4
CHECK_DEADLOCK FALSE
INVARIANT TypeOK
INVARIANT NoBypass
INVARIANT ResumedOnce
INVARIANT CountedOnce
INVARIANT DecodedWhole
 
INVARIANT TransactionsSound
INVARIANT InFlightExact
INVARIANT EnginesAsConfigured
INVARIANT PluginsSound
INVARIANT SampledAsDue
PROPERTY LiveEnginesStayListed
PROPERTY HeldAreReleased
PROPERTY MetadataSettles

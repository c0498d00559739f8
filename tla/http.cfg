\* Two connections and two GETs, in one read, in two, or on both connections: of a
\* file f of one full block, written in one piece or byte by byte; of an empty file
\* f0 whose header has the key of that block; or bad ones.  Headers have two bytes,
\* and their one write may leave out the second.
CONSTANTS
    Uris = {f, f0}
    f = f
    f0 = f0
    Size = 2
    FileSize <- MCFileSize
    BlockStatus <- MCBlockStatus
    Aliases = {f0}
    KeyText <- MCKeyText
    HeadSize = 2
    BadGet = BadGet
    NoGet = NoGet
    MAXWB = 2
    MaxACCEPT = 1
    MaxPipeline = 2
    MaxGets = 2
SPECIFICATION Spec
INVARIANTS
    TypeOK
    OneThingAtATime
    BlockReferencesAreWriters
    OnlyBadRequestsFailAssertions
PROPERTIES
    ImplementsSession
    RequestEnds
    ClosingConnectionCloses
\* The program stops when an assertion fails.
CHECK_DEADLOCK FALSE

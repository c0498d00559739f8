\* The assertions of the server.  Two connections and two GETs, in one read, in
\* two, or on both connections, of a file of one block, which is written in one
\* piece or in two, or bad ones.
CONSTANTS
    Uris = {f}
    f = f
    f0 = f0
    Size = 2
    FileSize <- MCFileSize
    BlockStatus <- MCBlockStatus
    Aliases = {}
    KeyText <- MCKeyText
    HeadSize = 2
    BadGet = BadGet
    NoGet = NoGet
    MAXWB = 2
    MaxACCEPT = 1
    MaxPipeline = 2
    MaxGets = 2
SPECIFICATION SafetySpec
INVARIANT AssertionsHold
\* The program stops when an assertion fails.
CHECK_DEADLOCK FALSE

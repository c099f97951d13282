SPECIFICATION Spec
CONSTANTS
    NameChars <- MCNameChars
    Delims <- MCDelims
    InitDirs <- MCInitDirs
    InitFiles <- MCInitFiles
    MaxPathLen = 8
    DbPathMaxLen = 8
    TokenArrayLen = 4
    MaxCalls = 1
INVARIANT TypeOK CallerPathsSafe
\* pclCreateFile is called a bounded number of times; the run ends there.
CHECK_DEADLOCK FALSE

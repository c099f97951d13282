CONSTANTS
    PathChars = {"a", "b"}
    Seps = {" "}
    MaxFileLen = 6
    TOKENARRAYSIZE = 4
    MaxReads = 2
SPECIFICATION Spec
INVARIANT TypeOK OnlyEntriesBlacklisted
CHECK_DEADLOCK FALSE

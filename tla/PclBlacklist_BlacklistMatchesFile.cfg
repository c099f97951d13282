CONSTANTS
    PathChars = {"a", "b"}
    Seps = {" "}
    MaxFileLen = 5
    TOKENARRAYSIZE = 4
    MaxReads = 1
SPECIFICATION Spec
INVARIANT BlacklistMatchesFile
CHECK_DEADLOCK FALSE

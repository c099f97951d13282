CONSTANTS
    PathChars = {"a", "b"}
    Seps = {" "}
    MaxFileLen = 5
    TOKENARRAYSIZE = 4
    MaxReads = 2
SPECIFICATION Spec
INVARIANT NoDanglingTokenRead
CHECK_DEADLOCK FALSE

----------------------------- MODULE PclCreateFile ----------------------------
(***************************************************************************)
(* pclCreateFile of src/src/persistence_client_library_backup_filelist.c: *)
(* cut the path into tokens with strtok on "/\n" (at most 24 in           *)
(* tokenArray, else the path is invalid), rebuild it as "/t0/t1/...",     *)
(* mkdir every directory from "/t0/t1" to the parent of the file, then    *)
(* open the file with O_CREAT | O_RDWR | O_TRUNC.                          *)
(*                                                                         *)
(* A path in the file system is the sequence of its names, the root being *)
(* <<>>; the string rebuilt by snprintf/strncat is the sequence of tokens. *)
(* Successive calls act on a file system of directories and files.        *)
(***************************************************************************)
EXTENDS Integers, Sequences, SequencesExt, FiniteSets

CONSTANTS
    NameChars,      \* bytes that are not delimiters
    Delims,         \* the strtok delimiters "/" and "\n"
    MaxPathLen,     \* longest path string passed in
    TokenArrayLen,  \* the size of tokenArray (24 in the code)
    InitDirs,       \* directories that exist at start (besides the root)
    InitFiles,      \* regular files that exist at start
    MaxCalls,       \* pclCreateFile calls considered
    DbPathMaxLen    \* the size of thePath and createPath

ASSUME /\ NameChars \cap Delims = {} /\ TokenArrayLen \in Nat \ {0, 1}
       /\ DbPathMaxLen \in Nat \ {0, 1}

Chars == NameChars \cup Delims
PathStrings == UNION {[1..n -> Chars] : n \in 0..MaxPathLen}

Empty == "Empty"        \* content of a file after O_TRUNC
Data  == "Data"         \* content of a file that was there before

VARIABLES
    dirs,           \* the set of existing directories
    files,          \* [existing regular files -> content]
    calls,          \* pclCreateFile calls so far
    \* history, for the properties
    lastPath,       \* the path string of the last call
    handle,         \* what the last call returned (-1 or a descriptor)
    crashed,        \* the last call passed a NULL or unset token to strncat
                    \* (and the process faulted)
    overrun         \* the last call read past thePath or wrote past createPath

vars == <<dirs, files, calls, lastPath, handle, crashed, overrun>>

FD == 3                 \* the descriptor open returns

TypeOK ==
    /\ dirs \subseteq Seq(Seq(NameChars)) /\ <<>> \in dirs
    /\ DOMAIN files \subseteq Seq(Seq(NameChars))
    /\ \A p \in DOMAIN files : files[p] \in {Empty, Data}
    /\ calls \in 0..MaxCalls
    /\ lastPath \in PathStrings
    /\ handle \in {-1, FD}
    /\ crashed \in BOOLEAN
    /\ overrun \in BOOLEAN
-----------------------------------------------------------------------------
(* The code, translated.                                                    *)

\* Mutant of Strtok: the delimiter string is "/" only, so "\n" stays in a
\* name.
RECURSIVE StrtokSlashOnly(_, _, _)
StrtokSlashOnly(s, i, cur) ==
    IF i > Len(s) THEN (IF cur = <<>> THEN <<>> ELSE <<cur>>)
    ELSE IF s[i] = "/"
         THEN (IF cur = <<>> THEN <<>> ELSE <<cur>>) \o StrtokSlashOnly(s, i + 1, <<>>)
         ELSE StrtokSlashOnly(s, i + 1, Append(cur, s[i]))

\* the tokens strtok returns, in order: the maximal runs of non-delimiters
RECURSIVE Strtok(_, _, _)
Strtok(s, i, cur) ==
    IF i > Len(s) THEN (IF cur = <<>> THEN <<>> ELSE <<cur>>)
    ELSE IF s[i] \in Delims
         THEN (IF cur = <<>> THEN <<>> ELSE <<cur>>) \o Strtok(s, i + 1, <<>>)
         ELSE Strtok(s, i + 1, Append(cur, s[i]))

\* the counting loop: numTokens reaches 24 (validPath = 0) exactly when
\* strtok yields a 24th token
TokenLimitReached(tokens) == Len(tokens) >= TokenArrayLen

\* strncpy(thePath, path, DbPathMaxLen): at most DbPathMaxLen bytes, and no
\* terminating NUL when the path has DbPathMaxLen bytes or more
ThePath(s) == SubSeq(s, 1, IF Len(s) < DbPathMaxLen THEN Len(s) ELSE DbPathMaxLen)
ThePathTerminated(s) == Len(s) < DbPathMaxLen

\* the bytes snprintf and the strncat calls put into createPath: "/t0", cut
\* to DbPathMaxLen-1 bytes by snprintf, then "/ti" for every further token
\* (strncat's bound DbPathMaxLen-1 is not the room left in createPath)
CreatePathLen(tokens) ==
    LET first == 1 + Len(tokens[1])
    IN (IF first < DbPathMaxLen THEN first ELSE DbPathMaxLen - 1)
       + Len(FlattenSeq(Tail(tokens))) + Len(tokens) - 1

\* createPath[DbPathMaxLen] must also hold the terminating NUL
CreatePathOverrun(tokens) == CreatePathLen(tokens) > DbPathMaxLen - 1

\* Mutant of FileTokenMissing: the final strncat appends
\* tokenArray[numTokens], which is always NULL.
FileTokenMissingPastEnd(tokens) == TRUE

\* after the loop i = max(1, numTokens-1): with no token tokenArray[1] was
\* never set, with one it is the NULL that ended strtok
FileTokenMissing(tokens) == Len(tokens) <= 1

\* mkdir(path, 0744): fails when the parent is missing or the name exists
Mkdir(ds, fs, p) ==
    IF Front(p) \in ds /\ p \notin ds /\ p \notin DOMAIN fs THEN ds \cup {p} ELSE ds

\* for (i = 1; i < numTokens-1; i++) mkdir("/t0/.../ti"): each directory
\* from depth 2 to the parent of the file, in order
RECURSIVE MkdirChain(_, _, _, _)
MkdirChain(tokens, i, ds, fs) ==
    IF i >= Len(tokens) - 1 THEN ds
    ELSE MkdirChain(tokens, i + 1, Mkdir(ds, fs, SubSeq(tokens, 1, i + 1)), fs)

\* open(createPath, O_CREAT | O_RDWR | O_TRUNC): fails when the parent is
\* not a directory or the path is one
OpenCreates(ds, p) == Front(p) \in ds /\ p \notin ds

\* pclCreateFile(path, 0) on the path string s
pclCreateFile(s) ==
    LET tokens == Strtok(ThePath(s), 1, <<>>)
        ds     == MkdirChain(tokens, 1, dirs, files)
    IN
    /\ calls < MaxCalls
    /\ calls' = calls + 1
    /\ lastPath' = s
    /\ overrun' = \/ ~ThePathTerminated(s)
                   \/ /\ ~TokenLimitReached(tokens) /\ ~FileTokenMissing(tokens)
                      /\ CreatePathOverrun(tokens)
    \* strtok reading past an unterminated thePath is undefined: the process
    \* may fault, or find a NUL at once and go on with the bytes copied
    /\ \/ ~ThePathTerminated(s) /\ crashed' = TRUE /\ handle' = -1
          /\ UNCHANGED <<dirs, files>>
       \/ CASE TokenLimitReached(tokens) ->
              \* validPath == 0: nothing is created
              /\ handle' = -1 /\ crashed' = FALSE
              /\ UNCHANGED <<dirs, files>>
         [] FileTokenMissing(tokens) ->
              \* no token: tokenArray[1] is never set; one token:
              \* tokenArray[1] == NULL; strncat(createPath, tokenArray[1])
              \* faults, and nothing was created before it
              /\ handle' = -1 /\ crashed' = TRUE
              /\ UNCHANGED <<dirs, files>>
         [] OTHER ->
              \* an overrun of createPath is one of the outcomes left to
              \* the stack layout: the call goes on with the bytes in place
              /\ dirs' = ds
              /\ crashed' = FALSE
              /\ IF OpenCreates(ds, tokens)
                   THEN /\ files' = [p \in DOMAIN files \cup {tokens} |->
                                       IF p = tokens THEN Empty ELSE files[p]]
                        /\ handle' = FD
                   ELSE /\ UNCHANGED files
                        /\ handle' = -1

Init ==
    /\ dirs = {<<>>} \cup InitDirs
    /\ files = [p \in InitFiles |-> Data]
    /\ calls = 0
    /\ lastPath = <<>>
    /\ handle = -1
    /\ crashed = FALSE
    /\ overrun = FALSE

Next == \E s \in PathStrings : pclCreateFile(s)

Spec == Init /\ [][Next]_vars
-----------------------------------------------------------------------------
(* Properties                                                               *)

Segments == Strtok(lastPath, 1, <<>>)

\* a call was made on a path that thePath holds whole (with its NUL);
\* what a call does on a longer path is undefined
ReadWhole == calls > 0 /\ ThePathTerminated(lastPath)

\* The paths pclCreateBackup hands over name a file below a database
\* directory: absolute, at least two segments, and copied whole into its
\* pathToCreate[DbPathMaxLen].  For each of them pclCreateFile neither
\* strncats a NULL token (line 357) nor reads past thePath or writes past
\* createPath (lines 323, 346-357): "/t0/.../tn" rebuilt from an absolute
\* path is never longer than the path.  A relative path one byte short of
\* DbPathMaxLen does overrun createPath, and a single segment faults.
CallerPathsSafe ==
    (/\ ReadWhole /\ Len(lastPath) > 0 /\ lastPath[1] = "/"
     /\ Len(Segments) >= 2)
        => ~crashed /\ ~overrun
====

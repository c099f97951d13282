----------------------------- MODULE PclBlacklist -----------------------------
(***************************************************************************)
(* The backup blacklist of src/src/persistence_client_library_backup_      *)
(* filelist.c: readBlacklistConfigFile maps the configuration file,       *)
(* fillFileBackupCharTokenArray cuts it into tokens in place (each         *)
(* separator becomes a NUL, gpTokenArray gets a pointer to the byte after *)
(* it), createAndStoreFileNames puts the tokens into the tree, and         *)
(* need_backup_key looks a path up.  The file is unmapped at the end of    *)
(* every read, but gpTokenArray is a static array that keeps its pointers. *)
(*                                                                         *)
(* A file is a sequence of characters; a path is a sequence of path       *)
(* characters.  CRC32 of a path is taken to be injective, so the tree is   *)
(* the set of stored paths.  A pointer is a byte position in the map of a *)
(* given read (gen), or NullPtr.                                           *)
(***************************************************************************)
EXTENDS Integers, Sequences, FiniteSets

CONSTANTS
    PathChars,        \* bytes gCharLookup marks as path characters
    Seps,             \* bytes it marks as separators
    MaxFileLen,       \* longest configuration file considered
    TOKENARRAYSIZE,   \* the size of gpTokenArray
    MaxReads          \* readBlacklistConfigFile calls (one per pclInitLibrary)

ASSUME /\ PathChars \cap Seps = {} /\ PathChars # {} /\ Seps # {}
       /\ TOKENARRAYSIZE \in Nat \ {0} /\ MaxReads \in Nat \ {0}

Chars == PathChars \cup Seps
NUL == "NUL"                            \* the byte the parser writes over a separator
Garbage == <<"?">>                      \* a path read through a dangling pointer

\* configuration files of at most MaxFileLen bytes
Files == UNION {[1..n -> Chars] : n \in 0..MaxFileLen}

NullPtr == [gen |-> 0, pos |-> 0]
Ptr(g, p) == [gen |-> g, pos |-> p]

CREATE_BACKUP == 1
DONT_CREATE_BACKUP == 0
EPERS_COMMON == -1

VARIABLES
    gpTokenArray,     \* [0..TOKENARRAYSIZE-1 -> pointers]
    gRb_tree_bl,      \* the set of stored paths (NULL before any read looks up
                      \* like the empty tree)
    reads,            \* readBlacklistConfigFile calls so far
    rval,             \* its last return value
    \* history, for the properties
    lastFile,         \* the file of the last read
    pastArray,        \* the last read read gpTokenArray[TOKENARRAYSIZE]
    dangling          \* the last read read a path through an unmapped pointer

vars == <<gpTokenArray, gRb_tree_bl, reads, rval, lastFile, pastArray, dangling>>

Slots == 0..(TOKENARRAYSIZE - 1)
Pointers == {NullPtr} \cup [gen : 1..MaxReads, pos : 1..(MaxFileLen + 1)]
Paths == UNION {[1..n -> PathChars] : n \in 0..MaxFileLen}

TypeOK ==
    /\ gpTokenArray \in [Slots -> Pointers]
    /\ gRb_tree_bl \subseteq (Paths \cup {Garbage})
    /\ reads \in 0..MaxReads
    /\ rval \in {0, EPERS_COMMON}
    /\ lastFile \in Files
    /\ pastArray \in BOOLEAN /\ dangling \in BOOLEAN
-----------------------------------------------------------------------------
(* The parser, translated from the source.                                  *)

\* fillFileBackupCharTokenArray from byte i of the map of read g: a
\* separator becomes NUL and, while blankCount < TOKENARRAYSIZE, the byte
\* after it starts the next token; at the limit the loop breaks.
RECURSIVE Fill(_, _, _, _, _)
Fill(g, buf, i, arr, blankCount) ==
    IF i > Len(buf) THEN [buf |-> buf, arr |-> arr]
    ELSE IF buf[i] \notin Seps THEN Fill(g, buf, i + 1, arr, blankCount)
    ELSE LET cut == [buf EXCEPT ![i] = NUL] IN
         IF blankCount >= TOKENARRAYSIZE THEN [buf |-> cut, arr |-> arr]
         ELSE Fill(g, cut, i + 1, [arr EXCEPT ![blankCount] = Ptr(g, i + 1)],
                   blankCount + 1)

\* Mutant of Fill: the separator is not overwritten with NUL.
RECURSIVE FillNoNul(_, _, _, _, _)
FillNoNul(g, buf, i, arr, blankCount) ==
    IF i > Len(buf) THEN [buf |-> buf, arr |-> arr]
    ELSE IF buf[i] \notin Seps THEN FillNoNul(g, buf, i + 1, arr, blankCount)
    ELSE IF blankCount >= TOKENARRAYSIZE THEN [buf |-> buf, arr |-> arr]
    ELSE FillNoNul(g, buf, i + 1, [arr EXCEPT ![blankCount] = Ptr(g, i + 1)],
                   blankCount + 1)

fillFileBackupCharTokenArrayNoNul(g, f) ==
    FillNoNul(g, f, 1, [gpTokenArray EXCEPT ![0] = Ptr(g, 1)], 1)

\* the first pointer is the start of the map; the rest of gpTokenArray keeps
\* what the previous read left there
fillFileBackupCharTokenArray(g, f) ==
    Fill(g, f, 1, [gpTokenArray EXCEPT ![0] = Ptr(g, 1)], 1)

\* Mutant of TokenAt: the path is copied up to the end of the file, NULs
\* included, as a copy by length rather than by C string would.
RECURSIVE TokenAtToEnd(_, _)
TokenAtToEnd(buf, p) ==
    IF p > Len(buf) THEN <<>> ELSE <<buf[p]>> \o TokenAtToEnd(buf, p + 1)

\* the C string at byte p of a map: up to the first NUL, or to the end of the
\* file, after which the rest of the page reads as zeros
RECURSIVE TokenAt(_, _)
TokenAt(buf, p) ==
    IF p > Len(buf) \/ buf[p] = NUL THEN <<>>
    ELSE <<buf[p]>> \o TokenAt(buf, p + 1)

\* createAndStoreFileNames: token i is stored while gpTokenArray[i+1] is
\* not NULL.  At i = TOKENARRAYSIZE-1 the test reads gpTokenArray[
\* TOKENARRAYSIZE], past the array: `beyond` is whether that word is non-zero.
RECURSIVE StoredSlots(_, _, _)
StoredSlots(arr, beyond, i) ==
    IF i >= TOKENARRAYSIZE THEN {}
    ELSE IF (IF i + 1 < TOKENARRAYSIZE THEN arr[i + 1] # NullPtr ELSE beyond)
         THEN {i} \cup StoredSlots(arr, beyond, i + 1)
         ELSE {}

\* the loop reaches i = TOKENARRAYSIZE-1 when every earlier token was stored
ReadsPastArray(arr, beyond) ==
    \A i \in 0..(TOKENARRAYSIZE - 2) : i \in StoredSlots(arr, beyond, 0)

\* the path stored for slot i: a pointer of an earlier read points into a
\* map that was unmapped, and what it reads is undefined
createAndStoreFileNames(g, buf, arr, beyond) ==
    {IF arr[i].gen = g THEN TokenAt(buf, arr[i].pos) ELSE Garbage :
        i \in StoredSlots(arr, beyond, 0)}

\* readBlacklistConfigFile(filename) for the file f, as the read number g
readBlacklistConfigFile(f) ==
    /\ reads < MaxReads
    /\ reads' = reads + 1
    /\ lastFile' = f
    /\ IF Len(f) = 0
         THEN \* buffer.st_size > 0 fails
              /\ rval' = EPERS_COMMON
              /\ UNCHANGED <<gpTokenArray, gRb_tree_bl, pastArray, dangling>>
         ELSE \E beyond \in BOOLEAN :
              LET filled == fillFileBackupCharTokenArray(reads + 1, f)
                  slots == StoredSlots(filled.arr, beyond, 0)
              IN /\ gpTokenArray' = filled.arr
                 /\ gRb_tree_bl' = createAndStoreFileNames(reads + 1, filled.buf,
                                                           filled.arr, beyond)
                 /\ pastArray' = ReadsPastArray(filled.arr, beyond)
                 /\ dangling' = \E i \in slots : filled.arr[i].gen # reads + 1
                 /\ rval' = 0

\* the file cannot be stat'ed, opened or mapped: EPERS_COMMON, no tree
ReadFails ==
    /\ reads < MaxReads
    /\ reads' = reads + 1
    /\ rval' = EPERS_COMMON
    /\ UNCHANGED <<gpTokenArray, gRb_tree_bl, lastFile, pastArray, dangling>>

\* need_backup_key(pclCrc32(path)): is the path in the tree
need_backup_key(path) ==
    IF path \in gRb_tree_bl THEN DONT_CREATE_BACKUP ELSE CREATE_BACKUP

Init ==
    /\ gpTokenArray = [i \in Slots |-> NullPtr]
    /\ gRb_tree_bl = {}
    /\ reads = 0
    /\ rval = 0
    /\ lastFile = <<>>
    /\ pastArray = FALSE
    /\ dangling = FALSE

Next == (\E f \in Files : readBlacklistConfigFile(f)) \/ ReadFails

Spec == Init /\ [][Next]_vars

-----------------------------------------------------------------------------
(* Reference: spec 6 describes the file as whitespace-delimited entries;    *)
(* at most TOKENARRAYSIZE of them are kept.                                 *)

\* the maximal runs of path characters of f from byte i on, cur the run so far
RECURSIVE WordsFrom(_, _, _)
WordsFrom(f, i, cur) ==
    IF i > Len(f) THEN (IF cur = <<>> THEN <<>> ELSE <<cur>>)
    ELSE IF f[i] \in Seps
         THEN (IF cur = <<>> THEN <<>> ELSE <<cur>>) \o WordsFrom(f, i + 1, <<>>)
         ELSE WordsFrom(f, i + 1, Append(cur, f[i]))

Entries(f) ==
    LET w == WordsFrom(f, 1, <<>>)
    IN {w[k] : k \in 1..(IF Len(w) < TOKENARRAYSIZE THEN Len(w) ELSE TOKENARRAYSIZE)}

\* the non-empty paths a lookup can ask for
Lookups == Paths \ {<<>>}

-----------------------------------------------------------------------------
(* Properties                                                               *)

\* After every successful read that did not store a path through a stale
\* pointer, need_backup_key answers DONT_CREATE_BACKUP only for entries of
\* the file (or the empty path of a doubled separator): whatever the file's
\* trailing bytes and however many separators it has, even past the end of
\* gpTokenArray, the in-place cutting of fillFileBackupCharTokenArray (each
\* separator is overwritten with NUL before the limit test breaks the loop)
\* never lets a stored path run into the next entry.
OnlyEntriesBlacklisted ==
    rval = 0 /\ ~dangling => gRb_tree_bl \subseteq Entries(lastFile) \cup {<<>>}

\* After every successful read, need_backup_key answers DONT_CREATE_BACKUP
\* exactly for the entries of the file (spec 6).
BlacklistMatchesFile ==
    rval = 0 /\ reads > 0
    => \A p \in Lookups : need_backup_key(p) = DONT_CREATE_BACKUP <=> p \in Entries(lastFile)

\* createAndStoreFileNames never reads gpTokenArray[TOKENARRAYSIZE].
NoReadPastTokenArray == ~pastArray

\* A read never stores a path through a pointer that an earlier read left in
\* gpTokenArray, into a map that was unmapped.
NoDanglingTokenRead == ~dangling
====

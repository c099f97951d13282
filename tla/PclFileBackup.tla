---------------------------- MODULE PclFileBackup ----------------------------
(***************************************************************************)
(* The crash-safety triad of a file resource: the original P, the backup   *)
(* P~ and the checksum file P.crc, as kept by                              *)
(* src/src/persistence_client_library_backup_filelist.c.                   *)
(*                                                                         *)
(* The file API that drives the triad (pclFileOpen, pclFileWriteData,      *)
(* pclFileClose) is not part of src/; it is modelled from spec.md 4.4:     *)
(* open verifies and recovers the triad, the first write of an open       *)
(* creates backup and checksum, close removes them.  Everything it calls  *)
(* (pclVerifyConsistency, pclRecoverFromBackup, pclCreateBackup,          *)
(* pclCalcCrc32Csum, pclCreateFile, pclBackupNeeded) is translated from   *)
(* the source.                                                             *)
(*                                                                         *)
(* The application process may be killed between any two system calls;   *)
(* a kill during a data transfer (write, sendfile) leaves the target file *)
(* holding a mixture of old and new bytes, the value Torn.  The file      *)
(* system itself is taken to apply each system call atomically and in     *)
(* order (process kill, not power cut).                                    *)
(***************************************************************************)
EXTENDS Naturals

CONSTANTS
    Data,      \* whole, non-empty contents an application writes
    Empty,     \* the content of a file of length 0
    Torn,      \* a mixture left by an interrupted transfer
    Absent,    \* no file at the path
    EmptySum,  \* the empty string: what pclCalcCrc32Csum leaves in its buffer
               \* when it reads nothing
    Crc,       \* Crc[c]: the hex CRC32 string of content c (non-empty)
    RW, WO, RO \* the open flags O_RDWR, O_WRONLY, O_RDONLY

Contents == Data \cup {Empty, Torn}

\* PersistencePermission_e of a resource's configuration; "Other" stands for
\* any value outside the three named ones
Permissions == {"ReadWrite", "ReadOnly", "WriteOnly", "Other"}
Sums     == {Crc[c] : c \in Data \cup {Torn}}

ASSUME /\ Empty \notin Data /\ Torn \notin Data /\ Absent \notin Contents
       /\ Crc \in [Data \cup {Torn} -> Nat]
       \* a CRC collision between two contents of the model is not considered
       /\ \A a, b \in DOMAIN Crc : a # b => Crc[a] # Crc[b]
       /\ EmptySum \notin Sums

VARIABLES
    orig, backup, csum,  \* the files P, P~ (content or Absent), P.crc (Absent,
                         \* EmptySum for an empty file, or a CRC string)
    blacklisted,         \* pclBackupNeeded(P) = DONT_CREATE_BACKUP
    pc,                  \* the step of the application's current file call
    perm,                \* permission of the open handle
    backupCreated,       \* the backup of this open has been made
    csumBuf,             \* the checksum computed before pclCreateBackup
    wdata,               \* the data of the write in progress
    \* history of the file, for the properties
    committed,           \* content of P when the last call left it consistent
    lastOpen             \* what the last pclFileOpen saw and returned

vars == <<orig, backup, csum, blacklisted, pc, perm, backupCreated, csumBuf,
          wdata, committed, lastOpen>>

Steps == {"idle", "recover_copy", "opened", "cb_csum_trunc", "cb_csum_write",
          "cb_backup_trunc", "cb_copy", "write", "close_rm_backup",
          "close_rm_csum"}

OpenResult == [res : {"none", "ok", "corrupt", "notfound"},
               perm : {RW, WO, RO},               \* the open flags
               origAt : Contents \cup {Absent},   \* P when the open started
               csumAt : Sums \cup {EmptySum, Absent},
               found : Contents \cup {Absent},    \* P handed to the caller
               expect : Contents \cup {Absent}]   \* committed at the open

TypeOK ==
    /\ orig \in Contents \cup {Absent}
    /\ backup \in Contents \cup {Absent}
    /\ csum \in Sums \cup {EmptySum, Absent}
    /\ blacklisted \in BOOLEAN
    /\ pc \in Steps
    /\ perm \in {RW, WO, RO}
    /\ backupCreated \in BOOLEAN
    /\ csumBuf \in Sums \cup {EmptySum}
    /\ wdata \in Data
    /\ committed \in Contents \cup {Absent}
    /\ lastOpen \in OpenResult

-----------------------------------------------------------------------------
(* Helpers translated from the source.                                     *)

\* pclGetPosixPermission: ReadOnly and every value it does not name give
\* O_RDONLY
pclGetPosixPermission(p) ==
    CASE p = "ReadWrite" -> RW
      [] p = "WriteOnly" -> WO
      [] OTHER           -> RO

\* Mutant of pclCalcCrc32Csum: the caller takes the function's return
\* value, the result of the last read() (0 at end of file), for the checksum.
pclCalcCrc32CsumReturnsRval(c, readable) == 0

\* pclCalcCrc32Csum: the hex CRC of the whole file, or the untouched (empty)
\* buffer when the read returns nothing: an empty file, or a descriptor
\* opened O_WRONLY whose read fails.
pclCalcCrc32Csum(c, readable) ==
    IF readable /\ c # Empty THEN Crc[c] ELSE EmptySum

pclVerifyConsistency(readable) ==
    LET backCsum == pclCalcCrc32Csum(backup, TRUE)
        OrigMatches(s) == orig # Absent /\ pclCalcCrc32Csum(orig, readable) = s
    IN CASE backup # Absent /\ csum # Absent ->
              \* readSize > 0 fails for an empty checksum file: handle stays 0
              IF csum = EmptySum THEN "nothing"
              ELSE IF csum = backCsum
                   \* pclRecoverFromBackup opens P with O_TRUNC but no O_CREAT
                   THEN IF orig # Absent THEN "recover" ELSE "corrupt"
                   ELSE IF OrigMatches(csum) THEN "keep" ELSE "corrupt"
         [] backup = Absent /\ csum # Absent ->
              \* an empty checksum file leaves csumBuf empty
              IF OrigMatches(csum) THEN "keep" ELSE "corrupt"
         [] backup # Absent /\ csum = Absent ->
              IF OrigMatches(backCsum) THEN "keep" ELSE "corrupt"
         [] backup = Absent /\ csum = Absent -> "nothing"

\* pclBackupDoFileCopy: sendfile of the whole source; it fails when the
\* source descriptor is write-only.
pclBackupDoFileCopy(src, readable) == IF readable THEN src ELSE Empty

-----------------------------------------------------------------------------
(* pclFileOpen (spec 4.4) with pclVerifyConsistency and, on "recover",     *)
(* the first half of pclRecoverFromBackup: open(P, O_TRUNC | O_RDWR).      *)

OpenRecord(res, found, p) ==
    [res |-> res, perm |-> p, origAt |-> orig, csumAt |-> csum, found |-> found,
     expect |-> committed]

\* Every open() in pclVerifyConsistency and pclRecoverFromBackup that fails
\* (EMFILE, ENFILE, EACCES, ...) leaves handle = -1, and the triad is
\* removed as if corrupt.  An open is tried only when P~ or P.crc exists.
VerifyOpenFails == IF backup # Absent \/ csum # Absent THEN {"corrupt"} ELSE {}

\* spec 4.4 step 2: the triad is verified for a writable open of a path
\* that is not blacklisted
VerifyOutcomes(p) ==
    IF blacklisted \/ p = RO THEN {"nothing"}
    ELSE {pclVerifyConsistency(p # WO)} \cup VerifyOpenFails

pclFileOpen(p, create) ==
    /\ pc = "idle"
    /\ perm' = p
    /\ \E verify \in VerifyOutcomes(p) :
          \/ /\ verify = "corrupt"
             \* remove(origPath); remove(backupPath); remove(csumPath)
             /\ orig' = Absent /\ backup' = Absent /\ csum' = Absent
             /\ pc' = "idle"
             /\ lastOpen' = OpenRecord("corrupt", Absent, p)
             /\ committed' = Absent
          \/ /\ verify = "recover"
             /\ orig' = Empty
             /\ pc' = "recover_copy"
             /\ lastOpen' = OpenRecord("none", Absent, p)
             /\ UNCHANGED <<backup, csum, committed>>
          \/ /\ verify \in {"keep", "nothing"}
             /\ orig # Absent
             /\ pc' = "opened"
             /\ lastOpen' = OpenRecord("ok", orig, p)
             \* a read-only open checks and changes nothing: what the last
             \* writable open established stands
             /\ IF p = RO THEN UNCHANGED committed ELSE committed' = orig
             /\ UNCHANGED <<orig, backup, csum>>
          \/ /\ verify = "nothing" /\ orig = Absent /\ create
             \* pclCreateFile: open(P, O_CREAT | O_RDWR | O_TRUNC)
             /\ orig' = Empty
             /\ pc' = "opened"
             /\ lastOpen' = OpenRecord("ok", Absent, p)
             /\ committed' = Empty
             /\ UNCHANGED <<backup, csum>>
          \/ /\ verify = "nothing" /\ orig = Absent /\ ~create
             /\ pc' = "idle"
             /\ lastOpen' = OpenRecord("notfound", Absent, p)
             /\ committed' = Absent
             /\ UNCHANGED <<orig, backup, csum>>
    /\ backupCreated' = FALSE
    /\ UNCHANGED <<blacklisted, csumBuf, wdata>>

\* pclRecoverFromBackup: copy the backup over the truncated original; the
\* open then returns that descriptor, opened O_RDWR whatever the caller
\* asked for.
pclRecoverFromBackup ==
    /\ pc = "recover_copy"
    /\ orig' = pclBackupDoFileCopy(backup, TRUE)
    /\ perm' = RW
    /\ pc' = "opened"
    /\ lastOpen' = [lastOpen EXCEPT !.res = "ok", !.found = orig']
    /\ committed' = orig'
    /\ UNCHANGED <<backup, csum, blacklisted, backupCreated, csumBuf, wdata>>

\* the start of pclCreateBackup: if access(P~, F_OK) fails, pclCreateFile
\* makes the chain of directories and an empty P~, whose descriptor is
\* closed at once; an existing P~ is left as it is
pclCreateBackupFile(b) == IF b = Absent THEN Empty ELSE b

-----------------------------------------------------------------------------
(* pclFileWriteData (spec 4.4): the first write of an open computes the    *)
(* checksum of P through the open descriptor and calls pclCreateBackup,   *)
(* unless P is blacklisted; then the data is written in place.            *)

\* A write through an O_RDONLY descriptor fails in write(2) (EBADF) before
\* the backup is made or a byte is written.
pclFileWriteData(d) ==
    /\ pc = "opened" /\ perm # RO
    /\ wdata' = d
    /\ IF ~backupCreated /\ ~blacklisted
       THEN /\ csumBuf' = pclCalcCrc32Csum(orig, perm # WO)
            /\ backup' = pclCreateBackupFile(backup)
            /\ pc' = "cb_csum_trunc"
       ELSE /\ pc' = "write"
            /\ UNCHANGED <<csumBuf, backup>>
    /\ UNCHANGED <<orig, csum, blacklisted, perm, backupCreated, committed, lastOpen>>

\* pclCreateBackup: open(P.crc, O_CREAT | O_WRONLY | O_TRUNC) ...
pclCreateBackupCsumOpen ==
    /\ pc = "cb_csum_trunc"
    /\ csum' = EmptySum
    /\ pc' = "cb_csum_write"
    /\ UNCHANGED <<orig, backup, blacklisted, perm, backupCreated, csumBuf,
                   wdata, committed, lastOpen>>

\* ... write(csfd, csumBuf, strlen(csumBuf)): nothing for an empty buffer ...
pclCreateBackupCsumWrite ==
    /\ pc = "cb_csum_write"
    /\ csum' = csumBuf
    /\ pc' = "cb_backup_trunc"
    /\ UNCHANGED <<orig, backup, blacklisted, perm, backupCreated, csumBuf,
                   wdata, committed, lastOpen>>

\* ... open(P~, O_CREAT | O_WRONLY | O_TRUNC) ...
pclCreateBackupOpen ==
    /\ pc = "cb_backup_trunc"
    /\ backup' = Empty
    /\ pc' = "cb_copy"
    /\ UNCHANGED <<orig, csum, blacklisted, perm, backupCreated, csumBuf,
                   wdata, committed, lastOpen>>

\* ... and pclBackupDoFileCopy(srcfd, dstFd) from offset 0.
pclCreateBackupCopy ==
    /\ pc = "cb_copy"
    /\ backup' = pclBackupDoFileCopy(orig, perm # WO)
    /\ backupCreated' = TRUE
    /\ pc' = "write"
    /\ UNCHANGED <<orig, csum, blacklisted, perm, csumBuf, wdata, committed, lastOpen>>

\* The failing steps of pclCreateBackup.  Each failure is only logged, and
\* pclCreateBackup goes on with its next step; its caller writes anyway.

\* open(P.crc) fails (EMFILE, ENOSPC, EACCES): P.crc is left as it was.
pclCreateBackupCsumOpenFails ==
    /\ pc = "cb_csum_trunc"
    /\ pc' = "cb_backup_trunc"
    /\ UNCHANGED <<orig, backup, csum, blacklisted, perm, backupCreated,
                   csumBuf, wdata, committed, lastOpen>>

\* write(csfd, csumBuf, csumSize) fails before a byte is written: P.crc
\* stays truncated.  (A short write of a prefix of the hex string is not
\* modelled.)  A write of zero bytes cannot fail.
pclCreateBackupCsumWriteFails ==
    /\ pc = "cb_csum_write" /\ csumBuf # EmptySum
    /\ pc' = "cb_backup_trunc"
    /\ UNCHANGED <<orig, backup, csum, blacklisted, perm, backupCreated,
                   csumBuf, wdata, committed, lastOpen>>

\* open(P~) fails: P~ keeps what it held, and nothing is copied.
pclCreateBackupOpenFails ==
    /\ pc = "cb_backup_trunc"
    /\ backupCreated' = TRUE
    /\ pc' = "write"
    /\ UNCHANGED <<orig, backup, csum, blacklisted, perm, csumBuf, wdata,
                   committed, lastOpen>>

\* sendfile fails (-1) or stops short (ENOSPC): P~ keeps nothing or a part
\* of P.
pclCreateBackupCopyFails ==
    /\ pc = "cb_copy"
    /\ \/ UNCHANGED backup
       \/ /\ perm # WO /\ orig \notin {Empty, Torn}
          /\ backup' = Torn
    /\ backupCreated' = TRUE
    /\ pc' = "write"
    /\ UNCHANGED <<orig, csum, blacklisted, perm, csumBuf, wdata, committed, lastOpen>>

\* The write in place.
WriteInPlace ==
    /\ pc = "write"
    /\ orig' = wdata
    /\ pc' = "opened"
    /\ UNCHANGED <<backup, csum, blacklisted, perm, backupCreated, csumBuf,
                   wdata, committed, lastOpen>>

-----------------------------------------------------------------------------
(* pclFileClose (spec 4.4, option (a) of spec 9): a clean close of an open *)
(* that made a backup removes the backup and then the checksum file.      *)

pclFileClose ==
    /\ pc = "opened"
    /\ IF backupCreated
       THEN /\ pc' = "close_rm_backup"
            /\ UNCHANGED committed
       ELSE /\ pc' = "idle"
            \* closing a read-only descriptor confirms no write
            /\ IF perm = RO THEN UNCHANGED committed ELSE committed' = orig
    /\ UNCHANGED <<orig, backup, csum, blacklisted, perm, backupCreated,
                   csumBuf, wdata, lastOpen>>

CloseRemoveBackup ==
    /\ pc = "close_rm_backup"
    /\ backup' = Absent
    /\ pc' = "close_rm_csum"
    /\ UNCHANGED <<orig, csum, blacklisted, perm, backupCreated, csumBuf,
                   wdata, committed, lastOpen>>

CloseRemoveChecksum ==
    /\ pc = "close_rm_csum"
    /\ csum' = Absent
    /\ pc' = "idle"
    /\ committed' = orig
    /\ UNCHANGED <<orig, backup, blacklisted, perm, backupCreated, csumBuf,
                   wdata, lastOpen>>

-----------------------------------------------------------------------------
(* The process is killed.  A transfer in progress (sendfile of the backup, *)
(* the write in place, the copy of a recovery) may have moved part of its *)
(* bytes.  The files stay; the open descriptor and the call are gone.     *)

Crash ==
    /\ pc # "idle"
    /\ \/ UNCHANGED <<orig, backup>>
       \/ /\ pc = "cb_copy" /\ perm # WO /\ orig \notin {Empty, Torn}
          /\ backup' = Torn /\ UNCHANGED orig
       \/ /\ pc = "write" /\ wdata # orig
          /\ orig' = Torn /\ UNCHANGED backup
       \/ /\ pc = "recover_copy" /\ backup # Empty
          /\ orig' = Torn /\ UNCHANGED backup
    /\ pc' = "idle"
    /\ backupCreated' = FALSE
    /\ UNCHANGED <<csum, blacklisted, perm, csumBuf, wdata, committed, lastOpen>>

-----------------------------------------------------------------------------

\* A file the application left in a consistent state, before any open.
Init ==
    /\ orig \in Data \cup {Empty, Absent}
    /\ backup = Absent
    /\ csum = Absent
    /\ blacklisted \in BOOLEAN
    /\ pc = "idle"
    /\ perm = RW
    /\ backupCreated = FALSE
    /\ csumBuf = EmptySum
    /\ wdata \in Data
    /\ committed = orig
    /\ lastOpen = [res |-> "none", perm |-> RW, origAt |-> orig, csumAt |-> csum,
                   found |-> orig, expect |-> orig]

Next ==
    \/ \E p \in Permissions, create \in BOOLEAN :
          pclFileOpen(pclGetPosixPermission(p), create)
    \/ pclRecoverFromBackup
    \/ \E d \in Data : pclFileWriteData(d)
    \/ pclCreateBackupCsumOpen
    \/ pclCreateBackupCsumWrite
    \/ pclCreateBackupOpen
    \/ pclCreateBackupCopy
    \/ pclCreateBackupCsumOpenFails
    \/ pclCreateBackupCsumWriteFails
    \/ pclCreateBackupOpenFails
    \/ pclCreateBackupCopyFails
    \/ WriteInPlace
    \/ pclFileClose
    \/ CloseRemoveBackup
    \/ CloseRemoveChecksum
    \/ Crash

Spec == Init /\ [][Next]_vars

-----------------------------------------------------------------------------
(* Properties.                                                             *)

NeverServesTornFile ==
    lastOpen.res = "ok" /\ ~blacklisted /\ lastOpen.perm # RO
    /\ lastOpen.expect # Torn
        => lastOpen.found # Torn

\* Spec 3 and 8: recovery deletes the triad only when no whole content is
\* left: an original that holds whole content is never discarded.
NeverDiscardsWholeOriginal ==
    lastOpen.res = "corrupt" => lastOpen.origAt \in {Torn, Absent}
=============================================================================

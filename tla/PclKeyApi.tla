------------------------------ MODULE PclKeyApi ------------------------------
(***************************************************************************)
(* The key/value API of src/src/persistence_client_library_key.c, called   *)
(* by the threads of one application process, together with the           *)
(* lifecycle that can lock access and write the cache back.                *)
(*                                                                         *)
(* Every public function is translated from key.c: its early returns, the  *)
(* order of its checks, and the value it returns.  What it calls outside  *)
(* src/ is modelled from spec.md: get_db_context (the resource            *)
(* configuration table, a constant), the key/value backend (a write-back  *)
(* cache over the durable database), the key handle table (spec 4.5),     *)
(* persistence_notify_on_change (spec 4.6, 9), and the lifecycle of       *)
(* pclLifecycleSet and the supervisor's prepare-shutdown (spec 4.7).      *)
(*                                                                         *)
(* A call that reaches the backend takes two steps: its checks (which read *)
(* gPclInitialized, isAccessLocked() and gChangeNotifyCallback), and the  *)
(* backend operation.  Nothing in key.c holds a lock between the two.     *)
(***************************************************************************)
EXTENDS Integers, FiniteSets

\* persistence_client_library.h: the shutdownMode of pclInitLibrary.  FAST
\* and NORMAL register the process for the supervisor's shutdown
\* notification; NONE does not, and the application shuts down itself with
\* pclLifecycleSet.
PCL_SHUTDOWN_TYPE_FAST == 2
PCL_SHUTDOWN_TYPE_NORMAL == 1
PCL_SHUTDOWN_TYPE_NONE == 0

\* the argument of pclLifecycleSet
PCL_SHUTDOWN == 1
PCL_SHUTDOWN_CANCEL == 0

CONSTANTS
    Threads,            \* the application's threads
    Res,                \* resource ids found in the configuration table
    Unknown,            \* a resource id get_db_context does not find
    Config,             \* Config[r]: [type, storage, permission] of r
    Vals, NoVal,        \* values of a key; NoVal: no value stored
    Callbacks, NULL,    \* change-notification callback pointers
    MaxKeyValDataSize,  \* gMaxKeyValDataSize
    MaxHandles,         \* size of the key handle table
    ShutdownMaxCount,   \* Shutdown_MaxCount: cancels allowed per lifecycle
    ShutdownModes       \* the shutdownMode values pclInitLibrary may get

Storages == {"local", "shared", "custom"}   \* below PersistenceStorage_LastEntry

ASSUME /\ Unknown \notin Res /\ NoVal \notin Vals /\ NULL \notin Callbacks
       /\ \A r \in Res : Config[r].type \in {"key", "file"}
       /\ \A r \in Res : Config[r].permission \in {"rw", "ro", "wo"}
       /\ ShutdownModes \subseteq {PCL_SHUTDOWN_TYPE_NONE, PCL_SHUTDOWN_TYPE_NORMAL,
                                PCL_SHUTDOWN_TYPE_FAST}
       /\ MaxKeyValDataSize \in Nat \ {0} /\ MaxHandles \in Nat \ {0}

\* the resources whose value the backend stores
KeyRes == {r \in Res : Config[r].type = "key" /\ Config[r].storage \in Storages}
Handles == 1..MaxHandles
Sizes == 1..(MaxKeyValDataSize + 1)

VARIABLES
    shutdownMode,           \* the shutdownMode pclInitLibrary was given
    initialized,            \* gPclInitialized >= PCLinitialized
    accessLocked,           \* isAccessLocked() # AccessNoLock
    cache,                  \* cache[r]: the value the backend reads and writes
    disk,                   \* disk[r]: the value written back to the database
    cancelCount,            \* pclLifecycleSet(PCL_SHUTDOWN_CANCEL) calls so far
    gChangeNotifyCallback,
    notifyRegs,             \* resources registered for change notification
    keyHandles,             \* keyHandles[h]: the resource of key handle h or Unknown
    tpc, targ, tret,        \* per thread: step, arguments, last return value
    \* history, for the properties
    okValue,                \* okValue[r]: the value the last successful call left
    cbGranted,              \* callbacks a registration succeeded with, this process
    lost                    \* resources whose successful write a power-off lost

vars == <<shutdownMode, initialized, accessLocked, cache, disk, cancelCount,
          gChangeNotifyCallback, notifyRegs, keyHandles, tpc, targ, tret,
          okValue, cbGranted, lost>>

Proceed == -100   \* not a return value: the checks passed, the backend step follows

\* the error codes of the library: negative, distinct
EPERS_NOT_INITIALIZED == -1
EPERS_LOCKFS == -2
EPERS_BUFLIMIT == -3
EPERS_BADPOL == -4
EPERS_RESOURCE_READ_ONLY == -5
EPERS_NOKEY == -6
EPERS_NOTIFY_NOT_ALLOWED == -7
EPERS_INVALID_HANDLE == -8
EPERS_MAXHANDLE == -9
EPERS_SHUTDOWN_MAX_CANCEL == -10
EPERS_SHUTDOWN_NO_PERMIT == -11
Errors == {EPERS_NOT_INITIALIZED, EPERS_LOCKFS, EPERS_BUFLIMIT, EPERS_BADPOL,
           EPERS_RESOURCE_READ_ONLY, EPERS_NOKEY, EPERS_NOTIFY_NOT_ALLOWED, EPERS_INVALID_HANDLE,
           EPERS_MAXHANDLE, EPERS_SHUTDOWN_MAX_CANCEL, EPERS_SHUTDOWN_NO_PERMIT}

Returns == Errors \cup Vals \cup (0..(MaxKeyValDataSize + 1)) \cup Handles

TypeOK ==
    /\ shutdownMode \in ShutdownModes
    /\ initialized \in BOOLEAN
    /\ accessLocked \in BOOLEAN
    /\ cache \in [KeyRes -> Vals \cup {NoVal}]
    /\ disk \in [KeyRes -> Vals \cup {NoVal}]
    /\ cancelCount \in 0..ShutdownMaxCount
    /\ gChangeNotifyCallback \in Callbacks \cup {NULL}
    /\ notifyRegs \subseteq KeyRes
    /\ keyHandles \in [Handles -> Res \cup {Unknown}]
    /\ tpc \in [Threads -> {"idle", "set", "get", "delete", "notify", "unnotify"}]
    /\ tret \in [Threads -> Returns]
    /\ okValue \in [KeyRes -> Vals \cup {NoVal}]
    /\ cbGranted \subseteq Callbacks
    /\ lost \subseteq KeyRes

-----------------------------------------------------------------------------
(* The code's checks.  Each returns the value the function returns early,  *)
(* or Proceed when it goes on to the backend.                              *)

\* get_db_context: 0 when the resource is in the table, else an error
DbContext(r) == IF r \in Res THEN 0 ELSE EPERS_NOKEY

\* (rval >= 0) && (configKey.type == PersistenceResourceType_key)
IsKey(r) == r \in Res /\ Config[r].type = "key"

\* Mutant of KeyWriteCheck: the access-lock test is left out.
KeyWriteCheckNoLock(r, size) ==
    IF ~initialized THEN EPERS_NOT_INITIALIZED
    ELSE IF size > MaxKeyValDataSize THEN EPERS_BUFLIMIT
    ELSE IF ~IsKey(r) THEN DbContext(r)
    ELSE IF Config[r].permission = "ro" THEN EPERS_RESOURCE_READ_ONLY
    ELSE IF Config[r].storage \notin Storages THEN EPERS_BADPOL
    ELSE Proceed

\* the checks of pclKeyWriteData, in the code's order
KeyWriteCheck(r, size) ==
    IF ~initialized THEN EPERS_NOT_INITIALIZED
    ELSE IF accessLocked THEN EPERS_LOCKFS
    ELSE IF size > MaxKeyValDataSize THEN EPERS_BUFLIMIT
    ELSE IF ~IsKey(r) THEN DbContext(r)
    ELSE IF Config[r].permission = "ro" THEN EPERS_RESOURCE_READ_ONLY
    ELSE IF Config[r].storage \notin Storages THEN EPERS_BADPOL
    ELSE Proceed

\* Mutant of KeyAccessCheck: the access-lock test is left out.
KeyAccessCheckNoLock(r) ==
    IF ~initialized THEN EPERS_NOT_INITIALIZED
    ELSE IF ~IsKey(r) THEN DbContext(r)
    ELSE IF Config[r].storage \notin Storages THEN EPERS_BADPOL
    ELSE Proceed

\* the checks of pclKeyReadData and of pclKeyDelete (the same in both)
KeyAccessCheck(r) ==
    IF ~initialized THEN EPERS_NOT_INITIALIZED
    ELSE IF accessLocked THEN EPERS_LOCKFS
    ELSE IF ~IsKey(r) THEN DbContext(r)
    ELSE IF Config[r].storage \notin Storages THEN EPERS_BADPOL
    ELSE Proceed

\* the checks of regNotifyOnChange: no access-lock check
RegNotifyCheck(r) ==
    IF ~initialized THEN EPERS_NOT_INITIALIZED
    ELSE IF DbContext(r) # 0 THEN DbContext(r)
    ELSE IF Config[r].storage = "local" \/ Config[r].type # "key"
         THEN EPERS_NOTIFY_NOT_ALLOWED
    ELSE Proceed

\* Mutant of CallbackAllowed: only the registered pointer is compared, so a
\* registration with no callback yet in place is refused, and one with a
\* different callback is accepted.
CallbackAllowedSwapped(cb) == gChangeNotifyCallback # cb

\* the callback check of pclKeyRegisterNotifyOnChange and of
\* pclKeyHandleRegisterNotifyOnChange, made before anything else
CallbackAllowed(cb) == gChangeNotifyCallback \in {cb, NULL}

\* get_key_handle_data and the test of persHandle.resource_id[0]: the
\* handle's resource, or the error the handle functions return
HandleLookup(h) ==
    IF ~initialized THEN EPERS_NOT_INITIALIZED
    ELSE IF h \notin Handles THEN EPERS_MAXHANDLE
    ELSE IF keyHandles[h] = Unknown THEN EPERS_INVALID_HANDLE
    ELSE keyHandles[h]

ViaHandle(h, Check(_)) ==
    IF HandleLookup(h) \in Res THEN Check(HandleLookup(h)) ELSE HandleLookup(h)

Args(r, v, size, cb) == [res |-> r, val |-> v, size |-> size, cb |-> cb]

\* A call's first step: it returns c, or, when c is Proceed, goes on to the
\* backend step `step` with arguments a.
Begin(t, c, step, a) ==
    /\ tpc[t] = "idle"
    /\ IF c = Proceed
         THEN /\ tpc' = [tpc EXCEPT ![t] = step]
              /\ targ' = [targ EXCEPT ![t] = a]
              /\ UNCHANGED tret
         ELSE /\ tret' = [tret EXCEPT ![t] = c]
              /\ UNCHANGED <<tpc, targ>>
    /\ UNCHANGED <<initialized, accessLocked, cache, disk, cancelCount,
                   gChangeNotifyCallback, notifyRegs, keyHandles,
                   okValue, cbGranted, lost>>
-----------------------------------------------------------------------------
(* The API functions of key.c, one action each, by thread t.               *)

pclKeyWriteData(t, r, v, size) ==
    Begin(t, KeyWriteCheck(r, size), "set", Args(r, v, size, NULL))

pclKeyHandleWriteData(t, h, v, size) ==
    Begin(t, ViaHandle(h, LAMBDA r : KeyWriteCheck(r, size)), "set",
          Args(keyHandles[h], v, size, NULL))

pclKeyReadData(t, r) == Begin(t, KeyAccessCheck(r), "get", Args(r, NoVal, 0, NULL))

pclKeyHandleReadData(t, h) ==
    Begin(t, ViaHandle(h, KeyAccessCheck), "get", Args(keyHandles[h], NoVal, 0, NULL))

pclKeyDelete(t, r) == Begin(t, KeyAccessCheck(r), "delete", Args(r, NoVal, 0, NULL))

pclKeyRegisterNotifyOnChange(t, r, cb) ==
    Begin(t, IF CallbackAllowed(cb) THEN RegNotifyCheck(r)
             ELSE EPERS_NOTIFY_NOT_ALLOWED,
          "notify", Args(r, NoVal, 0, cb))

pclKeyHandleRegisterNotifyOnChange(t, h, cb) ==
    Begin(t, IF CallbackAllowed(cb) THEN ViaHandle(h, RegNotifyCheck)
             ELSE EPERS_NOTIFY_NOT_ALLOWED,
          "notify", Args(keyHandles[h], NoVal, 0, cb))

pclKeyUnRegisterNotifyOnChange(t, r, cb) ==
    Begin(t, RegNotifyCheck(r), "unnotify", Args(r, NoVal, 0, cb))

pclKeyHandleUnRegisterNotifyOnChange(t, h, cb) ==
    Begin(t, ViaHandle(h, RegNotifyCheck), "unnotify", Args(keyHandles[h], NoVal, 0, cb))

\* pclKeyGetSize makes no access-lock check, and returns EPERS_BADPOL also
\* when the resource is unknown or not a key.  persistence_get_data_size
\* answers with the size of the stored value, abstracted as the value.
KeyGetSize(r) ==
    IF ~initialized THEN EPERS_NOT_INITIALIZED
    ELSE IF ~IsKey(r) \/ Config[r].storage \notin Storages THEN EPERS_BADPOL
    ELSE IF cache[r] = NoVal THEN EPERS_NOKEY
    ELSE cache[r]

pclKeyGetSize(t, r) == Begin(t, KeyGetSize(r), "idle", Args(r, NoVal, 0, NULL))

pclKeyHandleGetSize(t, h) ==
    Begin(t, ViaHandle(h, KeyGetSize), "idle", Args(Unknown, NoVal, 0, NULL))

\* get_persistence_handle_idx (spec 4.5): a free slot, or none
FreeHandles == {h \in Handles : keyHandles[h] = Unknown}

\* pclKeyHandleOpen makes no access-lock check, and returns its initial
\* EPERS_NOT_INITIALIZED when the resource is unknown or not a key.
pclKeyHandleOpen(t, r) ==
    /\ tpc[t] = "idle"
    /\ IF initialized /\ IsKey(r) /\ Config[r].storage \in Storages /\ FreeHandles # {}
         THEN LET h == CHOOSE x \in FreeHandles : \A y \in FreeHandles : x <= y
              IN /\ keyHandles' = [keyHandles EXCEPT ![h] = r]
                 /\ tret' = [tret EXCEPT ![t] = h]
         ELSE /\ tret' = [tret EXCEPT ![t] =
                   IF ~initialized \/ ~IsKey(r) THEN EPERS_NOT_INITIALIZED
                   ELSE IF Config[r].storage \notin Storages THEN EPERS_BADPOL
                   ELSE EPERS_MAXHANDLE]
              /\ UNCHANGED keyHandles
    /\ UNCHANGED <<initialized, accessLocked, cache, disk, cancelCount,
                   gChangeNotifyCallback, notifyRegs, tpc, targ,
                   okValue, cbGranted, lost>>

pclKeyHandleClose(t, h) ==
    /\ tpc[t] = "idle"
    /\ IF HandleLookup(h) \in Res
         THEN /\ keyHandles' = [keyHandles EXCEPT ![h] = Unknown]
              /\ tret' = [tret EXCEPT ![t] = 1]
         ELSE /\ tret' = [tret EXCEPT ![t] = HandleLookup(h)]
              /\ UNCHANGED keyHandles
    /\ UNCHANGED <<initialized, accessLocked, cache, disk, cancelCount,
                   gChangeNotifyCallback, notifyRegs, tpc, targ,
                   okValue, cbGranted, lost>>
-----------------------------------------------------------------------------
(* The backend step of a call that passed its checks (spec 4.3, 4.6).  It  *)
(* runs whatever the lock and the lifecycle did since the checks.          *)

\* persistence_set_data: the value goes into the cache; returns the size
SetData(t) ==
    LET a == targ[t] IN
    /\ tpc[t] = "set"
    /\ cache' = [cache EXCEPT ![a.res] = a.val]
    /\ okValue' = [okValue EXCEPT ![a.res] = a.val]
    /\ tret' = [tret EXCEPT ![t] = a.size]
    /\ tpc' = [tpc EXCEPT ![t] = "idle"]
    /\ UNCHANGED <<initialized, accessLocked, disk, cancelCount,
                   gChangeNotifyCallback, notifyRegs, keyHandles, targ,
                   cbGranted, lost>>

\* persistence_get_data
GetData(t) ==
    LET r == targ[t].res IN
    /\ tpc[t] = "get"
    /\ tret' = [tret EXCEPT ![t] = IF cache[r] = NoVal THEN EPERS_NOKEY ELSE cache[r]]
    /\ tpc' = [tpc EXCEPT ![t] = "idle"]
    /\ UNCHANGED <<initialized, accessLocked, cache, disk, cancelCount,
                   gChangeNotifyCallback, notifyRegs, keyHandles, targ,
                   okValue, cbGranted, lost>>

\* persistence_delete_data
DeleteData(t) ==
    LET r == targ[t].res IN
    /\ tpc[t] = "delete"
    /\ IF cache[r] = NoVal
         THEN /\ tret' = [tret EXCEPT ![t] = EPERS_NOKEY]
              /\ UNCHANGED <<cache, okValue>>
         ELSE /\ cache' = [cache EXCEPT ![r] = NoVal]
              /\ okValue' = [okValue EXCEPT ![r] = NoVal]
              /\ tret' = [tret EXCEPT ![t] = 0]
    /\ tpc' = [tpc EXCEPT ![t] = "idle"]
    /\ UNCHANGED <<initialized, accessLocked, disk, cancelCount,
                   gChangeNotifyCallback, notifyRegs, keyHandles, targ,
                   cbGranted, lost>>

\* persistence_notify_on_change(Notify_register): stores the callback
\* pointer in gChangeNotifyCallback and registers the resource
NotifyRegister(t) ==
    LET a == targ[t] IN
    /\ tpc[t] = "notify"
    /\ gChangeNotifyCallback' = a.cb
    /\ notifyRegs' = notifyRegs \cup {a.res}
    /\ cbGranted' = cbGranted \cup {a.cb}
    /\ tret' = [tret EXCEPT ![t] = 0]
    /\ tpc' = [tpc EXCEPT ![t] = "idle"]
    /\ UNCHANGED <<initialized, accessLocked, cache, disk, cancelCount,
                   keyHandles, targ, okValue, lost>>

\* persistence_notify_on_change(Notify_unregister)
NotifyUnregister(t) ==
    /\ tpc[t] = "unnotify"
    /\ notifyRegs' = notifyRegs \ {targ[t].res}
    /\ tret' = [tret EXCEPT ![t] = 0]
    /\ tpc' = [tpc EXCEPT ![t] = "idle"]
    /\ UNCHANGED <<initialized, accessLocked, cache, disk, cancelCount,
                   gChangeNotifyCallback, keyHandles, targ, okValue,
                   cbGranted, lost>>
-----------------------------------------------------------------------------
(* The lifecycle (spec 4.7), not under src/.  A shutdown locks access and   *)
(* writes the cache back in one step; a power-off ends the process, and the *)
(* next one starts from what was written back.                             *)

\* Mutant of CancelAllowed: off by one, one cancel too many is accepted.
CancelAllowedOffByOne == cancelCount <= ShutdownMaxCount

\* a cancel is accepted while fewer than Shutdown_MaxCount were made
CancelAllowed == cancelCount < ShutdownMaxCount

\* pclLifecycleSet(PCL_SHUTDOWN | PCL_SHUTDOWN_CANCEL), legal in mode NONE
pclLifecycleSet(t, shutdown) ==
    /\ tpc[t] = "idle"
    /\ \/ /\ ~initialized \/ shutdownMode # PCL_SHUTDOWN_TYPE_NONE
          /\ tret' = [tret EXCEPT ![t] = IF ~initialized THEN EPERS_NOT_INITIALIZED
                                        ELSE EPERS_SHUTDOWN_NO_PERMIT]
          /\ UNCHANGED <<accessLocked, disk, cancelCount>>
       \/ /\ initialized /\ shutdownMode = PCL_SHUTDOWN_TYPE_NONE /\ shutdown = PCL_SHUTDOWN
          /\ accessLocked' = TRUE
          /\ disk' = cache
          /\ tret' = [tret EXCEPT ![t] = 1]
          /\ UNCHANGED cancelCount
       \/ /\ initialized /\ shutdownMode = PCL_SHUTDOWN_TYPE_NONE /\ shutdown = PCL_SHUTDOWN_CANCEL
          /\ IF CancelAllowed
               THEN /\ cancelCount' = cancelCount + 1
                    /\ accessLocked' = FALSE
                    /\ tret' = [tret EXCEPT ![t] = 1]
               ELSE /\ tret' = [tret EXCEPT ![t] = EPERS_SHUTDOWN_MAX_CANCEL]
                    /\ UNCHANGED <<cancelCount, accessLocked>>
          /\ UNCHANGED disk
    /\ UNCHANGED <<initialized, cache, gChangeNotifyCallback, notifyRegs,
                   keyHandles, tpc, targ, okValue, cbGranted, lost>>

\* the supervisor's prepare-shutdown, handled by the mainloop thread when
\* the process registered for shutdown (mode FAST or NORMAL)
PrepareShutdown ==
    /\ shutdownMode # PCL_SHUTDOWN_TYPE_NONE /\ initialized /\ ~accessLocked
    /\ accessLocked' = TRUE
    /\ disk' = cache
    /\ UNCHANGED <<initialized, cache, cancelCount, gChangeNotifyCallback,
                   notifyRegs, keyHandles, tpc, targ, tret, okValue,
                   cbGranted, lost>>

\* pclDeinitLibrary: flushes the cache, then the library is uninitialized
pclDeinitLibrary(t) ==
    /\ tpc[t] = "idle" /\ initialized
    /\ disk' = cache
    /\ initialized' = FALSE
    /\ tret' = [tret EXCEPT ![t] = 1]
    /\ UNCHANGED <<accessLocked, cache, cancelCount, gChangeNotifyCallback,
                   notifyRegs, keyHandles, tpc, targ, okValue, cbGranted, lost>>

\* pclInitLibrary(appname, shutdownMode) again after pclDeinitLibrary, in
\* the same process: the library is initialized, with access not locked.
\* The cache, the handles and the registrations are left as they are.
pclInitLibrary(t) ==
    /\ tpc[t] = "idle" /\ ~initialized
    /\ initialized' = TRUE
    /\ accessLocked' = FALSE
    /\ tret' = [tret EXCEPT ![t] = 1]
    /\ UNCHANGED <<cache, disk, cancelCount, gChangeNotifyCallback, notifyRegs,
                   keyHandles, tpc, targ, okValue, cbGranted, lost>>

\* power-off after the shutdown completed, and the next start of the
\* process (pclInitLibrary): calls in progress die; the cache is reloaded
\* from the database.  `lost` records each successful write that did not
\* reach the database.
PowerOff ==
    /\ accessLocked \/ ~initialized
    /\ lost' = lost \cup {r \in KeyRes : okValue[r] # disk[r]}
    /\ okValue' = disk
    /\ cache' = disk
    /\ initialized' = TRUE
    /\ accessLocked' = FALSE
    /\ cancelCount' = 0
    /\ gChangeNotifyCallback' = NULL
    /\ notifyRegs' = {}
    /\ keyHandles' = [h \in Handles |-> Unknown]
    /\ tpc' = [t \in Threads |-> "idle"]
    /\ cbGranted' = {}
    /\ UNCHANGED <<disk, targ, tret>>

-----------------------------------------------------------------------------
Init ==
    /\ shutdownMode \in ShutdownModes
    /\ initialized = TRUE
    /\ accessLocked = FALSE
    /\ disk = [r \in KeyRes |-> NoVal]
    /\ cache = disk
    /\ cancelCount = 0
    /\ gChangeNotifyCallback = NULL
    /\ notifyRegs = {}
    /\ keyHandles = [h \in Handles |-> Unknown]
    /\ tpc = [t \in Threads |-> "idle"]
    /\ targ = [t \in Threads |-> Args(Unknown, NoVal, 0, NULL)]
    /\ tret = [t \in Threads |-> 0]
    /\ okValue = disk
    /\ cbGranted = {}
    /\ lost = {}

ResIds == Res \cup {Unknown}
HandleIds == 1..(MaxHandles + 1)     \* MaxHandles + 1 is out of the table

Call(t) ==
    \/ \E r \in ResIds, v \in Vals, size \in Sizes : pclKeyWriteData(t, r, v, size)
    \/ \E h \in HandleIds, v \in Vals, size \in Sizes : pclKeyHandleWriteData(t, h, v, size)
    \/ \E r \in ResIds : \/ pclKeyReadData(t, r)
                         \/ pclKeyDelete(t, r)
                         \/ pclKeyGetSize(t, r)
                         \/ pclKeyHandleOpen(t, r)
    \/ \E h \in HandleIds : \/ pclKeyHandleReadData(t, h)
                            \/ pclKeyHandleGetSize(t, h)
                            \/ pclKeyHandleClose(t, h)
    \/ \E r \in ResIds, cb \in Callbacks :
          \/ pclKeyRegisterNotifyOnChange(t, r, cb)
          \/ pclKeyUnRegisterNotifyOnChange(t, r, cb)
    \/ \E h \in HandleIds, cb \in Callbacks :
          \/ pclKeyHandleRegisterNotifyOnChange(t, h, cb)
          \/ pclKeyHandleUnRegisterNotifyOnChange(t, h, cb)
    \/ \E shutdown \in {PCL_SHUTDOWN, PCL_SHUTDOWN_CANCEL} : pclLifecycleSet(t, shutdown)
    \/ pclDeinitLibrary(t)
    \/ pclInitLibrary(t)

Backend(t) == SetData(t) \/ GetData(t) \/ DeleteData(t)
                \/ NotifyRegister(t) \/ NotifyUnregister(t)

\* the application passes the same shutdownMode at every start
Next ==
    /\ \/ \E t \in Threads : Call(t) \/ Backend(t)
       \/ PrepareShutdown
       \/ PowerOff
    /\ UNCHANGED shutdownMode

Spec == Init /\ [][Next]_vars

-----------------------------------------------------------------------------
(* Properties                                                               *)

\* Every key write that returned success (pclKeyWriteData or
\* pclKeyHandleWriteData through persistence_set_data) is in the database
\* when the process is powered off after its shutdown: the access lock
\* checked at key.c:416 and the write-back of the shutdown keep the
\* cache and the database in step.
AllSuccessfulWritesSurvive == lost = {}

\* The same for an application that drives its own shutdown (shutdownMode
\* PCL_SHUTDOWN_TYPE_NONE) from a single thread: pclLifecycleSet then runs on the thread
\* that writes, so its lock and write-back never fall between a write's
\* check and its backend step.
UnsupervisedWritesSurvive == shutdownMode = PCL_SHUTDOWN_TYPE_NONE => lost = {}

\* At most one callback pointer is ever accepted for change notification
\* in a process (the test of gChangeNotifyCallback in
\* pclKeyRegisterNotifyOnChange and pclKeyHandleRegisterNotifyOnChange).
OneCallbackPerProcess == Cardinality(cbGranted) <= 1

\* The key API implements a write-back store (WriteBackStore).  A call of
\* pclKeyWriteData, pclKeyHandleWriteData or pclKeyDelete is admitted when
\* it passes its checks, which is only while the library is initialized
\* and access is not locked, and its backend step applies the admitted key
\* and value; a call that dies at a power-off is dropped.  The database
\* only ever receives the whole cache, and only as access closes or while
\* it is closed (pclLifecycleSet(PCL_SHUTDOWN), the supervisor's
\* prepare-shutdown, pclDeinitLibrary); a cancel or pclInitLibrary reopens
\* access without writing; a power-off comes only with access closed and
\* the next start reads the database.
PendingUpdate ==
    [t \in Threads |->
        CASE tpc[t] = "set"    -> <<targ[t].res, targ[t].val>>
          [] tpc[t] = "delete" -> <<targ[t].res, NoVal>>
          [] OTHER             -> Unknown]

AbstractStore == INSTANCE WriteBackStore
    WITH Keys <- KeyRes, Values <- Vals \cup {NoVal}, Callers <- Threads,
         None <- Unknown, store <- cache, db <- disk,
         open <- initialized /\ ~accessLocked, pending <- PendingUpdate

ImplementsWriteBackStore == AbstractStore!Spec
====

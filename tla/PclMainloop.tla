------------------------------ MODULE PclMainloop ------------------------------
(***************************************************************************)
(* The D-Bus main loop of src/test/persistence_lifeCycle_mockup.c and its  *)
(* start-up handshake.                                                     *)
(*                                                                         *)
(* The main thread (setup_dbus_mainloop) connects to the bus, locks        *)
(* gDbusInitializedMtx, starts the main-loop thread and waits on           *)
(* gDbusInitializedCond.  The main-loop thread (mainLoop) locks the mutex, *)
(* creates the eventfd, installs the watch functions, signals and unlocks, *)
(* then loops: dispatch, poll, handle the ready descriptors in order.      *)
(* addWatch appends a poll entry and writes CMD_REQUEST_NAME to the        *)
(* eventfd; removeWatch leaves the poll set as it is.                      *)
(*                                                                         *)
(* libdbus is the environment: it enables and disables its read and write *)
(* watches while it dispatches, the bus delivers data, and a signal sets   *)
(* endLoop.                                                                 *)
(***************************************************************************)
EXTENDS Integers, Sequences, FiniteSets

CONSTANTS
    ReadWatch, WriteWatch,  \* the two watches of the bus socket
    PollCap                 \* ARRAY_SIZE(gPollInfo.fds) (10 in the code)

ASSUME PollCap \in Nat \ {0, 1}

Watches == {ReadWatch, WriteWatch}

CMD_QUIT == 3
CMD_REQUEST_NAME == 4

VARIABLES
    mainPc,         \* step of setup_dbus_mainloop
    loopPc,         \* step of mainLoop; "none" before pthread_create
    mtx,            \* owner of gDbusInitializedMtx: "free", "main" or "loop"
    gDbusConn,      \* "ok" or "null"
    endLoop,        \* set by sigHandler
    efd,            \* the eventfd counter
    pollSet,        \* gPollInfo.watches[1 .. nfds-1]; entry 0 is the eventfd
    enabled,        \* enabled[w]: libdbus has w enabled
    incoming,       \* the bus socket has data to read
    \* history, for the properties
    handledDisabled,\* dbus_watch_handle was called on a disabled watch
    unlockedUnheld  \* line 514 unlocked a mutex this thread did not hold

vars == <<mainPc, loopPc, mtx, gDbusConn, endLoop, efd, pollSet, enabled,
          incoming, handledDisabled, unlockedUnheld>>

MainPcs == {"connect", "lock", "create", "wait", "waiting", "woken", "done"}
LoopPcs == {"none", "lock", "init", "dispatch", "poll", "exit", "done"}

TypeOK ==
    /\ mainPc \in MainPcs /\ loopPc \in LoopPcs
    /\ mtx \in {"free", "main", "loop"}
    /\ gDbusConn \in {"ok", "null"}
    /\ endLoop \in {0, 1}
    /\ efd \in 0..(CMD_REQUEST_NAME * (PollCap - 1))
    /\ pollSet \in Seq(Watches) /\ Len(pollSet) <= PollCap - 1
    /\ enabled \in [Watches -> BOOLEAN]
    /\ incoming \in BOOLEAN
    /\ handledDisabled \in BOOLEAN /\ unlockedUnheld \in BOOLEAN
-----------------------------------------------------------------------------
(* Watch callbacks, run by libdbus on the main-loop thread.                *)

\* Mutant of addWatch: the ARRAY_SIZE(gPollInfo.fds) > nfds test is dropped.
addWatchNoCap(w) ==
    /\ pollSet' = Append(pollSet, w)
    /\ efd' = efd + CMD_REQUEST_NAME

\* addWatch for an enabled watch: while a slot is free, append its poll
\* entry (nfds++) and wake the loop with CMD_REQUEST_NAME
addWatch(w) ==
    IF PollCap > 1 + Len(pollSet)
      THEN /\ pollSet' = Append(pollSet, w)
           /\ efd' = efd + CMD_REQUEST_NAME
      ELSE UNCHANGED <<pollSet, efd>>

\* removeWatch frees the watch's data (none here): gPollInfo keeps the entry
removeWatch(w) == UNCHANGED <<pollSet, efd>>

\* libdbus toggles w while dispatching: watchToggled
watchToggled(w) ==
    /\ loopPc = "dispatch"
    /\ enabled' = [enabled EXCEPT ![w] = ~@]
    /\ IF enabled'[w] THEN addWatch(w) ELSE removeWatch(w)
    /\ UNCHANGED <<mainPc, loopPc, mtx, gDbusConn, endLoop, incoming,
                   handledDisabled, unlockedUnheld>>
-----------------------------------------------------------------------------
(* setup_dbus_mainloop, on the main thread.                                 *)

\* connect to the bus: dbus_bus_register failing returns -1 before the lock;
\* a failed open leaves gDbusConn NULL and carries on
MainConnect ==
    /\ mainPc = "connect"
    /\ \/ mainPc' = "done" /\ UNCHANGED gDbusConn
       \/ \E c \in {"ok", "null"} : gDbusConn' = c /\ mainPc' = "lock"
    /\ UNCHANGED <<loopPc, mtx, endLoop, efd, pollSet, enabled, incoming,
                   handledDisabled, unlockedUnheld>>

MainLock ==
    /\ mainPc = "lock" /\ mtx = "free"
    /\ mtx' = "main" /\ mainPc' = "create"
    /\ UNCHANGED <<loopPc, gDbusConn, endLoop, efd, pollSet, enabled, incoming,
                   handledDisabled, unlockedUnheld>>

\* pthread_create: the error is only printed
MainCreate ==
    /\ mainPc = "create"
    /\ mainPc' = "wait"
    /\ loopPc' \in {"lock", "none"}
    /\ UNCHANGED <<mtx, gDbusConn, endLoop, efd, pollSet, enabled, incoming,
                   handledDisabled, unlockedUnheld>>

\* pthread_cond_wait releases the mutex and blocks
MainWait ==
    /\ mainPc = "wait"
    /\ mtx' = "free" /\ mainPc' = "waiting"
    /\ UNCHANGED <<loopPc, gDbusConn, endLoop, efd, pollSet, enabled, incoming,
                   handledDisabled, unlockedUnheld>>

\* a spurious wakeup, which POSIX allows
MainSpuriousWakeup ==
    /\ mainPc = "waiting" /\ mainPc' = "woken"
    /\ UNCHANGED <<loopPc, mtx, gDbusConn, endLoop, efd, pollSet, enabled,
                   incoming, handledDisabled, unlockedUnheld>>

\* pthread_cond_wait returns once it has the mutex again; then line 593
\* unlocks it and setup_dbus_mainloop returns
MainReturn ==
    /\ mainPc = "woken" /\ mtx = "free"
    /\ mainPc' = "done"
    /\ UNCHANGED <<loopPc, mtx, gDbusConn, endLoop, efd, pollSet, enabled,
                   incoming, handledDisabled, unlockedUnheld>>

\* pthread_cond_signal: wakes the main thread if it is waiting, else is lost
Signal == IF mainPc = "waiting" THEN "woken" ELSE mainPc
-----------------------------------------------------------------------------
(* mainLoop, on its own thread.                                             *)

\* Mutant of LoopLock: the thread starts without taking the mutex.
LoopLockSkipped ==
    /\ loopPc = "lock"
    /\ loopPc' = "init"
    /\ UNCHANGED <<mainPc, mtx, gDbusConn, endLoop, efd, pollSet, enabled,
                   incoming, handledDisabled, unlockedUnheld>>

\* pthread_mutex_lock(&gDbusInitializedMtx), then the signal handlers
LoopLock ==
    /\ loopPc = "lock" /\ mtx = "free"
    /\ mtx' = "loop" /\ loopPc' = "init"
    /\ UNCHANGED <<mainPc, gDbusConn, endLoop, efd, pollSet, enabled, incoming,
                   handledDisabled, unlockedUnheld>>

\* lines 380-419: with a connection, eventfd and the object paths
\* registered, dbus_connection_set_watch_functions calls addWatch for each
\* watch (the read watch is enabled, the write watch only with output
\* pending) in libdbus's order; then signal and unlock.  Every failure
\* goes to the clean-up.
LoopInit ==
    /\ loopPc = "init"
    /\ \/ /\ gDbusConn = "ok"
          /\ \E w1 \in Watches, writeOn \in BOOLEAN :
               LET on == IF writeOn THEN Watches ELSE {ReadWatch}
                   order == IF on = {ReadWatch} THEN <<ReadWatch>>
                            ELSE <<w1>> \o <<CHOOSE w2 \in Watches : w2 # w1>>
               IN /\ enabled' = [w \in Watches |-> w \in on]
                  /\ pollSet' = order
                  /\ efd' = CMD_REQUEST_NAME * Len(order)
          /\ mainPc' = Signal
          /\ mtx' = "free"
          /\ loopPc' = "dispatch"
       \/ \* NULL connection, eventfd(), register or set_watch_functions failed
          /\ loopPc' = "exit"
          /\ UNCHANGED <<mainPc, mtx, efd, pollSet, enabled>>
    /\ UNCHANGED <<gDbusConn, endLoop, incoming, handledDisabled, unlockedUnheld>>

\* dbus_connection_dispatch returns DISPATCH_COMPLETE (toggles happen in
\* watchToggled while it runs)
DispatchDone ==
    /\ loopPc = "dispatch" /\ loopPc' = "poll"
    /\ UNCHANGED <<mainPc, mtx, gDbusConn, endLoop, efd, pollSet, enabled,
                   incoming, handledDisabled, unlockedUnheld>>

\* the descriptors poll reports ready: the eventfd when its counter is
\* non-zero, a read entry when the socket has data, a write entry always
EfdReady == efd > 0
EntryReady(i) == pollSet[i] = WriteWatch \/ incoming

\* Mutant of PollRound: the endLoop test after the round is dropped.
PollRoundNoEndLoop ==
    /\ loopPc = "poll"
    /\ LET ready == {i \in 1..Len(pollSet) : EntryReady(i)}
           cmd == efd % 2^16
       IN \E nameOk \in BOOLEAN, handleOk \in BOOLEAN :
          LET efdContinue == IF EfdReady /\ cmd = CMD_REQUEST_NAME THEN nameOk
                             ELSE ~(EfdReady /\ cmd = CMD_QUIT)
              bContinue == IF ready # {} THEN handleOk ELSE efdContinue
          IN /\ efd' = 0
             /\ incoming' = (incoming /\ ~\E i \in ready : pollSet[i] = ReadWatch)
             /\ handledDisabled' = (handledDisabled \/ \E i \in ready : ~enabled[pollSet[i]])
             /\ loopPc' = IF bContinue THEN "dispatch" ELSE "exit"
    /\ UNCHANGED <<mainPc, mtx, gDbusConn, endLoop, pollSet, enabled, unlockedUnheld>>

\* lines 426-501: poll (EINTR retried; a 500 ms timeout makes it return),
\* then every ready entry in order: the eventfd is read whole and buf[0],
\* its low 16 bits, taken as the command (CMD_REQUEST_NAME: request the
\* name, bContinue = FALSE if that fails; CMD_QUIT: bContinue = FALSE);
\* each ready watch entry sets bContinue = dbus_watch_handle(...), which
\* reads the socket and is FALSE only without memory.  The last writer of
\* bContinue wins.  Then break on endLoop, else loop while bContinue.
PollRound ==
    /\ loopPc = "poll"
    /\ LET ready == {i \in 1..Len(pollSet) : EntryReady(i)}
           cmd == efd % 2^16
       IN \E nameOk \in BOOLEAN, handleOk \in BOOLEAN :
          LET efdContinue == IF EfdReady /\ cmd = CMD_REQUEST_NAME THEN nameOk
                             ELSE ~(EfdReady /\ cmd = CMD_QUIT)
              bContinue == IF ready # {} THEN handleOk ELSE efdContinue
          IN /\ efd' = 0
             /\ incoming' = (incoming /\ ~\E i \in ready : pollSet[i] = ReadWatch)
             /\ handledDisabled' = (handledDisabled \/ \E i \in ready : ~enabled[pollSet[i]])
             /\ loopPc' = IF endLoop = 1 \/ ~bContinue THEN "exit" ELSE "dispatch"
    /\ UNCHANGED <<mainPc, mtx, gDbusConn, endLoop, pollSet, enabled, unlockedUnheld>>

\* poll fails with an error other than EINTR: bContinue stays 0
PollFails ==
    /\ loopPc = "poll" /\ loopPc' = "exit"
    /\ UNCHANGED <<mainPc, mtx, gDbusConn, endLoop, efd, pollSet, enabled,
                   incoming, handledDisabled, unlockedUnheld>>

\* lines 503-515: unregister, close, then signal and unlock the mutex,
\* which the success path already unlocked at line 419
LoopExit ==
    /\ loopPc = "exit"
    /\ loopPc' = "done"
    /\ mainPc' = Signal
    /\ unlockedUnheld' = (unlockedUnheld \/ mtx # "loop")
    /\ mtx' = "free"
    /\ UNCHANGED <<gDbusConn, endLoop, efd, pollSet, enabled, incoming,
                   handledDisabled>>
-----------------------------------------------------------------------------
(* The environment.                                                         *)

\* sigHandler(SIGTERM, SIGQUIT or SIGINT), once the handler is installed
sigHandler ==
    /\ loopPc \notin {"none", "lock"} /\ endLoop = 0
    /\ endLoop' = 1
    /\ UNCHANGED <<mainPc, loopPc, mtx, gDbusConn, efd, pollSet, enabled,
                   incoming, handledDisabled, unlockedUnheld>>

\* a message arrives on the bus socket
BusSends ==
    /\ ~incoming /\ incoming' = TRUE
    /\ UNCHANGED <<mainPc, loopPc, mtx, gDbusConn, endLoop, efd, pollSet,
                   enabled, handledDisabled, unlockedUnheld>>

Init ==
    /\ mainPc = "connect"
    /\ loopPc = "none"
    /\ mtx = "free"
    /\ gDbusConn = "null"
    /\ endLoop = 0
    /\ efd = 0
    /\ pollSet = <<>>
    /\ enabled = [w \in Watches |-> FALSE]
    /\ incoming = FALSE
    /\ handledDisabled = FALSE
    /\ unlockedUnheld = FALSE

MainStep == MainConnect \/ MainLock \/ MainCreate \/ MainWait \/ MainReturn
LoopStep == LoopLock \/ LoopInit \/ DispatchDone \/ PollRound \/ LoopExit

Next ==
    \/ MainStep \/ MainSpuriousWakeup
    \/ LoopStep \/ PollFails
    \/ \E w \in Watches : watchToggled(w)
    \/ sigHandler \/ BusSends

\* Both threads are scheduled while they can run; poll's timeout makes the
\* loop's steps always enabled.  Spurious wakeups, failures of poll, the
\* bus, libdbus's toggles and signals are not assumed to happen.
Fairness == WF_vars(MainStep) /\ WF_vars(LoopLock) /\ WF_vars(LoopInit)
            /\ WF_vars(DispatchDone) /\ WF_vars(PollRound) /\ WF_vars(LoopExit)

Spec == Init /\ [][Next]_vars /\ Fairness
-----------------------------------------------------------------------------
(* Properties                                                               *)

\* Once the main-loop thread exists, setup_dbus_mainloop returns: the
\* thread takes gDbusInitializedMtx before it signals, so its signal (line
\* 418, or line 513 on a failure) cannot come before the main thread waits.
SetupReturns == (loopPc # "none") ~> (mainPc = "done")

\* After a termination signal the main loop ends and cleans up: the endLoop
\* test at line 498 runs on every round, and poll's timeout guarantees
\* rounds.
SignalEndsLoop == (endLoop = 1) ~> (loopPc = "done")
====

SPECIFICATION Spec
CONSTANTS
    ReadWatch = ReadWatch
    WriteWatch = WriteWatch
    PollCap = 4
INVARIANT TypeOK
PROPERTY SetupReturns SignalEndsLoop
\* The mockup's main returns after setup_dbus_mainloop and the loop thread
\* ends after its clean-up: both stop.
CHECK_DEADLOCK FALSE

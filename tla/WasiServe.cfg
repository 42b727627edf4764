SPECIFICATION WasiSpec
CONSTANTS
    Tasks = {k1}
    Timers = {1, 2}
    Repeating = {2}
    Timeout <- MCTimeout
    Requests = {r1}
    MaxSleep = 2
    Budget = 5
    NoPromise = NoPromise
    Platforms = {"cgi", "fastly", "wasi-http"}
INVARIANTS
    WasiTypeOK
    OneReference
    WaitersWillBeSettled
    OwnGeneration
    BlockingIsStack
    NoFalseDeadlock
    AnsweredOnce
    FailedIsIncomplete
    NoTrap
PROPERTY RunEnds

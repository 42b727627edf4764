SPECIFICATION Spec
CONSTANTS
    Tasks = {k1}
    Timers = {1, 2}
    Repeating = {2}
    Timeout <- MCTimeout
    Requests = {r1}
    MaxSleep = 2
    Budget = 4
    NoPromise = NoPromise
PROPERTY
    StuckWaitStops

SPECIFICATION Spec
CONSTANTS
    Calls = {c1, c2, c3, c4}
    Readers = {r1, r2}
    Flusher = Flusher
    Cap = 4
    MaxFaults = 0
INVARIANT
    CachedOnce
CHECK_DEADLOCK FALSE

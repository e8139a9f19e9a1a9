\* The legacy request table under every server behaviour.
CONSTANTS
    c1 = c1  c2 = c2
    Callers <- MCCallers
    NoPromise = NoPromise
    MaxRequests = 3
    MaxFrames = 2
    Behaviours = {"malformed", "duplicate", "signal", "encodeFail"}
SPECIFICATION Spec
INVARIANT PendingRegistered
\* The process may die (crashed), and a test stops calling: a state with
\* no successor is a real end of the program here.
CHECK_DEADLOCK FALSE

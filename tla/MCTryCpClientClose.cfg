\* Spec 4.2 says closing rejects every pending call; the code leaves them.
CONSTANTS
    c1 = c1  c2 = c2  r1 = r1  r2 = r2  p1 = p1  h1 = h1
    Callers <- MCCallers
    Requests <- MCRequests
    Ports <- MCPorts
    Handlers <- MCHandlers
    NoPromise = NoPromise
    NoHandler = NoHandler
    MaxRequests = 3
    MaxFrames = 2
    Behaviours = {"close"}
SPECIFICATION Spec
INVARIANT ClosedLeavesNoCallPending

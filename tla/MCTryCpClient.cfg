\* Safety of the request/response multiplexer against every server fault:
\* malformed and duplicated responses, a failing encode, close and drop; and
\* that each caller sees only what RpcAbstract allows.
CONSTANTS
    c1 = c1  c2 = c2  r1 = r1  r2 = r2  p1 = p1  h1 = h1
    Callers <- MCCallers
    Requests <- MCRequests
    Ports <- MCPorts
    Handlers <- MCHandlers
    NoPromise = NoPromise
    NoHandler = NoHandler
    MaxRequests = 3
    MaxFrames = 2
    Behaviours = {"malformed", "duplicate", "encodeFail", "close", "drop"}
SPECIFICATION Spec
INVARIANT TypeOK
INVARIANT Correlation
INVARIANT PromiseTableExact
PROPERTY ImplementsRpc

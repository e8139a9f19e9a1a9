\* A signal between the connect answer and setSignalHandler (part_006:253).
CONSTANTS
    t1 = t1  t2 = t2  p1 = p1  p2 = p2  a1 = a1  h1 = h1
    NoPort = NoPort  NoHandler = NoHandler
    Tasks <- MCTasks
    Ports <- MCPorts
    Apps <- MCApps
    Handlers <- MCHandlers
    Faults = {"portTaken", "enableErrors"}
SPECIFICATION Spec
INVARIANT NoSignalLostAfterConnect
SYMMETRY MCSymmetry

CONSTANTS
    a1 = a1
    x1 = x1
    x2 = x2
    v1 = v1
    None = None
    Imeis = {v1}
    Sockets <- MCSockets
    Protocol <- MCProtocol
    Device <- MCDevice
    TextPorts <- MCTextPorts
    PortCap <- MCPortCap
    Chunks <- MCChunks
    MaxChunks = 2
    MaxPublished = 2
    Faults = {"reconnect", "refused", "crash"}
SPECIFICATION Spec
CHECK_DEADLOCK FALSE
SYMMETRY TextSymmetry
INVARIANTS TypeOK PlacesAreSockets AnsweredIsKnown HandledIsPublished PublishedIsHandled

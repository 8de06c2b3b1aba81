CONSTANTS
    sys = sys
    usb = usb
    app = app
    Tasks = {sys, usb, app}
    Priority <- MCPriority
    App = app
    QueueSize = 2
    MaxFaults = 3
    Server = Server
    Idle = Idle
SPECIFICATION FairSpec
INVARIANTS NoFaultForgotten OnlyFaultingSuspended
PROPERTIES ResetsOnlyAtTop FaultEnds

SPECIFICATION DeliverySpec
CONSTANTS
    Federation = {"server"}
    Appservice = {}
    Push = {"pusher"}
    Items = {1, 2, 3}
    DequeueLimit = 2
    Netburst = TRUE
    Keep = 2
    DbFails = TRUE
    MaxChan = 2
    MaxStops = 1
    MaxCount = 2
    MaxLost = 1
    MaxShutdowns = 1
INVARIANTS
    SenderSound
    
PROPERTIES
    ImplementsOutbox
    
    EventuallyReceived
CHECK_DEADLOCK FALSE

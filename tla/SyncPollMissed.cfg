SPECIFICATION DeliverySpec
CONSTANTS
    Federation = {"server"}
    Appservice = {}
    Push = {"pusher"}
    Items = {1}
    DequeueLimit = 2
    Netburst = TRUE
    Keep = 2
    DbFails = TRUE
    MaxChan = 2
    MaxStops = 0
    MaxCount = 1
    MaxLost = 0
    MaxShutdowns = 0
PROPERTIES
    NotMissed
CHECK_DEADLOCK FALSE

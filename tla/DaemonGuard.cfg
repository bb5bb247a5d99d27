SPECIFICATION Spec
CONSTANTS
    Daemons <- MCDaemons
    Guards <- MCGuards
    Clients <- MCClients
    MaxEvents = 1
PROPERTIES
    
    OneServes
    OneWatcher
    ServiceReturns
CHECK_DEADLOCK FALSE

SPECIFICATION Spec
CONSTANTS
    Clients = {c1, c2}
    MaxMessages = 4
    Capacity = 2
    Null = Null
INVARIANT HandlerOutlivesClients
CHECK_DEADLOCK FALSE

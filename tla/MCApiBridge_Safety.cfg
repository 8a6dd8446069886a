CONSTANTS
    DeviceIds = {d1}
    Rooms = {kitchen, hall}
    Types <- MCTypes
    Variables <- MCVariables
    Values = {0, 1}
    Initial = 0
    MaxFlight = 2
    MaxCommands = 1
    NoRoom = NoRoom
    NoType = NoType
    NoState = NoState

SPECIFICATION Spec
INVARIANT CacheCatchesUp

CONSTANTS
    Models <- MCModels
    Supported <- MCSupported
    EventTypes <- MCEventTypes
    Handles <- MCHandles
    NoModel = NoModel
    NoObject = NoObject
    DeviceIds <- MCIds
    Seed <- MCSeed
    MaxObjects = 2

SPECIFICATION Spec
INVARIANTS TypeOK MemoryMirrorsDisk Durable StateChangeOnLiveObject HandlerOfOwnDevice
PROPERTY ImplementsCatalog

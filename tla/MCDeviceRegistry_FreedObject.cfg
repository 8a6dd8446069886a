CONSTANTS
    Models <- MCModels
    Supported <- MCSupported
    EventTypes <- MCEventTypes
    Handles <- MCHandles
    NoModel = NoModel
    NoObject = NoObject
    DeviceIds <- MCFewIds
    Seed <- MCFewSeed
    MaxObjects = 0

SPECIFICATION Spec
INVARIANT HandlerOnLiveObject

CONSTANTS
    lamp = lamp
    plus = plus
    bad = bad
    meter = meter
    NoDevice = NoDevice
    DeviceIds <- MCIds
    Proto <- MCProto
    Topic <- MCTopic
    MaxLosses = 2

SPECIFICATION Spec
INVARIANTS TypeOK NoGhostSubscription SubscribedUntilLoss FatalNeedsLossOrTopic MqttNeedsRest DownIsDisconnected
CHECK_DEADLOCK FALSE

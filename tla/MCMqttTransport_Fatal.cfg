CONSTANTS
    lamp = lamp
    plus = plus
    bad = bad
    meter = meter
    NoDevice = NoDevice
    DeviceIds <- MCIds
    Proto <- MCProto
    Topic <- MCPlain
    MaxLosses = 1

SPECIFICATION Spec
INVARIANT PublishIsNeverFatal
CHECK_DEADLOCK FALSE

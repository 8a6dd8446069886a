CONSTANTS
    DeviceIds = {d1, d2, d3, d4, d5}
    FirstIpByte = 251

SPECIFICATION Spec
INVARIANT PoolPartitioned

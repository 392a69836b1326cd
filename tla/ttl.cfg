SPECIFICATION Spec
CONSTANTS
    Device = {d1}
    Operator = {o1, o2}
    TTL_THRESHOLD = 2
    TTL_EXTEND_TO = 4
    MinTtl = 3
SYMMETRY Symmetry
INVARIANTS
    MeteredDeviceLives

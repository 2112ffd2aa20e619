CONSTANTS
    Workers = {"w1"}
    Gateways = {"g1"}
    Admins = {"a1"}
    Limits = {1}
    MaxUpdates = 1
    MaxConfigFaults = 0
SPECIFICATION ConfigSpec
PROPERTIES
    DisabledIsNoticed
CHECK_DEADLOCK FALSE

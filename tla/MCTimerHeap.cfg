CONSTANTS
    Timeouts = {1, 2, 3}
    Capacity = 6
SPECIFICATION Spec
PROPERTY RefinesTimersAbs

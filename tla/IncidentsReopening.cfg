SPECIFICATION Spec
CONSTANTS
    Requests = {r1}
    MaxAlerts = 2
    MaxFaults = 0
PROPERTY ReopeningPages

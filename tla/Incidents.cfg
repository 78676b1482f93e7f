SPECIFICATION FairSpec
CONSTANTS
    Requests = {r1, r2}
    MaxAlerts = 3
    MaxFaults = 1
INVARIANTS
    NoAlertStorm
    OpeningsArePaged
    OccurrencesNotOvercounted
PROPERTY QuietIncidentResolves

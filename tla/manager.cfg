CONSTANTS
    Replicas = {r1, r2, r3}
    Nobody = Nobody
    Former = Former
    LeaseDuration = 15
    RenewDeadline = 10
    RetryPeriod = 2
    ExitTime = 2
    MaxStops = 3
SPECIFICATION FairSpec
INVARIANTS TypeOK OneActive
PROPERTIES SomebodyActive

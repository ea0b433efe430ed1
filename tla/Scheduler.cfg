SPECIFICATION FairSpec
CONSTANTS
    Procs = {p1, p2}
    Nobody = Nobody
    MaxFaults = 1
    hourly = hourly
    halfHourly = halfHourly
    Tenants = {t1}
    Scans = {hourly}
    Interval <- IntervalByName
    Hour = 2
    Day = 4
    TickEvery = 2
    Late = 1
INVARIANTS
    OncePerWindow
    FenceHasOneOwner
PROPERTIES
    OnlyTimeEndsLeadership
    EveryScanKeepsFiring
    OneLeaderInTheEnd

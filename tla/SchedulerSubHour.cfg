SPECIFICATION Spec
CONSTANTS
    Procs = {p1, p2}
    Nobody = Nobody
    MaxFaults = 1
    hourly = hourly
    halfHourly = halfHourly
    Tenants = {t1}
    Scans = {halfHourly}
    Interval <- IntervalByName
    Hour = 4
    Day = 4
    TickEvery = 2
    Late = 1
INVARIANTS
    OncePerWindow

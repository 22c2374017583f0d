CONSTANTS
    a1 = a1
    a2 = a2
    b1 = b1
    daemon = daemon
    cli = cli
    free = free
    paid = paid
    Callers = {a1, b1}
    Processes = {daemon, cli}
    Of <- MCOf
    Providers = {free, paid}
    Chains <- MCChains
    Limited = {free}
    Interval = 2
    Retries = 2
    MaxCooldown = 2
    MaxTime = 4
    MaxFaults = 1
SPECIFICATION Spec
CHECK_DEADLOCK FALSE
INVARIANTS
    QuotaKept
    RefusedOnce

SPECIFICATION FairSpec
CONSTANTS
    light = light
    other = other
    heavy = heavy
    None = None
    Tenant = {light, other, heavy}
    Waiter = {1, 2, 3}
    Impatient = {1}
    Permits = 3
    PerTenantLimit = 2
    QueuePerTenant = 2
    QueueTotal = 3
    Weight <- MCWeight
INVARIANTS
    InFlightExact
    CeilingHeld
    RingExact
    WorkConserving
    EveryWaiterHasItsPlace
    AccountsBalance
PROPERTIES
    NoOvertaking
    NoStarvation

SPECIFICATION Spec
CONSTANTS
    light = light
    other = other
    heavy = heavy
    None = None
    Tenant = {light}
    Waiter = {1, 2, 3}
    Impatient = {1}
    Permits = 1
    PerTenantLimit = 1
    QueuePerTenant = 2
    QueueTotal = 3
    Weight <- MCWeight
INVARIANT
    QueueBoundKept

SPECIFICATION FairSpec
CONSTANTS
    global = global
    model = model
    mine = mine
    yours = yours
    batch = batch
    chat = chat
    other = other
    Calls = {batch, chat, other}
    Keys = {global, model}
    KeysOf <- ModelKeys
    Tenants = {mine, yours}
    TenantOf <- Owners
    Background = {batch, other}
    Capacity <- Envelope
    TenantCapacity <- PerTenant
    Reserve <- Foreground
    LeaseTicks <- ModelLease
    CallTicks = 1
INVARIANTS
    PhysicalWithinCapacity
PROPERTIES
    CapacityComesBack
CHECK_DEADLOCK FALSE

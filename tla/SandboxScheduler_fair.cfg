SPECIFICATION FairSpec
CONSTANTS
    j1 = j1  j2 = j2  j3 = j3  tenant1 = tenant1  tenant2 = tenant2
    Jobs = {j1, j2, j3}
    Tenants = {tenant1, tenant2}
    Tenant <- MCTenant
    MinWorkers = 1
    MaxWorkers = 2
    MaxPerTenant = 1
    MaxQueueSize = 2
    LowAge = 1
    NormalAge = 2
INVARIANTS TypeOK  
 
CHECK_DEADLOCK FALSE

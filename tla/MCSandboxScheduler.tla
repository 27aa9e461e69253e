------------------------- MODULE MCSandboxScheduler -------------------------
EXTENDS SandboxSchedulerInv

CONSTANTS j1, j2, j3, tenant1, tenant2

MCTenant == [j \in Jobs |-> IF j = j3 THEN tenant2 ELSE tenant1]
=============================================================================

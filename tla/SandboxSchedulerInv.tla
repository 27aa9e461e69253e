------------------------ MODULE SandboxSchedulerInv ------------------------
(***************************************************************************)
(* The inductive invariant of SandboxScheduler.                            *)
(***************************************************************************)
EXTENDS SandboxScheduler

Bucket == [queue : [Tenants -> Seq(Jobs)], order : Seq(Tenants), index : Nat]

(* What BucketsAreSound says of one bucket; none of its queues repeats a   *)
(* job.                                                                    *)
Fit(b) ==
    /\ b \in Bucket
    /\ Range(b.order) = {t \in Tenants : b.queue[t] # <<>>}
    /\ IsInjective(b.order)
    /\ b.index < Len(b.order) \/ b.index = 0
    /\ \A t \in Tenants : /\ IsInjective(b.queue[t])
                          /\ \A j \in Range(b.queue[t]) : Tenant[j] = t

(* All buckets: a job is in one of them at most.                           *)
AllFit(B) ==
    /\ B \in [Priority -> Bucket]
    /\ \A p \in Priority : Fit(B[p])
    /\ \A p, q \in Priority : p # q => Contents(B[p]) \cap Contents(B[q]) = {}

QueueInv ==
    /\ AllFit(bucket)
    /\ IsFiniteSet(QueuedJobs) /\ Cardinality(QueuedJobs) <= MaxQueueSize
    /\ QueuedJobs \cap executing = {}

LimitInv == IsFiniteSet(executing) /\ LimitsHold

IInv == TypeOK /\ QueueInv /\ LimitInv

(* Where the worker loop finds a job to start.                             *)
Found(p) ==
    /\ Turns(bucket[p]) # {}
    /\ \A q \in Priority : Turns(bucket[q]) # {} => Level[p] <= Level[q]

(* The rotation misses nobody, wherever the index of a bucket stands: a job*)
(* is found iff the tenant of some queued job is below its limit, it is the*)
(* only candidate, and where nothing executes a queued job is found.       *)
NothingAllowedIsMissed ==
    /\ (\E p \in Priority : Found(p)) <=> \E j \in QueuedJobs : Allowed(Tenant[j])
    /\ \A p, q \in Priority : Found(p) /\ Found(q) => p = q
    /\ \A p \in Priority : \A k, l \in Turns(bucket[p]) : k = l
    /\ executing = {} /\ QueuedJobs # {} => \E p \in Priority : Found(p)
=============================================================================

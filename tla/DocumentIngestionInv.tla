------------------------ MODULE DocumentIngestionInv ------------------------
(* The inductive strengthening of DocumentIngestion's safety invariants.   *)
EXTENDS DocumentIngestion

Absent == {"none", "deleted"}

(* What a row keeps from its past: a job that was never admitted has had no*)
(* attempt, and one that is over has no retry.                             *)
RowInv ==
    \A j \in JobIds :
        /\ job[j].status = "none" => job[j].attempts = 0
        /\ job[j].status \in Terminal => job[j].retry = NoTime

(* The jobs that were admitted are the first ones of their document.       *)
AskedInv == \A j \in JobIds : job[j].status = "none" <=> j[2] > asked[DocOf(j)]

Busy(w)    == work[w].at # "idle"
Informed(w) == work[w].at \in {"loaded", "locked"}

(* A worker's token is that of a claim that was made.                      *)
WorkInv ==
    \A w \in Workers :
        /\ Busy(w) => /\ work[w].job \in JobIds
                      /\ work[w].token # NoToken
                      /\ job[work[w].job].status # "none"
                      /\ \/ job[work[w].job].status = "deleted"
                         \/ work[w].token <= job[work[w].job].attempts
        /\ Informed(w) => work[w].seen \in [active : JobIds \cup {NoVersion}, doc : DocType]

(* No claim has two workers.                                               *)
TokenInv ==
    \A v, w \in Workers :
        v # w /\ Busy(v) /\ Busy(w) /\ work[v].job = work[w].job
            => work[v].token # work[w].token

(* A status request carries what it has read, and a verdict once it has one*)
ReaderInv ==
    \A r \in Readers :
        /\ reader[r].at # "idle" => reader[r].doc \in Docs /\ reader[r].settings \in Settings
        /\ reader[r].at = "judged" => reader[r].verdict # "none"

LockInv == \A w \in Workers : work[w].at = "locked" <=> lock = w

(* The worker's claim is the current one, whether or not its lease is over.*)
Holds(w) ==
    /\ Busy(w)
    /\ job[work[w].job].status = "running"
    /\ job[work[w].job].token = work[w].token

(* What a session believes to be active once was.                          *)
SeenInv ==
    \A w \in Workers :
        Informed(w) /\ work[w].seen.active # NoVersion
            => version[work[w].seen.active].status # "none"

CleanupInv == \A v \in cleanup : version[v].status = "superseded"

(* While a base has one document, the session that holds the document's    *)
(* claim knows what is active, and so replaces it.                         *)
OneDocument == \A d, e \in Docs : d = e

LeakInv ==
    OneDocument =>
        /\ NothingLeaks
        /\ \A w \in Workers : Informed(w) /\ Holds(w) => work[w].seen.active = active

(* Without status requests that write back what they have read, a document *)
(* keeps the settings of its active job, and so does what a session knows. *)
SettingsInv ==
    Readers = {} =>
        /\ BuiltAsAsked
        /\ \A j \in JobIds : job[j].status \in Active => doc[DocOf(j)].settings = job[j].settings
        /\ \A w \in Workers :
              Informed(w) /\ Holds(w) => work[w].seen.doc.settings = job[work[w].job].settings

IInv ==
    /\ TypeOK /\ RowInv /\ AskedInv /\ SingleFlight
    /\ WorkInv /\ ReaderInv /\ TokenInv /\ LockInv /\ SeenInv
    /\ OneResult /\ ActiveIntact /\ CleanupInv /\ LeakInv /\ SettingsInv
=============================================================================

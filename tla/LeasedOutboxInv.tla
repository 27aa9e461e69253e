-------------------------- MODULE LeasedOutboxInv --------------------------
(* The inductive strengthening of LeasedOutbox's safety invariants.        *)
EXTENDS LeasedOutbox

(* What is due has attempts left: the next lease is one of them.           *)
RowInv ==
    \A e \in Events :
        /\ row[e].status \in {"none", "pending"} => row[e].attempts = 0
        /\ row[e].status = "retry_scheduled" => row[e].attempts < MaxAttempts

AuditSteps        == {"read", "insert", "inserted", "found", "winner"}
NotificationSteps == {"publish", "published"}

(* A pass is about an event of its outbox, and not about one that it has   *)
(* yet to take.                                                            *)
PassInv ==
    \A w \in Workers :
        /\ pass[w].step = "idle" => pass[w].todo = {}
        /\ pass[w].step \notin {"idle", "next"} => pass[w].event \in Events \ pass[w].todo
        /\ pass[w].step \in AuditSteps => pass[w].event \in Audits
        /\ pass[w].step \in NotificationSteps => pass[w].event \in Notifications

(* What a pass has seen of its event still holds when it writes: audits and*)
(* runs stay, attempts only grow.                                          *)
SeenInv ==
    \A w \in Workers :
        LET e == pass[w].event
        IN  /\ pass[w].step \in {"found", "winner"} => audit[e] # "absent"
            /\ pass[w].step = "insert" /\ e \in Correlated \ runs =>
                  row[e].attempts = MaxAttempts
            /\ pass[w].step = "inserted" /\ pass[w].link = "unlinked" /\ e \in Correlated =>
                  row[e].attempts = MaxAttempts
            /\ pass[w].step = "published" => published[e] > 0

(* The workers that may yet publish an event under a lease they have, or   *)
(* once had.                                                               *)
Publishers(e) ==
    {w \in Workers : e \in pass[w].todo \/ (pass[w].step = "publish" /\ pass[w].event = e)}

(* Each of them has an attempt of its own.                                 *)
PublishInv ==
    \A e \in Notifications : published[e] + Cardinality(Publishers(e)) <= row[e].attempts

IInv ==
    /\ TypeOK /\ RowInv /\ PassInv /\ SeenInv
    /\ AuditWithItsEvent /\ PublishedPerAttempt /\ PublishInv
=============================================================================

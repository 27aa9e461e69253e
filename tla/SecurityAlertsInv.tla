-------------------------- MODULE SecurityAlertsInv --------------------------
(***************************************************************************)
(* The inductive invariant of SecurityAlerts: who may hold the alert of a  *)
(* key and what it knows of it, what an open transaction has read, and     *)
(* which windows the receipts and the running batch vouch for.             *)
(***************************************************************************)
EXTENDS SecurityAlerts

Steps == {"idle", "find", "create", "commit"}

TxType ==
    [step : Steps, rule : Rule, todo : SUBSET Audits, batch : SUBSET Audits,
     seen : SUBSET Audits, fresh : SUBSET Audits, mine : [Rule -> Held \cup {NoAlert}]]

(* Types; only finitely many audits are committed at any time.             *)
TypeOK ==
    /\ log \in SUBSET Audits /\ IsFiniteSet(log)
    /\ alerts \in [Rule -> Seq(Alert)]
    /\ receipt \in [Audits -> [found : Nat, evaluated : Nat]]
    /\ generation \in Nat
    /\ tx \in [Processes -> TxType]

(* All alerts of a key but the last are resolved, and the resolutions have *)
(* a latest one.                                                           *)
KeyInv ==
    \A r \in Rule :
        /\ ResolvedAt(r) \in Nat
        /\ \A i \in DOMAIN alerts[r] :
              /\ i < Len(alerts[r]) => alerts[r][i].status = "resolved"
              /\ alerts[r][i].status = "active" => alerts[r][i].resolvedAt = 0
              /\ alerts[r][i].resolvedAt <= ResolvedAt(r)

(* One transaction at a time holds the alert of a key: the active one, of  *)
(* which it knows all evidence, or one of its own where none is active.    *)
Holds(p, r) == tx[p].mine[r] # NoAlert

LockInv ==
    \A r \in Rule : \A p \in Processes : Holds(p, r) =>
        /\ tx[p].mine[r].row.status = "active" /\ tx[p].mine[r].row.resolvedAt = 0
        /\ Active(r) => /\ tx[p].mine[r].at = Len(alerts[r])
                        /\ Last(alerts[r]).evidence \subseteq tx[p].mine[r].row.evidence
        /\ ~Active(r) => tx[p].mine[r].at = Len(alerts[r]) + 1
        /\ \A q \in Processes : Holds(q, r) => q = p

(* The counters of an alert agree with its evidence.                       *)
Sound(alert) ==
    /\ IsFiniteSet(alert.evidence)
    /\ alert.count = Cardinality(alert.evidence)
    /\ \E a \in alert.evidence : alert.last = At[a]
    /\ \A a \in alert.evidence : At[a] <= alert.last

SoundInv ==
    /\ \A r \in Rule : \A i \in DOMAIN alerts[r] : Sound(alerts[r][i])
    /\ \A r \in Rule : \A p \in Processes : Holds(p, r) => Sound(tx[p].mine[r].row)

(* What a transaction read still includes the audit it is about, and what  *)
(* it would open an alert for still includes all that is not resolved.     *)
ReadFits(t) ==
    /\ t.step = "idle" => t = Idle
    /\ t.todo \subseteq log
    /\ t.step \in {"find", "create"} =>
          t.todo # {} /\ Current(t) \in t.seen /\ t.seen \subseteq log
    /\ t.step = "create" =>
          /\ t.mine[t.rule] = NoAlert
          /\ Current(t) \in t.fresh
          /\ t.fresh \subseteq InWindow(t.seen, Current(t), Window[t.rule])
          /\ \A b \in Matched(t.rule, t.seen, Current(t)) :
                At[b] > ResolvedAt(t.rule) => b \in t.fresh

ReadInv == \A p \in Processes : ReadFits(tx[p])

-----------------------------------------------------------------------------
(* What reconciliation vouches for.                                        *)

(* The audits of a window that no resolution has dealt with.               *)
Wanted(r, S, a) == {b \in InWindow(S, a, Window[r]) : At[b] > ResolvedAt(r)}

(* The receipt of an audit says that its whole window was known when it    *)
(* was evaluated.                                                          *)
Evaluated(a) ==
    /\ receipt[a].found # 0
    /\ \A b \in log : Predecessor(b, a) =>
          receipt[b].found # 0 /\ receipt[b].found <= receipt[a].evaluated

ReceiptInv ==
    \A a \in Audits :
        /\ receipt[a].found <= receipt[a].evaluated /\ receipt[a].evaluated <= generation
        /\ receipt[a].found # 0 => a \in log

CoverInv ==
    \A r \in Rule : \A a \in log :
        Evaluated(a) /\ Reached(r, Wanted(r, log, a)) =>
            Active(r) /\ Wanted(r, log, a) \subseteq Last(alerts[r]).evidence

(* The same for the batch t of the reconciliation: the audits with a       *)
(* receipt and its own are those the commit will say were known.           *)
Known(batch) == {b \in log : receipt[b].found # 0 \/ b \in batch}

Done(t, r, a) ==
    \/ a \notin t.todo
    \/ t.step = "commit"
    \/ a = Current(t) /\ t.rule = "probe" /\ r = "repeated"

Vouched(t, r, a) ==
    Reached(r, Wanted(r, Known(t.batch), a)) =>
        t.mine[r] # NoAlert /\ Wanted(r, Known(t.batch), a) \subseteq t.mine[r].row.evidence

BatchFits(t) ==
    /\ t.batch \subseteq log /\ t.todo \subseteq t.batch
    /\ t.step \in {"find", "create"} =>
          InWindow(Known(t.batch), Current(t), MaxWindow) \subseteq t.seen
    /\ \A r \in Rule : \A a \in t.batch : Done(t, r, a) => Vouched(t, r, a)

BatchInv == BatchFits(tx[Reconciler])

LockedInv == TypeOK /\ KeyInv /\ LockInv
IInv == LockedInv /\ SoundInv /\ ReadInv /\ ReceiptInv /\ CoverInv /\ BatchInv
=============================================================================

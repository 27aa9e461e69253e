------------------------------ MODULE EffectSlot ------------------------------
(***************************************************************************)
(* What the external-effect boundary promises for one slot, without rows,  *)
(* claims, leases or retries.  A provider call must be licensed before it  *)
(* is sent.  Unless the provider removes duplicates itself, a new licence  *)
(* is given only when no earlier call can have taken effect.  The slot is  *)
(* settled at most once, and only a settled success is ever handed out.    *)
(***************************************************************************)
CONSTANTS Readers, Calls, NoCall

VARIABLES
    mode,      \* "open" until the provider's contract is frozen, then "dedup" or "single"
    state,     \* of each call: "none", "marked", "sent", "applied" or "refused"
    verdict,   \* "pending", "succeeded" or "abandoned"
    winner,    \* the call whose output the slot stands for
    told       \* the call whose output each reader was given

vars == <<mode, state, verdict, winner, told>>

MayTakeEffect == {"marked", "sent", "applied"}

Init ==
    /\ mode = "open"
    /\ state = [c \in Calls |-> "none"]
    /\ verdict = "pending"
    /\ winner = NoCall
    /\ told = [r \in Readers |-> NoCall]

Freeze ==
    /\ mode = "open"
    /\ mode' \in {"dedup", "single"}
    /\ UNCHANGED <<state, verdict, winner, told>>

License(c) ==
    /\ verdict = "pending" /\ mode # "open"
    /\ state[c] = "none"
    /\ mode = "single" => \A d \in Calls : state[d] \notin MayTakeEffect
    /\ state' = [state EXCEPT ![c] = "marked"]
    /\ UNCHANGED <<mode, verdict, winner, told>>

Send(c) ==
    /\ state[c] = "marked"
    /\ state' = [state EXCEPT ![c] = "sent"]
    /\ UNCHANGED <<mode, verdict, winner, told>>

Decide(c) ==
    /\ state[c] = "sent"
    /\ \E s \in {"applied", "refused"} : state' = [state EXCEPT ![c] = s]
    /\ UNCHANGED <<mode, verdict, winner, told>>

(* Readers only ever learn the winner, and do not unlearn it.              *)
Tell ==
    /\ told' \in [Readers -> {winner', NoCall}]
    /\ \A r \in Readers : told[r] # NoCall => told'[r] = told[r]

(* A success is recorded; its output may be lost for good when the          *)
(* provider's contract does not allow to keep it.                          *)
Succeed(c) ==
    /\ verdict = "pending"
    /\ state[c] = "applied"
    /\ verdict' = "succeeded"
    /\ winner' \in {c, NoCall}
    /\ Tell
    /\ UNCHANGED <<mode, state>>

Abandon ==
    /\ verdict = "pending"
    /\ verdict' = "abandoned"
    /\ UNCHANGED <<mode, state, winner, told>>

Read ==
    /\ verdict = "succeeded"
    /\ UNCHANGED <<mode, state, verdict, winner>>
    /\ Tell

Next ==
    \/ Freeze \/ Abandon \/ Read
    \/ \E c \in Calls : License(c) \/ Send(c) \/ Decide(c) \/ Succeed(c)

Spec == Init /\ [][Next]_vars
=============================================================================

-------------------------- MODULE ExternalEffectInv --------------------------
(* The inductive strengthening of ExternalEffect's safety invariants.      *)
EXTENDS ExternalEffect

Live(t) == call[t].state \in MayTakeEffect

(* Before the first claim commits nobody holds, waits or has called.       *)
AbsentInv ==
    row.status = "absent" =>
        /\ row = AbsentRow
        /\ \A w \in Workers : pc[w] \in {"ready", "found", "retry"} \cup Ended
        /\ \A w \in Workers : output[w] = NoToken
        /\ \A t \in Tokens : call[t].state = "none"

(* A row that exists has a frozen contract, and an owner while it is open. *)
RowInv ==
    /\ row.status # "absent" => row.contract \in Contracts
    /\ row.status \in {"prepared", "in_flight"} =>
          row.owner \in Tokens /\ row.outcome = None /\ row.decision = None /\ row.result = NoToken
    /\ row.status = "terminal" =>
          /\ row.owner = NoToken
          /\ row.outcome \in Outcomes
          /\ row.decision \in Decisions
          /\ row.decision = "retry_before_effect" => row.outcome = "failed_before_effect"
          /\ row.decision = "replay_same_key" => row.outcome = "effect_outcome_unknown"
          /\ row.outcome = "succeeded" => row.decision \in {"reuse_result", "result_unavailable"}
          /\ row.decision = "reuse_result" => row.outcome = "succeeded" /\ row.result # NoToken
          /\ row.result # NoToken => row.decision = "reuse_result"

(* An execute that has not called yet has no call; later ones neither.     *)
FreshInv ==
    \A w \in Workers :
        /\ \A n \in 0 .. MaxRetries : n > retries[w] => call[<<w, n>>].state = "none"
        /\ pc[w] \in {"ready", "found", "waiting", "stopping", "claimed"} =>
              call[Token(w)].state = "none"

(* The verdict a delivery is about to record agrees with its own call.     *)
AnswerFits(w) ==
    /\ answer[w].outcome \in Outcomes /\ answer[w].decision \in Decisions
    /\ answer[w].outcome = "failed_before_effect" =>
          /\ ~Live(Token(w))
          /\ answer[w].decision \in {"retry_before_effect", "stop"} /\ answer[w].result = NoToken
    /\ answer[w].outcome = "effect_outcome_unknown" =>
          answer[w].decision \in {"replay_same_key", "stop"} /\ answer[w].result = NoToken
    /\ answer[w].outcome = "succeeded" =>
          /\ call[Token(w)].state = "applied"
          /\ \/ answer[w].decision = "reuse_result" /\ answer[w].result = Token(w)
             \/ answer[w].decision = "result_unavailable" /\ answer[w].result = NoToken

(* What a claim holder knows is what the row and its own call say.         *)
HolderFits(w) ==
    /\ pc[w] = "found" => spec[w] \in Contracts
    /\ pc[w] \in Holding => spec[w] = row.contract /\ claim[w].key = row.key
    /\ pc[w] = "in_flight" => call[Token(w)].state = "marked"
    /\ pc[w] = "calling" => call[Token(w)].state \in {"sent", "applied", "refused"}
    /\ pc[w] = "finishing" => AnswerFits(w)

HolderInv == \A w \in Workers : HolderFits(w)

(* Without provider replay, the row's state bounds what may be on the wire. *)
WireInv ==
    row.contract \notin Supported =>
        /\ row.status = "prepared" => \A t \in Tokens : ~Live(t)
        /\ row.status = "in_flight" => \A t \in Tokens : Live(t) => t = row.owner
        /\ row.status = "terminal" =>
              /\ row.decision # "replay_same_key"
              /\ row.outcome = "failed_before_effect" => \A t \in Tokens : ~Live(t)
              /\ \A t, u \in Tokens : Live(t) /\ Live(u) => t = u

(* What was handed out is the committed result.                            *)
OutputInv ==
    /\ row.result # NoToken => call[row.result].state = "applied"
    /\ \A w \in Workers : output[w] # NoToken =>
          /\ row.status = "terminal" /\ row.outcome = "succeeded"
          /\ call[output[w]].state = "applied"
          /\ row.result # NoToken => output[w] = row.result
    /\ \A v, w \in Workers :
          output[v] # NoToken /\ output[w] # NoToken => output[v] = output[w]

(* All of it, with the types: the conjunction every step preserves.        *)
IInv ==
    /\ TypeOK /\ AbsentInv /\ RowInv /\ FreshInv
    /\ HolderInv /\ OneKey /\ WireInv /\ OutputInv

(* Whoever has marked the row and still owns it finds it in flight, so     *)
(* that a verdict about a call is never written over a row without a start.*)
HasMarked(w) ==
    \/ pc[w] \in {"in_flight", "calling"}
    \/ pc[w] = "finishing" /\ answer[w].outcome # "failed_before_effect"

StartedInv ==
    \A w \in Workers : HasMarked(w) /\ row.owner = Token(w) => row.status = "in_flight"

(* With it the table's CHECK constraints are inductive.                    *)
ShapeInv == IInv /\ RowShape /\ StartedInv
=============================================================================

-------------------------- MODULE ScheduleOccurrence --------------------------
(***************************************************************************)
(* What schedule dispatch promises of each occurrence of a schedule: it is *)
(* opened once, then either dropped without having run or run once; a run  *)
(* ends once, and nothing is done about an occurrence that has ended but   *)
(* to forget it.                                                           *)
(***************************************************************************)
EXTENDS Naturals

CONSTANT Occurrences

VARIABLES
    standing,  \* of each occurrence
    runs       \* how often its workflow was started

vars == <<standing, runs>>

Ends == {"dropped", "succeeded", "failed", "unknown"}

Moves ==
    { <<"future", "open">>, <<"future", "dropped">>, <<"open", "running">>,
      <<"open", "dropped">>, <<"running", "succeeded">>, <<"running", "failed">>,
      <<"running", "unknown">> }
    \cup (Ends \X {"forgotten"})

Init ==
    /\ standing = [o \in Occurrences |-> "future"]
    /\ runs = [o \in Occurrences |-> 0]

Starts(o) == standing[o] = "open" /\ standing'[o] = "running"

(* Several occurrences may move in one transaction.                        *)
Next ==
    /\ standing' \in [Occurrences -> {"future", "open", "running", "forgotten"} \cup Ends]
    /\ \A o \in Occurrences :
          standing'[o] # standing[o] => <<standing[o], standing'[o]>> \in Moves
    /\ runs' = [o \in Occurrences |-> IF Starts(o) THEN runs[o] + 1 ELSE runs[o]]

Spec == Init /\ [][Next]_vars
=============================================================================

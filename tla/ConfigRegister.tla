--------------------------- MODULE ConfigRegister ---------------------------
(***************************************************************************)
(* What config.json is meant to be: a record of settings that a process    *)
(* updates in one step.  Each process sets one setting, named after it.    *)
(***************************************************************************)
CONSTANT Processes

VARIABLES settings, outcome   \* the settings made; what became of each update

Init == /\ settings = {}
        /\ outcome = [p \in Processes |-> "running"]

Save(p) == /\ outcome[p] = "running"
           /\ outcome' = [outcome EXCEPT ![p] = "saved"]
           /\ settings' = settings \cup {p}

GiveUp(p) == /\ outcome[p] = "running"
             /\ \E why \in {"failed", "timeout", "crashed"} :
                  outcome' = [outcome EXCEPT ![p] = why]
             /\ UNCHANGED settings

Next == \E p \in Processes : Save(p) \/ GiveUp(p)

Spec == Init /\ [][Next]_<<settings, outcome>>
=============================================================================

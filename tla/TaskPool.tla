------------------------------ MODULE TaskPool ------------------------------
(***************************************************************************)
(* What a work pool promises its clients: every task that was submitted is *)
(* handed out at most once, no task disappears, and a request comes back   *)
(* empty only when there is nothing to hand out.                           *)
(***************************************************************************)
CONSTANTS Task, NoTask

VARIABLES waiting,    \* tasks submitted and not handed out
          finished,   \* tasks handed out
          reply       \* what the last call returned

vars == <<waiting, finished, reply>>

Init == /\ waiting = {}
        /\ finished = {}
        /\ reply = NoTask

Submit(t) == /\ t \notin waiting \cup finished
             /\ waiting' = waiting \cup {t}
             /\ reply' = NoTask
             /\ UNCHANGED finished

HandOut(t) == /\ t \in waiting
              /\ waiting' = waiting \ {t}
              /\ finished' = finished \cup {t}
              /\ reply' = t

NothingToHandOut == /\ waiting = {}
                    /\ reply' = NoTask
                    /\ UNCHANGED <<waiting, finished>>

Next == \/ \E t \in Task : Submit(t) \/ HandOut(t)
        \/ NothingToHandOut

Spec == Init /\ [][Next]_vars
=============================================================================

----------------------------- MODULE Scheduler ------------------------------
(***************************************************************************)
(* The schedulers of one locality (Scheduler.cpp): startSchedulers         *)
(* launches them asynchronously, each registers itself, asks the policy    *)
(* for work until running is cleared, and deregisters; stopSchedulers      *)
(* clears running and waits on exit_cv until none is registered.           *)
(*                                                                         *)
(* The sections under mtx (registration, deregistration with its           *)
(* notification, the test before a wait) are one step each.  The policy    *)
(* is abstract here: getWork may return a task or nothing at any time.     *)
(***************************************************************************)
EXTENDS Integers, FiniteSets

CONSTANTS Sched,          \* the schedulers launched on this locality
          Seeded,         \* those launched with an initial task
          PolicySet,      \* initPolicy has set local_policy on this locality
          HolderCreated   \* the policy created schedulerChannelHolder

ASSUME SchedAssumption == /\ IsFiniteSet(Sched) /\ Seeded \subseteq Sched
                          /\ PolicySet \in BOOLEAN /\ HolderCreated \in BOOLEAN

VARIABLES running,      \* the atomic flag
          numRunning,   \* numRunningSchedulers
          pc,           \* where each scheduler is
          id,           \* its local_id_num (-1 before it has one)
          record,       \* threadState of each slot of recordVector
          main          \* where the thread that calls stopSchedulers is

vars == <<running, numRunning, pc, id, record, main>>

Threads == Cardinality(Sched)
States == {"IDLE", "WORKING", "Dead"}
Places == {"spawned", "seed", "idle", "loop", "get", "got", "task", "sleep",
           "quit", "exit", "gone", "crashed"}

\* Registered and not yet deregistered.
Registered == {s \in Sched : pc[s] \notin {"spawned", "gone"}}

Init == /\ running = TRUE
        /\ numRunning = 0
        /\ pc = [s \in Sched |-> "spawned"]
        /\ id = [s \in Sched |-> -1]
        /\ record = [i \in 0..(Threads - 1) |-> "Dead"]
        /\ main = "search"

Goto(s, place) == pc' = [pc EXCEPT ![s] = place]

\* SchedulerChannels::setState through the shared holder; with no holder the
\* call goes through a null pointer.
SetState(s, state, next) ==
    IF HolderCreated
    THEN record' = [record EXCEPT ![id[s]] = state] /\ Goto(s, next)
    ELSE UNCHANGED record /\ Goto(s, "crashed")

\* Mutant: the counter is read after it was incremented.
RegisterAfterCount(s) ==
    /\ pc[s] = "spawned"
    /\ id' = [id EXCEPT ![s] = numRunning + 1]
    /\ numRunning' = numRunning + 1
    /\ Goto(s, IF s \in Seeded THEN "seed" ELSE "idle")
    /\ UNCHANGED <<running, record, main>>

\* Mutant: the increment of another scheduler is overwritten.
RegisterRaced(s) ==
    /\ pc[s] = "spawned"
    /\ id' = [id EXCEPT ![s] = numRunning]
    /\ numRunning' \in {numRunning, numRunning + 1} \ {0}
    /\ Goto(s, IF s \in Seeded THEN "seed" ELSE "idle")
    /\ UNCHANGED <<running, record, main>>

\* Take a number; without a policy the scheduler returns at once, and drops its
\* initial task.
Register(s) ==
    /\ pc[s] = "spawned"
    /\ IF PolicySet
       THEN /\ id' = [id EXCEPT ![s] = numRunning]
            /\ numRunning' = numRunning + 1
            /\ Goto(s, IF s \in Seeded THEN "seed" ELSE "idle")
       ELSE Goto(s, "gone") /\ UNCHANGED <<id, numRunning>>
    /\ UNCHANGED <<running, record, main>>

InitialTask(s) ==
    /\ pc[s] = "seed"
    /\ Goto(s, "idle")
    /\ UNCHANGED <<running, numRunning, id, record, main>>

BecomeIdle(s) ==
    /\ pc[s] = "idle"
    /\ SetState(s, "IDLE", "loop")
    /\ UNCHANGED <<running, numRunning, id, main>>

\* Mutant: the loop has no exit.
CheckRunningNever(s) ==
    /\ pc[s] = "loop"
    /\ Goto(s, "get")
    /\ UNCHANGED <<running, numRunning, id, record, main>>

CheckRunning(s) ==
    /\ pc[s] = "loop"
    /\ Goto(s, IF running THEN "get" ELSE "quit")
    /\ UNCHANGED <<running, numRunning, id, record, main>>

GetWork(s) ==
    /\ pc[s] = "get"
    /\ Goto(s, "got") \/ Goto(s, "sleep")
    /\ UNCHANGED <<running, numRunning, id, record, main>>

StartTask(s) ==
    /\ pc[s] = "got"
    /\ SetState(s, "WORKING", "task")
    /\ UNCHANGED <<running, numRunning, id, main>>

FinishTask(s) ==
    /\ pc[s] = "task"
    /\ Goto(s, "idle")
    /\ UNCHANGED <<running, numRunning, id, record, main>>

WakeUp(s) ==
    /\ pc[s] = "sleep"
    /\ Goto(s, "loop")
    /\ UNCHANGED <<running, numRunning, id, record, main>>

Quit(s) ==
    /\ pc[s] = "quit"
    /\ SetState(s, "Dead", "exit")
    /\ UNCHANGED <<running, numRunning, id, main>>

\* Mutant: only the last scheduler to register notifies.
ExitSilently(s) ==
    /\ pc[s] = "exit"
    /\ numRunning' = numRunning - 1
    /\ main' = IF main = "wait" /\ id[s] = Threads - 1 THEN "join" ELSE main
    /\ Goto(s, "gone")
    /\ UNCHANGED <<running, id, record>>

\* Deregister and notify exit_cv.
Exit(s) ==
    /\ pc[s] = "exit"
    /\ numRunning' = numRunning - 1
    /\ main' = IF main = "wait" THEN "join" ELSE main
    /\ Goto(s, "gone")
    /\ UNCHANGED <<running, id, record>>

\* Mutant: the flag is not cleared.
StopFlagKept ==
    /\ main = "search"
    /\ main' = "join"
    /\ UNCHANGED <<running, numRunning, pc, id, record>>

\* The search is over (its root future is ready) and stopSchedulers is called.
StopFlag ==
    /\ main = "search"
    /\ running' = FALSE
    /\ main' = "join"
    /\ UNCHANGED <<numRunning, pc, id, record>>

StopJoin ==
    /\ main = "join"
    /\ main' = IF numRunning > 0 THEN "wait" ELSE "returned"
    /\ UNCHANGED <<running, numRunning, pc, id, record>>

Step(s) == \/ Register(s) \/ InitialTask(s) \/ BecomeIdle(s)
           \/ CheckRunning(s) \/ GetWork(s) \/ StartTask(s) \/ FinishTask(s)
           \/ WakeUp(s) \/ Quit(s) \/ Exit(s)

Next == StopFlag \/ StopJoin \/ \E s \in Sched : Step(s)

\* hpx runs every ready thread eventually, tasks are finite and sleeps are
\* at most 500ms; nothing says when the search ends.
Fairness == /\ \A s \in Sched : WF_vars(Step(s))
            /\ WF_vars(StopJoin)

Spec == Init /\ [][Next]_vars
FairSpec == Spec /\ Fairness
-----------------------------------------------------------------------------
TypeOK == /\ running \in BOOLEAN
          /\ numRunning \in Int
          /\ pc \in [Sched -> Places]
          /\ id \in [Sched -> -1..(Threads - 1)]
          /\ record \in [0..(Threads - 1) -> States]
          /\ main \in {"search", "join", "wait", "returned"}

\* The counter that stopSchedulers waits on is the number of registered
\* schedulers, whatever the order of registrations and exits.
CountIsLive == numRunning = Cardinality(Registered)

\* While the search runs no two schedulers write the same recordVector slot
\* (SchedulerChannels.cpp:24 uses it without a lock).  A scheduler that
\* registers after others began to exit may reuse a live one's slot.
SlotsUniqueWhileRunning ==
    running => \A s, t \in Registered : id[s] = id[t] => s = t

\* Every registered scheduler has a slot of the vector.
SlotExists == \A s \in Registered : id[s] \in 0..(Threads - 1)

\* Once stopSchedulers has returned no scheduler takes or runs a task, not
\* even one that was launched but had not registered when it returned.
NoTaskAfterStop ==
    main = "returned" =>
        \A s \in Sched : pc[s] \notin {"get", "got", "task", "sleep"}

\* A scheduler asleep on exit_cv is woken by every exit: stopSchedulers does
\* not wait for a count that is already zero.
NoLostWakeup == main = "wait" => numRunning > 0

\* stopSchedulers returns, and every scheduler ends, those included that had
\* not registered when it returned.
AllEnd == (main = "join") ~> (main = "returned" /\ \A s \in Sched : pc[s] = "gone")
=============================================================================

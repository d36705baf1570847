----------------------------- MODULE DepthPool ------------------------------
(***************************************************************************)
(* One DepthPool component used by any number of clients: the workers of   *)
(* its locality (getLocal, addWork) and thieves of other localities        *)
(* (steal).  The handlers exclude each other with poolsMutex, so a         *)
(* behaviour of the component is a sequence of whole handler calls.        *)
(* tasks_count is the atomic that PerformanceMonitor reads with            *)
(* getTasksCount.                                                          *)
(*                                                                         *)
(* arrivals, submitted and delivered observe the clients: every createTask *)
(* makes a new task, so a task is submitted once.                          *)
(***************************************************************************)
EXTENDS DepthPoolOps, FiniteSets

CONSTANTS Task,           \* the tasks createTask may bind
          MaxTaskDepth    \* bound: deepest depth passed to addWork

ASSUME TaskAssumption == NoTask \notin Task /\ MaxTaskDepth \in Nat

VARIABLES pool,        \* the component
          reply,       \* what the last handler returned
          arrivals,    \* the tasks not handed out: [task, depth, older]
          submitted,   \* tasks passed to addWork
          delivered    \* tasks handed out

vars == <<pool, reply, arrivals, submitted, delivered>>

\* The arrivals when t has been handed out.
Without(t) == {[a EXCEPT !.older = @ \ {t}] : a \in {b \in arrivals : b.task # t}}

Init == /\ pool = NewPool
        /\ reply = NoTask
        /\ arrivals = {}
        /\ submitted = {}
        /\ delivered = {}

AddWork(t, depth) ==
    /\ t \notin submitted
    /\ submitted' = submitted \cup {t}
    /\ pool' = addWork(pool, t, depth)
    /\ reply' = NoTask
    /\ arrivals' = arrivals \cup {[task |-> t, depth |-> depth,
                                   older |-> {a.task : a \in arrivals}]}
    /\ UNCHANGED delivered

Answer(r) ==
    /\ pool' = r.pool
    /\ reply' = r.task
    /\ arrivals' = Without(r.task)
    /\ delivered' = delivered \cup ({r.task} \ {NoTask})
    /\ UNCHANGED submitted

Steal == Answer(steal(pool))

GetLocal == Answer(getLocal(pool))

Next == \/ \E t \in Task, depth \in 0..MaxTaskDepth : AddWork(t, depth)
        \/ Steal
        \/ GetLocal

Spec == Init /\ [][Next]_vars
-----------------------------------------------------------------------------
\* The component is well formed.
TypeOK == /\ IsPool(pool, Task)
          /\ reply \in Task \cup {NoTask}
          /\ submitted \subseteq Task
          /\ delivered \subseteq Task

\* The depths callers use fit the vector after one doubling.
DepthsCovered == MaxTaskDepth < 2 * InitDepth

\* The hint never hides a task: getLocal and steal scan no queue above
\* lowest (DepthPool.cpp:8, DepthPool.cpp:25), so none there may hold one.
NothingAboveLowest == HintCovers(pool)

\* What getTasksCount publishes to the other localities' monitors is the
\* number of tasks that can be stolen, so the unsigned counter cannot wrap.
CountMatches == pool.tasks_count = Cardinality(Held(pool))

\* A task occupies one place of one queue only, and never again one after it
\* was handed out: no task can run twice.
NoTaskTwice == Unique(pool) /\ Held(pool) \cap delivered = {}

\* A task that addWork accepted stays until it is handed out.
NothingLost == submitted = Held(pool) \cup delivered

\* Of the arrivals, a goes first if the deeper (getLocal) or the shallower
\* (steal) does, and the older of two that are equally deep.
First(a, Precedes(_, _)) ==
    \A b \in arrivals : \/ Precedes(a.depth, b.depth)
                        \/ a.depth = b.depth /\ (a = b \/ a.task \in b.older)

\* A local worker gets the deepest task, in the order a sequential search of
\* the subtree would visit them; a thief gets the shallowest, the largest
\* subtree.  Each gets the oldest task of its depth, in heuristic order.
TakesInOrder ==
    [][arrivals # {} =>
        /\ GetLocal => \E a \in arrivals : /\ First(a, LAMBDA d, e : d > e)
                                           /\ reply' = a.task
        /\ Steal => \E a \in arrivals : /\ First(a, LAMBDA d, e : d < e)
                                        /\ reply' = a.task]_vars

\* The promise of an abstract work pool.
Promise == INSTANCE TaskPool WITH waiting  <- Held(pool),
                                  finished <- delivered

\* The component implements it: no false empty answer, no task lost, none
\* handed out twice.
KeepsPromise == Promise!Spec
=============================================================================

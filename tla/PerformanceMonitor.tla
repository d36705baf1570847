------------------------- MODULE PerformanceMonitor -------------------------
(***************************************************************************)
(* How one locality chooses the victim of its steals                       *)
(* (policies/PerformanceMonitor.cpp).  refreshInfo asks every pool for its *)
(* work rate and its number of tasks, stores the answers in                *)
(* nodeInfoVector, and keeps the locality with the best score in           *)
(* top_steal_id_num.  The background autoRefreshInfo thread and every      *)
(* scheduler whose steal failed run refreshInfo at the same time, without  *)
(* a lock: the vector and the result are atomics that they overwrite.      *)
(*                                                                         *)
(* The other localities are an environment that changes its work rates     *)
(* and its numbers of tasks.  Rates and delays are small naturals: the     *)
(* weighted averages (SchedulerChannels.cpp:36, PerformanceMonitor.cpp:88) *)
(* may move to any value, and a rate that once became 0/0 stays NaN.       *)
(***************************************************************************)
EXTENDS Integers, FiniteSets

CONSTANTS locality_count,
          Here,        \* this locality
          Worker,      \* the schedulers of this locality
          Auto,        \* the thread of autoRefreshInfo
          MaxTasks,    \* bound on the tasks of a pool
          Rates,       \* work rates that are numbers
          NaNs,        \* those that are not: a set of at most one value
          InitRate,    \* WORK_RATE_INIT_VALUE
          Delays       \* values of averageDelayTime after a first answer

Locality == 0..(locality_count - 1)
Refresher == Worker \cup {Auto}
AnyRate == Rates \cup NaNs

ASSUME MonitorAssumption ==
    /\ locality_count \in Nat \ {0} /\ Here \in Locality
    /\ Auto \notin Worker /\ MaxTasks \in Nat
    /\ Rates \subseteq Nat \ {0} /\ InitRate \in Rates
    /\ NaNs \cap (Rates \cup (0..MaxTasks)) = {}
    /\ IsFiniteSet(Delays) /\ Delays # {} /\ Delays \subseteq Nat \ {0}

VARIABLES tasks,             \* getTasksCount of every pool
          workRate,          \* DepthPool.workRate of every pool
          channelRate,       \* getWorkRateAverage of this locality's schedulers
          nodeInfo,          \* nodeInfoVector
          top_steal_id_num,
          refreshGetTarget,
          refreshWaitTime,   \* of autoRefreshInfo, in milliseconds
          running,           \* Scheduler::running
          pc,                \* where each refresher is
          i,                 \* its loop variable
          got,               \* the answer it has not stored yet
          best_score,        \* its best score so far, and the locality
          result

env_vars == <<tasks, workRate, channelRate, running>>
choice_vars == <<top_steal_id_num, refreshGetTarget>>
local_vars == <<i, got, best_score, result>>
vars == <<env_vars, nodeInfo, choice_vars, refreshWaitTime, pc, local_vars>>

\* Scores are doubled, so that 1 stands for numeric_limits<double>::min():
\* positive, and smaller than every positive score.
SmallestPositive == 1

\* A score that compares greater than none if the rate is NaN.
Score(info) == IF info.rate \in NaNs THEN 0
               ELSE 2 * (info.rate * info.tasks - info.delay)

Init == /\ tasks = [l \in Locality |-> 0]
        /\ workRate = [l \in Locality |-> InitRate]
        /\ channelRate = InitRate
        /\ nodeInfo = [l \in Locality |-> [rate |-> InitRate, tasks |-> 0, delay |-> 0]]
        /\ top_steal_id_num \in Locality
        /\ refreshGetTarget = FALSE
        /\ refreshWaitTime = 1
        /\ running = TRUE
        /\ pc = [r \in Refresher |-> "out"]
        /\ i = [r \in Refresher |-> 0]
        /\ got = [r \in Refresher |-> 0]
        /\ best_score = [r \in Refresher |-> SmallestPositive]
        /\ result = [r \in Refresher |-> 0]

Goto(r, place) == pc' = [pc EXCEPT ![r] = place]
Last(r) == i[r] = locality_count - 1

\* End of a loop body: the next locality, or the next part of refreshInfo.
Advance(r, again, after) ==
    /\ i' = [i EXCEPT ![r] = IF Last(r) THEN 0 ELSE @ + 1]
    /\ Goto(r, IF Last(r) THEN after ELSE again)
-----------------------------------------------------------------------------
\* getWork failed to steal and calls refreshInfo.
WorkerRefreshes(r) ==
    /\ r \in Worker
    /\ pc[r] = "out"
    /\ Goto(r, "publish")
    /\ UNCHANGED <<env_vars, nodeInfo, choice_vars, refreshWaitTime, local_vars>>

AutoRefreshes(r) ==
    /\ r = Auto
    /\ pc[r] = "out"
    /\ Goto(r, IF running THEN "publish" ELSE "ended")
    /\ UNCHANGED <<env_vars, nodeInfo, choice_vars, refreshWaitTime, local_vars>>

\* refreshSchedularInfo: publish the own rate, then ask for all of them.
SetWorkRate(r) ==
    /\ pc[r] = "publish"
    /\ workRate' = [workRate EXCEPT ![Here] = channelRate]
    /\ Goto(r, "askRate")
    /\ UNCHANGED <<tasks, channelRate, running, nodeInfo, choice_vars,
                   refreshWaitTime, local_vars>>

GetWorkRate(r) ==
    /\ pc[r] = "askRate"
    /\ got' = [got EXCEPT ![r] = workRate[i[r]]]
    /\ Goto(r, "storeRate")
    /\ UNCHANGED <<env_vars, nodeInfo, choice_vars, refreshWaitTime, i,
                   best_score, result>>

\* Mutant: an answer that is not a number is dropped.
StoreRateIfNumber(r) ==
    /\ pc[r] = "storeRate"
    /\ nodeInfo' = IF got[r] \in NaNs THEN nodeInfo
                   ELSE [nodeInfo EXCEPT ![i[r]].rate = got[r]]
    /\ Advance(r, "askRate", "askCount")
    /\ got' = [got EXCEPT ![r] = 0]
    /\ UNCHANGED <<env_vars, choice_vars, refreshWaitTime, best_score, result>>

StoreRate(r) ==
    /\ pc[r] = "storeRate"
    /\ nodeInfo' = [nodeInfo EXCEPT ![i[r]].rate = got[r]]
    /\ Advance(r, "askRate", "askCount")
    /\ got' = [got EXCEPT ![r] = 0]
    /\ UNCHANGED <<env_vars, choice_vars, refreshWaitTime, best_score, result>>

\* refreshPoolTasksCountInfo.
GetTasksCount(r) ==
    /\ pc[r] = "askCount"
    /\ got' = [got EXCEPT ![r] = tasks[i[r]]]
    /\ Goto(r, "storeCount")
    /\ UNCHANGED <<env_vars, nodeInfo, choice_vars, refreshWaitTime, i,
                   best_score, result>>

StoreCount(r) ==
    /\ pc[r] = "storeCount"
    /\ \E delay \in Delays :
          nodeInfo' = [nodeInfo EXCEPT ![i[r]].tasks = got[r], ![i[r]].delay = delay]
    /\ Advance(r, "askCount", "load")
    /\ got' = [got EXCEPT ![r] = 0]
    /\ UNCHANGED <<env_vars, choice_vars, refreshWaitTime, best_score, result>>

\* refreshTopWorthStealId.
LoadTop(r) ==
    /\ pc[r] = "load"
    /\ result' = [result EXCEPT ![r] = top_steal_id_num]
    /\ best_score' = [best_score EXCEPT ![r] = SmallestPositive]
    /\ Goto(r, "compare")
    /\ UNCHANGED <<env_vars, nodeInfo, choice_vars, refreshWaitTime, i, got>>

CompareScore(r) ==
    /\ pc[r] = "compare"
    /\ LET score == Score(nodeInfo[i[r]])
       IN  IF score > best_score[r]
           THEN /\ best_score' = [best_score EXCEPT ![r] = score]
                /\ result' = [result EXCEPT ![r] = i[r]]
           ELSE UNCHANGED <<best_score, result>>
    /\ Advance(r, "compare", "store")
    /\ UNCHANGED <<env_vars, nodeInfo, choice_vars, refreshWaitTime, got>>

StoreTop(r) ==
    /\ pc[r] = "store"
    /\ IF best_score[r] > 0
       THEN top_steal_id_num' = result[r] /\ refreshGetTarget' = TRUE
       ELSE top_steal_id_num' \in Locality /\ refreshGetTarget' = FALSE
    /\ Goto(r, IF r = Auto THEN "pace" ELSE "out")
    /\ best_score' = [best_score EXCEPT ![r] = SmallestPositive]
    /\ result' = [result EXCEPT ![r] = 0]
    /\ UNCHANGED <<env_vars, nodeInfo, refreshWaitTime, i, got>>

\* autoRefreshInfo sets its next interval and sleeps.
Pace(r) ==
    /\ pc[r] = "pace"
    /\ refreshWaitTime' =
          IF refreshGetTarget
          THEN IF refreshWaitTime + 60 < 240 THEN refreshWaitTime + 60 ELSE 240
          ELSE IF refreshWaitTime - 120 > 5 THEN refreshWaitTime - 120 ELSE 5
    /\ Goto(r, "out")
    /\ UNCHANGED <<env_vars, nodeInfo, choice_vars, local_vars>>
-----------------------------------------------------------------------------
\* Schedulers everywhere add and take tasks.
PoolChanges(l) ==
    /\ \E n \in {tasks[l] - 1, tasks[l] + 1} \cap (0..MaxTasks) :
          tasks' = [tasks EXCEPT ![l] = n]
    /\ UNCHANGED <<workRate, channelRate, running, nodeInfo, choice_vars,
                   refreshWaitTime, pc, local_vars>>

\* A work rate published by the monitor of another locality.
RateChanges(l) ==
    /\ l # Here
    /\ workRate[l] \notin NaNs
    /\ \E rate \in AnyRate : workRate' = [workRate EXCEPT ![l] = rate]
    /\ UNCHANGED <<tasks, channelRate, running, nodeInfo, choice_vars,
                   refreshWaitTime, pc, local_vars>>

\* A scheduler of this locality has finished a task.
OwnRateChanges ==
    /\ channelRate \notin NaNs
    /\ channelRate' \in AnyRate
    /\ UNCHANGED <<tasks, workRate, running, nodeInfo, choice_vars,
                   refreshWaitTime, pc, local_vars>>

Stop ==
    /\ running
    /\ running' = FALSE
    /\ UNCHANGED <<tasks, workRate, channelRate, nodeInfo, choice_vars,
                   refreshWaitTime, pc, local_vars>>

Environment == \/ \E l \in Locality : PoolChanges(l) \/ RateChanges(l)
               \/ OwnRateChanges \/ Stop

\* Inside refreshInfo, or on the way around the loop of autoRefreshInfo.
Refresh(r) == \/ AutoRefreshes(r) \/ SetWorkRate(r)
              \/ GetWorkRate(r) \/ StoreRate(r)
              \/ GetTasksCount(r) \/ StoreCount(r)
              \/ LoadTop(r) \/ CompareScore(r) \/ StoreTop(r) \/ Pace(r)

Next == Environment \/ \E r \in Refresher : WorkerRefreshes(r) \/ Refresh(r)

\* A thread inside refreshInfo goes on, and so does the background thread,
\* which sleeps 240ms at most.  Nothing makes a scheduler call refreshInfo.
Fairness == \A r \in Refresher : WF_vars(Refresh(r))

Spec == Init /\ [][Next]_vars
FairSpec == Spec /\ Fairness
-----------------------------------------------------------------------------
Places == {"out", "publish", "askRate", "storeRate", "askCount", "storeCount",
           "load", "compare", "store", "pace", "ended"}

TypeOK ==
    /\ tasks \in [Locality -> 0..MaxTasks]
    /\ workRate \in [Locality -> AnyRate]
    /\ channelRate \in AnyRate
    /\ nodeInfo \in [Locality -> [rate  : AnyRate,
                                  tasks : 0..MaxTasks,
                                  delay : Delays \cup {0}]]
    /\ top_steal_id_num \in Locality
    /\ refreshGetTarget \in BOOLEAN
    /\ refreshWaitTime \in 1..240
    /\ running \in BOOLEAN
    /\ pc \in [Refresher -> Places]
    /\ i \in [Refresher -> Locality]
    /\ got \in [Refresher -> AnyRate \cup 0..MaxTasks]
    /\ best_score \in [Refresher -> Nat \ {0}]
    /\ result \in [Refresher -> Locality]

\* Worth a steal whatever the delay, for a rate that stays as it is.
Rich(l) == /\ workRate[l] \notin NaNs
           /\ \A d \in Delays : workRate[l] * tasks[l] > d

\* While one pool stays rich and every other one is empty or has a rate that
\* became NaN, the victim becomes the rich pool and stays it: refreshes that
\* overlap and store stale answers, or store back a victim they loaded before
\* another refresh replaced it, do not hide it for ever.
RichVictimFound ==
    \A l \in Locality :
        <>[](/\ running /\ Rich(l)
             /\ \A k \in Locality \ {l} : tasks[k] = 0 \/ workRate[k] \in NaNs)
            => <>[](top_steal_id_num = l)
=============================================================================

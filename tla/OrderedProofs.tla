--------------------------- MODULE OrderedProofs ----------------------------
(***************************************************************************)
(* Proofs about Ordered for any tree, any threads and localities, and both *)
(* orders of the tasks: no task is expanded twice, and when search returns *)
(* no node below a task is better than the incumbent.                      *)
(***************************************************************************)
EXTENDS Ordered, ProcessNodeProofs

OrderedPlaces == ProcessPlaces \cup {"ask", "check", "set", "expand"}

\* Whoever has expanded a task has set its flag first, and nobody expands a
\* task without having set it: the flag counts the expansions.
FlagCounts ==
    /\ pc \in [Worker -> OrderedPlaces]
    /\ startedFlag \in [TaskNodes -> BOOLEAN]
    /\ expansions \in [TaskNodes -> Nat]
    /\ \A n \in TaskNodes : expansions[n] = IF startedFlag[n] THEN 1 ELSE 0

LEMMA InitFlagCounts == Init => FlagCounts
BY DEF Init, FlagCounts, OrderedPlaces, ProcessPlaces

\* A thread goes on to one of the places of the skeleton.
LEMMA GotoPlaces ==
    ASSUME pc \in [Worker -> OrderedPlaces], NEW w \in Worker,
           NEW p \in OrderedPlaces, Goto(w, p)
    PROVE  pc' \in [Worker -> OrderedPlaces]
BY DEF Goto

LEMMA ProcessPlacesKept ==
    ASSUME pc \in [Worker -> OrderedPlaces], NEW w \in Worker, Process(w)
    PROVE  pc' \in [Worker -> OrderedPlaces]
<1>1. \E p \in {"raise", "objective", "submit", "flag", "answered"} : Goto(w, p)
  BY DEF Process, ProcessCounted, ProcessFound, ProcessHopeless, ProcessAlive,
     CheckObjective, RaiseBound, SubmitIncumbent, StopOthers, Answer
<1> QED
  BY <1>1, GotoPlaces DEF OrderedPlaces, ProcessPlaces

\* Every step but StartTask leaves the flags and the observer alone.
LEMMA OthersKeepFlags ==
    ASSUME FlagCounts, Next, \A w \in Worker : ~ StartTask(w)
    PROVE  pc' \in [Worker -> OrderedPlaces] /\ UNCHANGED <<startedFlag, expansions>>
<1> USE DEF FlagCounts
<1>0. /\ sequential \in Worker
      /\ {"free", "ask", "check", "set", "expand", "process"} \subseteq OrderedPlaces
  BY OrderedAssumption DEF OrderedPlaces, ProcessPlaces
<1>1. CASE Search
  <2>1. CASE NextTask
    BY <1>0, <2>1, GotoPlaces DEF NextTask
  <2>2. CASE SpawnTasks \/ AllSeen \/ Return \/ \E l \in Locality : StopSchedulers(l)
    BY <2>2 DEF SpawnTasks, AllSeen, Return, StopSchedulers, task_vars, process_vars
  <2> QED
    BY <1>1, <2>1, <2>2 DEF Search
<1>2. CASE Deliver
  BY <1>2 DEF Deliver, Receive, ReceiveBound, ReceiveStop, task_vars
<1>3. CASE \E t \in sent : addWork(t)
  BY <1>3 DEF addWork, task_vars, process_vars
<1>4. ASSUME NEW w \in Worker, Step(w)
      PROVE  pc' \in [Worker -> OrderedPlaces] /\ UNCHANGED <<startedFlag, expansions>>
  <2>1. CASE CheckRunning(w) \/ getWork(w)
    BY <1>0, <2>1, GotoPlaces DEF CheckRunning, getWork, task_vars
  <2>2. CASE CheckTask(w)
    BY <1>0, <2>2, GotoPlaces DEF CheckTask, task_vars
  <2>3. CASE NextChild(w) \/ Leave(w) \/ Answered(w)
    BY <1>0, <2>3, GotoPlaces DEF NextChild, Leave, Answered, Expanding
  <2>4. CASE ProcessChild(w)
    BY <2>4, ProcessPlacesKept DEF ProcessChild, task_vars
  <2> QED
    BY <1>4, <2>1, <2>2, <2>3, <2>4 DEF Step
<1> QED
  BY <1>1, <1>2, <1>3, <1>4 DEF Next

\* A thread that finds the flag down raises it and expands the task; one that
\* finds it up does neither.
LEMMA StartTaskFlagCounts ==
    ASSUME FlagCounts, NEW w \in Worker, StartTask(w)
    PROVE  FlagCounts'
<1> USE DEF FlagCounts
<1>1. CASE startedFlag[task[w]]
  <2>1. UNCHANGED startedFlag /\ Goto(w, "free")
    BY <1>1 DEF StartTask, set_value
  <2>2. pc' \in [Worker -> OrderedPlaces] /\ pc'[w] # "expand"
    BY <2>1, GotoPlaces DEF Goto, OrderedPlaces, ProcessPlaces
  <2>3. UNCHANGED expansions
    BY <2>2 DEF StartTask
  <2> QED
    BY <2>1, <2>2, <2>3
<1>2. CASE ~ startedFlag[task[w]]
  <2>1. /\ startedFlag' = [startedFlag EXCEPT ![task[w]] = TRUE]
        /\ Goto(w, "expand")
    BY <1>2 DEF StartTask, set_value
  <2>2. pc' \in [Worker -> OrderedPlaces] /\ pc'[w] = "expand"
    BY <2>1, GotoPlaces DEF Goto, OrderedPlaces, ProcessPlaces
  <2>3. expansions' = [expansions EXCEPT ![task[w]] = @ + 1]
    BY <2>2 DEF StartTask
  <2>4. startedFlag' \in [TaskNodes -> BOOLEAN]
    BY <2>1
  <2>5. expansions' \in [TaskNodes -> Nat]
    <3>1. CASE task[w] \in TaskNodes
      BY <2>3, <3>1
    <3>2. CASE task[w] \notin TaskNodes
      BY <2>3, <3>2
    <3> QED
      BY <3>1, <3>2
  <2>6. ASSUME NEW n \in TaskNodes
        PROVE  expansions'[n] = IF startedFlag'[n] THEN 1 ELSE 0
    BY <1>2, <2>1, <2>3
  <2> QED
    BY <2>2, <2>4, <2>5, <2>6
<1> QED
  BY <1>1, <1>2

LEMMA NextFlagCounts == FlagCounts /\ [Next]_vars => FlagCounts'
<1> SUFFICES ASSUME FlagCounts, [Next]_vars PROVE FlagCounts'
  OBVIOUS
<1>1. CASE \E w \in Worker : StartTask(w)
  BY <1>1, StartTaskFlagCounts
<1>2. CASE Next /\ \A w \in Worker : ~ StartTask(w)
  BY <1>2, OthersKeepFlags DEF FlagCounts
<1>3. CASE UNCHANGED vars
  BY <1>3 DEF FlagCounts, vars, process_vars, task_vars
<1> QED
  BY <1>1, <1>2, <1>3

\* However the checks of the sequential thread and the schedulers interleave,
\* and however often a task is handed out, one thread at most expands it.
THEOREM ExpandedOnce == Spec => []TaskExpandedOnce
<1>1. FlagCounts => TaskExpandedOnce
  BY DEF FlagCounts, TaskExpandedOnce
<1> QED
  BY InitFlagCounts, NextFlagCounts, <1>1, PTL DEF Spec
-----------------------------------------------------------------------------
\* The argument for BestOfTasks: a node below a task whose flag is down is still
\* to come, because the sequential thread has not passed that task; and below a
\* task whose flag is up it is on the stack or in the hands of a thread, or it
\* is settled.

\* The task that node n is below.
TaskOf(n) == SubSeq(n, 1, spawnDepth)

Processing(w) == pc[w] \in Acting \cup {"process", "answered"}

Typed ==
    /\ ret \in [Worker -> Answers]
    /\ stack \in [Worker -> Seq(Frames)]
    /\ task \in [Worker -> TaskNodes \cup {NoNode}]
    /\ position \in Nat \ {0}
    /\ \A w \in Worker : pc[w] \in {"check", "set"} => task[w] \in TaskNodes
    /\ \A t \in queue \cup sent : t.node \in TaskNodes

\* A thread between two tasks has no frame; the child in hand is the one its
\* frame has just generated; all frames are below the tasks.
AtFrame(w) == /\ stack[w] # <<>>
              /\ Frame(w)[2] - 1 \in 1..numChildren(Frame(w)[1])
              /\ child[w] = Child(Frame(w)[1], Frame(w)[2] - 1)

Framed ==
    \A w \in Worker :
        /\ pc[w] \in {"free", "ask", "check", "set"} => stack[w] = <<>>
        /\ Processing(w) => AtFrame(w)
        /\ \A i \in 1..Len(stack[w]) : Len(stack[w][i][1]) >= spawnDepth

\* The phases of search.
Phases ==
    /\ main = "spawn" => /\ queue = {} /\ sent = {} /\ position = 1
                         /\ \A w \in Worker : pc[w] = "free"
                         /\ \A n \in TaskNodes : ~ startedFlag[n]
                         /\ \A l \in Locality : ~ running[l]
    /\ pc[sequential] # "ask"
    /\ main # "spawn" => /\ Len(tasks) = Len(Level(spawnDepth))
                         /\ \A k \in 1..Len(tasks) : tasks[k].node = Level(spawnDepth)[k]
    /\ main \in {"stop", "returned"} =>
          /\ pc[sequential] = "free"
          /\ position > Len(tasks) \/ Solved
    /\ main = "returned" => /\ \A l \in Locality : ~ running[l]
                            /\ \A w \in Worker : pc[w] = "free"

\* The sequential thread has task t still to come or to set.
ToCome(t) == /\ ~ startedFlag[t]
             /\ \/ \E k \in position..Len(tasks) : tasks[k].node = t
                \/ pc[sequential] \in {"check", "set"} /\ task[sequential] = t

Pending(n) == \/ ToCome(TaskOf(n))
              \/ \E w \in Worker : OnStack(stack[w], n) \/ AtChild(w, n)

Covered == main # "spawn" =>
              \A n \in Searched : Goal(n) => Settled(n) \/ Pending(n)

\* The rest of the level may be skipped once processNode has said so.
BreakSettled ==
    \A w \in Worker : pc[w] = "answered" /\ ret[w] = "Break" =>
        \A n \in Node : Goal(n) /\ FrameHas(stack[w], Len(stack[w]), n) => Settled(n)

ExitSolved ==
    \A w \in Worker : pc[w] = "answered" /\ ret[w] = "Exit" => Solved

Base == FlagCounts /\ Typed /\ ProcessInv /\ Framed /\ Phases

AnswerInv == Base /\ Covered /\ BreakSettled /\ ExitSolved

\* The tasks are the nodes at spawnDepth, in the order of the tree.
LEMMA Prioritised ==
    /\ Len(prioritiseTasks) = Len(Level(spawnDepth))
    /\ \A k \in 1..Len(prioritiseTasks) :
          /\ prioritiseTasks[k].node = Level(spawnDepth)[k]
          /\ prioritiseTasks[k].node \in TaskNodes
    /\ \A t \in ToSet(prioritiseTasks) : t.node \in TaskNodes
<1> DEFINE L == Level(spawnDepth)
           q == prioritiseTasks
<1>1. L \in Seq(TaskNodes)
  BY LevelExact, OrderedAssumption DEF TaskNodes
<1>2. DOMAIN q = DOMAIN L /\ \A k \in DOMAIN L : q[k].node = L[k]
  BY Zenon DEF prioritiseTasks
<1>3. DOMAIN L = 1..Len(L) /\ Len(L) \in Nat /\ \A k \in 1..Len(L) : L[k] \in TaskNodes
  <2> HIDE DEF L
  <2> QED
    BY <1>1
<1>4. Len(q) = Len(L)
  <2> HIDE DEF L, q
  <2> QED
    BY <1>2, <1>3
<1>5. \A t \in ToSet(q) : \E k \in DOMAIN q : t = q[k]
  BY Zenon DEF ToSet
<1> HIDE DEF L, q
<1>6. \A k \in 1..Len(q) : q[k].node = L[k] /\ q[k].node \in TaskNodes
  BY <1>2, <1>3, <1>4
<1>7. \A t \in ToSet(q) : t.node \in TaskNodes
  BY <1>2, <1>3, <1>5
<1> QED
  BY <1>4, <1>6, <1>7 DEF L, q

LEMMA InitBase == Init => Base
<1> SUFFICES ASSUME Init PROVE Base
  OBVIOUS
<1>1. ProcessInv
  BY SharedInitInv DEF Init, Acting
<1>2. FlagCounts
  BY InitFlagCounts
<1>3. Typed
  <2>1. <<>> \in Seq(Frames)
    OBVIOUS
  <2> QED
    BY <2>1 DEF Init, SharedInit, Typed, Answers
<1>4. Framed
  BY DEF Init, Framed, Processing, Acting
<1>5. Phases
  BY OrderedAssumption DEF Init, Phases
<1> QED
  BY <1>1, <1>2, <1>3, <1>4, <1>5 DEF Base

LEMMA InitAnswer == Init => AnswerInv
BY InitBase DEF Init, AnswerInv, Covered, BreakSettled, ExitSolved

\* The last frame of a stack.
LEMMA FrameTyped ==
    ASSUME Typed, NEW w \in Worker, stack[w] # <<>>
    PROVE  /\ stack[w] \in Seq(Frames) /\ Len(stack[w]) \in Nat \ {0}
           /\ Len(stack[w]) \in 1..Len(stack[w])
           /\ stack[w][Len(stack[w])] = <<Frame(w)[1], Frame(w)[2]>>
           /\ Frame(w)[1] \in Node /\ Frame(w)[2] \in Nat \ {0}
<1>1. stack[w] \in Seq(Frames) /\ Len(stack[w]) \in Nat \ {0}
  BY EmptySeq DEF Typed
<1>2. Len(stack[w]) \in 1..Len(stack[w]) /\ Frame(w) \in Frames
  BY <1>1, ElementOfSeq DEF Frame
<1> QED
  BY <1>1, <1>2 DEF Frame, Frames

LEMMA NodesTyped == TaskNodes \subseteq Node /\ \A t \in TaskNodes : Len(t) = spawnDepth
BY DEF TaskNodes, AtDepth

\* A scheduler works only between the start and the end of search, and the
\* sequential thread only until it stops the others.
LEMMA Working ==
    ASSUME Base, NEW w \in Worker, Step(w)
    PROVE  /\ main \notin {"spawn", "returned"}
           /\ w = sequential => main # "stop"
<1>1. pc[w] # "free" \/ (w # sequential /\ running[home[w]])
  BY DEF Step, CheckRunning, getWork, CheckTask, StartTask, NextChild, Leave, ProcessChild, Answered,
     Process, ProcessCounted, ProcessFound, ProcessHopeless, ProcessAlive,
     CheckObjective, RaiseBound, SubmitIncumbent, StopOthers
<1> QED
  BY <1>1, BoundAssumption DEF Base, Phases

\* What a step of one thread does to the phases of search.
LEMMA StepPhases ==
    ASSUME Base, NEW w \in Worker, Step(w),
           UNCHANGED <<tasks, position, running>>,
           \A v \in Worker \ {w} : pc'[v] = pc[v],
           Solved => Solved', w = sequential => pc'[w] # "ask",
           main' = main \/ (main' = "stop" /\ w = sequential /\ pc'[w] = "free" /\ Solved')
    PROVE  Phases'
<1>1. main \notin {"spawn", "returned"} /\ (w = sequential => main # "stop")
  BY Working
<1> QED
  BY <1>1, OrderedAssumption DEF Base, Phases
\* A step of the skeleton itself, by one thread, keeps what processNode and the
\* frames rest on.
LEMMA SkeletonFramed ==
    ASSUME Base, UNCHANGED <<tags, ret, shared_vars>>, NEW w \in Worker,
           NEW p \in {"free", "ask", "check", "set", "expand", "process"}, Goto(w, p),
           pc[w] \notin Acting, child' \in [Worker -> Node \cup {NoNode}],
           \A v \in Worker \ {w} : child'[v] = child[v] /\ stack'[v] = stack[v],
           \A i \in 1..Len(stack'[w]) : Len(stack'[w][i][1]) >= spawnDepth,
           p \in {"free", "ask", "check", "set"} => stack'[w] = <<>>,
           p = "process" => AtFrame(w)' /\ child'[w] \in Node
    PROVE  /\ ProcessInv' /\ Framed'
           /\ pc'[w] = p /\ \A v \in Worker \ {w} : pc'[v] = pc[v]
<1>1. /\ pc'[w] = p /\ pc' = [v \in Worker |-> pc'[v]]
      /\ \A v \in Worker \ {w} : pc'[v] = pc[v]
  BY DEF Base, FlagCounts, Goto
<1>2. ProcessInv'
  BY <1>1, SkeletonStep DEF Base, Acting
<1>3. ASSUME NEW v \in Worker \ {w}, AtFrame(v) PROVE AtFrame(v)'
  BY <1>3 DEF AtFrame, Frame
<1>4. Framed'
  <2> SUFFICES ASSUME NEW v \in Worker
               PROVE  /\ pc'[v] \in {"free", "ask", "check", "set"} => stack'[v] = <<>>
                      /\ Processing(v)' => AtFrame(v)'
                      /\ \A i \in 1..Len(stack'[v]) : Len(stack'[v][i][1]) >= spawnDepth
    BY DEF Framed
  <2>1. CASE v = w
    BY <1>1, <2>1 DEF Processing, Acting
  <2>2. CASE v # w
    BY <1>1, <1>3, <2>2 DEF Base, Framed, Processing
  <2> QED
    BY <2>1, <2>2
<1> QED
  BY <1>1, <1>2, <1>4

\* The step of a thread outside processNode, as the proofs below use it.
Moves(w, p) ==
    /\ pc'[w] = p /\ \A v \in Worker \ {w} : pc'[v] = pc[v]
    /\ \A v \in Worker \ {w} : /\ child'[v] = child[v] /\ stack'[v] = stack[v]
                               /\ task'[v] = task[v]
    /\ UNCHANGED <<tags, ret, shared_vars, tasks>>
    /\ pc[w] \notin Acting

LEMMA StateTyped ==
    ASSUME Base
    PROVE  /\ pc \in [Worker -> OrderedPlaces] /\ ret \in [Worker -> Answers]
           /\ child \in [Worker -> Node \cup {NoNode}]
           /\ stack \in [Worker -> Seq(Frames)]
           /\ task \in [Worker -> TaskNodes \cup {NoNode}]
           /\ startedFlag \in [TaskNodes -> BOOLEAN]
BY DEF Base, FlagCounts, Typed, ProcessInv, SharedTyped

\* The next task of the sequential thread is the node at its position.
LEMMA NextTaskBase ==
    ASSUME Base, NextTask
    PROVE  Base' /\ Moves(sequential, "check")
<1> DEFINE w == sequential
<1>1. /\ w \in Worker /\ pc[w] = "free" /\ stack[w] = <<>>
      /\ main = "sequential" /\ UNCHANGED <<child, stack, tags, ret, shared_vars>>
  BY OrderedAssumption DEF NextTask, Base, Framed
<1>2. Goto(w, "check") /\ Len(stack'[w]) = 0
  BY <1>1 DEF NextTask
<1>3. /\ ProcessInv' /\ Framed'
      /\ pc'[w] = "check" /\ \A v \in Worker \ {w} : pc'[v] = pc[v]
  <2>1. child' \in [Worker -> Node \cup {NoNode}]
    BY <1>1, StateTyped
  <2> QED
    BY <1>1, <1>2, <2>1, SkeletonFramed DEF Acting
<1>4. FlagCounts'
  BY NextFlagCounts DEF Base, Next, Search
<1>5. /\ Len(Level(spawnDepth)) \in Nat /\ Len(tasks) = Len(Level(spawnDepth))
      /\ tasks[position].node \in TaskNodes
  <2>1. /\ Len(tasks) = Len(Level(spawnDepth)) /\ Len(Level(spawnDepth)) \in Nat
        /\ Level(spawnDepth) \in Seq(TaskNodes)
        /\ \A k \in 1..Len(tasks) : tasks[k].node = Level(spawnDepth)[k]
    BY <1>1, LevelExact, OrderedAssumption DEF Base, Phases, TaskNodes
  <2>2. position \in 1..Len(tasks)
    BY <2>1 DEF NextTask, Base, Typed
  <2> QED
    BY <2>1, <2>2, ElementOfSeq
<1>6. Typed' /\ Phases'
  <2>1. /\ task' = [task EXCEPT ![w] = tasks[position].node] /\ position' = position + 1
        /\ UNCHANGED <<queue, sent, tasks, main, running, startedFlag>>
    BY DEF NextTask, search_vars
  <2>2. task' \in [Worker -> TaskNodes \cup {NoNode}] /\ task'[w] \in TaskNodes
        /\ \A v \in Worker \ {w} : task'[v] = task[v]
    <3> DEFINE t == tasks[position].node
    <3>1. task \in [Worker -> TaskNodes \cup {NoNode}] /\ t \in TaskNodes
      BY <1>5, StateTyped
    <3>2. task' = [task EXCEPT ![w] = t]
      BY <2>1
    <3> HIDE DEF t
    <3> QED
      BY <1>1, <3>1, <3>2
  <2>3. /\ ret' \in [Worker -> Answers] /\ stack' \in [Worker -> Seq(Frames)]
        /\ position' \in Nat \ {0}
        /\ \A t \in queue' \cup sent' : t.node \in TaskNodes
    BY <1>1, <2>1 DEF Base, Typed
  <2>4. \A v \in Worker : pc'[v] \in {"check", "set"} => task'[v] \in TaskNodes
    BY <1>3, <2>2 DEF Base, Typed
  <2>5. Typed'
    BY <2>2, <2>3, <2>4 DEF Typed
  <2>6. Phases'
    BY <1>1, <1>3, <2>1 DEF Base, Phases
  <2> QED
    BY <2>5, <2>6
<1>7. Moves(w, "check")
  <2>1. \A v \in Worker \ {w} : task'[v] = task[v]
    BY StateTyped DEF NextTask
  <2> QED
    BY <1>1, <1>3, <2>1 DEF Moves, Acting, NextTask, search_vars
<1> QED
  BY <1>3, <1>4, <1>6, <1>7 DEF Base

\* The same for a step of any thread.
LEMMA StepBase ==
    ASSUME Base, NEW w \in Worker, Step(w),
           UNCHANGED <<tags, ret, shared_vars, tasks, position, running, sent>>,
           queue' \subseteq queue,
           NEW p \in {"free", "ask", "check", "set", "expand", "process"}, Goto(w, p),
           pc[w] \notin Acting, child' \in [Worker -> Node \cup {NoNode}],
           stack' \in [Worker -> Seq(Frames)],
           task' \in [Worker -> TaskNodes \cup {NoNode}],
           \A v \in Worker \ {w} : /\ child'[v] = child[v] /\ stack'[v] = stack[v]
                                   /\ task'[v] = task[v],
           \A i \in 1..Len(stack'[w]) : Len(stack'[w][i][1]) >= spawnDepth,
           p \in {"free", "ask", "check", "set"} => stack'[w] = <<>>,
           p \in {"check", "set"} => task'[w] \in TaskNodes,
           w = sequential => p # "ask",
           p = "process" => AtFrame(w)' /\ child'[w] \in Node,
           main' = main \/ (main' = "stop" /\ w = sequential /\ p = "free" /\ Solved)
    PROVE  Base' /\ Moves(w, p)
<1>1. /\ ProcessInv' /\ Framed'
      /\ pc'[w] = p /\ \A v \in Worker \ {w} : pc'[v] = pc[v]
  BY SkeletonFramed
<1>2. FlagCounts'
  BY NextFlagCounts DEF Base, Next
<1>3. Phases'
  <2>1. Solved' = Solved
    BY DEF Solved, Kind, shared_vars
  <2> QED
    BY <1>1, <2>1, StepPhases
<1>4. Typed'
  <2>1. \A v \in Worker : pc'[v] \in {"check", "set"} => task'[v] \in TaskNodes
    BY <1>1 DEF Base, Typed
  <2>2. /\ ret' \in [Worker -> Answers] /\ position' \in Nat \ {0}
        /\ \A t \in queue' \cup sent' : t.node \in TaskNodes
    BY DEF Base, Typed
  <2> QED
    BY <2>1, <2>2 DEF Typed
<1> QED
  BY <1>1, <1>2, <1>3, <1>4 DEF Base, Moves

\* A scheduler asks for work, and may be told that there is none.
Idles(w, p) == \/ p = "ask" /\ CheckRunning(w)
               \/ p = "free" /\ getWork(w) /\ Goto(w, "free") /\ UNCHANGED <<queue, task>>

LEMMA IdlesBase ==
    ASSUME Base, NEW w \in Worker, NEW p \in {"free", "ask"}, Idles(w, p)
    PROVE  /\ Base' /\ Moves(w, p) /\ pc[w] \in {"free", "ask"} /\ Step(w)
           /\ UNCHANGED <<stack, startedFlag, position, task>>
<1>1. /\ Step(w) /\ pc[w] \in {"free", "ask"} /\ Goto(w, p) /\ stack[w] = <<>>
      /\ p = "ask" => w # sequential
      /\ UNCHANGED <<tags, ret, shared_vars, tasks, position, running, sent, queue, child,
                     stack, startedFlag, task, main>>
  BY DEF Step, Idles, CheckRunning, getWork, Base, Framed, search_vars, queue_vars,
     task_vars
<1>2. Len(stack'[w]) = 0 /\ pc[w] \notin Acting
  BY <1>1 DEF Acting
<1>3. /\ child' \in [Worker -> Node \cup {NoNode}] /\ stack' \in [Worker -> Seq(Frames)]
      /\ task' \in [Worker -> TaskNodes \cup {NoNode}]
      /\ queue' \subseteq queue
  BY <1>1, StateTyped
<1>4. Base' /\ Moves(w, p)
  BY <1>1, <1>2, <1>3, StepBase
<1> QED
  BY <1>1, <1>4

\* A scheduler takes task t from the queue.
Takes(w, t) == /\ getWork(w) /\ Goto(w, "check")
               /\ task' = [task EXCEPT ![w] = t.node] /\ queue' = queue \ {t}

LEMMA TakesBase ==
    ASSUME Base, NEW w \in Worker, NEW t \in queue, Takes(w, t)
    PROVE  Base' /\ Moves(w, "check")
<1>1. /\ Step(w) /\ pc[w] = "ask" /\ Goto(w, "check") /\ stack[w] = <<>>
      /\ t.node \in TaskNodes
      /\ UNCHANGED <<tags, ret, shared_vars, tasks, position, running, sent, child,
                     stack, main>>
  BY DEF Step, Takes, getWork, Base, Framed, Typed, search_vars
<1>2. /\ task' \in [Worker -> TaskNodes \cup {NoNode}] /\ task'[w] \in TaskNodes
      /\ \A v \in Worker \ {w} : task'[v] = task[v]
  BY <1>1, StateTyped DEF Takes
<1>3. Len(stack'[w]) = 0 /\ pc[w] \notin Acting
  BY <1>1 DEF Acting
<1>4. /\ child' \in [Worker -> Node \cup {NoNode}] /\ stack' \in [Worker -> Seq(Frames)]
      /\ queue' \subseteq queue
  BY <1>1, StateTyped DEF Takes
<1> QED
  BY <1>1, <1>2, <1>3, <1>4, StepBase

LEMMA GetWorkCases ==
    ASSUME NEW w \in Worker, getWork(w)
    PROVE  Idles(w, "free") \/ \E t \in queue : Takes(w, t)
BY DEF getWork, Idles, Takes

\* A decision that has been stopped has its solution.
LEMMA StoppedSolved ==
    ASSUME Base, NEW w \in Worker, Stopped(w)
    PROVE  Solved
BY BoundAssumption DEF Base, ProcessInv, StopsSolved, Stopped

LEMMA CheckTaskBase ==
    ASSUME Base, NEW w \in Worker, CheckTask(w)
    PROVE  Base' /\ Moves(w, IF Stopped(w) \/ PassedOver(w) THEN "free" ELSE "set")
<1>1. /\ Step(w) /\ pc[w] = "check" /\ task[w] \in TaskNodes /\ stack[w] = <<>>
      /\ Goto(w, IF Stopped(w) \/ PassedOver(w) THEN "free" ELSE "set")
      /\ main' = IF Stopped(w) /\ w = sequential THEN "stop" ELSE main
      /\ UNCHANGED <<tags, child, ret, shared_vars, tasks, position, running, sent, queue,
                     task, stack>>
  BY DEF Step, CheckTask, Base, Typed, Framed, search_vars, queue_vars, task_vars
<1>2. Stopped(w) => Solved
  BY StoppedSolved
<1>3. Len(stack'[w]) = 0 /\ pc[w] \notin Acting
  BY <1>1 DEF Acting
<1>4. /\ child' \in [Worker -> Node \cup {NoNode}] /\ stack' \in [Worker -> Seq(Frames)]
      /\ task' \in [Worker -> TaskNodes \cup {NoNode}] /\ queue' \subseteq queue
  BY <1>1, StateTyped
<1>5. CASE Stopped(w) \/ PassedOver(w)
  <2>1. Goto(w, "free") /\ (main' = main \/ (main' = "stop" /\ w = sequential /\ Solved))
    BY <1>1, <1>2, <1>5
  <2> QED
    BY <1>1, <1>3, <1>4, <1>5, <2>1, StepBase
<1>6. CASE ~ (Stopped(w) \/ PassedOver(w))
  BY <1>1, <1>3, <1>4, <1>6, StepBase
<1> QED
  BY <1>5, <1>6

\* What a thread that goes below node n pushes: nothing, or a first frame.
LEMMA EnteredTyped ==
    ASSUME NEW w \in Worker, NEW n \in Node
    PROVE  /\ Entered(w, n) \in Seq(Frames)
           /\ Entered(w, n) = <<>> \/ Entered(w, n) = <<<<n, 1>>>>
<1>1. <<n, 1>> \in Frames
  BY DEF Frames
<1>2. <<>> \in Seq(Frames) /\ <<<<n, 1>>>> \in Seq(Frames)
  BY <1>1
<1> QED
  BY <1>2 DEF Entered

LEMMA StartTaskBase ==
    ASSUME Base, NEW w \in Worker, StartTask(w)
    PROVE  Base' /\ Moves(w, IF startedFlag[task[w]] THEN "free" ELSE "expand")
<1>1. /\ Step(w) /\ pc[w] = "set" /\ task[w] \in TaskNodes /\ stack[w] = <<>>
      /\ UNCHANGED <<tags, child, ret, shared_vars, tasks, position, running, sent, queue,
                     task, main>>
  BY DEF Step, StartTask, Base, Typed, Framed, search_vars, queue_vars, task_vars
<1>2. /\ task[w] \in Node /\ Len(task[w]) = spawnDepth
  BY <1>1, NodesTyped
<1>3. /\ child' \in [Worker -> Node \cup {NoNode}] /\ pc[w] \notin Acting
      /\ task' \in [Worker -> TaskNodes \cup {NoNode}] /\ queue' \subseteq queue
  BY <1>1, StateTyped DEF Acting
<1>4. CASE startedFlag[task[w]]
  <2>1. Goto(w, "free") /\ pc'[w] = "free"
    BY <1>4, StateTyped DEF StartTask, set_value, Goto
  <2>2. UNCHANGED stack /\ Len(stack'[w]) = 0 /\ stack' \in [Worker -> Seq(Frames)]
    BY <1>1, <2>1, StateTyped DEF StartTask
  <2> QED
    BY <1>1, <1>3, <1>4, <2>1, <2>2, StepBase
<1>5. CASE ~ startedFlag[task[w]]
  <2>1. Goto(w, "expand") /\ pc'[w] = "expand"
    BY <1>5, StateTyped DEF StartTask, set_value, Goto
  <2>2. stack' = [stack EXCEPT ![w] = Entered(w, task[w])]
    BY <2>1 DEF StartTask
  <2>3. /\ stack' \in [Worker -> Seq(Frames)] /\ stack'[w] = Entered(w, task[w])
        /\ \A v \in Worker \ {w} : stack'[v] = stack[v]
    BY <1>2, <2>2, EnteredTyped, StateTyped
  <2>4. \A i \in 1..Len(stack'[w]) : Len(stack'[w][i][1]) >= spawnDepth
    <3>1. CASE stack'[w] = <<>>
      BY <3>1
    <3>2. CASE stack'[w] = <<<<task[w], 1>>>>
      BY <1>2, <3>2, OrderedAssumption
    <3> QED
      BY <1>2, <2>3, <3>1, <3>2, EnteredTyped
  <2> QED
    BY <1>1, <1>3, <1>5, <2>1, <2>3, <2>4, StepBase
<1> QED
  BY <1>4, <1>5

\* The last frame moves on to its next child.
LEMMA NextChildStack ==
    ASSUME Base, NEW w \in Worker, NextChild(w)
    PROVE  LET m == Frame(w)[1]
               k == Frame(w)[2]
               s == stack[w]
               t == stack'[w]
           IN  /\ stack' \in [Worker -> Seq(Frames)]
               /\ s \in Seq(Frames) /\ s # <<>> /\ Len(s) \in Nat \ {0}
               /\ t \in Seq(Frames) /\ t # <<>> /\ Len(t) = Len(s)
               /\ s[Len(s)] = <<m, k>> /\ t[Len(s)] = <<m, k + 1>>
               /\ \A i \in 1..Len(s) - 1 : t[i] = s[i]
               /\ \A v \in Worker \ {w} : stack'[v] = stack[v] /\ child'[v] = child[v]
               /\ m \in Node /\ k \in Nat \ {0} /\ k \in 1..numChildren(m)
               /\ child'[w] = Child(m, k) /\ child'[w] \in Node
               /\ child' \in [Worker -> Node \cup {NoNode}]
<1> DEFINE m == Frame(w)[1]
           k == Frame(w)[2]
           s == stack[w]
           t == stack'[w]
           top == <<m, k + 1>>
<1>1. /\ s \in Seq(Frames) /\ s # <<>> /\ Len(s) \in Nat \ {0}
      /\ s[Len(s)] = <<m, k>> /\ m \in Node /\ k \in Nat \ {0}
  BY FrameTyped DEF NextChild, Base
<1>2. stack \in [Worker -> Seq(Frames)] /\ child \in [Worker -> Node \cup {NoNode}]
  BY StateTyped
<1>3. t = [s EXCEPT ![Len(s)] = top]
  <2>1. stack' = [stack EXCEPT ![w] = [s EXCEPT ![Len(s)] =
                                          [s[Len(s)] EXCEPT ![2] = s[Len(s)][2] + 1]]]
    BY <1>1, <1>2 DEF NextChild
  <2>2. [s[Len(s)] EXCEPT ![2] = s[Len(s)][2] + 1] = top
    BY <1>1
  <2> QED
    BY <1>2, <2>1, <2>2
<1>4. top \in Frames
  BY <1>1 DEF Frames
<1>5. /\ t \in Seq(Frames) /\ Len(t) = Len(s) /\ t[Len(s)] = top
      /\ \A i \in 1..Len(s) - 1 : t[i] = s[i]
  BY <1>1, <1>3, <1>4, ExceptSeq
<1>6. /\ \A v \in Worker \ {w} : stack'[v] = stack[v]
      /\ stack' \in [Worker -> Seq(Frames)] /\ t # <<>>
  <2>1. stack' = [stack EXCEPT ![w] = t]
    BY <1>2 DEF NextChild
  <2>2. t # <<>>
    BY <1>1, <1>5, EmptySeq
  <2> QED
    BY <1>2, <1>5, <2>1, <2>2
<1>7. k \in 1..numChildren(m)
  BY <1>1, NumChildrenNat DEF NextChild
<1>8. Child(m, k) \in Node
  BY <1>1, <1>7, ChildInTree
<1>9. /\ child'[w] = Child(m, k)
      /\ \A v \in Worker \ {w} : child'[v] = child[v]
      /\ child' \in [Worker -> Node \cup {NoNode}]
  BY <1>2, <1>8 DEF NextChild
<1> QED
  BY <1>1, <1>5, <1>6, <1>7, <1>8, <1>9

LEMMA NextChildBase ==
    ASSUME Base, NEW w \in Worker, NextChild(w)
    PROVE  Base' /\ Moves(w, "process") /\ AtFrame(w)'
<1> DEFINE m == Frame(w)[1]
           k == Frame(w)[2]
           s == stack[w]
           t == stack'[w]
<1>1. /\ s \in Seq(Frames) /\ s # <<>> /\ Len(s) \in Nat \ {0}
      /\ t # <<>> /\ Len(t) = Len(s) /\ s[Len(s)] = <<m, k>> /\ t[Len(s)] = <<m, k + 1>>
      /\ \A i \in 1..Len(s) - 1 : t[i] = s[i]
      /\ stack' \in [Worker -> Seq(Frames)] /\ child' \in [Worker -> Node \cup {NoNode}]
      /\ \A v \in Worker \ {w} : stack'[v] = stack[v] /\ child'[v] = child[v]
      /\ k \in Nat \ {0} /\ k \in 1..numChildren(m)
      /\ child'[w] = Child(m, k) /\ child'[w] \in Node
  BY NextChildStack
<1>2. AtFrame(w)'
  <2>1. Frame(w)' = <<m, k + 1>>
    BY <1>1 DEF Frame
  <2> QED
    BY <1>1, <2>1 DEF AtFrame
<1>3. \A i \in 1..Len(t) : Len(t[i][1]) >= spawnDepth
  <2>1. \A i \in 1..Len(s) : Len(s[i][1]) >= spawnDepth
    BY DEF Base, Framed
  <2>2. \A i \in 1..Len(t) : i \in 1..Len(s) /\ t[i][1] = s[i][1]
    <3> SUFFICES ASSUME NEW i \in 1..Len(t) PROVE i \in 1..Len(s) /\ t[i][1] = s[i][1]
      OBVIOUS
    <3>1. i = Len(s) \/ i \in 1..Len(s) - 1
      BY <1>1
    <3> QED
      BY <1>1, <3>1
  <2> QED
    BY <2>1, <2>2
<1>4. /\ Step(w) /\ pc[w] = "expand" /\ Goto(w, "process") /\ pc[w] \notin Acting
      /\ UNCHANGED <<tags, ret, shared_vars, tasks, position, running, sent, queue, task,
                     main>>
  BY DEF Step, NextChild, Expanding, Acting, search_vars, queue_vars
<1>5. task' \in [Worker -> TaskNodes \cup {NoNode}] /\ queue' \subseteq queue
  BY <1>4, StateTyped
<1>6. Base' /\ Moves(w, "process")
  BY <1>1, <1>2, <1>3, <1>4, <1>5, StepBase
<1> QED
  BY <1>2, <1>6

\* The last frame is left.
LEMMA LeaveStack ==
    ASSUME Base, NEW w \in Worker, stack[w] # <<>>, LeaveFrame(w)
    PROVE  LET s == stack[w]
               t == stack'[w]
           IN  /\ stack' \in [Worker -> Seq(Frames)]
               /\ t = SubSeq(s, 1, Len(s) - 1)
               /\ s \in Seq(Frames) /\ Len(s) \in Nat \ {0}
               /\ Len(t) = Len(s) - 1 /\ \A i \in 1..Len(t) : t[i] = s[i]
               /\ \A i \in 1..Len(t) : Len(t[i][1]) >= spawnDepth
               /\ \A v \in Worker \ {w} : stack'[v] = stack[v]
<1> DEFINE s == stack[w]
           t == SubSeq(s, 1, Len(s) - 1)
<1>1. s \in Seq(Frames) /\ Len(s) \in Nat \ {0}
  BY FrameTyped DEF Base
<1>2. t \in Seq(Frames) /\ Len(t) = Len(s) - 1 /\ \A i \in 1..Len(t) : t[i] = s[i]
  BY <1>1, PopFrame
<1>3. stack'[w] = t /\ stack' \in [Worker -> Seq(Frames)]
      /\ \A v \in Worker \ {w} : stack'[v] = stack[v]
  BY <1>2, StateTyped DEF LeaveFrame
<1>4. \A i \in 1..Len(t) : Len(t[i][1]) >= spawnDepth
  <2>1. \A i \in 1..Len(s) : Len(s[i][1]) >= spawnDepth
    BY DEF Base, Framed
  <2>2. \A i \in 1..Len(t) : i \in 1..Len(s) /\ t[i] = s[i]
    BY <1>1, <1>2
  <2> QED
    BY <2>1, <2>2
<1> QED
  BY <1>1, <1>2, <1>3, <1>4

LEMMA LeaveBase ==
    ASSUME Base, NEW w \in Worker, Leave(w)
    PROVE  Base' /\ Moves(w, IF stack[w] = <<>> THEN "free" ELSE "expand")
<1>1. /\ Step(w) /\ pc[w] = "expand" /\ pc[w] \notin Acting
      /\ UNCHANGED <<tags, ret, shared_vars, tasks, position, running, sent, queue, task,
                     child, main>>
  BY DEF Step, Leave, Expanding, Acting, search_vars, queue_vars
<1>2. /\ task' \in [Worker -> TaskNodes \cup {NoNode}] /\ queue' \subseteq queue
      /\ child' \in [Worker -> Node \cup {NoNode}]
  BY <1>1, StateTyped
<1>3. CASE stack[w] = <<>>
  <2>1. Goto(w, "free") /\ UNCHANGED stack /\ Len(stack'[w]) = 0
    BY <1>3 DEF Leave
  <2>2. stack' \in [Worker -> Seq(Frames)]
    BY <2>1, StateTyped
  <2> QED
    BY <1>1, <1>2, <1>3, <2>1, <2>2, StepBase
<1>4. CASE stack[w] # <<>>
  <2>1. LeaveFrame(w) /\ UNCHANGED pc
    BY <1>4 DEF Leave
  <2>2. Goto(w, "expand")
    BY <1>1, <2>1, StateTyped DEF Goto
  <2> QED
    BY <1>1, <1>2, <1>4, <2>1, <2>2, LeaveStack, StepBase
<1> QED
  BY <1>3, <1>4

\* Going below node c: what is below it is to come from its frame, unless the
\* search has been stopped or all of it is beyond the depth limit.
LEMMA EnterStack ==
    ASSUME NEW w \in Worker, NEW s \in Seq(Frames), NEW c \in Node, Len(c) >= spawnDepth,
           \A i \in 1..Len(s) : Len(s[i][1]) >= spawnDepth
    PROVE  LET t == s \o Entered(w, c)
           IN  /\ t \in Seq(Frames)
               /\ \A i \in 1..Len(t) : Len(t[i][1]) >= spawnDepth
               /\ \A n : OnStack(s, n) => OnStack(t, n)
               /\ \A n \in Searched : n \in Below(c) => Stopped(w) \/ OnStack(t, n)
<1> DEFINE t == s \o Entered(w, c)
           limit == DepthLimited /\ Len(c) = maxDepth
<1>1. CASE Stopped(w) \/ limit
  <2>1. t = s
    <3>1. Entered(w, c) = <<>>
      BY <1>1 DEF Entered
    <3> QED
      BY <3>1, ConcatEmptySeq
  <2>2. ASSUME NEW n \in Searched, n \in Below(c), limit PROVE FALSE
    BY <2>2, NodeTyped, OrderedAssumption DEF Searched, Below
  <2> HIDE DEF t
  <2>3. \A n \in Searched : n \in Below(c) => Stopped(w)
    BY <1>1, <2>2
  <2> QED
    BY <2>1, <2>3 DEF t
<1>2. CASE ~ (Stopped(w) \/ limit)
  <2>1. <<c, 1>> \in Frames /\ Entered(w, c) = <<<<c, 1>>>>
    BY <1>2 DEF Entered, Frames
  <2>2. t = Append(s, <<c, 1>>)
    BY <2>1, AppendIsConcat
  <2> HIDE DEF t
  <2>3. /\ t \in Seq(Frames) /\ Len(t) = Len(s) + 1 /\ t[Len(s) + 1] = <<c, 1>>
        /\ \A i \in 1..Len(s) : t[i] = s[i]
        /\ Len(s) \in Nat
    BY <2>1, <2>2, AppendProperties
  <2>4. \A i \in 1..Len(t) : Len(t[i][1]) >= spawnDepth
    <3> SUFFICES ASSUME NEW i \in 1..Len(t) PROVE Len(t[i][1]) >= spawnDepth
      OBVIOUS
    <3>1. i = Len(s) + 1 \/ i \in 1..Len(s)
      BY <2>3
    <3> QED
      BY <2>3, <3>1
  <2>5. ASSUME NEW n, OnStack(s, n) \/ n \in Below(c) PROVE OnStack(t, n)
    <3>1. /\ \A i \in 1..Len(s) : FrameHas(t, i, n) <=> FrameHas(s, i, n)
          /\ (FrameHas(t, Len(s) + 1, n) <=> n \in Below(c))
      BY <2>2, PushFrame
    <3> QED
      BY <2>3, <2>5, <3>1 DEF OnStack
  <2>6. t \in Seq(Frames)
    BY <2>3
  <2> QED
    BY <2>4, <2>5, <2>6 DEF t
<1> QED
  BY <1>1, <1>2

\* The child a thread has in hand is one level below its last frame.
LEMMA ChildInHand ==
    ASSUME Base, NEW w \in Worker, Processing(w)
    PROVE  /\ stack[w] # <<>> /\ stack[w] \in Seq(Frames)
           /\ child[w] \in Node /\ Len(child[w]) > spawnDepth
           /\ Frame(w)[1] \in Node /\ Frame(w)[2] \in Nat \ {0}
           /\ Frame(w)[2] - 1 \in 1..numChildren(Frame(w)[1])
           /\ child[w] = Child(Frame(w)[1], Frame(w)[2] - 1)
           /\ stack[w][Len(stack[w])] = <<Frame(w)[1], Frame(w)[2]>>
<1>1. /\ stack[w] # <<>> /\ Frame(w)[2] - 1 \in 1..numChildren(Frame(w)[1])
      /\ child[w] = Child(Frame(w)[1], Frame(w)[2] - 1)
  BY DEF Base, Framed, AtFrame
<1>2. /\ stack[w] \in Seq(Frames) /\ Len(stack[w]) \in 1..Len(stack[w])
      /\ stack[w][Len(stack[w])] = <<Frame(w)[1], Frame(w)[2]>>
      /\ Frame(w)[1] \in Node /\ Frame(w)[2] \in Nat \ {0}
  BY <1>1, FrameTyped DEF Base
<1>3. Len(Frame(w)[1]) >= spawnDepth
  BY <1>2 DEF Base, Framed, Frame
<1>4. /\ child[w] \in Node /\ Len(child[w]) = Len(Frame(w)[1]) + 1
  <2>1. Frame(w)[2] - 1 \in Nat
    BY <1>2
  <2> QED
    <3> DEFINE m == Frame(w)[1]
               j == Frame(w)[2] - 1
    <3>1. m \in Node /\ j \in Nat /\ j \in 1..numChildren(m) /\ child[w] = Child(m, j)
      BY <1>1, <1>2, <2>1
    <3> HIDE DEF m, j
    <3>2. Child(m, j) \in Node /\ Len(Child(m, j)) = Len(m) + 1
      BY <3>1, ChildInTree, ChildTyped
    <3> QED
      BY <3>1, <3>2 DEF m
<1>5. Len(child[w]) > spawnDepth
  BY <1>2, <1>3, <1>4, NodeTyped, OrderedAssumption
<1> QED
  BY <1>1, <1>2, <1>4, <1>5

LEMMA AnsweredBase ==
    ASSUME Base, NEW w \in Worker, Answered(w)
    PROVE  Base' /\ Moves(w, "expand")
<1>1. /\ Step(w) /\ pc[w] = "answered" /\ pc[w] \notin Acting /\ Goto(w, "expand")
      /\ UNCHANGED <<tags, ret, shared_vars, tasks, position, running, sent, queue, task,
                     child, main>>
  BY DEF Step, Answered, Expanding, Acting, search_vars, queue_vars
<1>2. /\ task' \in [Worker -> TaskNodes \cup {NoNode}] /\ queue' \subseteq queue
      /\ child' \in [Worker -> Node \cup {NoNode}]
  BY <1>1, StateTyped
<1>3. /\ stack[w] # <<>> /\ stack[w] \in Seq(Frames)
      /\ child[w] \in Node /\ Len(child[w]) >= spawnDepth
      /\ \A i \in 1..Len(stack[w]) : Len(stack[w][i][1]) >= spawnDepth
  <2>1. child[w] \in Node /\ Len(child[w]) > spawnDepth
        /\ stack[w] # <<>> /\ stack[w] \in Seq(Frames)
    BY <1>1, ChildInHand DEF Processing
  <2>2. Len(child[w]) >= spawnDepth
    BY <2>1, NodeTyped, OrderedAssumption
  <2> QED
    BY <2>1, <2>2 DEF Base, Framed
<1>4. CASE ret[w] = "Continue"
  <2> DEFINE t == stack[w] \o Entered(w, child[w])
  <2>1. stack' = [stack EXCEPT ![w] = t]
    BY <1>4 DEF Answered
  <2>2. t \in Seq(Frames) /\ \A i \in 1..Len(t) : Len(t[i][1]) >= spawnDepth
    BY <1>3, EnterStack
  <2> HIDE DEF t
  <2>3. /\ stack' \in [Worker -> Seq(Frames)] /\ stack'[w] = t
        /\ \A v \in Worker \ {w} : stack'[v] = stack[v]
    BY <2>1, <2>2, StateTyped
  <2> QED
    BY <1>1, <1>2, <2>2, <2>3, StepBase
<1>5. CASE ret[w] = "Prune"
  <2>1. UNCHANGED stack
    BY <1>5 DEF Answered
  <2> QED
    BY <1>1, <1>2, <1>3, <2>1, StateTyped, StepBase
<1>6. CASE ret[w] \in {"Break", "Exit"}
  <2>1. LeaveFrame(w)
    BY <1>6 DEF Answered
  <2> QED
    BY <1>1, <1>2, <1>3, <2>1, LeaveStack, StepBase
<1> QED
  BY <1>4, <1>5, <1>6 DEF Answered

LEMMA ProcessBase ==
    ASSUME Base, NEW w \in Worker, ProcessChild(w)
    PROVE  /\ Base' /\ UNCHANGED <<tags, child, stack, task, tasks, startedFlag, position>>
           /\ pc[w] \in Acting \cup {"process"} /\ pc'[w] \in Acting \cup {"answered"}
           /\ \A v \in Worker \ {w} : pc'[v] = pc[v] /\ ret'[v] = ret[v]
<1>1. /\ Step(w) /\ Process(w) /\ ProcessInv
      /\ UNCHANGED <<tasks, position, running, queue, sent, task, stack, startedFlag, main>>
  BY DEF Step, ProcessChild, Base, search_vars, queue_vars, task_vars
<1>2. ret \in [Worker -> Answers] /\ pc = [v \in Worker |-> pc[v]]
  BY DEF Base, Typed, FlagCounts
<1>3. /\ pc[w] \in Acting \cup {"process"} /\ UNCHANGED <<tags, child>>
      /\ pc'[w] \in Acting \cup {"answered"} /\ ret' \in [Worker -> Answers]
      /\ \A v \in Worker \ {w} : pc'[v] = pc[v] /\ ret'[v] = ret[v]
  BY <1>1, <1>2, ProcessPlace, ProcessMoves DEF Goto
<1>4. ProcessInv' /\ (Solved => Solved')
  BY <1>1, ProcessStep, IncumbentRises
<1>5. FlagCounts'
  BY <1>1, NextFlagCounts DEF Base, Next
<1>6. Phases'
  BY <1>1, <1>3, <1>4, StepPhases DEF Acting
<1>7. Typed'
  BY <1>1, <1>3 DEF Base, Typed, Acting
<1>8. Framed'
  <2>1. \A v \in Worker : AtFrame(v)' = AtFrame(v)
    BY <1>1, <1>3 DEF AtFrame, Frame
  <2> SUFFICES ASSUME NEW v \in Worker
               PROVE  /\ pc'[v] \in {"free", "ask", "check", "set"} => stack'[v] = <<>>
                      /\ Processing(v)' => AtFrame(v)
                      /\ \A i \in 1..Len(stack'[v]) : Len(stack'[v][i][1]) >= spawnDepth
    BY <2>1 DEF Framed
  <2>2. CASE v = w
    BY <1>1, <1>3, <2>2 DEF Base, Framed, Processing, Acting
  <2>3. CASE v # w
    BY <1>1, <1>3, <2>3 DEF Base, Framed, Processing
  <2> QED
    BY <2>2, <2>3
<1> QED
  BY <1>1, <1>3, <1>4, <1>5, <1>6, <1>7, <1>8 DEF Base

\* Steps that move no thread.
LEMMA QuietBase ==
    ASSUME Base, Next, UNCHANGED <<tags, pc, child, ret, task, stack>>,
           ProcessInv', Phases', position' = position,
           \A t \in queue' \cup sent' : t.node \in TaskNodes
    PROVE  Base'
<1>1. FlagCounts'
  BY NextFlagCounts DEF Base
<1>2. Typed'
  BY DEF Base, Typed
<1>3. Framed'
  <2>1. \A v \in Worker : AtFrame(v)' = AtFrame(v) /\ Processing(v)' = Processing(v)
    BY DEF AtFrame, Frame, Processing
  <2> QED
    BY <2>1 DEF Base, Framed
<1> QED
  BY <1>1, <1>2, <1>3 DEF Base

LEMMA DeliverBase ==
    ASSUME Base, Deliver
    PROVE  Base' /\ UNCHANGED <<tags, pc, child, ret, incumbent, task, stack, tasks,
                                startedFlag, position, main>>
<1>1. UNCHANGED <<tags, pc, child, ret, incumbent, task, stack, tasks, startedFlag,
                  position, main, queue, sent, running>>
  BY DEF Deliver, Receive, ReceiveBound, ReceiveStop, search_vars, queue_vars, task_vars
<1>2. ProcessInv' /\ Next
  BY ReceiveStep DEF Deliver, Base, Next
<1>3. Phases'
  BY <1>1 DEF Base, Phases, Solved, Kind
<1>4. \A t \in queue' \cup sent' : t.node \in TaskNodes
  BY <1>1 DEF Base, Typed
<1> QED
  BY <1>1, <1>2, <1>3, <1>4, QuietBase

\* addWork arrives, schedulers stop, and search comes to its end.
LEMMA CallsBase ==
    ASSUME Base, \/ \E t \in sent : addWork(t)
                 \/ AllSeen \/ Return \/ \E l \in Locality : StopSchedulers(l)
    PROVE  Base' /\ UNCHANGED <<tags, pc, child, ret, incumbent, task, stack, tasks,
                                startedFlag, position>>
                 /\ (main' = "spawn" <=> main = "spawn")
<1>1. /\ UNCHANGED <<tags, pc, child, ret, shared_vars, incumbent, task, stack, tasks,
                     startedFlag, position>>
      /\ Next /\ UNCHANGED acc
  BY DEF Next, Search, addWork, AllSeen, Return, StopSchedulers, process_vars,
     shared_vars, search_vars, task_vars, queue_vars
<1>2. ProcessInv'
  BY <1>1, QuietStep DEF Base
<1>3. \A t \in queue' \cup sent' : t.node \in TaskNodes
  BY DEF Base, Typed, addWork, AllSeen, Return, StopSchedulers, queue_vars
<1>4. Phases' /\ (main' = "spawn" <=> main = "spawn")
  <2>1. Solved' = Solved
    BY <1>1 DEF Solved, Kind
  <2>2. CASE \E t \in sent : addWork(t)
    BY <1>1, <2>1, <2>2 DEF Base, Phases, addWork
  <2>3. CASE AllSeen
    BY <1>1, <2>1, <2>3 DEF Base, Phases, AllSeen
  <2>4. CASE Return
    BY <1>1, <2>1, <2>4, OrderedAssumption DEF Base, Phases, Return, queue_vars
  <2>5. CASE \E l \in Locality : StopSchedulers(l)
    BY <1>1, <2>1, <2>5 DEF Base, Phases, StopSchedulers
  <2> QED
    BY <2>2, <2>3, <2>4, <2>5
<1> QED
  BY <1>1, <1>2, <1>3, <1>4, QuietBase

LEMMA SpawnBase ==
    ASSUME Base, SpawnTasks
    PROVE  Base' /\ UNCHANGED <<tags, startedFlag, position, incumbent>>
<1>1. /\ UNCHANGED <<tags, pc, child, ret, acc, shared_vars, incumbent, task, stack,
                     startedFlag, position, queue>>
      /\ main = "spawn" /\ main' = "sequential" /\ Next
      /\ tasks' = prioritiseTasks /\ sent' = ToSet(prioritiseTasks)
  BY DEF Next, Search, SpawnTasks, process_vars, shared_vars, task_vars
<1>2. ProcessInv'
  BY <1>1, QuietStep DEF Base
<1>3. \A t \in queue' \cup sent' : t.node \in TaskNodes
  BY <1>1, Prioritised DEF Base, Typed
<1>4. Phases'
  <2>1. Len(tasks') = Len(Level(spawnDepth))
        /\ \A k \in 1..Len(tasks') : tasks'[k].node = Level(spawnDepth)[k]
    BY <1>1, Prioritised
  <2> QED
    BY <1>1, <2>1 DEF Base, Phases
<1> QED
  BY <1>1, <1>2, <1>3, <1>4, QuietBase
-----------------------------------------------------------------------------
LEMMA SearchedTyped ==
    ASSUME NEW n \in Searched
    PROVE  n \in Node /\ TaskOf(n) \in TaskNodes /\ n \in Below(TaskOf(n))
<1>1. /\ n \in Node /\ n \in Seq(Nat) /\ Len(n) \in Nat /\ Len(n) > spawnDepth
      /\ spawnDepth \in Nat /\ spawnDepth \in 0..Len(n)
  BY NodeTyped, OrderedAssumption DEF Searched
<1>2. TaskOf(n) \in Node
  BY <1>1, TreeAssumption DEF TaskOf
<1>3. Len(TaskOf(n)) = spawnDepth
  BY <1>1, SubSeqProperties DEF TaskOf
<1> QED
  BY <1>1, <1>2, <1>3 DEF TaskNodes, AtDepth, Below, TaskOf

\* Steps outside processNode: it is enough that what the thread drops is
\* settled.
LEMMA SkeletonAnswer ==
    ASSUME AnswerInv, Base', main # "spawn", NEW w \in Worker,
           NEW p \in {"free", "ask", "check", "set", "expand", "process"}, Moves(w, p),
           \A n \in Searched :
               Goal(n) /\ (ToCome(TaskOf(n)) \/ OnStack(stack[w], n) \/ AtChild(w, n)) =>
                   \/ Settled(n) \/ ToCome(TaskOf(n))'
                   \/ OnStack(stack'[w], n) \/ AtChild(w, n)'
    PROVE  AnswerInv'
<1>1. /\ pc'[w] = p /\ pc[w] \notin Acting
      /\ \A v \in Worker \ {w} : /\ pc'[v] = pc[v] /\ child'[v] = child[v]
                                 /\ ret'[v] = ret[v] /\ stack'[v] = stack[v]
      /\ UNCHANGED <<Kind, Searched>> /\ UNCHANGED shared_vars
  BY DEF Moves, Kind, Searched, DepthLimited
<1>2. ASSUME NEW n, Settled(n) PROVE Settled(n)'
  BY <1>1, <1>2, SkeletonSettled
<1>3. UNCHANGED Solved /\ \A n : Goal(n)' <=> Goal(n)
  BY <1>1 DEF Solved, Goal, shared_vars
<1>4. Covered'
  <2> SUFFICES ASSUME NEW n \in Searched, Goal(n) PROVE Settled(n)' \/ Pending(n)'
    BY <1>1, <1>3 DEF Covered
  <2>1. Settled(n) \/ Pending(n)
    BY DEF AnswerInv, Covered
  <2>2. ASSUME NEW v \in Worker \ {w}, OnStack(stack[v], n) \/ AtChild(v, n)
        PROVE  Pending(n)'
    <3>1. OnStack(stack'[v], n) \/ AtChild(v, n)'
      BY <1>1, <2>2 DEF AtChild
    <3> QED
      BY <3>1 DEF Pending
  <2>3. CASE ToCome(TaskOf(n)) \/ OnStack(stack[w], n) \/ AtChild(w, n)
    BY <1>2, <2>3 DEF Pending
  <2> QED
    BY <1>2, <2>1, <2>2, <2>3 DEF Pending
<1>5. BreakSettled'
  <2> SUFFICES ASSUME NEW v \in Worker, pc'[v] = "answered", ret'[v] = "Break",
                      NEW n \in Node, Goal(n), FrameHas(stack'[v], Len(stack'[v]), n)
               PROVE  Settled(n)'
    BY <1>3 DEF BreakSettled
  <2>1. /\ v # w /\ pc[v] = "answered" /\ ret[v] = "Break"
        /\ FrameHas(stack[v], Len(stack[v]), n)
    BY <1>1
  <2> QED
    BY <1>2, <2>1 DEF AnswerInv, BreakSettled
<1>6. ExitSolved'
  BY <1>1, <1>3 DEF AnswerInv, ExitSolved
<1> QED
  BY <1>4, <1>5, <1>6 DEF AnswerInv

\* A task to come is only taken by the sequential thread that checks it, and by
\* whoever sets its flag.
LEMMA ToComeKept ==
    ASSUME NEW w \in Worker, NEW p, Moves(w, p), UNCHANGED <<startedFlag, position, task>>,
           w = sequential => pc[w] \notin {"check", "set"},
           NEW t, ToCome(t)
    PROVE  ToCome(t)'
BY OrderedAssumption DEF Moves, ToCome

LEMMA NextTaskAnswer ==
    ASSUME AnswerInv, NextTask
    PROVE  AnswerInv'
<1> DEFINE w == sequential
<1>1. /\ w \in Worker /\ Base' /\ Moves(w, "check") /\ main # "spawn"
      /\ pc[w] = "free" /\ UNCHANGED <<stack, startedFlag, tasks>>
      /\ position \in Nat /\ position <= Len(tasks) /\ position' = position + 1
      /\ task'[w] = tasks[position].node
      /\ pc'[w] = "check"
  <2>1. Base' /\ Moves(w, "check")
    BY NextTaskBase DEF AnswerInv
  <2> QED
    BY <2>1, OrderedAssumption DEF NextTask, AnswerInv, Base, Typed, Moves, search_vars
<1>2. Len(tasks) \in Nat
  <2>1. Level(spawnDepth) \in Seq(TaskNodes) /\ Len(tasks) = Len(Level(spawnDepth))
    BY <1>1, LevelExact, OrderedAssumption DEF AnswerInv, Base, Phases, TaskNodes
  <2> QED
    BY <2>1
<1>3. ASSUME NEW t, ToCome(t) PROVE ToCome(t)'
  <2>1. ~ startedFlag[t] /\ ~ startedFlag'[t]
    BY <1>1, <1>3 DEF ToCome
  <2>2. PICK k \in position..Len(tasks) : tasks[k].node = t
    BY <1>1, <1>3 DEF ToCome
  <2>3. CASE k = position
    BY <1>1, <2>1, <2>2, <2>3 DEF ToCome
  <2>4. CASE k # position
    <3>1. k \in position'..Len(tasks')
      BY <1>1, <1>2, <2>4
    <3>2. tasks'[k].node = t
      BY <1>1, <2>2
    <3> QED
      BY <2>1, <3>1, <3>2 DEF ToCome
  <2> QED
    BY <2>3, <2>4
<1>4. \A n : ~ AtChild(w, n)
  BY <1>1 DEF AtChild
<1> QED
  BY <1>1, <1>3, <1>4, SkeletonAnswer

LEMMA IdlesAnswer ==
    ASSUME AnswerInv, NEW w \in Worker, NEW p \in {"free", "ask"}, Idles(w, p)
    PROVE  AnswerInv'
<1>1. /\ Base' /\ Moves(w, p) /\ main # "spawn" /\ pc[w] \in {"free", "ask"}
      /\ UNCHANGED <<stack, startedFlag, position, task>>
  BY IdlesBase, Working DEF AnswerInv
<1>2. \A t : ToCome(t) => ToCome(t)'
  BY <1>1, ToComeKept
<1>3. \A n : ~ AtChild(w, n)
  BY <1>1 DEF AtChild
<1> QED
  BY <1>1, <1>2, <1>3, SkeletonAnswer

LEMMA GetWorkAnswer ==
    ASSUME AnswerInv, NEW w \in Worker, getWork(w)
    PROVE  AnswerInv'
<1>1. CASE Idles(w, "free")
  BY <1>1, IdlesAnswer
<1>2. ASSUME NEW t \in queue, Takes(w, t) PROVE AnswerInv'
  <2>1. /\ Base' /\ Moves(w, "check") /\ main # "spawn" /\ w # sequential
        /\ pc[w] = "ask" /\ UNCHANGED <<stack, startedFlag, position>>
        /\ \A v \in Worker \ {w} : task'[v] = task[v]
    <3>1. Base' /\ Moves(w, "check") /\ main # "spawn"
      BY <1>2, TakesBase, Working DEF AnswerInv, Step
    <3> QED
      BY <3>1 DEF getWork, Moves, AnswerInv, Base, Phases
  <2>2. ASSUME NEW u, ToCome(u) PROVE ToCome(u)'
    BY <2>1, <2>2, OrderedAssumption DEF ToCome, Moves
  <2>3. \A n : ~ AtChild(w, n)
    BY <2>1 DEF AtChild
  <2> QED
    BY <2>1, <2>2, <2>3, SkeletonAnswer
<1> QED
  BY <1>1, <1>2, GetWorkCases

\* A task that is given up without raising its flag is not needed: the search
\* has its solution, or the bound settles all that is below.
LEMMA CheckTaskAnswer ==
    ASSUME AnswerInv, NEW w \in Worker, CheckTask(w)
    PROVE  AnswerInv'
<1>1. /\ Base /\ Base' /\ main # "spawn" /\ pc[w] = "check" /\ task[w] \in TaskNodes
      /\ Moves(w, IF Stopped(w) \/ PassedOver(w) THEN "free" ELSE "set")
      /\ UNCHANGED <<stack, child, startedFlag, position, task, tasks>>
  <2>1. /\ Base /\ Base' /\ main # "spawn"
        /\ Moves(w, IF Stopped(w) \/ PassedOver(w) THEN "free" ELSE "set")
    BY CheckTaskBase, Working DEF AnswerInv, Step
  <2> QED
    BY <2>1 DEF CheckTask, Base, Typed, search_vars, queue_vars, task_vars
<1>2. \A n : ~ AtChild(w, n)
  BY <1>1 DEF AtChild
<1>3. CASE Stopped(w) \/ PassedOver(w)
  <2>1. Moves(w, "free")
    BY <1>1, <1>3
  <2>2. ASSUME NEW n \in Searched, Goal(n), ToCome(TaskOf(n)), ~ Settled(n)
        PROVE  ToCome(TaskOf(n))'
    <3>1. /\ n \in Node /\ n \in Below(TaskOf(n)) /\ TaskOf(n) \in Node
      BY SearchedTyped, NodesTyped
    <3>2. PassedOver(w)
      BY <1>1, <1>3, <2>2, <3>1, StoppedSolved, SolvedSettles DEF Base
    <3>3. task[w] # TaskOf(n)
      <4>1. CASE task[w] = TaskOf(n)
        <5>1. Obj[n] <= Bound[TaskOf(n)]
          BY <3>1, BoundAssumption
        <5>2. Hopeless(TaskOf(n), localBound[home[w]]) /\ home[w] \in Locality
          BY <3>2, <4>1, BoundAssumption DEF PassedOver
        <5> QED
          BY <1>1, <2>2, <3>1, <5>1, <5>2, HopelessSettles DEF Base
      <4> QED
        BY <4>1
    <3> QED
      BY <1>1, <2>1, <2>2, <3>3, OrderedAssumption DEF ToCome, Moves
  <2> QED
    BY <1>1, <1>2, <2>1, <2>2, SkeletonAnswer
<1>4. CASE ~ (Stopped(w) \/ PassedOver(w))
  <2>1. Moves(w, "set") /\ pc'[w] = "set"
    BY <1>1, <1>4 DEF Moves
  <2>2. ASSUME NEW t, ToCome(t) PROVE ToCome(t)'
    BY <1>1, <2>1, <2>2, OrderedAssumption DEF ToCome, Moves
  <2> QED
    BY <1>1, <1>2, <2>1, <2>2, SkeletonAnswer
<1> QED
  BY <1>3, <1>4

\* Whoever raises the flag of a task has all that is below it to come from its
\* first frame.
LEMMA StartTaskAnswer ==
    ASSUME AnswerInv, NEW w \in Worker, StartTask(w)
    PROVE  AnswerInv'
<1>1. /\ Base /\ Base' /\ main # "spawn" /\ pc[w] = "set" /\ task[w] \in TaskNodes
      /\ Moves(w, IF startedFlag[task[w]] THEN "free" ELSE "expand")
      /\ UNCHANGED <<child, position, task, tasks>>
      /\ stack[w] = <<>>
  <2>1. /\ Base /\ Base' /\ main # "spawn"
        /\ Moves(w, IF startedFlag[task[w]] THEN "free" ELSE "expand")
    BY StartTaskBase, Working DEF AnswerInv, Step
  <2> QED
    BY <2>1 DEF StartTask, Base, Typed, Framed, search_vars, queue_vars
<1>2. /\ startedFlag \in [TaskNodes -> BOOLEAN] /\ task[w] \in Node
      /\ Len(task[w]) = spawnDepth /\ Len(task[w]) >= spawnDepth
  <2>1. task[w] \in Node /\ Len(task[w]) = spawnDepth
    BY <1>1, NodesTyped
  <2> QED
    BY <1>1, <2>1, StateTyped, OrderedAssumption
<1>3. \A n : ~ AtChild(w, n) /\ ~ OnStack(stack[w], n)
  <2>1. Len(stack[w]) = 0
    BY <1>1
  <2> QED
    BY <1>1, <2>1 DEF AtChild, OnStack
<1>4. CASE startedFlag[task[w]]
  <2>1. Moves(w, "free") /\ UNCHANGED startedFlag
    BY <1>1, <1>4 DEF StartTask, set_value
  <2>2. ASSUME NEW t, ToCome(t) PROVE ToCome(t)'
    <3>1. t # task[w]
      BY <1>4, <2>2 DEF ToCome
    <3> QED
      BY <1>1, <2>1, <2>2, <3>1, OrderedAssumption DEF ToCome, Moves
  <2> QED
    BY <1>1, <1>3, <2>1, <2>2, SkeletonAnswer
<1>5. CASE ~ startedFlag[task[w]]
  <2>1. /\ Moves(w, "expand") /\ pc'[w] = "expand"
        /\ startedFlag' = [startedFlag EXCEPT ![task[w]] = TRUE]
    BY <1>1, <1>5 DEF StartTask, set_value, Moves
  <2>2. stack'[w] = Entered(w, task[w])
    <3>1. stack \in [Worker -> Seq(Frames)]
      BY <1>1, StateTyped
    <3> QED
      BY <2>1, <3>1 DEF StartTask
  <2>3. ASSUME NEW n \in Searched, n \in Below(task[w])
        PROVE  Stopped(w) \/ OnStack(stack'[w], n)
    <3> DEFINE s == <<>>
               e == Entered(w, task[w])
    <3>1. /\ s \in Seq(Frames) /\ \A i \in 1..Len(s) : Len(s[i][1]) >= spawnDepth
          /\ e \in Seq(Frames)
      BY <1>2, EnteredTyped
    <3>2. s \o e = e
      <4> HIDE DEF e
      <4> QED
        BY <3>1, ConcatEmptySeq
    <3>3. Stopped(w) \/ OnStack(s \o e, n)
      <4> HIDE DEF s
      <4> QED
        BY <1>2, <2>3, <3>1, EnterStack
    <3> QED
      BY <2>2, <3>2, <3>3
  <2>4. ASSUME NEW n \in Searched, Goal(n), ToCome(TaskOf(n)), ~ Settled(n)
        PROVE  ToCome(TaskOf(n))' \/ OnStack(stack'[w], n)
    <3>1. n \in Node /\ n \in Below(TaskOf(n)) /\ TaskOf(n) \in TaskNodes
      BY SearchedTyped
    <3>2. CASE TaskOf(n) = task[w]
      <4>1. ~ Stopped(w)
        BY <1>1, <2>4, <3>1, StoppedSolved, SolvedSettles DEF Base
      <4> QED
        BY <2>3, <3>1, <3>2, <4>1
    <3>3. CASE TaskOf(n) # task[w]
      <4>1. startedFlag'[TaskOf(n)] = startedFlag[TaskOf(n)]
        BY <1>2, <2>1, <3>1, <3>3
      <4> HIDE DEF TaskOf
      <4> QED
        BY <1>1, <2>1, <2>4, <3>3, <4>1, OrderedAssumption DEF ToCome, Moves
    <3> QED
      BY <3>2, <3>3
  <2> QED
    BY <1>1, <1>3, <2>1, <2>4, SkeletonAnswer
<1> QED
  BY <1>4, <1>5

LEMMA NextChildAnswer ==
    ASSUME AnswerInv, NEW w \in Worker, NextChild(w)
    PROVE  AnswerInv'
<1> DEFINE s == stack[w]
           t == stack'[w]
           m == Frame(w)[1]
           k == Frame(w)[2]
<1>1. /\ Base /\ Base' /\ main # "spawn" /\ Moves(w, "process") /\ pc'[w] = "process"
      /\ pc[w] = "expand" /\ UNCHANGED <<startedFlag, position, task>>
  <2>1. Base /\ Base' /\ main # "spawn" /\ Moves(w, "process")
    BY NextChildBase, Working DEF AnswerInv, Step
  <2> QED
    BY <2>1 DEF NextChild, Expanding, Moves, queue_vars
<1>2. /\ s \in Seq(Frames) /\ s # <<>> /\ Len(s) \in Nat \ {0}
      /\ t \in Seq(Frames) /\ Len(t) = Len(s)
      /\ s[Len(s)] = <<m, k>> /\ k <= numChildren(m) /\ t[Len(s)] = <<m, k + 1>>
      /\ \A i \in 1..Len(s) - 1 : t[i] = s[i]
      /\ child'[w] = Child(m, k)
  <2>1. k <= numChildren(m)
    BY DEF NextChild
  <2> QED
    BY <1>1, <2>1, NextChildStack
<1>3. ASSUME NEW n, OnStack(s, n) PROVE OnStack(t, n) \/ n \in Subtree(Child(m, k))
  <2> HIDE DEF s, t, m, k
  <2>1. /\ \A i \in 1..Len(s) - 1 : FrameHas(t, i, n) <=> FrameHas(s, i, n)
        /\ (FrameHas(t, Len(s), n) <=>
               FrameHas(s, Len(s), n) /\ n \notin Subtree(Child(m, k)))
    BY <1>2, AdvanceFrame
  <2>2. PICK i \in 1..Len(s) : FrameHas(s, i, n)
    BY <1>3 DEF OnStack
  <2>3. i = Len(s) \/ i \in 1..Len(s) - 1
    BY <1>2
  <2> QED
    BY <1>2, <2>1, <2>2, <2>3 DEF OnStack
<1>4. ASSUME NEW n, OnStack(stack[w], n) \/ AtChild(w, n)
      PROVE  OnStack(stack'[w], n) \/ AtChild(w, n)'
  BY <1>1, <1>2, <1>3, <1>4 DEF AtChild
<1>5. \A n : ToCome(TaskOf(n)) => ToCome(TaskOf(n))'
  BY <1>1, ToComeKept
<1> QED
  BY <1>1, <1>4, <1>5, SkeletonAnswer

\* A frame may be left when nothing that matters is to come from it.
LEMMA FrameSettled ==
    ASSUME AnswerInv, NEW w \in Worker, stack[w] # <<>>,
           \/ Leave(w)
           \/ pc[w] = "answered" /\ ret[w] \in {"Break", "Exit"},
           NEW n \in Node, Goal(n), FrameHas(stack[w], Len(stack[w]), n)
    PROVE  Settled(n)
<1>1. CASE Leave(w)
  <2> DEFINE m == Frame(w)[1]
             k == Frame(w)[2]
  <2>1. /\ stack[w][Len(stack[w])] = <<m, k>> /\ k \in Nat /\ k > numChildren(m)
        /\ numChildren(m) \in Nat
    BY <1>1, FrameTyped, NumChildrenNat DEF Leave, AnswerInv, Base
  <2> HIDE DEF m, k
  <2> QED
    BY <2>1 DEF FrameHas
<1>2. CASE pc[w] = "answered" /\ ret[w] = "Break"
  BY <1>2 DEF AnswerInv, BreakSettled
<1>3. CASE pc[w] = "answered" /\ ret[w] = "Exit"
  BY <1>3, SolvedSettles DEF AnswerInv, ExitSolved, Base
<1> QED
  BY <1>1, <1>2, <1>3

LEMMA PopKeeps ==
    ASSUME NEW s \in Seq(Frames), s # <<>>, NEW n, OnStack(s, n),
           ~ FrameHas(s, Len(s), n)
    PROVE  OnStack(SubSeq(s, 1, Len(s) - 1), n)
<1> DEFINE t == SubSeq(s, 1, Len(s) - 1)
<1>1. /\ Len(t) = Len(s) - 1 /\ Len(s) \in Nat \ {0}
      /\ \A i \in 1..Len(t) : FrameHas(t, i, n) <=> FrameHas(s, i, n)
  BY PopFrame
<1>2. PICK i \in 1..Len(s) : FrameHas(s, i, n)
  BY DEF OnStack
<1>3. i \in 1..Len(t)
  BY <1>1, <1>2
<1> QED
  BY <1>1, <1>2, <1>3 DEF OnStack

LEMMA LeaveAnswer ==
    ASSUME AnswerInv, NEW w \in Worker, Leave(w)
    PROVE  AnswerInv'
<1> DEFINE p == IF stack[w] = <<>> THEN "free" ELSE "expand"
<1>1. /\ Base /\ Base' /\ main # "spawn" /\ Moves(w, p) /\ p \in {"free", "expand"}
      /\ pc[w] = "expand" /\ UNCHANGED <<startedFlag, position, task>>
  <2>1. Base /\ Base' /\ main # "spawn" /\ Moves(w, p)
    BY LeaveBase, Working DEF AnswerInv, Step
  <2> QED
    BY <2>1 DEF Leave, Expanding, queue_vars
<1>2. ASSUME NEW n \in Searched, Goal(n), OnStack(stack[w], n)
      PROVE  Settled(n) \/ OnStack(stack'[w], n)
  <2>1. CASE stack[w] = <<>>
    <3>1. Len(stack[w]) = 0
      BY <2>1
    <3> QED
      BY <1>2, <3>1 DEF OnStack
  <2>2. CASE stack[w] # <<>>
    <3>1. /\ LeaveFrame(w) /\ n \in Node
      BY <2>2, SearchedTyped DEF Leave
    <3>2. stack[w] \in Seq(Frames) /\ stack'[w] = SubSeq(stack[w], 1, Len(stack[w]) - 1)
      BY <1>1, <2>2, <3>1, LeaveStack
    <3> QED
      BY <1>2, <2>2, <3>1, <3>2, FrameSettled, PopKeeps
  <2> QED
    BY <2>1, <2>2
<1>3. \A n : ~ AtChild(w, n)
  BY <1>1 DEF AtChild
<1>4. \A n : ToCome(TaskOf(n)) => ToCome(TaskOf(n))'
  BY <1>1, ToComeKept
<1> HIDE DEF p
<1> QED
  BY <1>1, <1>2, <1>3, <1>4, SkeletonAnswer

LEMMA AnsweredAnswer ==
    ASSUME AnswerInv, NEW w \in Worker, Answered(w)
    PROVE  AnswerInv'
<1>1. /\ Base /\ Base' /\ main # "spawn" /\ Moves(w, "expand")
      /\ pc[w] = "answered" /\ UNCHANGED <<startedFlag, position, task>>
      /\ stack \in [Worker -> Seq(Frames)]
  <2>1. Base /\ Base' /\ main # "spawn" /\ Moves(w, "expand")
    BY AnsweredBase, Working DEF AnswerInv, Step
  <2> QED
    BY <2>1, StateTyped DEF Answered, Expanding, queue_vars
<1>2. /\ stack[w] # <<>> /\ stack[w] \in Seq(Frames)
      /\ child[w] \in Node /\ Len(child[w]) >= spawnDepth
      /\ \A i \in 1..Len(stack[w]) : Len(stack[w][i][1]) >= spawnDepth
  <2>1. child[w] \in Node /\ Len(child[w]) > spawnDepth
        /\ stack[w] # <<>> /\ stack[w] \in Seq(Frames)
    BY <1>1, ChildInHand DEF Processing
  <2>2. Len(child[w]) >= spawnDepth
    BY <2>1, NodeTyped, OrderedAssumption
  <2> QED
    BY <1>1, <2>1, <2>2 DEF Base, Framed
<1>3. ASSUME NEW n \in Searched, Goal(n), OnStack(stack[w], n) \/ AtChild(w, n)
      PROVE  Settled(n) \/ OnStack(stack'[w], n)
  <2>0. n \in Node
    BY SearchedTyped
  <2>1. CASE ret[w] = "Continue"
    <3>1. stack'[w] = stack[w] \o Entered(w, child[w])
      BY <1>1, <2>1 DEF Answered
    <3>2. AtChild(w, n) => n \in Below(child[w])
      BY <1>1 DEF AtChild
    <3>3. OnStack(stack'[w], n) \/ Stopped(w)
      BY <1>2, <1>3, <3>1, <3>2, EnterStack
    <3>4. Stopped(w) => Settled(n)
      BY <1>1, <1>3, <2>0, StoppedSolved, SolvedSettles DEF Base
    <3> QED
      BY <3>3, <3>4
  <2>2. CASE ret[w] = "Prune"
    BY <1>1, <1>3, <2>2 DEF Answered, AtChild
  <2>3. CASE ret[w] \in {"Break", "Exit"}
    <3>1. LeaveFrame(w) /\ OnStack(stack[w], n)
      BY <1>1, <1>3, <2>3 DEF Answered, AtChild
    <3>2. stack'[w] = SubSeq(stack[w], 1, Len(stack[w]) - 1)
      BY <1>1, <1>2, <3>1, LeaveStack
    <3> QED
      BY <1>1, <1>2, <1>3, <2>0, <2>3, <3>1, <3>2, FrameSettled, PopKeeps
  <2> QED
    BY <2>1, <2>2, <2>3 DEF Answered
<1>4. \A n : ToCome(TaskOf(n)) => ToCome(TaskOf(n))'
  BY <1>1, ToComeKept
<1> QED
  BY <1>1, <1>3, <1>4, SkeletonAnswer

\* A step of processNode: by the lemmas of ProcessNodeProofs for the node in
\* hand, and because siblings come in the order of their bounds for PruneLevel.
LEMMA ProcessAnswer ==
    ASSUME AnswerInv, NEW w \in Worker, ProcessChild(w)
    PROVE  AnswerInv'
<1>0. /\ Base /\ Base' /\ ProcessInv /\ Process(w) /\ home[w] \in Locality
      /\ ret \in [Worker -> Answers] /\ main # "spawn" /\ main' = main
      /\ UNCHANGED <<child, stack, task, tasks, startedFlag, position>>
      /\ pc[w] \in Acting \cup {"process"} /\ pc'[w] \in Acting \cup {"answered"}
      /\ \A v \in Worker \ {w} : pc'[v] = pc[v] /\ ret'[v] = ret[v]
      /\ UNCHANGED <<Kind, Searched>> /\ tags \in Tags /\ Kind # "Enumeration"
  <2>1. /\ Base /\ Base' /\ main # "spawn" /\ UNCHANGED tags
        /\ UNCHANGED <<child, stack, task, tasks, startedFlag, position>>
        /\ pc[w] \in Acting \cup {"process"} /\ pc'[w] \in Acting \cup {"answered"}
        /\ \A v \in Worker \ {w} : pc'[v] = pc[v] /\ ret'[v] = ret[v]
    BY ProcessBase, Working DEF AnswerInv, Step
  <2>2. tags \in Tags
    BY <2>1 DEF Base, ProcessInv, SharedTyped
  <2> QED
    BY <2>1, <2>2, StateTyped, BoundAssumption, OrderedAssumption
    DEF Base, ProcessChild, Kind, Searched, DepthLimited
<1>1. /\ pc'[w] = "answered" /\ ret'[w] = "Break" =>
            /\ pc[w] = "process" /\ PruneLevel
            /\ Hopeless(child[w], localBound[home[w]])
      /\ pc'[w] = "answered" /\ ret'[w] = "Exit" => Solved'
  BY <1>0, ProcessMoves
<1>2. \A n \in Node : Settled(n) => Settled(n)'
  BY <1>0, SettledKept
<1>3. \A n : Goal(n)' <=> Goal(n)
  BY <1>0 DEF Goal
<1>4. Covered'
  <2> SUFFICES ASSUME NEW n \in Searched, Goal(n) PROVE Settled(n)' \/ Pending(n)'
    BY <1>0, <1>3 DEF Covered
  <2>1. n \in Node /\ (Settled(n) \/ Pending(n))
    BY <1>0, SearchedTyped DEF AnswerInv, Covered
  <2>2. ASSUME ToCome(TaskOf(n)) PROVE Pending(n)'
    <3>1. ToCome(TaskOf(n))'
      BY <1>0, <2>2, OrderedAssumption DEF ToCome, Acting
    <3> QED
      BY <3>1 DEF Pending
  <2>3. ASSUME NEW v \in Worker, OnStack(stack[v], n) PROVE Pending(n)'
    <3>1. OnStack(stack'[v], n)
      BY <1>0, <2>3
    <3> QED
      BY <3>1 DEF Pending
  <2>4. ASSUME NEW v \in Worker, v # w, AtChild(v, n) PROVE Pending(n)'
    BY <1>0, <2>4 DEF AtChild, Pending
  <2>5. CASE AtChild(w, n)
    <3>1. Settled(n)' \/ AtChild(w, n)'
      BY <1>0, <2>1, <2>5, InHandKept
    <3> QED
      BY <3>1 DEF Pending
  <2> QED
    BY <1>2, <2>1, <2>2, <2>3, <2>4, <2>5 DEF Pending
<1>5. BreakSettled'
  <2> SUFFICES ASSUME NEW v \in Worker, pc'[v] = "answered", ret'[v] = "Break",
                      NEW n \in Node, Goal(n), FrameHas(stack[v], Len(stack[v]), n)
               PROVE  Settled(n)
    BY <1>0, <1>2, <1>3 DEF BreakSettled
  <2>1. CASE v # w
    BY <1>0, <2>1 DEF AnswerInv, BreakSettled
  <2>2. CASE v = w
    <3> DEFINE m == Frame(w)[1]
               k == Frame(w)[2]
               i == Frame(w)[2] - 1
    <3>1. /\ m \in Node /\ k \in Nat \ {0} /\ i \in 1..numChildren(m)
          /\ child[w] = Child(m, i) /\ child[w] \in Node
          /\ stack[w][Len(stack[w])] = <<m, k>>
      BY <1>0, ChildInHand DEF Processing
    <3>2. PICK j \in 1..numChildren(m) : j >= k /\ n \in Subtree(Child(m, j))
      <4> HIDE DEF m, k, i
      <4> QED
        BY <2>2, <3>1 DEF FrameHas
    <3>3. Child(m, j) \in Node /\ i < j
      BY <3>1, <3>2, ChildInTree, NumChildrenNat
    <3>4. Bound[Child(m, j)] <= Bound[child[w]] /\ Obj[n] <= Bound[Child(m, j)]
      <4>1. \E t \in Tags : t.pruneLevel
        BY <1>0, <1>1, <2>2 DEF PruneLevel
      <4> HIDE DEF m, k, i
      <4> QED
        BY <3>1, <3>2, <3>3, <4>1, BoundAssumption DEF Subtree
    <3>5. Obj[n] <= Bound[child[w]]
      <4>1. Obj[n] \in Nat /\ Bound[Child(m, j)] \in Nat /\ Bound[child[w]] \in Nat
        BY <3>1, <3>3, BoundAssumption
      <4> QED
        BY <3>4, <4>1
    <3> QED
      BY <1>0, <1>1, <2>2, <3>1, <3>5, HopelessSettles
  <2> QED
    BY <2>1, <2>2
<1>6. ExitSolved'
  BY <1>0, <1>1, IncumbentRises DEF AnswerInv, ExitSolved, Acting
<1> QED
  BY <1>0, <1>4, <1>5, <1>6 DEF AnswerInv

LEMMA StepAnswer ==
    ASSUME AnswerInv, NEW w \in Worker, Step(w)
    PROVE  AnswerInv'
<1>1. CASE CheckRunning(w)
  BY <1>1, IdlesAnswer DEF Idles
<1>2. CASE ~ CheckRunning(w)
  BY <1>2, GetWorkAnswer, CheckTaskAnswer, StartTaskAnswer, NextChildAnswer,
     LeaveAnswer, ProcessAnswer, AnsweredAnswer DEF Step
<1> QED
  BY <1>1, <1>2

\* Every node below spawnDepth is below a task, and every task is to come.
LEMMA SpawnAnswer ==
    ASSUME AnswerInv, SpawnTasks
    PROVE  AnswerInv'
<1>1. /\ Base /\ Base' /\ main = "spawn" /\ position = 1
      /\ \A n \in TaskNodes : ~ startedFlag[n]
      /\ \A v \in Worker : pc[v] = "free"
      /\ tasks' = prioritiseTasks
      /\ UNCHANGED <<tags, pc, child, ret, incumbent, stack, startedFlag, position>>
  <2>1. Base /\ Base'
    BY SpawnBase DEF AnswerInv
  <2> QED
    BY <2>1 DEF SpawnTasks, Base, Phases, process_vars, shared_vars, task_vars
<1>2. Covered'
  <2> SUFFICES ASSUME NEW n \in Searched' PROVE Pending(n)'
    BY DEF Covered
  <2>1. Searched' = Searched
    BY <1>1 DEF Searched, DepthLimited
  <2>2. TaskOf(n) \in TaskNodes
    BY <2>1, SearchedTyped
  <2>3. PICK k \in 1..Len(Level(spawnDepth)) : Level(spawnDepth)[k] = TaskOf(n)
    BY <2>2, LevelExact, OrderedAssumption DEF TaskNodes
  <2>4. k \in position'..Len(tasks') /\ tasks'[k].node = TaskOf(n)
    BY <1>1, <2>3, Prioritised
  <2>5. ~ startedFlag'[TaskOf(n)]
    BY <1>1, <2>2
  <2>6. ToCome(TaskOf(n))'
    BY <2>4, <2>5 DEF ToCome
  <2> QED
    BY <2>6 DEF Pending
<1>3. BreakSettled' /\ ExitSolved'
  BY <1>1 DEF BreakSettled, ExitSolved
<1> QED
  BY <1>1, <1>2, <1>3 DEF AnswerInv

\* Messages and the end of search change nothing the argument rests on but
\* through Base.
LEMMA KeptAnswer ==
    ASSUME AnswerInv, Base', main' # "spawn" => main # "spawn",
           UNCHANGED <<tags, pc, child, ret, incumbent, task, stack, tasks, startedFlag,
                       position>>
    PROVE  AnswerInv'
<1>1. Searched' = Searched /\ \A n : Goal(n)' <=> Goal(n)
  BY DEF Searched, DepthLimited, Goal, Kind
<1>2. Covered'
  <2>1. \A n : Settled(n) \/ Pending(n) => Settled(n)' \/ Pending(n)'
    BY DEF Settled, Pending, ToCome, AtChild
  <2> QED
    BY <1>1, <2>1 DEF AnswerInv, Covered
<1>3. BreakSettled'
  BY <1>1 DEF AnswerInv, BreakSettled, Settled
<1>4. ExitSolved'
  BY DEF AnswerInv, ExitSolved, Solved, Kind
<1> QED
  BY <1>2, <1>3, <1>4 DEF AnswerInv

LEMMA NextAnswer == AnswerInv /\ [Next]_vars => AnswerInv'
<1> SUFFICES ASSUME AnswerInv, [Next]_vars PROVE AnswerInv'
  OBVIOUS
<1>1. CASE \/ \E t \in sent : addWork(t)
           \/ AllSeen \/ Return \/ \E l \in Locality : StopSchedulers(l)
  BY <1>1, CallsBase, KeptAnswer DEF AnswerInv
<1>2. CASE Deliver
  BY <1>2, DeliverBase, KeptAnswer DEF AnswerInv
<1>3. CASE UNCHANGED vars
  <2>1. UNCHANGED <<tags, pc, child, ret, incumbent, task, stack, tasks, startedFlag,
                    position, main, acc, localBound, bounds, stopSearch, stops, queue,
                    sent, running, expansions>>
    BY <1>3 DEF vars, process_vars, shared_vars, search_vars, queue_vars, task_vars
  <2>2. ProcessInv'
    BY <2>1, QuietStep DEF AnswerInv, Base, shared_vars
  <2>3. Base'
    BY <2>1, <2>2 DEF AnswerInv, Base, FlagCounts, Typed, Framed, Processing, AtFrame,
       Frame, Phases, Solved, Kind
  <2> QED
    BY <2>1, <2>3, KeptAnswer
<1> QED
  BY <1>1, <1>2, <1>3, StepAnswer, SpawnAnswer, NextTaskAnswer DEF Next, Search

\* When search returns no thread has anything left, and every task has been
\* passed: the incumbent itself settles every node below the tasks.
LEMMA ReturnedSettled ==
    ASSUME AnswerInv, main = "returned", NEW n \in Searched, Goal(n)
    PROVE  Obj[n] <= Obj[incumbent]
<1>1. /\ \A w \in Worker : pc[w] = "free" /\ stack[w] = <<>>
      /\ position > Len(tasks) \/ Solved
      /\ sequential \in Worker
  BY OrderedAssumption DEF AnswerInv, Base, Phases, Framed
<1>2. n \in Node
  BY SearchedTyped
<1>3. Settled(n)
  <2>1. CASE Solved
    BY <1>2, <2>1, SolvedSettles DEF AnswerInv, Base
  <2>2. CASE position > Len(tasks)
    <3>1. ~ ToCome(TaskOf(n))
      <4>1. position \in Nat /\ Len(tasks) \in Nat
        <5>1. Level(spawnDepth) \in Seq(TaskNodes) /\ Len(tasks) = Len(Level(spawnDepth))
          BY LevelExact, OrderedAssumption DEF AnswerInv, Base, Phases, TaskNodes
        <5> QED
          BY <5>1 DEF AnswerInv, Base, Typed
      <4> QED
        BY <1>1, <2>2, <4>1 DEF ToCome
    <3>2. ASSUME NEW w \in Worker PROVE ~ OnStack(stack[w], n) /\ ~ AtChild(w, n)
      <4>1. Len(stack[w]) = 0
        BY <1>1
      <4> QED
        BY <1>1, <4>1 DEF OnStack, AtChild
    <3> QED
      BY <3>1, <3>2 DEF AnswerInv, Covered, Pending
  <2> QED
    BY <1>1, <2>1, <2>2
<1> QED
  BY <1>1, <1>3 DEF Settled

\* Whichever tasks the queue still holds, and however late its calls and the
\* broadcasts arrive, the answer of search is at least as good as every node
\* below the tasks: the promise does not depend on the schedulers.
THEOREM TasksAnswered == Spec => []BestOfTasks
<1>1. ASSUME AnswerInv PROVE BestOfTasks
  <2> SUFFICES ASSUME main = "returned"
               PROVE  /\ Kind = "Optimisation" => BestOf(Searched)
                      /\ Kind = "Decision"
                            /\ (\E n \in Searched : Obj[n] = expectedObjective) =>
                               Obj[incumbent] = expectedObjective
    BY DEF BestOfTasks
  <2>1. Kind = "Optimisation" => BestOf(Searched)
    BY <1>1, ReturnedSettled DEF BestOf, Goal
  <2>2. ASSUME Kind = "Decision", NEW n \in Searched, Obj[n] = expectedObjective
        PROVE  Obj[incumbent] = expectedObjective
    <3>1. Obj[n] <= Obj[incumbent]
      BY <1>1, <2>2, ReturnedSettled DEF Goal
    <3>2. Obj[incumbent] <= expectedObjective /\ Obj[incumbent] \in Nat
      BY <1>1, <2>2, ObjNat DEF AnswerInv, Base, ProcessInv, StopsSolved, SharedTyped
    <3> QED
      BY <2>2, <3>1, <3>2, BoundAssumption
  <2> QED
    BY <2>1, <2>2
<1> QED
  BY InitAnswer, NextAnswer, <1>1, PTL DEF Spec
=============================================================================

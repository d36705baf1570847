--------------------------- MODULE StackStealing ----------------------------
(***************************************************************************)
(* A search with the StackStealing skeleton: a task walks its subtree with *)
(* an explicit stack of generators and, between two nodes, answers the     *)
(* request of a thief that the SearchManager has sent to it with children  *)
(* of the shallowest frame that has any left.                              *)
(*                                                                         *)
(* spawnInitialWork makes tasks of the first nodes at depthRequired (here  *)
(* two, the least that getRequiredSpawnDepth returns for several threads), *)
(* at most tasksRequired and each for a scheduler of its own, and leaves   *)
(* the main thread's own stack at the last of them.  As written doSearch   *)
(* does not call it: given = 0, and the first scheduler is the only one.   *)
(* The promises are abstracted as in Budget: search goes on when no task   *)
(* is left; so are the steps of the stop, which module Scheduler has.      *)
(***************************************************************************)
EXTENDS SearchManager

CONSTANTS first,     \* the scheduler that doSearch launches
          initial,   \* which of the initial tasks another scheduler starts with
          Given,     \* for each kind of search: how many may be given away
          tasksRequired,  \* one less than the threads of all localities
          StealAll,  \* for each kind of search: the values of params.stealAll
          maxDepth   \* params.maxDepth

others == Cardinality(Worker) - 1

\* The nodes that spawnInitialWork has given to processNode when g tasks are
\* given away: all children of the root if it came to the end of the tree.
PassedBy(g) == CASE g = 0             -> {}
                 [] g > 0 /\ g < tasksRequired -> Children(Root)
                 [] OTHER -> {<<i>> : i \in 1..Level(2)[g][1]}

\* If tasks are given away at the start, the nodes passed on the way to them are
\* hopeful but bring no solution.  The depth of a task's root is never compared
\* with maxDepth (StackStealing.hpp:226), nor is that of its children with a
\* smaller one.
ASSUME StackAssumption ==
    /\ maxDepth \in Nat /\ maxDepth > 1
    /\ \A k \in Kinds : /\ StealAll[k] \subseteq BOOLEAN
                        /\ Given[k] \subseteq {0, others}
                        /\ Given[k] # {0} => maxDepth > 3
    /\ IsFiniteSet(Worker) /\ tasksRequired \in Nat
    /\ first \in Worker /\ others = IF tasksRequired < Len(Level(2))
                                    THEN tasksRequired ELSE Len(Level(2))
    /\ initial \in Bijection(Worker \ {first}, 1..others)
    /\ \A g \in Given["Optimisation"] : \A n \in PassedBy(g) :
          Obj[n] <= initialBound /\ Bound[n] > initialBound
    /\ \A g \in Given["Decision"] : \A n \in PassedBy(g) :
          Obj[n] # expectedObjective /\ Bound[n] >= expectedObjective
    /\ \A l \in Locality : Cardinality({w \in Worker : home[w] = l}) <= threadCount

VARIABLES stealAll,  \* params.stealAll
          given,     \* tasks that other schedulers start with
          stack,     \* generatorStack up to stackDepth: <<node, seen + 1>>
          counted,   \* times the registries have counted each node
          stolen,    \* observer: nodes made a task by a steal or at the start
          main       \* where search is

search_vars == <<stealAll, given, counted, main>>
vars == <<process_vars, manager_vars, stack, stolen, search_vars>>

\* The accumulator of a task that has counted the nodes in S.
NewAcc(S) == [n \in Node |-> IF Kind = "Enumeration" /\ n \in S THEN 1 ELSE 0]

\* The main thread has looked for a task to give away to the end of the tree.
Exhausted == given > 0 /\ given < tasksRequired

\* The stack of the main thread after the last task was spawned, and the nodes
\* it has passed.
FirstStack == IF given = 0 \/ Exhausted THEN <<<<Root, 1>>>>
              ELSE LET n == Level(2)[given]
                   IN  <<<<Root, n[1] + 1>>, <<<<n[1]>>, n[2] + 1>>>>
Passed == PassedBy(given)

\* doSearch: the first scheduler has registered, the others are about to start
\* their subTreeTask.
Init == /\ SharedInit /\ ManagerInit(first, Root)
        /\ stealAll \in StealAll[Kind] /\ given \in Given[Kind]
        /\ pc = [w \in Worker |-> IF w = first THEN IF Exhausted THEN "count" ELSE "loop"
                                 ELSE IF given = 0 THEN "gone" ELSE "register"]
        /\ stack = [w \in Worker |-> CASE w = first -> FirstStack
                                      [] pc[w] = "register" -> <<<<Level(2)[initial[w]], 1>>>>
                                      [] OTHER -> <<>>]
        /\ acc = [w \in Worker |-> CASE w = first -> NewAcc({Root} \cup Passed)
                                    [] pc[w] = "register" -> NewAcc({Level(2)[initial[w]]})
                                    [] OTHER -> Zero]
        /\ counted = Zero
        /\ stolen = {Level(2)[i] : i \in 1..given}
        /\ main = "await"

Frame(w) == stack[w][Len(stack[w])]
Current(w) == Frame(w)[1]

\* The node of the task that w runs: the name of its shared state.
TaskOf(w) == stack[w][1][1]

\* The children a frame has not generated.
Rest(f) == [i \in 1..numChildren(f[1]) - f[2] + 1 |-> Child(f[1], f[2] + i - 1)]

\* A decision search leaves runWithStack at once if the flag is up.
Stopped(w) == Kind = "Decision" /\ stopSearch[home[w]]
-----------------------------------------------------------------------------
\* subTreeTask: a new stack and accumulator.
Run(w, n) ==
    /\ stack' = [stack EXCEPT ![w] = <<<<n, 1>>>>]
    /\ acc' = [acc EXCEPT ![w] = NewAcc({n})]
    /\ Goto(w, "register")

Register(w) ==
    /\ pc[w] = "register"
    /\ registerThread(w, TaskOf(w))
    /\ Goto(w, "loop")
    /\ UNCHANGED <<tags, child, ret, acc, shared_vars, requested, channel,
                   remote_vars, taskBuffer, thief_vars, stack, stolen,
                   search_vars>>

Stop(w) ==
    /\ pc[w] = "loop"
    /\ Stopped(w)
    /\ Goto(w, "count")
    /\ UNCHANGED <<tags, child, ret, acc, shared_vars, manager_vars, stack,
                   stolen, search_vars>>

\* Frames that are not the current one and have children left.
Rich(w) == {i \in 1..Len(stack[w]) - 1 : Rest(stack[w][i]) # <<>>}
Shallowest(w) == CHOOSE i \in Rich(w) : \A j \in Rich(w) : i <= j

\* Mutant: the children given away are not taken off the frame.
ReplyKeeps(w) ==
    /\ pc[w] = "loop"
    /\ ~ Stopped(w)
    /\ TaskOf(w) \in requested
    /\ IF Rich(w) = {} THEN Send(TaskOf(w), <<>>) /\ UNCHANGED stolen
       ELSE LET i == Shallowest(w)
                n == IF stealAll THEN Len(Rest(stack[w][i])) ELSE 1
                handed == SubSeq(Rest(stack[w][i]), 1, n)
            IN  /\ Send(TaskOf(w), handed)
                /\ stolen' = stolen \cup Range(handed)
    /\ Goto(w, "lower")
    /\ UNCHANGED <<tags, child, ret, acc, shared_vars, table_vars, requested,
                   remote_vars, taskBuffer, victim, stack, search_vars>>

\* Answer a request, with the empty response if there is nothing to give.
Reply(w) ==
    /\ pc[w] = "loop"
    /\ ~ Stopped(w)
    /\ TaskOf(w) \in requested
    /\ IF Rich(w) = {} THEN Send(TaskOf(w), <<>>) /\ UNCHANGED <<stack, stolen>>
       ELSE LET i == Shallowest(w)
                n == IF stealAll THEN Len(Rest(stack[w][i])) ELSE 1
                handed == SubSeq(Rest(stack[w][i]), 1, n)
            IN  /\ Send(TaskOf(w), handed)
                /\ stack' = [stack EXCEPT ![w][i][2] = @ + n]
                /\ stolen' = stolen \cup Range(handed)
    /\ Goto(w, "lower")
    /\ UNCHANGED <<tags, child, ret, acc, shared_vars, table_vars, requested,
                   remote_vars, taskBuffer, victim, search_vars>>

\* The flag is stored after the answer, which may already have arrived.
LowerFlag(w) ==
    /\ pc[w] = "lower"
    /\ requested' = requested \ {TaskOf(w)}
    /\ Goto(w, "move")
    /\ UNCHANGED <<tags, child, ret, acc, shared_vars, table_vars, channel,
                   remote_vars, taskBuffer, thief_vars, stack, stolen,
                   search_vars>>

\* No request, or one that has been answered: on with the search.
Moving(w) == \/ pc[w] = "loop" /\ ~ Stopped(w) /\ TaskOf(w) \notin requested
             \/ pc[w] = "move"
-----------------------------------------------------------------------------
NextChild(w) ==
    /\ Moving(w)
    /\ Frame(w)[2] <= numChildren(Current(w))
    /\ child' = [child EXCEPT ![w] = Child(Current(w), Frame(w)[2])]
    /\ stack' = [stack EXCEPT ![w][Len(stack[w])][2] = @ + 1]
    /\ Goto(w, "process")
    /\ UNCHANGED <<tags, ret, acc, shared_vars, manager_vars, stolen,
                   search_vars>>

\* stackDepth is decremented.  The bottom frame stays, as a name for the state.
Pop(w) == IF Len(stack[w]) = 1
          THEN Goto(w, "count") /\ UNCHANGED stack
          ELSE /\ stack' = [stack EXCEPT ![w] = SubSeq(@, 1, Len(@) - 1)]
               /\ Goto(w, "loop")

\* The current frame has no child left.
Backtrack(w) ==
    /\ Moving(w)
    /\ Frame(w)[2] > numChildren(Current(w))
    /\ Pop(w)
    /\ UNCHANGED <<tags, child, ret, acc, shared_vars, manager_vars, stolen,
                   search_vars>>

ProcessChild(w) ==
    Process(w) /\ UNCHANGED <<manager_vars, stack, stolen, search_vars>>

\* Go down to the child, unless it is at the depth limit.
Continue(w) ==
    /\ pc[w] = "answered" /\ ret[w] = "Continue"
    /\ IF DepthLimited /\ Len(child[w]) + 1 = maxDepth THEN UNCHANGED stack
       ELSE stack' = [stack EXCEPT ![w] = Append(@, <<child[w], 1>>)]
    /\ Goto(w, "loop")
    /\ UNCHANGED <<tags, child, ret, acc, shared_vars, manager_vars, stolen,
                   search_vars>>

Prune(w) ==
    /\ pc[w] = "answered" /\ ret[w] = "Prune"
    /\ Goto(w, "loop")
    /\ UNCHANGED <<tags, child, ret, acc, shared_vars, manager_vars, stack,
                   stolen, search_vars>>

\* Mutant: the task ends.
BreakOut(w) ==
    /\ pc[w] = "answered" /\ ret[w] = "Break"
    /\ Goto(w, "count")
    /\ UNCHANGED <<tags, child, ret, acc, shared_vars, manager_vars, stack,
                   stolen, search_vars>>

\* The rest of the level is skipped.
Break(w) ==
    /\ pc[w] = "answered" /\ ret[w] = "Break"
    /\ Pop(w)
    /\ UNCHANGED <<tags, child, ret, acc, shared_vars, manager_vars, stolen,
                   search_vars>>

Exit(w) ==
    /\ pc[w] = "answered" /\ ret[w] = "Exit"
    /\ Goto(w, "count")
    /\ UNCHANGED <<tags, child, ret, acc, shared_vars, manager_vars, stack,
                   stolen, search_vars>>

\* The end of the task: the registry takes over the accumulator ...
UpdateEnumerator(w) ==
    /\ pc[w] = "count"
    /\ counted' = [n \in Node |-> counted[n] + acc[w][n]]
    /\ acc' = [acc EXCEPT ![w] = Zero]
    /\ Goto(w, "unregister")
    /\ UNCHANGED <<tags, child, ret, shared_vars, manager_vars, stack, stolen,
                   stealAll, given, main>>

\* ... and the thread leaves the manager, before its promise may be set.  The
\* locals of its task are gone.
Unregister(w) ==
    /\ pc[w] = "unregister"
    /\ unregisterThread(w)
    /\ Goto(w, "idle")
    /\ stack' = [stack EXCEPT ![w] = <<>>]
    /\ child' = [child EXCEPT ![w] = NoNode]
    /\ ret' = [ret EXCEPT ![w] = "Continue"]
    /\ UNCHANGED <<tags, acc, shared_vars, requested, remote_vars, taskBuffer,
                   victim, stolen, search_vars>>
-----------------------------------------------------------------------------
\* The scheduler loop and getWork.

Loop(w) ==
    /\ pc[w] = "idle"
    /\ Goto(w, IF main = "stop" THEN "gone" ELSE "get")
    /\ UNCHANGED <<tags, child, ret, acc, shared_vars, manager_vars, stack,
                   stolen, search_vars>>

\* The rest of a chunk that was stolen before comes first.
TakeBuffered(w) ==
    /\ pc[w] = "get"
    /\ taskBuffer[home[w]] # <<>>
    /\ Run(w, Head(taskBuffer[home[w]]))
    /\ taskBuffer' = [taskBuffer EXCEPT ![home[w]] = Tail(@)]
    /\ UNCHANGED <<tags, child, ret, shared_vars, table_vars, requested, channel,
                   remote_vars, thief_vars, stolen, search_vars>>

AskLocal(w) ==
    /\ pc[w] = "get"
    /\ taskBuffer[home[w]] = <<>>
    /\ Request(w, home[w])
    /\ UNCHANGED <<tags, child, ret, acc, shared_vars, remote_vars, taskBuffer,
                   stack, stolen, search_vars>>

\* No thread is active here: one scheduler of the locality may ask elsewhere.
AskRemote(w) ==
    /\ pc[w] = "get"
    /\ taskBuffer[home[w]] = <<>> /\ DOMAIN active[home[w]] = {}
    /\ Others(home[w]) # {} /\ ~ isStealingDistributed[home[w]]
    /\ \E l \in IF last_remote[home[w]] = home[w] THEN Others(home[w])
                                                 ELSE {last_remote[home[w]]} :
          victim' = [victim EXCEPT ![w] = [at |-> l, pos |-> 0, state |-> Root]]
    /\ isStealingDistributed' = [isStealingDistributed EXCEPT ![home[w]] = TRUE]
    /\ Goto(w, "ask")
    /\ UNCHANGED <<tags, child, ret, acc, shared_vars, table_vars, requested,
                   channel, last_remote, taskBuffer, answer, stack, stolen,
                   search_vars>>

NoWork(w) ==
    /\ pc[w] = "get"
    /\ taskBuffer[home[w]] = <<>> /\ DOMAIN active[home[w]] = {}
    /\ Others(home[w]) = {} \/ isStealingDistributed[home[w]]
    /\ Goto(w, "idle")
    /\ UNCHANGED <<tags, child, ret, acc, shared_vars, manager_vars, stack,
                   stolen, search_vars>>

\* getDistributedWork at the other manager, up to its await.
ServeRemote(w) ==
    /\ pc[w] = "ask"
    /\ Request(w, victim[w].at)
    /\ UNCHANGED <<tags, child, ret, acc, shared_vars, remote_vars, taskBuffer,
                   stack, stolen, search_vars>>

RefuseRemote(w) ==
    /\ pc[w] = "ask"
    /\ DOMAIN active[victim[w].at] = {}
    /\ answer' = [answer EXCEPT ![w] = <<>>]
    /\ Goto(w, "told")
    /\ UNCHANGED <<tags, child, ret, acc, shared_vars, table_vars, requested,
                   channel, remote_vars, taskBuffer, victim, stack, stolen,
                   search_vars>>

\* The answer of a steal at the other manager goes home.
AnswerRemote(w) ==
    /\ pc[w] = "await" /\ victim[w].at # home[w] /\ answer[w] # None
    /\ Reinsert(w)
    /\ answer' = [answer EXCEPT ![w] = Stolen(w)]
    /\ Goto(w, "told")
    /\ UNCHANGED <<tags, child, ret, acc, shared_vars, activeIds, id, requested,
                   channel, remote_vars, taskBuffer, victim, stack, stolen,
                   search_vars>>

\* The end of getWork with what a steal has brought.
Use(w, chunk) ==
    /\ IF chunk = <<>> THEN Goto(w, "idle") /\ UNCHANGED <<stack, acc, taskBuffer>>
       ELSE Run(w, chunk[1]) /\ Buffer(home[w], chunk)
    /\ answer' = [answer EXCEPT ![w] = None]
    /\ victim' = [victim EXCEPT ![w] = NoVictim(w)]

FinishRemote(w) ==
    /\ pc[w] = "told"
    /\ isStealingDistributed' = [isStealingDistributed EXCEPT ![home[w]] = FALSE]
    /\ last_remote' = [last_remote EXCEPT ![home[w]] =
                          IF answer[w] = <<>> THEN home[w] ELSE victim[w].at]
    /\ Use(w, answer[w])
    /\ UNCHANGED <<tags, child, ret, shared_vars, table_vars, requested, channel,
                   stolen, search_vars>>

FinishLocal(w) ==
    /\ pc[w] = "await" /\ victim[w].at = home[w] /\ answer[w] # None
    /\ Reinsert(w)
    /\ Use(w, Stolen(w))
    /\ UNCHANGED <<tags, child, ret, shared_vars, activeIds, id, requested,
                   channel, remote_vars, stolen, search_vars>>
-----------------------------------------------------------------------------
\* Schedulers that run no task.
Thieving == {"idle", "get", "await", "ask", "told", "gone"}

\* The tasks that no scheduler has started.
InTransit(w) == IF answer[w] \in {None, NoSteal} THEN <<>> ELSE answer[w]
Queued == (UNION {Range(taskBuffer[l]) : l \in Locality})
          \cup (UNION {Range(InTransit(w)) : w \in Worker})

\* Mutant: the root's promise does not wait for chunks that nobody has started.
RootReadyEarly ==
    /\ main = "await"
    /\ \A w \in Worker : pc[w] \in Thieving
    /\ main' = "stop"
    /\ UNCHANGED <<process_vars, manager_vars, stack, stolen, stealAll, given,
                   counted>>

\* The root's promise is set.
RootReady ==
    /\ main = "await"
    /\ Queued = {} /\ \A w \in Worker : pc[w] \in Thieving
    /\ main' = "stop"
    /\ UNCHANGED <<process_vars, manager_vars, stack, stolen, stealAll, given,
                   counted>>

\* stopSchedulers has returned on every locality.
Return ==
    /\ main = "stop"
    /\ \A w \in Worker : pc[w] = "gone"
    /\ main' = "returned"
    /\ UNCHANGED <<process_vars, manager_vars, stack, stolen, stealAll, given,
                   counted>>

Thief(w) == \/ Loop(w) \/ TakeBuffered(w) \/ AskLocal(w) \/ AskRemote(w)
            \/ NoWork(w) \/ ServeRemote(w) \/ RefuseRemote(w)
            \/ AnswerRemote(w) \/ FinishRemote(w) \/ FinishLocal(w)

Walk(w) == \/ Register(w) \/ Stop(w) \/ Reply(w) \/ LowerFlag(w)
           \/ NextChild(w) \/ Backtrack(w) \/ ProcessChild(w)
           \/ Continue(w) \/ Prune(w) \/ Break(w) \/ Exit(w)
           \/ UpdateEnumerator(w) \/ Unregister(w)

Step(w) == Thief(w) \/ Walk(w)

Deliver == Receive /\ UNCHANGED <<manager_vars, stack, stolen, search_vars>>

Next == RootReady \/ Return \/ Deliver \/ \E w \in Worker : Step(w)

\* Every ready hpx thread runs eventually; messages are not assumed to arrive.
Fairness == /\ \A w \in Worker : WF_vars(Step(w))
            /\ WF_vars(RootReady \/ Return)

Spec == Init /\ [][Next]_vars
FairSpec == Spec /\ Fairness
-----------------------------------------------------------------------------
TypeOK ==
    /\ ProcessTypeOK
    /\ pc \in [Worker -> (ProcessPlaces \ {"free"}) \cup Thieving \cup
                         {"register", "loop", "lower", "move", "count",
                          "unregister"}]
    /\ \A l \in Locality :
          /\ activeIds[l] \in Seq(Ids) /\ taskBuffer[l] \in Seq(Node)
          /\ DOMAIN active[l] \cup DOMAIN inactive[l] \subseteq Ids
          /\ Range(active[l]) \cup Range(inactive[l]) \subseteq Node
    /\ requested \subseteq Node
    /\ \A w \in Worker : stack[w] \in Seq(Node \X (Nat \ {0}))
    /\ stealAll \in BOOLEAN /\ given \in Nat
    /\ counted \in [Node -> Nat] /\ stolen \subseteq Node
    /\ main \in {"await", "stop", "returned"}

\* Schedulers that are registered with the manager.
Registered(w) == pc[w] \notin Thieving \cup {"register"}

\* Threads that run at the same time at a locality have different ids, none of
\* them free, and an id is left when a thread asks for one.
IdsDistinct ==
    \A w \in Worker :
        /\ pc[w] = "register" => activeIds[home[w]] # <<>>
        /\ Registered(w) =>
              /\ id[w] \notin Range(activeIds[home[w]])
              /\ \A v \in Worker \ {w} : Registered(v) /\ home[v] = home[w] =>
                                           id[v] # id[w]

\* A thread that ends finds its id in one of the two maps, whatever steals are
\* in progress: the state it cancels a steal with exists.
StateFound ==
    \A w \in Worker : Registered(w) =>
        id[w] \in DOMAIN active[home[w]] \cup DOMAIN inactive[home[w]]

\* The nodes within the depth limit.
Space == {n \in Node : DepthLimited => Len(n) < maxDepth}

\* Schedulers that go on with their stack.
Walking(w) == pc[w] \notin Thieving \cup {"count", "unregister"}

\* The nodes a scheduler has in hand between two steps of its loop.
Hand(w) == CASE pc[w] = "process" -> Subtree(child[w])
             [] pc[w] \in ProcessPlaces \ {"free", "process"} -> Below(child[w])
             [] OTHER -> {}

\* The positions of tasks that n is in, and of frames that have not generated
\* the child that n is at or below.
TasksWith(tasks, n) == {i \in DOMAIN tasks : n \in Subtree(tasks[i])}
FramesWith(frames, n) == {i \in DOMAIN frames :
                             \E c \in Range(Rest(frames[i])) : n \in Subtree(c)}

\* All that stands for node n: what a scheduler is going to count it from or
\* has counted it in, the chunk it has stolen, the buffers of the managers and
\* the registries' counts.
Held(w, n) == {<<"frame", w, i>> :
                 i \in IF Walking(w) THEN FramesWith(stack[w], n) ELSE {}}
              \cup (IF n \in Hand(w) THEN {<<"child", w, 0>>} ELSE {})
              \cup {<<"answer", w, i>> : i \in TasksWith(InTransit(w), n)}
              \cup {<<"acc", w, i>> : i \in 1..acc[w][n]}
Buffered(n) == UNION {{<<"buffer", l, i>> : i \in TasksWith(taskBuffer[l], n)} : l \in Locality}
Shared(n) == Buffered(n) \cup {<<"counted", 0, i>> : i \in 1..counted[n]}
Claims(n) == Shared(n) \cup (UNION {Held(w, n) : w \in Worker})

\* However tasks are stolen, in chunks or one by one, over two managers, each
\* node of an enumeration's space belongs to exactly one task or has been
\* counted once; a node beyond the depth limit is never counted.
WorkConserved ==
    Kind = "Enumeration" =>
        /\ \A n \in Space : Cardinality(Claims(n)) = 1
        /\ \A n \in Node \ Space : /\ counted[n] = 0
                                   /\ \A w \in Worker : acc[w][n] = 0

\* The search implements Enumeration: however often the tasks move, no node of
\* the space is accumulated twice or dropped, and search returns their number.
Counted == {n \in Node : counted[n] > 0}
Returned == main = "returned" /\ Kind = "Enumeration"
Promise == INSTANCE Enumeration WITH
               space <- Space, counted <- Counted,
               total <- combineEnumerators(counted),
               answer <- IF Returned THEN combineEnumerators(counted) ELSE -1
CountsEachNodeOnce == Promise!Spec

\* The last element of generatorStack that the task of w has written to.
Slot(w) == IF pc[w] \in ProcessPlaces \ {"free"} THEN Len(stack[w])
           ELSE Len(stack[w]) - 1

\* generatorStack is indexed one past the current depth without a check.  A
\* task starts at its first element however deep its node is, so none is ever
\* indexed past the depth of the deepest node of the space.
StackFits == \A w \in Worker : stack[w] # <<>> =>
                 \E n \in Space : Slot(w) <= Len(n)

\* An optimisation is at least as good as every node of its space that was not
\* stolen, and a decision search finds a solution among them if there is one.
BestOfProcessed ==
    main = "returned" =>
        /\ Kind = "Optimisation" => BestOf(Space \ stolen)
        /\ Kind = "Decision"
           /\ (\E n \in Space \ stolen : Obj[n] = expectedObjective) =>
                Obj[incumbent] = expectedObjective

\* A thread that finds its flag up is waited for by one thief that it has not
\* answered, although the flag of the last thief may be lowered late; no thread
\* has an answer left in its channel that the next thief would take for its own.
OneThief ==
    /\ \A v, w \in Worker : pc[v] = "await" /\ pc[w] = "await"
                            /\ victim[v].state = victim[w].state => v = w
    /\ \A w \in Worker : Registered(w) =>
          /\ channel[TaskOf(w)] = None
          /\ pc[w] # "lower" /\ TaskOf(w) \in requested =>
                \E v \in Worker : pc[v] = "await" /\ victim[v].state = TaskOf(w)
                                  /\ answer[v] = None

\* No thread keeps a thief waiting, and the search ends.
SearchReturns == <>(main = "returned")

\* "A steal must be in progress on this id so cancel it before finishing"
\* (SearchManager.hpp:286): whoever waits for an answer waits for a thread that
\* is still registered, which answers or cancels the steal.
NotForgotten ==
    \A w \in Worker : pc[w] = "await" /\ answer[w] = None =>
        \E v \in Worker : Registered(v) /\ TaskOf(v) = victim[w].state
=============================================================================

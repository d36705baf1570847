---------------------------- MODULE BudgetProofs ----------------------------
(***************************************************************************)
(* Proofs about Budget for any tree, bounds and tags that satisfy the      *)
(* modules' assumptions, any budget and depth limit, any schedulers and    *)
(* localities, and whether or not the broadcasts arrive.                   *)
(***************************************************************************)
EXTENDS Budget, ProcessNodeProofs

\* A scheduler at work has a frame; it is the last one that it works on.
HasFrame == \A w \in Worker : pc[w] \notin {"free", "done"} => stack[w] # <<>>

\* A scheduler without a task has no stack and nothing accumulated.
FreeEmpty == \A w \in Worker : pc[w] = "free" => stack[w] = <<>> /\ acc[w] = Zero

\* The test for an exhausted budget is an equality: it must not be passed.
Budgeted == backtrackBudget > 0 =>
                \A w \in Worker :
                    /\ backtracks[w] <= backtrackBudget
                    /\ pc[w] \notin {"free", "loop", "done"} => backtracks[w] < backtrackBudget

Shape == TypeOK /\ HasFrame /\ FreeEmpty /\ Budgeted /\ ProcessInv

Places == ProcessPlaces \cup {"loop", "move", "done"}

LEMMA ZeroTyped == Zero \in [Node -> Nat]
BY DEF Zero

LEMMA InitShape == Init => Shape
<1> SUFFICES ASSUME Init PROVE Shape
  OBVIOUS
<1>1. TypeOK
  BY BoundAssumption, BudgetAssumption, TreeAssumption, ZeroTyped
  DEF Init, ProcessInit, SharedInit, TypeOK, ProcessTypeOK, ProcessPlaces, Answers
<1>2. HasFrame /\ FreeEmpty
  BY DEF Init, ProcessInit, HasFrame, FreeEmpty
<1>3. Budgeted
  BY BudgetAssumption DEF Init, ProcessInit, Budgeted
<1>4. ProcessInv
  BY SharedInitInv DEF Init, ProcessInit, Acting
<1> QED
  BY <1>1, <1>2, <1>3, <1>4 DEF Shape

LEMMA FrameTyped ==
    ASSUME Shape, NEW w \in Worker, pc[w] \notin {"free", "done"}
    PROVE  /\ stack[w] \in Seq(Frames) /\ stack[w] # <<>>
           /\ Len(stack[w]) \in Nat \ {0}
           /\ stack[w][Len(stack[w])] = <<Current(w), Frame(w)[2]>>
           /\ Current(w) \in Node /\ Frame(w)[2] \in Nat \ {0}
<1>1. stack[w] \in Seq(Frames) /\ stack[w] # <<>>
  BY DEF Shape, TypeOK, HasFrame, Frames
<1>2. Len(stack[w]) \in Nat \ {0} /\ Frame(w) \in Frames
  BY <1>1, EmptySeq, ElementOfSeq DEF Frame
<1> QED
  BY <1>1, <1>2 DEF Frame, Current, Frames

\* The place a scheduler goes to, and the places of the others.
LEMMA GotoPlace ==
    ASSUME TypeOK, NEW w \in Worker, NEW p \in Places, Goto(w, p)
    PROVE  /\ pc' \in [Worker -> Places] /\ pc'[w] = p
           /\ pc' = [v \in Worker |-> pc'[v]]
           /\ \A v \in Worker \ {w} : pc'[v] = pc[v]
BY DEF TypeOK, Goto, Places

\* Steps of the skeleton itself change nothing of the other schedulers.
LEMMA SkeletonShape ==
    ASSUME Shape, NEW w \in Worker, UNCHANGED <<tags, ret, shared_vars, main>>,
           NEW p \in {"free", "loop", "move", "process", "done"}, Goto(w, p),
           pc[w] \notin Acting,
           child' \in [Worker -> Node \cup {NoNode}],
           acc' \in [Worker -> [Node -> Nat]],
           stack' \in [Worker -> Seq(Frames)],
           backtracks' \in [Worker -> Nat],
           \A v \in Worker \ {w} : /\ child'[v] = child[v] /\ stack'[v] = stack[v]
                                   /\ acc'[v] = acc[v] /\ backtracks'[v] = backtracks[v],
           tasks' \subseteq Node, spawned' \subseteq Node, counted' \in [Node -> Nat],
           p = "process" => child'[w] \in Node,
           p \notin {"free", "done"} => stack'[w] # <<>>,
           p = "free" => stack'[w] = <<>> /\ acc'[w] = Zero,
           backtrackBudget > 0 =>
               /\ backtracks'[w] <= backtrackBudget
               /\ p \in {"move", "process"} => backtracks'[w] < backtrackBudget
    PROVE  Shape'
<1>1. /\ pc' \in [Worker -> Places] /\ pc'[w] = p
      /\ pc' = [v \in Worker |-> pc'[v]]
      /\ \A v \in Worker \ {w} : pc'[v] = pc[v]
  BY GotoPlace DEF Shape, Places, ProcessPlaces
<1>2. TypeOK'
  <2>1. backtrackBudget > 0 => \A v \in Worker : backtracks'[v] <= backtrackBudget
    BY DEF Shape, Budgeted
  <2> QED
    BY <1>1, <2>1 DEF Shape, TypeOK, ProcessTypeOK, shared_vars, Places, Frames
<1>3. HasFrame' /\ FreeEmpty' /\ Budgeted'
  BY <1>1 DEF Shape, HasFrame, FreeEmpty, Budgeted, Zero
<1>4. ProcessInv'
  BY <1>1, SkeletonStep DEF Shape, Acting
<1> QED
  BY <1>2, <1>3, <1>4 DEF Shape

LEMMA ProcessTyped ==
    ASSUME Shape, NEW w \in Worker, ProcessChild(w)
    PROVE  Shape'
<1>0. /\ TypeOK /\ ret \in [Worker -> Answers] /\ acc \in [Worker -> [Node -> Nat]]
      /\ Process(w) /\ ProcessInv
      /\ UNCHANGED <<tasks, stack, backtracks, counted, spawned, main>>
  BY DEF Shape, TypeOK, ProcessTypeOK, ProcessChild, task_vars, search_vars
<1>1. ProcessInv'
  BY <1>0, ProcessStep
<1>2. /\ pc[w] \in Acting \cup {"process"} /\ ret' \in [Worker -> Answers]
      /\ UNCHANGED <<tags, child>>
  BY <1>0, ProcessPlace
<1>3. PICK p \in Acting \cup {"answered"} : Goto(w, p)
  BY <1>0, ProcessPlace
<1>4. /\ pc' \in [Worker -> Places] /\ pc'[w] = p
      /\ \A v \in Worker \ {w} : pc'[v] = pc[v]
  BY <1>0, <1>3, GotoPlace DEF Places, ProcessPlaces, Acting
<1>5. acc' \in [Worker -> [Node -> Nat]] /\ \A v \in Worker \ {w} : acc'[v] = acc[v]
  <2>1. CASE Kind = "Enumeration"
    <3>1. ProcessCounted(w) /\ child[w] \in Node
      BY <1>0, <2>1, CountingStep DEF ProcessInv, InHand, ProcessCounted
    <3>2. acc' = [acc EXCEPT ![w][child[w]] = acc[w][child[w]] + 1]
      BY <3>1 DEF ProcessCounted
    <3> QED
      BY <1>0, <3>1, <3>2
  <2>2. CASE Kind # "Enumeration"
    BY <1>0, <2>2, CountingStep
  <2> QED
    BY <2>1, <2>2
<1>6. TypeOK'
  BY <1>0, <1>1, <1>2, <1>4, <1>5
  DEF ProcessInv, SharedTyped, TypeOK, ProcessTypeOK, Places
<1>7. HasFrame' /\ FreeEmpty' /\ Budgeted'
  BY <1>0, <1>2, <1>4, <1>5 DEF Shape, HasFrame, FreeEmpty, Budgeted, Acting, Zero
<1> QED
  BY <1>1, <1>6, <1>7 DEF Shape
-----------------------------------------------------------------------------
\* What the steps do to the stack of the scheduler that takes them.
LEMMA StateTyped ==
    ASSUME Shape
    PROVE  /\ child \in [Worker -> Node \cup {NoNode}]
           /\ acc \in [Worker -> [Node -> Nat]]
           /\ stack \in [Worker -> Seq(Frames)]
           /\ backtracks \in [Worker -> Nat]
           /\ tasks \subseteq Node /\ spawned \subseteq Node /\ counted \in [Node -> Nat]
           /\ ret \in [Worker -> Answers] /\ tags \in Tags
           /\ pc \in [Worker -> Places]
BY DEF Shape, TypeOK, ProcessTypeOK, Frames, Places

LEMMA PopStack ==
    ASSUME Shape, NEW w \in Worker, pc[w] \in {"move", "answered"}, Pop(w)
    PROVE  /\ stack'[w] = SubSeq(stack[w], 1, Len(stack[w]) - 1)
           /\ stack' \in [Worker -> Seq(Frames)]
           /\ backtracks'[w] = backtracks[w] + 1 /\ backtracks' \in [Worker -> Nat]
           /\ \A v \in Worker \ {w} : stack'[v] = stack[v] /\ backtracks'[v] = backtracks[v]
           /\ \E p \in {"done", "loop"} :
                 Goto(w, p) /\ (p = "done" <=> stack'[w] = <<>>)
<1>1. stack[w] \in Seq(Frames) /\ stack[w] # <<>> /\ Len(stack[w]) \in Nat \ {0}
  BY FrameTyped
<1> DEFINE t == SubSeq(stack[w], 1, Len(stack[w]) - 1)
<1>2. t \in Seq(Frames) /\ Len(t) = Len(stack[w]) - 1 /\ (Len(stack[w]) = 1 => t = <<>>)
  BY <1>1, PopFrame
<1>3. t = <<>> => Len(stack[w]) = 1
  <2> HIDE DEF t
  <2>1. Len(<<>>) = 0
    OBVIOUS
  <2>2. t = <<>> => Len(t) = 0
    BY <2>1
  <2> QED
    BY <1>1, <1>2, <2>2
<1> QED
  BY <1>2, <1>3, StateTyped DEF Pop

LEMMA NextChildStack ==
    ASSUME Shape, NEW w \in Worker, NextChild(w)
    PROVE  /\ stack' \in [Worker -> Seq(Frames)]
           /\ stack'[w] # <<>> /\ Len(stack'[w]) = Len(stack[w])
           /\ stack'[w][Len(stack[w])] = <<Current(w), Frame(w)[2] + 1>>
           /\ \A i \in 1..Len(stack[w]) - 1 : stack'[w][i] = stack[w][i]
           /\ \A v \in Worker \ {w} : stack'[v] = stack[v] /\ child'[v] = child[v]
           /\ Frame(w)[2] \in 1..numChildren(Current(w))
           /\ child'[w] = Child(Current(w), Frame(w)[2]) /\ child'[w] \in Node
           /\ child' \in [Worker -> Node \cup {NoNode}]
<1> DEFINE s == stack[w]
           top == <<Current(w), Frame(w)[2] + 1>>
<1>1. /\ s \in Seq(Frames) /\ Len(s) \in Nat \ {0}
      /\ s[Len(s)] = <<Current(w), Frame(w)[2]>> /\ Frame(w) = s[Len(s)]
      /\ Current(w) \in Node /\ Frame(w)[2] \in Nat \ {0}
  BY FrameTyped DEF NextChild, Frame
<1>2. stack \in [Worker -> Seq(Frames)] /\ child \in [Worker -> Node \cup {NoNode}]
  BY StateTyped
<1>3. stack'[w] = [s EXCEPT ![Len(s)] = top]
  <2>1. stack' = [stack EXCEPT ![w] = [s EXCEPT ![Len(s)] =
                                          [s[Len(s)] EXCEPT ![2] = Frame(w)[2] + 1]]]
    BY <1>1, <1>2 DEF NextChild
  <2>2. [s[Len(s)] EXCEPT ![2] = Frame(w)[2] + 1] = top
    BY <1>1
  <2> QED
    BY <1>2, <2>1, <2>2
<1>4. top \in Frames
  BY <1>1 DEF Frames
<1>5. /\ stack'[w] \in Seq(Frames) /\ Len(stack'[w]) = Len(s) /\ stack'[w][Len(s)] = top
      /\ \A i \in 1..Len(s) - 1 : stack'[w][i] = s[i]
  BY <1>1, <1>3, <1>4, ExceptSeq
<1>6. /\ \A v \in Worker \ {w} : stack'[v] = stack[v]
      /\ stack' \in [Worker -> Seq(Frames)] /\ stack'[w] # <<>>
  <2>1. stack' = [stack EXCEPT ![w] = stack'[w]]
    BY <1>2 DEF NextChild
  <2>2. stack'[w] # <<>>
    BY <1>1, <1>5, EmptySeq
  <2> QED
    BY <1>2, <1>5, <2>1, <2>2
<1>7. Frame(w)[2] \in 1..numChildren(Current(w))
  BY <1>1, NumChildrenNat DEF NextChild
<1>8. Child(Current(w), Frame(w)[2]) \in Node
  BY <1>1, <1>7, ChildInTree
<1>9. /\ child'[w] = Child(Current(w), Frame(w)[2])
      /\ \A v \in Worker \ {w} : child'[v] = child[v]
      /\ child' \in [Worker -> Node \cup {NoNode}]
  BY <1>2, <1>8 DEF NextChild
<1> QED
  BY <1>5, <1>6, <1>7, <1>8, <1>9

\* The children that an exhausted budget takes off the stack of w.
Given(w) == UNION {Rest(stack[w][i]) : i \in 1..Len(stack[w]) - 1}

LEMMA RestInTree == ASSUME NEW f \in Frames PROVE Rest(f) \subseteq Node
<1>1. f[1] \in Node /\ f[2] \in Nat \ {0} /\ numChildren(f[1]) \in Nat
  BY NumChildrenNat DEF Frames
<1> QED
  BY <1>1, ChildInTree DEF Rest

LEMMA SpawnStack ==
    ASSUME Shape, NEW w \in Worker, Spawn(w)
    PROVE  /\ stack' \in [Worker -> Seq(Frames)]
           /\ stack'[w] # <<>> /\ Len(stack'[w]) = Len(stack[w])
           /\ stack'[w][Len(stack[w])] = stack[w][Len(stack[w])]
           /\ \A i \in 1..Len(stack[w]) - 1 : stack'[w][i] = Drained(stack[w][i])
           /\ \A v \in Worker \ {w} : stack'[v] = stack[v]
           /\ tasks' = tasks \cup Given(w) /\ spawned' = spawned \cup Given(w)
           /\ Given(w) \subseteq Node
<1> DEFINE s == stack[w]
           t == [i \in DOMAIN s |-> IF i < Len(s) THEN Drained(s[i]) ELSE s[i]]
<1>1. s \in Seq(Frames) /\ Len(s) \in Nat \ {0} /\ \A i \in 1..Len(s) : s[i] \in Frames
  BY FrameTyped, ElementOfSeq DEF Spawn
<1>2. stack \in [Worker -> Seq(Frames)]
  BY StateTyped
<1>3. stack' = [stack EXCEPT ![w] = t]
  BY <1>2 DEF Spawn
<1>4. \A i \in 1..Len(s) : Drained(s[i]) \in Frames
  <2>1. ASSUME NEW f \in Frames PROVE Drained(f) \in Frames
    <3>1. f[1] \in Node
      BY DEF Frames
    <3>2. numChildren(f[1]) + 1 \in Nat \ {0}
      BY <3>1, NumChildrenNat
    <3> QED
      BY <3>1, <3>2 DEF Drained, Frames
  <2> QED
    BY <1>1, <2>1
<1>5. DOMAIN s = 1..Len(s) /\ t \in [1..Len(s) -> Frames]
  BY <1>1, <1>4
<1>6. t \in Seq(Frames) /\ Len(t) = Len(s) /\ t # <<>>
  BY <1>1, <1>5
<1>7. Given(w) \subseteq Node
  BY <1>1, RestInTree DEF Given
<1> QED
  BY <1>1, <1>2, <1>3, <1>5, <1>6, <1>7 DEF Spawn, Given
-----------------------------------------------------------------------------
LEMMA StepShape ==
    ASSUME Shape, NEW w \in Worker, Step(w)
    PROVE  Shape'
<1>0. /\ child \in [Worker -> Node \cup {NoNode}] /\ acc \in [Worker -> [Node -> Nat]]
      /\ stack \in [Worker -> Seq(Frames)] /\ backtracks \in [Worker -> Nat]
      /\ tasks \subseteq Node /\ spawned \subseteq Node /\ counted \in [Node -> Nat]
  BY StateTyped
<1>b. /\ backtracks[w] \in Nat /\ backtrackBudget \in Nat
      /\ backtrackBudget > 0 =>
            /\ backtracks[w] <= backtrackBudget
            /\ pc[w] \notin {"free", "loop", "done"} => backtracks[w] < backtrackBudget
  BY <1>0, BudgetAssumption DEF Shape, Budgeted
<1>1. ASSUME NEW n \in tasks, Take(w, n) PROVE Shape'
  <2>1. <<<<n, 1>>>> \in Seq(Frames) /\ <<<<n, 1>>>> # <<>>
    BY <1>0, <1>1 DEF Frames
  <2>2. /\ stack' \in [Worker -> Seq(Frames)] /\ stack'[w] # <<>>
        /\ \A v \in Worker \ {w} : stack'[v] = stack[v] /\ backtracks'[v] = backtracks[v]
        /\ backtracks' \in [Worker -> Nat] /\ backtracks'[w] = 0
    BY <1>0, <1>1, <2>1 DEF Take
  <2>3. /\ acc' \in [Worker -> [Node -> Nat]]
        /\ \A v \in Worker \ {w} : acc'[v] = acc[v]
    <3>1. [Zero EXCEPT ![n] = IF Kind = "Enumeration" THEN 1 ELSE 0] \in [Node -> Nat]
      BY <1>0, ZeroTyped
    <3> QED
      BY <1>0, <1>1, <3>1 DEF Take
  <2>4. /\ Goto(w, "loop") /\ pc[w] \notin Acting /\ tasks' \subseteq Node
        /\ UNCHANGED <<tags, child, ret, shared_vars, counted, spawned, main>>
    BY <1>0, <1>1 DEF Take, Acting, search_vars
  <2>5. backtrackBudget > 0 => backtracks'[w] <= backtrackBudget
    BY <1>b, <2>2
  <2> QED
    BY <1>0, <2>2, <2>3, <2>4, <2>5, SkeletonShape
<1>2. CASE Stop(w) \/ KeepWork(w) \/ Prune(w) \/ Exit(w)
  <2>1. /\ UNCHANGED <<tags, child, ret, acc, shared_vars, tasks, stack, backtracks,
                       counted, spawned, main>>
        /\ pc[w] \in {"loop", "answered"}
    BY <1>2 DEF Stop, KeepWork, Prune, Exit, task_vars, search_vars
  <2>2. PICK p \in {"loop", "move", "done"} :
            /\ Goto(w, p)
            /\ p = "move" => pc[w] = "loop" /\ backtracks[w] # backtrackBudget
    BY <1>2 DEF Stop, KeepWork, Prune, Exit
  <2>3. stack[w] # <<>>
    BY <2>1, FrameTyped
  <2>4. backtrackBudget > 0 /\ p = "move" => backtracks[w] < backtrackBudget
    BY <1>b, <2>2
  <2> QED
    BY <1>0, <1>b, <2>1, <2>2, <2>3, <2>4, SkeletonShape DEF Acting
<1>3. CASE Spawn(w)
  <2>1. /\ Goto(w, "move") /\ pc[w] = "loop"
        /\ UNCHANGED <<tags, child, ret, acc, shared_vars, counted, main>>
    BY <1>3 DEF Spawn
  <2>2. /\ backtracks' \in [Worker -> Nat] /\ backtracks'[w] = 0
        /\ \A v \in Worker \ {w} : backtracks'[v] = backtracks[v]
    BY <1>0, <1>3 DEF Spawn
  <2>3. tasks' \subseteq Node /\ spawned' \subseteq Node
    BY <1>0, <1>3, SpawnStack
  <2>4. /\ stack' \in [Worker -> Seq(Frames)] /\ stack'[w] # <<>>
        /\ \A v \in Worker \ {w} : stack'[v] = stack[v]
    BY <1>3, SpawnStack
  <2>5. pc[w] \notin Acting
    BY <2>1 DEF Acting
  <2>6. backtrackBudget > 0 =>
            backtracks'[w] <= backtrackBudget /\ backtracks'[w] < backtrackBudget
    BY <1>b, <2>2
  <2> QED
    BY <1>0, <2>1, <2>2, <2>3, <2>4, <2>5, <2>6, SkeletonShape
<1>4. CASE NextChild(w)
  <2>1. /\ Goto(w, "process") /\ pc[w] = "move"
        /\ UNCHANGED <<tags, ret, acc, shared_vars, tasks, backtracks, counted,
                       spawned, main>>
    BY <1>4 DEF NextChild, search_vars
  <2> QED
    BY <1>0, <1>4, <1>b, <2>1, NextChildStack, SkeletonShape DEF Acting
<1>5. CASE Backtrack(w) \/ Break(w)
  <2>1. /\ pc[w] \in {"move", "answered"} /\ Pop(w)
        /\ UNCHANGED <<tags, child, ret, acc, shared_vars, tasks, counted,
                       spawned, main>>
    BY <1>5 DEF Backtrack, Break, search_vars
  <2>2. PICK p \in {"done", "loop"} : Goto(w, p) /\ (p = "done" <=> stack'[w] = <<>>)
    BY <2>1, PopStack
  <2>3. backtrackBudget > 0 => backtracks[w] + 1 <= backtrackBudget
    BY <1>b, <2>1
  <2> QED
    BY <1>0, <2>1, <2>2, <2>3, PopStack, SkeletonShape DEF Acting
<1>6. CASE ProcessChild(w)
  BY <1>6, ProcessTyped
<1>7. CASE Continue(w)
  <2>1. /\ Goto(w, "loop") /\ pc[w] = "answered" /\ child[w] \in Node
        /\ UNCHANGED <<tags, child, ret, acc, shared_vars, tasks, counted,
                       spawned, main>>
    BY <1>7 DEF Continue, search_vars, Shape, ProcessInv, InHand
  <2> DEFINE t == Append(stack[w], <<child[w], 1>>)
  <2>2. stack[w] \in Seq(Frames) /\ stack[w] # <<>> /\ t \in Seq(Frames) /\ t # <<>>
    <3>1. stack[w] \in Seq(Frames) /\ stack[w] # <<>>
      BY <2>1, FrameTyped
    <3>2. <<child[w], 1>> \in Frames
      BY <2>1 DEF Frames
    <3> QED
      BY <3>1, <3>2, AppendProperties
  <2>a. \/ stack' = stack /\ backtracks' = [backtracks EXCEPT ![w] = backtracks[w] + 1]
        \/ stack' = [stack EXCEPT ![w] = t] /\ backtracks' = backtracks
    BY <1>7 DEF Continue
  <2> HIDE DEF t
  <2>3. /\ stack' \in [Worker -> Seq(Frames)] /\ stack'[w] # <<>>
        /\ \A v \in Worker \ {w} : stack'[v] = stack[v] /\ backtracks'[v] = backtracks[v]
        /\ backtracks' \in [Worker -> Nat]
        /\ backtracks'[w] \in {backtracks[w], backtracks[w] + 1}
    <3>1. backtracks[w] + 1 \in Nat
      BY <1>b
    <3>2. /\ \A v \in Worker \ {w} : stack'[v] = stack[v] /\ backtracks'[v] = backtracks[v]
          /\ backtracks' \in [Worker -> Nat]
          /\ backtracks'[w] \in {backtracks[w], backtracks[w] + 1}
      BY <1>0, <2>a, <3>1
    <3>3. stack' \in [Worker -> Seq(Frames)] /\ stack'[w] # <<>>
      BY <1>0, <2>a, <2>2
    <3> QED
      BY <3>2, <3>3
  <2>4. backtrackBudget > 0 => backtracks'[w] <= backtrackBudget
    BY <1>b, <2>1, <2>3
  <2> QED
    BY <1>0, <2>1, <2>3, <2>4, SkeletonShape DEF Acting
<1>8. CASE FinishTask(w)
  <2>1. /\ stack' \in [Worker -> Seq(Frames)] /\ stack'[w] = <<>>
        /\ \A v \in Worker \ {w} : stack'[v] = stack[v] /\ acc'[v] = acc[v]
        /\ acc' \in [Worker -> [Node -> Nat]] /\ acc'[w] = Zero
        /\ counted' \in [Node -> Nat]
    BY <1>0, <1>8, ZeroTyped DEF FinishTask
  <2> QED
    BY <1>0, <1>8, <1>b, <2>1, SkeletonShape DEF FinishTask, Acting
<1> QED
  BY <1>1, <1>2, <1>3, <1>4, <1>5, <1>6, <1>7, <1>8 DEF Step

LEMMA NextShape == Shape /\ [Next]_vars => Shape'
<1> SUFFICES ASSUME Shape, [Next]_vars PROVE Shape'
  OBVIOUS
<1>1. CASE CreateRoot \/ Return \/ UNCHANGED vars
  <2>1. UNCHANGED <<process_vars, stack, backtracks, counted, spawned>>
    BY <1>1 DEF CreateRoot, Return, vars, task_vars, search_vars
  <2>2. tasks' \subseteq Node /\ main' \in {"create", "await", "returned"}
    BY <1>1, TreeAssumption DEF CreateRoot, Return, vars, search_vars, Shape, TypeOK
  <2>3. ProcessInv'
    BY <2>1, QuietStep DEF Shape, process_vars
  <2> QED
    BY <2>1, <2>2, <2>3 DEF Shape, TypeOK, ProcessTypeOK, HasFrame, FreeEmpty,
       Budgeted, Zero, process_vars, shared_vars
<1>2. CASE Deliver
  <2>1. ProcessInv'
    BY <1>2, ReceiveStep DEF Shape, Deliver
  <2>2. UNCHANGED <<tags, pc, child, ret, acc, tasks, stack, backtracks, counted,
                    spawned, main>>
    BY <1>2 DEF Deliver, Receive, ReceiveBound, ReceiveStop, task_vars, search_vars
  <2> QED
    BY <2>1, <2>2 DEF Shape, TypeOK, ProcessTypeOK, HasFrame, FreeEmpty, Budgeted,
       Zero, ProcessInv, SharedTyped
<1>3. CASE \E w \in Worker : Step(w)
  BY <1>3, StepShape
<1> QED
  BY <1>1, <1>2, <1>3 DEF Next

\* The state of the search is well typed, and the budget never passed.
THEOREM TypeCorrect == Spec => []TypeOK
BY InitShape, NextShape, PTL DEF Spec, Shape

\* The bounds that tasks prune with are backed, whatever the budget splits off.
THEOREM BoundsAreBacked == Spec => []BoundsBacked
<1>1. Shape => BoundsBacked
  BY ProcessInvSafe DEF Shape
<1> QED
  BY InitShape, NextShape, <1>1, PTL DEF Spec

\* No task leaves its loop for a stop flag before the solution is saved.
THEOREM StopsAreBacked == Spec => []StopOnlyIfFound
<1>1. Shape => StopOnlyIfFound
  BY ProcessInvSafe DEF Shape
<1> QED
  BY InitShape, NextShape, <1>1, PTL DEF Spec
-----------------------------------------------------------------------------
\* Nothing is done before the root's task exists or after the search returned.
Quiet == /\ main \in {"create", "returned"} => /\ tasks = {}
                                             /\ \A w \in Worker : pc[w] = "free"
         /\ main = "create" => counted = Zero /\ spawned = {}

Base == Shape /\ Quiet

LEMMA InitBase == Init => Base
BY InitShape DEF Base, Quiet, Init, ProcessInit

LEMMA Working ==
    ASSUME Base, NEW w \in Worker, Step(w)
    PROVE  main = "await" /\ UNCHANGED main
<1>1. UNCHANGED main
  BY DEF Step, Take, Stop, KeepWork, Spawn, NextChild, Backtrack, ProcessChild,
     Continue, Prune, Break, Exit, FinishTask, search_vars
<1>2. tasks # {} \/ pc[w] # "free"
  BY DEF Step, Take, Stop, KeepWork, Spawn, NextChild, Backtrack, ProcessChild,
     Continue, Prune, Break, Exit, FinishTask, Process, ProcessCounted, ProcessFound,
     ProcessHopeless, ProcessAlive, CheckObjective, RaiseBound, SubmitIncumbent,
     StopOthers
<1> QED
  BY <1>1, <1>2 DEF Base, Quiet, Shape, TypeOK

LEMMA NextBase == Base /\ [Next]_vars => Base'
<1> SUFFICES ASSUME Base, [Next]_vars PROVE Base'
  OBVIOUS
<1>1. Shape'
  BY NextShape DEF Base
<1>2. ASSUME NEW w \in Worker, Step(w) PROVE Quiet'
  BY <1>2, Working DEF Quiet
<1>3. CASE CreateRoot
  BY <1>1, <1>3 DEF CreateRoot, Base, Quiet
<1>4. CASE Return
  BY <1>1, <1>4 DEF Return, Base, Quiet, process_vars
<1>5. CASE Deliver \/ UNCHANGED vars
  <2>1. UNCHANGED <<tasks, pc, counted, spawned, main>>
    BY <1>5 DEF Deliver, Receive, ReceiveBound, ReceiveStop, vars, process_vars,
       search_vars
  <2> QED
    BY <1>1, <2>1 DEF Base, Quiet, Zero
<1> QED
  BY <1>1, <1>2, <1>3, <1>4, <1>5 DEF Next, Base
-----------------------------------------------------------------------------
\* The argument for enumerations: every node of the space is claimed once.

\* No task of an enumeration is cut short.
Thorough == \A w \in Worker : /\ ret[w] = "Continue"
                              /\ pc[w] = "done" => stack[w] = <<>>

\* Tasks and frames are for nodes that have children within the depth limit,
\* though Continue alone looks at the limit: a frame is one level below the
\* frame before it, so the children of all frames but the last are, too.
LevelsKept(s) ==
    /\ \A i \in 1..Len(s) : Len(s[i][1]) + 1 < maxDepth
    /\ \A i \in 1..Len(s) - 1 : Len(s[i + 1][1]) = Len(s[i][1]) + 1

DepthAt(w) ==
    /\ LevelsKept(stack[w])
    /\ pc[w] \in WithChild => Len(child[w]) = Len(Current(w)) + 1

DepthKept == DepthLimited => /\ \A t \in tasks : Len(t) + 1 < maxDepth
                             /\ \A w \in Worker : DepthAt(w)

\* Nothing is counted beyond the limit.
SpaceKept == \A n \in Node \ Space : /\ counted[n] = 0
                                     /\ \A w \in Worker : acc[w][n] = 0

OneClaim(n) == \E c \in Claims(n) : Claims(n) = {c}

CountInv == /\ Base
            /\ Kind = "Enumeration" =>
                  /\ Thorough /\ DepthKept /\ SpaceKept
                  /\ main # "create" => \A n \in Space : OneClaim(n)
-----------------------------------------------------------------------------
LEMMA RestHas ==
    ASSUME NEW s \in Seq(Frames), NEW n
    PROVE  {i \in DOMAIN s : \E c \in Rest(s[i]) : n \in Subtree(c)}
               = {i \in 1..Len(s) : FrameHas(s, i, n)}
<1>1. DOMAIN s = 1..Len(s)
  OBVIOUS
<1>2. ASSUME NEW i \in 1..Len(s)
      PROVE  (\E c \in Rest(s[i]) : n \in Subtree(c)) <=> FrameHas(s, i, n)
  <2>1. /\ s[i] \in Frames /\ s[i][1] \in Node
        /\ s[i][2] \in Nat \ {0} /\ numChildren(s[i][1]) \in Nat
    BY ElementOfSeq, NumChildrenNat DEF Frames
  <2> QED
    BY <2>1 DEF Rest, FrameHas
<1> QED
  BY <1>1, <1>2

\* Which frames have node n, before and after a step.
LEMMA FramesWithHas ==
    ASSUME Shape, Shape', NEW w \in Worker, NEW n
    PROVE  /\ FramesWith(w, n) = {i \in 1..Len(stack[w]) : FrameHas(stack[w], i, n)}
           /\ FramesWith(w, n)' = {i \in 1..Len(stack'[w]) : FrameHas(stack'[w], i, n)}
<1>1. stack[w] \in Seq(Frames) /\ stack'[w] \in Seq(Frames)
  BY DEF Shape, TypeOK, Frames
<1>2. /\ FramesWith(w, n) = {i \in DOMAIN stack[w] :
                                 \E c \in Rest(stack[w][i]) : n \in Subtree(c)}
      /\ FramesWith(w, n)' = {i \in DOMAIN stack'[w] :
                                 \E c \in Rest(stack'[w][i]) : n \in Subtree(c)}
  BY DEF FramesWith, Rest
<1> QED
  BY <1>1, <1>2, RestHas

\* The claims of two schedulers, and those of none, have different names.
LEMMA HeldNames ==
    ASSUME NEW w, NEW n, NEW x \in Held(w, n)
    PROVE  x[2] = w /\ x[1] \in {"frame", "child", "acc"}
BY DEF Held

LEMMA SharedNames ==
    ASSUME NEW n, NEW x \in Shared(n)
    PROVE  x[1] \in {"task", "counted"}
BY DEF Shared

LEMMA HeldSame ==
    ASSUME NEW w, NEW n, stack'[w] = stack[w], pc'[w] = pc[w], child'[w] = child[w],
           acc'[w] = acc[w]
    PROVE  Held(w, n)' = Held(w, n)
BY DEF Held, FramesWith, Rest, Entering

\* A step of scheduler w hands the one claim on a node over: if it or no
\* scheduler had the claim, then so it is afterwards.
Mine(w, n) == Shared(n) \cup Held(w, n)

LEMMA Handover ==
    ASSUME NEW w \in Worker, NEW n, OneClaim(n),
           \A v \in Worker \ {w} : Held(v, n)' = Held(v, n),
           Mine(w, n) = {} => Mine(w, n)' = {},
           \A c : Mine(w, n) = {c} => \E d : Mine(w, n)' = {d}
    PROVE  OneClaim(n)'
<1> DEFINE O == UNION {Held(v, n) : v \in Worker \ {w}}
<1>1. PICK c : Claims(n) = {c}
  BY DEF OneClaim
<1>2. Claims(n) = Mine(w, n) \cup O
  BY DEF Claims, Mine
<1>3. Claims(n)' = Mine(w, n)' \cup O
  <2>1. Claims(n)' = Mine(w, n)' \cup UNION {Held(v, n)' : v \in Worker \ {w}}
    BY DEF Claims, Mine
  <2> QED
    BY <2>1
<1>4. CASE Mine(w, n) = {}
  BY <1>1, <1>2, <1>3, <1>4 DEF OneClaim
<1>5. CASE Mine(w, n) # {}
  <2>1. Mine(w, n) = {c}
    BY <1>1, <1>2, <1>5
  <2>2. O = {}
    <3> SUFFICES ASSUME NEW v \in Worker \ {w}, NEW x \in Held(v, n) PROVE FALSE
      OBVIOUS
    <3>1. x \in Mine(w, n)
      BY <1>1, <1>2, <2>1
    <3> QED
      BY <3>1, HeldNames, SharedNames DEF Mine
  <2>3. PICK d : Mine(w, n)' = {d}
    BY <2>1
  <2> QED
    BY <1>3, <2>2, <2>3 DEF OneClaim
<1> QED
  BY <1>4, <1>5

\* The same for a step that touches neither the tasks nor the counts.
LEMMA HandoverOwn ==
    ASSUME NEW w \in Worker, NEW n, OneClaim(n), Shared(n)' = Shared(n),
           \A v \in Worker \ {w} : Held(v, n)' = Held(v, n),
           Held(w, n) = {} => Held(w, n)' = {},
           \A c : Held(w, n) = {c} => \E d : Held(w, n)' = {d}
    PROVE  OneClaim(n)'
<1>1. Mine(w, n)' = Shared(n) \cup Held(w, n)'
  BY DEF Mine
<1>2. Mine(w, n) = {} => Mine(w, n)' = {}
  BY <1>1 DEF Mine
<1>3. ASSUME NEW c, Mine(w, n) = {c} PROVE \E d : Mine(w, n)' = {d}
  <2>1. CASE Held(w, n) = {}
    BY <1>1, <1>3, <2>1 DEF Mine
  <2>2. CASE Held(w, n) # {}
    <3>1. Held(w, n) = {c} /\ Shared(n) = {}
      BY <1>3, <2>2, HeldNames, SharedNames DEF Mine
    <3> QED
      BY <1>1, <3>1
  <2> QED
    BY <2>1, <2>2
<1> QED
  BY <1>2, <1>3, Handover

\* What it means for a scheduler to have one claim on node n only.
LEMMA SoleFrame ==
    ASSUME NEW w, NEW n, NEW c, Held(w, n) = {c}, NEW i \in FramesWith(w, n),
           acc[w][n] \in Nat
    PROVE  FramesWith(w, n) = {i} /\ n \notin Entering(w) /\ acc[w][n] = 0
<1>1. <<"frame", w, i>> = c /\ \A j \in FramesWith(w, n) : <<"frame", w, j>> = c
  BY DEF Held
<1>2. \A j \in FramesWith(w, n) : j = i
  BY <1>1
<1>3. n \notin Entering(w)
  <2>1. n \in Entering(w) => <<"child", w, 0>> = c
    BY DEF Held
  <2> QED
    BY <1>1, <2>1
<1>4. 1 \notin 1..acc[w][n]
  <2>1. 1 \in 1..acc[w][n] => <<"acc", w, 1>> = c
    BY DEF Held
  <2> QED
    BY <1>1, <2>1
<1> QED
  BY <1>2, <1>3, <1>4

LEMMA SoleChild ==
    ASSUME NEW w, NEW n, NEW c, Held(w, n) = {c}, n \in Entering(w), acc[w][n] \in Nat
    PROVE  FramesWith(w, n) = {} /\ acc[w][n] = 0
<1>1. \A j \in FramesWith(w, n) : FALSE
  BY SoleFrame
<1>2. <<"child", w, 0>> = c
  BY DEF Held
<1>3. 1 \notin 1..acc[w][n]
  <2>1. 1 \in 1..acc[w][n] => <<"acc", w, 1>> = c
    BY DEF Held
  <2> QED
    BY <1>2, <2>1
<1> QED
  BY <1>1, <1>3

LEMMA SoleAcc ==
    ASSUME NEW w, NEW n, NEW c, Held(w, n) = {c}, acc[w][n] \in Nat, acc[w][n] # 0
    PROVE  FramesWith(w, n) = {} /\ n \notin Entering(w) /\ acc[w][n] = 1
<1>1. FramesWith(w, n) = {} /\ n \notin Entering(w)
  BY SoleFrame, SoleChild
<1>2. acc[w][n] \in 1..acc[w][n] /\ 1 \in 1..acc[w][n]
  OBVIOUS
<1>3. <<"acc", w, acc[w][n]>> = c /\ <<"acc", w, 1>> = c
  BY <1>2 DEF Held
<1> QED
  BY <1>1, <1>3

LEMMA NoneHeld ==
    ASSUME NEW w, NEW n, acc[w][n] \in Nat
    PROVE  Held(w, n) = {} <=>
               FramesWith(w, n) = {} /\ n \notin Entering(w) /\ acc[w][n] = 0
<1>1. ASSUME Held(w, n) = {}
      PROVE  FramesWith(w, n) = {} /\ n \notin Entering(w) /\ acc[w][n] = 0
  <2>1. \A i \in FramesWith(w, n) : <<"frame", w, i>> \in Held(w, n)
    BY DEF Held
  <2>2. n \in Entering(w) => <<"child", w, 0>> \in Held(w, n)
    BY DEF Held
  <2>3. 1 \in 1..acc[w][n] => <<"acc", w, 1>> \in Held(w, n)
    BY DEF Held
  <2> QED
    BY <1>1, <2>1, <2>2, <2>3
<1>2. ASSUME FramesWith(w, n) = {}, n \notin Entering(w), acc[w][n] = 0
      PROVE  Held(w, n) = {}
  BY <1>2 DEF Held
<1> QED
  BY <1>1, <1>2
-----------------------------------------------------------------------------
\* A step of one scheduler leaves the state of the others alone.
LEMMA OthersSame ==
    ASSUME Shape, NEW w \in Worker, Step(w), NEW v \in Worker \ {w}
    PROVE  /\ pc'[v] = pc[v] /\ child'[v] = child[v] /\ ret'[v] = ret[v]
           /\ acc'[v] = acc[v] /\ stack'[v] = stack[v]
           /\ UNCHANGED tags
           /\ \A n : FramesWith(v, n)' = FramesWith(v, n) /\ Held(v, n)' = Held(v, n)
<1>0. /\ child \in [Worker -> Node \cup {NoNode}] /\ acc \in [Worker -> [Node -> Nat]]
      /\ stack \in [Worker -> Seq(Frames)] /\ ret \in [Worker -> Answers]
      /\ pc \in [Worker -> Places]
  BY StateTyped
<1> DEFINE Same == /\ pc'[v] = pc[v] /\ child'[v] = child[v] /\ ret'[v] = ret[v]
                   /\ acc'[v] = acc[v] /\ stack'[v] = stack[v]
                   /\ UNCHANGED tags
<1> SUFFICES Same
  BY HeldSame DEF FramesWith, Rest
<1>1. CASE \E n \in tasks : Take(w, n)
  BY <1>0, <1>1 DEF Take, Goto
<1>2. CASE Stop(w) \/ KeepWork(w) \/ Prune(w) \/ Exit(w)
  BY <1>0, <1>2 DEF Stop, KeepWork, Prune, Exit, Goto, task_vars
<1>3. CASE Spawn(w)
  <2>1. stack'[v] = stack[v]
    BY <1>3, SpawnStack
  <2> QED
    BY <1>0, <1>3, <2>1 DEF Spawn, Goto
<1>4. CASE NextChild(w)
  <2>1. stack'[v] = stack[v] /\ child'[v] = child[v]
    BY <1>4, NextChildStack
  <2> QED
    BY <1>0, <1>4, <2>1 DEF NextChild, Goto
<1>5. CASE Backtrack(w) \/ Break(w)
  <2>1. pc[w] \in {"move", "answered"} /\ Pop(w) /\ UNCHANGED <<tags, child, ret, acc>>
    BY <1>5 DEF Backtrack, Break
  <2>2. stack'[v] = stack[v] /\ pc'[v] = pc[v]
    BY <1>0, <2>1, PopStack DEF Goto
  <2> QED
    BY <2>1, <2>2
<1>6. CASE ProcessChild(w)
  <2>1. Process(w) /\ ProcessInv /\ UNCHANGED stack
    BY <1>6 DEF ProcessChild, task_vars, Shape
  <2>2. pc'[v] = pc[v] /\ ret'[v] = ret[v] /\ UNCHANGED <<tags, child>>
    BY <1>0, <2>1, ProcessMoves
  <2>3. acc'[v] = acc[v]
    BY <1>0, <2>1, CountingStep DEF ProcessCounted
  <2> QED
    BY <2>1, <2>2, <2>3
<1>7. CASE Continue(w)
  <2>1. stack'[v] = stack[v]
    BY <1>0, <1>7 DEF Continue
  <2> QED
    BY <1>0, <1>7, <2>1 DEF Continue, Goto
<1>8. CASE FinishTask(w)
  BY <1>0, <1>8 DEF FinishTask, Goto
<1> QED
  BY <1>1, <1>2, <1>3, <1>4, <1>5, <1>6, <1>7, <1>8 DEF Step

\* The claims of w on node n are the same if its frames have it as before.
LEMMA HeldAgain ==
    ASSUME NEW w, NEW n, FramesWith(w, n)' = FramesWith(w, n),
           n \in Entering(w)' <=> n \in Entering(w), acc'[w][n] = acc[w][n]
    PROVE  Held(w, n)' = Held(w, n)
BY DEF Held

LEMMA NextChildClaims ==
    ASSUME Shape, NEW w \in Worker, NextChild(w), NEW n \in Node, OneClaim(n)
    PROVE  OneClaim(n)'
<1> DEFINE s == stack[w]
           d == Len(s)
           m == Current(w)
           k == Frame(w)[2]
           t == stack'[w]
           c == Child(m, k)
<1>0. Shape' /\ Frame(w)[2] <= numChildren(Current(w))
  BY StepShape DEF NextChild, Step
<1>1. /\ s \in Seq(Frames) /\ s # <<>> /\ d \in Nat \ {0}
      /\ s[d] = <<Current(w), Frame(w)[2]>> /\ pc[w] = "move"
  BY FrameTyped DEF NextChild
<1>2. /\ stack'[w] \in Seq(Frames) /\ Len(stack'[w]) = d
      /\ stack'[w][d] = <<Current(w), Frame(w)[2] + 1>>
      /\ \A i \in 1..d - 1 : stack'[w][i] = s[i]
      /\ child'[w] = c
  BY NextChildStack
<1>3. pc'[w] = "process" /\ UNCHANGED <<acc, tasks, counted>> /\ acc[w][n] \in Nat
  BY StateTyped DEF NextChild, Goto, search_vars
<1>4. /\ \A i \in 1..Len(s) - 1 : FrameHas(t, i, n) <=> FrameHas(s, i, n)
      /\ (FrameHas(t, Len(s), n) <=> FrameHas(s, Len(s), n) /\ n \notin Subtree(Child(m, k)))
      /\ n \in Subtree(Child(m, k)) => FrameHas(s, Len(s), n)
  <2>1. /\ s \in Seq(Frames) /\ s # <<>> /\ t \in Seq(Frames) /\ Len(t) = Len(s)
        /\ s[Len(s)] = <<m, k>> /\ k <= numChildren(m) /\ t[Len(s)] = <<m, k + 1>>
        /\ \A i \in 1..Len(s) - 1 : t[i] = s[i]
    BY <1>0, <1>1, <1>2
  <2> HIDE DEF m, k, s, t
  <2> QED
    BY <2>1, AdvanceFrame
<1>5. /\ FramesWith(w, n) = {i \in 1..d : FrameHas(s, i, n)}
      /\ FramesWith(w, n)' = {i \in 1..d : FrameHas(t, i, n)}
  BY <1>0, <1>2, FramesWithHas
<1>6. n \notin Entering(w) /\ Entering(w)' = Subtree(c)
  BY <1>1, <1>2, <1>3 DEF Entering
<1>7. CASE n \in Subtree(c)
  <2>1. d \in FramesWith(w, n)
    BY <1>1, <1>4, <1>5, <1>7
  <2>2. Held(w, n) # {}
    BY <1>3, <2>1, NoneHeld
  <2>3. ASSUME NEW x, Held(w, n) = {x} PROVE Held(w, n)' = {<<"child", w, 0>>}
    <3>1. FramesWith(w, n) = {d} /\ acc[w][n] = 0
      BY <1>3, <2>1, <2>3, SoleFrame
    <3>2. FramesWith(w, n)' = {}
      BY <1>1, <1>4, <1>5, <1>7, <3>1
    <3> QED
      BY <1>3, <1>6, <1>7, <3>1, <3>2 DEF Held
  <2> QED
    BY <1>3, <2>2, <2>3, HandoverOwn, OthersSame DEF Shared, Step
<1>8. CASE n \notin Subtree(c)
  <2>1. FramesWith(w, n)' = FramesWith(w, n)
    BY <1>1, <1>4, <1>5, <1>8
  <2>2. Held(w, n)' = Held(w, n)
    BY <1>3, <1>6, <1>8, <2>1, HeldAgain
  <2> QED
    BY <1>3, <2>2, HandoverOwn, OthersSame DEF Shared, Step
<1> QED
  BY <1>7, <1>8
-----------------------------------------------------------------------------
LEMMA SharedSame ==
    ASSUME UNCHANGED <<tasks, counted>>, NEW n
    PROVE  Shared(n)' = Shared(n)
BY DEF Shared

LEMMA FramesSame ==
    ASSUME NEW w, NEW n, stack'[w] = stack[w]
    PROVE  FramesWith(w, n)' = FramesWith(w, n)
BY DEF FramesWith, Rest

\* A single claim is shared, or it is held.
LEMMA MineSplit ==
    ASSUME NEW w, NEW n, NEW c, Mine(w, n) = {c}
    PROVE  \/ Shared(n) = {c} /\ Held(w, n) = {}
           \/ Shared(n) = {} /\ Held(w, n) = {c}
<1>1. c \in Shared(n) => c \notin Held(w, n)
  BY HeldNames, SharedNames
<1> QED
  BY <1>1 DEF Mine

\* The last frame has no child left: its going away loses nothing.
LEMMA BacktrackClaims ==
    ASSUME Shape, NEW w \in Worker, Backtrack(w), NEW n \in Node, OneClaim(n)
    PROVE  OneClaim(n)'
<1> DEFINE s == stack[w]
           t == stack'[w]
           d == Len(s)
<1>0. Shape' /\ pc[w] = "move" /\ Pop(w) /\ UNCHANGED <<acc, tasks, counted>>
  BY StepShape DEF Backtrack, Step, search_vars
<1>1. /\ s \in Seq(Frames) /\ s # <<>> /\ d \in Nat \ {0}
      /\ s[d] = <<Current(w), Frame(w)[2]>> /\ Frame(w)[2] > numChildren(Current(w))
      /\ Current(w) \in Node /\ Frame(w)[2] \in Nat \ {0}
  BY <1>0, FrameTyped DEF Backtrack
<1>2. t = SubSeq(s, 1, d - 1)
  BY <1>0, PopStack
<1>3. /\ Len(t) = d - 1
      /\ \A i \in 1..d - 1 : FrameHas(t, i, n) <=> FrameHas(s, i, n)
  <2> HIDE DEF s
  <2> QED
    BY <1>1, <1>2, PopFrame
<1>4. ~ FrameHas(s, d, n)
  BY <1>1, NumChildrenNat DEF FrameHas
<1>5. FramesWith(w, n)' = FramesWith(w, n)
  <2>1. /\ FramesWith(w, n) = {i \in 1..d : FrameHas(s, i, n)}
        /\ FramesWith(w, n)' = {i \in 1..Len(t) : FrameHas(t, i, n)}
    BY <1>0, FramesWithHas
  <2> QED
    BY <1>1, <1>3, <1>4, <2>1
<1>6. pc'[w] \in {"done", "loop"}
  <2>1. PICK p \in {"done", "loop"} : Goto(w, p)
    BY <1>0, PopStack
  <2> QED
    BY <2>1, StateTyped DEF Goto
<1>7. Held(w, n)' = Held(w, n)
  BY <1>0, <1>5, <1>6, HeldAgain DEF Entering
<1> QED
  BY <1>0, <1>7, SharedSame, HandoverOwn, OthersSame DEF Step

LEMMA KeepWorkClaims ==
    ASSUME Shape, NEW w \in Worker, KeepWork(w), NEW n \in Node, OneClaim(n)
    PROVE  OneClaim(n)'
<1>1. /\ pc[w] = "loop" /\ pc'[w] = "move"
      /\ UNCHANGED <<acc, stack, tasks, counted>>
  BY StateTyped DEF KeepWork, Goto, task_vars, search_vars
<1>2. Held(w, n)' = Held(w, n)
  BY <1>1, FramesSame, HeldAgain DEF Entering
<1> QED
  BY <1>1, <1>2, SharedSame, HandoverOwn, OthersSame DEF Step

\* The child is accumulated; what is below it stays the child's.
LEMMA ProcessClaims ==
    ASSUME Shape, Kind = "Enumeration", NEW w \in Worker, ProcessChild(w),
           NEW n \in Node, OneClaim(n)
    PROVE  OneClaim(n)'
<1> DEFINE c == child[w]
<1>1. ProcessCounted(w) /\ UNCHANGED <<stack, tasks, counted>>
  BY CountingStep DEF ProcessChild, Shape, task_vars, search_vars
<1>2. /\ c \in Node /\ pc[w] = "process" /\ pc'[w] = "answered" /\ UNCHANGED child
      /\ acc' = [acc EXCEPT ![w][c] = acc[w][c] + 1]
      /\ acc \in [Worker -> [Node -> Nat]]
  BY <1>1, StateTyped
  DEF ProcessCounted, Answer, Goto, Shape, ProcessInv, InHand
<1>3. FramesWith(w, n)' = FramesWith(w, n)
  BY <1>1, FramesSame
<1>4. Entering(w) = Subtree(c) /\ Entering(w)' = Below(c)
  BY <1>2 DEF Entering
<1>5. CASE n = c
  <2>1. n \in Entering(w) /\ n \notin Entering(w)' /\ acc'[w][n] = acc[w][n] + 1
    BY <1>2, <1>4, <1>5, NodeTyped DEF Subtree, Below
  <2>2. Held(w, n) # {}
    BY <1>2, <2>1, NoneHeld
  <2>3. ASSUME NEW x, Held(w, n) = {x} PROVE Held(w, n)' = {<<"acc", w, 1>>}
    <3>n. acc[w][n] \in Nat
      BY <1>2
    <3>s. FramesWith(w, n) = {} /\ acc[w][n] = 0
      BY <3>n, <2>1, <2>3, SoleChild
    <3>1. FramesWith(w, n)' = {} /\ acc'[w][n] = 1
      BY <1>3, <2>1, <3>s
    <3>2. 1..1 = {1}
      OBVIOUS
    <3> QED
      BY <2>1, <3>1, <3>2 DEF Held
  <2> QED
    BY <1>1, <2>2, <2>3, SharedSame, HandoverOwn, OthersSame DEF Step
<1>6. CASE n # c
  <2>1. acc'[w][n] = acc[w][n] /\ (n \in Entering(w)' <=> n \in Entering(w))
    BY <1>2, <1>4, <1>6 DEF Subtree
  <2> QED
    BY <1>1, <1>3, <2>1, HeldAgain, SharedSame, HandoverOwn, OthersSame DEF Step
<1> QED
  BY <1>5, <1>6

\* The new frame is for what is below the child; at the limit nothing is.
LEMMA ContinueClaims ==
    ASSUME Shape, NEW w \in Worker, Continue(w), NEW n \in Space, OneClaim(n)
    PROVE  OneClaim(n)'
<1> DEFINE s == stack[w]
           t == stack'[w]
           c == child[w]
           limit == DepthLimited /\ Len(child[w]) + 1 = maxDepth
<1>0. Shape' /\ n \in Node
  BY StepShape DEF Step, Space
<1>1. /\ c \in Node /\ pc[w] = "answered" /\ pc'[w] = "loop"
      /\ UNCHANGED <<child, acc, tasks, counted>>
      /\ acc[w][n] \in Nat /\ s \in Seq(Frames)
  BY <1>0, StateTyped DEF Continue, Goto, Shape, ProcessInv, InHand, search_vars
<1>2. Entering(w) = Below(c) /\ Entering(w)' = {}
  BY <1>1 DEF Entering
<1>3. CASE limit
  <2>1. n \notin Below(c)
    BY <1>1, <1>3, NodeTyped, BudgetAssumption DEF Below, Space
  <2>2. stack'[w] = stack[w]
    BY <1>3 DEF Continue
  <2>3. Held(w, n)' = Held(w, n)
    BY <1>1, <1>2, <2>1, <2>2, FramesSame, HeldAgain
  <2> QED
    BY <1>0, <1>1, <2>3, SharedSame, HandoverOwn, OthersSame DEF Step
<1>4. CASE ~ limit
  <2>1. t = Append(s, <<c, 1>>)
    BY <1>4, StateTyped DEF Continue
  <2>2. /\ Len(t) = Len(s) + 1
        /\ \A i \in 1..Len(s) : FrameHas(t, i, n) <=> FrameHas(s, i, n)
        /\ (FrameHas(t, Len(s) + 1, n) <=> n \in Below(c))
    <3> HIDE DEF s, c
    <3> QED
      BY <1>1, <2>1, PushFrame
  <2>3. /\ FramesWith(w, n) = {i \in 1..Len(s) : FrameHas(s, i, n)}
        /\ FramesWith(w, n)' = {i \in 1..Len(t) : FrameHas(t, i, n)}
    BY <1>0, FramesWithHas
  <2>l. Len(s) \in Nat
    BY <1>1
  <2>4. CASE n \in Below(c)
    <3>1. Held(w, n) # {}
      BY <1>1, <1>2, <2>4, NoneHeld
    <3>2. ASSUME NEW x, Held(w, n) = {x} PROVE Held(w, n)' = {<<"frame", w, Len(s) + 1>>}
      <4>1. FramesWith(w, n) = {} /\ acc[w][n] = 0
        BY <1>1, <1>2, <2>4, <3>2, SoleChild
      <4>2. FramesWith(w, n)' = {Len(s) + 1}
        BY <2>l, <2>2, <2>3, <2>4, <4>1
      <4> QED
        BY <1>1, <1>2, <4>1, <4>2 DEF Held
    <3> QED
      BY <1>0, <1>1, <3>1, <3>2, SharedSame, HandoverOwn, OthersSame DEF Step
  <2>5. CASE n \notin Below(c)
    <3>1. FramesWith(w, n)' = FramesWith(w, n)
      BY <2>l, <2>2, <2>3, <2>5
    <3>2. Held(w, n)' = Held(w, n)
      BY <1>1, <1>2, <2>5, <3>1, HeldAgain
    <3> QED
      BY <1>0, <1>1, <3>2, SharedSame, HandoverOwn, OthersSame DEF Step
  <2> QED
    BY <2>4, <2>5
<1> QED
  BY <1>3, <1>4
\* The task's claim on its subtree becomes that of the first frame; the task's
\* own node is counted at once.
LEMMA TakeClaims ==
    ASSUME Shape, Kind = "Enumeration", NEW w \in Worker, NEW t \in tasks, Take(w, t),
           NEW n \in Node, OneClaim(n)
    PROVE  OneClaim(n)'
<1>0. Shape' /\ t \in Node /\ acc[w] = Zero /\ stack[w] = <<>> /\ pc[w] = "free"
  BY StepShape, StateTyped DEF Take, Step, Shape, FreeEmpty
<1>1. /\ stack'[w] = <<<<t, 1>>>> /\ pc'[w] = "loop" /\ tasks' = tasks \ {t}
      /\ acc'[w] = [Zero EXCEPT ![t] = 1] /\ UNCHANGED counted
  BY <1>0, StateTyped DEF Take, Goto, search_vars
<1>2. /\ acc[w][n] = 0 /\ acc'[w][n] = IF n = t THEN 1 ELSE 0
  BY <1>0, <1>1 DEF Zero
<1>3. FramesWith(w, n) = {} /\ FramesWith(w, n)' = IF n \in Below(t) THEN {1} ELSE {}
  <2>1. /\ stack[w] \in Seq(Frames) /\ Len(stack[w]) = 0
        /\ stack'[w] \in Seq(Frames) /\ Len(stack'[w]) = 1 /\ stack'[w][1] = <<t, 1>>
    BY <1>0, <1>1 DEF Frames
  <2>2. FrameHas(stack'[w], 1, n) <=> n \in Below(t)
    <3> DEFINE u == stack'[w]
    <3>1. u \in Seq(Frames) /\ 1 \in 1..Len(u) /\ u[1] = <<t, 1>>
      BY <2>1
    <3> HIDE DEF u
    <3>2. FrameHas(u, 1, n) <=> n \in Below(t)
      BY <1>0, <3>1, NewFrameHas
    <3> QED
      BY <3>2 DEF u
  <2>3. /\ FramesWith(w, n) = {i \in 1..0 : FrameHas(stack[w], i, n)}
        /\ FramesWith(w, n)' = {i \in 1..1 : FrameHas(stack'[w], i, n)}
    BY <1>0, <2>1, FramesWithHas
  <2> QED
    BY <2>2, <2>3
<1>4. Entering(w) = {} /\ Entering(w)' = {} /\ Held(w, n) = {}
  <2>1. Entering(w) = {} /\ Entering(w)' = {}
    BY <1>0, <1>1 DEF Entering
  <2> QED
    BY <1>2, <1>3, <2>1, NoneHeld
<1>5. CASE n \in Subtree(t)
  <2>1. <<"task", t, 0>> \in Shared(n)
    BY <1>5 DEF Shared
  <2>2. ASSUME NEW x, Mine(w, n) = {x} PROVE \E y : Mine(w, n)' = {y}
    <3>1. Shared(n) = {x}
      BY <1>4, <2>2 DEF Mine
    <3>2. \A u \in tasks : n \in Subtree(u) => u = t
      <4>1. \A u \in tasks : n \in Subtree(u) => <<"task", u, 0>> \in Shared(n)
        BY DEF Shared
      <4> QED
        BY <2>1, <3>1, <4>1
    <3>3. 1..counted[n] = {}
      <4>1. \A i \in 1..counted[n] : <<"counted", 0, i>> \in Shared(n)
        BY DEF Shared
      <4> QED
        BY <2>1, <3>1, <4>1
    <3>4. Shared(n)' = {}
      BY <1>1, <3>2, <3>3 DEF Shared
    <3>5. CASE n = t
      <4>1. n \notin Below(t)
        BY <1>0, <3>5, NodeTyped DEF Below
      <4>2. 1..1 = {1}
        OBVIOUS
      <4>3. Held(w, n)' = {<<"acc", w, 1>>}
        BY <1>2, <1>3, <1>4, <3>5, <4>1, <4>2 DEF Held
      <4> QED
        BY <3>4, <4>3 DEF Mine
    <3>6. CASE n # t
      <4>1. n \in Below(t) /\ 1..0 = {}
        BY <1>5, <3>6 DEF Subtree
      <4>2. Held(w, n)' = {<<"frame", w, 1>>}
        BY <1>2, <1>3, <1>4, <3>6, <4>1 DEF Held
      <4> QED
        BY <3>4, <4>2 DEF Mine
    <3> QED
      BY <3>5, <3>6
  <2>3. Mine(w, n) # {}
    BY <2>1 DEF Mine
  <2> QED
    BY <2>2, <2>3, Handover, OthersSame DEF Step
<1>6. CASE n \notin Subtree(t)
  <2>1. Shared(n)' = Shared(n)
    BY <1>1, <1>6 DEF Shared
  <2>2. acc'[w][n] = acc[w][n] /\ FramesWith(w, n)' = FramesWith(w, n)
    BY <1>2, <1>3, <1>6 DEF Subtree
  <2>3. Held(w, n)' = Held(w, n)
    BY <1>4, <2>2, HeldAgain
  <2> QED
    BY <2>1, <2>3, HandoverOwn, OthersSame DEF Step
<1> QED
  BY <1>5, <1>6

\* The task has nothing left but what it accumulated.
LEMMA FinishClaims ==
    ASSUME Shape, NEW w \in Worker, FinishTask(w), stack[w] = <<>>,
           NEW n \in Node, OneClaim(n)
    PROVE  OneClaim(n)'
<1>1. /\ pc[w] = "done" /\ pc'[w] = "free" /\ stack'[w] = <<>> /\ UNCHANGED tasks
      /\ acc'[w][n] = 0 /\ counted'[n] = counted[n] + acc[w][n]
      /\ acc[w][n] \in Nat /\ counted[n] \in Nat
  BY StateTyped DEF FinishTask, Goto, Zero
<1>2. FramesWith(w, n) = {} /\ FramesWith(w, n)' = {}
  BY <1>1 DEF FramesWith
<1>3. /\ Held(w, n)' = {}
      /\ Held(w, n) = {<<"acc", w, i>> : i \in 1..acc[w][n]}
  BY <1>1, <1>2 DEF Held, Entering
<1>4. CASE acc[w][n] = 0
  <2>1. Shared(n)' = Shared(n) /\ Held(w, n) = {}
    BY <1>1, <1>3, <1>4 DEF Shared
  <2> QED
    BY <1>3, <2>1, HandoverOwn, OthersSame DEF Step
<1>5. CASE acc[w][n] # 0
  <2>1. 1 \in 1..acc[w][n]
    BY <1>1, <1>5
  <2>2. Held(w, n) # {}
    BY <1>3, <2>1
  <2>3. ASSUME NEW x, Mine(w, n) = {x} PROVE Mine(w, n)' = {<<"counted", 0, 1>>}
    <3>1. Shared(n) = {} /\ Held(w, n) = {x}
      BY <2>2, <2>3, MineSplit
    <3>2. acc[w][n] = 1
      BY <1>1, <1>5, <3>1, SoleAcc
    <3>3. \A t \in tasks : n \notin Subtree(t)
      <4>1. \A t \in tasks : n \in Subtree(t) => <<"task", t, 0>> \in Shared(n)
        BY DEF Shared
      <4> QED
        BY <3>1, <4>1
    <3>4. counted[n] = 0
      <4>1. \A i \in 1..counted[n] : <<"counted", 0, i>> \in Shared(n)
        BY DEF Shared
      <4>2. 1 \notin 1..counted[n]
        BY <3>1, <4>1
      <4> QED
        BY <1>1, <4>2
    <3>5. 1..counted'[n] = {1}
      BY <1>1, <3>2, <3>4
    <3> QED
      BY <1>1, <1>3, <3>3, <3>5 DEF Mine, Shared
  <2>4. Mine(w, n) # {}
    BY <2>2 DEF Mine
  <2>5. Step(w)
    BY DEF Step
  <2>6. \A v \in Worker \ {w} : Held(v, n)' = Held(v, n)
    BY <2>5, OthersSame
  <2> QED
    BY <2>3, <2>4, <2>6, Handover
<1> QED
  BY <1>4, <1>5

\* A child that is given away is that of one frame, and it is the only child
\* of the frame that has the node.
LEMMA SpawnClaims ==
    ASSUME Shape, NEW w \in Worker, Spawn(w), NEW n \in Node, OneClaim(n)
    PROVE  OneClaim(n)'
<1> DEFINE s == stack[w]
           t == stack'[w]
           d == Len(s)
<1>0. /\ Shape' /\ pc[w] = "loop" /\ pc'[w] = "move"
      /\ UNCHANGED <<acc, counted>> /\ acc[w][n] \in Nat
  BY StepShape, StateTyped DEF Spawn, Goto, Step
<1>1. /\ d \in Nat \ {0} /\ s \in Seq(Frames)
      /\ \A i \in 1..d : /\ s[i] \in Frames /\ s[i][1] \in Node /\ s[i][2] \in Nat \ {0}
                         /\ numChildren(s[i][1]) \in Nat
  <2>1. d \in Nat \ {0} /\ s \in Seq(Frames)
    BY <1>0, FrameTyped
  <2> QED
    BY <2>1, ElementOfSeq, NumChildrenNat DEF Frames
<1>2. /\ Len(t) = d /\ t[d] = s[d] /\ \A i \in 1..d - 1 : t[i] = Drained(s[i])
      /\ tasks' = tasks \cup Given(w)
  BY SpawnStack
<1>3. /\ FramesWith(w, n) = {i \in 1..d : FrameHas(s, i, n)}
      /\ FramesWith(w, n)' = {i \in 1..d : FrameHas(t, i, n)}
  BY <1>0, <1>2, FramesWithHas
<1>4. /\ \A i \in 1..d - 1 : ~ FrameHas(t, i, n)
      /\ FrameHas(t, d, n) <=> FrameHas(s, d, n)
  BY <1>1, <1>2 DEF FrameHas, Drained
<1>5. Entering(w) = {} /\ Entering(w)' = {}
  BY <1>0 DEF Entering
<1>6. \A c : c \in Given(w) <=>
          \E i \in 1..d - 1 : \E j \in 1..numChildren(s[i][1]) :
              j >= s[i][2] /\ c = Child(s[i][1], j)
  BY <1>1 DEF Given, Rest
<1>7. CASE \E i \in 1..d - 1 : FrameHas(s, i, n)
  <2>1. PICK i \in 1..d - 1 : FrameHas(s, i, n)
    BY <1>7
  <2>2. PICK j \in 1..numChildren(s[i][1]) :
            j >= s[i][2] /\ n \in Subtree(Child(s[i][1], j))
    BY <2>1 DEF FrameHas
  <2> DEFINE c == Child(s[i][1], j)
  <2>3. i \in FramesWith(w, n)
    BY <1>1, <1>3, <2>1
  <2>4. Held(w, n) # {}
    BY <1>0, <2>3, NoneHeld
  <2>5. ASSUME NEW x, Mine(w, n) = {x} PROVE Mine(w, n)' = {<<"task", c, 0>>}
    <3>1. Shared(n) = {} /\ Held(w, n) = {x}
      BY <2>4, <2>5, MineSplit
    <3>2. FramesWith(w, n) = {i} /\ acc[w][n] = 0
      BY <1>0, <2>3, <3>1, SoleFrame
    <3>3. FramesWith(w, n)' = {}
      BY <1>1, <1>3, <1>4, <2>1, <3>2
    <3>4. Held(w, n)' = {}
      BY <1>0, <1>5, <3>2, <3>3 DEF Held
    <3>5. \A u \in tasks : n \notin Subtree(u)
      <4>1. \A u \in tasks : n \in Subtree(u) => <<"task", u, 0>> \in Shared(n)
        BY DEF Shared
      <4> QED
        BY <3>1, <4>1
    <3>6. \A u \in Given(w) : n \in Subtree(u) => u = c
      <4> SUFFICES ASSUME NEW u \in Given(w), n \in Subtree(u) PROVE u = c
        OBVIOUS
      <4>1. PICK h \in 1..d - 1 : \E k \in 1..numChildren(s[h][1]) :
                k >= s[h][2] /\ u = Child(s[h][1], k)
        BY <1>6
      <4>2. PICK k \in 1..numChildren(s[h][1]) : k >= s[h][2] /\ u = Child(s[h][1], k)
        BY <4>1
      <4>3. h \in FramesWith(w, n)
        BY <1>1, <1>3, <4>2 DEF FrameHas
      <4>4. h = i
        BY <3>2, <4>3
      <4> QED
        BY <1>1, <2>2, <4>2, <4>4, SiblingsDisjoint
    <3>7. c \in Given(w) /\ n \in Subtree(c)
      BY <1>6, <2>2
    <3>8. {u \in tasks' : n \in Subtree(u)} = {c}
      BY <1>2, <3>5, <3>6, <3>7
    <3>9. 1..counted[n] = {}
      BY <3>1 DEF Shared
    <3>10. Shared(n)' = {<<"task", c, 0>>}
      <4> HIDE DEF c
      <4> QED
        BY <1>0, <3>8, <3>9 DEF Shared
    <3> QED
      BY <3>4, <3>10 DEF Mine
  <2>6. Mine(w, n) # {}
    BY <2>4 DEF Mine
  <2> QED
    BY <2>5, <2>6, Handover, OthersSame DEF Step
<1>8. CASE ~ \E i \in 1..d - 1 : FrameHas(s, i, n)
  <2>1. FramesWith(w, n)' = FramesWith(w, n)
    BY <1>1, <1>3, <1>4, <1>8
  <2>2. Held(w, n)' = Held(w, n)
    BY <1>0, <1>5, <2>1, HeldAgain
  <2>3. \A u \in Given(w) : n \notin Subtree(u)
    <3> SUFFICES ASSUME NEW u \in Given(w), n \in Subtree(u) PROVE FALSE
      OBVIOUS
    <3> QED
      BY <1>6, <1>8 DEF FrameHas
  <2>4. Shared(n)' = Shared(n)
    BY <1>0, <1>2, <2>3 DEF Shared
  <2> QED
    BY <2>2, <2>4, HandoverOwn, OthersSame DEF Step
<1> QED
  BY <1>7, <1>8
-----------------------------------------------------------------------------
LEMMA TagsSame ==
    ASSUME UNCHANGED tags
    PROVE  UNCHANGED <<Kind, DepthLimited, Space>>
BY DEF Kind, DepthLimited, Space

LEMMA StepTags ==
    ASSUME Shape, NEW w \in Worker, Step(w)
    PROVE  UNCHANGED <<tags, Kind, DepthLimited, Space>>
<1>1. ASSUME ProcessChild(w) PROVE UNCHANGED tags
  BY <1>1, ProcessPlace, StateTyped DEF ProcessChild
<1>2. UNCHANGED tags
  BY <1>1 DEF Step, Take, Stop, KeepWork, Spawn, NextChild, Backtrack, Continue,
     Prune, Break, Exit, FinishTask
<1> QED
  BY <1>2, TagsSame

\* The other parts of the invariant.
LEMMA StepThorough ==
    ASSUME Shape, Kind = "Enumeration", Thorough, NEW w \in Worker, Step(w)
    PROVE  Thorough'
<1> SUFFICES ret'[w] = "Continue" /\ (pc'[w] = "done" => stack'[w] = <<>>)
  <2>1. \A v \in Worker \ {w} : /\ ret'[v] = "Continue"
                                /\ pc'[v] = "done" => stack'[v] = <<>>
    BY OthersSame DEF Thorough
  <2> QED
    BY <2>1 DEF Thorough
<1>0. ret[w] = "Continue" /\ pc \in [Worker -> Places] /\ ret \in [Worker -> Answers]
  BY StateTyped DEF Thorough
<1>1. CASE \E n \in tasks : Take(w, n)
  BY <1>0, <1>1 DEF Take, Goto
<1>2. CASE KeepWork(w) \/ Spawn(w) \/ NextChild(w) \/ Continue(w) \/ FinishTask(w)
  BY <1>0, <1>2 DEF KeepWork, Spawn, NextChild, Continue, FinishTask, Goto
<1>3. CASE Stop(w) \/ Prune(w) \/ Break(w) \/ Exit(w)
  BY <1>0, <1>3 DEF Stop, Stopped, Prune, Break, Exit
<1>4. CASE Backtrack(w)
  <2>1. pc[w] = "move" /\ Pop(w) /\ UNCHANGED ret
    BY <1>4 DEF Backtrack
  <2>2. PICK p \in {"done", "loop"} : Goto(w, p) /\ (p = "done" <=> stack'[w] = <<>>)
    BY <2>1, PopStack
  <2> QED
    BY <1>0, <2>1, <2>2 DEF Goto
<1>5. CASE ProcessChild(w)
  <2>1. ProcessCounted(w)
    BY <1>5, CountingStep DEF ProcessChild, Shape
  <2> QED
    BY <1>0, <2>1 DEF ProcessCounted, Answer, Goto
<1> QED
  BY <1>1, <1>2, <1>3, <1>4, <1>5 DEF Step

LEMMA LevelsSame ==
    ASSUME NEW s, NEW t, LevelsKept(s), Len(s) \in Nat, Len(t) \in Nat,
           Len(t) <= Len(s), \A i \in 1..Len(t) : t[i][1] = s[i][1]
    PROVE  LevelsKept(t)
<1>1. ASSUME NEW i \in 1..Len(t) PROVE i \in 1..Len(s) /\ t[i][1] = s[i][1]
  OBVIOUS
<1>2. ASSUME NEW i \in 1..Len(t) - 1
      PROVE  i \in 1..Len(s) - 1 /\ i \in 1..Len(t) /\ i + 1 \in 1..Len(t)
  OBVIOUS
<1> QED
  BY <1>1, <1>2, Zenon DEF LevelsKept

LEMMA LevelsPushed ==
    ASSUME NEW s, NEW t, LevelsKept(s), Len(s) \in Nat \ {0}, Len(t) = Len(s) + 1,
           \A i \in 1..Len(s) : t[i][1] = s[i][1],
           Len(t[Len(s) + 1][1]) = Len(s[Len(s)][1]) + 1,
           Len(t[Len(s) + 1][1]) + 1 < maxDepth
    PROVE  LevelsKept(t)
<1>1. ASSUME NEW i \in 1..Len(t) PROVE Len(t[i][1]) + 1 < maxDepth
  <2>1. CASE i = Len(s) + 1
    BY <2>1
  <2>2. CASE i # Len(s) + 1
    <3>1. i \in 1..Len(s)
      BY <2>2
    <3> QED
      BY <3>1, Zenon DEF LevelsKept
  <2> QED
    BY <2>1, <2>2
<1>2. ASSUME NEW i \in 1..Len(t) - 1 PROVE Len(t[i + 1][1]) = Len(t[i][1]) + 1
  <2>1. CASE i = Len(s)
    BY <2>1
  <2>2. CASE i # Len(s)
    <3>1. i \in 1..Len(s) - 1 /\ i \in 1..Len(s) /\ i + 1 \in 1..Len(s)
      BY <2>2
    <3>2. Len(s[i + 1][1]) = Len(s[i][1]) + 1
      BY <3>1, Zenon DEF LevelsKept
    <3>3. t[i][1] = s[i][1] /\ t[i + 1][1] = s[i + 1][1]
      BY <3>1, Zenon
    <3> QED
      BY <3>2, <3>3, Zenon
  <2> QED
    BY <2>1, <2>2
<1> QED
  BY <1>1, <1>2 DEF LevelsKept

LEMMA StepDepth ==
    ASSUME Shape, DepthKept, NEW w \in Worker, Step(w)
    PROVE  DepthKept'
<1> SUFFICES ASSUME DepthLimited
             PROVE  (\A t \in tasks' : Len(t) + 1 < maxDepth) /\ DepthAt(w)'
  <2>1. DepthLimited' = DepthLimited
    BY StepTags
  <2>2. ASSUME DepthLimited, NEW v \in Worker \ {w} PROVE DepthAt(v)'
    <3>1. DepthAt(v)
      BY <2>2 DEF DepthKept
    <3>2. /\ stack'[v] = stack[v] /\ pc'[v] = pc[v] /\ child'[v] = child[v]
          /\ Current(v)' = Current(v)
      BY OthersSame DEF Current, Frame
    <3> QED
      BY <3>1, <3>2 DEF DepthAt
  <2> QED
    BY <2>1, <2>2 DEF DepthKept
<1> DEFINE s == stack[w]
           d == Len(s)
           t == stack'[w]
<1>0. /\ DepthAt(w) /\ LevelsKept(stack[w]) /\ \A n \in tasks : Len(n) + 1 < maxDepth
      /\ pc \in [Worker -> Places] /\ child \in [Worker -> Node \cup {NoNode}]
      /\ s \in Seq(Frames) /\ stack \in [Worker -> Seq(Frames)]
      /\ tasks \subseteq Node /\ maxDepth \in Nat
  BY StateTyped, BudgetAssumption DEF DepthKept, DepthAt
<1>1. ASSUME NEW n \in tasks, Take(w, n) PROVE DepthAt(w)' /\ tasks' \subseteq tasks
  <2>1. t = <<<<n, 1>>>> /\ pc'[w] = "loop" /\ tasks' \subseteq tasks
    BY <1>0, <1>1 DEF Take, Goto
  <2>2. Len(t) = 1 /\ t[1][1] = n
    BY <2>1
  <2>3. LevelsKept(t)
    BY <1>0, <2>2 DEF LevelsKept
  <2> QED
    BY <2>1, <2>3 DEF DepthAt, WithChild, Acting
<1>2. CASE KeepWork(w) \/ Stop(w) \/ Prune(w) \/ Exit(w)
  <2>1. t = s /\ UNCHANGED tasks /\ pc'[w] \notin WithChild
    BY <1>0, <1>2 DEF KeepWork, Stop, Prune, Exit, Goto, task_vars, WithChild, Acting
  <2> QED
    BY <1>0, <2>1 DEF DepthAt
<1>3. CASE Spawn(w)
  <2>1. /\ d \in Nat \ {0} /\ pc'[w] = "move" /\ Len(t) = d /\ t[d] = s[d]
        /\ \A i \in 1..d - 1 : t[i] = Drained(s[i])
        /\ tasks' = tasks \cup Given(w)
    BY <1>0, <1>3, SpawnStack, FrameTyped DEF Spawn, Goto
  <2>2. \A i \in 1..d : t[i][1] = s[i][1]
    BY <2>1 DEF Drained
  <2>3. DepthAt(w)'
    <3>1. LevelsKept(t)
      <4>1. /\ LevelsKept(s) /\ Len(s) \in Nat /\ Len(t) \in Nat /\ Len(t) <= Len(s)
            /\ \A i \in 1..Len(t) : t[i][1] = s[i][1]
        BY <1>0, <2>1, <2>2
      <4> HIDE DEF s, t
      <4> QED
        BY <4>1, LevelsSame
    <3> QED
      BY <2>1, <3>1 DEF DepthAt, WithChild, Acting
  <2>4. ASSUME NEW c \in Given(w) PROVE Len(c) + 1 < maxDepth
    <3>1. PICK i \in 1..d - 1 : \E j \in s[i][2]..numChildren(s[i][1]) : c = Child(s[i][1], j)
      BY DEF Given, Rest
    <3>2. /\ s[i] \in Frames /\ s[i][1] \in Node /\ s[i][2] \in Nat
          /\ i \in 1..d /\ i + 1 \in 1..d
      BY <1>0, <2>1, ElementOfSeq DEF Frames
    <3>3. PICK j \in s[i][2]..numChildren(s[i][1]) : c = Child(s[i][1], j)
      BY <3>1
    <3>4. Len(c) = Len(s[i][1]) + 1
      <4>1. j \in Nat
        BY <3>2, <3>3, NumChildrenNat
      <4> QED
        BY <3>2, <3>3, <4>1, ChildTyped
    <3> QED
      BY <1>0, <2>1, <3>2, <3>4 DEF LevelsKept
  <2> QED
    BY <1>0, <2>1, <2>3, <2>4
<1>4. CASE NextChild(w)
  <2>1. /\ Len(t) = d /\ d \in Nat \ {0} /\ t[d] = <<Current(w), Frame(w)[2] + 1>>
        /\ \A i \in 1..d - 1 : t[i] = s[i]
        /\ s[d] = <<Current(w), Frame(w)[2]>> /\ UNCHANGED tasks
        /\ child'[w] = Child(Current(w), Frame(w)[2])
        /\ Current(w) \in Node /\ Frame(w)[2] \in Nat
    BY <1>4, NextChildStack, FrameTyped DEF NextChild
  <2>2. ASSUME NEW i \in 1..d PROVE t[i][1] = s[i][1]
    <3>1. CASE i = d
      <4>1. t[d] = <<Current(w), Frame(w)[2] + 1>> /\ s[d] = <<Current(w), Frame(w)[2]>>
        BY <2>1
      <4>2. t[d][1] = Current(w) /\ s[d][1] = Current(w)
        BY <4>1
      <4> QED
        BY <3>1, <4>2, Zenon
    <3>2. CASE i # d
      <4>1. i \in 1..d - 1
        BY <2>1, <3>2
      <4> QED
        BY <2>1, <4>1, Zenon
    <3> QED
      BY <3>1, <3>2
  <2>3. Current(w)' = Current(w) /\ Len(child'[w]) = Len(Current(w)) + 1
    BY <2>1, ChildTyped DEF Current, Frame
  <2>4. LevelsKept(t)
    <3>1. /\ LevelsKept(s) /\ Len(s) \in Nat /\ Len(t) \in Nat /\ Len(t) <= Len(s)
          /\ \A i \in 1..Len(t) : t[i][1] = s[i][1]
      BY <1>0, <2>1, <2>2
    <3> HIDE DEF s, t
    <3> QED
      BY <3>1, LevelsSame
  <2> QED
    BY <1>0, <2>1, <2>3, <2>4 DEF DepthAt
<1>5. CASE Backtrack(w) \/ Break(w)
  <2>1. pc[w] \in {"move", "answered"} /\ Pop(w) /\ UNCHANGED tasks
    BY <1>5 DEF Backtrack, Break
  <2>2. /\ t = SubSeq(s, 1, d - 1)
        /\ \E p \in {"done", "loop"} : Goto(w, p)
    BY <2>1, PopStack
  <2>3. s # <<>>
    BY <2>1, FrameTyped
  <2>4. Len(t) = d - 1 /\ d \in Nat \ {0} /\ \A i \in 1..Len(t) : t[i] = s[i]
    <3> HIDE DEF s
    <3> QED
      BY <1>0, <2>2, <2>3, PopFrame
  <2>5. pc'[w] \notin WithChild
    BY <1>0, <2>2 DEF Goto, WithChild, Acting
  <2>6. LevelsKept(t)
    <3>1. LevelsKept(s) /\ Len(s) \in Nat /\ Len(t) \in Nat /\ Len(t) <= Len(s)
      BY <1>0, <2>4
    <3>2. \A i \in 1..Len(t) : t[i][1] = s[i][1]
      BY <2>4, Zenon
    <3> HIDE DEF s, t
    <3> QED
      BY <3>1, <3>2, LevelsSame
  <2> QED
    BY <1>0, <2>1, <2>5, <2>6 DEF DepthAt
<1>6. CASE ProcessChild(w)
  <2>1. Process(w) /\ UNCHANGED <<tasks, stack>> /\ ret \in [Worker -> Answers]
    BY <1>6, StateTyped DEF ProcessChild, task_vars
  <2>2. pc[w] \in WithChild /\ UNCHANGED child
    BY <2>1, ProcessPlace DEF WithChild
  <2> QED
    BY <1>0, <2>1, <2>2 DEF DepthAt, Current, Frame
<1>7. CASE Continue(w)
  <2>1. /\ pc[w] = "answered" /\ pc'[w] = "loop" /\ UNCHANGED tasks /\ child[w] \in Node
    BY <1>0, <1>7 DEF Continue, Goto, Shape, ProcessInv, InHand
  <2>2. CASE Len(child[w]) + 1 = maxDepth
    BY <1>0, <1>7, <2>1, <2>2 DEF Continue, DepthAt, WithChild, Acting
  <2>3. CASE Len(child[w]) + 1 # maxDepth
    <3>1. t = Append(s, <<child[w], 1>>)
      BY <1>0, <1>7, <2>3 DEF Continue
    <3>2. /\ Len(t) = d + 1 /\ t[d + 1][1] = child[w] /\ \A i \in 1..d : t[i] = s[i]
          /\ d \in Nat
      <4>1. /\ Len(t) = d + 1 /\ t[d + 1] = <<child[w], 1>>
            /\ \A i \in 1..d : t[i] = s[i]
        BY <1>0, <2>1, <3>1, PushFrame
      <4> QED
        BY <1>0, <4>1
    <3>3. /\ d \in Nat \ {0} /\ Len(child[w]) = Len(s[d][1]) + 1
          /\ Len(s[d][1]) + 1 < maxDepth /\ Len(s[d][1]) \in Nat
      <4>1. d \in Nat \ {0} /\ s[d][1] = Current(w) /\ Current(w) \in Node
        BY <2>1, FrameTyped
      <4>2. d \in 1..Len(s)
        BY <4>1
      <4>3. Len(s[d][1]) + 1 < maxDepth
        BY <1>0, <4>2 DEF LevelsKept
      <4>4. Len(child[w]) = Len(Current(w)) + 1
        BY <1>0, <2>1 DEF DepthAt, WithChild
      <4> QED
        BY <4>1, <4>3, <4>4, NodeTyped
    <3>4. Len(child[w]) + 1 < maxDepth
      BY <1>0, <2>3, <3>3
    <3>5. LevelsKept(t)
      <4>1. /\ LevelsKept(s) /\ Len(s) \in Nat \ {0} /\ Len(t) = Len(s) + 1
            /\ \A i \in 1..Len(s) : t[i][1] = s[i][1]
            /\ Len(t[Len(s) + 1][1]) = Len(s[Len(s)][1]) + 1
            /\ Len(t[Len(s) + 1][1]) + 1 < maxDepth
        BY <1>0, <3>2, <3>3, <3>4
      <4> HIDE DEF s, t
      <4> QED
        BY <4>1, LevelsPushed
    <3> QED
      BY <1>0, <2>1, <3>5 DEF DepthAt, WithChild, Acting
  <2> QED
    BY <2>2, <2>3
<1>8. CASE FinishTask(w)
  <2>1. Len(t) = 0 /\ UNCHANGED tasks /\ pc'[w] = "free"
    BY <1>0, <1>8 DEF FinishTask, Goto
  <2> QED
    BY <1>0, <2>1 DEF DepthAt, LevelsKept, WithChild, Acting
<1> QED
  BY <1>0, <1>1, <1>2, <1>3, <1>4, <1>5, <1>6, <1>7, <1>8 DEF Step

LEMMA StepSpace ==
    ASSUME Shape, Kind = "Enumeration", DepthKept, SpaceKept, NEW w \in Worker, Step(w)
    PROVE  SpaceKept'
<1>0. /\ acc \in [Worker -> [Node -> Nat]] /\ counted \in [Node -> Nat]
      /\ pc \in [Worker -> Places] /\ tasks \subseteq Node /\ maxDepth \in Nat
      /\ Space \subseteq Node
  BY StateTyped, BudgetAssumption DEF Space
<1>2. Space' = Space
  BY StepTags
<1> SUFFICES ASSUME NEW n \in Node \ Space
             PROVE  counted'[n] = 0 /\ acc'[w][n] = 0
  <2>1. \A v \in Worker \ {w} : acc'[v] = acc[v]
    BY OthersSame
  <2> QED
    BY <1>2, <2>1 DEF SpaceKept
<1>3. counted[n] = 0 /\ acc[w][n] = 0
  BY DEF SpaceKept
<1>4. ASSUME NEW t \in tasks, Take(w, t) PROVE acc'[w][n] = 0 /\ UNCHANGED counted
  <2>1. t \in Space
    BY <1>0, NodeTyped DEF DepthKept, Space
  <2>2. acc'[w] = [Zero EXCEPT ![t] = 1] /\ UNCHANGED counted
    BY <1>0, <1>4 DEF Take, search_vars
  <2> QED
    BY <2>1, <2>2 DEF Zero
<1>5. CASE ProcessChild(w)
  <2>1. ProcessCounted(w) /\ UNCHANGED counted
    BY <1>5, CountingStep DEF ProcessChild, Shape, search_vars
  <2>2. pc[w] = "process" /\ child[w] \in Node /\ acc' = [acc EXCEPT ![w][child[w]] = acc[w][child[w]] + 1]
    BY <2>1 DEF ProcessCounted, Shape, ProcessInv, InHand
  <2>3. child[w] \in Space
    <3>1. /\ Len(stack[w]) \in Nat \ {0} /\ Current(w) = stack[w][Len(stack[w])][1]
          /\ Current(w) \in Node
      BY <2>2, FrameTyped DEF Current, Frame
    <3>2. DepthLimited => DepthAt(w)
      BY DEF DepthKept
    <3>3. DepthLimited => Len(Current(w)) + 1 < maxDepth
      BY <3>1, <3>2 DEF DepthAt, LevelsKept
    <3>4. DepthLimited => Len(child[w]) = Len(Current(w)) + 1
      BY <2>2, <3>2 DEF DepthAt, WithChild
    <3> QED
      BY <1>0, <2>2, <3>1, <3>3, <3>4, NodeTyped DEF Space
  <2> QED
    BY <1>0, <1>3, <2>1, <2>2, <2>3
<1>6. CASE FinishTask(w)
  BY <1>0, <1>3, <1>6 DEF FinishTask, Zero
<1>7. CASE \/ Stop(w) \/ KeepWork(w) \/ Spawn(w) \/ NextChild(w) \/ Backtrack(w)
           \/ Continue(w) \/ Prune(w) \/ Break(w) \/ Exit(w)
  <2>1. UNCHANGED <<acc, counted>>
    BY <1>7 DEF Stop, KeepWork, Spawn, NextChild, Backtrack, Continue, Prune, Break,
       Exit, search_vars
  <2> QED
    BY <1>3, <2>1
<1> QED
  BY <1>3, <1>4, <1>5, <1>6, <1>7 DEF Step

LEMMA StepClaims ==
    ASSUME Shape, Kind = "Enumeration", Thorough, NEW w \in Worker, Step(w),
           NEW n \in Space, OneClaim(n)
    PROVE  OneClaim(n)'
<1>0. n \in Node
  BY DEF Space
<1>1. CASE \E t \in tasks : Take(w, t)
  BY <1>0, <1>1, TakeClaims
<1>2. CASE KeepWork(w) \/ Spawn(w) \/ NextChild(w) \/ Backtrack(w)
  BY <1>0, <1>2, KeepWorkClaims, SpawnClaims, NextChildClaims, BacktrackClaims
<1>3. CASE ProcessChild(w) \/ Continue(w)
  BY <1>0, <1>3, ProcessClaims, ContinueClaims
<1>4. CASE Stop(w) \/ Prune(w) \/ Break(w) \/ Exit(w)
  BY <1>4 DEF Stop, Stopped, Prune, Break, Exit, Thorough
<1>5. CASE FinishTask(w)
  BY <1>0, <1>5, FinishClaims DEF FinishTask, Thorough
<1> QED
  BY <1>1, <1>2, <1>3, <1>4, <1>5 DEF Step
-----------------------------------------------------------------------------
LEMMA InitCount == Init => CountInv
<1> SUFFICES ASSUME Init PROVE CountInv
  OBVIOUS
<1>1. Base
  BY InitBase
<1>2. Thorough /\ DepthKept /\ SpaceKept
  BY DEF Init, ProcessInit, SharedInit, Thorough, DepthKept, DepthAt, LevelsKept,
     SpaceKept, Zero, WithChild, Acting
<1> QED
  BY <1>1, <1>2 DEF CountInv, Init

\* Before the first step there is a task for the root, and every node is in
\* its subtree.
LEMMA RootClaims ==
    ASSUME Base, CreateRoot, NEW n \in Node
    PROVE  OneClaim(n)'
<1>1. /\ tasks' = {Root} /\ UNCHANGED <<stack, acc, pc, child, counted>>
      /\ counted = Zero /\ \A w \in Worker : pc[w] = "free"
  BY DEF CreateRoot, Base, Quiet, process_vars, task_vars
<1>2. n \in Subtree(Root)
  BY BelowRoot DEF Subtree
<1>3. Shared(n)' = {<<"task", Root, 0>>}
  BY <1>1, <1>2 DEF Shared, Zero
<1>4. \A w \in Worker : Held(w, n)' = {}
  <2> SUFFICES ASSUME NEW w \in Worker PROVE Held(w, n)' = {}
    OBVIOUS
  <2>1. stack[w] = <<>> /\ acc[w][n] = 0 /\ pc[w] = "free"
    BY <1>1 DEF Base, Shape, FreeEmpty, Zero
  <2> QED
    BY <1>1, <2>1 DEF Held, Entering, FramesWith
<1>5. Claims(n)' = {<<"task", Root, 0>>}
  <2>1. Claims(n)' = Shared(n)' \cup UNION {Held(w, n)' : w \in Worker}
    BY DEF Claims
  <2> QED
    BY <1>3, <1>4, <2>1
<1> QED
  BY <1>5 DEF OneClaim

LEMMA NextCountInv == CountInv /\ [Next]_vars => CountInv'
<1> SUFFICES ASSUME CountInv, [Next]_vars PROVE CountInv'
  OBVIOUS
<1>0. Base /\ Base' /\ Shape
  BY NextBase DEF CountInv, Base
<1>1. ASSUME NEW w \in Worker, Step(w) PROVE CountInv'
  <2>1. UNCHANGED <<Kind, Space, main>> /\ main = "await"
    BY <1>0, <1>1, StepTags, Working
  <2>2. CASE Kind = "Enumeration"
    <3>1. Thorough' /\ DepthKept' /\ SpaceKept'
      BY <1>0, <1>1, <2>2, StepThorough, StepDepth, StepSpace DEF CountInv
    <3>2. Space' = Space
      BY <2>1
    <3>3. \A n \in Space : OneClaim(n)'
      BY <1>0, <1>1, <2>1, <2>2, StepClaims DEF CountInv
    <3> QED
      BY <1>0, <3>1, <3>2, <3>3 DEF CountInv
  <2> QED
    BY <1>0, <2>1, <2>2 DEF CountInv
<1>2. CASE CreateRoot
  <2>1. /\ tasks' = {Root} /\ Root \in Node
        /\ UNCHANGED <<pc, child, ret, acc, stack, counted, Kind, DepthLimited, Space>>
    BY <1>2, TreeAssumption, TagsSame DEF CreateRoot, process_vars, task_vars
  <2>2. CASE Kind = "Enumeration"
    <3>1. Thorough /\ DepthKept /\ SpaceKept
      BY <2>2 DEF CountInv
    <3>2. Thorough' /\ SpaceKept'
      BY <2>1, <3>1 DEF Thorough, SpaceKept
    <3>3. DepthKept'
      <4>1. \A w \in Worker : DepthAt(w)' = DepthAt(w)
        BY <2>1 DEF DepthAt, Current, Frame
      <4>2. Len(Root) + 1 < maxDepth
        BY BudgetAssumption DEF Root
      <4> QED
        BY <2>1, <3>1, <4>1, <4>2 DEF DepthKept
    <3>4. Space \subseteq Node /\ Space' = Space
      BY <2>1 DEF Space
    <3>5. \A n \in Space : OneClaim(n)'
      BY <1>0, <1>2, <3>4, RootClaims
    <3> QED
      BY <1>0, <3>2, <3>3, <3>4, <3>5 DEF CountInv
  <2> QED
    BY <1>0, <2>1, <2>2 DEF CountInv
<1>3. CASE Return \/ Deliver \/ UNCHANGED vars
  <2>1. UNCHANGED <<pc, child, ret, acc, tasks, stack, counted, Kind, DepthLimited,
                    Space>>
    BY <1>3, TagsSame DEF Return, Deliver, Receive, ReceiveBound, ReceiveStop, vars,
       process_vars, task_vars, search_vars
  <2>2. main' # "create" => main # "create"
    BY <1>3 DEF Return, Deliver, vars, search_vars
  <2>3. \A n : OneClaim(n)' = OneClaim(n)
    <3>1. \A n : Shared(n)' = Shared(n)
      BY <2>1, SharedSame
    <3>2. \A n : \A w \in Worker : Held(w, n)' = Held(w, n)
      BY <2>1, HeldSame
    <3>3. \A n : Claims(n)' = Claims(n)
      BY <3>1, <3>2 DEF Claims
    <3> QED
      BY <3>3 DEF OneClaim
  <2>4. UNCHANGED <<Thorough, DepthKept, SpaceKept>>
    BY <2>1 DEF Thorough, DepthKept, DepthAt, Current, Frame, SpaceKept
  <2> QED
    BY <1>0, <2>1, <2>2, <2>3, <2>4 DEF CountInv
<1> QED
  BY <1>1, <1>2, <1>3 DEF Next

\* Spawned or not, at the depth limit or not, each node of an enumeration's
\* space is claimed once, by a task, a frame, a child or a count.
THEOREM Conserved == Spec => []WorkConserved
<1>1. CountInv => WorkConserved
  <2> SUFFICES ASSUME CountInv, Kind = "Enumeration", main # "create"
               PROVE  /\ \A n \in Space : Cardinality(Claims(n)) = 1
                      /\ \A n \in Node \ Space : /\ counted[n] = 0
                                                 /\ \A w \in Worker : acc[w][n] = 0
    BY DEF WorkConserved
  <2>1. ASSUME NEW n \in Space PROVE Cardinality(Claims(n)) = 1
    <3>1. PICK c : Claims(n) = {c}
      BY DEF CountInv, OneClaim
    <3> QED
      BY <3>1, FS_Singleton
  <2> QED
    BY <2>1 DEF CountInv, SpaceKept
<1> QED
  BY <1>1, InitCount, NextCountInv, PTL DEF Spec
-----------------------------------------------------------------------------
\* The argument that an enumeration answers with the number of nodes: a search
\* of another kind counts nothing, ...
Uncounting == Kind # "Enumeration" => /\ counted = Zero
                                      /\ \A w \in Worker : acc[w] = Zero

PromiseInv == CountInv /\ Uncounting

LEMMA InitPromiseInv == Init => PromiseInv
BY InitCount DEF PromiseInv, Uncounting, Init, ProcessInit

\* Only the end of a task moves the registries' counts.
LEMMA CountsMove ==
    ASSUME NEW w \in Worker, Step(w), ~ FinishTask(w)
    PROVE  UNCHANGED counted
BY DEF Step, Take, Stop, KeepWork, Spawn, NextChild, Backtrack, ProcessChild,
   Continue, Prune, Break, Exit, search_vars

LEMMA StepUncounting ==
    ASSUME Shape, Uncounting, Kind # "Enumeration", NEW w \in Worker, Step(w)
    PROVE  counted' = Zero /\ \A v \in Worker : acc'[v] = Zero
<1>0. /\ acc \in [Worker -> [Node -> Nat]] /\ tasks \subseteq Node
      /\ counted = Zero /\ acc[w] = Zero
  BY StateTyped DEF Uncounting
<1>1. \A v \in Worker \ {w} : acc'[v] = Zero
  BY OthersSame DEF Uncounting
<1>2. ASSUME NEW n \in tasks, Take(w, n) PROVE acc'[w] = Zero /\ UNCHANGED counted
  <2>1. [Zero EXCEPT ![n] = 0] = Zero
    BY <1>0 DEF Zero
  <2>2. acc' = [acc EXCEPT ![w] = [Zero EXCEPT ![n] = 0]] /\ UNCHANGED counted
    BY <1>2 DEF Take, search_vars
  <2> QED
    BY <1>0, <2>1, <2>2
<1>3. CASE FinishTask(w)
  <2>1. counted' = [n \in Node |-> 0 + 0] /\ acc'[w] = Zero
    BY <1>0, <1>3 DEF FinishTask, Zero
  <2> QED
    BY <1>1, <2>1 DEF Zero
<1>4. CASE ProcessChild(w)
  <2>1. UNCHANGED <<acc, counted>>
    BY <1>4, CountingStep DEF ProcessChild, Shape, search_vars
  <2> QED
    BY <1>0, <1>1, <2>1
<1>5. CASE \/ Stop(w) \/ KeepWork(w) \/ Spawn(w) \/ NextChild(w) \/ Backtrack(w)
           \/ Continue(w) \/ Prune(w) \/ Break(w) \/ Exit(w)
  <2>1. UNCHANGED <<acc, counted>>
    BY <1>5 DEF Stop, KeepWork, Spawn, NextChild, Backtrack, Continue, Prune, Break,
       Exit, search_vars
  <2> QED
    BY <1>0, <1>1, <2>1
<1> QED
  BY <1>0, <1>1, <1>2, <1>3, <1>4, <1>5 DEF Step

LEMMA NextPromiseInv == PromiseInv /\ [Next]_vars => PromiseInv'
<1> SUFFICES ASSUME PromiseInv, [Next]_vars PROVE Uncounting'
  BY NextCountInv DEF PromiseInv
<1>0. Shape /\ Uncounting
  BY DEF PromiseInv, CountInv, Base
<1>1. ASSUME NEW w \in Worker, Step(w) PROVE Uncounting'
  <2>1. Kind' = Kind
    BY <1>0, <1>1, StepTags
  <2>2. CASE Kind = "Enumeration"
    BY <2>1, <2>2 DEF Uncounting
  <2>3. CASE Kind # "Enumeration"
    <3>1. counted' = Zero /\ \A v \in Worker : acc'[v] = Zero
      BY <1>0, <1>1, <2>3, StepUncounting
    <3>2. Zero' = Zero
      BY DEF Zero
    <3> QED
      BY <3>1, <3>2 DEF Uncounting
  <2> QED
    BY <2>2, <2>3
<1>2. CASE CreateRoot \/ Return \/ Deliver \/ UNCHANGED vars
  <2>1. UNCHANGED <<tags, acc, counted>>
    BY <1>2 DEF CreateRoot, Return, Deliver, Receive, ReceiveBound, ReceiveStop, vars,
       process_vars, search_vars
  <2> QED
    BY <1>0, <2>1 DEF Uncounting, Kind, Zero
<1> QED
  BY <1>1, <1>2 DEF Next

\* ... no node is counted twice, by the registries and a task together, ...
LEMMA CountedOnce ==
    ASSUME PromiseInv, NEW n \in Node, NEW w \in Worker
    PROVE  /\ counted[n] + acc[w][n] <= 1
           /\ n \notin Space => counted[n] + acc[w][n] = 0
<1>0. counted[n] \in Nat /\ acc[w][n] \in Nat
  BY StateTyped DEF PromiseInv, CountInv, Base
<1>1. CASE Kind # "Enumeration"
  BY <1>1 DEF PromiseInv, Uncounting, Zero
<1>2. CASE main = "create"
  BY <1>2 DEF PromiseInv, CountInv, Base, Quiet, Shape, FreeEmpty, Zero
<1>3. CASE Kind = "Enumeration" /\ main # "create" /\ n \notin Space
  BY <1>3 DEF PromiseInv, CountInv, SpaceKept
<1>4. CASE Kind = "Enumeration" /\ main # "create" /\ n \in Space
  <2>1. PICK c : Claims(n) = {c}
    BY <1>4 DEF PromiseInv, CountInv, OneClaim
  <2>2. /\ \A i \in 1..counted[n] : <<"counted", 0, i>> = c
        /\ \A i \in 1..acc[w][n] : <<"acc", w, i>> = c
    <3>1. /\ \A i \in 1..counted[n] : <<"counted", 0, i>> \in Claims(n)
          /\ \A i \in 1..acc[w][n] : <<"acc", w, i>> \in Held(w, n)
      BY DEF Claims, Shared, Held
    <3>2. Held(w, n) \subseteq Claims(n)
      BY DEF Claims
    <3> QED
      BY <2>1, <3>1, <3>2
  <2>3. ~ (1 \in 1..counted[n] /\ 2 \in 1..counted[n])
    BY <2>2
  <2>4. ~ (1 \in 1..acc[w][n] /\ 2 \in 1..acc[w][n])
    BY <2>2
  <2>5. ~ (1 \in 1..counted[n] /\ 1 \in 1..acc[w][n])
    BY <2>2
  <2> QED
    BY <1>0, <1>4, <2>3, <2>4, <2>5
<1> QED
  BY <1>1, <1>2, <1>3, <1>4

\* ... and none is missing once no task is left.
LEMMA ReturnComplete ==
    ASSUME PromiseInv, Kind = "Enumeration", Return
    PROVE  Counted = Space
<1>0. /\ main = "await" /\ tasks = {} /\ \A w \in Worker : pc[w] = "free"
      /\ CountInv /\ Shape /\ counted \in [Node -> Nat] /\ Space \subseteq Node
  BY StateTyped DEF Return, PromiseInv, CountInv, Base, Space
<1>1. ASSUME NEW n \in Counted PROVE n \in Space
  BY <1>0 DEF Counted, CountInv, SpaceKept
<1>2. ASSUME NEW n \in Space PROVE n \in Counted
  <2>1. PICK c : Claims(n) = {c}
    BY <1>0 DEF CountInv, OneClaim
  <2>2. ASSUME NEW w \in Worker PROVE Held(w, n) = {}
    <3>1. stack[w] = <<>> /\ acc[w][n] = 0 /\ pc[w] = "free"
      BY <1>0 DEF Shape, FreeEmpty, Zero
    <3> QED
      BY <3>1 DEF Held, Entering, FramesWith
  <2>3. Claims(n) = {<<"counted", 0, i>> : i \in 1..counted[n]}
    BY <1>0, <2>2 DEF Claims, Shared
  <2>4. 1..counted[n] # {}
    BY <2>1, <2>3
  <2>5. counted[n] > 0
    BY <1>0, <2>4
  <2> QED
    BY <1>0, <2>5 DEF Counted
<1> QED
  BY <1>1, <1>2

LEMMA SameCardinality == \A S : Promise!Cardinality(S) = Cardinality(S)
BY DEF Promise!Cardinality, Cardinality

\* The end of a task is one step of the promise: the nodes it has counted are
\* new to the registries.
LEMMA FinishAccumulates ==
    ASSUME PromiseInv, NEW w \in Worker, FinishTask(w)
    PROVE  Promise!Accumulate
<1>0. /\ Shape /\ Base /\ Step(w) /\ counted \in [Node -> Nat]
      /\ acc \in [Worker -> [Node -> Nat]]
      /\ counted' = [n \in Node |-> counted[n] + acc[w][n]]
  BY StateTyped DEF PromiseInv, CountInv, Base, Step, FinishTask
<1>1. UNCHANGED <<Kind, Space, main>> /\ main = "await"
  BY <1>0, StepTags, Working
<1>2. ~ Returned /\ ~ Returned'
  BY <1>1 DEF Returned
<1> DEFINE S == {n \in Node : counted[n] = 0 /\ counted'[n] > 0}
<1>3. \A n \in Node : /\ counted[n] \in Nat /\ acc[w][n] \in Nat
                      /\ counted'[n] = counted[n] + acc[w][n]
                      /\ counted'[n] <= 1
                      /\ n \notin Space => counted'[n] = 0
  BY <1>0, CountedOnce
<1>4. counted' \in [Node -> Nat] /\ \A n \in Node : counted[n] <= counted'[n] /\ counted'[n] <= 1
  BY <1>0, <1>3
<1>5. combineEnumerators(counted') = combineEnumerators(counted) + Cardinality(S)
  BY <1>0, <1>4, CombineMore
<1>6. Counted' = Counted \cup S
  BY <1>3 DEF Counted
<1>7. S \in SUBSET (Space \ Counted)
  BY <1>3 DEF Counted
<1> HIDE DEF S
<1>8. combineEnumerators(counted)' = combineEnumerators(counted')
  BY DEF combineEnumerators
<1> QED
  BY <1>1, <1>2, <1>5, <1>6, <1>7, <1>8, SameCardinality DEF Promise!Accumulate

\* Budget implements Enumeration: whatever the tree, the budget and the order
\* in which tasks are split off and run, search counts every node of the space
\* exactly once and answers with their number.
THEOREM CountsOnce == Spec => CountsEachNodeOnce
<1>1. Init => Promise!Init
  <2> SUFFICES ASSUME Init PROVE Promise!Init
    OBVIOUS
  <2>1. counted = Zero /\ ~ Returned
    BY DEF Init, Returned
  <2>2. Counted = {}
    BY <2>1 DEF Counted, Zero
  <2>3. combineEnumerators(counted) = 0
    <3>1. combineEnumerators(Zero) = Cardinality({n \in Node : Zero[n] > 0})
      BY ZeroTyped, CombineOnce DEF Zero
    <3>2. {n \in Node : Zero[n] > 0} = {}
      BY DEF Zero
    <3> QED
      BY <2>1, <3>1, <3>2, FS_EmptySet
  <2> QED
    BY <2>1, <2>2, <2>3 DEF Promise!Init
<1>2. PromiseInv /\ [Next]_vars => [Promise!Next]_(Promise!vars)
  <2> SUFFICES ASSUME PromiseInv, [Next]_vars
               PROVE  [Promise!Next]_(Promise!vars)
    OBVIOUS
  <2>0. Base /\ Shape
    BY DEF PromiseInv, CountInv, Base
  <2>1. ASSUME UNCHANGED <<Space, counted, Returned>> PROVE UNCHANGED Promise!vars
    <3>1. UNCHANGED <<Counted, combineEnumerators(counted)>>
      BY <2>1 DEF Counted, combineEnumerators
    <3> QED
      BY <2>1, <3>1 DEF Promise!vars
  <2>2. ASSUME NEW w \in Worker, FinishTask(w) PROVE Promise!Next
    BY <2>2, FinishAccumulates DEF Promise!Next
  <2>3. ASSUME NEW w \in Worker, Step(w), ~ FinishTask(w) PROVE UNCHANGED Promise!vars
    <3>1. UNCHANGED <<Kind, Space, main, counted>>
      BY <2>0, <2>3, StepTags, Working, CountsMove
    <3> QED
      BY <2>1, <3>1 DEF Returned
  <2>4. CASE Return /\ Kind = "Enumeration"
    <3>1. UNCHANGED <<Kind, Space, counted>> /\ ~ Returned /\ Returned'
      BY <2>4, TagsSame DEF Return, Returned, process_vars
    <3>2. Counted = Space
      BY <2>4, ReturnComplete
    <3>3. UNCHANGED <<Counted, combineEnumerators(counted)>>
      BY <3>1 DEF Counted, combineEnumerators
    <3> QED
      BY <3>1, <3>2, <3>3 DEF Promise!Return, Promise!Next
  <2>5. ASSUME \/ CreateRoot \/ (Return /\ Kind # "Enumeration")
               \/ Deliver \/ UNCHANGED vars
        PROVE  UNCHANGED Promise!vars
    <3>1. UNCHANGED <<tags, counted>>
      BY <2>5 DEF CreateRoot, Return, Deliver, Receive, ReceiveBound, ReceiveStop, vars,
         process_vars, search_vars
    <3>2. UNCHANGED <<Kind, Space>>
      BY <3>1, TagsSame
    <3>3. UNCHANGED Returned
      BY <2>5, <3>2 DEF Returned, CreateRoot, Return, Deliver, vars, search_vars
    <3> QED
      BY <2>1, <3>1, <3>2, <3>3
  <2>6. \/ \E w \in Worker : Step(w)
        \/ CreateRoot \/ Return \/ Deliver \/ UNCHANGED vars
    BY DEF Next
  <2> QED
    BY <2>2, <2>3, <2>4, <2>5, <2>6
<1> QED
  BY <1>1, <1>2, InitPromiseInv, NextPromiseInv, PTL
  DEF Spec, CountsEachNodeOnce, Promise!Spec
-----------------------------------------------------------------------------
\* The argument for the size of genStack, for every kind of search: the node of
\* the frame at position i is at least i levels down, and so is a child that
\* has been written to the position after the last frame.
SlotsAt(w) == /\ FrameSlots(stack[w])
              /\ pc[w] \in WithChild => Len(stack[w]) <= Len(child[w])

FitInv == Base /\ DepthKept /\ \A w \in Worker : SlotsAt(w)

LEMMA StepSlots ==
    ASSUME Shape, NEW w \in Worker, SlotsAt(w), Step(w)
    PROVE  SlotsAt(w)'
<1> DEFINE s == stack[w]
           d == Len(s)
           t == stack'[w]
<1>0. /\ FrameSlots(stack[w]) /\ pc \in [Worker -> Places]
      /\ child \in [Worker -> Node \cup {NoNode}]
      /\ s \in Seq(Frames) /\ stack \in [Worker -> Seq(Frames)] /\ d \in Nat
      /\ tasks \subseteq Node
  BY StateTyped DEF SlotsAt
<1>1. ASSUME FrameSlots(t), pc'[w] \notin WithChild PROVE SlotsAt(w)'
  BY <1>1 DEF SlotsAt
<1>2. ASSUME Len(t) \in Nat, Len(t) <= d, \A i \in 1..Len(t) : t[i][1] = s[i][1]
      PROVE  FrameSlots(t)
  <2> HIDE DEF t
  <2> QED
    BY <1>0, <1>2, FrameSlotsSame
<1>3. ASSUME NEW n \in tasks, Take(w, n) PROVE SlotsAt(w)'
  <2>1. t = <<<<n, 1>>>> /\ pc'[w] = "loop" /\ n \in Node
    BY <1>0, <1>3 DEF Take, Goto
  <2>2. Len(t) = 1 /\ t[1][1] = n /\ Len(n) \in Nat
    BY <2>1, NodeTyped
  <2>3. FrameSlots(t)
    BY <2>2 DEF FrameSlots
  <2> QED
    BY <1>1, <2>1, <2>3 DEF WithChild, Acting
<1>4. CASE KeepWork(w) \/ Stop(w) \/ Prune(w) \/ Exit(w)
  <2>1. t = s /\ pc'[w] \notin WithChild
    BY <1>0, <1>4 DEF KeepWork, Stop, Prune, Exit, Goto, task_vars, WithChild, Acting
  <2> QED
    BY <1>0, <1>1, <2>1
<1>5. CASE Spawn(w)
  <2>1. /\ pc'[w] = "move" /\ Len(t) = d /\ t[d] = s[d]
        /\ \A i \in 1..d - 1 : t[i] = Drained(s[i])
    BY <1>0, <1>5, SpawnStack DEF Spawn, Goto
  <2>2. \A i \in 1..d : t[i][1] = s[i][1]
    BY <1>0, <2>1 DEF Drained
  <2>3. FrameSlots(t)
    BY <1>0, <1>2, <2>1, <2>2
  <2> QED
    BY <1>1, <2>1, <2>3 DEF WithChild, Acting
<1>6. CASE NextChild(w)
  <2>1. /\ Len(t) = d /\ d \in Nat \ {0} /\ t[d] = <<Current(w), Frame(w)[2] + 1>>
        /\ \A i \in 1..d - 1 : t[i] = s[i]
        /\ s[d] = <<Current(w), Frame(w)[2]>>
        /\ child'[w] = Child(Current(w), Frame(w)[2])
        /\ Current(w) \in Node /\ Frame(w)[2] \in Nat
    BY <1>6, NextChildStack, FrameTyped DEF NextChild
  <2>2. ASSUME NEW i \in 1..d PROVE t[i][1] = s[i][1]
    <3>1. CASE i = d
      <4>1. t[d] = <<Current(w), Frame(w)[2] + 1>> /\ s[d] = <<Current(w), Frame(w)[2]>>
        BY <2>1
      <4>2. t[d][1] = Current(w) /\ s[d][1] = Current(w)
        BY <4>1
      <4> QED
        BY <3>1, <4>2, Zenon
    <3>2. CASE i # d
      <4>1. i \in 1..d - 1
        BY <2>1, <3>2
      <4> QED
        BY <2>1, <4>1, Zenon
    <3> QED
      BY <3>1, <3>2
  <2>3. FrameSlots(t)
    BY <1>0, <1>2, <2>1, <2>2
  <2>4. d <= Len(child'[w])
    <3>1. Len(child'[w]) = Len(Current(w)) + 1 /\ s[d][1] = Current(w)
      BY <2>1, ChildTyped
    <3>2. d <= Len(s[d][1]) + 1
      BY <1>0, <2>1 DEF FrameSlots
    <3> QED
      BY <3>1, <3>2
  <2> QED
    BY <2>1, <2>3, <2>4 DEF SlotsAt
<1>7. CASE Backtrack(w) \/ Break(w)
  <2>1. pc[w] \in {"move", "answered"} /\ Pop(w)
    BY <1>7 DEF Backtrack, Break
  <2>2. /\ t = SubSeq(s, 1, d - 1) /\ \E p \in {"done", "loop"} : Goto(w, p)
    BY <2>1, PopStack
  <2>3. s # <<>>
    BY <2>1, FrameTyped
  <2>4. Len(t) = d - 1 /\ d \in Nat \ {0} /\ \A i \in 1..Len(t) : t[i] = s[i]
    <3> HIDE DEF s
    <3> QED
      BY <1>0, <2>2, <2>3, PopFrame
  <2>5. pc'[w] \notin WithChild
    BY <1>0, <2>2 DEF Goto, WithChild, Acting
  <2>6. Len(t) \in Nat /\ Len(t) <= d
    BY <2>4
  <2>7. \A i \in 1..Len(t) : t[i][1] = s[i][1]
    BY <2>4, Zenon
  <2>8. FrameSlots(t)
    BY <1>2, <2>6, <2>7
  <2> QED
    BY <1>1, <2>5, <2>8
<1>8. CASE ProcessChild(w)
  <2>1. Process(w) /\ UNCHANGED stack /\ ret \in [Worker -> Answers]
    BY <1>8, StateTyped DEF ProcessChild, task_vars
  <2>2. pc[w] \in WithChild /\ UNCHANGED child
    BY <2>1, ProcessPlace DEF WithChild
  <2> QED
    BY <2>1, <2>2 DEF SlotsAt
<1>9. CASE Continue(w)
  <2>1. /\ pc[w] = "answered" /\ pc'[w] \notin WithChild /\ child[w] \in Node
    BY <1>0, <1>9 DEF Continue, Goto, Shape, ProcessInv, InHand, WithChild, Acting
  <2>2. CASE t = s
    BY <1>0, <1>1, <2>1, <2>2
  <2>3. CASE t # s
    <3>1. t = Append(s, <<child[w], 1>>)
      BY <1>0, <1>9, <2>3 DEF Continue
    <3>2. /\ Len(t) = d + 1 /\ t[d + 1] = <<child[w], 1>>
          /\ \A i \in 1..d : t[i] = s[i]
      BY <1>0, <2>1, <3>1, PushFrame
    <3>3. d <= Len(child[w]) /\ Len(child[w]) \in Nat
      BY <2>1, NodeTyped DEF SlotsAt, WithChild
    <3>4. \A i \in 1..d : t[i][1] = s[i][1]
      BY <3>2, Zenon
    <3>5. t[d + 1][1] = child[w]
      BY <3>2
    <3>6. FrameSlots(t)
      <4> HIDE DEF t
      <4> QED
        BY <1>0, <3>2, <3>3, <3>4, <3>5, FrameSlotsPushed
    <3> QED
      BY <1>1, <2>1, <3>6
  <2> QED
    BY <2>2, <2>3
<1>10. CASE FinishTask(w)
  <2>1. Len(t) = 0 /\ pc'[w] = "free"
    BY <1>0, <1>10 DEF FinishTask, Goto
  <2>2. FrameSlots(t)
    BY <2>1 DEF FrameSlots
  <2> QED
    BY <1>1, <2>1, <2>2 DEF WithChild, Acting
<1> QED
  BY <1>3, <1>4, <1>5, <1>6, <1>7, <1>8, <1>9, <1>10 DEF Step

LEMMA InitFit == Init => FitInv
<1> SUFFICES ASSUME Init PROVE FitInv
  OBVIOUS
<1>1. Base
  BY InitBase
<1>2. ASSUME NEW w \in Worker PROVE SlotsAt(w) /\ DepthAt(w)
  <2>1. Len(stack[w]) = 0 /\ pc[w] = "free"
    BY DEF Init, ProcessInit
  <2> QED
    BY <2>1 DEF SlotsAt, FrameSlots, DepthAt, LevelsKept, WithChild, Acting
<1> QED
  BY <1>1, <1>2 DEF FitInv, DepthKept, Init

LEMMA NextFit == FitInv /\ [Next]_vars => FitInv'
<1> SUFFICES ASSUME FitInv, [Next]_vars PROVE FitInv'
  OBVIOUS
<1>0. Base' /\ Shape
  BY NextBase DEF FitInv, Base
<1>1. ASSUME NEW w \in Worker, Step(w) PROVE FitInv'
  <2>1. DepthKept'
    BY <1>0, <1>1, StepDepth DEF FitInv
  <2>2. SlotsAt(w)'
    BY <1>0, <1>1, StepSlots DEF FitInv
  <2>3. ASSUME NEW v \in Worker \ {w} PROVE SlotsAt(v)'
    BY <1>0, <1>1, OthersSame DEF FitInv, SlotsAt
  <2> QED
    BY <1>0, <2>1, <2>2, <2>3 DEF FitInv
<1>2. CASE CreateRoot \/ Return \/ Deliver \/ UNCHANGED vars
  <2>1. /\ UNCHANGED <<pc, child, stack, DepthLimited>>
        /\ tasks' \subseteq tasks \cup {Root}
    BY <1>2, TagsSame DEF CreateRoot, Return, Deliver, Receive, ReceiveBound,
       ReceiveStop, vars, process_vars, task_vars
  <2>2. Len(Root) + 1 < maxDepth
    BY BudgetAssumption DEF Root
  <2>3. \A w \in Worker : SlotsAt(w)' /\ DepthAt(w)' = DepthAt(w)
    BY <2>1 DEF FitInv, SlotsAt, DepthAt, Current, Frame
  <2> QED
    BY <1>0, <2>1, <2>2, <2>3 DEF FitInv, DepthKept
<1> QED
  BY <1>1, <1>2 DEF Next

\* genStack never needs more elements than the deepest node of the space has
\* levels, for any kind of search and whatever tasks are split off.
THEOREM StackNeverOverrun == Spec => []StackFits
<1>1. ASSUME FitInv PROVE StackFits
  <2> SUFFICES ASSUME NEW w \in Worker, stack[w] # <<>>
               PROVE  \E n \in Space : Slot(w) <= Len(n)
    BY DEF StackFits
  <2>0. /\ Shape /\ maxDepth \in Nat /\ SlotsAt(w) /\ (DepthLimited => DepthAt(w))
        /\ pc[w] \in Places
    BY <1>1, StateTyped, BudgetAssumption DEF FitInv, Base, DepthKept
  <2> DEFINE d == Len(stack[w])
             m == stack[w][d][1]
  <2>1. d \in Nat \ {0} /\ m \in Node /\ Len(m) \in Nat
    <3>1. stack[w] \in Seq(Frames)
      BY <2>0, StateTyped
    <3>2. d \in Nat \ {0} /\ stack[w][d] \in Frames
      BY <3>1, EmptySeq, ElementOfSeq
    <3> QED
      BY <3>2, NodeTyped DEF Frames
  <2>2. d <= Len(m) + 1 /\ (DepthLimited => Len(m) + 1 < maxDepth)
    BY <2>0, <2>1 DEF SlotsAt, FrameSlots, DepthAt, LevelsKept
  <2>3. CASE pc[w] \in WithChild
    <3>1. child[w] \in Node /\ Len(child[w]) \in Nat
      BY <2>0, <2>3, NodeTyped DEF Shape, ProcessInv, InHand, WithChild
    <3>2. DepthLimited => Len(child[w]) < maxDepth
      BY <2>0, <2>2, <2>3 DEF DepthAt, Current, Frame
    <3>3. child[w] \in Space
      BY <3>1, <3>2 DEF Space
    <3>4. Slot(w) = d /\ d <= Len(child[w])
      BY <2>0, <2>3 DEF Slot, SlotsAt, WithChild, Acting, ProcessPlaces
    <3> QED
      BY <3>3, <3>4
  <2>4. CASE pc[w] \notin WithChild
    <3>1. Slot(w) = d - 1
      BY <2>0, <2>4 DEF Slot, WithChild, Acting, ProcessPlaces, Places
    <3>2. m \in Space
      BY <2>0, <2>1, <2>2 DEF Space
    <3>3. d - 1 <= Len(m)
      BY <2>1, <2>2
    <3> QED
      BY <3>1, <3>2, <3>3
  <2> QED
    BY <2>3, <2>4
<1> QED
  BY InitFit, NextFit, <1>1, PTL DEF Spec
-----------------------------------------------------------------------------
\* The argument for optimisations and decisions: a node of the space that was
\* not spawned is settled, or below a task or a frame or in the hands of a
\* scheduler.
BelowTask(n) == \E t \in tasks : n \in Below(t)

Pending(n) == BelowTask(n) \/ \E w \in Worker : OnStack(stack[w], n) \/ AtChild(w, n)

Covered == main # "create" =>
              \A n \in Space \ spawned : Goal(n) => Settled(n) \/ Pending(n)

\* The rest of the level may be skipped once processNode has said so: the bound
\* that pruned the child bounds its later siblings, too.
BreakSettled ==
    \A w \in Worker : pc[w] = "answered" /\ ret[w] = "Break" =>
        \A n \in Node : Goal(n) /\ FrameHas(stack[w], Len(stack[w]), n) => Settled(n)

\* A task that ends before its stack is empty is one that is not needed.
ExitSolved ==
    \A w \in Worker : /\ pc[w] = "answered" /\ ret[w] = "Exit" => Solved
                      /\ pc[w] = "done" => stack[w] = <<>> \/ Solved

\* The root is never given to processNode, and need not be.
RootSettled == Obj[Root] <= Obj[incumbent]

\* The child in hand is the one its frame has just generated.
AtFrame(w) == /\ Frame(w)[2] - 1 \in 1..numChildren(Current(w))
              /\ child[w] = Child(Current(w), Frame(w)[2] - 1)

ChildAtFrame == \A w \in Worker : pc[w] = "process" => AtFrame(w)

AnswerInv == /\ Base /\ Covered /\ BreakSettled /\ ExitSolved /\ RootSettled
             /\ ChildAtFrame

LEMMA InitAnswer == Init => AnswerInv
<1>1. Obj[Root] \in Nat
  BY ObjNat, TreeAssumption
<1> QED
  BY <1>1, InitBase DEF Init, ProcessInit, SharedInit, AnswerInv, Covered, BreakSettled,
     ExitSolved, RootSettled, ChildAtFrame

\* Steps outside processNode: it is enough that the scheduler and the tasks
\* keep what they have, or that what they drop is settled or spawned.
LEMMA SkeletonAnswer ==
    ASSUME AnswerInv, NEW w \in Worker, Step(w), UNCHANGED <<ret, shared_vars>>,
           NEW p \in {"free", "loop", "move", "process", "done"}, Goto(w, p),
           pc[w] \notin Acting, spawned \subseteq spawned',
           p = "done" => stack'[w] = <<>> \/ Solved,
           p = "process" => AtFrame(w)',
           \A n \in Space \ spawned' :
               Goal(n) /\ (BelowTask(n) \/ OnStack(stack[w], n) \/ AtChild(w, n)) =>
                   Settled(n) \/ BelowTask(n)' \/ OnStack(stack'[w], n) \/ AtChild(w, n)'
    PROVE  AnswerInv'
<1>1. /\ Base' /\ main = "await" /\ UNCHANGED <<Kind, Space, main>> /\ Space \subseteq Node
  <2>1. Base /\ Shape /\ Next
    BY DEF AnswerInv, Base, Next
  <2>2. Base'
    BY <2>1, NextBase
  <2> QED
    BY <2>1, <2>2, Working, StepTags DEF Space
<1>2. pc'[w] = p
  BY GotoPlace DEF AnswerInv, Base, Shape, Places, ProcessPlaces
<1>3. \A v \in Worker \ {w} : /\ pc'[v] = pc[v] /\ child'[v] = child[v]
                              /\ ret'[v] = ret[v] /\ stack'[v] = stack[v]
  BY OthersSame DEF AnswerInv, Base
<1>4. ASSUME NEW n, Settled(n) PROVE Settled(n)'
  BY <1>3, <1>4, SkeletonSettled
<1>5. UNCHANGED Solved /\ \A n : Goal(n)' <=> Goal(n)
  BY <1>1 DEF Solved, Goal, shared_vars
<1>6. Covered'
  <2> SUFFICES ASSUME NEW n \in Space \ spawned', Goal(n)
               PROVE  Settled(n)' \/ Pending(n)'
    BY <1>1, <1>5 DEF Covered
  <2>1. Settled(n) \/ Pending(n)
    BY <1>1 DEF AnswerInv, Covered
  <2>2. ASSUME NEW v \in Worker \ {w}, OnStack(stack[v], n) \/ AtChild(v, n)
        PROVE  Pending(n)'
    <3>1. OnStack(stack'[v], n) \/ AtChild(v, n)'
      BY <1>3, <2>2 DEF AtChild
    <3> QED
      BY <3>1 DEF Pending
  <2>3. CASE BelowTask(n) \/ OnStack(stack[w], n) \/ AtChild(w, n)
    BY <1>4, <2>3 DEF Pending
  <2> QED
    BY <1>4, <2>1, <2>2, <2>3 DEF Pending
<1>7. BreakSettled'
  <2> SUFFICES ASSUME NEW v \in Worker, pc'[v] = "answered", ret'[v] = "Break",
                      NEW n \in Node, Goal(n), FrameHas(stack'[v], Len(stack'[v]), n)
               PROVE  Settled(n)'
    BY <1>5 DEF BreakSettled
  <2>1. /\ v # w /\ pc[v] = "answered" /\ ret[v] = "Break"
        /\ FrameHas(stack[v], Len(stack[v]), n)
    BY <1>2, <1>3
  <2> QED
    BY <1>4, <2>1 DEF AnswerInv, BreakSettled
<1>8. ExitSolved' /\ RootSettled'
  BY <1>2, <1>3, <1>5 DEF AnswerInv, ExitSolved, RootSettled, shared_vars
<1>9. ChildAtFrame'
  <2>1. ASSUME NEW v \in Worker \ {w}, AtFrame(v) PROVE AtFrame(v)'
    BY <1>3, <2>1 DEF AtFrame, Frame, Current
  <2> QED
    BY <1>2, <1>3, <2>1 DEF AnswerInv, ChildAtFrame
<1> QED
  BY <1>1, <1>6, <1>7, <1>8, <1>9 DEF AnswerInv

\* A flag that is up settles everything.
LEMMA AllSettled ==
    ASSUME ProcessInv, Solved, NEW n \in Space, Goal(n)
    PROVE  Settled(n)
BY SolvedSettles DEF Space

\* What is below the task is now to come from its first frame.
LEMMA TakeAnswer ==
    ASSUME AnswerInv, NEW w \in Worker, NEW t \in tasks, Take(w, t)
    PROVE  AnswerInv'
<1>1. Step(w) /\ Shape
  BY DEF Step, AnswerInv, Base
<1>2. /\ t \in Node /\ pc[w] = "free" /\ Goto(w, "loop") /\ tasks' = tasks \ {t}
      /\ stack[w] = <<>> /\ stack'[w] = <<<<t, 1>>>>
      /\ UNCHANGED <<ret, shared_vars, spawned>>
  BY <1>1, StateTyped DEF Take, Shape, FreeEmpty, search_vars
<1>3. ASSUME NEW n, BelowTask(n) \/ OnStack(stack[w], n) \/ AtChild(w, n)
      PROVE  BelowTask(n)' \/ OnStack(stack'[w], n)
  <2>1. Len(stack[w]) = 0
    BY <1>2
  <2>2. BelowTask(n)
    BY <1>2, <1>3, <2>1 DEF OnStack, AtChild
  <2>3. n \in Below(t) => OnStack(stack'[w], n)
    <3> DEFINE s == stack'[w]
    <3>1. s \in Seq(Frames) /\ Len(s) = 1 /\ 1 \in 1..Len(s) /\ s[1] = <<t, 1>>
      BY <1>2 DEF Frames
    <3> HIDE DEF s
    <3>2. n \in Below(t) => FrameHas(s, 1, n)
      BY <1>2, <3>1, NewFrameHas
    <3>3. n \in Below(t) => OnStack(s, n)
      BY <3>1, <3>2 DEF OnStack
    <3> QED
      BY <3>3 DEF s
  <2> QED
    BY <1>2, <2>2, <2>3 DEF BelowTask
<1> QED
  BY <1>1, <1>2, <1>3, SkeletonAnswer DEF Acting

LEMMA StopAnswer ==
    ASSUME AnswerInv, NEW w \in Worker, Stop(w) \/ Exit(w)
    PROVE  AnswerInv'
<1>1. /\ Step(w) /\ ProcessInv /\ pc[w] \notin Acting /\ Goto(w, "done")
      /\ UNCHANGED <<ret, shared_vars, spawned>>
  BY DEF Step, AnswerInv, Base, Shape, Stop, Exit, Acting, search_vars
<1>2. Solved
  BY <1>1, BoundAssumption
  DEF Stop, Stopped, ProcessInv, StopsSolved, Exit, AnswerInv, ExitSolved
<1> QED
  BY <1>1, <1>2, AllSettled, SkeletonAnswer

LEMMA KeepAnswer ==
    ASSUME AnswerInv, NEW w \in Worker, KeepWork(w) \/ Prune(w)
    PROVE  AnswerInv'
<1>1. /\ Step(w) /\ pc[w] \notin Acting
      /\ UNCHANGED <<ret, shared_vars, spawned, tasks, stack>>
  BY DEF Step, KeepWork, Prune, Acting, task_vars, search_vars
<1>2. PICK p \in {"loop", "move"} : Goto(w, p)
  BY DEF KeepWork, Prune
<1>3. \A n : ~ AtChild(w, n) /\ (BelowTask(n) => BelowTask(n)')
  BY <1>1 DEF KeepWork, Prune, AtChild, BelowTask
<1> QED
  BY <1>1, <1>2, <1>3, SkeletonAnswer

\* What is given away is spawned, and what is below it is below a task.
LEMMA SpawnAnswer ==
    ASSUME AnswerInv, NEW w \in Worker, Spawn(w)
    PROVE  AnswerInv'
<1> DEFINE s == stack[w]
           t == stack'[w]
           d == Len(s)
<1>1. /\ Step(w) /\ Shape /\ pc[w] = "loop" /\ Goto(w, "move")
      /\ UNCHANGED <<ret, shared_vars>>
  BY DEF Step, AnswerInv, Base, Spawn
<1>2. /\ d \in Nat \ {0} /\ s \in Seq(Frames)
      /\ \A i \in 1..d : s[i] \in Frames /\ s[i][2] \in Nat
  <2>1. d \in Nat \ {0} /\ s \in Seq(Frames)
    BY <1>1, FrameTyped
  <2> QED
    BY <2>1, ElementOfSeq DEF Frames
<1>3. /\ Len(t) = d /\ t[d] = s[d]
      /\ tasks' = tasks \cup Given(w) /\ spawned' = spawned \cup Given(w)
  BY <1>1, SpawnStack DEF AnswerInv, Base
<1>4. ASSUME NEW n \in Space \ spawned',
             BelowTask(n) \/ OnStack(s, n) \/ AtChild(w, n)
      PROVE  BelowTask(n)' \/ OnStack(t, n)
  <2>1. CASE BelowTask(n)
    BY <1>3, <2>1 DEF BelowTask
  <2>2. CASE OnStack(s, n)
    <3>1. PICK i \in 1..d : FrameHas(s, i, n)
      BY <2>2 DEF OnStack
    <3>2. CASE i = d
      BY <1>2, <1>3, <3>1, <3>2 DEF OnStack, FrameHas
    <3>3. CASE i # d
      <4>1. PICK j \in 1..numChildren(s[i][1]) :
                j >= s[i][2] /\ n \in Subtree(Child(s[i][1], j))
        BY <3>1 DEF FrameHas
      <4>2. i \in 1..d - 1 /\ j \in s[i][2]..numChildren(s[i][1])
        BY <1>2, <3>3, <4>1
      <4>3. Child(s[i][1], j) \in Given(w)
        BY <4>2 DEF Given, Rest
      <4> QED
        BY <1>3, <4>1, <4>3 DEF BelowTask, Subtree
    <3> QED
      BY <3>2, <3>3
  <2>3. ~ AtChild(w, n)
    BY <1>1 DEF AtChild
  <2> QED
    BY <1>4, <2>1, <2>2, <2>3
<1>5. spawned \subseteq spawned' /\ pc[w] \notin Acting
  BY <1>1, <1>3 DEF Acting
<1> HIDE DEF s, t
<1>6. \A n \in Space \ spawned' :
          Goal(n) /\ (BelowTask(n) \/ OnStack(stack[w], n) \/ AtChild(w, n)) =>
              BelowTask(n)' \/ OnStack(stack'[w], n)
  BY <1>4 DEF s, t
<1> QED
  BY <1>1, <1>5, <1>6, SkeletonAnswer

LEMMA NextChildAnswer ==
    ASSUME AnswerInv, NEW w \in Worker, NextChild(w)
    PROVE  AnswerInv'
<1> DEFINE s == stack[w]
           t == stack'[w]
           m == Current(w)
           k == Frame(w)[2]
<1>1. /\ Step(w) /\ Shape /\ pc[w] = "move" /\ Goto(w, "process") /\ pc'[w] = "process"
      /\ UNCHANGED <<ret, shared_vars, tasks, spawned>>
  BY StateTyped DEF Step, AnswerInv, Base, NextChild, Goto, search_vars
<1>2. /\ s \in Seq(Frames) /\ s # <<>> /\ t \in Seq(Frames) /\ Len(t) = Len(s)
      /\ s[Len(s)] = <<m, k>> /\ k <= numChildren(m) /\ t[Len(s)] = <<m, k + 1>>
      /\ \A i \in 1..Len(s) - 1 : t[i] = s[i]
      /\ Len(s) \in Nat \ {0} /\ k \in Nat \ {0} /\ k \in 1..numChildren(m)
      /\ child'[w] = Child(m, k)
  BY <1>1, FrameTyped, NextChildStack, NumChildrenNat DEF NextChild
<1>3. AtFrame(w)'
  <2>1. Frame(w)' = <<m, k + 1>>
    BY <1>2 DEF Frame
  <2>2. Current(w)' = m /\ Frame(w)'[2] - 1 = k
    BY <1>2, <2>1 DEF Current
  <2> QED
    BY <1>2, <2>2 DEF AtFrame
<1>4. ASSUME NEW n, OnStack(s, n) PROVE OnStack(t, n) \/ n \in Subtree(Child(m, k))
  <2> HIDE DEF s, t, m, k
  <2>1. /\ \A i \in 1..Len(s) - 1 : FrameHas(t, i, n) <=> FrameHas(s, i, n)
        /\ (FrameHas(t, Len(s), n) <=>
               FrameHas(s, Len(s), n) /\ n \notin Subtree(Child(m, k)))
    BY <1>2, AdvanceFrame
  <2>2. PICK i \in 1..Len(s) : FrameHas(s, i, n)
    BY <1>4 DEF OnStack
  <2>3. i = Len(s) \/ i \in 1..Len(s) - 1
    BY <1>2
  <2> QED
    BY <1>2, <2>1, <2>2, <2>3 DEF OnStack
<1>5. ASSUME NEW n, BelowTask(n) \/ OnStack(stack[w], n) \/ AtChild(w, n)
      PROVE  BelowTask(n)' \/ OnStack(stack'[w], n) \/ AtChild(w, n)'
  BY <1>1, <1>2, <1>4, <1>5 DEF AtChild, BelowTask
<1> QED
  BY <1>1, <1>3, <1>5, SkeletonAnswer DEF Acting

\* A frame may be left when nothing that matters is to come from it.
LEMMA PopAnswer ==
    ASSUME AnswerInv, NEW w \in Worker, Backtrack(w) \/ Break(w)
    PROVE  AnswerInv'
<1> DEFINE s == stack[w]
           t == stack'[w]
<1>1. /\ Step(w) /\ Shape /\ pc[w] \in {"move", "answered"} /\ Pop(w)
      /\ pc[w] = "answered" => ret[w] = "Break"
      /\ UNCHANGED <<ret, shared_vars, tasks, spawned>>
  BY DEF Step, AnswerInv, Base, Backtrack, Break, search_vars
<1>2. /\ t = SubSeq(s, 1, Len(s) - 1)
      /\ s \in Seq(Frames) /\ s # <<>> /\ Len(s) \in Nat \ {0}
  BY <1>1, PopStack, FrameTyped
<1>3. PICK p \in {"done", "loop"} : Goto(w, p) /\ (p = "done" <=> stack'[w] = <<>>)
  BY <1>1, PopStack
<1>4. ASSUME NEW n \in Node, Goal(n), FrameHas(s, Len(s), n) PROVE Settled(n)
  <2>1. CASE Backtrack(w)
    <3>1. /\ s[Len(s)] = <<Current(w), Frame(w)[2]>> /\ Frame(w)[2] \in Nat
          /\ Frame(w)[2] > numChildren(Current(w)) /\ numChildren(Current(w)) \in Nat
      BY <1>1, <2>1, FrameTyped, NumChildrenNat DEF Backtrack
    <3> QED
      BY <1>4, <3>1 DEF FrameHas
  <2>2. CASE Break(w)
    BY <1>4, <2>2 DEF Break, AnswerInv, BreakSettled
  <2> QED
    BY <2>1, <2>2
<1>5. ASSUME NEW n \in Node, Goal(n), OnStack(s, n) PROVE Settled(n) \/ OnStack(t, n)
  <2>1. PICK i \in 1..Len(s) : FrameHas(s, i, n)
    BY <1>5 DEF OnStack
  <2>2. CASE i = Len(s)
    BY <1>4, <1>5, <2>1, <2>2
  <2>3. CASE i # Len(s)
    <3> HIDE DEF s, t
    <3>1. /\ Len(t) = Len(s) - 1
          /\ \A j \in 1..Len(t) : FrameHas(t, j, n) <=> FrameHas(s, j, n)
      BY <1>2, PopFrame
    <3>2. i \in 1..Len(t)
      BY <1>2, <2>3, <3>1
    <3> QED
      BY <2>1, <3>1, <3>2 DEF OnStack
  <2> QED
    BY <2>2, <2>3
<1>6. ASSUME NEW n \in Node, Goal(n),
             BelowTask(n) \/ OnStack(stack[w], n) \/ AtChild(w, n)
      PROVE  Settled(n) \/ BelowTask(n)' \/ OnStack(stack'[w], n)
  BY <1>1, <1>5, <1>6 DEF AtChild, BelowTask
<1>7. Space \subseteq Node
  BY DEF Space
<1> QED
  BY <1>1, <1>3, <1>6, <1>7, SkeletonAnswer DEF Acting

\* What is below the child comes from its frame, or is beyond the limit.
LEMMA ContinueAnswer ==
    ASSUME AnswerInv, NEW w \in Worker, Continue(w)
    PROVE  AnswerInv'
<1> DEFINE s == stack[w]
           t == stack'[w]
           c == child[w]
           limit == DepthLimited /\ Len(child[w]) + 1 = maxDepth
<1>1. /\ Step(w) /\ Shape /\ pc[w] = "answered" /\ Goto(w, "loop") /\ c \in Node
      /\ s \in Seq(Frames) /\ Len(s) \in Nat
      /\ UNCHANGED <<ret, shared_vars, tasks, spawned>>
  BY StateTyped DEF Step, AnswerInv, Base, Shape, ProcessInv, InHand, Continue,
     search_vars
<1>2. t = IF limit THEN s ELSE Append(s, <<c, 1>>)
  BY <1>1, StateTyped DEF Continue
<1>3. ASSUME NEW n \in Space, n \in Below(c), limit PROVE FALSE
  BY <1>1, <1>3, NodeTyped, BudgetAssumption DEF Below, Space
<1>4. ASSUME NEW n \in Space, OnStack(s, n) \/ n \in Below(c) PROVE OnStack(t, n)
  <2>1. CASE limit
    BY <1>2, <1>3, <1>4, <2>1
  <2>2. CASE ~ limit
    <3>1. t = Append(s, <<c, 1>>)
      BY <1>2, <2>2
    <3> HIDE DEF s, t, c
    <3>2. /\ Len(t) = Len(s) + 1
          /\ \A i \in 1..Len(s) : FrameHas(t, i, n) <=> FrameHas(s, i, n)
          /\ (FrameHas(t, Len(s) + 1, n) <=> n \in Below(c))
      BY <1>1, <3>1, PushFrame
    <3> QED
      BY <1>1, <1>4, <3>2 DEF OnStack
  <2> QED
    BY <2>1, <2>2
<1>5. ASSUME NEW n \in Space, BelowTask(n) \/ OnStack(stack[w], n) \/ AtChild(w, n)
      PROVE  BelowTask(n)' \/ OnStack(stack'[w], n)
  BY <1>1, <1>4, <1>5 DEF AtChild, BelowTask
<1> QED
  BY <1>1, <1>5, SkeletonAnswer DEF Acting

LEMMA FinishAnswer ==
    ASSUME AnswerInv, NEW w \in Worker, FinishTask(w)
    PROVE  AnswerInv'
<1>1. /\ Step(w) /\ ProcessInv /\ pc[w] = "done" /\ Goto(w, "free")
      /\ UNCHANGED <<ret, shared_vars, tasks, spawned>>
  BY DEF Step, AnswerInv, Base, Shape, FinishTask
<1>2. stack[w] = <<>> \/ Solved
  BY <1>1 DEF AnswerInv, ExitSolved
<1>3. ASSUME NEW n \in Space, Goal(n),
             BelowTask(n) \/ OnStack(stack[w], n) \/ AtChild(w, n)
      PROVE  Settled(n) \/ BelowTask(n)'
  <2>1. CASE Solved
    BY <1>1, <1>3, <2>1, AllSettled
  <2>2. CASE stack[w] = <<>>
    <3>1. Len(stack[w]) = 0
      BY <2>2
    <3> QED
      BY <1>1, <1>3, <3>1 DEF OnStack, AtChild, BelowTask
  <2> QED
    BY <1>2, <2>1, <2>2
<1> QED
  BY <1>1, <1>3, SkeletonAnswer DEF Acting

\* A step of processNode: by the lemmas of ProcessNodeProofs for the node in
\* hand, and because siblings come in the order of their bounds for PruneLevel.
LEMMA ProcessAnswer ==
    ASSUME AnswerInv, NEW w \in Worker, ProcessChild(w)
    PROVE  AnswerInv'
<1>0. /\ Step(w) /\ Base /\ Shape /\ ProcessInv /\ Process(w) /\ home[w] \in Locality
      /\ ret \in [Worker -> Answers] /\ UNCHANGED <<tasks, stack, spawned, main>>
      /\ tags \in Tags /\ main = "await" /\ UNCHANGED <<Kind, Space>>
  <2>1. Step(w) /\ Base /\ Shape
    BY DEF Step, AnswerInv, Base
  <2> QED
    BY <2>1, Working, StepTags, StateTyped, BoundAssumption
    DEF Shape, ProcessChild, task_vars, search_vars
<1>b. Base'
  BY <1>0, NextBase DEF Next
<1>1. /\ UNCHANGED child
      /\ \A v \in Worker \ {w} : pc'[v] = pc[v] /\ ret'[v] = ret[v]
      /\ pc'[w] = "answered" /\ ret'[w] = "Break" =>
            /\ pc[w] = "process" /\ PruneLevel
            /\ Hopeless(child[w], localBound[home[w]])
      /\ pc'[w] = "answered" /\ ret'[w] = "Exit" => Solved'
  BY <1>0, ProcessMoves
<1>2. pc'[w] \in Acting \cup {"answered"}
  BY <1>0, ProcessPlace DEF Goto, ProcessInv, SharedTyped
<1>3. \A n \in Node : Settled(n) => Settled(n)'
  BY <1>0, SettledKept
<1>4. \A n : Goal(n)' <=> Goal(n)
  BY <1>0 DEF Goal
<1>5. Covered'
  <2> SUFFICES ASSUME NEW n \in Space \ spawned, Goal(n) PROVE Settled(n)' \/ Pending(n)'
    BY <1>0, <1>4 DEF Covered
  <2>1. n \in Node /\ Kind # "Enumeration" /\ (Settled(n) \/ Pending(n))
    BY <1>0 DEF AnswerInv, Covered, Space, Goal
  <2>2. CASE BelowTask(n)
    BY <1>0, <2>2 DEF BelowTask, Pending
  <2>3. ASSUME NEW v \in Worker, OnStack(stack[v], n) PROVE Pending(n)'
    <3>1. OnStack(stack'[v], n)
      BY <1>0, <2>3
    <3> QED
      BY <3>1 DEF Pending
  <2>4. ASSUME NEW v \in Worker, v # w, AtChild(v, n) PROVE Pending(n)'
    BY <1>1, <2>4 DEF AtChild, Pending
  <2>5. CASE AtChild(w, n)
    <3>1. Settled(n)' \/ AtChild(w, n)'
      BY <1>0, <2>1, <2>5, InHandKept
    <3> QED
      BY <3>1 DEF Pending
  <2> QED
    BY <1>3, <2>1, <2>2, <2>3, <2>4, <2>5 DEF Pending
<1>6. BreakSettled'
  <2> SUFFICES ASSUME NEW v \in Worker, pc'[v] = "answered", ret'[v] = "Break",
                      NEW n \in Node, Goal(n), FrameHas(stack[v], Len(stack[v]), n)
               PROVE  Settled(n)
    BY <1>0, <1>3, <1>4 DEF BreakSettled
  <2>1. CASE v # w
    BY <1>1, <2>1 DEF AnswerInv, BreakSettled
  <2>2. CASE v = w
    <3> DEFINE m == Current(w)
               i == Frame(w)[2] - 1
    <3>1. /\ m \in Node /\ Frame(w)[2] \in Nat /\ i \in 1..numChildren(m)
          /\ child[w] = Child(m, i) /\ child[w] \in Node
          /\ stack[w][Len(stack[w])] = <<m, Frame(w)[2]>>
      BY <1>0, <1>1, <2>2, FrameTyped, ChildInTree DEF AnswerInv, ChildAtFrame, AtFrame
    <3>2. PICK j \in 1..numChildren(m) : j >= Frame(w)[2] /\ n \in Subtree(Child(m, j))
      BY <2>2, <3>1 DEF FrameHas
    <3>3. Child(m, j) \in Node /\ i < j
      BY <3>1, <3>2, ChildInTree, NumChildrenNat
    <3>4. Bound[Child(m, j)] <= Bound[child[w]] /\ Obj[n] <= Bound[Child(m, j)]
      <4>1. \E t \in Tags : t.pruneLevel
        BY <1>0, <1>1, <2>2 DEF PruneLevel
      <4> QED
        BY <3>1, <3>2, <3>3, <4>1, BoundAssumption DEF Subtree
    <3>5. Obj[n] <= Bound[child[w]]
      <4>1. Obj[n] \in Nat /\ Bound[Child(m, j)] \in Nat /\ Bound[child[w]] \in Nat
        BY <3>1, <3>3, BoundAssumption
      <4> QED
        BY <3>4, <4>1
    <3> QED
      BY <1>0, <1>1, <2>2, <3>1, <3>5, HopelessSettles
  <2> QED
    BY <2>1, <2>2
<1>7. ExitSolved'
  BY <1>0, <1>1, <1>2, IncumbentRises DEF AnswerInv, ExitSolved, Acting
<1>8. RootSettled'
  <2>1. /\ Obj[Root] \in Nat /\ Obj[incumbent] \in Nat /\ Obj[incumbent'] \in Nat
        /\ Obj[Root] <= Obj[incumbent] /\ Obj[incumbent] <= Obj[incumbent']
    BY <1>0, <1>b, IncumbentRises, ObjNat, TreeAssumption
    DEF AnswerInv, RootSettled, Base, Shape, ProcessInv, SharedTyped
  <2> QED
    BY <2>1 DEF RootSettled
<1>9. ChildAtFrame'
  BY <1>0, <1>1, <1>2 DEF AnswerInv, ChildAtFrame, AtFrame, Frame, Current, Acting
<1> QED
  BY <1>b, <1>5, <1>6, <1>7, <1>8, <1>9 DEF AnswerInv

LEMMA StepAnswer ==
    ASSUME AnswerInv, NEW w \in Worker, Step(w)
    PROVE  AnswerInv'
BY TakeAnswer, StopAnswer, KeepAnswer, SpawnAnswer, NextChildAnswer, PopAnswer,
   ProcessAnswer, ContinueAnswer, FinishAnswer DEF Step

\* Every node but the root is below the root's task.
LEMMA RootAnswer ==
    ASSUME AnswerInv, CreateRoot
    PROVE  AnswerInv'
<1>1. /\ UNCHANGED <<tags, pc, child, ret, incumbent, stack, spawned>>
      /\ tasks' = {Root} /\ Base'
  BY NextBase DEF AnswerInv, Next, CreateRoot, process_vars, shared_vars, task_vars
<1>2. Covered'
  <2>1. ASSUME NEW n \in Node PROVE Settled(n)' \/ Pending(n)'
    <3>1. CASE n = Root
      BY <1>1, <3>1 DEF AnswerInv, RootSettled, Settled
    <3>2. CASE n # Root
      BY <1>1, <3>2, BelowRoot DEF Pending, BelowTask
    <3> QED
      BY <3>1, <3>2
  <2> QED
    BY <2>1 DEF Covered, Space
<1>3. BreakSettled'
  BY <1>1 DEF AnswerInv, BreakSettled, Goal, Kind, Settled
<1>4. ExitSolved' /\ RootSettled' /\ ChildAtFrame'
  BY <1>1 DEF AnswerInv, ExitSolved, RootSettled, ChildAtFrame, AtFrame, Solved, Kind,
     Frame, Current
<1> QED
  BY <1>1, <1>2, <1>3, <1>4 DEF AnswerInv

\* Messages change bounds and flags, which no argument above rests on but
\* through ProcessInv.
LEMMA KeptAnswer ==
    ASSUME AnswerInv, Base', main' # "create" => main # "create",
           UNCHANGED <<tags, pc, child, ret, incumbent, tasks, stack, spawned>>
    PROVE  AnswerInv'
<1>1. Space' = Space /\ \A n : Goal(n)' <=> Goal(n)
  BY TagsSame DEF Goal
<1>2. Covered'
  <2>1. \A n : Settled(n) \/ Pending(n) => Settled(n)' \/ Pending(n)'
    BY DEF Settled, Pending, BelowTask, AtChild
  <2> QED
    BY <1>1, <2>1 DEF AnswerInv, Covered
<1>3. BreakSettled'
  BY <1>1 DEF AnswerInv, BreakSettled, Settled
<1>4. ExitSolved' /\ RootSettled' /\ ChildAtFrame'
  BY DEF AnswerInv, ExitSolved, RootSettled, ChildAtFrame, AtFrame, Solved, Kind,
     Frame, Current
<1> QED
  BY <1>2, <1>3, <1>4 DEF AnswerInv

LEMMA NextAnswer == AnswerInv /\ [Next]_vars => AnswerInv'
<1> SUFFICES ASSUME AnswerInv, [Next]_vars PROVE AnswerInv'
  OBVIOUS
<1>0. Base'
  BY NextBase DEF AnswerInv
<1>1. CASE CreateRoot
  BY <1>1, RootAnswer
<1>2. CASE Return \/ Deliver \/ UNCHANGED vars
  <2>1. UNCHANGED <<tags, pc, child, ret, incumbent, tasks, stack, spawned>>
    BY <1>2 DEF Return, Deliver, Receive, ReceiveBound, ReceiveStop, vars,
       process_vars, shared_vars, task_vars, search_vars
  <2>2. main' # "create" => main # "create"
    BY <1>2 DEF Return, Deliver, vars, search_vars
  <2> QED
    BY <1>0, <2>1, <2>2, KeptAnswer
<1>3. CASE \E w \in Worker : Step(w)
  BY <1>3, StepAnswer
<1> QED
  BY <1>1, <1>2, <1>3 DEF Next

\* When the search has returned nothing is pending, and no scheduler is about
\* to submit anything: the incumbent itself settles every node.
LEMMA ReturnedSettled ==
    ASSUME AnswerInv, main = "returned", NEW n \in Space \ spawned, Goal(n)
    PROVE  Obj[n] <= Obj[incumbent]
<1>1. /\ tasks = {}
      /\ \A w \in Worker : pc[w] = "free" /\ stack[w] = <<>>
  BY DEF AnswerInv, Base, Quiet, Shape, FreeEmpty
<1>2. ~ Pending(n)
  <2>1. ASSUME NEW w \in Worker PROVE ~ OnStack(stack[w], n) /\ ~ AtChild(w, n)
    <3>1. Len(stack[w]) = 0
      BY <1>1
    <3> QED
      BY <1>1, <3>1 DEF OnStack, AtChild
  <2> QED
    BY <1>1, <2>1 DEF Pending, BelowTask
<1>3. Settled(n)
  BY <1>2 DEF AnswerInv, Covered
<1> QED
  BY <1>1, <1>3 DEF Settled

\* What the skeleton does promise: an answer at least as good as every node of
\* the space but those it spawned, whatever the order and the delay of the
\* broadcasts.  (OptimumFound, which leaves none out, does not hold.)
THEOREM SpawnedExcepted == Spec => []BestOfProcessed
<1>1. ASSUME AnswerInv PROVE BestOfProcessed
  <2> SUFFICES ASSUME main = "returned"
               PROVE  /\ Kind = "Optimisation" => BestOf(Space \ spawned)
                      /\ Kind = "Decision" =>
                           \A n \in Space \ spawned : Obj[n] = expectedObjective =>
                               Obj[incumbent] = expectedObjective
    BY DEF BestOfProcessed
  <2>1. Kind = "Optimisation" => BestOf(Space \ spawned)
    BY <1>1, ReturnedSettled DEF BestOf, Goal
  <2>2. ASSUME Kind = "Decision",
               NEW n \in Space \ spawned, Obj[n] = expectedObjective
        PROVE  Obj[incumbent] = expectedObjective
    <3>1. Obj[n] <= Obj[incumbent]
      BY <1>1, <2>2, ReturnedSettled DEF Goal
    <3>2. Obj[incumbent] <= expectedObjective /\ Obj[incumbent] \in Nat
      BY <1>1, <2>2, ObjNat DEF AnswerInv, Base, Shape, ProcessInv, StopsSolved, SharedTyped
    <3> QED
      BY <2>2, <3>1, <3>2, BoundAssumption
  <2> QED
    BY <2>1, <2>2
<1> QED
  BY InitAnswer, NextAnswer, <1>1, PTL DEF Spec
=============================================================================

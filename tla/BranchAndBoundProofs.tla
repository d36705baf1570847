------------------------ MODULE BranchAndBoundProofs ------------------------
(***************************************************************************)
(* Proofs about BranchAndBound for any tree, objectives and bounds that    *)
(* satisfy the modules' assumptions, any schedulers and localities, and    *)
(* whether or not the broadcasts arrive.                                   *)
(***************************************************************************)
EXTENDS BranchAndBound, ProcessNodeProofs

\* A scheduler at work has a frame; it is the last one that it works on.
HasFrame == \A w \in Worker : pc[w] # "free" => stack[w] # <<>>

Shape == TypeOK /\ HasFrame /\ ProcessInv

LEMMA NoEnumeration == tags \in Tags => Kind \in {"Optimisation", "Decision"}
BY BoundAssumption, BranchAssumption DEF Kind, Kinds

LEMMA InitShape == Init => Shape
<1> SUFFICES ASSUME Init PROVE Shape
  OBVIOUS
<1>1. TypeOK
  BY BoundAssumption, TreeAssumption DEF Init, ProcessInit, SharedInit, TypeOK,
     ProcessTypeOK, ProcessPlaces, Answers, Zero
<1>2. HasFrame
  BY DEF Init, ProcessInit, HasFrame
<1>3. ProcessInv
  BY SharedInitInv DEF Init, ProcessInit, Acting
<1> QED
  BY <1>1, <1>2, <1>3 DEF Shape

\* The last frame of a scheduler at work, and the stack without it.
LEMMA FrameTyped ==
    ASSUME Shape, NEW w \in Worker, pc[w] # "free"
    PROVE  /\ stack[w] \in Seq(Node \X (Nat \ {0}))
           /\ Len(stack[w]) \in Nat \ {0}
           /\ Frame(w) = stack[w][Len(stack[w])]
           /\ Frame(w) \in Node \X (Nat \ {0})
           /\ Current(w) \in Node /\ Frame(w)[2] \in Nat \ {0}
           /\ Caller(w) \in Seq(Node \X (Nat \ {0}))
           /\ Len(Caller(w)) = Len(stack[w]) - 1
           /\ \A i \in 1..Len(stack[w]) - 1 : Caller(w)[i] = stack[w][i]
<1> DEFINE F == Node \X (Nat \ {0})
           s == stack[w]
<1>1. s \in Seq(F) /\ s # <<>>
  BY DEF Shape, TypeOK, HasFrame
<1>2. Len(s) \in Nat \ {0} /\ \A i \in 1..Len(s) : s[i] \in F
  BY <1>1, EmptySeq, ElementOfSeq
<1>3. Frame(w) = s[Len(s)] /\ Frame(w) \in F
  BY <1>2 DEF Frame
<1>4. Current(w) \in Node /\ Frame(w)[2] \in Nat \ {0}
  BY <1>3 DEF Current
<1>5. /\ Caller(w) \in Seq(F) /\ Len(Caller(w)) = Len(s) - 1
      /\ \A i \in 1..Len(s) - 1 : Caller(w)[i] = s[i]
  BY <1>2, SubSeqProperties DEF Caller
<1> QED
  BY <1>1, <1>2, <1>3, <1>4, <1>5

\* The place a scheduler goes to, and the places of the others.
LEMMA GotoPlace ==
    ASSUME TypeOK, NEW w \in Worker, NEW p \in ProcessPlaces \cup {"expand"}, Goto(w, p)
    PROVE  /\ pc' \in [Worker -> ProcessPlaces \cup {"expand"}] /\ pc'[w] = p
           /\ pc' = [v \in Worker |-> pc'[v]]
           /\ \A v \in Worker \ {w} : pc'[v] = pc[v]
BY DEF TypeOK, Goto

\* Steps of the skeleton itself change a scheduler's place, its child and its
\* stack only.
LEMMA SkeletonShape ==
    ASSUME Shape, NEW w \in Worker, UNCHANGED <<tags, ret, acc, shared_vars, main>>,
           NEW p \in {"free", "expand", "process"}, Goto(w, p), pc[w] \notin Acting,
           child' \in [Worker -> Node \cup {NoNode}],
           \A v \in Worker \ {w} : child'[v] = child[v] /\ stack'[v] = stack[v],
           p = "process" => child'[w] \in Node,
           stack' \in [Worker -> Seq(Node \X (Nat \ {0}))],
           p # "free" => stack'[w] # <<>>,
           tasks' \subseteq Node
    PROVE  Shape'
<1>1. /\ pc' \in [Worker -> ProcessPlaces \cup {"expand"}] /\ pc'[w] = p
      /\ pc' = [v \in Worker |-> pc'[v]]
      /\ \A v \in Worker \ {w} : pc'[v] = pc[v]
  BY GotoPlace DEF Shape, ProcessPlaces
<1>2. TypeOK'
  BY <1>1 DEF Shape, TypeOK, ProcessTypeOK, shared_vars
<1>3. HasFrame'
  BY <1>1 DEF Shape, HasFrame
<1>4. ProcessInv'
  BY <1>1, SkeletonStep DEF Shape, Acting
<1> QED
  BY <1>2, <1>3, <1>4 DEF Shape

LEMMA ProcessTyped ==
    ASSUME Shape, NEW w \in Worker, ProcessChild(w)
    PROVE  Shape'
<1>1. ProcessInv'
  BY ProcessStep DEF ProcessChild, Shape
<1>2. PICK p \in {"objective", "raise", "submit", "flag", "answered"} : Goto(w, p)
  BY DEF ProcessChild, Process, ProcessCounted, ProcessFound, ProcessHopeless,
     ProcessAlive, CheckObjective, RaiseBound, SubmitIncumbent, StopOthers, Answer
<1>3. /\ pc' \in [Worker -> ProcessPlaces \cup {"expand"}] /\ pc'[w] = p
      /\ \A v \in Worker \ {w} : pc'[v] = pc[v]
  BY <1>2, GotoPlace DEF Shape, ProcessPlaces
<1>4. ret' \in [Worker -> Answers] /\ pc[w] # "free"
  BY DEF ProcessChild, Process, ProcessCounted, ProcessFound, ProcessHopeless,
     ProcessAlive, CheckObjective, RaiseBound, SubmitIncumbent, StopOthers, Answer,
     Answers, Shape, TypeOK, ProcessTypeOK
<1>5. UNCHANGED acc
  BY NoEnumeration
  DEF ProcessChild, Process, ProcessCounted, ProcessFound, ProcessHopeless,
     ProcessAlive, CheckObjective, RaiseBound, SubmitIncumbent, StopOthers,
     Shape, TypeOK, ProcessTypeOK
<1>6. TypeOK'
  BY <1>1, <1>3, <1>4, <1>5
  DEF ProcessInv, SharedTyped, Shape, TypeOK, ProcessTypeOK, ProcessChild
<1>7. HasFrame'
  BY <1>3, <1>4 DEF Shape, HasFrame, ProcessChild
<1> QED
  BY <1>1, <1>6, <1>7 DEF Shape
-----------------------------------------------------------------------------
\* What the steps do to the stack of the scheduler that takes them.
LEMMA LeaveFrameStack ==
    ASSUME Shape, NEW w \in Worker, pc[w] # "free", LeaveFrame(w)
    PROVE  /\ stack'[w] = Caller(w)
           /\ \A v \in Worker \ {w} : stack'[v] = stack[v]
           /\ \E p \in {"free", "expand"} :
                 Goto(w, p) /\ (p # "free" => stack'[w] # <<>>)
           /\ stack' \in [Worker -> Seq(Node \X (Nat \ {0}))]
<1> DEFINE F == Node \X (Nat \ {0})
<1>1. /\ Caller(w) \in Seq(F) /\ Len(Caller(w)) = Len(stack[w]) - 1
      /\ Len(stack[w]) \in Nat \ {0}
  BY FrameTyped
<1>2. stack \in [Worker -> Seq(F)]
  BY DEF Shape, TypeOK
<1>3. /\ stack'[w] = Caller(w) /\ stack' \in [Worker -> Seq(F)]
      /\ \A v \in Worker \ {w} : stack'[v] = stack[v]
  BY <1>1, <1>2 DEF LeaveFrame
<1>4. Len(stack[w]) # 1 => Caller(w) # <<>>
  <2>1. Len(<<>>) = 0
    OBVIOUS
  <2>2. Caller(w) = <<>> => Len(Caller(w)) = 0
    BY <2>1
  <2> QED
    BY <1>1, <2>2
<1> QED
  BY <1>3, <1>4 DEF LeaveFrame

LEMMA NextChildStack ==
    ASSUME Shape, NEW w \in Worker, NextChild(w)
    PROVE  /\ stack' \in [Worker -> Seq(Node \X (Nat \ {0}))]
           /\ stack'[w] # <<>> /\ Len(stack'[w]) = Len(stack[w])
           /\ stack'[w][Len(stack[w])] = <<Current(w), Frame(w)[2] + 1>>
           /\ \A i \in 1..Len(stack[w]) - 1 : stack'[w][i] = stack[w][i]
           /\ \A v \in Worker \ {w} : stack'[v] = stack[v]
           /\ Frame(w)[2] \in 1..numChildren(Current(w))
           /\ child'[w] = Child(Current(w), Frame(w)[2]) /\ child'[w] \in Node
           /\ \A v \in Worker \ {w} : child'[v] = child[v]
           /\ child' \in [Worker -> Node \cup {NoNode}]
<1> DEFINE F == Node \X (Nat \ {0})
           s == stack[w]
           top == <<Current(w), Frame(w)[2] + 1>>
<1>1. /\ s \in Seq(F) /\ Len(s) \in Nat \ {0} /\ Frame(w) = s[Len(s)]
      /\ Current(w) \in Node /\ Frame(w)[2] \in Nat \ {0} /\ Frame(w) \in F
  BY FrameTyped DEF NextChild
<1>2. stack \in [Worker -> Seq(F)] /\ child \in [Worker -> Node \cup {NoNode}]
  BY DEF Shape, TypeOK, ProcessTypeOK
<1>3. stack'[w] = [s EXCEPT ![Len(s)] = top]
  <2>1. stack' = [stack EXCEPT ![w] = [s EXCEPT ![Len(s)] =
                                          [s[Len(s)] EXCEPT ![2] = Frame(w)[2] + 1]]]
    BY <1>1, <1>2 DEF NextChild
  <2>2. [s[Len(s)] EXCEPT ![2] = Frame(w)[2] + 1] = top
    BY <1>1 DEF Current
  <2> QED
    BY <1>2, <2>1, <2>2
<1>4. top \in F
  BY <1>1
<1>5. /\ stack'[w] \in Seq(F) /\ Len(stack'[w]) = Len(s) /\ stack'[w][Len(s)] = top
      /\ \A i \in 1..Len(s) - 1 : stack'[w][i] = s[i]
  BY <1>1, <1>3, <1>4, ExceptSeq
<1>6. /\ \A v \in Worker \ {w} : stack'[v] = stack[v]
      /\ stack' \in [Worker -> Seq(F)] /\ stack'[w] # <<>>
  <2>1. stack' = [stack EXCEPT ![w] = stack'[w]]
    BY <1>2 DEF NextChild
  <2>2. stack'[w] # <<>>
    BY <1>1, <1>5, EmptySeq
  <2> QED
    BY <1>2, <1>5, <2>1, <2>2
<1>7. Frame(w)[2] \in 1..numChildren(Current(w))
  BY <1>1, NumChildrenNat DEF NextChild
<1>8. Child(Current(w), Frame(w)[2]) \in Node
  BY <1>1, <1>7, ChildInTree
<1>9. /\ child'[w] = Child(Current(w), Frame(w)[2])
      /\ \A v \in Worker \ {w} : child'[v] = child[v]
      /\ child' \in [Worker -> Node \cup {NoNode}]
  BY <1>2, <1>8 DEF NextChild
<1> QED
  BY <1>5, <1>6, <1>7, <1>8, <1>9

LEMMA DescendStack ==
    ASSUME Shape, NEW w \in Worker, pc[w] = "answered", Descend(w, child[w])
    PROVE  /\ child[w] \in Node
           /\ stack'[w] \in {stack[w], Append(stack[w], <<child[w], 1>>)}
           /\ stack' \in [Worker -> Seq(Node \X (Nat \ {0}))] /\ stack'[w] # <<>>
           /\ \A v \in Worker \ {w} : stack'[v] = stack[v]
           /\ tasks' \subseteq Node /\ tasks \subseteq tasks'
           /\ \/ child[w] \in tasks' /\ UNCHANGED stack
              \/ UNCHANGED <<tasks, stack>> /\ Stopped(w)
              \/ UNCHANGED tasks /\ stack'[w] = Append(stack[w], <<child[w], 1>>)
<1> DEFINE F == Node \X (Nat \ {0})
           t == Append(stack[w], <<child[w], 1>>)
<1>1. child[w] \in Node
  BY DEF Shape, ProcessInv, InHand
<1>2. stack[w] \in Seq(F) /\ stack[w] # <<>> /\ tasks \subseteq Node
      /\ stack \in [Worker -> Seq(F)]
  BY FrameTyped DEF Shape, TypeOK, HasFrame
<1>3. t \in Seq(F) /\ t # <<>>
  <2>1. <<child[w], 1>> \in F
    BY <1>1
  <2> QED
    BY <1>2, <2>1, AppendProperties
<1> QED
  BY <1>1, <1>2, <1>3 DEF Descend
-----------------------------------------------------------------------------
LEMMA StepShape ==
    ASSUME Shape, NEW w \in Worker, Step(w)
    PROVE  Shape'
<1> DEFINE F == Node \X (Nat \ {0})
<1>0. child \in [Worker -> Node \cup {NoNode}] /\ tasks \subseteq Node
      /\ stack \in [Worker -> Seq(F)]
  BY DEF Shape, TypeOK, ProcessTypeOK
<1>1. ASSUME NEW n \in tasks, Take(w, n) PROVE Shape'
  <2>1. CASE ~ Spawns(n) /\ Stopped(w)
    <3>1. UNCHANGED <<process_vars, stack, main>> /\ tasks' \subseteq Node
      BY <1>0, <1>1, <2>1 DEF Take, process_vars
    <3>2. ProcessInv'
      BY <3>1, QuietStep DEF Shape, process_vars
    <3> QED
      BY <3>1, <3>2 DEF Shape, TypeOK, ProcessTypeOK, HasFrame, process_vars, shared_vars
  <2>2. CASE ~ (~ Spawns(n) /\ Stopped(w))
    <3>1. <<<<n, 1>>>> \in Seq(F) /\ <<<<n, 1>>>> # <<>>
      BY <1>0, <1>1
    <3>2. /\ Goto(w, "expand") /\ stack' = [stack EXCEPT ![w] = <<<<n, 1>>>>]
          /\ pc[w] = "free" /\ tasks' \subseteq Node
          /\ UNCHANGED <<tags, child, ret, acc, shared_vars, main>>
      BY <1>0, <1>1, <2>2 DEF Take
    <3> QED
      BY <1>0, <3>1, <3>2, SkeletonShape DEF Acting
  <2> QED
    BY <2>1, <2>2
<1>2. ASSUME LeaveFrame(w), pc[w] \in {"expand", "answered"},
             UNCHANGED <<tags, child, ret, acc, shared_vars, tasks, main>>
      PROVE  Shape'
  BY <1>0, <1>2, LeaveFrameStack, SkeletonShape DEF Acting
<1>3. CASE Leave(w) \/ Break(w) \/ Exit(w)
  BY <1>2, <1>3 DEF Leave, Break, Exit
<1>4. CASE NextChild(w)
  <2>1. /\ Goto(w, "process") /\ pc[w] = "expand"
        /\ UNCHANGED <<tags, ret, acc, shared_vars, tasks, main>>
    BY <1>4 DEF NextChild
  <2> QED
    BY <1>0, <1>4, <2>1, NextChildStack, SkeletonShape DEF Acting
<1>5. CASE ProcessChild(w)
  BY <1>5, ProcessTyped
<1>6. ASSUME Descend(w, child[w]), pc[w] = "answered", Goto(w, "expand"),
             UNCHANGED <<tags, child, ret, acc, shared_vars, main>>
      PROVE  Shape'
  BY <1>0, <1>6, DescendStack, SkeletonShape DEF Acting
<1>7. CASE Continue(w)
  BY <1>6, <1>7 DEF Continue
<1>8. CASE Prune(w)
  <2>1. CASE Spawns(Current(w))
    BY <1>6, <1>8, <2>1 DEF Prune
  <2>2. CASE ~ Spawns(Current(w))
    <3>1. stack[w] # <<>>
      BY <1>8 DEF Shape, HasFrame, Prune
    <3> QED
      BY <1>0, <1>8, <2>2, <3>1, SkeletonShape DEF Prune, Acting
  <2> QED
    BY <2>1, <2>2
<1> QED
  BY <1>1, <1>3, <1>4, <1>5, <1>7, <1>8 DEF Step

LEMMA NextShape == Shape /\ [Next]_vars => Shape'
<1> SUFFICES ASSUME Shape, [Next]_vars PROVE Shape'
  OBVIOUS
<1>1. CASE CreateRoot \/ Return \/ UNCHANGED vars
  <2>1. UNCHANGED <<process_vars, stack>>
    BY <1>1 DEF CreateRoot, Return, vars
  <2>2. tasks' \subseteq Node /\ main' \in {"create", "await", "returned"}
    BY <1>1, TreeAssumption DEF CreateRoot, Return, vars, Shape, TypeOK
  <2>3. ProcessInv'
    BY <2>1, QuietStep DEF Shape, process_vars
  <2> QED
    BY <2>1, <2>2, <2>3 DEF Shape, TypeOK, ProcessTypeOK, HasFrame, process_vars,
       shared_vars
<1>2. CASE Deliver
  <2>1. ProcessInv'
    BY <1>2, ReceiveStep DEF Shape, Deliver
  <2>2. UNCHANGED <<tags, pc, child, ret, acc, tasks, stack, main>>
    BY <1>2 DEF Deliver, Receive, ReceiveBound, ReceiveStop
  <2> QED
    BY <2>1, <2>2 DEF Shape, TypeOK, ProcessTypeOK, HasFrame, ProcessInv, SharedTyped
<1>3. CASE \E w \in Worker : Step(w)
  BY <1>3, StepShape
<1> QED
  BY <1>1, <1>2, <1>3 DEF Next

\* The state of the search is well typed.
THEOREM TypeCorrect == Spec => []TypeOK
BY InitShape, NextShape, PTL DEF Spec, Shape

\* No locality prunes with a bound whose solution could still be lost, though
\* the broadcasts overtake the submission of the solutions.
THEOREM BoundsAreBacked == Spec => []BoundsBacked
<1>1. Shape => BoundsBacked
  BY DEF Shape, ProcessInv
<1> QED
  BY InitShape, NextShape, <1>1, PTL DEF Spec

\* No locality stops searching before the solution has reached the incumbent.
THEOREM StopsAreBacked == Spec => []StopOnlyIfFound
<1>1. Shape => StopOnlyIfFound
  BY ProcessInvSafe DEF Shape
<1> QED
  BY InitShape, NextShape, <1>1, PTL DEF Spec
-----------------------------------------------------------------------------
\* The argument for the answer: a node that matters is settled, or below a task
\* or a frame or in the hands of a scheduler.

BelowTask(n) == \E t \in tasks : n \in Below(t)

Pending(n) == BelowTask(n) \/ \E w \in Worker : OnStack(stack[w], n) \/ AtChild(w, n)

Covered == main # "create" =>
              \A n \in Node : Goal(n) => Settled(n) \/ Pending(n)

\* A scheduler may leave the level once it has been told so: the bound that
\* pruned the child bounds its later siblings, too.
BreakSettled ==
    \A w \in Worker : pc[w] = "answered" /\ ret[w] = "Break" =>
        \A n \in Node : Goal(n) /\ FrameHas(stack[w], Len(stack[w]), n) => Settled(n)

ExitSolved == \A w \in Worker : pc[w] = "answered" /\ ret[w] = "Exit" => Solved

\* The root is never given to processNode, and need not be.
RootSettled == Obj[Root] <= Obj[incumbent]

\* The child in hand is the one its frame has just generated.
ChildAtFrame ==
    \A w \in Worker : pc[w] = "process" =>
        /\ Frame(w)[2] - 1 \in 1..numChildren(Current(w))
        /\ child[w] = Child(Current(w), Frame(w)[2] - 1)

\* Nothing is left when the search returns.
Quiet == /\ main \in {"create", "returned"} => /\ tasks = {}
                                             /\ \A w \in Worker : pc[w] = "free"
         /\ \A w \in Worker : pc[w] = "free" => stack[w] = <<>>

Inv == /\ Shape /\ Covered /\ BreakSettled /\ ExitSolved /\ RootSettled
       /\ ChildAtFrame /\ Quiet

LEMMA InitInv == Init => Inv
<1> SUFFICES ASSUME Init PROVE Inv
  OBVIOUS
<1>1. Obj[Root] \in Nat
  BY ObjNat, TreeAssumption
<1> QED
  BY <1>1, InitShape DEF Init, ProcessInit, SharedInit, Inv, Covered, BreakSettled,
     ExitSolved, RootSettled, ChildAtFrame, Quiet

\* Steps of the skeleton itself: it is enough that the scheduler and the tasks
\* keep what they have, or what they drop is settled.
LEMMA SkeletonInv ==
    ASSUME Inv, Shape', NEW w \in Worker, UNCHANGED <<tags, ret, shared_vars, main>>,
           main = "await",
           NEW p \in {"free", "expand", "process"}, Goto(w, p), pc[w] \notin Acting,
           \A v \in Worker \ {w} : child'[v] = child[v] /\ stack'[v] = stack[v],
           p = "free" => stack'[w] = <<>>,
           p = "process" => /\ Frame(w)'[2] - 1 \in 1..numChildren(Current(w)')
                            /\ child'[w] = Child(Current(w)', Frame(w)'[2] - 1),
           \A n \in Node : Goal(n) /\ (BelowTask(n) \/ OnStack(stack[w], n) \/ AtChild(w, n))
               => Settled(n) \/ BelowTask(n)' \/ OnStack(stack[w], n)' \/ AtChild(w, n)'
    PROVE  Inv'
<1>1. /\ pc'[w] = p /\ \A v \in Worker \ {w} : pc'[v] = pc[v]
  BY GotoPlace DEF Inv, Shape, ProcessPlaces
<1>2. ASSUME NEW n \in Node, Settled(n) PROVE Settled(n)'
  BY <1>1, <1>2 DEF Settled, Acting, shared_vars
<1>3. Covered'
  <2> SUFFICES ASSUME NEW n \in Node, Goal(n)' PROVE Settled(n)' \/ Pending(n)'
    BY DEF Covered
  <2>1. Goal(n)
    BY DEF Goal, Kind
  <2>2. Settled(n) \/ Pending(n)
    BY <2>1 DEF Inv, Covered
  <2>3. CASE \E v \in Worker \ {w} : OnStack(stack[v], n) \/ AtChild(v, n)
    <3>1. PICK v \in Worker \ {w} : OnStack(stack[v], n) \/ AtChild(v, n)
      BY <2>3
    <3>2. OnStack(stack[v], n)' \/ AtChild(v, n)'
      BY <1>1, <3>1 DEF OnStack, FrameHas, AtChild
    <3> QED
      BY <3>2 DEF Pending
  <2>4. CASE BelowTask(n) \/ OnStack(stack[w], n) \/ AtChild(w, n)
    BY <1>2, <2>1, <2>4 DEF Pending
  <2> QED
    BY <1>2, <2>2, <2>3, <2>4 DEF Pending
<1>4. BreakSettled'
  <2> SUFFICES ASSUME NEW v \in Worker, pc'[v] = "answered", ret'[v] = "Break",
                      NEW n \in Node, Goal(n)', FrameHas(stack[v], Len(stack[v]), n)'
               PROVE  Settled(n)'
    BY DEF BreakSettled
  <2>1. v # w /\ Goal(n) /\ FrameHas(stack[v], Len(stack[v]), n)
    BY <1>1 DEF Goal, Kind, FrameHas
  <2> QED
    BY <1>1, <1>2, <2>1 DEF Inv, BreakSettled
<1>5. ExitSolved' /\ RootSettled'
  BY <1>1 DEF Inv, ExitSolved, RootSettled, Solved, Kind, shared_vars
<1>6. ChildAtFrame'
  BY <1>1 DEF Inv, ChildAtFrame, Frame, Current
<1>7. Quiet'
  BY <1>1 DEF Inv, Quiet
<1> QED
  BY <1>3, <1>4, <1>5, <1>6, <1>7 DEF Inv
-----------------------------------------------------------------------------
LEMMA Working ==
    ASSUME Inv, NEW w \in Worker, tasks # {} \/ pc[w] # "free"
    PROVE  main = "await"
BY DEF Inv, Quiet, Shape, TypeOK

\* A new task: what was below it is now to come from its first frame.
LEMMA TakeInv ==
    ASSUME Inv, NEW w \in Worker, NEW t \in tasks, Take(w, t)
    PROVE  Inv'
<1>0. /\ Shape' /\ t \in Node /\ pc[w] = "free" /\ stack[w] = <<>>
      /\ tasks' = tasks \ {t} /\ main = "await"
      /\ stack \in [Worker -> Seq(Node \X (Nat \ {0}))]
  BY Working, StepShape DEF Inv, Shape, TypeOK, Quiet, Take, Step
<1>1. CASE ~ Spawns(t) /\ Stopped(w)
  <2>1. UNCHANGED <<process_vars, stack, main>>
    BY <1>1 DEF Take, process_vars
  <2>2. home[w] \in Locality /\ Solved
    BY <1>1, BoundAssumption DEF Stopped, Inv, Shape, ProcessInv, StopsSolved
  <2>3. ASSUME NEW n \in Node, Goal(n) PROVE Settled(n)
    BY <2>2, <2>3, SolvedSettles DEF Inv, Shape
  <2>4. \A n \in Node : Goal(n)' => Settled(n)'
    BY <2>1, <2>3 DEF Goal, Kind, Settled, process_vars, shared_vars
  <2>5. Covered' /\ BreakSettled'
    BY <2>4 DEF Covered, BreakSettled
  <2>6. ExitSolved' /\ RootSettled' /\ ChildAtFrame'
    BY <2>1 DEF Inv, ExitSolved, RootSettled, ChildAtFrame, Solved, Kind, Frame,
       Current, process_vars, shared_vars
  <2>7. Quiet'
    BY <1>0, <2>1 DEF Inv, Quiet, process_vars
  <2> QED
    BY <1>0, <2>5, <2>6, <2>7 DEF Inv
<1>2. CASE ~ (~ Spawns(t) /\ Stopped(w))
  <2> DEFINE s == <<<<t, 1>>>>
  <2>1. /\ stack' = [stack EXCEPT ![w] = s] /\ Goto(w, "expand")
        /\ UNCHANGED <<tags, child, ret, acc, shared_vars, main>>
    BY <1>2 DEF Take
  <2>2. stack'[w] = s /\ \A v \in Worker \ {w} : stack'[v] = stack[v]
    BY <1>0, <2>1
  <2>3. ASSUME NEW n \in Node, BelowTask(n) \/ OnStack(stack[w], n) \/ AtChild(w, n)
        PROVE  BelowTask(n)' \/ OnStack(stack[w], n)'
    <3>1. BelowTask(n)
      BY <1>0, <2>3 DEF OnStack, AtChild
    <3>2. CASE n \in Below(t)
      <4>1. PICK j \in 1..numChildren(t) : n \in Subtree(Child(t, j))
        BY <1>0, <3>2, BelowThroughChild DEF Subtree
      <4>2. FrameHas(s, 1, n)
        BY <4>1 DEF FrameHas
      <4>3. Len(s) = 1
        OBVIOUS
      <4>4. OnStack(s, n)
        BY <4>2, <4>3 DEF OnStack
      <4> QED
        BY <2>2, <4>4 DEF OnStack, FrameHas
    <3>3. CASE n \notin Below(t)
      BY <1>0, <3>1, <3>3 DEF BelowTask
    <3> QED
      BY <3>2, <3>3
  <2> QED
    BY <1>0, <2>1, <2>2, <2>3, SkeletonInv DEF Acting
<1> QED
  BY <1>1, <1>2

\* A frame may be left when nothing that matters is to come from it.
LEMMA LeaveInv ==
    ASSUME Inv, Shape', NEW w \in Worker, LeaveFrame(w),
           \/ pc[w] = "expand"
           \/ pc[w] = "answered" /\ ret[w] # "Continue",
           UNCHANGED <<tags, child, ret, acc, shared_vars, tasks, main>>,
           \A n \in Node : Goal(n) /\ FrameHas(stack[w], Len(stack[w]), n) => Settled(n)
    PROVE  Inv'
<1>1. /\ stack'[w] = Caller(w) /\ \A v \in Worker \ {w} : stack'[v] = stack[v]
      /\ Len(stack[w]) \in Nat \ {0} /\ Len(Caller(w)) = Len(stack[w]) - 1
      /\ \A i \in 1..Len(stack[w]) - 1 : Caller(w)[i] = stack[w][i]
      /\ Caller(w) \in Seq(Node \X (Nat \ {0})) /\ main = "await"
  BY FrameTyped, LeaveFrameStack, Working DEF Inv
<1>2. PICK p \in {"free", "expand"} : Goto(w, p) /\ (p = "free" => Len(stack[w]) = 1)
  BY DEF LeaveFrame
<1>3. p = "free" => stack'[w] = <<>>
  <2>1. \A q \in Seq(Node \X (Nat \ {0})) : Len(q) = 0 => q = <<>>
    BY EmptySeq
  <2>2. p = "free" => Len(Caller(w)) = 0
    BY <1>1, <1>2
  <2> QED
    BY <1>1, <2>1, <2>2
<1>4. ASSUME NEW n \in Node, Goal(n),
             BelowTask(n) \/ OnStack(stack[w], n) \/ AtChild(w, n)
      PROVE  Settled(n) \/ BelowTask(n)' \/ OnStack(stack[w], n)'
  <2>1. ~ AtChild(w, n)
    BY DEF AtChild
  <2>2. CASE BelowTask(n)
    BY <2>2 DEF BelowTask
  <2>3. CASE OnStack(stack[w], n)
    <3>1. PICK i \in 1..Len(stack[w]) : FrameHas(stack[w], i, n)
      BY <2>3 DEF OnStack
    <3>2. CASE i = Len(stack[w])
      BY <1>4, <3>1, <3>2
    <3>3. CASE i # Len(stack[w])
      <4>1. i \in 1..Len(Caller(w)) /\ Caller(w)[i] = stack[w][i]
        BY <1>1, <3>3
      <4>2. FrameHas(Caller(w), i, n)
        BY <3>1, <4>1 DEF FrameHas
      <4>3. OnStack(Caller(w), n)
        BY <4>1, <4>2 DEF OnStack
      <4> QED
        BY <1>1, <4>3 DEF OnStack, FrameHas
    <3> QED
      BY <3>2, <3>3
  <2> QED
    BY <1>4, <2>1, <2>2, <2>3
<1> QED
  BY <1>1, <1>2, <1>3, <1>4, SkeletonInv DEF Acting

LEMMA NextChildInv ==
    ASSUME Inv, NEW w \in Worker, NextChild(w)
    PROVE  Inv'
<1> DEFINE s == stack[w]
           r == stack'[w]
           d == Len(s)
<1>0. /\ Shape' /\ main = "await" /\ pc[w] = "expand" /\ Goto(w, "process")
      /\ UNCHANGED <<tags, ret, acc, shared_vars, tasks, main>>
  BY Working, StepShape DEF Inv, NextChild, Step
<1>1. /\ s[d] = Frame(w) /\ d \in Nat \ {0} /\ Len(r) = d
      /\ Current(w) \in Node /\ Frame(w)[2] \in Nat \ {0}
      /\ r[d] = <<Current(w), Frame(w)[2] + 1>>
      /\ \A i \in 1..d - 1 : r[i] = s[i]
      /\ \A v \in Worker \ {w} : stack'[v] = stack[v] /\ child'[v] = child[v]
      /\ Frame(w)[2] \in 1..numChildren(Current(w))
      /\ child'[w] = Child(Current(w), Frame(w)[2])
  BY <1>0, FrameTyped, NextChildStack DEF Inv
<1>2. /\ Frame(w)'[2] - 1 \in 1..numChildren(Current(w)')
      /\ child'[w] = Child(Current(w)', Frame(w)'[2] - 1)
  <2>1. Frame(w)' = <<Current(w), Frame(w)[2] + 1>>
    BY <1>1 DEF Frame
  <2>2. Current(w)' = Current(w) /\ Frame(w)'[2] - 1 = Frame(w)[2]
    BY <1>1, <2>1 DEF Current
  <2> QED
    BY <1>1, <2>2
<1>3. pc'[w] = "process"
  BY <1>0, GotoPlace DEF Inv, Shape, ProcessPlaces
<1>4. ASSUME NEW n \in Node, OnStack(s, n) PROVE OnStack(r, n) \/ AtChild(w, n)'
  <2>1. PICK i \in 1..d : FrameHas(s, i, n)
    BY <1>4 DEF OnStack
  <2>2. CASE i # d
    <3>1. i \in 1..Len(r) /\ r[i] = s[i]
      BY <1>1, <2>2
    <3>2. FrameHas(r, i, n)
      BY <2>1, <3>1 DEF FrameHas
    <3> QED
      BY <3>1, <3>2 DEF OnStack
  <2>3. CASE i = d
    <3>1. PICK j \in 1..numChildren(Current(w)) :
             j >= Frame(w)[2] /\ n \in Subtree(Child(Current(w), j))
      BY <1>1, <2>1, <2>3 DEF FrameHas, Current
    <3>2. CASE j = Frame(w)[2]
      BY <1>1, <1>3, <3>1, <3>2 DEF AtChild
    <3>3. CASE j # Frame(w)[2]
      <4>1. j >= Frame(w)[2] + 1
        BY <1>1, <3>1, <3>3
      <4>2. r[d][1] = Current(w) /\ r[d][2] = Frame(w)[2] + 1
        BY <1>1
      <4>3. FrameHas(r, d, n)
        BY <3>1, <4>1, <4>2 DEF FrameHas
      <4> QED
        BY <1>1, <4>3 DEF OnStack
    <3> QED
      BY <3>2, <3>3
  <2> QED
    BY <2>2, <2>3
<1>5. ASSUME NEW n \in Node, BelowTask(n) \/ OnStack(stack[w], n) \/ AtChild(w, n)
      PROVE  BelowTask(n)' \/ OnStack(stack[w], n)' \/ AtChild(w, n)'
  <2>1. BelowTask(n) => BelowTask(n)'
    BY <1>0 DEF BelowTask
  <2>2. ~ AtChild(w, n)
    BY <1>0 DEF AtChild
  <2>3. OnStack(r, n) => OnStack(stack[w], n)'
    BY DEF OnStack, FrameHas
  <2> QED
    BY <1>4, <1>5, <2>1, <2>2, <2>3
<1> QED
  BY <1>0, <1>1, <1>2, <1>5, SkeletonInv DEF Acting

LEMMA LeaveStepInv ==
    ASSUME Inv, NEW w \in Worker, Leave(w) \/ Break(w) \/ Exit(w)
    PROVE  Inv'
<1>1. Shape' /\ Shape /\ LeaveFrame(w)
      /\ UNCHANGED <<tags, child, ret, acc, shared_vars, tasks, main>>
  BY StepShape DEF Inv, Step, Leave, Break, Exit
<1>2. CASE Leave(w)
  <2>1. /\ stack[w][Len(stack[w])] = Frame(w) /\ Current(w) = Frame(w)[1]
        /\ Frame(w)[2] \in Nat /\ numChildren(Current(w)) \in Nat
        /\ Frame(w)[2] > numChildren(Current(w)) /\ pc[w] = "expand"
    BY <1>1, <1>2, FrameTyped, NumChildrenNat DEF Leave, Current
  <2>2. \A n \in Node : ~ FrameHas(stack[w], Len(stack[w]), n)
    BY <2>1 DEF FrameHas
  <2> QED
    BY <1>1, <2>1, <2>2, LeaveInv
<1>3. CASE Break(w)
  BY <1>1, <1>3, LeaveInv DEF Break, Inv, BreakSettled
<1>4. CASE Exit(w)
  <2>1. Solved /\ ProcessInv
    BY <1>1, <1>4 DEF Exit, Inv, ExitSolved, Shape
  <2>2. \A n \in Node : Goal(n) => Settled(n)
    BY <2>1, SolvedSettles
  <2> QED
    BY <1>1, <1>4, <2>2, LeaveInv DEF Exit
<1> QED
  BY <1>2, <1>3, <1>4

\* What is below the child comes from its task or from its frame; if the stop
\* flag is up, nothing is left to find.
LEMMA DescendInv ==
    ASSUME Inv, Shape', NEW w \in Worker, pc[w] = "answered", Descend(w, child[w]),
           Goto(w, "expand"), UNCHANGED <<tags, child, ret, acc, shared_vars, main>>
    PROVE  Inv'
<1> DEFINE s == stack[w]
           t == Append(s, <<child[w], 1>>)
<1>0. Shape /\ main = "await"
  BY Working DEF Inv
<1>1. /\ child[w] \in Node /\ stack'[w] \in {s, t} /\ tasks \subseteq tasks'
      /\ \A v \in Worker \ {w} : stack'[v] = stack[v]
      /\ \/ child[w] \in tasks' /\ UNCHANGED stack
         \/ UNCHANGED <<tasks, stack>> /\ Stopped(w)
         \/ UNCHANGED tasks /\ stack'[w] = t
  BY <1>0, DescendStack
<1>2. /\ s \in Seq(Node \X (Nat \ {0})) /\ Len(s) \in Nat /\ Len(t) = Len(s) + 1
      /\ t[Len(s) + 1] = <<child[w], 1>>
      /\ \A i \in 1..Len(s) : t[i] = s[i]
  <2>1. s \in Seq(Node \X (Nat \ {0})) /\ Len(s) \in Nat
    BY <1>0, FrameTyped
  <2>2. <<child[w], 1>> \in Node \X (Nat \ {0})
    BY <1>1
  <2> QED
    BY <2>1, <2>2, AppendProperties
<1>3. ASSUME NEW n \in Node, OnStack(s, n) PROVE OnStack(stack'[w], n)
  <2>1. PICK i \in 1..Len(s) : FrameHas(s, i, n)
    BY <1>3 DEF OnStack
  <2>2. i \in 1..Len(t) /\ FrameHas(t, i, n)
    BY <1>2, <2>1 DEF FrameHas
  <2>3. OnStack(t, n)
    BY <2>2 DEF OnStack
  <2> QED
    BY <1>1, <1>3, <2>3
<1>4. ASSUME NEW n \in Node, Goal(n), n \in Below(child[w])
      PROVE  Settled(n) \/ BelowTask(n)' \/ OnStack(stack'[w], n)
  <2>1. CASE child[w] \in tasks'
    BY <1>4, <2>1 DEF BelowTask
  <2>2. CASE Stopped(w)
    <3>1. home[w] \in Locality /\ ProcessInv
      BY <1>0, BoundAssumption DEF Shape
    <3>2. Solved
      BY <2>2, <3>1 DEF Stopped, ProcessInv, StopsSolved
    <3> QED
      BY <1>4, <3>1, <3>2, SolvedSettles
  <2>3. CASE stack'[w] = t
    <3>1. PICK j \in 1..numChildren(child[w]) : n \in Subtree(Child(child[w], j))
      BY <1>1, <1>4, BelowThroughChild DEF Subtree
    <3>2. j >= 1
      BY <1>1, NumChildrenNat
    <3>3. FrameHas(t, Len(s) + 1, n)
      BY <1>2, <3>1, <3>2 DEF FrameHas
    <3>4. Len(s) + 1 \in 1..Len(t)
      BY <1>2
    <3>5. OnStack(t, n)
      BY <3>3, <3>4 DEF OnStack
    <3> QED
      BY <2>3, <3>5
  <2> QED
    BY <1>1, <2>1, <2>2, <2>3
<1>5. ASSUME NEW n \in Node, Goal(n),
             BelowTask(n) \/ OnStack(stack[w], n) \/ AtChild(w, n)
      PROVE  Settled(n) \/ BelowTask(n)' \/ OnStack(stack[w], n)'
  <2>1. AtChild(w, n) => n \in Below(child[w])
    BY DEF AtChild
  <2>2. BelowTask(n) => BelowTask(n)'
    BY <1>1 DEF BelowTask
  <2>3. OnStack(stack'[w], n) <=> OnStack(stack[w], n)'
    BY DEF OnStack, FrameHas
  <2> QED
    BY <1>3, <1>4, <1>5, <2>1, <2>2, <2>3
<1> QED
  BY <1>0, <1>1, <1>5, SkeletonInv DEF Acting

LEMMA AnsweredInv ==
    ASSUME Inv, NEW w \in Worker, Continue(w) \/ Prune(w)
    PROVE  Inv'
<1>1. Shape' /\ main = "await" /\ pc[w] = "answered" /\ Goto(w, "expand")
      /\ UNCHANGED <<tags, child, ret, acc, shared_vars, main>>
  BY StepShape, Working DEF Inv, Step, Continue, Prune
<1>2. CASE Descend(w, child[w])
  BY <1>1, <1>2, DescendInv
<1>3. CASE ret[w] = "Prune" /\ UNCHANGED <<tasks, stack>>
  <2>1. ASSUME NEW n \in Node, BelowTask(n) \/ OnStack(stack[w], n) \/ AtChild(w, n)
        PROVE  BelowTask(n)' \/ OnStack(stack[w], n)'
    BY <1>1, <1>3, <2>1 DEF AtChild, BelowTask, OnStack, FrameHas
  <2> QED
    BY <1>1, <1>3, <2>1, SkeletonInv DEF Acting
<1> QED
  BY <1>2, <1>3 DEF Continue, Prune

\* A step of processNode: by the lemmas of ProcessNodeProofs for the node in
\* hand, and because siblings come in the order of their bounds for PruneLevel.
LEMMA ProcessChildInv ==
    ASSUME Inv, NEW w \in Worker, ProcessChild(w)
    PROVE  Inv'
<1>0. /\ Shape /\ Shape' /\ ProcessInv /\ Process(w) /\ home[w] \in Locality
      /\ ret \in [Worker -> Answers] /\ UNCHANGED <<tasks, stack, main>>
      /\ tags \in Tags /\ Kind \in {"Optimisation", "Decision"}
  BY StepShape, NoEnumeration, BoundAssumption
  DEF Inv, Step, ProcessChild, Shape, TypeOK, ProcessTypeOK
<1>1. /\ UNCHANGED <<tags, child>>
      /\ \A v \in Worker \ {w} : pc'[v] = pc[v] /\ ret'[v] = ret[v]
      /\ pc'[w] = "answered" /\ ret'[w] = "Break" =>
            /\ pc[w] = "process" /\ PruneLevel
            /\ Hopeless(child[w], localBound[home[w]])
      /\ pc'[w] = "answered" /\ ret'[w] = "Exit" => Solved'
      /\ pc'[w] # "process" /\ pc[w] # "free"
  BY <1>0, ProcessMoves
  DEF Process, ProcessCounted, ProcessFound, ProcessHopeless, ProcessAlive,
     CheckObjective, RaiseBound, SubmitIncumbent, StopOthers
<1>2. main = "await" /\ pc'[w] # "free"
  <2>1. pc'[w] \in {"objective", "raise", "submit", "flag", "answered"}
    BY <1>0 DEF Process, ProcessCounted, ProcessFound, ProcessHopeless,
       ProcessAlive, CheckObjective, RaiseBound, SubmitIncumbent, StopOthers, Answer,
       Goto, ProcessInv, SharedTyped
  <2> QED
    BY <1>1, <2>1, Working
<1>3. \A n \in Node : Settled(n) => Settled(n)'
  BY <1>0, SettledKept
<1>4. \A n : Goal(n)' <=> Goal(n)
  BY <1>1 DEF Goal, Kind
<1>5. Covered'
  <2> SUFFICES ASSUME NEW n \in Node, Goal(n) PROVE Settled(n)' \/ Pending(n)'
    BY <1>4 DEF Covered
  <2>1. Settled(n) \/ Pending(n)
    BY <1>2 DEF Inv, Covered
  <2>2. CASE BelowTask(n)
    BY <1>0, <2>2 DEF BelowTask, Pending
  <2>3. ASSUME NEW v \in Worker, OnStack(stack[v], n) PROVE Pending(n)'
    BY <1>0, <2>3 DEF OnStack, FrameHas, Pending
  <2>4. ASSUME NEW v \in Worker, v # w, AtChild(v, n) PROVE Pending(n)'
    BY <1>1, <2>4 DEF AtChild, Pending
  <2>5. CASE AtChild(w, n)
    <3>1. Settled(n)' \/ AtChild(w, n)'
      BY <1>0, <2>5, InHandKept
    <3> QED
      BY <3>1 DEF Pending
  <2> QED
    BY <1>3, <2>1, <2>2, <2>3, <2>4, <2>5 DEF Pending
<1>6. BreakSettled'
  <2> SUFFICES ASSUME NEW v \in Worker, pc'[v] = "answered", ret'[v] = "Break",
                      NEW n \in Node, Goal(n), FrameHas(stack[v], Len(stack[v]), n)
               PROVE  Settled(n)
    BY <1>0, <1>3, <1>4 DEF BreakSettled, FrameHas
  <2>1. CASE v # w
    BY <1>1, <2>1 DEF Inv, BreakSettled
  <2>2. CASE v = w
    <3> DEFINE p == Current(w)
               i == Frame(w)[2] - 1
    <3>1. /\ p \in Node /\ Frame(w)[2] \in Nat /\ i \in 1..numChildren(p)
          /\ child[w] = Child(p, i) /\ child[w] \in Node
          /\ stack[w][Len(stack[w])] = Frame(w) /\ Frame(w)[1] = p
      BY <1>0, <1>1, <2>2, FrameTyped, ChildInTree DEF Inv, ChildAtFrame, Current
    <3>2. PICK j \in 1..numChildren(p) : j >= Frame(w)[2] /\ n \in Subtree(Child(p, j))
      BY <2>2, <3>1 DEF FrameHas
    <3>3. Child(p, j) \in Node /\ i < j
      BY <3>1, <3>2, ChildInTree, NumChildrenNat
    <3>4. Bound[Child(p, j)] <= Bound[child[w]] /\ Obj[n] <= Bound[Child(p, j)]
      <4>1. \E t \in Tags : t.pruneLevel
        BY <1>0, <1>1, <2>2 DEF PruneLevel
      <4> QED
        BY <3>1, <3>2, <3>3, <4>1, BoundAssumption DEF Subtree
    <3>5. Obj[n] <= Bound[child[w]]
      <4>1. Obj[n] \in Nat /\ Bound[Child(p, j)] \in Nat /\ Bound[child[w]] \in Nat
        BY <3>1, <3>3, BoundAssumption
      <4> QED
        BY <3>4, <4>1
    <3> QED
      BY <1>0, <1>1, <2>2, <3>1, <3>5, HopelessSettles
  <2> QED
    BY <2>1, <2>2
<1>7. ExitSolved'
  BY <1>0, <1>1, IncumbentRises DEF Inv, ExitSolved
<1>8. RootSettled'
  <2>1. /\ Obj[Root] \in Nat /\ Obj[incumbent] \in Nat /\ Obj[incumbent'] \in Nat
        /\ Obj[Root] <= Obj[incumbent] /\ Obj[incumbent] <= Obj[incumbent']
    BY <1>0, IncumbentRises, ObjNat, TreeAssumption
    DEF Inv, RootSettled, Shape, ProcessInv, SharedTyped
  <2> QED
    BY <2>1 DEF RootSettled
<1>9. ChildAtFrame' /\ Quiet'
  BY <1>0, <1>1, <1>2 DEF Inv, ChildAtFrame, Quiet, Frame, Current
<1> QED
  BY <1>0, <1>5, <1>6, <1>7, <1>8, <1>9 DEF Inv

\* Messages change bounds and flags, which no argument above rests on but
\* through ProcessInv; the search returns when nothing is left.
LEMMA KeptInv ==
    ASSUME Inv, Shape', UNCHANGED <<tags, pc, child, ret, incumbent, tasks, stack>>,
           \/ UNCHANGED main
           \/ /\ main = "await" /\ main' = "returned" /\ tasks = {}
              /\ \A w \in Worker : pc[w] = "free"
    PROVE  Inv'
<1>1. Covered'
  BY DEF Inv, Covered, Goal, Kind, Settled, Pending, BelowTask, OnStack, FrameHas,
     AtChild
<1>2. BreakSettled'
  BY DEF Inv, BreakSettled, Goal, Kind, Settled, FrameHas
<1>3. ExitSolved' /\ RootSettled' /\ ChildAtFrame'
  BY DEF Inv, ExitSolved, RootSettled, ChildAtFrame, Solved, Kind, Frame, Current
<1>4. Quiet'
  BY DEF Inv, Quiet
<1> QED
  BY <1>1, <1>2, <1>3, <1>4 DEF Inv

\* The root's task: every node but the root is below it.
LEMMA CreateRootInv == ASSUME Inv, Shape', CreateRoot PROVE Inv'
<1>1. /\ UNCHANGED <<tags, pc, child, ret, incumbent, stack>>
      /\ tasks' = {Root} /\ main' = "await"
  BY DEF CreateRoot, process_vars, shared_vars
<1>2. Covered'
  <2>1. ASSUME NEW n \in Node PROVE Settled(n)' \/ Pending(n)'
    <3>1. CASE n = Root
      BY <1>1, <3>1 DEF Inv, RootSettled, Settled
    <3>2. CASE n # Root
      <4>1. n \in Below(Root)
        BY <3>2, BelowRoot
      <4> QED
        BY <1>1, <4>1 DEF Pending, BelowTask
    <3> QED
      BY <3>1, <3>2
  <2> QED
    BY <2>1 DEF Covered
<1>3. BreakSettled'
  BY <1>1 DEF Inv, BreakSettled, Goal, Kind, Settled, FrameHas
<1>4. ExitSolved' /\ RootSettled' /\ ChildAtFrame'
  BY <1>1 DEF Inv, ExitSolved, RootSettled, ChildAtFrame, Solved, Kind, Frame, Current
<1>5. Quiet'
  BY <1>1 DEF Inv, Quiet
<1> QED
  BY <1>2, <1>3, <1>4, <1>5 DEF Inv

LEMMA NextInv == Inv /\ [Next]_vars => Inv'
<1> SUFFICES ASSUME Inv, [Next]_vars PROVE Inv'
  OBVIOUS
<1>0. Shape'
  BY NextShape DEF Inv
<1>1. CASE CreateRoot
  BY <1>0, <1>1, CreateRootInv
<1>2. CASE Return
  BY <1>0, <1>2, KeptInv DEF Return, process_vars, shared_vars
<1>3. CASE Deliver
  BY <1>0, <1>3, KeptInv DEF Deliver, Receive, ReceiveBound, ReceiveStop
<1>4. ASSUME NEW w \in Worker, Step(w) PROVE Inv'
  BY <1>4, TakeInv, LeaveStepInv, NextChildInv, ProcessChildInv, AnsweredInv DEF Step
<1>5. CASE UNCHANGED vars
  BY <1>0, <1>5, KeptInv DEF vars, process_vars, shared_vars
<1> QED
  BY <1>1, <1>2, <1>3, <1>4, <1>5 DEF Next

\* When the search has returned nothing is pending, and no scheduler is about
\* to submit anything: the incumbent itself settles every node.
LEMMA ReturnedSettled ==
    ASSUME Inv, main = "returned", NEW n \in Node, Goal(n)
    PROVE  Obj[n] <= Obj[incumbent]
<1>1. /\ tasks = {}
      /\ \A w \in Worker : pc[w] = "free" /\ stack[w] = <<>>
  BY DEF Inv, Quiet
<1>2. ~ Pending(n)
  <2>1. ~ BelowTask(n)
    BY <1>1 DEF BelowTask
  <2>2. ASSUME NEW w \in Worker PROVE ~ OnStack(stack[w], n) /\ ~ AtChild(w, n)
    BY <1>1 DEF OnStack, AtChild
  <2> QED
    BY <2>1, <2>2 DEF Pending
<1>3. Settled(n)
  BY <1>2 DEF Inv, Covered
<1> QED
  BY <1>1, <1>3 DEF Settled

\* The search returns an optimum, whatever the order and the delay of the
\* broadcasts, on any tree whose bounds the skeletons' assumption allows.
THEOREM OptimumCorrect == Spec => []OptimumFound
<1>1. Inv => OptimumFound
  BY ReturnedSettled DEF OptimumFound, BestOf, Goal
<1> QED
  BY InitInv, NextInv, <1>1, PTL DEF Spec

\* A decision search that ends has found a solution if there is one, though
\* the stop flag makes tasks and frames return without expanding.
THEOREM DecisionCorrect == Spec => []DecisionFound
<1>1. ASSUME Inv PROVE DecisionFound
  <2> SUFFICES ASSUME main = "returned", Kind = "Decision",
                      NEW n \in Node, Obj[n] = expectedObjective
               PROVE  Obj[incumbent] = expectedObjective
    BY DEF DecisionFound
  <2>1. Obj[n] <= Obj[incumbent]
    BY <1>1, ReturnedSettled DEF Goal
  <2>2. Obj[incumbent] <= expectedObjective /\ Obj[incumbent] \in Nat
    BY <1>1, ObjNat DEF Inv, Shape, ProcessInv, StopsSolved, SharedTyped
  <2> QED
    BY <2>1, <2>2, BoundAssumption
<1> QED
  BY InitInv, NextInv, <1>1, PTL DEF Spec
=============================================================================

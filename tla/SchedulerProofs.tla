-------------------------- MODULE SchedulerProofs ---------------------------
(***************************************************************************)
(* Proofs about Scheduler for any finite set of schedulers, with or        *)
(* without initial tasks.                                                  *)
(***************************************************************************)
EXTENDS Scheduler, FiniteSetTheorems, TLAPS

\* running is set exactly during the search, when no scheduler that has
\* registered may leave; so the slots handed out so far are those below the counter.
Phase == /\ running <=> main = "search"
         /\ running => \A s \in Sched : pc[s] \notin {"quit", "exit"}
         /\ running => \A s \in Registered : id[s] < numRunning

\* CountIsLive ties the counter to the schedulers, Phase ties the slots to
\* the counter; the invariants of the runs follow from the two together.
Inv == /\ TypeOK
       /\ CountIsLive
       /\ Phase
       /\ SlotsUniqueWhileRunning
       /\ SlotExists
       /\ NoTaskAfterStop
       /\ NoLostWakeup

\* The registered schedulers are finitely many.
LEMMA RegisteredFinite ==
    /\ IsFiniteSet(Registered) /\ Cardinality(Registered) \in Nat
    /\ Threads \in Nat
    /\ \A s \in Sched \ Registered : Cardinality(Registered) < Threads
<1>1. IsFiniteSet(Sched) /\ Registered \in SUBSET Sched
  BY SchedAssumption DEF Registered
<1>2. IsFiniteSet(Registered) /\ Cardinality(Registered) <= Cardinality(Sched)
  BY <1>1, FS_Subset
<1>3. Cardinality(Registered) = Cardinality(Sched) => Sched = Registered
  BY <1>1, FS_Subset
<1>4. Cardinality(Registered) \in Nat /\ Threads \in Nat
  BY <1>1, <1>2, FS_CardinalityType DEF Threads
<1> QED
  BY <1>2, <1>3, <1>4 DEF Threads

\* A step that only moves a registered scheduler between places where it is
\* registered, into the loop body only while running is set, keeps Inv.
LEMMA MoveInv ==
    ASSUME Inv, NEW s \in Sched, NEW place \in Places, Goto(s, place),
           pc[s] \notin {"spawned", "gone"}, place \notin {"spawned", "gone"},
           record' \in [0..(Threads - 1) -> States],
           place \in {"get", "got", "task", "sleep"} =>
              running \/ pc[s] \in {"get", "got", "task", "sleep"},
           running => place \notin {"quit", "exit"},
           UNCHANGED <<running, numRunning, id, main>>
    PROVE  Inv'
<1>1. pc' = [pc EXCEPT ![s] = place] /\ pc \in [Sched -> Places]
  BY DEF Goto, Inv, TypeOK
<1>2. Registered' = Registered
  BY <1>1 DEF Registered
<1>3. TypeOK'
  BY <1>1 DEF Inv, TypeOK
<1>4. CountIsLive' /\ SlotsUniqueWhileRunning' /\ SlotExists' /\ NoLostWakeup'
  BY <1>2 DEF Inv, CountIsLive, SlotsUniqueWhileRunning, SlotExists,
              NoLostWakeup, Threads
<1>5. Phase'
  BY <1>1, <1>2 DEF Inv, Phase
<1>6. NoTaskAfterStop'
  BY <1>1 DEF Inv, Phase, NoTaskAfterStop
<1> QED
  BY <1>3, <1>4, <1>5, <1>6 DEF Inv

\* Before any scheduler has started the invariant holds.
LEMMA InitInv == Init => Inv
<1> SUFFICES ASSUME Init PROVE Inv
  OBVIOUS
<1>1. Registered = {}
  BY DEF Init, Registered
<1>2. Threads \in Nat
  BY RegisteredFinite
<1> QED
  BY <1>1, <1>2, FS_EmptySet
     DEF Init, Inv, TypeOK, CountIsLive, Phase, SlotsUniqueWhileRunning,
         SlotExists, NoTaskAfterStop, NoLostWakeup, Places, States

\* Registration under mtx (Scheduler.cpp:34-39) keeps the invariant.
LEMMA NumberInv ==
    ASSUME Inv, NEW s \in Sched, Register(s), PolicySet
    PROVE  Inv'
<1> USE DEF Inv
<1>1. /\ pc[s] = "spawned" /\ id' = [id EXCEPT ![s] = numRunning]
      /\ numRunning' = numRunning + 1 /\ UNCHANGED <<running, record, main>>
      /\ pc \in [Sched -> Places] /\ id \in [Sched -> -1..(Threads - 1)]
  BY DEF Register, TypeOK
<1>2. PICK place \in {"seed", "idle"} : pc' = [pc EXCEPT ![s] = place]
  BY DEF Register, Goto
<1>3. s \notin Registered /\ Registered' = Registered \cup {s}
  BY <1>1, <1>2 DEF Registered
<1>4. /\ numRunning = Cardinality(Registered) /\ numRunning \in Nat
      /\ numRunning < Threads /\ Threads \in Nat
  BY <1>3, RegisteredFinite DEF CountIsLive
<1>5. numRunning' = Cardinality(Registered')
  BY <1>1, <1>3, <1>4, RegisteredFinite, FS_AddElement
<1>6. TypeOK'
  BY <1>1, <1>2, <1>4 DEF TypeOK, Places, Threads
<1>7. Phase'
  BY <1>1, <1>2, <1>3, <1>4 DEF Phase, Registered
<1>8. SlotsUniqueWhileRunning'
  BY <1>1, <1>3, <1>4 DEF Phase, SlotsUniqueWhileRunning, Registered
<1>9. SlotExists'
  BY <1>1, <1>3, <1>4 DEF SlotExists, Registered, Threads
<1>10. NoTaskAfterStop' /\ NoLostWakeup'
  BY <1>1, <1>2, <1>4 DEF NoTaskAfterStop, NoLostWakeup
<1> QED
  BY <1>5, <1>6, <1>7, <1>8, <1>9, <1>10 DEF CountIsLive

\* A scheduler that finds no policy (Scheduler.cpp:27-30) leaves as it came.
LEMMA RegisterInv ==
    ASSUME Inv, NEW s \in Sched, Register(s)
    PROVE  Inv'
<1>1. CASE PolicySet
  BY <1>1, NumberInv
<1>2. CASE ~ PolicySet
  <2>1. /\ pc[s] = "spawned" /\ pc' = [pc EXCEPT ![s] = "gone"]
        /\ UNCHANGED <<running, numRunning, id, record, main>>
    BY <1>2 DEF Register, Goto
  <2>2. TypeOK' /\ \A t \in Sched \ {s} : pc'[t] = pc[t]
    BY <2>1 DEF Inv, TypeOK, Places
  <2>3. pc'[s] = "gone"
    BY <2>1 DEF Inv, TypeOK
  <2>4. Registered' = Registered
    BY <2>1, <2>2, <2>3 DEF Registered
  <2>5. CountIsLive' /\ NoLostWakeup'
    BY <2>1, <2>4 DEF Inv, CountIsLive, NoLostWakeup
  <2>6. Phase' /\ SlotsUniqueWhileRunning' /\ SlotExists'
    BY <2>1, <2>4 DEF Inv, Phase, SlotsUniqueWhileRunning, SlotExists
  <2>7. NoTaskAfterStop'
    BY <2>1, <2>2, <2>3 DEF Inv, NoTaskAfterStop
  <2> QED
    BY <2>2, <2>5, <2>6, <2>7 DEF Inv
<1> QED
  BY <1>1, <1>2

\* Deregistration and its notification (Scheduler.cpp:68-73) keep the invariant.
LEMMA ExitInv ==
    ASSUME Inv, NEW s \in Sched, Exit(s)
    PROVE  Inv'
<1> USE DEF Inv
<1>1. /\ pc[s] = "exit" /\ numRunning' = numRunning - 1
      /\ pc' = [pc EXCEPT ![s] = "gone"] /\ UNCHANGED <<running, id, record>>
      /\ main' = IF main = "wait" THEN "join" ELSE main
      /\ pc \in [Sched -> Places]
  BY DEF Exit, Goto, TypeOK
<1>2. s \in Registered /\ Registered' = Registered \ {s}
  BY <1>1 DEF Registered
<1>3. numRunning' = Cardinality(Registered') /\ numRunning' \in Int
  <2>1. Cardinality(Registered \ {s}) = Cardinality(Registered) - 1
    BY <1>2, RegisteredFinite, FS_RemoveElement
  <2> QED
    BY <1>1, <1>2, <2>1, RegisteredFinite DEF CountIsLive
<1>4. ~ running /\ main # "search"
  BY <1>1 DEF Phase
<1>5. TypeOK'
  BY <1>1, <1>3 DEF TypeOK, Places, Threads
<1>6. Phase' /\ SlotsUniqueWhileRunning'
  BY <1>1, <1>4 DEF Phase, SlotsUniqueWhileRunning
<1>7. SlotExists'
  BY <1>1, <1>2 DEF SlotExists, Threads
<1>8. NoTaskAfterStop' /\ NoLostWakeup'
  BY <1>1 DEF NoTaskAfterStop, NoLostWakeup
<1> QED
  BY <1>3, <1>5, <1>6, <1>7, <1>8 DEF CountIsLive

\* The two steps of stopSchedulers (Scheduler.cpp:76-86) keep the invariant.
LEMMA StopInv ==
    ASSUME Inv, StopFlag \/ StopJoin
    PROVE  Inv'
<1> USE DEF Inv
<1>1. CASE StopFlag
  BY <1>1 DEF StopFlag, TypeOK, CountIsLive, Phase, SlotsUniqueWhileRunning,
              SlotExists, NoTaskAfterStop, NoLostWakeup, Registered, Threads
<1>2. CASE StopJoin
  <2>1. /\ main = "join" /\ UNCHANGED <<running, numRunning, pc, id, record>>
        /\ main' = IF numRunning > 0 THEN "wait" ELSE "returned"
    BY <1>2 DEF StopJoin
  <2>2. main' = "returned" => Registered = {}
    <3>1. IsFiniteSet(Registered) /\ numRunning = Cardinality(Registered)
          /\ numRunning \in Nat
      BY RegisteredFinite DEF CountIsLive
    <3> QED
      BY <2>1, <3>1, FS_EmptySet
  <2>3. NoTaskAfterStop'
    BY <2>1, <2>2 DEF NoTaskAfterStop, Registered
  <2> QED
    BY <2>1, <2>3 DEF TypeOK, CountIsLive, Phase, SlotsUniqueWhileRunning,
                      SlotExists, NoLostWakeup, Registered, Threads
<1> QED
  BY <1>1, <1>2

\* Every other action is a move of a registered scheduler.
LEMMA LoopInv ==
    ASSUME Inv, NEW s \in Sched,
           \/ InitialTask(s) \/ BecomeIdle(s) \/ CheckRunning(s)
           \/ GetWork(s) \/ StartTask(s) \/ FinishTask(s) \/ WakeUp(s)
           \/ Quit(s)
    PROVE  Inv'
<1>1. /\ pc \in [Sched -> Places] /\ record \in [0..(Threads - 1) -> States]
      /\ running => pc[s] # "quit"
  BY DEF Inv, TypeOK, Phase
<1>2. ASSUME NEW state \in States, NEW next \in Places, SetState(s, state, next)
      PROVE  /\ record' \in [0..(Threads - 1) -> States]
             /\ Goto(s, next) \/ Goto(s, "crashed")
  BY <1>1, <1>2 DEF SetState
<1>3. CASE InitialTask(s)
  BY <1>1, <1>3, MoveInv DEF InitialTask, Places
<1>4. CASE BecomeIdle(s)
  BY <1>1, <1>2, <1>4, MoveInv DEF BecomeIdle, Places, States
<1>5. CASE CheckRunning(s)
  BY <1>1, <1>5, MoveInv DEF CheckRunning, Places
<1>6. CASE GetWork(s)
  BY <1>1, <1>6, MoveInv DEF GetWork, Places
<1>7. CASE StartTask(s)
  BY <1>1, <1>2, <1>7, MoveInv DEF StartTask, Places, States
<1>8. CASE FinishTask(s)
  BY <1>1, <1>8, MoveInv DEF FinishTask, Places
<1>9. CASE WakeUp(s)
  BY <1>1, <1>9, MoveInv DEF WakeUp, Places
<1>10. CASE Quit(s)
  BY <1>1, <1>2, <1>10, MoveInv DEF Quit, Places, States
<1> QED
  BY <1>3, <1>4, <1>5, <1>6, <1>7, <1>8, <1>9, <1>10

\* Every step keeps the invariant.
LEMMA NextInv == Inv /\ [Next]_vars => Inv'
<1> SUFFICES ASSUME Inv, [Next]_vars PROVE Inv'
  OBVIOUS
<1>1. ASSUME NEW s \in Sched, Step(s) PROVE Inv'
  BY <1>1, RegisterInv, ExitInv, LoopInv DEF Step
<1>2. CASE StopFlag \/ StopJoin
  BY <1>2, StopInv
<1>3. CASE UNCHANGED vars
  BY <1>3 DEF vars, Inv, TypeOK, CountIsLive, Phase, SlotsUniqueWhileRunning,
              SlotExists, NoTaskAfterStop, NoLostWakeup, Registered, Threads
<1> QED
  BY <1>1, <1>2, <1>3 DEF Next

\* The invariant holds in every reachable state.
LEMMA InvHolds == Spec => []Inv
<1> QED
  BY InitInv, NextInv, PTL DEF Spec

\* The state is well typed; in particular every id is an index of
\* recordVector or -1 (Scheduler.cpp:36, SchedulerChannels.cpp:24).
THEOREM TypeCorrect == Spec => []TypeOK
<1>1. Inv => TypeOK
  BY DEF Inv
<1> QED
  BY <1>1, InvHolds, PTL

\* numRunningSchedulers counts the registered schedulers (Scheduler.cpp:38, 71).
THEOREM CounterCorrect == Spec => []CountIsLive
<1>1. Inv => CountIsLive
  BY DEF Inv
<1> QED
  BY <1>1, InvHolds, PTL

\* No two schedulers share a slot of recordVector during the search.
THEOREM SlotsUnique == Spec => []SlotsUniqueWhileRunning
<1>1. Inv => SlotsUniqueWhileRunning
  BY DEF Inv
<1> QED
  BY <1>1, InvHolds, PTL

\* A registered scheduler's slot is inside the vector, reused or not.
THEOREM SlotsExist == Spec => []SlotExists
<1>1. Inv => SlotExists
  BY DEF Inv
<1> QED
  BY <1>1, InvHolds, PTL

\* Once stopSchedulers has returned no scheduler takes or runs a task.
THEOREM StoppedIsQuiet == Spec => []NoTaskAfterStop
<1>1. Inv => NoTaskAfterStop
  BY DEF Inv
<1> QED
  BY <1>1, InvHolds, PTL

\* stopSchedulers never sleeps on a count that has reached zero.
THEOREM WakeupsKept == Spec => []NoLostWakeup
<1>1. Inv => NoLostWakeup
  BY DEF Inv
<1> QED
  BY <1>1, InvHolds, PTL
=============================================================================

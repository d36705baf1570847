---------------------------- MODULE ProcessNode -----------------------------
(***************************************************************************)
(* What a scheduler does with a node it has generated, in every skeleton   *)
(* (processNode and updateIncumbent of skeletons/Common.hpp), and the      *)
(* state of the search that all schedulers share: the registry of each     *)
(* locality and the one Incumbent component.                               *)
(*                                                                         *)
(* Each registry holds a localBound.  A better solution raises the         *)
(* finder's own localBound, is broadcast to every locality (the broadcast  *)
(* is not awaited, so the messages arrive late and in any order), and is   *)
(* then submitted to the Incumbent (that call is awaited).  The objective  *)
(* is maximised (std::greater, the default ObjectiveComparison).           *)
(*                                                                         *)
(* A skeleton sets child[w] and puts w at "process"; the actions of this   *)
(* module take it to "answered".  BranchAndBound and Budget extend it.     *)
(***************************************************************************)
EXTENDS SearchTree

CONSTANTS Locality, Worker,
          home,               \* home[w]: the locality scheduler w runs on
          Tags,               \* the sets of tags the skeleton may be given
          initialBound,       \* params.initialBound
          expectedObjective,  \* params.expectedObjective
          Obj,                \* getObj of every node
          Bound,              \* what boundFn returns for every node
          NoNode              \* no node

Kinds == {"Enumeration", "Optimisation", "Decision"}
Answers == {"Exit", "Prune", "Break", "Continue"}

\* What the skeletons require of an application's bound function, and of the
\* order of siblings when PruneLevel stops at the first one that is pruned.
ASSUME BoundAssumption ==
    /\ home \in [Worker -> Locality] /\ NoNode \notin Node
    /\ Tags # {} /\ Tags \subseteq [kind : Kinds, pruneLevel : BOOLEAN,
                                   depthLimited : BOOLEAN]
    /\ initialBound \in Nat /\ expectedObjective \in Nat
    /\ Obj \in [Node -> Nat] /\ Bound \in [Node -> Nat]
    /\ \A n \in Node : \A m \in Below(n) \cup {n} : Obj[m] <= Bound[n]
    /\ (\E t \in Tags : t.pruneLevel) =>
         \A n \in Node : \A i, j \in 1..numChildren(n) :
            i < j => Bound[Child(n, j)] <= Bound[Child(n, i)]
    /\ (\E t \in Tags : t.kind = "Decision") => Obj[Root] <= expectedObjective

VARIABLES tags,        \* the kind of search and its options
          pc,          \* where each scheduler is
          child,       \* the node processNode is called for
          ret,         \* what it answered
          acc,         \* times the running task has accumulated each node
          localBound,  \* Registry.localBound of each locality
          bounds,      \* UpdateRegistryBound messages under way, <<to, bound>>
          stopSearch,  \* Registry.stopSearch of each locality
          stops,       \* localities a SetStopFlag message is under way to
          incumbent    \* incumbentNode

shared_vars == <<localBound, bounds, stopSearch, stops, incumbent>>
process_vars == <<tags, pc, child, ret, acc, shared_vars>>

Kind == tags.kind
PruneLevel == tags.pruneLevel
DepthLimited == tags.depthLimited

Zero == [n \in Node |-> 0]

SharedInit == /\ tags \in Tags
              /\ child = [w \in Worker |-> NoNode]
              /\ ret = [w \in Worker |-> "Continue"]
              /\ localBound = [l \in Locality |-> initialBound]
              /\ bounds = {}
              /\ stopSearch = [l \in Locality |-> FALSE]
              /\ stops = {}
              /\ incumbent = Root

ProcessInit == /\ SharedInit
               /\ pc = [w \in Worker |-> "free"]
               /\ acc = [w \in Worker |-> Zero]

Goto(w, place) == pc' = [pc EXCEPT ![w] = place]
Answer(w, r) == ret' = [ret EXCEPT ![w] = r] /\ Goto(w, "answered")

Raised(b, c) == IF c > b THEN c ELSE b

Found(c) == Kind = "Decision" /\ Obj[c] = expectedObjective
Hopeless(c, best) == \/ Kind = "Decision" /\ Bound[c] < expectedObjective
                     \/ Kind = "Optimisation" /\ Bound[c] <= best
-----------------------------------------------------------------------------
\* An enumeration accumulates the node in the task's own accumulator.
ProcessCounted(w) ==
    /\ pc[w] = "process"
    /\ Kind = "Enumeration"
    /\ acc' = [acc EXCEPT ![w][child[w]] = @ + 1]
    /\ Answer(w, "Continue")
    /\ UNCHANGED <<tags, child, shared_vars>>

\* Mutant: the search is stopped without a call to updateIncumbent.
ProcessFoundUnsaved(w) ==
    /\ pc[w] = "process"
    /\ Found(child[w])
    /\ Goto(w, "flag")
    /\ UNCHANGED <<tags, child, ret, acc, shared_vars>>

\* The solution a decision search looks for.
ProcessFound(w) ==
    /\ pc[w] = "process"
    /\ Found(child[w])
    /\ Goto(w, "raise")
    /\ UNCHANGED <<tags, child, ret, acc, shared_vars>>

\* The bound leaves no hope below the node.
ProcessHopeless(w) ==
    /\ pc[w] = "process"
    /\ ~ Found(child[w])
    /\ Hopeless(child[w], localBound[home[w]])
    /\ Answer(w, IF PruneLevel THEN "Break" ELSE "Prune")
    /\ UNCHANGED <<tags, child, acc, shared_vars>>

\* The bound leaves hope; an optimisation goes on to look at the objective.
ProcessAlive(w) ==
    /\ pc[w] = "process"
    /\ Kind # "Enumeration"
    /\ ~ Found(child[w])
    /\ ~ Hopeless(child[w], localBound[home[w]])
    /\ \/ Kind = "Optimisation" /\ Goto(w, "objective") /\ UNCHANGED ret
       \/ Kind = "Decision" /\ Answer(w, "Continue")
    /\ UNCHANGED <<tags, child, acc, shared_vars>>

\* The second load of localBound, compared with the node's own objective.
CheckObjective(w) ==
    /\ pc[w] = "objective"
    /\ \/ Obj[child[w]] > localBound[home[w]] /\ Goto(w, "raise") /\ UNCHANGED ret
       \/ Obj[child[w]] <= localBound[home[w]] /\ Answer(w, "Continue")
    /\ UNCHANGED <<tags, child, acc, shared_vars>>

\* Mutant: the bound is one higher than the solution found.
RaiseBoundPastObjective(w) ==
    /\ pc[w] = "raise"
    /\ localBound' = [localBound EXCEPT ![home[w]] = Raised(@, Obj[child[w]] + 1)]
    /\ bounds' = bounds \cup (Locality \X {Obj[child[w]] + 1})
    /\ Goto(w, "submit")
    /\ UNCHANGED <<tags, child, ret, acc, stopSearch, stops, incumbent>>

\* Mutant: the stop flag is broadcast before the solution is submitted.
RaiseBoundStops(w) ==
    /\ pc[w] = "raise"
    /\ localBound' = [localBound EXCEPT ![home[w]] = Raised(@, Obj[child[w]])]
    /\ bounds' = bounds \cup (Locality \X {Obj[child[w]]})
    /\ stops' = Locality
    /\ Goto(w, "submit")
    /\ UNCHANGED <<tags, child, ret, acc, stopSearch, incumbent>>

\* updateIncumbent: raise the own bound (a compare-exchange loop that never
\* lowers it) and start the broadcast to every locality.
RaiseBound(w) ==
    /\ pc[w] = "raise"
    /\ localBound' = [localBound EXCEPT ![home[w]] = Raised(@, Obj[child[w]])]
    /\ bounds' = bounds \cup (Locality \X {Obj[child[w]]})
    /\ Goto(w, "submit")
    /\ UNCHANGED <<tags, child, ret, acc, stopSearch, stops, incumbent>>

\* Mutant: the last submission wins.
BestNodeLast(best, n) == n

\* Incumbent::updateIncumbent, which serves one call at a time.
BestNode(best, n) == IF Obj[n] > Obj[best] THEN n ELSE best

\* The awaited call to the Incumbent component.
SubmitIncumbent(w) ==
    /\ pc[w] = "submit"
    /\ incumbent' = BestNode(incumbent, child[w])
    /\ \/ Kind = "Optimisation" /\ Answer(w, "Continue")
       \/ Kind = "Decision" /\ Goto(w, "flag") /\ UNCHANGED ret
    /\ UNCHANGED <<tags, child, acc, localBound, bounds, stopSearch, stops>>

\* Broadcast the stop flag (not awaited) and answer Exit.
StopOthers(w) ==
    /\ pc[w] = "flag"
    /\ stops' = Locality
    /\ Answer(w, "Exit")
    /\ UNCHANGED <<tags, child, acc, localBound, bounds, stopSearch, incumbent>>

Process(w) == \/ ProcessCounted(w) \/ ProcessFound(w) \/ ProcessHopeless(w)
              \/ ProcessAlive(w) \/ CheckObjective(w) \/ RaiseBound(w)
              \/ SubmitIncumbent(w) \/ StopOthers(w)
-----------------------------------------------------------------------------
ReceiveBound(l, b) ==
    /\ <<l, b>> \in bounds
    /\ localBound' = [localBound EXCEPT ![l] = Raised(@, b)]
    /\ bounds' = bounds \ {<<l, b>>}
    /\ UNCHANGED <<tags, pc, child, ret, acc, stopSearch, stops, incumbent>>

ReceiveStop(l) ==
    /\ l \in stops
    /\ stopSearch' = [stopSearch EXCEPT ![l] = TRUE]
    /\ stops' = stops \ {l}
    /\ UNCHANGED <<tags, pc, child, ret, acc, localBound, bounds, incumbent>>

Receive == \/ \E m \in bounds : ReceiveBound(m[1], m[2])
           \/ \E l \in stops : ReceiveStop(l)
-----------------------------------------------------------------------------
ProcessPlaces == {"free", "process", "objective", "raise", "submit", "flag",
                  "answered"}

ProcessTypeOK ==
    /\ tags \in Tags
    /\ child \in [Worker -> Node \cup {NoNode}]
    /\ ret \in [Worker -> Answers]
    /\ acc \in [Worker -> [Node -> Nat]]
    /\ localBound \in [Locality -> Nat]
    /\ bounds \subseteq Locality \X Nat
    /\ stopSearch \in [Locality -> BOOLEAN]
    /\ stops \subseteq Locality
    /\ incumbent \in Node

\* A bound some solution backs: the incumbent is that good, or a scheduler is
\* about to submit one that is.
Backed(b) == \/ b <= initialBound
             \/ b <= Obj[incumbent]
             \/ \E w \in Worker : pc[w] = "submit" /\ b <= Obj[child[w]]

\* No locality ever prunes with a bound whose solution could still be lost,
\* though bounds overtake the submission of the solutions they stand for.
BoundsBacked == /\ \A l \in Locality : Backed(localBound[l])
                /\ \A m \in bounds : Backed(m[2])

\* No locality stops searching before the solution reached the incumbent.
StopOnlyIfFound ==
    \A l \in Locality : l \in stops \/ stopSearch[l] =>
        Obj[incumbent] = expectedObjective

\* The enumerators of all localities added up: one for each time a node has
\* been counted.
combineEnumerators(counts) ==
    Cardinality(UNION {{<<n, k>> : k \in 1..counts[n]} : n \in Node})

\* The objective an optimisation has to return is that of the best node, or of
\* the root if no node beats the initial bound.
BestOf(S) == \A n \in S : Obj[n] > initialBound => Obj[n] <= Obj[incumbent]
=============================================================================

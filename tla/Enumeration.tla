---------------------------- MODULE Enumeration -----------------------------
(***************************************************************************)
(* What every enumeration skeleton promises, whatever its way of splitting *)
(* the tree: it accumulates each node of the search space exactly once and *)
(* answers with the total only when none is missing.  DepthBounded, Budget *)
(* and StackStealing implement it.                                         *)
(***************************************************************************)
EXTENDS Integers, FiniteSets

VARIABLES space,     \* the nodes to be counted, chosen before the search
          counted,   \* nodes some locality has accumulated
          total,     \* sum of what the localities have accumulated
          answer     \* -1 until search returns, then what it returned

vars == <<space, counted, total, answer>>

Init == /\ counted = {}
        /\ total = 0
        /\ answer = -1

Accumulate == /\ answer = -1
              /\ \E S \in SUBSET (space \ counted) :
                    /\ counted' = counted \cup S
                    /\ total' = total + Cardinality(S)
              /\ UNCHANGED <<space, answer>>

Return == /\ answer = -1
          /\ counted = space
          /\ answer' = total
          /\ UNCHANGED <<space, counted, total>>

Next == Accumulate \/ Return

Spec == Init /\ [][Next]_vars
=============================================================================

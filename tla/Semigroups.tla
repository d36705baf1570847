----------------------------- MODULE Semigroups -----------------------------
(***************************************************************************)
(* Numerical semigroups (apps/enumeration/numericalSemigroups): a child    *)
(* removes a generator that is not smaller than the conductor.  basic.cpp  *)
(* tabulates gaps (0), generators (1) and other elements (2), hivert.cpp   *)
(* the number of decompositions of each number below SIZE (monoid.hpp).    *)
(***************************************************************************)
EXTENDS Integers, FiniteSets, SequencesExt, Sorting

\* SemiGroup::SemiGroup(): all numbers.
basicRoot == [c |-> 1, m |-> 1, tab |-> [i \in 0..1 |-> IF i = 0 THEN 2 ELSE 1]]

\* SemiGroup(S, x): numbers above x are generators again if no sum of a smaller
\* generator and an element yields them.
SemiGroup(S, x) ==
    LET c == x + 1
        m == IF x = S.m THEN S.m + 1 ELSE S.m
        Old(i) == IF i < S.m + S.c THEN S.tab[i] ELSE 2
        Step(t, i) ==
          LET irr == {j \in 1..i - 1 : t[j] = 1}
              kind == IF Old(i) = 1 \/ \A j \in irr : t[i - j] = 0 THEN 1 ELSE 2
          IN  [k \in 0..i |-> IF k = i THEN kind ELSE t[k]]
        below == [i \in 0..x |-> IF i = x THEN 0 ELSE S.tab[i]]
    IN  [c |-> c, m |-> m,
         tab |-> FoldLeft(Step, below, [k \in 1..m |-> x + k])]

basicChildren(S) ==
    LET gens == Sorted({i \in S.c..S.c + S.m - 1 : S.tab[i] = 1}, <)
    IN  [k \in DOMAIN gens |-> SemiGroup(S, gens[k])]

\* SIZE: three times the largest genus, in blocks of sixteen.
SIZE(maxGenus) == 16 * ((3 * (maxGenus - 1) + 15) \div 16)

init_full_N(maxGenus) ==
    [decs |-> [i \in 0..SIZE(maxGenus) - 1 |-> i \div 2 + 1],
     conductor |-> 1, min |-> 1, genus |-> 0]

\* generator_iter<CHILDREN>: from the conductor to the end of the last block.
Generators(mon) ==
    LET bound == (mon.conductor + mon.min + 15) \div 16
    IN  {i \in mon.conductor..16 * bound - 1 : mon.decs[i] = 1}

\* One decomposition less for gen plus an element.
remove_generator(src, gen) ==
    [conductor |-> gen + 1, genus |-> src.genus + 1,
     min |-> IF gen = src.min THEN gen + 1 ELSE src.min,
     decs |-> [i \in DOMAIN src.decs |->
                 src.decs[i] - IF i >= gen /\ src.decs[i - gen] # 0 THEN 1 ELSE 0]]

hivertChildren(mon) ==
    LET gens == Sorted(Generators(mon), <)
    IN  [k \in DOMAIN gens |-> remove_generator(mon, gens[k])]
-----------------------------------------------------------------------------
\* Reference: sets of g gaps whose complement is closed under addition.
OfGenus(g) ==
    {gaps \in kSubset(g, 1..2 * g - 1) :
        \A x \in gaps : \A y \in 1..x - 1 : y \in gaps \/ x - y \in gaps}
=============================================================================

------------------------------- MODULE Trees --------------------------------
(***************************************************************************)
(* The synthetic enumerations: apps/enumeration/fib, where every node has  *)
(* two children, and unbalanced tree search (apps/enumeration/uts), where  *)
(* a pseudo-random draw decides how many a node has.                       *)
(***************************************************************************)
EXTENDS Integers, FiniteSets, SequencesExt

\* The width of std::uint64_t, lowered to what TLC can count.
Word == 2^30

\* NodeGen::next subtracts one, then two, from an unsigned number.
fibChildren(n) == <<(n - 1) % Word, (n - 2) % Word>>
-----------------------------------------------------------------------------
\* uts: a node is the path to it.  The generator's state is a hash of the path
\* (rng_spawn); draw gives the number drawn with it, in units of 1/grain.

rng_toProb(s, n) == s.draw[n]

\* Binomial trees.
binomialNumChildren(s, n) ==
    IF n = <<>> THEN s.rootBF
    ELSE IF rng_toProb(s, n) < s.nonLeafProb THEN s.nonLeafBF ELSE 0

\* Geometric trees: the branching factor at a depth, in units of 1/gen_mx ...
branchFactor(s, depth) ==
    IF depth = 0 \/ (s.geoType = "FIXED" /\ depth < s.gen_mx) THEN s.rootBF * s.gen_mx
    ELSE IF s.geoType = "LINEAR" THEN s.rootBF * (s.gen_mx - depth)
    ELSE 0

\* ... and a geometric draw with that mean: log(1 - u) / log(1 - p), rounded
\* down, is the number of times 1 - p = b / (1 + b) can be multiplied before the
\* product falls below 1 - u.
geometricNumChildren(s, n) ==
    LET b == branchFactor(s, Len(n))
        u == rng_toProb(s, n)
    IN  IF b <= 0 THEN 0
        ELSE Max({k \in 0..s.most : b^k * s.grain >= (s.grain - u) * (b + s.gen_mx)^k})

utsChildren(s, n) ==
    [i \in 1..(IF s.type = "binomial" THEN binomialNumChildren(s, n)
               ELSE geometricNumChildren(s, n)) |-> Append(n, i)]
=============================================================================

------------------------- MODULE ProcessNodeProofs --------------------------
(***************************************************************************)
(* What the proofs about every skeleton that extends ProcessNode rest on.  *)
(*                                                                         *)
(* First the tree that a generator lays out: its children are exactly the  *)
(* nodes one level down, and what is below a node is below or at one of    *)
(* its children; the stacks of generators that walk it; and the order of   *)
(* the nodes of one depth.                                                 *)
(*                                                                         *)
(* Then what processNode keeps, whatever the tasks and stacks are: the     *)
(* bounds are backed and the stop flag follows the solution.  A skeleton's *)
(* proof only has to show that its own steps move one scheduler between    *)
(* places outside processNode.                                             *)
(***************************************************************************)
EXTENDS ProcessNode, FiniteSetTheorems, SequenceTheorems, WellFoundedInduction, TLAPS

NextLevel(n) == {m \in Node : Len(m) = Len(n) + 1 /\ SubSeq(m, 1, Len(n)) = n}

LEMMA NodeTyped ==
    ASSUME NEW n \in Node
    PROVE  n \in Seq(Nat) /\ Len(n) \in Nat /\ \A i \in 1..Len(n) : n[i] \in Nat \ {0}
BY TreeAssumption

LEMMA NumChildrenNat ==
    ASSUME NEW n \in Node
    PROVE  /\ numChildren(n) \in Nat /\ IsFiniteSet(NextLevel(n))
           /\ numChildren(n) = Cardinality(NextLevel(n))
<1>1. IsFiniteSet(Node) /\ NextLevel(n) \in SUBSET Node
  BY TreeAssumption DEF NextLevel
<1>2. IsFiniteSet(NextLevel(n))
  BY <1>1, FS_Subset
<1> QED
  BY <1>2, FS_CardinalityType DEF numChildren, NextLevel

LEMMA ChildTyped ==
    ASSUME NEW n \in Node, NEW i \in Nat
    PROVE  /\ Child(n, i) \in Seq(Nat) /\ Len(Child(n, i)) = Len(n) + 1
           /\ Child(n, i)[Len(n) + 1] = i
           /\ SubSeq(Child(n, i), 1, Len(n)) = n
<1>1. n \in Seq(Nat)
  BY NodeTyped
<1>2. /\ Child(n, i) \in Seq(Nat) /\ Len(Child(n, i)) = Len(n) + 1
      /\ Child(n, i)[Len(n) + 1] = i
      /\ \A k \in 1..Len(n) : Child(n, i)[k] = n[k]
  BY <1>1 DEF Child
<1>3. SubSeq(Child(n, i), 1, Len(n)) = n
  <2>1. \A k \in 1..Len(n) : Child(n, i)[k] \in Nat
    BY <1>1, <1>2
  <2> DEFINE p == SubSeq(Child(n, i), 1, Len(n))
  <2>2. /\ p \in Seq(Nat) /\ Len(p) = Len(n)
        /\ \A k \in 1..Len(n) : p[k] = n[k]
    BY <1>1, <1>2, <2>1, SubSeqProperties
  <2> QED
    BY <1>1, <2>2, SeqEqual
<1> QED
  BY <1>2, <1>3

LEMMA ChildInTree ==
    ASSUME NEW n \in Node, NEW i \in 1..numChildren(n)
    PROVE  Child(n, i) \in Node
BY TreeAssumption DEF Children

\* The positions of the children are 1 to numChildren, without gaps.
LEMMA ChildrenExact ==
    ASSUME NEW n \in Node
    PROVE  Children(n) = NextLevel(n)
<1> DEFINE k == numChildren(n)
<1>1. k \in Nat /\ IsFiniteSet(NextLevel(n)) /\ k = Cardinality(NextLevel(n))
  BY NumChildrenNat
<1>2. Children(n) \in SUBSET NextLevel(n)
  <2>1. ASSUME NEW i \in 1..k PROVE Child(n, i) \in NextLevel(n)
    BY <1>1, ChildTyped, ChildInTree DEF NextLevel
  <2> QED
    BY <2>1 DEF Children
<1>3. Cardinality(Children(n)) = k
  <2> DEFINE f == [i \in 1..k |-> Child(n, i)]
  <2>1. IsFiniteSet(1..k) /\ Cardinality(1..k) = k
    BY <1>1, FS_Interval
  <2>2. ASSUME NEW i \in 1..k, NEW j \in 1..k, Child(n, i) = Child(n, j) PROVE i = j
    <3>1. i \in Nat /\ j \in Nat
      BY <1>1
    <3>2. Child(n, i)[Len(n) + 1] = i /\ Child(n, j)[Len(n) + 1] = j
      BY <3>1, ChildTyped
    <3> QED
      BY <2>2, <3>2
  <2>3. f \in Bijection(1..k, Children(n))
    BY <2>2 DEF Bijection, Injection, Surjection, IsInjective, Children
  <2>4. ExistsBijection(1..k, Children(n))
    BY <2>3 DEF ExistsBijection
  <2> QED
    BY <2>1, <2>4, FS_Bijection
<1> QED
  BY <1>1, <1>2, <1>3, FS_Subset

LEMMA BelowThroughChild ==
    ASSUME NEW n \in Node, NEW m \in Below(n)
    PROVE  \E i \in 1..numChildren(n) : m \in Below(Child(n, i)) \cup {Child(n, i)}
<1> DEFINE d == Len(n) + 1
           p == SubSeq(m, 1, d)
<1>1. /\ m \in Node /\ Len(n) \in Nat /\ Len(m) \in Nat /\ Len(m) >= d
      /\ SubSeq(m, 1, Len(n)) = n
      /\ m \in Seq(Nat) /\ n \in Seq(Nat)
  BY NodeTyped DEF Below
<1>2. p \in Node
  BY <1>1, TreeAssumption
<1>3. /\ p \in Seq(Nat) /\ Len(p) = d
      /\ \A i \in 1..d : p[i] = m[i]
  BY <1>1, SubSeqProperties
<1>4. SubSeq(p, 1, Len(n)) = n
  <2>1. /\ SubSeq(p, 1, Len(n)) \in Seq(Nat) /\ Len(SubSeq(p, 1, Len(n))) = Len(n)
        /\ \A i \in 1..Len(n) : SubSeq(p, 1, Len(n))[i] = m[i]
    BY <1>1, <1>3, SubSeqProperties
  <2>2. \A i \in 1..Len(n) : n[i] = m[i]
    BY <1>1, SubSeqProperties
  <2> QED
    BY <1>1, <2>1, <2>2, SeqEqual
<1>5. PICK i \in 1..numChildren(n) : p = Child(n, i)
  <2>1. p \in NextLevel(n)
    BY <1>2, <1>3, <1>4 DEF NextLevel
  <2>2. p \in Children(n)
    BY <2>1, ChildrenExact
  <2> QED
    BY <2>2 DEF Children
<1>6. m \in Below(p) \cup {p}
  <2>1. CASE Len(m) = d
    BY <1>1, <2>1, SubSeqFull
  <2>2. CASE Len(m) > d
    BY <1>1, <1>3, <2>2 DEF Below
  <2> QED
    BY <1>1, <2>1, <2>2
<1> QED
  BY <1>5, <1>6

LEMMA BelowRoot ==
    ASSUME NEW n \in Node \ {Root}
    PROVE  n \in Below(Root)
<1>1. n \in Seq(Nat) /\ Len(n) \in Nat /\ Len(n) # 0
  BY NodeTyped, EmptySeq DEF Root
<1>2. SubSeq(n, 1, 0) = <<>>
  BY SubSeqEmpty
<1> QED
  BY <1>1, <1>2 DEF Below, Root
-----------------------------------------------------------------------------
\* The subtrees of two siblings have no node in common.
LEMMA SiblingsDisjoint ==
    ASSUME NEW n \in Node, NEW i \in 1..numChildren(n), NEW j \in 1..numChildren(n),
           NEW m, m \in Subtree(Child(n, i)), m \in Subtree(Child(n, j))
    PROVE  i = j
<1>1. i \in Nat /\ j \in Nat /\ Len(n) \in Nat
  BY NumChildrenNat, NodeTyped
<1>2. ASSUME NEW k \in 1..numChildren(n), m \in Subtree(Child(n, k))
      PROVE  m[Len(n) + 1] = k
  <2>1. /\ k \in Nat /\ Child(n, k) \in Node
        /\ Len(Child(n, k)) = Len(n) + 1 /\ Child(n, k)[Len(n) + 1] = k
    BY NumChildrenNat, ChildTyped, ChildInTree
  <2>2. CASE m \in Below(Child(n, k))
    <3>1. /\ m \in Node /\ Len(m) > Len(n) + 1
          /\ SubSeq(m, 1, Len(n) + 1) = Child(n, k)
      BY <2>1, <2>2 DEF Below
    <3>2. SubSeq(m, 1, Len(n) + 1)[Len(n) + 1] = m[Len(n) + 1]
      BY <1>1, <3>1, NodeTyped, SubSeqProperties
    <3> QED
      BY <2>1, <3>1, <3>2
  <2> QED
    BY <1>2, <2>1, <2>2 DEF Subtree
<1> QED
  BY <1>2

LEMMA SubtreeOfChild ==
    ASSUME NEW n \in Node, NEW i \in 1..numChildren(n), NEW m \in Subtree(Child(n, i))
    PROVE  m \in Below(n)
<1>1. /\ i \in Nat /\ Len(n) \in Nat /\ Child(n, i) \in Node
      /\ Len(Child(n, i)) = Len(n) + 1 /\ SubSeq(Child(n, i), 1, Len(n)) = n
  BY NumChildrenNat, NodeTyped, ChildTyped, ChildInTree
<1>2. CASE m = Child(n, i)
  BY <1>1, <1>2 DEF Below
<1>3. CASE m \in Below(Child(n, i))
  <2>1. /\ m \in Node /\ m \in Seq(Nat) /\ n \in Seq(Nat) /\ Len(m) > Len(n) + 1
        /\ Len(m) \in Nat /\ SubSeq(m, 1, Len(n) + 1) = Child(n, i)
    BY <1>1, <1>3, NodeTyped DEF Below
  <2>2. \A k \in 1..Len(n) : n[k] = m[k]
    <3> SUFFICES ASSUME NEW k \in 1..Len(n) PROVE n[k] = m[k]
      OBVIOUS
    <3>1. Child(n, i)[k] = m[k]
      BY <1>1, <2>1, SubSeqProperties
    <3>2. Child(n, i)[k] = n[k]
      BY <1>1, <2>1, AppendProperties DEF Child
    <3> QED
      BY <3>1, <3>2
  <2>3. /\ SubSeq(m, 1, Len(n)) \in Seq(Nat) /\ Len(SubSeq(m, 1, Len(n))) = Len(n)
        /\ \A k \in 1..Len(n) : SubSeq(m, 1, Len(n))[k] = m[k]
    BY <1>1, <2>1, SubSeqProperties
  <2>4. SubSeq(m, 1, Len(n)) = n
    BY <2>1, <2>2, <2>3, SeqEqual
  <2> QED
    BY <1>1, <2>1, <2>4 DEF Below
<1> QED
  BY <1>2, <1>3 DEF Subtree
-----------------------------------------------------------------------------
\* Stacks of generators: a frame is a node and the position of the child that
\* its generator yields next.
Frames == Node \X (Nat \ {0})

\* Frame i of stack s has not generated the child that n is at or below.
FrameHas(s, i, n) ==
    \E j \in 1..numChildren(s[i][1]) : j >= s[i][2] /\ n \in Subtree(Child(s[i][1], j))

OnStack(s, n) == \E i \in 1..Len(s) : FrameHas(s, i, n)

\* A new frame for node c: all that is below c is to come from it.
LEMMA NewFrameHas ==
    ASSUME NEW s \in Seq(Frames), NEW i \in 1..Len(s), NEW c \in Node, s[i] = <<c, 1>>,
           NEW n
    PROVE  FrameHas(s, i, n) <=> n \in Below(c)
<1>1. s[i][1] = c /\ s[i][2] = 1 /\ numChildren(c) \in Nat
  BY NumChildrenNat
<1>2. ASSUME FrameHas(s, i, n) PROVE n \in Below(c)
  BY <1>1, <1>2, SubtreeOfChild DEF FrameHas
<1>3. ASSUME n \in Below(c) PROVE FrameHas(s, i, n)
  <2>1. PICK j \in 1..numChildren(c) : n \in Subtree(Child(c, j))
    BY <1>3, BelowThroughChild DEF Subtree
  <2>2. j >= 1
    BY <1>1
  <2>3. \E k \in 1..numChildren(c) : k >= 1 /\ n \in Subtree(Child(c, k))
    BY <2>1, <2>2
  <2> QED
    BY <1>1, <2>3 DEF FrameHas
<1> QED
  BY <1>2, <1>3

\* The frames that are pushed on keep what they have.
LEMMA PushFrame ==
    ASSUME NEW s \in Seq(Frames), NEW c \in Node, NEW n
    PROVE  LET t == Append(s, <<c, 1>>)
           IN  /\ t \in Seq(Frames) /\ Len(t) = Len(s) + 1 /\ t[Len(s) + 1] = <<c, 1>>
               /\ \A i \in 1..Len(s) : t[i] = s[i] /\ (FrameHas(t, i, n) <=> FrameHas(s, i, n))
               /\ (FrameHas(t, Len(s) + 1, n) <=> n \in Below(c))
<1> DEFINE t == Append(s, <<c, 1>>)
<1>1. <<c, 1>> \in Frames /\ Len(s) \in Nat
  BY DEF Frames
<1>2. /\ t \in Seq(Frames) /\ Len(t) = Len(s) + 1 /\ t[Len(s) + 1] = <<c, 1>>
      /\ \A i \in 1..Len(s) : t[i] = s[i]
  BY <1>1, AppendProperties
<1>3. FrameHas(t, Len(s) + 1, n) <=> n \in Below(c)
  <2>1. Len(s) + 1 \in 1..Len(t)
    BY <1>1, <1>2
  <2> QED
    BY <1>2, <2>1, NewFrameHas
<1> QED
  BY <1>2, <1>3 DEF FrameHas

LEMMA PopFrame ==
    ASSUME NEW s \in Seq(Frames), s # <<>>, NEW n
    PROVE  LET t == SubSeq(s, 1, Len(s) - 1)
           IN  /\ t \in Seq(Frames) /\ Len(t) = Len(s) - 1 /\ Len(s) \in Nat \ {0}
               /\ Len(s) = 1 => t = <<>>
               /\ \A i \in 1..Len(t) : t[i] = s[i] /\ (FrameHas(t, i, n) <=> FrameHas(s, i, n))
<1> DEFINE t == SubSeq(s, 1, Len(s) - 1)
<1>1. Len(s) \in Nat \ {0}
  BY EmptySeq
<1>2. /\ t \in Seq(Frames) /\ Len(t) = Len(s) - 1
      /\ \A i \in 1..Len(t) : t[i] = s[i]
  <2> DEFINE d == Len(s) - 1
  <2>1. 1 \in Int /\ d \in Nat /\ \A i \in 1..d : s[i] \in Frames
    BY <1>1, ElementOfSeq
  <2> HIDE DEF d
  <2>2. /\ SubSeq(s, 1, d) \in Seq(Frames) /\ Len(SubSeq(s, 1, d)) = d
        /\ \A i \in 1..d : SubSeq(s, 1, d)[i] = s[i]
    BY <2>1, SubSeqProperties
  <2> QED
    BY <2>2 DEF d
<1>3. Len(s) = 1 => t = <<>>
  BY <1>2, EmptySeq
<1> QED
  BY <1>1, <1>2, <1>3 DEF FrameHas

\* The last frame generates its next child: what is at or below the child has
\* left the stack, and nothing else.
LEMMA AdvanceFrame ==
    ASSUME NEW s \in Seq(Frames), s # <<>>, NEW t \in Seq(Frames), Len(t) = Len(s),
           NEW m, NEW k, s[Len(s)] = <<m, k>>, k <= numChildren(m),
           t[Len(s)] = <<m, k + 1>>, \A i \in 1..Len(s) - 1 : t[i] = s[i], NEW n
    PROVE  /\ \A i \in 1..Len(s) - 1 : FrameHas(t, i, n) <=> FrameHas(s, i, n)
           /\ FrameHas(t, Len(s), n) <=>
                 FrameHas(s, Len(s), n) /\ n \notin Subtree(Child(m, k))
           /\ n \in Subtree(Child(m, k)) => FrameHas(s, Len(s), n)
<1>1. Len(s) \in Nat \ {0} /\ \A i \in 1..Len(s) : s[i] \in Frames
  BY EmptySeq, ElementOfSeq
<1>2. m \in Node /\ k \in Nat \ {0} /\ numChildren(m) \in Nat /\ k \in 1..numChildren(m)
  BY <1>1, NumChildrenNat DEF Frames
<1>3. \A i \in 1..Len(s) - 1 : FrameHas(t, i, n) <=> FrameHas(s, i, n)
  BY <1>1 DEF FrameHas
<1>4. n \in Subtree(Child(m, k)) => FrameHas(s, Len(s), n)
  BY <1>2 DEF FrameHas
<1>5. ASSUME FrameHas(t, Len(s), n)
      PROVE  FrameHas(s, Len(s), n) /\ n \notin Subtree(Child(m, k))
  <2>1. PICK j \in 1..numChildren(m) : j >= k + 1 /\ n \in Subtree(Child(m, j))
    BY <1>5 DEF FrameHas
  <2>2. j >= k /\ j # k
    BY <1>2, <2>1
  <2> QED
    BY <1>2, <2>1, <2>2, SiblingsDisjoint DEF FrameHas
<1>6. ASSUME FrameHas(s, Len(s), n), n \notin Subtree(Child(m, k))
      PROVE  FrameHas(t, Len(s), n)
  <2>1. PICK j \in 1..numChildren(m) : j >= k /\ n \in Subtree(Child(m, j))
    BY <1>6 DEF FrameHas
  <2>2. j >= k + 1
    BY <1>2, <1>6, <2>1
  <2> QED
    BY <2>1, <2>2 DEF FrameHas
<1> QED
  BY <1>3, <1>4, <1>5, <1>6
-----------------------------------------------------------------------------
LEMMA LessThanWellFounded ==
    \E R : IsWellFoundedOn(R, Nat) /\ \A x, y \in Nat : <<y, x>> \in R <=> y < x
<1>1. \A x, y \in Nat : <<y, x>> \in OpToRel(<, Nat) <=> y < x
  BY Zenon DEF OpToRel
<1> QED
  BY <1>1, NatLessThanWellFounded, Zenon

\* Induction over the natural numbers, in the form the provers can use: about a
\* set and not about an operator.
LEMMA LeastOf ==
    ASSUME NEW T, T \subseteq Nat, T # {}
    PROVE  \E x \in T : \A y \in T : x <= y
<1>1. PICK R : IsWellFoundedOn(R, Nat) /\ \A x, y \in Nat : <<y, x>> \in R <=> y < x
  BY LessThanWellFounded
<1>2. PICK x \in T : \A y \in T : ~ (<<y, x>> \in R)
  BY <1>1, WFMin
<1>3. \A y \in T : x <= y
  <2> SUFFICES ASSUME NEW y \in T PROVE x <= y
    OBVIOUS
  <2>1. x \in Nat /\ y \in Nat
    OBVIOUS
  <2>2. ~ (y < x)
    BY <1>1, <1>2, <2>1
  <2> QED
    BY <2>1, <2>2
<1> QED
  BY <1>3

\* The nodes of one depth come in a strict total order.
LEMMA BeforeTotal ==
    ASSUME NEW m \in Node, NEW n \in Node, Len(m) = Len(n), m # n
    PROVE  Before(m, n) \/ Before(n, m)
<1> DEFINE T == {i \in 1..Len(n) : m[i] # n[i]}
<1>1. /\ m \in Seq(Nat) /\ n \in Seq(Nat) /\ Len(n) \in Nat
      /\ \A i \in 1..Len(n) : m[i] \in Nat /\ n[i] \in Nat
  BY NodeTyped
<1>2. T \subseteq Nat /\ T # {}
  <2>1. T \subseteq Nat
    BY <1>1
  <2>2. ASSUME T = {} PROVE FALSE
    <3>1. \A i \in 1..Len(n) : m[i] = n[i]
      BY <2>2
    <3>2. m = n
      <4> HIDE DEF T
      <4> QED
        BY <1>1, <3>1, SeqEqual
    <3> QED
      BY <3>2
  <2> QED
    BY <2>1, <2>2
<1>3. PICK i \in T : \A j \in T : i <= j
  <2> HIDE DEF T
  <2> QED
    BY <1>2, LeastOf
<1>4. /\ i \in 1..Len(n) /\ m[i] # n[i]
      /\ \A j \in 1..i - 1 : m[j] = n[j]
  BY <1>1, <1>3
<1>5. m[i] < n[i] \/ n[i] < m[i]
  BY <1>1, <1>4
<1> QED
  BY <1>4, <1>5 DEF Before

LEMMA BeforeStrict ==
    ASSUME NEW m \in Node, NEW n \in Node, Len(m) = Len(n), Before(m, n)
    PROVE  m # n /\ ~ Before(n, m)
<1>1. /\ \A i \in 1..Len(n) : m[i] \in Nat /\ n[i] \in Nat
      /\ Len(n) \in Nat
  BY NodeTyped
<1>2. PICK i \in 1..Len(n) : m[i] < n[i] /\ \A j \in 1..i - 1 : m[j] = n[j]
  BY DEF Before
<1>3. m # n
  BY <1>1, <1>2
<1>4. ASSUME Before(n, m) PROVE FALSE
  <2>1. PICK k \in 1..Len(n) : n[k] < m[k] /\ \A j \in 1..k - 1 : n[j] = m[j]
    BY <1>4 DEF Before
  <2> QED
    BY <1>1, <1>2, <2>1
<1> QED
  BY <1>3, <1>4

LEMMA BeforeTransitive ==
    ASSUME NEW l \in Node, NEW m \in Node, NEW n \in Node,
           Len(l) = Len(n), Len(m) = Len(n), Before(l, m), Before(m, n)
    PROVE  Before(l, n)
<1>1. /\ \A i \in 1..Len(n) : l[i] \in Nat /\ m[i] \in Nat /\ n[i] \in Nat
      /\ Len(n) \in Nat
  BY NodeTyped
<1>2. PICK i \in 1..Len(n) : l[i] < m[i] /\ \A j \in 1..i - 1 : l[j] = m[j]
  BY DEF Before
<1>3. PICK k \in 1..Len(n) : m[k] < n[k] /\ \A j \in 1..k - 1 : m[j] = n[j]
  BY DEF Before
<1> DEFINE i0 == IF i < k THEN i ELSE k
<1>4. i0 \in 1..Len(n) /\ i0 <= i /\ i0 <= k /\ i \in Nat /\ k \in Nat /\ i0 \in Nat
  BY <1>1
<1>5. l[i0] < n[i0]
  <2>1. CASE i < k
    BY <1>1, <1>2, <1>3, <2>1
  <2>2. CASE ~ (i < k) /\ k < i
    BY <1>1, <1>2, <1>3, <2>2
  <2>3. CASE ~ (i < k) /\ k = i
    BY <1>1, <1>2, <1>3, <2>3
  <2> QED
    BY <1>4, <2>1, <2>2, <2>3
<1>6. \A j \in 1..i0 - 1 : l[j] = n[j]
  <2> SUFFICES ASSUME NEW j \in 1..i0 - 1 PROVE l[j] = n[j]
    OBVIOUS
  <2>1. j \in 1..i - 1 /\ j \in 1..k - 1
    BY <1>4
  <2> QED
    BY <1>2, <1>3, <2>1
<1> QED
  BY <1>4, <1>5, <1>6 DEF Before

UpTo(n) == {m \in AtDepth(Len(n)) : m = n \/ Before(m, n)}

LEMMA PlaceTyped ==
    ASSUME NEW d \in Nat, NEW n \in AtDepth(d)
    PROVE  /\ Place(n) \in 1..Cardinality(AtDepth(d)) /\ Place(n) = Cardinality(UpTo(n))
           /\ IsFiniteSet(UpTo(n)) /\ Cardinality(AtDepth(d)) \in Nat
           /\ IsFiniteSet(AtDepth(d)) /\ n \in Node /\ Len(n) = d
<1>1. IsFiniteSet(AtDepth(d)) /\ n \in Node /\ Len(n) = d
  BY TreeAssumption, FS_Subset DEF AtDepth
<1>2. /\ IsFiniteSet(UpTo(n)) /\ Cardinality(UpTo(n)) <= Cardinality(AtDepth(d))
      /\ Cardinality(UpTo(n)) \in Nat /\ Cardinality(AtDepth(d)) \in Nat
  <2>1. UpTo(n) \in SUBSET AtDepth(d)
    BY <1>1 DEF UpTo
  <2> QED
    BY <1>1, <2>1, FS_Subset, FS_CardinalityType
<1>3. Cardinality(UpTo(n)) # 0
  <2>1. n \in UpTo(n)
    BY <1>1 DEF UpTo
  <2> QED
    BY <1>2, <2>1, FS_EmptySet
<1> QED
  BY <1>1, <1>2, <1>3 DEF Place, UpTo

LEMMA PlaceMonotone ==
    ASSUME NEW d \in Nat, NEW m \in AtDepth(d), NEW n \in AtDepth(d), Before(m, n)
    PROVE  Place(m) < Place(n)
<1>1. /\ Place(m) = Cardinality(UpTo(m)) /\ Place(n) = Cardinality(UpTo(n))
      /\ IsFiniteSet(UpTo(n)) /\ IsFiniteSet(UpTo(m))
      /\ m \in Node /\ n \in Node /\ Len(m) = d /\ Len(n) = d
      /\ Place(m) \in Nat /\ Place(n) \in Nat
  BY PlaceTyped
<1>2. UpTo(m) \subseteq UpTo(n)
  BY <1>1, BeforeTransitive DEF UpTo, AtDepth
<1>3. n \in UpTo(n) /\ n \notin UpTo(m)
  BY <1>1, BeforeStrict DEF UpTo, AtDepth
<1>4. Cardinality(UpTo(m)) <= Cardinality(UpTo(n))
      /\ Cardinality(UpTo(m)) # Cardinality(UpTo(n))
  BY <1>1, <1>2, <1>3, FS_Subset
<1> QED
  BY <1>1, <1>4

\* The sequence Level(d) lists the nodes at depth d, each once and in the order
\* of the tree.
LEMMA LevelExact ==
    ASSUME NEW d \in Nat
    PROVE  /\ Level(d) \in Seq(AtDepth(d)) /\ Len(Level(d)) = Cardinality(AtDepth(d))
           /\ \A n \in AtDepth(d) : \E k \in 1..Len(Level(d)) : Level(d)[k] = n
           /\ \A k \in 1..Len(Level(d)) : Place(Level(d)[k]) = k
<1> DEFINE S == AtDepth(d)
           c == Cardinality(S)
           f == [n \in S |-> Place(n)]
<1>1. IsFiniteSet(S) /\ c \in Nat
  BY TreeAssumption, FS_Subset, FS_CardinalityType DEF AtDepth
<1>2. f \in Injection(S, 1..c)
  <2>1. f \in [S -> 1..c]
    BY PlaceTyped
  <2>2. ASSUME NEW m \in S, NEW n \in S, f[m] = f[n] PROVE m = n
    <3>1. /\ m \in Node /\ n \in Node /\ Len(m) = Len(n)
          /\ Place(m) \in Nat /\ Place(n) \in Nat /\ Place(m) = Place(n)
      BY <2>2, PlaceTyped
    <3>2. ~ Before(m, n) /\ ~ Before(n, m)
      BY <3>1, PlaceMonotone
    <3> QED
      BY <3>1, <3>2, BeforeTotal
  <2> QED
    BY <2>1, <2>2 DEF Injection, IsInjective
<1>3. IsFiniteSet(1..c) /\ Cardinality(1..c) = c
  BY <1>1, FS_Interval
<1>4. f \in Surjection(S, 1..c)
  <2> HIDE DEF f
  <2> QED
    BY <1>2, <1>3, FS_Injection
<1>5. \A k \in 1..c : \E n \in S : Place(n) = k
  BY <1>4 DEF Surjection
<1>6. \A k \in 1..c : Level(d)[k] \in S /\ Place(Level(d)[k]) = k
  BY <1>5 DEF Level
<1>7. DOMAIN Level(d) = 1..c /\ Level(d) = [k \in 1..c |-> Level(d)[k]]
  BY DEF Level
<1>8. Level(d) \in Seq(S) /\ Len(Level(d)) = c
  BY <1>1, <1>6, <1>7
<1>9. \A n \in S : \E k \in 1..c : Level(d)[k] = n
  <2> SUFFICES ASSUME NEW n \in S PROVE \E k \in 1..c : Level(d)[k] = n
    OBVIOUS
  <2>1. Place(n) \in 1..c
    BY PlaceTyped
  <2>2. Level(d)[Place(n)] \in S /\ f[Level(d)[Place(n)]] = f[n]
    BY <1>6, <2>1
  <2>3. Level(d)[Place(n)] = n
    <3> HIDE DEF f
    <3> QED
      BY <1>2, <2>2 DEF Injection, IsInjective
  <2> QED
    BY <2>1, <2>3
<1> QED
  BY <1>6, <1>8, <1>9
-----------------------------------------------------------------------------
\* The places where processNode has begun to act on what it has read.
Acting == {"objective", "raise", "submit", "flag"}

\* Schedulers that have a child in hand.
WithChild == Acting \cup {"process", "answered"}

SharedTyped ==
    /\ tags \in Tags
    /\ pc = [v \in Worker |-> pc[v]]
    /\ child \in [Worker -> Node \cup {NoNode}]
    /\ localBound \in [Locality -> Nat]
    /\ bounds \subseteq Locality \X Nat
    /\ stopSearch \in [Locality -> BOOLEAN]
    /\ stops \subseteq Locality
    /\ incumbent \in Node

\* Between "process" and "answered" a scheduler has a node, and in a decision
\* search it submits no node but a solution; an enumeration answers at once.
InHand ==
    \A w \in Worker :
        /\ pc[w] \in Acting \cup {"process", "answered"} => child[w] \in Node
        /\ pc[w] \in {"raise", "submit"} /\ Kind = "Decision" =>
              Obj[child[w]] = expectedObjective
        /\ pc[w] = "objective" => Kind = "Optimisation"
        /\ pc[w] \in Acting => Kind # "Enumeration"

Solved == Kind = "Decision" /\ Obj[incumbent] = expectedObjective

\* The incumbent of a decision search never passes the solution, so once it is
\* one it stays one; whoever is about to stop the others knows that it is.
StopsSolved ==
    /\ Kind = "Decision" => Obj[incumbent] <= expectedObjective
    /\ \A w \in Worker : pc[w] = "flag" => Solved
    /\ \A l \in Locality : l \in stops \/ stopSearch[l] => Solved

ProcessInv == SharedTyped /\ InHand /\ StopsSolved /\ BoundsBacked

LEMMA ObjNat == \A n \in Node : Obj[n] \in Nat
BY BoundAssumption

LEMMA ProcessInvSafe == ProcessInv => BoundsBacked /\ StopOnlyIfFound
BY DEF ProcessInv, StopsSolved, Solved, StopOnlyIfFound

\* Nothing is raised, stopped or submitted before the search has begun.
LEMMA SharedInitInv ==
    ASSUME SharedInit, pc = [v \in Worker |-> pc[v]],
           \A w \in Worker : pc[w] \notin Acting \cup {"process", "answered"}
    PROVE  ProcessInv
<1>1. SharedTyped
  BY BoundAssumption, TreeAssumption DEF SharedInit, SharedTyped
<1>2. InHand
  BY DEF InHand, Acting
<1>3. StopsSolved
  BY BoundAssumption DEF SharedInit, StopsSolved, Acting, Kind
<1>4. BoundsBacked
  BY BoundAssumption DEF SharedInit, BoundsBacked, Backed
<1> QED
  BY <1>1, <1>2, <1>3, <1>4 DEF ProcessInv

\* A step of the skeleton itself: scheduler w moves between places outside
\* processNode, or enters it with a node.
LEMMA SkeletonStep ==
    ASSUME ProcessInv, UNCHANGED <<tags, shared_vars>>, NEW w \in Worker,
           pc' = [v \in Worker |-> pc'[v]], child' \in [Worker -> Node \cup {NoNode}],
           \A v \in Worker \ {w} : pc'[v] = pc[v] /\ child'[v] = child[v],
           pc[w] \notin Acting, pc'[w] \notin Acting,
           pc'[w] \in {"process", "answered"} => child'[w] \in Node
    PROVE  ProcessInv'
<1> USE DEF ProcessInv
<1>1. SharedTyped'
  BY DEF SharedTyped, shared_vars
<1>2. InHand'
  BY DEF InHand, Acting, Kind
<1>3. StopsSolved'
  BY DEF StopsSolved, Solved, Kind, Acting, shared_vars
<1>4. ASSUME NEW b, Backed(b) PROVE Backed(b)'
  BY <1>4 DEF Backed, Acting, shared_vars
<1>5. BoundsBacked'
  BY <1>4 DEF BoundsBacked, shared_vars
<1> QED
  BY <1>1, <1>2, <1>3, <1>5

\* The same for a step that moves no scheduler.
LEMMA QuietStep ==
    ASSUME ProcessInv, UNCHANGED <<tags, pc, child, shared_vars>>
    PROVE  ProcessInv'
BY DEF ProcessInv, SharedTyped, InHand, StopsSolved, Solved, Kind,
   BoundsBacked, Backed, shared_vars
-----------------------------------------------------------------------------
\* The broadcasts may arrive at any time and in any order.
LEMMA ReceiveStep ==
    ASSUME ProcessInv, Receive
    PROVE  ProcessInv'
<1> USE DEF ProcessInv
<1>1. ASSUME NEW l, NEW b, ReceiveBound(l, b) PROVE ProcessInv'
  <2>1. /\ <<l, b>> \in bounds /\ l \in Locality /\ b \in Nat
        /\ localBound' = [localBound EXCEPT ![l] = Raised(localBound[l], b)]
        /\ bounds' = bounds \ {<<l, b>>}
        /\ UNCHANGED <<tags, pc, child, stopSearch, stops, incumbent>>
    BY <1>1 DEF ReceiveBound, SharedTyped
  <2>2. SharedTyped'
    BY <2>1 DEF SharedTyped, Raised
  <2>3. InHand' /\ StopsSolved'
    BY <2>1 DEF InHand, StopsSolved, Solved, Kind
  <2>4. BoundsBacked'
    BY <2>1 DEF BoundsBacked, Backed, Raised, SharedTyped
  <2> QED
    BY <2>2, <2>3, <2>4
<1>2. ASSUME NEW l, ReceiveStop(l) PROVE ProcessInv'
  <2>1. /\ l \in stops /\ l \in Locality
        /\ stopSearch' = [stopSearch EXCEPT ![l] = TRUE]
        /\ stops' = stops \ {l}
        /\ UNCHANGED <<tags, pc, child, localBound, bounds, incumbent>>
    BY <1>2 DEF ReceiveStop, SharedTyped
  <2>2. SharedTyped'
    BY <2>1 DEF SharedTyped
  <2>3. InHand' /\ StopsSolved'
    BY <2>1 DEF InHand, StopsSolved, Solved, Kind, SharedTyped
  <2>4. BoundsBacked'
    BY <2>1 DEF BoundsBacked, Backed
  <2> QED
    BY <2>2, <2>3, <2>4
<1> QED
  BY <1>1, <1>2 DEF Receive
-----------------------------------------------------------------------------
\* processNode up to the first change of shared state: what it reads may be
\* stale at once, and does not matter to the invariant.
LEMMA ReadStep ==
    ASSUME ProcessInv, UNCHANGED <<tags, child, shared_vars>>, NEW w \in Worker,
           pc[w] \in {"process", "objective"},
           NEW p \in {"objective", "raise", "answered"}, Goto(w, p),
           p = "raise" /\ Kind = "Decision" => Obj[child[w]] = expectedObjective,
           p = "objective" => Kind = "Optimisation",
           p # "answered" => Kind # "Enumeration"
    PROVE  ProcessInv'
<1> USE DEF ProcessInv
<1>1. /\ pc' = [v \in Worker |-> pc'[v]] /\ pc'[w] = p
      /\ \A v \in Worker \ {w} : pc'[v] = pc[v]
  BY DEF Goto, SharedTyped
<1>2. SharedTyped'
  BY <1>1 DEF SharedTyped, shared_vars
<1>3. InHand'
  BY <1>1 DEF InHand, Acting, Kind
<1>4. StopsSolved'
  BY <1>1 DEF StopsSolved, Solved, Kind, shared_vars
<1>5. ASSUME NEW b, Backed(b) PROVE Backed(b)'
  BY <1>1, <1>5 DEF Backed, shared_vars
<1>6. BoundsBacked'
  BY <1>5 DEF BoundsBacked, shared_vars
<1> QED
  BY <1>2, <1>3, <1>4, <1>6

\* The bound is raised by the scheduler that is about to submit the solution
\* that backs it.
LEMMA RaiseBoundStep ==
    ASSUME ProcessInv, NEW w \in Worker, RaiseBound(w)
    PROVE  ProcessInv'
<1> USE DEF ProcessInv
<1> DEFINE obj == Obj[child[w]]
<1>1. child[w] \in Node /\ obj \in Nat
  BY ObjNat DEF RaiseBound, InHand, Acting
<1>2. /\ pc[w] = "raise" /\ home[w] \in Locality
      /\ localBound' = [localBound EXCEPT ![home[w]] =
                            Raised(localBound[home[w]], obj)]
      /\ bounds' = bounds \cup (Locality \X {obj})
      /\ UNCHANGED <<tags, child, stopSearch, stops, incumbent>>
  BY BoundAssumption DEF RaiseBound
<1>3. /\ pc' = [v \in Worker |-> pc'[v]] /\ pc'[w] = "submit"
      /\ \A v \in Worker \ {w} : pc'[v] = pc[v]
  BY DEF RaiseBound, Goto, SharedTyped
<1>4. SharedTyped'
  BY <1>1, <1>2, <1>3 DEF SharedTyped, Raised
<1>5. InHand'
  BY <1>1, <1>2, <1>3 DEF InHand, Kind, Acting
<1>6. StopsSolved'
  BY <1>2, <1>3 DEF StopsSolved, Solved, Kind
<1>7. ASSUME NEW b, Backed(b) PROVE Backed(b)'
  BY <1>2, <1>3, <1>7 DEF Backed
<1>8. Backed(obj)'
  BY <1>1, <1>2, <1>3 DEF Backed
<1>9. BoundsBacked'
  <2>1. ASSUME NEW l \in Locality PROVE Backed(localBound[l])'
    <3>1. localBound'[l] \in {localBound[l], obj}
      BY <1>2 DEF SharedTyped, Raised
    <3>2. Backed(localBound[l])
      BY DEF BoundsBacked
    <3> QED
      BY <1>2, <1>3, <1>8, <3>1, <3>2 DEF Backed
  <2>2. ASSUME NEW m \in bounds' PROVE Backed(m[2])'
    <3>1. CASE m \in bounds
      BY <1>2, <1>3, <3>1 DEF BoundsBacked, Backed
    <3>2. CASE m \in Locality \X {obj}
      BY <1>1, <1>2, <1>3, <3>2 DEF Backed
    <3> QED
      BY <1>2, <3>1, <3>2
  <2> QED
    BY <2>1, <2>2 DEF BoundsBacked
<1> QED
  BY <1>4, <1>5, <1>6, <1>9

\* The incumbent keeps the better of the two: it backs whatever the scheduler
\* backed while the call was under way.
LEMMA SubmitStep ==
    ASSUME ProcessInv, NEW w \in Worker, SubmitIncumbent(w)
    PROVE  ProcessInv'
<1> USE DEF ProcessInv
<1> DEFINE c == child[w]
<1>1. c \in Node /\ Obj[c] \in Nat /\ Obj[incumbent] \in Nat
  BY ObjNat DEF SubmitIncumbent, InHand, Acting, SharedTyped
<1>2. /\ pc[w] = "submit" /\ incumbent' = BestNode(incumbent, c)
      /\ UNCHANGED <<tags, child, localBound, bounds, stopSearch, stops>>
  BY DEF SubmitIncumbent
<1>3. /\ pc' = [v \in Worker |-> pc'[v]] /\ pc'[w] \in {"answered", "flag"}
      /\ pc'[w] = "flag" => Kind = "Decision"
      /\ \A v \in Worker \ {w} : pc'[v] = pc[v]
  BY DEF SubmitIncumbent, Answer, Goto, SharedTyped
<1>4. /\ incumbent' \in {incumbent, c} /\ Obj[incumbent'] \in Nat
      /\ Obj[incumbent'] >= Obj[incumbent] /\ Obj[incumbent'] >= Obj[c]
  BY <1>1, <1>2 DEF BestNode
<1>5. SharedTyped'
  BY <1>1, <1>2, <1>3, <1>4 DEF SharedTyped
<1>6. InHand'
  BY <1>1, <1>2, <1>3 DEF InHand, Kind, Acting
<1>7. StopsSolved'
  <2>1. Kind = "Decision" => Obj[c] = expectedObjective
    BY <1>2 DEF InHand
  <2>2. Kind = "Decision" => Solved'
    BY <1>1, <1>2, <1>4, <2>1, BoundAssumption DEF StopsSolved, Solved, Kind
  <2>3. \A v \in Worker : pc'[v] = "flag" => Kind = "Decision"
    BY <1>3 DEF StopsSolved, Solved
  <2>4. \A l \in Locality : l \in stops \/ stopSearch[l] => Kind = "Decision"
    BY DEF StopsSolved, Solved
  <2>5. Kind = "Decision" => Obj[incumbent'] <= expectedObjective
    BY <1>4, <2>1, <2>2, BoundAssumption DEF Solved, StopsSolved
  <2> QED
    BY <1>2, <2>2, <2>3, <2>4, <2>5 DEF StopsSolved, Kind
<1>8. ASSUME NEW b \in Nat, Backed(b) PROVE Backed(b)'
  <2>1. CASE b <= initialBound
    BY <2>1 DEF Backed
  <2>2. CASE b <= Obj[incumbent]
    BY <1>1, <1>4, <2>2 DEF Backed
  <2>3. ASSUME NEW v \in Worker, pc[v] = "submit", b <= Obj[child[v]]
        PROVE  Backed(b)'
    <3>1. CASE v = w
      BY <1>1, <1>4, <2>3, <3>1 DEF Backed
    <3>2. CASE v # w
      BY <1>2, <1>3, <2>3, <3>2 DEF Backed
    <3> QED
      BY <3>1, <3>2
  <2> QED
    BY <1>8, <2>1, <2>2, <2>3 DEF Backed
<1>9. BoundsBacked'
  <2>1. \A l \in Locality : localBound[l] \in Nat
    BY DEF SharedTyped
  <2>2. \A m \in bounds : m[2] \in Nat
    BY DEF SharedTyped
  <2>3. ASSUME NEW l \in Locality PROVE Backed(localBound[l])'
    BY <1>2, <1>8, <2>1 DEF BoundsBacked, Backed
  <2>4. ASSUME NEW m \in bounds' PROVE Backed(m[2])'
    BY <1>2, <1>8, <2>2 DEF BoundsBacked, Backed
  <2> QED
    BY <2>3, <2>4 DEF BoundsBacked
<1> QED
  BY <1>5, <1>6, <1>7, <1>9

\* The flag is broadcast by a scheduler that has submitted the solution.
LEMMA StopOthersStep ==
    ASSUME ProcessInv, NEW w \in Worker, StopOthers(w)
    PROVE  ProcessInv'
<1> USE DEF ProcessInv
<1>1. /\ pc[w] = "flag" /\ stops' = Locality
      /\ UNCHANGED <<tags, child, localBound, bounds, stopSearch, incumbent>>
  BY DEF StopOthers
<1>2. /\ pc' = [v \in Worker |-> pc'[v]] /\ pc'[w] = "answered"
      /\ \A v \in Worker \ {w} : pc'[v] = pc[v]
  BY DEF StopOthers, Answer, Goto, SharedTyped
<1>3. SharedTyped'
  BY <1>1, <1>2 DEF SharedTyped
<1>4. InHand'
  BY <1>1, <1>2 DEF InHand, Kind, Acting
<1>5. StopsSolved'
  BY <1>1, <1>2 DEF StopsSolved, Solved, Kind
<1>6. ASSUME NEW b, Backed(b) PROVE Backed(b)'
  BY <1>1, <1>2, <1>6 DEF Backed
<1>7. BoundsBacked'
  BY <1>1, <1>6 DEF BoundsBacked
<1> QED
  BY <1>3, <1>4, <1>5, <1>7

LEMMA ProcessStep ==
    ASSUME ProcessInv, NEW w \in Worker, Process(w)
    PROVE  ProcessInv'
<1>1. CASE ProcessCounted(w)
  BY <1>1, ReadStep DEF ProcessCounted, Answer
<1>2. CASE ProcessFound(w)
  BY <1>2, ReadStep DEF ProcessFound, Found
<1>3. CASE ProcessHopeless(w)
  BY <1>3, ReadStep DEF ProcessHopeless, Answer
<1>4. CASE ProcessAlive(w)
  BY <1>4, ReadStep DEF ProcessAlive, Answer
<1>5. CASE CheckObjective(w)
  <2>1. Kind = "Optimisation"
    BY <1>5 DEF CheckObjective, ProcessInv, InHand
  <2> QED
    BY <1>5, <2>1, ReadStep DEF CheckObjective, Answer
<1>6. CASE RaiseBound(w)
  BY <1>6, RaiseBoundStep
<1>7. CASE SubmitIncumbent(w)
  BY <1>7, SubmitStep
<1>8. CASE StopOthers(w)
  BY <1>8, StopOthersStep
<1> QED
  BY <1>1, <1>2, <1>3, <1>4, <1>5, <1>6, <1>7, <1>8 DEF Process

\* An enumeration counts the node and does nothing else; no other search
\* counts.
LEMMA CountingStep ==
    ASSUME ProcessInv, NEW w \in Worker, Process(w)
    PROVE  IF Kind = "Enumeration" THEN ProcessCounted(w) ELSE UNCHANGED acc
BY DEF Process, ProcessCounted, ProcessFound, Found, ProcessHopeless, Hopeless,
   ProcessAlive, CheckObjective, RaiseBound, SubmitIncumbent, StopOthers, ProcessInv,
   InHand, Acting

\* Where one step of processNode takes a scheduler.
LEMMA ProcessPlace ==
    ASSUME NEW w \in Worker, Process(w), ret \in [Worker -> Answers]
    PROVE  /\ pc[w] \in Acting \cup {"process"}
           /\ \E p \in Acting \cup {"answered"} : Goto(w, p)
           /\ ret' \in [Worker -> Answers] /\ UNCHANGED <<tags, child>>
BY DEF Process, ProcessCounted, ProcessFound, ProcessHopeless, ProcessAlive,
   CheckObjective, RaiseBound, SubmitIncumbent, StopOthers, Answer, Answers, Acting
-----------------------------------------------------------------------------
\* The nodes a search is about: those better than the initial bound, or the
\* solutions of a decision.
Goal(n) == \/ Kind = "Optimisation" /\ Obj[n] > initialBound
           \/ Kind = "Decision" /\ Obj[n] = expectedObjective

\* Node n need not be looked at any more: the incumbent is as good, or a
\* scheduler has a node as good and will submit it.
Settled(n) == \/ Obj[n] <= Obj[incumbent]
              \/ \E w \in Worker : pc[w] \in {"raise", "submit"} /\ Obj[n] <= Obj[child[w]]

\* What scheduler w has in hand between two steps of the skeleton.
AtChild(w, n) ==
    \/ pc[w] \in {"process", "objective"} /\ n \in Subtree(child[w])
    \/ pc[w] \in {"raise", "submit"} /\ n \in Below(child[w])
    \/ pc[w] = "answered" /\ ret[w] = "Continue" /\ n \in Below(child[w])

LEMMA SolvedSettles ==
    ASSUME ProcessInv, Solved, NEW n \in Node, Goal(n)
    PROVE  Settled(n)
BY BoundAssumption DEF Solved, Goal, Settled

\* The argument for pruning: a bound that leaves no hope below c settles every
\* node it covers, because the local bound it was compared with is backed.
LEMMA HopelessSettles ==
    ASSUME ProcessInv, NEW l \in Locality, NEW c \in Node,
           Hopeless(c, localBound[l]),
           NEW n \in Node, Obj[n] <= Bound[c], Goal(n)
    PROVE  Settled(n)
<1> USE DEF ProcessInv
<1>1. /\ Obj[n] \in Nat /\ Bound[c] \in Nat /\ localBound[l] \in Nat
      /\ expectedObjective \in Nat /\ initialBound \in Nat /\ Obj[incumbent] \in Nat
      /\ \A v \in Worker : pc[v] = "submit" => Obj[child[v]] \in Nat
  BY BoundAssumption, ObjNat DEF SharedTyped, InHand, Acting
<1>2. Kind = "Optimisation" /\ Obj[n] > initialBound /\ Bound[c] <= localBound[l]
  BY <1>1 DEF Goal, Hopeless
<1>3. Backed(localBound[l])
  BY DEF BoundsBacked
<1> QED
  BY <1>1, <1>2, <1>3 DEF Backed, Settled

\* A node whose objective is no better than the local bound is settled.
LEMMA NotBetterSettles ==
    ASSUME ProcessInv, NEW l \in Locality, NEW n \in Node,
           Obj[n] <= localBound[l], Goal(n), Kind = "Optimisation"
    PROVE  Settled(n)
<1>1. /\ Obj[n] \in Nat /\ localBound[l] \in Nat /\ initialBound \in Nat
      /\ Obj[incumbent] \in Nat
      /\ \A v \in Worker : pc[v] = "submit" => Obj[child[v]] \in Nat
  BY BoundAssumption, ObjNat DEF ProcessInv, SharedTyped, InHand, Acting
<1>2. Backed(localBound[l]) /\ Obj[n] > initialBound
  BY DEF ProcessInv, BoundsBacked, Goal
<1> QED
  BY <1>1, <1>2 DEF Backed, Settled

\* Steps of the skeleton itself leave alone what settles a node.
LEMMA SkeletonSettled ==
    ASSUME UNCHANGED shared_vars, NEW w \in Worker, pc[w] \notin Acting,
           \A v \in Worker \ {w} : pc'[v] = pc[v] /\ child'[v] = child[v],
           NEW n, Settled(n)
    PROVE  Settled(n)'
BY DEF Settled, Acting, shared_vars

\* The incumbent never gets worse, and a solution stays one.
LEMMA IncumbentRises ==
    ASSUME ProcessInv, NEW w \in Worker, Process(w)
    PROVE  Obj[incumbent] <= Obj[incumbent'] /\ (Solved => Solved')
<1>1. Obj[incumbent] \in Nat
  BY ObjNat DEF ProcessInv, SharedTyped
<1>2. CASE UNCHANGED incumbent
  BY <1>1, <1>2 DEF Solved, Kind, Process, ProcessCounted, ProcessFound,
     ProcessHopeless, ProcessAlive, CheckObjective, RaiseBound, SubmitIncumbent,
     StopOthers
<1>3. CASE SubmitIncumbent(w)
  <2>1. /\ incumbent' = BestNode(incumbent, child[w]) /\ UNCHANGED tags
        /\ Obj[child[w]] \in Nat
        /\ Kind = "Decision" => Obj[child[w]] = expectedObjective
    BY <1>3, ObjNat DEF SubmitIncumbent, ProcessInv, InHand, Acting
  <2> QED
    BY <1>1, <2>1 DEF BestNode, Solved, Kind
<1> QED
  BY <1>2, <1>3 DEF Process, ProcessCounted, ProcessFound, ProcessHopeless,
     ProcessAlive, CheckObjective, RaiseBound, StopOthers, shared_vars

\* A settled node stays settled: whoever holds a better one submits it.
LEMMA SettledKept ==
    ASSUME ProcessInv, NEW w \in Worker, Process(w), NEW n \in Node, Settled(n)
    PROVE  Settled(n)'
<1> USE DEF ProcessInv
<1>1. /\ Obj[n] \in Nat /\ Obj[incumbent] \in Nat /\ Obj[incumbent'] \in Nat
      /\ Obj[incumbent] <= Obj[incumbent']
  BY ProcessStep, IncumbentRises, ObjNat DEF SharedTyped
<1>2. CASE Obj[n] <= Obj[incumbent]
  BY <1>1, <1>2 DEF Settled
<1>3. ASSUME NEW v \in Worker, pc[v] \in {"raise", "submit"}, Obj[n] <= Obj[child[v]]
      PROVE  Settled(n)'
  <2>1. UNCHANGED child /\ \A u \in Worker \ {w} : pc'[u] = pc[u]
    BY DEF Process, ProcessCounted, ProcessFound, ProcessHopeless, ProcessAlive,
       CheckObjective, RaiseBound, SubmitIncumbent, StopOthers, Answer, Goto, SharedTyped
  <2>2. CASE v # w
    BY <1>3, <2>1, <2>2 DEF Settled
  <2>3. CASE v = w /\ pc[w] = "raise"
    <3>1. RaiseBound(w)
      BY <2>3 DEF Process, ProcessCounted, ProcessFound, ProcessHopeless,
         ProcessAlive, CheckObjective, SubmitIncumbent, StopOthers
    <3>2. pc'[w] = "submit"
      BY <3>1 DEF RaiseBound, Goto, SharedTyped
    <3> QED
      BY <1>3, <2>1, <2>3, <3>2 DEF Settled
  <2>4. CASE v = w /\ pc[w] = "submit"
    <3>1. SubmitIncumbent(w)
      BY <2>4 DEF Process, ProcessCounted, ProcessFound, ProcessHopeless,
         ProcessAlive, CheckObjective, RaiseBound, StopOthers
    <3>2. Obj[child[w]] \in Nat /\ incumbent' = BestNode(incumbent, child[w])
      BY <2>4, <3>1, ObjNat DEF SubmitIncumbent, InHand, Acting
    <3>3. Obj[child[w]] <= Obj[incumbent']
      BY <1>1, <3>2 DEF BestNode
    <3> QED
      BY <1>1, <1>3, <2>4, <3>2, <3>3 DEF Settled
  <2> QED
    BY <1>3, <2>2, <2>3, <2>4
<1> QED
  BY <1>2, <1>3 DEF Settled
-----------------------------------------------------------------------------
\* Where one step of processNode takes a scheduler, and with what answer.
LEMMA ProcessMoves ==
    ASSUME ProcessInv, ret \in [Worker -> Answers], NEW w \in Worker, Process(w)
    PROVE  /\ UNCHANGED <<tags, child>>
           /\ \A v \in Worker \ {w} : pc'[v] = pc[v] /\ ret'[v] = ret[v]
           /\ pc'[w] = "answered" /\ ret'[w] = "Break" =>
                 /\ pc[w] = "process" /\ PruneLevel
                 /\ Hopeless(child[w], localBound[home[w]])
           /\ pc'[w] = "answered" /\ ret'[w] = "Exit" => Solved'
           /\ pc'[w] # "process"
<1> USE DEF ProcessInv, SharedTyped, Answer, Goto
<1>1. CASE ProcessCounted(w) \/ ProcessFound(w) \/ ProcessAlive(w) \/ CheckObjective(w)
            \/ RaiseBound(w) \/ SubmitIncumbent(w)
  BY <1>1 DEF ProcessCounted, ProcessFound, ProcessAlive, CheckObjective,
     RaiseBound, SubmitIncumbent
<1>2. CASE ProcessHopeless(w)
  BY <1>2 DEF ProcessHopeless
<1>3. CASE StopOthers(w)
  <2>1. Solved'
    BY <1>3 DEF StopOthers, StopsSolved, Solved, Kind
  <2> QED
    BY <1>3, <2>1 DEF StopOthers
<1> QED
  BY <1>1, <1>2, <1>3 DEF Process

\* processNode drops no node that matters: what was in hand still is, or it is
\* settled.
LEMMA InHandKept ==
    ASSUME ProcessInv, ret \in [Worker -> Answers], Kind # "Enumeration",
           NEW w \in Worker, Process(w), NEW n \in Node, Goal(n), AtChild(w, n)
    PROVE  Settled(n)' \/ AtChild(w, n)'
<1> DEFINE c == child[w]
<1>0. /\ pc = [v \in Worker |-> pc[v]] /\ home[w] \in Locality
      /\ pc[w] \in {"process", "objective", "raise", "submit"}
      /\ c \in Node /\ UNCHANGED child /\ Obj[n] \in Nat /\ Obj[c] \in Nat
      /\ Settled(n) => Settled(n)'
  <2>1. pc[w] # "answered"
    BY DEF Process, ProcessCounted, ProcessFound, ProcessHopeless, ProcessAlive,
       CheckObjective, RaiseBound, SubmitIncumbent, StopOthers
  <2> QED
    BY <2>1, BoundAssumption, ObjNat, SettledKept, ProcessMoves
    DEF AtChild, ProcessInv, SharedTyped, InHand, Acting
<1>1. CASE ProcessFound(w)
  <2>1. pc'[w] = "raise" /\ n \in Subtree(c)
    BY <1>0, <1>1 DEF ProcessFound, Goto, AtChild
  <2> QED
    BY <1>0, <2>1 DEF Subtree, AtChild, Settled
<1>2. CASE ProcessHopeless(w)
  <2>1. n \in Subtree(c) /\ Hopeless(c, localBound[home[w]])
    BY <1>0, <1>2 DEF ProcessHopeless, AtChild
  <2>2. Obj[n] <= Bound[c]
    BY <1>0, <2>1, BoundAssumption DEF Subtree
  <2> QED
    BY <1>0, <2>1, <2>2, HopelessSettles
<1>3. CASE ProcessAlive(w)
  <2>1. n \in Subtree(c) /\ ~ Found(c)
    BY <1>0, <1>3 DEF ProcessAlive, AtChild
  <2>2. CASE Kind = "Optimisation"
    <3>1. pc'[w] = "objective"
      BY <1>0, <1>3, <2>2 DEF ProcessAlive, Goto
    <3> QED
      BY <1>0, <2>1, <3>1 DEF AtChild
  <2>3. CASE Kind = "Decision"
    <3>1. pc'[w] = "answered" /\ ret'[w] = "Continue"
      BY <1>0, <1>3, <2>3 DEF ProcessAlive, Goto, Answer
    <3>2. n # c
      BY <2>1, <2>3 DEF Found, Goal
    <3> QED
      BY <1>0, <2>1, <3>1, <3>2 DEF AtChild, Subtree
  <2> QED
    BY <1>3, <2>2, <2>3 DEF ProcessAlive
<1>4. CASE CheckObjective(w)
  <2>1. n \in Subtree(c) /\ Kind = "Optimisation" /\ pc[w] = "objective"
    BY <1>0, <1>4 DEF CheckObjective, AtChild, ProcessInv, InHand
  <2>2. CASE Obj[c] > localBound[home[w]] /\ Goto(w, "raise")
    <3>1. pc'[w] = "raise"
      BY <1>0, <2>2 DEF Goto
    <3> QED
      BY <1>0, <2>1, <3>1 DEF Subtree, AtChild, Settled
  <2>3. CASE Obj[c] <= localBound[home[w]] /\ Answer(w, "Continue")
    <3>1. pc'[w] = "answered" /\ ret'[w] = "Continue"
      BY <1>0, <2>3 DEF Answer, Goto
    <3>2. CASE n = c
      BY <1>0, <2>1, <2>3, <3>2, NotBetterSettles
    <3> QED
      BY <1>0, <2>1, <3>1, <3>2 DEF AtChild, Subtree
  <2> QED
    BY <1>4, <2>2, <2>3 DEF CheckObjective
<1>5. CASE RaiseBound(w)
  <2>1. n \in Below(c) /\ pc'[w] = "submit"
    BY <1>0, <1>5 DEF RaiseBound, AtChild, Goto
  <2> QED
    BY <1>0, <2>1 DEF AtChild
<1>6. CASE SubmitIncumbent(w)
  <2>1. n \in Below(c) /\ pc[w] = "submit"
    BY <1>0, <1>6 DEF SubmitIncumbent, AtChild
  <2>2. CASE Kind = "Optimisation"
    <3>1. pc'[w] = "answered" /\ ret'[w] = "Continue"
      BY <1>0, <1>6, <2>2 DEF SubmitIncumbent, Goto, Answer
    <3> QED
      BY <1>0, <2>1, <3>1 DEF AtChild
  <2>3. CASE Kind = "Decision"
    <3>1. Obj[c] = expectedObjective /\ Obj[n] = expectedObjective
      BY <2>1, <2>3 DEF ProcessInv, InHand, Goal
    <3>2. Settled(n)
      BY <1>0, <2>1, <3>1 DEF Settled
    <3> QED
      BY <1>0, <3>2
  <2> QED
    BY <1>6, <2>2, <2>3 DEF SubmitIncumbent
<1>7. ~ StopOthers(w) /\ ~ ProcessCounted(w)
  BY <1>0 DEF StopOthers, ProcessCounted
<1> QED
  BY <1>1, <1>2, <1>3, <1>4, <1>5, <1>6, <1>7 DEF Process
-----------------------------------------------------------------------------
\* The enumerators' total, as long as no node is counted twice.
LEMMA CombineOnce ==
    ASSUME NEW c \in [Node -> Nat], \A n \in Node : c[n] <= 1
    PROVE  LET S == {n \in Node : c[n] > 0}
           IN  IsFiniteSet(S) /\ combineEnumerators(c) = Cardinality(S)
<1> DEFINE S == {n \in Node : c[n] > 0}
           N == {<<n, 1>> : n \in S}
           f == [n \in S |-> <<n, 1>>]
<1>1. UNION {{<<n, k>> : k \in 1..c[n]} : n \in Node} = N
  <2>1. ASSUME NEW n \in Node, NEW k PROVE k \in 1..c[n] <=> n \in S /\ k = 1
    <3>1. c[n] \in Nat /\ c[n] <= 1
      OBVIOUS
    <3>2. CASE c[n] = 0
      BY <3>2
    <3>3. CASE c[n] = 1
      BY <3>3
    <3> QED
      BY <3>1, <3>2, <3>3
  <2> DEFINE U == UNION {{<<n, k>> : k \in 1..c[n]} : n \in Node}
  <2>2. ASSUME NEW x PROVE x \in U <=> \E n \in Node : \E k \in 1..c[n] : x = <<n, k>>
    OBVIOUS
  <2>3. ASSUME NEW x PROVE x \in N <=> \E n \in S : x = <<n, 1>>
    OBVIOUS
  <2>s. S \subseteq Node
    OBVIOUS
  <2> HIDE DEF U, N, S
  <2>4. ASSUME NEW x \in U PROVE x \in N
    BY <2>1, <2>2, <2>3
  <2>5. ASSUME NEW x \in N PROVE x \in U
    <3>1. PICK n \in S : x = <<n, 1>>
      BY <2>3
    <3> QED
      BY <2>1, <2>2, <2>s, <3>1
  <2>6. U = N
    BY <2>4, <2>5
  <2> QED
    BY <2>6 DEF U
<1>2. IsFiniteSet(S)
  BY TreeAssumption, FS_Subset
<1>3. IsFiniteSet(N) /\ Cardinality(N) = Cardinality(S)
  <2>1. f \in Bijection(S, N)
    BY DEF Bijection, Injection, Surjection, IsInjective
  <2>2. ExistsBijection(S, N)
    BY <2>1 DEF ExistsBijection
  <2> HIDE DEF S, N, f
  <2> QED
    BY <1>2, <2>2, FS_Bijection
<1> QED
  BY <1>1, <1>2, <1>3 DEF combineEnumerators

\* It grows by the number of nodes that are counted for the first time.
LEMMA CombineMore ==
    ASSUME NEW c \in [Node -> Nat], NEW d \in [Node -> Nat],
           \A n \in Node : c[n] <= d[n] /\ d[n] <= 1,
           NEW S, S = {n \in Node : c[n] = 0 /\ d[n] > 0}
    PROVE  combineEnumerators(d) = combineEnumerators(c) + Cardinality(S)
<1> DEFINE C == {n \in Node : c[n] > 0}
           D == {n \in Node : d[n] > 0}
<1>1. /\ IsFiniteSet(C) /\ combineEnumerators(c) = Cardinality(C)
      /\ IsFiniteSet(D) /\ combineEnumerators(d) = Cardinality(D)
  <2>1. \A n \in Node : c[n] <= 1
    OBVIOUS
  <2> QED
    BY <2>1, CombineOnce
<1>2. D = C \cup S /\ C \cap S = {} /\ S \subseteq Node
  OBVIOUS
<1> HIDE DEF C, D
<1>3. IsFiniteSet(S)
  BY <1>2, TreeAssumption, FS_Subset
<1>4. /\ Cardinality(C) \in Nat /\ Cardinality(S) \in Nat
      /\ Cardinality(C \cup S) = Cardinality(C) + Cardinality(S) - Cardinality(C \cap S)
      /\ Cardinality(C \cap S) = 0
  BY <1>1, <1>2, <1>3, FS_Union, FS_CardinalityType, FS_EmptySet
<1> QED
  BY <1>1, <1>2, <1>4
-----------------------------------------------------------------------------
\* The slots of an explicit stack: the node of the frame at position i is at
\* least i levels down.
FrameSlots(s) == \A i \in 1..Len(s) : i <= Len(s[i][1]) + 1

LEMMA FrameSlotsSame ==
    ASSUME NEW s, NEW t, FrameSlots(s), Len(s) \in Nat, Len(t) \in Nat,
           Len(t) <= Len(s), \A i \in 1..Len(t) : t[i][1] = s[i][1]
    PROVE  FrameSlots(t)
<1>1. ASSUME NEW i \in 1..Len(t) PROVE i \in 1..Len(s) /\ t[i][1] = s[i][1]
  OBVIOUS
<1> QED
  BY <1>1, Zenon DEF FrameSlots

LEMMA FrameSlotsPushed ==
    ASSUME NEW s, NEW t, FrameSlots(s), Len(s) \in Nat, Len(t) = Len(s) + 1,
           \A i \in 1..Len(s) : t[i][1] = s[i][1],
           NEW c, t[Len(s) + 1][1] = c, Len(c) \in Nat, Len(s) <= Len(c)
    PROVE  FrameSlots(t)
<1> SUFFICES ASSUME NEW i \in 1..Len(t) PROVE i <= Len(t[i][1]) + 1
  BY DEF FrameSlots
<1>1. CASE i = Len(s) + 1
  BY <1>1
<1>2. CASE i # Len(s) + 1
  <2>1. i \in 1..Len(s)
    BY <1>2
  <2> QED
    BY <2>1, Zenon DEF FrameSlots
<1> QED
  BY <1>1, <1>2
=============================================================================

------------------------- MODULE Eligibility_proofs -------------------------
(***************************************************************************)
(* Proofs about the way from a list to a paid claim, for every list, tree    *)
(* depth, number of bundles and order of claims.                             *)
(*                                                                         *)
(* First the tree: the path of a row leads to the root (PathLeadsToRoot),    *)
(* and whatever leads there in TREE_DEPTH steps starts at a leaf             *)
(* (RootComesFromLeaf).  Then the table of buckets (TableIs) and the bundle  *)
(* (BundleIs), so that preparing a claim comes down to the list              *)
(* (CheckDecides).  The invariant says that every bundle was built from a    *)
(* list, the list of its airdrop if there is one, and that every local state *)
(* agrees with its list and with the keys paid (AirdropOK).                  *)
(***************************************************************************)
EXTENDS Eligibility, Sums

-----------------------------------------------------------------------------
(* The tree: the functions its operators are defined by exist.              *)

\* The size of a subtree doubles with every level.
LEMMA CapacityIs ==
    /\ Capacity[0] = 1
    /\ \A k \in 0 .. TREE_DEPTH : Capacity[k] \in Nat \ {0}
    /\ \A k \in 1 .. TREE_DEPTH : Capacity[k] = 2 * Capacity[k - 1]
<1> DEFINE Part(n, g) == /\ g[0] = 1
                         /\ \A k \in 0 .. n : g[k] \in Nat \ {0}
                         /\ \A k \in 1 .. n : g[k] = 2 * g[k - 1]
           T == {n \in Nat : \E g : Part(n, g)}
<1>1. TREE_DEPTH \in Nat
      BY EligibilityAssumption
<1>2. 0 \in T
  <2> DEFINE g == [k \in 0 .. 0 |-> 1]
  <2>1. Part(0, g)
        OBVIOUS
  <2> QED BY <2>1
<1>3. ASSUME NEW n \in Nat, n \in T PROVE n + 1 \in T
  <2>1. PICK h : Part(n, h)
        BY <1>3
  <2> DEFINE g == [k \in 0 .. n + 1 |-> IF k = n + 1 THEN 2 * h[n] ELSE h[k]]
  <2>2. /\ \A k \in 0 .. n : g[k] = h[k]
        /\ g[n + 1] = 2 * h[n]
        OBVIOUS
  <2> HIDE DEF g
  <2>3. 0 \in 0 .. n /\ n \in 0 .. n /\ (n + 1) - 1 = n
        OBVIOUS
  <2>4. g[0] = 1 /\ \A k \in 0 .. n + 1 : g[k] \in Nat \ {0}
        BY <2>1, <2>2, <2>3
  <2>5. ASSUME NEW k \in 1 .. n + 1 PROVE g[k] = 2 * g[k - 1]
    <3>1. CASE k = n + 1
          BY <2>2, <2>3, <3>1
    <3>2. CASE k # n + 1
      <4>1. k \in 1 .. n /\ k \in 0 .. n /\ k - 1 \in 0 .. n
            BY <3>2
      <4> QED BY <2>1, <2>2, <4>1
    <3> QED BY <3>1, <3>2
  <2>6. Part(n + 1, g)
        BY <2>4, <2>5
  <2> HIDE DEF Part
  <2> QED BY <2>6 DEF T
<1> HIDE DEF T
<1>4. TREE_DEPTH \in T
      BY <1>1, <1>2, <1>3, Induction
<1>5. PICK h : Part(TREE_DEPTH, h)
      BY <1>4 DEF T
<1> DEFINE g == [k \in 0 .. TREE_DEPTH |-> h[k]]
           Defines(f) ==
             f = [level \in 0 .. TREE_DEPTH |-> IF level = 0 THEN 1 ELSE 2 * f[level - 1]]
<1>6. Defines(g)
  <2>1. g = [k \in 0 .. TREE_DEPTH |-> g[k]] /\ \A k \in 0 .. TREE_DEPTH : g[k] = h[k]
        OBVIOUS
  <2> HIDE DEF g
  <2>2. ASSUME NEW k \in 0 .. TREE_DEPTH PROVE g[k] = IF k = 0 THEN 1 ELSE 2 * g[k - 1]
    <3>1. CASE k = 0
          BY <1>1, <1>5, <2>1, <3>1
    <3>2. CASE k # 0
      <4>1. k \in 1 .. TREE_DEPTH /\ k - 1 \in 0 .. TREE_DEPTH
            BY <1>1, <3>2
      <4> QED BY <1>5, <2>1, <3>2, <4>1
    <3> QED BY <3>1, <3>2
  <2> QED BY <2>1, <2>2
<1>7. Defines(Capacity)
  <2>1. Capacity = CHOOSE f : Defines(f)
        BY DEF Capacity
  <2> HIDE DEF Defines
  <2> QED BY <1>6, <2>1
<1>8. \A k \in 0 .. TREE_DEPTH : Capacity[k] = IF k = 0 THEN 1 ELSE 2 * Capacity[k - 1]
      BY <1>7
<1> DEFINE U == {n \in Nat : n <= TREE_DEPTH => Capacity[n] \in Nat \ {0}}
<1>9. 0 \in U
      BY <1>1, <1>8
<1>10. ASSUME NEW n \in Nat, n \in U PROVE n + 1 \in U
      BY <1>1, <1>8, <1>10
<1> HIDE DEF U
<1>11. \A n \in Nat : n \in U
      BY <1>9, <1>10, Induction
<1> QED BY <1>1, <1>8, <1>11 DEF U

\* What from_leaves returns, level by level.
TreeOf(tree, leaves) ==
    /\ \A i \in 0 .. Capacity[TREE_DEPTH] - 1 :
         tree[0][i] = IF i < Len(leaves) THEN leaves[i + 1] ELSE h_empty
    /\ \A d \in 1 .. TREE_DEPTH : \A i \in 0 .. Capacity[TREE_DEPTH - d] - 1 :
         tree[d][i] = h_node(tree[d - 1][2 * i], tree[d - 1][2 * i + 1])

LEMMA TreeIs == \A leaves : TreeOf(from_leaves(leaves), leaves)
<1> SUFFICES ASSUME NEW leaves PROVE TreeOf(from_leaves(leaves), leaves)
    OBVIOUS
<1> DEFINE Node(g, d, i) == IF d > 0 THEN h_node(g[d - 1][2 * i], g[d - 1][2 * i + 1])
                            ELSE IF i < Len(leaves) THEN leaves[i + 1] ELSE h_empty
           Level(g, d) == [i \in 0 .. Capacity[TREE_DEPTH - d] - 1 |-> Node(g, d, i)]
           Part(n, g) == /\ g = [d \in 0 .. n |-> g[d]]
                         /\ \A d \in 0 .. n : g[d] = Level(g, d)
           T == {n \in Nat : n <= TREE_DEPTH => \E g : Part(n, g)}
           Defines(g) == g = [d \in 0 .. TREE_DEPTH |-> Level(g, d)]
<1>1. TREE_DEPTH \in Nat
      BY EligibilityAssumption
<1>2. \A g, h, d : g[d - 1] = h[d - 1] => Level(g, d) = Level(h, d)
      OBVIOUS
<1>3. \A g, h : Level(g, 0) = Level(h, 0)
      OBVIOUS
<1>4. from_leaves(leaves) = CHOOSE g : Defines(g)
      BY DEF from_leaves
<1> HIDE DEF Level
<1>5. 0 \in T
  <2> DEFINE g == [d \in 0 .. 0 |-> Level(0, 0)]
  <2>1. Part(0, g)
        BY <1>3
  <2> QED BY <2>1
<1>6. ASSUME NEW n \in Nat, n \in T PROVE n + 1 \in T
  <2> SUFFICES ASSUME n + 1 <= TREE_DEPTH PROVE \E g : Part(n + 1, g)
      OBVIOUS
  <2>1. PICK h : Part(n, h)
        BY <1>1, <1>6
  <2> DEFINE g == [d \in 0 .. n + 1 |-> IF d = n + 1 THEN Level(h, n + 1) ELSE h[d]]
  <2>2. /\ g = [d \in 0 .. n + 1 |-> g[d]]
        /\ \A d \in 0 .. n : g[d] = h[d]
        /\ g[n + 1] = Level(h, n + 1)
        OBVIOUS
  <2> HIDE DEF g
  <2>3. Level(g, n + 1) = Level(h, n + 1)
    <3>1. g[(n + 1) - 1] = h[(n + 1) - 1]
      <4>1. (n + 1) - 1 = n /\ n \in 0 .. n
            OBVIOUS
      <4> QED BY <2>2, <4>1
    <3> QED BY <1>2, <3>1
  <2>4. ASSUME NEW d \in 0 .. n PROVE g[d] = Level(g, d)
    <3>1. g[d] = Level(h, d)
          BY <2>1, <2>2
    <3>2. CASE d = 0
          BY <1>3, <3>1, <3>2
    <3>3. CASE d # 0
      <4>1. d - 1 \in 0 .. n
            BY <3>3
      <4>2. g[d - 1] = h[d - 1]
            BY <2>2, <4>1
      <4> QED BY <1>2, <3>1, <4>2
    <3> QED BY <3>2, <3>3
  <2>5. \A d \in 0 .. n + 1 : g[d] = Level(g, d)
        BY <2>2, <2>3, <2>4
  <2> QED BY <2>2, <2>5
<1> HIDE DEF T
<1>7. TREE_DEPTH \in T
      BY <1>1, <1>5, <1>6, Induction
<1>8. PICK g : Part(TREE_DEPTH, g)
      BY <1>1, <1>7 DEF T
<1>9. Defines(g)
      BY <1>8
<1>10. Defines(from_leaves(leaves))
  <2> HIDE DEF Defines
  <2> QED BY <1>4, <1>9
<1> DEFINE tree == from_leaves(leaves)
<1>11. \A d \in 0 .. TREE_DEPTH : tree[d] = Level(tree, d)
      BY <1>10
<1> HIDE DEF tree
<1>12. \A i \in 0 .. Capacity[TREE_DEPTH] - 1 :
         tree[0][i] = IF i < Len(leaves) THEN leaves[i + 1] ELSE h_empty
  <2>1. tree[0] = Level(tree, 0) /\ TREE_DEPTH - 0 = TREE_DEPTH
        BY <1>1, <1>11
  <2> QED BY <2>1 DEF Level
<1>13. ASSUME NEW d \in 1 .. TREE_DEPTH, NEW i \in 0 .. Capacity[TREE_DEPTH - d] - 1
       PROVE  tree[d][i] = h_node(tree[d - 1][2 * i], tree[d - 1][2 * i + 1])
  <2>1. tree[d] = Level(tree, d)
        BY <1>1, <1>11
  <2> QED BY <2>1 DEF Level
<1> QED BY <1>12, <1>13 DEF TreeOf, tree

\* One step of a fold, and the values a fold goes through.
FoldStep(node, before) ==
    IF node.is_right THEN h_node(node.sibling, before) ELSE h_node(before, node.sibling)

FoldOf(cur, leaf, nodes) ==
    /\ cur[0] = leaf
    /\ \A k \in 1 .. Len(nodes) : cur[k] = FoldStep(nodes[k], cur[k - 1])

LEMMA FoldIs ==
    ASSUME NEW leaf, NEW nodes, Len(nodes) \in Nat
    PROVE  \E cur : FoldOf(cur, leaf, nodes) /\ Fold(leaf, nodes) = cur[Len(nodes)]
<1> DEFINE L == Len(nodes)
           Part(n, g) == /\ g[0] = leaf
                         /\ \A k \in 1 .. n : g[k] = FoldStep(nodes[k], g[k - 1])
           T == {n \in Nat : \E g : Part(n, g)}
           Defines(g) == g = [k \in 0 .. L |-> IF k = 0 THEN leaf ELSE FoldStep(nodes[k], g[k - 1])]
<1>1. 0 \in T
  <2>1. Part(0, [k \in 0 .. 0 |-> leaf])
        OBVIOUS
  <2> QED BY <2>1
<1>2. ASSUME NEW n \in Nat, n \in T PROVE n + 1 \in T
  <2>1. PICK h : Part(n, h)
        BY <1>2
  <2> DEFINE g == [k \in 0 .. n + 1 |-> IF k = n + 1 THEN FoldStep(nodes[n + 1], h[n]) ELSE h[k]]
  <2>2. /\ \A k \in 0 .. n : g[k] = h[k]
        /\ g[n + 1] = FoldStep(nodes[n + 1], h[n])
        OBVIOUS
  <2> HIDE DEF g
  <2>3. 0 \in 0 .. n /\ n \in 0 .. n /\ (n + 1) - 1 = n
        OBVIOUS
  <2>4. ASSUME NEW k \in 1 .. n + 1 PROVE g[k] = FoldStep(nodes[k], g[k - 1])
    <3>1. CASE k = n + 1
          BY <2>2, <2>3, <3>1
    <3>2. CASE k # n + 1
      <4>1. k \in 1 .. n /\ k \in 0 .. n /\ k - 1 \in 0 .. n
            BY <3>2
      <4> QED BY <2>1, <2>2, <4>1
    <3> QED BY <3>1, <3>2
  <2>5. Part(n + 1, g)
        BY <2>1, <2>2, <2>3, <2>4
  <2> HIDE DEF Part
  <2> QED BY <2>5 DEF T
<1> HIDE DEF T
<1>3. L \in T
      BY <1>1, <1>2, Induction
<1>4. PICK h : Part(L, h)
      BY <1>3 DEF T
<1> DEFINE g == [k \in 0 .. L |-> h[k]]
<1>5. Defines(g)
  <2>1. g = [k \in 0 .. L |-> g[k]] /\ \A k \in 0 .. L : g[k] = h[k]
        OBVIOUS
  <2> HIDE DEF g
  <2>2. ASSUME NEW k \in 0 .. L
        PROVE  g[k] = IF k = 0 THEN leaf ELSE FoldStep(nodes[k], g[k - 1])
    <3>1. CASE k = 0
          BY <1>4, <2>1, <3>1
    <3>2. CASE k # 0
      <4>1. k \in 1 .. L /\ k - 1 \in 0 .. L
            BY <3>2
      <4> QED BY <1>4, <2>1, <3>2, <4>1
    <3> QED BY <3>1, <3>2
  <2> QED BY <2>1, <2>2
<1>6. PICK cur : cur = CHOOSE f : Defines(f)
      OBVIOUS
<1>7. Defines(cur)
  <2> HIDE DEF Defines
  <2> QED BY <1>5, <1>6
<1>8. Fold(leaf, nodes) = cur[L]
      BY <1>6 DEF Fold, FoldStep
<1>9. cur[0] = leaf /\ \A k \in 1 .. L : cur[k] = FoldStep(nodes[k], cur[k - 1])
  <2>1. \A k \in 0 .. L : cur[k] = IF k = 0 THEN leaf ELSE FoldStep(nodes[k], cur[k - 1])
        BY <1>7
  <2> QED BY <2>1
<1> QED BY <1>8, <1>9 DEF FoldOf

LEMMA Halved ==
    ASSUME NEW y \in Nat
    PROVE  y = 2 * (y \div 2) + (y % 2) /\ (y % 2 = 0 \/ y % 2 = 1) /\ y \div 2 \in Nat
OBVIOUS

\* Halving repeatedly is dividing by the size of the subtree.
LEMMA Halves ==
    ASSUME NEW x \in Nat, NEW a \in Nat \ {0}
    PROVE  /\ x \div a \in Nat
           /\ (x \div a) \div 2 = x \div (2 * a)
           /\ x \div a = 2 * (x \div (2 * a)) + ((x \div a) % 2)
           /\ (x \div a) % 2 = 0 \/ (x \div a) % 2 = 1
<1>1. x \div a \in Nat
      OBVIOUS
<1>2. (x \div a) \div 2 = x \div (2 * a)
      OBVIOUS
<1> QED BY <1>1, <1>2, Halved

\* The path of a row leads to the root.
LEMMA PathLeadsToRoot ==
    ASSUME NEW leaves, NEW tree, TreeOf(tree, leaves), Len(leaves) \in Nat,
           Len(leaves) <= Capacity[TREE_DEPTH], NEW index \in Nat, index < Len(leaves)
    PROVE  /\ Len(path(tree, index)) = TREE_DEPTH
           /\ Fold(leaves[index + 1], path(tree, index)) = tree[TREE_DEPTH][0]
<1> DEFINE nodes == path(tree, index)
           At(k) == index \div Capacity[k]
<1>1. TREE_DEPTH \in Nat
      BY EligibilityAssumption
<1>2. Len(nodes) = TREE_DEPTH
      BY <1>1 DEF path
<1>3. \A k \in 1 .. TREE_DEPTH :
        /\ nodes[k].sibling = tree[k - 1][IF At(k - 1) % 2 = 0 THEN At(k - 1) + 1 ELSE At(k - 1) - 1]
        /\ nodes[k].is_right = (At(k - 1) % 2 = 1)
      BY DEF path
<1> HIDE DEF nodes
<1>4. PICK cur : FoldOf(cur, leaves[index + 1], nodes) /\ Fold(leaves[index + 1], nodes) = cur[TREE_DEPTH]
      BY <1>1, <1>2, FoldIs
<1> DEFINE T == {k \in Nat : k <= TREE_DEPTH =>
                   At(k) \in 0 .. Capacity[TREE_DEPTH - k] - 1 /\ cur[k] = tree[k][At(k)]}
<1>5. 0 \in T
  <2>1. At(0) = index /\ index \in 0 .. Capacity[TREE_DEPTH] - 1 /\ TREE_DEPTH - 0 = TREE_DEPTH
        BY <1>1, CapacityIs
  <2>2. cur[0] = leaves[index + 1]
        BY <1>4 DEF FoldOf
  <2> HIDE DEF At
  <2> QED BY <2>1, <2>2 DEF TreeOf
<1>6. ASSUME NEW k \in Nat, k \in T PROVE k + 1 \in T
  <2> SUFFICES ASSUME k + 1 <= TREE_DEPTH
               PROVE  /\ At(k + 1) \in 0 .. Capacity[TREE_DEPTH - (k + 1)] - 1
                      /\ cur[k + 1] = tree[k + 1][At(k + 1)]
      OBVIOUS
  <2>1. k + 1 \in 1 .. TREE_DEPTH /\ (k + 1) - 1 = k /\ k \in 0 .. TREE_DEPTH
        BY <1>1
  <2>2. PICK a \in Nat \ {0} : a = Capacity[k] /\ Capacity[k + 1] = 2 * a
        BY <2>1, CapacityIs
  <2>3. PICK b \in Nat \ {0} : /\ b = Capacity[TREE_DEPTH - (k + 1)]
                               /\ Capacity[TREE_DEPTH - k] = 2 * b
    <3>1. /\ TREE_DEPTH - k \in 1 .. TREE_DEPTH
          /\ (TREE_DEPTH - k) - 1 = TREE_DEPTH - (k + 1)
          /\ TREE_DEPTH - (k + 1) \in 0 .. TREE_DEPTH
          BY <1>1, <2>1
    <3> QED BY <3>1, CapacityIs
  <2>4. PICK x \in Nat, y \in Nat :
          /\ x = At(k) /\ y = At(k + 1) /\ x = 2 * y + (x % 2) /\ (x % 2 = 0 \/ x % 2 = 1)
    <3>1. PICK x \in Nat : /\ x = index \div a /\ x = 2 * (index \div (2 * a)) + (x % 2)
                           /\ (x % 2 = 0 \/ x % 2 = 1)
          BY Halves
    <3>2. PICK y \in Nat : y = index \div (2 * a)
      <4>1. 2 * a \in Nat \ {0}
            OBVIOUS
      <4> QED BY <4>1, Halves
    <3> QED BY <2>2, <3>1, <3>2
  <2> HIDE DEF At
  <2>5. x \in 0 .. 2 * b - 1 /\ cur[k] = tree[k][x]
    <3>1. At(k) \in 0 .. Capacity[TREE_DEPTH - k] - 1 /\ cur[k] = tree[k][At(k)]
          BY <1>1, <1>6, <2>1
    <3> QED BY <2>3, <2>4, <3>1
  <2>6. y \in 0 .. b - 1
        BY <2>4, <2>5
  <2>7. tree[k + 1][y] = h_node(tree[k][2 * y], tree[k][2 * y + 1])
        BY <2>1, <2>3, <2>6 DEF TreeOf
  <2>8. cur[k + 1] = FoldStep(nodes[k + 1], cur[k])
        BY <1>2, <1>4, <2>1 DEF FoldOf
  <2>9. /\ nodes[k + 1].sibling = tree[k][IF x % 2 = 0 THEN x + 1 ELSE x - 1]
        /\ nodes[k + 1].is_right = (x % 2 = 1)
        BY <1>3, <2>1, <2>4
  <2>10. cur[k + 1] = tree[k + 1][y]
    <3>1. CASE x % 2 = 0
      <4>1. x = 2 * y /\ x + 1 = 2 * y + 1 /\ ~(x % 2 = 1)
            BY <2>4, <3>1
      <4>2. nodes[k + 1].sibling = tree[k][2 * y + 1] /\ ~nodes[k + 1].is_right
            BY <2>9, <3>1, <4>1
      <4>3. cur[k + 1] = h_node(cur[k], tree[k][2 * y + 1])
            BY <2>8, <4>2 DEF FoldStep
      <4> QED BY <2>5, <2>7, <4>1, <4>3
    <3>2. CASE x % 2 = 1
      <4>1. x = 2 * y + 1 /\ x - 1 = 2 * y /\ ~(x % 2 = 0)
            BY <2>4, <3>2
      <4>2. nodes[k + 1].sibling = tree[k][2 * y] /\ nodes[k + 1].is_right
            BY <2>9, <3>2, <4>1
      <4>3. cur[k + 1] = h_node(tree[k][2 * y], cur[k])
            BY <2>8, <4>2 DEF FoldStep
      <4> QED BY <2>5, <2>7, <4>1, <4>3
    <3> QED BY <2>4, <3>1, <3>2
  <2> QED BY <2>3, <2>4, <2>6, <2>10
<1> HIDE DEF T
<1>7. TREE_DEPTH \in T
      BY <1>1, <1>5, <1>6, Induction
<1>8. cur[TREE_DEPTH] = tree[TREE_DEPTH][0]
  <2>1. At(TREE_DEPTH) \in 0 .. Capacity[0] - 1 /\ cur[TREE_DEPTH] = tree[TREE_DEPTH][At(TREE_DEPTH)]
        BY <1>1, <1>7 DEF T
  <2> HIDE DEF At
  <2>2. At(TREE_DEPTH) = 0
        BY <2>1, CapacityIs
  <2> QED BY <2>1, <2>2
<1> QED BY <1>2, <1>4, <1>8 DEF nodes

LEMMA NodeInjective ==
    \A a, b, c, d : h_node(a, b) = h_node(c, d) => a = c /\ b = d
BY DEF h_node

\* Whatever leads to the root in as many steps as the tree has levels starts at
\* a leaf of the tree.
LEMMA RootComesFromLeaf ==
    ASSUME NEW leaves, NEW tree, TreeOf(tree, leaves), NEW leaf, NEW nodes,
           Len(nodes) = TREE_DEPTH, Fold(leaf, nodes) = tree[TREE_DEPTH][0]
    PROVE  \E i \in 0 .. Capacity[TREE_DEPTH] - 1 : leaf = tree[0][i]
<1>1. TREE_DEPTH \in Nat
      BY EligibilityAssumption
<1>2. PICK cur : FoldOf(cur, leaf, nodes) /\ Fold(leaf, nodes) = cur[TREE_DEPTH]
      BY <1>1, FoldIs
<1> DEFINE Here(d) == \E i \in 0 .. Capacity[TREE_DEPTH - d] - 1 : cur[d] = tree[d][i]
           T == {k \in Nat : k <= TREE_DEPTH => Here(TREE_DEPTH - k)}
<1>3. 0 \in T
  <2>1. TREE_DEPTH - 0 = TREE_DEPTH /\ TREE_DEPTH - TREE_DEPTH = 0 /\ 0 \in 0 .. Capacity[0] - 1
        BY <1>1, CapacityIs
  <2> QED BY <1>2, <2>1
<1>4. ASSUME NEW k \in Nat, k \in T PROVE k + 1 \in T
  <2> SUFFICES ASSUME k + 1 <= TREE_DEPTH PROVE Here(TREE_DEPTH - (k + 1))
      OBVIOUS
  <2>1. PICK d \in 1 .. TREE_DEPTH : /\ d = TREE_DEPTH - k /\ d - 1 = TREE_DEPTH - (k + 1)
                                     /\ TREE_DEPTH - d = k /\ TREE_DEPTH - (d - 1) = k + 1
        BY <1>1
  <2>2. PICK b \in Nat \ {0} : b = Capacity[k] /\ Capacity[k + 1] = 2 * b
    <3>1. k \in 0 .. TREE_DEPTH /\ k + 1 \in 1 .. TREE_DEPTH /\ (k + 1) - 1 = k
          BY <1>1
    <3> QED BY <3>1, CapacityIs
  <2>3. PICK i \in 0 .. b - 1 : cur[d] = tree[d][i]
        BY <1>4, <2>1, <2>2
  <2>4. cur[d] = FoldStep(nodes[d], cur[d - 1])
        BY <1>2, <2>1 DEF FoldOf
  <2>5. tree[d][i] = h_node(tree[d - 1][2 * i], tree[d - 1][2 * i + 1])
        BY <2>1, <2>2, <2>3 DEF TreeOf
  <2>6. cur[d - 1] = tree[d - 1][2 * i] \/ cur[d - 1] = tree[d - 1][2 * i + 1]
    <3> DEFINE l == tree[d - 1][2 * i]
               r == tree[d - 1][2 * i + 1]
    <3>1. h_node(l, r) = FoldStep(nodes[d], cur[d - 1])
          BY <2>3, <2>4, <2>5
    <3> HIDE DEF l, r
    <3>2. cur[d - 1] = l \/ cur[d - 1] = r
          BY <3>1, NodeInjective DEF FoldStep
    <3> QED BY <3>2 DEF l, r
  <2>7. 2 * i \in 0 .. 2 * b - 1 /\ 2 * i + 1 \in 0 .. 2 * b - 1
        BY <2>3
  <2> QED BY <2>1, <2>2, <2>6, <2>7
<1> HIDE DEF T
<1>5. TREE_DEPTH \in T
      BY <1>1, <1>3, <1>4, Induction
<1>6. Here(0)
  <2>1. TREE_DEPTH - TREE_DEPTH = 0
        BY <1>1
  <2> HIDE DEF Here
  <2> QED BY <1>5, <2>1 DEF T
<1>7. cur[0] = leaf /\ TREE_DEPTH - 0 = TREE_DEPTH
      BY <1>1, <1>2 DEF FoldOf
<1> QED BY <1>6, <1>7

-----------------------------------------------------------------------------
(* Lists and the tables made from them.                                     *)

Rank(S, x) == Cardinality({y \in S : y < x})

\* Numbers of a finite set and their ranks determine each other.
LEMMA NthIs ==
    ASSUME NEW S \in SUBSET Nat, IsFiniteSet(S)
    PROVE  /\ Cardinality(S) \in Nat
           /\ \A x \in S : Rank(S, x) \in 0 .. Cardinality(S) - 1 /\ Nth(S, Rank(S, x) + 1) = x
           /\ \A k \in 1 .. Cardinality(S) : Nth(S, k) \in S /\ Rank(S, Nth(S, k)) = k - 1
<1> DEFINE Below(x) == {y \in S : y < x}
           n == Cardinality(S)
<1>1. n \in Nat
      BY FS_CardinalityType
<1>2. ASSUME NEW x \in S
      PROVE  IsFiniteSet(Below(x)) /\ Rank(S, x) \in Nat /\ Rank(S, x) < n
  <2>1. IsFiniteSet(Below(x)) /\ Cardinality(Below(x)) <= n /\ Below(x) # S
    <3>1. Below(x) \in SUBSET S /\ x \notin Below(x)
          OBVIOUS
    <3> QED BY <3>1, FS_Subset
  <2>2. Cardinality(Below(x)) # n
    <3>1. Below(x) \in SUBSET S
          OBVIOUS
    <3> QED BY <2>1, <3>1, FS_Subset
  <2>3. Cardinality(Below(x)) \in Nat
        BY <2>1, FS_CardinalityType
  <2> QED BY <1>1, <2>1, <2>2, <2>3 DEF Rank
<1>3. ASSUME NEW x \in S, NEW y \in S, x < y PROVE Rank(S, x) < Rank(S, y)
  <2>1. Below(x) \in SUBSET Below(y) /\ x \in Below(y) /\ x \notin Below(x)
    <3>1. \A z \in S : z \in Int
          OBVIOUS
    <3>2. ASSUME NEW z \in S, z < x PROVE z < y
      <4>1. x \in Int /\ y \in Int /\ z \in Int
            BY <3>1
      <4> QED BY <1>3, <3>2, <4>1
    <3>3. ~ (x < x)
          BY <3>1
    <3> QED BY <1>3, <3>2, <3>3
  <2>2. IsFiniteSet(Below(y))
        BY <1>2
  <2>3. Cardinality(Below(x)) <= Cardinality(Below(y)) /\ Cardinality(Below(x)) # Cardinality(Below(y))
        BY <2>1, <2>2, FS_Subset
  <2> QED BY <1>2, <2>3 DEF Rank
<1>4. \A x, y \in S : Rank(S, x) = Rank(S, y) => x = y
  <2> SUFFICES ASSUME NEW x \in S, NEW y \in S, Rank(S, x) = Rank(S, y) PROVE x = y
      OBVIOUS
  <2>1. x \in Nat /\ y \in Nat /\ Rank(S, x) \in Nat /\ Rank(S, y) \in Nat
        BY <1>2
  <2> QED BY <1>3, <2>1
<1> HIDE DEF n
<1> DEFINE f == [x \in S |-> Rank(S, x)]
<1>11. \A x \in S : /\ Rank(S, x) \in 0 .. n - 1 /\ Rank(S, x) + 1 \in 1 .. n
                    /\ (Rank(S, x) + 1) - 1 = Rank(S, x)
  <2> SUFFICES ASSUME NEW x \in S
               PROVE  /\ Rank(S, x) \in 0 .. n - 1 /\ Rank(S, x) + 1 \in 1 .. n
                      /\ (Rank(S, x) + 1) - 1 = Rank(S, x)
      OBVIOUS
  <2>1. PICK k \in Nat : k = Rank(S, x) /\ k < n
        BY <1>2
  <2> QED BY <1>1, <2>1
<1>5. f \in Injection(S, 0 .. n - 1)
  <2>1. f \in [S -> 0 .. n - 1]
        BY <1>11
  <2>2. \A x, y \in S : f[x] = f[y] => x = y
        BY <1>4
  <2> HIDE DEF f
  <2> QED BY <2>1, <2>2 DEF Injection, IsInjective
<1>6. IsFiniteSet(0 .. n - 1) /\ Cardinality(0 .. n - 1) = n
  <2>1. PICK m \in Int : m = n - 1
        BY <1>1
  <2>2. IsFiniteSet(0 .. m) /\ Cardinality(0 .. m) = IF 0 > m THEN 0 ELSE m - 0 + 1
        BY FS_Interval
  <2> QED BY <1>1, <2>1, <2>2
<1>7. f \in Surjection(S, 0 .. n - 1)
  <2> HIDE DEF f
  <2> QED BY <1>5, <1>6, FS_Injection DEF n
<1>8. \A k \in 0 .. n - 1 : \E x \in S : Rank(S, x) = k
  <2>1. \A k \in 0 .. n - 1 : \E x \in S : f[x] = k
    <3> HIDE DEF f
    <3> QED BY <1>7 DEF Surjection
  <2> QED BY <2>1
<1>9. ASSUME NEW k \in 1 .. n PROVE Nth(S, k) \in S /\ Rank(S, Nth(S, k)) = k - 1
  <2>1. k - 1 \in 0 .. n - 1
        BY <1>1
  <2>2. \E x \in S : Rank(S, x) = k - 1
        BY <1>8, <2>1
  <2> QED BY <2>2 DEF Nth, Rank
<1>10. ASSUME NEW x \in S PROVE Rank(S, x) \in 0 .. n - 1 /\ Nth(S, Rank(S, x) + 1) = x
  <2>1. Rank(S, x) \in 0 .. n - 1 /\ Rank(S, x) + 1 \in 1 .. n /\ (Rank(S, x) + 1) - 1 = Rank(S, x)
        BY <1>11
  <2>2. Nth(S, Rank(S, x) + 1) \in S /\ Rank(S, Nth(S, Rank(S, x) + 1)) = Rank(S, x)
        BY <1>9, <2>1
  <2> QED BY <1>4, <2>1, <2>2
<1> QED BY <1>1, <1>9, <1>10 DEF n

Line == [address: Addresses, raw_amount: Nat]

LEMMA ListIs ==
    ASSUME NEW list \in Seq(Line)
    PROVE  /\ Len(list) \in Nat /\ Rows(list) = 1 .. Len(list) /\ IsFiniteSet(Rows(list))
           /\ \A i \in Rows(list) : list[i] \in Line
           /\ AmountsIn(list) \in SUBSET Nat /\ IsFiniteSet(AmountsIn(list))
<1>1. Len(list) \in Nat /\ Rows(list) = 1 .. Len(list) /\ \A i \in Rows(list) : list[i] \in Line
      BY DEF Rows
<1>2. IsFiniteSet(Rows(list))
      BY <1>1, FS_Interval
<1> DEFINE f == [i \in Rows(list) |-> list[i].raw_amount]
<1>3. AmountsIn(list) \in SUBSET Nat
      BY <1>1 DEF AmountsIn, Line
<1>4. f \in Surjection(Rows(list), AmountsIn(list))
  <2>1. f \in [Rows(list) -> AmountsIn(list)]
        BY DEF AmountsIn
  <2>2. \A a \in AmountsIn(list) : \E i \in Rows(list) : f[i] = a
        BY DEF AmountsIn
  <2> HIDE DEF f
  <2> QED BY <2>1, <2>2 DEF Surjection
<1>5. IsFiniteSet(AmountsIn(list))
  <2> HIDE DEF f
  <2> QED BY <1>2, <1>4, FS_Surjection
<1> QED BY <1>1, <1>2, <1>3, <1>5

\* The table holds the amounts of the list, each in the bucket of its rows.
LEMMA TableIs ==
    ASSUME NEW list \in Seq(Line)
    PROVE  /\ bucket_table(list) \in Seq(Nat)
           /\ Len(bucket_table(list)) = Cardinality(AmountsIn(list))
           /\ DOMAIN bucket_table(list) = 1 .. Len(bucket_table(list))
           /\ \A b \in 1 .. Len(bucket_table(list)) : bucket_table(list)[b] \in AmountsIn(list)
           /\ \A a, b \in 1 .. Len(bucket_table(list)) :
                bucket_table(list)[a] = bucket_table(list)[b] => a = b
           /\ \A amount \in AmountsIn(list) :
                \E b \in 1 .. Len(bucket_table(list)) : bucket_table(list)[b] = amount
           /\ \A i \in Rows(list) :
                /\ bucket_id(list, i) \in Nat /\ bucket_id(list, i) < Len(bucket_table(list))
                /\ bucket_table(list)[bucket_id(list, i) + 1] = list[i].raw_amount
<1> DEFINE S == AmountsIn(list)
           n == Cardinality(S)
           t == bucket_table(list)
<1>1. S \in SUBSET Nat /\ IsFiniteSet(S)
      BY ListIs
<1> HIDE DEF S
<1>2. /\ n \in Nat
      /\ \A x \in S : Rank(S, x) \in 0 .. n - 1 /\ Nth(S, Rank(S, x) + 1) = x
      /\ \A k \in 1 .. n : Nth(S, k) \in S /\ Rank(S, Nth(S, k)) = k - 1
      BY <1>1, NthIs
<1>3. t = [b \in 1 .. n |-> Nth(S, b)]
      BY DEF bucket_table, S
<1> HIDE DEF t, n
<1>4. t \in Seq(Nat) /\ Len(t) = n /\ DOMAIN t = 1 .. n
  <2>1. \A b \in 1 .. n : Nth(S, b) \in Nat
        BY <1>1, <1>2
  <2>2. t \in [1 .. n -> Nat]
        BY <1>3, <2>1
  <2> QED BY <1>2, <2>2
<1>5. \A b \in 1 .. n : t[b] \in S
      BY <1>2, <1>3
<1>6. \A a, b \in 1 .. n : t[a] = t[b] => a = b
  <2> SUFFICES ASSUME NEW a \in 1 .. n, NEW b \in 1 .. n, t[a] = t[b] PROVE a = b
      OBVIOUS
  <2>1. a - 1 = b - 1
        BY <1>2, <1>3
  <2> QED BY <2>1
<1>7. ASSUME NEW amount \in S
      PROVE  Rank(S, amount) + 1 \in 1 .. n /\ t[Rank(S, amount) + 1] = amount
  <2>1. Rank(S, amount) + 1 \in 1 .. n
        BY <1>2
  <2> QED BY <1>2, <1>3, <2>1
<1>8. ASSUME NEW i \in Rows(list)
      PROVE  /\ bucket_id(list, i) \in Nat /\ bucket_id(list, i) < n
             /\ t[bucket_id(list, i) + 1] = list[i].raw_amount
  <2>1. list[i].raw_amount \in S /\ bucket_id(list, i) = Rank(S, list[i].raw_amount)
        BY DEF S, AmountsIn, bucket_id, Rank
  <2>2. PICK a \in S : a = list[i].raw_amount /\ bucket_id(list, i) = Rank(S, a)
        BY <2>1
  <2>3. Rank(S, a) \in 0 .. n - 1 /\ t[Rank(S, a) + 1] = a
        BY <1>2, <1>7
  <2> QED BY <1>2, <2>2, <2>3
<1> QED BY <1>4, <1>5, <1>6, <1>7, <1>8 DEF S, t, n

-----------------------------------------------------------------------------
(* Bundles.                                                                 *)

\* What holds of the bundle of a list.
BundleOf(bundle, list, id) ==
    /\ bundle.airdrop_id = id
    /\ bundle.bucket_table_hash = bucket_table(list)
    /\ Rows(bundle.encrypted_rows) = Rows(list)
    /\ \A i \in Rows(list) :
         LET row == bundle.encrypted_rows[i] IN
         /\ row.recipient = x25519[list[i].address]
         /\ row.context = <<id, bundle.merkle_root, bucket_table(list)>>
         /\ row.plain.address = list[i].address
         /\ row.plain.bucket_id = bucket_id(list, i)
         /\ row.plain.salt = <<id, i>>
         /\ Len(row.plain.merkle_path) = TREE_DEPTH
         /\ Fold(h_leaf(list[i].address, bucket_id(list, i), <<id, i>>), row.plain.merkle_path)
              = bundle.merkle_root
    /\ \A address, bucket, salt, nodes :
         /\ Len(nodes) = TREE_DEPTH
         /\ Fold(h_leaf(address, bucket, salt), nodes) = bundle.merkle_root
         => \E i \in Rows(list) :
              address = list[i].address /\ bucket = bucket_id(list, i) /\ salt = <<id, i>>

LEMMA BundleIs ==
    ASSUME NEW list \in Seq(Line), Buildable(list), NEW id
    PROVE  BundleOf(build_bundle(list, id), list, id)
<1> DEFINE Leaf(i) == h_leaf(list[i].address, bucket_id(list, i), <<id, i>>)
           leaves == [i \in Rows(list) |-> Leaf(i)]
           tree == from_leaves(leaves)
           root == tree[TREE_DEPTH][0]
           bundle == build_bundle(list, id)
<1>1. /\ Len(list) \in Nat /\ Rows(list) = 1 .. Len(list)
      /\ Len(list) <= Capacity[TREE_DEPTH] /\ Capacity[TREE_DEPTH] \in Nat
      BY ListIs, CapacityIs, EligibilityAssumption DEF Buildable, parse_csv
<1>2. /\ bundle.airdrop_id = id
      /\ bundle.merkle_root = root
      /\ bundle.bucket_table_hash = bucket_table(list)
      /\ bundle.encrypted_rows = [i \in Rows(list) |->
           [recipient |-> x25519[list[i].address], context |-> <<id, root, bucket_table(list)>>,
            plain |-> RowPlaintext(list, tree, id, i)]]
      BY DEF build_bundle
<1> HIDE DEF bundle, root, tree, leaves, Leaf
<1>3. /\ DOMAIN bundle.encrypted_rows = Rows(list)
      /\ \A i \in Rows(list) :
           /\ bundle.encrypted_rows[i].recipient = x25519[list[i].address]
           /\ bundle.encrypted_rows[i].context = <<id, root, bucket_table(list)>>
           /\ bundle.encrypted_rows[i].plain = RowPlaintext(list, tree, id, i)
      BY <1>2
<1>4. Len(leaves) = Len(list)
      BY <1>1 DEF leaves
<1>5. TreeOf(tree, leaves) /\ root = tree[TREE_DEPTH][0]
      BY TreeIs DEF tree, root
<1>6. \A i \in 1 .. Len(list) : leaves[i] = Leaf(i)
      BY <1>1 DEF leaves
<1>7. ASSUME NEW i \in Rows(list)
      PROVE  Len(path(tree, i - 1)) = TREE_DEPTH /\ Fold(Leaf(i), path(tree, i - 1)) = root
  <2>1. i - 1 \in Nat /\ i - 1 < Len(leaves) /\ (i - 1) + 1 = i
        BY <1>1, <1>4
  <2>2. leaves[(i - 1) + 1] = Leaf(i)
        BY <1>1, <1>6, <2>1
  <2> QED BY <1>1, <1>4, <1>5, <2>1, <2>2, PathLeadsToRoot
<1>8. ASSUME NEW address, NEW bucket, NEW salt, NEW nodes, Len(nodes) = TREE_DEPTH,
             Fold(h_leaf(address, bucket, salt), nodes) = root
      PROVE  \E i \in Rows(list) :
               address = list[i].address /\ bucket = bucket_id(list, i) /\ salt = <<id, i>>
  <2>1. PICK k \in 0 .. Capacity[TREE_DEPTH] - 1 : h_leaf(address, bucket, salt) = tree[0][k]
        BY <1>5, <1>8, RootComesFromLeaf
  <2>2. tree[0][k] = IF k < Len(leaves) THEN leaves[k + 1] ELSE h_empty
        BY <1>5 DEF TreeOf
  <2>3. h_leaf(address, bucket, salt) # h_empty
        BY DEF h_leaf, h_empty
  <2>4. k < Len(leaves) /\ h_leaf(address, bucket, salt) = leaves[k + 1]
        BY <2>1, <2>2, <2>3
  <2>5. k + 1 \in Rows(list) /\ leaves[k + 1] = Leaf(k + 1)
        BY <1>1, <1>4, <1>6, <2>4
  <2>6. h_leaf(address, bucket, salt)
          = h_leaf(list[k + 1].address, bucket_id(list, k + 1), <<id, k + 1>>)
        BY <2>4, <2>5 DEF Leaf
  <2>7. /\ address = list[k + 1].address /\ bucket = bucket_id(list, k + 1)
        /\ salt = <<id, k + 1>>
        BY <2>6 DEF h_leaf
  <2> QED BY <2>5, <2>7
<1>9. ASSUME NEW i \in Rows(list)
      PROVE  LET row == bundle.encrypted_rows[i] IN
             /\ row.recipient = x25519[list[i].address]
             /\ row.context = <<id, bundle.merkle_root, bucket_table(list)>>
             /\ row.plain.address = list[i].address
             /\ row.plain.bucket_id = bucket_id(list, i)
             /\ row.plain.salt = <<id, i>>
             /\ Len(row.plain.merkle_path) = TREE_DEPTH
             /\ Fold(h_leaf(list[i].address, bucket_id(list, i), <<id, i>>), row.plain.merkle_path)
                  = bundle.merkle_root
  <2>1. PICK plain : /\ plain = bundle.encrypted_rows[i].plain
                     /\ plain.address = list[i].address /\ plain.bucket_id = bucket_id(list, i)
                     /\ plain.salt = <<id, i>> /\ plain.merkle_path = path(tree, i - 1)
    <3>1. bundle.encrypted_rows[i].plain = RowPlaintext(list, tree, id, i)
          BY <1>3
    <3>2. PICK plain : plain = RowPlaintext(list, tree, id, i)
          OBVIOUS
    <3>3. /\ plain.address = list[i].address /\ plain.bucket_id = bucket_id(list, i)
          /\ plain.salt = <<id, i>> /\ plain.merkle_path = path(tree, i - 1)
          BY <3>2 DEF RowPlaintext
    <3> QED BY <3>1, <3>2, <3>3
  <2> QED BY <1>2, <1>3, <1>7, <2>1 DEF Leaf
<1> QED BY <1>2, <1>3, <1>8, <1>9 DEF BundleOf, Rows, bundle

-----------------------------------------------------------------------------
(* Claims, in terms of the list behind the airdrop.                         *)

ReachOf(list, key) == {i \in Rows(list) : x25519[list[i].address] = x25519[key]}

RecipientOf(list, key) == \E i \in Rows(list) : list[i].address = key /\ ReachOf(list, key) = {i}

DueOf(list, key) == list[CHOOSE i \in Rows(list) : list[i].address = key].raw_amount

\* The rows of the keys paid.
PaidRows(list, keys) == {i \in Rows(list) : Contains(keys, list[i].address)}

AmountOf(list) == [i \in Rows(list) |-> list[i].raw_amount]

StateFields == {"airdrop_id", "merkle_root", "bucket_table", "total_funded", "total_claimed",
                "status", "nullifiers"}

\* The local state of an airdrop agrees with its list and with who was paid.
AirdropOK(id, state, list, keys) ==
    /\ list \in Seq(Line) /\ Buildable(list)
    /\ DOMAIN state = StateFields
    /\ state.airdrop_id = id
    /\ state.merkle_root = build_bundle(list, id).merkle_root
    /\ state.bucket_table = bucket_table(list)
    /\ state.status \in {0, 1}
    /\ state.total_funded \in Nat /\ state.total_claimed \in Nat
    /\ keys \in Seq(Wallets) /\ IsInjective(keys)
    /\ \A n \in DOMAIN keys : RecipientOf(list, keys[n])
    /\ state.nullifiers = {h_null(<<id, i>>) : i \in PaidRows(list, keys)}
    /\ state.total_claimed = SumFunction([n \in DOMAIN keys |-> DueOf(list, keys[n])])
    /\ state.total_claimed = SumFunctionOnSet(AmountOf(list), PaidRows(list, keys))
    /\ state.total_claimed <= state.total_funded

\* A line of a list names its address once.
LEMMA DueIs ==
    ASSUME NEW list \in Seq(Line), parse_csv(list), NEW i \in Rows(list)
    PROVE  /\ DueOf(list, list[i].address) = list[i].raw_amount
           /\ \A j \in Rows(list) : list[j].address = list[i].address => j = i
<1>1. \A j, k \in Rows(list) : list[j].address = list[k].address => j = k
      BY DEF parse_csv, IsInjective, Rows
<1>2. PICK k : k = CHOOSE j \in Rows(list) : list[j].address = list[i].address
      OBVIOUS
<1>3. k \in Rows(list) /\ list[k].address = list[i].address
      BY <1>2
<1>4. k = i
      BY <1>1, <1>3
<1> QED BY <1>1, <1>2, <1>4 DEF DueOf

\* What preparing a claim finds out, case by case: whether one row can be
\* decrypted, whether the key is the one on the row, whether the state is that
\* of the airdrop, whether the nullifier is new, and what the program's copy says.
JournalOf(root, list, bid, i, destination) ==
    [airdrop_id |-> bid, merkle_root |-> root, bucket_id |-> bucket_id(list, i),
     nullifier |-> h_null(<<bid, i>>), claim_destination_commitment |-> destination]

RowOutcome(checked, state, list, i, key, journal) ==
    IF list[i].address # key THEN checked.code = "E_CLAIM_PREPARE_FAILED"
    ELSE IF pre_prove_rejection_code(state, journal) # "none"
      THEN checked.code = pre_prove_rejection_code(state, journal)
    ELSE IF program_claim(state, journal) # "OK" THEN checked.code = program_claim(state, journal)
    ELSE checked = [code |-> "OK", journal |-> journal,
                    amount |-> state.bucket_table[bucket_id(list, i) + 1]]

Outcome(checked, state, root, list, bid, key, destination) ==
    /\ (\A i \in Rows(list) : ReachOf(list, key) # {i}) => checked.code = "E_WALLET_NOT_ELIGIBLE"
    /\ \A i \in Rows(list) : ReachOf(list, key) = {i} =>
         RowOutcome(checked, state, list, i, key, JournalOf(root, list, bid, i, destination))

LEMMA PreparedClaim ==
    ASSUME NEW state, NEW bundle, NEW list \in Seq(Line), NEW bid, BundleOf(bundle, list, bid),
           NEW key, NEW destination
    PROVE  Outcome(prepare_checked_claim(state, bundle, key, destination),
                   state, bundle.merkle_root, list, bid, key, destination)
<1> DEFINE checked == prepare_checked_claim(state, bundle, key, destination)
           found == {i \in Rows(bundle.encrypted_rows) : decrypts(key, bundle, i)}
<1>1. found = ReachOf(list, key)
      BY DEF BundleOf, decrypts, ReachOf
<1>2. IsFiniteSet(found)
  <2>1. found \in SUBSET Rows(list) /\ IsFiniteSet(Rows(list))
        BY <1>1, ListIs DEF ReachOf
  <2> QED BY <2>1, FS_Subset
<1>3. Cardinality(found) = 1 <=> \E i \in Rows(list) : ReachOf(list, key) = {i}
  <2>1. Cardinality(found) = 1 <=> \E i : found = {i}
        BY <1>2, FS_Singleton
  <2>2. \A i : found = {i} => i \in Rows(list)
        BY <1>1 DEF ReachOf
  <2> QED BY <1>1, <2>1, <2>2
<1>4. ASSUME \A i \in Rows(list) : ReachOf(list, key) # {i}
      PROVE  checked.code = "E_WALLET_NOT_ELIGIBLE"
  <2>1. Cardinality(found) # 1
        BY <1>3, <1>4
  <2>2. checked = [code |-> "E_WALLET_NOT_ELIGIBLE"]
        BY <2>1 DEF prepare_checked_claim
  <2> QED BY <2>2
<1>5. ASSUME NEW i \in Rows(list), ReachOf(list, key) = {i}
      PROVE  RowOutcome(checked, state, list, i, key,
                        JournalOf(bundle.merkle_root, list, bid, i, destination))
  <2> DEFINE journal == JournalOf(bundle.merkle_root, list, bid, i, destination)
             plain == bundle.encrypted_rows[i].plain
             witness == ClaimWitness(key, bundle, plain, destination)
             valid == verify_claim_constraints(journal, witness)
             rejection == pre_prove_rejection_code(state, journal)
  <2>1. /\ plain.address = list[i].address /\ plain.bucket_id = bucket_id(list, i)
        /\ plain.salt = <<bid, i>> /\ Len(plain.merkle_path) = TREE_DEPTH
        /\ Fold(h_leaf(list[i].address, bucket_id(list, i), <<bid, i>>), plain.merkle_path)
             = bundle.merkle_root
        /\ bundle.airdrop_id = bid
        BY DEF BundleOf
  <2>2. Cardinality(found) = 1 /\ (CHOOSE j \in found : TRUE) = i
        BY <1>1, <1>3, <1>5
  <2> HIDE DEF plain, found
  <2>3. ClaimJournal(bundle, plain, destination) = journal
        BY <2>1 DEF ClaimJournal, JournalOf
  <2>4. valid <=> list[i].address = key
    <3>1. /\ witness.address = list[i].address /\ witness.salt = <<bid, i>>
          /\ witness.claim_sig = sign_claim(key, bid, destination)
          /\ witness.merkle_path = plain.merkle_path
          BY <2>1 DEF ClaimWitness
    <3>2. /\ journal.airdrop_id = bid /\ journal.merkle_root = bundle.merkle_root
          /\ journal.bucket_id = bucket_id(list, i) /\ journal.nullifier = h_null(<<bid, i>>)
          /\ journal.claim_destination_commitment = destination
          BY DEF JournalOf
    <3> HIDE DEF journal, witness
    <3>3. valid <=> sign_claim(key, bid, destination) = sign_claim(list[i].address, bid, destination)
          BY <2>1, <3>1, <3>2 DEF verify_claim_constraints
    <3> QED BY <3>3 DEF sign_claim
  <2>5. checked =
          IF ~valid THEN [code |-> "E_CLAIM_PREPARE_FAILED"]
          ELSE IF rejection # "none" THEN [code |-> rejection]
          ELSE IF program_claim(state, journal) # "OK" THEN [code |-> program_claim(state, journal)]
          ELSE [code |-> "OK", journal |-> journal,
                amount |-> state.bucket_table[bucket_id(list, i) + 1]]
    <3> HIDE DEF journal
    <3>1. checked =
            LET p == bundle.encrypted_rows[CHOOSE j \in found : TRUE].plain
                j == ClaimJournal(bundle, p, destination)
                r == pre_prove_rejection_code(state, j)
            IN IF ~verify_claim_constraints(j, ClaimWitness(key, bundle, p, destination))
                 THEN [code |-> "E_CLAIM_PREPARE_FAILED"]
               ELSE IF r # "none" THEN [code |-> r]
               ELSE IF program_claim(state, j) # "OK" THEN [code |-> program_claim(state, j)]
               ELSE [code |-> "OK", journal |-> j, amount |-> state.bucket_table[p.bucket_id + 1]]
          BY <2>2 DEF prepare_checked_claim, found
    <3>2. bundle.encrypted_rows[CHOOSE j \in found : TRUE].plain = plain
          BY <2>2 DEF plain
    <3> QED BY <2>1, <2>3, <3>1, <3>2
  <2> HIDE DEF journal, valid, checked
  <2>6. RowOutcome(checked, state, list, i, key, journal)
        BY <2>4, <2>5 DEF RowOutcome
  <2> QED BY <2>6 DEF journal, checked
<1> HIDE DEF checked
<1>6. Outcome(checked, state, bundle.merkle_root, list, bid, key, destination)
      BY <1>4, <1>5 DEF Outcome
<1> QED BY <1>6 DEF checked

\* Eligibility and the amount, decided by the list alone.
LEMMA CheckDecides ==
    ASSUME NEW id, NEW state, NEW list, NEW keys, AirdropOK(id, state, list, keys),
           NEW bid, NEW other \in Seq(Line), Buildable(other), bid = id => other = list,
           NEW bundle, bundle = build_bundle(other, bid),
           NEW key, NEW destination
    PROVE  LET checked == prepare_checked_claim(state, bundle, key, destination)
               addressed == bid = id /\ RecipientOf(list, key)
           IN /\ checked.code = "OK" <=>
                   /\ addressed /\ ~Contains(keys, key)
                   /\ state.status = 0 /\ DueOf(list, key) <= Budget(state)
              /\ checked.code = "OK" => /\ checked.amount = DueOf(list, key)
                                        /\ \E i \in Rows(list) : /\ list[i].address = key
                                                                 /\ checked.journal.nullifier = h_null(<<id, i>>)
              /\ checked.code = "E_ALREADY_CLAIMED" <=> addressed /\ Contains(keys, key)
<1> DEFINE checked == prepare_checked_claim(state, bundle, key, destination)
           addressed == bid = id /\ RecipientOf(list, key)
           Goal == /\ checked.code = "OK" <=>
                        /\ addressed /\ ~Contains(keys, key)
                        /\ state.status = 0 /\ DueOf(list, key) <= Budget(state)
                   /\ checked.code = "OK" =>
                        /\ checked.amount = DueOf(list, key)
                        /\ \E i \in Rows(list) : /\ list[i].address = key
                                                 /\ checked.journal.nullifier = h_null(<<id, i>>)
                   /\ checked.code = "E_ALREADY_CLAIMED" <=> addressed /\ Contains(keys, key)
<1>1. BundleOf(bundle, other, bid)
      BY BundleIs
<1>2. /\ list \in Seq(Line) /\ Buildable(list) /\ state.airdrop_id = id
      /\ state.merkle_root = build_bundle(list, id).merkle_root
      /\ state.bucket_table = bucket_table(list)
      /\ state.nullifiers = {h_null(<<id, i>>) : i \in PaidRows(list, keys)}
      BY DEF AirdropOK
<1>6. Outcome(checked, state, bundle.merkle_root, other, bid, key, destination)
      BY <1>1, PreparedClaim
<1> HIDE DEF checked
<1>3. ASSUME \A i \in Rows(other) : ReachOf(other, key) # {i} PROVE Goal
  <2>1. checked.code = "E_WALLET_NOT_ELIGIBLE"
        BY <1>3, <1>6 DEF Outcome
  <2>2. ~ addressed
        BY <1>3 DEF RecipientOf
  <2> HIDE DEF checked, addressed
  <2> QED BY <2>1, <2>2
<1>4. ASSUME NEW i \in Rows(other), ReachOf(other, key) = {i} PROVE Goal
  <2> DEFINE journal == JournalOf(bundle.merkle_root, other, bid, i, destination)
             rejection == pre_prove_rejection_code(state, journal)
             answer == program_claim(state, journal)
  <2>1. IF other[i].address # key THEN checked.code = "E_CLAIM_PREPARE_FAILED"
        ELSE IF rejection # "none" THEN checked.code = rejection
        ELSE IF answer # "OK" THEN checked.code = answer
        ELSE checked = [code |-> "OK", journal |-> journal,
                        amount |-> state.bucket_table[bucket_id(other, i) + 1]]
        BY <1>4, <1>6 DEF Outcome, RowOutcome
  <2>2. /\ journal.airdrop_id = bid /\ journal.merkle_root = bundle.merkle_root
        /\ journal.bucket_id = bucket_id(other, i) /\ journal.nullifier = h_null(<<bid, i>>)
        BY DEF JournalOf
  <2>3. answer \in {"OK", "E_PROGRAM_1", "E_PROGRAM_3", "E_PROGRAM_4", "E_PROGRAM_7"}
        BY DEF program_claim
  <2>4. /\ rejection \in {"none", "E_AIRDROP_ID_MISMATCH", "E_ALREADY_CLAIMED"}
        /\ rejection = "E_AIRDROP_ID_MISMATCH" <=> bid # id
        /\ rejection = "E_ALREADY_CLAIMED" <=> bid = id /\ h_null(<<bid, i>>) \in state.nullifiers
        BY <1>2, <2>2 DEF pre_prove_rejection_code
  <2> HIDE DEF journal, checked, rejection
  <2>5. CASE other[i].address # key
    <3>1. checked.code = "E_CLAIM_PREPARE_FAILED"
          BY <2>1, <2>5
    <3>2. ~ addressed
          BY <1>4, <2>5 DEF RecipientOf
    <3> HIDE DEF addressed
    <3> QED BY <3>1, <3>2
  <2>6. CASE other[i].address = key /\ bid # id
    <3>1. checked.code = "E_AIRDROP_ID_MISMATCH"
          BY <2>1, <2>4, <2>6
    <3> QED BY <2>6, <3>1
  <2>7. CASE other[i].address = key /\ bid = id
    <3>1. other = list
          BY <2>7
    <3>2. addressed
          BY <1>4, <2>7, <3>1 DEF RecipientOf
    <3>3. /\ DueOf(list, key) = list[i].raw_amount
          /\ \A j \in Rows(list) : list[j].address = key => j = i
          BY <1>2, <2>7, <3>1, DueIs DEF Buildable
    <3>4. h_null(<<bid, i>>) \in state.nullifiers <=> Contains(keys, key)
      <4>1. \A j : h_null(<<bid, i>>) = h_null(<<id, j>>) <=> j = i
            BY <2>7 DEF h_null
      <4>2. h_null(<<bid, i>>) \in state.nullifiers <=> i \in PaidRows(list, keys)
            BY <1>2, <4>1
      <4> QED BY <2>7, <3>1, <4>2 DEF PaidRows
    <3>5. /\ bucket_id(list, i) < Len(state.bucket_table)
          /\ ~ (bucket_id(list, i) >= Len(state.bucket_table))
          /\ state.bucket_table[bucket_id(list, i) + 1] = DueOf(list, key)
      <4>1. PICK k \in Nat, n \in Nat :
              /\ k = bucket_id(list, i) /\ n = Len(bucket_table(list)) /\ k < n
              /\ bucket_table(list)[k + 1] = list[i].raw_amount
            BY <1>2, <3>1, TableIs
      <4> QED BY <1>2, <3>3, <4>1
    <3>6. answer = IF state.status # 0 THEN "E_PROGRAM_1"
                   ELSE IF ~ (DueOf(list, key) <= Budget(state)) THEN "E_PROGRAM_7" ELSE "OK"
      <4>1. journal.merkle_root = state.merkle_root
            BY <1>2, <2>2, <2>7, <3>1
      <4>2. Budget(state) >= DueOf(list, key) <=> DueOf(list, key) <= Budget(state)
            OBVIOUS
      <4> QED BY <2>2, <3>1, <3>5, <4>1, <4>2 DEF program_claim, Covers
    <3> HIDE DEF addressed, answer
    <3>7. CASE Contains(keys, key)
      <4>1. checked.code = "E_ALREADY_CLAIMED"
            BY <2>1, <2>4, <2>7, <3>4, <3>7
      <4> QED BY <3>2, <3>7, <4>1
    <3>8. CASE ~ Contains(keys, key)
      <4>1. rejection = "none"
            BY <2>4, <2>7, <3>4, <3>8
      <4>2. CASE answer # "OK"
        <5>1. checked.code = answer /\ checked.code # "OK" /\ checked.code # "E_ALREADY_CLAIMED"
              BY <2>1, <2>3, <2>7, <4>1, <4>2
        <5>2. ~ (state.status = 0 /\ DueOf(list, key) <= Budget(state))
              BY <3>6, <4>2
        <5> QED BY <3>8, <5>1, <5>2
      <4>3. CASE answer = "OK"
        <5>1. checked = [code |-> "OK", journal |-> journal,
                         amount |-> state.bucket_table[bucket_id(other, i) + 1]]
              BY <2>1, <2>7, <4>1, <4>3
        <5>2. /\ checked.code = "OK" /\ checked.amount = DueOf(list, key)
              /\ checked.journal.nullifier = h_null(<<id, i>>)
              BY <2>2, <2>7, <3>1, <3>5, <5>1
        <5>3. state.status = 0 /\ DueOf(list, key) <= Budget(state)
              BY <3>6, <4>3
        <5> QED BY <2>7, <3>1, <3>2, <3>8, <5>2, <5>3
      <4> QED BY <4>2, <4>3
    <3> QED BY <3>7, <3>8
  <2> HIDE DEF Goal
  <2> QED BY <2>5, <2>6, <2>7
<1> HIDE DEF Goal
<1>5. Goal
  <2>1. CASE \A i \in Rows(other) : ReachOf(other, key) # {i}
        BY <1>3, <2>1
  <2>2. CASE \E i \in Rows(other) : ReachOf(other, key) = {i}
        BY <1>4, <2>2
  <2> QED BY <2>1, <2>2
<1> QED BY <1>5 DEF Goal, checked

\* A recipient's line says what it is due.
LEMMA RecipientDue ==
    ASSUME NEW list \in Seq(Line), parse_csv(list), NEW key, RecipientOf(list, key)
    PROVE  /\ DueOf(list, key) \in Nat
           /\ \E i \in Rows(list) : /\ list[i].address = key /\ DueOf(list, key) = list[i].raw_amount
                                    /\ \A j \in Rows(list) : list[j].address = key => j = i
<1>1. PICK i \in Rows(list) : list[i].address = key
      BY DEF RecipientOf
<1>2. /\ DueOf(list, list[i].address) = list[i].raw_amount
      /\ \A j \in Rows(list) : list[j].address = list[i].address => j = i
      BY DueIs
<1>3. list[i].raw_amount \in Nat
      BY ListIs DEF Line
<1> QED BY <1>1, <1>2, <1>3

\* Paying one more key, counted both ways: over the keys paid and over their rows.
PaysOneMore(list, keys, key, i, more) ==
    /\ more \in Seq(Wallets)
    /\ IsInjective(keys) => IsInjective(more)
    /\ \A n \in DOMAIN more : RecipientOf(list, more[n])
    /\ PaidRows(list, more) = PaidRows(list, keys) \cup {i}
    /\ SumFunction([n \in DOMAIN more |-> DueOf(list, more[n])])
         = SumFunction([n \in DOMAIN keys |-> DueOf(list, keys[n])]) + DueOf(list, key)
    /\ SumFunctionOnSet(AmountOf(list), PaidRows(list, more))
         = SumFunctionOnSet(AmountOf(list), PaidRows(list, keys)) + DueOf(list, key)

LEMMA PaidOnceMore ==
    ASSUME NEW list \in Seq(Line), parse_csv(list), NEW keys \in Seq(Wallets), NEW key \in Wallets,
           \A n \in DOMAIN keys : RecipientOf(list, keys[n]), RecipientOf(list, key),
           ~Contains(keys, key), NEW i \in Rows(list), list[i].address = key
    PROVE  PaysOneMore(list, keys, key, i, Append(keys, key))
<1> DEFINE more == Append(keys, key)
<1>1. PICK k \in Nat : k = Len(keys)
      OBVIOUS
<1>2. /\ DOMAIN keys = 1 .. k /\ DOMAIN more = 1 .. k + 1 /\ Len(more) = k + 1
      /\ more \in Seq(Wallets) /\ more[k + 1] = key
      /\ \A n \in 1 .. k : more[n] = keys[n] /\ n \in 1 .. k + 1
      BY <1>1
<1> HIDE DEF more
<1>3. \A n \in 1 .. k + 1 : n \in 1 .. k \/ n = k + 1
      OBVIOUS
<1>4. \A n \in 1 .. k : keys[n] # key
      BY <1>1 DEF Contains
<1>5. IsInjective(keys) => IsInjective(more)
      BY <1>2, <1>3, <1>4 DEF IsInjective
<1>6. \A n \in DOMAIN more : RecipientOf(list, more[n])
      BY <1>2, <1>3
<1>7. \A address : Contains(more, address) <=> Contains(keys, address) \/ address = key
  <2>1. k + 1 \in 1 .. k + 1
        OBVIOUS
  <2> QED BY <1>1, <1>2, <1>3, <2>1 DEF Contains
<1>8. \A j \in Rows(list) : list[j].address = key <=> j = i
      BY DueIs
<1>9. PaidRows(list, more) = PaidRows(list, keys) \cup {i} /\ i \notin PaidRows(list, keys)
      BY <1>7, <1>8 DEF PaidRows
<1>10. DueOf(list, key) \in Nat /\ DueOf(list, key) = list[i].raw_amount
      BY RecipientDue, DueIs
<1>11. SumFunction([n \in DOMAIN more |-> DueOf(list, more[n])])
         = SumFunction([n \in DOMAIN keys |-> DueOf(list, keys[n])]) + DueOf(list, key)
  <2>1. PICK f : f = [n \in 1 .. k |-> DueOf(list, keys[n])]
        OBVIOUS
  <2>2. PICK g : g = [n \in 1 .. k + 1 |-> DueOf(list, more[n])]
        OBVIOUS
  <2>3. \A n \in 1 .. k : f[n] \in Nat
    <3> SUFFICES ASSUME NEW n \in 1 .. k PROVE DueOf(list, keys[n]) \in Nat
        BY <2>1
    <3>1. RecipientOf(list, keys[n])
          BY <1>2
    <3> QED BY <3>1, RecipientDue
  <2>4. \A n \in 1 .. k : g[n] = f[n]
        BY <1>2, <2>1, <2>2
  <2>5. g[k + 1] = DueOf(list, key)
    <3>1. k + 1 \in 1 .. k + 1
          OBVIOUS
    <3> QED BY <1>2, <2>2, <3>1
  <2>6. IsFiniteSet(1 .. k) /\ k + 1 \notin 1 .. k /\ (1 .. k) \cup {k + 1} = 1 .. k + 1
    <3>1. IsFiniteSet(1 .. k)
          BY FS_Interval
    <3> QED BY <3>1
  <2>7. \A n \in (1 .. k) \cup {k + 1} : g[n] \in Int
    <3>1. \A n \in 1 .. k : g[n] \in Int
          BY <2>3, <2>4
    <3>2. g[k + 1] \in Int
          BY <1>10, <2>5
    <3> QED BY <3>1, <3>2
  <2>8. SumFunctionOnSet(g, (1 .. k) \cup {k + 1}) = g[k + 1] + SumFunctionOnSet(g, 1 .. k)
        BY <2>6, <2>7, SumAdd
  <2>9. SumFunctionOnSet(g, 1 .. k) = SumFunctionOnSet(f, 1 .. k)
        BY <2>4, <2>6, SumSame
  <2>10. \A n \in 1 .. k : f[n] \in Int
        BY <2>3
  <2>11. SumFunctionOnSet(f, 1 .. k) \in Int
        BY <2>6, <2>10, SumInt
  <2>12. DOMAIN f = 1 .. k /\ DOMAIN g = 1 .. k + 1
        BY <2>1, <2>2
  <2>13. SumFunction(g) = SumFunction(f) + DueOf(list, key)
    <3>1. PICK a, b : a = SumFunctionOnSet(f, 1 .. k) /\ b = SumFunctionOnSet(g, 1 .. k + 1)
          OBVIOUS
    <3>2. b = DueOf(list, key) + a
          BY <2>5, <2>6, <2>8, <2>9, <3>1
    <3>3. b = a + DueOf(list, key)
          BY <1>10, <2>11, <3>1, <3>2
    <3> QED BY <2>12, <3>1, <3>3 DEF SumFunction
  <2>14. /\ f = [n \in DOMAIN keys |-> DueOf(list, keys[n])]
         /\ g = [n \in DOMAIN more |-> DueOf(list, more[n])]
        BY <1>2, <2>1, <2>2
  <2> QED BY <2>13, <2>14
<1>12. SumFunctionOnSet(AmountOf(list), PaidRows(list, more))
         = SumFunctionOnSet(AmountOf(list), PaidRows(list, keys)) + DueOf(list, key)
  <2>1. PICK f, S : f = AmountOf(list) /\ S = PaidRows(list, keys)
        OBVIOUS
  <2>2. \A j \in Rows(list) : f[j] = list[j].raw_amount /\ f[j] \in Int
    <3>1. \A j \in Rows(list) : list[j].raw_amount \in Nat
          BY ListIs DEF Line
    <3> QED BY <2>1, <3>1 DEF AmountOf
  <2>3. IsFiniteSet(S) /\ S \subseteq Rows(list)
    <3>1. S \in SUBSET Rows(list) /\ IsFiniteSet(Rows(list))
          BY <2>1, ListIs DEF PaidRows
    <3> QED BY <3>1, FS_Subset
  <2>4. i \notin S /\ \A j \in S \cup {i} : f[j] \in Int
        BY <1>9, <2>1, <2>2, <2>3
  <2>5. SumFunctionOnSet(f, S \cup {i}) = f[i] + SumFunctionOnSet(f, S)
        BY <2>3, <2>4, SumAdd
  <2>6. \A j \in S : f[j] \in Int
        BY <2>4
  <2>7. SumFunctionOnSet(f, S) \in Int
        BY <2>3, <2>6, SumInt
  <2>8. f[i] = DueOf(list, key)
        BY <1>10, <2>2
  <2>9. SumFunctionOnSet(f, S \cup {i}) = SumFunctionOnSet(f, S) + DueOf(list, key)
        BY <1>10, <2>5, <2>7, <2>8
  <2> QED BY <1>9, <2>1, <2>9
<1>13. PaysOneMore(list, keys, key, i, more)
      BY <1>2, <1>5, <1>6, <1>9, <1>11, <1>12 DEF PaysOneMore
<1> QED BY <1>13 DEF more

\* A claim that is covered leaves the airdrop in order.
LEMMA ClaimKeepsOK ==
    ASSUME NEW id, NEW state, NEW list, NEW keys, AirdropOK(id, state, list, keys),
           NEW key \in Wallets, RecipientOf(list, key), ~Contains(keys, key),
           DueOf(list, key) <= Budget(state), NEW i \in Rows(list), list[i].address = key,
           NEW after,
           after = [state EXCEPT !.total_claimed = @ + DueOf(list, key),
                                 !.nullifiers = @ \cup {h_null(<<id, i>>)}]
    PROVE  AirdropOK(id, after, list, Append(keys, key))
<1> DEFINE more == Append(keys, key)
<1>1. /\ list \in Seq(Line) /\ Buildable(list) /\ parse_csv(list)
      /\ keys \in Seq(Wallets) /\ IsInjective(keys)
      /\ \A n \in DOMAIN keys : RecipientOf(list, keys[n])
      BY DEF AirdropOK, Buildable
<1>2. /\ more \in Seq(Wallets) /\ IsInjective(more)
      /\ \A n \in DOMAIN more : RecipientOf(list, more[n])
      /\ PaidRows(list, more) = PaidRows(list, keys) \cup {i}
      /\ SumFunction([n \in DOMAIN more |-> DueOf(list, more[n])])
           = SumFunction([n \in DOMAIN keys |-> DueOf(list, keys[n])]) + DueOf(list, key)
      /\ SumFunctionOnSet(AmountOf(list), PaidRows(list, more))
           = SumFunctionOnSet(AmountOf(list), PaidRows(list, keys)) + DueOf(list, key)
  <2>1. PaysOneMore(list, keys, key, i, more)
        BY <1>1, PaidOnceMore
  <2> HIDE DEF more
  <2> QED BY <1>1, <2>1 DEF PaysOneMore
<1> HIDE DEF more
<1>3. DueOf(list, key) \in Nat
      BY <1>1, RecipientDue
<1>4. /\ DOMAIN after = StateFields
      /\ after.airdrop_id = state.airdrop_id /\ after.merkle_root = state.merkle_root
      /\ after.bucket_table = state.bucket_table /\ after.status = state.status
      /\ after.total_funded = state.total_funded
      /\ after.total_claimed = state.total_claimed + DueOf(list, key)
      /\ after.nullifiers = state.nullifiers \cup {h_null(<<id, i>>)}
  <2>1. DOMAIN state = StateFields
        BY DEF AirdropOK
  <2> QED BY <2>1 DEF StateFields
<1>5. after.nullifiers = {h_null(<<id, j>>) : j \in PaidRows(list, more)}
      BY <1>2, <1>4 DEF AirdropOK
<1>6. /\ after.total_claimed \in Nat /\ after.total_claimed <= after.total_funded
      /\ after.total_funded \in Nat
      BY <1>3, <1>4 DEF AirdropOK, Budget
<1>7. after.total_claimed = SumFunction([n \in DOMAIN more |-> DueOf(list, more[n])])
      BY <1>2, <1>4 DEF AirdropOK
<1>8. after.total_claimed = SumFunctionOnSet(AmountOf(list), PaidRows(list, more))
      BY <1>2, <1>4 DEF AirdropOK
<1>9. /\ after.airdrop_id = id /\ after.merkle_root = build_bundle(list, id).merkle_root
      /\ after.bucket_table = bucket_table(list) /\ after.status \in {0, 1}
      BY <1>4 DEF AirdropOK
<1>10. AirdropOK(id, after, list, more)
      BY <1>1, <1>2, <1>4, <1>5, <1>6, <1>7, <1>8, <1>9 DEF AirdropOK
<1> QED BY <1>10 DEF more

\* With the whole list funded, what is left covers everybody who is not paid.
LEMMA FullFundingCovers ==
    ASSUME NEW id, NEW state, NEW list, NEW keys, AirdropOK(id, state, list, keys),
           NEW key, RecipientOf(list, key), ~Contains(keys, key),
           state.total_funded >= SumFunction(AmountOf(list))
    PROVE  DueOf(list, key) <= Budget(state)
<1>1. list \in Seq(Line) /\ parse_csv(list) /\ state.total_funded \in Nat /\ state.total_claimed \in Nat
      BY DEF AirdropOK, Buildable
<1>2. PICK i \in Rows(list) : list[i].address = key /\ DueOf(list, key) = list[i].raw_amount
      BY <1>1, RecipientDue
<1>3. PICK f, S : f = AmountOf(list) /\ S = PaidRows(list, keys)
      OBVIOUS
<1>4. IsFiniteSet(Rows(list)) /\ \A j \in Rows(list) : f[j] = list[j].raw_amount /\ f[j] \in Nat
      BY <1>1, <1>3, ListIs DEF AmountOf, Line
<1>5. S \in SUBSET Rows(list) /\ S \cup {i} \in SUBSET Rows(list) /\ i \notin S
      BY <1>2, <1>3 DEF PaidRows
<1>6. IsFiniteSet(S)
      BY <1>4, <1>5, FS_Subset
<1>7. SumFunctionOnSet(f, S \cup {i}) <= SumFunctionOnSet(f, Rows(list))
  <2>1. \A j \in Rows(list) : f[j] \in Nat
        BY <1>4
  <2> QED BY <1>4, <1>5, <2>1, SumSubset
<1>8. SumFunctionOnSet(f, S \cup {i}) = f[i] + SumFunctionOnSet(f, S)
  <2>1. \A j \in S \cup {i} : f[j] \in Int
        BY <1>4, <1>5
  <2> QED BY <1>5, <1>6, <2>1, SumAdd
<1>9. DOMAIN f = Rows(list)
      BY <1>3 DEF AmountOf
<1>10. state.total_claimed = SumFunctionOnSet(f, S)
      BY <1>3 DEF AirdropOK
<1>11. PICK total : total = SumFunctionOnSet(f, Rows(list))
      OBVIOUS
<1>12. total \in Nat
  <2>1. \A j \in Rows(list) : f[j] \in Nat
        BY <1>4
  <2> QED BY <1>4, <1>11, <2>1, SumNat
<1>13. state.total_funded >= total /\ f[i] + state.total_claimed <= total /\ f[i] \in Nat
  <2>1. SumFunction(AmountOf(list)) = total
        BY <1>3, <1>9, <1>11 DEF SumFunction
  <2> QED BY <1>4, <1>7, <1>8, <1>10, <1>11, <2>1
<1>14. DueOf(list, key) = f[i]
      BY <1>2, <1>4
<1> QED BY <1>1, <1>12, <1>13, <1>14 DEF Budget

-----------------------------------------------------------------------------
(* Padding.                                                                 *)

LEMMA NoLength ==
    ASSUME NEW S, NEW s \in Seq(S), Len(s) = 0
    PROVE  s = <<>>
OBVIOUS

LEMMA ConcatIs ==
    ASSUME NEW D, NEW s \in Seq(D), NEW t \in Seq(D)
    PROVE  /\ s \o t \in Seq(D) /\ Len(s \o t) = Len(s) + Len(t)
           /\ Len(s) \in Nat /\ Len(t) \in Nat
           /\ \A k \in 1 .. Len(s) : (s \o t)[k] = s[k]
           /\ \A k \in 1 .. Len(t) : (s \o t)[Len(s) + k] = t[k]
OBVIOUS

\* A sequence of blocks, one after the other: each block is somewhere in it, in
\* one piece.
HasBlock(whole, block) ==
    \E offset \in Nat : /\ offset + Len(block) <= Len(whole)
                        /\ \A k \in 1 .. Len(block) : whole[offset + k] = block[k]

LEMMA FlattenIs ==
    ASSUME NEW D, NEW blocks \in Seq(Seq(D))
    PROVE  /\ FlattenSeq(blocks) \in Seq(D)
           /\ \A b \in 1 .. Len(blocks) : HasBlock(FlattenSeq(blocks), blocks[b])
<1>1. PICK n \in Nat : n = Len(blocks)
      OBVIOUS
<1>2. \A b \in 1 .. n : blocks[b] \in Seq(D)
      BY <1>1
<1>3. CASE n = 0
  <2>1. FlattenSeq(blocks) = blocks
        BY <1>1, <1>3 DEF FlattenSeq
  <2>2. blocks = <<>>
        BY <1>1, <1>3, NoLength
  <2> QED BY <1>1, <1>3, <2>1, <2>2
<1>4. CASE n > 0
  <2> DEFINE Step(g, k) == IF k = 1 THEN blocks[k] ELSE g[k - 1] \o blocks[k]
             Part(m, g) == \A k \in 1 .. m : g[k] = Step(g, k)
             T == {m \in Nat : \E g : Part(m, g)}
             Defines(g) == g = [k \in 1 .. n |-> Step(g, k)]
  <2>1. \A g, h, k : g[k - 1] = h[k - 1] => Step(g, k) = Step(h, k)
        OBVIOUS
  <2>2. \A g, h : Step(g, 1) = Step(h, 1)
        OBVIOUS
  <2>3. FlattenSeq(blocks) = (CHOOSE g : Defines(g))[n]
        BY <1>1, <1>4 DEF FlattenSeq
  <2>4. \A g : Step(g, 1) = blocks[1]
        OBVIOUS
  <2>5. \A g, k : k # 1 => Step(g, k) = g[k - 1] \o blocks[k]
        OBVIOUS
  <2> HIDE DEF Step
  <2>6. 0 \in T
        OBVIOUS
  <2>7. ASSUME NEW m \in Nat, m \in T PROVE m + 1 \in T
    <3>1. PICK h : Part(m, h)
          BY <2>7
    <3> DEFINE g == [k \in 1 .. m + 1 |-> IF k = m + 1 THEN Step(h, m + 1) ELSE h[k]]
    <3>2. g[m + 1] = Step(h, m + 1) /\ \A k \in 1 .. m : g[k] = h[k]
          OBVIOUS
    <3> HIDE DEF g
    <3>3. Step(g, m + 1) = Step(h, m + 1)
      <4>1. CASE m = 0
            BY <2>2, <4>1
      <4>2. CASE m # 0
        <5>1. (m + 1) - 1 = m /\ m \in 1 .. m
              BY <4>2
        <5>2. g[(m + 1) - 1] = h[(m + 1) - 1]
              BY <3>2, <5>1
        <5> QED BY <2>1, <5>2
      <4> QED BY <4>1, <4>2
    <3>4. ASSUME NEW k \in 1 .. m PROVE g[k] = Step(g, k)
      <4>1. g[k] = Step(h, k)
            BY <3>1, <3>2
      <4>2. CASE k = 1
            BY <2>2, <4>1, <4>2
      <4>3. CASE k # 1
        <5>1. k - 1 \in 1 .. m
              BY <4>3
        <5>2. g[k - 1] = h[k - 1]
              BY <3>2, <5>1
        <5> QED BY <2>1, <4>1, <5>2
      <4> QED BY <4>2, <4>3
    <3>5. \A k \in 1 .. m + 1 : k \in 1 .. m \/ k = m + 1
          OBVIOUS
    <3>6. Part(m + 1, g)
          BY <3>2, <3>3, <3>4, <3>5
    <3> QED BY <3>6
  <2> HIDE DEF T
  <2>8. n \in T
        BY <2>6, <2>7, Induction
  <2>9. PICK h : Part(n, h)
        BY <2>8 DEF T
  <2> DEFINE f == [k \in 1 .. n |-> h[k]]
  <2>10. Defines(f)
    <3>1. f = [k \in 1 .. n |-> f[k]] /\ \A k \in 1 .. n : f[k] = h[k]
          OBVIOUS
    <3> HIDE DEF f
    <3>2. ASSUME NEW k \in 1 .. n PROVE f[k] = Step(f, k)
      <4>1. CASE k = 1
            BY <2>2, <2>9, <3>1, <4>1
      <4>2. CASE k # 1
        <5>1. k - 1 \in 1 .. n
              BY <4>2
        <5>2. f[k - 1] = h[k - 1]
              BY <3>1, <5>1
        <5>3. Step(f, k) = Step(h, k)
              BY <2>1, <5>2
        <5> QED BY <2>9, <3>1, <5>3
      <4> QED BY <4>1, <4>2
    <3> QED BY <3>1, <3>2
  <2>11. PICK flat : flat = CHOOSE g : Defines(g)
        OBVIOUS
  <2>12. Defines(flat)
    <3> HIDE DEF Defines
    <3> QED BY <2>10, <2>11
  <2>13. \A k \in 1 .. n : flat[k] = Step(flat, k)
        BY <2>12
  <2> DEFINE Good(m) == flat[m] \in Seq(D) /\ \A b \in 1 .. m : HasBlock(flat[m], blocks[b])
             U == {m \in Nat : m + 1 <= n => Good(m + 1)}
  <2>14. 0 \in U
    <3>1. flat[1] = blocks[1] /\ blocks[1] \in Seq(D)
          BY <1>2, <1>4, <2>4, <2>13
    <3>2. HasBlock(flat[1], blocks[1])
      <4>1. 0 + Len(blocks[1]) <= Len(flat[1]) /\ \A k \in 1 .. Len(blocks[1]) : flat[1][0 + k] = blocks[1][k]
            BY <3>1
      <4> QED BY <4>1 DEF HasBlock
    <3> QED BY <3>1, <3>2
  <2>15. ASSUME NEW m \in Nat, m \in U PROVE m + 1 \in U
    <3> SUFFICES ASSUME (m + 1) + 1 <= n PROVE Good((m + 1) + 1)
        OBVIOUS
    <3>1. PICK l \in 2 .. n : l = (m + 1) + 1 /\ l - 1 = m + 1 /\ l \in 1 .. n
          BY <2>15
    <3>2. PICK s \in Seq(D), t \in Seq(D) : s = flat[m + 1] /\ t = blocks[l]
          BY <1>2, <2>15, <3>1
    <3>3. flat[l] = s \o t
      <4>1. l # 1 /\ flat[l] = Step(flat, l)
            BY <2>13, <3>1
      <4> QED BY <2>5, <3>1, <3>2, <4>1
    <3>4. /\ s \o t \in Seq(D) /\ Len(s \o t) = Len(s) + Len(t)
          /\ Len(s) \in Nat /\ Len(t) \in Nat
          /\ \A k \in 1 .. Len(s) : (s \o t)[k] = s[k]
          /\ \A k \in 1 .. Len(t) : (s \o t)[Len(s) + k] = t[k]
          BY ConcatIs
    <3>5. HasBlock(s \o t, t)
      <4>1. Len(s) + Len(t) <= Len(s \o t)
            BY <3>4
      <4> QED BY <3>4, <4>1 DEF HasBlock
    <3>6. ASSUME NEW b \in 1 .. m + 1 PROVE HasBlock(s \o t, blocks[b])
      <4>1. HasBlock(s, blocks[b]) /\ blocks[b] \in Seq(D)
            BY <1>2, <2>15, <3>1, <3>2
      <4>2. PICK offset \in Nat : /\ offset + Len(blocks[b]) <= Len(s)
                                  /\ \A k \in 1 .. Len(blocks[b]) : s[offset + k] = blocks[b][k]
            BY <4>1 DEF HasBlock
      <4>3. PICK z \in Nat : z = Len(blocks[b])
            BY <4>1
      <4>4. \A k \in 1 .. z : offset + k \in 1 .. Len(s)
            BY <3>4, <4>2, <4>3
      <4>5. \A k \in 1 .. z : (s \o t)[offset + k] = blocks[b][k]
            BY <3>4, <4>2, <4>3, <4>4
      <4>6. offset + z <= Len(s \o t)
            BY <3>4, <4>2, <4>3
      <4> QED BY <4>3, <4>5, <4>6 DEF HasBlock
    <3>7. \A b \in 1 .. l : b \in 1 .. m + 1 \/ b = l
          BY <3>1
    <3> QED BY <3>1, <3>2, <3>3, <3>4, <3>5, <3>6, <3>7
  <2> HIDE DEF U
  <2>16. \A m \in Nat : m \in U
        BY <2>14, <2>15, Induction
  <2>17. Good(n)
    <3>1. n - 1 \in Nat /\ (n - 1) + 1 = n
          BY <1>4
    <3> HIDE DEF Good
    <3> QED BY <2>16, <3>1 DEF U
  <2>18. FlattenSeq(blocks) = flat[n]
        BY <2>3, <2>11
  <2> QED BY <1>1, <2>17, <2>18
<1> QED BY <1>3, <1>4

LEMMA Repeated ==
    ASSUME NEW D, NEW a \in D, NEW m \in Int
    PROVE  /\ [k \in 1 .. m |-> a] \in Seq(D)
           /\ m >= 0 => Len([k \in 1 .. m |-> a]) = m
<1>1. CASE m >= 0
      BY <1>1
<1>2. CASE m < 0
  <2>1. 1 .. m = 1 .. 0
        BY <1>2
  <2>2. [k \in 1 .. 0 |-> a] \in Seq(D)
        OBVIOUS
  <2> QED BY <1>2, <2>1, <2>2
<1> QED BY <1>1, <1>2

LEMMA PopulationIs ==
    ASSUME NEW list \in Seq(Line), NEW amount
    PROVE  /\ IsFiniteSet({i \in Rows(list) : list[i].raw_amount = amount})
           /\ population(list, amount) \in Nat
<1>1. /\ {i \in Rows(list) : list[i].raw_amount = amount} \in SUBSET Rows(list)
      /\ IsFiniteSet(Rows(list))
      BY ListIs
<1>2. IsFiniteSet({i \in Rows(list) : list[i].raw_amount = amount})
      BY <1>1, FS_Subset
<1> QED BY <1>2, FS_CardinalityType DEF population

\* As many of each amount as its bucket lacks, in one piece.
Fills(gaps, list, floor) ==
    \A amount \in AmountsIn(list) : \A m \in Nat :
      m = floor - population(list, amount) =>
        \E offset \in Nat : /\ offset + m <= Len(gaps)
                            /\ \A k \in 1 .. m : gaps[offset + k] = amount

\* The decoys' amounts are amounts of the list, as many of each as it lacks.
LEMMA GapsAre ==
    ASSUME NEW list \in Seq(Line), NEW floor \in Nat
    PROVE  /\ Gaps(list, floor) \in Seq(AmountsIn(list))
           /\ Fills(Gaps(list, floor), list, floor)
<1> DEFINE table == bucket_table(list)
           D == AmountsIn(list)
           Block(amount) == [k \in 1 .. floor - population(list, amount) |-> amount]
           blocks == [b \in DOMAIN table |-> Block(table[b])]
<1>1. PICK n \in Nat :
        /\ n = Len(table) /\ DOMAIN table = 1 .. n
        /\ \A b \in 1 .. n : table[b] \in D
        /\ \A amount \in D : \E b \in 1 .. n : table[b] = amount
      BY TableIs
<1>2. Gaps(list, floor) = FlattenSeq(blocks)
      BY DEF Gaps
<1> HIDE DEF table, D
<1>3. ASSUME NEW amount \in D
      PROVE  /\ Block(amount) \in Seq(D)
             /\ \A m \in Nat : m = floor - population(list, amount) =>
                  Len(Block(amount)) = m /\ \A k \in 1 .. m : Block(amount)[k] = amount
  <2>1. PICK m \in Int : m = floor - population(list, amount)
    <3>1. PICK p \in Nat : p = population(list, amount)
          BY PopulationIs
    <3> QED BY <3>1
  <2>2. Block(amount) = [k \in 1 .. m |-> amount]
        BY <2>1
  <2>3. [k \in 1 .. m |-> amount] \in Seq(D) /\ (m >= 0 => Len([k \in 1 .. m |-> amount]) = m)
        BY Repeated
  <2> HIDE DEF Block
  <2> QED BY <2>1, <2>2, <2>3
<1> HIDE DEF Block
<1>4. blocks \in [1 .. n -> Seq(D)]
      BY <1>1, <1>3
<1>5. blocks \in Seq(Seq(D)) /\ Len(blocks) = n
  <2> HIDE DEF blocks
  <2> QED BY <1>4
<1>6. \A b \in 1 .. n : blocks[b] = Block(table[b])
      BY <1>1
<1> HIDE DEF blocks
<1>7. PICK whole : whole = FlattenSeq(blocks)
      OBVIOUS
<1>8. whole \in Seq(D) /\ \A b \in 1 .. n : HasBlock(whole, blocks[b])
      BY <1>5, <1>7, FlattenIs
<1>9. ASSUME NEW amount \in D, NEW m \in Nat, m = floor - population(list, amount)
      PROVE  \E offset \in Nat : /\ offset + m <= Len(whole)
                                 /\ \A k \in 1 .. m : whole[offset + k] = amount
  <2>1. PICK b \in 1 .. n : table[b] = amount
        BY <1>1
  <2>2. HasBlock(whole, Block(amount))
        BY <1>6, <1>8, <2>1
  <2>3. Len(Block(amount)) = m /\ \A k \in 1 .. m : Block(amount)[k] = amount
        BY <1>3, <1>9
  <2> QED BY <2>2, <2>3 DEF HasBlock
<1>10. Fills(whole, list, floor)
       BY <1>9 DEF D, Fills
<1> QED BY <1>2, <1>7, <1>8, <1>10 DEF D

\* The decoys are addresses, none on the list and none twice.
LEMMA FreshDecoysAre ==
    ASSUME NEW list \in Seq(Line)
    PROVE  /\ FreshDecoys(list) \in Seq(Addresses)
           /\ \A i \in 1 .. Len(FreshDecoys(list)) : FreshDecoys(list)[i] \notin AddressesIn(list)
           /\ \A i, j \in 1 .. Len(FreshDecoys(list)) :
                FreshDecoys(list)[i] = FreshDecoys(list)[j] => i = j
<1> DEFINE fresh == {i \in DOMAIN Decoys : /\ Decoys[i] \notin AddressesIn(list)
                                          /\ \A j \in 1 .. i - 1 : Decoys[j] # Decoys[i]}
           n == Cardinality(fresh)
           s == FreshDecoys(list)
<1>1. /\ DOMAIN Decoys = 1 .. Len(Decoys) /\ Len(Decoys) \in Nat
      /\ \A i \in 1 .. Len(Decoys) : Decoys[i] \in Addresses
      BY EligibilityAssumption
<1>2. fresh \in SUBSET Nat /\ IsFiniteSet(fresh)
  <2>1. fresh \in SUBSET (1 .. Len(Decoys))
        BY <1>1
  <2>2. IsFiniteSet(1 .. Len(Decoys))
        BY <1>1, FS_Interval
  <2> HIDE DEF fresh
  <2>3. IsFiniteSet(fresh)
        BY <2>1, <2>2, FS_Subset
  <2>4. \A i \in 1 .. Len(Decoys) : i \in Nat
        BY <1>1
  <2> QED BY <2>1, <2>3, <2>4
<1>3. \A i \in fresh : Decoys[i] \in Addresses /\ Decoys[i] \notin AddressesIn(list)
      BY <1>1
<1>4. ASSUME NEW i \in fresh, NEW j \in fresh, Decoys[i] = Decoys[j] PROVE i = j
  <2>1. i \in Nat /\ j \in Nat /\ i >= 1 /\ j >= 1
        BY <1>1
  <2>2. CASE i < j
    <3>1. i \in 1 .. j - 1
          BY <2>1, <2>2
    <3> QED BY <1>4, <3>1
  <2>3. CASE j < i
    <3>1. j \in 1 .. i - 1
          BY <2>1, <2>3
    <3> QED BY <1>4, <3>1
  <2> HIDE DEF fresh
  <2> QED BY <2>1, <2>2, <2>3
<1>5. s = [k \in 1 .. n |-> Decoys[Nth(fresh, k)]]
      BY DEF FreshDecoys
<1> HIDE DEF fresh, s
<1>6. n \in Nat /\ \A k \in 1 .. n : Nth(fresh, k) \in fresh /\ Rank(fresh, Nth(fresh, k)) = k - 1
      BY <1>2, NthIs
<1> HIDE DEF n
<1>7. s \in [1 .. n -> Addresses]
      BY <1>3, <1>5, <1>6
<1>8. s \in Seq(Addresses) /\ Len(s) = n
      BY <1>6, <1>7
<1>9. \A i \in 1 .. n : s[i] \notin AddressesIn(list)
      BY <1>3, <1>5, <1>6
<1>10. ASSUME NEW i \in 1 .. n, NEW j \in 1 .. n, s[i] = s[j] PROVE i = j
  <2>1. Nth(fresh, i) = Nth(fresh, j)
        BY <1>4, <1>5, <1>6, <1>10
  <2>2. i - 1 = j - 1
        BY <1>6, <2>1
  <2> QED BY <2>2
<1> QED BY <1>8, <1>9, <1>10 DEF s

\* A list continued by decoys, line by line.
Continues(long, list, gaps, decoys) ==
    /\ long \in Seq(Line)
    /\ Len(list) \in Nat /\ Len(gaps) \in Nat /\ Len(gaps) <= Len(decoys)
    /\ Len(long) = Len(list) + Len(gaps)
    /\ \A i \in 1 .. Len(list) : long[i] = list[i]
    /\ \A k \in 1 .. Len(gaps) : /\ long[Len(list) + k].address = decoys[k]
                                 /\ long[Len(list) + k].raw_amount = gaps[k]

LEMMA PaddedIs ==
    ASSUME NEW list \in Seq(Line), NEW floor \in Nat, EnoughDecoys(list, floor)
    PROVE  Continues(padded(list, floor), list, Gaps(list, floor), FreshDecoys(list))
<1>1. PICK gaps \in Seq(AmountsIn(list)) : gaps = Gaps(list, floor)
      BY GapsAre
<1>2. PICK decoys \in Seq(Addresses) : decoys = FreshDecoys(list)
      BY FreshDecoysAre
<1>3. /\ Len(gaps) \in Nat /\ Len(decoys) \in Nat /\ Len(gaps) <= Len(decoys)
      /\ DOMAIN gaps = 1 .. Len(gaps)
      /\ \A k \in 1 .. Len(gaps) : gaps[k] \in Nat
      /\ \A k \in 1 .. Len(gaps) : decoys[k] \in Addresses
  <2>1. AmountsIn(list) \in SUBSET Nat
        BY ListIs
  <2> QED BY <1>1, <1>2, <2>1 DEF EnoughDecoys
<1> DEFINE extra == [i \in DOMAIN gaps |-> [address |-> decoys[i], raw_amount |-> gaps[i]]]
<1>4. extra \in [1 .. Len(gaps) -> Line]
      BY <1>3 DEF Line
<1>5. padded(list, floor) = list \o extra
      BY <1>1, <1>2 DEF padded
<1>6. \A k \in 1 .. Len(gaps) : extra[k].address = decoys[k] /\ extra[k].raw_amount = gaps[k]
      BY <1>3
<1> HIDE DEF extra
<1>7. extra \in Seq(Line) /\ Len(extra) = Len(gaps)
      BY <1>3, <1>4
<1>8. PICK e \in Seq(Line) : e = extra
      BY <1>7
<1>9. PICK long : long = padded(list, floor)
      OBVIOUS
<1>10. long = list \o e
      BY <1>5, <1>8, <1>9
<1>11. /\ list \o e \in Seq(Line) /\ Len(list \o e) = Len(list) + Len(e)
       /\ Len(list) \in Nat /\ Len(e) \in Nat
       /\ \A i \in 1 .. Len(list) : (list \o e)[i] = list[i]
       /\ \A k \in 1 .. Len(e) : (list \o e)[Len(list) + k] = e[k]
       BY ConcatIs
<1>12. /\ long \in Seq(Line) /\ Len(long) = Len(list) + Len(e) /\ Len(list) \in Nat
       /\ \A i \in 1 .. Len(list) : long[i] = list[i]
       /\ \A k \in 1 .. Len(e) : long[Len(list) + k] = e[k]
       BY <1>10, <1>11
<1>13. Len(e) = Len(gaps) /\ \A k \in 1 .. Len(gaps) : e[k].address = decoys[k] /\ e[k].raw_amount = gaps[k]
       BY <1>6, <1>7, <1>8
<1>14. \A k \in 1 .. Len(gaps) : /\ long[Len(list) + k].address = decoys[k]
                                 /\ long[Len(list) + k].raw_amount = gaps[k]
       BY <1>12, <1>13
<1>15. Continues(long, list, gaps, decoys)
       BY <1>3, <1>12, <1>13, <1>14 DEF Continues
<1> QED BY <1>1, <1>2, <1>9, <1>15


\* Padding adds no amount and every bucket reaches the floor.
LEMMA PaddingFillsBuckets ==
    ASSUME NEW list \in Seq(Line), NEW floor \in Nat, EnoughDecoys(list, floor),
           NEW long, long = padded(list, floor)
    PROVE  /\ AmountsIn(long) = AmountsIn(list)
           /\ \A amount \in AmountsIn(long) : population(long, amount) >= floor
<1>1. PICK gaps : gaps = Gaps(list, floor)
      OBVIOUS
<1>2. PICK n \in Nat, g \in Nat :
        /\ n = Len(list) /\ g = Len(gaps) /\ long \in Seq(Line) /\ Len(long) = n + g
        /\ \A i \in 1 .. n : long[i] = list[i]
        /\ \A k \in 1 .. g : long[n + k].raw_amount = gaps[k]
  <2>1. Continues(long, list, gaps, FreshDecoys(list))
        BY <1>1, PaddedIs
  <2> QED BY <2>1 DEF Continues
<1>3. Rows(list) = 1 .. n /\ Rows(long) = 1 .. n + g
      BY <1>2, ListIs
<1>4. /\ gaps \in Seq(AmountsIn(list)) /\ Fills(gaps, list, floor)
      /\ \A k \in 1 .. g : gaps[k] \in AmountsIn(list)
  <2>1. Gaps(list, floor) \in Seq(AmountsIn(list)) /\ Fills(Gaps(list, floor), list, floor)
        BY GapsAre
  <2>2. gaps \in Seq(AmountsIn(list)) /\ Fills(gaps, list, floor)
        BY <1>1, <2>1
  <2>3. \A k \in 1 .. g : gaps[k] \in AmountsIn(list)
        BY <1>2, <2>2
  <2> QED BY <2>2, <2>3
<1>5. \A i \in Rows(long) : i \in Rows(list) \/ \E k \in 1 .. g : i = n + k
  <2>1. ASSUME NEW i \in 1 .. n + g, i \notin 1 .. n PROVE i - n \in 1 .. g /\ i = n + (i - n)
        BY <2>1
  <2> QED BY <1>3, <2>1
<1>6. \A i \in Rows(list) : i \in Rows(long) /\ long[i] = list[i]
      BY <1>2, <1>3
<1>7. AmountsIn(long) = AmountsIn(list)
  <2>1. ASSUME NEW i \in Rows(list) PROVE list[i].raw_amount \in AmountsIn(long)
        BY <1>6 DEF AmountsIn
  <2>2. ASSUME NEW i \in Rows(long) PROVE long[i].raw_amount \in AmountsIn(list)
    <3>1. CASE i \in Rows(list)
          BY <1>6, <3>1 DEF AmountsIn
    <3>2. CASE \E k \in 1 .. g : i = n + k
          BY <1>2, <1>4, <3>2
    <3> QED BY <1>5, <3>1, <3>2
  <2> QED BY <2>1, <2>2 DEF AmountsIn
<1>8. ASSUME NEW amount \in AmountsIn(list) PROVE population(long, amount) >= floor
  <2>1. PICK old, new : /\ old = {i \in Rows(list) : list[i].raw_amount = amount}
                        /\ new = {i \in Rows(long) : long[i].raw_amount = amount}
        OBVIOUS
  <2>2. IsFiniteSet(old) /\ IsFiniteSet(new)
        BY <1>2, <2>1, PopulationIs
  <2>3. PICK p \in Nat, q \in Nat :
          p = population(list, amount) /\ q = population(long, amount)
        BY <1>2, PopulationIs
  <2>4. p = Cardinality(old) /\ q = Cardinality(new)
        BY <2>1, <2>3 DEF population
  <2>5. old \in SUBSET new
        BY <1>6, <2>1
  <2>6. CASE p >= floor
    <3>1. Cardinality(old) <= Cardinality(new)
          BY <2>2, <2>5, FS_Subset
    <3> QED BY <2>3, <2>4, <2>6, <3>1
  <2>7. CASE ~(p >= floor)
    <3>1. PICK m \in Nat : m = floor - p /\ m # 0
          BY <2>7
    <3>2. PICK offset \in Nat : /\ offset + m <= g
                                /\ \A k \in 1 .. m : gaps[offset + k] = amount
      <4>1. m = floor - population(list, amount)
            BY <2>3, <3>1
      <4> QED BY <1>2, <1>4, <4>1 DEF Fills
    <3>3. PICK a \in Nat, b \in Nat : a = n + offset + 1 /\ b = n + offset + m
          OBVIOUS
    <3>4. ASSUME NEW i \in a .. b PROVE i \in new /\ i \notin old
      <4>1. PICK k \in 1 .. m : i = n + (offset + k)
        <5>1. i - (n + offset) \in 1 .. m /\ i = n + (offset + (i - (n + offset)))
              BY <3>3, <3>4
        <5> QED BY <5>1
      <4>2. offset + k \in 1 .. g
            BY <3>2
      <4>3. long[i].raw_amount = amount
            BY <1>2, <3>2, <4>1, <4>2
      <4>4. i \in Rows(long) /\ i \notin Rows(list)
            BY <1>3, <4>1, <4>2
      <4> QED BY <2>1, <4>3, <4>4
    <3>5. IsFiniteSet(a .. b) /\ Cardinality(a .. b) = m
      <4>1. IsFiniteSet(a .. b) /\ Cardinality(a .. b) = IF a > b THEN 0 ELSE b - a + 1
            BY FS_Interval
      <4> QED BY <3>1, <3>3, <4>1
    <3>6. old \cap (a .. b) = {} /\ old \cup (a .. b) \in SUBSET new
          BY <2>5, <3>4
    <3>7. Cardinality(old \cup (a .. b)) = Cardinality(old) + Cardinality(a .. b) - Cardinality({})
          BY <2>2, <3>5, <3>6, FS_Union
    <3>8. Cardinality({}) = 0
          BY FS_EmptySet
    <3>9. Cardinality(old \cup (a .. b)) <= Cardinality(new)
          BY <2>2, <3>6, FS_Subset
    <3>10. p + m <= q
          BY <2>4, <3>5, <3>7, <3>8, <3>9
    <3> QED BY <2>3, <3>1, <3>10
  <2> QED BY <2>6, <2>7
<1> QED BY <1>7, <1>8

\* The list comes first, and a list that parses still does.
LEMMA PaddingKeepsList ==
    ASSUME NEW list \in Seq(Line), NEW floor \in Nat, EnoughDecoys(list, floor),
           NEW long, long = padded(list, floor)
    PROVE  /\ IsPrefix(list, long)
           /\ parse_csv(list) /\ Len(long) <= MaxPopulation => parse_csv(long)
<1>1. PICK decoys : decoys = FreshDecoys(list)
      OBVIOUS
<1>2. PICK n \in Nat, g \in Nat :
        /\ n = Len(list) /\ g <= Len(decoys) /\ long \in Seq(Line) /\ Len(long) = n + g
        /\ \A i \in 1 .. n : long[i] = list[i]
        /\ \A k \in 1 .. g : long[n + k].address = decoys[k]
  <2>1. Continues(long, list, Gaps(list, floor), decoys)
        BY <1>1, PaddedIs
  <2> QED BY <2>1 DEF Continues
<1>3. Rows(list) = 1 .. n /\ Rows(long) = 1 .. n + g
      BY <1>2, ListIs
<1>4. /\ decoys \in Seq(Addresses)
      /\ \A i \in 1 .. Len(decoys) : decoys[i] \notin AddressesIn(list)
      /\ \A i, j \in 1 .. Len(decoys) : decoys[i] = decoys[j] => i = j
      BY <1>1, FreshDecoysAre
<1>5. \A k \in 1 .. g : k \in 1 .. Len(decoys)
  <2>1. Len(decoys) \in Nat
        BY <1>4
  <2> QED BY <1>2, <2>1
<1>6. IsPrefix(list, long)
  <2>1. n <= n + g
        OBVIOUS
  <2>2. SubSeq(list, 1, n) = [i \in 1 .. n |-> list[i]] /\ SubSeq(long, 1, n) = [i \in 1 .. n |-> long[i]]
        BY <1>2
  <2>3. SubSeq(list, 1, n) = SubSeq(long, 1, n)
        BY <1>2, <2>2
  <2> QED BY <1>2, <2>1, <2>3 DEF IsPrefix
<1>7. ASSUME parse_csv(list), Len(long) <= MaxPopulation PROVE parse_csv(long)
  <2>1. \A i, j \in 1 .. n : list[i].address = list[j].address => i = j
        BY <1>3, <1>7 DEF parse_csv, IsInjective
  <2>2. \A i \in 1 .. n : list[i].address \in AddressesIn(list)
        BY <1>3 DEF AddressesIn
  <2>3. \A i \in 1 .. n + g : i \in 1 .. n \/ \E k \in 1 .. g : i = n + k
    <3>1. ASSUME NEW i \in 1 .. n + g, i \notin 1 .. n PROVE i - n \in 1 .. g /\ i = n + (i - n)
          BY <3>1
    <3> QED BY <3>1
  <2>4. ASSUME NEW i \in 1 .. n, NEW k \in 1 .. g PROVE long[i].address # long[n + k].address
    <3>1. long[i] = list[i] /\ long[n + k].address = decoys[k]
          BY <1>2
    <3>2. list[i].address \in AddressesIn(list) /\ decoys[k] \notin AddressesIn(list)
          BY <1>4, <1>5, <2>2
    <3> QED BY <3>1, <3>2
  <2>5. ASSUME NEW i \in 1 .. n + g, NEW j \in 1 .. n + g, long[i].address = long[j].address
        PROVE  i = j
    <3>1. CASE i \in 1 .. n /\ j \in 1 .. n
          BY <1>2, <2>1, <2>5, <3>1
    <3>2. CASE i \in 1 .. n /\ j \notin 1 .. n
          BY <2>3, <2>4, <2>5, <3>2
    <3>3. CASE i \notin 1 .. n /\ j \in 1 .. n
          BY <2>3, <2>4, <2>5, <3>3
    <3>4. CASE i \notin 1 .. n /\ j \notin 1 .. n
      <4>1. PICK k \in 1 .. g, l \in 1 .. g : i = n + k /\ j = n + l
            BY <2>3, <3>4
      <4>2. decoys[k] = decoys[l]
            BY <1>2, <2>5, <4>1
      <4> QED BY <1>4, <1>5, <4>1, <4>2
    <3> QED BY <3>1, <3>2, <3>3, <3>4
  <2>6. IsInjective([i \in Rows(long) |-> long[i].address])
        BY <1>3, <2>5 DEF IsInjective
  <2>7. Cardinality(AmountsIn(long)) <= MaxBuckets
    <3>1. AmountsIn(long) = AmountsIn(list)
          BY PaddingFillsBuckets
    <3> QED BY <1>7, <3>1 DEF parse_csv
  <2> QED BY <1>7, <2>6, <2>7 DEF parse_csv
<1> QED BY <1>6, <1>7

-----------------------------------------------------------------------------
(* The invariant.                                                           *)

\* A bundle of a list, the list of its airdrop if there is one.
BundleFrom(bundle, list) ==
    /\ bundle.airdrop_id \in 1 .. built
    /\ Buildable(list)
    /\ bundle = build_bundle(list, bundle.airdrop_id)
    /\ bundle.airdrop_id \in DOMAIN lists => lists[bundle.airdrop_id] = list

BundlesOK == \A bundle \in bundles : \E list \in Seq(Line) : BundleFrom(bundle, list)

AirdropsOK ==
    /\ DOMAIN states = DOMAIN lists /\ DOMAIN paid = DOMAIN lists
    /\ \A id \in DOMAIN lists :
         id \in 1 .. built /\ AirdropOK(id, states[id], lists[id], paid[id])

EligibilityInv ==
    /\ csv \in Seq(Line) /\ built \in Nat
    /\ BundlesOK
    /\ AirdropsOK

LEMMA InitOK == EligibilityInit => EligibilityInv
<1> SUFFICES ASSUME EligibilityInit PROVE EligibilityInv
    OBVIOUS
<1>1. csv \in Seq(Line) /\ built \in Nat /\ bundles = {}
      BY DEF EligibilityInit
<1>2. DOMAIN states = {} /\ DOMAIN lists = {} /\ DOMAIN paid = {}
      BY DEF EligibilityInit
<1>3. BundlesOK
      BY <1>1 DEF BundlesOK
<1>4. AirdropsOK
      BY <1>2 DEF AirdropsOK
<1> QED BY <1>1, <1>3, <1>4 DEF EligibilityInv

\* The bundles stay as they are when the lists do.
LEMMA BundlesKept ==
    ASSUME BundlesOK, UNCHANGED <<built, bundles, lists>>
    PROVE  BundlesOK'
BY DEF BundlesOK, BundleFrom

LEMMA TypeKeepsOK ==
    ASSUME EligibilityInv, NEW line \in Lines, type(line)
    PROVE  EligibilityInv'
<1>1. line \in Line
      BY EligibilityAssumption DEF Line
<1>2. csv' \in Seq(Line) /\ built' \in Nat
      BY <1>1 DEF EligibilityInv, type
<1>3. BundlesOK'
      BY BundlesKept DEF EligibilityInv, type
<1>4. AirdropsOK'
      BY DEF EligibilityInv, AirdropsOK, type
<1> QED BY <1>2, <1>3, <1>4 DEF EligibilityInv

LEMMA PadKeepsOK ==
    ASSUME EligibilityInv, NEW floor \in Floors, pad_csv(floor)
    PROVE  EligibilityInv'
<1>1. floor \in Nat /\ csv \in Seq(Line) /\ EnoughDecoys(csv, floor)
      BY EligibilityAssumption DEF EligibilityInv, pad_csv
<1>2. Continues(padded(csv, floor), csv, Gaps(csv, floor), FreshDecoys(csv))
      BY <1>1, PaddedIs
<1>3. csv' \in Seq(Line) /\ built' \in Nat
      BY <1>2 DEF EligibilityInv, pad_csv, Continues
<1>4. BundlesOK'
      BY BundlesKept DEF EligibilityInv, pad_csv
<1>5. AirdropsOK'
      BY DEF EligibilityInv, AirdropsOK, pad_csv
<1> QED BY <1>3, <1>4, <1>5 DEF EligibilityInv

\* A new airdrop, nobody paid.
LEMMA NewAirdropOK ==
    ASSUME NEW list \in Seq(Line), Buildable(list), NEW id, NEW root,
           root = build_bundle(list, id).merkle_root
    PROVE  AirdropOK(id, [airdrop_id |-> id, merkle_root |-> root,
                          bucket_table |-> bucket_table(list),
                          total_funded |-> 0, total_claimed |-> 0,
                          status |-> 0, nullifiers |-> {}], list, <<>>)
<1>1. PICK state : state = [airdrop_id |-> id, merkle_root |-> root,
                            bucket_table |-> bucket_table(list),
                            total_funded |-> 0, total_claimed |-> 0,
                            status |-> 0, nullifiers |-> {}]
      OBVIOUS
<1>2. /\ DOMAIN state = StateFields /\ state.airdrop_id = id /\ state.merkle_root = root
      /\ state.bucket_table = bucket_table(list) /\ state.status = 0
      /\ state.total_funded = 0 /\ state.total_claimed = 0 /\ state.nullifiers = {}
      BY <1>1 DEF StateFields
<1>3. PICK keys : keys = <<>>
      OBVIOUS
<1>4. keys \in Seq(Wallets) /\ DOMAIN keys = {}
      BY <1>3
<1>5. PaidRows(list, keys) = {}
      BY <1>3 DEF PaidRows, Contains
<1>6. SumFunctionOnSet(AmountOf(list), PaidRows(list, keys)) = 0
      BY <1>5, SumEmpty
<1>7. SumFunction([n \in DOMAIN keys |-> DueOf(list, keys[n])]) = 0
  <2>1. PICK f : f = [n \in DOMAIN keys |-> DueOf(list, keys[n])] /\ DOMAIN f = {}
        BY <1>4
  <2>2. SumFunction(f) = 0
        BY <2>1, SumEmpty DEF SumFunction
  <2> QED BY <2>1, <2>2
<1>8. {h_null(<<id, i>>) : i \in PaidRows(list, keys)} = {}
      BY <1>5
<1>9. IsInjective(keys) /\ \A n \in DOMAIN keys : RecipientOf(list, keys[n])
      BY <1>4 DEF IsInjective
<1>10. AirdropOK(id, state, list, keys)
  <2>1. list \in Seq(Line) /\ Buildable(list) /\ DOMAIN state = StateFields /\ state.airdrop_id = id
        BY <1>2
  <2>2. /\ state.merkle_root = build_bundle(list, id).merkle_root
        /\ state.bucket_table = bucket_table(list) /\ state.status \in {0, 1}
        BY <1>2
  <2>3. /\ state.total_funded \in Nat /\ state.total_claimed \in Nat
        /\ state.total_claimed <= state.total_funded
        BY <1>2
  <2>4. state.nullifiers = {h_null(<<id, i>>) : i \in PaidRows(list, keys)}
        BY <1>2, <1>8
  <2>5. state.total_claimed = SumFunction([n \in DOMAIN keys |-> DueOf(list, keys[n])])
        BY <1>2, <1>7
  <2>6. state.total_claimed = SumFunctionOnSet(AmountOf(list), PaidRows(list, keys))
        BY <1>2, <1>6
  <2> QED BY <1>4, <1>9, <2>1, <2>2, <2>3, <2>4, <2>5, <2>6 DEF AirdropOK
<1> QED BY <1>1, <1>3, <1>10


LEMMA InitAirdropKeepsOK ==
    ASSUME EligibilityInv, init
    PROVE  EligibilityInv'
<1>1. PICK id, bundle :
        /\ id = built + 1 /\ bundle = build_bundle(csv, id)
        /\ built' = id /\ bundles' = bundles \cup {bundle} /\ csv' = <<>>
      BY DEF init
<1>2. csv \in Seq(Line) /\ Buildable(csv) /\ built \in Nat /\ id \in Nat /\ id \in 1 .. built'
      BY <1>1 DEF EligibilityInv, init
<1>3. \A n \in 1 .. built : n \in 1 .. built' /\ n # id
      BY <1>1, <1>2
<1>4. /\ DOMAIN states = DOMAIN lists /\ DOMAIN paid = DOMAIN lists
      /\ \A n \in DOMAIN lists : n \in 1 .. built /\ AirdropOK(n, states[n], lists[n], paid[n])
      BY DEF EligibilityInv, AirdropsOK
<1>5. bundle.airdrop_id = id
      BY <1>1, <1>2, BundleIs DEF BundleOf
<1> DEFINE state == [airdrop_id |-> id, merkle_root |-> bundle.merkle_root,
                     bucket_table |-> bucket_table(csv),
                     total_funded |-> 0, total_claimed |-> 0,
                     status |-> 0, nullifiers |-> {}]
           put(f, value) == [i \in DOMAIN f \cup {id} |-> IF i = id THEN value ELSE f[i]]
<1>6. \/ states' = put(states, state) /\ lists' = put(lists, csv) /\ paid' = put(paid, <<>>)
      \/ UNCHANGED <<states, lists, paid>>
      BY <1>1 DEF init
<1>7. AirdropOK(id, state, csv, <<>>)
      BY <1>1, <1>2, NewAirdropOK
<1> HIDE DEF state
<1>8. ASSUME states' = put(states, state), lists' = put(lists, csv), paid' = put(paid, <<>>)
      PROVE  AirdropsOK'
  <2>1. /\ DOMAIN states' = DOMAIN lists' /\ DOMAIN paid' = DOMAIN lists'
        /\ DOMAIN lists' = DOMAIN lists \cup {id}
        BY <1>4, <1>8
  <2>2. lists'[id] = csv /\ states'[id] = state /\ paid'[id] = <<>>
        BY <1>8
  <2>3. \A n \in DOMAIN lists :
          n # id => lists'[n] = lists[n] /\ states'[n] = states[n] /\ paid'[n] = paid[n]
        BY <1>4, <1>8
  <2>4. ASSUME NEW n \in DOMAIN lists'
        PROVE  n \in 1 .. built' /\ AirdropOK(n, states'[n], lists'[n], paid'[n])
    <3>1. CASE n = id
          BY <1>2, <1>7, <2>2, <3>1
    <3>2. CASE n # id
      <4>1. n \in DOMAIN lists
            BY <2>1, <3>2
      <4>2. n \in 1 .. built'
            BY <1>3, <1>4, <4>1
      <4>3. lists'[n] = lists[n] /\ states'[n] = states[n] /\ paid'[n] = paid[n]
            BY <2>3, <3>2, <4>1
      <4>4. AirdropOK(n, states[n], lists[n], paid[n])
            BY <1>4, <4>1
      <4> QED BY <4>2, <4>3, <4>4
    <3> QED BY <3>1, <3>2
  <2> QED BY <2>1, <2>2, <2>3, <2>4 DEF AirdropsOK
<1>9. ASSUME UNCHANGED <<states, lists, paid>> PROVE AirdropsOK'
      BY <1>3, <1>4, <1>9 DEF AirdropsOK
<1>10. AirdropsOK'
       BY <1>6, <1>8, <1>9
<1>11. /\ \A n \in 1 .. built : n \in DOMAIN lists' <=> n \in DOMAIN lists
       /\ \A n \in DOMAIN lists : lists'[n] = lists[n]
       /\ id \in DOMAIN lists' => lists'[id] = csv
       BY <1>3, <1>4, <1>6
<1>12. BundlesOK'
  <2> SUFFICES ASSUME NEW b \in bundles' PROVE \E list \in Seq(Line) : BundleFrom(b, list)'
      BY DEF BundlesOK
  <2>1. CASE b = bundle
    <3>1. PICK list \in Seq(Line) : list = csv
          BY <1>2
    <3>2. b.airdrop_id \in 1 .. built' /\ Buildable(list) /\ b = build_bundle(list, b.airdrop_id)
          BY <1>1, <1>2, <1>5, <2>1, <3>1
    <3>3. b.airdrop_id \in DOMAIN lists' => lists'[b.airdrop_id] = list
          BY <1>5, <1>11, <2>1, <3>1
    <3> QED BY <3>2, <3>3 DEF BundleFrom
  <2>2. CASE b # bundle
    <3>1. PICK list \in Seq(Line) : BundleFrom(b, list)
          BY <1>1, <2>2 DEF EligibilityInv, BundlesOK
    <3>2. b.airdrop_id \in 1 .. built' /\ Buildable(list) /\ b = build_bundle(list, b.airdrop_id)
          BY <1>3, <3>1 DEF BundleFrom
    <3>3. b.airdrop_id \in DOMAIN lists' => lists'[b.airdrop_id] = list
          BY <1>11, <3>1 DEF BundleFrom
    <3> QED BY <3>2, <3>3 DEF BundleFrom
  <2> QED BY <2>1, <2>2
<1>13. csv' \in Seq(Line) /\ built' \in Nat
       BY <1>1, <1>2
<1> QED BY <1>10, <1>12, <1>13 DEF EligibilityInv

\* Updating one airdrop, the list unchanged.
LEMMA OneAirdropKeepsOK ==
    ASSUME EligibilityInv, NEW id \in DOMAIN states, NEW after, NEW keys,
           UNCHANGED <<csv, built, bundles, lists>>,
           DOMAIN states' = DOMAIN states, DOMAIN paid' = DOMAIN paid,
           states'[id] = after, paid'[id] = keys,
           \A n \in DOMAIN states : n # id => states'[n] = states[n] /\ paid'[n] = paid[n],
           AirdropOK(id, after, lists[id], keys)
    PROVE  EligibilityInv'
<1>1. BundlesOK'
      BY BundlesKept DEF EligibilityInv
<1>2. /\ DOMAIN states = DOMAIN lists /\ DOMAIN paid = DOMAIN lists
      /\ \A n \in DOMAIN lists : n \in 1 .. built /\ AirdropOK(n, states[n], lists[n], paid[n])
      BY DEF EligibilityInv, AirdropsOK
<1>3. DOMAIN states' = DOMAIN lists' /\ DOMAIN paid' = DOMAIN lists'
      BY <1>2
<1>4. ASSUME NEW n \in DOMAIN lists
      PROVE  n \in 1 .. built /\ AirdropOK(n, states'[n], lists[n], paid'[n])
  <2>1. CASE n = id
        BY <1>2, <2>1
  <2>2. CASE n # id
    <3>1. states'[n] = states[n] /\ paid'[n] = paid[n]
          BY <1>2, <2>2
    <3> QED BY <1>2, <3>1
  <2> QED BY <2>1, <2>2
<1>5. AirdropsOK'
      BY <1>3, <1>4 DEF AirdropsOK
<1> QED BY <1>1, <1>5 DEF EligibilityInv

LEMMA FundKeepsOK ==
    ASSUME EligibilityInv, NEW id \in DOMAIN states, NEW amount \in Funds, fund(id, amount)
    PROVE  EligibilityInv'
<1>1. PICK state, list, keys : state = states[id] /\ list = lists[id] /\ keys = paid[id]
      OBVIOUS
<1>2. AirdropOK(id, state, list, keys)
      BY <1>1 DEF EligibilityInv, AirdropsOK
<1>3. amount \in Nat
      BY EligibilityAssumption
<1>4. PICK after : after = [state EXCEPT !.total_funded = @ + amount]
      OBVIOUS
<1>5. /\ DOMAIN after = StateFields /\ after.total_funded = state.total_funded + amount
      /\ after.airdrop_id = state.airdrop_id /\ after.merkle_root = state.merkle_root
      /\ after.bucket_table = state.bucket_table /\ after.status = state.status
      /\ after.total_claimed = state.total_claimed /\ after.nullifiers = state.nullifiers
  <2>1. DOMAIN state = StateFields
        BY <1>2 DEF AirdropOK
  <2> QED BY <1>4, <2>1 DEF StateFields
<1>6. after.total_funded \in Nat /\ after.total_claimed \in Nat /\ after.total_claimed <= after.total_funded
      BY <1>2, <1>3, <1>5 DEF AirdropOK
<1>7. AirdropOK(id, after, list, keys)
      BY <1>2, <1>5, <1>6 DEF AirdropOK
<1>8. states' = [states EXCEPT ![id] = after]
      BY <1>1, <1>4 DEF fund
<1>9. /\ DOMAIN states' = DOMAIN states /\ states'[id] = after
      /\ \A n \in DOMAIN states : n # id => states'[n] = states[n]
      BY <1>8
<1>10. UNCHANGED <<csv, built, bundles, lists, paid>>
       BY DEF fund
<1> QED BY <1>1, <1>7, <1>9, <1>10, OneAirdropKeepsOK

LEMMA CloseKeepsOK ==
    ASSUME EligibilityInv, NEW id \in DOMAIN states, close(id)
    PROVE  EligibilityInv'
<1>1. PICK state, list, keys : state = states[id] /\ list = lists[id] /\ keys = paid[id]
      OBVIOUS
<1>2. AirdropOK(id, state, list, keys)
      BY <1>1 DEF EligibilityInv, AirdropsOK
<1>3. PICK after : after = [state EXCEPT !.status = 1]
      OBVIOUS
<1>4. /\ DOMAIN after = StateFields /\ after.total_funded = state.total_funded
      /\ after.airdrop_id = state.airdrop_id /\ after.merkle_root = state.merkle_root
      /\ after.bucket_table = state.bucket_table /\ after.status = 1
      /\ after.total_claimed = state.total_claimed /\ after.nullifiers = state.nullifiers
  <2>1. DOMAIN state = StateFields
        BY <1>2 DEF AirdropOK
  <2> QED BY <1>3, <2>1 DEF StateFields
<1>5. AirdropOK(id, after, list, keys)
      BY <1>2, <1>4 DEF AirdropOK
<1>6. states' = [states EXCEPT ![id] = after]
      BY <1>1, <1>3 DEF close
<1>7. /\ DOMAIN states' = DOMAIN states /\ states'[id] = after
      /\ \A n \in DOMAIN states : n # id => states'[n] = states[n]
      BY <1>6
<1>8. UNCHANGED <<csv, built, bundles, lists, paid>>
      BY DEF close
<1> QED BY <1>1, <1>5, <1>7, <1>8, OneAirdropKeepsOK

LEMMA ClaimKeepsInv ==
    ASSUME EligibilityInv, NEW id \in DOMAIN states, NEW bundle \in bundles, NEW key \in Wallets,
           NEW destination \in Destinations, claim(id, bundle, key, destination)
    PROVE  EligibilityInv'
<1>1. PICK state, list, keys : state = states[id] /\ list = lists[id] /\ keys = paid[id]
      OBVIOUS
<1>2. AirdropOK(id, state, list, keys)
      BY <1>1 DEF EligibilityInv, AirdropsOK
<1> DEFINE bid == bundle.airdrop_id
<1>3. PICK other \in Seq(Line) :
        /\ Buildable(other) /\ bundle = build_bundle(other, bid)
        /\ bid = id => other = list
  <2>1. PICK other \in Seq(Line) : BundleFrom(bundle, other)
        BY DEF EligibilityInv, BundlesOK
  <2>2. id \in DOMAIN lists
        BY DEF EligibilityInv, AirdropsOK
  <2>3. Buildable(other) /\ bundle = build_bundle(other, bundle.airdrop_id)
        BY <2>1 DEF BundleFrom
  <2>4. bundle.airdrop_id = id => other = list
        BY <1>1, <2>1, <2>2 DEF BundleFrom
  <2> QED BY <2>3, <2>4
<1>4. PICK checked : checked = prepare_checked_claim(state, bundle, key, destination)
      OBVIOUS
<1>5. /\ checked.code = "OK"
      /\ states' = [states EXCEPT ![id].total_claimed = @ + checked.amount,
                                  ![id].nullifiers = @ \cup {checked.journal.nullifier}]
      /\ paid' = [paid EXCEPT ![id] = Append(@, key)]
      /\ UNCHANGED <<csv, built, bundles, lists>>
      BY <1>1, <1>4 DEF claim
<1>6. /\ checked.code = "OK" =>
           (bid = id /\ RecipientOf(list, key)) /\ ~Contains(keys, key)
             /\ state.status = 0 /\ DueOf(list, key) <= Budget(state)
      /\ checked.code = "OK" => /\ checked.amount = DueOf(list, key)
                                /\ \E i \in Rows(list) : /\ list[i].address = key
                                                         /\ checked.journal.nullifier = h_null(<<id, i>>)
      BY <1>2, <1>3, <1>4, CheckDecides
<1>7. PICK i \in Rows(list) : list[i].address = key /\ checked.journal.nullifier = h_null(<<id, i>>)
      BY <1>5, <1>6
<1>8. PICK after : after = [state EXCEPT !.total_claimed = @ + DueOf(list, key),
                                         !.nullifiers = @ \cup {h_null(<<id, i>>)}]
      OBVIOUS
<1>9. AirdropOK(id, after, list, Append(keys, key))
      BY <1>2, <1>5, <1>6, <1>7, <1>8, ClaimKeepsOK
<1>10. states' = [states EXCEPT ![id] = after]
  <2>1. DOMAIN state = StateFields
        BY <1>2 DEF AirdropOK
  <2> QED BY <1>1, <1>5, <1>6, <1>7, <1>8, <2>1 DEF StateFields
<1>11. id \in DOMAIN paid
       BY DEF EligibilityInv, AirdropsOK
<1>12. /\ DOMAIN states' = DOMAIN states /\ states'[id] = after
       /\ \A n \in DOMAIN states : n # id => states'[n] = states[n]
       BY <1>10
<1>13. /\ DOMAIN paid' = DOMAIN paid /\ paid'[id] = Append(keys, key)
       /\ \A n \in DOMAIN states : n # id => paid'[n] = paid[n]
  <2>1. DOMAIN states = DOMAIN paid
        BY DEF EligibilityInv, AirdropsOK
  <2> QED BY <1>1, <1>5, <1>11, <2>1
<1> QED BY <1>1, <1>5, <1>9, <1>12, <1>13, OneAirdropKeepsOK

LEMMA NextKeepsInv == EligibilityInv /\ [EligibilityNext]_eligibilityVars => EligibilityInv'
<1> SUFFICES ASSUME EligibilityInv, [EligibilityNext]_eligibilityVars PROVE EligibilityInv'
    OBVIOUS
<1>1. CASE \E line \in Lines : type(line)
      BY <1>1, TypeKeepsOK
<1>2. CASE \E floor \in Floors : pad_csv(floor)
      BY <1>2, PadKeepsOK
<1>3. CASE init
      BY <1>3, InitAirdropKeepsOK
<1>4. CASE \E id \in DOMAIN states :
             \/ \E amount \in Funds : fund(id, amount)
             \/ close(id)
             \/ \E bundle \in bundles, key \in Wallets, destination \in Destinations :
                  claim(id, bundle, key, destination)
      BY <1>4, FundKeepsOK, CloseKeepsOK, ClaimKeepsInv
<1>5. CASE UNCHANGED eligibilityVars
  <2>1. BundlesOK'
        BY <1>5, BundlesKept DEF EligibilityInv, eligibilityVars
  <2>2. AirdropsOK'
        BY <1>5 DEF EligibilityInv, AirdropsOK, eligibilityVars
  <2> QED BY <1>5, <2>1, <2>2 DEF EligibilityInv, eligibilityVars
<1> QED BY <1>1, <1>2, <1>3, <1>4, <1>5 DEF EligibilityNext

LEMMA InvHolds == EligibilitySpec => []EligibilityInv
BY InitOK, NextKeepsInv, PTL DEF EligibilitySpec

-----------------------------------------------------------------------------
(* The properties.                                                          *)

LEMMA InvTyped == EligibilityInv => EligibilityTypeOK
<1> SUFFICES ASSUME EligibilityInv PROVE EligibilityTypeOK
    OBVIOUS
<1>1. csv \in Seq([address: Addresses, raw_amount: Nat])
      BY DEF EligibilityInv, Line
<1>2. /\ DOMAIN states = DOMAIN lists /\ DOMAIN paid = DOMAIN lists
      /\ \A id \in DOMAIN states : AirdropOK(id, states[id], lists[id], paid[id])
      BY DEF EligibilityInv, AirdropsOK
<1>3. \A id \in DOMAIN states : states[id].airdrop_id = id /\ states[id].status \in {0, 1}
      BY <1>2 DEF AirdropOK
<1>4. \A bundle \in bundles : bundle.airdrop_id \in 1 .. built
      BY DEF EligibilityInv, BundlesOK, BundleFrom
<1> QED BY <1>1, <1>2, <1>3, <1>4 DEF EligibilityTypeOK

\* What a check decides, for the state, list and payments of an airdrop.
Exact(checked, id, bid, state, list, keys, key) ==
    LET addressed == bid = id /\ RecipientOf(list, key) IN
    /\ checked.code = "OK" <=>
         /\ addressed /\ ~Contains(keys, key)
         /\ state.status = 0 /\ DueOf(list, key) <= Budget(state)
    /\ checked.code = "OK" => checked.amount = DueOf(list, key)
    /\ checked.code = "E_ALREADY_CLAIMED" <=> addressed /\ Contains(keys, key)

LEMMA ChecksAreExact ==
    ASSUME EligibilityInv, NEW id \in DOMAIN states, NEW bundle \in bundles, NEW key,
           NEW destination
    PROVE  /\ AirdropOK(id, states[id], lists[id], paid[id])
           /\ Exact(prepare_checked_claim(states[id], bundle, key, destination), id,
                    bundle.airdrop_id, states[id], lists[id], paid[id], key)
<1>1. PICK state, list, keys : state = states[id] /\ list = lists[id] /\ keys = paid[id]
      OBVIOUS
<1>2. AirdropOK(id, state, list, keys)
      BY <1>1 DEF EligibilityInv, AirdropsOK
<1> DEFINE bid == bundle.airdrop_id
<1>3. PICK other \in Seq(Line) :
        /\ Buildable(other) /\ bundle = build_bundle(other, bid)
        /\ bid = id => other = list
  <2>1. PICK other \in Seq(Line) : BundleFrom(bundle, other)
        BY DEF EligibilityInv, BundlesOK
  <2>2. id \in DOMAIN lists
        BY DEF EligibilityInv, AirdropsOK
  <2>3. Buildable(other) /\ bundle = build_bundle(other, bundle.airdrop_id)
        BY <2>1 DEF BundleFrom
  <2>4. bundle.airdrop_id = id => other = list
        BY <1>1, <2>1, <2>2 DEF BundleFrom
  <2> QED BY <2>3, <2>4
<1>4. PICK checked : checked = prepare_checked_claim(state, bundle, key, destination)
      OBVIOUS
<1>5. LET addressed == bid = id /\ RecipientOf(list, key) IN
      /\ checked.code = "OK" <=>
           /\ addressed /\ ~Contains(keys, key)
           /\ state.status = 0 /\ DueOf(list, key) <= Budget(state)
      /\ checked.code = "OK" => /\ checked.amount = DueOf(list, key)
                                /\ \E i \in Rows(list) : /\ list[i].address = key
                                                         /\ checked.journal.nullifier = h_null(<<id, i>>)
      /\ checked.code = "E_ALREADY_CLAIMED" <=> addressed /\ Contains(keys, key)
      BY <1>2, <1>3, <1>4, CheckDecides
<1>6. Exact(checked, id, bid, state, list, keys, key)
      BY <1>5 DEF Exact
<1> QED BY <1>1, <1>2, <1>4, <1>6

LEMMA InvExact == EligibilityInv => CheckIsExact
<1> SUFFICES ASSUME EligibilityInv, NEW id \in DOMAIN states, NEW bundle \in bundles,
                    NEW key \in Wallets, NEW destination \in Destinations
             PROVE  LET checked == prepare_checked_claim(states[id], bundle, key, destination)
                        addressed == bundle.airdrop_id = id /\ Recipient(id, key)
                    IN /\ checked.code = "OK" <=>
                            /\ addressed /\ ~Claimed(id, key)
                            /\ states[id].status = 0 /\ Due(id, key) <= Budget(states[id])
                       /\ checked.code = "OK" => checked.amount = Due(id, key)
                       /\ checked.code = "E_ALREADY_CLAIMED" <=> addressed /\ Claimed(id, key)
    BY DEF CheckIsExact
<1>1. PICK checked : checked = prepare_checked_claim(states[id], bundle, key, destination)
      OBVIOUS
<1>2. Exact(checked, id, bundle.airdrop_id, states[id], lists[id], paid[id], key)
      BY <1>1, ChecksAreExact
<1>3. /\ Recipient(id, key) <=> RecipientOf(lists[id], key)
      /\ Due(id, key) = DueOf(lists[id], key)
      /\ Claimed(id, key) <=> Contains(paid[id], key)
      BY DEF Recipient, Reach, RecipientOf, ReachOf, Due, DueOf, Claimed
<1> QED BY <1>1, <1>2, <1>3 DEF Exact

LEMMA InvPaid == EligibilityInv => PaidByTheList
<1> SUFFICES ASSUME EligibilityInv, NEW id \in DOMAIN states
             PROVE  /\ IsInjective(paid[id])
                    /\ states[id].total_claimed =
                         SumFunction([n \in DOMAIN paid[id] |-> Due(id, paid[id][n])])
                    /\ states[id].total_claimed <= states[id].total_funded
    BY DEF PaidByTheList
<1>1. AirdropOK(id, states[id], lists[id], paid[id])
      BY DEF EligibilityInv, AirdropsOK
<1>2. /\ IsInjective(paid[id]) /\ states[id].total_claimed <= states[id].total_funded
      /\ states[id].total_claimed =
           SumFunction([n \in DOMAIN paid[id] |-> DueOf(lists[id], paid[id][n])])
      BY <1>1 DEF AirdropOK
<1>3. \A key : Due(id, key) = DueOf(lists[id], key)
      BY DEF Due, DueOf
<1> QED BY <1>2, <1>3

LEMMA InvFunded == EligibilityInv => FullyFundedPaysAll
<1> SUFFICES ASSUME EligibilityInv, NEW id \in DOMAIN states, NEW bundle \in bundles,
                    NEW key \in Wallets, NEW destination \in Destinations,
                    bundle.airdrop_id = id, Recipient(id, key), ~Claimed(id, key),
                    states[id].status = 0,
                    states[id].total_funded >=
                      SumFunction([i \in Rows(lists[id]) |-> lists[id][i].raw_amount])
             PROVE  prepare_checked_claim(states[id], bundle, key, destination).code = "OK"
    BY DEF FullyFundedPaysAll
<1>1. PICK state, list, keys : state = states[id] /\ list = lists[id] /\ keys = paid[id]
      OBVIOUS
<1>2. /\ AirdropOK(id, state, list, keys)
      /\ Exact(prepare_checked_claim(state, bundle, key, destination), id, bundle.airdrop_id,
               state, list, keys, key)
      BY <1>1, ChecksAreExact
<1>3. RecipientOf(list, key) /\ ~Contains(keys, key)
      BY <1>1 DEF Recipient, Reach, RecipientOf, ReachOf, Claimed
<1>4. state.total_funded >= SumFunction(AmountOf(list))
      BY <1>1 DEF AmountOf
<1>5. DueOf(list, key) <= Budget(state)
      BY <1>2, <1>3, <1>4, FullFundingCovers
<1> QED BY <1>1, <1>2, <1>3, <1>5 DEF Exact

LEMMA InvPads == EligibilityInv => PaddingReachesFloor
<1> SUFFICES ASSUME EligibilityInv, NEW floor \in Floors, EnoughDecoys(csv, floor)
             PROVE  LET list == padded(csv, floor) IN
                    /\ IsPrefix(csv, list)
                    /\ \A amount \in AmountsIn(list) : population(list, amount) >= floor
                    /\ parse_csv(csv) /\ Len(list) <= MaxPopulation => parse_csv(list)
    BY DEF PaddingReachesFloor
<1>1. PICK list \in Seq(Line) : list = csv
      BY DEF EligibilityInv
<1>2. PICK long : long = padded(list, floor)
      OBVIOUS
<1>3. floor \in Nat /\ EnoughDecoys(list, floor)
      BY <1>1, EligibilityAssumption
<1>4. \A amount \in AmountsIn(long) : population(long, amount) >= floor
      BY <1>2, <1>3, PaddingFillsBuckets
<1>5. IsPrefix(list, long) /\ (parse_csv(list) /\ Len(long) <= MaxPopulation => parse_csv(long))
      BY <1>2, <1>3, PaddingKeepsList
<1> QED BY <1>1, <1>2, <1>4, <1>5

\* Witnesses that prove something lead to the root, so they are a row of the tree.
LEMMA InvUnmixed == EligibilityInv => NoMixtureProves
<1> SUFFICES ASSUME EligibilityInv, NEW bundle \in bundles, NEW mixed \in Mixtures,
                    NEW destination \in Destinations,
                    verify_claim_constraints(ClaimJournal(bundle, mixed, destination),
                                             ClaimWitness(mixed.address, bundle, mixed, destination))
             PROVE  \E i \in Rows(bundle.encrypted_rows) :
                      LET plain == bundle.encrypted_rows[i].plain IN
                      plain.address = mixed.address /\ plain.bucket_id = mixed.bucket_id
                        /\ plain.salt = mixed.salt
    BY DEF NoMixtureProves
<1>1. PICK list \in Seq(Line) : BundleFrom(bundle, list)
      BY DEF EligibilityInv, BundlesOK
<1>2. BundleOf(bundle, list, bundle.airdrop_id)
  <2>1. Buildable(list) /\ bundle = build_bundle(list, bundle.airdrop_id)
        BY <1>1 DEF BundleFrom
  <2>2. PICK bid : bid = bundle.airdrop_id
        OBVIOUS
  <2>3. BundleOf(build_bundle(list, bid), list, bid)
        BY <2>1, BundleIs
  <2> QED BY <2>1, <2>2, <2>3
<1>3. PICK journal, witness :
        /\ journal = ClaimJournal(bundle, mixed, destination)
        /\ witness = ClaimWitness(mixed.address, bundle, mixed, destination)
      OBVIOUS
<1>4. /\ journal.bucket_id = mixed.bucket_id /\ journal.merkle_root = bundle.merkle_root
      /\ witness.address = mixed.address /\ witness.salt = mixed.salt
      BY <1>3 DEF ClaimJournal, ClaimWitness
<1>5. /\ Len(witness.merkle_path) = TREE_DEPTH
      /\ Fold(h_leaf(mixed.address, mixed.bucket_id, mixed.salt), witness.merkle_path)
           = bundle.merkle_root
      BY <1>3, <1>4 DEF verify_claim_constraints
<1>6. PICK i \in Rows(list) :
        mixed.address = list[i].address /\ mixed.bucket_id = bucket_id(list, i)
          /\ mixed.salt = <<bundle.airdrop_id, i>>
      BY <1>2, <1>5 DEF BundleOf
<1>7. /\ i \in Rows(bundle.encrypted_rows)
      /\ bundle.encrypted_rows[i].plain.address = list[i].address
      /\ bundle.encrypted_rows[i].plain.bucket_id = bucket_id(list, i)
      /\ bundle.encrypted_rows[i].plain.salt = <<bundle.airdrop_id, i>>
      BY <1>2 DEF BundleOf
<1> QED BY <1>6, <1>7

\* The local states, the bundles and the histories have their types, and speak of
\* the same airdrops.
THEOREM EligibilityTyped == EligibilitySpec => []EligibilityTypeOK
BY InvHolds, InvTyped, PTL

\* For every list, every mixture of bundles and every order of claims: prove and
\* check-eligibility accept exactly the recipients of the list not yet paid, for
\* the amount in their line, and call claimed exactly those paid.
THEOREM EligibilityIsTheList == EligibilitySpec => []CheckIsExact
BY InvHolds, InvExact, PTL

\* Whatever leads to the root of a tree, in as many steps as the tree has levels,
\* is one of its rows, so parts of different rows never make a claim together.
THEOREM OnlyRowsProve == EligibilitySpec => []NoMixtureProves
BY InvHolds, InvUnmixed, PTL

\* What the local state counts as claimed is the sum of the lines of the keys
\* paid, each once, and never exceeds what was funded.
THEOREM ClaimsFollowTheList == EligibilitySpec => []PaidByTheList
BY InvHolds, InvPaid, PTL

\* With the sum of the list funded, no recipient is ever refused for want of
\* money, whoever claimed before.
THEOREM FundedListsPay == EligibilitySpec => []FullyFundedPaysAll
BY InvHolds, InvFunded, PTL

\* pad-csv keeps the list as a prefix, fills every bucket to the floor, and what
\* it writes is a list parse_csv accepts as long as it is within the cap.
THEOREM PaddingFills == EligibilitySpec => []PaddingReachesFloor
BY InvHolds, InvPads, PTL
=============================================================================

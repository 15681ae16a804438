------------------------------ MODULE TreeBins ------------------------------
(***************************************************************************)
(* The tree bins of dlmalloc (malloc.c): the large free chunks, in a       *)
(* bitwise trie for each range of sizes.  Sizes are counted in granules of *)
(* MALLOC_ALIGNMENT; the bits below a granule, which no size has, are left *)
(* out.                                                                    *)
(*                                                                         *)
(* The tries are one function from nodes to rings.  A node is the index of *)
(* its bin followed by the child[] indices on the way to it; a ring is the *)
(* chunks of one size, oldest first, of which only the first has a parent. *)
(***************************************************************************)
EXTENDS Integers, Sequences, FiniteSets, FiniteSetsExt, SequencesExt

CONSTANTS TreebinShift,  \* TREEBIN_SHIFT: the smallest large size is 2^TreebinShift
          NTreeBins,     \* NTREEBINS
          SizeBits,      \* SIZE_T_BITSIZE: sizes are computed modulo 2^SizeBits
          IntBits        \* the bits of an unsigned int

ASSUME TreeBinsAssumption ==
    /\ TreebinShift \in Nat /\ TreebinShift >= 2
    /\ NTreeBins \in Nat /\ NTreeBins % 2 = 0 /\ NTreeBins > 0
    /\ IntBits \in Nat /\ IntBits > NTreeBins \div 2
    /\ SizeBits \in Nat /\ SizeBits >= TreebinShift + IntBits

Pow2[n \in 0..SizeBits] == IF n = 0 THEN 1 ELSE 2 * Pow2[n - 1]

(* S >> n *)
Shift(S, n) == S \div Pow2[n]

MinLargeSize == Pow2[TreebinShift]

is_small(S) == S < MinLargeSize

Unsigned(n) == n % Pow2[SizeBits]

(* Two bins for each power of two, by the bit below the highest, and all   *)
(* that is too large in the last.  X is an unsigned int.                   *)
HighestBit(X) == CHOOSE k \in 0..(IntBits - 1) : Pow2[k] <= X /\ X < Pow2[k + 1]

BinWithin(S, K) == (2 * K) + (Shift(S, K + TreebinShift - 1) % 2)

BinOf(S, X) ==
    CASE X = 0 -> 0
      [] X > Pow2[NTreeBins \div 2] - 1 -> NTreeBins - 1
      [] OTHER -> BinWithin(S, HighestBit(X))

compute_tree_index(S) == BinOf(S, Shift(S, TreebinShift) % Pow2[IntBits])

bit_for_tree_index(i) ==
    IF i = NTreeBins - 1 THEN SizeBits - 1 ELSE i \div 2 + TreebinShift - 2

(* The node n turns below the root of its bin where size S is looked for.  *)
PathNode(S, n) ==
    LET i == compute_tree_index(S)
    IN  <<i>> \o [k \in 1..n |-> Shift(S, bit_for_tree_index(i) - k + 1) % 2]

Turns(S) == 0..(bit_for_tree_index(compute_tree_index(S)) + 1)

EmptyBins == [node \in {} |-> << >>]

LargeChunks(tree) == UNION {ToSet(tree[node]) : node \in DOMAIN tree}

NodeOf(tree, x) == CHOOSE node \in DOMAIN tree : x \in ToSet(tree[node])

(* size is the function from chunks to their sizes.                        *)
NodeSize(tree, size, node) == size[tree[node][1]]

-----------------------------------------------------------------------------
(* insert_large_chunk goes down to the node of the same size, or to the    *)
(* first free place.                                                       *)
PlaceFor(tree, size, S) ==
    PathNode(S, Min({n \in Turns(S) :
        \/ PathNode(S, n) \notin DOMAIN tree
        \/ NodeSize(tree, size, PathNode(S, n)) = S}))

Ring(tree, node) == IF node \in DOMAIN tree THEN tree[node] ELSE << >>

(* Broken insert_large_chunk: a chunk whose size has a node becomes the    *)
(* one that is in the tree, and the next to be used.                       *)
insert_large_chunk_first(tree, size, x) ==
    LET place == PlaceFor(tree, size, size[x])
    IN  [node \in DOMAIN tree \cup {place} |->
            IF node = place THEN <<x>> \o Ring(tree, node) ELSE tree[node]]

insert_large_chunk(tree, size, x) ==
    LET place == PlaceFor(tree, size, size[x])
    IN  [node \in DOMAIN tree \cup {place} |->
            IF node = place THEN Append(Ring(tree, node), x) ELSE tree[node]]

Below(tree, node) == {d \in DOMAIN tree : IsStrictPrefix(node, d)}

Sibling(node) == [node EXCEPT ![Len(node)] = 1 - @]

(* d is reached from node by child[first] where there is one, else by the  *)
(* other child.                                                            *)
Reached(tree, node, first, d) ==
    \A n \in (Len(node) + 1)..Len(d) :
        LET step == SubSeq(d, 1, n) IN step[n] = first \/ Sibling(step) \notin DOMAIN tree

(* Broken RightmostLeaf: the loop stops at the first right child.          *)
RightChild(tree, node) ==
    CHOOSE d \in Below(tree, node) : Len(d) = Len(node) + 1 /\ Reached(tree, node, 1, d)

RightmostLeaf(tree, node) ==
    CHOOSE d \in Below(tree, node) : Below(tree, d) = {} /\ Reached(tree, node, 1, d)

(* unlink_large_chunk: the next oldest of the ring takes the place of a    *)
(* chunk, or the rightmost leaf below it, or nothing.                      *)
unlink_large_chunk(tree, x) ==
    LET node == NodeOf(tree, x)
        leaf == RightmostLeaf(tree, node)
        others == RemoveAt(tree[node], CHOOSE i \in DOMAIN tree[node] : tree[node][i] = x)
        gone == CASE others # << >> -> {}
                  [] others = << >> /\ Below(tree, node) = {} -> {node}
                  [] OTHER -> {leaf}
    IN  [d \in DOMAIN tree \ gone |->
            IF d # node THEN tree[d] ELSE IF others # << >> THEN others ELSE tree[leaf]]

-----------------------------------------------------------------------------
(* The nodes from node to a leaf by leftmost_child.                        *)
LeftmostChain(tree, node) ==
    {d \in Below(tree, node) \cup {node} : Reached(tree, node, 0, d)}

(* The root of the first nonempty bin whose index is at least i.           *)
FirstRoot(tree, i) == <<Min({node[1] : node \in {d \in DOMAIN tree : Len(d) = 1 /\ d[1] >= i}})>>
NoRoot(tree, i) == \A node \in DOMAIN tree : node[1] < i

(* The nodes on the way to size nb, up to one that has this size.          *)
OnPath(tree, size, nb) ==
    {node \in {PathNode(nb, n) : n \in Turns(nb)} :
        /\ node \in DOMAIN tree
        /\ \A n \in 1..(Len(node) - 1) : NodeSize(tree, size, SubSeq(node, 1, n)) # nb}

(* The deepest right subtree that the way to nb did not take (rst).        *)
UntakenRight(tree, size, nb) ==
    {Sibling(node) : node \in {d \in {PathNode(nb, n) : n \in Turns(nb) \ {0}} :
        /\ d[Len(d)] = 0 /\ Sibling(d) \in DOMAIN tree
        /\ Front(d) \in OnPath(tree, size, nb)}}

Deepest(nodes) == CHOOSE node \in nodes : \A d \in nodes : Len(d) <= Len(node)

(* Broken Visited: the subtree to the right of the way is not searched.    *)
VisitedPath(tree, size, nb) ==
    IF OnPath(tree, size, nb) # {} THEN OnPath(tree, size, nb)
    ELSE IF NoRoot(tree, compute_tree_index(nb) + 1) THEN {}
    ELSE LeftmostChain(tree, FirstRoot(tree, compute_tree_index(nb) + 1))

(* A remainder is unsigned: a chunk that is too small has one that is      *)
(* larger than the -nb the search begins with.                             *)
Remainder(S, nb) == Unsigned(S - nb)
Fits(tree, size, nb, nodes) ==
    {node \in nodes : Remainder(NodeSize(tree, size, node), nb) < Unsigned(-nb)}

Smallest(tree, size, nodes) ==
    CHOOSE node \in nodes : \A d \in nodes : NodeSize(tree, size, node) <= NodeSize(tree, size, d)

(* The nodes that tmalloc_large looks at.                                  *)
Visited(tree, size, nb) ==
    LET path == OnPath(tree, size, nb)
        exact == {node \in path : NodeSize(tree, size, node) = nb}
        right == UntakenRight(tree, size, nb)
        next == compute_tree_index(nb) + 1
    IN  CASE exact # {} -> path
          [] exact = {} /\ right # {} -> path \cup LeftmostChain(tree, Deepest(right))
          [] exact = {} /\ right = {} /\ Fits(tree, size, nb, path) # {} -> path
          [] OTHER -> IF NoRoot(tree, next) THEN {} ELSE LeftmostChain(tree, FirstRoot(tree, next))

(* What tmalloc_large finds for nb, if the designated victim is not        *)
(* better: the chunk, as a set that may be empty.                          *)
tmalloc_large(tree, size, nb, dvsize) ==
    LET fits == Fits(tree, size, nb, Visited(tree, size, nb))
        best == Smallest(tree, size, fits)
    IN  IF fits # {} /\ NodeSize(tree, size, best) - nb < Unsigned(dvsize - nb)
        THEN {tree[best][1]} ELSE {}

(* What tmalloc_small takes from nonempty bins.                            *)
tmalloc_small(tree, size) ==
    tree[Smallest(tree, size, LeftmostChain(tree, FirstRoot(tree, 0)))][1]
=============================================================================

----------------------------- MODULE TreeBinUse -----------------------------
(* The tree bins of TreeBins with chunks of all sizes, put in and taken    *)
(* out in every order.                                                     *)
EXTENDS TreeBins

CONSTANTS Chunk,   \* the chunks
          size,    \* their sizes
          Request  \* the sizes searched for

(* compute_tree_index is right for sizes below 2^(TreebinShift + IntBits), *)
(* which is one terabyte.                                                  *)
LargeSize == MinLargeSize..(Pow2[TreebinShift + IntBits] - 1)

ASSUME TreeUseAssumption == size \in [Chunk -> LargeSize] /\ Request \subseteq LargeSize

VARIABLES tree,
          binned,  \* history: the chunks put in and not taken out
          older    \* history: of two chunks of one size, which was put in first

treeVars == <<tree, binned, older>>

TreeInit == tree = EmptyBins /\ binned = {} /\ older = {}

Insert(x) ==
    /\ x \notin binned
    /\ tree' = insert_large_chunk(tree, size, x)
    /\ binned' = binned \cup {x}
    /\ older' = older \cup {<<y, x>> : y \in {z \in binned : size[z] = size[x]}}

Unlink(x) ==
    /\ x \in binned
    /\ tree' = unlink_large_chunk(tree, x)
    /\ binned' = binned \ {x}
    /\ older' = {pair \in older : x \notin {pair[1], pair[2]}}

TreeNext == \E x \in Chunk : Insert(x) \/ Unlink(x)

TreeSpec == TreeInit /\ [][TreeNext]_treeVars

(* do_check_tree: every chunk is in one ring, in the bin of its size, on   *)
(* the way of its size; rings are of one size and no two of the same.      *)
TreesSound ==
    /\ LargeChunks(tree) = binned
    /\ \A node \in DOMAIN tree :
          /\ tree[node] # << >>
          /\ Len(node) > 1 => Front(node) \in DOMAIN tree
          /\ \A x \in ToSet(tree[node]) :
                /\ size[x] = NodeSize(tree, size, node)
                /\ node = PathNode(size[x], Len(node) - 1)
    /\ \A n1, n2 \in DOMAIN tree :
          n1 # n2 => NodeSize(tree, size, n1) # NodeSize(tree, size, n2)

IsOldestBest(x, nb) ==
    /\ x \in binned /\ size[x] >= nb
    /\ \A y \in binned \ {x} :
          size[y] < nb \/ size[x] < size[y] \/ (size[x] = size[y] /\ <<x, y>> \in older)

(* tmalloc_large and tmalloc_small find the best fitting chunk of all      *)
(* bins, of equal ones the oldest, by looking at one path.                 *)
BestFitFound ==
    /\ \A nb \in Request :
          LET found == tmalloc_large(tree, size, nb, 0)
          IN  IF \E x \in binned : size[x] >= nb
              THEN \E x \in found : IsOldestBest(x, nb)
              ELSE found = {}
    /\ binned # {} => IsOldestBest(tmalloc_small(tree, size), MinLargeSize)
=============================================================================

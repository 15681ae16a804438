----------------------------- MODULE MCLibraries -----------------------------
(* A small heap in several surroundings, and eight chunks for the tree bins. *)
EXTENDS Libraries

Surroundings ==
    { [brk |-> 4, room |-> {5, 6, 7}, limit |-> 0, fails |-> TRUE, blocks |-> 2],   \* mmap only
      [brk |-> 1, room |-> {}, limit |-> 0, fails |-> FALSE, blocks |-> 2],         \* sbrk only
      [brk |-> 2, room |-> {}, limit |-> 0, fails |-> FALSE, blocks |-> 3],
      [brk |-> 2, room |-> {6, 7, 8}, limit |-> 2, fails |-> FALSE, blocks |-> 2],  \* both, with a limit
      [brk |-> 3, room |-> {5, 6}, limit |-> 0, fails |-> FALSE, blocks |-> 2] }

(* Sizes of all bins; three chunks have the same. *)
ChunkSizes == <<12, 13, 14, 18, 20, 4, 20, 20>>
=============================================================================

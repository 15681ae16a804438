---------------------------- MODULE MCBatchSum ----------------------------
(* Small instances of BatchSum. *)
EXTENDS BatchSum

CONSTANTS t1, t2, t3

(* enqueue_task(i % 3, ...), with two chunks of the same priority. *)
TwoPriorities == [t \in Task |-> IF t = t3 THEN 1 ELSE 0]
=============================================================================

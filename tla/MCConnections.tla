--------------------------- MODULE MCConnections ---------------------------
(* Small instances of Connections. *)
EXTENDS Connections

CONSTANTS c1, c2, c3

(* The first client's request comes in two parts, the others' in one. *)
FirstSplit == [c \in Conn |-> IF c = c1 THEN 2 ELSE 1]
=============================================================================

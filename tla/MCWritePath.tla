---------------------------- MODULE MCWritePath ----------------------------
(* A small instance of WritePath. *)
EXTENDS WritePath, TLC

CONSTANTS r1, r2, r3, a1, a2, b1, c1, bad

(* A batch of two keys, one key again, and a batch whose second item has a *)
(* number for a key and no value: which is met first is the compiler's.    *)
SmallBatches == r1 :> <<a1, b1>> @@ r2 :> <<a2>> @@ r3 :> <<c1, bad>>

KeyOf == a1 :> "a" @@ a2 :> "a" @@ b1 :> "b" @@ c1 :> "b" @@ bad :> "c"
=============================================================================

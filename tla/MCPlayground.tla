---------------------------- MODULE MCPlayground ----------------------------
(* Small instances of the programs: three tasks; the clients of            *)
(* src/network/byte_order and three that send damaged messages.            *)
EXTENDS Playground, TLC

CONSTANTS t1, t2, t3, c1, c2, gapless, aligned, short, damaged, foreign

(* enqueue_task(i % 3, ...), with two chunks of the same priority. *)
TwoPriorities == [t \in Task |-> IF t = t3 THEN 1 ELSE 0]

Test == [seqNum |-> <<17, 34, 51, 68>>,
         timestamp |-> <<85, 102, 119, 136, 153, 170, 187, 204>>,
         data |-> <<84, 69, 83, 84>>]

Sent(magic, bodyLen, checksum) ==
    [header |-> [magic |-> magic, version |-> <<1, 1>>, command |-> <<0, 1>>,
                 bodyLen |-> bodyLen, checksum |-> checksum],
     body |-> Test]

(* The checksum of Test is 1646, that of its first eight bytes 612. *)
Messages ==
       gapless :> Sent(<<65, 66>>, <<0, 0, 0, 16>>, <<0, 0, 6, 110>>)
    @@ aligned :> Sent(<<65, 66>>, <<0, 0, 0, 24>>, <<0, 0, 6, 110>>)
    @@ short   :> Sent(<<65, 66>>, <<0, 0, 0, 8>>, <<0, 0, 2, 100>>)
    @@ damaged :> Sent(<<65, 66>>, <<0, 0, 0, 16>>, <<0, 1, 6, 110>>)
    @@ foreign :> Sent(<<66, 65>>, <<0, 0, 0, 16>>, <<0, 0, 6, 110>>)

Layouts == [m \in Message |-> IF m = aligned THEN Padded ELSE Contiguous]
=============================================================================

------------------------------ MODULE KeyMove ------------------------------
(***************************************************************************)
(* The key-value store tests that move a value from key1 to key2:          *)
(* test_leveldb_rw and test_leveldb_write_batch of leveldb/test_leveldb.cpp*)
(* and test of storage/rocksdb/test_rocksdb_ops.cpp.  The database outlives*)
(* the program, which may be killed at any point and run again; its writes *)
(* are not synced (WriteOptions()), so a crash of the machine may also     *)
(* take the newest of them.                                                *)
(*                                                                         *)
(* The store is its write-ahead log, a sequence of records.  A record is   *)
(* written, kept and lost as a whole and maps the keys it touches to a     *)
(* value or to Deleted.  The constant the programs store is the number of  *)
(* the run, so that runs can be told apart.                                *)
(***************************************************************************)
EXTENDS Naturals, Sequences, FiniteSetsExt

CONSTANTS Programs, \* the programs to be checked: "rw", "batch", "rocksdb"
          Deleted,  \* what a deletion leaves under a key
          MaxRuns   \* bound on the number of runs

Keys == {"key1", "key2"}

VARIABLES program, \* the test that is run
          at,      \* the call of the store it makes next; "down": not running
          runs,    \* how many runs have been started
          value,   \* the string value, as read by Get
          log,     \* the records written
          durable  \* how many of them have reached the disk

vars == <<program, at, runs, value, log, durable>>

(* What Get finds: the newest record of the key. *)
Stored(key) ==
    LET here == {i \in DOMAIN log : key \in DOMAIN log[i]}
    IN  IF here = {} THEN Deleted ELSE log[Max(here)][key]

Init ==
    /\ program \in Programs
    /\ at = "down" /\ runs = 0 /\ value = Deleted
    /\ log = << >> /\ durable = 0

(* DB::Open *)
Start ==
    /\ at = "down" /\ runs < MaxRuns
    /\ runs' = runs + 1 /\ at' = "put1" /\ value' = Deleted
    /\ UNCHANGED <<program, log, durable>>

Write(record, next) ==
    /\ log' = Append(log, record)
    /\ at' = next
    /\ UNCHANGED <<program, runs, value, durable>>

PutFirst == at = "put1" /\ Write([key1 |-> runs], "get1")

(* A write returns an error.  The assertions of the leveldb tests end the  *)
(* program; the other test goes on after its first put and gives up the    *)
(* move after the second.                                                  *)
WriteFails ==
    /\ at \in {"put1", "move", "delete"}
    /\ at' = IF program = "rocksdb" /\ at = "put1" THEN "get1" ELSE "down"
    /\ UNCHANGED <<program, runs, value, log, durable>>

GetFirst ==
    /\ at = "get1"
    /\ value' = Stored("key1")
    /\ at' = IF value' = Deleted THEN "down" ELSE "move"
    /\ UNCHANGED <<program, runs, log, durable>>

(* Broken MoveAsBatch: the deletion is left out of the batch. *)
MoveAsBatchKeeps ==
    /\ program = "batch" /\ at = "move"
    /\ Write([key2 |-> value], "down")

MoveAsBatch ==
    /\ program = "batch" /\ at = "move"
    /\ Write([key1 |-> Deleted, key2 |-> value], "down")

(* Broken MoveCopy: the value is deleted before it is copied. *)
MoveDeletesFirst ==
    \/ program # "batch" /\ at = "move" /\ Write([key1 |-> Deleted], "copy")
    \/ program # "batch" /\ at = "copy" /\ Write([key2 |-> value], "down")

(* The two-write move copies first and deletes then. *)
MoveCopy ==
    /\ program # "batch" /\ at = "move"
    /\ Write([key2 |-> value], "delete")

MoveDelete == at = "delete" /\ Write([key1 |-> Deleted], "down")

(* The process is killed: what it wrote is in the page cache. *)
Kill ==
    /\ at # "down" /\ at' = "down"
    /\ UNCHANGED <<program, runs, value, log, durable>>

(* The kernel writes the page cache back, in the order of the log. *)
Writeback ==
    /\ \E n \in durable + 1 .. Len(log) : durable' = n
    /\ UNCHANGED <<program, at, runs, value, log>>

(* The machine crashes: the store recovers a prefix of the log that has at *)
(* least what was on the disk.                                             *)
PowerLoss ==
    /\ \E n \in durable .. Len(log) : log' = SubSeq(log, 1, n) /\ durable' = n
    /\ at' = "down"
    /\ UNCHANGED <<program, runs, value>>

Over == at = "down" /\ runs = MaxRuns /\ UNCHANGED vars

Next ==
    \/ Start \/ PutFirst \/ WriteFails \/ GetFirst
    \/ MoveAsBatch \/ MoveCopy \/ MoveDelete
    \/ Kill \/ Writeback \/ PowerLoss \/ Over

Spec == Init /\ [][Next]_vars

-----------------------------------------------------------------------------
(* The move in one batch is atomic, as the test's comment promises: at no  *)
(* time, and after no crash, is one value under both keys.                 *)
MoveIsAtomic ==
    program = "batch" => (Stored("key1") = Deleted \/ Stored("key1") # Stored("key2"))

(* In no test is a value lost on the way, whether the move is one write or *)
(* two and wherever it is cut: as long as the newest value put under key1  *)
(* is in the log, it is under one of the keys.                             *)
MoveKeepsValue ==
    LET puts == {i \in DOMAIN log : "key1" \in DOMAIN log[i] /\ log[i]["key1"] # Deleted}
    IN  puts # {} => log[Max(puts)]["key1"] \in {Stored("key1"), Stored("key2")}
=============================================================================

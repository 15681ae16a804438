----------------------------- MODULE TaskQueue -----------------------------
(***************************************************************************)
(* What a worker pool promises to the code that gives it tasks: a task is  *)
(* accepted once, the accepted tasks start in the order they were          *)
(* accepted, at most MaxActive of them run at a time, and each of them     *)
(* runs once.  There are no threads, locks or notifications here; the      *)
(* module ThreadPool has them and is shown to implement this one.          *)
(***************************************************************************)
EXTENDS Naturals, Sequences, FiniteSets

CONSTANTS Task,       \* the closures that may be submitted
          MaxActive   \* how many tasks may run at the same time

VARIABLES pending,    \* accepted tasks that have not started, oldest first
          active,     \* the tasks being run
          finished    \* the tasks that have run

vars == <<pending, active, finished>>

Waiting == {pending[i] : i \in DOMAIN pending}

Init ==
    /\ pending = << >>
    /\ active = {}
    /\ finished = {}

Submit(t) ==
    /\ t \notin Waiting \cup active \cup finished
    /\ pending' = Append(pending, t)
    /\ UNCHANGED <<active, finished>>

Start ==
    /\ pending # << >>
    /\ Cardinality(active) < MaxActive
    /\ pending' = Tail(pending)
    /\ active' = active \cup {Head(pending)}
    /\ UNCHANGED finished

Finish(t) ==
    /\ t \in active
    /\ active' = active \ {t}
    /\ finished' = finished \cup {t}
    /\ UNCHANGED pending

Next ==
    \/ \E t \in Task : Submit(t) \/ Finish(t)
    \/ Start

Spec == Init /\ [][Next]_vars

(* Tasks keep starting and a started task ends. *)
FairSpec ==
    /\ Spec
    /\ WF_vars(Start)
    /\ \A t \in Task : WF_vars(Finish(t))
=============================================================================

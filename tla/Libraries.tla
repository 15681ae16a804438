----------------------------- MODULE Libraries -----------------------------
(* Code that only answers its caller, one of three at a time: dlmalloc's   *)
(* heap; its tree bins alone, because with the few sizes of a small heap   *)
(* the tries stay shallow; and the three back ends of IOMultiplexing.      *)
EXTENDS Heap, TreeBinUse

CONSTANTS Fd, MaxEntries        \* of IoMultiplexing
VARIABLES part                  \* "heap", "trees" or "events"
VARIABLES open, cond, readfds_, writefds_, errorfds_, maxfd_,
          pollfds_, epoll, plain, tidy  \* of IoMultiplexing

eventVars == <<open, cond, readfds_, writefds_, errorfds_, maxfd_,
               pollfds_, epoll, plain, tidy>>

Events == INSTANCE IoMultiplexing

Init ==
    /\ HeapInit /\ TreeInit /\ Events!Init
    /\ part \in {"heap", "trees", "events"}
    /\ part = "heap" \/ m.env = CHOOSE e \in Environments : TRUE

Next ==
    \/ part = "heap" /\ HeapNext /\ UNCHANGED <<part, treeVars, eventVars>>
    \/ part = "trees" /\ TreeNext /\ UNCHANGED <<part, heapVars, eventVars>>
    \/ part = "events" /\ Events!Next /\ UNCHANGED <<part, heapVars, treeVars>>

Spec == Init /\ [][Next]_<<part, heapVars, treeVars, eventVars>>

-----------------------------------------------------------------------------
(* The tree bins by themselves: every trie has the shape that              *)
(* do_check_tree asks for (TreesSound of TreeBinUse), and the search along *)
(* one path of a trie finds the best fitting chunk of all bins, of equal   *)
(* ones the oldest (BestFitFound), which do_check_tree does not look at.   *)
TreeBinsSound == part = "trees" => TreesSound /\ BestFitFound

(* Used for READ, every socket removed before it is closed, the three back *)
(* ends report the same events; for the other types PollIO and EpollIO do. *)
BackendsAgree == part = "events" => Events!SameReads /\ Events!PollLikeEpoll
=============================================================================

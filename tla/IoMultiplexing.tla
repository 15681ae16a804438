--------------------------- MODULE IoMultiplexing ---------------------------
(***************************************************************************)
(* The three implementations of io::IOMultiplexing (io_multiplexing.cpp):  *)
(* SelectIO, PollIO and EpollIO, given the same calls on the same sockets. *)
(* The server uses EpollIO with READ only; the question is what the choice *)
(* of another one would change.                                            *)
(*                                                                         *)
(* The calls are those of one thread (SelectIO and PollIO have no lock), a *)
(* socket is registered once, and it is a TCP socket: one that has an      *)
(* error or was hung up is also readable.  The server never calls          *)
(* removeEvent: it closes the descriptor, which takes it out of the        *)
(* interest list of the kernel and leaves it in fd_sets and in pollfds_.   *)
(***************************************************************************)
EXTENDS Integers, Sequences, FiniteSets, FiniteSetsExt, SequencesExt

CONSTANTS Fd,         \* the descriptors
          MaxEntries  \* bound: pollfds_ has at most so many entries

EventType == {"READ", "WRITE", "ERROR"}

VARIABLES open,        \* the open sockets
          cond,        \* what the kernel has to say of each: in, out, err, hup
          readfds_, writefds_, errorfds_, maxfd_,  \* SelectIO
          pollfds_,    \* PollIO
          epoll,       \* the interest list behind epollfd_, as <<fd, type>>
          plain,       \* history: all calls were for READ, and none was modifyEvent
          tidy         \* history: every socket was removed before it was closed

selectVars == <<readfds_, writefds_, errorfds_, maxfd_>>
vars == <<open, cond, selectVars, pollfds_, epoll, plain, tidy>>

Init ==
    /\ open = {} /\ cond = [fd \in Fd |-> {}]
    /\ readfds_ = {} /\ writefds_ = {} /\ errorfds_ = {} /\ maxfd_ = -1
    /\ pollfds_ = << >> /\ epoll = {}
    /\ plain = TRUE /\ tidy = TRUE

Registered(fd) == \E type \in EventType : <<fd, type>> \in epoll

-----------------------------------------------------------------------------
(* The sockets. *)

Conditions == {{}, {"in"}, {"out"}, {"in", "hup"}, {"in", "out", "err", "hup"}}

OpenSocket(fd) ==
    /\ fd \notin open
    /\ open' = open \cup {fd}
    /\ UNCHANGED <<cond, selectVars, pollfds_, epoll, plain, tidy>>

SocketChanges(fd) ==
    /\ fd \in open
    /\ \E c \in Conditions \ {cond[fd]} : cond' = [cond EXCEPT ![fd] = c]
    /\ UNCHANGED <<open, selectVars, pollfds_, epoll, plain, tidy>>

CloseSocket(fd) ==
    /\ fd \in open
    /\ open' = open \ {fd} /\ cond' = [cond EXCEPT ![fd] = {}]
    /\ epoll' = {e \in epoll : e[1] # fd}
    /\ tidy' = (tidy /\ ~Registered(fd))
    /\ UNCHANGED <<selectVars, pollfds_, plain>>

-----------------------------------------------------------------------------
(* addEvent, removeEvent and modifyEvent of each class. *)

SelectAdd(fd, type) ==
    /\ readfds_' = IF type = "READ" THEN readfds_ \cup {fd} ELSE readfds_
    /\ writefds_' = IF type = "WRITE" THEN writefds_ \cup {fd} ELSE writefds_
    /\ errorfds_' = IF type = "ERROR" THEN errorfds_ \cup {fd} ELSE errorfds_
    /\ maxfd_' = Max({maxfd_, fd})

(* Broken SelectRemove: FD_CLR is missing. *)
SelectRemoveKeeps(fd, type) == UNCHANGED selectVars

SelectRemove(fd, type) ==
    /\ readfds_' = IF type = "READ" THEN readfds_ \ {fd} ELSE readfds_
    /\ writefds_' = IF type = "WRITE" THEN writefds_ \ {fd} ELSE writefds_
    /\ errorfds_' = IF type = "ERROR" THEN errorfds_ \ {fd} ELSE errorfds_
    /\ UNCHANGED maxfd_

(* modifyEvent is removeEvent and addEvent with the new type: the bit of   *)
(* the old type stays.                                                     *)
SelectModify(fd, type) == SelectAdd(fd, type)

PollAdded(list, fd, type) == Append(list, [fd |-> fd, type |-> type])

(* Broken PollRemoved: the first entry that does not match ends the loop.  *)
PollRemovedFirst(list, fd) ==
    IF list # << >> /\ Head(list).fd = fd THEN Tail(list) ELSE list

PollRemoved(list, fd) ==
    LET kept[i \in 0 .. Len(list)] ==
            IF i = 0 THEN << >>
            ELSE kept[i - 1] \o (IF list[i].fd = fd THEN << >> ELSE <<list[i]>>)
    IN  kept[Len(list)]

EpollSet(fd, type) == {e \in epoll : e[1] # fd} \cup {<<fd, type>>}

EpollRemoved(fd) == {e \in epoll : e[1] # fd}

AddEvent(fd, type) ==
    /\ fd \in open /\ ~Registered(fd) /\ Len(pollfds_) < MaxEntries
    /\ SelectAdd(fd, type)
    /\ pollfds_' = PollAdded(pollfds_, fd, type)
    /\ epoll' = EpollSet(fd, type)
    /\ plain' = (plain /\ type = "READ")
    /\ UNCHANGED <<open, cond, tidy>>

RemoveEvent(fd, type) ==
    /\ <<fd, type>> \in epoll
    /\ SelectRemove(fd, type)
    /\ pollfds_' = PollRemoved(pollfds_, fd)
    /\ epoll' = EpollRemoved(fd)
    /\ UNCHANGED <<open, cond, plain, tidy>>

ModifyEvent(fd, type) ==
    /\ Registered(fd)
    /\ SelectModify(fd, type)
    /\ pollfds_' = PollAdded(PollRemoved(pollfds_, fd), fd, type)
    /\ epoll' = EpollSet(fd, type)
    /\ plain' = FALSE
    /\ UNCHANGED <<open, cond, tidy>>

-----------------------------------------------------------------------------
(* wait changes nothing but its result: what it would report now.  select  *)
(* fails as a whole when a set has a closed descriptor.                    *)

InSet(set) == {fd \in set : fd <= maxfd_}

SelectWait ==
    IF InSet(readfds_ \cup writefds_ \cup errorfds_) \subseteq open
    THEN {<<fd, "READ">> : fd \in {x \in InSet(readfds_) : cond[x] \cap {"in", "hup", "err"} # {}}}
           \cup {<<fd, "WRITE">> : fd \in {x \in InSet(writefds_) : cond[x] \cap {"out", "err"} # {}}}
    ELSE {}

(* What the kernel returns for an interest; errors need not be asked for. *)
Returned(fd, type) ==
    cond[fd] \cap ({"err", "hup"} \cup CASE type = "READ" -> {"in"}
                                        [] type = "WRITE" -> {"out"}
                                        [] OTHER -> {})

(* The type of the event that PollIO and EpollIO make of it. *)
TypeOf(revents) ==
    CASE "in" \in revents -> "READ"
      [] "out" \in revents /\ "in" \notin revents -> "WRITE"
      [] "err" \in revents /\ revents \cap {"in", "out"} = {} -> "ERROR"
      [] OTHER -> "READ"

PollWait ==
    {<<pfd.fd, TypeOf(Returned(pfd.fd, pfd.type))>> :
        pfd \in {p \in ToSet(pollfds_) :
                    p.fd \in open /\ Returned(p.fd, p.type) \cap {"in", "out", "err"} # {}}}

EpollWait ==
    {<<e[1], TypeOf(Returned(e[1], e[2]))>> : e \in {x \in epoll : Returned(x[1], x[2]) # {}}}

Next ==
    \/ \E fd \in Fd : OpenSocket(fd) \/ SocketChanges(fd) \/ CloseSocket(fd)
    \/ \E fd \in Fd, type \in EventType :
          AddEvent(fd, type) \/ RemoveEvent(fd, type) \/ ModifyEvent(fd, type)

Spec == Init /\ [][Next]_vars

-----------------------------------------------------------------------------
(* Used for READ and without modifyEvent, every socket removed before it   *)
(* is closed, the three are interchangeable: whatever was added, removed,  *)
(* closed and opened again under the same number, they report the same.    *)
SameReads == plain /\ tidy => SelectWait = PollWait /\ PollWait = EpollWait

(* For every type and with modifyEvent, PollIO and EpollIO report the same *)
(* events, but for a descriptor of which there is only to say that it was  *)
(* hung up: EpollIO calls that READ, PollIO drops it.                      *)
PollLikeEpoll ==
    tidy => /\ PollWait \subseteq EpollWait
            /\ \A e \in EpollWait \ PollWait :
                  \A type \in EventType : <<e[1], type>> \in epoll => Returned(e[1], type) = {"hup"}
=============================================================================

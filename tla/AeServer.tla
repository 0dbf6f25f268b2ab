------------------------------ MODULE AeServer ------------------------------
(***************************************************************************)
(* The two servers on the ae event loop: net/echo_server.c, and the sink   *)
(* tcp_bbr_server.cc, which reads and answers nothing.  main sets up the   *)
(* loop, aeMain runs it until SIGINT, and the callbacks accept, read and   *)
(* close.  The event table, epoll and the walk over the fired entries are  *)
(* those of AeFileEvents; here every call of a callback is a step of its   *)
(* own, so that signals and peers act between any two of them.             *)
(*                                                                         *)
(* All sockets are blocking: a call that has to wait is not enabled.       *)
(***************************************************************************)
EXTENDS AeFileEvents

CONSTANTS
    Peer,           \* clients
    NoPeer,         \* none of them
    MaxUnread,      \* bound: unread data of a peer, in units of one read
    MaxSignals      \* bound: SIGINTs sent

Handlers == {"AcceptTcpHandler", "ReadFromClient"}

ASSUME ServerAssumption ==
    /\ OwnDescriptorOnly
    /\ Handlers \subseteq Procs
    /\ NoPeer \notin Peer
    /\ MaxUnread \in Nat /\ MaxSignals \in Nat

VARIABLES
    echo,       \* TRUE: echo_server.c, FALSE: tcp_bbr_server.cc
    pc,         \* where main is
    h,          \* where the callback under way is
    lfd,        \* main's fd: the listening socket, or -1
    cfd,        \* AcceptTcpHandler's cfd
    timer,      \* PrintTimer is registered
    stop,       \* eventLoop->stop
    signals,    \* SIGINTs sent
    peer,       \* what a client has done with its connection
    backlog,    \* connections not accepted yet
    peerOf,     \* the peer at the other end of a descriptor
    unread      \* data that arrived and were not read

table == vars
program == <<echo, pc, h, lfd, cfd, timer, stop>>
network == <<peer, backlog, peerOf, unread>>
serverVars == <<table, program, network, signals>>

Setup == {"create", "listen", "register", "timer", "main"}
Loop == {"test", "poll", "wait", "dispatch", "timers"}
Over == {"ended", "crashed", "killed"}

ServerTypeOK ==
    /\ TypeOK
    /\ echo \in BOOLEAN /\ timer \in BOOLEAN /\ stop \in BOOLEAN
    /\ pc \in Setup \cup Loop \cup Over \cup {"delete", "deleted"}
    /\ h \in {"enter", "register", "shut", "write", "delete", "close", "return"}
    /\ lfd \in Fd \cup {-1} /\ cfd \in Fd \cup {-1}
    /\ signals \in 0 .. MaxSignals
    /\ peer \in [Peer -> {"away", "live", "finished", "reset", "done"}]
    /\ backlog \subseteq Peer
    /\ peerOf \in [Fd -> Peer \cup {NoPeer}]
    /\ unread \in [Peer -> 0 .. MaxUnread]

\* SIGINT is already caught; the numbers of stdin and its like are left out.
ServerInit ==
    /\ Init
    /\ echo \in BOOLEAN
    /\ pc = "create" /\ h = "return" /\ lfd = -1 /\ cfd = -1
    /\ timer = FALSE /\ stop = FALSE /\ signals = 0
    /\ peer = [p \in Peer |-> "away"]
    /\ backlog = {}
    /\ peerOf = [fd \in Fd |-> NoPeer]
    /\ unread = [p \in Peer |-> 0]

-----------------------------------------------------------------------------
(* The clients and the kernel.                                             *)

Connect(p) ==
    /\ peer[p] = "away" /\ lfd \in openFds
    /\ peer' = [peer EXCEPT ![p] = "live"]
    /\ backlog' = backlog \cup {p}
    /\ UNCHANGED <<table, program, signals, peerOf, unread>>

Send(p) ==
    /\ peer[p] = "live" /\ unread[p] < MaxUnread
    /\ unread' = [unread EXCEPT ![p] = @ + 1]
    /\ UNCHANGED <<table, program, signals, peer, backlog, peerOf>>

\* The peer closes, or its connection breaks.
Leave(p, how) ==
    /\ \/ peer[p] = "live" /\ how = "finished"
       \/ peer[p] \in {"live", "finished"} /\ how = "reset"
    /\ peer' = [peer EXCEPT ![p] = how]
    /\ UNCHANGED <<table, program, signals, backlog, peerOf, unread>>

\* socket and accept return the lowest number that is free.
FreeFd == Fd \ openFds
LowestFree == Min(FreeFd)

\* What epoll reports: a listening socket with a backlog, data, an end of
\* file, and EPOLLERR and EPOLLHUP of a broken connection.
Fires(fd) ==
    IF interest[fd] = {} THEN {}
    ELSE IF fd = lfd THEN (IF backlog # {} THEN {"READABLE"} ELSE {})
    ELSE LET p == peerOf[fd] IN
         CASE peer[p] = "reset" -> Dir
           [] peer[p] = "finished" \/ unread[p] > 0 -> {"READABLE"}
           [] OTHER -> {}

FiredNow == [fd \in Slot |-> Fires(fd)]
NothingFired == [fd \in Slot |-> {}]

-----------------------------------------------------------------------------
(* main.                                                                   *)

\* A step of main that leaves all but pc alone.
Step(from, to) ==
    /\ pc = from
    /\ pc' = to
    /\ UNCHANGED <<table, network, signals, echo, h, lfd, cfd, timer, stop>>

\* A loop that could not be created is used all the same.
CreateLoop == Step("create", "listen") \/ Step("create", "crashed")

\* anetCreateSocket, anetListen: a failure to bind or listen closes the
\* socket, a failure to set its option forgets it.
anetTcpServer ==
    /\ pc = "listen"
    /\ pc' = "register"
    /\ \/ FreeFd # {} /\ OpenFd(LowestFree) /\ lfd' \in {LowestFree, -1}
       \/ lfd' = -1 /\ UNCHANGED table
    /\ UNCHANGED <<network, signals, echo, h, cfd, timer, stop>>

\* Mutant: AE_READABLE|AE_WRITABLE, of which ClientClose deletes one.
AddBothEvents(fd, proc, ret) ==
    IF fd = -1 THEN ret = "AE_ERR" /\ UNCHANGED table
    ELSE aeCreateFileEvent(fd, Dir, proc, ret)

\* aeCreateFileEvent with -1 reads a mask from before the table; whichever
\* operation that selects, epoll_ctl refuses -1.
AddFileEvent(fd, proc, ret) ==
    IF fd = -1 THEN ret = "AE_ERR" /\ UNCHANGED table
    ELSE aeCreateFileEvent(fd, {"READABLE"}, proc, ret)

\* Failures are reported, and main goes on.
RegisterListener ==
    /\ pc = "register"
    /\ pc' = "timer"
    /\ \E ret \in {"AE_OK", "AE_ERR"} : AddFileEvent(lfd, "AcceptTcpHandler", ret)
    /\ UNCHANGED <<network, signals, echo, h, lfd, cfd, timer, stop>>

\* AE_ERR of aeCreateTimeEvent, for want of memory, is ignored: the loop then
\* has no timer.
CreateTimer ==
    /\ pc = "timer"
    /\ pc' = "main"
    /\ timer' \in BOOLEAN
    /\ UNCHANGED <<table, network, signals, echo, h, lfd, cfd, stop>>

EnterMain ==
    /\ pc = "main"
    /\ pc' = "test"
    /\ stop' = FALSE
    /\ UNCHANGED <<table, network, signals, echo, h, lfd, cfd, timer>>

TestStop == Step("test", IF stop THEN "delete" ELSE "poll")

\* The timeout is computed; a signal before epoll_wait does not interrupt it.
EnterWait == Step("poll", "wait")

\* Mutant: the timeout is not computed from the timers.
WaitForever ==
    /\ pc = "wait"
    /\ pc' = "dispatch"
    /\ FiredNow # NothingFired
    /\ fired' = FiredNow
    /\ Poll(TRUE)
    /\ UNCHANGED <<network, signals, echo, h, lfd, cfd, timer, stop>>

\* epoll_wait returns what is ready, or nothing when PrintTimer is due; without
\* a timer it waits for ever.
WaitReturns ==
    /\ pc = "wait"
    /\ pc' = "dispatch"
    /\ FiredNow # NothingFired \/ timer
    /\ fired' = FiredNow
    /\ Poll(TRUE)
    /\ UNCHANGED <<network, signals, echo, h, lfd, cfd, timer, stop>>

\* processTimeEvents, with PrintTimer if there is one: it prints, and asks to be
\* called again.
PrintTimer == Step("timers", "test")

\* The sockets are left to the end of the process.
aeDeleteEventLoop == Step("delete", "deleted")

Exit == Step("deleted", "ended")

\* SIGINT, at any time.  aeStop writes to a loop that does not exist yet or
\* no longer exists, or it sets stop; epoll_wait returns with no events.
StopServer ==
    /\ signals < MaxSignals /\ pc \notin Over
    /\ signals' = signals + 1
    /\ \/ pc = "create" /\ pc' = "crashed" /\ UNCHANGED <<table, stop>>
       \/ pc = "deleted" /\ pc' \in {"deleted", "crashed"} /\ UNCHANGED <<table, stop>>
       \/ pc = "wait" /\ pc' = "dispatch" /\ stop' = TRUE /\ fired' = NothingFired /\ Poll(TRUE)
       \/ pc \notin {"create", "deleted", "wait"} /\ stop' = TRUE /\ UNCHANGED <<table, pc>>
    /\ UNCHANGED <<network, echo, h, lfd, cfd, timer>>

-----------------------------------------------------------------------------
(* aeProcessEvents.                                                        *)

NextEntry ==
    /\ pc = "dispatch"
    /\ \E fd \in Slot : StartEvent(fd)
    /\ h' = "enter"
    /\ UNCHANGED <<network, signals, echo, pc, lfd, cfd, timer, stop>>

Return == h = "return" /\ ReadReturns /\ UNCHANGED <<program, network, signals>>

\* No server registers for writing: wfileProc is never called.
EndEntry == FinishEvent /\ UNCHANGED <<program, network, signals>>

EndEvents ==
    /\ pc = "dispatch"
    /\ pc' = "timers"
    /\ FinishDispatch
    /\ UNCHANGED <<network, signals, echo, h, lfd, cfd, timer, stop>>

\* The callback proc is at the given place, and goes from it to another.
In(proc, place) == phase = "read" /\ rproc[cur] = proc /\ h = place
Does(proc, from, to) ==
    /\ In(proc, from)
    /\ h' = to
    /\ UNCHANGED <<signals, echo, lfd, timer, stop>>

-----------------------------------------------------------------------------
(* AcceptTcpHandler.                                                       *)

\* anetGenericAccept retries when a signal interrupts it.
Accept(p) ==
    /\ Does("AcceptTcpHandler", "enter", "register")
    /\ p \in backlog /\ FreeFd # {}
    /\ OpenFd(LowestFree)
    /\ cfd' = LowestFree
    /\ backlog' = backlog \ {p}
    /\ peerOf' = [peerOf EXCEPT ![LowestFree] = p]
    /\ UNCHANGED <<pc, peer, unread>>

\* The connections of ps are over before they were accepted.
Dropped(ps) ==
    /\ backlog' = backlog \ ps
    /\ peer' = [p \in Peer |-> IF p \in ps THEN "done" ELSE peer[p]]
    /\ unread' = [p \in Peer |-> IF p \in ps THEN 0 ELSE unread[p]]

\* No descriptor is left, here or in the system, or the connection has gone:
\* ANET_ERR is -1.
AcceptFails ==
    /\ Does("AcceptTcpHandler", "enter", "register")
    /\ backlog # {}
    /\ Dropped({}) \/ \E p \in backlog : Dropped({p})
    /\ cfd' = -1
    /\ UNCHANGED <<table, pc, peerOf>>

RegisterClient(ret) ==
    /\ Does("AcceptTcpHandler", "register", IF ret = "AE_OK" THEN "return" ELSE "shut")
    /\ AddFileEvent(cfd, "ReadFromClient", ret)
    /\ cfd' = IF ret = "AE_OK" THEN -1 ELSE cfd
    /\ UNCHANGED <<pc, network>>

\* Mutant: nothing is closed.
ShutNothing ==
    /\ Does("AcceptTcpHandler", "shut", "return")
    /\ cfd' = -1
    /\ UNCHANGED <<table, pc, network>>

\* close(fd), which is the listening socket; the new descriptor stays open.
\* The kernel refuses the connections that wait.
ShutListener ==
    /\ Does("AcceptTcpHandler", "shut", "return")
    /\ CloseFd(cur)
    /\ Dropped(backlog)
    /\ cfd' = -1
    /\ UNCHANGED <<pc, peerOf>>

-----------------------------------------------------------------------------
(* ReadFromClient and ClientClose.                                         *)

\* Mutant: an end of file counts as data.
ReadCountsEnd(n) == n - 1

\* What read leaves of n units; data that arrived can be read, also when the
\* connection is broken.
LeftAfterRead(n) == IF n > 0 THEN n - 1 ELSE 0

\* Mutant: an end of file is taken for a short read.
AfterReadOrEnd(p) ==
    IF unread[p] = 0 /\ peer[p] = "reset" THEN "delete" ELSE IF echo THEN "write" ELSE "return"

\* ReadFromClient of the sink has no write.
AfterRead(p) == IF unread[p] = 0 THEN "delete" ELSE IF echo THEN "write" ELSE "return"

ReadFromClient ==
    /\ In("ReadFromClient", "enter")
    /\ LET p == peerOf[cur] IN
       /\ Does("ReadFromClient", "enter", AfterRead(p))
       /\ unread[p] > 0 \/ peer[p] \in {"finished", "reset"}
       /\ unread' = [unread EXCEPT ![p] = LeftAfterRead(@)]
    /\ UNCHANGED <<table, pc, cfd, peer, backlog, peerOf>>

\* To a broken connection the write fails, or raises SIGPIPE, which nobody
\* ignores.
WriteToClient ==
    /\ In("ReadFromClient", "write")
    /\ IF peer[peerOf[cur]] = "reset"
       THEN Does("ReadFromClient", "write", "delete") /\ pc' \in {pc, "killed"}
       ELSE Does("ReadFromClient", "write", "return") /\ UNCHANGED pc
    /\ UNCHANGED <<table, cfd, network>>

DeleteEvent ==
    /\ Does("ReadFromClient", "delete", "close")
    /\ aeDeleteFileEvent(cur, {"READABLE"})
    /\ UNCHANGED <<pc, cfd, network>>

CloseClient ==
    /\ Does("ReadFromClient", "close", "return")
    /\ CloseFd(cur)
    /\ peer' = [peer EXCEPT ![peerOf[cur]] = "done"]
    /\ peerOf' = [peerOf EXCEPT ![cur] = NoPeer]
    /\ UNCHANGED <<pc, cfd, backlog, unread>>

-----------------------------------------------------------------------------
AcceptTcpHandler ==
    \/ \E p \in Peer : Accept(p)
    \/ AcceptFails
    \/ \E ret \in {"AE_OK", "AE_ERR"} : RegisterClient(ret)
    \/ ShutListener

ClientHandler == ReadFromClient \/ WriteToClient \/ DeleteEvent \/ CloseClient

aeProcessEvents ==
    \/ WaitReturns \/ NextEntry \/ Return \/ EndEntry \/ EndEvents \/ PrintTimer
    \/ AcceptTcpHandler \/ ClientHandler

Main ==
    \/ CreateLoop \/ anetTcpServer \/ RegisterListener \/ CreateTimer
    \/ EnterMain \/ TestStop \/ EnterWait \/ aeDeleteEventLoop \/ Exit

Process == pc \notin Over /\ (Main \/ aeProcessEvents)

Clients == \E p \in Peer : Connect(p) \/ Send(p) \/ Leave(p, "finished") \/ Leave(p, "reset")

ServerNext == Process \/ StopServer \/ (pc \notin Over /\ Clients)

\* The process is scheduled, and a client that is written to reads or leaves.
ServerSpec == ServerInit /\ [][ServerNext]_serverVars /\ WF_serverVars(Process)

-----------------------------------------------------------------------------
(* Properties.                                                             *)

\* The handlers keep the conventions under which an event loop delivers no
\* stale event: they end only the descriptor they were called for, register
\* only what nobody registered, and touch nothing once they have closed.
KeepsConventions == Spec

Watched(fd) == fd \in Slot /\ interest[fd] # {}

\* The descriptors that are open with nobody to close them.
Leaked == {fd \in openFds : ~ Watched(fd) /\ fd \notin {lfd, cfd, cur}}

\* The handler that closes the wrong descriptor does so once: a descriptor
\* that leaks takes the listening socket with it, so no second one follows.
LeaksOneAtMost == Cardinality(Leaked) <= 1 /\ (Leaked # {} => lfd \notin openFds)

\* Level-triggered epoll forgets nobody: as long as the listening socket is
\* watched a connection is accepted, and the descriptor of a client that left
\* is closed, whatever the other clients send.
ClientsServed ==
    \A p \in Peer :
        /\ p \in backlog /\ Watched(lfd) ~> p \notin backlog \/ pc \in Over
        /\ (\E fd \in Fd : peerOf[fd] = p /\ Watched(fd)) /\ peer[p] \in {"finished", "reset"}
              ~> peer[p] = "done" \/ pc \in Over

\* A SIGINT that comes once aeMain has cleared stop ends the program, whatever
\* the clients do or do not do.  Between the test of stop and epoll_wait it
\* interrupts nothing, and PrintTimer alone ends the wait: there it is lost if
\* main could not create the timer.
SignalStops ==
    pc \in Loop /\ stop /\ (timer \/ pc \notin {"poll", "wait"}) ~> pc \in Over
=============================================================================

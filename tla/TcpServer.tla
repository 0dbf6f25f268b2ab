----------------------------- MODULE TcpServer -----------------------------
(***************************************************************************)
(* The edge-triggered server of server.cc and the peers of client.cc that  *)
(* connect to it: the thread of TcpServer::Process, the main thread that   *)
(* stops it, and the kernel between them and the peers.                    *)
(*                                                                         *)
(* epoll keeps a ready list (edge): a descriptor is put there when a       *)
(* connection, data or a FIN arrives, or when it is added while it can be  *)
(* read, and is taken off when epoll_wait looks at it.  A peer sends one   *)
(* message, of which any part may arrive at any time; the n-th byte of     *)
(* peer p is <<p, n>>.  The server never reads from a connection buffer,   *)
(* so what con_buf_write does is told by the number of bytes stored.       *)
(***************************************************************************)
EXTENDS Integers, SequencesExt

CONSTANTS
    Peer,           \* the connections made to the server
    NoPeer,         \* none of them
    NumFd,          \* descriptors left to the process: 1 .. NumFd
    Hdr,            \* sizeof(uint32_t), the header of a message
    Total,          \* header and payload of a message
    RecvMax,        \* the size of buf in Process
    Cap,            \* the bytes an mbuf holds
    MaxEvents,      \* the size of events in Process
    OneAtATime      \* TRUE: a peer connects when no other waits to be accepted

ASSUME TcpServerAssumption ==
    /\ IsFiniteSet(Peer) /\ NoPeer \notin Peer
    /\ NumFd \in Nat
    /\ Hdr \in Nat /\ Total \in Nat /\ Hdr < Total
    /\ RecvMax \in Nat \ {0} /\ Cap \in Nat \ {0} /\ MaxEvents \in Nat \ {0}
    /\ OneAtATime \in BOOLEAN

VARIABLES
    connected,  \* kernel: the peers that have connected
    backlog,    \* kernel: connections not yet accepted, in order
    arrived,    \* kernel: bytes of a peer that have arrived
    fin,        \* kernel: the peer's FIN has arrived
    peerAt,     \* kernel: the peer behind an open descriptor
    edge,       \* kernel: the descriptor is on epoll's ready list
    taken,      \* bytes of a peer that recv has returned
    pc,         \* where Process is
    batch,      \* the events of this round not handled yet
    cur,        \* the descriptor being handled
    clients,    \* clients_: the TcpClient of a descriptor, 0 if none
    made,       \* TcpClients made so far; the n-th is called n
    store,      \* the bytes written to a client's con_
    size,       \* its con_->data_size
    told,       \* the largest size it announced
    signalled,  \* ~ m_running
    running,    \* running_
    main,       \* where main is
    conns,      \* context_->mstats.conns
    seen        \* history: the numbers that accept has returned

kernel == <<connected, backlog, arrived, fin, peerAt>>
objects == <<clients, made, store, size, told, conns, seen>>
control == <<signalled, running, main>>
vars == <<connected, backlog, arrived, fin, peerAt, edge, taken, pc, batch, cur, clients,
          made, store, size, told, signalled, running, main, conns, seen>>

Listen == 0
Failed == -1
Fd == 1 .. NumFd
Client == 1 .. Cardinality(Peer)
Flag == {"IN", "RDHUP"}

Lesser(a, b) == IF a < b THEN a ELSE b

TypeOK ==
    /\ connected \subseteq Peer /\ backlog \in Seq(connected)
    /\ arrived \in [Peer -> 0 .. Total] /\ taken \in [Peer -> 0 .. Total]
    /\ \A p \in Peer : taken[p] <= arrived[p]
    /\ fin \in [Peer -> BOOLEAN]
    /\ peerAt \in [Fd -> Peer \cup {NoPeer}]
    /\ edge \in [Fd \cup {Listen} -> BOOLEAN]
    /\ pc \in {"test", "wait", "dispatch", "first", "drain", "hup", "ended"}
    /\ batch \in [Fd \cup {Listen} -> SUBSET Flag]
    /\ cur \in Fd \cup {Failed}
    /\ clients \in [Fd \cup {Failed} -> Client \cup {0}]
    /\ made \in Client \cup {0} /\ conns \in 0 .. made /\ seen \subseteq Fd \cup {Failed}
    /\ store \in [Client -> Seq(Peer \X (1 .. Total))]
    /\ size \in [Client -> Nat] /\ told \in [Client -> Nat]
    /\ signalled \in BOOLEAN /\ running \in BOOLEAN
    /\ main \in {"spin", "join", "exited"}

\* main has made the server and the thread.
Init ==
    /\ connected = {} /\ backlog = <<>>
    /\ arrived = [p \in Peer |-> 0] /\ taken = [p \in Peer |-> 0]
    /\ fin = [p \in Peer |-> FALSE]
    /\ peerAt = [fd \in Fd |-> NoPeer]
    /\ edge = [fd \in Fd \cup {Listen} |-> FALSE]
    /\ pc = "test" /\ cur = Failed
    /\ batch = [fd \in Fd \cup {Listen} |-> {}]
    /\ clients = [fd \in Fd \cup {Failed} |-> 0] /\ made = 0
    /\ store = [c \in Client |-> <<>>]
    /\ size = [c \in Client |-> 0] /\ told = [c \in Client |-> 0]
    /\ signalled = FALSE /\ running = TRUE /\ main = "spin"
    /\ conns = 0 /\ seen = {}

-----------------------------------------------------------------------------
(* The peers and the network.                                              *)

\* The kernel puts a descriptor of p on the ready list.
Wake(p) == edge' = [fd \in DOMAIN edge |-> edge[fd] \/ (fd \in Fd /\ peerAt[fd] = p)]

Connect(p) ==
    /\ p \notin connected /\ main # "exited"
    /\ OneAtATime => backlog = <<>>
    /\ connected' = connected \cup {p}
    /\ backlog' = Append(backlog, p)
    /\ edge' = [edge EXCEPT ![Listen] = TRUE]
    /\ UNCHANGED <<arrived, fin, peerAt, taken, pc, batch, cur, objects, control>>

Arrive(p, n) ==
    /\ p \in connected /\ ~ fin[p] /\ main # "exited"
    /\ arrived[p] + n <= Total
    /\ arrived' = [arrived EXCEPT ![p] = @ + n]
    /\ Wake(p)
    /\ UNCHANGED <<connected, backlog, fin, peerAt, taken, pc, batch, cur, objects, control>>

\* client.cc closes when all is sent; a peer that dies may end before.
Finish(p) ==
    /\ p \in connected /\ ~ fin[p] /\ main # "exited"
    /\ fin' = [fin EXCEPT ![p] = TRUE]
    /\ Wake(p)
    /\ UNCHANGED <<connected, backlog, arrived, peerAt, taken, pc, batch, cur, objects, control>>

-----------------------------------------------------------------------------
(* TcpServer::Process, in a thread of its own.                             *)

\* Mutant: the flag is not looked at again.
TestNothing ==
    /\ pc = "test"
    /\ pc' = "wait"
    /\ UNCHANGED <<kernel, edge, taken, batch, cur, objects, control>>

TestRunning ==
    /\ pc = "test"
    /\ pc' = IF running THEN "wait" ELSE "ended"
    /\ UNCHANGED <<kernel, edge, taken, batch, cur, objects, control>>

Waiting(p) == arrived[p] - taken[p]

\* What epoll finds at a descriptor.
Events(fd) ==
    IF fd = Listen THEN IF backlog # <<>> THEN {"IN"} ELSE {}
    ELSE IF peerAt[fd] = NoPeer THEN {}
    ELSE IF fin[peerAt[fd]] THEN {"IN", "RDHUP"}
    ELSE IF Waiting(peerAt[fd]) > 0 THEN {"IN"} ELSE {}

Ready == {fd \in DOMAIN edge : edge[fd] /\ Events(fd) # {}}

\* epoll_wait returns what is ready, as far as it fits, or nothing after 500
\* milliseconds or a signal.
EpollWait(S) ==
    /\ pc = "wait"
    /\ S \subseteq Ready
    /\ Cardinality(S) = Lesser(MaxEvents, Cardinality(Ready))
    /\ batch' = [fd \in DOMAIN batch |-> IF fd \in S THEN Events(fd) ELSE {}]
    /\ edge' = [fd \in DOMAIN edge |-> fd \in Ready \ S]
    /\ pc' = "dispatch"
    /\ UNCHANGED <<kernel, taken, cur, objects, control>>

FreeFd == {fd \in Fd : peerAt[fd] = NoPeer}

\* su_accept: the lowest free descriptor, or -1 if there is none.
AcceptedFd == IF FreeFd = {} THEN Failed ELSE Min(FreeFd)

\* EPOLL_CTL_ADD of the new descriptor, which may be readable already.
EpollAdd(fd, p) == edge' = [edge EXCEPT ![fd] = Waiting(p) > 0 \/ fin[p]]

\* One connection is accepted.  clients_ keeps the entry it has: the new
\* TcpClient is lost if the descriptor was used before.  A failed accept goes
\* on with -1.
AcceptClient ==
    /\ pc = "dispatch" /\ batch[Listen] # {}
    /\ LET fd == AcceptedFd
           p == Head(backlog) IN
       /\ IF fd = Failed THEN UNCHANGED <<backlog, peerAt, edge>>
          ELSE /\ backlog' = Tail(backlog)
               /\ peerAt' = [peerAt EXCEPT ![fd] = p]
               /\ EpollAdd(fd, p)
       /\ made' = made + 1 /\ conns' = conns + 1
       /\ clients' = IF clients[fd] = 0 THEN [clients EXCEPT ![fd] = made'] ELSE clients
       /\ seen' = seen \cup {fd}
    /\ batch' = [batch EXCEPT ![Listen] = {}]
    /\ UNCHANGED <<connected, arrived, fin, taken, pc, cur, store, size, told, control>>

StartClient(fd) ==
    /\ pc = "dispatch" /\ batch[fd] # {}
    /\ cur' = fd
    /\ pc' = IF "IN" \in batch[fd] THEN "first" ELSE "hup"
    /\ UNCHANGED <<kernel, edge, taken, batch, objects, control>>

\* Mutant: the result of recv is not looked at.
ReceivedWholeBuffer == IF peerAt[cur] = NoPeer \/ Waiting(peerAt[cur]) = 0 THEN 0 ELSE RecvMax

\* su_tcp_recv: what it returns, if that is positive.
Received == IF peerAt[cur] = NoPeer THEN 0 ELSE Lesser(Waiting(peerAt[cur]), RecvMax)

\* Mutant: data_size grows by the size of the buffer.
CountedAsBuffer(c, n) ==
    IF (Len(store[c]) + n) % Cap = 0 THEN size[c] ELSE size[c] + RecvMax

\* con_buf_write: a write that ends at the end of an mbuf is not counted.
CountedSize(c, n) == IF (Len(store[c]) + n) % Cap = 0 THEN size[c] ELSE size[c] + n

\* The size a message's header gives.  Bytes of two peers make no header: they
\* stand for any number, also one that wraps when the header's size is added.
SizesIn(s) ==
    IF \A i \in 1 .. Hdr : s[i] = <<s[1][1], i>> THEN {Total} ELSE 0 .. 2 * Total

\* TcpClient::OnNewData of the next n bytes of the current peer.
OnNewData(c, n) ==
    LET p == peerAt[cur] IN
    /\ store' = [store EXCEPT ![c] = @ \o [i \in 1 .. n |-> <<p, taken[p] + i>>]]
    /\ taken' = [taken EXCEPT ![p] = @ + n]
    /\ size' = [size EXCEPT ![c] = CountedSize(c, n)]
    /\ IF size'[c] > Hdr
       THEN \E available \in SizesIn(store'[c]) :
              told' = IF size'[c] >= available /\ available > told[c]
                      THEN [told EXCEPT ![c] = available] ELSE told
       ELSE UNCHANGED told

su_socket_destroy(fd) ==
    /\ peerAt' = [peerAt EXCEPT ![fd] = NoPeer]
    /\ edge' = [edge EXCEPT ![fd] = FALSE]

\* Mutant: what the first recv returns is dropped.
FirstRecvDropped ==
    /\ pc = "first"
    /\ pc' = "drain"
    /\ IF Received > 0
       THEN /\ taken' = [taken EXCEPT ![peerAt[cur]] = @ + Received]
            /\ UNCHANGED <<store, size, told, peerAt, edge>>
       ELSE su_socket_destroy(cur) /\ UNCHANGED <<store, size, told, taken>>
    /\ UNCHANGED <<connected, backlog, arrived, fin, batch, cur, clients, made, conns, seen,
                   control>>

FirstRecv ==
    /\ pc = "first"
    /\ pc' = "drain"
    /\ IF Received > 0
       THEN OnNewData(clients[cur], Received) /\ UNCHANGED <<peerAt, edge>>
       ELSE su_socket_destroy(cur) /\ UNCHANGED <<store, size, told, taken>>
    /\ UNCHANGED <<connected, backlog, arrived, fin, batch, cur, clients, made, conns, seen,
                   control>>

\* Mutant: there is no loop.
DrainNothing ==
    /\ pc = "drain"
    /\ pc' = "hup"
    /\ UNCHANGED <<kernel, edge, taken, batch, cur, objects, control>>

\* "data may not read all so, continue read, in ET mode"
Drain ==
    /\ pc = "drain"
    /\ IF Received > 0
       THEN OnNewData(clients[cur], Received) /\ UNCHANGED pc
       ELSE pc' = "hup" /\ UNCHANGED <<store, size, told, taken>>
    /\ UNCHANGED <<kernel, edge, batch, cur, clients, made, conns, seen,
                   control>>

\* Mutant: nothing is closed here.
HangUpKeeps ==
    /\ pc = "hup"
    /\ batch' = [batch EXCEPT ![cur] = {}]
    /\ cur' = Failed
    /\ pc' = "dispatch"
    /\ UNCHANGED <<kernel, edge, taken, objects, control>>

\* A descriptor that the first recv closed is closed again, to no effect: no
\* descriptor was opened in between.
HangUp ==
    /\ pc = "hup"
    /\ IF "RDHUP" \in batch[cur] THEN su_socket_destroy(cur) ELSE UNCHANGED <<peerAt, edge>>
    /\ batch' = [batch EXCEPT ![cur] = {}]
    /\ cur' = Failed
    /\ pc' = "dispatch"
    /\ UNCHANGED <<connected, backlog, arrived, fin, taken, objects, control>>

EndRound ==
    /\ pc = "dispatch" /\ \A fd \in DOMAIN batch : batch[fd] = {}
    /\ pc' = "test"
    /\ UNCHANGED <<kernel, edge, taken, batch, cur, objects, control>>

-----------------------------------------------------------------------------
(* main                                                                    *)

signal_exit_handler ==
    /\ ~ signalled
    /\ signalled' = TRUE
    /\ UNCHANGED <<kernel, edge, taken, pc, batch, cur, objects, running, main>>

Stop ==
    /\ main = "spin" /\ signalled
    /\ running' = FALSE
    /\ main' = "join"
    /\ UNCHANGED <<kernel, edge, taken, pc, batch, cur, objects, signalled>>

\* Mutant: one client is deleted, not all of them.
DestroyOne ==
    /\ main = "join" /\ pc = "ended"
    /\ main' = "exited"
    /\ conns' = IF \E fd \in DOMAIN clients : clients[fd] # 0 THEN conns - 1 ELSE conns
    /\ clients' = [fd \in DOMAIN clients |-> 0]
    /\ UNCHANGED <<kernel, edge, taken, pc, batch, cur, made, store, size, told, seen,
                   signalled, running>>

\* pthread_join returned; ~TcpServer deletes the clients it can find.
DestroyServer ==
    /\ main = "join" /\ pc = "ended"
    /\ main' = "exited"
    /\ conns' = conns - Cardinality({fd \in DOMAIN clients : clients[fd] # 0})
    /\ clients' = [fd \in DOMAIN clients |-> 0]
    /\ UNCHANGED <<kernel, edge, taken, pc, batch, cur, made, store, size, told, seen,
                   signalled, running>>

Process ==
    \/ TestRunning
    \/ \E S \in SUBSET Ready : EpollWait(S)
    \/ AcceptClient
    \/ \E fd \in Fd : StartClient(fd)
    \/ FirstRecv
    \/ Drain
    \/ HangUp
    \/ EndRound

Main == Stop \/ DestroyServer

Next ==
    \/ \E p \in Peer : Connect(p) \/ Finish(p)
    \/ \E p \in Peer, n \in 1 .. Total : Arrive(p, n)
    \/ Process
    \/ signal_exit_handler
    \/ Main

Spec == Init /\ [][Next]_vars

\* Both threads go on; nothing is assumed of the peers or the signal.
FairSpec == Spec /\ WF_vars(Process) /\ WF_vars(Main)

-----------------------------------------------------------------------------
(* Properties.                                                             *)

\* Edge-triggered epoll reports a change once: whatever arrives while Process
\* waits, dispatches or drains, unread bytes and an unseen FIN are still on the
\* ready list or in the hands of a handler that has yet to read or close.
NothingStranded ==
    \A fd \in Fd : LET p == peerAt[fd] IN p # NoPeer =>
        /\ Waiting(p) > 0 => edge[fd] \/ (batch[fd] # {} /\ ~ (pc = "hup" /\ cur = fd))
        /\ fin[p] => edge[fd] \/ "RDHUP" \in batch[fd]

\* Every byte that recv returned is in one client's buffer, once and with
\* nothing else beside it, and the bytes of a peer lie there together and in
\* order, also when the buffer is an older connection's because its descriptor
\* number is used again.
ReceivedOnce ==
    /\ \A p \in Peer : taken[p] > 0 =>
          \E c \in Client : \E k \in 0 .. Len(store[c]) - taken[p] :
              \A i \in 1 .. taken[p] : store[c][k + i] = <<p, i>>
    /\ \A c, d \in Client : \A i \in 1 .. Len(store[c]), j \in 1 .. Len(store[d]) :
          store[c][i] = store[d][j] => c = d /\ i = j
    /\ \A c \in Client : \A i \in 1 .. Len(store[c]) :
          store[c][i][2] <= taken[store[c][i][1]]

\* DataAvailable is called with a size only when that many bytes are stored,
\* although data_size leaves out some writes and the header may be torn.
AnnouncedIsStored == \A c \in Client : told[c] <= Len(store[c])

\* ~TcpServer deletes the TcpClients that clients_ leads to: one for every
\* number accept has returned, -1 for its failures included.  Each further accept
\* that returned the number of a peer that had gone, or failed again, has left
\* one behind, with a connection that is never recycled.
ClientsDeleted == main = "exited" => conns = made - Cardinality(seen)

Done(p) == taken[p] = arrived[p] /\ \A fd \in Fd : peerAt[fd] # p

\* A peer that has finished is read to its last byte and its descriptor closed,
\* unless the server is stopped, if peers connect one at a time and find a free
\* descriptor.
FinishedPeersServed ==
    \A p \in Peer : fin[p] ~> signalled \/ (Done(p) /\ p \notin Range(backlog))

\* A signal ends the server, whatever arrives meanwhile.
SignalStops == signalled ~> main = "exited"
=============================================================================

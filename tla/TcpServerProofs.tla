-------------------------- MODULE TcpServerProofs --------------------------
(***************************************************************************)
(* Proofs about TcpServer, for any number of peers, descriptors, events    *)
(* per round and sizes of buffers: edge-triggered epoll strands nothing in *)
(* Process, what is read is stored once and in order, and the clients are  *)
(* found when the server is destroyed.                                     *)
(***************************************************************************)
EXTENDS TcpServer, BoundedSets, SequenceTheorems, FiniteSetTheorems, TLAPS

Handling == pc \in {"first", "drain", "hup"}

\* The state the argument needs, and where control is: between two rounds no
\* event is in hand, and an event of the listening socket has a connection.
RoundInv ==
    /\ backlog \in Seq(Peer)
    /\ arrived \in [Peer -> Int] /\ taken \in [Peer -> Int]
    /\ fin \in [Peer -> BOOLEAN]
    /\ peerAt \in [Fd -> Peer \cup {NoPeer}]
    /\ edge \in [Fd \cup {Listen} -> BOOLEAN]
    /\ batch \in [Fd \cup {Listen} -> SUBSET Flag]
    /\ Handling => cur \in Fd
    /\ pc \notin {"first", "drain", "hup", "dispatch"} =>
          \A fd \in Fd \cup {Listen} : batch[fd] = {}
    /\ \A fd \in Fd : batch[fd] # {} => "IN" \in batch[fd]
    /\ batch[Listen] # {} => backlog # <<>>

StrandInv == RoundInv /\ NothingStranded

\* The listening socket is none of the descriptors that accept returns.
LEMMA FdFacts == Listen \notin Fd /\ Failed \notin Fd /\ Fd \subseteq Int
BY TcpServerAssumption DEF Listen, Failed, Fd

\* accept returns a free descriptor, or -1 when there is none.
LEMMA AcceptedFdFacts ==
    /\ AcceptedFd # Failed => AcceptedFd \in Fd /\ peerAt[AcceptedFd] = NoPeer
    /\ AcceptedFd = Failed => FreeFd = {}
<1>1. FreeFd \subseteq 1 .. NumFd /\ NumFd \in Nat
  BY TcpServerAssumption DEF FreeFd, Fd
<1>2. FreeFd # {} => Min(FreeFd) \in FreeFd
  <2>1. FreeFd \subseteq Nat
    BY <1>1
  <2> QED  BY <2>1, LeastNat DEF Min
<1>3. FreeFd # {} => AcceptedFd \in FreeFd
  BY <1>2 DEF AcceptedFd
<1>4. FreeFd = {} => AcceptedFd = Failed
  BY DEF AcceptedFd
<1>5. FreeFd \subseteq Fd /\ \A fd \in FreeFd : peerAt[fd] = NoPeer
  BY DEF FreeFd
<1> QED  BY <1>3, <1>4, <1>5, FdFacts

\* A server that has just started.
LEMMA StrandInit == Init => StrandInv
BY FdFacts DEF Init, StrandInv, RoundInv, NothingStranded, Handling, Waiting

\* Whatever the peers do puts the descriptor on the ready list.
LEMMA PeersStrandNothing ==
    ASSUME StrandInv, NEW p \in Peer, NEW n \in 1 .. Total,
           Connect(p) \/ Finish(p) \/ Arrive(p, n)
    PROVE  StrandInv'
<1> USE FdFacts, TcpServerAssumption
<1>1. CASE Connect(p)
  <2>1. backlog' \in Seq(Peer) /\ backlog' # <<>>
    BY <1>1 DEF Connect, StrandInv, RoundInv
  <2>2. RoundInv'
    BY <1>1, <2>1 DEF Connect, StrandInv, RoundInv, Handling
  <2>3. NothingStranded'
    BY <1>1 DEF Connect, StrandInv, RoundInv, NothingStranded, Waiting
  <2> QED  BY <2>2, <2>3 DEF StrandInv
<1>2. CASE Finish(p)
  <2>1. RoundInv'
    BY <1>2 DEF Finish, Wake, StrandInv, RoundInv, Handling
  <2>2. NothingStranded'
    BY <1>2 DEF Finish, Wake, StrandInv, RoundInv, NothingStranded, Waiting
  <2> QED  BY <2>1, <2>2 DEF StrandInv
<1>3. CASE Arrive(p, n)
  <2>1. RoundInv'
    BY <1>3 DEF Arrive, Wake, StrandInv, RoundInv, Handling
  <2>2. NothingStranded'
    BY <1>3 DEF Arrive, Wake, StrandInv, RoundInv, NothingStranded, Waiting
  <2> QED  BY <2>1, <2>2 DEF StrandInv
<1> QED  BY <1>1, <1>2, <1>3

\* epoll_wait hands out what is ready, or leaves it on the list.
LEMMA WaitStrandsNothing ==
    ASSUME StrandInv, NEW S, EpollWait(S)
    PROVE  StrandInv'
<1> USE FdFacts
<1>1. \A fd \in Fd \cup {Listen} : Events(fd) \in SUBSET Flag
  BY DEF Events, Flag
<1>2. \A fd \in Fd : Events(fd) # {} => "IN" \in Events(fd)
  BY DEF Events
<1>3. Events(Listen) # {} => backlog # <<>>
  BY DEF Events
<1>4. RoundInv'
  <2>1. /\ UNCHANGED <<backlog, arrived, taken, fin, peerAt>> /\ pc' = "dispatch"
        /\ batch' = [fd \in Fd \cup {Listen} |-> IF fd \in S THEN Events(fd) ELSE {}]
        /\ edge' = [fd \in Fd \cup {Listen} |-> fd \in Ready \ S]
    BY DEF EpollWait, StrandInv, RoundInv, kernel
  <2>2. batch' \in [Fd \cup {Listen} -> SUBSET Flag]
    BY <1>1, <2>1
  <2>3. edge' \in [Fd \cup {Listen} -> BOOLEAN]
    <3>1. \A fd : (fd \in Ready \ S) \in BOOLEAN
      OBVIOUS
    <3> QED  BY <2>1, <3>1
  <2>4. /\ \A fd \in Fd : batch'[fd] # {} => "IN" \in batch'[fd]
        /\ batch'[Listen] # {} => backlog' # <<>>
    BY <1>2, <1>3, <2>1
  <2> QED  BY <2>1, <2>2, <2>3, <2>4 DEF StrandInv, RoundInv, Handling
<1>5. NothingStranded'
  <2> SUFFICES ASSUME NEW fd \in Fd, peerAt[fd] # NoPeer
               PROVE  /\ Waiting(peerAt[fd]) > 0 => edge'[fd] \/ batch'[fd] # {}
                      /\ fin[peerAt[fd]] => edge'[fd] \/ "RDHUP" \in batch'[fd]
    BY DEF NothingStranded, EpollWait, kernel, Waiting
  <2>1. batch[fd] = {}
    BY DEF EpollWait, StrandInv, RoundInv
  <2>2. Waiting(peerAt[fd]) > 0 \/ fin[peerAt[fd]] => edge[fd] /\ Events(fd) # {}
    BY <2>1 DEF StrandInv, NothingStranded, Events
  <2>3. fin[peerAt[fd]] => "RDHUP" \in Events(fd)
    BY DEF Events
  <2>4. Waiting(peerAt[fd]) > 0 \/ fin[peerAt[fd]] => fd \in Ready
    BY <2>2 DEF Ready, StrandInv, RoundInv
  <2>5. /\ edge'[fd] = (fd \in Ready \ S)
        /\ batch'[fd] = IF fd \in S THEN Events(fd) ELSE {}
    BY DEF EpollWait, StrandInv, RoundInv
  <2> QED  BY <2>2, <2>3, <2>4, <2>5
<1> QED  BY <1>4, <1>5 DEF StrandInv

\* A connection whose data came before it was accepted is ready at once.
LEMMA AcceptStrandsNothing == ASSUME StrandInv, AcceptClient PROVE StrandInv'
<1> USE FdFacts
<1>1. backlog # <<>> /\ Head(backlog) \in Peer /\ Tail(backlog) \in Seq(Peer)
  BY DEF AcceptClient, StrandInv, RoundInv
<1>2. CASE AcceptedFd = Failed
  <2>1. UNCHANGED <<backlog, arrived, fin, peerAt, edge, taken, pc, cur>>
    BY <1>2 DEF AcceptClient
  <2> QED
    BY <2>1 DEF AcceptClient, StrandInv, RoundInv, NothingStranded, Handling, Waiting
<1>3. CASE AcceptedFd # Failed
  <2> DEFINE fd == AcceptedFd
             p == Head(backlog)
  <2>1. fd \in Fd
    BY <1>3, AcceptedFdFacts
  <2>2. /\ backlog' = Tail(backlog) /\ peerAt' = [peerAt EXCEPT ![fd] = p]
        /\ edge' = [edge EXCEPT ![fd] = Waiting(p) > 0 \/ fin[p]]
        /\ batch' = [batch EXCEPT ![Listen] = {}]
        /\ UNCHANGED <<arrived, fin, taken, pc, cur>> /\ pc = "dispatch"
    BY <1>3 DEF AcceptClient, EpollAdd
  <2> HIDE DEF fd, p
  <2>3. p \in Peer /\ Tail(backlog) \in Seq(Peer)
    BY <1>1 DEF p
  <2>4. RoundInv'
    BY <2>1, <2>2, <2>3 DEF StrandInv, RoundInv, Handling
  <2>5. NothingStranded'
    BY <2>1, <2>2, <2>3 DEF StrandInv, RoundInv, NothingStranded, Waiting
  <2> QED  BY <2>4, <2>5 DEF StrandInv
<1> QED  BY <1>2, <1>3

\* What recv returns is a number, and it is not positive only if nothing
\* waits.
LEMMA ReceivedFacts ==
    ASSUME RoundInv, cur \in Fd
    PROVE  /\ Received \in Int
           /\ ~ (Received > 0) /\ peerAt[cur] # NoPeer => ~ (Waiting(peerAt[cur]) > 0)
           /\ Received > 0 => peerAt[cur] \in Peer
BY TcpServerAssumption DEF Received, RoundInv, Waiting, Lesser

\* Reading leaves less to be read.
LEMMA ReadStrandsNothing ==
    ASSUME StrandInv, NEW c, Handling, Received > 0, OnNewData(c, Received),
           UNCHANGED <<backlog, arrived, fin, peerAt, edge, batch, cur>>,
           pc # "hup", pc' \in {"first", "drain"}
    PROVE  StrandInv'
<1>1. cur \in Fd /\ peerAt[cur] \in Peer /\ Received \in Int
  BY ReceivedFacts DEF StrandInv, RoundInv
<1> DEFINE p == peerAt[cur]
           n == Received
<1>2. p \in Peer /\ n \in Int /\ n > 0 /\ taken' = [taken EXCEPT ![p] = @ + n]
  BY <1>1 DEF OnNewData
<1> HIDE DEF p, n
<1>3. \A q \in Peer : arrived[q] - taken'[q] > 0 => arrived[q] - taken[q] > 0
  BY <1>2 DEF StrandInv, RoundInv
<1>4. RoundInv'
  BY <1>2 DEF StrandInv, RoundInv, Handling
<1>5. NothingStranded'
  BY <1>3 DEF StrandInv, RoundInv, NothingStranded, Waiting
<1> QED  BY <1>4, <1>5 DEF StrandInv

\* The handler of one descriptor, and the steps between rounds.
LEMMA HandlerStrandsNothing ==
    ASSUME StrandInv,
           \/ TestRunning \/ FirstRecv \/ Drain \/ HangUp \/ EndRound
           \/ \E fd \in Fd : StartClient(fd)
    PROVE  StrandInv'
<1> USE FdFacts
<1>1. CASE TestRunning
  BY <1>1 DEF TestRunning, StrandInv, RoundInv, NothingStranded, Handling, Waiting, kernel
<1>2. CASE \E fd \in Fd : StartClient(fd)
  BY <1>2 DEF StartClient, StrandInv, RoundInv, NothingStranded, Handling, Waiting, kernel
<1>3. CASE FirstRecv
  <2>1. CASE Received > 0
    BY <1>3, <2>1, ReadStrandsNothing DEF FirstRecv, Handling
  <2>2. CASE ~ (Received > 0)
    BY <1>3, <2>2 DEF FirstRecv, su_socket_destroy, StrandInv, RoundInv, NothingStranded,
                      Handling, Waiting
  <2> QED  BY <2>1, <2>2
<1>4. CASE Drain
  <2>1. CASE Received > 0
    BY <1>4, <2>1, ReadStrandsNothing DEF Drain, Handling, kernel
  <2>2. CASE ~ (Received > 0)
    <3>1. peerAt[cur] # NoPeer => ~ (Waiting(peerAt[cur]) > 0)
      BY <1>4, <2>2, ReceivedFacts DEF Drain, StrandInv, RoundInv, Handling
    <3> QED
      BY <1>4, <2>2, <3>1 DEF Drain, StrandInv, RoundInv, NothingStranded, Handling, Waiting,
                              kernel
  <2> QED  BY <2>1, <2>2
<1>5. CASE HangUp
  BY <1>5 DEF HangUp, su_socket_destroy, StrandInv, RoundInv, NothingStranded, Handling, Waiting
<1>6. CASE EndRound
  BY <1>6 DEF EndRound, StrandInv, RoundInv, NothingStranded, Handling, Waiting, kernel
<1> QED  BY <1>1, <1>2, <1>3, <1>4, <1>5, <1>6

\* Every step of the peers, of Process and of main keeps the invariant.
LEMMA StrandNext == StrandInv /\ [Next]_vars => StrandInv'
<1> SUFFICES ASSUME StrandInv, [Next]_vars PROVE StrandInv'
  OBVIOUS
<1>1. CASE UNCHANGED <<kernel, edge, taken, pc, batch, cur>>
  BY <1>1 DEF kernel, StrandInv, RoundInv, NothingStranded, Handling, Waiting
<1>2. CASE signal_exit_handler \/ Main
  BY <1>1, <1>2 DEF signal_exit_handler, Main, Stop, DestroyServer
<1>3. CASE Process
  BY <1>3, WaitStrandsNothing, AcceptStrandsNothing, HandlerStrandsNothing DEF Process
<1>4. CASE \/ \E p \in Peer : Connect(p) \/ Finish(p)
           \/ \E p \in Peer, n \in 1 .. Total : Arrive(p, n)
  <2>1. 1 \in 1 .. Total
    BY TcpServerAssumption
  <2> QED  BY <1>4, <2>1, PeersStrandNothing
<1>5. CASE UNCHANGED vars
  BY <1>1, <1>5 DEF vars, kernel
<1> QED  BY <1>2, <1>3, <1>4, <1>5 DEF Next

\* Edge-triggered epoll reports a change once, and Process loses none: bytes
\* and FINs it has not seen are on the ready list or in the hands of a handler
\* that has yet to read or close, in every interleaving with the peers.
THEOREM NothingStrandedCorrect == Spec => []NothingStranded
<1>1. StrandInv => NothingStranded
  BY DEF StrandInv
<1> QED  BY <1>1, StrandInit, StrandNext, PTL DEF Spec

-----------------------------------------------------------------------------
(* Types, and the names of the clients.                                    *)

NetworkType ==
    /\ connected \subseteq Peer /\ backlog \in Seq(connected)
    /\ arrived \in [Peer -> 0 .. Total] /\ taken \in [Peer -> 0 .. Total]
    /\ \A p \in Peer : taken[p] <= arrived[p]
    /\ fin \in [Peer -> BOOLEAN]
    /\ peerAt \in [Fd -> Peer \cup {NoPeer}]
    /\ edge \in [Fd \cup {Listen} -> BOOLEAN]

LoopType ==
    /\ pc \in {"test", "wait", "dispatch", "first", "drain", "hup", "ended"}
    /\ batch \in [Fd \cup {Listen} -> SUBSET Flag]
    /\ cur \in Fd \cup {Failed}
    /\ signalled \in BOOLEAN /\ running \in BOOLEAN
    /\ main \in {"spin", "join", "exited"}

TableType ==
    /\ clients \in [Fd \cup {Failed} -> Client \cup {0}]
    /\ made \in Client \cup {0} /\ conns \in 0 .. made /\ seen \subseteq Fd \cup {Failed}

BufferType ==
    /\ store \in [Client -> Seq(Peer \X (1 .. Total))]
    /\ size \in [Client -> Nat] /\ told \in [Client -> Nat]

\* Connections the listening socket will still be reported for, or is being
\* handled for: one at most on the ready list and one in hand.
Pending == (IF edge[Listen] THEN 1 ELSE 0) + (IF batch[Listen] # {} THEN 1 ELSE 0)

\* A failed accept leaves its connection in the backlog, and Process is told
\* of it no more: a TcpClient is made at most once for every connection.
AcceptInv == made + Pending <= Cardinality(connected)

\* Entries of clients_ are different objects, an open descriptor has one, and
\* ~TcpServer runs when Process has ended.
TableInv ==
    /\ \A fd \in Fd \cup {Failed} : clients[fd] <= made
    /\ \A fd, gd \in Fd \cup {Failed} : clients[fd] = clients[gd] /\ clients[fd] # 0 => fd = gd
    /\ \A fd \in Fd : peerAt[fd] # NoPeer /\ main # "exited" => clients[fd] # 0
    /\ main # "exited" => conns = made
    /\ main = "exited" => pc = "ended"

TypeInv == TypeOK /\ AcceptInv /\ TableInv

\* The parts of the type invariant, before and after a step.
LEMMA TypeParts ==
    /\ TypeOK <=> NetworkType /\ LoopType /\ TableType /\ BufferType
    /\ TypeOK' <=> NetworkType' /\ LoopType' /\ TableType' /\ BufferType'
BY DEF TypeOK, NetworkType, LoopType, TableType, BufferType

\* Connections are counted.
LEMMA PeerCount ==
    ASSUME NEW S, S \subseteq Peer
    PROVE  /\ IsFiniteSet(S) /\ Cardinality(S) \in Nat
           /\ Cardinality(Peer) \in Nat /\ Cardinality(S) <= Cardinality(Peer)
BY FS_Subset, FS_CardinalityType, TcpServerAssumption

\* The entries of clients_ that point to a TcpClient.
Used == {fd \in Fd \cup {Failed} : clients[fd] # 0}

\* No more clients are found in clients_ than were made.
LEMMA UsedBound ==
    ASSUME TableType, TableInv
    PROVE  IsFiniteSet(Used) /\ Cardinality(Used) \in Nat /\ Cardinality(Used) <= made
<1> DEFINE f == [fd \in Used |-> clients[fd]]
<1>1. made \in Nat
  BY PeerCount DEF TableType, Client
<1>2. \A fd \in Used : clients[fd] \in 1 .. made
  BY <1>1, PeerCount DEF TableType, TableInv, Used, Client
<1>3. f \in [Used -> 1 .. made] /\ \A x, y \in Used : f[x] = f[y] => x = y
  BY <1>2 DEF TableInv, Used
<1>4. f \in Injection(Used, 1 .. made)
  <2>1. DOMAIN f = Used
    OBVIOUS
  <2> HIDE DEF f
  <2> QED  BY <1>3, <2>1 DEF Injection, IsInjective
<1>5. IsFiniteSet(1 .. made) /\ Cardinality(1 .. made) = made
  BY <1>1, FS_Interval
<1> HIDE DEF f
<1> QED  BY <1>4, <1>5, FS_Injection, FS_CardinalityType

\* A step that leaves the objects alone, and the descriptors that are open.
LEMMA TableFrame ==
    ASSUME TypeInv, UNCHANGED <<clients, made, conns, seen, main>>,
           pc = "ended" => pc' = "ended",
           \A fd \in Fd : peerAt'[fd] # NoPeer => peerAt[fd] # NoPeer
    PROVE  TableType' /\ TableInv'
BY TypeParts DEF TypeInv, TableType, TableInv

\* A server that has just started.
LEMMA TypeInit == Init => TypeInv
<1> SUFFICES ASSUME Init PROVE TypeInv
  OBVIOUS
<1> USE FdFacts, TcpServerAssumption
<1>0. Cardinality(Peer) \in Nat /\ Cardinality({}) = 0 /\ <<>> \in Seq({})
  BY PeerCount, FS_EmptySet, EmptySeq
<1>1. NetworkType
  BY <1>0 DEF Init, NetworkType
<1>2. LoopType
  BY DEF Init, LoopType
<1>3. TableType
  BY <1>0 DEF Init, TableType
<1>4. BufferType
  BY EmptySeq DEF Init, BufferType
<1>5. AcceptInv
  BY <1>0 DEF Init, AcceptInv, Pending
<1>6. TableInv
  BY DEF Init, TableInv
<1> QED  BY <1>1, <1>2, <1>3, <1>4, <1>5, <1>6, TypeParts DEF TypeInv

\* The peers connect, send and end.
LEMMA PeersKeepTypes ==
    ASSUME TypeInv, NEW p \in Peer, NEW n \in 1 .. Total,
           Connect(p) \/ Finish(p) \/ Arrive(p, n)
    PROVE  TypeInv'
<1> USE FdFacts, TcpServerAssumption
<1>0. NetworkType /\ LoopType /\ TableType /\ BufferType /\ TableInv /\ AcceptInv
  BY TypeParts DEF TypeInv
<1>1. LoopType' /\ BufferType'
  BY <1>0 DEF Connect, Finish, Arrive, LoopType, BufferType, objects, control
<1>2. TableType' /\ TableInv'
  BY TableFrame DEF Connect, Finish, Arrive, objects, control
<1>3. NetworkType'
  <2>1. CASE Connect(p)
    <3>1. connected' = connected \cup {p} /\ connected' \subseteq Peer
      BY <2>1, <1>0 DEF Connect, NetworkType
    <3>2. backlog' \in Seq(connected')
      <4>1. backlog \in Seq(connected')
        BY <1>0, <3>1, SeqMonotonic DEF NetworkType
      <4> QED  BY <2>1, <3>1, <4>1 DEF Connect
    <3> QED  BY <2>1, <1>0, <3>1, <3>2 DEF Connect, NetworkType
  <2>2. CASE Finish(p)
    BY <2>2, <1>0 DEF Finish, Wake, NetworkType
  <2>3. CASE Arrive(p, n)
    BY <2>3, <1>0 DEF Arrive, Wake, NetworkType
  <2> QED  BY <2>1, <2>2, <2>3
<1>4. AcceptInv'
  <2>0. made \in Nat
    BY <1>0, PeerCount DEF TableType, Client
  <2>1. CASE Connect(p)
    <3>1. /\ connected' = connected \cup {p} /\ p \notin connected /\ connected \subseteq Peer
          /\ UNCHANGED <<made, batch>>
      BY <2>1, <1>0 DEF Connect, NetworkType, objects
    <3>2. Cardinality(connected') = Cardinality(connected) + 1 /\ Cardinality(connected) \in Nat
      BY <3>1, PeerCount, FS_AddElement
    <3>3. Pending' <= Pending + 1 /\ Pending \in Nat /\ Pending' \in Nat
      BY <3>1 DEF Pending
    <3> QED  BY <1>0, <2>0, <3>1, <3>2, <3>3 DEF AcceptInv
  <2>2. CASE Finish(p) \/ Arrive(p, n)
    <3>1. edge'[Listen] = edge[Listen] /\ UNCHANGED <<made, batch, connected>>
      BY <2>2, <1>0 DEF Finish, Arrive, Wake, NetworkType, objects
    <3> QED  BY <1>0, <3>1 DEF AcceptInv, Pending
  <2> QED  BY <2>1, <2>2
<1> QED  BY <1>1, <1>2, <1>3, <1>4, TypeParts DEF TypeInv

\* epoll_wait moves the listening socket from the ready list to the events of
\* the round, or leaves it where it was.
LEMMA WaitKeepsTypes ==
    ASSUME TypeInv, RoundInv, NEW S, EpollWait(S)
    PROVE  TypeInv'
<1> USE FdFacts
<1>0. NetworkType /\ LoopType /\ TableType /\ BufferType /\ TableInv /\ AcceptInv
  BY TypeParts DEF TypeInv
<1>1. /\ batch' = [fd \in Fd \cup {Listen} |-> IF fd \in S THEN Events(fd) ELSE {}]
      /\ edge' = [fd \in Fd \cup {Listen} |-> fd \in Ready \ S]
      /\ pc' = "dispatch" /\ batch[Listen] = {}
      /\ UNCHANGED <<kernel, taken, cur, objects, control>>
  BY <1>0 DEF EpollWait, RoundInv, LoopType, NetworkType
<1>2. \A fd \in Fd \cup {Listen} : Events(fd) \in SUBSET Flag
  BY DEF Events, Flag
<1>3. edge' \in [Fd \cup {Listen} -> BOOLEAN]
  <2>1. \A fd : (fd \in Ready \ S) \in BOOLEAN
    OBVIOUS
  <2> QED  BY <1>1, <2>1
<1>4. NetworkType'
  BY <1>0, <1>1, <1>3 DEF NetworkType, kernel
<1>5. LoopType' /\ BufferType'
  BY <1>0, <1>1, <1>2 DEF LoopType, BufferType, control, objects
<1>6. TableType' /\ TableInv'
  BY <1>1, TableFrame DEF EpollWait, kernel, objects, control
<1>7. AcceptInv'
  <2>1. /\ edge'[Listen] => Listen \in Ready /\ Listen \notin S
        /\ batch'[Listen] # {} => Listen \in S
        /\ S \subseteq Ready
    BY <1>1 DEF EpollWait
  <2>2. Listen \in Ready => edge[Listen]
    BY DEF Ready
  <2>3. Pending' <= Pending /\ Pending' \in Nat /\ Pending \in Nat
    BY <1>1, <2>1, <2>2 DEF Pending
  <2>4. made \in Nat /\ Cardinality(connected) \in Nat
    BY <1>0, PeerCount DEF TableType, NetworkType, Client
  <2> QED  BY <1>0, <1>1, <2>3, <2>4 DEF AcceptInv, kernel, objects
<1> QED  BY <1>4, <1>5, <1>6, <1>7, TypeParts DEF TypeInv

\* An accept uses up the event it was called for, makes a client with a name
\* of its own, and gives an open descriptor an entry.
LEMMA AcceptKeepsTypes == ASSUME TypeInv, RoundInv, AcceptClient PROVE TypeInv'
<1> USE FdFacts
<1>0. NetworkType /\ LoopType /\ TableType /\ BufferType /\ TableInv /\ AcceptInv
  BY TypeParts DEF TypeInv
<1> DEFINE fd == AcceptedFd
           p == Head(backlog)
<1>1. backlog # <<>> /\ p \in connected /\ Tail(backlog) \in Seq(connected)
  BY <1>0, HeadTailProperties DEF AcceptClient, RoundInv, NetworkType
<1>2. fd \in Fd \cup {Failed}
  BY AcceptedFdFacts
<1>3. /\ pc = "dispatch" /\ batch[Listen] # {}
      /\ made' = made + 1 /\ conns' = conns + 1 /\ seen' = seen \cup {fd}
      /\ clients' = IF clients[fd] = 0 THEN [clients EXCEPT ![fd] = made + 1] ELSE clients
      /\ batch' = [batch EXCEPT ![Listen] = {}]
      /\ UNCHANGED <<connected, arrived, fin, taken, pc, cur, store, size, told, control>>
  BY DEF AcceptClient
<1>4. \/ fd = Failed /\ UNCHANGED <<backlog, peerAt, edge>>
      \/ /\ fd # Failed /\ backlog' = Tail(backlog)
         /\ peerAt' = [peerAt EXCEPT ![fd] = p]
         /\ edge' = [edge EXCEPT ![fd] = Waiting(p) > 0 \/ fin[p]]
  BY DEF AcceptClient, EpollAdd
<1> HIDE DEF fd, p
<1>5. made \in Nat /\ Cardinality(connected) \in Nat /\ Cardinality(connected) <= Cardinality(Peer)
      /\ Cardinality(Peer) \in Nat
  BY <1>0, PeerCount DEF TableType, NetworkType, Client
<1>6. NetworkType'
  BY <1>0, <1>1, <1>2, <1>3, <1>4 DEF NetworkType
<1>7. LoopType' /\ BufferType'
  BY <1>0, <1>3 DEF LoopType, BufferType, control
<1>8. Pending' + 1 <= Pending /\ Pending \in Nat /\ Pending' \in Nat
  <2>1. edge'[Listen] = edge[Listen]
    BY <1>0, <1>2, <1>4 DEF NetworkType
  <2>2. batch'[Listen] = {}
    BY <1>0, <1>3 DEF LoopType
  <2> QED  BY <1>3, <2>1, <2>2 DEF Pending
<1>9. AcceptInv' /\ made + 1 <= Cardinality(Peer)
  <2>1. made + Pending <= Cardinality(connected)
    BY <1>0 DEF AcceptInv
  <2>2. made + 1 + Pending' <= Cardinality(connected) /\ made + 1 <= Cardinality(Peer)
    <3>1. \A k, r, s, x, y \in Nat : r + 1 <= s /\ k + s <= x /\ x <= y
             => k + 1 + r <= x /\ k + 1 <= y
      OBVIOUS
    <3> QED  BY <1>5, <1>8, <2>1, <3>1
  <2>3. made' = made + 1 /\ connected' = connected
    BY <1>3
  <2> QED  BY <2>2, <2>3 DEF AcceptInv
<1>10. TableType'
  <2>1. made + 1 \in Client
    BY <1>5, <1>9 DEF Client
  <2>2. clients' \in [Fd \cup {Failed} -> Client \cup {0}]
    BY <1>0, <1>2, <1>3, <2>1 DEF TableType
  <2>3. conns' \in 0 .. made'
    BY <1>0, <1>3, <1>5 DEF TableType
  <2>4. seen' \subseteq Fd \cup {Failed}
    BY <1>0, <1>2, <1>3 DEF TableType
  <2> QED  BY <1>3, <2>1, <2>2, <2>3, <2>4 DEF TableType
<1>11. TableInv'
  <2>1. \A x \in Fd \cup {Failed} : clients[x] \in Nat /\ clients[x] <= made
    BY <1>0, <1>5 DEF TableType, TableInv, Client
  <2>2. \A x \in Fd \cup {Failed} :
           \/ clients'[x] = clients[x]
           \/ x = fd /\ clients[x] = 0 /\ clients'[x] = made + 1
    BY <1>0, <1>2, <1>3 DEF TableType
  <2>3. \A x \in Fd \cup {Failed} : clients'[x] <= made'
    BY <1>3, <1>5, <2>1, <2>2
  <2>4. \A x, y \in Fd \cup {Failed} : clients'[x] = clients'[y] /\ clients'[x] # 0 => x = y
    <3>1. \A x, y \in Fd \cup {Failed} : clients[x] = clients[y] /\ clients[x] # 0 => x = y
      BY <1>0 DEF TableInv
    <3>2. \A x \in Fd \cup {Failed} : clients[x] # made + 1
      BY <1>5, <2>1
    <3> QED  BY <2>2, <3>1, <3>2
  <2>5. clients'[fd] # 0
    BY <1>0, <1>2, <1>3, <1>5 DEF TableType
  <2>6. \A x \in Fd : peerAt'[x] # NoPeer => x = fd \/ peerAt[x] # NoPeer
    BY <1>0, <1>4 DEF NetworkType
  <2>7. main # "exited" /\ UNCHANGED <<main, pc>>
    BY <1>0, <1>3 DEF TableInv, control
  <2>8. \A x \in Fd : peerAt'[x] # NoPeer => clients'[x] # 0
    BY <1>0, <2>2, <2>5, <2>6, <2>7, <1>5 DEF TableInv
  <2>9. conns' = made'
    BY <1>0, <1>3, <2>7 DEF TableInv
  <2> QED  BY <2>3, <2>4, <2>7, <2>8, <2>9 DEF TableInv
<1> QED  BY <1>6, <1>7, <1>9, <1>10, <1>11, TypeParts DEF TypeInv

\* TcpClient::OnNewData appends what recv returned to the buffer of the client
\* that the descriptor has, and changes no other client.
LEMMA NewDataFacts ==
    ASSUME TypeInv, RoundInv, Handling, Received > 0, OnNewData(clients[cur], Received)
    PROVE  LET p == peerAt[cur]
               c == clients[cur]
               n == Received
           IN  /\ cur \in Fd /\ p \in Peer /\ c \in Client /\ n \in Nat \ {0}
               /\ taken[p] + n <= arrived[p]
               /\ taken' = [taken EXCEPT ![p] = @ + n]
               /\ BufferType'
               /\ \A d \in Client \ {c} : store'[d] = store[d] /\ size'[d] = size[d]
                                          /\ told'[d] = told[d]
               /\ Len(store[c]) \in Nat /\ Len(store'[c]) = Len(store[c]) + n
               /\ \A i \in 1 .. Len(store[c]) : store'[c][i] = store[c][i]
               /\ \A i \in 1 .. n : store'[c][Len(store[c]) + i] = <<p, taken[p] + i>>
               /\ size'[c] \in {size[c], size[c] + n}
               /\ told'[c] = told[c] \/ told'[c] <= size'[c]
<1> DEFINE p == peerAt[cur]
           c == clients[cur]
           n == Received
           new == [i \in 1 .. n |-> <<p, taken[p] + i>>]
<1>0. NetworkType /\ LoopType /\ TableType /\ BufferType /\ TableInv
  BY TypeParts DEF TypeInv
<1>1. cur \in Fd /\ p \in Peer /\ n \in Int
  BY ReceivedFacts DEF RoundInv
<1>2. c \in Client
  <2>1. main # "exited" /\ p # NoPeer
    BY <1>0, <1>1, TcpServerAssumption DEF Handling, TableInv
  <2> QED  BY <1>0, <1>1, <2>1 DEF TableType, TableInv
<1>3. /\ taken[p] \in 0 .. Total /\ arrived[p] \in 0 .. Total /\ Total \in Nat
      /\ n \in Nat \ {0} /\ taken[p] + n <= arrived[p]
  <2>1. taken[p] \in 0 .. Total /\ arrived[p] \in 0 .. Total
    BY <1>0, <1>1 DEF NetworkType
  <2>2. n <= arrived[p] - taken[p] /\ n > 0
    BY <1>1, <2>1, TcpServerAssumption DEF Received, Waiting, Lesser
  <2> HIDE DEF n, p
  <2> QED  BY <1>1, <2>1, <2>2, TcpServerAssumption
<1>4. /\ store' = [store EXCEPT ![c] = @ \o new]
      /\ taken' = [taken EXCEPT ![p] = @ + n]
      /\ size' = [size EXCEPT ![c] = CountedSize(c, n)]
      /\ \/ told' = told
         \/ \E a \in SizesIn(store'[c]) : size'[c] >= a /\ told' = [told EXCEPT ![c] = a]
  BY DEF OnNewData
<1>5. CountedSize(c, n) \in {size[c], size[c] + n}
  BY DEF CountedSize
<1>6. \A s : SizesIn(s) \subseteq Nat
  BY TcpServerAssumption DEF SizesIn
<1> HIDE DEF p, c, n
<1>7. new \in Seq(Peer \X (1 .. Total)) /\ Len(new) = n
  <2>1. \A i \in 1 .. n : <<p, taken[p] + i>> \in Peer \X (1 .. Total)
    BY <1>1, <1>3
  <2> QED  BY <1>3, <2>1
<1>8. \A i \in 1 .. n : new[i] = <<p, taken[p] + i>>
  OBVIOUS
<1> HIDE DEF new
<1>9. store[c] \in Seq(Peer \X (1 .. Total)) /\ Len(store[c]) \in Nat
  BY <1>0, <1>2, LenProperties DEF BufferType
<1>10. /\ store[c] \o new \in Seq(Peer \X (1 .. Total))
       /\ Len(store[c] \o new) = Len(store[c]) + n
       /\ \A i \in 1 .. Len(store[c]) : (store[c] \o new)[i] = store[c][i]
       /\ \A i \in 1 .. n : (store[c] \o new)[Len(store[c]) + i] = <<p, taken[p] + i>>
  <2>1. /\ store[c] \o new \in Seq(Peer \X (1 .. Total))
        /\ Len(store[c] \o new) = Len(store[c]) + n
        /\ \A i \in 1 .. Len(store[c]) + n : (store[c] \o new)[i] =
              IF i <= Len(store[c]) THEN store[c][i] ELSE new[i - Len(store[c])]
    BY <1>7, <1>9, ConcatProperties
  <2>2. \A i \in 1 .. n : /\ Len(store[c]) + i \in 1 .. Len(store[c]) + n
                          /\ ~ (Len(store[c]) + i <= Len(store[c]))
                          /\ Len(store[c]) + i - Len(store[c]) = i
    BY <1>3, <1>9
  <2>3. \A i \in 1 .. Len(store[c]) : i \in 1 .. Len(store[c]) + n /\ i <= Len(store[c])
    BY <1>3, <1>9
  <2> QED  BY <1>8, <2>1, <2>2, <2>3
<1>11. /\ store' \in [Client -> Seq(Peer \X (1 .. Total))] /\ store'[c] = store[c] \o new
       /\ \A d \in Client \ {c} : store'[d] = store[d]
  BY <1>0, <1>2, <1>4, <1>10 DEF BufferType
<1>12. /\ size' \in [Client -> Nat] /\ size'[c] \in {size[c], size[c] + n}
       /\ \A d \in Client \ {c} : size'[d] = size[d]
  BY <1>0, <1>2, <1>3, <1>4, <1>5 DEF BufferType
<1>13. /\ told' \in [Client -> Nat] /\ (told'[c] = told[c] \/ told'[c] <= size'[c])
       /\ \A d \in Client \ {c} : told'[d] = told[d]
  <2>1. CASE told' = told
    BY <2>1, <1>0 DEF BufferType
  <2>2. CASE told' # told
    <3>1. PICK a \in SizesIn(store'[c]) : size'[c] >= a /\ told' = [told EXCEPT ![c] = a]
      BY <1>4, <2>2
    <3>2. a \in Nat
      BY <1>6
    <3> QED  BY <1>0, <1>2, <1>12, <3>1, <3>2 DEF BufferType
  <2> QED  BY <2>1, <2>2
<1>14. BufferType'
  BY <1>11, <1>12, <1>13 DEF BufferType
<1>15. /\ \A d \in Client \ {c} : store'[d] = store[d] /\ size'[d] = size[d] /\ told'[d] = told[d]
       /\ Len(store'[c]) = Len(store[c]) + n
       /\ \A i \in 1 .. Len(store[c]) : store'[c][i] = store[c][i]
       /\ \A i \in 1 .. n : store'[c][Len(store[c]) + i] = <<p, taken[p] + i>>
  BY <1>10, <1>11, <1>12, <1>13
<1> QED  BY <1>1, <1>2, <1>3, <1>4, <1>9, <1>12, <1>13, <1>14, <1>15 DEF p, c, n

\* Closing a descriptor leaves the others alone.
LEMMA CloseKeepsNetwork ==
    ASSUME NetworkType, cur \in Fd, su_socket_destroy(cur),
           UNCHANGED <<connected, backlog, arrived, fin, taken>>
    PROVE  /\ NetworkType' /\ edge'[Listen] = edge[Listen]
           /\ \A fd \in Fd : peerAt'[fd] # NoPeer => peerAt'[fd] = peerAt[fd]
BY FdFacts DEF su_socket_destroy, NetworkType

\* The handler of one descriptor, and the steps between rounds.
LEMMA HandlerKeepsTypes ==
    ASSUME TypeInv, RoundInv,
           \/ TestRunning \/ FirstRecv \/ Drain \/ HangUp \/ EndRound
           \/ \E fd \in Fd : StartClient(fd)
    PROVE  TypeInv'
<1>0. NetworkType /\ LoopType /\ TableType /\ BufferType /\ TableInv /\ AcceptInv
  BY TypeParts DEF TypeInv
<1>1. /\ pc # "ended" /\ UNCHANGED <<connected, backlog, arrived, fin, clients, made, conns, seen,
                                   control>>
      /\ batch' = batch \/ (pc = "hup" /\ batch' = [batch EXCEPT ![cur] = {}])
  BY DEF TestRunning, FirstRecv, Drain, HangUp, EndRound, StartClient, kernel, objects
<1>2. LoopType'
  BY <1>0 DEF TestRunning, FirstRecv, Drain, HangUp, EndRound, StartClient, LoopType, control
<1>3. (pc \in {"first", "hup", "drain"} => cur \in Fd) /\ Listen \notin Fd
  BY FdFacts DEF RoundInv, Handling
<1>4. /\ NetworkType' /\ BufferType' /\ edge'[Listen] = edge[Listen]
      /\ \A fd \in Fd : peerAt'[fd] # NoPeer => peerAt[fd] # NoPeer
  <2>1. CASE UNCHANGED <<kernel, edge, taken, store, size, told>>
    BY <2>1, <1>0 DEF kernel, NetworkType, BufferType
  <2>2. CASE /\ pc \in {"first", "hup"} /\ su_socket_destroy(cur)
             /\ UNCHANGED <<connected, backlog, arrived, fin, taken, store, size, told>>
    BY <2>2, <1>0, <1>3, CloseKeepsNetwork DEF BufferType
  <2>3. CASE /\ Handling /\ Received > 0 /\ OnNewData(clients[cur], Received)
             /\ UNCHANGED <<connected, backlog, arrived, fin, peerAt, edge>>
    <3>1. /\ peerAt[cur] \in Peer /\ Received \in Nat \ {0} /\ BufferType'
          /\ taken[peerAt[cur]] + Received <= arrived[peerAt[cur]]
          /\ taken' = [taken EXCEPT ![peerAt[cur]] = @ + Received]
      BY <2>3, NewDataFacts
    <3>2. NetworkType'
      <4> DEFINE p == peerAt[cur]
                 n == Received
      <4>1. /\ p \in Peer /\ n \in Nat \ {0} /\ taken[p] + n <= arrived[p]
            /\ taken' = [taken EXCEPT ![p] = @ + n]
        BY <3>1
      <4> HIDE DEF p, n
      <4>2. taken' \in [Peer -> 0 .. Total] /\ \A q \in Peer : taken'[q] <= arrived[q]
        <5>1. /\ taken \in [Peer -> 0 .. Total] /\ arrived \in [Peer -> 0 .. Total] /\ Total \in Nat
              /\ \A q \in Peer : taken[q] <= arrived[q]
          BY <1>0, TcpServerAssumption DEF NetworkType
        <5>2. taken[p] + n \in 0 .. Total
          BY <4>1, <5>1
        <5> QED  BY <4>1, <5>1, <5>2
      <4> QED  BY <1>0, <2>3, <4>2 DEF NetworkType
    <3> QED  BY <2>3, <3>1, <3>2
  <2> QED  BY <2>1, <2>2, <2>3
           DEF TestRunning, FirstRecv, Drain, HangUp, EndRound, StartClient, Handling, objects, kernel
<1>5. TableType' /\ TableInv'
  BY <1>1, <1>4, TableFrame DEF control
<1>6. AcceptInv'
  <2>1. batch'[Listen] = batch[Listen]
    BY <1>0, <1>1, <1>3 DEF LoopType
  <2> QED  BY <1>0, <1>1, <1>4, <2>1 DEF AcceptInv, Pending
<1> QED  BY <1>2, <1>4, <1>5, <1>6, TypeParts DEF TypeInv

\* main: ~TcpServer finds no more clients than there are.
LEMMA MainKeepsTypes == ASSUME TypeInv, signal_exit_handler \/ Main PROVE TypeInv'
<1>0. NetworkType /\ LoopType /\ TableType /\ BufferType /\ TableInv /\ AcceptInv
  BY TypeParts DEF TypeInv
<1>1. /\ UNCHANGED <<connected, backlog, arrived, fin, peerAt, edge, taken, pc, batch, cur>>
      /\ UNCHANGED <<made, store, size, told, seen>>
  BY DEF signal_exit_handler, Main, Stop, DestroyServer, kernel, objects
<1>2. NetworkType' /\ LoopType' /\ BufferType' /\ AcceptInv'
  <2>1. NetworkType' /\ BufferType' /\ AcceptInv'
    BY <1>0, <1>1 DEF NetworkType, BufferType, AcceptInv, Pending
  <2>2. LoopType'
    BY <1>0, <1>1 DEF signal_exit_handler, Main, Stop, DestroyServer, LoopType
  <2> QED  BY <2>1, <2>2
<1>3. CASE DestroyServer
  <2>1. IsFiniteSet(Used) /\ Cardinality(Used) \in Nat /\ Cardinality(Used) <= made
    BY <1>0, UsedBound
  <2>2. /\ main = "join" /\ main' = "exited" /\ pc = "ended"
        /\ conns' = conns - Cardinality(Used) /\ clients' = [fd \in Fd \cup {Failed} |-> 0]
    BY <1>0, <1>3 DEF DestroyServer, TableType, Used
  <2>3. conns = made /\ made \in Nat
    BY <1>0, <2>2, PeerCount DEF TableInv, TableType, Client
  <2>4. conns' \in 0 .. made
    BY <2>1, <2>2, <2>3
  <2>5. TableType' /\ TableInv'
    BY <1>0, <1>1, <2>2, <2>3, <2>4 DEF TableType, TableInv
  <2> QED  BY <1>2, <2>5, TypeParts DEF TypeInv
<1>4. CASE signal_exit_handler \/ Stop
  <2>1. UNCHANGED <<clients, made, conns>> /\ (main' = "exited" <=> main = "exited")
    BY <1>4 DEF signal_exit_handler, Stop, objects
  <2>2. TableType' /\ TableInv'
    BY <1>0, <1>1, <2>1 DEF TableType, TableInv
  <2> QED  BY <1>2, <2>2, TypeParts DEF TypeInv
<1> QED  BY <1>3, <1>4 DEF Main

\* Every step of the peers, of Process and of main keeps the types.
LEMMA TypeNext == TypeInv /\ StrandInv /\ [Next]_vars => TypeInv'
<1> SUFFICES ASSUME TypeInv, RoundInv, [Next]_vars PROVE TypeInv'
  BY DEF StrandInv
<1>1. CASE Process
  BY <1>1, WaitKeepsTypes, AcceptKeepsTypes, HandlerKeepsTypes DEF Process
<1>2. CASE \/ \E p \in Peer : Connect(p) \/ Finish(p)
           \/ \E p \in Peer, n \in 1 .. Total : Arrive(p, n)
  <2>1. 1 \in 1 .. Total
    BY TcpServerAssumption
  <2> QED  BY <1>2, <2>1, PeersKeepTypes
<1>3. CASE signal_exit_handler \/ Main
  BY <1>3, MainKeepsTypes
<1>4. CASE UNCHANGED vars
  BY <1>4 DEF vars, TypeInv, TypeOK, AcceptInv, Pending, TableInv
<1> QED  BY <1>1, <1>2, <1>3, <1>4 DEF Next

\* Every name, count and list of the server stays in its range: a TcpClient is
\* made at most once for a connection, although accept may fail and the
\* connection stays in the backlog, reading never goes beyond what arrived,
\* and no data are handed to a client that does not exist.
THEOREM TypeCorrect == Spec => []TypeOK
<1>1. TypeInv => TypeOK
  BY DEF TypeInv
<1> QED  BY <1>1, StrandInit, StrandNext, TypeInit, TypeNext, PTL DEF Spec

-----------------------------------------------------------------------------
(* Where the bytes go.                                                     *)

Waits(p) == \E i \in 1 .. Len(backlog) : backlog[i] = p

\* A connection waits once, is not read before it is accepted, and is behind
\* one descriptor at a time.
PeerInv ==
    /\ \A i, j \in 1 .. Len(backlog) : backlog[i] = backlog[j] => i = j
    /\ \A p \in Peer : p \notin connected \/ Waits(p) =>
          taken[p] = 0 /\ \A fd \in Fd : peerAt[fd] # p
    /\ \A fd, gd \in Fd : peerAt[fd] = peerAt[gd] /\ peerAt[fd] # NoPeer => fd = gd

\* The last bytes of s are all that was read of p.
EndsWith(s, p) ==
    /\ taken[p] <= Len(s)
    /\ \A i \in 1 .. taken[p] : s[Len(s) - taken[p] + i] = <<p, i>>

\* Whose buffer it may have been before, it now ends with what the peer behind
\* the descriptor has sent; and data_size is not ahead of the buffer.
TailInv ==
    \A fd \in Fd : peerAt[fd] # NoPeer /\ main # "exited"
        => EndsWith(store[clients[fd]], peerAt[fd])
SizeInv == \A c \in Client : size[c] <= Len(store[c]) /\ told[c] <= Len(store[c])

StoreInv == PeerInv /\ TailInv /\ SizeInv /\ ReceivedOnce

\* The bytes of a peer lie together, no byte is stored twice, and none that
\* was not received.
Together(p) ==
    \E c \in Client : \E k \in 0 .. Len(store[c]) - taken[p] :
        \A i \in 1 .. taken[p] : store[c][k + i] = <<p, i>>
Distinct ==
    \A c, d \in Client : \A i \in 1 .. Len(store[c]), j \in 1 .. Len(store[d]) :
        store[c][i] = store[d][j] => c = d /\ i = j
Genuine == \A c \in Client : \A i \in 1 .. Len(store[c]) : store[c][i][2] <= taken[store[c][i][1]]

\* ReceivedOnce in its parts, before and after a step.
LEMMA ReceivedParts ==
    /\ ReceivedOnce <=> (\A p \in Peer : taken[p] > 0 => Together(p)) /\ Distinct /\ Genuine
    /\ ReceivedOnce' <=> (\A p \in Peer : taken'[p] > 0 => Together(p)') /\ Distinct' /\ Genuine'
BY DEF ReceivedOnce, Together, Distinct, Genuine

\* Steps that read nothing.
LEMMA ReceivedFrame ==
    ASSUME ReceivedOnce, UNCHANGED <<store, taken>>
    PROVE  ReceivedOnce'
<1>1. store' = store /\ taken' = taken
  OBVIOUS
<1>2. \A p \in Peer : Together(p)' <=> Together(p)
  BY <1>1 DEF Together
<1>3. ASSUME Distinct PROVE Distinct'
  <2> SUFFICES ASSUME NEW c \in Client, NEW d \in Client, NEW i \in 1 .. Len(store'[c]),
                      NEW j \in 1 .. Len(store'[d]), store'[c][i] = store'[d][j]
               PROVE  c = d /\ i = j
    BY DEF Distinct
  <2>1. i \in 1 .. Len(store[c]) /\ j \in 1 .. Len(store[d]) /\ store[c][i] = store[d][j]
    BY <1>1
  <2> QED  BY <1>3, <2>1 DEF Distinct
<1>4. Genuine' <=> Genuine
  BY <1>1, Zenon DEF Genuine
<1> QED  BY <1>1, <1>2, <1>3, <1>4, ReceivedParts

\* A server that has just started.
LEMMA StoreInit == Init => StoreInv
<1> SUFFICES ASSUME Init PROVE StoreInv
  OBVIOUS
<1>1. Len(<<>>) = 0 /\ 1 .. 0 = {}
  BY EmptySeq
<1>2. PeerInv
  BY <1>1, TcpServerAssumption DEF Init, PeerInv, Waits
<1>3. TailInv /\ SizeInv
  BY <1>1 DEF Init, TailInv, SizeInv
<1>4. ReceivedOnce
  BY <1>1 DEF Init, ReceivedOnce
<1> QED  BY <1>2, <1>3, <1>4 DEF StoreInv

\* A step that neither reads nor accepts.  It may close descriptors.
LEMMA StoreFrame ==
    ASSUME StoreInv, UNCHANGED <<connected, backlog, taken, store, size, told>>,
           \A fd \in Fd : peerAt'[fd] # NoPeer => peerAt'[fd] = peerAt[fd],
           main' # "exited" => main # "exited" /\ clients' = clients
    PROVE  StoreInv'
<1>1. \A p : Waits(p)' = Waits(p)
  BY DEF Waits
<1>2. PeerInv'
  <2>1. \A i, j \in 1 .. Len(backlog') : backlog'[i] = backlog'[j] => i = j
    BY DEF StoreInv, PeerInv
  <2>2. ASSUME NEW p \in Peer, p \notin connected' \/ Waits(p)'
        PROVE  taken'[p] = 0 /\ \A fd \in Fd : peerAt'[fd] # p
    BY <1>1, <2>2, TcpServerAssumption DEF StoreInv, PeerInv
  <2>3. \A fd, gd \in Fd : peerAt'[fd] = peerAt'[gd] /\ peerAt'[fd] # NoPeer => fd = gd
    BY DEF StoreInv, PeerInv
  <2> QED  BY <2>1, <2>2, <2>3 DEF PeerInv
<1>3. TailInv'
  BY DEF StoreInv, TailInv, EndsWith
<1>4. SizeInv' /\ ReceivedOnce'
  BY ReceivedFrame DEF StoreInv, SizeInv
<1> QED  BY <1>2, <1>3, <1>4 DEF StoreInv

\* A new connection goes to the end of the backlog.
LEMMA ConnectStores ==
    ASSUME TypeInv, StoreInv, NEW p \in Peer, Connect(p)
    PROVE  StoreInv'
<1>1. /\ connected' = connected \cup {p} /\ p \notin connected /\ backlog' = Append(backlog, p)
      /\ UNCHANGED <<taken, store, size, told, peerAt, clients, main>>
  BY DEF Connect, objects, control
<1>2. backlog \in Seq(connected) /\ Len(backlog) \in Nat
  BY LenProperties DEF TypeInv, TypeOK
<1>3. /\ Len(backlog') = Len(backlog) + 1 /\ backlog'[Len(backlog) + 1] = p
      /\ \A i \in 1 .. Len(backlog) : backlog'[i] = backlog[i] /\ backlog[i] # p
  <2>1. \A i \in 1 .. Len(backlog) : backlog[i] \in connected
    BY <1>2, ElementOfSeq
  <2>2. backlog \in Seq(connected \cup {p})
    BY <1>2, SeqMonotonic
  <2> QED  BY <1>1, <2>1, <2>2, AppendProperties
<1>4. \A i \in 1 .. Len(backlog') : i \in 1 .. Len(backlog) \/ i = Len(backlog) + 1
  BY <1>2, <1>3
<1>5. PeerInv'
  <2>1. \A i, j \in 1 .. Len(backlog') : backlog'[i] = backlog'[j] => i = j
    BY <1>3, <1>4 DEF StoreInv, PeerInv
  <2>2. ASSUME NEW q \in Peer, q \notin connected' \/ Waits(q)'
        PROVE  q \notin connected \/ Waits(q)
    <3>1. CASE q = p
      BY <3>1, <1>1
    <3>2. CASE q # p /\ Waits(q)'
      <4>1. PICK i \in 1 .. Len(backlog') : backlog'[i] = q
        BY <3>2 DEF Waits
      <4>2. i \in 1 .. Len(backlog) /\ backlog[i] = q
        BY <3>2, <4>1, <1>3, <1>4
      <4> QED  BY <4>2 DEF Waits
    <3> QED  BY <2>2, <3>1, <3>2, <1>1
  <2>3. \A q \in Peer : q \notin connected' \/ Waits(q)' =>
            taken'[q] = 0 /\ \A fd \in Fd : peerAt'[fd] # q
    BY <1>1, <2>2 DEF StoreInv, PeerInv
  <2>4. \A fd, gd \in Fd : peerAt'[fd] = peerAt'[gd] /\ peerAt'[fd] # NoPeer => fd = gd
    BY <1>1 DEF StoreInv, PeerInv
  <2> QED  BY <2>1, <2>3, <2>4 DEF PeerInv
<1>6. TailInv' /\ SizeInv'
  BY <1>1 DEF StoreInv, TailInv, EndsWith, SizeInv
<1>7. ReceivedOnce'
  BY <1>1, ReceivedFrame DEF StoreInv
<1> QED  BY <1>5, <1>6, <1>7 DEF StoreInv

\* An accepted connection leaves the backlog; nothing was read of it.
LEMMA AcceptStores ==
    ASSUME TypeInv, RoundInv, StoreInv, AcceptClient, TypeInv'
    PROVE  StoreInv'
<1> DEFINE fd == AcceptedFd
           p == Head(backlog)
<1>1. /\ backlog \in Seq(connected) /\ backlog # <<>> /\ connected \subseteq Peer
      /\ peerAt \in [Fd -> Peer \cup {NoPeer}]
      /\ clients \in [Fd \cup {Failed} -> Client \cup {0}]
  BY DEF AcceptClient, RoundInv, TypeInv, TypeOK
<1>2. UNCHANGED <<connected, taken, store, size, told, main>> /\ main # "exited"
  BY DEF AcceptClient, control, TypeInv, TableInv
<1>3. /\ fd = Failed => UNCHANGED <<backlog, peerAt>>
      /\ fd # Failed => backlog' = Tail(backlog) /\ peerAt' = [peerAt EXCEPT ![fd] = p]
      /\ clients' = clients \/ (clients[fd] = 0 /\ clients' = [clients EXCEPT ![fd] = made'])
  BY DEF AcceptClient
<1>4. fd # Failed => fd \in Fd
  BY AcceptedFdFacts
<1>5. SizeInv' /\ ReceivedOnce'
  BY <1>2, ReceivedFrame DEF StoreInv, SizeInv
<1> HIDE DEF fd
<1>6. \A x \in Fd : x # fd /\ peerAt[x] # NoPeer => clients'[x] = clients[x]
  BY <1>1, <1>3
<1>7. CASE fd = Failed
  <2>1. \A q : Waits(q)' = Waits(q)
    BY <1>3, <1>7 DEF Waits
  <2>2. PeerInv'
    BY <1>2, <1>3, <1>7, <2>1 DEF StoreInv, PeerInv
  <2>3. TailInv'
    BY <1>2, <1>3, <1>6, <1>7, FdFacts DEF StoreInv, TailInv, EndsWith
  <2> QED  BY <1>5, <2>2, <2>3 DEF StoreInv
<1>8. CASE fd # Failed
  <2>1. /\ Len(backlog) \in Nat \ {0} /\ p = backlog[1] /\ p \in connected
        /\ Len(backlog') = Len(backlog) - 1
        /\ \A i \in 1 .. Len(backlog') : i + 1 \in 1 .. Len(backlog) /\ backlog'[i] = backlog[i + 1]
    BY <1>1, <1>3, <1>8, HeadTailProperties, EmptySeq
  <2>2. p \in Peer /\ p # NoPeer /\ Waits(p) /\ 1 \in 1 .. Len(backlog)
    BY <1>1, <2>1, TcpServerAssumption DEF Waits
  <2> HIDE DEF p
  <2>3. taken[p] = 0 /\ \A x \in Fd : peerAt[x] # p
    BY <2>2 DEF StoreInv, PeerInv
  <2>4. peerAt'[fd] = p /\ \A x \in Fd : x # fd => peerAt'[x] = peerAt[x]
    BY <1>1, <1>3, <1>4, <1>8
  <2>5. \A q \in Peer : Waits(q)' => Waits(q) /\ q # p
    <3> SUFFICES ASSUME NEW q \in Peer, Waits(q)' PROVE Waits(q) /\ q # p
      OBVIOUS
    <3>1. PICK i \in 1 .. Len(backlog') : backlog'[i] = q
      BY DEF Waits
    <3>2. i + 1 \in 1 .. Len(backlog) /\ backlog[i + 1] = q /\ i + 1 # 1
      BY <2>1, <3>1
    <3>3. q # p
      BY <2>1, <2>2, <3>2 DEF StoreInv, PeerInv
    <3> QED  BY <3>2, <3>3 DEF Waits
  <2>6. PeerInv'
    <3>1. \A i, j \in 1 .. Len(backlog') : backlog'[i] = backlog'[j] => i = j
      <4> SUFFICES ASSUME NEW i \in 1 .. Len(backlog'), NEW j \in 1 .. Len(backlog'),
                          backlog'[i] = backlog'[j]
                   PROVE  i = j
        OBVIOUS
      <4>1. i + 1 = j + 1
        BY <2>1 DEF StoreInv, PeerInv
      <4> QED  BY <4>1, <2>1
    <3>2. ASSUME NEW q \in Peer, q \notin connected' \/ Waits(q)'
          PROVE  taken'[q] = 0 /\ \A x \in Fd : peerAt'[x] # q
      <4>1. q # p /\ (q \notin connected \/ Waits(q))
        BY <3>2, <2>1, <2>5, <1>2
      <4>2. taken[q] = 0 /\ \A x \in Fd : peerAt[x] # q
        BY <4>1 DEF StoreInv, PeerInv
      <4> QED  BY <4>1, <4>2, <2>4, <1>2
    <3>3. \A x, y \in Fd : peerAt'[x] = peerAt'[y] /\ peerAt'[x] # NoPeer => x = y
      BY <2>3, <2>4 DEF StoreInv, PeerInv
    <3> QED  BY <3>1, <3>2, <3>3 DEF PeerInv
  <2>7. TailInv'
    <3> SUFFICES ASSUME NEW x \in Fd, peerAt'[x] # NoPeer
                 PROVE  EndsWith(store[clients[x]], peerAt[x])'
      BY DEF TailInv
    <3>1. CASE x = fd
      <4>1. clients'[x] \in Client
        BY <3>1, <1>2, <2>2, <2>4 DEF TypeInv, TypeOK, TableInv
      <4>2. Len(store'[clients'[x]]) \in Nat
        BY <4>1, LenProperties DEF TypeInv, TypeOK
      <4> QED  BY <3>1, <4>2, <1>2, <2>3, <2>4 DEF EndsWith
    <3>2. CASE x # fd
      <4>1. peerAt'[x] = peerAt[x] /\ clients'[x] = clients[x]
        BY <3>2, <2>4, <1>6
      <4>2. EndsWith(store[clients[x]], peerAt[x])
        BY <4>1, <1>2 DEF StoreInv, TailInv
      <4> QED  BY <4>1, <4>2, <1>2 DEF EndsWith
    <3> QED  BY <3>1, <3>2
  <2> QED  BY <1>5, <2>6, <2>7 DEF StoreInv
<1> QED  BY <1>7, <1>8

\* What recv returned is appended to the buffer that ends with what was read
\* of the same peer before.
LEMMA ReadStores ==
    ASSUME TypeInv, RoundInv, StoreInv, Handling, Received > 0,
           OnNewData(clients[cur], Received),
           UNCHANGED <<connected, backlog, peerAt, clients, main>>
    PROVE  StoreInv'
<1> DEFINE p == peerAt[cur]
           c == clients[cur]
           n == Received
           L == Len(store[c])
           t == taken[p]
<1>1. /\ cur \in Fd /\ p \in Peer /\ c \in Client /\ n \in Nat \ {0}
      /\ taken' = [taken EXCEPT ![p] = @ + n]
      /\ \A d \in Client \ {c} : store'[d] = store[d] /\ size'[d] = size[d] /\ told'[d] = told[d]
      /\ L \in Nat /\ Len(store'[c]) = L + n
      /\ \A i \in 1 .. L : store'[c][i] = store[c][i]
      /\ \A i \in 1 .. n : store'[c][L + i] = <<p, t + i>>
      /\ size'[c] \in {size[c], size[c] + n}
      /\ told'[c] = told[c] \/ told'[c] <= size'[c]
      /\ BufferType'
  BY NewDataFacts
<1>2. /\ taken \in [Peer -> 0 .. Total] /\ size \in [Client -> Nat] /\ told \in [Client -> Nat]
      /\ store \in [Client -> Seq(Peer \X (1 .. Total))]
      /\ clients \in [Fd \cup {Failed} -> Client \cup {0}] /\ Total \in Nat
      /\ peerAt \in [Fd -> Peer \cup {NoPeer}]
  BY TcpServerAssumption DEF TypeInv, TypeOK
<1>3. main # "exited" /\ p # NoPeer /\ \A x \in Fd : peerAt[x] # NoPeer /\ x # cur =>
          clients[x] \in Client \ {c} /\ peerAt[x] \in Peer \ {p}
  <2>1. main # "exited" /\ p # NoPeer
    BY <1>1, TcpServerAssumption DEF TypeInv, TableInv, Handling
  <2>2. c # 0 /\ \A x \in Fd : peerAt[x] # NoPeer => clients[x] # 0
    BY <1>1, <2>1 DEF TypeInv, TableInv
  <2>3. \A x \in Fd : x # cur /\ peerAt[x] # NoPeer => clients[x] # c
    BY <1>1, <2>2 DEF TypeInv, TableInv
  <2>4. \A x \in Fd : x # cur /\ peerAt[x] # NoPeer => peerAt[x] # p
    BY <1>1, <2>1 DEF StoreInv, PeerInv
  <2> QED  BY <1>2, <2>1, <2>2, <2>3, <2>4
<1>4. t \in Nat /\ t <= L /\ \A i \in 1 .. t : store[c][L - t + i] = <<p, i>>
  <2>1. EndsWith(store[c], p)
    BY <1>1, <1>3 DEF StoreInv, TailInv
  <2>2. t \in Nat
    BY <1>1, <1>2
  <2> QED  BY <2>1, <2>2 DEF EndsWith
<1>5. \A d \in Client : Len(store[d]) \in Nat /\ \A i \in 1 .. Len(store[d]) :
          store[d][i] \in Peer \X (1 .. Total)
  BY <1>2, LenProperties, ElementOfSeq
<1> HIDE DEF p, c, n
<1>6. taken'[p] = t + n /\ \A q \in Peer \ {p} : taken'[q] = taken[q]
  BY <1>1, <1>2
<1> HIDE DEF L, t
<1>7. PeerInv'
  <2>1. \A q \in Peer : Waits(q)' = Waits(q)
    BY DEF Waits
  <2>2. p \in connected /\ ~ Waits(p)
    BY <1>1 DEF StoreInv, PeerInv, p
  <2>3. \A q \in Peer : q \notin connected' \/ Waits(q)' =>
            taken'[q] = 0 /\ \A x \in Fd : peerAt'[x] # q
    BY <1>6, <2>1, <2>2 DEF StoreInv, PeerInv
  <2> QED  BY <2>3 DEF StoreInv, PeerInv
<1>8. /\ t + n <= Len(store'[c])
      /\ \A i \in 1 .. t + n : store'[c][L - t + i] = <<p, i>>
  <2>1. ASSUME NEW i \in 1 .. t + n PROVE store'[c][L - t + i] = <<p, i>>
    <3>1. CASE i <= t
      <4>1. i \in 1 .. t /\ L - t + i \in 1 .. L
        BY <3>1, <1>1, <1>4
      <4> QED  BY <4>1, <1>1, <1>4
    <3>2. CASE i > t
      <4>1. i - t \in 1 .. n /\ L - t + i = L + (i - t) /\ t + (i - t) = i
        BY <3>2, <1>1, <1>4
      <4> QED  BY <4>1, <1>1
    <3> QED  BY <3>1, <3>2, <1>4
  <2>2. t + n <= L + n
    BY <1>1, <1>4
  <2> QED  BY <2>1, <2>2, <1>1
<1>9. TailInv'
  <2> SUFFICES ASSUME NEW x \in Fd, peerAt[x] # NoPeer
               PROVE  EndsWith(store[clients[x]], peerAt[x])'
    BY DEF TailInv
  <2>1. CASE x = cur
    <3>1. Len(store'[c]) - taken'[p] = L - t
      BY <1>1, <1>4, <1>6
    <3> QED  BY <2>1, <3>1, <1>6, <1>8 DEF EndsWith, p, c
  <2>2. CASE x # cur
    <3>1. store'[clients[x]] = store[clients[x]] /\ taken'[peerAt[x]] = taken[peerAt[x]]
      BY <2>2, <1>1, <1>3, <1>6
    <3>2. EndsWith(store[clients[x]], peerAt[x])
      BY <1>3 DEF StoreInv, TailInv
    <3> QED  BY <3>1, <3>2 DEF EndsWith
  <2> QED  BY <2>1, <2>2
<1>10. SizeInv'
  <2> SUFFICES ASSUME NEW d \in Client
               PROVE  size'[d] <= Len(store'[d]) /\ told'[d] <= Len(store'[d])
    BY DEF SizeInv
  <2>1. /\ size[d] \in Nat /\ told[d] \in Nat
        /\ size[d] <= Len(store[d]) /\ told[d] <= Len(store[d])
    BY <1>2 DEF StoreInv, SizeInv
  <2>2. CASE d = c
    <3>1. size'[c] <= L + n /\ size'[c] \in Nat
      BY <1>1, <2>1, <2>2 DEF L
    <3>2. told[c] <= L /\ (told'[c] = told[c] \/ told'[c] <= size'[c])
      BY <1>1, <2>1, <2>2 DEF L
    <3>3. told'[c] <= L + n
      <4>1. told'[c] \in Nat /\ told[c] \in Nat /\ L \in Nat /\ n \in Nat
        BY <1>1, <1>2 DEF BufferType
      <4> QED  BY <3>1, <3>2, <4>1
    <3> QED  BY <1>1, <2>2, <3>1, <3>3
  <2>3. CASE d # c
    BY <1>1, <2>1, <2>3
  <2> QED  BY <2>2, <2>3
<1>11. \A q \in Peer : taken'[q] > 0 => Together(q)'
  <2> SUFFICES ASSUME NEW q \in Peer, taken'[q] > 0
               PROVE  \E d \in Client : \E k \in 0 .. Len(store'[d]) - taken'[q] :
                          \A i \in 1 .. taken'[q] : store'[d][k + i] = <<q, i>>
    BY DEF Together
  <2>1. CASE q = p
    <3>1. L - t \in 0 .. Len(store'[c]) - taken'[p]
      BY <1>1, <1>4, <1>6
    <3> DEFINE k == L - t
    <3>2. k \in 0 .. Len(store'[c]) - taken'[p] /\ \A i \in 1 .. taken'[p] : store'[c][k + i] = <<p, i>>
      BY <3>1, <1>6, <1>8
    <3> HIDE DEF k
    <3> QED  BY <2>1, <3>2, <1>1
  <2>2. CASE q # p
    <3>1. taken'[q] = taken[q] /\ taken[q] \in Nat
      BY <2>2, <1>2, <1>6
    <3>0. PICK d \in Client : \E k \in 0 .. Len(store[d]) - taken[q] :
              \A i \in 1 .. taken[q] : store[d][k + i] = <<q, i>>
      BY <3>1, ReceivedParts DEF StoreInv, Together
    <3>2. PICK k \in 0 .. Len(store[d]) - taken[q] :
              \A i \in 1 .. taken[q] : store[d][k + i] = <<q, i>>
      BY <3>0
    <3>3. CASE d # c
      <4>1. store'[d] = store[d]
        BY <3>3, <1>1
      <4> QED  BY <3>1, <3>2, <4>1
    <3>4. CASE d = c
      <4>1. k \in 0 .. Len(store'[c]) - taken[q]
        BY <3>1, <3>2, <3>4, <1>1 DEF L
      <4>2. \A i \in 1 .. taken[q] : k + i \in 1 .. L
        BY <3>1, <3>2, <3>4, <1>1 DEF L
      <4>3. \A i \in 1 .. taken[q] : store'[c][k + i] = <<q, i>>
        BY <3>2, <3>4, <4>2, <1>1
      <4>4. k \in 0 .. Len(store'[c]) - taken'[q]
        BY <3>1, <4>1
      <4>5. \A i \in 1 .. taken'[q] : store'[c][k + i] = <<q, i>>
        BY <3>1, <4>3, Zenon
      <4> QED  BY <4>4, <4>5, <1>1, Zenon
    <3> QED  BY <3>3, <3>4
  <2> QED  BY <2>1, <2>2
<1>12. ASSUME NEW d \in Client, NEW i \in 1 .. Len(store'[d])
       PROVE  \/ i \in 1 .. Len(store[d]) /\ store'[d][i] = store[d][i]
              \/ /\ d = c /\ i - L \in 1 .. n
                 /\ store'[d][i] = <<p, t + (i - L)>>
  <2>1. CASE d # c
    BY <2>1, <1>1, <1>12
  <2>2. CASE d = c /\ i <= L
    BY <2>2, <1>1, <1>12 DEF L
  <2>3. CASE d = c /\ i > L
    <3>1. i - L \in 1 .. n /\ L + (i - L) = i
      BY <2>3, <1>1, <1>12
    <3> QED  BY <2>3, <3>1, <1>1
  <2> QED  BY <2>1, <2>2, <2>3, <1>1, <1>12
<1>13. \A d \in Client : \A i \in 1 .. Len(store[d]) :
          store[d][i][2] \in Nat /\ store[d][i][1] \in Peer /\ store[d][i][2] <= taken[store[d][i][1]]
  BY <1>5, ReceivedParts DEF StoreInv, Genuine
<1>14. Distinct'
  <2> SUFFICES ASSUME NEW d \in Client, NEW e \in Client, NEW i \in 1 .. Len(store'[d]),
                      NEW j \in 1 .. Len(store'[e]), store'[d][i] = store'[e][j]
               PROVE  d = e /\ i = j
    BY DEF Distinct
  <2>1. \A x \in Client : \A k \in 1 .. Len(store[x]), m \in 1 .. n : store[x][k] # <<p, t + m>>
    <3> SUFFICES ASSUME NEW x \in Client, NEW k \in 1 .. Len(store[x]), NEW m \in 1 .. n,
                        store[x][k] = <<p, t + m>>
                 PROVE  FALSE
      OBVIOUS
    <3>1. store[x][k][1] = p /\ store[x][k][2] = t + m
      OBVIOUS
    <3>2. t + m <= t
      BY <3>1, <1>13 DEF t
    <3> QED  BY <3>2, <1>1, <1>4
  <2>2. CASE i \in 1 .. Len(store[d]) /\ store'[d][i] = store[d][i]
    <3>1. j \in 1 .. Len(store[e]) /\ store'[e][j] = store[e][j]
      BY <2>1, <2>2, <1>12
    <3>2. Distinct /\ store[d][i] = store[e][j]
      BY <2>2, <3>1, ReceivedParts DEF StoreInv
    <3> QED  BY <2>2, <3>1, <3>2 DEF Distinct
  <2>3. CASE d = c /\ i - L \in 1 .. n /\ store'[d][i] = <<p, t + (i - L)>>
    <3>1. e = c /\ j - L \in 1 .. n /\ store'[e][j] = <<p, t + (j - L)>>
      BY <2>1, <2>3, <1>12
    <3>2. t + (i - L) = t + (j - L)
      BY <2>3, <3>1
    <3>3. L \in Nat
      BY <1>1
    <3>4. t \in Nat
      BY <1>4
    <3>5. i \in Int /\ j \in Int
      OBVIOUS
    <3>6. i = j
      BY <3>2, <3>3, <3>4, <3>5
    <3> QED  BY <2>3, <3>1, <3>6
  <2> QED  BY <2>2, <2>3, <1>12
<1>15. Genuine'
  <2> SUFFICES ASSUME NEW d \in Client, NEW i \in 1 .. Len(store'[d])
               PROVE  store'[d][i][2] <= taken'[store'[d][i][1]]
    BY DEF Genuine
  <2>1. CASE i \in 1 .. Len(store[d]) /\ store'[d][i] = store[d][i]
    <3> DEFINE q == store[d][i][1]
    <3>1. q \in Peer /\ store[d][i][2] \in Nat /\ store[d][i][2] <= taken[q]
      BY <2>1, <1>13
    <3> HIDE DEF q
    <3>2. taken[q] \in Nat /\ taken'[q] \in Nat /\ taken[q] <= taken'[q]
      <4>1. CASE q = p
        BY <4>1, <1>1, <1>4, <1>6 DEF t
      <4>2. CASE q # p
        BY <4>2, <3>1, <1>2, <1>6
      <4> QED  BY <4>1, <4>2
    <3>3. store[d][i][2] <= taken'[q]
      BY <3>1, <3>2
    <3> QED  BY <2>1, <3>3 DEF q
  <2>2. CASE d = c /\ i - L \in 1 .. n /\ store'[d][i] = <<p, t + (i - L)>>
    <3>1. store'[d][i][1] = p /\ store'[d][i][2] = t + (i - L)
      BY <2>2
    <3>2. t + (i - L) <= t + n
      BY <2>2, <1>1, <1>4
    <3> QED  BY <3>1, <3>2, <1>6
  <2> QED  BY <2>1, <2>2, <1>12
<1>16. ReceivedOnce'
  BY <1>11, <1>14, <1>15, ReceivedParts
<1> QED  BY <1>7, <1>9, <1>10, <1>16 DEF StoreInv

\* The handler of one descriptor: it reads, or it closes.
LEMMA HandlerStores ==
    ASSUME TypeInv, RoundInv, StoreInv,
           \/ TestRunning \/ FirstRecv \/ Drain \/ HangUp \/ EndRound
           \/ \E fd \in Fd : StartClient(fd)
    PROVE  StoreInv'
<1>1. pc # "ended" /\ UNCHANGED <<connected, backlog, clients, main>>
  BY DEF TestRunning, FirstRecv, Drain, HangUp, EndRound, StartClient, kernel, objects, control
<1>2. main # "exited"
  BY <1>1 DEF TypeInv, TableInv
<1>3. CASE UNCHANGED <<peerAt, taken, store, size, told>>
  BY <1>1, <1>2, <1>3, StoreFrame
<1>4. CASE /\ pc \in {"first", "hup"} /\ su_socket_destroy(cur)
           /\ UNCHANGED <<taken, store, size, told>>
  <2>1. \A fd \in Fd : peerAt'[fd] # NoPeer => peerAt'[fd] = peerAt[fd]
    BY <1>4 DEF su_socket_destroy, RoundInv
  <2> QED  BY <1>1, <1>2, <1>4, <2>1, StoreFrame
<1>5. CASE Handling /\ Received > 0 /\ OnNewData(clients[cur], Received) /\ UNCHANGED peerAt
  BY <1>1, <1>5, ReadStores
<1> QED  BY <1>3, <1>4, <1>5
         DEF TestRunning, FirstRecv, Drain, HangUp, EndRound, StartClient, Handling, objects, kernel

\* Every step leaves each byte read where it belongs.
LEMMA StoreNext == TypeInv /\ StrandInv /\ StoreInv /\ TypeInv' /\ [Next]_vars => StoreInv'
<1> SUFFICES ASSUME TypeInv, RoundInv, StoreInv, TypeInv', [Next]_vars PROVE StoreInv'
  BY DEF StrandInv
<1>1. CASE UNCHANGED <<connected, backlog, peerAt, taken, store, size, told, clients, main>>
  BY <1>1, StoreFrame
<1>2. CASE Process
  <2>1. CASE \E S \in SUBSET Ready : EpollWait(S)
    BY <2>1, <1>1 DEF EpollWait, kernel, objects, control
  <2> QED  BY <1>2, <2>1, AcceptStores, HandlerStores DEF Process
<1>3. CASE \E p \in Peer : Connect(p)
  BY <1>3, ConnectStores
<1>4. CASE (\E p \in Peer : Finish(p)) \/ (\E p \in Peer, n \in 1 .. Total : Arrive(p, n))
  BY <1>1, <1>4 DEF Finish, Arrive, objects, control
<1>5. CASE signal_exit_handler
  BY <1>1, <1>5 DEF signal_exit_handler, kernel, objects
<1>6. CASE Main
  <2>1. /\ UNCHANGED <<connected, backlog, peerAt, taken, store, size, told>>
        /\ main' # "exited" => main # "exited" /\ clients' = clients
    BY <1>6 DEF Main, Stop, DestroyServer, kernel, objects
  <2> QED  BY <2>1, StoreFrame
<1>7. CASE UNCHANGED vars
  BY <1>1, <1>7 DEF vars
<1> QED  BY <1>2, <1>3, <1>4, <1>5, <1>6, <1>7 DEF Next

\* However reads, arrivals and closes interleave, and although a buffer goes on
\* with the next connection when its descriptor number is used again, every
\* byte that recv returned is stored once, with its peer's others, in order.
THEOREM ReceivedOnceCorrect == Spec => []ReceivedOnce
<1>1. StoreInv => ReceivedOnce
  BY DEF StoreInv
<1> QED  BY <1>1, StrandInit, StrandNext, TypeInit, TypeNext, StoreInit, StoreNext, PTL DEF Spec

\* data_size, which leaves out the writes that end at the end of an mbuf, is
\* never ahead of the buffer, so no message is announced before its bytes are
\* there, whatever size a torn header gives.
THEOREM AnnouncedIsStoredCorrect == Spec => []AnnouncedIsStored
<1>1. StoreInv => AnnouncedIsStored
  BY DEF StoreInv, SizeInv, AnnouncedIsStored
<1> QED  BY <1>1, StrandInit, StrandNext, TypeInit, TypeNext, StoreInit, StoreNext, PTL DEF Spec

-----------------------------------------------------------------------------
(* The clients that ~TcpServer finds.                                      *)

\* clients_ has an entry for every number accept has returned, and for no
\* other; what is left is the work of ~TcpServer.
LossInv == (main # "exited" => seen = Used) /\ ClientsDeleted

\* A server that has just started.
LEMMA LossInit == Init => LossInv
<1> SUFFICES ASSUME Init PROVE LossInv
  OBVIOUS
<1>1. Used = {}
  BY DEF Init, Used
<1> QED  BY <1>1 DEF Init, LossInv, ClientsDeleted

\* accept adds the number it returns, with a client if it has none.
LEMMA AcceptLoses ==
    ASSUME TypeInv, main # "exited", seen = Used, AcceptClient
    PROVE  seen' = Used'
<1> DEFINE fd == AcceptedFd
<1>1. /\ seen' = seen \cup {fd}
      /\ clients' = IF clients[fd] = 0 THEN [clients EXCEPT ![fd] = made + 1] ELSE clients
  BY DEF AcceptClient
<1>2. fd \in Fd \cup {Failed}
  BY AcceptedFdFacts
<1>3. clients \in [Fd \cup {Failed} -> Client \cup {0}] /\ made \in Nat
  BY PeerCount DEF TypeInv, TypeOK, Client
<1> HIDE DEF fd
<1> QED  BY <1>1, <1>2, <1>3 DEF Used

\* Nothing happens after ~TcpServer.
LEMMA ExitedStays ==
    ASSUME TypeInv, main = "exited", [Next]_vars
    PROVE  UNCHANGED <<made, seen, conns, main>>
<1>1. pc = "ended"
  BY DEF TypeInv, TableInv
<1>2. ~ Process /\ ~ Main /\ \A p : ~ Connect(p) /\ ~ Finish(p) /\ \A n : ~ Arrive(p, n)
  BY <1>1 DEF Process, TestRunning, EpollWait, AcceptClient, StartClient, FirstRecv, Drain, HangUp,
              EndRound, Main, Stop, DestroyServer, Connect, Finish, Arrive
<1> QED  BY <1>2 DEF Next, signal_exit_handler, kernel, objects, vars

\* Every step keeps the numbers and the entries of clients_ together.
LEMMA LossNext == TypeInv /\ LossInv /\ [Next]_vars => LossInv'
<1> SUFFICES ASSUME TypeInv, LossInv, [Next]_vars PROVE LossInv'
  OBVIOUS
<1>1. CASE main = "exited"
  BY <1>1, ExitedStays DEF LossInv, ClientsDeleted
<1>2. CASE DestroyServer
  <2>1. /\ main' = "exited" /\ main = "join" /\ UNCHANGED <<made, seen>>
        /\ conns' = conns - Cardinality(Used)
    BY <1>2 DEF DestroyServer, Used, TypeInv, TypeOK
  <2>2. conns = made /\ seen = Used
    BY <2>1 DEF TypeInv, TableInv, LossInv
  <2> QED  BY <2>1, <2>2 DEF LossInv, ClientsDeleted
<1>3. CASE main # "exited" /\ ~ DestroyServer
  <2>1. main' # "exited"
    BY <1>3 DEF Next, Connect, Finish, Arrive, Process, TestRunning, EpollWait, AcceptClient,
                StartClient, FirstRecv, Drain, HangUp, EndRound, signal_exit_handler, Main, Stop,
                control, vars
  <2> SUFFICES seen' = Used'
    BY <2>1 DEF LossInv, ClientsDeleted
  <2>2. seen = Used
    BY <1>3 DEF LossInv
  <2>3. CASE UNCHANGED <<clients, seen>>
    BY <2>2, <2>3 DEF Used
  <2>4. CASE AcceptClient
    BY <1>3, <2>2, <2>4, AcceptLoses
  <2>5. CASE Process /\ ~ AcceptClient
    BY <2>3, <2>5 DEF Process, TestRunning, EpollWait, StartClient, FirstRecv, Drain, HangUp,
                      EndRound, objects
  <2>6. CASE \/ \E p \in Peer : Connect(p) \/ Finish(p)
             \/ \E p \in Peer, n \in 1 .. Total : Arrive(p, n)
    BY <2>3, <2>6 DEF Connect, Finish, Arrive, objects
  <2>7. CASE signal_exit_handler \/ Main \/ UNCHANGED vars
    BY <1>3, <2>3, <2>7 DEF signal_exit_handler, Main, Stop, objects, vars
  <2> QED  BY <2>4, <2>5, <2>6, <2>7 DEF Next
<1> QED  BY <1>1, <1>2, <1>3

\* ~TcpServer finds one TcpClient for every number that accept has returned,
\* and only those: whenever the signal comes and whatever the peers did, the
\* clients it leaves are the accepts that returned a number for a second time.
THEOREM ClientsDeletedCorrect == Spec => []ClientsDeleted
<1>1. LossInv => ClientsDeleted
  BY DEF LossInv
<1> QED
  BY <1>1, StrandInit, StrandNext, TypeInit, TypeNext, LossInit, LossNext, PTL DEF Spec
=============================================================================

--------------------------- MODULE AeServerProofs ---------------------------
(***************************************************************************)
(* The servers of AeServer keep the conventions of AeFileEvents, for every *)
(* set size, descriptor limit, set of clients and number of signals.  What *)
(* is proved of callbacks that keep to their own descriptor (no stale      *)
(* event) therefore holds of the two programs.                             *)
(***************************************************************************)
EXTENDS AeServer, AeFileEventsProofs, FiniteSetTheorems

-----------------------------------------------------------------------------
(* The invariant.                                                          *)

Early == {"create", "listen", "register"}

\* The walk over the fired entries is under way only inside aeProcessEvents,
\* and before the listening socket is registered nothing is.
Control ==
    /\ phase # "idle" => pc \in {"dispatch", "killed"}
    /\ pc \in Early => \A s \in Slot : mask[s] = {}

\* Nobody registers for writing, and only the listening socket has the
\* callback that accepts.
TableInv ==
    \A s \in Slot :
        /\ mask[s] \subseteq {"READABLE"}
        /\ "READABLE" \in mask[s] /\ rproc[s] = "AcceptTcpHandler" => s = lfd

\* A registered descriptor is open as long as the listening socket is (after
\* ShutListener the listening socket itself is not), and so is one that fired
\* and was not ended since.
OpenInv ==
    \A s \in Slot :
        /\ mask[s] # {} => s \in openFds \/ lfd \notin openFds
        /\ phase # "idle" /\ fired[s] # {} /\ s \notin ended => s \in openFds

\* A callback runs for an entry that fired; until it ends its descriptor the
\* table has it, and a descriptor just accepted is not in the table.
CallbackInv ==
    phase = "read" =>
        /\ fired[cur] # {}
        /\ h \in {"enter", "register"} => cur \notin ended
        /\ h \in {"enter", "register", "shut", "write", "delete"} => "READABLE" \in mask[cur]
        /\ h = "close" => mask[cur] = {} /\ cur \in ended
        /\ h = "register" /\ cfd \in Slot => mask[cfd] = {}

\* Every open descriptor has somebody to close it, except at most one; and
\* when there is such a one, the listening socket is closed.
Held(fd) ==
    \/ Watched(fd)
    \/ fd \in {lfd, cfd}
    \/ fd = cur /\ phase = "read" /\ h = "close"
HeldInv ==
    \A x \in openFds : ~ Held(x) => lfd \notin openFds /\ \A y \in openFds : Held(y) \/ y = x

\* AcceptTcpHandler holds the descriptor it has accepted until it returns, and
\* runs for a listening socket that is open.
AcceptInv ==
    /\ pc \in {"create", "listen"} => openFds = {}
    /\ cfd # -1 => phase = "read" /\ h \in {"register", "shut"}
    /\ phase = "read" /\ h \in {"register", "shut"} => cur = lfd /\ lfd \in openFds

ProgramInv == Control /\ TableInv /\ OpenInv /\ CallbackInv /\ AcceptInv /\ HeldInv
ServerInv == TypeInv /\ ServerTypeOK /\ InterestAgrees /\ FreshInv /\ ProgramInv

-----------------------------------------------------------------------------
(* What the calls do.                                                      *)

\* A descriptor is free: the one socket or accept returns is one of those.
LEMMA LowestFreeIsFree ==
    ASSUME FreeFd # {}
    PROVE  LowestFree \in Fd \ openFds
<1>1. FreeFd \subseteq Nat
  BY FileEventsAssumption DEF FreeFd, Fd
<1>2. \E x \in FreeFd : \A y \in FreeFd : x <= y
  BY <1>1, LeastNat
<1> QED  BY <1>2 DEF LowestFree, Min, FreeFd

\* What a call of aeCreateFileEvent does to slot s.
LEMMA AddFacts ==
    ASSUME TypeOK, NEW fd \in Fd \cup {-1}, NEW proc \in Procs,
           NEW ret \in {"AE_OK", "AE_ERR"}, AddFileEvent(fd, proc, ret), NEW s \in Slot
    PROVE  /\ UNCHANGED <<openFds, fired, cur, phase, ended>>
           /\ \/ mask'[s] = mask[s] /\ rproc'[s] = rproc[s]
              \/ /\ s = fd /\ s \in openFds
                 /\ mask'[s] = mask[s] \cup {"READABLE"} /\ rproc'[s] = proc
<1>1. CASE fd = -1
  BY <1>1 DEF AddFileEvent, table, vars
<1>2. CASE fd # -1 /\ ret = "AE_ERR"
  BY <1>2 DEF AddFileEvent, aeCreateFileEvent, history
<1>3. CASE fd # -1 /\ ret = "AE_OK"
  BY <1>3, FileEventsAssumption
     DEF AddFileEvent, aeCreateFileEvent, aeApiAddEvent, EpollAccepts, SetProcs, TypeOK, Slot, Fd,
         history
<1> QED  BY <1>1, <1>2, <1>3

\* A call that may register is one of those AeFileEvents allows.
LEMMA AddImplements ==
    ASSUME NEW fd \in Fd \cup {-1}, NEW proc \in Procs, NEW ret \in {"AE_OK", "AE_ERR"},
           AddFileEvent(fd, proc, ret), UserCode, MayGoOn, fd \in Slot => MayRegister(fd)
    PROVE  [Next]_vars
<1>1. CASE fd = -1
  BY <1>1 DEF AddFileEvent, table
<1>2. CASE fd # -1
  <2>1. Register(fd, {"READABLE"}, proc, ret)
    BY <1>2 DEF AddFileEvent, Register
  <2>2. fd \in Fd /\ {"READABLE"} \in Mask
    BY <1>2 DEF Mask, Dir
  <2> QED  BY <2>1, <2>2 DEF Next
<1> QED  BY <1>1, <1>2

-----------------------------------------------------------------------------
(* Every step of the servers is a step AeFileEvents allows.                *)

\* The callbacks are among those registered.
LEMMA HandlersAreProcs == "AcceptTcpHandler" \in Procs /\ "ReadFromClient" \in Procs
BY ServerAssumption DEF Handlers

\* Each step of a callback is a call that ends at most its own descriptor.
LEMMA HandlerImplements ==
    ASSUME ServerInv, AcceptTcpHandler \/ ClientHandler
    PROVE  [Next]_vars
<1> USE DEF ServerInv, ProgramInv
<1>0. phase = "read" /\ cur \in Slot /\ cur \in Fd /\ UserCode
  BY FileEventsAssumption
     DEF AcceptTcpHandler, ClientHandler, Accept, AcceptFails, RegisterClient, ShutListener,
         ReadFromClient, WriteToClient, DeleteEvent, CloseClient, Does, In, TypeInv, CurIsSlot,
         Handling, UserCode, Slot, Fd
<1>1. CASE \E p \in Peer : Accept(p)
  <2>1. FreeFd # {} /\ OpenFd(LowestFree) /\ h = "enter"
    BY <1>1 DEF Accept, Does, In
  <2>2. Open(LowestFree)
    BY <1>0, <2>1 DEF Open, MayGoOn, CallbackInv
  <2> QED  BY <2>1, <2>2, LowestFreeIsFree DEF Next
<1>2. CASE AcceptFails \/ ReadFromClient \/ WriteToClient
  BY <1>2 DEF AcceptFails, ReadFromClient, WriteToClient, table
<1>3. CASE \E ret \in {"AE_OK", "AE_ERR"} : RegisterClient(ret)
  <2>1. PICK ret \in {"AE_OK", "AE_ERR"} : RegisterClient(ret)
    BY <1>3
  <2>2. AddFileEvent(cfd, "ReadFromClient", ret) /\ h = "register"
    BY <2>1 DEF RegisterClient, Does, In
  <2>3. MayGoOn /\ (cfd \in Slot => MayRegister(cfd)) /\ cfd \in Fd \cup {-1}
    BY <1>0, <2>2 DEF MayGoOn, MayRegister, CallbackInv, ServerTypeOK
  <2> QED  BY <1>0, <2>2, <2>3, AddImplements, HandlersAreProcs
<1>4. CASE ShutListener \/ CloseClient
  <2>1. CloseFd(cur)
    BY <1>4 DEF ShutListener, CloseClient
  <2>2. Close(cur)
    BY <1>0, <2>1 DEF Close, MayClose, TableInv
  <2> QED  BY <1>0, <2>2 DEF Next
<1>5. CASE DeleteEvent
  <2>1. aeDeleteFileEvent(cur, {"READABLE"}) /\ {"READABLE"} \in Mask
    BY <1>5 DEF DeleteEvent, Mask, Dir
  <2>2. Deregister(cur, {"READABLE"})
    BY <1>0, <2>1 DEF Deregister, MayEnd
  <2> QED  BY <1>0, <2>1, <2>2 DEF Next
<1> QED  BY <1>1, <1>2, <1>3, <1>4, <1>5 DEF AcceptTcpHandler, ClientHandler

\* The same for every step of the program, its clients and its signals.
LEMMA ServerImplements ==
    ASSUME ServerInv, [ServerNext]_serverVars
    PROVE  [Next]_vars
<1> USE DEF ServerInv, ProgramInv
<1>1. CASE AcceptTcpHandler \/ ClientHandler
  BY <1>1, HandlerImplements
<1>2. CASE WaitReturns \/ StopServer
  BY <1>2 DEF WaitReturns, StopServer, Next, ServerTypeOK, table
<1>3. CASE NextEntry \/ Return \/ EndEntry \/ EndEvents
  BY <1>3 DEF NextEntry, Return, EndEntry, EndEvents, Next
<1>4. CASE anetTcpServer
  <2>1. phase = "idle"
    BY <1>4 DEF anetTcpServer, Control
  <2>2. CASE FreeFd # {} /\ OpenFd(LowestFree)
    <3>1. Open(LowestFree)
      BY <2>1, <2>2 DEF Open, UserCode, MayGoOn, InCallback
    <3> QED  BY <2>2, <3>1, LowestFreeIsFree DEF Next
  <2>3. CASE UNCHANGED table
    BY <2>3 DEF table
  <2> QED  BY <1>4, <2>2, <2>3 DEF anetTcpServer
<1>5. CASE RegisterListener
  <2>1. phase = "idle" /\ lfd \in Fd \cup {-1}
    BY <1>5 DEF RegisterListener, Control, ServerTypeOK
  <2>2. UserCode /\ MayGoOn /\ (lfd \in Slot => MayRegister(lfd))
    BY <2>1 DEF UserCode, MayGoOn, MayRegister, InCallback
  <2>3. PICK ret \in {"AE_OK", "AE_ERR"} : AddFileEvent(lfd, "AcceptTcpHandler", ret)
    BY <1>5 DEF RegisterListener
  <2> QED  BY <2>1, <2>2, <2>3, AddImplements, HandlersAreProcs
<1>6. CASE UNCHANGED table
  BY <1>6 DEF table
<1> QED
  BY <1>1, <1>2, <1>3, <1>4, <1>5, <1>6
     DEF ServerNext, Process, Main, aeProcessEvents, Clients, Connect, Send, Leave, CreateLoop,
         CreateTimer, EnterMain, TestStop, EnterWait, PrintTimer, aeDeleteEventLoop, Exit, Step,
         serverVars

-----------------------------------------------------------------------------
(* Each step keeps the invariant.                                          *)

\* A step that touches neither the table nor a callback.
LEMMA QuietKeeps ==
    ASSUME ServerInv, UNCHANGED <<table, h, lfd, cfd>>,
           phase # "idle" => pc' \in {"dispatch", "killed"},
           pc' \in Early => pc \in Early,
           pc' \in {"create", "listen"} => pc \in {"create", "listen"}
    PROVE  ProgramInv'
<1> USE DEF ServerInv, ProgramInv, table, vars
<1>1. Control' /\ TableInv' /\ OpenInv'
  BY DEF Control, TableInv, OpenInv
<1>2. CallbackInv' /\ AcceptInv'
  BY DEF CallbackInv, AcceptInv
<1>3. HeldInv'
  BY DEF HeldInv, Held, Watched
<1> QED  BY <1>1, <1>2, <1>3

\* A step of a callback that touches the table as little.
LEMMA CallbackKeeps ==
    ASSUME ServerInv, phase = "read", UNCHANGED <<table, lfd, cfd>>,
           h \in {"enter", "write"}, h' \in {"write", "delete", "return"},
           pc = "dispatch", pc' \in {pc, "killed"}
    PROVE  ProgramInv'
<1> USE DEF ServerInv, ProgramInv, table, vars
<1>1. Control' /\ TableInv' /\ OpenInv'
  BY DEF Control, TableInv, OpenInv, Early
<1>2. CallbackInv' /\ AcceptInv'
  BY DEF CallbackInv, AcceptInv
<1>3. HeldInv'
  BY DEF HeldInv, Held, Watched
<1> QED  BY <1>1, <1>2, <1>3

\* epoll_wait returns: a fresh set of fired entries, of open descriptors.
LEMMA PollKeeps ==
    ASSUME ServerInv, NEW t \in BOOLEAN, Poll(t), pc' = "dispatch", UNCHANGED <<h, lfd, cfd>>
    PROVE  ProgramInv'
<1> USE DEF ServerInv, ProgramInv, Poll, registry, kernel
<1>1. Control' /\ TableInv'
  BY DEF Control, TableInv, Early
<1>2. OpenInv'
  <2>1. ASSUME NEW s \in Slot, fired'[s] # {} PROVE s \in openFds
    <3>1. Reportable(s) # {}
      BY <2>1
    <3> QED  BY <3>1 DEF Reportable, InterestAgrees
  <2> QED  BY <2>1 DEF OpenInv
<1>3. CallbackInv' /\ AcceptInv'
  BY DEF CallbackInv, AcceptInv
<1>4. HeldInv'
  BY DEF HeldInv, Held, Watched
<1> QED  BY <1>1, <1>2, <1>3, <1>4

\* A callback is entered for an entry that no other callback has ended.
LEMMA NextEntryKeeps == ASSUME ServerInv, NextEntry PROVE ProgramInv'
<1> USE DEF ServerInv, ProgramInv
<1>1. PICK fd \in Slot : StartEvent(fd)
  BY DEF NextEntry
<1> USE DEF StartEvent, NextEntry, registry, kernel, history
<1>2. Control' /\ TableInv' /\ OpenInv'
  BY <1>1 DEF Control, TableInv, OpenInv
<1>3. fd \notin ended
  BY <1>1, FileEventsAssumption DEF FreshInv, Slot
<1>4. CallbackInv'
  BY <1>1, <1>3 DEF CallbackInv
<1>5. AcceptInv' /\ HeldInv'
  BY <1>1 DEF AcceptInv, HeldInv, Held, Watched
<1> QED  BY <1>2, <1>4, <1>5

\* The rest of the walk.
LEMMA WalkKeeps ==
    ASSUME ServerInv, Return \/ EndEntry \/ EndEvents
    PROVE  ProgramInv'
<1> USE DEF ServerInv, ProgramInv
<1>0. /\ UNCHANGED <<registry, kernel, ended, h, lfd, cfd>>
      /\ phase' # "read"
      /\ phase = "read" => h = "return"
      /\ phase' # "idle" => phase # "idle" /\ pc' = pc
      /\ pc' = pc \/ (pc = "dispatch" /\ pc' = "timers")
      /\ \A s \in Slot : fired'[s] = fired[s] \/ fired'[s] = {}
  <2>1. CASE Return
    BY <2>1 DEF Return, ReadReturns, program, history
  <2>2. CASE EndEntry
    BY <2>2 DEF EndEntry, FinishEvent, program, history, TypeInv, TypeOK
  <2>3. CASE EndEvents
    BY <2>3 DEF EndEvents, FinishDispatch, history
  <2> QED  BY <2>1, <2>2, <2>3
<1> USE DEF registry, kernel
<1>1. Control' /\ TableInv'
  BY <1>0 DEF Control, TableInv, Early
<1>2. OpenInv'
  BY <1>0 DEF OpenInv
<1>3. CallbackInv' /\ AcceptInv'
  BY <1>0 DEF CallbackInv, AcceptInv
<1>4. HeldInv'
  BY <1>0 DEF HeldInv, Held, Watched
<1> QED  BY <1>1, <1>2, <1>3, <1>4

\* The listening socket is the first descriptor, if main does not lose it.
LEMMA ListenKeeps == ASSUME ServerInv, anetTcpServer PROVE ProgramInv'
<1> USE DEF ServerInv, ProgramInv, anetTcpServer
<1>1. /\ phase = "idle" /\ openFds = {} /\ cfd = -1
      /\ \A s \in Slot : mask[s] = {} /\ mask'[s] = {}
      /\ UNCHANGED <<registry, phase, interest>>
  BY DEF Control, AcceptInv, OpenFd, table, vars, registry, dispatch, Early
<1>2. \/ openFds' = {}
      \/ LowestFree # -1 /\ openFds' = {LowestFree} /\ lfd' \in {LowestFree, -1}
  <2>1. CASE FreeFd # {} /\ OpenFd(LowestFree) /\ lfd' \in {LowestFree, -1}
    <3>1. LowestFree \in Fd
      BY <2>1, LowestFreeIsFree
    <3>2. LowestFree # -1
      BY <3>1, FileEventsAssumption DEF Fd
    <3>3. openFds' = {LowestFree}
      BY <1>1, <2>1 DEF OpenFd
    <3> QED  BY <2>1, <3>2, <3>3
  <2>2. CASE lfd' = -1 /\ UNCHANGED table
    BY <1>1, <2>2 DEF table, vars
  <2> QED  BY <2>1, <2>2
<1>3. Control' /\ TableInv' /\ OpenInv'
  BY <1>1 DEF Control, TableInv, OpenInv
<1>4. CallbackInv' /\ AcceptInv'
  BY <1>1 DEF CallbackInv, AcceptInv
<1>5. HeldInv'
  BY <1>1, <1>2 DEF HeldInv, Held
<1> QED  BY <1>3, <1>4, <1>5

\* Only the listening socket enters the table, if anything does.
LEMMA RegisterListenerKeeps == ASSUME ServerInv, RegisterListener PROVE ProgramInv'
<1> USE DEF ServerInv, ProgramInv
<1>1. PICK ret \in {"AE_OK", "AE_ERR"} : AddFileEvent(lfd, "AcceptTcpHandler", ret)
  BY DEF RegisterListener
<1>2. phase = "idle" /\ cfd = -1 /\ pc' = "timer" /\ UNCHANGED <<h, lfd, cfd>>
  BY DEF RegisterListener, Control, AcceptInv
<1>3. UNCHANGED <<openFds, fired, cur, phase, ended>>
  BY <1>1 DEF AddFileEvent, aeCreateFileEvent, table, vars, history
<1>4. \A s \in Slot :
        /\ \/ mask'[s] = mask[s] /\ rproc'[s] = rproc[s]
           \/ s = lfd /\ s \in openFds /\ mask'[s] = mask[s] \cup {"READABLE"}
        /\ interest'[s] = interest[s] \/ s = lfd
  <2>1. lfd \in Fd \cup {-1} /\ TypeOK
    BY DEF ServerTypeOK
  <2>2. ASSUME NEW s \in Slot PROVE interest'[s] = interest[s] \/ s = lfd
    BY <1>1, <2>1 DEF AddFileEvent, aeCreateFileEvent, aeApiAddEvent, table, vars, TypeOK
  <2> QED  BY <1>1, <2>1, <2>2, AddFacts, HandlersAreProcs
<1>5. Control' /\ TableInv' /\ OpenInv'
  BY <1>2, <1>3, <1>4 DEF Control, TableInv, OpenInv, Early
<1>6. CallbackInv' /\ AcceptInv'
  BY <1>2, <1>3 DEF CallbackInv, AcceptInv
<1>7. HeldInv'
  BY <1>2, <1>3, <1>4 DEF HeldInv, Held, Watched
<1> QED  BY <1>5, <1>6, <1>7

\* AcceptTcpHandler runs for the listening socket, which is open: all that is
\* registered is open too, and the new descriptor is not.
LEMMA AcceptKeeps == ASSUME ServerInv, NEW p \in Peer, Accept(p) PROVE ProgramInv'
<1> USE DEF ServerInv, ProgramInv
<1>1. /\ phase = "read" /\ rproc[cur] = "AcceptTcpHandler" /\ h = "enter" /\ h' = "register"
      /\ UNCHANGED <<registry, interest, dispatch, ended, pc, lfd>>
      /\ openFds' = openFds \cup {LowestFree} /\ cfd' = LowestFree
  BY DEF Accept, Does, In, OpenFd, history
<1>2. cur \in Slot /\ LowestFree \in Fd \ openFds /\ LowestFree # -1
  BY <1>1, LowestFreeIsFree, FileEventsAssumption
     DEF Accept, TypeInv, CurIsSlot, Handling, Fd
<1>3. cur = lfd /\ lfd \in openFds
  BY <1>1, <1>2 DEF CallbackInv, TableInv, OpenInv
<1> USE DEF registry, dispatch
<1>4. Control' /\ TableInv' /\ OpenInv'
  BY <1>1, <1>3 DEF Control, TableInv, OpenInv
<1>5. CallbackInv'
  BY <1>1, <1>2, <1>3 DEF CallbackInv, OpenInv
<1>6. AcceptInv'
  BY <1>1, <1>3 DEF AcceptInv, Control
<1>7. HeldInv'
  <2>1. \A x \in openFds : Held(x)
    BY <1>3 DEF HeldInv
  <2>2. cfd = -1 /\ -1 \notin openFds
    BY <1>1, FileEventsAssumption DEF AcceptInv, TypeInv, TypeOK, Fd
  <2>3. \A x \in openFds' : Held(x)'
    BY <1>1, <2>1, <2>2 DEF Held, Watched
  <2> QED  BY <2>3 DEF HeldInv
<1> QED  BY <1>4, <1>5, <1>6, <1>7

\* An accept that fails opens nothing.
LEMMA AcceptFailsKeeps == ASSUME ServerInv, AcceptFails PROVE ProgramInv'
<1> USE DEF ServerInv, ProgramInv
<1>1. /\ phase = "read" /\ rproc[cur] = "AcceptTcpHandler" /\ h = "enter" /\ h' = "register"
      /\ UNCHANGED <<table, pc, lfd>> /\ cfd' = -1
  BY DEF AcceptFails, Does, In
<1>2. cur \in Slot
  BY <1>1 DEF TypeInv, CurIsSlot, Handling
<1>3. cur = lfd /\ lfd \in openFds /\ cfd = -1
  BY <1>1, <1>2 DEF CallbackInv, TableInv, OpenInv, AcceptInv
<1> USE DEF table, vars
<1>4. Control' /\ TableInv' /\ OpenInv'
  BY <1>1 DEF Control, TableInv, OpenInv
<1>5. CallbackInv'
  BY <1>1, FileEventsAssumption DEF CallbackInv, Slot
<1>6. AcceptInv' /\ HeldInv'
  BY <1>1, <1>3 DEF AcceptInv, HeldInv, Held, Watched
<1> QED  BY <1>4, <1>5, <1>6

\* A new client enters the table; if it does not, its descriptor is still in
\* the hands of AcceptTcpHandler.
LEMMA RegisterClientKeeps ==
    ASSUME ServerInv, NEW ret \in {"AE_OK", "AE_ERR"}, RegisterClient(ret)
    PROVE  ProgramInv'
<1> USE DEF ServerInv, ProgramInv
<1>1. /\ phase = "read" /\ h = "register" /\ AddFileEvent(cfd, "ReadFromClient", ret)
      /\ UNCHANGED <<pc, lfd>>
  BY DEF RegisterClient, Does, In
<1>2. cfd \in Fd \cup {-1} /\ TypeOK /\ cur \in Slot /\ cur = lfd /\ lfd \in openFds
  BY <1>1 DEF ServerTypeOK, TypeInv, CurIsSlot, Handling, AcceptInv
<1>3. UNCHANGED <<openFds, fired, cur, phase, ended>>
  BY <1>1 DEF AddFileEvent, aeCreateFileEvent, table, vars, history
<1>4. \A s \in Slot :
        \/ mask'[s] = mask[s] /\ rproc'[s] = rproc[s]
        \/ /\ s = cfd /\ s \in openFds
           /\ mask'[s] = mask[s] \cup {"READABLE"} /\ rproc'[s] = "ReadFromClient"
  BY <1>1, <1>2, AddFacts, HandlersAreProcs
<1>5. \A s \in Slot : interest'[s] = interest[s] \/ (s = cfd /\ interest'[s] # {})
  BY <1>1, <1>2 DEF AddFileEvent, aeCreateFileEvent, aeApiAddEvent, table, vars, TypeOK
<1>6. \/ ret = "AE_OK" /\ h' = "return" /\ cfd' = -1 /\ cfd \in Slot /\ interest'[cfd] # {}
      \/ ret = "AE_ERR" /\ h' = "shut" /\ cfd' = cfd /\ UNCHANGED table
  <2>1. CASE ret = "AE_OK"
    <3>1. /\ cfd \in Fd /\ cfd < SetSize
          /\ interest' = [interest EXCEPT ![cfd] = mask[cfd] \cup {"READABLE"}]
      BY <1>1, <1>2, <2>1 DEF AddFileEvent, aeCreateFileEvent, aeApiAddEvent
    <3>2. cfd \in Slot
      BY <3>1, FileEventsAssumption DEF Slot, Fd
    <3>3. interest'[cfd] # {}
      BY <1>2, <3>1, <3>2 DEF TypeOK
    <3> QED  BY <2>1, <3>2, <3>3 DEF RegisterClient, Does
  <2>2. CASE ret = "AE_ERR"
    BY <1>1, <2>2 DEF RegisterClient, Does, AddFileEvent, aeCreateFileEvent, table, vars,
                            history
  <2> QED  BY <2>1, <2>2
<1>7. Control' /\ TableInv' /\ OpenInv'
  <2>1. pc \notin Early
    BY <1>1 DEF Control, Early
  <2>2. Control'
    BY <1>1, <1>3, <2>1 DEF Control
  <2>3. TableInv'
    BY <1>1, <1>4 DEF TableInv
  <2>4. OpenInv'
    BY <1>1, <1>3, <1>4 DEF OpenInv
  <2> QED  BY <2>2, <2>3, <2>4
<1>8. CallbackInv'
  <2>1. "READABLE" \in mask[cur] /\ mask'[cur] \in {mask[cur], mask[cur] \cup {"READABLE"}}
    BY <1>1, <1>2, <1>4 DEF CallbackInv
  <2> QED  BY <1>1, <1>3, <1>6, <2>1 DEF CallbackInv
<1>9. AcceptInv'
  BY <1>1, <1>2, <1>3, <1>6 DEF AcceptInv, Control
<1>10. HeldInv'
  <2>1. \A x \in openFds : Held(x)
    BY <1>2 DEF HeldInv
  <2>2. \A x \in openFds : Watched(x) => Watched(x)'
    BY <1>5 DEF Watched
  <2>3. \A x \in openFds' : Held(x)'
    <3>1. CASE ret = "AE_OK"
      BY <1>1, <1>3, <1>6, <2>1, <2>2, <3>1 DEF Held, Watched
    <3>2. CASE ret = "AE_ERR"
      BY <1>1, <1>3, <1>6, <2>1, <2>2, <3>2 DEF Held
    <3> QED  BY <3>1, <3>2
  <2> QED  BY <2>3 DEF HeldInv
<1> QED  BY <1>7, <1>8, <1>9, <1>10

\* close of the current descriptor: what it leaves of the kernel's state.
LEMMA CloseFacts ==
    ASSUME TypeInv, phase = "read", CloseFd(cur)
    PROVE  /\ UNCHANGED <<registry, dispatch>>
           /\ openFds' = openFds \ {cur}
           /\ \A s \in Slot : s # cur => interest'[s] = interest[s]
           /\ \A x \in Int : x # cur /\ Watched(x) => Watched(x)'
           /\ \A s \in Slot : s # cur => (s \in ended' <=> s \in ended)
           /\ mask[cur] # {} => cur \in ended'
           /\ cur \in ended => cur \in ended'
BY FileEventsAssumption
   DEF CloseFd, Watched, TypeInv, TypeOK, CurIsSlot, Handling, Registered, Slot

\* The listening socket goes, and one descriptor with it.
LEMMA ShutListenerKeeps == ASSUME ServerInv, ShutListener PROVE ProgramInv'
<1> USE DEF ServerInv, ProgramInv
<1>1. /\ phase = "read" /\ h = "shut" /\ h' = "return" /\ CloseFd(cur)
      /\ cfd' = -1 /\ UNCHANGED <<pc, lfd>>
  BY DEF ShutListener, Does, In
<1>2. cur \in Slot /\ cur = lfd /\ "READABLE" \in mask[cur] /\ openFds \subseteq Int
  BY <1>1, FileEventsAssumption
     DEF TypeInv, TypeOK, CurIsSlot, Handling, AcceptInv, CallbackInv, Fd
<1>3. /\ UNCHANGED <<registry, dispatch>>
      /\ openFds' = openFds \ {cur}
      /\ \A x \in Int : x # cur /\ Watched(x) => Watched(x)'
      /\ \A s \in Slot : s # cur => (s \in ended' <=> s \in ended)
      /\ cur \in ended'
  BY <1>1, <1>2, CloseFacts
<1> USE DEF registry, dispatch
<1>4. Control' /\ TableInv'
  BY <1>1, <1>3 DEF Control, TableInv
<1>5. OpenInv'
  BY <1>1, <1>2, <1>3 DEF OpenInv
<1>6. CallbackInv' /\ AcceptInv'
  BY <1>1, <1>3 DEF CallbackInv, AcceptInv, Control
<1>7. HeldInv'
  <2>1. \A x \in openFds : Held(x)
    BY <1>1 DEF HeldInv, AcceptInv
  <2>2. ASSUME NEW x \in openFds' PROVE x = cfd \/ Held(x)'
    BY <1>1, <1>2, <1>3, <2>1 DEF Held
  <2>3. lfd' \notin openFds'
    BY <1>1, <1>2, <1>3
  <2> QED  BY <2>2, <2>3 DEF HeldInv
<1> QED  BY <1>4, <1>5, <1>6, <1>7

\* ClientClose takes its descriptor out of the table, and still holds it.
LEMMA DeleteEventKeeps == ASSUME ServerInv, DeleteEvent PROVE ProgramInv'
<1> USE DEF ServerInv, ProgramInv
<1>1. /\ phase = "read" /\ h = "delete" /\ h' = "close" /\ UNCHANGED <<pc, lfd, cfd>>
      /\ aeDeleteFileEvent(cur, {"READABLE"})
  BY DEF DeleteEvent, Does, In
<1>2. cur \in Slot
  BY <1>1 DEF TypeInv, CurIsSlot, Handling
<1>3. /\ UNCHANGED <<rproc, openFds, fired, cur, phase>>
      /\ mask' = [mask EXCEPT ![cur] = mask[cur] \ {"READABLE"}]
      /\ interest' = [interest EXCEPT ![cur] = IF interest[cur] = {} THEN {}
                                               ELSE mask[cur] \ {"READABLE"}]
      /\ ended' = IF mask'[cur] = {} THEN ended \cup {cur} ELSE ended
  BY <1>1 DEF aeDeleteFileEvent, aeApiDelEvent
<1>4. /\ mask'[cur] = {} /\ ended' = ended \cup {cur}
      /\ \A s \in Slot : s # cur => mask'[s] = mask[s] /\ interest'[s] = interest[s]
  BY <1>2, <1>3 DEF TypeInv, TypeOK, TableInv
<1>5. Control' /\ TableInv'
  BY <1>1, <1>3, <1>4 DEF Control, TableInv, Early
<1>6. OpenInv'
  BY <1>1, <1>3, <1>4 DEF OpenInv
<1>7. CallbackInv' /\ AcceptInv'
  BY <1>1, <1>3, <1>4 DEF CallbackInv, AcceptInv
<1>8. HeldInv'
  BY <1>1, <1>3, <1>4 DEF HeldInv, Held, Watched
<1> QED  BY <1>5, <1>6, <1>7, <1>8

\* ClientClose closes what it has taken out of the table.
LEMMA CloseClientKeeps == ASSUME ServerInv, CloseClient PROVE ProgramInv'
<1> USE DEF ServerInv, ProgramInv
<1>1. /\ phase = "read" /\ h = "close" /\ h' = "return" /\ UNCHANGED <<pc, lfd, cfd>>
      /\ CloseFd(cur)
  BY DEF CloseClient, Does, In
<1>2. cur \in Slot /\ mask[cur] = {} /\ cur \in ended /\ openFds \subseteq Int
  BY <1>1, FileEventsAssumption DEF TypeInv, TypeOK, CurIsSlot, Handling, CallbackInv, Fd
<1>3. /\ UNCHANGED <<registry, dispatch>>
      /\ openFds' = openFds \ {cur}
      /\ \A x \in Int : x # cur /\ Watched(x) => Watched(x)'
      /\ \A s \in Slot : s # cur => (s \in ended' <=> s \in ended)
      /\ cur \in ended'
  BY <1>1, <1>2, CloseFacts
<1> USE DEF registry, dispatch
<1>4. Control' /\ TableInv'
  BY <1>1, <1>3 DEF Control, TableInv
<1>5. OpenInv'
  BY <1>1, <1>2, <1>3 DEF OpenInv
<1>6. CallbackInv' /\ AcceptInv'
  BY <1>1, <1>3 DEF CallbackInv, AcceptInv, Control
<1>7. HeldInv'
  <2>1. ASSUME NEW x \in openFds', Held(x) PROVE Held(x)'
    BY <1>1, <1>2, <1>3, <2>1 DEF Held
  <2> QED  BY <1>1, <1>3, <2>1 DEF HeldInv
<1> QED  BY <1>4, <1>5, <1>6, <1>7

\* Every step of the program, its clients and its signals.
LEMMA ProgramNext == ASSUME ServerInv, [ServerNext]_serverVars PROVE ProgramInv'
<1>0. phase # "idle" => pc \in {"dispatch", "killed"}
  BY DEF ServerInv, ProgramInv, Control
<1>1. CASE UNCHANGED serverVars
  BY <1>0, <1>1, QuietKeeps DEF serverVars, program
<1>2. CASE Clients
  BY <1>0, <1>2, QuietKeeps DEF Clients, Connect, Send, Leave, program
<1>3. CASE StopServer
  <2>1. CASE pc = "wait" /\ pc' = "dispatch" /\ Poll(TRUE)
    BY <1>3, <2>1, PollKeeps DEF StopServer
  <2>2. CASE UNCHANGED table
    <3>1. pc' = pc \/ (pc = "create" /\ pc' = "crashed")
                  \/ (pc = "deleted" /\ pc' = "crashed") \/ (pc = "wait" /\ pc' = "dispatch")
      BY <1>3 DEF StopServer
    <3> QED  BY <1>0, <1>3, <2>2, <3>1, QuietKeeps DEF StopServer, Early
  <2> QED  BY <1>3, <2>1, <2>2 DEF StopServer
<1>4. CASE CreateLoop \/ CreateTimer \/ EnterMain \/ TestStop \/ EnterWait \/ PrintTimer
           \/ aeDeleteEventLoop \/ Exit
  <2>1. /\ UNCHANGED <<table, h, lfd, cfd>>
        /\ pc \notin {"dispatch", "killed"}
        /\ pc' \in Early => pc \in Early
        /\ pc' \in {"create", "listen"} => pc \in {"create", "listen"}
    BY <1>4 DEF CreateLoop, CreateTimer, EnterMain, TestStop, EnterWait, PrintTimer,
                aeDeleteEventLoop, Exit, Step, Early
  <2> QED  BY <1>0, <2>1, QuietKeeps
<1>5. CASE anetTcpServer \/ RegisterListener
  BY <1>5, ListenKeeps, RegisterListenerKeeps
<1>6. CASE WaitReturns
  BY <1>6, PollKeeps DEF WaitReturns, ServerInv, ServerTypeOK
<1>7. CASE NextEntry \/ Return \/ EndEntry \/ EndEvents
  BY <1>7, NextEntryKeeps, WalkKeeps
<1>8. CASE AcceptTcpHandler
  BY <1>8, AcceptKeeps, AcceptFailsKeeps, RegisterClientKeeps, ShutListenerKeeps
     DEF AcceptTcpHandler
<1>9. CASE pc \notin Over /\ (ReadFromClient \/ WriteToClient)
  <2>1. /\ phase = "read" /\ UNCHANGED <<table, lfd, cfd>>
        /\ h \in {"enter", "write"} /\ h' \in {"write", "delete", "return"}
        /\ pc' \in {pc, "killed"}
    BY <1>9 DEF ReadFromClient, WriteToClient, Does, In, AfterRead
  <2>2. pc = "dispatch"
    BY <1>0, <1>9, <2>1 DEF Over
  <2> QED  BY <2>1, <2>2, CallbackKeeps
<1>10. CASE DeleteEvent \/ CloseClient
  BY <1>10, DeleteEventKeeps, CloseClientKeeps
<1> QED
  BY <1>1, <1>2, <1>3, <1>4, <1>5, <1>6, <1>7, <1>8, <1>9, <1>10
     DEF ServerNext, Process, Main, aeProcessEvents, ClientHandler

\* The program's own variables keep their types.
LEMMA ServerTypeNext ==
    ASSUME ServerInv, [ServerNext]_serverVars, TypeOK'
    PROVE  ServerTypeOK'
<1> USE DEF ServerTypeOK, Setup, Loop, Over
<1>0. ServerTypeOK
  BY DEF ServerInv
<1>1. CASE UNCHANGED serverVars
  BY <1>0, <1>1 DEF serverVars, program, network
<1>2. CASE Clients
  BY <1>0, <1>2, ServerAssumption DEF Clients, Connect, Send, Leave, program
<1>3. CASE StopServer
  <2>1. signals' \in 0 .. MaxSignals
    BY <1>0, <1>3, ServerAssumption DEF StopServer
  <2>2. stop' \in BOOLEAN
    <3>1. stop' = TRUE \/ stop' = stop
      BY <1>3 DEF StopServer
    <3> QED  BY <1>0, <3>1, Zenon
  <2>3. pc' \in Setup \cup Loop \cup Over \cup {"delete", "deleted"}
    BY <1>0, <1>3 DEF StopServer
  <2> QED  BY <1>0, <1>3, <2>1, <2>2, <2>3 DEF StopServer, network
<1>4. CASE CreateLoop \/ CreateTimer \/ EnterMain \/ TestStop \/ EnterWait \/ PrintTimer
           \/ aeDeleteEventLoop \/ Exit
  BY <1>0, <1>4 DEF CreateLoop, CreateTimer, EnterMain, TestStop, EnterWait, PrintTimer,
                    aeDeleteEventLoop, Exit, Step, network
<1>5. CASE anetTcpServer
  BY <1>0, <1>5, LowestFreeIsFree DEF anetTcpServer, network
<1>6. CASE RegisterListener \/ WaitReturns \/ NextEntry \/ Return \/ EndEntry \/ EndEvents
  <2>1. CASE RegisterListener
    BY <1>0, <2>1 DEF RegisterListener, network
  <2>2. CASE WaitReturns
    BY <1>0, <2>2 DEF WaitReturns, network
  <2>3. CASE NextEntry \/ EndEvents
    BY <1>0, <2>3 DEF NextEntry, EndEvents, network
  <2>4. CASE Return \/ EndEntry
    BY <1>0, <2>4 DEF Return, EndEntry, network, program
  <2> QED  BY <1>6, <2>1, <2>2, <2>3, <2>4
<1>7. CASE AcceptTcpHandler
  <2>1. CASE \E p \in Peer : Accept(p)
    BY <1>0, <2>1, LowestFreeIsFree DEF Accept, Does
  <2>2. CASE AcceptFails
    BY <1>0, <2>2, ServerAssumption DEF AcceptFails, Does, Dropped
  <2>3. CASE \E ret \in {"AE_OK", "AE_ERR"} : RegisterClient(ret)
    BY <1>0, <2>3 DEF RegisterClient, Does, network
  <2>4. CASE ShutListener
    BY <1>0, <2>4, ServerAssumption DEF ShutListener, Does, Dropped
  <2> QED  BY <1>7, <2>1, <2>2, <2>3, <2>4 DEF AcceptTcpHandler
<1>8. CASE ClientHandler
  <2>1. CASE ReadFromClient
    <3>1. \A n \in 0 .. MaxUnread : LeftAfterRead(n) \in 0 .. MaxUnread
      BY ServerAssumption DEF LeftAfterRead
    <3>2. unread' \in [Peer -> 0 .. MaxUnread]
      BY <1>0, <2>1, <3>1 DEF ReadFromClient
    <3> QED  BY <1>0, <2>1, <3>2 DEF ReadFromClient, Does, AfterRead
  <2>2. CASE WriteToClient
    BY <1>0, <2>2 DEF WriteToClient, Does, network
  <2>3. CASE DeleteEvent
    BY <1>0, <2>3 DEF DeleteEvent, Does, network
  <2>4. CASE CloseClient
    BY <1>0, <2>4 DEF CloseClient, Does
  <2> QED  BY <1>8, <2>1, <2>2, <2>3, <2>4 DEF ClientHandler
<1> QED
  BY <1>1, <1>2, <1>3, <1>4, <1>5, <1>6, <1>7, <1>8
     DEF ServerNext, Process, Main, aeProcessEvents

-----------------------------------------------------------------------------
(* The results.                                                            *)

\* The invariant holds before main has created the loop.
LEMMA ServerInvInit == ServerInit => ServerInv
<1> SUFFICES ASSUME ServerInit PROVE ServerInv
  OBVIOUS
<1>1. TypeInv /\ InterestAgrees /\ FreshInv
  BY TypeInvInit DEF ServerInit, Init, InterestAgrees, FreshInv
<1>2. ServerTypeOK
  <2>1. signals \in 0 .. MaxSignals /\ unread \in [Peer -> 0 .. MaxUnread]
    BY ServerAssumption DEF ServerInit
  <2>2. echo \in BOOLEAN /\ timer \in BOOLEAN /\ stop \in BOOLEAN
    BY Zenon DEF ServerInit
  <2>3. /\ pc \in Setup \cup Loop \cup Over \cup {"delete", "deleted"}
        /\ h \in {"enter", "register", "shut", "write", "delete", "close", "return"}
        /\ lfd \in Fd \cup {-1} /\ cfd \in Fd \cup {-1}
        /\ peer \in [Peer -> {"away", "live", "finished", "reset", "done"}]
        /\ backlog \subseteq Peer /\ peerOf \in [Fd -> Peer \cup {NoPeer}]
    BY DEF ServerInit, Setup
  <2> QED  BY <1>1, <2>1, <2>2, <2>3 DEF ServerTypeOK, TypeInv
<1>3. ProgramInv
  BY DEF ServerInit, Init, ProgramInv, Control, TableInv, OpenInv, CallbackInv, AcceptInv,
         HeldInv
<1> QED  BY <1>1, <1>2, <1>3 DEF ServerInv

\* Every step keeps it, and is one that AeFileEvents allows.
LEMMA ServerInvNext ==
    ServerInv /\ [ServerNext]_serverVars => ServerInv' /\ [Next]_vars
<1> SUFFICES ASSUME ServerInv, [ServerNext]_serverVars
             PROVE  ServerInv' /\ [Next]_vars
  OBVIOUS
<1>1. [Next]_vars
  BY ServerImplements
<1>2. TypeInv' /\ InterestAgrees' /\ FreshInv'
  BY <1>1, TypeInvNext, InterestNext, FreshInvNext, ServerAssumption DEF ServerInv
<1>3. ServerTypeOK' /\ ProgramInv'
  BY <1>2, ServerTypeNext, ProgramNext DEF TypeInv
<1> QED  BY <1>1, <1>2, <1>3 DEF ServerInv

\* Neither server leaves its types, whatever its clients do.
THEOREM ServerTypeCorrect == ServerSpec => []ServerTypeOK
<1>1. ServerInv => ServerTypeOK
  BY DEF ServerInv
<1> QED  BY <1>1, ServerInvInit, ServerInvNext, PTL DEF ServerSpec

\* Both servers implement the event loop with callbacks that end only their
\* own descriptor.
THEOREM ConventionsKept == ServerSpec => KeepsConventions
<1>1. ServerInit => Init
  BY DEF ServerInit
<1> QED
  BY <1>1, ServerInvInit, ServerInvNext, PTL DEF ServerSpec, KeepsConventions, Spec

\* So neither server's callbacks are called for a registration that ended
\* after the poll, for any number of clients and descriptors.
THEOREM ServersDeliverFresh == ServerSpec => FreshDelivery
<1>1. Spec => FreshDelivery
  BY FreshDeliveryCorrect, ServerAssumption
<1> QED  BY <1>1, ConventionsKept, PTL DEF KeepsConventions

\* AcceptTcpHandler's error path, which closes the listening socket, can lose
\* one descriptor and no more.
THEOREM LeakBounded == ServerSpec => []LeaksOneAtMost
<1>1. ServerInv => LeaksOneAtMost
  <2> SUFFICES ASSUME ServerInv PROVE LeaksOneAtMost
    OBVIOUS
  <2>1. \A x \in Leaked : x \in openFds /\ ~ Held(x)
    BY DEF Leaked, Held
  <2>2. Leaked # {} => lfd \notin openFds
    BY <2>1 DEF ServerInv, ProgramInv, HeldInv
  <2>3. \A x, y \in Leaked : x = y
    BY <2>1 DEF ServerInv, ProgramInv, HeldInv
  <2>4. Leaked = {} \/ \E x : Leaked = {x}
    BY <2>3
  <2>5. Cardinality(Leaked) \in {0, 1}
    BY <2>4, FS_EmptySet, FS_Singleton
  <2> QED  BY <2>2, <2>5 DEF LeaksOneAtMost
<1> QED  BY <1>1, ServerInvInit, ServerInvNext, PTL DEF ServerSpec
=============================================================================

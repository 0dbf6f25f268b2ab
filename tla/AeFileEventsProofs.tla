------------------------- MODULE AeFileEventsProofs -------------------------
(***************************************************************************)
(* Proofs about AeFileEvents, for every number of slots and descriptors    *)
(* and every set of callbacks.                                             *)
(***************************************************************************)
EXTENDS AeFileEvents, BoundedSets, TLAPS

-----------------------------------------------------------------------------
(* Type correctness.                                                       *)

Handling == phase \in {"read", "afterRead", "skipRead", "write"}

\* TypeOK alone is not inductive: FinishEvent and WantsWrite index the tables
\* with cur, which is a slot exactly while an entry is being handled.
CurIsSlot == Handling => cur \in Slot
TypeInv == TypeOK /\ CurIsSlot

\* HighestBelow stays between -1 and the last slot.
LEMMA HighestBelowType ==
    ASSUME NEW m \in [Slot -> SUBSET Dir], NEW fd \in Slot
    PROVE  HighestBelow(m, fd) \in -1 .. SetSize - 1
<1> DEFINE S == {j \in Registered(m) : j < fd} \cup {-1}
<1>1. SetSize \in Nat /\ S \subseteq -1 .. SetSize - 1 /\ S # {}
  BY FileEventsAssumption DEF Registered, Slot
<1>2. Max(S) \in S
  <2> HIDE DEF S
  <2> QED  BY <1>1, MaxOfBounded
<1> QED  BY <1>1, <1>2 DEF HighestBelow

\* An event loop as aeCreateEventLoop leaves it is well formed.
LEMMA TypeInvInit == Init => TypeInv
BY FileEventsAssumption
   DEF Init, TypeInv, TypeOK, CurIsSlot, Handling, Slot, Fd, Dir, Phase

\* Every call user code can make, and every step of the dispatch, keeps the
\* table, the kernel's set and the dispatch state well formed.
LEMMA TypeInvNext == TypeInv /\ [Next]_vars => TypeInv'
<1> SUFFICES ASSUME TypeInv, [Next]_vars PROVE TypeInv'
  OBVIOUS
<1> USE FileEventsAssumption DEF TypeInv, TypeOK, CurIsSlot, Handling,
        Slot, Fd, Phase, registry, kernel, dispatch, history
<1>1. CASE \E fd \in Fd, dirs \in Mask, proc \in Procs,
              ret \in {"AE_OK", "AE_ERR"} : Register(fd, dirs, proc, ret)
  <2>1. PICK fd \in Fd, dirs \in Mask, proc \in Procs,
              ret \in {"AE_OK", "AE_ERR"} : Register(fd, dirs, proc, ret)
    BY <1>1, Zenon
  <2>2. CASE ret = "AE_ERR"
    BY <2>1, <2>2 DEF Register, aeCreateFileEvent
  <2>3. CASE ret = "AE_OK"
    <3>1. fd \in Slot /\ aeCreateFileEvent(fd, dirs, proc, ret)
      BY <2>1, <2>3 DEF Register, aeCreateFileEvent
    <3>2. mask' \in [Slot -> SUBSET Dir] /\ interest' \in [Slot -> SUBSET Dir]
      <4>1. mask[fd] \cup dirs \in SUBSET Dir
        BY <3>1 DEF Mask
      <4>2. /\ mask' = [mask EXCEPT ![fd] = mask[fd] \cup dirs]
            /\ interest' = [interest EXCEPT ![fd] = mask[fd] \cup dirs]
        BY <2>3, <3>1 DEF aeCreateFileEvent, aeApiAddEvent
      <4> QED  BY <3>1, <4>1, <4>2
    <3>3. /\ rproc' \in [Slot -> Procs \cup {NoProc}]
          /\ wproc' \in [Slot -> Procs \cup {NoProc}]
      <4>1. SetProcs(fd, dirs, proc)
        BY <2>3, <3>1 DEF aeCreateFileEvent
      <4>2. rproc' \in [Slot -> Procs \cup {NoProc}]
        BY <3>1, <4>1 DEF SetProcs
      <4>3. wproc' \in [Slot -> Procs \cup {NoProc}]
        BY <3>1, <4>1 DEF SetProcs
      <4> QED  BY <4>2, <4>3
    <3>4. maxfd' \in -1 .. SetSize - 1
      BY <2>3, <3>1 DEF aeCreateFileEvent
    <3> QED  BY <2>3, <3>1, <3>2, <3>3, <3>4 DEF aeCreateFileEvent
  <2> QED  BY <2>2, <2>3
<1>2. CASE \E fd \in Fd, dirs \in Mask : Deregister(fd, dirs)
  <2>1. PICK fd \in Fd, dirs \in Mask : Deregister(fd, dirs)
    BY <1>2, Zenon
  <2> USE DEF Deregister
  <2>2. mask' \in [Slot -> SUBSET Dir]
    BY <2>1 DEF aeDeleteFileEvent
  <2>3. maxfd' \in -1 .. SetSize - 1
    BY <2>1, <2>2, HighestBelowType DEF aeDeleteFileEvent
  <2>4. interest' \in [Slot -> SUBSET Dir]
    BY <2>1 DEF aeDeleteFileEvent, aeApiDelEvent
  <2> QED  BY <2>1, <2>2, <2>3, <2>4 DEF aeDeleteFileEvent
<1>3. CASE \E fd \in Fd : Open(fd)
  BY <1>3 DEF Open, OpenFd
<1>4. CASE \E fd \in Fd : Close(fd)
  BY <1>4 DEF Close, CloseFd, Registered
<1>5. CASE \E withTimers \in BOOLEAN : Poll(withTimers)
  BY <1>5 DEF Poll
<1>6. CASE \E fd \in Slot : StartEvent(fd)
  BY <1>6 DEF StartEvent
<1>7. CASE ReadReturns
  BY <1>7 DEF ReadReturns
<1>8. CASE CallWrite
  BY <1>8 DEF CallWrite
<1>9. CASE FinishEvent
  BY <1>9 DEF FinishEvent
<1>10. CASE FinishDispatch
  BY <1>10 DEF FinishDispatch
<1>11. CASE UNCHANGED vars
  BY <1>11 DEF vars
<1> QED
  BY <1>1, <1>2, <1>3, <1>4, <1>5, <1>6, <1>7, <1>8, <1>9, <1>10, <1>11 DEF Next

\* The event loop's tables keep their types for every setsize, every number of
\* descriptors and every set of callbacks.
THEOREM TypeCorrect == Spec => []TypeOK
<1>1. TypeInv => TypeOK
  BY DEF TypeInv
<1> QED  BY <1>1, TypeInvInit, TypeInvNext, PTL DEF Spec

-----------------------------------------------------------------------------
(* maxfd is exact.                                                         *)

\* MaxfdExact without Max: maxfd is registered, or -1, and nothing is above.
MaxfdInv ==
    /\ maxfd \in Registered(mask) \cup {-1}
    /\ \A fd \in Registered(mask) : fd <= maxfd

\* The inductive form of the maxfd invariant gives the stated one.
LEMMA MaxfdInvExact == TypeOK /\ MaxfdInv => MaxfdExact
<1> SUFFICES ASSUME TypeOK, MaxfdInv PROVE MaxfdExact
  OBVIOUS
<1> DEFINE S == Registered(mask) \cup {-1}
<1>1. SetSize \in Nat /\ S \subseteq -1 .. SetSize - 1
  BY FileEventsAssumption DEF Registered, Slot
<1>2. maxfd \in S /\ \A y \in S : maxfd >= y
  BY FileEventsAssumption DEF MaxfdInv, TypeOK, Registered, Slot
<1>3. Max(S) = maxfd
  <2> HIDE DEF S
  <2> QED  BY <1>1, <1>2, MaxIs
<1> QED  BY <1>3 DEF MaxfdExact

\* Deleting the highest descriptor leaves maxfd at the next one below it.
LEMMA MaxfdInvDelete ==
    ASSUME TypeInv, MaxfdInv, NEW fd \in Fd, NEW dirs \in Mask,
           aeDeleteFileEvent(fd, dirs)
    PROVE  MaxfdInv'
<1>1. /\ fd \in Slot
      /\ mask' = [mask EXCEPT ![fd] = @ \ dirs]
      /\ Registered(mask') \subseteq Registered(mask)
      /\ \A x \in Registered(mask) : x # fd => x \in Registered(mask')
      /\ Registered(mask) \subseteq Int
  BY FileEventsAssumption
     DEF aeDeleteFileEvent, Registered, Slot, Fd, TypeInv, TypeOK
<1>2. CASE ~ (fd = maxfd /\ mask'[fd] = {})
  <2>1. maxfd' = maxfd
    BY <1>2 DEF aeDeleteFileEvent
  <2>2. maxfd = fd => fd \in Registered(mask')
    BY <1>1, <1>2 DEF Registered
  <2> QED  BY <1>1, <2>1, <2>2 DEF MaxfdInv
<1>3. CASE fd = maxfd /\ mask'[fd] = {}
  <2> DEFINE S == {j \in Registered(mask') : j < fd} \cup {-1}
  <2>1. SetSize \in Nat /\ S \subseteq -1 .. SetSize - 1 /\ S # {}
    BY FileEventsAssumption DEF Registered, Slot
  <2>2. Max(S) \in S /\ \A y \in S : Max(S) >= y
    <3> HIDE DEF S
    <3> QED  BY <2>1, MaxOfBounded
  <2>3. maxfd' = Max(S)
    BY <1>3 DEF aeDeleteFileEvent, HighestBelow
  <2>4. \A x \in Registered(mask') : x \in S
    BY <1>1, <1>3 DEF MaxfdInv, Registered, Slot
  <2>5. \A x \in Registered(mask') : x <= Max(S)
    <3> DEFINE m == Max(S)
    <3>1. m \in Int
      BY <2>1, <2>2
    <3> HIDE DEF m, S
    <3> QED  BY <1>1, <2>2, <2>4, <3>1 DEF m
  <2> QED  BY <2>2, <2>3, <2>5 DEF MaxfdInv
<1> QED  BY <1>2, <1>3

\* Registering raises maxfd, deleting lowers it to the next one; nothing else
\* touches it.
LEMMA MaxfdInvNext == TypeInv /\ MaxfdInv /\ [Next]_vars => MaxfdInv'
<1> SUFFICES ASSUME TypeInv, MaxfdInv, [Next]_vars PROVE MaxfdInv'
  OBVIOUS
<1>1. CASE UNCHANGED registry
  BY <1>1 DEF registry, MaxfdInv, Registered
<1>2. CASE \E fd \in Fd, dirs \in Mask, proc \in Procs,
              ret \in {"AE_OK", "AE_ERR"} : Register(fd, dirs, proc, ret)
  <2>1. PICK fd \in Fd, dirs \in Mask, proc \in Procs,
              ret \in {"AE_OK", "AE_ERR"} : Register(fd, dirs, proc, ret)
    BY <1>2, Zenon
  <2>2. CASE ret = "AE_ERR"
    BY <1>1, <2>1, <2>2 DEF Register, aeCreateFileEvent, registry
  <2>3. CASE ret = "AE_OK"
    <3>1. /\ fd \in Slot
          /\ mask' = [mask EXCEPT ![fd] = @ \cup dirs]
          /\ maxfd' = IF fd > maxfd THEN fd ELSE maxfd
      BY <2>1, <2>3, FileEventsAssumption
         DEF Register, aeCreateFileEvent, Fd, Slot
    <3>2. Registered(mask') = Registered(mask) \cup {fd}
      <4>1. mask'[fd] = mask[fd] \cup dirs
        BY <3>1 DEF TypeInv, TypeOK
      <4>2. dirs # {}
        BY DEF Mask
      <4>3. mask'[fd] # {}
        BY <4>1, <4>2, Zenon
      <4> QED  BY <3>1, <4>3 DEF Registered, TypeInv, TypeOK
    <3>3. /\ fd \in Nat /\ maxfd \in Int
          /\ \A j \in Registered(mask) : j \in Nat
      BY <3>1, FileEventsAssumption DEF TypeInv, TypeOK, Registered, Slot
    <3>4. maxfd' \in Registered(mask') \cup {-1}
      BY <3>1, <3>2, <3>3 DEF MaxfdInv
    <3>5. ASSUME NEW j \in Registered(mask') PROVE j <= maxfd'
      <4>1. j = fd \/ (j \in Nat /\ j <= maxfd)
        BY <3>2, <3>3, Zenon DEF MaxfdInv
      <4> QED  BY <3>1, <3>3, <4>1
    <3> QED  BY <3>4, <3>5 DEF MaxfdInv
  <2> QED  BY <2>2, <2>3
<1>3. CASE \E fd \in Fd, dirs \in Mask : Deregister(fd, dirs)
  <2>1. PICK fd \in Fd, dirs \in Mask : Deregister(fd, dirs)
    BY <1>3, Zenon
  <2> QED  BY <2>1, MaxfdInvDelete DEF Deregister
<1> QED
  BY <1>1, <1>2, <1>3
     DEF Next, vars, registry, Open, OpenFd, Close, CloseFd, Poll, StartEvent,
         ReadReturns, CallWrite, FinishEvent, FinishDispatch

\* maxfd is the highest registered descriptor after every sequence of calls,
\* for every setsize: ae.h's own definition of the field.
THEOREM MaxfdCorrect == Spec => []MaxfdExact
<1>1. Init => MaxfdInv
  BY FileEventsAssumption DEF Init, MaxfdInv, Registered
<1>2. TypeInv /\ MaxfdInv => MaxfdExact
  BY MaxfdInvExact DEF TypeInv
<1> QED
  BY <1>1, <1>2, TypeInvInit, TypeInvNext, MaxfdInvNext, PTL DEF Spec

-----------------------------------------------------------------------------
(* The epoll set and the table.                                            *)

\* What aeCreateFileEvent does to the table and the epoll set, slot by slot:
\* nothing when it returns AE_ERR.
LEMMA RegisterFacts ==
    ASSUME TypeOK, NEW fd \in Fd, NEW dirs \in Mask, NEW proc \in Procs,
           NEW ret \in {"AE_OK", "AE_ERR"}, Register(fd, dirs, proc, ret),
           NEW s \in Slot
    PROVE  /\ UNCHANGED <<openFds, dispatch, history>>
           /\ \/ /\ UNCHANGED <<rproc, wproc>> /\ mask'[s] = mask[s]
                 /\ interest'[s] = interest[s]
              \/ /\ SetProcs(fd, dirs, proc)
                 /\ s # fd => mask'[s] = mask[s] /\ interest'[s] = interest[s]
                 /\ s = fd => /\ mask'[s] = mask[s] \cup dirs
                              /\ interest'[s] = mask'[s]
                              /\ s \in openFds
BY FileEventsAssumption
   DEF Register, aeCreateFileEvent, aeApiAddEvent, EpollAccepts, Slot, Fd,
       dispatch, history, TypeOK

\* What aeDeleteFileEvent does to them.
LEMMA DeregisterFacts ==
    ASSUME TypeOK, NEW fd \in Fd, NEW dirs \in Mask, Deregister(fd, dirs),
           NEW s \in Slot
    PROVE  /\ UNCHANGED <<rproc, wproc, openFds, dispatch>>
           /\ s # fd => mask'[s] = mask[s] /\ interest'[s] = interest[s]
           /\ s = fd => /\ mask[s] # {}
                        /\ mask'[s] = mask[s] \ dirs
                        /\ interest'[s] = IF interest[s] = {} THEN {}
                                                            ELSE mask'[s]
BY FileEventsAssumption
   DEF Deregister, aeDeleteFileEvent, aeApiDelEvent, Slot, Fd, dispatch, TypeOK

\* Every step keeps the epoll set and the table of masks in agreement.
LEMMA InterestNext == TypeInv /\ InterestAgrees /\ [Next]_vars => InterestAgrees'
<1> SUFFICES ASSUME TypeInv, InterestAgrees, [Next]_vars,
                    NEW s \in Slot
             PROVE  /\ interest'[s] \in {{}, mask'[s]}
                    /\ interest'[s] # {} => s \in openFds'
  BY DEF InterestAgrees
<1> USE DEF TypeInv, TypeOK, InterestAgrees
<1>1. CASE UNCHANGED <<mask, openFds, interest>>
  BY <1>1
<1>2. CASE \E fd \in Fd, dirs \in Mask, proc \in Procs,
              ret \in {"AE_OK", "AE_ERR"} : Register(fd, dirs, proc, ret)
  <2>1. PICK fd \in Fd, dirs \in Mask, proc \in Procs,
              ret \in {"AE_OK", "AE_ERR"} : Register(fd, dirs, proc, ret)
    BY <1>2, Zenon
  <2> QED  BY <2>1, RegisterFacts
<1>3. CASE \E fd \in Fd, dirs \in Mask : Deregister(fd, dirs)
  <2>1. PICK fd \in Fd, dirs \in Mask : Deregister(fd, dirs)
    BY <1>3, Zenon
  <2> QED  BY <2>1, DeregisterFacts
<1>4. CASE \E fd \in Fd : Open(fd)
  BY <1>4 DEF Open, OpenFd, registry
<1>5. CASE \E fd \in Fd : Close(fd)
  BY <1>5 DEF Close, CloseFd, registry
<1> QED
  BY <1>1, <1>2, <1>3, <1>4, <1>5
     DEF Next, vars, registry, kernel, Poll, StartEvent, ReadReturns, CallWrite,
         FinishEvent, FinishDispatch

\* Whatever descriptors are opened and closed around it, the epoll set watches
\* what the table says or nothing.
THEOREM InterestCorrect == Spec => []InterestAgrees
<1>1. Init => InterestAgrees
  BY DEF Init, InterestAgrees
<1> QED
  BY <1>1, TypeInvInit, TypeInvNext, InterestNext, PTL DEF Spec

\* No registration is lost to a sequence of aeCreateFileEvent and
\* aeDeleteFileEvent calls; it takes a close of a registered descriptor.
THEOREM OnlyCloseLoses == Spec => LostOnlyByClose
<1>1. TypeInv /\ [Next]_vars =>
        [\A fd \in Slot :
           interest[fd] = mask[fd] /\ interest'[fd] # mask'[fd]
               => fd \in openFds /\ fd \notin openFds']_vars
  <2> SUFFICES ASSUME TypeInv, [Next]_vars, NEW s \in Slot,
                      interest[s] = mask[s], interest'[s] # mask'[s]
               PROVE  s \in openFds /\ s \notin openFds'
    OBVIOUS
  <2> USE DEF TypeInv, TypeOK
  <2>1. CASE \E fd \in Fd, dirs \in Mask, proc \in Procs,
                ret \in {"AE_OK", "AE_ERR"} : Register(fd, dirs, proc, ret)
    <3>1. PICK fd \in Fd, dirs \in Mask, proc \in Procs,
                ret \in {"AE_OK", "AE_ERR"} : Register(fd, dirs, proc, ret)
      BY <2>1, Zenon
    <3> QED  BY <3>1, RegisterFacts
  <2>2. CASE \E fd \in Fd, dirs \in Mask : Deregister(fd, dirs)
    <3>1. PICK fd \in Fd, dirs \in Mask : Deregister(fd, dirs)
      BY <2>2, Zenon
    <3> QED  BY <3>1, DeregisterFacts
  <2>3. CASE \E fd \in Fd : Close(fd)
    BY <2>3 DEF Close, CloseFd, registry
  <2> QED
    BY <2>1, <2>2, <2>3
       DEF Next, vars, registry, kernel, Open, OpenFd, Poll, StartEvent,
           ReadReturns, CallWrite, FinishEvent, FinishDispatch
<1> QED  BY <1>1, TypeInvInit, TypeInvNext, PTL DEF Spec, LostOnlyByClose

-----------------------------------------------------------------------------
(* Callbacks.                                                              *)

\* A direction is only ever in a mask together with its callback, and control
\* only enters a callback through the mask.
HandlersSet ==
    /\ \A s \in Slot : /\ "READABLE" \in mask[s] => rproc[s] # NoProc
                       /\ "WRITABLE" \in mask[s] => wproc[s] # NoProc
    /\ CallsSetHandler

\* Every step keeps a callback behind every direction of a mask.
LEMMA HandlersNext == TypeInv /\ HandlersSet /\ [Next]_vars => HandlersSet'
<1> SUFFICES ASSUME TypeInv, HandlersSet, [Next]_vars PROVE HandlersSet'
  OBVIOUS
<1>0. phase \in {"read", "write"} => cur \in Slot
  BY DEF TypeInv, CurIsSlot, Handling
<1>1. CASE UNCHANGED <<registry, dispatch>>
  BY <1>1 DEF registry, dispatch, HandlersSet, CallsSetHandler
<1>2. CASE \E fd \in Fd, dirs \in Mask, proc \in Procs,
              ret \in {"AE_OK", "AE_ERR"} : Register(fd, dirs, proc, ret)
  <2>1. PICK fd \in Fd, dirs \in Mask, proc \in Procs,
              ret \in {"AE_OK", "AE_ERR"} : Register(fd, dirs, proc, ret)
    BY <1>2, Zenon
  <2>2. UNCHANGED <<cur, phase>>
    BY <2>1 DEF Register, aeCreateFileEvent
  <2>3. proc # NoProc
    BY FileEventsAssumption
  <2>4. ASSUME NEW s \in Slot
        PROVE  /\ "READABLE" \in mask'[s] => rproc'[s] # NoProc
               /\ "WRITABLE" \in mask'[s] => wproc'[s] # NoProc
               /\ rproc[s] # NoProc => rproc'[s] # NoProc
               /\ wproc[s] # NoProc => wproc'[s] # NoProc
    <3>1. CASE UNCHANGED <<rproc, wproc>> /\ mask'[s] = mask[s]
      BY <3>1 DEF HandlersSet
    <3>2. CASE /\ SetProcs(fd, dirs, proc)
               /\ s # fd => mask'[s] = mask[s]
               /\ s = fd => mask'[s] = mask[s] \cup dirs
      <4>1. rproc'[s] = IF "READABLE" \in dirs /\ s = fd THEN proc ELSE rproc[s]
        BY <3>2 DEF SetProcs, TypeInv, TypeOK
      <4>2. wproc'[s] = IF "WRITABLE" \in dirs /\ s = fd THEN proc ELSE wproc[s]
        BY <3>2 DEF SetProcs, TypeInv, TypeOK
      <4> QED  BY <2>3, <3>2, <4>1, <4>2 DEF HandlersSet
    <3> QED  BY <2>1, <3>1, <3>2, RegisterFacts DEF TypeInv
  <2> QED  BY <1>0, <2>2, <2>4 DEF HandlersSet, CallsSetHandler
<1>3. CASE \E fd \in Fd, dirs \in Mask : Deregister(fd, dirs)
  <2>1. PICK fd \in Fd, dirs \in Mask : Deregister(fd, dirs)
    BY <1>3, Zenon
  <2>2. \A s \in Slot : mask'[s] \subseteq mask[s]
    BY <2>1, DeregisterFacts DEF TypeInv
  <2>3. UNCHANGED <<rproc, wproc, cur, phase>>
    BY <2>1 DEF Deregister, aeDeleteFileEvent
  <2> QED  BY <2>2, <2>3 DEF HandlersSet, CallsSetHandler
<1>4. CASE \E fd \in Slot : StartEvent(fd)
  BY <1>4 DEF StartEvent, registry, HandlersSet, CallsSetHandler
<1>5. CASE CallWrite
  BY <1>5 DEF CallWrite, WantsWrite, registry, HandlersSet, CallsSetHandler,
              TypeInv, CurIsSlot, Handling
<1>6. CASE Poll(TRUE) \/ Poll(FALSE) \/ ReadReturns \/ FinishEvent \/ FinishDispatch
  BY <1>6 DEF Poll, ReadReturns, FinishEvent, FinishDispatch, registry,
              HandlersSet, CallsSetHandler
<1> QED
  BY <1>1, <1>2, <1>3, <1>4, <1>5, <1>6
     DEF Next, vars, registry, dispatch, Open, OpenFd, Close, CloseFd

\* aeProcessEvents never calls through a callback field that malloc left
\* unset.
THEOREM HandlersCorrect == Spec => []CallsSetHandler
<1>1. Init => HandlersSet
  BY DEF Init, HandlersSet, CallsSetHandler
<1>2. HandlersSet => CallsSetHandler
  BY DEF HandlersSet
<1> QED
  BY <1>1, <1>2, TypeInvInit, TypeInvNext, HandlersNext, PTL DEF Spec

\* Why the fired entries stay fresh when callbacks end only their own
\* descriptor: no entry still to be handled has ended, and the one being
\* handled, once ended, is not written any more.
FreshInv ==
    /\ phase # "idle" =>
          \A s \in Slot : s # cur /\ fired[s] # {} => s \notin ended
    /\ phase \in {"idle", "dispatch"} => cur = -1
    /\ phase \in {"read", "afterRead", "skipRead"} /\ cur \in ended
          => "WRITABLE" \notin mask[cur]

\* Callbacks that keep to their own descriptor leave the fired entries still
\* to come alone.
LEMMA FreshInvNext ==
    ASSUME OwnDescriptorOnly
    PROVE  TypeInv /\ FreshInv /\ [Next]_vars => FreshInv'
<1> SUFFICES ASSUME TypeInv, FreshInv, [Next]_vars PROVE FreshInv'
  OBVIOUS
<1> USE DEF TypeInv, TypeOK, CurIsSlot, Handling, FreshInv, history
<1>1. CASE \E fd \in Fd, dirs \in Mask, proc \in Procs,
              ret \in {"AE_OK", "AE_ERR"} : Register(fd, dirs, proc, ret)
  <2>1. PICK fd \in Fd, dirs \in Mask, proc \in Procs,
              ret \in {"AE_OK", "AE_ERR"} : Register(fd, dirs, proc, ret)
    BY <1>1, Zenon
  <2>2. UNCHANGED <<ended, fired, cur, phase>>
    BY <2>1 DEF Register, aeCreateFileEvent
  <2>3. phase \in {"idle", "write"} \/ cur \notin ended
    BY <2>1 DEF Register, UserCode, MayGoOn, InCallback
  <2> QED  BY <2>2, <2>3
<1>2. CASE \E fd \in Fd, dirs \in Mask : Deregister(fd, dirs)
  <2>1. PICK fd \in Fd, dirs \in Mask : Deregister(fd, dirs)
    BY <1>2, Zenon
  <2>2. phase \in {"idle", "read", "write"} /\ (phase # "idle" => fd = cur)
    BY <2>1 DEF Deregister, UserCode, MayEnd, InCallback
  <2>3. /\ UNCHANGED <<fired, cur, phase>>
        /\ ended' = IF mask'[fd] = {} THEN ended \cup {fd} ELSE ended
    BY <2>1 DEF Deregister, aeDeleteFileEvent
  <2>4. \A s \in Slot : mask'[s] \subseteq mask[s]
    BY <2>1, DeregisterFacts
  <2> QED  BY <2>2, <2>3, <2>4
<1>3. CASE \E fd \in Fd : Open(fd)
  BY <1>3 DEF Open, OpenFd, registry, dispatch, history
<1>4. CASE \E fd \in Fd : Close(fd)
  BY <1>4 DEF Close, CloseFd, UserCode, MayClose, InCallback, registry, dispatch
<1>5. CASE \E withTimers \in BOOLEAN : Poll(withTimers)
  BY <1>5 DEF Poll, kernel
<1>6. CASE \E fd \in Slot : StartEvent(fd)
  BY <1>6 DEF StartEvent, Slot
<1>7. CASE ReadReturns \/ CallWrite
  BY <1>7 DEF ReadReturns, CallWrite, registry
<1>8. CASE FinishEvent
  BY <1>8 DEF FinishEvent
<1>9. CASE FinishDispatch
  BY <1>9 DEF FinishDispatch
<1>10. CASE UNCHANGED vars
  BY <1>10 DEF vars
<1> QED
  BY <1>1, <1>2, <1>3, <1>4, <1>5, <1>6, <1>7, <1>8, <1>9, <1>10 DEF Next

\* With callbacks that keep to their own descriptor, the test of fe->mask is
\* enough: every callback is entered for a registration that has lived since
\* the poll that reported it.  (Without them it is not: AeFileEvents_stale.)
THEOREM FreshDeliveryCorrect ==
    ASSUME OwnDescriptorOnly
    PROVE  Spec => FreshDelivery
<1>1. Init => FreshInv
  BY DEF Init, FreshInv
<1>2. TypeInv /\ FreshInv /\ [Next]_vars =>
        [InCallback' /\ phase' # phase => cur' \notin ended]_vars
  <2> SUFFICES ASSUME TypeInv, FreshInv, Next, InCallback', phase' # phase
               PROVE  cur' \notin ended
    BY DEF vars
  <2>1. CASE \E fd \in Slot : StartEvent(fd)
    BY <2>1 DEF StartEvent, FreshInv, Slot
  <2>2. CASE CallWrite
    BY <2>2 DEF CallWrite, WantsWrite, FreshInv
  <2> QED
    BY <2>1, <2>2
       DEF Next, InCallback, Register, aeCreateFileEvent, Deregister,
           aeDeleteFileEvent, Open, OpenFd, Close, CloseFd, Poll, ReadReturns,
           FinishEvent, FinishDispatch, dispatch
<1> QED
  BY <1>1, <1>2, TypeInvInit, TypeInvNext, FreshInvNext, PTL
     DEF Spec, FreshDelivery
=============================================================================

---------------------------- MODULE AeFileEvents ----------------------------
(***************************************************************************)
(* The file-event half of the ae event loop (net/ae.c, net/ae_epoll.c):    *)
(* the table eventLoop->events, the epoll set behind it, and the part of   *)
(* aeProcessEvents that walks the fired array and calls handlers.          *)
(*                                                                         *)
(* The loop is single-threaded.  User code runs when the loop is idle and  *)
(* inside a callback; there it may register, delete, open and close any    *)
(* number of descriptors before it returns.  The order of the fired array  *)
(* is the kernel's, so the next entry is any entry not handled yet.        *)
(***************************************************************************)
EXTENDS Integers, FiniteSetsExt

CONSTANTS
    SetSize,            \* eventLoop->setsize: slots of the events array
    FdLimit,            \* descriptors the process may have, 0 .. FdLimit-1
    Procs,              \* the callbacks a program registers
    NoProc,             \* a callback field that was never assigned
    OwnDescriptorOnly   \* TRUE: callbacks keep to the servers' conventions

ASSUME FileEventsAssumption ==
    /\ SetSize \in Nat \ {0}
    /\ FdLimit \in Nat /\ SetSize <= FdLimit
    /\ NoProc \notin Procs
    /\ OwnDescriptorOnly \in BOOLEAN

VARIABLES
    mask,       \* events[fd].mask
    rproc,      \* events[fd].rfileProc
    wproc,      \* events[fd].wfileProc
    maxfd,      \* eventLoop->maxfd
    openFds,    \* kernel: the descriptors that are open
    interest,   \* kernel: the events epoll watches for fd, {} if not added
    fired,      \* the masks of the fired entries not handled yet, {} if none
    cur,        \* the descriptor of the entry being handled, or -1
    phase,      \* where control is in aeProcessEvents
    ended,      \* history: registrations that ended since the last poll
    closed      \* history: descriptors closed since the last poll

registry == <<mask, rproc, wproc, maxfd>>
kernel == <<openFds, interest>>
dispatch == <<fired, cur, phase>>
history == <<ended, closed>>
vars == <<mask, rproc, wproc, maxfd, openFds, interest, fired, cur, phase,
          ended, closed>>

Fd == 0 .. FdLimit - 1
Slot == 0 .. SetSize - 1
Dir == {"READABLE", "WRITABLE"}
Mask == (SUBSET Dir) \ {{}}
Phase == {"idle", "dispatch", "read", "afterRead", "skipRead", "write"}

Registered(m) == {fd \in Slot : m[fd] # {}}

TypeOK ==
    /\ mask \in [Slot -> SUBSET Dir]
    /\ rproc \in [Slot -> Procs \cup {NoProc}]
    /\ wproc \in [Slot -> Procs \cup {NoProc}]
    /\ maxfd \in -1 .. SetSize - 1
    /\ openFds \subseteq Fd
    /\ interest \in [Slot -> SUBSET Dir]
    /\ fired \in [Slot -> SUBSET Dir]
    /\ cur \in -1 .. SetSize - 1
    /\ phase \in Phase
    /\ ended \subseteq Slot /\ closed \subseteq Fd

\* Mutant: the loop that sets every mask to AE_NONE is missing.
InitUncleared ==
    /\ mask = [fd \in Slot |-> {"GARBAGE"}]
    /\ rproc = [fd \in Slot |-> NoProc]
    /\ wproc = [fd \in Slot |-> NoProc]
    /\ maxfd = -1
    /\ openFds = {}
    /\ interest = [fd \in Slot |-> {}]
    /\ fired = [fd \in Slot |-> {}]
    /\ cur = -1
    /\ phase = "idle"
    /\ ended = {} /\ closed = {}

\* aeCreateEventLoop: every mask is AE_NONE, the callback fields are not set.
Init ==
    /\ mask = [fd \in Slot |-> {}]
    /\ rproc = [fd \in Slot |-> NoProc]
    /\ wproc = [fd \in Slot |-> NoProc]
    /\ maxfd = -1
    /\ openFds = {}
    /\ interest = [fd \in Slot |-> {}]
    /\ fired = [fd \in Slot |-> {}]
    /\ cur = -1
    /\ phase = "idle"
    /\ ended = {} /\ closed = {}

-----------------------------------------------------------------------------
(* The calls user code makes.                                              *)

UserCode == phase \in {"idle", "read", "write"}

\* What OwnDescriptorOnly forbids a callback: both servers' handlers end only
\* the descriptor they were called for, register only descriptors nobody
\* registered, and do nothing more once they have ended their own.
InCallback == phase \in {"read", "write"}
MayGoOn == OwnDescriptorOnly /\ InCallback => cur \notin ended
MayRegister(fd) == OwnDescriptorOnly /\ InCallback => mask[fd] = {}
MayEnd(fd) == OwnDescriptorOnly /\ InCallback => fd = cur
MayClose(fd) ==
    OwnDescriptorOnly /\ InCallback =>
        fd = cur /\ (fd \in Slot => "WRITABLE" \notin mask[fd])

\* The epoll_ctl of aeApiAddEvent: ADD when the table says AE_NONE, MOD
\* otherwise; the kernel knows whether the descriptor really is in the set.
EpollAccepts(fd) ==
    /\ fd \in openFds
    /\ mask[fd] = {} <=> interest[fd] = {}

aeApiAddEvent(fd, dirs) ==
    /\ EpollAccepts(fd)
    /\ interest' = [interest EXCEPT ![fd] = mask[fd] \cup dirs]

\* Mutants: DEL only when nothing remains and never MOD; always DEL.
DelEventNeverMod(fd, dirs) ==
    interest' = [interest EXCEPT ![fd] = IF mask[fd] \ dirs = {} THEN {} ELSE @]
DelEventNeverKeep(fd, dirs) == interest' = [interest EXCEPT ![fd] = {}]

\* The epoll_ctl of aeApiDelEvent: MOD to what remains, or DEL; its error
\* (the descriptor is not in the set any more) is ignored.
aeApiDelEvent(fd, dirs) ==
    interest' = [interest EXCEPT ![fd] = IF @ = {} THEN {} ELSE mask[fd] \ dirs]

\* Mutant: the second "if" of the two became an "else if".
SetFirstProc(fd, dirs, proc) ==
    IF "READABLE" \in dirs
    THEN rproc' = [rproc EXCEPT ![fd] = proc] /\ UNCHANGED wproc
    ELSE wproc' = [wproc EXCEPT ![fd] = proc] /\ UNCHANGED rproc

SetProcs(fd, dirs, proc) ==
    /\ rproc' = IF "READABLE" \in dirs THEN [rproc EXCEPT ![fd] = proc] ELSE rproc
    /\ wproc' = IF "WRITABLE" \in dirs THEN [wproc EXCEPT ![fd] = proc] ELSE wproc

\* AE_ERR (the slot does not exist, or the kernel refuses) leaves the table as
\* it was; the kernel may also refuse for want of memory.
aeCreateFileEvent(fd, dirs, proc, ret) ==
    /\ UNCHANGED <<openFds, fired, cur, phase, history>>
    /\ \/ /\ ret = "AE_ERR"
          /\ UNCHANGED <<mask, rproc, wproc, maxfd, interest>>
       \/ /\ ret = "AE_OK"
          /\ fd < SetSize
          /\ aeApiAddEvent(fd, dirs)
          /\ mask' = [mask EXCEPT ![fd] = @ \cup dirs]
          /\ SetProcs(fd, dirs, proc)
          /\ maxfd' = IF fd > maxfd THEN fd ELSE maxfd

\* Mutant: the scan stops at the first slot below fd, registered or not.
NextBelow(m, fd) == fd - 1

\* The largest registered descriptor below fd, found by the downward scan.
HighestBelow(m, fd) == Max({j \in Registered(m) : j < fd} \cup {-1})

aeDeleteFileEvent(fd, dirs) ==
    /\ fd < SetSize
    /\ mask[fd] # {}
    /\ mask' = [mask EXCEPT ![fd] = @ \ dirs]
    /\ maxfd' = IF fd = maxfd /\ mask'[fd] = {} THEN HighestBelow(mask', fd)
                                                ELSE maxfd
    /\ aeApiDelEvent(fd, dirs)
    /\ ended' = IF mask'[fd] = {} THEN ended \cup {fd} ELSE ended
    /\ UNCHANGED <<rproc, wproc, openFds, fired, cur, phase, closed>>

\* accept, socket or open gives the program a descriptor that was free.
OpenFd(fd) ==
    /\ fd \notin openFds
    /\ openFds' = openFds \cup {fd}
    /\ UNCHANGED <<registry, interest, dispatch, history>>

\* close(2): the kernel forgets the descriptor and drops it from the epoll
\* set; the table of the event loop is not told.
CloseFd(fd) ==
    /\ fd \in openFds
    /\ openFds' = openFds \ {fd}
    /\ interest' = [s \in Slot |-> IF s = fd THEN {} ELSE interest[s]]
    /\ ended' = IF fd \in Registered(mask) THEN ended \cup {fd} ELSE ended
    /\ closed' = closed \cup {fd}
    /\ UNCHANGED <<registry, dispatch>>

Register(fd, dirs, proc, ret) ==
    /\ UserCode /\ MayGoOn /\ (fd \in Slot => MayRegister(fd))
    /\ aeCreateFileEvent(fd, dirs, proc, ret)
Deregister(fd, dirs) == UserCode /\ MayEnd(fd) /\ aeDeleteFileEvent(fd, dirs)
Open(fd) == UserCode /\ MayGoOn /\ OpenFd(fd)
Close(fd) == UserCode /\ MayClose(fd) /\ CloseFd(fd)

-----------------------------------------------------------------------------
(* aeProcessEvents: poll, then one entry of the fired array after another.  *)

\* What epoll_wait may report for fd: directions it watches, and WRITABLE for
\* EPOLLERR and EPOLLHUP, which it reports unasked.
Reportable(fd) == IF interest[fd] = {} THEN {} ELSE interest[fd] \cup {"WRITABLE"}

\* The call polls when something is registered, or when it also serves timers
\* (withTimers) and so has to sleep.
Poll(withTimers) ==
    /\ phase = "idle"
    /\ maxfd # -1 \/ withTimers
    /\ fired' \in [Slot -> SUBSET Dir]
    /\ \A fd \in Slot : fired'[fd] \subseteq Reportable(fd)
    /\ phase' = "dispatch"
    /\ ended' = {} /\ closed' = {}
    /\ UNCHANGED <<registry, kernel, cur>>

\* Take a fired entry; call rfileProc if the table still wants the event.
StartEvent(fd) ==
    /\ phase = "dispatch"
    /\ fired[fd] # {}
    /\ cur' = fd
    /\ phase' = IF "READABLE" \in mask[fd] \cap fired[fd] THEN "read"
                                                         ELSE "skipRead"
    /\ UNCHANGED <<registry, kernel, fired, history>>

ReadReturns ==
    /\ phase = "read"
    /\ phase' = "afterRead"
    /\ UNCHANGED <<registry, kernel, fired, cur, history>>

\* The test before wfileProc reads fe->mask again, after rfileProc has run.
WantsWrite ==
    /\ "WRITABLE" \in mask[cur] \cap fired[cur]
    /\ phase = "skipRead" \/ wproc[cur] # rproc[cur]

CallWrite ==
    /\ phase \in {"afterRead", "skipRead"}
    /\ WantsWrite
    /\ phase' = "write"
    /\ UNCHANGED <<registry, kernel, fired, cur, history>>

\* Mutant: the walk stays at its entry.
FinishKeepsEntry ==
    /\ \/ phase \in {"afterRead", "skipRead"} /\ ~WantsWrite
       \/ phase = "write"
    /\ cur' = -1
    /\ phase' = "dispatch"
    /\ UNCHANGED <<registry, kernel, fired, history>>

FinishEvent ==
    /\ \/ phase \in {"afterRead", "skipRead"} /\ ~WantsWrite
       \/ phase = "write"
    /\ fired' = [fired EXCEPT ![cur] = {}]
    /\ cur' = -1
    /\ phase' = "dispatch"
    /\ UNCHANGED <<registry, kernel, history>>

FinishDispatch ==
    /\ phase = "dispatch"
    /\ \A fd \in Slot : fired[fd] = {}
    /\ phase' = "idle"
    /\ UNCHANGED <<registry, kernel, fired, cur, history>>

Next ==
    \/ \E fd \in Fd, dirs \in Mask, proc \in Procs,
          ret \in {"AE_OK", "AE_ERR"} : Register(fd, dirs, proc, ret)
    \/ \E fd \in Fd, dirs \in Mask : Deregister(fd, dirs)
    \/ \E fd \in Fd : Open(fd)
    \/ \E fd \in Fd : Close(fd)
    \/ \E withTimers \in BOOLEAN : Poll(withTimers)
    \/ \E fd \in Slot : StartEvent(fd)
    \/ ReadReturns
    \/ CallWrite
    \/ FinishEvent
    \/ FinishDispatch

Spec == Init /\ [][Next]_vars

-----------------------------------------------------------------------------
(* Properties.                                                             *)

\* maxfd is "highest file descriptor currently registered" (ae.h): after any
\* order of registrations and deletions, also of the highest descriptor, it
\* is the largest descriptor whose mask is not AE_NONE, and -1 if none is.
MaxfdExact == maxfd = Max(Registered(mask) \cup {-1})

\* The epoll set never disagrees with the table about what is watched: epoll
\* watches exactly the table's mask, or nothing at all, and only descriptors
\* that are open.  A stale interest would report events nobody handles.
InterestAgrees ==
    \A fd \in Slot :
        /\ interest[fd] \in {{}, mask[fd]}
        /\ interest[fd] # {} => fd \in openFds

\* The only way to lose the kernel's half of a registration (and with it every
\* later event of the descriptor) is to close a descriptor that is still
\* registered; no sequence of aeCreateFileEvent and aeDeleteFileEvent does it.
LostOnlyByClose ==
    [][\A fd \in Slot :
          interest[fd] = mask[fd] /\ interest'[fd] # mask'[fd]
              => fd \in openFds /\ fd \notin openFds']_vars

\* aeCreateEventLoop leaves rfileProc and wfileProc unset: aeProcessEvents
\* calls neither before an aeCreateFileEvent for that direction has set it.
CallsSetHandler ==
    /\ phase = "read" => rproc[cur] # NoProc
    /\ phase = "write" => wproc[cur] # NoProc

\* A callback is only entered for a registration that has lived since the poll
\* that reported it: no event of a removed element, or of a file that was closed,
\* reaches the one that has its number now (ae.c:463).
FreshDelivery ==
    [][InCallback' /\ phase' # phase => cur' \notin ended]_vars

\* "maybe an already processed event removed an element that fired and we
\* still didn't processed, so we check if the event is still valid" (ae.c:463):
\* the check lets no event of a file through that the callback of an earlier
\* entry has closed, if the table and epoll agree about the number, that is, if
\* the element was removed first.
StillValid ==
    [][phase = "dispatch" /\ phase' = "read" /\ interest[cur'] = mask[cur']
          => cur' \notin closed]_vars
=============================================================================

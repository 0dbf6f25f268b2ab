------------------------------ MODULE AeTimers ------------------------------
(***************************************************************************)
(* The time-event half of the ae event loop (net/ae.c): the list of        *)
(* timers, how long aeProcessEvents sleeps for them, and the pass of       *)
(* processTimeEvents that calls the ones that are due.                     *)
(*                                                                         *)
(* New timers go to the head of the list with the next id, and nothing     *)
(* else moves a node: the list from its head is live in descending order   *)
(* of id, te->next is the largest id below te, and ids name the nodes.     *)
(* The wall clock runs on during every step, callbacks included, and may   *)
(* be set back.  aeMain passes AE_ALL_EVENTS; file events are a reason to  *)
(* wake early and a place where user code runs.                            *)
(***************************************************************************)
EXTENDS Integers, FiniteSetsExt

CONSTANTS
    MsPerSec,           \* milliseconds in a second: 1000 in the code
    IntMax,             \* the largest int, the type of epoll_wait's timeout
    Periods,            \* delays a program asks for, in milliseconds
    MaxId,              \* bound: timers ever created
    MaxTime,            \* bound: last millisecond of the wall clock
    MaxSetBacks,        \* bound: times the wall clock is set back
    RearmAfterDelete    \* TRUE: a callback may delete its own timer and
                        \* still return a period

ASSUME TimersAssumption ==
    /\ MsPerSec \in Nat \ {0}
    /\ IntMax \in Nat /\ MsPerSec - 1 <= IntMax
    /\ Periods \subseteq Nat
    /\ MaxId \in Nat /\ MaxTime \in Nat /\ MaxSetBacks \in Nat
    /\ RearmAfterDelete \in BOOLEAN

VARIABLES
    clock,      \* the wall clock, as aeGetTime reports it
    setBacks,   \* how often the clock has been set back
    live,       \* the ids of the timers in the list
    when,       \* te->when_sec and te->when_ms of every timer
    nextId,     \* eventLoop->timeEventNextId
    lastTime,   \* eventLoop->lastTime, a second
    phase,      \* where control is
    sleep,      \* what is left of epoll_wait's timeout, Forever if negative
    te,         \* processTimeEvents: the node being looked at, or Null
    maxId,      \* processTimeEvents: the newest timer the pass may call
    heir,       \* the timer that malloc gave te's freed memory, or Null
    floor       \* history: the earliest clock reading since the pass began

timers == <<live, when, nextId>>
pass == <<te, maxId, heir>>
wall == <<clock, setBacks>>
vars == <<clock, setBacks, live, when, nextId, lastTime, phase, sleep, te,
          maxId, heir, floor>>

Id == 0 .. MaxId - 1
Null == -1
Forever == -1
Time == [sec : Nat, ms : 0 .. MsPerSec - 1]
NoTime == [sec |-> 0, ms |-> 0]
InPass == {"scan", "callback", "finalizer"}
Phase == InPass \cup {"idle", "asleep", "files"}

TypeOK ==
    /\ clock \in Time /\ clock.sec >= 1 /\ setBacks \in Nat
    /\ nextId \in 0 .. MaxId
    /\ live \subseteq 0 .. nextId - 1
    /\ when \in [Id -> Time]
    /\ lastTime \in Nat
    /\ phase \in Phase
    /\ sleep \in Nat \cup {Forever}
    /\ te \in Id \cup {Null}
    /\ maxId \in Id \cup {Null}
    /\ heir \in Id \cup {Null}
    /\ floor \in Time

Before(a, b) == a.sec < b.sec \/ (a.sec = b.sec /\ a.ms < b.ms)
Ms(t) == t.sec * MsPerSec + t.ms

\* aeCreateEventLoop, at some moment after the epoch.
Init ==
    /\ clock = [sec |-> 1, ms |-> 0]
    /\ setBacks = 0
    /\ live = {}
    /\ when = [i \in Id |-> NoTime]
    /\ nextId = 0
    /\ lastTime = 1
    /\ phase = "idle"
    /\ sleep = 0
    /\ te = Null
    /\ maxId = Null
    /\ heir = Null
    /\ floor = NoTime

-----------------------------------------------------------------------------
(* The wall clock.                                                         *)

\* A millisecond passes.  The wall clock stops at the bound, epoll_wait's
\* timeout runs on.
Tick ==
    /\ Ms(clock) < MaxTime \/ sleep > 0
    /\ clock' = IF Ms(clock) = MaxTime THEN clock
                ELSE IF clock.ms + 1 = MsPerSec
                THEN [sec |-> clock.sec + 1, ms |-> 0]
                ELSE [clock EXCEPT !.ms = @ + 1]
    /\ sleep' = IF sleep > 0 THEN sleep - 1 ELSE sleep
    /\ UNCHANGED <<setBacks, timers, lastTime, phase, pass, floor>>

\* The clock is set to an earlier time; epoll_wait's timeout does not notice.
SetBack(t) ==
    /\ setBacks < MaxSetBacks
    /\ Before(t, clock)
    /\ clock' = t
    /\ setBacks' = setBacks + 1
    /\ floor' = IF Before(t, floor) THEN t ELSE floor
    /\ UNCHANGED <<timers, lastTime, phase, sleep, pass>>

-----------------------------------------------------------------------------
(* The calls user code makes: between two calls of aeProcessEvents, in a   *)
(* file callback, in a timer's callback and in its finalizer.              *)

UserCode == phase \in {"idle", "files", "callback", "finalizer"}

\* Mutant: the milliseconds are added without a carry.
AddWithoutCarry(p) ==
    [sec |-> clock.sec + (p \div MsPerSec), ms |-> clock.ms + (p % MsPerSec)]

aeAddMillisecondsToNow(p) ==
    LET sec == clock.sec + (p \div MsPerSec)
        ms == clock.ms + (p % MsPerSec)
    IN  IF ms >= MsPerSec THEN [sec |-> sec + 1, ms |-> ms - MsPerSec]
                          ELSE [sec |-> sec, ms |-> ms]

\* malloc may return the block of the running timer if that has been freed.
aeCreateTimeEvent(p) ==
    /\ UserCode
    /\ nextId < MaxId
    /\ nextId' = nextId + 1
    /\ live' = live \cup {nextId}
    /\ when' = [when EXCEPT ![nextId] = aeAddMillisecondsToNow(p)]
    /\ \/ UNCHANGED heir
       \/ phase = "callback" /\ te \notin live /\ heir = Null /\ heir' = nextId
    /\ UNCHANGED <<wall, lastTime, phase, sleep, te, maxId, floor>>

\* malloc failed: AE_ERR, and the id is gone.
CreateFails ==
    /\ UserCode
    /\ nextId < MaxId
    /\ nextId' = nextId + 1
    /\ UNCHANGED <<wall, live, when, lastTime, phase, sleep, pass, floor>>

\* The node is unlinked and freed, so its times are gone.
Unlink(i) ==
    /\ live' = live \ {i}
    /\ when' = [when EXCEPT ![i] = NoTime]

\* The finalizer's calls are calls user code may make next anyway.
aeDeleteTimeEvent(i) ==
    /\ UserCode
    /\ i \in live
    /\ Unlink(i)
    /\ heir' = IF i = heir THEN Null ELSE heir
    /\ UNCHANGED <<wall, nextId, lastTime, phase, sleep, te, maxId, floor>>

-----------------------------------------------------------------------------
(* aeProcessEvents: how long to sleep.                                     *)

\* The first of the timers that are due soonest, in list order.
aeSearchNearestTimer ==
    CHOOSE i \in live :
        \A j \in live : Before(when[i], when[j]) \/ (when[i] = when[j] /\ j <= i)

\* Mutant: the second borrowed for the milliseconds is not taken.
TimevalNoBorrow(w) ==
    LET borrow == w.ms < clock.ms
        sec == w.sec - clock.sec
        ms == w.ms - clock.ms + (IF borrow THEN MsPerSec ELSE 0)
    IN  (IF sec < 0 THEN 0 ELSE sec) * MsPerSec + ms

\* tv: seconds and milliseconds are clamped at zero one by one, and the
\* milliseconds are never negative.
TimevalUntil(w) ==
    LET borrow == w.ms < clock.ms
        sec == w.sec - clock.sec - (IF borrow THEN 1 ELSE 0)
        ms == w.ms - clock.ms + (IF borrow THEN MsPerSec ELSE 0)
    IN  (IF sec < 0 THEN 0 ELSE sec) * MsPerSec + ms

\* The long is passed as an int; any negative timeout waits forever.
AsTimeout(x) ==
    LET r == x % (2 * (IntMax + 1)) IN IF r <= IntMax THEN r ELSE Forever

GoToSleep ==
    /\ phase = "idle"
    /\ phase' = "asleep"
    /\ sleep' = IF live = {} THEN Forever
                ELSE AsTimeout(TimevalUntil(when[aeSearchNearestTimer]))
    /\ UNCHANGED <<wall, timers, lastTime, pass, floor>>

\* The timeout is over, or a file event came first.
Wake(timedOut) ==
    /\ phase = "asleep"
    /\ timedOut => sleep = 0
    /\ phase' = "files"
    /\ sleep' = 0
    /\ UNCHANGED <<wall, timers, lastTime, pass, floor>>

-----------------------------------------------------------------------------
(* processTimeEvents.                                                      *)

\* Mutant: a clock that stands still is taken for a skew.
NotAfter == clock.sec <= lastTime

Skewed == clock.sec < lastTime

\* Mutant: one too few.
NewestButOne == nextId - 2

\* Timers created from now on wait for the next pass.
NewestId == nextId - 1

StartPass ==
    /\ phase = "files"
    /\ when' = IF Skewed
               THEN [i \in Id |-> IF i \in live THEN [when[i] EXCEPT !.sec = 0]
                                                ELSE when[i]]
               ELSE when
    /\ lastTime' = clock.sec
    /\ te' = Max(live \cup {Null})
    /\ maxId' = NewestId
    /\ floor' = clock
    /\ phase' = "scan"
    /\ UNCHANGED <<wall, live, nextId, sleep, heir>>

\* Mutants: ">" for ">="; the seconds and the milliseconds compared apart.
DueStrictly(i) == Before(when[i], clock)
DueBothParts(i) == clock.sec >= when[i].sec /\ clock.ms >= when[i].ms

Due(i) == \/ clock.sec > when[i].sec
          \/ clock.sec = when[i].sec /\ clock.ms >= when[i].ms

SkipTimer ==
    /\ phase = "scan" /\ te # Null
    /\ te > maxId \/ ~Due(te)
    /\ te' = Max({j \in live : j < te} \cup {Null})
    /\ UNCHANGED <<wall, timers, lastTime, phase, sleep, maxId, heir, floor>>

CallTimer ==
    /\ phase = "scan" /\ te # Null
    /\ te <= maxId /\ Due(te)
    /\ phase' = "callback"
    /\ UNCHANGED <<wall, timers, lastTime, sleep, pass, floor>>

\* The callback returned a period: te is armed again and the scan restarts.
\* If the callback deleted te, the write goes to freed memory, which another
\* timer may own by now.
ReturnPeriod(p) ==
    /\ phase = "callback"
    /\ RearmAfterDelete \/ te \in live
    /\ LET target == IF te \in live THEN te ELSE heir IN
       when' = IF target = Null THEN when
               ELSE [when EXCEPT ![target] = aeAddMillisecondsToNow(p)]
    /\ phase' = "scan"
    /\ te' = Max(live \cup {Null})
    /\ heir' = Null
    /\ UNCHANGED <<wall, live, nextId, lastTime, sleep, maxId, floor>>

\* The callback returned AE_NOMORE: te is deleted, if that is still to do.
ReturnNoMore ==
    /\ phase = "callback"
    /\ IF te \in live THEN Unlink(te) ELSE UNCHANGED <<live, when>>
    /\ phase' = "finalizer"
    /\ heir' = Null
    /\ UNCHANGED <<wall, nextId, lastTime, sleep, te, maxId, floor>>

FinalizerReturns ==
    /\ phase = "finalizer"
    /\ phase' = "scan"
    /\ te' = Max(live \cup {Null})
    /\ UNCHANGED <<wall, timers, lastTime, sleep, maxId, heir, floor>>

EndPass ==
    /\ phase = "scan" /\ te = Null
    /\ phase' = "idle"
    /\ maxId' = Null
    /\ floor' = NoTime
    /\ UNCHANGED <<wall, timers, lastTime, sleep, te, heir>>

CallbackReturns == ReturnNoMore \/ \E p \in Periods : ReturnPeriod(p)

Next ==
    \/ Tick
    \/ \E sec \in 1 .. clock.sec, ms \in 0 .. MsPerSec - 1 :
          SetBack([sec |-> sec, ms |-> ms])
    \/ \E p \in Periods : aeCreateTimeEvent(p)
    \/ CreateFails
    \/ \E i \in Id : aeDeleteTimeEvent(i)
    \/ GoToSleep
    \/ \E timedOut \in BOOLEAN : Wake(timedOut)
    \/ StartPass
    \/ SkipTimer
    \/ CallTimer
    \/ CallbackReturns
    \/ FinalizerReturns
    \/ EndPass

Spec == Init /\ [][Next]_vars

\* Time passes, epoll_wait returns when its timeout is over, and user code
\* that runs returns: the loop itself never stops between two steps.
FairSpec ==
    /\ Spec
    /\ WF_vars(Tick) /\ WF_vars(GoToSleep) /\ WF_vars(Wake(TRUE))
    /\ WF_vars(StartPass) /\ WF_vars(SkipTimer \/ CallTimer \/ EndPass)
    /\ WF_vars(CallbackReturns) /\ WF_vars(FinalizerReturns)

-----------------------------------------------------------------------------
(* Properties.                                                             *)

\* "force all the time events to be processed ASAP" (ae.c): a timer that skew
\* detection forced, by zeroing its when_sec, never outlives that pass, whatever
\* the callbacks before it in the list create, delete or do to the clock.
ForcedTimersRun ==
    phase \notin InPass => \A i \in live : when[i].sec # 0

\* "Process all time events that have arrived" (ae.c): when a pass ends, no
\* timer that was there at its start is still waiting for a time that the
\* clock never was before, although every callback may change the list.
NoDueTimerSkipped ==
    [][phase = "scan" /\ phase' = "idle"
          => \A i \in live : i <= maxId => Before(floor, when[i])]_vars

\* Only a timer's own callback, by returning a period, or a clock that went
\* back, changes the time at which a timer is called ("yes, this time event is
\* executed again retval milliseconds later", ae.c).
TimerKeepsItsTime ==
    [][\A i \in live \cap live' :
          when'[i] # when[i]
              => \/ phase = "callback" /\ i = te
                 \/ phase = "files" /\ clock.sec < lastTime]_vars

StartsSleeping == phase = "idle" /\ phase' = "asleep"

\* The time of the timer that is due first, in milliseconds.
SoonestMs == Min({Ms(when[i]) : i \in live})

\* The time missing for the nearest timer to fire (ae.c), if it lies ahead.
Missing == SoonestMs - Ms(clock)

\* The loop sleeps until the next time event is ready to fire, exactly, when
\* that lies ahead and an int can hold the wait; a longer wait becomes a shorter
\* or an endless one; for a timer that is due already the sleep ends, within a
\* second.
SleepsUntilNearest ==
    [][StartsSleeping /\ live # {} =>
          /\ Missing \in 0 .. IntMax => sleep' = Missing
          /\ Missing > IntMax => sleep' = Forever \/ sleep' \in 0 .. Missing - 1
          /\ Missing < 0 => sleep' \in 0 .. MsPerSec - 1]_vars

\* "The difference is below 0, the event can be executed already, set the
\* seconds and milliseconds to 0 (do not block)" (ae.c:431).
OverdueTimerDoesNotWait ==
    [][StartsSleeping /\ live # {} /\ Missing < 0 => sleep' = 0]_vars

\* A timer that is due within the modelled time, and no further ahead than an
\* int can count, is called or deleted in the end, whatever the timers behind it,
\* the program and the clock do.  It may wait for ever in two cases only: newer
\* timers, which are in front of it where every walk starts again, are called
\* over and over; or a pass that began before it was created never ends, because
\* a callback is due again whenever it returns.
DueTimersFire ==
    \A i \in Id :
        \/ []<>(phase = "callback" /\ te > i)
        \/ <>[](phase \in InPass /\ maxId < i)
        \/ i \in live /\ Ms(when[i]) <= MaxTime
               ~> i \notin live \/ (phase = "callback" /\ te = i)
=============================================================================

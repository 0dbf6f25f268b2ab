--------------------------- MODULE AeTimersProofs ---------------------------
(***************************************************************************)
(* Proofs about AeTimers, for every length of a second, every set of       *)
(* periods and every number of timers, clock readings and set-backs.       *)
(***************************************************************************)
EXTENDS AeTimers, BoundedSets, TLAPS

-----------------------------------------------------------------------------
(* Arithmetic on the clock.                                                *)

\* The carry of aeAddMillisecondsToNow is enough: the result is a time whose
\* milliseconds are below a second, not before the clock it was added to.
LEMMA AddMillisecondsType ==
    ASSUME clock \in Time, NEW p \in Nat
    PROVE  /\ aeAddMillisecondsToNow(p) \in Time
           /\ aeAddMillisecondsToNow(p).sec >= clock.sec
           /\ ~ Before(aeAddMillisecondsToNow(p), clock)
<1> DEFINE d == p \div MsPerSec
           r == p % MsPerSec
<1>1. d \in Nat /\ r \in 0 .. MsPerSec - 1
  BY TimersAssumption
<1>2. clock.sec \in Nat /\ clock.ms \in 0 .. MsPerSec - 1 /\ MsPerSec \in Nat
  <2>1. \A t \in Time : t.sec \in Nat /\ t.ms \in 0 .. MsPerSec - 1
    BY DEF Time
  <2> QED  BY <2>1, TimersAssumption
<1>3. aeAddMillisecondsToNow(p) =
        IF clock.ms + r >= MsPerSec
        THEN [sec |-> clock.sec + d + 1, ms |-> clock.ms + r - MsPerSec]
        ELSE [sec |-> clock.sec + d, ms |-> clock.ms + r]
  BY <1>1, <1>2 DEF aeAddMillisecondsToNow
<1> HIDE DEF d, r
<1> DEFINE a == aeAddMillisecondsToNow(p)
<1>4. CASE clock.ms + r >= MsPerSec
  <2>1. a = [sec |-> clock.sec + d + 1, ms |-> clock.ms + r - MsPerSec]
    BY <1>3, <1>4
  <2>2. clock.sec + d + 1 \in Nat /\ clock.ms + r - MsPerSec \in 0 .. MsPerSec - 1
    BY <1>1, <1>2, <1>4
  <2>3. a \in Time /\ a.sec = clock.sec + d + 1
    BY <2>1, <2>2 DEF Time
  <2> HIDE DEF a
  <2>4. a.sec > clock.sec
    BY <1>1, <1>2, <2>3
  <2> QED
    <3>1. ~ Before(a, clock)
      BY <1>2, <2>4, <2>3 DEF Before, Time
    <3>2. a.sec >= clock.sec
      BY <1>2, <2>4, <2>3 DEF Time
    <3> QED  BY <2>3, <3>1, <3>2 DEF a
<1>5. CASE ~ (clock.ms + r >= MsPerSec)
  <2>1. a = [sec |-> clock.sec + d, ms |-> clock.ms + r]
    BY <1>3, <1>5
  <2>2. clock.sec + d \in Nat /\ clock.ms + r \in 0 .. MsPerSec - 1
    BY <1>1, <1>2, <1>5
  <2>3. a \in Time /\ a.sec = clock.sec + d /\ a.ms = clock.ms + r
    BY <2>1, <2>2 DEF Time
  <2> HIDE DEF a
  <2>4. a.sec >= clock.sec /\ a.ms >= clock.ms
    BY <1>1, <1>2, <2>3
  <2> QED
    <3>1. ~ Before(a, clock)
      BY <1>2, <2>4, <2>3 DEF Before, Time
    <3> QED  BY <2>3, <2>4, <3>1 DEF a
<1> QED  BY <1>4, <1>5

\* What Time says of one of its members.
LEMMA TimeParts ==
    ASSUME NEW t \in Time
    PROVE  /\ t.sec \in Nat /\ t.ms \in 0 .. MsPerSec - 1
           /\ t = [sec |-> t.sec, ms |-> t.ms]
BY DEF Time

\* Before is a strict order on times, and total.
LEMMA BeforeOrder ==
    ASSUME NEW a \in Time, NEW b \in Time
    PROVE  /\ ~ (Before(a, b) /\ Before(b, a))
           /\ a = b => ~ Before(a, b)
           /\ a.sec < b.sec => Before(a, b)
           /\ a.sec = b.sec /\ a.ms < b.ms => Before(a, b)
           /\ a.sec = b.sec /\ a.ms = b.ms => a = b
<1>1. /\ a.sec \in Nat /\ a.ms \in 0 .. MsPerSec - 1
      /\ b.sec \in Nat /\ b.ms \in 0 .. MsPerSec - 1
      /\ MsPerSec \in Nat
  BY TimeParts, TimersAssumption
<1>2. a.sec = b.sec /\ a.ms = b.ms => a = b
  BY TimeParts
<1> QED  BY <1>1, <1>2 DEF Before

\* Comparing seconds first and then milliseconds is transitive.
LEMMA BeforeTransitive ==
    ASSUME NEW a \in Time, NEW b \in Time, NEW c \in Time, ~ Before(b, a)
    PROVE  /\ ~ Before(c, b) => ~ Before(c, a)
           /\ Before(b, c) => Before(a, c)
<1>1. /\ a.sec \in Int /\ a.ms \in Int
      /\ b.sec \in Int /\ b.ms \in Int
      /\ c.sec \in Int /\ c.ms \in Int
  BY TimeParts, TimersAssumption
<1> QED  BY <1>1 DEF Before

\* Ids of timers are numbers, and Null is none of them.
LEMMA IdFacts ==
    ASSUME TypeOK
    PROVE  /\ live \subseteq Id /\ nextId \notin live /\ nextId \in Nat
           /\ (nextId < MaxId => nextId \in Id)
           /\ nextId - 1 \in Id \cup {Null}
BY TimersAssumption DEF TypeOK, Id, Null

\* One of the timers is due soonest, and aeSearchNearestTimer finds it.
LEMMA NearestFound ==
    ASSUME TypeOK, live # {}
    PROVE  /\ aeSearchNearestTimer \in live
           /\ \A j \in live : ~ Before(when[j], when[aeSearchNearestTimer])
<1>0. MaxId \in Nat /\ \A i \in live : i \in -1 .. MaxId - 1 /\ i \in Int
  BY TimersAssumption DEF TypeOK
<1>1. \A i \in live : /\ when[i] \in Time
                      /\ when[i].sec \in Nat /\ when[i].ms \in Nat
  <2> SUFFICES ASSUME NEW i \in live
               PROVE  when[i] \in Time /\ when[i].sec \in Nat /\ when[i].ms \in Nat
    OBVIOUS
  <2>1. i \in Id /\ when \in [Id -> Time]
    BY IdFacts DEF TypeOK
  <2>2. when[i] \in Time /\ MsPerSec \in Nat
    BY <2>1, TimersAssumption
  <2> QED  BY <2>2, TimeParts
<1>2. PICK s \in {when[i].sec : i \in live} :
              \A x \in {when[i].sec : i \in live} : s <= x
  <2> DEFINE S == {when[i].sec : i \in live}
  <2>1. S \subseteq Nat /\ S # {}
    BY <1>1
  <2> HIDE DEF S
  <2>2. \E s \in S : \A x \in S : s <= x
    BY <2>1, LeastNat
  <2> QED  BY <2>2 DEF S
<1> DEFINE L == {i \in live : when[i].sec = s}
<1>3. PICK m \in {when[i].ms : i \in L} : \A x \in {when[i].ms : i \in L} : m <= x
  <2> DEFINE S == {when[i].ms : i \in L}
  <2>1. S \subseteq Nat /\ S # {}
    BY <1>1
  <2> HIDE DEF S
  <2>2. \E k \in S : \A x \in S : k <= x
    BY <2>1, LeastNat
  <2> QED  BY <2>2 DEF S
<1> DEFINE K == {i \in L : when[i].ms = m}
           k == Max(K)
<1>4. k \in K /\ \A j \in K : k >= j
  <2>1. MaxId \in Nat /\ K \subseteq -1 .. MaxId - 1
    <3>1. K \subseteq live
      OBVIOUS
    <3> HIDE DEF K
    <3> QED  BY <1>0, <3>1
  <2>2. K # {}
    OBVIOUS
  <2> HIDE DEF K
  <2> QED  BY <2>1, <2>2, MaxOfBounded
<1>5. k \in live /\ when[k].sec = s /\ when[k].ms = m
  <2> HIDE DEF k
  <2> QED  BY <1>4
<1>6. ASSUME NEW j \in live
      PROVE  Before(when[k], when[j]) \/ (when[k] = when[j] /\ j <= k)
  <2>0. j \in Int /\ k \in Int /\ when[j] \in Time /\ when[k] \in Time
    <3> HIDE DEF k
    <3> QED  BY <1>0, <1>1, <1>5
  <2>1. s \in Nat /\ s <= when[j].sec /\ when[j].sec \in Nat
    BY <1>1, <1>2
  <2>2. CASE when[j].sec # s
    <3>1. when[k].sec < when[j].sec
      BY <1>5, <2>1, <2>2
    <3> HIDE DEF k
    <3> QED  BY <2>0, <3>1, BeforeOrder
  <2>3. CASE when[j].sec = s /\ when[j].ms # m
    <3>1. m \in Nat /\ m <= when[j].ms /\ when[j].ms \in Nat
      BY <1>1, <1>3, <2>3
    <3>2. when[k].sec = when[j].sec /\ when[k].ms < when[j].ms
      BY <1>5, <2>3, <3>1
    <3> HIDE DEF k
    <3> QED  BY <2>0, <3>2, BeforeOrder
  <2>4. CASE when[j].sec = s /\ when[j].ms = m
    <3>1. j \in K
      BY <2>4
    <3>2. when[k].sec = when[j].sec /\ when[k].ms = when[j].ms
      BY <1>5, <2>4
    <3> HIDE DEF K, k
    <3>3. when[k] = when[j]
      BY <2>0, <3>2, BeforeOrder
    <3>4. k >= j
      BY <1>4, <3>1
    <3> QED  BY <2>0, <3>3, <3>4
  <2> QED  BY <2>2, <2>3, <2>4
<1>7. \E i \in live :
        \A j \in live : Before(when[i], when[j]) \/ (when[i] = when[j] /\ j <= i)
  <2> HIDE DEF k
  <2> QED  BY <1>5, <1>6
<1> DEFINE n == aeSearchNearestTimer
<1>8. n \in live /\ \A j \in live :
                      Before(when[n], when[j]) \/ (when[n] = when[j] /\ j <= n)
  BY <1>7 DEF aeSearchNearestTimer
<1> HIDE DEF n
<1>9. ASSUME NEW j \in live PROVE ~ Before(when[j], when[n])
  <2>1. when[n] \in Time /\ when[j] \in Time
    BY <1>1, <1>8
  <2> QED  BY <1>8, <2>1, BeforeOrder
<1> QED  BY <1>8, <1>9 DEF n

-----------------------------------------------------------------------------
(* Type correctness.                                                       *)

\* The timeout computed for a timer is a wait in milliseconds, and what
\* epoll_wait makes of it is a shorter wait or none at all.
LEMMA TimevalNat ==
    ASSUME clock \in Time, NEW w \in Time
    PROVE  TimevalUntil(w) \in Nat
<1>1. /\ clock.sec \in Nat /\ clock.ms \in 0 .. MsPerSec - 1
      /\ w.sec \in Nat /\ w.ms \in 0 .. MsPerSec - 1
      /\ MsPerSec \in Nat
  BY TimeParts, TimersAssumption
<1>2. \A a \in Nat : a * MsPerSec \in Nat
  BY <1>1
<1> DEFINE sec == w.sec - clock.sec - (IF w.ms < clock.ms THEN 1 ELSE 0)
           up == IF sec < 0 THEN 0 ELSE sec
           ms == w.ms - clock.ms + (IF w.ms < clock.ms THEN MsPerSec ELSE 0)
<1>3. up \in Nat
  BY <1>1
<1>4. ms \in Nat
  BY <1>1
<1>5. TimevalUntil(w) = up * MsPerSec + ms
  BY DEF TimevalUntil
<1> HIDE DEF sec, up, ms
<1> QED  BY <1>2, <1>3, <1>4, <1>5

\* What the conversion to int leaves of a wait it can hold.
LEMMA AsTimeoutFacts ==
    ASSUME NEW x \in Nat
    PROVE  /\ AsTimeout(x) \in Nat \cup {Forever}
           /\ AsTimeout(x) <= x /\ AsTimeout(x) <= IntMax
           /\ x <= IntMax => AsTimeout(x) = x
<1> DEFINE N == 2 * (IntMax + 1)
           r == x % N
<1>1. N \in Nat /\ N > 0 /\ IntMax \in Nat /\ IntMax < N
  BY TimersAssumption
<1>2. AsTimeout(x) = IF r <= IntMax THEN r ELSE Forever
  BY DEF AsTimeout
<1> HIDE DEF N
<1>3. r \in Nat /\ r <= x /\ (x < N => r = x)
  BY <1>1
<1> HIDE DEF r
<1> QED  BY <1>1, <1>2, <1>3 DEF Forever

\* The walk along the list stays on nodes of the list, and passes by none.
LEMMA HeadFacts ==
    ASSUME TypeOK
    PROVE  LET h == Max(live \cup {Null})
           IN  h \in live \cup {Null} /\ h \in Int /\ \A j \in live : j <= h
<1>1. nextId \in Nat /\ live \subseteq 0 .. nextId - 1
  BY TimersAssumption DEF TypeOK
<1> QED  BY <1>1, LargestOf DEF Null

\* te->next: the next id down the list, or the end of it.
LEMMA NextFacts ==
    ASSUME TypeOK, NEW x \in Int
    PROVE  LET h == Max({j \in live : j < x} \cup {Null})
           IN  /\ h \in live \cup {Null} /\ h \in Int
               /\ \A j \in live : j < x => j <= h
<1>1. nextId \in Nat /\ live \subseteq 0 .. nextId - 1
  BY TimersAssumption DEF TypeOK
<1> QED  BY <1>1, LargestBelow DEF Null

\* A new event loop has well-formed timers and clock.
LEMMA TypeInit == Init => TypeOK
BY TimersAssumption DEF Init, TypeOK, Time, Id, Null, Forever, Phase, InPass, NoTime

\* Every step keeps list, times, clock and pass well formed.
LEMMA TypeNext == TypeOK /\ [Next]_vars => TypeOK'
<1> SUFFICES ASSUME TypeOK, [Next]_vars PROVE TypeOK'
  OBVIOUS
<1>0. /\ MsPerSec \in Nat /\ MsPerSec > 0 /\ MaxId \in Nat
      /\ NoTime \in Time
  BY TimersAssumption DEF NoTime, Time
<1>1. CASE Tick
  <2>1. clock'.sec >= 1 /\ clock' \in Time
    BY <1>0, <1>1 DEF Tick, TypeOK, Time
  <2>2. sleep' \in Nat \cup {Forever}
    BY <1>1 DEF Tick, TypeOK, Forever
  <2> QED  BY <1>1, <2>1, <2>2 DEF Tick, TypeOK, timers, pass
<1>2. CASE \E sec \in 1 .. clock.sec, ms \in 0 .. MsPerSec - 1 :
              SetBack([sec |-> sec, ms |-> ms])
  <2>1. PICK sec \in 1 .. clock.sec, ms \in 0 .. MsPerSec - 1 :
              SetBack([sec |-> sec, ms |-> ms])
    BY <1>2
  <2> DEFINE t == [sec |-> sec, ms |-> ms]
  <2>2. t \in Time /\ t.sec >= 1
    BY DEF Time
  <2> HIDE DEF t
  <2> QED  BY <2>1, <2>2 DEF SetBack, TypeOK, timers, pass, t
<1>3. CASE \E p \in Periods : aeCreateTimeEvent(p)
  <2>1. PICK p \in Periods : aeCreateTimeEvent(p)
    BY <1>3
  <2>2. aeAddMillisecondsToNow(p) \in Time
    BY TimersAssumption, AddMillisecondsType DEF TypeOK
  <2>3. nextId \in Id /\ nextId \in Nat /\ nextId + 1 \in 0 .. MaxId
    BY <1>0, <2>1, IdFacts DEF aeCreateTimeEvent
  <2>4. when' \in [Id -> Time]
    BY <2>1, <2>2, <2>3 DEF aeCreateTimeEvent, TypeOK
  <2>5. nextId' \in 0 .. MaxId /\ live' \subseteq 0 .. nextId' - 1
    BY <2>1, <2>3 DEF aeCreateTimeEvent, TypeOK
  <2>6. heir' \in Id \cup {Null}
    BY <2>1, <2>3 DEF aeCreateTimeEvent, TypeOK
  <2> QED  BY <2>1, <2>4, <2>5, <2>6 DEF aeCreateTimeEvent, TypeOK, wall
<1>4. CASE \E i \in Id : aeDeleteTimeEvent(i)
  <2>1. PICK i \in Id : aeDeleteTimeEvent(i)
    BY <1>4
  <2>2. when' \in [Id -> Time] /\ live' \subseteq live
    BY <1>0, <2>1 DEF aeDeleteTimeEvent, Unlink, TypeOK
  <2> QED  BY <2>1, <2>2 DEF aeDeleteTimeEvent, TypeOK, wall
<1>5. CASE GoToSleep
  <2>1. sleep' \in Nat \cup {Forever}
    <3>1. CASE live = {}
      BY <1>5, <3>1 DEF GoToSleep
    <3>2. CASE live # {}
      <4> DEFINE w == when[aeSearchNearestTimer]
      <4>1. w \in Time
        BY <3>2, NearestFound, IdFacts DEF TypeOK
      <4> HIDE DEF w
      <4>2. AsTimeout(TimevalUntil(w)) \in Nat \cup {Forever}
        BY <4>1, TimevalNat, AsTimeoutFacts DEF TypeOK
      <4> QED  BY <1>5, <3>2, <4>2 DEF GoToSleep, w
    <3> QED  BY <3>1, <3>2
  <2> QED  BY <1>5, <2>1 DEF GoToSleep, TypeOK, wall, timers, pass, Phase
<1>6. CASE \E timedOut \in BOOLEAN : Wake(timedOut)
  BY <1>6 DEF Wake, TypeOK, wall, timers, pass, Phase
<1>7. CASE StartPass
  <2>1. \A i \in Id : [when[i] EXCEPT !.sec = 0] \in Time
    BY DEF TypeOK, Time
  <2>2. when' \in [Id -> Time]
    BY <1>7, <2>1 DEF StartPass, TypeOK
  <2>3. te' \in Id \cup {Null} /\ maxId' \in Id \cup {Null}
    BY <1>7, HeadFacts, IdFacts DEF StartPass, NewestId
  <2>4. clock.sec \in Nat
    BY TimeParts DEF TypeOK
  <2> QED
    BY <1>7, <2>2, <2>3, <2>4 DEF StartPass, TypeOK, wall, Phase, InPass
<1>8. CASE SkipTimer
  <2>1. te \in Int
    BY <1>8 DEF SkipTimer, TypeOK, Id, Null
  <2>2. te' \in Id \cup {Null}
    BY <1>8, <2>1, NextFacts, IdFacts DEF SkipTimer
  <2> QED  BY <1>8, <2>2 DEF SkipTimer, TypeOK, wall, timers
<1>9. CASE CallTimer
  BY <1>9 DEF CallTimer, TypeOK, wall, timers, pass, Phase, InPass
<1>10. CASE \E p \in Periods : ReturnPeriod(p)
  <2>1. PICK p \in Periods : ReturnPeriod(p)
    BY <1>10
  <2>2. aeAddMillisecondsToNow(p) \in Time
    BY TimersAssumption, AddMillisecondsType DEF TypeOK
  <2>3. when' \in [Id -> Time]
    BY <2>1, <2>2 DEF ReturnPeriod, TypeOK
  <2>4. te' \in Id \cup {Null}
    BY <2>1, HeadFacts, IdFacts DEF ReturnPeriod
  <2> QED  BY <2>1, <2>3, <2>4 DEF ReturnPeriod, TypeOK, wall, Phase, InPass
<1>11. CASE ReturnNoMore
  <2>1. when' \in [Id -> Time] /\ live' \subseteq live
    BY <1>0, <1>11 DEF ReturnNoMore, Unlink, TypeOK
  <2> QED  BY <1>11, <2>1 DEF ReturnNoMore, TypeOK, wall, Phase, InPass
<1>12. CASE FinalizerReturns
  <2>1. te' \in Id \cup {Null}
    BY <1>12, HeadFacts, IdFacts DEF FinalizerReturns
  <2> QED
    BY <1>12, <2>1 DEF FinalizerReturns, TypeOK, wall, timers, Phase, InPass
<1>13. CASE EndPass
  BY <1>0, <1>13 DEF EndPass, TypeOK, wall, timers, Phase
<1>14. CASE CreateFails
  BY <1>0, <1>14 DEF CreateFails, TypeOK, wall, pass
<1>15. CASE UNCHANGED vars
  BY <1>15 DEF vars, TypeOK
<1> QED
  BY <1>1, <1>2, <1>3, <1>4, <1>5, <1>6, <1>7, <1>8, <1>9, <1>10, <1>11, <1>12,
     <1>13, <1>14, <1>15 DEF Next, CallbackReturns

\* The timer list and the state of the pass keep their types; in particular
\* every timer's milliseconds stay below a second, what the search for the
\* nearest timer and the timeout computation rely on.
THEOREM TypeCorrect == Spec => []TypeOK
BY TypeInit, TypeNext, PTL DEF Spec

-----------------------------------------------------------------------------
(* What a pass of processTimeEvents achieves.                              *)

\* What holds of the timers the scan has left behind (the ids above te) and
\* of those it will not touch (the ids above maxId).  ForcedTimersRun and
\* NoDueTimerSkipped are what remains of it when te has run off the list.
PassInv ==
    /\ ForcedTimersRun
    /\ phase \in InPass =>
          /\ ~ Before(clock, floor)
          /\ \A i \in live : i > maxId => when[i].sec # 0
    /\ phase = "scan" =>
          \A i \in live : i > te => /\ when[i].sec # 0
                                    /\ i <= maxId => Before(floor, when[i])

\* A timer armed now has a second that is not zero.
LEMMA ArmedSecond ==
    ASSUME TypeOK, NEW p \in Periods
    PROVE  /\ aeAddMillisecondsToNow(p).sec # 0
           /\ aeAddMillisecondsToNow(p) \in Time
<1>1. p \in Nat /\ clock \in Time /\ clock.sec >= 1 /\ clock.sec \in Nat
  BY TimersAssumption, TimeParts DEF TypeOK
<1>2. /\ aeAddMillisecondsToNow(p) \in Time
      /\ aeAddMillisecondsToNow(p).sec >= clock.sec
  BY <1>1, AddMillisecondsType
<1>3. aeAddMillisecondsToNow(p).sec \in Nat
  BY <1>2, TimeParts
<1> QED  BY <1>1, <1>2, <1>3

\* A tick never takes the clock back.
LEMMA TickForward == ASSUME TypeOK, Tick PROVE clock' \in Time /\ ~ Before(clock', clock)
<1>1. /\ clock.sec \in Nat /\ clock.ms \in 0 .. MsPerSec - 1
      /\ MsPerSec \in Nat /\ clock \in Time
  BY TimersAssumption, TimeParts DEF TypeOK
<1>2. CASE clock' = clock
  BY <1>1, <1>2, BeforeOrder
<1>3. CASE clock.ms + 1 = MsPerSec /\ clock' = [sec |-> clock.sec + 1, ms |-> 0]
  BY <1>1, <1>3 DEF Before, Time
<1>4. CASE clock.ms + 1 # MsPerSec /\ clock' = [clock EXCEPT !.ms = clock.ms + 1]
  <2>1. clock'.sec = clock.sec /\ clock'.ms = clock.ms + 1 /\ clock' \in Time
    BY <1>1, <1>4 DEF Time
  <2> QED  BY <1>1, <2>1 DEF Before
<1> QED  BY <1>2, <1>3, <1>4 DEF Tick

\* The scan steps over a timer: it is not due, or it is too new.
LEMMA SkipKeepsPassInv == ASSUME TypeOK, PassInv, SkipTimer PROVE PassInv'
<1>1. /\ te \in Int /\ maxId \in Int
      /\ te' \in Int
      /\ \A j \in live : j < te => j <= te'
      /\ \A j \in live : j \in Int /\ j \in Id /\ when[j] \in Time
  <2>1. /\ te \in Int /\ maxId \in Int /\ te' \in Int
        /\ \A j \in live : j < te => j <= te'
    BY NextFacts, IdFacts DEF SkipTimer, TypeOK, Id, Null
  <2>2. \A j \in live : j \in Int /\ j \in Id /\ when[j] \in Time
    BY IdFacts DEF TypeOK
  <2> QED  BY <2>1, <2>2
<1>2. UNCHANGED <<clock, live, when, maxId, floor, phase>> /\ phase = "scan"
  BY DEF SkipTimer, wall, timers
<1>3. ASSUME NEW i \in live, i > te'
      PROVE  when[i].sec # 0 /\ (i <= maxId => Before(floor, when[i]))
  <2>1. CASE i > te
    BY <1>2, <2>1 DEF PassInv
  <2>2. CASE i = te /\ te > maxId
    BY <1>1, <1>2, <2>2 DEF PassInv, InPass
  <2>3. CASE i = te /\ ~ Due(te)
    <3>1. /\ when[i] \in Time /\ clock \in Time /\ floor \in Time
          /\ clock.sec \in Nat /\ clock.sec >= 1 /\ clock.ms \in Int
          /\ when[i].sec \in Nat /\ when[i].ms \in Int
      BY <1>1, TimeParts DEF TypeOK
    <3>2. Before(clock, when[i])
      BY <2>3, <3>1 DEF Due, Before
    <3>3. when[i].sec # 0
      BY <3>1, <3>2 DEF Before
    <3>4. ~ Before(clock, floor)
      BY <1>2 DEF PassInv, InPass
    <3> QED  BY <3>1, <3>2, <3>3, <3>4, BeforeTransitive
  <2> QED  BY <1>1, <1>3, <2>1, <2>2, <2>3 DEF SkipTimer
<1> QED  BY <1>2, <1>3 DEF PassInv, ForcedTimersRun, InPass

\* Every step of a pass, and of the callbacks inside it, keeps the invariant.
LEMMA PassInvNext == TypeOK /\ PassInv /\ [Next]_vars => PassInv'
<1> SUFFICES ASSUME TypeOK, PassInv, [Next]_vars PROVE PassInv'
  OBVIOUS
<1>0. /\ clock \in Time /\ floor \in Time /\ clock.sec \in Nat /\ clock.sec >= 1
      /\ live \subseteq Id /\ nextId \notin live
      /\ \A i \in live : i \in Int /\ when[i] \in Time
  BY TimeParts, IdFacts DEF TypeOK, Id
<1>1. CASE Tick
  <2>1. clock' \in Time /\ ~ Before(clock', clock)
    BY <1>1, TickForward
  <2>2. phase \in InPass => ~ Before(clock', floor)
    BY <1>0, <2>1, BeforeTransitive DEF PassInv
  <2> QED
    BY <1>1, <2>2 DEF Tick, PassInv, ForcedTimersRun, timers, pass
<1>2. CASE \E sec \in 1 .. clock.sec, ms \in 0 .. MsPerSec - 1 :
              SetBack([sec |-> sec, ms |-> ms])
  <2>1. PICK t \in Time : SetBack(t)
    BY <1>2 DEF Time
  <2>2. /\ floor' \in Time /\ ~ Before(floor, floor') /\ ~ Before(t, floor')
        /\ clock' = t
    BY <1>0, <2>1, BeforeOrder DEF SetBack
  <2>3. \A i \in live : Before(floor, when[i]) => Before(floor', when[i])
    BY <1>0, <2>2, BeforeTransitive
  <2> QED
    BY <2>1, <2>2, <2>3 DEF SetBack, PassInv, ForcedTimersRun, timers, pass
<1>3. CASE \E p \in Periods : aeCreateTimeEvent(p)
  <2>1. PICK p \in Periods : aeCreateTimeEvent(p)
    BY <1>3
  <2>2. nextId \in Id /\ phase # "scan"
    BY <2>1, IdFacts DEF aeCreateTimeEvent, UserCode
  <2>3. \A i \in live' : when'[i].sec # 0 \/ (i \in live /\ when'[i] = when[i])
    BY <1>0, <2>1, <2>2, ArmedSecond DEF aeCreateTimeEvent, TypeOK
  <2> QED
    BY <2>1, <2>2, <2>3 DEF aeCreateTimeEvent, PassInv, ForcedTimersRun, wall
<1>4. CASE \E i \in Id : aeDeleteTimeEvent(i)
  <2>1. PICK i \in Id : aeDeleteTimeEvent(i)
    BY <1>4
  <2>2. phase # "scan" /\ \A j \in live' : j \in live /\ when'[j] = when[j]
    BY <1>0, <2>1 DEF aeDeleteTimeEvent, UserCode, Unlink, TypeOK
  <2> QED
    BY <2>1, <2>2 DEF aeDeleteTimeEvent, PassInv, ForcedTimersRun, wall
<1>5. CASE GoToSleep
  BY <1>5 DEF GoToSleep, PassInv, ForcedTimersRun, wall, timers, pass, InPass
<1>6. CASE \E timedOut \in BOOLEAN : Wake(timedOut)
  BY <1>6 DEF Wake, PassInv, ForcedTimersRun, wall, timers, pass, InPass
<1>7. CASE StartPass
  <2>1. \A i \in live : ~ (i > te') /\ ~ (i > maxId')
    <3>1. te' \in Int /\ \A j \in live : j <= te'
      BY <1>7, HeadFacts DEF StartPass
    <3>2. \A j \in live : j <= nextId - 1 /\ nextId - 1 \in Int
      BY TimersAssumption DEF TypeOK
    <3> QED  BY <1>0, <1>7, <3>1, <3>2 DEF StartPass, NewestId
  <2>2. ~ Before(clock', floor')
    BY <1>0, <1>7, BeforeOrder DEF StartPass, wall
  <2> QED
    BY <1>7, <2>1, <2>2 DEF StartPass, PassInv, ForcedTimersRun, InPass
<1>8. CASE SkipTimer
  BY <1>8, SkipKeepsPassInv
<1>9. CASE CallTimer
  BY <1>9 DEF CallTimer, PassInv, ForcedTimersRun, wall, timers, pass, InPass
<1>10. CASE \E p \in Periods : ReturnPeriod(p)
  <2>1. PICK p \in Periods : ReturnPeriod(p)
    BY <1>10
  <2>2. \A i \in live : when'[i].sec # 0 \/ when'[i] = when[i]
    BY <1>0, <2>1, ArmedSecond DEF ReturnPeriod, TypeOK
  <2>3. \A i \in live : ~ (i > te')
    BY <1>0, <2>1, HeadFacts DEF ReturnPeriod
  <2> QED
    BY <2>1, <2>2, <2>3
       DEF ReturnPeriod, PassInv, ForcedTimersRun, wall, InPass
<1>11. CASE ReturnNoMore
  <2>1. \A j \in live' : j \in live /\ when'[j] = when[j]
    BY <1>0, <1>11 DEF ReturnNoMore, Unlink, TypeOK
  <2> QED
    BY <1>11, <2>1 DEF ReturnNoMore, PassInv, ForcedTimersRun, wall, InPass
<1>12. CASE FinalizerReturns
  <2>1. \A i \in live : ~ (i > te')
    BY <1>0, <1>12, HeadFacts DEF FinalizerReturns
  <2> QED
    BY <1>12, <2>1
       DEF FinalizerReturns, PassInv, ForcedTimersRun, wall, timers, InPass
<1>13. CASE EndPass
  <2>1. \A i \in live : i > te
    BY <1>13 DEF EndPass, TypeOK, Null
  <2> QED
    BY <1>13, <2>1 DEF EndPass, PassInv, ForcedTimersRun, wall, timers, InPass
<1>14. CASE CreateFails
  BY <1>14 DEF CreateFails, PassInv, ForcedTimersRun, wall, pass
<1>15. CASE UNCHANGED vars
  BY <1>15 DEF vars, PassInv, ForcedTimersRun
<1> QED
  BY <1>1, <1>2, <1>3, <1>4, <1>5, <1>6, <1>7, <1>8, <1>9, <1>10, <1>11, <1>12,
     <1>13, <1>14, <1>15 DEF Next, CallbackReturns

\* No pass is under way in a new event loop.
LEMMA PassInvInit == Init => PassInv
BY DEF Init, PassInv, ForcedTimersRun, InPass

\* Every timer that skew detection forces is called, deleted or armed anew
\* before the pass ends, whatever the callbacks do to the list meanwhile.
THEOREM ForcedTimersRunCorrect == Spec => []ForcedTimersRun
<1>1. PassInv => ForcedTimersRun
  BY DEF PassInv
<1> QED  BY <1>1, TypeInit, TypeNext, PassInvInit, PassInvNext, PTL DEF Spec

\* A pass leaves no timer behind that was due throughout it: restarting at the
\* head after every callback skips nothing.
THEOREM NoDueTimerSkippedCorrect == Spec => NoDueTimerSkipped
<1>1. TypeOK /\ PassInv /\ [Next]_vars =>
        [phase = "scan" /\ phase' = "idle"
            => \A i \in live : i <= maxId => Before(floor, when[i])]_vars
  <2> SUFFICES ASSUME TypeOK, PassInv, Next, phase = "scan", phase' = "idle"
               PROVE  \A i \in live : i <= maxId => Before(floor, when[i])
    BY DEF vars
  <2>1. te = Null
    BY DEF Next, Tick, SetBack, aeCreateTimeEvent, CreateFails, aeDeleteTimeEvent, UserCode,
           GoToSleep, Wake, StartPass, SkipTimer, CallTimer, CallbackReturns,
           ReturnPeriod, ReturnNoMore, FinalizerReturns, EndPass
  <2>2. \A i \in live : i > te
    BY <2>1, TimersAssumption DEF TypeOK, Null
  <2> QED  BY <2>2 DEF PassInv
<1> QED
  BY <1>1, TypeInit, TypeNext, PassInvInit, PassInvNext, PTL
     DEF Spec, NoDueTimerSkipped

\* When callbacks do not return a period for a timer they have deleted, only a
\* timer's own callback and skew detection change a timer's time.
THEOREM TimerKeepsItsTimeCorrect ==
    ASSUME ~ RearmAfterDelete
    PROVE  Spec => TimerKeepsItsTime
<1>1. TypeOK /\ [Next]_vars =>
        [\A i \in live \cap live' :
            when'[i] # when[i]
                => \/ phase = "callback" /\ i = te
                   \/ phase = "files" /\ clock.sec < lastTime]_vars
  <2> SUFFICES ASSUME TypeOK, Next, NEW i \in live, i \in live',
                      when'[i] # when[i]
               PROVE  \/ phase = "callback" /\ i = te
                      \/ phase = "files" /\ clock.sec < lastTime
    BY DEF vars
  <2>0. live \subseteq Id /\ nextId \notin live /\ when \in [Id -> Time]
    BY IdFacts DEF TypeOK
  <2>1. CASE \E p \in Periods : aeCreateTimeEvent(p)
    BY <2>0, <2>1 DEF aeCreateTimeEvent
  <2>2. CASE \E j \in Id : aeDeleteTimeEvent(j)
    BY <2>0, <2>2 DEF aeDeleteTimeEvent, Unlink
  <2>3. CASE StartPass
    BY <2>0, <2>3 DEF StartPass, Skewed
  <2>4. CASE \E p \in Periods : ReturnPeriod(p)
    BY <2>0, <2>4 DEF ReturnPeriod
  <2>5. CASE ReturnNoMore
    BY <2>0, <2>5 DEF ReturnNoMore, Unlink
  <2> QED
    BY <2>1, <2>2, <2>3, <2>4, <2>5
       DEF Next, CallbackReturns, CreateFails, Tick, SetBack, GoToSleep, Wake, SkipTimer,
           CallTimer, FinalizerReturns, EndPass, timers
<1> QED  BY <1>1, TypeInit, TypeNext, PTL DEF Spec, TimerKeepsItsTime

-----------------------------------------------------------------------------
(* How long the loop sleeps.                                               *)

\* Milliseconds order times as Before does.
LEMMA MsOrder ==
    ASSUME NEW a \in Time, NEW b \in Time
    PROVE  /\ Ms(a) \in Nat
           /\ Before(a, b) => Ms(a) < Ms(b)
           /\ a.sec < b.sec => Ms(a) < Ms(b)
<1>1. /\ a.sec \in Nat /\ a.ms \in 0 .. MsPerSec - 1
      /\ b.sec \in Nat /\ b.ms \in 0 .. MsPerSec - 1
      /\ MsPerSec \in Nat
  BY TimeParts, TimersAssumption
<1> DEFINE x == a.sec * MsPerSec
           y == b.sec * MsPerSec
<1>2. x \in Nat /\ y \in Nat
  BY <1>1
<1>3. a.sec < b.sec => x + MsPerSec <= y
  <2> SUFFICES ASSUME a.sec < b.sec PROVE x + MsPerSec <= y
    OBVIOUS
  <2> DEFINE k == b.sec - a.sec - 1
  <2>1. k \in Nat /\ b.sec = a.sec + 1 + k
    BY <1>1
  <2> HIDE DEF k
  <2>2. b.sec * MsPerSec = a.sec * MsPerSec + MsPerSec + k * MsPerSec
    BY <1>1, <2>1
  <2> DEFINE z == k * MsPerSec
  <2>3. z \in Nat
    BY <1>1, <2>1
  <2>4. y = x + MsPerSec + z
    BY <2>2
  <2> HIDE DEF x, y, z
  <2> QED  BY <1>1, <1>2, <2>3, <2>4
<1>4. a.sec = b.sec => x = y
  OBVIOUS
<1>5. Ms(a) = x + a.ms /\ Ms(b) = y + b.ms
  BY DEF Ms
<1> HIDE DEF x, y
<1> QED  BY <1>1, <1>2, <1>3, <1>4, <1>5 DEF Before

\* The timeval is the exact distance when the timer lies ahead; when it does
\* not, the seconds are clamped to 0 and less than a second is left.
LEMMA TimevalFacts ==
    ASSUME clock \in Time, NEW w \in Time
    PROVE  /\ ~ Before(w, clock) => TimevalUntil(w) = Ms(w) - Ms(clock)
           /\ Before(w, clock) => TimevalUntil(w) < MsPerSec
<1>1. /\ clock.sec \in Nat /\ clock.ms \in 0 .. MsPerSec - 1
      /\ w.sec \in Nat /\ w.ms \in 0 .. MsPerSec - 1
      /\ MsPerSec \in Nat
  BY TimeParts, TimersAssumption
<1> DEFINE c == IF w.ms < clock.ms THEN 1 ELSE 0
           sec == w.sec - clock.sec - c
           ms == w.ms - clock.ms + (IF w.ms < clock.ms THEN MsPerSec ELSE 0)
<1>2. TimevalUntil(w) = (IF sec < 0 THEN 0 ELSE sec) * MsPerSec + ms
  BY DEF TimevalUntil
<1>3. c \in {0, 1} /\ sec \in Int /\ ms \in 0 .. MsPerSec - 1
  BY <1>1
<1>4. ms = w.ms - clock.ms + c * MsPerSec
  BY <1>1
<1>5. CASE ~ Before(w, clock)
  <2>1. sec >= 0
    BY <1>1, <1>5 DEF Before
  <2>2. sec * MsPerSec
          = w.sec * MsPerSec - clock.sec * MsPerSec - c * MsPerSec
    <3> HIDE DEF c
    <3> QED  BY <1>1, <1>3
  <2>3. /\ sec * MsPerSec \in Int /\ c * MsPerSec \in Int
        /\ w.sec * MsPerSec \in Int /\ clock.sec * MsPerSec \in Int
    BY <1>1, <1>3
  <2>4. TimevalUntil(w) = sec * MsPerSec + ms
    <3> HIDE DEF sec, ms
    <3> QED  BY <1>2, <1>3, <2>1
  <2> HIDE DEF sec, ms, c
  <2>5. TimevalUntil(w) = Ms(w) - Ms(clock)
    BY <1>1, <1>4, <2>2, <2>3, <2>4 DEF Ms
  <2> QED  BY <1>5, <2>5
<1>6. CASE Before(w, clock)
  <2>1. sec < 0
    BY <1>1, <1>6 DEF Before
  <2>2. TimevalUntil(w) = 0 * MsPerSec + ms
    <3> HIDE DEF sec, ms
    <3> QED  BY <1>2, <2>1
  <2> HIDE DEF ms
  <2>3. TimevalUntil(w) < MsPerSec
    BY <1>1, <1>3, <2>2
  <2> QED  BY <1>6, <2>3
<1> QED  BY <1>5, <1>6

\* The timer the search returns has the least time in milliseconds.
LEMMA SoonestIsNearest ==
    ASSUME TypeOK, live # {}
    PROVE  SoonestMs = Ms(when[aeSearchNearestTimer])
<1> DEFINE n == aeSearchNearestTimer
           S == {Ms(when[i]) : i \in live}
           m == Ms(when[n])
<1>1. n \in live /\ \A j \in live : ~ Before(when[j], when[n])
  BY NearestFound
<1> HIDE DEF n
<1>2. \A i \in live : when[i] \in Time /\ Ms(when[i]) \in Nat
  BY IdFacts, MsOrder DEF TypeOK
<1>3. ASSUME NEW j \in live PROVE m <= Ms(when[j])
  <2>1. when[n] \in Time /\ when[j] \in Time /\ ~ Before(when[j], when[n])
    BY <1>1, <1>2
  <2>2. Before(when[n], when[j]) \/ when[n] = when[j]
    <3>1. /\ when[n].sec \in Nat /\ when[n].ms \in Nat
          /\ when[j].sec \in Nat /\ when[j].ms \in Nat
      BY <2>1, TimeParts, TimersAssumption
    <3>2. when[n].sec = when[j].sec /\ when[n].ms = when[j].ms => when[n] = when[j]
      BY <2>1, BeforeOrder
    <3> QED  BY <2>1, <3>1, <3>2 DEF Before
  <2>3. m \in Nat /\ Ms(when[j]) \in Nat
    BY <1>1, <1>2
  <2>4. Before(when[n], when[j]) => m < Ms(when[j])
    BY <2>1, MsOrder
  <2> QED  BY <2>2, <2>3, <2>4
<1>4. m \in S /\ S \subseteq Nat
  BY <1>1, <1>2
<1>5. \A y \in S : m <= y
  BY <1>3
<1> HIDE DEF m, S
<1>6. Min(S) \in S /\ \A y \in S : Min(S) <= y
  BY <1>4, <1>5 DEF Min
<1> DEFINE k == Min(S)
<1> HIDE DEF k
<1>7. k \in Nat /\ m \in Nat /\ k <= m /\ m <= k
  BY <1>4, <1>5, <1>6 DEF k
<1>8. k = m
  BY <1>7
<1> QED  BY <1>8 DEF SoonestMs, S, m, n, k

\* Every timeout that aeProcessEvents computes: the distance to the timer that is
\* due first, if that lies ahead and fits an int; a shorter or an endless wait if
\* it does not fit; and a wait that ends within a second for a timer that is due.
THEOREM SleepsUntilNearestCorrect == Spec => SleepsUntilNearest
<1>1. TypeOK /\ [Next]_vars =>
        [StartsSleeping /\ live # {} =>
           /\ Missing \in 0 .. IntMax => sleep' = Missing
           /\ Missing > IntMax => sleep' = Forever \/ sleep' \in 0 .. Missing - 1
           /\ Missing < 0 => sleep' \in 0 .. MsPerSec - 1]_vars
  <2> SUFFICES ASSUME TypeOK, Next, StartsSleeping, live # {}
               PROVE  /\ Missing \in 0 .. IntMax => sleep' = Missing
                      /\ Missing > IntMax => sleep' = Forever \/ sleep' \in 0 .. Missing - 1
                      /\ Missing < 0 => sleep' \in 0 .. MsPerSec - 1
    BY DEF vars, StartsSleeping
  <2> DEFINE w == when[aeSearchNearestTimer]
             x == TimevalUntil(w)
             m == Missing
  <2>1. sleep' = AsTimeout(x)
    BY DEF StartsSleeping, Next, Tick, SetBack, aeCreateTimeEvent, CreateFails,
           aeDeleteTimeEvent, UserCode, GoToSleep, Wake, StartPass, SkipTimer,
           CallTimer, CallbackReturns, ReturnPeriod, ReturnNoMore,
           FinalizerReturns, EndPass
  <2>2. w \in Time /\ clock \in Time
    BY NearestFound, IdFacts DEF TypeOK
  <2>3. m = Ms(w) - Ms(clock)
    BY SoonestIsNearest DEF Missing
  <2> HIDE DEF w, x, m
  <2>4. /\ x \in Nat /\ MsPerSec \in Nat /\ IntMax \in Nat /\ MsPerSec - 1 <= IntMax
    BY <2>2, TimevalNat, TimersAssumption DEF x
  <2>5. /\ AsTimeout(x) \in Nat \cup {Forever}
        /\ AsTimeout(x) <= x /\ AsTimeout(x) <= IntMax
        /\ x <= IntMax => AsTimeout(x) = x
    BY <2>4, AsTimeoutFacts
  <2>6. Ms(w) \in Nat /\ Ms(clock) \in Nat
    BY <2>2, MsOrder
  <2>7. CASE Before(w, clock)
    <3>1. m < 0
      BY <2>2, <2>3, <2>6, <2>7, MsOrder
    <3>2. x < MsPerSec
      BY <2>2, <2>7, TimevalFacts DEF x
    <3>3. AsTimeout(x) = x
      BY <2>4, <2>5, <3>2
    <3>4. sleep' \in 0 .. MsPerSec - 1 /\ ~ (m \in 0 .. IntMax) /\ ~ (m > IntMax)
      BY <2>1, <2>3, <2>4, <2>6, <3>1, <3>2, <3>3
    <3> QED  BY <3>4 DEF m
  <2>8. CASE ~ Before(w, clock)
    <3>1. x = m
      BY <2>2, <2>3, <2>8, TimevalFacts DEF x
    <3>2. m \in 0 .. IntMax => sleep' = m
      BY <2>1, <2>4, <2>5, <3>1
    <3>3. m > IntMax => sleep' = Forever \/ sleep' \in 0 .. m - 1
      BY <2>1, <2>4, <2>5, <3>1
    <3>4. ~ (m < 0)
      BY <2>4, <3>1
    <3> QED  BY <3>2, <3>3, <3>4 DEF m
  <2> QED  BY <2>7, <2>8
<1> QED  BY <1>1, TypeInit, TypeNext, PTL DEF Spec, SleepsUntilNearest
=============================================================================

-------------------------- MODULE BbrClientProofs ---------------------------
(***************************************************************************)
(* Proofs about BbrClient, for every width of the int, start of the clock, *)
(* duration, interval and size of a write.                                 *)
(***************************************************************************)
EXTENDS BbrClient, TLAPS

-----------------------------------------------------------------------------
(* The clock.                                                              *)

\* Half is half of Modulus.
LEMMA HalfFacts == Half \in Nat /\ Modulus = Half + Half /\ Half > 0 /\ Modulus \in Nat
BY BbrAssumption DEF Half

\* Division with remainder by Modulus.
LEMMA DivMod ==
    ASSUME NEW x \in Int
    PROVE  /\ x \div Modulus \in Int /\ x % Modulus \in 0 .. Modulus - 1
           /\ x % Modulus = x - (x \div Modulus) * Modulus
<1>1. x \div Modulus \in Int
  BY HalfFacts
<1>2. x % Modulus \in 0 .. Modulus - 1
  BY HalfFacts
<1>3. x % Modulus = x - (x \div Modulus) * Modulus
  BY HalfFacts
<1> QED  BY <1>1, <1>2, <1>3

\* The conversion to int always fits an int.
LEMMA AsIntType == ASSUME NEW x \in Int PROVE AsInt(x) \in Ints
<1>1. x + Half \in Int
  BY HalfFacts
<1>2. (x + Half) % Modulus \in 0 .. Modulus - 1
  BY <1>1, DivMod, HalfFacts
<1> QED  BY <1>2, HalfFacts DEF AsInt, Ints

\* The quotient is known from the turn of the counter a number lies in.
LEMMA QuotientIs ==
    ASSUME NEW m \in Nat, m > 0, NEW q \in Int, NEW d \in Int, NEW y \in Int,
           d * m <= y, y < d * m + m, q * m <= y, y < q * m + m
    PROVE  d = q
<1>1. \A a, b \in Int : a < b => a * m + m <= b * m
  <2> SUFFICES ASSUME NEW a \in Int, NEW b \in Int, a < b PROVE a * m + m <= b * m
    OBVIOUS
  <2>1. (b - a - 1) * m >= 0
    OBVIOUS
  <2>2. (b - a - 1) * m = b * m - a * m - m
    OBVIOUS
  <2>3. a * m \in Int /\ b * m \in Int
    OBVIOUS
  <2> QED  BY <2>1, <2>2, <2>3
<1>2. q * m \in Int /\ d * m \in Int
  OBVIOUS
<1>3. ~ (d < q) /\ ~ (q < d)
  BY <1>1, <1>2
<1> QED  BY <1>3

\* Within one turn of the counter the conversion only shifts.
LEMMA AsIntShifts ==
    ASSUME NEW x \in Int, NEW q \in Int, q * Modulus <= x + Half, x + Half < q * Modulus + Modulus
    PROVE  AsInt(x) = x - q * Modulus
<1> DEFINE y == x + Half
           d == y \div Modulus
           r == y % Modulus
<1>1. y \in Int /\ d \in Int /\ r \in 0 .. Modulus - 1 /\ r = y - d * Modulus
  <2>1. y \in Int
    BY HalfFacts
  <2> HIDE DEF y
  <2> QED  BY <2>1, DivMod
<1>2. d * Modulus \in Int /\ q * Modulus \in Int
  BY <1>1, HalfFacts
<1>3. /\ d * Modulus <= y /\ y < d * Modulus + Modulus
      /\ q * Modulus <= y /\ y < q * Modulus + Modulus
  <2>1. q * Modulus <= y /\ y < q * Modulus + Modulus
    OBVIOUS
  <2> HIDE DEF y, d, r
  <2> QED  BY <1>1, <1>2, <2>1, HalfFacts
<1>4. d = q
  <2> HIDE DEF y, d, r
  <2> QED  BY <1>1, <1>3, HalfFacts, QuotientIs
<1>5. r = y - q * Modulus
  <2> HIDE DEF y, d, r
  <2> QED  BY <1>1, <1>4
<1>6. AsInt(x) = r - Half
  BY DEF AsInt
<1> HIDE DEF r
<1> QED  BY <1>2, <1>5, <1>6, HalfFacts

-----------------------------------------------------------------------------
(* Types.                                                                  *)

\* Every reading of the clock is an int.
LEMMA ClockIsInt == ASSUME clock \in Nat PROVE GetMilliSeconds \in Ints
BY AsIntType DEF GetMilliSeconds

\* Zero is an int.
LEMMA ZeroIsInt == 0 \in Ints /\ Ints \subseteq Int
BY HalfFacts DEF Ints

\* Every step keeps the types.
LEMMA TypeNext == TypeOK /\ [Next]_vars => TypeOK'
<1> SUFFICES ASSUME TypeOK, [Next]_vars PROVE TypeOK'
  OBVIOUS
<1> USE DEF TypeOK, Setup, Sending, Ending, Over, world, sender, files, sampler, trace
<1>1. CASE UNCHANGED vars
  BY <1>1 DEF vars
<1>2. CASE Tick
  BY <1>2 DEF Tick
<1>3. CASE signal_exit_handler \/ PeerResets
  <2>1. CASE signal_exit_handler
    <3>1. m_running' \in BOOLEAN
      BY <2>1, Zenon DEF signal_exit_handler
    <3> QED  BY <2>1, <3>1 DEF signal_exit_handler
  <2>2. CASE PeerResets
    <3>1. broken' \in BOOLEAN
      BY <2>2, Zenon DEF PeerResets
    <3> QED  BY <2>2, <3>1 DEF PeerResets
  <2> QED  BY <1>3, <2>1, <2>2
<1>4. CASE anetCreateSocket \/ set_congestion_type \/ anetTcpConnectWithFd
  BY <1>4 DEF anetCreateSocket, set_congestion_type, anetTcpConnectWithFd, Becomes, Goto
<1>5. CASE SetTimes
  <2>1. now' \in Ints
    BY <1>5, ClockIsInt DEF SetTimes
  <2>2. stop' = AsInt(now' + Duration) /\ now' + Duration \in Int
    BY <1>5, <2>1, ZeroIsInt, BbrAssumption DEF SetTimes
  <2>3. stop' \in Ints
    BY <2>2, AsIntType
  <2> QED  BY <1>5, <2>1, <2>3 DEF SetTimes
<1>6. CASE SetLogName
  BY <1>6 DEF SetLogName
<1>7. CASE StartThread
  BY <1>7 DEF StartThread, Start
<1>8. CASE TestRunning \/ CheckTime \/ Join
  BY <1>8 DEF TestRunning, CheckTime, Join, Goto
<1>9. CASE ReadClock
  BY <1>9, ClockIsInt, BbrAssumption DEF ReadClock
<1>10. CASE \E n \in 1 .. left : WriteSome(n)
  <2>1. PICK n \in 1 .. left : WriteSome(n)
    BY <1>10
  <2>2. left' \in 0 .. Count
    BY <2>1, BbrAssumption DEF WriteSome
  <2>3. stray' \in BOOLEAN
    BY <2>1, Zenon DEF WriteSome
  <2> QED  BY <2>1, <2>2, <2>3 DEF WriteSome
<1>11. CASE WriteFails
  BY <1>11, BbrAssumption DEF WriteFails
<1>12. CASE StopThread \/ Close
  <2>1. CASE StopThread
    <3>1. running_' \in BOOLEAN
      BY <2>1, Zenon DEF StopThread
    <3> QED  BY <2>1, <3>1 DEF StopThread
  <2>2. CASE Close
    BY <2>2 DEF Close
  <2> QED  BY <1>12, <2>1, <2>2
<1>13. CASE TestThread \/ Compare
  BY <1>13 DEF TestThread, Compare
<1>14. CASE ReadThreadClock
  BY <1>14, ClockIsInt DEF ReadThreadClock
<1>15. CASE GetTcpInfo
  <2>1. last_record_' = AsInt(tnow + Interval) /\ tnow + Interval \in Int
    BY <1>15, ZeroIsInt, BbrAssumption DEF GetTcpInfo
  <2>2. last_record_' \in Ints
    BY <2>1, AsIntType
  <2>3. lines' \in BOOLEAN
    BY <1>15, Zenon DEF GetTcpInfo
  <2> QED  BY <1>15, <2>2, <2>3 DEF GetTcpInfo
<1> QED
  BY <1>1, <1>2, <1>3, <1>4, <1>5, <1>6, <1>7, <1>8, <1>9, <1>10, <1>11, <1>12, <1>13, <1>14,
     <1>15
     DEF Next, Main, Run

\* main starts well typed.
LEMMA TypeInit == Init => TypeOK
<1> SUFFICES ASSUME Init PROVE TypeOK
  OBVIOUS
<1>1. /\ clock \in Nat /\ born \in Starts /\ now \in Ints /\ stop \in Ints
      /\ left \in 0 .. Count /\ tnow \in Ints /\ last_record_ \in Ints
  BY ZeroIsInt, BbrAssumption DEF Init
<1>2. /\ m_running \in BOOLEAN /\ broken \in BOOLEAN /\ log \in BOOLEAN
      /\ running_ \in BOOLEAN /\ lines \in BOOLEAN /\ stray \in BOOLEAN
  BY Zenon DEF Init
<1>3. pc = "socket" /\ fd = "closed" /\ thread = "none"
  BY DEF Init
<1> QED  BY <1>1, <1>2, <1>3 DEF TypeOK, Setup

\* Whatever the clock and the threads do, every int is an int of its width and
\* every place one of the program's.
THEOREM TypeCorrect == Spec => []TypeOK
BY TypeInit, TypeNext, PTL DEF Spec

-----------------------------------------------------------------------------
(* The thread and the trace.                                               *)

\* There is no thread, and nothing in the trace, before StartThread; once the
\* thread or main has written to the trace, main's descriptor stays what it
\* was until main closes it.
SharingInv ==
    /\ pc \in Setup => thread = "none" /\ ~ lines /\ ~ stray
    /\ lines => fd = "connection" \/ pc = "exit"
    /\ stray => fd = "trace" \/ pc = "exit"
    /\ ThreadEndsFirst
    /\ TraceIsClean

\* Every step of the two threads keeps it.
LEMMA SharingNext == SharingInv /\ [Next]_vars => SharingInv'
<1> SUFFICES ASSUME SharingInv, [Next]_vars PROVE SharingInv'
  OBVIOUS
<1> USE DEF SharingInv, ThreadEndsFirst, Started, TraceIsClean, Setup, world, sender, files,
        sampler, trace
<1>1. CASE UNCHANGED <<pc, fd, thread, lines, stray>>
  BY <1>1
<1>2. CASE Tick \/ signal_exit_handler \/ PeerResets
  BY <1>1, <1>2 DEF Tick, signal_exit_handler, PeerResets
<1>3. CASE anetCreateSocket \/ set_congestion_type \/ anetTcpConnectWithFd
  BY <1>3 DEF anetCreateSocket, set_congestion_type, anetTcpConnectWithFd, Becomes, Goto
<1>4. CASE SetTimes \/ SetLogName
  BY <1>4 DEF SetTimes, SetLogName
<1>5. CASE StartThread
  BY <1>5 DEF StartThread, Start
<1>6. CASE TestRunning \/ CheckTime \/ Join
  BY <1>6 DEF TestRunning, CheckTime, Join, Goto
<1>7. CASE ReadClock \/ WriteFails \/ StopThread
  BY <1>7 DEF ReadClock, WriteFails, StopThread
<1>8. CASE \E n \in 1 .. left : WriteSome(n)
  <2>1. stray' => stray \/ fd = "trace"
    BY <1>8, Zenon DEF WriteSome
  <2>2. UNCHANGED <<fd, thread, lines>> /\ pc = "write" /\ pc' \in {"check", "write"}
    BY <1>8 DEF WriteSome
  <2> QED  BY <2>1, <2>2
<1>9. CASE Close
  BY <1>9 DEF Close
<1>10. CASE Alive /\ Run
  <2>1. /\ UNCHANGED <<pc, fd, stray>> /\ pc # "exit"
        /\ thread \notin {"none", "done"} /\ thread' # "none"
    BY <1>10 DEF Alive, Over, Run, TestThread, ReadThreadClock, Compare, GetTcpInfo
  <2>2. lines' => lines \/ fd = "connection"
    <3>1. CASE GetTcpInfo
      BY <3>1, Zenon DEF GetTcpInfo, HasInfo
    <3>2. CASE UNCHANGED lines
      BY <3>2
    <3> QED  BY <1>10, <3>1, <3>2 DEF Run, TestThread, ReadThreadClock, Compare
  <2> QED  BY <2>1, <2>2
<1> QED
  BY <1>1, <1>2, <1>3, <1>4, <1>5, <1>6, <1>7, <1>8, <1>9, <1>10 DEF Next, Main, vars

\* It holds when main starts.
LEMMA SharingInit == Init => SharingInv
BY DEF Init, SharingInv, ThreadEndsFirst, Started, TraceIsClean

\* pthread_join keeps the descriptor and the TcpClient alive as long as the
\* thread uses them.
THEOREM ThreadEndsFirstCorrect == Spec => []ThreadEndsFirst
<1>1. SharingInv => ThreadEndsFirst
  BY DEF SharingInv
<1> QED  BY <1>1, SharingInit, SharingNext, PTL DEF Spec

\* No trace holds both samples and the bytes main meant for the connection.
THEOREM TraceIsCleanCorrect == Spec => []TraceIsClean
<1>1. SharingInv => TraceIsClean
  BY DEF SharingInv
<1> QED  BY <1>1, SharingInit, SharingNext, PTL DEF Spec

-----------------------------------------------------------------------------
(* The time main sends.                                                    *)

\* The turn of the counter main starts in.
Turn == (born + Half) \div Modulus
Base == Turn * Modulus

\* Without a wrap main's times are the clock's, shifted by a constant.
TimeInv ==
    /\ clock \in born .. born + MaxRun
    /\ pc \in {"socket", "cc", "connect", "times"} => clock = born
    /\ NoWrap /\ pc \in {"log", "start"} \cup Sending =>
          /\ stop = born + Duration - Base
          /\ now + Base <= clock

\* All the times of a run lie in the turn it starts in.
LEMMA TurnFacts ==
    ASSUME TypeOK
    PROVE  /\ Turn \in Int /\ Base \in Int
           /\ NoWrap => Base <= born + Half /\ born + MaxRun + Duration + Half < Base + Modulus
<1> DEFINE a == born + Half
           b == born + MaxRun + Duration + Half
<1>1. a \in Int /\ b \in Int /\ born \in Nat
  BY HalfFacts, BbrAssumption DEF TypeOK
<1>2. NoWrap <=> a \div Modulus = b \div Modulus
  BY DEF NoWrap
<1>3. Turn = a \div Modulus /\ Base = Turn * Modulus
  BY DEF Turn, Base
<1> HIDE DEF a, b
<1>4. Turn \in Int /\ a % Modulus = a - Base /\ a % Modulus \in 0 .. Modulus - 1
  BY <1>1, <1>3, DivMod
<1>5. Base \in Int
  BY <1>3, <1>4, HalfFacts
<1>6. NoWrap => b % Modulus = b - Base /\ b % Modulus \in 0 .. Modulus - 1
  BY <1>1, <1>2, <1>3, DivMod
<1>7. NoWrap => Base <= a /\ b < Base + Modulus
  BY <1>1, <1>4, <1>5, <1>6, HalfFacts
<1> QED  BY <1>4, <1>5, <1>7 DEF a, b

\* What the clock reads within that turn.
LEMMA ClockShifts ==
    ASSUME TypeOK, NoWrap, clock \in born .. born + MaxRun
    PROVE  GetMilliSeconds = clock - Base
<1>1. /\ Turn \in Int /\ Base \in Int /\ Base = Turn * Modulus
      /\ Base <= born + Half /\ born + MaxRun + Duration + Half < Base + Modulus
  BY TurnFacts DEF Base
<1>2. born \in Nat /\ MaxRun \in Nat /\ Duration \in Nat
  BY BbrAssumption DEF TypeOK
<1>3. clock \in Int /\ Base <= clock + Half /\ clock + Half < Base + Modulus
  BY <1>1, <1>2, HalfFacts
<1> QED  BY <1>1, <1>3, AsIntShifts DEF GetMilliSeconds

\* The sum of SetTimes does not overflow without a wrap.
LEMMA StopShifts ==
    ASSUME TypeOK, NoWrap
    PROVE  AsInt(born - Base + Duration) = born + Duration - Base
<1>1. /\ Base \in Int /\ Base <= born + Half /\ born + MaxRun + Duration + Half < Base + Modulus
  BY TurnFacts
<1>2. born \in Nat /\ MaxRun \in Nat /\ Duration \in Nat
  BY BbrAssumption DEF TypeOK
<1> DEFINE x == born - Base + Duration
<1>3. x \in Int /\ 0 * Modulus <= x + Half /\ x + Half < 0 * Modulus + Modulus
  BY <1>1, <1>2, HalfFacts
<1>4. AsInt(x) = x - 0 * Modulus
  <2> HIDE DEF x
  <2> QED  BY <1>3, AsIntShifts
<1>5. AsInt(x) = x
  <2> HIDE DEF x
  <2> QED  BY <1>3, <1>4, HalfFacts
<1> QED  BY <1>1, <1>2, <1>5

\* Every step keeps main's times.
LEMMA TimeNext == TypeOK /\ TimeInv /\ [Next]_vars => TimeInv'
<1> SUFFICES ASSUME TypeOK, TimeInv, [Next]_vars PROVE TimeInv'
  OBVIOUS
<1>0. /\ born' = born /\ (NoWrap' <=> NoWrap) /\ Base' = Base
      /\ Base \in Int /\ born \in Nat /\ MaxRun \in Nat /\ clock \in Nat /\ now \in Int
  <2>1. born' = born
    BY DEF Next, vars, world, Tick, signal_exit_handler, PeerResets, Main, Run, Goto, Becomes,
           anetCreateSocket, set_congestion_type, anetTcpConnectWithFd, SetTimes, SetLogName,
           StartThread, TestRunning, ReadClock, CheckTime, WriteSome, WriteFails, StopThread,
           Join, Close, TestThread, ReadThreadClock, Compare, GetTcpInfo
  <2>2. (NoWrap' <=> NoWrap) /\ Base' = Base
    BY <2>1 DEF NoWrap, Base, Turn
  <2> QED  BY <2>1, <2>2, TurnFacts, BbrAssumption, ZeroIsInt DEF TypeOK
<1> USE DEF TimeInv, Sending, world, sender, files, sampler, trace
<1>1. CASE UNCHANGED <<clock, now, stop, pc>>
  BY <1>0, <1>1
<1>2. CASE Tick
  <2>1. clock' = clock + 1 /\ clock < born + MaxRun /\ UNCHANGED <<pc, now, stop>>
    BY <1>2 DEF Tick
  <2>2. pc \notin {"socket", "cc", "connect", "times"}
    BY <1>2 DEF Tick
  <2> QED  BY <1>0, <2>1, <2>2
<1>3. CASE anetCreateSocket \/ set_congestion_type \/ anetTcpConnectWithFd
  BY <1>0, <1>3
     DEF anetCreateSocket, set_congestion_type, anetTcpConnectWithFd, Becomes, Goto
<1>4. CASE SetTimes
  <2>1. clock' = born /\ pc' = "log" /\ now' = GetMilliSeconds /\ stop' = AsInt(now' + Duration)
    BY <1>4 DEF SetTimes
  <2>2. clock = born
    BY <1>4 DEF SetTimes
  <2>3. NoWrap => now' = born - Base
    BY <2>1, <2>2, ClockShifts
  <2>4. NoWrap => stop' = born + Duration - Base
    BY <2>1, <2>3, StopShifts
  <2> QED  BY <1>0, <2>1, <2>3, <2>4
<1>5. CASE ReadClock
  <2>1. UNCHANGED <<clock, stop>> /\ pc = "clock" /\ pc' = "write" /\ now' = GetMilliSeconds
    BY <1>5 DEF ReadClock
  <2>2. NoWrap => now' = clock - Base
    BY <2>1, ClockShifts
  <2> QED  BY <1>0, <2>1, <2>2
<1>6. CASE SetLogName \/ StartThread \/ TestRunning \/ CheckTime \/ WriteFails \/ StopThread
           \/ Join \/ Close
  BY <1>0, <1>6 DEF SetLogName, StartThread, TestRunning, CheckTime, WriteFails, StopThread, Join,
                    Close, Goto
<1>7. CASE \E n \in 1 .. left : WriteSome(n)
  BY <1>0, <1>7 DEF WriteSome
<1>8. CASE signal_exit_handler \/ PeerResets \/ Run
  BY <1>1, <1>8 DEF signal_exit_handler, PeerResets, Run, TestThread, ReadThreadClock, Compare,
                    GetTcpInfo
<1> QED
  BY <1>1, <1>2, <1>3, <1>4, <1>5, <1>6, <1>7, <1>8 DEF Next, Main, vars

\* main's clock and stop are ints, cut and added modulo their width; as long
\* as the int does not wrap within the run, for any width and any start, main
\* does not stop before its time unless a signal tells it to.
THEOREM SendsFullTimeCorrect == Spec => SendsFullTime
<1>1. Init => TimeInv
  BY BbrAssumption DEF Init, TimeInv, Sending
<1>2. TypeOK /\ TimeInv /\ [Next]_vars =>
        [NoWrap /\ m_running /\ pc \in Sending /\ pc' = "stop" => clock - born > Duration]_vars
  <2> SUFFICES ASSUME TypeOK, TimeInv, Next, NoWrap, m_running, pc \in Sending, pc' = "stop"
               PROVE  clock - born > Duration
    BY DEF vars
  <2>1. CheckTime
    BY DEF Next, Main, Run, Tick, signal_exit_handler, PeerResets, Sending, sender, world, Goto,
           Becomes, anetCreateSocket, set_congestion_type, anetTcpConnectWithFd, SetTimes,
           SetLogName, StartThread, TestRunning, ReadClock, WriteSome, WriteFails, StopThread,
           Join, Close, TestThread, ReadThreadClock, Compare, GetTcpInfo
  <2>2. now > stop
    BY <2>1 DEF CheckTime, Goto, TimeIsUp
  <2>3. stop = born + Duration - Base /\ now + Base <= clock
    BY DEF TimeInv
  <2>4. Base \in Int /\ born \in Nat /\ Duration \in Nat /\ clock \in Nat /\ now \in Int
    BY TurnFacts, BbrAssumption, ZeroIsInt DEF TypeOK
  <2> QED  BY <2>2, <2>3, <2>4
<1> QED
  BY <1>1, <1>2, TypeInit, TypeNext, TimeNext, PTL DEF Spec, SendsFullTime
=============================================================================

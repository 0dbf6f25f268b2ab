------------------------------ MODULE BbrClient -----------------------------
(***************************************************************************)
(* tcp_bbr_client.cc: main connects and writes as fast as it can for       *)
(* run_duration, while a thread (base/my_thread.cc) samples TCP_INFO of    *)
(* the same descriptor into trace.txt.  The two share the descriptor and   *)
(* running_, signals set m_running, and all times are milliseconds since   *)
(* boot cut to 32 bits and stored in an int (base/base_time.cc).           *)
(*                                                                         *)
(* Every read of the clock or of a shared flag and every system call is a  *)
(* step of its own.  The build does not optimise, so that each test of a   *)
(* flag reads memory, and signed overflow wraps.                           *)
(***************************************************************************)
EXTENDS Integers

CONSTANTS
    Modulus,        \* 2^32
    Starts,         \* milliseconds since boot when main computes stop
    Duration,       \* run_duration*1000
    Interval,       \* interval_
    Count,          \* sizeof(send_data), in units a write may be cut at
    MaxRun          \* bound: milliseconds the clock goes on

Half == Modulus \div 2

ASSUME BbrAssumption ==
    /\ Modulus \in Nat /\ Modulus % 2 = 0 /\ Modulus > 0
    /\ Starts \subseteq Nat
    /\ Duration \in Nat /\ Interval \in Nat
    /\ Count \in Nat \ {0} /\ MaxRun \in Nat

VARIABLES
    clock,          \* milliseconds since boot
    born,           \* history: the clock when main computes stop
    pc,             \* where main is
    now, stop,      \* main's locals
    left,           \* anetWrite: count-totlen
    m_running,      \* cleared by the signal handler
    fd,             \* what main's descriptor number stands for
    broken,         \* the peer has reset the connection
    log,            \* f_out_ is open
    thread,         \* where the thread is
    tnow,           \* Run's now
    running_,       \* TcpClient::running_
    last_record_,
    lines,          \* history: trace.txt has a line of tcp_info
    stray           \* history: trace.txt has data of main

world == <<clock, born, m_running, broken>>
sender == <<pc, now, stop, left>>
files == <<fd, log>>
sampler == <<thread, tnow, last_record_>>
trace == <<lines, stray>>
vars == <<clock, born, m_running, broken, pc, now, stop, left, fd, log, thread, tnow, last_record_,
          running_, lines, stray>>

Over == {"exit", "killed", "crashed"}
Setup == {"socket", "cc", "connect", "times", "log", "start"}
Sending == {"test", "clock", "write", "check"}
Ending == {"stop", "join", "close"}
Ints == -Half .. Half - 1

TypeOK ==
    /\ clock \in Nat /\ born \in Starts
    /\ pc \in Setup \cup Sending \cup Ending \cup Over
    /\ now \in Ints /\ stop \in Ints /\ left \in 0 .. Count
    /\ m_running \in BOOLEAN /\ broken \in BOOLEAN
    /\ fd \in {"closed", "socket", "connection", "trace"} /\ log \in BOOLEAN
    /\ thread \in {"none", "test", "clock", "compare", "info", "done"}
    /\ tnow \in Ints /\ last_record_ \in Ints
    /\ running_ \in BOOLEAN /\ lines \in BOOLEAN /\ stray \in BOOLEAN

Init ==
    /\ born \in Starts /\ clock = born
    /\ pc = "socket" /\ now = 0 /\ stop = 0 /\ left = 0
    /\ m_running = TRUE /\ broken = FALSE
    /\ fd = "closed" /\ log = FALSE
    /\ thread = "none" /\ tnow = 0 /\ last_record_ = 0 /\ running_ = TRUE
    /\ lines = FALSE /\ stray = FALSE

-----------------------------------------------------------------------------
(* Time, signals and the peer.                                             *)

\* Mutant: the conversion keeps the sign bit as a number.
AsUnsigned(x) == x % Modulus

\* The int that holds the low bits of x.
AsInt(x) == ((x + Half) % Modulus) - Half

GetMilliSeconds == AsInt(clock)

\* Nobody looks at the clock before main computes stop.
Tick ==
    /\ pc \notin {"socket", "cc", "connect", "times"}
    /\ clock < born + MaxRun
    /\ clock' = clock + 1
    /\ UNCHANGED <<born, m_running, broken, sender, files, sampler, running_, trace>>

signal_exit_handler ==
    /\ m_running' = FALSE
    /\ UNCHANGED <<clock, born, broken, sender, files, sampler, running_, trace>>

PeerResets ==
    /\ fd = "connection"
    /\ broken' = TRUE
    /\ UNCHANGED <<clock, born, m_running, sender, files, sampler, running_, trace>>

-----------------------------------------------------------------------------
(* main.                                                                   *)

\* A step of main that leaves all but pc alone, and one that changes what its
\* descriptor stands for.
Goto(from, to) ==
    /\ pc = from /\ pc' = to
    /\ UNCHANGED <<world, now, stop, left, files, sampler, running_, trace>>
Becomes(from, to, what) ==
    /\ pc = from /\ pc' = to
    /\ fd' = what
    /\ UNCHANGED <<world, now, stop, left, log, sampler, running_, trace>>

\* The program ends when there is no socket, or SO_REUSEADDR fails.
anetCreateSocket == Becomes("socket", "cc", "socket") \/ Becomes("socket", "exit", "closed")

set_congestion_type == Goto("cc", "connect") \/ Becomes("cc", "exit", "closed")

\* It closes the descriptor when it fails, and returns nothing when it does
\* not; main prints at most, and goes on.
anetTcpConnectWithFd ==
    Becomes("connect", "times", "connection") \/ Becomes("connect", "times", "closed")

SetTimes ==
    /\ pc = "times"
    /\ pc' = "log"
    /\ now' = GetMilliSeconds
    /\ stop' = AsInt(now' + Duration)
    /\ UNCHANGED <<world, left, files, sampler, running_, trace>>

\* open returns the lowest free number: main's, if connect has closed it.
SetLogName ==
    /\ pc = "log"
    /\ pc' = "start"
    /\ log' \in BOOLEAN
    /\ fd' = IF log' /\ fd = "closed" THEN "trace" ELSE fd
    /\ UNCHANGED <<world, now, stop, left, sampler, running_, trace>>

\* pthread_create, which may fail.
Start == thread' \in {"test", "none"}

\* Nobody looks at what Start returns.
StartThread ==
    /\ pc = "start"
    /\ pc' = "test"
    /\ running_' = TRUE
    /\ Start
    /\ UNCHANGED <<world, now, stop, left, files, tnow, last_record_, trace>>

TestRunning == Goto("test", IF m_running THEN "clock" ELSE "stop")

ReadClock ==
    /\ pc = "clock"
    /\ pc' = "write"
    /\ now' = GetMilliSeconds
    /\ left' = Count
    /\ UNCHANGED <<world, stop, files, sampler, running_, trace>>

\* The write of anetWrite's loop takes n units.
WriteSome(n) ==
    /\ pc = "write"
    /\ fd \in {"connection", "trace"} /\ ~ broken
    /\ left' = left - n
    /\ pc' = IF left' = 0 THEN "check" ELSE "write"
    /\ stray' = (stray \/ fd = "trace")
    /\ UNCHANGED <<world, now, stop, files, sampler, running_, lines>>

\* The number is not open, or the connection is broken: the call fails, or
\* raises SIGPIPE, which nobody ignores.
WriteFails ==
    /\ pc = "write"
    /\ \/ fd = "closed" /\ pc' = "check"
       \/ fd = "connection" /\ broken /\ pc' \in {"check", "killed"}
    /\ left' = 0
    /\ UNCHANGED <<world, now, stop, files, sampler, running_, trace>>

\* Mutant: run_duration is taken for milliseconds.
TimeIsUpEarly == now >= stop - Duration

TimeIsUp == now > stop

CheckTime == Goto("check", IF TimeIsUp THEN "stop" ELSE "test")

\* Mutant: only the flag of MyThread is cleared.
StopBaseOnly == Goto("stop", "join")

\* The flag of the same name in MyThread, which Stop clears, is read by
\* nobody.
StopThread ==
    /\ pc = "stop"
    /\ pc' = "join"
    /\ running_' = FALSE
    /\ UNCHANGED <<world, now, stop, left, files, sampler, trace>>

\* Mutant: the thread is detached.
JoinNobody == Goto("join", "close")

\* pthread_join; without a thread pid_ was never set.
Join ==
    \/ thread \in {"done", "none"} /\ Goto("join", "close")
    \/ thread = "none" /\ Goto("join", "crashed")

\* close(fd), then the end of main closes the trace.
Close ==
    /\ pc = "close"
    /\ pc' = "exit"
    /\ fd' = "closed" /\ log' = FALSE
    /\ UNCHANGED <<world, now, stop, left, sampler, running_, trace>>

-----------------------------------------------------------------------------
(* The thread: Run and GetTcpInfo.                                         *)

TestThread ==
    /\ thread = "test"
    /\ thread' = IF running_ THEN "clock" ELSE "done"
    /\ UNCHANGED <<world, sender, files, tnow, running_, last_record_, trace>>

ReadThreadClock ==
    /\ thread = "clock"
    /\ thread' = "compare"
    /\ tnow' = GetMilliSeconds
    /\ UNCHANGED <<world, sender, files, running_, last_record_, trace>>

RecordIsDue == tnow > last_record_

Compare ==
    /\ thread = "compare"
    /\ thread' = IF RecordIsDue THEN "info" ELSE "test"
    /\ UNCHANGED <<world, sender, files, tnow, running_, last_record_, trace>>

\* Mutant: the result of getsockopt is not looked at.
AnyInfo == log

\* getsockopt with TCP_INFO fails for what is not a TCP socket.
HasInfo == log /\ fd = "connection"

GetTcpInfo ==
    /\ thread = "info"
    /\ thread' = "test"
    /\ lines' = (lines \/ HasInfo)
    /\ last_record_' = AsInt(tnow + Interval)
    /\ UNCHANGED <<world, sender, files, tnow, running_, stray>>

-----------------------------------------------------------------------------
Main ==
    \/ anetCreateSocket \/ set_congestion_type \/ anetTcpConnectWithFd
    \/ SetTimes \/ SetLogName \/ StartThread
    \/ TestRunning \/ ReadClock \/ CheckTime
    \/ (\E n \in 1 .. left : WriteSome(n)) \/ WriteFails
    \/ StopThread \/ Join \/ Close

Run == TestThread \/ ReadThreadClock \/ Compare \/ GetTcpInfo

Alive == pc \notin Over

Next == Alive /\ (Main \/ Run \/ Tick \/ signal_exit_handler \/ PeerResets)

\* Both threads are scheduled, time goes on, and the peer reads what is sent.
Spec == Init /\ [][Next]_vars /\ WF_vars(Alive /\ Main) /\ WF_vars(Alive /\ Run)
             /\ WF_vars(Alive /\ Tick)

-----------------------------------------------------------------------------
(* Properties.                                                             *)

\* The int does not wrap from the largest to the smallest number.
NoWrap == (born + Half) \div Modulus = (born + MaxRun + Duration + Half) \div Modulus

Started == thread # "none"

\* The thread has left GetTcpInfo for good before main closes the descriptor
\* it samples and destroys the TcpClient it runs in.
ThreadEndsFirst == Started /\ pc \in {"close", "exit"} => thread = "done"

\* A trace with a line is a trace of the connection and nothing else.  When
\* connect fails, trace.txt gets the number main goes on writing to and fills
\* with main's data; TCP_INFO of a file fails, so such a trace has no line.
TraceIsClean == ~ (lines /\ stray)

\* Without a signal main sends for the whole run_duration.
SendsFullTime ==
    [][NoWrap /\ m_running /\ pc \in Sending /\ pc' = "stop" => clock - born > Duration]_vars

\* The program ends: after a signal, wherever it comes, and by itself when the
\* time is up, however often the thread runs.
Ends == /\ ~ m_running ~> ~ Alive
        /\ NoWrap ~> ~ Alive
=============================================================================

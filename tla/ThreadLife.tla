----------------------------- MODULE ThreadLife -----------------------------
(* class Thread (thread.cpp) over pthreads: start, run1 in the new thread,   *)
(* join and the timed join in the thread that started it.  Nothing of tid    *)
(* and threadStatus is locked; each read and each write is a step.  The      *)
(* build optimises, so join reads tid once for its test and for              *)
(* pthread_join.  pthread_create writes the id before the thread runs (as    *)
(* glibc does), also when it fails late.  Time is counted in turns of        *)
(* usleep(100), a tenth of a millisecond.                                    *)
EXTENDS Integers

CONSTANTS
    MaxMillis,      \* bound: on the limits given to join
    MaxNap          \* bound: how long usleep(100) takes, in turns

ASSUME BoundsAssumption == MaxMillis \in Nat /\ MaxNap \in Nat \ {0}

THREAD_STATUS_NEW == 0
THREAD_STATUS_RUNNING == 1
THREAD_STATUS_EXIT == -1

Self == 1           \* the id of the thread; 0 is no thread

VARIABLES
    tid,
    threadStatus,
    worker,         \* where the new thread is in run1
    caller,         \* where the caller is
    millis,         \* millisTime
    k,              \* turns of the timed join
    call,           \* history: the call that goes on or went on last
    waited          \* history: how long the timed join waited

vars == <<tid, threadStatus, worker, caller, millis, k, call, waited>>

Running == {"status", "tid", "run"}
Returned == {"exit", "clear", "leave", "ended"}

Init ==
    /\ tid = 0
    /\ threadStatus = THREAD_STATUS_NEW
    /\ worker = "none"
    /\ caller = "idle"
    /\ millis = 0
    /\ k = 0
    /\ call = "none"
    /\ waited = 0

Worker(from, to) ==
    /\ worker = from
    /\ worker' = to
    /\ UNCHANGED <<caller, millis, k, call, waited>>

Caller(from, to) == caller = from /\ caller' = to

-----------------------------------------------------------------------------
(* run1, in the new thread *)

StatusRunning ==
    /\ Worker("status", "tid")
    /\ threadStatus' = THREAD_STATUS_RUNNING
    /\ UNCHANGED tid

SetTid ==
    /\ Worker("tid", "run")
    /\ tid' = Self
    /\ UNCHANGED threadStatus

\* run may also go on for ever, as that of the recognition thread.
RunReturns ==
    /\ Worker("run", "exit")
    /\ UNCHANGED <<tid, threadStatus>>

StatusExit ==
    /\ Worker("exit", "clear")
    /\ threadStatus' = THREAD_STATUS_EXIT
    /\ UNCHANGED tid

ClearTid ==
    /\ Worker("clear", "leave")
    /\ tid' = 0
    /\ UNCHANGED threadStatus

PthreadExit ==
    /\ Worker("leave", "ended")
    /\ UNCHANGED <<tid, threadStatus>>

-----------------------------------------------------------------------------
(* The calls of the thread that started it *)

\* Deviation: the id is left to the new thread to write.
Start_WithoutTid ==
    /\ Caller("idle", "idle")
    /\ worker = "none"
    /\ worker' = "status"
    /\ UNCHANGED <<tid, threadStatus, millis, k, call, waited>>

\* A thread that was made is not started again: the program does so once.
Start ==
    /\ Caller("idle", "idle")
    /\ worker = "none"
    /\ \/ worker' = "status" /\ tid' = Self
       \/ worker' = "none" /\ tid' \in {0, Self}
    /\ UNCHANGED <<threadStatus, millis, k, call, waited>>

CallJoin ==
    /\ Caller("idle", "join")
    /\ call' = "join"
    /\ UNCHANGED <<tid, threadStatus, worker, millis, k, waited>>

\* The test of join, with what it read.
ReadTid ==
    /\ \/ tid > 0 /\ Caller("join", "joining")
       \/ tid = 0 /\ Caller("join", "back")
    /\ UNCHANGED <<tid, threadStatus, worker, millis, k, call, waited>>

\* pthread_join; with the id of a thread that was never made it fails.
JoinEnds ==
    /\ worker \in {"ended", "none"}
    /\ Caller("joining", "back")
    /\ UNCHANGED <<tid, threadStatus, worker, millis, k, call, waited>>

\* join(millisTime); with a limit of 0 it is join().
CallTimedJoin ==
    /\ millis' \in 0..MaxMillis
    /\ \/ tid = 0 /\ Caller("idle", "back")
       \/ tid # 0 /\ millis' = 0 /\ Caller("idle", "join")
       \/ tid # 0 /\ millis' > 0 /\ Caller("idle", "turn")
    /\ call' = IF caller' = "join" THEN "join" ELSE "timed"
    /\ k' = 0
    /\ waited' = 0
    /\ UNCHANGED <<tid, threadStatus, worker>>

\* Deviation: the turns are not counted.
Turn_NotCounted ==
    /\ threadStatus # THREAD_STATUS_EXIT
    /\ k <= millis
    /\ Caller("turn", "turn")
    /\ UNCHANGED <<tid, threadStatus, worker, millis, k, call, waited>>

\* Deviation: the limit is tested after the turn.
Turn_OneMore ==
    /\ threadStatus # THREAD_STATUS_EXIT
    /\ k <= millis + 1
    /\ Caller("turn", "turn")
    /\ k' = k + 1
    /\ \E n \in 1..MaxNap : waited' = waited + n
    /\ UNCHANGED <<tid, threadStatus, worker, millis, call>>

Turn ==
    /\ threadStatus # THREAD_STATUS_EXIT
    /\ k <= millis
    /\ Caller("turn", "turn")
    /\ k' = k + 1
    /\ \E n \in 1..MaxNap : waited' = waited + n
    /\ UNCHANGED <<tid, threadStatus, worker, millis, call>>

TurnsEnd ==
    /\ threadStatus = THREAD_STATUS_EXIT \/ k > millis
    /\ Caller("turn", "back")
    /\ UNCHANGED <<tid, threadStatus, worker, millis, k, call, waited>>

\* The call returns; the caller may make another one.
Return ==
    /\ Caller("back", "idle")
    /\ UNCHANGED <<tid, threadStatus, worker, millis, k, call, waited>>

-----------------------------------------------------------------------------

WorkerStep ==
    StatusRunning \/ SetTid \/ StatusExit \/ ClearTid \/ PthreadExit

InCall == ReadTid \/ JoinEnds \/ Turn \/ TurnsEnd \/ Return

Next ==
    \/ WorkerStep
    \/ RunReturns
    \/ InCall
    \/ Start
    \/ CallJoin
    \/ CallTimedJoin

\* The scheduler lets both threads go on.  Nothing makes run return or the
\* caller call.
Fairness == WF_vars(WorkerStep) /\ WF_vars(InCall)

Spec == Init /\ [][Next]_vars /\ Fairness

-----------------------------------------------------------------------------

\* Types; the turns of the timed join stop one behind its limit.
TypeOK ==
    /\ tid \in {0, Self}
    /\ threadStatus \in {THREAD_STATUS_NEW, THREAD_STATUS_RUNNING, THREAD_STATUS_EXIT}
    /\ worker \in {"none"} \cup Running \cup Returned
    /\ caller \in {"idle", "join", "joining", "turn", "back"}
    /\ millis \in 0..MaxMillis
    /\ k \in 0..(MaxMillis + 1)
    /\ call \in {"none", "join", "timed"}
    /\ waited \in 0..(k * MaxNap)

\* join does not return while the thread it waits for is in run: also when
\* it is called before the thread has come to run1, or while the thread sets
\* tid to 0.
JoinWaitsForRun ==
    (caller = "back" /\ call = "join") => worker \notin Running

\* The timed join always returns, if the thread runs for ever too, and join
\* does when run has returned.
JoinReturns ==
    /\ caller = "turn" ~> caller = "back"
    /\ (caller = "joining" /\ worker \in Returned) ~> caller = "back"

\* The header says the timed join waits until the thread ends or the time is
\* over: it does not come back sooner from a thread in run.
TimedJoinWaits ==
    (caller = "back" /\ call = "timed" /\ worker \in Running) =>
        waited >= 10 * millis

=============================================================================

-------------------------- MODULE ThreadLife_proofs --------------------------
(* Proofs about Thread, for every limit of the timed join and every length   *)
(* of its naps.                                                              *)
EXTENDS ThreadLife, TLAPS

\* The id stands from the moment pthread_create returns until run1 clears
\* it, which is after run.
TidStands == worker \in Running \cup {"exit", "clear"} => tid = Self

\* Turns are counted in the timed join only.
TurnsTimed == caller = "turn" => call = "timed"

IInv == TypeOK /\ TidStands /\ TurnsTimed /\ JoinWaitsForRun

\* The new thread, up to the clearing of its id.
LEMMA WorkerIInv ==
    ASSUME IInv, WorkerStep \/ RunReturns
    PROVE  IInv'
<1>1. CASE StatusRunning
    BY <1>1 DEF StatusRunning, Worker, IInv, TypeOK, TidStands, TurnsTimed,
                JoinWaitsForRun, Running, Returned
<1>2. CASE SetTid
    BY <1>2 DEF SetTid, Worker, IInv, TypeOK, TidStands, TurnsTimed,
                JoinWaitsForRun, Running, Returned
<1>3. CASE RunReturns
    BY <1>3 DEF RunReturns, Worker, IInv, TypeOK, TidStands, TurnsTimed,
                JoinWaitsForRun, Running, Returned
<1>4. CASE StatusExit
    BY <1>4 DEF StatusExit, Worker, IInv, TypeOK, TidStands, TurnsTimed,
                JoinWaitsForRun, Running, Returned
<1>5. CASE ClearTid
    BY <1>5 DEF ClearTid, Worker, IInv, TypeOK, TidStands, TurnsTimed,
                JoinWaitsForRun, Running, Returned
<1>6. CASE PthreadExit
    BY <1>6 DEF PthreadExit, Worker, IInv, TypeOK, TidStands, TurnsTimed,
                JoinWaitsForRun, Running, Returned
<1> QED
    BY <1>1, <1>2, <1>3, <1>4, <1>5, <1>6 DEF WorkerStep

\* A turn of the timed join.
LEMMA TurnIInv ==
    ASSUME IInv, Turn
    PROVE  IInv'
<1>1. PICK n \in 1..MaxNap : waited' = waited + n
    BY DEF Turn
<1>2. /\ k \in Nat /\ k <= MaxMillis /\ k' = k + 1
      /\ millis \in Nat /\ waited \in Nat /\ waited <= k * MaxNap
      /\ n \in Nat /\ n <= MaxNap /\ MaxNap \in Nat /\ MaxMillis \in Nat
    BY BoundsAssumption DEF IInv, TypeOK, Turn
<1>3. (k + 1) * MaxNap = k * MaxNap + MaxNap /\ k * MaxNap \in Nat
    BY <1>2
<1>4. waited' \in 0..(k' * MaxNap)
    BY <1>1, <1>2, <1>3
<1>5. k' \in 0..(MaxMillis + 1)
    BY <1>2
<1> QED
    BY <1>4, <1>5 DEF Turn, Caller, IInv, TypeOK, TidStands, TurnsTimed, JoinWaitsForRun,
                      Running, Returned

\* The steps of the calls.
LEMMA CallerIInv ==
    ASSUME IInv, InCall \/ Start \/ CallJoin \/ CallTimedJoin
    PROVE  IInv'
<1>1. CASE ReadTid
    BY <1>1 DEF ReadTid, Caller, IInv, TypeOK, TidStands, TurnsTimed, JoinWaitsForRun,
                Running, Returned, Self
<1>2. CASE JoinEnds
    BY <1>2 DEF JoinEnds, Caller, IInv, TypeOK, TidStands, TurnsTimed, JoinWaitsForRun,
                Running, Returned
<1>3. CASE TurnsEnd
  <2>1. call = "timed"
    BY <1>3 DEF TurnsEnd, Caller, IInv, TurnsTimed
  <2> QED
    BY <1>3, <2>1 DEF TurnsEnd, Caller, IInv, TypeOK, TidStands, TurnsTimed,
                      JoinWaitsForRun, Running, Returned
<1>4. CASE Return
    BY <1>4 DEF Return, Caller, IInv, TypeOK, TidStands, TurnsTimed, JoinWaitsForRun,
                Running, Returned
<1>5. CASE Start
    BY <1>5 DEF Start, Caller, IInv, TypeOK, TidStands, TurnsTimed, JoinWaitsForRun,
                Running, Returned
<1>6. CASE CallJoin
    BY <1>6 DEF CallJoin, Caller, IInv, TypeOK, TidStands, TurnsTimed, JoinWaitsForRun,
                Running, Returned
<1>7. CASE CallTimedJoin
  <2>1. k' \in 0..(MaxMillis + 1) /\ waited' \in 0..(k' * MaxNap)
    BY <1>7, BoundsAssumption DEF CallTimedJoin
  <2>2. caller' = "back" => call' = "timed"
    BY <1>7 DEF CallTimedJoin
  <2> QED
    BY <1>7, <2>1, <2>2 DEF CallTimedJoin, Caller, IInv, TypeOK, TidStands, TurnsTimed,
                            JoinWaitsForRun, Running, Returned
<1> QED
    BY <1>1, <1>2, <1>3, <1>4, <1>5, <1>6, <1>7, TurnIInv DEF InCall

\* IInv is inductive.
LEMMA SpecIInv == Spec => []IInv
<1>1. Init => IInv
    BY BoundsAssumption DEF Init, IInv, TypeOK, TidStands, TurnsTimed, JoinWaitsForRun,
                            Running, Returned
<1>2. IInv /\ [Next]_vars => IInv'
  <2>1. ASSUME IInv, UNCHANGED vars PROVE IInv'
    BY <2>1 DEF vars, IInv, TypeOK, TidStands, TurnsTimed, JoinWaitsForRun
  <2> QED
    BY <2>1, WorkerIInv, CallerIInv DEF Next
<1> QED
    BY <1>1, <1>2, PTL DEF Spec

\* join never comes back while the thread is in run, whatever it reads of
\* tid and whenever.
THEOREM JoinWaits == Spec => []JoinWaitsForRun
<1>1. IInv => JoinWaitsForRun
    BY DEF IInv
<1> QED
    BY <1>1, SpecIInv, PTL

\* The members of Thread keep their types, and the timed join takes at most
\* one turn more than its limit.
THEOREM ThreadTypes == Spec => []TypeOK
<1>1. IInv => TypeOK
    BY DEF IInv
<1> QED
    BY <1>1, SpecIInv, PTL

=============================================================================

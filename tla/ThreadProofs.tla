---------------------------- MODULE ThreadProofs ----------------------------
(* Theorems about Thread, for any runnables and any threads of execution.  *)
(* They hold for a careful owner, that is with Careless = {}: the           *)
(* preconditions that the code leaves to its caller are enough to keep it  *)
(* out of undefined behaviour.                                             *)
EXTENDS Thread, TLAPS

\* Where the owner may be: inside a call only while the object exists, with
\* a thread to store while it resets and one to wait for when it is joinable.
Placed ==
    /\ pc # "idle" => alive
    /\ pc = "reset" => fresh # Null
    /\ joinable => m_thread # Null

\* What is inductive: the properties need each other. That nothing crashes
\* rests on started() being right, which rests on active threads being attached.
IInv == TypeOK /\ NoFault /\ Attached /\ StartedIsJoinable /\ RunnableExists /\ Placed

LEMMA InitIInv == Init => IInv
BY ThreadAssumption DEF Init, IInv, TypeOK, NoFault, Attached, StartedIsJoinable,
   RunnableExists, Placed, Active

(* A careful owner keeps the types. That a thread which enters run finds a *)
(* runnable to enter needs the whole invariant.                            *)
LEMMA TypeStep ==
  ASSUME Careless = {}, IInv, [Next]_vars
  PROVE  TypeOK'
<1> USE DEF IInv, TypeOK, members, threads, application, Crash
<1>1. CASE UNCHANGED vars
  BY <1>1 DEF vars
<1>2. ASSUME NEW r \in Runnables \cup {Null}, Construct(r) PROVE TypeOK'
  BY <1>2 DEF Construct
<1>3. ASSUME NEW r \in Runnables \cup {Null}, runnable(r) PROVE TypeOK'
  BY <1>3 DEF runnable
<1>4. CASE start
  BY <1>4, ThreadAssumption DEF start, Active, Placed, Attached
<1>5. CASE Reset
  BY <1>5 DEF Reset
<1>6. CASE join
  <2>1. fault' \in {"none", "null", "terminate", "freed"} /\ m_started' \in BOOLEAN
    BY <1>6 DEF join, BeginJoin
  <2>2. pc' \in {"idle", "reset", "join", "destroy"} /\ ret' \in {OK, FAILURE, NO_RESOURCE}
    BY <1>6 DEF join, BeginJoin
  <2>3. UNCHANGED <<alive, joinable>>
    BY <1>6 DEF join, BeginJoin
  <2> QED
    BY <1>6, <2>1, <2>2, <2>3 DEF join
<1>7. CASE Joined
  BY <1>7 DEF Joined
<1>8. CASE Destroy
  <2>1. fault' \in {"none", "null", "terminate", "freed"} /\ m_started' \in BOOLEAN
    BY <1>8 DEF Destroy, BeginJoin
  <2>2. pc' \in {"idle", "reset", "join", "destroy"} /\ alive' \in BOOLEAN
    BY <1>8 DEF Destroy, BeginJoin
  <2>3. UNCHANGED <<joinable, ret>>
    BY <1>8 DEF Destroy, BeginJoin
  <2> QED
    BY <1>8, <2>1, <2>2, <2>3 DEF Destroy
<1>9. CASE Destroyed
  BY <1>9 DEF Destroyed
<1>10. ASSUME NEW r \in Runnables, stop(r) PROVE TypeOK'
  BY <1>10 DEF stop
<1>11. ASSUME NEW t \in OSThreads, Run(t) PROVE TypeOK'
  <2>1. m_runnable # Null
    BY <1>11 DEF Run, RunnableExists, Active
  <2> QED
    BY <1>11, <2>1 DEF Run
<1>12. ASSUME NEW t \in OSThreads, End(t) PROVE TypeOK'
  BY <1>12 DEF End
<1>13. ASSUME NEW t \in OSThreads, JoinOwn(t) PROVE TypeOK'
  BY <1>13 DEF JoinOwn
<1>14. ASSUME NEW r \in Runnables, Create(r) PROVE TypeOK'
  BY <1>14 DEF Create
<1>15. ASSUME NEW r \in Runnables, Release(r) PROVE TypeOK'
  BY <1>15 DEF Release
<1> QED
  BY <1>1, <1>2, <1>3, <1>4, <1>5, <1>6, <1>7, <1>8, <1>9, <1>10, <1>11, <1>12, <1>13,
     <1>14, <1>15 DEF Next, Owner, Others, EndStopped, EndByItself

(* Every step of a careful owner, or of another thread, keeps IInv.        *)
LEMMA IInvStep ==
  ASSUME Careless = {}, IInv, TypeOK', [Next]_vars
  PROVE  IInv'
<1> USE ThreadAssumption DEF IInv, TypeOK, NoFault, Attached, StartedIsJoinable,
        RunnableExists, Placed, Active, Idle, Crash, members, threads, application
<1>1. CASE UNCHANGED vars
  BY <1>1 DEF vars
<1>2. ASSUME NEW r \in Runnables \cup {Null}, Construct(r) PROVE IInv'
  BY <1>2 DEF Construct
<1>3. ASSUME NEW r \in Runnables \cup {Null}, runnable(r) PROVE IInv'
  BY <1>3 DEF runnable, Careful, MaySwap, InUse
<1>4. CASE start
  BY <1>4 DEF start, Careful
<1>5. CASE Reset
  BY <1>5 DEF Reset
<1>6. CASE join
  BY <1>6 DEF join, BeginJoin, Careful
<1>7. CASE Joined
  BY <1>7 DEF Joined
<1>8. CASE Destroy
  BY <1>8 DEF Destroy, BeginJoin, Careful
<1>9. CASE Destroyed
  BY <1>9 DEF Destroyed
<1>10. ASSUME NEW r \in Runnables, stop(r) PROVE IInv'
  BY <1>10 DEF stop
<1>11. ASSUME NEW t \in OSThreads, Run(t) PROVE IInv'
  BY <1>11 DEF Run
<1>12. ASSUME NEW t \in OSThreads, End(t) PROVE IInv'
  BY <1>12 DEF End
<1>13. ASSUME NEW t \in OSThreads, JoinOwn(t) PROVE IInv'
  <2>1. t \in Active /\ ~m_started
    BY <1>13 DEF JoinOwn, Careful
  <2>2. m_thread # Null
    BY <2>1
  <2>3. m_started' = m_started
    BY <1>13, <2>1, <2>2 DEF JoinOwn
  <2>4. UNCHANGED vars
    BY <1>13, <2>2, <2>3 DEF JoinOwn, vars
  <2> QED
    BY <1>1, <2>4
<1>14. ASSUME NEW r \in Runnables, Create(r) PROVE IInv'
  BY <1>14 DEF Create
<1>15. ASSUME NEW r \in Runnables, Release(r) PROVE IInv'
  BY <1>15 DEF Release, Careful, InUse
<1> QED
  BY <1>1, <1>2, <1>3, <1>4, <1>5, <1>6, <1>7, <1>8, <1>9, <1>10, <1>11, <1>12, <1>13,
     <1>14, <1>15 DEF Next, Owner, Others, EndStopped, EndByItself

(* A careful owner keeps the whole invariant.                              *)
THEOREM Invariance == ASSUME Careless = {} PROVE Spec => []IInv
<1>1. IInv /\ [Next]_vars => IInv'
  BY TypeStep, IInvStep
<1> QED
  BY <1>1, InitIInv, PTL DEF Spec

(* Thread keeps its types, and no thread runs a null runnable.             *)
THEOREM TypeCorrect == ASSUME Careless = {} PROVE Spec => []TypeOK
<1>1. IInv => TypeOK
  BY DEF IInv
<1> QED
  BY <1>1, Invariance, PTL

(* Nothing undefined happens to a careful owner: no null m_thread is used, *)
(* no joinable std::thread is destroyed, and a started thread never reads  *)
(* an object that is gone.                                                 *)
THEOREM CarefulIsSafe == ASSUME Careless = {} PROVE Spec => []NoFault
<1>1. IInv => NoFault
  BY DEF IInv
<1> QED
  BY <1>1, Invariance, PTL

(* An active thread belongs to a living object that can join it.           *)
THEOREM ThreadsAreAttached == ASSUME Careless = {} PROVE Spec => []Attached
<1>1. IInv => Attached
  BY DEF IInv
<1> QED
  BY <1>1, Invariance, PTL

(* started() tells whether there is a thread to join.                      *)
THEOREM StartedIsRight == ASSUME Careless = {} PROVE Spec => []StartedIsJoinable
<1>1. IInv => StartedIsJoinable
  BY DEF IInv
<1> QED
  BY <1>1, Invariance, PTL

(* Every active thread has a runnable that exists.                         *)
THEOREM RunnablesOutliveThreads == ASSUME Careless = {} PROVE Spec => []RunnableExists
<1>1. IInv => RunnableExists
  BY DEF IInv
<1> QED
  BY <1>1, Invariance, PTL
=============================================================================

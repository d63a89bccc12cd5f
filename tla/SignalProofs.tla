---------------------------- MODULE SignalProofs ----------------------------
(* Theorems about Signal for any threads, ids and calls.                   *)
EXTENDS Signal, TLAPS

(* The members, the program counters and the results of a Signal keep      *)
(* their types, whatever its threads do.                                   *)
THEOREM TypeCorrect == Spec => []TypeOK
<1> USE SignalAssumption DEF Threads, CallerPC, ReaderPC, CallerCS, ReaderCS
<1>1. Init => TypeOK
  BY DEF Init, TypeOK
<1>2. TypeOK /\ [Next]_vars => TypeOK'
  <2> SUFFICES ASSUME TypeOK, [Next]_vars PROVE TypeOK'
    OBVIOUS
  <2> USE DEF TypeOK, Goto, members
  <2>1. ASSUME NEW t \in Threads, Lock(t) PROVE TypeOK'
    BY <2>1 DEF Lock, LockPC, Entry
  <2>2. ASSUME NEW t \in Threads, Unlock(t) PROVE TypeOK'
    BY <2>2 DEF Unlock
  <2>3. ASSUME NEW c \in Callers, CallerCall(c) PROVE TypeOK'
    BY <2>3 DEF CallerCall, Update, Cancel, Clear
  <2>4. ASSUME NEW c \in Callers, CallerStep(c) PROVE TypeOK'
    <3>1. CASE SetUpdated(c)
      BY <3>1 DEF SetUpdated
    <3>2. CASE SetId(c)
      BY <3>2 DEF SetId
    <3>3. CASE SetCanceled(c)
      BY <3>3 DEF SetCanceled
    <3>4. CASE Notify(c)
      BY <3>4 DEF Notify, Woken
    <3>5. CASE ClearUpdated(c)
      BY <3>5 DEF ClearUpdated
    <3>6. CASE ClearCanceled(c)
      BY <3>6 DEF ClearCanceled
    <3> QED
      BY <2>4, <3>1, <3>2, <3>3, <3>4, <3>5, <3>6 DEF CallerStep
  <2>5. ASSUME NEW r \in Readers, ReaderCall(r) PROVE TypeOK'
    <3>1. ASSUME NEW b \in BOOLEAN, BeginWait(r, b) PROVE TypeOK'
      BY <3>1 DEF BeginWait
    <3> QED
      BY <2>5, <3>1 DEF ReaderCall, WaitUpdate, WaitFor
  <2>6. ASSUME NEW r \in Readers, ReaderStep(r) PROVE TypeOK'
    <3>1. CASE TakeCancel(r)
      BY <3>1 DEF TakeCancel, Return
    <3>2. CASE TakeUpdate(r)
      BY <3>2 DEF TakeUpdate, Return
    <3>3. CASE GiveUp(r)
      BY <3>3 DEF GiveUp, Return
    <3>4. CASE Sleep(r)
      BY <3>4 DEF Sleep
    <3> QED
      BY <2>6, <3>1, <3>2, <3>3, <3>4 DEF ReaderStep
  <2>7. ASSUME NEW r \in Readers, SpuriousWakeup(r) PROVE TypeOK'
    BY <2>7 DEF SpuriousWakeup
  <2>8. ASSUME NEW r \in Readers, TimeOut(r) PROVE TypeOK'
    BY <2>8 DEF TimeOut
  <2>9. CASE UNCHANGED vars
    BY <2>9 DEF vars
  <2> QED
    BY <2>1, <2>2, <2>3, <2>4, <2>5, <2>6, <2>7, <2>8, <2>9 DEF Next
<1> QED
  BY <1>1, <1>2, PTL DEF Spec

-----------------------------------------------------------------------------
(* One step keeps the mutex with the thread inside its critical section.   *)
(* Every statement but Lock, Unlock and Sleep leaves both m_guard and the  *)
(* side of the critical section that each thread is on as they are.        *)
LEMMA MutualExclusionStep ==
    ASSUME TypeOK, MutualExclusion, [Next]_vars PROVE MutualExclusion'
<1> USE SignalAssumption
    DEF Threads, CallerPC, ReaderPC, CallerCS, ReaderCS, TypeOK, MutualExclusion,
        Goto, members
<1>1. ASSUME NEW t \in Threads, Lock(t) PROVE MutualExclusion'
  BY <1>1 DEF Lock, LockPC, Entry
<1>2. ASSUME NEW t \in Threads, Unlock(t) PROVE MutualExclusion'
  BY <1>2 DEF Unlock
<1>3. ASSUME NEW c \in Callers, CallerCall(c) PROVE MutualExclusion'
  BY <1>3 DEF CallerCall, Update, Cancel, Clear
<1>4. ASSUME NEW c \in Callers, CallerStep(c) PROVE MutualExclusion'
  <2>1. CASE SetUpdated(c)
    BY <2>1 DEF SetUpdated
  <2>2. CASE SetId(c)
    BY <2>2 DEF SetId
  <2>3. CASE SetCanceled(c)
    BY <2>3 DEF SetCanceled
  <2>4. CASE Notify(c)
    BY <2>4 DEF Notify, Woken
  <2>5. CASE ClearUpdated(c)
    BY <2>5 DEF ClearUpdated
  <2>6. CASE ClearCanceled(c)
    BY <2>6 DEF ClearCanceled
  <2> QED
    BY <1>4, <2>1, <2>2, <2>3, <2>4, <2>5, <2>6 DEF CallerStep
<1>5. ASSUME NEW r \in Readers, ReaderCall(r) PROVE MutualExclusion'
  BY <1>5 DEF ReaderCall, WaitUpdate, WaitFor, BeginWait
<1>6. ASSUME NEW r \in Readers, ReaderStep(r) PROVE MutualExclusion'
  <2>1. CASE TakeCancel(r)
    BY <2>1 DEF TakeCancel, Return
  <2>2. CASE TakeUpdate(r)
    BY <2>2 DEF TakeUpdate, Return
  <2>3. CASE GiveUp(r)
    BY <2>3 DEF GiveUp, Return
  <2>4. CASE Sleep(r)
    BY <2>4 DEF Sleep
  <2> QED
    BY <1>6, <2>1, <2>2, <2>3, <2>4 DEF ReaderStep
<1>7. ASSUME NEW r \in Readers, SpuriousWakeup(r) PROVE MutualExclusion'
  BY <1>7 DEF SpuriousWakeup
<1>8. ASSUME NEW r \in Readers, TimeOut(r) PROVE MutualExclusion'
  BY <1>8 DEF TimeOut
<1>9. CASE UNCHANGED vars
  BY <1>9 DEF vars
<1> QED
  BY <1>1, <1>2, <1>3, <1>4, <1>5, <1>6, <1>7, <1>8, <1>9 DEF Next

(* At most one thread is inside a critical section, and it holds the mutex.*)
THEOREM Exclusion == Spec => []MutualExclusion
<1>1. Init => MutualExclusion
  BY SignalAssumption
  DEF Init, MutualExclusion, Threads, CallerCS, ReaderCS
<1>2. TypeOK /\ MutualExclusion /\ [Next]_vars => MutualExclusion'
  BY MutualExclusionStep
<1> QED
  BY <1>1, <1>2, TypeCorrect, PTL DEF Spec

-----------------------------------------------------------------------------
(* A reader falls asleep only when nothing is pending, the flags are only  *)
(* set on the way to notify_all, and notify_all leaves no sleeper behind:  *)
(* so no reader ever sleeps on an update or a cancel already made.         *)
THEOREM WakeupsAreNotLost == Spec => []NoLostWakeup
<1> USE SignalAssumption
    DEF Threads, CallerPC, ReaderPC, CallerCS, ReaderCS, Goto, members,
        Pending, Woken, NoLostWakeup, TypeOK
<1>1. Init => NoLostWakeup
  BY DEF Init
<1>2. TypeOK /\ NoLostWakeup /\ [Next]_vars => NoLostWakeup'
  <2> SUFFICES ASSUME TypeOK, NoLostWakeup, [Next]_vars,
                      Pending', NEW s \in Readers, pc'[s] = "asleep"
               PROVE  \E c \in Callers : pc'[c] \in {"set_id", "notify"}
    OBVIOUS
  <2> DEFINE Notifying == \E c \in Callers : pc'[c] \in {"set_id", "notify"}
  <2>1. ASSUME NEW t \in Threads, Lock(t) PROVE Notifying
    BY <2>1 DEF Lock, LockPC, Entry
  <2>2. ASSUME NEW t \in Threads, Unlock(t) PROVE Notifying
    BY <2>2 DEF Unlock
  <2>3. ASSUME NEW c \in Callers, CallerCall(c) PROVE Notifying
    BY <2>3 DEF CallerCall, Update, Cancel, Clear
  <2>4. ASSUME NEW c \in Callers, CallerStep(c) PROVE Notifying
    <3>1. CASE SetUpdated(c)
      BY <3>1 DEF SetUpdated
    <3>2. CASE SetId(c)
      BY <3>2 DEF SetId
    <3>3. CASE SetCanceled(c)
      BY <3>3 DEF SetCanceled
    <3>4. CASE Notify(c)
      BY <3>4 DEF Notify
    <3>5. CASE ClearUpdated(c)
      BY <3>5 DEF ClearUpdated
    <3>6. CASE ClearCanceled(c)
      BY <3>6 DEF ClearCanceled
    <3> QED
      BY <2>4, <3>1, <3>2, <3>3, <3>4, <3>5, <3>6 DEF CallerStep
  <2>5. ASSUME NEW r \in Readers, ReaderCall(r) PROVE Notifying
    BY <2>5 DEF ReaderCall, WaitUpdate, WaitFor, BeginWait
  <2>6. ASSUME NEW r \in Readers, ReaderStep(r) PROVE Notifying
    <3>1. CASE TakeCancel(r)
      BY <3>1 DEF TakeCancel, Return
    <3>2. CASE TakeUpdate(r)
      BY <3>2 DEF TakeUpdate, Return
    <3>3. CASE GiveUp(r)
      BY <3>3 DEF GiveUp, Return
    <3>4. CASE Sleep(r)
      BY <3>4 DEF Sleep
    <3> QED
      BY <2>6, <3>1, <3>2, <3>3, <3>4 DEF ReaderStep
  <2>7. ASSUME NEW r \in Readers, SpuriousWakeup(r) PROVE Notifying
    BY <2>7 DEF SpuriousWakeup
  <2>8. ASSUME NEW r \in Readers, TimeOut(r) PROVE Notifying
    BY <2>8 DEF TimeOut
  <2>9. CASE UNCHANGED vars
    BY <2>9 DEF vars
  <2> QED
    BY <2>1, <2>2, <2>3, <2>4, <2>5, <2>6, <2>7, <2>8, <2>9 DEF Next
<1> QED
  BY <1>1, <1>2, TypeCorrect, PTL DEF Spec

-----------------------------------------------------------------------------
(* What the steps of Signal rely on to be steps of Mailbox: an update runs *)
(* with an id; m_id is one whenever the update flag offers it to a reader; *)
(* only a timed wait runs out of time.                                     *)
IdInv ==
    /\ \A c \in Callers :
          pc[c] \in {"lock_update", "set_updated", "set_id"} => arg[c] \in Ids
    /\ m_updated /\ ~At("set_id") => m_id \in Ids
    /\ At("set_id") => m_updated
    /\ \A r \in Readers : expired[r] => timed[r]

LEMMA IdInvStep ==
    ASSUME TypeOK, MutualExclusion, IdInv, [Next]_vars PROVE IdInv'
<1> USE SignalAssumption
    DEF Threads, CallerPC, ReaderPC, CallerCS, ReaderCS, TypeOK, MutualExclusion,
        IdInv, At, Goto, members
<1>1. ASSUME NEW t \in Threads, Lock(t) PROVE IdInv'
  BY <1>1 DEF Lock, LockPC, Entry
<1>2. ASSUME NEW t \in Threads, Unlock(t) PROVE IdInv'
  BY <1>2 DEF Unlock
<1>3. ASSUME NEW c \in Callers, CallerCall(c) PROVE IdInv'
  <2>1. CASE \E x \in Ids : Update(c, x)
    BY <2>1 DEF Update
  <2>2. CASE Cancel(c)
    BY <2>2 DEF Cancel
  <2>3. CASE Clear(c)
    BY <2>3 DEF Clear
  <2> QED
    BY <1>3, <2>1, <2>2, <2>3 DEF CallerCall
<1>4. ASSUME NEW c \in Callers, CallerStep(c) PROVE IdInv'
  <2>1. CASE SetUpdated(c)
    BY <2>1 DEF SetUpdated
  <2>2. CASE SetId(c)
    BY <2>2 DEF SetId
  <2>3. CASE SetCanceled(c)
    BY <2>3 DEF SetCanceled
  <2>4. CASE Notify(c)
    BY <2>4 DEF Notify, Woken
  <2>5. CASE ClearUpdated(c)
    BY <2>5 DEF ClearUpdated
  <2>6. CASE ClearCanceled(c)
    BY <2>6 DEF ClearCanceled
  <2> QED
    BY <1>4, <2>1, <2>2, <2>3, <2>4, <2>5, <2>6 DEF CallerStep
<1>5. ASSUME NEW r \in Readers, ReaderCall(r) PROVE IdInv'
  BY <1>5 DEF ReaderCall, WaitUpdate, WaitFor, BeginWait
<1>6. ASSUME NEW r \in Readers, ReaderStep(r) PROVE IdInv'
  <2>1. CASE TakeCancel(r)
    BY <2>1 DEF TakeCancel, Return
  <2>2. CASE TakeUpdate(r)
    BY <2>2 DEF TakeUpdate, Return
  <2>3. CASE GiveUp(r)
    BY <2>3 DEF GiveUp, Return
  <2>4. CASE Sleep(r)
    BY <2>4 DEF Sleep
  <2> QED
    BY <1>6, <2>1, <2>2, <2>3, <2>4 DEF ReaderStep
<1>7. ASSUME NEW r \in Readers, SpuriousWakeup(r) PROVE IdInv'
  BY <1>7 DEF SpuriousWakeup
<1>8. ASSUME NEW r \in Readers, TimeOut(r) PROVE IdInv'
  BY <1>8 DEF TimeOut
<1>9. CASE UNCHANGED vars
  BY <1>9 DEF vars
<1> QED
  BY <1>1, <1>2, <1>3, <1>4, <1>5, <1>6, <1>7, <1>8, <1>9 DEF Next

(* Every step of Signal is a step of Mailbox or changes nothing Mailbox    *)
(* sees.                                                                   *)
LEMMA MailboxStep ==
    ASSUME TypeOK, MutualExclusion, IdInv, [Next]_vars
    PROVE  [MB!Next]_(MB!mailboxVars)
<1> USE SignalAssumption
    DEF Threads, CallerPC, ReaderPC, CallerCS, ReaderCS, TypeOK, MutualExclusion,
        IdInv, At, Goto, members, slotBar, canceledBar, waitBar
<1> DEFINE Stutter == UNCHANGED <<slotBar, canceledBar, waitBar, result>>
<1>1. ASSUME NEW t \in Threads, Lock(t) PROVE Stutter
  BY <1>1 DEF Lock, LockPC, Entry
<1>2. ASSUME NEW t \in Threads, Unlock(t) PROVE Stutter
  BY <1>2 DEF Unlock
<1>3. ASSUME NEW c \in Callers, CallerCall(c) PROVE Stutter
  <2>1. CASE \E x \in Ids : Update(c, x)
    BY <2>1 DEF Update
  <2>2. CASE Cancel(c)
    BY <2>2 DEF Cancel
  <2>3. CASE Clear(c)
    BY <2>3 DEF Clear
  <2> QED
    BY <1>3, <2>1, <2>2, <2>3 DEF CallerCall
<1>4. ASSUME NEW c \in Callers, SetUpdated(c) PROVE MB!Put(arg[c])
  BY <1>4 DEF SetUpdated, MB!Put
<1>5. ASSUME NEW c \in Callers, SetId(c) PROVE Stutter
  BY <1>5 DEF SetId
<1>6. ASSUME NEW c \in Callers, SetCanceled(c) PROVE MB!Cancel
  BY <1>6 DEF SetCanceled, MB!Cancel
<1>7. ASSUME NEW c \in Callers, Notify(c) PROVE Stutter
  BY <1>7 DEF Notify, Woken
<1>8. ASSUME NEW c \in Callers, ClearUpdated(c) PROVE MB!Clear
  BY <1>8 DEF ClearUpdated, MB!Clear
<1>9. ASSUME NEW c \in Callers, ClearCanceled(c) PROVE Stutter
  BY <1>9 DEF ClearCanceled
<1>10. ASSUME NEW r \in Readers, ReaderCall(r) PROVE MB!Wait(r)
  <2>1. CASE WaitUpdate(r)
    BY <2>1 DEF WaitUpdate, BeginWait, MB!Wait
  <2>2. CASE WaitFor(r)
    BY <2>2 DEF WaitFor, BeginWait, MB!Wait
  <2> QED
    BY <1>10, <2>1, <2>2 DEF ReaderCall
<1>11. ASSUME NEW r \in Readers, TakeCancel(r) PROVE MB!TakeCancel(r)
  BY <1>11 DEF TakeCancel, Return, MB!TakeCancel, MB!Return
<1>12. ASSUME NEW r \in Readers, TakeUpdate(r) PROVE MB!Take(r)
  BY <1>12 DEF TakeUpdate, Return, MB!Take, MB!Return
<1>13. ASSUME NEW r \in Readers, GiveUp(r) PROVE MB!GiveUp(r)
  BY <1>13 DEF GiveUp, Return, Pending, MB!GiveUp, MB!Return
<1>14. ASSUME NEW r \in Readers, Sleep(r) PROVE Stutter
  BY <1>14 DEF Sleep
<1>15. ASSUME NEW r \in Readers, SpuriousWakeup(r) PROVE Stutter
  BY <1>15 DEF SpuriousWakeup
<1>16. ASSUME NEW r \in Readers, TimeOut(r) PROVE Stutter
  BY <1>16 DEF TimeOut
<1>17. CASE UNCHANGED vars
  BY <1>17 DEF vars, MB!mailboxVars
<1> QED
  <2>1. Stutter => UNCHANGED MB!mailboxVars
    BY DEF MB!mailboxVars
  <2>2. ASSUME NEW c \in Callers, SetUpdated(c) PROVE MB!Next
    <3>1. arg[c] \in Ids
      BY <2>2 DEF SetUpdated
    <3> QED
      BY <3>1, <2>2, <1>4 DEF MB!Next
  <2>3. ASSUME NEW c \in Callers, SetCanceled(c) \/ ClearUpdated(c) PROVE MB!Next
    BY <2>3, <1>6, <1>8 DEF MB!Next
  <2>4. ASSUME NEW r \in Readers,
               ReaderCall(r) \/ TakeCancel(r) \/ TakeUpdate(r) \/ GiveUp(r)
        PROVE  MB!Next
    BY <2>4, <1>10, <1>11, <1>12, <1>13 DEF MB!Next
  <2> HIDE DEF Stutter
  <2> QED
    BY <1>1, <1>2, <1>3, <1>5, <1>7, <1>9, <1>14, <1>15, <1>16, <1>17,
       <2>1, <2>2, <2>3, <2>4
    DEF Next, CallerStep, ReaderStep

(* Signal, statement by statement under its mutex, behaves as the mailbox: *)
(* the newest id is returned, once, and neither a cancel nor a timeout     *)
(* loses an update.                                                        *)
THEOREM Refinement == Spec => ImplementsMailbox
<1>1. Init => MB!Init
  BY SignalAssumption
  DEF Init, MB!Init, slotBar, canceledBar, waitBar, At, Threads
<1>2. Init => IdInv
  BY SignalAssumption DEF Init, IdInv, At, Threads
<1>3. TypeOK /\ MutualExclusion /\ IdInv /\ [Next]_vars => IdInv'
  BY IdInvStep
<1>4. TypeOK /\ MutualExclusion /\ IdInv /\ [Next]_vars
        => [MB!Next]_(MB!mailboxVars)
  BY MailboxStep
<1> QED
  BY <1>1, <1>2, <1>3, <1>4, TypeCorrect, Exclusion, PTL
  DEF Spec, ImplementsMailbox, MB!Spec
=============================================================================

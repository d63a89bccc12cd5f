------------------------- MODULE NotificationProofs -------------------------
(* Theorems about Notification, for any notifications, receivers, threads   *)
(* and results. The types hold for every owner; the rest for a careful one. *)
EXTENDS Notification, TLAPS

LEMMA NoCallType == \A n \in Notifications \cup {Null} : NoCall(n) \in Calls
BY NotificationAssumption DEF NoCall, Calls, Steps

\* A call that has begun, entered a receiver, or been answered is still one.
LEMMA CallTypes ==
  ASSUME NEW c \in Calls
  PROVE  /\ \A s \in Steps, v \in Results : [c EXCEPT !.step = s, !.ret = v] \in Calls
         /\ \A r \in Receivers :
                [c EXCEPT !.step = "inside", !.heard = Append(c.heard, r)] \in Calls
         /\ [c EXCEPT !.step = "return"] \in Calls
         /\ \A v \in Results, w \in Results \cup {"throw"} :
                [c EXCEPT !.step = "return", !.ret = v, !.reply = w] \in Calls
<1>1. ASSUME NEW s \in Steps, NEW v \in Results
      PROVE  [c EXCEPT !.step = s, !.ret = v] \in Calls
  BY DEF Calls
<1>2. ASSUME NEW r \in Receivers
      PROVE  [c EXCEPT !.step = "inside", !.heard = Append(c.heard, r)] \in Calls
  <2>1. Append(c.heard, r) \in Seq(Receivers)
    BY DEF Calls
  <2> QED
    BY <2>1 DEF Calls, Steps
<1>3. [c EXCEPT !.step = "return"] \in Calls
  BY DEF Calls, Steps
<1>4. ASSUME NEW v \in Results, NEW w \in Results \cup {"throw"}
      PROVE  [c EXCEPT !.step = "return", !.ret = v, !.reply = w] \in Calls
  BY DEF Calls, Steps
<1> QED
  BY <1>1, <1>2, <1>3, <1>4

LEMMA TypeInit == Init => TypeOK
<1>1. Init => call \in [Threads -> Calls]
  BY NoCallType DEF Init
<1> QED
  BY <1>1 DEF Init, TypeOK

(* Whatever the owner does and the receivers throw, notify returns a code.  *)
THEOREM TypeCorrect == Spec => []TypeOK
<1>1. Init => TypeOK
  BY TypeInit
<1>2. TypeOK /\ [Next]_vars => TypeOK'
  <2> SUFFICES ASSUME TypeOK, [Next]_vars PROVE TypeOK'
    OBVIOUS
  <2> USE DEF TypeOK
  <2>1. CASE UNCHANGED vars
    BY <2>1 DEF vars
  <2>2. ASSUME NEW n \in Notifications, Construct(n) PROVE TypeOK'
    BY <2>2 DEF Construct, Bind
  <2>3. ASSUME NEW n \in Notifications, Destroy(n) PROVE TypeOK'
    BY <2>3 DEF Destroy
  <2>4. ASSUME NEW n \in Notifications, NEW r \in Receivers, connect(n, r) PROVE TypeOK'
    BY <2>4 DEF connect, Bind, InNotify
  <2>5. ASSUME NEW n \in Notifications, NEW rhs \in Notifications, MoveConstruct(n, rhs)
        PROVE  TypeOK'
    BY <2>5 DEF MoveConstruct, MovedFrom, InNotify, Exists
  <2>6. ASSUME NEW r \in Receivers, Create(r) \/ Release(r) PROVE TypeOK'
    BY <2>6 DEF Create, Release
  <2>7. ASSUME NEW t \in Threads, Start(t) \/ End(t) PROVE TypeOK'
    BY <2>7 DEF Start, End
  <2>8. ASSUME NEW t \in Threads, NEW n \in Notifications, notify(t, n) PROVE TypeOK'
    <3> DEFINE s == IF m_reciver[n] # Null THEN "call" ELSE "return"
    <3>1. s \in Steps /\ NotHeard \in Results /\ NoCall(n) \in Calls
      BY NotificationAssumption, NoCallType DEF NotHeard, Steps
    <3>2. [NoCall(n) EXCEPT !.step = s, !.ret = NotHeard] \in Calls
      BY <3>1, CallTypes
    <3> QED
      BY <2>8, <3>2 DEF notify
  <2>9. ASSUME NEW t \in Threads, Enter(t) PROVE TypeOK'
    <3> DEFINE r == m_reciver[call[t].n]
    <3>1. call[t] \in Calls
      OBVIOUS
    <3>2. /\ r \in Receivers => [call[t] EXCEPT !.step = "inside", !.heard = Append(call[t].heard, r)] \in Calls
          /\ [call[t] EXCEPT !.step = "return"] \in Calls
      BY <3>1, CallTypes
    <3>3. CASE r \in Receivers
      BY <2>9, <3>2, <3>3 DEF Enter
    <3>4. CASE r \notin Receivers
      BY <2>9, <3>2, <3>4 DEF Enter
    <3> QED
      BY <3>3, <3>4
  <2>10. ASSUME NEW t \in Threads, Leave(t) PROVE TypeOK'
    <3>1. PICK reply \in Results \cup {"throw"} :
            call' = [call EXCEPT ![t] = [@ EXCEPT !.step = "return", !.ret = Caught(reply),
                                                   !.reply = reply]]
      BY <2>10 DEF Leave
    <3>2. Caught(reply) \in Results /\ call[t] \in Calls
      BY NotificationAssumption DEF Caught, NotHeard
    <3>3. [call[t] EXCEPT !.step = "return", !.ret = Caught(reply), !.reply = reply] \in Calls
      BY <3>2, CallTypes
    <3> QED
      BY <2>10, <3>1, <3>3 DEF Leave
  <2>11. ASSUME NEW t \in Threads, Return(t) PROVE TypeOK'
    BY <2>11, NoCallType DEF Return
  <2> QED
    BY <2>1, <2>2, <2>3, <2>4, <2>5, <2>6, <2>7, <2>8, <2>9, <2>10, <2>11
       DEF Next, OwnerStep, ThreadStep
<1> QED
  BY <1>1, <1>2, PTL DEF Spec

-----------------------------------------------------------------------------
\* What is connected is what is bound.
Bound ==
    \A n \in Notifications :
        IF Exists(n) THEN m_reciver[n] = connected[n] ELSE connected[n] = Null

\* Only a running thread is in a call, and only of a Notification there is.
Placed ==
    \A t \in Threads : call[t].step # "out" =>
        t \in running /\ call[t].n \in Notifications /\ Exists(call[t].n)

\* While a thread runs, what is connected lives.
Kept == running # {} => \A n \in Notifications : connected[n] \in live \cup {Null}

\* Whom a call has reached so far.
Reached ==
    \A t \in Threads :
        LET r == connected[call[t].n] IN
        /\ call[t].step = "call" => r # Null /\ call[t].heard = <<>>
        /\ call[t].step = "inside" => r # Null /\ call[t].heard = <<r>>

IInv == TypeOK /\ NoFault /\ Bound /\ Placed /\ Kept /\ Reached /\ Delivered

LEMMA InitIInv == Init => IInv
<1> SUFFICES ASSUME Init PROVE IInv
  OBVIOUS
<1>1. TypeOK
  BY TypeInit
<1>2. \A t \in Threads : call[t].step = "out"
  BY DEF Init, NoCall
<1> QED
  BY <1>1, <1>2 DEF Init, IInv, NoFault, Bound, Placed, Kept, Reached, Delivered, Exists

(* A step of the owner: no thread runs, so no call is in progress.          *)
LEMMA OwnerKeepsIInv ==
  ASSUME Careless = {}, IInv, TypeOK', OwnerStep
  PROVE  IInv'
<1> USE NotificationAssumption DEF IInv, NoFault, Bound, Placed, Exists
<1>1. UNCHANGED <<running, call>>
  BY DEF OwnerStep, Construct, Destroy, connect, MoveConstruct, Create, Release
<1>2. ASSUME NEW r \in Receivers, Create(r) PROVE IInv'
  BY <1>1, <1>2 DEF Create, Kept, Reached, Delivered
<1>3. CASE running = {}
  <2>1. \A t \in Threads : call[t].step = "out"
    BY <1>3
  <2>2. Placed' /\ Kept' /\ Reached' /\ Delivered'
    BY <1>1, <1>3, <2>1 DEF Kept, Reached, Delivered
  <2>3. \A n \in Notifications : ~InNotify(n)
    BY <2>1 DEF InNotify
  <2>4. ASSUME NEW n \in Notifications, Construct(n) \/ Destroy(n) PROVE Bound' /\ NoFault'
    BY <2>3, <2>4 DEF Construct, Destroy, Bind, TypeOK
  <2>5. ASSUME NEW n \in Notifications, NEW r \in Receivers, connect(n, r)
        PROVE  Bound' /\ NoFault'
    BY <2>3, <2>5 DEF connect, Bind, TypeOK
  <2>6. ASSUME NEW n \in Notifications, NEW rhs \in Notifications, MoveConstruct(n, rhs)
        PROVE  Bound' /\ NoFault'
    <3>1. n # rhs /\ connected[rhs] # Gone
      BY <2>6 DEF MoveConstruct, TypeOK
    <3>2. \A m \in Notifications :
            /\ m_reciver'[m] = IF m = rhs THEN Null ELSE IF m = n THEN m_reciver[rhs]
                                                        ELSE m_reciver[m]
            /\ connected'[m] = IF m = rhs THEN Null ELSE IF m = n THEN connected[rhs]
                                                        ELSE connected[m]
      BY <2>6, <3>1 DEF MoveConstruct, MovedFrom, TypeOK
    <3>3. /\ ~Exists(n) /\ m_reciver[rhs] = connected[rhs] /\ Exists(rhs)
          /\ UNCHANGED running /\ fault' = fault
      BY <2>3, <2>6 DEF MoveConstruct, TypeOK
    <3>4. ASSUME NEW m \in Notifications
          PROVE  IF m_reciver'[m] # Gone THEN m_reciver'[m] = connected'[m]
                                         ELSE connected'[m] = Null
      BY <3>1, <3>2, <3>3
    <3> QED
      BY <3>3, <3>4
  <2>7. ASSUME NEW r \in Receivers, Create(r) \/ Release(r) PROVE Bound' /\ NoFault'
    <3>1. UNCHANGED <<m_reciver, connected>>
      BY <2>7 DEF Create, Release
    <3>2. ~fault'
      BY <2>1, <2>7 DEF Create, Release, TypeOK
    <3> QED
      BY <3>1, <3>2
  <2> QED
    BY <2>2, <2>4, <2>5, <2>6, <2>7 DEF OwnerStep
<1> QED
  BY <1>2, <1>3 DEF OwnerStep, Construct, Destroy, connect, MoveConstruct, Release, Quiet, Careful

(* A step of a thread: it changes its own call, and nothing that is bound.  *)
LEMMA ThreadKeepsIInv ==
  ASSUME Careless = {}, IInv, TypeOK', NEW t \in Threads, ThreadStep(t)
  PROVE  IInv'
<1> USE NotificationAssumption DEF IInv, NoFault, Bound, Placed, Kept, Exists
<1>1. UNCHANGED <<m_reciver, live, connected>>
  BY DEF ThreadStep, Start, End, notify, Enter, Leave, Return
<1>2. Bound'
  BY <1>1
<1>3. CASE Start(t)
  BY <1>1, <1>2, <1>3 DEF Start, Sound, Careful, Reached, Delivered
<1>4. CASE End(t)
  BY <1>1, <1>2, <1>4 DEF End, Reached, Delivered
<1>5. ASSUME NEW c \in Calls, call' = [call EXCEPT ![t] = c], UNCHANGED <<running, fault>>,
             c.step # "out" => t \in running /\ c.n \in Notifications /\ Exists(c.n),
             LET r == connected[c.n] IN
                /\ c.step = "call" => r # Null /\ c.heard = <<>>
                /\ c.step = "inside" => r # Null /\ c.heard = <<r>>
                /\ c.step = "return" =>
                    /\ c.heard = IF r = Null THEN <<>> ELSE <<r>>
                    /\ c.ret = IF r = Null \/ c.reply = "throw" THEN FAILURE ELSE c.reply
      PROVE  IInv'
  <2>1. \A u \in Threads : call'[u] = IF u = t THEN c ELSE call[u]
    BY <1>5 DEF TypeOK
  <2>2. Placed' /\ Kept' /\ NoFault'
    BY <1>1, <1>5, <2>1
  <2>3. Reached' /\ Delivered'
    BY <1>1, <1>5, <2>1 DEF Reached, Delivered
  <2> QED
    BY <1>2, <2>2, <2>3
<1>6. ASSUME NEW n \in Notifications, notify(t, n) PROVE IInv'
  <2> DEFINE c == [NoCall(n) EXCEPT !.step = IF m_reciver[n] # Null THEN "call" ELSE "return",
                                    !.ret = NotHeard]
  <2>1. c \in Calls
    BY <1>6 DEF notify, TypeOK
  <2>2. /\ c.n = n /\ c.heard = <<>> /\ c.ret = FAILURE
        /\ c.step = IF m_reciver[n] # Null THEN "call" ELSE "return"
    BY DEF NoCall, NotHeard
  <2>3. call' = [call EXCEPT ![t] = c] /\ UNCHANGED <<running, fault>>
    BY <1>6 DEF notify
  <2>4. t \in running /\ m_reciver[n] = connected[n] /\ Exists(n)
    BY <1>6 DEF notify
  <2> HIDE DEF c
  <2> QED
    BY <1>5, <2>1, <2>2, <2>3, <2>4
<1>7. CASE Enter(t)
  <2> DEFINE r == m_reciver[call[t].n]
             c == [call[t] EXCEPT !.step = "inside", !.heard = Append(call[t].heard, r)]
  <2>1. call[t].n \in Notifications /\ Exists(call[t].n) /\ t \in running
    BY <1>7 DEF Enter
  <2>2. r = connected[call[t].n] /\ r # Null /\ call[t].heard = <<>> /\ r \in live
    BY <1>7, <2>1 DEF Enter, Reached
  <2>3. r \in Receivers
    BY <2>2 DEF TypeOK
  <2>4. call' = [call EXCEPT ![t] = c] /\ UNCHANGED <<running, fault>>
    <3> DEFINE d == IF r \in Receivers THEN c ELSE [call[t] EXCEPT !.step = "return"]
    <3>1. call' = [call EXCEPT ![t] = d]
      BY <1>7 DEF Enter
    <3>2. d = c
      BY <2>3
    <3>3. UNCHANGED <<running, fault>>
      <4>1. fault' = (fault \/ r \notin live \cup {Null}) /\ UNCHANGED running
        BY <1>7 DEF Enter
      <4> QED
        BY <2>2, <4>1 DEF TypeOK
    <3> HIDE DEF c, d
    <3> QED
      BY <3>1, <3>2, <3>3
  <2>5. c.step = "inside" /\ c.n = call[t].n /\ c.heard = <<r>>
    BY <2>2 DEF TypeOK, Calls
  <2>6. c \in Calls
    BY <2>4 DEF TypeOK
  <2> HIDE DEF c
  <2> QED
    BY <1>5, <2>1, <2>2, <2>4, <2>5, <2>6
<1>8. CASE Leave(t)
  <2>1. PICK reply \in Results \cup {"throw"} :
          call' = [call EXCEPT ![t] = [@ EXCEPT !.step = "return", !.ret = Caught(reply),
                                                 !.reply = reply]]
    BY <1>8 DEF Leave
  <2> DEFINE c == [call[t] EXCEPT !.step = "return", !.ret = Caught(reply), !.reply = reply]
  <2>2. call[t].step = "inside" /\ call' = [call EXCEPT ![t] = c] /\ UNCHANGED <<running, fault>>
    BY <1>8, <2>1 DEF Leave
  <2>3. c \in Calls
    BY <2>2 DEF TypeOK
  <2>4. /\ c.step = "return" /\ c.n = call[t].n /\ c.heard = call[t].heard
        /\ c.reply = reply /\ c.ret = IF reply = "throw" THEN FAILURE ELSE reply
    BY DEF TypeOK, Calls, Caught, NotHeard
  <2> HIDE DEF c
  <2> QED
    BY <1>5, <2>2, <2>3, <2>4 DEF Reached
<1>9. CASE Return(t)
  <2>1. NoCall(Null) \in Calls /\ NoCall(Null).step = "out"
    BY NoCallType DEF NoCall
  <2>2. call' = [call EXCEPT ![t] = NoCall(Null)] /\ UNCHANGED <<running, fault>>
    BY <1>9 DEF Return
  <2> QED
    BY <1>5, <2>1, <2>2
<1> QED
  BY <1>3, <1>4, <1>6, <1>7, <1>8, <1>9 DEF ThreadStep

(* A careful owner keeps the whole invariant.                               *)
THEOREM Invariance == ASSUME Careless = {} PROVE Spec => []IInv
<1>1. IInv /\ TypeOK' /\ [Next]_vars => IInv'
  <2> SUFFICES ASSUME IInv, TypeOK', [Next]_vars PROVE IInv'
    OBVIOUS
  <2>1. CASE UNCHANGED vars
    BY <2>1 DEF vars, IInv, TypeOK, NoFault, Bound, Placed, Kept, Reached, Delivered, Exists
  <2> QED
    BY <2>1, OwnerKeepsIInv, ThreadKeepsIInv DEF Next
<1> QED
  BY <1>1, InitIInv, TypeCorrect, PTL DEF Spec

(* For a careful owner no receiver is called after its end and no function  *)
(* is replaced while it is called.                                          *)
THEOREM CarefulIsSafe == ASSUME Careless = {} PROVE Spec => []NoFault
<1>1. IInv => NoFault
  BY DEF IInv
<1> QED
  BY <1>1, Invariance, PTL

(* Each notify reaches the receiver that was connected last, once, and      *)
(* answers as it did.                                                       *)
THEOREM NotifyDelivers == ASSUME Careless = {} PROVE Spec => []Delivered
<1>1. IInv => Delivered
  BY DEF IInv
<1> QED
  BY <1>1, Invariance, PTL
=============================================================================

-------------------------- MODULE HandshakeProofs ---------------------------
(* Theorems about Handshake, for any number of rounds and any lengths: its  *)
(* types, and that it implements HandOver.                                  *)
EXTENDS Handshake, SequenceTheorems, TLAPS

Bytes == Nat \X Nat

Stages == {"unborn", "loop", "wait", "test", "transfer", "hand", "end"}
Mains == {"connect", "join writer", "join reader", "disconnect", "end"}
Quiet == {"unborn", "end"}
Body == {"wait", "test", "transfer", "hand"}
Granted == {"test", "transfer", "hand"}

\* The message that is handed over or comes next.
Current == Len(received) + 1

-----------------------------------------------------------------------------
(* The inductive invariant.                                                 *)

Typed ==
    /\ done \in BOOLEAN /\ truncated \in BOOLEAN
    /\ lc \in [Threads -> Nat]
    /\ pc \in [Threads -> Stages]
    /\ main \in Mains
    /\ connected \subseteq Threads
    /\ put \in Nat
    /\ line \in Seq(Bytes) /\ ddd \in Seq(Bytes)
    /\ received \in Seq(Seq(Bytes))

\* Threads start when both ports are connected, and main waits for them.
Joined ==
    /\ main = "connect" => \A t \in Threads : pc[t] = "unborn"
    /\ main = "join reader" => pc["writer"] \in Quiet
    /\ main \in {"disconnect", "end"} => \A t \in Threads : pc[t] \in Quiet
    /\ \A t \in Threads : pc[t] \in Quiet \/ connected = Threads

\* No side hands over more messages than it has begun rounds.
Rounds ==
    /\ put <= lc["writer"] /\ put <= LOOP_MAX
    /\ lc["writer"] <= LOOP_MAX + 1
    /\ pc["writer"] # "end" => lc["writer"] <= LOOP_MAX
    /\ pc["writer"] \in Body => put + 1 <= lc["writer"]
    /\ Len(received) <= lc["reader"] /\ lc["reader"] <= LOOP_MAX
    /\ pc["reader"] # "end" => lc["reader"] <= LOOP_MAX - 1
    /\ pc["reader"] \in Body => Len(received) + 1 <= lc["reader"]

\* The flag tells whose turn it is, and how many messages have been put.
Turns ==
    /\ pc["writer"] \in Granted => ~done
    /\ pc["reader"] \in Granted => done
    /\ done => put = Current
    /\ ~done => put = Len(received) /\ ddd = <<>>

\* What has been collected and what is on the line are, one after the other,
\* the first bytes of the current message; the terminator is never collected.
Pieces ==
    /\ Len(ddd) + Len(line) <= Length /\ Len(ddd) <= Length - 1
    /\ \A i \in 1..Len(ddd) : ddd[i] = <<Current, i>>
    /\ \A i \in 1..Len(line) : line[i] = <<Current, Len(ddd) + i>>

\* The line is empty until the message is written and after it is read.
Emptied ==
    /\ ~done /\ pc["writer"] # "hand" => line = <<>>
    /\ pc["reader"] = "hand" => line = <<>> /\ Len(ddd) = Length - 1

IInv == Typed /\ Joined /\ Rounds /\ Turns /\ Pieces /\ Emptied

-----------------------------------------------------------------------------
(* Sequences of bytes.                                                      *)

LEMMA SubFacts ==
  ASSUME NEW s \in Seq(Bytes), NEW m \in 0..Len(s)
  PROVE  /\ SubSeq(s, 1, m) \in Seq(Bytes) /\ Len(SubSeq(s, 1, m)) = m
         /\ \A i \in 1..m : SubSeq(s, 1, m)[i] = s[i]
OBVIOUS

LEMMA RestFacts ==
  ASSUME NEW s \in Seq(Bytes), NEW m \in 0..Len(s)
  PROVE  LET t == SubSeq(s, m + 1, Len(s)) IN
         /\ t \in Seq(Bytes) /\ Len(t) = Len(s) - m
         /\ \A i \in 1..Len(s) - m : t[i] = s[m + i]
OBVIOUS

LEMMA CatFacts ==
  ASSUME NEW s \in Seq(Bytes), NEW t \in Seq(Bytes)
  PROVE  /\ s \o t \in Seq(Bytes) /\ Len(s \o t) = Len(s) + Len(t)
         /\ \A i \in 1..Len(s) : (s \o t)[i] = s[i]
         /\ \A i \in 1..Len(t) : (s \o t)[Len(s) + i] = t[i]
OBVIOUS

\* The bytes of a message.
LEMMA WireFacts ==
  ASSUME NEW n \in Nat
  PROVE  /\ H!Wire(n) \in Seq(Bytes) /\ Len(H!Wire(n)) = Length
         /\ \A i \in 1..Length : H!Wire(n)[i] = <<n, i>>
BY HandshakeAssumption DEF H!Wire, Bytes

LEMMA BodyFacts ==
  ASSUME NEW n \in Nat
  PROVE  /\ H!Body(n) \in Seq(Bytes) /\ Len(H!Body(n)) = Length - 1
         /\ \A i \in 1..Length - 1 : H!Body(n)[i] = <<n, i>>
<1>1. Length - 1 \in 0..Len(H!Wire(n))
  BY WireFacts, HandshakeAssumption
<1> QED
  BY <1>1, WireFacts, SubFacts, HandshakeAssumption DEF H!Body

\* What has no terminator is collected whole.
LEMMA WholeFacts ==
  ASSUME NEW s, ~Ends(s)
  PROVE  UpToTerminator(s) = s
BY DEF Ends, UpToTerminator

\* What ends with its only terminator is collected but for that.
LEMMA LastFacts ==
  ASSUME NEW s \in Seq(Bytes), s # <<>>, Terminators(s) = {Len(s)}
  PROVE  UpToTerminator(s) = SubSeq(s, 1, Len(s) - 1)
<1>1. Len(s) \in Nat
  OBVIOUS
<1>2. Min({Len(s)}) = Len(s)
  BY <1>1 DEF Min
<1> QED
  BY <1>2 DEF UpToTerminator

-----------------------------------------------------------------------------
(* The initial states, and what the invariant says.                         *)

LEMMA InitIInv == Init => IInv
<1> SUFFICES ASSUME Init PROVE IInv
  OBVIOUS
<1> USE HandshakeAssumption DEF Init
<1>1. <<>> \in Seq(Bytes) /\ <<>> \in Seq(Seq(Bytes)) /\ Len(<<>>) = 0
  OBVIOUS
<1>2. Typed
  BY <1>1 DEF Typed, Threads, Stages, Mains
<1>3. Joined
  BY DEF Joined, Threads, Quiet
<1>4. Rounds
  BY <1>1 DEF Rounds, Threads, Body
<1>5. Turns
  BY <1>1 DEF Turns, Threads, Granted
<1>6. Pieces
  BY <1>1 DEF Pieces
<1>7. Emptied
  BY DEF Emptied, Threads
<1> QED
  BY <1>2, <1>3, <1>4, <1>5, <1>6, <1>7 DEF IInv

LEMMA IInvTypeOK == IInv => TypeOK
<1> SUFFICES ASSUME IInv PROVE TypeOK
  OBVIOUS
<1> USE HandshakeAssumption DEF IInv
<1>1. lc["writer"] \in 0..LOOP_MAX + 1 /\ lc["reader"] \in 0..LOOP_MAX
  BY DEF Typed, Rounds, Threads
<1>2. lc \in [Threads -> 0..LOOP_MAX + 1] /\ lc["reader"] <= LOOP_MAX
  BY <1>1 DEF Typed, Threads
<1>3. put \in 0..LOOP_MAX
  BY DEF Typed, Rounds
<1>4. Len(line) <= Length
  BY DEF Typed, Pieces
<1>5. \A i \in DOMAIN line : line[i][1] \in 1..LOOP_MAX
  <2> SUFFICES ASSUME NEW i \in 1..Len(line) PROVE line[i][1] \in 1..LOOP_MAX
    BY DEF Typed
  <2>1. line[i][1] = Current
    BY DEF Pieces
  <2>2. done \/ pc["writer"] = "hand"
    BY DEF Typed, Emptied
  <2>3. Current \in 1..LOOP_MAX
    <3>1. CASE done
      BY <3>1 DEF Typed, Turns, Rounds, Current
    <3>2. CASE ~done /\ pc["writer"] = "hand"
      <4>1. put = Len(received) /\ put + 1 <= lc["writer"] /\ lc["writer"] <= LOOP_MAX
        BY <3>2 DEF Turns, Rounds, Body
      <4> QED
        BY <4>1, <1>1, <1>3 DEF Current
    <3> QED
      BY <2>2, <3>1, <3>2
  <2> QED
    BY <2>1, <2>3
<1> QED
  BY <1>2, <1>3, <1>4, <1>5 DEF Typed, Joined, TypeOK, Threads, Stages, Mains, Quiet

-----------------------------------------------------------------------------
(* Each step preserves the invariant. The steps of main and of a round      *)
(* leave the messages alone.                                                *)

Messages == <<done, line, ddd, put, received, truncated>>

\* A step that leaves the messages alone, and takes no thread to or from a
\* place that says something of them, keeps what is said of them.
LEMMA MessagesKept ==
  ASSUME IInv, UNCHANGED Messages,
         pc'["writer"] \in Granted => ~done,
         pc'["reader"] \in Granted => done,
         pc["writer"] = "hand" => pc'["writer"] = "hand",
         pc'["reader"] = "hand" => pc["reader"] = "hand"
  PROVE  Turns' /\ Pieces' /\ Emptied'
<1>1. Turns'
  BY DEF IInv, Messages, Turns, Current
<1>2. Pieces'
  BY DEF IInv, Messages, Pieces, Current
<1>3. Emptied'
  BY DEF IInv, Messages, Emptied
<1> QED
  BY <1>1, <1>2, <1>3

LEMMA ConnectStep == ASSUME IInv, Connect PROVE IInv'
<1> USE DEF IInv
<1>1. Typed'
  BY DEF Typed, Connect, Threads, Stages, Mains
<1>2. \A t \in Threads : pc[t] = "unborn" /\ pc'[t] \in {"unborn", "loop"}
  BY DEF Typed, Joined, Connect, Threads
<1>3. Joined'
  BY <1>2 DEF Joined, Connect, Threads, Quiet
<1>4. Rounds'
  BY <1>2 DEF Rounds, Connect, Threads, Body
<1>5. Turns' /\ Pieces' /\ Emptied'
  <2>1. UNCHANGED Messages
    BY DEF Connect, Messages
  <2> QED
    BY <1>2, <2>1, MessagesKept DEF Threads, Granted
<1> QED
  BY <1>1, <1>3, <1>4, <1>5

LEMMA MainStep == ASSUME IInv, Join \/ Disconnect PROVE IInv'
<1> USE DEF IInv
<1>1. UNCHANGED Messages /\ UNCHANGED <<lc, pc>>
  BY DEF Join, Disconnect, Messages
<1>2. Typed'
  BY <1>1 DEF Typed, Join, Disconnect, Messages, Mains
<1>3. Joined'
  BY <1>1 DEF Joined, Join, Disconnect, At, Threads, Quiet
<1>4. Rounds'
  BY <1>1 DEF Rounds, Messages
<1>5. Turns' /\ Pieces' /\ Emptied'
  BY <1>1, MessagesKept DEF Turns
<1> QED
  BY <1>2, <1>3, <1>4, <1>5

\* A thread that runs goes on where it goes, and nothing else is said to stop.
LEMMA JoinedKept ==
  ASSUME IInv, NEW t \in Threads, pc[t] \notin Quiet, UNCHANGED <<main, connected>>,
         NEW l \in Stages, pc' = [pc EXCEPT ![t] = l]
  PROVE  Joined'
<1>1. main \notin {"connect", "disconnect", "end"}
  BY DEF IInv, Joined, Quiet
<1>2. connected = Threads
  BY DEF IInv, Joined
<1>3. main = "join reader" => t # "writer"
  BY DEF IInv, Joined
<1> QED
  BY <1>1, <1>2, <1>3 DEF IInv, Typed, Joined, Threads

LEMMA LoopStep == ASSUME IInv, NEW t \in Threads, Loop(t) PROVE IInv'
<1> USE HandshakeAssumption DEF IInv
<1> DEFINE l == IF HasRound(t) THEN "wait" ELSE "end"
<1>1. /\ pc[t] = "loop" /\ pc' = [pc EXCEPT ![t] = l] /\ lc' = [lc EXCEPT ![t] = @ + 1]
      /\ UNCHANGED Messages /\ UNCHANGED <<main, connected>>
  BY DEF Loop, At, Goto, Messages
<1>2. l \in {"wait", "end"}
  OBVIOUS
<1>3. Typed'
  BY <1>1, <1>2 DEF Typed, Messages, Threads, Stages
<1>4. Joined'
  <2>1. pc[t] \notin Quiet /\ l \in Stages
    BY <1>1, <1>2 DEF Quiet, Stages
  <2> HIDE DEF l
  <2> QED
    BY <1>1, <2>1, JoinedKept
<1>5. Rounds'
  <2>1. CASE t = "writer"
    <3>1. /\ lc'["writer"] = lc["writer"] + 1 /\ lc'["reader"] = lc["reader"]
          /\ pc'["writer"] = l /\ pc'["reader"] = pc["reader"]
      BY <1>1, <2>1 DEF Typed, Threads
    <3>2. l = "wait" => lc["writer"] < LOOP_MAX
      BY <2>1 DEF HasRound
    <3>3. lc["writer"] <= LOOP_MAX
      BY <1>1, <2>1 DEF Rounds
    <3> QED
      BY <1>1, <1>2, <3>1, <3>2, <3>3 DEF Typed, Rounds, Messages, Threads, Body
  <2>2. CASE t = "reader"
    <3>1. /\ lc'["reader"] = lc["reader"] + 1 /\ lc'["writer"] = lc["writer"]
          /\ pc'["reader"] = l /\ pc'["writer"] = pc["writer"]
      BY <1>1, <2>2 DEF Typed, Threads
    <3>2. l = "wait" => lc["reader"] + 1 # LOOP_MAX
      BY <2>2 DEF HasRound
    <3>3. lc["reader"] <= LOOP_MAX - 1 /\ Len(received) <= lc["reader"]
      BY <1>1, <2>2 DEF Rounds
    <3>4. lc["reader"] \in Nat /\ Len(received) \in Nat
      BY DEF Typed, Threads
    <3>5. /\ Len(received) <= lc'["reader"] /\ lc'["reader"] <= LOOP_MAX
          /\ pc'["reader"] # "end" => lc'["reader"] <= LOOP_MAX - 1
          /\ Len(received) + 1 <= lc'["reader"]
      BY <1>2, <3>1, <3>2, <3>3, <3>4
    <3> QED
      BY <1>1, <3>1, <3>5 DEF Rounds, Messages
  <2> QED
    BY <2>1, <2>2 DEF Threads
<1>6. Turns' /\ Pieces' /\ Emptied'
  <2>1. \A u \in Threads : pc'[u] = pc[u] \/ (pc[u] = "loop" /\ pc'[u] \in {"wait", "end"})
    BY <1>1, <1>2 DEF Typed, Threads
  <2> QED
    BY <1>1, <2>1, MessagesKept DEF Turns, Threads, Granted
<1> QED
  BY <1>3, <1>4, <1>5, <1>6

LEMMA LookStep == ASSUME IInv, NEW t \in Threads, Wait(t) \/ Test(t) PROVE IInv'
<1> USE HandshakeAssumption DEF IInv
<1>1. PICK l \in {"test", "transfer", "loop"} :
        /\ pc[t] \in {"wait", "test"} /\ pc' = [pc EXCEPT ![t] = l]
        /\ l # "loop" => Turn(t)
        /\ UNCHANGED Messages /\ UNCHANGED <<lc, main, connected>>
  BY DEF Wait, Test, At, Goto, Messages
<1>2. Typed'
  BY <1>1 DEF Typed, Messages, Threads, Stages
<1>3. Joined'
  <2>1. pc[t] \notin Quiet /\ l \in Stages
    BY <1>1 DEF Quiet, Stages
  <2> QED
    BY <1>1, <2>1, JoinedKept
<1>4. \A u \in Threads : pc'[u] = pc[u] \/ (u = t /\ pc'[u] = l)
  BY <1>1 DEF Typed, Threads
<1>5. Rounds'
  <2>1. pc[t] \in Body /\ pc[t] # "end"
    BY <1>1 DEF Body
  <2>2. pc'["writer"] \in Body => pc["writer"] \in Body
    BY <1>4, <2>1 DEF Threads
  <2>3. pc'["reader"] \in Body => pc["reader"] \in Body
    BY <1>4, <2>1 DEF Threads
  <2>4. /\ pc'["writer"] # "end" => pc["writer"] # "end"
        /\ pc'["reader"] # "end" => pc["reader"] # "end"
    BY <1>4, <2>1 DEF Threads
  <2> QED
    BY <1>1, <2>2, <2>3, <2>4 DEF Rounds, Messages
<1>6. Turns' /\ Pieces' /\ Emptied'
  <2>1. pc'["writer"] \in Granted => ~done
    BY <1>1, <1>4 DEF Turns, Threads, Granted, Turn, value
  <2>2. pc'["reader"] \in Granted => done
    BY <1>1, <1>4 DEF Turns, Threads, Granted, Turn, value, Typed
  <2>3. /\ pc["writer"] = "hand" => pc'["writer"] = "hand"
        /\ pc'["reader"] = "hand" => pc["reader"] = "hand"
    BY <1>1, <1>4 DEF Threads
  <2> QED
    BY <1>1, <2>1, <2>2, <2>3, MessagesKept
<1> QED
  BY <1>2, <1>3, <1>5, <1>6

\* The message is written, or the first of its bytes.
LEMMA WriteStep == ASSUME IInv, Write PROVE IInv'
<1> USE HandshakeAssumption DEF IInv
<1> DEFINE w == H!Wire(put + 1)
<1>1. PICK n \in 0..Len(w) :
        /\ line' = line \o SubSeq(w, 1, n)
        /\ truncated' = (truncated \/ n < Len(w))
  BY DEF Write, write
<1>2. /\ pc["writer"] = "transfer" /\ pc' = [pc EXCEPT !["writer"] = "hand"]
      /\ UNCHANGED <<done, ddd, put, received>> /\ UNCHANGED <<lc, main, connected>>
  BY DEF Write, At, Goto
<1>3. ~done /\ put = Len(received) /\ ddd = <<>> /\ line = <<>>
  BY <1>2 DEF Turns, Emptied, Granted
<1>4. put \in Nat /\ w \in Seq(Bytes) /\ Len(w) = Length
  BY WireFacts DEF Typed
<1>5. \A i \in 1..Length : w[i] = <<Current, i>>
  BY <1>3, <1>4, WireFacts DEF Current
<1>6. /\ SubSeq(w, 1, n) \in Seq(Bytes) /\ Len(SubSeq(w, 1, n)) = n
      /\ \A i \in 1..n : SubSeq(w, 1, n)[i] = w[i]
  <2> HIDE DEF w
  <2> QED
    BY <1>4, SubFacts
<1> HIDE DEF w
<1>7. line' = SubSeq(w, 1, n)
  BY <1>1, <1>3, <1>6
<1>8. Typed'
  BY <1>1, <1>2, <1>6, <1>7 DEF Typed, Threads, Stages
<1>9. Joined'
  <2>1. pc["writer"] \notin Quiet /\ "hand" \in Stages /\ "writer" \in Threads
    BY <1>2 DEF Quiet, Stages, Threads
  <2> QED
    BY <1>2, <2>1, JoinedKept
<1>10. pc'["writer"] = "hand" /\ pc'["reader"] = pc["reader"]
  BY <1>2 DEF Typed, Threads
<1>11. Rounds'
  BY <1>2, <1>10 DEF Rounds, Body
<1>12. Turns'
  BY <1>2, <1>3, <1>10 DEF Turns, Current, Granted
<1>13. Pieces'
  <2>1. Len(ddd') = 0 /\ n <= Length
    BY <1>2, <1>3, <1>4
  <2>2. \A i \in 1..Len(line') : line'[i] = <<Current, 0 + i>>
    BY <1>4, <1>5, <1>6, <1>7
  <2> QED
    BY <1>2, <1>4, <1>6, <1>7, <2>1, <2>2 DEF Pieces, Current
<1>14. Emptied'
  BY <1>2, <1>3, <1>10 DEF Emptied, Turns, Granted
<1> QED
  BY <1>8, <1>9, <1>11, <1>12, <1>13, <1>14

\* A piece is read. It ends with the terminator or holds none: the bytes on
\* the line follow those that were collected, up to the message's end.
LEMMA ReadStep == ASSUME IInv, Read PROVE IInv'
<1> USE HandshakeAssumption DEF IInv
<1> DEFINE chunk(n) == SubSeq(line, 1, n)
<1>1. PICK n \in 1..Len(line) :
        /\ line' = SubSeq(line, n + 1, Len(line))
        /\ ddd' = ddd \o UpToTerminator(chunk(n))
        /\ Goto("reader", IF Ends(chunk(n)) THEN "hand" ELSE "transfer")
  BY DEF Read, read
<1> DEFINE c == chunk(n)
<1>2. /\ pc["reader"] = "transfer"
      /\ UNCHANGED <<done, put, received, truncated>> /\ UNCHANGED <<lc, main, connected>>
  BY DEF Read, At
<1>3. done /\ put = Current /\ pc["writer"] \notin Granted
  BY <1>2 DEF Turns, Granted
<1>4. line \in Seq(Bytes) /\ ddd \in Seq(Bytes) /\ n \in 0..Len(line)
  BY DEF Typed
<1>5. /\ c \in Seq(Bytes) /\ Len(c) = n
      /\ \A i \in 1..n : c[i] = line[i]
  BY <1>4, SubFacts
<1>6. /\ line' \in Seq(Bytes) /\ Len(line') = Len(line) - n
      /\ \A i \in 1..Len(line) - n : line'[i] = line[n + i]
  BY <1>1, <1>4, RestFacts
<1>7. \A i \in 1..n : c[i] = <<Current, Len(ddd) + i>>
  BY <1>4, <1>5 DEF Pieces
<1>8. /\ pc' = [pc EXCEPT !["reader"] = IF Ends(c) THEN "hand" ELSE "transfer"]
      /\ ddd' = ddd \o UpToTerminator(c)
  BY <1>1 DEF Goto
<1> HIDE DEF c
<1>9. Terminators(c) = {i \in 1..n : Len(ddd) + i = Length}
  BY <1>5, <1>7 DEF Terminators, H!Terminator
<1>10. Len(ddd) + Len(line) <= Length /\ Len(ddd) \in Nat /\ Len(line) \in Nat
  BY <1>4 DEF Pieces
<1>11. pc'["reader"] = (IF Ends(c) THEN "hand" ELSE "transfer") /\ pc'["writer"] = pc["writer"]
  BY <1>8 DEF Typed, Threads
\* What is collected: all of the piece, or all but the terminator.
<1>12. PICK k \in 0..n :
         /\ UpToTerminator(c) = SubSeq(c, 1, k)
         /\ Ends(c) => k = n - 1 /\ Len(ddd) + n = Length /\ n = Len(line)
         /\ ~Ends(c) => k = n /\ Len(ddd) + n # Length
  <2>1. CASE Ends(c)
    <3>1. PICK i \in 1..n : Len(ddd) + i = Length
      BY <1>9, <2>1 DEF Ends
    <3>2. i = n /\ n = Len(line)
      BY <1>4, <1>10, <3>1
    <3>3. Terminators(c) = {Len(c)}
      BY <1>5, <1>9, <1>10, <3>1, <3>2
    <3>4. UpToTerminator(c) = SubSeq(c, 1, n - 1)
      BY <1>5, <3>3, LastFacts
    <3>5. n - 1 \in 0..n
      BY <1>4
    <3> QED
      BY <2>1, <3>1, <3>2, <3>4, <3>5
  <2>2. CASE ~Ends(c)
    <3>1. UpToTerminator(c) = c
      BY <2>2, WholeFacts
    <3>2. c = SubSeq(c, 1, n)
      BY <1>5
    <3>3. n \in 0..n /\ n \in 1..n
      BY <1>4
    <3>4. Len(ddd) + n # Length
      BY <1>9, <2>2, <3>3 DEF Ends
    <3> QED
      BY <2>2, <3>1, <3>2, <3>3, <3>4
  <2> QED
    BY <2>1, <2>2
<1> DEFINE d == SubSeq(c, 1, k)
<1>13. d \in Seq(Bytes) /\ Len(d) = k /\ \A i \in 1..k : d[i] = c[i]
  BY <1>5, <1>12, SubFacts
<1>14. ddd' = ddd \o d
  BY <1>8, <1>12
<1> HIDE DEF d
<1>15. /\ ddd' \in Seq(Bytes) /\ Len(ddd') = Len(ddd) + k
       /\ \A i \in 1..Len(ddd) : ddd'[i] = ddd[i]
       /\ \A i \in 1..k : ddd'[Len(ddd) + i] = d[i]
  BY <1>4, <1>13, <1>14, CatFacts
<1>16. Typed'
  BY <1>2, <1>6, <1>8, <1>15 DEF Typed, Threads, Stages
<1>17. Joined'
  <2>1. /\ pc["reader"] \notin Quiet /\ "reader" \in Threads
        /\ (IF Ends(c) THEN "hand" ELSE "transfer") \in Stages
    BY <1>2 DEF Quiet, Stages, Threads
  <2> QED
    BY <1>2, <1>8, <2>1, JoinedKept
<1>18. Rounds'
  BY <1>2, <1>11 DEF Rounds, Body
<1>19. Turns'
  BY <1>2, <1>3, <1>11 DEF Turns, Current
<1>20. Pieces'
  <2>1. Current' = Current
    BY <1>2 DEF Current
  <2>2. Len(ddd') + Len(line') <= Length /\ Len(ddd') <= Length - 1
    BY <1>4, <1>6, <1>10, <1>12, <1>15
  <2>3. \A i \in 1..Len(ddd') : ddd'[i] = <<Current, i>>
    <3> SUFFICES ASSUME NEW i \in 1..Len(ddd') PROVE ddd'[i] = <<Current, i>>
      OBVIOUS
    <3>1. CASE i <= Len(ddd)
      <4>1. i \in 1..Len(ddd)
        BY <1>10, <3>1
      <4>2. ddd'[i] = ddd[i]
        BY <1>15, <4>1
      <4>3. ddd[i] = <<Current, i>>
        BY <4>1 DEF Pieces
      <4> QED
        BY <4>2, <4>3
    <3>2. CASE i > Len(ddd)
      <4> DEFINE j == i - Len(ddd)
      <4>1. j \in 1..k /\ j \in 1..n /\ i = Len(ddd) + j
        BY <1>4, <1>10, <1>12, <1>15, <3>2
      <4> HIDE DEF j
      <4> QED
        BY <1>7, <1>13, <1>15, <4>1
    <3> QED
      BY <1>10, <1>15, <3>1, <3>2
  <2>4. \A i \in 1..Len(line') : line'[i] = <<Current, Len(ddd') + i>>
    <3> SUFFICES ASSUME NEW i \in 1..Len(line') PROVE line'[i] = <<Current, Len(ddd') + i>>
      OBVIOUS
    <3>1. ~Ends(c)
      BY <1>6, <1>10, <1>12
    <3>2. Len(ddd') + i = Len(ddd) + (n + i) /\ n + i \in 1..Len(line)
      BY <1>4, <1>6, <1>10, <1>12, <1>15, <3>1
    <3>3. line'[i] = line[n + i]
      BY <1>6
    <3>4. line[n + i] = <<Current, Len(ddd) + (n + i)>>
      BY <3>2 DEF Pieces
    <3> QED
      BY <3>2, <3>3, <3>4
  <2> QED
    BY <2>1, <2>2, <2>3, <2>4 DEF Pieces
<1>21. Emptied'
  <2>1. done'
    BY <1>2, <1>3
  <2>2. Ends(c) => Len(line') = 0 /\ Len(ddd') = Length - 1
    <3> SUFFICES ASSUME Ends(c) PROVE Len(line') = 0 /\ Len(ddd') = Length - 1
      OBVIOUS
    <3>1. k = n - 1 /\ Len(ddd) + n = Length /\ n = Len(line)
      BY <1>12
    <3>2. Len(line') = Len(line) - n /\ Len(ddd') = Len(ddd) + k
      BY <1>6, <1>15
    <3> QED
      BY <1>10, <3>1, <3>2
  <2>3. Ends(c) => line' = <<>>
    BY <1>6, <2>2
  <2> QED
    BY <1>11, <2>1, <2>2, <2>3 DEF Emptied
<1> QED
  BY <1>16, <1>17, <1>18, <1>19, <1>20, <1>21

\* What the reader hands on is the current message.
LEMMA HandedWhole ==
  ASSUME IInv, pc["reader"] = "hand"
  PROVE  ddd = H!Body(Current)
<1> USE HandshakeAssumption DEF IInv
<1>1. Current \in Nat
  BY DEF Typed, Current
<1>2. ddd \in Seq(Bytes) /\ Len(ddd) = Length - 1
  BY DEF Typed, Emptied
<1>3. \A i \in 1..Len(ddd) : ddd[i] = <<Current, i>>
  BY DEF Pieces
<1>4. /\ H!Body(Current) \in Seq(Bytes) /\ Len(H!Body(Current)) = Length - 1
      /\ \A i \in 1..Length - 1 : H!Body(Current)[i] = <<Current, i>>
  BY <1>1, BodyFacts
<1>5. \A i \in 1..Len(ddd) : ddd[i] = H!Body(Current)[i]
  BY <1>2, <1>3, <1>4
<1> QED
  BY <1>2, <1>4, <1>5, SeqEqual

LEMMA WriterHandStep == ASSUME IInv, Hand("writer") PROVE IInv'
<1> USE HandshakeAssumption DEF IInv
<1>1. /\ pc["writer"] = "hand" /\ pc' = [pc EXCEPT !["writer"] = "loop"]
      /\ done' = TRUE /\ put' = put + 1
      /\ UNCHANGED <<received, ddd, line, truncated>> /\ UNCHANGED <<lc, main, connected>>
  BY DEF Hand, At, Goto, update
<1>2. ~done /\ put = Len(received) /\ ddd = <<>>
  BY <1>1 DEF Turns, Granted
<1>3. pc'["writer"] = "loop" /\ pc'["reader"] = pc["reader"]
  BY <1>1 DEF Typed, Threads
<1>4. pc["reader"] \notin Granted
  BY <1>2 DEF Turns
<1>5. Typed'
  BY <1>1 DEF Typed, Threads, Stages
<1>6. Joined'
  <2>1. pc["writer"] \notin Quiet /\ "loop" \in Stages /\ "writer" \in Threads
    BY <1>1 DEF Quiet, Stages, Threads
  <2> QED
    BY <1>1, <2>1, JoinedKept
<1>7. Rounds'
  <2>1. put + 1 <= lc["writer"] /\ lc["writer"] <= LOOP_MAX
    BY <1>1 DEF Rounds, Body
  <2>2. put' <= LOOP_MAX
    BY <1>1, <2>1 DEF Typed, Threads
  <2> QED
    BY <1>1, <1>3, <2>1, <2>2 DEF Rounds, Body
<1>8. Turns'
  BY <1>1, <1>2, <1>3 DEF Turns, Current, Granted
<1>9. Pieces'
  BY <1>1 DEF Pieces, Current
<1>10. Emptied'
  BY <1>1, <1>3, <1>4 DEF Emptied, Granted
<1> QED
  BY <1>5, <1>6, <1>7, <1>8, <1>9, <1>10

LEMMA ReaderHandStep == ASSUME IInv, Hand("reader") PROVE IInv'
<1> USE HandshakeAssumption DEF IInv
<1>1. /\ pc["reader"] = "hand" /\ pc' = [pc EXCEPT !["reader"] = "loop"]
      /\ done' = FALSE /\ received' = Append(received, ddd) /\ ddd' = <<>>
      /\ UNCHANGED <<put, line, truncated>> /\ UNCHANGED <<lc, main, connected>>
  BY DEF Hand, At, Goto, update
<1>2. done /\ put = Current /\ line = <<>> /\ pc["writer"] \notin Granted
  BY <1>1 DEF Turns, Emptied, Granted
<1>3. pc'["reader"] = "loop" /\ pc'["writer"] = pc["writer"]
  BY <1>1 DEF Typed, Threads
<1>4. received' \in Seq(Seq(Bytes)) /\ Len(received') = Len(received) + 1
  BY <1>1 DEF Typed
<1>5. ddd' \in Seq(Bytes) /\ Len(ddd') = 0
  BY <1>1
<1>6. Typed'
  BY <1>1, <1>4, <1>5 DEF Typed, Threads, Stages
<1>7. Joined'
  <2>1. pc["reader"] \notin Quiet /\ "loop" \in Stages /\ "reader" \in Threads
    BY <1>1 DEF Quiet, Stages, Threads
  <2> QED
    BY <1>1, <2>1, JoinedKept
<1>8. Rounds'
  <2>1. Len(received) + 1 <= lc["reader"]
    BY <1>1 DEF Rounds, Body
  <2> QED
    BY <1>1, <1>3, <1>4, <2>1 DEF Rounds, Body
<1>9. Turns'
  BY <1>1, <1>2, <1>3, <1>4 DEF Turns, Current, Granted
<1>10. Pieces'
  BY <1>1, <1>2, <1>5 DEF Pieces
<1>11. Emptied'
  BY <1>1, <1>2, <1>3 DEF Emptied
<1> QED
  BY <1>6, <1>7, <1>8, <1>9, <1>10, <1>11

THEOREM NextIInv == IInv /\ [Next]_vars => IInv'
<1> SUFFICES ASSUME IInv, [Next]_vars PROVE IInv'
  OBVIOUS
<1>1. CASE Main
  BY <1>1, ConnectStep, MainStep DEF Main
<1>2. CASE \E t \in Threads : Step(t)
  <2>1. PICK t \in Threads : Step(t)
    BY <1>2
  <2>2. CASE Loop(t)
    BY <2>2, LoopStep
  <2>3. CASE Wait(t) \/ Test(t)
    BY <2>3, LookStep
  <2>4. CASE Hand(t)
    BY <2>4, WriterHandStep, ReaderHandStep DEF Threads
  <2>5. CASE Write
    BY <2>5, WriteStep
  <2>6. CASE Read
    BY <2>6, ReadStep
  <2> QED
    BY <2>1, <2>2, <2>3, <2>4, <2>5, <2>6 DEF Step
<1>3. CASE UNCHANGED vars
  <2>1. UNCHANGED Messages /\ UNCHANGED <<lc, pc, main, connected>>
    BY <1>3 DEF vars, Messages
  <2>2. Turns' /\ Pieces' /\ Emptied'
    BY <2>1, MessagesKept DEF IInv, Turns
  <2>3. Typed'
    BY <2>1 DEF IInv, Typed, Messages
  <2>4. Joined' /\ Rounds'
    BY <2>1 DEF IInv, Joined, Rounds, Messages
  <2> QED
    BY <2>2, <2>3, <2>4 DEF IInv
<1> QED
  BY <1>1, <1>2, <1>3 DEF Next

\* IInv always holds.
THEOREM Invariance == Spec => []IInv
BY InitIInv, NextIInv, PTL DEF Spec

\* The handshake keeps its types, for any number of rounds and any lengths.
THEOREM TypeCorrect == Spec => []TypeOK
BY Invariance, IInvTypeOK, PTL

-----------------------------------------------------------------------------
(* The refinement.                                                          *)

\* Handing over by the writer is a Put, by the reader a Take.
LEMMA HandRefines ==
  ASSUME IInv, NEW t \in Threads, Hand(t)
  PROVE  H!Put \/ H!Take
<1> USE HandshakeAssumption DEF IInv
<1>1. CASE t = "writer"
  <2>1. pc["writer"] = "hand" /\ put' = put + 1 /\ UNCHANGED received
    BY <1>1 DEF Hand, At
  <2>2. put = Len(received)
    BY <2>1 DEF Turns, Granted
  <2>3. put + 1 <= lc["writer"] /\ lc["writer"] <= LOOP_MAX
    BY <2>1 DEF Rounds, Body
  <2>4. put < LOOP_MAX
    BY <2>3 DEF Typed, Threads
  <2> QED
    BY <2>1, <2>2, <2>4 DEF H!Put
<1>2. CASE t = "reader"
  <2>1. pc["reader"] = "hand" /\ received' = Append(received, ddd) /\ UNCHANGED put
    BY <1>2 DEF Hand, At
  <2>2. put = Current
    BY <2>1 DEF Turns, Granted
  <2>3. Len(received) + 1 <= lc["reader"] /\ lc["reader"] <= LOOP_MAX - 1
    BY <2>1 DEF Rounds, Body
  <2>4. Len(received) < LOOP_MAX - 1 /\ Len(received) < put
    BY <2>2, <2>3 DEF Typed, Threads, Current
  <2>5. ddd = H!Body(Len(received) + 1)
    BY <2>1, HandedWhole DEF Current
  <2> QED
    BY <2>1, <2>4, <2>5 DEF H!Take
<1> QED
  BY <1>1, <1>2 DEF Threads

LEMMA StepRefines ==
  ASSUME IInv, [Next]_vars
  PROVE  [H!Put \/ H!Take]_<<put, received>>
<1>1. CASE \E t \in Threads : Hand(t)
  BY <1>1, HandRefines
<1>2. CASE ~\E t \in Threads : Hand(t)
  BY <1>2 DEF Next, Main, Connect, Join, Disconnect, Step, Loop, Wait, Test,
     Write, Read, vars
<1> QED
  BY <1>1, <1>2

\* The handshake hands over: every message is taken whole, once and in order,
\* before the next is put, for any number of rounds, any length and any pieces,
\* and also after a write that left bytes behind.
THEOREM Refinement == Spec => ImplementsHandOver
<1>1. Init => H!Init
  BY DEF Init, H!Init
<1> QED
  BY <1>1, StepRefines, Invariance, PTL DEF Spec, ImplementsHandOver, H!Spec
=============================================================================

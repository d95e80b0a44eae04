-------------------------- MODULE SdoSessionProofs --------------------------
(***************************************************************************)
(* For any number of calls, every limit of the mailbox count from 2 on,    *)
(* all limits of block_on and of the slave's queue: the slave acts on a    *)
(* request at most once, and a call that returns Ok returns the answer to  *)
(* its own request.                                                        *)
(***************************************************************************)
EXTENDS SdoSession, MailboxTaskProofs

\* The count n belongs to the request of call k: 1, 2, ..., CountLimit, 1, 2, ...
IsCount(k, n) ==
  n \in 1 .. CountLimit /\ \E q \in 0 .. k : k = q * CountLimit + n

SdoTypeOK ==
  /\ mailbox_count \in 0 .. CountLimit
  /\ call \in 0 .. MaxCalls
  /\ kind \in SdoKind
  /\ phase \in {"idle", "write", "read", "panic"}
  /\ queue \in Seq(SdoMessage)
  /\ seen \in 0 .. CountLimit
  /\ emergencies \in 0 .. MaxEmergencies

\* The task is the half of the call that its phase names, and carries its request.
PhaseInv ==
  /\ phase = "idle" => ~Busy /\ task.step \in {"Idle", "Complete"}
  /\ phase = "write" => task.mode = "writer"
  /\ phase = "read" => task.mode = "reader"
  /\ phase # "idle" => call > 0
  /\ task.mode = "writer" /\ task.step \in {"Check", "Write"} => ~task.wait
  /\ call = 0 => mailbox_count = 0 /\ result # "Ok"
  /\ call > 0 => /\ given = [call |-> call, kind |-> kind, count |-> mailbox_count]
                 /\ IsCount(call, mailbox_count)

\* The request of call k waits in the mailbox of the slave.
Waiting(k) == rx # Zero /\ rx.body.call = k

\* The slave has acted on the calls up to A, once on each.  A request it has not acted on
\* waits in its mailbox, and before the writer knows that to be empty it writes nothing.
ActedInv(A) ==
  /\ A \in 0 .. call
  /\ acted = [c \in Call |-> IF c <= A THEN 1 ELSE 0]
  /\ IF A = 0 THEN seen = 0 ELSE IsCount(A, seen)
  /\ rx # Zero => /\ rx = Whole(rx.body) /\ rx.body \in SdoMessage
                  /\ rx.body.call \in {A, A + 1} /\ rx.body.call \in 1 .. call
                  /\ IsCount(rx.body.call, rx.body.count)
  /\ call > A + 1 => call = A + 2 /\ Waiting(A + 1)
  /\ phase \in {"idle", "read"} \/ (phase = "write" /\ copies > 0) =>
       call = A \/ (call = A + 1 /\ Waiting(call))
  /\ /\ Busy /\ task.mode = "writer"
     /\ \/ task.step = "Write"
        \/ task.step = "Check" /\ socket.recv_flag /\ socket.wkc_ok /\ ~socket.full
     => call <= A + 1

\* The call has ended, or will end, in an unwrap.
Doomed == phase = "panic" \/ task.step = "Error"

Repeating == task.step \in {"RequestRepeat", "WaitRepeatAck"}

\* The request for a repetition and its acknowledgement are apart only while the reader
\* asks, so that the slave repeats nothing else.
RepeatInv ==
  /\ ~Repeating => repeat = repeat_ack
  /\ task.step = "Read" => task.activation = repeat
  /\ task.step = "Check" /\ task.mode = "reader" /\ socket.recv_flag /\ socket.wkc_ok =>
       socket.bit = repeat
  /\ task.step = "RequestRepeat" /\ ~socket.recv_flag =>
       repeat = repeat_ack /\ repeat # task.activation
  /\ Repeating /\ (task.step = "WaitRepeatAck" \/ socket.recv_flag) =>
       repeat = task.activation \/ repeat = repeat_ack
  /\ /\ task.step = "WaitRepeatAck" /\ socket.recv_flag /\ socket.wkc_ok
     /\ socket.bit = task.activation
     => repeat_ack = task.activation

\* The message the slave gave away last is the caller's, or can still be repeated.
Held ==
  /\ phase = "read"
  /\ \/ task.state = "Complete"
     \/ task.step = "Read" /\ socket.recv_flag /\ (socket.wkc_ok \/ tx = NoMessage)
     \/ Repeating /\ repeat_ack # task.activation /\ tx = NoMessage

Posted == IF tx = NoMessage THEN 0 ELSE 1

\* Messages that the calls have not consumed.
Outstanding == Len(queue) + Posted + (IF Held THEN 1 ELSE 0)

\* Calls that have consumed a message.
Consumed == IF phase = "idle" THEN call ELSE call - 1

\* An emergency, or the answer to a call after which the slave has answered at most d.
Fresh(m, A, d) ==
  m = Emergency \/ (m.call \in 1 .. A /\ IsCount(m.call, m.count) /\ m.call + d >= A)

\* The answers come in the order of the calls, and only an emergency makes the calls lag
\* behind.
AnswerInv(A) ==
  /\ task.mode = "reader" =>
       /\ task.step = "Read" /\ ~socket.recv_flag => tx # NoMessage
       /\ task.step = "Check" /\ socket.recv_flag /\ socket.wkc_ok /\ socket.full =>
            tx # NoMessage
  /\ Outstanding <= A + emergencies - Consumed
  /\ \A i \in 1 .. Len(queue) : Fresh(queue[i], A, Len(queue) - i)
  /\ tx # NoMessage => Fresh(tx, A, Len(queue))
  /\ Held => last # NoMessage /\ Fresh(last, A, Len(queue) + Posted)

CallInv(A) == ActedInv(A) /\ (~Doomed => RepeatInv /\ AnswerInv(A))

SessionInv ==
  /\ MailboxInv
  /\ SdoTypeOK
  /\ PhaseInv
  /\ \E A \in 0 .. call : CallInv(A)
  /\ OkIsOwnAnswer

----------------------------------------------------------------------------
(* Counts *)

LEMMA CountNext ==
  ASSUME NEW k \in Nat, NEW n, IsCount(k, n)
  PROVE  IsCount(k + 1, IF n < CountLimit THEN n + 1 ELSE 1)
<1>1. PICK q \in 0 .. k : k = q * CountLimit + n
  BY DEF IsCount
<1>2. CountLimit \in Nat /\ CountLimit > 1 /\ n \in 1 .. CountLimit /\ q \in Nat
  BY CountAssumption DEF IsCount
<1>3. CASE n < CountLimit
  <2>1. k + 1 = q * CountLimit + (n + 1) /\ q \in 0 .. k + 1 /\ n + 1 \in 1 .. CountLimit
    BY <1>1, <1>2, <1>3
  <2>2. QED
    BY <1>3, <2>1 DEF IsCount
<1>4. CASE ~(n < CountLimit)
  <2>1. (q + 1) * CountLimit = q * CountLimit + CountLimit
    BY <1>2
  <2>2. k + 1 = (q + 1) * CountLimit + 1 /\ q + 1 \in 0 .. k + 1 /\ 1 \in 1 .. CountLimit
    BY <1>1, <1>2, <1>4, <2>1
  <2>3. QED
    BY <1>4, <2>2 DEF IsCount
<1>5. QED
  BY <1>3, <1>4

LEMMA CountFirst == IsCount(1, 1)
<1>1. CountLimit \in Nat /\ CountLimit > 1
  BY CountAssumption
<1>2. 1 = 0 * CountLimit + 1 /\ 0 \in 0 .. 1 /\ 1 \in 1 .. CountLimit
  BY <1>1
<1>3. QED
  BY <1>2 DEF IsCount

\* Calls less than CountLimit apart have different counts.
LEMMA CountUnique ==
  ASSUME NEW j \in Nat, NEW k \in Nat, NEW n, IsCount(j, n), IsCount(k, n),
         j <= k, k < j + CountLimit
  PROVE  j = k
<1>1. PICK p \in 0 .. j : j = p * CountLimit + n
  BY DEF IsCount
<1>2. PICK q \in 0 .. k : k = q * CountLimit + n
  BY DEF IsCount
<1>3. CountLimit \in Nat /\ CountLimit > 1 /\ n \in Nat /\ p \in Nat /\ q \in Nat
  BY CountAssumption DEF IsCount
<1>4. (q - p) * CountLimit = k - j
  <2>1. (q - p) * CountLimit = q * CountLimit - p * CountLimit
    BY <1>3
  <2>2. q * CountLimit \in Nat /\ p * CountLimit \in Nat
    BY <1>3
  <2>3. QED
    BY <1>1, <1>2, <1>3, <2>1, <2>2
<1>5. ASSUME q - p >= 1 PROVE (q - p) * CountLimit >= CountLimit
  BY <1>3, <1>5
<1>6. ASSUME q - p <= -1 PROVE (q - p) * CountLimit < 0
  BY <1>3, <1>6
<1>7. q - p = 0
  BY <1>3, <1>4, <1>5, <1>6
<1>8. QED
  BY <1>3, <1>4, <1>7

LEMMA CountFunction ==
  ASSUME NEW k \in Nat, NEW n, NEW m, IsCount(k, n), IsCount(k, m)
  PROVE  n = m
<1>1. PICK p \in 0 .. k : k = p * CountLimit + n
  BY DEF IsCount
<1>2. PICK q \in 0 .. k : k = q * CountLimit + m
  BY DEF IsCount
<1>3. /\ CountLimit \in Nat /\ CountLimit > 1 /\ n \in 1 .. CountLimit
      /\ m \in 1 .. CountLimit /\ p \in Nat /\ q \in Nat
  BY CountAssumption DEF IsCount
<1>4. (q - p) * CountLimit = n - m
  <2>1. (q - p) * CountLimit = q * CountLimit - p * CountLimit
    BY <1>3
  <2>2. q * CountLimit \in Nat /\ p * CountLimit \in Nat
    BY <1>3
  <2>3. QED
    BY <1>1, <1>2, <1>3, <2>1, <2>2
<1>5. ASSUME q - p >= 1 PROVE (q - p) * CountLimit >= CountLimit
  BY <1>3, <1>5
<1>6. ASSUME q - p <= -1 PROVE (q - p) * CountLimit <= -CountLimit
  BY <1>3, <1>6
<1>7. q - p = 0
  BY <1>3, <1>4, <1>5, <1>6
<1>8. QED
  BY <1>3, <1>4, <1>7

\* The count of a request is not that of the one before, nor the slave's first one.
LEMMA CountDiffers ==
  ASSUME NEW k \in Nat, NEW n, NEW m, IsCount(k, n), IsCount(k + 1, m)
  PROVE  n # m /\ m # 0 /\ n # 0
<1>1. n \in 1 .. CountLimit /\ m \in 1 .. CountLimit
  BY DEF IsCount
<1>2. n # m
  BY CountUnique, CountAssumption
<1>3. QED
  BY <1>1, <1>2, CountAssumption

----------------------------------------------------------------------------
(* A turn of block_on *)

\* What an answer makes of a task that does not fail.
Advanced ==
  \/ task.step = "Check" /\ task'.step = "Check" /\ task.wait
  \/ /\ task.step = "Check" /\ task'.step = "Read" /\ socket.wkc_ok /\ socket.full
     /\ task'.activation = socket.bit
  \/ /\ task.step = "Check" /\ task'.step = "Write" /\ socket.wkc_ok /\ ~socket.full
     /\ task'.wait = task.wait
  \/ /\ task.step = "Read" /\ task'.step = "RequestRepeat" /\ ~socket.wkc_ok
     /\ task'.activation # task.activation
  \/ task.step = "Write" /\ task'.step = "Write" /\ task'.wait = task.wait
  \/ task.step \in {"Read", "Write"} /\ task'.step = "Complete" /\ socket.wkc_ok
  \/ /\ task.step \in {"RequestRepeat", "WaitRepeatAck"} /\ task'.step = "WaitRepeatAck"
     /\ task'.activation = task.activation
  \/ /\ task.step = "WaitRepeatAck" /\ task'.step = "Check" /\ socket.wkc_ok
     /\ socket.bit = task.activation

LEMMA StepOutcome ==
  ASSUME MailboxInv, Step, Busy
  PROVE  /\ socket'.recv_flag = FALSE /\ task' \in Task /\ task'.mode = task.mode
         /\ UNCHANGED <<history, slaveVars>>
         /\ task'.state = "Complete" <=> task'.step = "Complete"
         /\ \/ task'.step = "Error"
            \/ /\ task.step = "Check" /\ task'.step = "Check" /\ task'.wait = task.wait
               /\ ~socket.recv_flag
            \/ socket.recv_flag /\ Advanced
<1> DEFINE t == IF socket.recv_flag THEN Recieved ELSE task
           sends == t.state = "Processing" /\ KindOf(t) # "None"
<1>1. /\ socket.recv_flag \/ socket.command = "None"
      /\ task' = IF sends THEN TaskSending(t) ELSE t
      /\ socket' = IF sends /\ ~TooSmall(t) THEN [NoPdu EXCEPT !.command = KindOf(t)]
                   ELSE NoPdu
      /\ UNCHANGED <<history, slaveVars>>
  BY DEF Step, ProcessOneStep
<1>2. socket'.recv_flag = FALSE
  BY <1>1 DEF NoPdu
<1>3. TypeOK /\ task \in Task /\ task.state = "Processing"
  BY DEF MailboxInv, TypeOK, Busy
<1>4. CASE socket.command = "None"
  <2>1. ~socket.recv_flag /\ t = task
    BY <1>4, NoPduFields DEF MailboxInv, PduIsOwn
  <2>2. CASE task.step = "Error"
    <3>1. ~sends
      BY <1>3, <2>1, <2>2, KindOfLive DEF Live
    <3> HIDE DEF sends, t
    <3>2. task' = task
      BY <1>1, <2>1, <3>1
    <3>3. QED
      BY <1>1, <1>2, <1>3, <2>2, <3>2
  <2>3. CASE task.step = "Check"
    <3>1. Live(task) /\ task.error = "none"
      BY <2>3 DEF MailboxInv, ErrorEnds, Live
    <3>2. sends
      BY <1>3, <2>1, <3>1, KindOfLive DEF PduKind
    <3> HIDE DEF sends, t
    <3>3. task' = TaskSending(task) /\ ~TooSmall(task)
      BY <1>1, <2>1, <2>3, <3>2 DEF TooSmall
    <3>4. /\ task' \in Task /\ task'.state = "Processing" /\ task'.mode = task.mode
          /\ task'.step = "Check" /\ task'.wait = task.wait
      BY <1>3, <2>3, <3>1, <3>3, SendingStep
    <3>5. QED
      BY <1>1, <1>2, <2>1, <2>3, <3>4
  <2>4. QED
    BY <1>4, <2>2, <2>3 DEF MailboxInv, PduIsOwn
<1>5. CASE socket.command # "None"
  <2>1. /\ Live(task) /\ task.error = "none" /\ task.command = socket.command
    BY <1>5, FlightIsLive
  <2>2. socket.recv_flag /\ t = Recieved
    BY <1>1, <1>5
  <2>3. /\ t \in Task /\ t.mode = task.mode
        /\ \/ Failed(t) /\ t.state = "Error"
           \/ WentOn(t) /\ t.state = IF t.step = "Complete" THEN "Complete" ELSE "Processing"
    BY <1>3, <2>1, <2>2, RecievedStep
  <2> HIDE DEF t
  <2>4. CASE t.state # "Processing"
    <3>1. task' = t
      BY <1>1, <2>4
    <3>2. CASE Failed(t) /\ t.state = "Error"
      BY <1>1, <1>2, <2>3, <3>1, <3>2 DEF Failed
    <3>3. CASE WentOn(t) /\ t.state = "Complete" /\ t.step = "Complete"
      <4>1. task.step \in {"Read", "Write"} /\ socket.wkc_ok
        BY <3>3 DEF WentOn
      <4>2. QED
        BY <1>1, <1>2, <2>2, <2>3, <3>1, <3>3, <4>1 DEF Advanced
    <3>4. QED
      BY <2>3, <2>4, <3>2, <3>3
  <2>5. CASE t.state = "Processing"
    <3>1. WentOn(t) /\ t.step # "Complete"
      BY <2>3, <2>5
    <3>2. Live(t) /\ t.error = "none"
      BY <3>1 DEF WentOn, Live
    <3>3. sends
      BY <2>3, <2>5, <3>2, KindOfLive DEF PduKind
    <3>4. task' = TaskSending(t)
      BY <1>1, <3>3
    <3> HIDE DEF sends
    <3>5. /\ task' \in Task /\ task'.state = "Processing" /\ task'.mode = task.mode
          /\ task'.wait = t.wait
          /\ TooSmall(t) => task'.step = "Error"
          /\ ~TooSmall(t) =>
               /\ task'.step = t.step
               /\ task'.activation =
                    IF t.step = "RequestRepeat" THEN ~t.activation ELSE t.activation
      BY <1>3, <2>3, <2>5, <3>2, <3>4, SendingStep
    <3>6. CASE TooSmall(t)
      BY <1>1, <1>2, <3>5, <3>6
    <3>7. CASE ~TooSmall(t)
      <4>1. t.activation \in BOOLEAN /\ task'.step = t.step
        BY <2>3, <3>5, <3>7, TaskFields
      <4>2. /\ t.step = "RequestRepeat" => task'.activation # t.activation
            /\ t.step # "RequestRepeat" => task'.activation = t.activation
        BY <3>5, <3>7, <4>1
      <4>3. Advanced
        BY <3>1, <3>5, <4>1, <4>2 DEF WentOn, Advanced
      <4>4. QED
        BY <1>1, <1>2, <2>2, <3>1, <3>5, <4>1, <4>3
    <3>8. QED
      BY <3>6, <3>7
  <2>6. QED
    BY <2>4, <2>5
<1>6. QED
  BY <1>4, <1>5

----------------------------------------------------------------------------
(* The steps of a call *)

LEMMA InitSession == SdoInit => SessionInv
<1> SUFFICES ASSUME SdoInit PROVE SessionInv
  OBVIOUS
<1>1. MailboxInv
  BY InitHolds DEF SdoInit
<1>2. /\ task.state = "Idle" /\ task.mode = "reader" /\ task.step = "Idle"
      /\ rx = Zero /\ tx = NoMessage /\ repeat = repeat_ack /\ copies = 0
  BY DEF SdoInit, Init, TaskInit, SlaveInit, Started
<1>3. SdoTypeOK
  BY CallAssumption, CountAssumption DEF SdoInit, SdoTypeOK, SdoKind
<1>4. PhaseInv
  BY <1>2 DEF SdoInit, PhaseInv, Busy
<1>5. ActedInv(0)
  BY <1>2 DEF SdoInit, ActedInv, Call, Busy
<1>6. RepeatInv
  BY <1>2 DEF RepeatInv, Repeating
<1>7. AnswerInv(0)
  BY <1>2 DEF SdoInit, AnswerInv, Held, Outstanding, Consumed, Posted
<1>8. OkIsOwnAnswer
  BY DEF SdoInit, OkIsOwnAnswer
<1>9. QED
  BY <1>1, <1>3, <1>4, <1>5, <1>6, <1>7, <1>8 DEF SessionInv, CallInv, SdoInit

LEMMA LinkErrorKeeps ==
  ASSUME SessionInv, LinkError
  PROVE  SessionInv'
<1>1. PICK A \in 0 .. call : CallInv(A)
  BY DEF SessionInv
<1>2. phase' = "panic" /\ UNCHANGED <<vars, mailbox_count, call, kind, deviceVars>>
  BY DEF LinkError
<1>3. MailboxInv'
  BY <1>2, OthersKeep DEF SessionInv
<1>4. SdoTypeOK' /\ OkIsOwnAnswer'
  BY <1>2 DEF SessionInv, SdoTypeOK, OkIsOwnAnswer, deviceVars
<1>5. PhaseInv'
  BY <1>2 DEF SessionInv, PhaseInv, vars, taskVars, history, LinkError, Running
<1>6. ActedInv(A)'
  BY <1>1, <1>2 DEF CallInv, ActedInv, Waiting, Busy, vars, slaveVars, taskVars, history, deviceVars
<1>7. Doomed'
  BY <1>2 DEF Doomed
<1>8. QED
  BY <1>2, <1>3, <1>4, <1>5, <1>6, <1>7 DEF SessionInv, CallInv

\* Between two tasks the socket is empty.
LEMMA NotBusySocket ==
  ASSUME MailboxInv, ~Busy
  PROVE  socket = NoPdu
  BY DEF MailboxInv, PduIsOwn

LEMMA StartSdoKeeps ==
  ASSUME SessionInv, NEW k \in SdoKind, StartSdo(k)
  PROVE  SessionInv'
<1> DEFINE n == IncrementMbCount
           m == [call |-> call + 1, kind |-> k, count |-> n]
<1>1. PICK A \in 0 .. call : CallInv(A)
  BY DEF SessionInv
<1>2. /\ phase = "idle" /\ call < MaxCalls /\ mailbox_count' = n /\ call' = call + 1
      /\ kind' = k /\ phase' = "write" /\ StartToWrite(m, FALSE)
      /\ UNCHANGED <<slaveVars, deviceVars>>
  BY DEF StartSdo
<1>3. /\ ~Busy /\ task.step \in {"Idle", "Complete"} /\ call \in 0 .. MaxCalls
      /\ mailbox_count \in 0 .. CountLimit /\ MaxCalls \in Nat /\ CountLimit \in Nat
      /\ CountLimit > 1
  BY <1>2, CallAssumption, CountAssumption DEF SessionInv, PhaseInv, SdoTypeOK
<1>4. IsCount(call + 1, n) /\ n \in 0 .. CountLimit
  <2>1. CASE call = 0
    BY <1>3, <2>1, CountFirst DEF SessionInv, PhaseInv, IncrementMbCount
  <2>2. CASE call > 0
    BY <1>3, <2>2, CountNext DEF SessionInv, PhaseInv, IncrementMbCount
  <2>3. QED
    BY <1>3, <2>1, <2>2
<1> HIDE DEF n
<1>5. m \in Message
  BY <1>2, <1>3, <1>4, SdoMessageAssumption DEF SdoMessage
<1>6. MailboxInv'
  <2>1. Start
    BY <1>2, <1>3, <1>5 DEF Start
  <2>2. QED
    BY <2>1, StartKeeps DEF SessionInv
<1>7. /\ task'.state = "Processing" /\ task'.mode = "writer" /\ task'.step = "Check"
      /\ task'.wait = FALSE /\ given' = m /\ copies' = 0 /\ socket' = socket
  BY <1>2 DEF StartToWrite, Started
<1>8. socket'.recv_flag = FALSE
  BY <1>3, <1>7, NotBusySocket, NoPduFields DEF SessionInv
<1>9. SdoTypeOK' /\ OkIsOwnAnswer' /\ PhaseInv'
  BY <1>2, <1>3, <1>4, <1>7
     DEF SessionInv, SdoTypeOK, OkIsOwnAnswer, PhaseInv, deviceVars
<1>10. ActedInv(A)'
  <2>1. ActedInv(A)
    BY <1>1 DEF CallInv
  <2>2. call = A \/ (call = A + 1 /\ Waiting(A + 1))
    BY <1>2, <2>1 DEF ActedInv
  <2>3. UNCHANGED <<rx, acted, seen>>
    BY <1>2 DEF slaveVars, deviceVars
  <2>4. QED
    BY <1>2, <1>3, <1>7, <1>8, <2>1, <2>2, <2>3 DEF ActedInv, Waiting
<1>11. ~Doomed
  BY <1>2, <1>3 DEF Doomed
<1>12. RepeatInv'
  BY <1>1, <1>2, <1>3, <1>7, <1>8, <1>11 DEF CallInv, RepeatInv, Repeating, slaveVars
<1>13. AnswerInv(A)'
  <2>1. AnswerInv(A) /\ ~Held /\ ~Held'
    BY <1>1, <1>2, <1>11 DEF CallInv, Held
  <2>2. UNCHANGED <<tx, queue, emergencies>> /\ Consumed' = Consumed
    BY <1>2, <1>3 DEF slaveVars, deviceVars, Consumed
  <2>3. Outstanding' = Outstanding
    BY <2>1, <2>2 DEF Outstanding, Posted
  <2>4. QED
    BY <1>7, <2>1, <2>2, <2>3 DEF AnswerInv
<1>14. A \in 0 .. call'
  BY <1>2, <1>3
<1>15. QED
  BY <1>6, <1>9, <1>10, <1>12, <1>13, <1>14 DEF SessionInv, CallInv

LEMMA WriteReturnsKeeps ==
  ASSUME SessionInv, WriteReturns
  PROVE  SessionInv'
<1>1. PICK A \in 0 .. call : CallInv(A)
  BY DEF SessionInv
<1>2. /\ phase = "write" /\ ~Busy
      /\ UNCHANGED <<mailbox_count, call, kind, result, slaveVars, deviceVars>>
  BY DEF WriteReturns
<1>3. phase' # "idle" /\ SdoTypeOK' /\ OkIsOwnAnswer'
  BY <1>2 DEF SessionInv, SdoTypeOK, OkIsOwnAnswer, deviceVars, WriteReturns
<1>4. call > 0 /\ task.mode = "writer"
  BY <1>2 DEF SessionInv, PhaseInv
<1>5. CASE task.state = "Complete"
  <2>1. StartToRead(TRUE) /\ phase' = "read"
    BY <1>5 DEF WriteReturns
  <2>2. Start
    BY <1>2, <2>1 DEF Start
  <2>3. MailboxInv'
    BY <2>2, StartKeeps DEF SessionInv
  <2>4. /\ task'.state = "Processing" /\ task'.mode = "reader" /\ task'.step = "Check"
        /\ given' = given /\ copies' = 0 /\ socket' = socket
    BY <2>1 DEF StartToRead, Started
  <2>5. socket'.recv_flag = FALSE
    BY <1>2, <2>4, NotBusySocket, NoPduFields DEF SessionInv
  <2>6. PhaseInv'
    BY <1>2, <1>4, <2>1, <2>4 DEF SessionInv, PhaseInv
  <2>7. copies > 0 /\ task.step = "Complete"
    BY <1>4, <1>5 DEF SessionInv, MailboxInv, WriteOutcome, ErrorEnds
  <2>8. ActedInv(A)'
    BY <1>1, <1>2, <2>1, <2>4, <2>5, <2>7
       DEF CallInv, ActedInv, Waiting, slaveVars, deviceVars
  <2>9. ~Doomed
    BY <1>2, <2>7 DEF Doomed
  <2>10. RepeatInv'
    BY <1>1, <1>2, <2>4, <2>5, <2>7, <2>9 DEF CallInv, RepeatInv, Repeating, slaveVars
  <2>11. AnswerInv(A)'
    <3>1. AnswerInv(A) /\ ~Held /\ ~Held'
      BY <1>1, <1>2, <2>4, <2>9 DEF CallInv, Held, Repeating
    <3>2. UNCHANGED <<tx, queue, emergencies>> /\ Consumed' = Consumed
      BY <1>2, <2>1 DEF slaveVars, deviceVars, Consumed
    <3>3. Outstanding' = Outstanding
      BY <3>1, <3>2 DEF Outstanding, Posted
    <3>4. QED
      BY <2>4, <2>5, <3>1, <3>2, <3>3 DEF AnswerInv
  <2>12. QED
    BY <1>2, <1>3, <2>3, <2>6, <2>8, <2>10, <2>11 DEF SessionInv, CallInv
<1>6. CASE task.state # "Complete"
  <2>1. phase' = "panic" /\ UNCHANGED vars
    BY <1>2, <1>6 DEF WriteReturns, vars
  <2>2. MailboxInv'
    BY <2>1, OthersKeep DEF SessionInv
  <2>3. PhaseInv'
    BY <1>2, <1>4, <2>1 DEF SessionInv, PhaseInv, vars, taskVars, history
  <2>4. ActedInv(A)'
    BY <1>1, <1>2, <2>1
       DEF CallInv, ActedInv, Waiting, Busy, vars, slaveVars, taskVars, history, deviceVars
  <2>5. Doomed'
    BY <2>1 DEF Doomed
  <2>6. QED
    BY <1>2, <1>3, <2>2, <2>3, <2>4, <2>5 DEF SessionInv, CallInv
<1>7. QED
  BY <1>5, <1>6

\* Only the answer of the kind and with the count of the request is judged Ok.
LEMMA JudgedOk ==
  ASSUME NEW m \in SdoMessage, kind \in SdoKind, Judge(m) = "Ok"
  PROVE  m.kind \in SdoKind /\ m.count = mailbox_count
<1>1. DOMAIN ErrorOf = {"emergency", "abort", "error", "unsupported", "other", "malformed"}
  BY DEF ErrorOf
<1>2. \A e \in DOMAIN ErrorOf : ErrorOf[e] # "Ok"
  BY DEF ErrorOf
<1>3. m.kind \in SdoKind \cup DOMAIN ErrorOf
  BY <1>1, RefusalAssumption DEF SdoMessage
<1>4. CASE m.kind \in DOMAIN ErrorOf
  <2>1. m.kind \notin SdoKind
    BY <1>1, <1>4 DEF SdoKind
  <2>2. Judge(m) = ErrorOf[m.kind]
    BY <1>4, <2>1 DEF Judge
  <2>3. QED
    BY <1>2, <1>4, <2>2
<1>5. CASE m.kind \in SdoKind \ {kind}
  <2>1. m.kind \notin DOMAIN ErrorOf
    BY <1>1, <1>5 DEF SdoKind
  <2>2. Judge(m) = "UnexpectedSdoType"
    BY <1>5, <2>1 DEF Judge
  <2>3. QED
    BY <2>2
<1>6. CASE m.kind = kind
  <2>1. m.kind \notin DOMAIN ErrorOf
    BY <1>1, <1>6 DEF SdoKind
  <2>2. Judge(m) = IF m.count = mailbox_count THEN "Ok" ELSE "CountUnmatch"
    BY <1>6, <2>1 DEF Judge
  <2>3. QED
    BY <1>6, <2>2
<1>7. QED
  BY <1>3, <1>4, <1>5, <1>6

\* The answer whose count is that of the request is the answer to it: what makes it older
\* are emergency messages, fewer than CountLimit.
LEMMA JudgedIsOwn ==
  ASSUME SessionInv, NEW A \in 0 .. call, CallInv(A), phase = "read", task.state = "Complete",
         Judge(last) = "Ok"
  PROVE  last.call = call /\ call = A
<1>1. /\ task.mode = "reader" /\ call > 0 /\ IsCount(call, mailbox_count)
      /\ call \in Nat /\ kind \in SdoKind /\ emergencies \in 0 .. MaxEmergencies
      /\ Len(queue) \in Nat
  BY CallAssumption DEF SessionInv, PhaseInv, SdoTypeOK
<1>2. ~Doomed /\ Held
  BY DEF Doomed, Held, SessionInv, MailboxInv, ErrorEnds
<1>3. /\ last # NoMessage /\ Fresh(last, A, Len(queue) + Posted)
      /\ Len(queue) + Posted + 1 <= A + emergencies - (call - 1)
  BY <1>2 DEF CallInv, AnswerInv, Outstanding, Consumed
<1>4. last \in SdoMessage
  BY <1>3, SdoMessageAssumption DEF SessionInv, MailboxInv, TypeOK, SlaveType
<1>5. last.kind \in SdoKind /\ last.count = mailbox_count
  BY <1>1, <1>4, JudgedOk
<1>6. last # Emergency
  BY <1>5 DEF Emergency, SdoKind
<1>7. /\ last.call \in 1 .. A /\ IsCount(last.call, mailbox_count)
      /\ last.call + (Len(queue) + Posted) >= A
  BY <1>3, <1>5, <1>6 DEF Fresh
<1>8. Posted \in Nat /\ CountLimit \in Nat /\ emergencies \in 0 .. CountLimit - 1
  BY <1>1, CountAssumption DEF Posted
<1>9. last.call \in Nat /\ last.call <= call /\ call < last.call + CountLimit
  BY <1>1, <1>3, <1>7, <1>8
<1>10. last.call = call
  BY <1>1, <1>7, <1>9, CountUnique
<1>11. QED
  BY <1>1, <1>7, <1>10

LEMMA ReadReturnsKeeps ==
  ASSUME SessionInv, ReadReturns
  PROVE  SessionInv'
<1>1. PICK A \in 0 .. call : CallInv(A)
  BY DEF SessionInv
<1>2. /\ phase = "read" /\ ~Busy
      /\ UNCHANGED <<mailbox_count, call, kind, vars, deviceVars>>
  BY DEF ReadReturns
<1>3. /\ UNCHANGED <<task, socket, buf, given, copies, rx, tx, last, repeat, repeat_ack>>
      /\ UNCHANGED <<queue, seen, emergencies, acted>>
  BY <1>2 DEF vars, slaveVars, taskVars, history, deviceVars
<1>4. MailboxInv'
  BY <1>2, OthersKeep DEF SessionInv
<1>5. /\ call > 0 /\ task.mode = "reader" /\ call \in 0 .. MaxCalls /\ MaxCalls \in Nat
      /\ Len(queue) \in Nat /\ emergencies \in Nat
  BY <1>2, CallAssumption, CountAssumption DEF SessionInv, PhaseInv, SdoTypeOK
<1>6. CASE task.state = "Complete"
  <2>1. phase' = "idle" /\ result' = Judge(buf.body)
    BY <1>6 DEF ReadReturns
  <2>2. task.step = "Complete" /\ buf = Whole(last)
    BY <1>5, <1>6 DEF SessionInv, MailboxInv, ErrorEnds, ReadOutcome
  <2>3. SdoTypeOK' /\ PhaseInv'
    BY <1>2, <1>3, <2>1, <2>2 DEF SessionInv, SdoTypeOK, PhaseInv, Busy
  <2>4. ActedInv(A)'
    BY <1>1, <1>2, <1>3, <2>1, <2>2 DEF CallInv, ActedInv, Waiting, Busy
  <2>5. ~Doomed
    BY <1>2, <2>2 DEF Doomed
  <2>6. RepeatInv'
    BY <1>1, <1>3, <2>5 DEF CallInv, RepeatInv, Repeating
  <2>7. AnswerInv(A)'
    <3>1. AnswerInv(A) /\ Held /\ ~Held'
      BY <1>1, <1>2, <1>6, <2>1, <2>5 DEF CallInv, Held
    <3>2. Consumed' = Consumed + 1 /\ Outstanding' = Outstanding - 1
      BY <1>2, <1>3, <1>5, <2>1, <3>1 DEF Consumed, Outstanding, Posted
    <3>3. Consumed \in Int /\ Outstanding \in Int
      BY <1>2, <1>3, <1>5, <3>1 DEF Consumed, Outstanding, Posted
    <3>4. Outstanding <= A + emergencies - Consumed /\ A \in Int
      BY <1>5, <3>1 DEF AnswerInv
    <3>5. Outstanding' <= A + emergencies' - Consumed'
      BY <1>3, <1>5, <3>2, <3>3, <3>4
    <3>6. QED
      BY <1>3, <3>1, <3>5 DEF AnswerInv
  <2>8. OkIsOwnAnswer'
    <3> SUFFICES ASSUME result' = "Ok"
                 PROVE  buf' = Whole(last') /\ last'.call = call' /\ acted'[call'] = 1
      BY DEF OkIsOwnAnswer, Whole
    <3>1. Judge(last) = "Ok"
      BY <2>1, <2>2 DEF Whole
    <3>2. last.call = call /\ call = A
      BY <1>1, <1>2, <1>6, <3>1, JudgedIsOwn
    <3>3. acted[call] = 1
      BY <1>1, <1>5, <3>2 DEF CallInv, ActedInv, Call
    <3>4. QED
      BY <1>2, <1>3, <2>2, <3>2, <3>3
  <2>9. QED
    BY <1>2, <1>4, <2>3, <2>4, <2>6, <2>7, <2>8 DEF SessionInv, CallInv
<1>7. CASE task.state # "Complete"
  <2>1. phase' = "panic"
    BY <1>7 DEF ReadReturns
  <2>2. SdoTypeOK' /\ PhaseInv' /\ OkIsOwnAnswer'
    BY <1>2, <1>3, <1>5, <2>1 DEF SessionInv, SdoTypeOK, PhaseInv, OkIsOwnAnswer
  <2>3. ActedInv(A)'
    BY <1>1, <1>2, <1>3, <2>1 DEF CallInv, ActedInv, Waiting, Busy
  <2>4. Doomed'
    BY <2>1 DEF Doomed
  <2>5. QED
    BY <1>2, <1>4, <2>2, <2>3, <2>4 DEF SessionInv, CallInv
<1>8. QED
  BY <1>6, <1>7

LEMMA BlockOnKeeps ==
  ASSUME SessionInv, BlockOn
  PROVE  SessionInv'
<1>1. PICK A \in 0 .. call : CallInv(A)
  BY DEF SessionInv
<1>2. /\ phase \in {"write", "read"} /\ Busy /\ Step /\ phase' \in {phase, "panic"}
      /\ UNCHANGED <<mailbox_count, call, kind, slaveVars, deviceVars>>
  BY DEF BlockOn, Running, Step
<1>3. /\ socket'.recv_flag = FALSE /\ task' \in Task /\ task'.mode = task.mode
      /\ UNCHANGED <<history, slaveVars>>
      /\ task'.state = "Complete" <=> task'.step = "Complete"
      /\ \/ task'.step = "Error"
         \/ /\ task.step = "Check" /\ task'.step = "Check" /\ task'.wait = task.wait
            /\ ~socket.recv_flag
         \/ socket.recv_flag /\ Advanced
  BY <1>2, StepOutcome DEF SessionInv
<1>4. UNCHANGED <<given, copies, rx, tx, last, repeat, repeat_ack, queue, seen, emergencies, acted>>
  BY <1>2, <1>3 DEF history, slaveVars, deviceVars
<1>5. MailboxInv'
  BY <1>2, StepKeeps DEF SessionInv
<1>6. /\ task \in Task /\ task.mode \in {"reader", "writer"}
      /\ task.mode = "reader" => task.step # "Write"
      /\ task.mode = "writer" => task.step \notin {"Read", "RequestRepeat", "WaitRepeatAck"}
      /\ task.mode = "writer" => task'.step # "Read"
  BY <1>3, TaskFields DEF SessionInv, MailboxInv, TypeOK, StepsOf
<1>7. SdoTypeOK' /\ OkIsOwnAnswer'
  BY <1>2, <1>4 DEF SessionInv, SdoTypeOK, OkIsOwnAnswer
<1>8. PhaseInv'
  <2>1. task'.mode = "writer" /\ task'.step \in {"Check", "Write"} => ~task'.wait
    BY <1>3, <1>6 DEF SessionInv, PhaseInv, Advanced
  <2>2. QED
    BY <1>2, <1>3, <1>4, <2>1 DEF SessionInv, PhaseInv
<1>9. ActedInv(A)'
  <2>1. ActedInv(A) /\ PhaseInv
    BY <1>1 DEF CallInv, SessionInv
  <2>2. Busy' /\ task'.mode = "writer" /\ task'.step = "Write" => call <= A + 1
    BY <1>2, <1>3, <2>1 DEF ActedInv, Advanced
  <2>3. QED
    BY <1>2, <1>3, <1>4, <2>1, <2>2 DEF ActedInv, Waiting
<1>10. ASSUME ~Doomed' PROVE RepeatInv' /\ AnswerInv(A)'
  <2>1. phase' = phase /\ task'.step # "Error"
    BY <1>2, <1>10 DEF Doomed
  <2>2. ~Doomed
    <3>1. task.step # "Error"
      BY <1>3, <2>1 DEF Advanced
    <3>2. QED
      BY <1>2, <3>1 DEF Doomed
  <2>3. RepeatInv /\ AnswerInv(A)
    BY <1>1, <2>2 DEF CallInv
  <2>4. /\ repeat \in BOOLEAN /\ repeat_ack \in BOOLEAN /\ task.activation \in BOOLEAN
        /\ task'.activation \in BOOLEAN
    BY <1>3, <1>6, TaskFields DEF SessionInv, MailboxInv, TypeOK, SlaveType
  <2>5. RepeatInv'
    BY <1>3, <1>4, <1>6, <2>1, <2>3, <2>4 DEF RepeatInv, Repeating, Advanced
  <2>6. Held' => Held
    BY <1>2, <1>3, <1>4, <1>6, <2>1, <2>3, <2>4
       DEF Held, Repeating, Advanced, RepeatInv, Busy, SessionInv, PhaseInv
  <2>7. /\ Consumed' = Consumed /\ Posted' = Posted /\ Outstanding' <= Outstanding
        /\ Outstanding' \in Int /\ Outstanding \in Int /\ Consumed \in Int
    <3>1. Len(queue) \in Nat /\ call \in Int
      BY CallAssumption DEF SessionInv, SdoTypeOK
    <3>2. QED
      BY <1>2, <1>4, <2>1, <2>6, <3>1 DEF Consumed, Posted, Outstanding
  <2>8. task'.mode = "reader" /\ task'.step = "Read" => tx # NoMessage
    BY <1>3, <2>1, <2>3 DEF AnswerInv, Advanced
  <2>9. A + emergencies - Consumed \in Int
    BY <2>7, CountAssumption DEF SessionInv, SdoTypeOK
  <2>10. Outstanding' <= A + emergencies' - Consumed'
    BY <1>4, <2>3, <2>7, <2>9 DEF AnswerInv
  <2>11. AnswerInv(A)'
    BY <1>3, <1>4, <2>3, <2>6, <2>7, <2>8, <2>10 DEF AnswerInv
  <2>12. QED
    BY <2>5, <2>11
<1>11. QED
  BY <1>2, <1>5, <1>7, <1>8, <1>9, <1>10 DEF SessionInv, CallInv

----------------------------------------------------------------------------
(* The way of a PDU *)

LEMMA StepOfKind ==
  ASSUME NEW t \in Task, Live(t)
  PROVE  /\ KindOf(t) = "ReadTxStatus" <=> t.step = "Check" /\ t.mode = "reader"
         /\ KindOf(t) = "ReadRxStatus" <=> t.step = "Check" /\ t.mode = "writer"
         /\ KindOf(t) = "ReadTx" <=> t.step = "Read"
         /\ KindOf(t) = "WriteRx" <=> t.step = "Write"
         /\ KindOf(t) = "WriteActivation" <=> t.step = "RequestRepeat"
         /\ KindOf(t) = "ReadPdiControl" <=> t.step = "WaitRepeatAck"
         /\ t.step \in {"Read", "RequestRepeat", "WaitRepeatAck"} => t.mode = "reader"
         /\ t.step = "Write" => t.mode = "writer"
  BY TaskFields DEF Live, KindOf, StepsOf

\* The parts of the invariant that an answer on its way back leaves alone.
LEMMA ExchangeFrame ==
  ASSUME SessionInv, SdoExchange
  PROVE  /\ MailboxInv' /\ SdoTypeOK' /\ PhaseInv' /\ OkIsOwnAnswer' /\ Doomed' = Doomed
         /\ task \in Task /\ Busy /\ Live(task) /\ socket.command = KindOf(task)
         /\ ~socket.recv_flag /\ phase # "idle" /\ task.state = "Processing"
         /\ UNCHANGED <<task, given, mailbox_count, call, kind, phase, result, queue, seen,
                        emergencies, acted>>
         /\ socket'.recv_flag = TRUE
<1>1. Exchange /\ InFlight /\ UNCHANGED <<callVars, deviceVars>>
  BY DEF SdoExchange, Exchange, Exchanged, Missed
<1>2. socket.command # "None" /\ ~socket.recv_flag
  BY <1>1 DEF InFlight, PduKind
<1>3. task \in Task /\ Busy /\ Live(task) /\ socket.command = KindOf(task)
  BY <1>2, FlightIsLive DEF SessionInv
<1>4. MailboxInv'
  BY <1>1, ExchangeKeeps DEF SessionInv
<1>5. UNCHANGED <<task, given>>
  BY <1>1 DEF Exchange, Exchanged, Missed, Answered
<1>6. UNCHANGED <<mailbox_count, call, kind, phase, result, queue, seen, emergencies, acted>>
  BY <1>1 DEF callVars, deviceVars
<1>7. phase # "idle"
  BY <1>3 DEF SessionInv, PhaseInv
<1>8. socket'.recv_flag = TRUE
  <2>1. socket \in Socket
    BY DEF SessionInv, MailboxInv, TypeOK
  <2>2. QED
    BY <1>1, <2>1 DEF Exchange, Exchanged, Missed, Answered, Socket
<1>9. SdoTypeOK' /\ PhaseInv' /\ OkIsOwnAnswer' /\ Doomed' = Doomed
  BY <1>5, <1>6, <1>7 DEF SessionInv, SdoTypeOK, PhaseInv, OkIsOwnAnswer, Doomed, Busy
<1>10. QED
  BY <1>2, <1>3, <1>4, <1>5, <1>6, <1>7, <1>8, <1>9 DEF Busy

LEMMA MissedKeeps ==
  ASSUME SessionInv, SdoExchange, Missed
  PROVE  SessionInv'
<1>1. PICK A \in 0 .. call : CallInv(A)
  BY DEF SessionInv
<1>2. /\ MailboxInv' /\ SdoTypeOK' /\ PhaseInv' /\ OkIsOwnAnswer' /\ Doomed' = Doomed
      /\ task \in Task /\ Busy /\ Live(task) /\ socket.command = KindOf(task)
      /\ ~socket.recv_flag /\ phase # "idle" /\ task.state = "Processing"
      /\ UNCHANGED <<task, given, mailbox_count, call, kind, phase, result, queue, seen,
                     emergencies, acted>>
      /\ socket'.recv_flag = TRUE
  BY ExchangeFrame
<1>3. socket'.wkc_ok = FALSE /\ copies' = copies /\ UNCHANGED <<rx, tx, last, repeat, repeat_ack>>
  <2>1. socket \in Socket
    BY DEF SessionInv, MailboxInv, TypeOK
  <2>2. QED
    BY <2>1 DEF Missed, Answered, Socket, slaveVars
<1>4. ActedInv(A)'
  BY <1>1, <1>2, <1>3 DEF CallInv, ActedInv, Waiting
<1>5. ASSUME ~Doomed PROVE RepeatInv' /\ AnswerInv(A)'
  <2>1. RepeatInv /\ AnswerInv(A)
    BY <1>1, <1>5 DEF CallInv
  <2>2. RepeatInv'
    BY <1>2, <1>3, <2>1 DEF RepeatInv, Repeating
  <2>3. task.step = "Read" => tx # NoMessage
    BY <1>2, <2>1, StepOfKind DEF AnswerInv
  <2>4. Held' <=> Held
    BY <1>2, <1>3, <2>3 DEF Held, Repeating
  <2>5. Outstanding' = Outstanding /\ Consumed' = Consumed /\ Posted' = Posted
    BY <1>2, <1>3, <2>4 DEF Outstanding, Consumed, Posted
  <2>6. AnswerInv(A)'
    BY <1>2, <1>3, <2>1, <2>4, <2>5 DEF AnswerInv
  <2>7. QED
    BY <2>2, <2>6
<1>6. QED
  BY <1>1, <1>2, <1>4, <1>5 DEF SessionInv, CallInv

LEMMA ExchangedKeeps ==
  ASSUME SessionInv, SdoExchange, NEW counted \in BOOLEAN, Exchanged(counted)
  PROVE  SessionInv'
<1>1. PICK A \in 0 .. call : CallInv(A)
  BY DEF SessionInv
<1>2. /\ MailboxInv' /\ SdoTypeOK' /\ PhaseInv' /\ OkIsOwnAnswer' /\ Doomed' = Doomed
      /\ task \in Task /\ Busy /\ Live(task) /\ socket.command = KindOf(task)
      /\ ~socket.recv_flag /\ phase # "idle" /\ task.state = "Processing"
      /\ UNCHANGED <<task, given, mailbox_count, call, kind, phase, result, queue, seen,
                     emergencies, acted>>
      /\ socket'.recv_flag = TRUE
  BY ExchangeFrame
<1>3. /\ socket'.wkc_ok = counted
      /\ socket'.full = AnswerFull(socket.command) /\ socket'.bit = AnswerBit(socket.command)
      /\ socket.command # "WriteRx" /\ phase = "write" => copies' = copies
      /\ Execute(socket.command, buf, task.activation)
  <2>1. /\ socket \in Socket /\ AnswerFull(socket.command) \in BOOLEAN
        /\ AnswerBit(socket.command) \in BOOLEAN
    BY DEF SessionInv, MailboxInv, TypeOK, SlaveType, AnswerFull, AnswerBit
  <2>2. phase = "write" => socket.command # "ReadTx"
    BY <1>2, StepOfKind DEF SessionInv, PhaseInv
  <2>3. QED
    BY <2>1, <2>2 DEF Exchanged, Answered, Socket
<1>4. /\ task.step = "Check" => socket.command \in {"ReadRxStatus", "ReadTxStatus"}
      /\ task.step = "Check" /\ task.mode = "reader" => socket.command = "ReadTxStatus"
      /\ task.step = "Check" /\ task.mode = "writer" => socket.command = "ReadRxStatus"
      /\ task.step = "Read" <=> socket.command = "ReadTx"
      /\ task.step = "Write" <=> socket.command = "WriteRx"
      /\ task.step = "RequestRepeat" <=> socket.command = "WriteActivation"
      /\ task.step = "WaitRepeatAck" <=> socket.command = "ReadPdiControl"
      /\ task.step = "Write" => task.mode = "writer"
      /\ task.step \in {"Read", "RequestRepeat", "WaitRepeatAck"} => task.mode = "reader"
      /\ task.mode \in {"reader", "writer"}
  BY <1>2, StepOfKind, TaskFields
<1>5. ActedInv(A)'
  <2>1. ActedInv(A)
    BY <1>1 DEF CallInv
  <2>2. CASE socket.command = "WriteRx"
    <3>1. rx = Zero /\ rx' = buf /\ task.step = "Write" /\ task.mode = "writer"
      BY <1>3, <1>4, <2>2 DEF Execute
    <3>2. call > 0 /\ ~task.wait
      BY <1>2, <3>1 DEF SessionInv, PhaseInv
    <3>3. buf = Whole(given)
      BY <1>2, <3>1, <3>2 DEF SessionInv, MailboxInv, MessageKept
    <3>4. /\ given = [call |-> call, kind |-> kind, count |-> mailbox_count]
          /\ IsCount(call, mailbox_count)
      BY <3>2 DEF SessionInv, PhaseInv
    <3>5. /\ rx'.body = given /\ rx' = Whole(rx'.body) /\ rx'.body.call = call
          /\ rx'.body.count = mailbox_count
      BY <3>1, <3>3, <3>4 DEF Whole
    <3>6. given \in SdoMessage /\ rx' # Zero
      <4>1. given \in Message
        BY <3>4, SdoMessageAssumption DEF SessionInv, SdoTypeOK, SdoMessage
      <4>2. QED
        BY <3>5, <4>1, SdoMessageAssumption, MessageAssumption DEF Zero, Whole
    <3>7. call <= A + 1 /\ call \in Nat
      BY <1>2, <2>1, <3>1, CallAssumption DEF ActedInv, SessionInv, SdoTypeOK
    <3>8. call = A \/ call = A + 1
      BY <3>7
    <3>9. QED
      BY <1>2, <2>1, <3>2, <3>4, <3>5, <3>6, <3>7, <3>8 DEF ActedInv, Waiting
  <2>3. CASE socket.command # "WriteRx"
    <3>1. rx' = rx
      BY <1>3, <2>3 DEF Execute, slaveVars
    <3>2. task.mode = "writer" /\ task.step = "Check" /\ ~socket'.full => call <= A + 1
      <4>1. call \in Nat /\ A \in Nat
        BY CallAssumption DEF SessionInv, SdoTypeOK
      <4>2. rx = Zero => call <= A + 1
        BY <2>1, <4>1 DEF ActedInv, Waiting
      <4>3. QED
        BY <1>3, <1>4, <4>2 DEF AnswerFull
    <3>3. QED
      BY <1>2, <1>3, <1>4, <2>1, <2>3, <3>1, <3>2 DEF ActedInv, Waiting
  <2>4. QED
    BY <2>2, <2>3
<1>6. ASSUME ~Doomed PROVE RepeatInv' /\ AnswerInv(A)'
  <2>1. RepeatInv /\ AnswerInv(A)
    BY <1>1, <1>6 DEF CallInv
  <2>2. CASE socket.command = "WriteActivation"
    <3>1. repeat' = task.activation /\ UNCHANGED <<tx, last, repeat_ack>>
      BY <1>3, <2>2 DEF Execute
    <3>2. RepeatInv'
      BY <1>2, <1>4, <2>2, <3>1 DEF RepeatInv, Repeating
    <3>3. Held' <=> Held
      BY <1>2, <1>4, <2>2, <3>1 DEF Held, Repeating
    <3>4. Outstanding' = Outstanding /\ Consumed' = Consumed /\ Posted' = Posted
      BY <1>2, <3>1, <3>3 DEF Outstanding, Consumed, Posted
    <3>5. AnswerInv(A)'
      BY <1>2, <1>4, <2>1, <2>2, <3>1, <3>3, <3>4 DEF AnswerInv
    <3>6. QED
      BY <3>2, <3>5
  <2>3. CASE socket.command = "ReadTx"
    <3>1. tx # NoMessage /\ last' = tx /\ tx' = NoMessage /\ UNCHANGED <<repeat, repeat_ack>>
      BY <1>3, <2>3 DEF Execute
    <3>2. RepeatInv'
      BY <1>2, <1>4, <2>1, <2>3, <3>1 DEF RepeatInv, Repeating
    <3>3. ~Held
      BY <1>2, <1>4, <2>3 DEF Held, Repeating
    <3>4. Len(queue) \in Nat
      BY DEF SessionInv, SdoTypeOK
    <3>5. Posted' = 0 /\ Outstanding' <= Outstanding /\ Consumed' = Consumed
      BY <1>2, <3>1, <3>3, <3>4 DEF Posted, Outstanding, Consumed
    <3>6. Outstanding' \in Int /\ Outstanding \in Int /\ Consumed \in Int
      BY <1>2, <3>1, <3>4, CallAssumption DEF Outstanding, Posted, Consumed, SessionInv, SdoTypeOK
    <3>7. Outstanding' <= A + emergencies' - Consumed'
      <4>1. Outstanding <= A + emergencies - Consumed /\ emergencies' = emergencies
        BY <1>2, <2>1 DEF AnswerInv
      <4>2. A + emergencies - Consumed \in Int
        BY <3>6, CallAssumption, CountAssumption DEF SessionInv, SdoTypeOK
      <4>3. QED
        BY <3>5, <3>6, <4>1, <4>2
    <3>8. Fresh(last', A, Len(queue') + Posted')
      BY <1>2, <2>1, <3>1, <3>4, <3>5 DEF AnswerInv
    <3>9. AnswerInv(A)'
      BY <1>2, <1>4, <2>1, <2>3, <3>1, <3>7, <3>8 DEF AnswerInv
    <3>10. QED
      BY <3>2, <3>9
  <2>4. CASE socket.command \notin {"WriteActivation", "ReadTx"}
    <3>1. UNCHANGED <<tx, last, repeat, repeat_ack>>
      BY <1>3, <2>4 DEF Execute, slaveVars
    <3>2. /\ socket.command = "ReadTxStatus" =>
               socket'.bit = repeat /\ socket'.full = (tx # NoMessage)
          /\ socket.command = "ReadPdiControl" => socket'.bit = repeat_ack
      BY <1>3 DEF AnswerBit, AnswerFull
    <3>3. RepeatInv'
      BY <1>2, <1>4, <2>1, <2>4, <3>1, <3>2 DEF RepeatInv, Repeating
    <3>4. Held' <=> Held
      BY <1>2, <1>4, <2>4, <3>1 DEF Held, Repeating
    <3>5. Outstanding' = Outstanding /\ Consumed' = Consumed /\ Posted' = Posted
      BY <1>2, <3>1, <3>4 DEF Outstanding, Consumed, Posted
    <3>6. AnswerInv(A)'
      BY <1>2, <1>4, <2>1, <2>4, <3>1, <3>2, <3>4, <3>5 DEF AnswerInv
    <3>7. QED
      BY <3>3, <3>6
  <2>5. QED
    BY <2>2, <2>3, <2>4
<1>7. QED
  BY <1>1, <1>2, <1>5, <1>6 DEF SessionInv, CallInv

----------------------------------------------------------------------------
(* The slave *)

LEMMA QueueAppend ==
  ASSUME NEW S, NEW q \in Seq(S), NEW e \in S
  PROVE  /\ Append(q, e) \in Seq(S) /\ Len(q) \in Nat /\ Len(Append(q, e)) = Len(q) + 1
         /\ Append(q, e)[Len(q) + 1] = e
         /\ \A i \in 1 .. Len(q) : Append(q, e)[i] = q[i]
  OBVIOUS

LEMMA QueueTail ==
  ASSUME NEW S, NEW q \in Seq(S), q # <<>>
  PROVE  /\ Tail(q) \in Seq(S) /\ Len(q) \in Nat /\ Len(q) > 0 /\ Len(Tail(q)) = Len(q) - 1
         /\ Head(q) = q[1] /\ q[1] \in S
         /\ \A i \in 1 .. Len(q) - 1 : Tail(q)[i] = q[i + 1]
  OBVIOUS

\* A message ages by one when the slave has acted on another call.
LEMMA FreshAges ==
  ASSUME NEW m, NEW A \in Nat, NEW B \in {A, A + 1}, NEW d \in Int, NEW e \in Int,
         Fresh(m, A, d), e - d >= B - A
  PROVE  Fresh(m, B, e)
  BY DEF Fresh

\* What the own steps of the slave leave alone.
LEMMA DeviceFrame ==
  ASSUME SessionInv, UNCHANGED <<taskVars, callVars>>, last' = last,
         SlaveStep \/ UNCHANGED vars, queue' \in Seq(SdoMessage),
         seen' \in 0 .. CountLimit, emergencies' \in 0 .. MaxEmergencies
  PROVE  /\ MailboxInv' /\ SdoTypeOK' /\ PhaseInv' /\ Doomed' = Doomed
         /\ UNCHANGED <<task, socket, buf, given, copies, mailbox_count, call, kind, phase,
                        result, Consumed>>
         /\ acted' = acted => OkIsOwnAnswer'
<1>1. MailboxInv'
  BY OthersKeep DEF SessionInv
<1>2. UNCHANGED <<task, socket, buf, given, copies, mailbox_count, call, kind, phase, result>>
  BY DEF taskVars, history, callVars
<1>3. SdoTypeOK' /\ PhaseInv' /\ Doomed' = Doomed /\ Consumed' = Consumed
  BY <1>2 DEF SessionInv, SdoTypeOK, PhaseInv, Doomed, Busy, Consumed
<1>4. acted' = acted => OkIsOwnAnswer'
  BY <1>2 DEF SessionInv, OkIsOwnAnswer
<1>5. QED
  BY <1>1, <1>2, <1>3, <1>4

\* A step that appends e to the queue, on which B calls have been acted then.
LEMMA AppendKeeps ==
  ASSUME SessionInv, NEW A \in 0 .. call, AnswerInv(A), NEW B \in {A, A + 1},
         NEW e \in SdoMessage, Fresh(e, B, 0), queue' = Append(queue, e),
         UNCHANGED <<task, socket, tx, last, repeat, repeat_ack, phase, Consumed>>,
         emergencies' \in Int, emergencies' = A + emergencies + 1 - B
  PROVE  AnswerInv(B)'
<1>1. /\ queue' \in Seq(SdoMessage) /\ Len(queue) \in Nat /\ Len(queue') = Len(queue) + 1
      /\ queue'[Len(queue) + 1] = e /\ \A i \in 1 .. Len(queue) : queue'[i] = queue[i]
  BY QueueAppend DEF SessionInv, SdoTypeOK
<1>2. A \in Nat /\ B \in Nat /\ call \in Nat /\ Consumed \in Int /\ emergencies \in Int
  BY CallAssumption, CountAssumption DEF SessionInv, SdoTypeOK, Consumed
<1>3. (Held' <=> Held) /\ Posted' = Posted /\ Posted \in Int
  BY DEF Held, Repeating, Posted
<1>4. Outstanding' = Outstanding + 1 /\ Outstanding \in Int
  BY <1>1, <1>3 DEF Outstanding
<1>5. Outstanding <= A + emergencies - Consumed
  BY DEF AnswerInv
<1>6. Outstanding' <= B + emergencies' - Consumed'
  BY <1>2, <1>4, <1>5
<1>7. ASSUME NEW i \in 1 .. Len(queue')
      PROVE  Fresh(queue'[i], B, Len(queue') - i)
  <2>1. CASE i = Len(queue) + 1
    BY <1>1, <2>1
  <2>2. CASE i \in 1 .. Len(queue)
    <3>1. Fresh(queue[i], A, Len(queue) - i)
      BY <2>2 DEF AnswerInv
    <3>2. /\ Len(queue) - i \in Int /\ Len(queue') - i \in Int
          /\ (Len(queue') - i) - (Len(queue) - i) >= B - A
      <4>1. Len(queue') - i = (Len(queue) - i) + 1 /\ Len(queue) - i \in Int
        BY <1>1, <2>2
      <4>2. B - A <= 1
        BY <1>2
      <4>3. QED
        BY <1>2, <4>1, <4>2
    <3>3. Fresh(queue[i], B, Len(queue') - i)
      BY <1>2, <3>1, <3>2, FreshAges
    <3>4. QED
      BY <1>1, <2>2, <3>3
  <2>3. QED
    BY <1>1, <1>7, <2>1, <2>2
<1>8. ASSUME tx # NoMessage PROVE Fresh(tx', B, Len(queue'))
  <2>1. Fresh(tx, A, Len(queue))
    BY <1>8 DEF AnswerInv
  <2>2. Len(queue) \in Int /\ Len(queue') \in Int /\ Len(queue') - Len(queue) >= B - A
    BY <1>1, <1>2
  <2>3. QED
    BY <1>2, <2>1, <2>2, FreshAges
<1>9. ASSUME Held PROVE last' # NoMessage /\ Fresh(last', B, Len(queue') + Posted')
  <2>1. last # NoMessage /\ Fresh(last, A, Len(queue) + Posted)
    BY <1>9 DEF AnswerInv
  <2>2. /\ Len(queue) + Posted \in Int /\ Len(queue') + Posted' \in Int
        /\ (Len(queue') + Posted') - (Len(queue) + Posted) >= B - A
    BY <1>1, <1>2, <1>3
  <2>3. QED
    BY <1>2, <2>1, <2>2, FreshAges
<1>10. QED
  BY <1>3, <1>6, <1>7, <1>8, <1>9 DEF AnswerInv

LEMMA EmergencyKeeps ==
  ASSUME SessionInv, SlaveEmergency
  PROVE  SessionInv'
<1>1. PICK A \in 0 .. call : CallInv(A)
  BY DEF SessionInv
<1>2. /\ emergencies < MaxEmergencies /\ emergencies' = emergencies + 1
      /\ queue' = Append(queue, Emergency)
      /\ UNCHANGED <<seen, acted, slaveVars, taskVars, callVars>>
  BY DEF SlaveEmergency
<1>3. Emergency \in SdoMessage
  BY CallAssumption, CountAssumption DEF Emergency, SdoMessage
<1>4. queue' \in Seq(SdoMessage)
  BY <1>2, <1>3, QueueAppend DEF SessionInv, SdoTypeOK
<1>5. emergencies' \in 0 .. MaxEmergencies /\ emergencies \in Int /\ A \in Int
  BY <1>2, CountAssumption, CallAssumption DEF SessionInv, SdoTypeOK
<1>6. UNCHANGED vars /\ UNCHANGED <<rx, tx, last, repeat, repeat_ack>>
  BY <1>2 DEF vars, slaveVars
<1>7. /\ MailboxInv' /\ SdoTypeOK' /\ PhaseInv' /\ Doomed' = Doomed
      /\ UNCHANGED <<task, socket, buf, given, copies, mailbox_count, call, kind, phase,
                     result, Consumed>>
      /\ OkIsOwnAnswer'
  BY <1>2, <1>4, <1>5, <1>6, DeviceFrame DEF SessionInv, SdoTypeOK
<1>8. ActedInv(A)'
  BY <1>1, <1>2, <1>6, <1>7 DEF CallInv, ActedInv, Waiting, Busy
<1>9. ASSUME ~Doomed PROVE RepeatInv' /\ AnswerInv(A)'
  <2>1. RepeatInv /\ AnswerInv(A)
    BY <1>1, <1>9 DEF CallInv
  <2>2. RepeatInv'
    BY <1>6, <1>7, <2>1 DEF RepeatInv, Repeating
  <2>3. Fresh(Emergency, A, 0) /\ emergencies' = A + emergencies + 1 - A
    BY <1>2, <1>5 DEF Fresh
  <2>4. AnswerInv(A)'
    BY <1>2, <1>3, <1>5, <1>6, <1>7, <2>1, <2>3, AppendKeeps
  <2>5. QED
    BY <2>2, <2>4
<1>10. QED
  BY <1>1, <1>7, <1>8, <1>9 DEF SessionInv, CallInv

\* The slave takes a request from its mailbox: a copy of the one it acted on last, or the
\* one after it.
LEMMA ActsKeeps ==
  ASSUME SessionInv, SlaveActs
  PROVE  SessionInv'
<1>1. PICK A \in 0 .. call : CallInv(A)
  BY DEF SessionInv
<1>2. /\ rx # Zero /\ rx' = Zero /\ UNCHANGED <<tx, last, repeat, repeat_ack>>
      /\ UNCHANGED <<emergencies, taskVars, callVars>> /\ TakeRequest
  BY DEF SlaveActs, TakeRequest
<1>3. SlaveStep
  BY <1>2 DEF SlaveStep
<1> DEFINE m == rx.body
<1>4. /\ ActedInv(A) /\ rx = Whole(m) /\ m \in SdoMessage /\ m.call \in {A, A + 1}
      /\ m.call \in 1 .. call /\ IsCount(m.call, m.count)
      /\ A = 0 => seen = 0
      /\ A # 0 => IsCount(A, seen)
  BY <1>1, <1>2 DEF CallInv, ActedInv
<1>5. A \in Nat /\ call \in 0 .. MaxCalls /\ MaxCalls \in Nat
  BY CallAssumption DEF SessionInv, SdoTypeOK
<1> HIDE DEF m
<1>6. CASE m.call = A
  <2>1. Repeated(m)
    <3>1. A # 0
      BY <1>4, <1>6
    <3>2. m.count = seen /\ m.count # 0
      <4>1. m.count = seen
        BY <1>4, <1>5, <1>6, <3>1, CountFunction
      <4>2. m.count \in 1 .. CountLimit
        BY <1>4 DEF IsCount
      <4>3. QED
        BY <4>1, <4>2, CountAssumption
    <3>3. QED
      BY <3>2 DEF Repeated
  <2>2. UNCHANGED <<queue, seen, acted>>
    BY <2>1 DEF SlaveActs, m
  <2>3. /\ MailboxInv' /\ SdoTypeOK' /\ PhaseInv' /\ Doomed' = Doomed
        /\ UNCHANGED <<task, socket, buf, given, copies, mailbox_count, call, kind, phase,
                       result, Consumed>>
        /\ OkIsOwnAnswer'
    BY <1>2, <1>3, <2>2, DeviceFrame DEF SessionInv, SdoTypeOK
  <2>4. ~Waiting(A + 1) /\ (call = A + 1 => ~Waiting(call))
    BY <1>5, <1>6 DEF Waiting, m
  <2>5. ActedInv(A)'
    BY <1>2, <1>4, <2>2, <2>3, <2>4 DEF ActedInv, Busy
  <2>6. ASSUME ~Doomed PROVE RepeatInv' /\ AnswerInv(A)'
    <3>1. RepeatInv /\ AnswerInv(A)
      BY <1>1, <2>6 DEF CallInv
    <3>2. QED
      BY <1>2, <2>2, <2>3, <3>1, ZenonT(60)
         DEF RepeatInv, AnswerInv, Repeating, Held, Outstanding, Posted
  <2>7. QED
    BY <1>1, <2>3, <2>5, <2>6 DEF SessionInv, CallInv
<1>7. CASE m.call = A + 1
  <2>1. ~Repeated(m)
    <3>1. CASE A = 0
      BY <1>4, <3>1 DEF Repeated
    <3>2. CASE A # 0
      <4>1. m.count # seen
        BY <1>4, <1>5, <1>7, <3>2, CountDiffers
      <4>2. QED
        BY <4>1 DEF Repeated
    <3>3. QED
      BY <3>1, <3>2
  <2>2. ActOn(m)
    BY <1>4, <2>1 DEF SlaveActs, m
  <2>3. PICK k \in {m.kind} \cup Refusal : queue' = Append(queue, [m EXCEPT !.kind = k])
    BY <2>2 DEF ActOn
  <2> DEFINE e == [m EXCEPT !.kind = k]
  <2>4. e \in SdoMessage /\ e.call = A + 1 /\ e.count = m.count
    BY <1>4, <1>7, <2>3 DEF SdoMessage
  <2> HIDE DEF e
  <2>5. queue' = Append(queue, e)
    BY <2>3 DEF e
  <2>6. queue' \in Seq(SdoMessage)
    BY <2>4, <2>5, QueueAppend DEF SessionInv, SdoTypeOK
  <2>7. seen' = m.count /\ seen' \in 0 .. CountLimit
    BY <1>4, <2>2 DEF ActOn, SdoMessage
  <2>8. /\ MailboxInv' /\ SdoTypeOK' /\ PhaseInv' /\ Doomed' = Doomed
        /\ UNCHANGED <<task, socket, buf, given, copies, mailbox_count, call, kind, phase,
                       result, Consumed>>
    BY <1>2, <1>3, <2>6, <2>7, DeviceFrame DEF SessionInv, SdoTypeOK
  <2>9. acted' = [c \in Call |-> IF c <= A + 1 THEN 1 ELSE 0]
    <3>1. A + 1 \in Call
      BY <1>4, <1>5, <1>7 DEF Call
    <3>2. acted = [c \in Call |-> IF c <= A THEN 1 ELSE 0]
      BY <1>4 DEF ActedInv
    <3>3. acted[A + 1] = 0
      BY <1>5, <3>1, <3>2
    <3>4. acted' = [acted EXCEPT ![A + 1] = 1]
      BY <1>7, <2>2, <3>3 DEF ActOn, MaxCopies
    <3>5. QED
      BY <1>5, <3>2, <3>4 DEF Call
  <2>10. A + 1 \in 0 .. call
    BY <1>4, <1>5, <1>7
  <2>11. ActedInv(A + 1)'
    <3>1. call <= A + 2
      BY <1>4, <1>5 DEF ActedInv
    <3>2. phase \in {"idle", "read"} \/ (phase = "write" /\ copies > 0) => call = A + 1
      BY <1>4, <1>5, <2>10 DEF ActedInv
    <3>3. IsCount(A + 1, seen') /\ A + 1 # 0
      BY <1>4, <1>5, <1>7, <2>7
    <3>4. QED
      BY <1>2, <1>5, <2>8, <2>9, <2>10, <3>1, <3>2, <3>3 DEF ActedInv
  <2>12. OkIsOwnAnswer'
    <3> SUFFICES ASSUME phase = "idle", result = "Ok"
                 PROVE  buf' = Whole(last') /\ last'.call = call' /\ acted'[call'] = 1
      BY <2>8 DEF OkIsOwnAnswer, Whole
    <3>1. buf = Whole(last) /\ last.call = call
      BY DEF SessionInv, OkIsOwnAnswer
    <3>2. acted'[call] = 1
      <4>1. call = A + 1 /\ call \in Call
        BY <1>4, <1>5, <2>10 DEF ActedInv, Call
      <4>2. QED
        BY <2>9, <4>1
    <3>3. QED
      BY <1>2, <2>8, <3>1, <3>2
  <2>13. ASSUME ~Doomed PROVE RepeatInv' /\ AnswerInv(A + 1)'
    <3>1. RepeatInv /\ AnswerInv(A)
      BY <1>1, <2>13 DEF CallInv
    <3>2. RepeatInv'
      BY <1>2, <2>8, <3>1 DEF RepeatInv, Repeating
    <3>3. Fresh(e, A + 1, 0)
      BY <1>4, <1>5, <1>7, <2>4 DEF Fresh
    <3>4. emergencies' \in Int /\ emergencies' = A + emergencies + 1 - (A + 1)
      BY <1>2, <1>5, CountAssumption DEF SessionInv, SdoTypeOK
    <3>5. AnswerInv(A + 1)'
      BY <1>2, <2>4, <2>5, <2>8, <3>1, <3>3, <3>4, AppendKeeps
    <3>6. QED
      BY <3>2, <3>5
  <2>14. QED
    BY <2>8, <2>10, <2>11, <2>12, <2>13 DEF SessionInv, CallInv
<1>8. QED
  BY <1>4, <1>6, <1>7

LEMMA PostsKeeps ==
  ASSUME SessionInv, SlavePosts
  PROVE  SessionInv'
<1>1. PICK A \in 0 .. call : CallInv(A)
  BY DEF SessionInv
<1>2. /\ queue # <<>> /\ tx = NoMessage /\ tx' = Head(queue) /\ queue' = Tail(queue)
      /\ UNCHANGED <<rx, last, repeat, repeat_ack, seen, emergencies, acted, taskVars, callVars>>
      /\ PostResponse(Head(queue))
  BY DEF SlavePosts, PostResponse
<1>3. /\ queue' \in Seq(SdoMessage) /\ Len(queue) \in Nat /\ Len(queue) > 0
      /\ Len(queue') = Len(queue) - 1 /\ tx' = queue[1] /\ tx' \in SdoMessage
      /\ \A i \in 1 .. Len(queue) - 1 : queue'[i] = queue[i + 1]
  BY <1>2, QueueTail DEF SessionInv, SdoTypeOK
<1>4. SlaveStep /\ tx' # NoMessage
  BY <1>2, <1>3, SdoMessageAssumption, MessageAssumption DEF SlaveStep
<1>5. /\ MailboxInv' /\ SdoTypeOK' /\ PhaseInv' /\ Doomed' = Doomed
      /\ UNCHANGED <<task, socket, buf, given, copies, mailbox_count, call, kind, phase,
                     result, Consumed>>
      /\ OkIsOwnAnswer'
  BY <1>2, <1>3, <1>4, DeviceFrame DEF SessionInv, SdoTypeOK
<1>6. ActedInv(A)'
  BY <1>1, <1>2, <1>5 DEF CallInv, ActedInv, Waiting, Busy
<1>7. ASSUME ~Doomed PROVE RepeatInv' /\ AnswerInv(A)'
  <2>1. RepeatInv /\ AnswerInv(A)
    BY <1>1, <1>7 DEF CallInv
  <2>2. RepeatInv'
    BY <1>2, <1>5, <2>1 DEF RepeatInv, Repeating
  <2>3. Held' => Held
    BY <1>2, <1>4, <1>5 DEF Held, Repeating
  <2>4. Posted = 0 /\ Posted' = 1
    BY <1>2, <1>4 DEF Posted
  <2>5. Outstanding' <= Outstanding /\ Outstanding' \in Int /\ Outstanding \in Int
    BY <1>3, <2>3, <2>4 DEF Outstanding
  <2>6. Outstanding' <= A + emergencies' - Consumed'
    <3>1. Outstanding <= A + emergencies - Consumed
      BY <2>1 DEF AnswerInv
    <3>2. A \in Int /\ emergencies \in Int /\ Consumed \in Int
      BY CallAssumption, CountAssumption DEF SessionInv, SdoTypeOK, Consumed
    <3>3. QED
      BY <1>2, <1>5, <2>5, <3>1, <3>2
  <2>7. ASSUME NEW i \in 1 .. Len(queue')
        PROVE  Fresh(queue'[i], A, Len(queue') - i)
    <3>1. i + 1 \in 1 .. Len(queue) /\ queue'[i] = queue[i + 1]
      BY <1>3, <2>7
    <3>2. Fresh(queue[i + 1], A, Len(queue) - (i + 1))
      BY <2>1, <3>1 DEF AnswerInv
    <3>3. Len(queue) - (i + 1) = Len(queue') - i
      BY <1>3, <2>7
    <3>4. QED
      BY <3>1, <3>2, <3>3
  <2>8. Fresh(tx', A, Len(queue'))
    <3>1. 1 \in 1 .. Len(queue)
      BY <1>3
    <3>2. QED
      BY <1>3, <2>1, <3>1 DEF AnswerInv
  <2>9. ASSUME Held' PROVE last' # NoMessage /\ Fresh(last', A, Len(queue') + Posted')
    <3>1. Len(queue') + Posted' = Len(queue) + Posted
      BY <1>3, <2>4
    <3>2. QED
      BY <1>2, <2>1, <2>3, <2>9, <3>1 DEF AnswerInv
  <2>10. AnswerInv(A)'
    BY <1>4, <2>6, <2>7, <2>8, <2>9 DEF AnswerInv
  <2>11. QED
    BY <2>2, <2>10
<1>8. QED
  BY <1>1, <1>5, <1>6, <1>7 DEF SessionInv, CallInv

LEMMA RepeatsKeeps ==
  ASSUME SessionInv, SlaveRepeats
  PROVE  SessionInv'
<1>1. PICK A \in 0 .. call : CallInv(A)
  BY DEF SessionInv
<1>2. /\ repeat # repeat_ack /\ repeat_ack' = repeat
      /\ tx' = IF tx = NoMessage THEN last ELSE tx
      /\ UNCHANGED <<rx, last, repeat, deviceVars, taskVars, callVars>> /\ RepeatLast
  BY DEF SlaveRepeats, RepeatLast
<1>3. SlaveStep /\ UNCHANGED <<queue, seen, emergencies, acted>>
  BY <1>2 DEF SlaveStep, deviceVars
<1>4. /\ MailboxInv' /\ SdoTypeOK' /\ PhaseInv' /\ Doomed' = Doomed
      /\ UNCHANGED <<task, socket, buf, given, copies, mailbox_count, call, kind, phase,
                     result, Consumed>>
      /\ OkIsOwnAnswer'
  BY <1>2, <1>3, DeviceFrame DEF SessionInv, SdoTypeOK
<1>5. ActedInv(A)'
  BY <1>1, <1>2, <1>3, <1>4 DEF CallInv, ActedInv, Waiting, Busy
<1>6. ASSUME ~Doomed PROVE RepeatInv' /\ AnswerInv(A)'
  <2>1. RepeatInv /\ AnswerInv(A)
    BY <1>1, <1>6 DEF CallInv
  <2>2. Repeating /\ repeat = task.activation /\ repeat_ack' = task.activation
    BY <1>2, <2>1 DEF RepeatInv, Repeating
  <2>3. RepeatInv'
    BY <1>2, <1>4, <2>1, <2>2 DEF RepeatInv, Repeating
  <2>4. task.state # "Complete" /\ task.mode = "reader" /\ phase = "read"
    <3>1. task \in Task /\ task.state # "Complete"
      BY <2>2 DEF SessionInv, MailboxInv, TypeOK, ErrorEnds, Repeating
    <3>2. task.mode = "reader"
      BY <2>2, <3>1, TaskFields DEF StepsOf, Repeating
    <3>3. phase = "read"
      BY <1>6, <2>2, <3>2 DEF Doomed, Repeating, SessionInv, PhaseInv, SdoTypeOK
    <3>4. QED
      BY <3>1, <3>2, <3>3
  <2>5. ~Held' /\ (Held <=> tx = NoMessage)
    BY <1>2, <1>4, <2>2, <2>4 DEF Held, Repeating
  <2>6. Len(queue) \in Nat
    BY DEF SessionInv, SdoTypeOK
  <2>7. CASE tx = NoMessage
    <3>1. tx' = last /\ last # NoMessage /\ Fresh(last, A, Len(queue))
      BY <1>2, <2>1, <2>5, <2>6, <2>7 DEF AnswerInv, Posted
    <3>2. Outstanding' = Outstanding
      BY <1>3, <2>5, <2>6, <2>7, <3>1 DEF Outstanding, Posted
    <3>3. QED
      BY <1>3, <1>4, <2>1, <2>3, <2>5, <3>1, <3>2 DEF AnswerInv
  <2>8. CASE tx # NoMessage
    <3>1. tx' = tx
      BY <1>2, <2>8
    <3>2. Outstanding' = Outstanding
      BY <1>3, <2>5, <2>8, <3>1 DEF Outstanding, Posted
    <3>3. QED
      BY <1>3, <1>4, <2>1, <2>3, <2>5, <3>1, <3>2 DEF AnswerInv
  <2>9. QED
    BY <2>7, <2>8
<1>7. QED
  BY <1>1, <1>4, <1>5, <1>6 DEF SessionInv, CallInv

LEMMA StutterKeeps ==
  ASSUME SessionInv, UNCHANGED sdoVars
  PROVE  SessionInv'
<1>1. /\ UNCHANGED <<taskVars, callVars, last, queue, seen, emergencies, acted, vars>>
      /\ UNCHANGED <<rx, tx, repeat, repeat_ack>>
  BY DEF sdoVars, vars, slaveVars, deviceVars
<1>2. PICK A \in 0 .. call : CallInv(A)
  BY DEF SessionInv
<1>3. /\ MailboxInv' /\ SdoTypeOK' /\ PhaseInv' /\ Doomed' = Doomed
      /\ UNCHANGED <<task, socket, buf, given, copies, mailbox_count, call, kind, phase,
                     result, Consumed>>
      /\ OkIsOwnAnswer'
  BY <1>1, DeviceFrame DEF SessionInv, SdoTypeOK
<1>4. ActedInv(A)'
  BY <1>1, <1>2, <1>3 DEF CallInv, ActedInv, Waiting, Busy
<1>5. RepeatInv => RepeatInv'
  BY <1>1, <1>3 DEF RepeatInv, Repeating
<1>6. AnswerInv(A) => AnswerInv(A)'
  BY <1>1, <1>3 DEF AnswerInv, Held, Repeating, Outstanding, Posted
<1>7. QED
  BY <1>2, <1>3, <1>4, <1>5, <1>6 DEF SessionInv, CallInv

----------------------------------------------------------------------------
(* Theorems *)

\* The inductive invariant of the calls, the task and the slave.
THEOREM SessionInvariance == SdoSpec => []SessionInv
<1>1. ASSUME SessionInv, [SdoNext]_sdoVars
      PROVE  SessionInv'
  <2>1. CASE \E k \in SdoKind : StartSdo(k)
    BY <1>1, <2>1, StartSdoKeeps
  <2>2. CASE CallStep
    BY <1>1, <2>2, BlockOnKeeps, WriteReturnsKeeps, ReadReturnsKeeps DEF CallStep
  <2>3. CASE LinkError
    BY <1>1, <2>3, LinkErrorKeeps
  <2>4. CASE SdoExchange
    <3>1. (\E counted \in BOOLEAN : Exchanged(counted)) \/ Missed
      BY <2>4 DEF SdoExchange, Exchange
    <3>2. QED
      BY <1>1, <2>4, <3>1, ExchangedKeeps, MissedKeeps
  <2>5. CASE Device
    BY <1>1, <2>5, ActsKeeps, PostsKeeps, EmergencyKeeps, RepeatsKeeps DEF Device
  <2>6. CASE UNCHANGED sdoVars
    BY <1>1, <2>6, StutterKeeps
  <2>7. QED
    BY <1>1, <2>1, <2>2, <2>3, <2>4, <2>5, <2>6 DEF SdoNext
<1>2. QED
  BY <1>1, InitSession, PTL DEF SdoSpec

\* A request that write_mailbox sends again (mailbox_write.rs) after a wrong working counter
\* does not make the slave act a second time, for every limit of the mailbox count from 2
\* on: increment_mb_count gives calls in a row different counts and never 0.
THEOREM SlaveActsOnce == SdoSpec => []ActedOnce
<1>1. SessionInv => ActedOnce
  <2> SUFFICES ASSUME SessionInv, NEW c \in Call PROVE acted[c] <= 1
    BY DEF ActedOnce
  <2>1. PICK A \in 0 .. call : acted = [k \in Call |-> IF k <= A THEN 1 ELSE 0]
    BY DEF SessionInv, CallInv, ActedInv
  <2>2. QED
    BY <2>1
<1>2. QED
  BY <1>1, SessionInvariance, PTL

\* read_sdo and write_sdo (task/mod.rs) return Ok only with the answer to their own request,
\* on which the slave has acted once, although earlier calls may have left answers behind:
\* as long as the slave sends fewer emergency messages than there are counts.
THEOREM OkAlwaysOwnAnswer == SdoSpec => []OkIsOwnAnswer
<1>1. SessionInv => OkIsOwnAnswer
  BY DEF SessionInv
<1>2. QED
  BY <1>1, SessionInvariance, PTL
=============================================================================

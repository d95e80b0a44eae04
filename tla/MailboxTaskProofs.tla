-------------------------- MODULE MailboxTaskProofs --------------------------
(***************************************************************************)
(* For every set of messages, all timeouts, every size of the buffer and   *)
(* whichever PDUs are missed or miscounted: what the outcomes of a reader  *)
(* and of a writer tell the caller, and that a message arrives whole.      *)
(***************************************************************************)
EXTENDS MailboxTask, TLAPS

\* A PDU in the socket is the one that the running task sent last; a task that has not
\* sent one is new, has just been given up by its halves, or has ended.
PduIsOwn ==
  /\ socket.command = "None" => socket = NoPdu
  /\ socket.command # "None" =>
       Busy /\ task.command = socket.command /\ socket.command = KindOf(task)
  /\ socket.command = "None" /\ Busy =>
       \/ task.step = "Check" /\ task.command = "NOP"
       \/ task.step = "Error" /\ task.error = "BufferSmall"

\* An error ends the reader or the writer, and their end is that of the task.
ErrorEnds ==
  /\ task.error # "none" => task.step = "Error"
  /\ task.step = "Complete" => ~Busy
  /\ task.state = "Complete" => task.step = "Complete"

\* A mailbox access that was counted has been executed.
CountedIsDone ==
  socket.recv_flag /\ socket.wkc_ok =>
    /\ socket.command = "WriteRx" => copies > 0
    /\ socket.command = "ReadTx" => copies > 0 /\ last # NoMessage /\ buf = Whole(last)

\* Before the writer, or a reader that has lost nothing, knows the state of the mailbox it
\* has not accessed it.
CheckedFirst ==
  task.step = "Check" /\ (task.mode = "writer" \/ ~task.wait) => copies = 0

\* The message of a writer that does not wait, in the buffer or saved.
MessageKept ==
  Busy /\ task.mode = "writer" /\ ~task.wait =>
    /\ task.step = "Check" /\ task.command = "NOP" => buf = Whole(given)
    /\ task.step = "Check" /\ task.command # "NOP" => task.saved = given /\ buf.body = given
    /\ task.step = "Write" => task.saved = given /\ buf = Whole(given)

MailboxInv ==
  /\ TypeOK
  /\ PduIsOwn
  /\ ErrorEnds
  /\ CountedIsDone
  /\ CheckedFirst
  /\ MessageKept
  /\ ReadOutcome
  /\ WriteOutcome

----------------------------------------------------------------------------
(* recieve_and_process *)

\* The states of the reader and of the writer.
StepsOf(mode) ==
  (IF mode = "reader" THEN {"Read", "RequestRepeat", "WaitRepeatAck"} ELSE {"Write"})
    \cup {"Idle", "Check", "Complete", "Error"}

LEMMA TaskFields ==
  ASSUME NEW t \in Task
  PROVE  /\ t.state \in {"Idle", "Processing", "Complete", "Error"}
         /\ t.mode \in {"reader", "writer"} /\ t.step \in StepsOf(t.mode)
         /\ t.error \in TaskError \cup {"none"} /\ t.is_first \in BOOLEAN /\ t.wait \in BOOLEAN
         /\ t.activation \in BOOLEAN /\ t.saved \in Message \cup {NoMessage}
         /\ t.command \in Command
<1>1. CASE t \in TaskOf("reader", {"Read", "RequestRepeat", "WaitRepeatAck"})
  BY <1>1 DEF TaskOf, StepsOf
<1>2. CASE t \in TaskOf("writer", {"Write"})
  BY <1>2 DEF TaskOf, StepsOf
<1>3. QED
  BY <1>1, <1>2 DEF Task

\* A task in another step, with another error or state.
LEMMA TaskStep ==
  ASSUME NEW t \in Task, NEW st \in StepsOf(t.mode)
  PROVE  LET u == [t EXCEPT !.step = st] IN
         /\ u \in Task /\ u.step = st
         /\ u.state = t.state /\ u.mode = t.mode /\ u.error = t.error /\ u.wait = t.wait
         /\ u.saved = t.saved /\ u.command = t.command /\ u.is_first = t.is_first
         /\ u.activation = t.activation
<1>1. CASE t \in TaskOf("reader", {"Read", "RequestRepeat", "WaitRepeatAck"})
  BY <1>1 DEF TaskOf, StepsOf, Task
<1>2. CASE t \in TaskOf("writer", {"Write"})
  BY <1>2 DEF TaskOf, StepsOf, Task
<1>3. QED
  BY <1>1, <1>2 DEF Task

LEMMA TaskNotes ==
  ASSUME NEW t \in Task, NEW f \in BOOLEAN, NEW w \in BOOLEAN, NEW a \in BOOLEAN,
         NEW m \in Message \cup {NoMessage}, NEW c \in Command
  PROVE  LET u == [t EXCEPT !.is_first = f, !.wait = w, !.activation = a, !.saved = m,
                            !.command = c] IN
         /\ u \in Task /\ u.wait = w /\ u.saved = m /\ u.command = c
         /\ u.step = t.step /\ u.state = t.state /\ u.mode = t.mode /\ u.error = t.error
<1>1. CASE t \in TaskOf("reader", {"Read", "RequestRepeat", "WaitRepeatAck"})
  BY <1>1, ZenonT(60) DEF TaskOf, Task
<1>2. CASE t \in TaskOf("writer", {"Write"})
  BY <1>2, ZenonT(60) DEF TaskOf, Task
<1>3. QED
  BY <1>1, <1>2 DEF Task

LEMMA TaskFails ==
  ASSUME NEW t \in Task, NEW e \in TaskError
  PROVE  /\ Fail(t, e) \in Task /\ Fail(t, e).step = "Error" /\ Fail(t, e).error = e
         /\ Fail(t, e).state = t.state /\ Fail(t, e).mode = t.mode
<1>1. CASE t \in TaskOf("reader", {"Read", "RequestRepeat", "WaitRepeatAck"})
  BY <1>1 DEF TaskOf, Task, Fail
<1>2. CASE t \in TaskOf("writer", {"Write"})
  BY <1>2 DEF TaskOf, Task, Fail
<1>3. QED
  BY <1>1, <1>2 DEF Task

LEMMA TaskOutcome ==
  ASSUME NEW t \in Task
  PROVE  /\ Outcome(t) \in Task
         /\ Outcome(t).state = IF t.step \in {"Complete", "Error"} THEN t.step ELSE t.state
         /\ Outcome(t).step = t.step /\ Outcome(t).mode = t.mode /\ Outcome(t).error = t.error
         /\ Outcome(t).wait = t.wait /\ Outcome(t).saved = t.saved
         /\ Outcome(t).command = t.command /\ Outcome(t).activation = t.activation
<1> DEFINE st == IF t.step \in {"Complete", "Error"} THEN t.step ELSE t.state
<1>0. st \in {"Idle", "Processing", "Complete", "Error"}
  BY TaskFields
<1>1. CASE t \in TaskOf("reader", {"Read", "RequestRepeat", "WaitRepeatAck"})
  BY <1>0, <1>1 DEF TaskOf, Task, Outcome
<1>2. CASE t \in TaskOf("writer", {"Write"})
  BY <1>0, <1>2 DEF TaskOf, Task, Outcome
<1>3. QED
  BY <1>1, <1>2 DEF Task

\* What becomes of a task without an error when its answer is taken: it fails, or it goes
\* on to a step as the working counter and the state of the mailbox allow.
Failed(t) ==
  /\ t.step = "Error" /\ t.error \in TaskError
  /\ t.error = "MailboxEmpty" => task.mode = "reader" /\ task.step = "Check" /\ ~task.wait
  /\ t.error \in {"MailboxAlreadyExisted", "NoSlaveReaction"} => task.step = "Check"

WentOn(t) ==
  /\ t.error = "none"
  /\ t.saved = task.saved
  /\ \/ /\ task.step = "Check" /\ t.step \in {"Read", "Write"} /\ t.wait = task.wait
        /\ socket.wkc_ok
        /\ t.step = "Read" => socket.full /\ t.activation = socket.bit
        /\ t.step = "Write" => ~socket.full
     \/ task.step = "Check" /\ t.step = "Check" /\ task.wait /\ t.wait
     \/ /\ task.step = "Read" /\ t.step = "RequestRepeat" /\ ~socket.wkc_ok
        /\ t.activation = task.activation
     \/ task.step = "Write" /\ t.step = "Write" /\ t.wait = task.wait
     \/ task.step \in {"Read", "Write"} /\ t.step = "Complete" /\ socket.wkc_ok
     \/ /\ task.step \in {"RequestRepeat", "WaitRepeatAck"} /\ t.step = "WaitRepeatAck"
        /\ t.activation = task.activation
     \/ /\ task.step = "WaitRepeatAck" /\ t.step = "Check" /\ t.wait
        /\ socket.wkc_ok /\ socket.bit = task.activation

LEMMA ProcessedStep ==
  ASSUME TypeOK, Busy, task.error = "none", task.step \notin {"Idle", "Complete", "Error"}
  PROVE  LET t == Processed(task) IN
         /\ t \in Task /\ t.state = "Processing" /\ t.mode = task.mode
         /\ Failed(t) \/ WentOn(t)
<1> DEFINE t == Processed(task)
<1> SUFFICES /\ t \in Task /\ t.state = "Processing" /\ t.mode = task.mode
             /\ Failed(t) \/ WentOn(t)
  OBVIOUS
<1>1. /\ task \in Task /\ task.state = "Processing" /\ task.mode \in {"reader", "writer"}
      /\ task.step \in StepsOf(task.mode) /\ socket \in Socket
  BY TaskFields DEF TypeOK, Busy
<1>2. socket.wkc_ok \in BOOLEAN /\ socket.full \in BOOLEAN /\ socket.bit \in BOOLEAN
  BY <1>1 DEF Socket
<1>3. ASSUME NEW next \in StepsOf(task.mode) \cap {"Read", "Write"}, NEW ready \in BOOLEAN,
             NEW e \in {"MailboxEmpty", "MailboxAlreadyExisted"},
             task.step = "Check", e = "MailboxEmpty" => task.mode = "reader",
             next = "Read" => task.mode = "reader" /\ ready = socket.full,
             next = "Write" => ready = ~socket.full
      PROVE  LET d == CheckDone(task, ready, next, e) IN
             /\ d \in Task /\ d.state = "Processing" /\ d.mode = task.mode
             /\ Failed(d) \/ WentOn(d)
  <2> DEFINE d == CheckDone(task, ready, next, e)
             b == IF task.mode = "reader" THEN socket.bit ELSE task.activation
             u == [task EXCEPT !.activation = b]
  <2> SUFFICES /\ d \in Task /\ d.state = "Processing" /\ d.mode = task.mode
               /\ Failed(d) \/ WentOn(d)
    OBVIOUS
  <2>1. b \in BOOLEAN
    BY <1>1, <1>2, TaskFields
  <2>2. /\ u \in Task /\ u.wait = task.wait /\ u.saved = task.saved /\ u.step = "Check"
        /\ u.state = "Processing" /\ u.mode = task.mode /\ u.error = "none"
        /\ u.activation = b
    <3>1. CASE task \in TaskOf("reader", {"Read", "RequestRepeat", "WaitRepeatAck"})
      BY <1>1, <1>3, <2>1, <3>1 DEF TaskOf, Task
    <3>2. CASE task \in TaskOf("writer", {"Write"})
      BY <1>1, <1>3, <2>1, <3>2 DEF TaskOf, Task
    <3>3. QED
      BY <1>1, <3>1, <3>2 DEF Task
  <2>3. \/ d = Fail(task, "NoSlaveReaction")
        \/ socket.wkc_ok /\ ready /\ d = [u EXCEPT !.step = next]
        \/ task.wait /\ d = [u EXCEPT !.is_first = FALSE]
        \/ ~task.wait /\ d = Fail(u, e)
    <3>1. u.wait = task.wait
      BY <2>2
    <3>2. CASE ~socket.wkc_ok
      BY <3>2 DEF CheckDone
    <3>3. CASE socket.wkc_ok
      <4>1. d = CASE ready -> [u EXCEPT !.step = next]
                  [] ~ready /\ task.wait -> CheckAgain(u)
                  [] ~ready /\ ~task.wait -> Fail(u, e)
        BY <3>3 DEF CheckDone
      <4>2. QED
        BY <3>3, <4>1 DEF CheckAgain
    <3>4. QED
      BY <3>2, <3>3
  <2> HIDE DEF d, u
  <2>4. CASE d = Fail(task, "NoSlaveReaction")
    <3>1. "NoSlaveReaction" \in TaskError
      BY DEF TaskError
    <3>2. QED
      BY <1>1, <1>3, <2>4, <3>1, TaskFails DEF Failed
  <2>5. CASE socket.wkc_ok /\ ready /\ d = [u EXCEPT !.step = next]
    <3>1. next \in StepsOf(u.mode)
      BY <2>2
    <3>2. /\ d \in Task /\ d.step = next /\ d.state = "Processing" /\ d.mode = task.mode
          /\ d.error = "none" /\ d.wait = task.wait /\ d.saved = task.saved
          /\ d.activation = b
      BY <2>2, <2>5, <3>1, TaskStep
    <3>3. QED
      BY <1>3, <2>5, <3>2 DEF WentOn
  <2>6. CASE task.wait /\ d = [u EXCEPT !.is_first = FALSE]
    <3>1. /\ d \in Task /\ d.step = "Check" /\ d.state = "Processing" /\ d.mode = task.mode
          /\ d.error = "none" /\ d.wait = task.wait /\ d.saved = task.saved
      <4>1. CASE u \in TaskOf("reader", {"Read", "RequestRepeat", "WaitRepeatAck"})
        BY <2>2, <2>6, <4>1 DEF TaskOf, Task
      <4>2. CASE u \in TaskOf("writer", {"Write"})
        BY <2>2, <2>6, <4>2 DEF TaskOf, Task
      <4>3. QED
        BY <2>2, <4>1, <4>2 DEF Task
    <3>2. QED
      BY <1>3, <2>6, <3>1 DEF WentOn
  <2>7. CASE ~task.wait /\ d = Fail(u, e)
    <3>1. e \in TaskError
      BY DEF TaskError
    <3>2. QED
      BY <1>3, <2>2, <2>7, <3>1, TaskFails DEF Failed
  <2>8. QED
    BY <2>3, <2>4, <2>5, <2>6, <2>7
<1>4. CASE task.step = "Check" /\ task.mode = "reader"
  <2>1. t = CheckDone(task, socket.full, "Read", "MailboxEmpty")
    BY <1>4 DEF Processed
  <2>2. "Read" \in StepsOf(task.mode) \cap {"Read", "Write"}
    BY <1>4 DEF StepsOf
  <2>3. QED
    BY <1>2, <1>3, <1>4, <2>1, <2>2
<1>5. CASE task.step = "Check" /\ task.mode = "writer"
  <2> DEFINE ready == ~socket.full
  <2>1. t = CheckDone(task, ready, "Write", "MailboxAlreadyExisted")
    BY <1>5 DEF Processed
  <2>2. "Write" \in StepsOf(task.mode) \cap {"Read", "Write"} /\ ready \in BOOLEAN
    BY <1>5 DEF StepsOf
  <2>3. ready = ~socket.full
    OBVIOUS
  <2> HIDE DEF ready, t
  <2>4. QED
    BY <1>3, <1>5, <2>1, <2>2, <2>3
<1>6. CASE task.step = "Read"
  <2>1. t = [task EXCEPT !.step = IF socket.wkc_ok THEN "Complete" ELSE "RequestRepeat"]
    BY <1>6 DEF Processed, ReadDone
  <2>2. (IF socket.wkc_ok THEN "Complete" ELSE "RequestRepeat") \in StepsOf(task.mode)
    BY <1>1, <1>6 DEF StepsOf
  <2>3. QED
    BY <1>1, <1>6, <2>1, <2>2, TaskStep DEF WentOn
<1>7. CASE task.step = "Write"
  <2>1. t = [task EXCEPT !.step = IF socket.wkc_ok THEN "Complete" ELSE "Write"]
    BY <1>7 DEF Processed, WriteDone
  <2>2. (IF socket.wkc_ok THEN "Complete" ELSE "Write") \in StepsOf(task.mode)
    BY <1>1, <1>7 DEF StepsOf
  <2>3. QED
    BY <1>1, <1>7, <2>1, <2>2, TaskStep DEF WentOn
<1>8. CASE task.step = "RequestRepeat"
  <2>1. t = [task EXCEPT !.step = "WaitRepeatAck"]
    BY <1>8 DEF Processed, RepeatDone
  <2>2. "WaitRepeatAck" \in StepsOf(task.mode)
    BY <1>1, <1>8 DEF StepsOf
  <2>3. QED
    BY <1>1, <1>8, <2>1, <2>2, TaskStep DEF WentOn
<1>9. CASE task.step = "WaitRepeatAck"
  <2>1. \/ t = Fail(task, "UnexpectedWkc")
        \/ /\ t = [task EXCEPT !.step = "Check", !.is_first = FALSE, !.wait = TRUE]
           /\ socket.wkc_ok /\ socket.bit = task.activation
        \/ t = task
    BY <1>9, <1>2 DEF Processed, AckDone
  <2>2. CASE t = Fail(task, "UnexpectedWkc")
    <3>1. "UnexpectedWkc" \in TaskError
      BY DEF TaskError
    <3> HIDE DEF t
    <3>2. QED
      BY <1>1, <2>2, <3>1, TaskFails DEF Failed
  <2>3. CASE /\ t = [task EXCEPT !.step = "Check", !.is_first = FALSE, !.wait = TRUE]
             /\ socket.wkc_ok /\ socket.bit = task.activation
    <3> HIDE DEF t
    <3>1. task \in TaskOf("reader", {"Read", "RequestRepeat", "WaitRepeatAck"})
      BY <1>1, <1>9 DEF Task, TaskOf
    <3>2. /\ t \in Task /\ t.step = "Check" /\ t.wait = TRUE /\ t.state = task.state
          /\ t.mode = task.mode /\ t.error = task.error /\ t.saved = task.saved
      BY <2>3, <3>1 DEF Task, TaskOf
    <3>3. QED
      BY <1>1, <1>9, <2>3, <3>2 DEF WentOn
  <2>4. CASE t = task
    BY <1>1, <1>9, <2>4 DEF WentOn
  <2>5. QED
    BY <2>1, <2>2, <2>3, <2>4
<1>10. QED
  BY <1>1, <1>4, <1>5, <1>6, <1>7, <1>8, <1>9 DEF StepsOf

\* The steps in which a task waits for an answer.
Live(t) == t.step \notin {"Idle", "Complete", "Error"}

LEMMA RecievedStep ==
  ASSUME TypeOK, Busy, task.error = "none", Live(task), socket.command = task.command
  PROVE  /\ Recieved \in Task /\ Recieved.mode = task.mode
         /\ \/ Failed(Recieved) /\ Recieved.state = "Error"
            \/ /\ WentOn(Recieved)
               /\ Recieved.state =
                    IF Recieved.step = "Complete" THEN "Complete" ELSE "Processing"
<1> DEFINE p == Processed(task)
           late == ElapsedAfter(task) > (IF task.mode = "reader" THEN ReadTimeout
                                         ELSE WriteTimeout)
           t == IF late THEN Fail(p, "Timeout") ELSE p
<1>1. Recieved = Outcome(t)
  BY DEF Recieved
<1>2. /\ p \in Task /\ p.state = "Processing" /\ p.mode = task.mode
      /\ Failed(p) \/ WentOn(p)
  BY ProcessedStep DEF Live
<1> HIDE DEF p, late
<1>3. /\ t \in Task /\ t.state = "Processing" /\ t.mode = task.mode
      /\ Failed(t) \/ WentOn(t)
  <2>1. CASE late
    <3>1. "Timeout" \in TaskError
      BY DEF TaskError
    <3>2. t = Fail(p, "Timeout")
      BY <2>1
    <3>3. /\ t \in Task /\ t.state = "Processing" /\ t.mode = task.mode
          /\ t.step = "Error" /\ t.error = "Timeout"
      BY <1>2, <3>1, <3>2, TaskFails
    <3>4. QED
      BY <3>1, <3>3 DEF Failed
  <2>2. CASE ~late
    BY <1>2, <2>2
  <2>3. QED
    BY <2>1, <2>2
<1> HIDE DEF t
<1>4. /\ Outcome(t) \in Task
      /\ Outcome(t).state = IF t.step \in {"Complete", "Error"} THEN t.step ELSE t.state
      /\ Outcome(t).step = t.step /\ Outcome(t).mode = t.mode /\ Outcome(t).error = t.error
      /\ Outcome(t).wait = t.wait /\ Outcome(t).saved = t.saved
      /\ Outcome(t).activation = t.activation
  BY <1>3, TaskOutcome
<1>5. CASE Failed(t)
  BY <1>1, <1>3, <1>4, <1>5 DEF Failed
<1>6. CASE WentOn(t)
  <2>1. t.step # "Error"
    BY <1>6 DEF WentOn
  <2>2. WentOn(Outcome(t))
    BY <1>4, <1>6 DEF WentOn
  <2>3. QED
    BY <1>1, <1>3, <1>4, <2>1, <2>2
<1>7. QED
  BY <1>3, <1>5, <1>6

----------------------------------------------------------------------------
(* next_pdu *)

LEMMA KindOfLive ==
  ASSUME NEW t \in Task
  PROVE  /\ Live(t) => KindOf(t) \in PduKind
         /\ ~Live(t) => KindOf(t) = "None"
         /\ KindOf(t) = "WriteRx" <=> t.step = "Write"
         /\ KindOf(t) = "ReadTx" <=> t.step = "Read"
  BY TaskFields DEF Live, KindOf, StepsOf, PduKind

LEMMA BytesFields ==
  ASSUME NEW b \in Bytes, NEW m \in Message \cup {NoMessage}
  PROVE  /\ [b EXCEPT !.head = m] \in Bytes /\ [b EXCEPT !.head = m].head = m
         /\ [b EXCEPT !.head = m].body = b.body
         /\ b.head \in Message \cup {NoMessage} /\ b.body \in Message \cup {NoMessage}
         /\ Whole(m) \in Bytes /\ Whole(m).head = m /\ Whole(m).body = m
         /\ b.body = m => [b EXCEPT !.head = m] = Whole(m)
         /\ Zero \in Bytes
  BY DEF Bytes, Whole, Zero

LEMMA SendingStep ==
  ASSUME TypeOK, NEW t \in Task, t.state = "Processing", t.error = "none", Live(t)
  PROVE  /\ TaskSending(t) \in Task /\ TaskSending(t).state = "Processing"
         /\ TaskSending(t).mode = t.mode /\ TaskSending(t).wait = t.wait
         /\ TaskSending(t).command = KindOf(t)
         /\ TooSmall(t) => TaskSending(t).step = "Error" /\ TaskSending(t).error = "BufferSmall"
         /\ ~TooSmall(t) =>
              /\ TaskSending(t).step = t.step /\ TaskSending(t).error = "none"
              /\ KindOf(TaskSending(t)) = KindOf(t)
              /\ TaskSending(t).saved =
                   IF t.step = "Check" /\ t.mode = "writer" THEN buf.head ELSE t.saved
              /\ TaskSending(t).activation =
                   IF t.step = "RequestRepeat" THEN ~t.activation ELSE t.activation
         /\ BufferSending(t) \in Bytes
<1> DEFINE u == TaskSending(t)
<1>1. /\ KindOf(t) \in PduKind /\ KindOf(t) \in Command /\ KindOf(t) # "None"
  BY KindOfLive DEF Command, PduKind
<1>2. t.activation \in BOOLEAN /\ t.saved \in Message \cup {NoMessage} /\ buf \in Bytes
  BY TaskFields DEF TypeOK
<1>3. CASE TooSmall(t)
  <2> DEFINE f == Fail(t, "BufferSmall")
  <2>1. "BufferSmall" \in TaskError
    BY DEF TaskError
  <2>2. /\ f \in Task /\ f.step = "Error" /\ f.error = "BufferSmall"
        /\ f.state = t.state /\ f.mode = t.mode
    BY <2>1, TaskFails
  <2>3. f.wait = t.wait
    <3>1. CASE t \in TaskOf("reader", {"Read", "RequestRepeat", "WaitRepeatAck"})
      BY <3>1 DEF TaskOf, Fail
    <3>2. CASE t \in TaskOf("writer", {"Write"})
      BY <3>2 DEF TaskOf, Fail
    <3>3. QED
      BY <3>1, <3>2 DEF Task
  <2>4. u = [f EXCEPT !.command = KindOf(t)]
    BY <1>3 DEF TaskSending
  <2> HIDE DEF f
  <2>5. /\ u \in Task /\ u.command = KindOf(t) /\ u.wait = f.wait /\ u.step = f.step
        /\ u.state = f.state /\ u.mode = f.mode /\ u.error = f.error
    <3> HIDE DEF u
    <3>1. CASE f \in TaskOf("reader", {"Read", "RequestRepeat", "WaitRepeatAck"})
      BY <1>1, <2>4, <3>1 DEF TaskOf, Task
    <3>2. CASE f \in TaskOf("writer", {"Write"})
      BY <1>1, <2>4, <3>2 DEF TaskOf, Task
    <3>3. QED
      BY <2>2, <3>1, <3>2 DEF Task
  <2>6. BufferSending(t) \in Bytes
    <3>1. t.step \in {"Read", "Write"} /\ ~BufferFits
      BY <1>3 DEF TooSmall
    <3>2. BufferSending(t) \in {[buf EXCEPT !.head = t.saved], buf}
      BY <3>1 DEF BufferSending
    <3>3. QED
      BY <1>2, <3>2, BytesFields
  <2>7. QED
    BY <1>3, <2>2, <2>3, <2>5, <2>6
<1>4. CASE ~TooSmall(t)
  <2> DEFINE a == IF t.step = "RequestRepeat" THEN ~t.activation ELSE t.activation
             m == IF t.step = "Check" /\ t.mode = "writer" THEN buf.head ELSE t.saved
  <2>1. a \in BOOLEAN /\ m \in Message \cup {NoMessage}
    BY <1>2, BytesFields
  <2>2. u = [t EXCEPT !.command = KindOf(t), !.activation = a, !.saved = m]
    BY <1>1, <1>4 DEF TaskSending
  <2> HIDE DEF a, m
  <2>3. /\ u \in Task /\ u.command = KindOf(t) /\ u.wait = t.wait /\ u.step = t.step
        /\ u.state = t.state /\ u.mode = t.mode /\ u.error = t.error /\ u.saved = m
        /\ u.activation = a
    <3> HIDE DEF u
    <3>1. CASE t \in TaskOf("reader", {"Read", "RequestRepeat", "WaitRepeatAck"})
      BY <1>1, <2>1, <2>2, <3>1 DEF TaskOf, Task
    <3>2. CASE t \in TaskOf("writer", {"Write"})
      BY <1>1, <2>1, <2>2, <3>2 DEF TaskOf, Task
    <3>3. QED
      BY <3>1, <3>2 DEF Task
  <2>4. KindOf(u) = KindOf(t)
    BY <2>3 DEF KindOf
  <2>5. NoMessage \in Message \cup {NoMessage}
    OBVIOUS
  <2>6. BufferSending(t) \in
          {[buf EXCEPT !.head = NoMessage], Zero, [buf EXCEPT !.head = t.saved], buf}
    BY DEF BufferSending
  <2>7. BufferSending(t) \in Bytes
    <3>1. [buf EXCEPT !.head = NoMessage] \in Bytes /\ Zero \in Bytes
      BY <1>2, <2>5, BytesFields
    <3>2. [buf EXCEPT !.head = t.saved] \in Bytes
      BY <1>2, BytesFields
    <3>3. QED
      BY <1>2, <2>6, <3>1, <3>2
  <2>8. QED
    BY <1>4, <2>3, <2>4, <2>7 DEF m, a
<1>5. QED
  BY <1>3, <1>4

----------------------------------------------------------------------------
(* The steps of the specification *)

\* Facts about the values that start a task and empty its socket.
LEMMA NoPduFields ==
  /\ NoPdu \in Socket /\ NoPdu.command = "None" /\ NoPdu.recv_flag = FALSE
  /\ NoPdu.wkc_ok = FALSE
  BY DEF NoPdu, Socket, Command, PduKind

LEMMA ElapsedBounds == MaxElapsed \in Nat /\ 0 \in 0 .. MaxElapsed /\ MaxElapsed \in 0 .. MaxElapsed
  BY TimeoutAssumption DEF MaxElapsed, Longer

LEMMA StartedFields ==
  ASSUME NEW mode \in {"reader", "writer"}, NEW wait \in BOOLEAN
  PROVE  LET t == Started(mode, wait) IN
         /\ t \in Task /\ t.state = "Processing" /\ t.mode = mode /\ t.step = "Check"
         /\ t.error = "none" /\ t.wait = wait /\ t.command = "NOP"
  BY DEF Started, Task, TaskOf, Command, PduKind

LEMMA InitHolds == Init => MailboxInv
<1> SUFFICES ASSUME Init PROVE MailboxInv
  OBVIOUS
<1>1. /\ task \in Task /\ task.state = "Idle" /\ task.mode = "reader" /\ task.step = "Idle"
      /\ task.error = "none"
  BY DEF Init, TaskInit, Started, Task, TaskOf, Command, PduKind
<1>2. SlaveType
  BY DEF Init, SlaveInit, SlaveType, Zero, Whole, Bytes
<1>3. TypeOK
  BY <1>1, <1>2, NoPduFields, ElapsedBounds
     DEF Init, TaskInit, TypeOK, Zero, Whole, Bytes, MaxCopies
<1>4. QED
  BY <1>1, <1>3, NoPduFields
     DEF Init, TaskInit, MailboxInv, PduIsOwn, ErrorEnds, CountedIsDone, CheckedFirst,
         MessageKept, ReadOutcome, WriteOutcome, Busy

LEMMA StartKeeps ==
  ASSUME MailboxInv, Start
  PROVE  MailboxInv'
<1>1. PICK wait \in BOOLEAN : StartToRead(wait) \/ \E m \in Message : StartToWrite(m, wait)
  BY DEF Start
<1>2. socket = NoPdu /\ UNCHANGED slaveVars
  BY DEF Start, MailboxInv, PduIsOwn
<1>3. CASE StartToRead(wait)
  <2>1. /\ task' \in Task /\ task'.state = "Processing" /\ task'.mode = "reader"
        /\ task'.step = "Check" /\ task'.error = "none" /\ task'.command = "NOP"
    BY <1>3, StartedFields DEF StartToRead
  <2>2. copies' = 0 /\ elapsed' = MaxElapsed /\ UNCHANGED <<socket, buf, given, slaveVars>>
    BY <1>2, <1>3 DEF StartToRead
  <2>3. TypeOK'
    BY <2>1, <2>2, ElapsedBounds DEF MailboxInv, TypeOK, SlaveType, slaveVars, MaxCopies
  <2>4. QED
    BY <1>2, <2>1, <2>2, <2>3, NoPduFields
       DEF MailboxInv, PduIsOwn, ErrorEnds, CountedIsDone, CheckedFirst, MessageKept,
           ReadOutcome, WriteOutcome, Busy
<1>4. ASSUME NEW m \in Message, StartToWrite(m, wait)
      PROVE  MailboxInv'
  <2>1. /\ task' \in Task /\ task'.state = "Processing" /\ task'.mode = "writer"
        /\ task'.step = "Check" /\ task'.error = "none" /\ task'.command = "NOP"
    BY <1>4, StartedFields DEF StartToWrite
  <2>2. /\ copies' = 0 /\ elapsed' = MaxElapsed /\ buf' = Whole(m) /\ given' = m
        /\ UNCHANGED <<socket, slaveVars>>
    BY <1>2, <1>4 DEF StartToWrite
  <2>3. TypeOK'
    BY <2>1, <2>2, ElapsedBounds
       DEF MailboxInv, TypeOK, SlaveType, slaveVars, MaxCopies, Bytes, Whole
  <2>4. QED
    BY <1>2, <2>1, <2>2, <2>3, NoPduFields
       DEF MailboxInv, PduIsOwn, ErrorEnds, CountedIsDone, CheckedFirst, MessageKept,
           ReadOutcome, WriteOutcome, Busy, Whole
<1>5. QED
  BY <1>1, <1>3, <1>4

\* A PDU in flight belongs to a task in the step that sent it.
LEMMA FlightIsLive ==
  ASSUME MailboxInv, socket.command # "None"
  PROVE  /\ task \in Task /\ Busy /\ Live(task) /\ task.error = "none"
         /\ socket.command = KindOf(task) /\ task.command = socket.command
         /\ socket.command \in PduKind /\ task.command # "NOP"
<1>1. task \in Task /\ Busy /\ socket.command = KindOf(task) /\ task.command = socket.command
  BY DEF MailboxInv, TypeOK, PduIsOwn
<1>2. Live(task)
  BY <1>1, KindOfLive
<1>3. task.error = "none"
  BY <1>2 DEF MailboxInv, ErrorEnds, Live
<1>4. socket.command \in PduKind /\ socket.command # "NOP"
  BY <1>1, <1>2, KindOfLive DEF PduKind
<1>5. QED
  BY <1>1, <1>2, <1>3, <1>4

LEMMA ExecuteKeepsType ==
  ASSUME TypeOK, NEW k, NEW b \in Bytes, NEW bit \in BOOLEAN, Execute(k, b, bit)
  PROVE  SlaveType'
  BY DEF TypeOK, SlaveType, Execute, slaveVars

LEMMA ExchangeKeeps ==
  ASSUME MailboxInv, Exchange
  PROVE  MailboxInv'
<1>1. InFlight
  BY DEF Exchange, Exchanged, Missed
<1>2. socket.command # "None"
  BY <1>1 DEF InFlight, PduKind
<1>3. /\ task \in Task /\ Busy /\ Live(task) /\ task.error = "none"
      /\ socket.command = KindOf(task) /\ task.command = socket.command
      /\ socket.command \in PduKind /\ task.command # "NOP"
  BY <1>2, FlightIsLive
<1>4. socket \in Socket /\ buf \in Bytes /\ copies \in 0 .. MaxCopies
  BY DEF MailboxInv, TypeOK
<1>5. ASSUME NEW executed \in BOOLEAN, NEW counted \in BOOLEAN, Answered(executed, counted),
             counted => executed, SlaveType',
             executed /\ socket.command = "ReadTx" => last' = tx /\ tx # NoMessage
      PROVE  MailboxInv'
  <2>1. /\ socket' \in Socket /\ socket'.command = socket.command
        /\ socket'.recv_flag = TRUE /\ socket'.wkc_ok = counted
    <3>1. (executed /\ AnswerFull(socket.command)) \in BOOLEAN
      BY DEF AnswerFull
    <3>2. (executed /\ AnswerBit(socket.command)) \in BOOLEAN
      BY DEF AnswerBit, MailboxInv, TypeOK, SlaveType
    <3>3. QED
      BY <1>4, <1>5, <3>1, <3>2 DEF Answered, Socket
  <2>2. UNCHANGED <<task, elapsed, given>>
    BY <1>5 DEF Answered
  <2>3. buf' \in Bytes /\ buf'.body \in Message \cup {NoMessage}
    <3>1. AnswerBytes(socket.command, buf) \in Bytes
      <4>1. AnswerBytes(socket.command, buf) \in
              {Whole(tx), buf, [buf EXCEPT !.head = NoMessage]}
        BY DEF AnswerBytes
      <4>2. [buf EXCEPT !.head = NoMessage] \in Bytes
        BY <1>4, BytesFields
      <4>3. Whole(tx) \in Bytes
        BY DEF MailboxInv, TypeOK, SlaveType, Whole, Bytes
      <4>4. QED
        BY <1>4, <4>1, <4>2, <4>3
    <3>2. buf' \in Bytes
      BY <1>4, <1>5, <3>1 DEF Answered
    <3>3. QED
      BY <3>2 DEF Bytes
  <2>4. /\ copies' \in 0 .. MaxCopies
        /\ executed /\ socket.command \in {"ReadTx", "WriteRx"} => copies' > 0
        /\ socket.command \notin {"ReadTx", "WriteRx"} => copies' = copies
    BY <1>4, <1>5 DEF Answered, MaxCopies
  <2>5. /\ executed /\ socket.command = "ReadTx" => buf' = Whole(last')
        /\ socket.command = "WriteRx" => buf' = buf
        /\ socket.command # "ReadTx" => buf'.body = buf.body
    <3>1. [buf EXCEPT !.head = NoMessage].body = buf.body
      BY <1>4, BytesFields
    <3>2. QED
      BY <1>5, <3>1 DEF Answered, AnswerBytes
  <2>6. TypeOK'
    BY <1>5, <2>1, <2>2, <2>3, <2>4 DEF MailboxInv, TypeOK
  <2>7. PduIsOwn' /\ ErrorEnds'
    <3>1. KindOf(task)' = KindOf(task) /\ Busy'
      BY <1>3, <2>2 DEF KindOf, Busy
    <3>2. QED
      BY <1>2, <1>3, <2>1, <2>2, <3>1 DEF MailboxInv, PduIsOwn, ErrorEnds
  <2>8. CountedIsDone'
    BY <1>5, <2>1, <2>4, <2>5 DEF CountedIsDone
  <2>9. CheckedFirst'
    BY <1>3, <2>2, <2>4, KindOfLive DEF MailboxInv, CheckedFirst
  <2>10. MessageKept'
    BY <1>3, <2>2, <2>5, KindOfLive DEF MailboxInv, MessageKept, Busy
  <2>11. ReadOutcome' /\ WriteOutcome'
    BY <1>3, <2>2 DEF ReadOutcome, WriteOutcome, Busy
  <2>12. QED
    BY <2>6, <2>7, <2>8, <2>9, <2>10, <2>11 DEF MailboxInv
<1>6. ASSUME NEW counted \in BOOLEAN, Exchanged(counted)
      PROVE  MailboxInv'
  <2>1. Execute(socket.command, buf, task.activation) /\ Answered(TRUE, counted)
    BY <1>6 DEF Exchanged
  <2>2. task.activation \in BOOLEAN
    BY <1>3, TaskFields
  <2>3. SlaveType'
    BY <1>4, <2>1, <2>2, ExecuteKeepsType DEF MailboxInv
  <2>4. socket.command = "ReadTx" => last' = tx /\ tx # NoMessage
    BY <2>1 DEF Execute
  <2>5. QED
    BY <1>5, <2>1, <2>3, <2>4
<1>7. CASE Missed
  <2>1. Answered(FALSE, FALSE) /\ SlaveType'
    BY <1>7 DEF Missed, MailboxInv, TypeOK, SlaveType, slaveVars
  <2>2. QED
    BY <1>5, <2>1
<1>8. QED
  BY <1>6, <1>7 DEF Exchange

\* Sending the PDU of a task that is in the steps of WentOn, or new.
LEMMA SendKeeps ==
  ASSUME MailboxInv, NEW t \in Task, t.state = "Processing", t.error = "none", Live(t),
         t.mode = task.mode, Busy,
         task' = TaskSending(t), buf' = BufferSending(t), elapsed' \in 0 .. MaxElapsed,
         socket' = IF ~TooSmall(t) THEN [NoPdu EXCEPT !.command = KindOf(t)] ELSE NoPdu,
         UNCHANGED <<history, slaveVars>>,
         t.step = "Check" /\ (t.mode = "writer" \/ ~t.wait) => copies = 0,
         t.mode = "writer" /\ ~t.wait =>
           /\ t.step = "Check" => buf = Whole(given)
           /\ t.step = "Write" => t.saved = given /\ buf.body = given
  PROVE  MailboxInv'
<1>1. /\ task' \in Task /\ task'.state = "Processing" /\ task'.mode = t.mode
      /\ task'.wait = t.wait /\ task'.command = KindOf(t) /\ buf' \in Bytes
      /\ TooSmall(t) => task'.step = "Error" /\ task'.error = "BufferSmall"
      /\ ~TooSmall(t) =>
           /\ task'.step = t.step /\ task'.error = "none" /\ KindOf(task') = KindOf(t)
           /\ task'.saved = IF t.step = "Check" /\ t.mode = "writer" THEN buf.head ELSE t.saved
  BY SendingStep DEF MailboxInv
<1>2. KindOf(t) \in PduKind /\ KindOf(t) # "None" /\ KindOf(t) # "NOP"
  BY KindOfLive DEF PduKind
<1>3. /\ socket' \in Socket /\ socket'.recv_flag = FALSE
      /\ TooSmall(t) => socket' = NoPdu
      /\ ~TooSmall(t) => socket'.command = KindOf(t)
  BY <1>2 DEF NoPdu, Socket, Command
<1>4. given' = given /\ copies' = copies /\ UNCHANGED slaveVars
  BY DEF history
<1>5. TypeOK'
  BY <1>1, <1>3, <1>4 DEF MailboxInv, TypeOK, SlaveType, slaveVars
<1>6. PduIsOwn'
  <2>1. KindOf(task)' = KindOf(task')
    BY DEF KindOf
  <2>2. Busy'
    BY <1>1 DEF Busy
  <2>3. QED
    BY <1>1, <1>2, <1>3, <2>1, <2>2, NoPduFields DEF PduIsOwn
<1>7. ErrorEnds'
  BY <1>1 DEF ErrorEnds, Busy, Live
<1>8. CountedIsDone'
  BY <1>3 DEF CountedIsDone
<1>9. CheckedFirst'
  BY <1>1, <1>4 DEF CheckedFirst
<1>10. MessageKept'
  <2> SUFFICES ASSUME t.mode = "writer", ~t.wait
               PROVE  /\ task'.step = "Check" /\ task'.command = "NOP" => buf' = Whole(given)
                      /\ task'.step = "Check" /\ task'.command # "NOP" =>
                           task'.saved = given /\ buf'.body = given
                      /\ task'.step = "Write" => task'.saved = given /\ buf' = Whole(given)
    BY <1>1, <1>4 DEF MessageKept
  <2>1. given \in Message \cup {NoMessage} /\ buf \in Bytes
    BY DEF MailboxInv, TypeOK
  <2>2. CASE task'.step = "Check"
    <3>1. t.step = "Check" /\ task'.saved = buf.head
      BY <1>1, <2>2
    <3>2. buf' = [buf EXCEPT !.head = NoMessage] /\ buf = Whole(given)
      BY <3>1 DEF BufferSending
    <3>3. buf'.body = buf.body
      BY <2>1, <3>2, BytesFields
    <3>4. buf.head = given /\ buf.body = given
      BY <3>2 DEF Whole
    <3>5. QED
      BY <1>1, <1>2, <3>1, <3>3, <3>4
  <2>3. CASE task'.step = "Write"
    <3>1. t.step = "Write" /\ task'.saved = t.saved /\ t.saved = given
      BY <1>1, <2>3
    <3>2. buf' = [buf EXCEPT !.head = given] /\ buf.body = given
      BY <3>1 DEF BufferSending
    <3>3. QED
      BY <2>1, <3>1, <3>2, BytesFields
  <2>4. QED
    BY <2>2, <2>3
<1>11. ReadOutcome' /\ WriteOutcome'
  BY <1>1, <1>4 DEF ReadOutcome, WriteOutcome
<1>12. QED
  BY <1>5, <1>6, <1>7, <1>8, <1>9, <1>10, <1>11 DEF MailboxInv

\* The answer ends the task: nothing is sent.
LEMMA EndKeeps ==
  ASSUME MailboxInv, task' \in Task, task'.mode = task.mode, Busy, socket.command # "None",
         \/ Failed(task') /\ task'.state = "Error"
         \/ WentOn(task') /\ task'.step = "Complete" /\ task'.state = "Complete",
         socket.recv_flag,
         socket' = NoPdu, buf' = buf, elapsed' \in 0 .. MaxElapsed,
         UNCHANGED <<history, slaveVars>>
  PROVE  MailboxInv'
<1>1. given' = given /\ copies' = copies /\ UNCHANGED slaveVars
  BY DEF history
<1>2. TypeOK'
  BY <1>1, NoPduFields DEF MailboxInv, TypeOK, SlaveType, slaveVars
<1>3. PduIsOwn' /\ CountedIsDone'
  BY NoPduFields DEF PduIsOwn, CountedIsDone, Busy
<1>4. ErrorEnds' /\ CheckedFirst' /\ MessageKept'
  BY DEF ErrorEnds, CheckedFirst, MessageKept, Busy, Failed, WentOn
<1>5. ReadOutcome' /\ WriteOutcome'
  <2>1. CASE Failed(task') /\ task'.state = "Error"
    BY <1>1, <2>1 DEF Failed, ReadOutcome, WriteOutcome, MailboxInv, CheckedFirst
  <2>2. CASE WentOn(task') /\ task'.step = "Complete" /\ task'.state = "Complete"
    <3>1. /\ task'.error = "none" /\ socket.wkc_ok /\ task.step \in {"Read", "Write"}
      BY <2>2 DEF WentOn
    <3>2. task \in Task /\ socket.command = KindOf(task)
      BY FlightIsLive
    <3>3. /\ task.mode = "reader" => task.step = "Read"
          /\ task.mode = "writer" => task.step = "Write"
      BY <3>1, <3>2, TaskFields DEF StepsOf
    <3>4. /\ task.mode = "reader" => copies > 0 /\ last # NoMessage /\ buf = Whole(last)
          /\ task.mode = "writer" => copies > 0
      BY <3>1, <3>2, <3>3, KindOfLive DEF MailboxInv, CountedIsDone
    <3>5. last' = last
      BY <1>1 DEF slaveVars
    <3>6. QED
      BY <1>1, <3>1, <3>4, <3>5 DEF ReadOutcome, WriteOutcome, Whole
  <2>3. QED
    BY <2>1, <2>2
<1>6. QED
  BY <1>2, <1>3, <1>4, <1>5 DEF MailboxInv

LEMMA StepKeeps ==
  ASSUME MailboxInv, Step
  PROVE  MailboxInv'
<1> DEFINE answered == socket.recv_flag /\ Busy
           t == IF answered THEN Recieved ELSE task
           sends == t.state = "Processing" /\ KindOf(t) # "None"
<1>1. /\ socket.recv_flag \/ socket.command = "None"
      /\ elapsed' = IF answered /\ socket.command = task.command
                    THEN ElapsedAfter(task) ELSE elapsed
      /\ task' = IF sends THEN TaskSending(t) ELSE t
      /\ buf' = IF sends THEN BufferSending(t) ELSE buf
      /\ socket' = IF sends /\ ~TooSmall(t) THEN [NoPdu EXCEPT !.command = KindOf(t)]
                   ELSE NoPdu
      /\ UNCHANGED <<history, slaveVars>>
  BY DEF Step, ProcessOneStep
<1>2. task \in Task /\ elapsed' \in 0 .. MaxElapsed
  BY <1>1, ElapsedBounds DEF MailboxInv, TypeOK, ElapsedAfter
<1>3. CASE socket.command = "None" /\ ~(Busy /\ task.step = "Check")
  <2>1. ~answered /\ t = task /\ ~sends
    <3>1. ~answered
      BY <1>3, NoPduFields DEF MailboxInv, PduIsOwn
    <3>2. Busy => ~Live(task)
      BY <1>3 DEF MailboxInv, PduIsOwn, Live
    <3>3. QED
      BY <1>2, <3>1, <3>2, KindOfLive DEF Busy
  <2> HIDE DEF t, answered, sends
  <2>2. UNCHANGED vars
    BY <1>1, <1>3, <2>1
       DEF MailboxInv, PduIsOwn, vars, slaveVars, taskVars, history
  <2>3. QED
    BY <2>2
       DEF MailboxInv, TypeOK, SlaveType, PduIsOwn, ErrorEnds, CountedIsDone, CheckedFirst,
           MessageKept, ReadOutcome, WriteOutcome, Busy, KindOf, vars, slaveVars, taskVars,
           history
<1>4. CASE socket.command = "None" /\ Busy /\ task.step = "Check"
  <2>1. ~answered /\ t = task
    BY <1>4, NoPduFields DEF MailboxInv, PduIsOwn
  <2>2. Live(task) /\ task.error = "none" /\ task.command = "NOP" /\ task.state = "Processing"
    BY <1>4 DEF MailboxInv, PduIsOwn, ErrorEnds, Live, Busy
  <2>3. sends
    BY <1>2, <2>1, <2>2, KindOfLive DEF PduKind
  <2> HIDE DEF t, answered, sends
  <2>4. /\ task' = TaskSending(task) /\ buf' = BufferSending(task)
        /\ socket' = IF ~TooSmall(task) THEN [NoPdu EXCEPT !.command = KindOf(task)] ELSE NoPdu
    BY <1>1, <2>1, <2>3
  <2>5. /\ task.mode = "writer" \/ ~task.wait => copies = 0
        /\ task.mode = "writer" /\ ~task.wait => buf = Whole(given)
    BY <1>4, <2>2 DEF MailboxInv, CheckedFirst, MessageKept
  <2>6. QED
    BY <1>1, <1>2, <1>4, <2>2, <2>4, <2>5, SendKeeps
<1>5. CASE socket.command # "None"
  <2>1. /\ Busy /\ Live(task) /\ task.error = "none" /\ task.command = socket.command
        /\ socket.command = KindOf(task) /\ task.command # "NOP"
    BY <1>5, FlightIsLive
  <2>2. answered /\ t = Recieved
    BY <1>1, <1>5, <2>1
  <2>3. /\ t \in Task /\ t.mode = task.mode
        /\ \/ Failed(t) /\ t.state = "Error"
           \/ WentOn(t) /\ t.state = IF t.step = "Complete" THEN "Complete" ELSE "Processing"
    BY <2>1, <2>2, RecievedStep DEF MailboxInv
  <2> HIDE DEF t
  <2>4. CASE t.state # "Processing"
    <3>1. ~sends
      BY <2>4
    <3> HIDE DEF answered, sends
    <3>2. task' = t /\ buf' = buf /\ socket' = NoPdu
      BY <1>1, <3>1
    <3>3. socket.recv_flag
      BY <1>1, <1>5
    <3>4. \/ Failed(task') /\ task'.state = "Error"
          \/ WentOn(task') /\ task'.step = "Complete" /\ task'.state = "Complete"
      BY <2>3, <2>4, <3>2
    <3>5. QED
      BY <1>1, <1>2, <1>5, <2>1, <2>3, <3>2, <3>3, <3>4, EndKeeps
  <2>5. CASE t.state = "Processing"
    <3>1. WentOn(t) /\ t.step # "Complete"
      BY <2>3, <2>5
    <3>2. Live(t) /\ t.error = "none"
      BY <3>1 DEF WentOn, Live
    <3>3. sends
      BY <2>3, <2>5, <3>2, KindOfLive DEF PduKind
    <3> HIDE DEF answered, sends
    <3>4. /\ task' = TaskSending(t) /\ buf' = BufferSending(t)
          /\ socket' = IF ~TooSmall(t) THEN [NoPdu EXCEPT !.command = KindOf(t)] ELSE NoPdu
      BY <1>1, <3>3
    <3>5. task.mode = "writer" => task.step \notin {"Read", "RequestRepeat", "WaitRepeatAck"}
      BY <1>2, TaskFields DEF StepsOf
    <3>6. t.step = "Check" => t.wait /\ (task.mode = "writer" => task.step = "Check")
      BY <3>1, <3>5 DEF WentOn
    <3>7. t.step = "Check" /\ (t.mode = "writer" \/ ~t.wait) => copies = 0
      BY <2>3, <3>6 DEF MailboxInv, CheckedFirst
    <3>8. ASSUME t.mode = "writer", ~t.wait, t.step = "Write"
          PROVE  t.saved = given /\ buf.body = given
      <4>1. /\ task.step \in {"Check", "Write"} /\ task.mode = "writer" /\ ~task.wait
            /\ t.saved = task.saved
        BY <2>3, <3>1, <3>5, <3>8 DEF WentOn
      <4>2. QED
        BY <2>1, <4>1 DEF MailboxInv, MessageKept, Whole
    <3>9. QED
      BY <1>1, <1>2, <2>1, <2>3, <2>5, <3>2, <3>4, <3>6, <3>7, <3>8, SendKeeps
  <2>6. QED
    BY <2>4, <2>5
<1>6. QED
  BY <1>3, <1>4, <1>5

\* Time and the slave's own software touch neither the task nor what was read last.
LEMMA OthersKeep ==
  ASSUME MailboxInv, Tick \/ SlaveStep \/ UNCHANGED vars
  PROVE  MailboxInv'
<1>1. UNCHANGED <<task, socket, buf, given, copies, last>>
  BY DEF Tick, SlaveStep, TakeRequest, RepeatLast, PostResponse, vars, slaveVars, taskVars,
         history
<1>2. elapsed' \in 0 .. MaxElapsed
  <2>1. CASE Tick
    BY <2>1, ElapsedBounds DEF Tick, MailboxInv, TypeOK
  <2>2. CASE SlaveStep \/ UNCHANGED vars
    BY <2>2 DEF SlaveStep, vars, taskVars, MailboxInv, TypeOK
  <2>3. QED
    BY <2>1, <2>2
<1>3. SlaveType'
  <2>1. Zero \in Bytes
    BY DEF Zero, Whole, Bytes
  <2>2. QED
    BY <2>1 DEF Tick, SlaveStep, TakeRequest, RepeatLast, PostResponse, vars, slaveVars,
                MailboxInv, TypeOK, SlaveType
<1>4. TypeOK'
  BY <1>1, <1>2, <1>3 DEF MailboxInv, TypeOK
<1>5. QED
  BY <1>1, <1>4
     DEF MailboxInv, PduIsOwn, ErrorEnds, CountedIsDone, CheckedFirst, MessageKept,
         ReadOutcome, WriteOutcome, Busy, KindOf

----------------------------------------------------------------------------
(* Theorems *)

\* The inductive invariant of a mailbox task and the mailbox it works on.
THEOREM MailboxInvariance == Spec => []MailboxInv
<1>1. MailboxInv /\ [Next]_vars => MailboxInv'
  BY StartKeeps, StepKeeps, ExchangeKeeps, OthersKeep DEF Next
<1>2. QED
  BY <1>1, InitHolds, PTL DEF Spec

\* process_one_step of MailboxTask, MailboxReader and MailboxWriter keeps every field in its
\* type, whatever is missed on the way.
THEOREM TypeCorrect == Spec => []TypeOK
<1>1. MailboxInv => TypeOK
  BY DEF MailboxInv
<1>2. QED
  BY <1>1, MailboxInvariance, PTL

\* A completed reader (mailbox_read.rs) holds a whole message that the slave has given away,
\* and MailboxEmpty is only reported by one that has read nothing, for all timeouts and any
\* number of repetitions.
THEOREM ReaderTellsTheTruth == Spec => []ReadOutcome
<1>1. MailboxInv => ReadOutcome
  BY DEF MailboxInv
<1>2. QED
  BY <1>1, MailboxInvariance, PTL

\* A completed writer (mailbox_write.rs) has got its message into the slave, and after
\* MailboxAlreadyExisted or NoSlaveReaction the message may be sent again.
THEOREM WriterTellsTheTruth == Spec => []WriteOutcome
<1>1. MailboxInv => WriteOutcome
  BY DEF MailboxInv
<1>2. QED
  BY <1>1, MailboxInvariance, PTL

\* A writer that does not wait for an empty mailbox (every caller under src/src) writes the
\* message as it was given, restored from empty_check_buffer.
THEOREM MessageArrivesWhole == Spec => WrittenWhole
<1>1. ASSUME MailboxInv, [Next]_vars, rx' # rx, rx' # Zero
      PROVE  rx' = Whole(given) \/ task.wait
  <2>1. PICK counted \in BOOLEAN : Exchanged(counted)
    BY <1>1 DEF Next, Start, Step, Exchange, Missed, Tick, SlaveStep, TakeRequest, RepeatLast,
                PostResponse, vars, slaveVars
  <2>2. socket.command = "WriteRx" /\ rx' = buf
    BY <1>1, <2>1 DEF Exchanged, Execute, slaveVars
  <2>3. task \in Task /\ Busy /\ KindOf(task) = "WriteRx"
    BY <1>1, <2>2, FlightIsLive
  <2>4. task.step = "Write" /\ task.mode = "writer"
    BY <2>3, KindOfLive, TaskFields DEF StepsOf
  <2>5. QED
    BY <1>1, <2>2, <2>3, <2>4 DEF MailboxInv, MessageKept
<1>2. MailboxInv /\ [Next]_vars => [rx' # rx /\ rx' # Zero => rx' = Whole(given) \/ task.wait]_vars
  BY <1>1
<1>3. QED
  BY <1>2, MailboxInvariance, PTL DEF Spec, WrittenWhole
=============================================================================

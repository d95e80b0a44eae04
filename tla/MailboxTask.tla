----------------------------- MODULE MailboxTask -----------------------------
(***************************************************************************)
(* task/mailbox.rs with its two halves task/mailbox_read.rs and            *)
(* task/mailbox_write.rs: a task that writes one message into the mailbox  *)
(* of a slave or reads one from it, one PDU at a time.  A step of the task *)
(* (process_one_step) looks at the answer to its last PDU and puts the     *)
(* next one into the socket.  In between the PDU travels: the slave        *)
(* executes it or not, and the working counter may show another number     *)
(* than 1 although it did.                                                 *)
(*                                                                         *)
(* Of the time only what has passed since timer_start matters, cut off     *)
(* behind the longer timeout.  Before the first answer timer_start is 0    *)
(* and the time since then beyond every timeout.                           *)
(***************************************************************************)
EXTENDS Integers, MailboxSlave

CONSTANTS
  ReadTimeout,    \* MAILBOX_RESPONSE_RETRY_TIMEOUT_DEFAULT_MS
  WriteTimeout,   \* MAILBOX_REQUEST_RETRY_TIMEOUT_DEFAULT_MS
  BufferFits,     \* the buffer of the socket holds sm_size bytes
  Missable        \* kinds of PDU that may fail to be executed or counted

ASSUME TimeoutAssumption == ReadTimeout \in Nat /\ WriteTimeout \in Nat

ASSUME BufferAssumption == BufferFits \in BOOLEAN

ASSUME MissableAssumption == Missable \subseteq PduKind

VARIABLES
  task,       \* MailboxTask with its reader or writer
  elapsed,    \* time since timer_start
  socket,     \* command, recv_flag, wkc = 1 and the registers read
  buf,        \* data_buf of the socket
  given,      \* history: the message of the last start_to_write
  copies      \* history: mailbox accesses executed since the start, up to MaxCopies

history == <<given, copies>>
taskVars == <<task, elapsed, socket, buf, history>>
vars == <<slaveVars, taskVars>>

Longer(a, b) == IF a > b THEN a ELSE b

MaxElapsed == Longer(ReadTimeout, WriteTimeout) + 1

MaxCopies == 2

TaskError == {"UnexpectedCommand", "UnexpectedWkc", "Timeout", "NoSlaveReaction",
              "MailboxEmpty", "MailboxAlreadyExisted", "BufferSmall"}

Command == PduKind \cup {"NOP"}

\* A MailboxTask whose inner task has one of the given states; is_first and wait
\* belong to the check, activation to the reader and saved to the writer.
TaskOf(mode, steps) ==
  [state : {"Idle", "Processing", "Complete", "Error"},
   mode : {mode},
   step : steps \cup {"Idle", "Check", "Complete", "Error"},
   error : TaskError \cup {"none"},
   is_first : BOOLEAN,
   wait : BOOLEAN,                     \* wait_full or wait_empty
   activation : BOOLEAN,               \* repeat bit of activation_buf
   saved : Message \cup {NoMessage},   \* empty_check_buffer
   command : Command]

Task == TaskOf("reader", {"Read", "RequestRepeat", "WaitRepeatAck"})
          \cup TaskOf("writer", {"Write"})

Socket == [command : Command \cup {"None"}, recv_flag : BOOLEAN,
           wkc_ok : BOOLEAN, full : BOOLEAN, bit : BOOLEAN]

TypeOK ==
  /\ SlaveType
  /\ task \in Task
  /\ elapsed \in 0 .. MaxElapsed
  /\ socket \in Socket
  /\ buf \in Bytes
  /\ given \in Message \cup {NoMessage}
  /\ copies \in 0 .. MaxCopies

\* A reader or writer that start has prepared.
Started(mode, wait) ==
  [state |-> "Processing", mode |-> mode, step |-> "Check", error |-> "none",
   is_first |-> TRUE, wait |-> wait, activation |-> FALSE, saved |-> NoMessage,
   command |-> "NOP"]

NoPdu == [command |-> "None", recv_flag |-> FALSE, wkc_ok |-> FALSE,
          full |-> FALSE, bit |-> FALSE]

\* MailboxTask::new and an empty socket.
TaskInit ==
  /\ task = [Started("reader", FALSE) EXCEPT !.state = "Idle", !.step = "Idle"]
  /\ elapsed = MaxElapsed
  /\ socket = NoPdu
  /\ buf = Zero
  /\ given = NoMessage
  /\ copies = 0

Init == SlaveInit /\ TaskInit

\* is_busy
Busy == task.state = "Processing"

----------------------------------------------------------------------------
\* start_to_read
StartToRead(wait_full) ==
  /\ task' = Started("reader", wait_full)
  /\ elapsed' = MaxElapsed
  /\ copies' = 0
  /\ UNCHANGED <<socket, buf, given>>

\* The message is put into the buffer of the socket, then start_to_write.
StartToWrite(m, wait_empty) ==
  /\ task' = Started("writer", wait_empty)
  /\ elapsed' = MaxElapsed
  /\ buf' = Whole(m)
  /\ given' = m
  /\ copies' = 0
  /\ UNCHANGED socket

----------------------------------------------------------------------------
(* recieve_and_process *)

Fail(t, err) == [t EXCEPT !.step = "Error", !.error = err]

\* Mutant: the check that is repeated counts as a first one.
CheckAgainRestarts(t) == t

\* The mailbox is not yet as it should be.
CheckAgain(t) == [t EXCEPT !.is_first = FALSE]

\* CheckMailboxAlreadyExisted and CheckMailboxEmpty
CheckDone(t, ready, next, err) ==
  IF ~socket.wkc_ok THEN Fail(t, "NoSlaveReaction")
  ELSE LET u == [t EXCEPT !.activation = IF t.mode = "reader" THEN socket.bit ELSE @] IN
       CASE ready -> [u EXCEPT !.step = next]
         [] ~ready /\ t.wait -> CheckAgain(u)
         [] ~ready /\ ~t.wait -> Fail(u, err)

\* Mutant: the mailbox is checked again instead of asking for the lost message.
ReadDoneForgets(t) == [t EXCEPT !.step = IF socket.wkc_ok THEN "Complete" ELSE "Check"]

ReadDone(t) == [t EXCEPT !.step = IF socket.wkc_ok THEN "Complete" ELSE "RequestRepeat"]

\* Mutant: the writer asks for a repetition as the reader does.
WriteDoneRepeats(t) == [t EXCEPT !.step = IF socket.wkc_ok THEN "Complete" ELSE "RequestRepeat"]

\* Mutant: the message counts as written whatever the working counter.
WriteDoneUnchecked(t) == [t EXCEPT !.step = "Complete"]

WriteDone(t) == [t EXCEPT !.step = IF socket.wkc_ok THEN "Complete" ELSE "Write"]

\* The working counter of the repeat request is not looked at.
RepeatDone(t) == [t EXCEPT !.step = "WaitRepeatAck"]

AckDone(t) ==
  CASE ~socket.wkc_ok -> Fail(t, "UnexpectedWkc")
    [] socket.wkc_ok /\ socket.bit = t.activation ->
         [t EXCEPT !.step = "Check", !.is_first = FALSE, !.wait = TRUE]
    [] socket.wkc_ok /\ socket.bit # t.activation -> t

\* The match on the state of the reader or the writer.
Processed(t) ==
  CASE t.step = "Check" /\ t.mode = "reader" -> CheckDone(t, socket.full, "Read", "MailboxEmpty")
    [] t.step = "Check" /\ t.mode = "writer" ->
         CheckDone(t, ~socket.full, "Write", "MailboxAlreadyExisted")
    [] t.step = "Read" -> ReadDone(t)
    [] t.step = "Write" -> WriteDone(t)
    [] t.step = "RequestRepeat" -> RepeatDone(t)
    [] t.step = "WaitRepeatAck" -> AckDone(t)
    [] OTHER -> t

\* The first check starts the timer.
ElapsedAfter(t) == IF t.step = "Check" /\ t.is_first THEN 0 ELSE elapsed

\* The result of the reader or the writer becomes that of the task.
Outcome(t) == [t EXCEPT !.state = IF t.step \in {"Complete", "Error"} THEN t.step ELSE @]

\* recieve_and_process of MailboxTask; the timeout overrules every result.
Recieved ==
  LET t == IF socket.command = task.command THEN task ELSE Fail(task, "UnexpectedCommand")
      timeout == IF t.mode = "reader" THEN ReadTimeout ELSE WriteTimeout
  IN Outcome(IF ElapsedAfter(t) > timeout THEN Fail(Processed(t), "Timeout") ELSE Processed(t))

----------------------------------------------------------------------------
(* next_pdu *)

KindOf(t) ==
  CASE t.step = "Check" /\ t.mode = "reader" -> "ReadTxStatus"
    [] t.step = "Check" /\ t.mode = "writer" -> "ReadRxStatus"
    [] t.step = "Read" -> "ReadTx"
    [] t.step = "Write" -> "WriteRx"
    [] t.step = "RequestRepeat" -> "WriteActivation"
    [] t.step = "WaitRepeatAck" -> "ReadPdiControl"
    [] OTHER -> "None"

\* A message longer than the buffer: the reader or the writer ends in an error,
\* which MailboxTask does not see.
TooSmall(t) == t.step \in {"Read", "Write"} /\ ~BufferFits

\* The writer saves the head of the message before every check, the reader
\* toggles the repeat bit with every request.
TaskSending(t) ==
  IF TooSmall(t) THEN [Fail(t, "BufferSmall") EXCEPT !.command = KindOf(t)]
  ELSE [t EXCEPT !.command = IF KindOf(t) = "None" THEN @ ELSE KindOf(t),
                 !.activation = IF t.step = "RequestRepeat" THEN ~@ ELSE @,
                 !.saved = IF t.step = "Check" /\ t.mode = "writer" THEN buf.head ELSE @]

\* Mutant: the head of the message is not restored.
BufferSendingStale(t) ==
  CASE t.step \in {"Check", "RequestRepeat", "WaitRepeatAck"} -> [buf EXCEPT !.head = NoMessage]
    [] t.step = "Read" /\ BufferFits -> Zero
    [] OTHER -> buf

\* What next_pdu leaves in the buffer.
BufferSending(t) ==
  CASE t.step \in {"Check", "RequestRepeat", "WaitRepeatAck"} -> [buf EXCEPT !.head = NoMessage]
    [] t.step = "Read" /\ BufferFits -> Zero
    [] t.step = "Write" -> [buf EXCEPT !.head = t.saved]
    [] OTHER -> buf

\* process_one_step: the answer, if there is one, and the next PDU.
ProcessOneStep ==
  LET answered == socket.recv_flag /\ Busy
      t == IF answered THEN Recieved ELSE task
      sends == t.state = "Processing" /\ KindOf(t) # "None"
  IN
  /\ socket.recv_flag \/ socket.command = "None"
  /\ elapsed' = IF answered /\ socket.command = task.command THEN ElapsedAfter(task) ELSE elapsed
  /\ task' = IF sends THEN TaskSending(t) ELSE t
  /\ buf' = IF sends THEN BufferSending(t) ELSE buf
  /\ socket' = IF sends /\ ~TooSmall(t) THEN [NoPdu EXCEPT !.command = KindOf(t)] ELSE NoPdu
  /\ UNCHANGED history

----------------------------------------------------------------------------
(* The way of a PDU through the slave and back, external. *)

\* The answer arrives in the socket.
Answered(executed, counted) ==
  LET kind == socket.command IN
  /\ socket' = [socket EXCEPT !.recv_flag = TRUE, !.wkc_ok = counted,
                              !.full = executed /\ AnswerFull(kind),
                              !.bit = executed /\ AnswerBit(kind)]
  /\ buf' = IF executed THEN AnswerBytes(kind, buf) ELSE buf
  /\ copies' = IF executed /\ kind \in {"ReadTx", "WriteRx"} /\ copies < MaxCopies
                THEN copies + 1 ELSE copies
  /\ UNCHANGED <<task, elapsed, given>>

InFlight == socket.command \in PduKind /\ ~socket.recv_flag

\* The slave executes the PDU; the counter shows it unless it is miscounted.
Exchanged(counted) ==
  /\ InFlight
  /\ counted \/ socket.command \in Missable
  /\ Execute(socket.command, buf, task.activation)
  /\ Answered(TRUE, counted)

\* The slave does not execute the PDU: it is not reached, or the buffer is
\* full or empty.
Missed ==
  /\ InFlight
  /\ \/ socket.command \in Missable
     \/ socket.command = "WriteRx" /\ rx # Zero
     \/ socket.command = "ReadTx" /\ tx = NoMessage
  /\ Answered(FALSE, FALSE)
  /\ UNCHANGED slaveVars

\* Time passes.
Tick ==
  /\ elapsed < MaxElapsed
  /\ elapsed' = elapsed + 1
  /\ UNCHANGED <<slaveVars, task, socket, buf, history>>

\* The master starts the task when it is not busy.
Start ==
  /\ ~Busy
  /\ \E wait \in BOOLEAN :
       \/ StartToRead(wait)
       \/ \E m \in Message : StartToWrite(m, wait)
  /\ UNCHANGED slaveVars

SlaveStep ==
  /\ TakeRequest \/ RepeatLast \/ \E m \in Message : PostResponse(m)
  /\ UNCHANGED taskVars

Exchange == (\E counted \in BOOLEAN : Exchanged(counted)) \/ Missed

Step == ProcessOneStep /\ UNCHANGED slaveVars

Next == Start \/ Step \/ Exchange \/ Tick \/ SlaveStep

Spec == Init /\ [][Next]_vars

\* The master steps its tasks in every cycle, every frame comes back, time goes on.
Fairness == WF_vars(Step) /\ WF_vars(Exchange) /\ WF_vars(Tick)

FairSpec == Spec /\ Fairness

----------------------------------------------------------------------------
(* Properties *)

(* A reader that completes holds, whole, a message the slave has given     *)
(* away for good, and it reports an empty mailbox only when it has read    *)
(* nothing: a message that got lost on its way is not mistaken for none,   *)
(* with repetitions, miscounted answers and timeouts in between.           *)
ReadOutcome ==
  task.mode = "reader" =>
    /\ task.state = "Complete" => copies > 0 /\ last # NoMessage /\ buf = Whole(last)
    /\ task.error = "MailboxEmpty" => copies = 0

(* A writer that completes has got its message into the mailbox of the     *)
(* slave, and one that reports a full mailbox or a silent slave has not    *)
(* written anything, so that the caller may send the message again.        *)
WriteOutcome ==
  task.mode = "writer" =>
    /\ task.state = "Complete" => copies > 0
    /\ task.error \in {"MailboxAlreadyExisted", "NoSlaveReaction"} => copies = 0

(* What arrives in the mailbox of the slave is the message as the caller   *)
(* gave it, although the status of the mailbox was read into the same      *)
(* buffer before.  With wait_empty the head of the message is saved again  *)
(* after it was overwritten, and this does not hold; no caller under       *)
(* src/src waits.                                                          *)
WrittenWhole ==
  [][rx' # rx /\ rx' # Zero => rx' = Whole(given) \/ task.wait]_vars

(* A task ends, with a result or with an error, however often the mailbox  *)
(* is checked, a message is written again or an acknowledgement is awaited: *)
(* the timer of the first check runs through all of it.                    *)
TaskEnds == Busy ~> ~Busy
=============================================================================

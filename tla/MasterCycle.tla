----------------------------- MODULE MasterCycle -----------------------------
(***************************************************************************)
(* master/mod.rs and master/mailbox.rs: the cycle of the master, process,  *)
(* which exchanges the PDUs of all sockets and then steps the tasks of the *)
(* cycle, and the calls of the application between two cycles: those that  *)
(* run a task of their own on the general purpose socket in block_on, and  *)
(* those that only leave something for the next cycle.                     *)
(*                                                                         *)
(* block_on polls all sockets but steps one task: the answers of the       *)
(* others wait for the next cycle.  A round of PDUs behaves as PduExchange *)
(* says; process returns while it is on its way, and the application goes  *)
(* on.  The transfer of AL states is that of AlStateTransfer, the mailbox  *)
(* task that of MailboxTask.                                               *)
(***************************************************************************)
EXTENDS Integers, FiniteSets

CONSTANTS
  Slave,          \* 0 .. n - 1
  Single,         \* the slaves that are addressed one by one
  Programs,       \* what an application does: [calls, dc, polled]; dc: init_dc has set dc_task;
                  \* polled: the state of slave 0's mailbox is one of the process data (FMMU 2)
  AlTarget,       \* states that are asked for
  Data,           \* contents of a register
  Output,         \* values of the output data
  Message, NoMessage,
  DataBits(_),    \* contents of a register, taken for an AL status
  MaxCalls,       \* requests for AL states and calls in block_on
  MaxFaults       \* PDUs that a slave misses, calls that are given up

ASSUME SlaveAssumption == IsFiniteSet(Slave) /\ Single \subseteq Slave

VARIABLES
  program,
  phase,          \* of the round: idle, sent, arrived
  sockets,        \* al, rx, dc, gp and tf
  tf,             \* al_tf_task
  monitor,        \* al_state_task, rx_error_task, dc_task
  call,           \* the call on the general purpose socket
  pd,             \* process_data_handle, process_data_task and the buffer
  found,          \* slave_with_mailbox
  mb_task, mb_elapsed, mb_socket, mb_buf, mb_given, mb_copies,   \* MailboxTask
  rx, tx, last, repeat, repeat_ack,                              \* its slave, slave 0
  dev,            \* slaves: AL state, a register, the output data
  dead,           \* a panic
  faults, calls,
  wanted,         \* history: what write_pdo was given last
  raced,          \* history: while the process data were under way
  disturbed       \* history: something else acts on the AL states

mbVars == <<mb_task, mb_elapsed, mb_socket, mb_buf, mb_given, mb_copies>>
mbSlave == <<rx, tx, last, repeat, repeat_ack>>
history == <<wanted, raced, disturbed>>
vars == <<program, phase, sockets, tf, monitor, call, pd, found, mbVars, mbSlave, dev, dead, faults,
          calls, history>>

Handle == {"al", "rx", "dc", "gp", "tf"}
Nobody == -1
Timeout == 1

\* A transfer that finds q in its socket, at time e after its request.
AL(q, e) == INSTANCE AlStateTransfer WITH
  PreOpTimeout <- Timeout, SafeOpOpTimeout <- Timeout,
  BackToInitTimeout <- Timeout, BackToSafeOpTimeout <- Timeout, Factor <- 1,
  task <- tf, elapsed <- e, socket <- q, seen <- 0, al <- 0, err <- 0, request <- 0, pdi <- 0

MB == INSTANCE MailboxTask WITH
  ReadTimeout <- Timeout, WriteTimeout <- Timeout, BufferFits <- TRUE, Missable <- {},
  task <- mb_task, elapsed <- mb_elapsed, socket <- mb_socket, buf <- mb_buf,
  given <- mb_given, copies <- mb_copies

\* For what does not depend on the socket.
Transfer == INSTANCE AlStateTransfer WITH
  PreOpTimeout <- Timeout, SafeOpOpTimeout <- Timeout,
  BackToInitTimeout <- Timeout, BackToSafeOpTimeout <- Timeout, Factor <- 1,
  task <- tf, elapsed <- 0, socket <- 0, seen <- 0, al <- 0, err <- 0, request <- 0, pdi <- 0

ASSUME AlTargetAssumption == AlTarget \subseteq Transfer!AlState

All == [all |-> TRUE, slaves |-> Slave]
One(s) == [all |-> FALSE, slaves |-> {s}]
TargetSlave == {All} \cup {One(s) : s \in Single}

Cmd(op, all, reg) == [op |-> op, all |-> all, reg |-> reg]

\* Command::default reads register 0, of one slave.
DefaultCommand == Cmd("read", FALSE, "DlInformation")

\* A socket: what it asks for and, when answered, what it got.
Ask(command, slaves, value, ack) ==
  [stage |-> "queued", command |-> command, slaves |-> slaves, value |-> value, ack |-> ack,
   wkc |-> 0, bits |-> {}, change_err |-> FALSE]

EmptySocket == [Ask(DefaultCommand, {}, "none", FALSE) EXCEPT !.stage = "idle"]

\* An answer as a task sees it that is for the slaves of to.
Answer(h, to) ==
  LET q == sockets[h]
  IN [command |-> q.command, wkc_ok |-> q.wkc = Cardinality(to.slaves), bits |-> q.bits,
      change_err |-> q.change_err]

NewCall == [kind |-> "none", to |-> All, reg |-> "none", value |-> "none", state |-> "Idle",
            command |-> DefaultCommand, al |-> Transfer!NewTask(All), met |-> FALSE,
            stale |-> FALSE, done |-> FALSE]

NewTransfer(to, target) ==
  [Transfer!NewTask(to) EXCEPT !.state = "Read", !.target = target, !.command = DefaultCommand]

\* is_busy of a transfer
Transferring(t) == t.state \notin {"Idle", "Error", "Complete", "panic"}

Calling == call.state = "Busy"

\* EtherCatMaster::new, and init with its result.
Init ==
  /\ program \in Programs
  /\ phase = "idle"
  /\ sockets = [h \in Handle |-> EmptySocket]
  /\ tf = Transfer!NewTask(All)
  /\ monitor = [h \in {"al", "rx", "dc"} |-> [last |-> {}, invalid |-> FALSE]]
  /\ call = NewCall
  /\ pd = [handle |-> FALSE, fits |-> TRUE, located |-> FALSE, configured |-> FALSE,
           stage |-> "idle", out |-> "none", full |-> FALSE, sent |-> "none", wkc_ok |-> FALSE,
           invalid |-> FALSE]
  /\ found = Nobody
  /\ MB!Init /\ repeat = FALSE
  /\ dev = [s \in Slave |-> [al |-> "PreOperational", err |-> FALSE, request |-> "none",
                             reg |-> "none", out |-> "none"]]
  /\ dead = FALSE /\ faults = 0 /\ calls = 0
  /\ wanted = "none" /\ raced = FALSE /\ disturbed = FALSE

----------------------------------------------------------------------------
(* The application.  It acts when process or a call has returned. *)

Application(c) == ~dead /\ phase # "arrived" /\ ~Calling /\ c \in program.calls

\* A request for a state is under way, from an earlier transfer or in the socket of a
\* call that was given up.
RequestPending ==
  \/ \E s \in Slave : dev[s].request # "none"
  \/ sockets["gp"].stage \in {"queued", "sent"} /\ sockets["gp"].command.reg = "AlControl"

RequestAlState(target) ==
  /\ Application("request_al_state")
  /\ ~Transferring(tf)
  /\ calls < MaxCalls /\ calls' = calls + 1
  /\ tf' = NewTransfer(All, target)
  /\ disturbed' = RequestPending
  /\ UNCHANGED <<program, phase, sockets, monitor, call, pd, found, mbVars, mbSlave, dev, dead,
                 faults, wanted, raced>>

\* The start of a call in block_on.  write_register puts its data into the buffer of the
\* socket, also if a PDU of an earlier call is still to be sent from it.
StartCall(kind, to, reg, value) ==
  /\ Application(kind)
  /\ calls < MaxCalls /\ calls' = calls + 1
  /\ call' = [NewCall EXCEPT
       !.kind = kind, !.to = to, !.reg = reg, !.value = value, !.state = "Busy",
       !.al = NewTransfer(to, IF kind = "change_al_state" THEN value ELSE "Init"),
       !.met = sockets["gp"].stage # "idle" /\ sockets["gp"].command = DefaultCommand,
       !.stale = sockets["gp"].stage # "idle"]
  /\ sockets' = IF kind = "write_register" /\ sockets["gp"].stage = "queued"
                THEN [sockets EXCEPT !["gp"].value = value] ELSE sockets
  /\ disturbed' = (disturbed \/ kind = "change_al_state")
  /\ UNCHANGED <<program, phase, tf, monitor, pd, found, mbVars, mbSlave, dev, dead, faults,
                 wanted, raced>>

ReadRegister == \E to \in TargetSlave, reg \in {"Reg", "DlInformation"} :
                  StartCall("read_register", to, reg, "none")
WriteRegister == \E to \in TargetSlave, d \in Data : StartCall("write_register", to, "Reg", d)
ReadAlState == StartCall("read_al_state", All, "AlStatus", "none")
ChangeAlState == \E to \in TargetSlave, a \in AlTarget : StartCall("change_al_state", to, "none", a)

\* block_on returns an error of the link, or its limit is reached after a step that put
\* another PDU into the socket.
GiveUp ==
  /\ Calling
  /\ phase = "sent" \/ (phase = "idle" /\ call.kind = "change_al_state")
  /\ faults < MaxFaults
  /\ faults' = faults + 1
  /\ call' = [call EXCEPT !.state = "Error"]
  /\ UNCHANGED <<program, phase, sockets, tf, monitor, pd, found, mbVars, mbSlave, dev, dead,
                 history, calls>>

\* register_process_data_buffer.  A buffer shorter than the image is refused, but the image
\* is empty before the configuration.  There is no place for a second socket.
RegisterBuffer(fits) ==
  /\ Application("register")
  /\ fits \/ ~pd.configured
  /\ dead' = pd.handle
  /\ pd' = IF pd.handle THEN pd ELSE [pd EXCEPT !.handle = TRUE, !.fits = fits]
  /\ UNCHANGED <<program, phase, sockets, tf, monitor, call, found, mbVars, mbSlave, dev, faults,
                 history, calls>>

\* configure_slaves_for_operation gives the FMMUs their addresses; if it does not fail then,
\* it sets the expected working counter and the size.
Configure(ok) ==
  /\ Application("register")
  /\ ~pd.configured /\ phase = "idle"
  /\ pd' = [pd EXCEPT !.located = TRUE, !.configured = ok]
  /\ UNCHANGED <<program, phase, sockets, tf, monitor, call, found, mbVars, mbSlave, dev, dead,
                 faults, history, calls>>

WritePdo(v) ==
  /\ Application("write_pdo")
  /\ pd.handle /\ pd.configured /\ pd.fits
  /\ pd' = [pd EXCEPT !.out = v]
  /\ wanted' = v
  /\ raced' = (pd.stage = "sent")
  /\ UNCHANGED <<program, phase, sockets, tf, monitor, call, found, mbVars, mbSlave, dev, dead,
                 faults, disturbed, calls>>

\* write_sdo_request and read_sdo_request, through try_get_mailbox_request_interface.
RequestMailbox(m) ==
  /\ Application("request_mailbox")
  /\ ~MB!Busy
  /\ MB!StartToWrite(m, FALSE)
  /\ UNCHANGED <<program, phase, sockets, tf, monitor, call, pd, found, mbSlave, dev, dead, faults,
                 history, calls>>

----------------------------------------------------------------------------
(* A round of poll_tx_rx; the slaves are external. *)

\* The PDUs are copied into the frame.  The buffer must hold the image.
Send ==
  /\ ~dead /\ phase = "idle"
  /\ dead' = (pd.stage = "queued" /\ ~pd.fits)
  /\ phase' = IF /\ \A h \in Handle : sockets[h].stage # "queued"
                 /\ pd.stage # "queued" /\ ~MB!InFlight
              THEN "arrived" ELSE "sent"
  /\ sockets' = [h \in Handle |-> IF sockets[h].stage = "queued"
                                  THEN [sockets[h] EXCEPT !.stage = "sent"] ELSE sockets[h]]
  /\ pd' = IF pd.stage = "queued" THEN [pd EXCEPT !.stage = "sent", !.sent = pd.out] ELSE pd
  /\ UNCHANGED <<program, tf, monitor, call, found, mbVars, mbSlave, dev, faults, history, calls>>

\* A write to a slave.  A request for a state replaces one that it has not acted on; it
\* has no effect with an error that is not acknowledged, and one for no state is an error.
Wrote(d, q) ==
  CASE q.command.reg = "Reg" -> [d EXCEPT !.reg = q.value]
    [] q.command.reg = "AlControl" ->
         LET e == d.err /\ ~q.ack IN
         IF q.value \notin Transfer!AlState THEN [d EXCEPT !.err = TRUE]
         ELSE [d EXCEPT !.err = e,
                        !.request = IF e THEN @ ELSE IF q.value = d.al THEN "none" ELSE q.value]
    [] OTHER -> d

Sent(h) == sockets[h].stage = "sent"

Written(d, h, lost) ==
  [s \in Slave |-> IF Sent(h) /\ sockets[h].command.op = "write"
                        /\ s \in sockets[h].slaves \ lost
                   THEN Wrote(d[s], sockets[h]) ELSE d[s]]

Contents(d, reg) ==
  CASE reg = "Reg" -> d.reg
    [] reg = "AlStatus" -> d.al
    [] OTHER -> reg

BitsOf(d, reg) ==
  IF reg = "AlStatus" THEN Transfer!Bits(d.al) ELSE DataBits(Contents(d, reg))

Read(d, q, reached) == {Contents(d[s], q.command.reg) : s \in reached}

\* The socket with its answer from slaves in state d.
Got(d, h, lost) ==
  LET q == sockets[h]
      reached == q.slaves \ lost
  IN IF ~Sent(h) THEN q
     ELSE [q EXCEPT !.stage = "answered", !.wkc = Cardinality(reached),
                    !.bits = IF q.command.op = "read"
                             THEN UNION {BitsOf(d[s], q.command.reg) : s \in reached} ELSE {},
                    !.value = IF q.command.op # "read" THEN @
                              ELSE IF Cardinality(Read(d, q, reached)) = 1
                              THEN CHOOSE v \in Read(d, q, reached) : TRUE ELSE "mixed",
                    !.change_err = /\ q.command = Cmd("read", q.command.all, "AlStatus")
                                   /\ \E s \in reached : d[s].err]

\* The call's own PDU: of a register, done as asked; of a transfer, with all slaves
\* in the state.
OwnDone(lost) ==
  LET q == sockets["gp"] IN
  /\ Sent("gp") /\ q.slaves = call.to.slaves /\ q.slaves \cap lost = {}
  /\ CASE call.kind = "change_al_state" ->
            /\ q.command.reg = "AlStatus"
            /\ \A s \in q.slaves : dev[s].al = call.al.target
       [] call.kind = "write_register" ->
            q.command = Cmd("write", call.to.all, call.reg) /\ q.value = call.value
       [] call.kind = "read_register" -> q.command = Cmd("read", call.to.all, call.reg)
       [] OTHER -> FALSE

\* The frame has been through the slaves, of which those in lost missed it, and is back.
Arrive ==
  /\ ~dead /\ phase = "sent"
  /\ phase' = "arrived"
  /\ \E lost \in {{}} \cup {{s} : s \in Slave} :
       /\ faults + Cardinality(lost) <= MaxFaults
       /\ faults' = faults + Cardinality(lost)
       /\ sockets' = [h \in Handle |->
                        Got(IF h = "tf" THEN Written(dev, "gp", lost) ELSE dev, h, lost)]
       /\ LET d == Written(Written(dev, "gp", lost), "tf", lost)
          IN dev' = [s \in Slave |-> IF pd.stage = "sent" /\ s \notin lost
                                     THEN [d[s] EXCEPT !.out = pd.sent] ELSE d[s]]
       /\ pd' = IF pd.stage # "sent" THEN pd
                ELSE [pd EXCEPT !.stage = "answered", !.out = pd.sent, !.wkc_ok = (lost = {}),
                                !.full = IF 0 \in lost THEN @ ELSE tx # NoMessage]
       /\ call' = [call EXCEPT !.done = IF Calling THEN OwnDone(lost) ELSE @]
       /\ IF ~MB!InFlight THEN UNCHANGED <<mbVars, mbSlave>>
          ELSE IF 0 \in lost THEN MB!Answered(FALSE, FALSE) /\ UNCHANGED mbSlave
          ELSE MB!Exchanged(TRUE) \/ MB!Missed
  /\ UNCHANGED <<program, tf, monitor, found, dead, history, calls>>

\* A slave obeys or refuses.
SlaveReacts(s) ==
  /\ ~dead /\ dev[s].request # "none"
  /\ \/ /\ Transfer!Permitted(dev[s].al, dev[s].request)
        /\ dev' = [dev EXCEPT ![s].al = dev[s].request, ![s].request = "none"]
     \/ /\ dev[s].request # "Init"
        /\ dev' = [dev EXCEPT ![s].err = TRUE, ![s].request = "none"]
  /\ UNCHANGED <<program, phase, sockets, tf, monitor, call, pd, found, mbVars, mbSlave, dead,
                 faults, history, calls>>

MailboxSlaveActs ==
  /\ ~dead /\ phase # "arrived" /\ "request_mailbox" \in program.calls
  /\ MB!TakeRequest \/ MB!RepeatLast \/ \E m \in Message : MB!PostResponse(m)
  /\ UNCHANGED <<program, phase, sockets, tf, monitor, call, pd, found, mbVars, dev, dead, faults,
                 history, calls>>

\* Time goes on for the mailbox task.
Tick ==
  /\ ~dead /\ phase = "idle" /\ MB!Busy
  /\ mb_elapsed < MB!MaxElapsed
  /\ mb_elapsed' = mb_elapsed + 1
  /\ UNCHANGED <<program, phase, sockets, tf, monitor, call, pd, found, mb_task, mb_socket, mb_buf,
                 mb_given, mb_copies, mbSlave, dev, dead, faults, history, calls>>

----------------------------------------------------------------------------
(* process, after a poll that returned Ok(true) *)

\* process_one_step of a transfer on socket h: the tasks it may become.
Transferred(t, h, e) ==
  IF Transferring(t) /\ sockets[h].stage = "answered"
  THEN AL(Answer(h, t.to), e)!Recieved(t) ELSE {t}

TransferSocket(t) ==
  LET p == Transfer!PduOf(t) IN
  IF Transferring(t) THEN Ask(p.command, p.slaves, p.value, p.ack) ELSE EmptySocket

TransferSending(t) == IF Transferring(t) THEN Transfer!Sending(t) ELSE t

\* The tasks that only read; the target of rx_error_task is never set.
MonitorPdu(h) ==
  CASE h = "al" -> Ask(Cmd("read", TRUE, "AlStatus"), Slave, "none", FALSE)
    [] h = "rx" -> Ask(Cmd("read", FALSE, "RxErrorCounter"), {0}, "none", FALSE)
    [] h = "dc" -> Ask(Cmd("readwrite", TRUE, "DcSystemTime"), Slave, "none", FALSE)

\* recieve_and_process of AlStateReadTask, RxErrorReadTask and DcSyncTask: a wrong working
\* counter is counted, and what came is taken all the same.
Monitored(h) ==
  IF sockets[h].stage # "answered" THEN monitor[h]
  ELSE [last |-> sockets[h].bits,
        invalid |-> monitor[h].invalid \/ sockets[h].wkc # Cardinality(sockets[h].slaves)]

\* Mutant: nothing is sent any more after a wrong working counter.
PdSteppedOnce(p) ==
  LET wrong == p.invalid \/ (p.stage = "answered" /\ ~p.wkc_ok)
  IN [p EXCEPT !.invalid = wrong, !.stage = IF p.configured /\ ~wrong THEN "queued" ELSE "idle"]

\* process_one_step of ProcessTask; with no working counter to expect it sends nothing.
PdStepped(p) ==
  [p EXCEPT !.invalid = @ \/ (p.stage = "answered" /\ ~p.wkc_ok),
            !.stage = IF p.configured THEN "queued" ELSE "idle"]

\* find_slave_with_mailbox_from_process_data: the last line forgets whom the loop found.
FindSlave == Nobody

\* Whether it may panic: it unwraps what it reads of the mailbox's state, which has no place
\* in the image before the FMMU has an address, and may lie behind the end of a buffer that
\* is too short.  The FMMU was made from the sync manager that it is compared with, so that
\* the other unwrap and the assertion hold.
StatusUnread ==
  CASE ~program.polled \/ (pd.located /\ pd.fits) -> {FALSE}
    [] program.polled /\ ~pd.located -> {TRUE}
    [] program.polled /\ pd.located /\ ~pd.fits -> BOOLEAN

\* MailboxManager::process_one_step
ManagerStep ==
  IF ~MB!Busy /\ found # Nobody
  THEN LET t == MB!Started("reader", FALSE)
       IN /\ mb_task' = MB!TaskSending(t)
          /\ mb_buf' = MB!BufferSending(t)
          /\ mb_socket' = [MB!NoPdu EXCEPT !.command = MB!KindOf(t)]
          /\ mb_elapsed' = MB!MaxElapsed /\ mb_copies' = 0
          /\ UNCHANGED mb_given
  ELSE MB!ProcessOneStep

\* The tasks in their order.  A status code of a slave that is none of AlStatusCode panics in
\* al_state_task as it does in a transfer.
Process ==
  /\ ~dead /\ phase = "arrived" /\ ~Calling
  /\ phase' = "idle"
  /\ IF pd.handle
     THEN /\ pd' = PdStepped(pd)
          /\ ManagerStep
          /\ found' = FindSlave
     ELSE UNCHANGED <<pd, mbVars, found>>
  /\ monitor' = [h \in {"al", "rx", "dc"} |-> Monitored(h)]
  /\ \E e \in {0, Timeout + 1} : \E t \in Transferred(tf, "tf", e) :
       /\ tf' = TransferSending(t)
       /\ sockets' = [h \in Handle |->
            CASE h = "tf" -> TransferSocket(t)
              [] h = "gp" \/ (h = "dc" /\ ~program.dc) -> sockets[h]
              [] OTHER -> MonitorPdu(h)]
       /\ \E unknown \in {FALSE, sockets["al"].change_err},
             unread \in IF pd.handle THEN StatusUnread ELSE {FALSE} :
            dead' = (t.state = "panic" \/ unknown \/ unread)
  /\ UNCHANGED <<program, call, mbSlave, dev, faults, history, calls>>

----------------------------------------------------------------------------
(* block_on, after a poll that returned Ok(true): a step of the call's task. *)

CallSends(c, q) ==
  /\ call' = [c EXCEPT !.command = q.command]
  /\ sockets' = [sockets EXCEPT !["gp"] = q]

CallEnds(state) ==
  /\ call' = [call EXCEPT !.state = state, !.value = IF call.kind = "read_register"
                                                      THEN sockets["gp"].value ELSE @]
  /\ sockets' = [sockets EXCEPT !["gp"] = EmptySocket]

\* Mutant: the command of the answer is not compared.
AddressAccessedUnchecked(q) == IF q.wkc_ok THEN "Ok" ELSE "Error"

\* recieve_and_process of AddressAccessTask
AddressAccessed(q) == IF q.command = call.command /\ q.wkc_ok THEN "Ok" ELSE "Error"

AddressAccess ==
  LET q == sockets["gp"] IN
  /\ call.kind \in {"read_register", "write_register"}
  /\ IF q.stage = "answered" THEN CallEnds(AddressAccessed(Answer("gp", call.to)))
     ELSE CallSends(call, Ask(Cmd(IF call.kind = "read_register" THEN "read" ELSE "write",
                                  call.to.all, call.reg), call.to.slaves, call.value, FALSE))
  /\ dead' = FALSE

\* read_al_state: AlStateReadTask is never busy, so that block_on ends after the first step.
\* It takes the answer of an earlier call, if there is one, or has none to unwrap.
AlStateRead ==
  LET q == sockets["gp"] IN
  /\ call.kind = "read_al_state"
  /\ call' = [call EXCEPT !.state = IF q.stage = "answered" /\ q.wkc = Cardinality(Slave) THEN "Ok"
                                    ELSE "Error"]
  /\ sockets' = [sockets EXCEPT !["gp"] = Ask(Cmd("read", TRUE, "AlStatus"), Slave, "none", FALSE)]
  /\ dead' = (q.stage # "answered")

\* change_al_state; the timeouts of the transfer are beyond the limit of block_on.
AlStateChanged ==
  /\ call.kind = "change_al_state"
  /\ \E t \in Transferred(call.al, "gp", 0) :
       /\ call' = [call EXCEPT !.al = TransferSending(t),
                               !.state = CASE t.state = "Complete" -> "Ok"
                                           [] t.state \in {"Error", "panic"} -> "Error"
                                           [] OTHER -> "Busy"]
       /\ sockets' = [sockets EXCEPT !["gp"] = TransferSocket(t)]
       /\ dead' = (t.state = "panic")

CallStep ==
  /\ ~dead /\ phase = "arrived" /\ Calling
  /\ phase' = "idle"
  /\ AddressAccess \/ AlStateRead \/ AlStateChanged
  /\ UNCHANGED <<program, tf, monitor, pd, found, mbVars, mbSlave, dev, faults, history, calls>>

----------------------------------------------------------------------------
Next ==
  \/ \E a \in AlTarget : RequestAlState(a)
  \/ ReadRegister \/ WriteRegister \/ ReadAlState \/ ChangeAlState \/ GiveUp
  \/ \E fits \in BOOLEAN : RegisterBuffer(fits)
  \/ \E ok \in BOOLEAN : Configure(ok)
  \/ \E v \in Output : WritePdo(v)
  \/ \E m \in Message : RequestMailbox(m)
  \/ Send \/ Arrive \/ Process \/ CallStep \/ Tick \/ MailboxSlaveActs
  \/ \E s \in Slave : SlaveReacts(s)

Spec == Init /\ [][Next]_vars

\* The application repeats process, and frames come back.
FairSpec == Spec /\ WF_vars(Send) /\ WF_vars(Arrive) /\ WF_vars(Process)

----------------------------------------------------------------------------
(* Properties *)

\* A broadcast reads Init OR PreOperational, which is the value of Bootstrap.
TakenForBootstrap(t) == t.to.all /\ t.target = "Bootstrap"

(* A call that returns Ok has done what it was asked for, whatever PDU of  *)
(* a call that was given up is still in the socket: a write is in the      *)
(* registers, what is read was in them, and a changed state was seen.  But *)
(* a read of register 0 that was left there is taken for the answer of any *)
(* call, since a new task compares with Command::default; and              *)
(* read_al_state returns nothing but such leftovers, or panics.  All       *)
(* slaves in Init and PreOperational together pass for Bootstrap.          *)
CallOkIsDone ==
  call.state = "Ok" =>
    \/ call.met
    \/ /\ call.kind \in {"read_register", "write_register"}
       /\ call.done
       /\ call.reg = "Reg" => \A s \in call.to.slaves : call.value \in {dev[s].reg, "mixed"}
    \/ call.kind = "change_al_state" /\ (call.done \/ TakenForBootstrap(call.al))
    \/ call.kind = "read_al_state" /\ call.stale

(* When the transfer of request_al_state completes in the cycle, the       *)
(* slaves are in the state and stay there, although its answers may have   *)
(* waited for a call on another socket: unless change_al_state was called, *)
(* or an earlier request was still to be sent or acted on, or the slaves   *)
(* in Init and PreOperational together pass for Bootstrap.                 *)
CycleTransferHolds ==
  (tf.state = "Complete" /\ ~disturbed) =>
    (\A s \in Slave : dev[s].al = tf.target) \/ TakenForBootstrap(tf)

(* What write_pdo was given reaches the slaves, also if one of them misses *)
(* a frame: unless it was written while the process data were under way,   *)
(* after process had returned the old cycle count.  Then the answer        *)
(* overwrites it in the buffer, and it is lost.                            *)
OutputReaches ==
  \A v \in Output : (wanted = v /\ ~raced) ~>
                      ((\A s \in Slave : dev[s].out = v) \/ wanted # v \/ raced \/ dead)

(* The cycle polls the mailboxes with the process data: a message that they *)
(* show in a mailbox is fetched, unless the application keeps the mailbox  *)
(* task busy with requests.                                                *)
MailboxPolled ==
  (pd.configured /\ pd.full) ~>
    (tx = NoMessage \/ (MB!Busy /\ mb_task.mode = "writer") \/ dead)
============================================================================

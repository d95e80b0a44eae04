--------------------------- MODULE AlStateTransfer ---------------------------
(***************************************************************************)
(* task/al_state_transfer.rs: the task that brings one slave, or all of    *)
(* them with broadcast PDUs, into a state of the EtherCAT state machine.   *)
(* It reads the state, acknowledges an error, hands the EEPROM over to the *)
(* slave, writes its request and polls until the slaves are there, refuse  *)
(* or take too long.  A broadcast read returns the bitwise OR of what the  *)
(* slaves have in their registers.                                         *)
(*                                                                         *)
(* The master steps it in its cycle (request_al_state), or change_al_state *)
(* steps it in block_on, which may give up on it and leaves its last PDU   *)
(* in the socket for the next call.                                        *)
(***************************************************************************)
EXTENDS Integers, FiniteSets

CONSTANTS
  Slave,
  Single,         \* the slaves that are addressed one by one
  AlTarget,       \* the states that are asked for
  PreOpTimeout, SafeOpOpTimeout, BackToInitTimeout, BackToSafeOpTimeout,
                  \* ..._TIMEOUT_DEFAULT_MS, in milliseconds
  Factor,         \* the timeout of the code in milliseconds over the above, 1000
  MaxFaults       \* PDUs a slave misses and errors slaves raise by themselves

AlState == {"Init", "PreOperational", "Bootstrap", "SafeOperational", "Operational"}

ASSUME SlaveAssumption == IsFiniteSet(Slave) /\ Slave # {} /\ Single \subseteq Slave

ASSUME AlTargetAssumption == AlTarget \subseteq AlState

ASSUME TimeAssumption ==
  /\ {PreOpTimeout, SafeOpOpTimeout, BackToInitTimeout, BackToSafeOpTimeout} \subseteq Nat
  /\ Factor \in Nat \ {0}
  /\ MaxFaults \in Nat

VARIABLES
  task,       \* AlStateTransferTask
  elapsed,    \* milliseconds since timer_start
  socket,     \* the PDU of the task and its answer
  al,         \* slaves: the state each one is in
  err,        \* slaves: whether it shows an error
  request,    \* slaves: the state it was asked for and has not acted on
  pdi,        \* slaves: whether it owns its EEPROM
  faults,
  seen        \* history: state and error of the slaves at the last read of the task

deviceVars == <<al, err, request, pdi>>
vars == <<task, elapsed, socket, deviceVars, faults, seen>>

----------------------------------------------------------------------------
\* The values of AlState as bits, and the conversion back.
Bits(a) ==
  CASE a = "Init" -> {0}
    [] a = "PreOperational" -> {1}
    [] a = "Bootstrap" -> {0, 1}
    [] a = "SafeOperational" -> {2}
    [] a = "Operational" -> {3}

AlStateFrom(bits) ==
  IF \E a \in AlState : Bits(a) = bits
  THEN CHOOSE a \in AlState : Bits(a) = bits
  ELSE "InvalidOrMixed"

\* TargetSlave
TargetSlave ==
  {[all |-> FALSE, slaves |-> {s}] : s \in Single} \cup {[all |-> TRUE, slaves |-> Slave]}

Register == {"AlStatus", "AlControl", "SiiAccess"}

\* c_type and ado of a Command, which the task compares.
Nop == [op |-> "NOP", all |-> FALSE, reg |-> "none"]

Command == [op : {"read", "write"}, all : BOOLEAN, reg : Register] \cup {Nop}

MaxTimeout ==
  CHOOSE t \in {PreOpTimeout, SafeOpOpTimeout, BackToInitTimeout, BackToSafeOpTimeout} :
    \A u \in {PreOpTimeout, SafeOpOpTimeout, BackToInitTimeout, BackToSafeOpTimeout} : u <= t

MaxElapsed == Factor * MaxTimeout + 1

TransferState == {"Idle", "Error", "Read", "ResetError", "OffAck", "ResetSiiOwnership",
                  "Request", "Poll", "Complete", "panic"}

Task == [state : TransferState,
         to : TargetSlave,
         target : AlState,
         reset : AlState,                           \* of ResetError and OffAck
         current : AlState \cup {"InvalidOrMixed"},
         timeout : 0 .. MaxTimeout,
         command : Command]

Socket == [command : Command, slaves : SUBSET Slave, value : AlState, ack : BOOLEAN,
           recv_flag : BOOLEAN, wkc_ok : BOOLEAN, bits : SUBSET (0 .. 3), change_err : BOOLEAN]

TypeOK ==
  /\ task \in Task
  /\ elapsed \in 0 .. MaxElapsed
  /\ socket \in Socket
  /\ al \in [Slave -> AlState]
  /\ err \in [Slave -> BOOLEAN]
  /\ request \in [Slave -> AlState \cup {"none"}]
  /\ pdi \in [Slave -> BOOLEAN]
  /\ faults \in 0 .. MaxFaults
  /\ seen \in [Slave -> [al : AlState \cup {"none"}, err : BOOLEAN]]

NoPdu == [command |-> Nop, slaves |-> {}, value |-> "Init", ack |-> FALSE,
          recv_flag |-> FALSE, wkc_ok |-> FALSE, bits |-> {}, change_err |-> FALSE]

NothingSeen == [s \in Slave |-> [al |-> "none", err |-> FALSE]]

\* AlStateTransferTask::new
NewTask(to) ==
  [state |-> "Idle", to |-> to, target |-> "Init", reset |-> "Init",
   current |-> "Init", timeout |-> 0, command |-> Nop]

Init ==
  /\ task = NewTask([all |-> TRUE, slaves |-> Slave])
  /\ elapsed = 0
  /\ socket = NoPdu
  /\ al \in [Slave -> AlState]
  /\ err \in [Slave -> BOOLEAN]
  /\ request = [s \in Slave |-> "none"]
  /\ pdi = [s \in Slave |-> FALSE]
  /\ faults = 0
  /\ seen = NothingSeen

\* is_busy
Busy == task.state \notin {"Idle", "Error", "Complete", "panic"}

----------------------------------------------------------------------------
\* start, from request_al_state or from change_al_state with a new task.  What it
\* leaves of an earlier transfer is written again before it is read.  In between
\* the master may have read the EEPROMs and owns them then.
Start(to, target) ==
  /\ ~Busy /\ task.state # "panic"
  /\ task' = [NewTask(to) EXCEPT !.state = "Read", !.target = target]
  /\ seen' = NothingSeen
  /\ pdi' = [s \in Slave |-> FALSE]
  /\ UNCHANGED <<elapsed, socket, al, err, request, faults>>

\* block_on reports its own timeout or an error of the link, and the task is gone.
GiveUp ==
  /\ Busy
  /\ task' = NewTask(task.to)
  /\ elapsed' = 0
  /\ seen' = NothingSeen
  /\ UNCHANGED <<socket, deviceVars, faults>>

----------------------------------------------------------------------------
(* recieve_and_process *)

Fail(t) == [t EXCEPT !.state = "Error"]

\* Mutant: an error of the slave is passed over.
ReadDoneUnchecked(t, a) ==
  LET u == [t EXCEPT !.current = a] IN
  IF a = t.target THEN [u EXCEPT !.state = "Complete"]
  ELSE [u EXCEPT !.state = "ResetSiiOwnership"]

\* Mutant: a mixed state is acknowledged as it is.
ReadDoneMixed(t, a) ==
  LET u == [t EXCEPT !.current = a] IN
  CASE a = t.target -> [u EXCEPT !.state = "Complete"]
    [] a # t.target /\ socket.change_err -> [u EXCEPT !.state = "ResetError", !.reset = a]
    [] a # t.target /\ ~socket.change_err -> [u EXCEPT !.state = "ResetSiiOwnership"]

\* Read: a mixed state is reset to Init.
ReadDone(t, a) ==
  LET u == [t EXCEPT !.current = a] IN
  CASE a = t.target -> [u EXCEPT !.state = "Complete"]
    [] a # t.target /\ socket.change_err ->
         [u EXCEPT !.state = "ResetError",
                   !.reset = IF a = "InvalidOrMixed" THEN "Init" ELSE a]
    [] a # t.target /\ ~socket.change_err -> [u EXCEPT !.state = "ResetSiiOwnership"]

\* Mutant: the task polls without an end.
PollDoneForever(t, a) ==
  LET u == [t EXCEPT !.current = a] IN
  CASE a = t.target -> {[u EXCEPT !.state = "Complete"]}
    [] a # t.target /\ socket.change_err -> {Fail(u), [u EXCEPT !.state = "panic"]}
    [] OTHER -> {u}

\* Poll.  The status code of the slave, or the OR of several, may be none of
\* AlStatusCode: try_from(..).unwrap() panics.
PollDone(t, a) ==
  LET u == [t EXCEPT !.current = a] IN
  CASE a = t.target -> {[u EXCEPT !.state = "Complete"]}
    [] a # t.target /\ socket.change_err -> {Fail(u), [u EXCEPT !.state = "panic"]}
    [] a # t.target /\ ~socket.change_err ->
         {IF t.timeout * Factor < elapsed THEN Fail(u) ELSE u}

\* Mutant: the working counter is not looked at.
ExpectedPduUncounted(t) == socket.command = t.command

\* The checks of command and working counter at the beginning.
ExpectedPdu(t) == socket.command = t.command /\ socket.wkc_ok

\* The states that only wait for their PDU to be executed.
Following(state) ==
  CASE state = "ResetError" -> "OffAck"
    [] state = "OffAck" -> "Read"
    [] state = "ResetSiiOwnership" -> "Request"
    [] state = "Request" -> "Poll"

\* The tasks recieve_and_process may make of t.
Recieved(t) ==
  LET a == AlStateFrom(socket.bits) IN
  CASE ~ExpectedPdu(t) -> {Fail(t)}
    [] ExpectedPdu(t) /\ t.state = "Read" -> {ReadDone(t, a)}
    [] ExpectedPdu(t) /\ t.state = "Poll" -> PollDone(t, a)
    [] OTHER -> {[t EXCEPT !.state = Following(@),
                           !.reset = IF t.state = "ResetError" THEN @ ELSE "Init"]}

----------------------------------------------------------------------------
(* next_pdu *)

CommandOf(t) ==
  [op |-> IF t.state \in {"Read", "Poll"} THEN "read" ELSE "write",
   all |-> t.to.all,
   reg |-> CASE t.state \in {"Read", "Poll"} -> "AlStatus"
             [] t.state \in {"ResetError", "OffAck", "Request"} -> "AlControl"
             [] t.state = "ResetSiiOwnership" -> "SiiAccess"]

PduOf(t) ==
  [NoPdu EXCEPT !.command = CommandOf(t), !.slaves = t.to.slaves,
                !.value = IF t.state = "Request" THEN t.target ELSE t.reset,
                !.ack = (t.state = "ResetError")]

TimeoutOf(current, target) ==
  CASE target = "Operational" \/ (current = "PreOperational" /\ target = "SafeOperational")
         -> SafeOpOpTimeout
    [] target \in {"PreOperational", "Bootstrap"} -> PreOpTimeout
    [] target = "Init" -> BackToInitTimeout
    [] target = "SafeOperational" /\ current # "PreOperational" -> BackToSafeOpTimeout

Sending(t) ==
  [t EXCEPT !.command = CommandOf(t),
            !.timeout = IF t.state = "Request" THEN TimeoutOf(t.current, t.target) ELSE @]

\* process_one_step, after a poll that returned Ok(true).
Step ==
  /\ Busy
  /\ socket.recv_flag \/ socket = NoPdu
  /\ \E t \in (IF socket.recv_flag THEN Recieved(task) ELSE {task}) :
       LET busy == t.state \notin {"Idle", "Error", "Complete", "panic"} IN
       /\ task' = IF busy THEN Sending(t) ELSE t
       /\ socket' = IF busy THEN PduOf(t) ELSE NoPdu
       /\ elapsed' = IF task.state = "Poll" /\ busy THEN elapsed ELSE 0
  /\ UNCHANGED <<deviceVars, faults, seen>>

\* Time since timer_start, which the answer to the request sets.
Tick ==
  /\ task.state = "Poll"
  /\ elapsed < MaxElapsed
  /\ elapsed' = elapsed + 1
  /\ UNCHANGED <<task, socket, deviceVars, faults, seen>>

----------------------------------------------------------------------------
(* The slaves, external. *)

\* A write of the control register: the acknowledgement takes effect at once, a
\* request for another state later.  With an error that is not acknowledged the
\* slave does not act on it.
WriteControl(reached) ==
  /\ err' = [s \in Slave |-> err[s] /\ ~(s \in reached /\ socket.ack)]
  /\ request' = [s \in Slave |->
       IF s \in reached /\ socket.value # al[s] /\ (socket.ack \/ ~err[s])
       THEN socket.value ELSE request[s]]
  /\ UNCHANGED <<al, pdi, seen>>

WriteSiiAccess(reached) ==
  /\ pdi' = [s \in Slave |-> pdi[s] \/ s \in reached]
  /\ UNCHANGED <<al, err, request, seen>>

ReadStatus ==
  /\ seen' = [s \in Slave |-> [al |-> al[s], err |-> err[s]]]
  /\ UNCHANGED deviceVars

\* The PDU passes through the slaves and comes back; one of them may miss it.
Exchange ==
  /\ socket # NoPdu /\ ~socket.recv_flag
  /\ \E reached \in SUBSET socket.slaves :
       /\ IF reached = socket.slaves THEN UNCHANGED faults
          ELSE faults < MaxFaults /\ faults' = faults + 1
       /\ CASE socket.command.reg = "AlControl" -> WriteControl(reached)
            [] socket.command.reg = "SiiAccess" -> WriteSiiAccess(reached)
            [] socket.command.reg = "AlStatus" -> ReadStatus
       /\ socket' = [socket EXCEPT
            !.recv_flag = TRUE,
            !.wkc_ok = (reached = socket.slaves),
            !.bits = IF socket.command.op = "read" THEN UNION {Bits(al[s]) : s \in reached} ELSE {},
            !.change_err = (socket.command.op = "read" /\ \E s \in reached : err[s])]
  /\ UNCHANGED <<task, elapsed>>

\* The steps of the EtherCAT state machine.
Permitted(from, to) ==
  \/ to = "Init"
  \/ <<from, to>> \in {<<"Init", "PreOperational">>, <<"Init", "Bootstrap">>,
                       <<"PreOperational", "SafeOperational">>,
                       <<"SafeOperational", "Operational">>,
                       <<"SafeOperational", "PreOperational">>,
                       <<"Operational", "SafeOperational">>,
                       <<"Operational", "PreOperational">>}

\* A slave obeys, or it refuses with an error; it always goes back to Init.
SlaveReacts(s) ==
  /\ request[s] # "none"
  /\ request' = [request EXCEPT ![s] = "none"]
  /\ \/ Permitted(al[s], request[s]) /\ al' = [al EXCEPT ![s] = request[s]] /\ UNCHANGED err
     \/ request[s] # "Init" /\ err' = [err EXCEPT ![s] = TRUE] /\ UNCHANGED al
  /\ UNCHANGED <<task, elapsed, socket, pdi, faults, seen>>

\* A slave has an error of its own, which ends the exchange of process data.
SlaveFails(s) ==
  /\ faults < MaxFaults
  /\ faults' = faults + 1
  /\ err' = [err EXCEPT ![s] = TRUE]
  /\ al' = [al EXCEPT ![s] = IF @ = "Operational" THEN "SafeOperational" ELSE @]
  /\ UNCHANGED <<task, elapsed, socket, request, pdi, seen>>

Next ==
  \/ \E to \in TargetSlave, target \in AlTarget : Start(to, target)
  \/ GiveUp \/ Step \/ Tick \/ Exchange
  \/ \E s \in Slave : SlaveReacts(s) \/ SlaveFails(s)

Spec == Init /\ [][Next]_vars

\* The master runs its cycle, frames come back and time goes on.
FairSpec == Spec /\ WF_vars(Step) /\ WF_vars(Exchange) /\ WF_vars(Tick)

----------------------------------------------------------------------------
(* Properties *)

\* A broadcast reads Init OR PreOperational, which is the value of Bootstrap.
TakenForBootstrap(a) == task.to.all /\ a = "Bootstrap"

(* A transfer that completes has seen every slave it was for in the target *)
(* state, in one read, whatever PDUs of an abandoned transfer were         *)
(* answered before and whichever slaves missed one; but all slaves in Init *)
(* and PreOperational together pass for Bootstrap.                         *)
CompleteMeansReached ==
  task.state = "Complete" =>
    \/ \A s \in task.to.slaves : seen[s].al = task.target
    \/ TakenForBootstrap(task.target)

(* No slave is asked for a state it is not prepared for.  When the request *)
(* goes out, every slave it is for owns its EEPROM and none of them showed *)
(* an error, for which it would not act on it; and the acknowledgement of  *)
(* an error, which also writes a state, asks none for another than its own *)
(* or Init, but for the mixture of Init and PreOperational: that is asked  *)
(* to go to Bootstrap.                                                     *)
WritesPrepared ==
  /\ task.state \in {"Request", "Poll"} =>
       \A s \in task.to.slaves : pdi[s] /\ (task.state = "Request" => ~seen[s].err)
  /\ task.state \in {"ResetError", "OffAck"} =>
       \/ \A s \in task.to.slaves : task.reset \in {seen[s].al, "Init"}
       \/ TakenForBootstrap(task.reset)

(* A transfer ends: the slaves arrive, one refuses, or the timer of the    *)
(* request runs out.  The loop that acknowledges an error has no timer; it *)
(* ends because the slave clears the error, unless slaves in Init and      *)
(* PreOperational are told to go to Bootstrap again and again.             *)
TransferEnds == Busy ~> (~Busy \/ TakenForBootstrap(task.reset))
=============================================================================

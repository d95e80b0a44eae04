------------------------ MODULE AlStateTransferProofs ------------------------
(***************************************************************************)
(* For every set of slaves, every choice of those addressed alone, all     *)
(* timeouts and every number of faults: a transfer that completes has seen *)
(* all its slaves in the target state, and it writes no state that a slave *)
(* is not prepared for.                                                    *)
(***************************************************************************)
EXTENDS AlStateTransfer, TLAPS

\* A busy task has sent its PDU, which is still in the socket, or it is new and
\* compares with the default command, which no PDU has.
PduIsOwn ==
  /\ socket.command = Nop => socket = NoPdu
  /\ Busy => \/ task.command = Nop /\ task.state = "Read"
             \/ /\ task.command = socket.command
                /\ socket.command = CommandOf(task)
                /\ socket.slaves = task.to.slaves

\* The answer to a read of the task is what was seen then; that to the transfer of the
\* EEPROMs has been acted on.
AnswerTold ==
  Busy /\ task.command # Nop /\ socket.recv_flag /\ socket.wkc_ok =>
    /\ task.state \in {"Read", "Poll"} =>
         /\ \A s \in task.to.slaves : seen[s].al \in AlState
         /\ socket.bits = UNION {Bits(seen[s].al) : s \in task.to.slaves}
         /\ ~socket.change_err => \A s \in task.to.slaves : ~seen[s].err
    /\ task.state = "ResetSiiOwnership" => \A s \in task.to.slaves : pdi[s]

\* The states on the way to the request were chosen by a read without errors.
NoErrorSeen ==
  task.state \in {"ResetSiiOwnership", "Request"} => \A s \in task.to.slaves : ~seen[s].err

\* A task that has ended has no PDU any more, so that what it saw stays.
EndedQuiet == task.state \in {"Complete", "Error", "panic"} => socket = NoPdu

TransferInv ==
  /\ TypeOK
  /\ PduIsOwn
  /\ AnswerTold
  /\ NoErrorSeen
  /\ EndedQuiet
  /\ CompleteMeansReached
  /\ WritesPrepared

----------------------------------------------------------------------------
(* The operators. *)

\* The bits of a state tell it from the others, and only Bootstrap has more than one.
LEMMA BitsOfStates ==
  ASSUME NEW a \in AlState, NEW b \in AlState
  PROVE  /\ Bits(a) \in SUBSET (0 .. 3)
         /\ Bits(a) # {}
         /\ Bits(a) = Bits(b) => a = b
         /\ Bits(b) \subseteq Bits(a) => a = b \/ a = "Bootstrap"
  BY DEF Bits, AlState

\* The conversion from a register returns the state that has these bits.
LEMMA StateFromBits ==
  ASSUME NEW bits
  PROVE  /\ AlStateFrom(bits) \in AlState \cup {"InvalidOrMixed"}
         /\ AlStateFrom(bits) \in AlState => Bits(AlStateFrom(bits)) = bits
         /\ "InvalidOrMixed" \notin AlState
<1>1. CASE \E a \in AlState : Bits(a) = bits
  <2>1. AlStateFrom(bits) = CHOOSE a \in AlState : Bits(a) = bits
    BY <1>1, Zenon DEF AlStateFrom
  <2>2. AlStateFrom(bits) \in AlState /\ Bits(AlStateFrom(bits)) = bits
    BY <1>1, <2>1, Zenon
  <2>3. QED
    BY <2>2 DEF AlState
<1>2. CASE ~ \E a \in AlState : Bits(a) = bits
  BY <1>2 DEF AlStateFrom, AlState
<1>3. QED
  BY <1>1, <1>2

\* The longest of the four timeouts.
LEMMA LongestTimeout ==
  /\ MaxTimeout \in Nat
  /\ \A u \in {PreOpTimeout, SafeOpOpTimeout, BackToInitTimeout, BackToSafeOpTimeout} :
       u \in 0 .. MaxTimeout
<1> DEFINE T == {PreOpTimeout, SafeOpOpTimeout, BackToInitTimeout, BackToSafeOpTimeout}
<1>1. T \subseteq Nat
  BY TimeAssumption
<1>2. \E t \in T : \A u \in T : u <= t
  <2>1. PICK s \in T : PreOpTimeout <= s /\ SafeOpOpTimeout <= s
    BY <1>1
  <2>2. PICK r \in T : BackToInitTimeout <= r /\ BackToSafeOpTimeout <= r
    BY <1>1
  <2>3. CASE s <= r
    BY <1>1, <2>1, <2>2, <2>3
  <2>4. CASE r <= s
    BY <1>1, <2>1, <2>2, <2>4
  <2>5. QED
    BY <1>1, <2>3, <2>4
<1>3. MaxTimeout \in T /\ \A u \in T : u <= MaxTimeout
  BY <1>2, Zenon DEF MaxTimeout
<1>4. QED
  BY <1>1, <1>3

\* What a read of all slaves that a task is for tells of each of them.
LEMMA SeenInRead ==
  ASSUME NEW to \in TargetSlave, NEW a \in AlState,
         \A s \in to.slaves : seen[s].al \in AlState,
         Bits(a) = UNION {Bits(seen[s].al) : s \in to.slaves}
  PROVE  (\A s \in to.slaves : seen[s].al = a) \/ (to.all /\ a = "Bootstrap")
<1>1. CASE to.all
  <2>1. ASSUME NEW s \in to.slaves PROVE seen[s].al = a \/ a = "Bootstrap"
    <3>1. Bits(seen[s].al) \subseteq Bits(a)
      BY <2>1
    <3>2. QED
      BY <2>1, <3>1, BitsOfStates
  <2>2. QED
    BY <1>1, <2>1
<1>2. CASE ~to.all
  <2>1. PICK s \in Single : to = [all |-> FALSE, slaves |-> {s}]
    BY <1>2 DEF TargetSlave
  <2>2. to.slaves = {s}
    BY <2>1
  <2>3. Bits(a) = Bits(seen[s].al)
    BY <2>2
  <2>4. QED
    BY <2>2, <2>3, BitsOfStates
<1>3. QED
  BY <1>1, <1>2

\* The slaves of a target are slaves.
LEMMA TargetSlaves ==
  ASSUME NEW to \in TargetSlave
  PROVE  to.slaves \in SUBSET Slave /\ to.all \in BOOLEAN
<1>1. CASE to = [all |-> TRUE, slaves |-> Slave]
  BY <1>1
<1>2. CASE \E s \in Single : to = [all |-> FALSE, slaves |-> {s}]
  BY <1>2, SlaveAssumption
<1>3. QED
  BY <1>1, <1>2 DEF TargetSlave

\* A task with another state, or what next_pdu and recieve_and_process note, is a task.
LEMMA TaskFields ==
  ASSUME NEW t \in Task
  PROVE  /\ t.state \in TransferState /\ t.to \in TargetSlave /\ t.target \in AlState
         /\ t.reset \in AlState /\ t.current \in AlState \cup {"InvalidOrMixed"}
         /\ t.timeout \in 0 .. MaxTimeout /\ t.command \in Command
  BY DEF Task

----------------------------------------------------------------------------
(* recieve_and_process and next_pdu *)

\* An answer that passes the checks is to a PDU that the task has sent.
LEMMA ExpectedIsSent ==
  ASSUME PduIsOwn, socket.recv_flag, ExpectedPdu(task)
  PROVE  task.command # Nop
<1>1. SUFFICES ASSUME socket.command = Nop PROVE FALSE
  BY DEF ExpectedPdu
<1>2. socket = NoPdu
  BY <1>1 DEF PduIsOwn
<1>3. QED
  BY <1>2 DEF NoPdu

\* The ways in which an answer changes the state of the task.
Outcome(t) ==
  LET a == AlStateFrom(socket.bits) IN
  \/ t.state \in {"Error", "panic"}
  \/ /\ ExpectedPdu(task)
     /\ \/ t.state = "Complete" /\ task.state \in {"Read", "Poll"} /\ a = task.target
        \/ /\ t.state = "ResetError" /\ task.state = "Read"
           /\ t.reset = IF a = "InvalidOrMixed" THEN "Init" ELSE a
        \/ t.state = "ResetSiiOwnership" /\ task.state = "Read" /\ ~socket.change_err
        \/ t.state = "Poll" /\ task.state = "Poll"
        \/ t.state = "OffAck" /\ task.state = "ResetError" /\ t.reset = task.reset
        \/ t.state = "Read" /\ task.state = "OffAck"
        \/ t.state = "Request" /\ task.state = "ResetSiiOwnership"
        \/ t.state = "Poll" /\ task.state = "Request"

LEMMA RecievedOutcome ==
  ASSUME TypeOK, Busy, NEW t \in Recieved(task)
  PROVE  t \in Task /\ t.to = task.to /\ t.target = task.target /\ Outcome(t)
<1> DEFINE a == AlStateFrom(socket.bits)
           u == [task EXCEPT !.current = a]
<1>1. task \in Task /\ a \in AlState \cup {"InvalidOrMixed"} /\ "Init" \in AlState
  BY StateFromBits DEF TypeOK, AlState
<1>2. /\ u \in Task /\ u.to = task.to /\ u.target = task.target /\ u.state = task.state
      /\ u.reset = task.reset
  BY <1>1 DEF Task
<1>3. ASSUME NEW v \in Task, v.to = task.to, v.target = task.target, NEW st \in TransferState
      PROVE  LET w == [v EXCEPT !.state = st] IN
             w \in Task /\ w.to = task.to /\ w.target = task.target /\ w.state = st /\ w.reset = v.reset
  BY <1>3 DEF Task
<1>4. CASE ~ExpectedPdu(task)
  <2>1. t = Fail(task)
    BY <1>4 DEF Recieved
  <2>2. QED
    BY <1>1, <1>3, <2>1 DEF Fail, Outcome, TransferState
<1>5. CASE ExpectedPdu(task) /\ task.state = "Read"
  <2>1. t = ReadDone(task, a)
    BY <1>5 DEF Recieved
  <2>2. CASE a = task.target
    <3>1. t = [u EXCEPT !.state = "Complete"]
      BY <2>1, <2>2 DEF ReadDone
    <3>2. QED
      BY <1>2, <1>3, <1>5, <2>2, <3>1 DEF Outcome, TransferState
  <2>3. CASE a # task.target /\ socket.change_err
    <3>1. t = [u EXCEPT !.state = "ResetError",
                        !.reset = IF a = "InvalidOrMixed" THEN "Init" ELSE a]
      BY <2>1, <2>3 DEF ReadDone
    <3>2. (IF a = "InvalidOrMixed" THEN "Init" ELSE a) \in AlState
      BY <1>1
    <3>3. /\ t \in Task /\ t.to = task.to /\ t.target = task.target /\ t.state = "ResetError"
          /\ t.reset = IF a = "InvalidOrMixed" THEN "Init" ELSE a
      BY <1>2, <3>1, <3>2 DEF Task, TransferState
    <3>4. QED
      BY <1>5, <3>3 DEF Outcome
  <2>4. CASE a # task.target /\ ~socket.change_err
    <3>1. t = [u EXCEPT !.state = "ResetSiiOwnership"]
      BY <2>1, <2>4 DEF ReadDone
    <3>2. QED
      BY <1>2, <1>3, <1>5, <2>4, <3>1 DEF Outcome, TransferState
  <2>5. QED
    BY <2>2, <2>3, <2>4
<1>6. CASE ExpectedPdu(task) /\ task.state = "Poll"
  <2>1. t \in PollDone(task, a)
    BY <1>6 DEF Recieved
  <2>2. \/ a = task.target /\ t = [u EXCEPT !.state = "Complete"]
        \/ t \in {[u EXCEPT !.state = "Error"], [u EXCEPT !.state = "panic"], u}
    BY <2>1 DEF PollDone, Fail
  <2>3. CASE a = task.target /\ t = [u EXCEPT !.state = "Complete"]
    <3>1. /\ t \in Task /\ t.to = task.to /\ t.target = task.target
          /\ t.state = "Complete" /\ t.reset = task.reset
      BY <1>2, <1>3, <2>3 DEF TransferState
    <3>2. QED
      BY <1>6, <2>3, <3>1 DEF Outcome
  <2>4. CASE t \in {[u EXCEPT !.state = "Error"], [u EXCEPT !.state = "panic"]}
    <3>1. /\ t \in Task /\ t.to = task.to /\ t.target = task.target
          /\ t.state \in {"Error", "panic"}
      <4>1. PICK st \in {"Error", "panic"} : t = [u EXCEPT !.state = st]
        BY <2>4
      <4>2. st \in TransferState
        BY DEF TransferState
      <4>3. QED
        BY <1>2, <1>3, <4>1, <4>2
    <3>2. QED
      BY <3>1 DEF Outcome
  <2>5. CASE t = u
    BY <1>2, <1>6, <2>5 DEF Outcome
  <2>6. QED
    BY <2>2, <2>3, <2>4, <2>5
<1>7. CASE ExpectedPdu(task) /\ task.state \notin {"Read", "Poll"}
  <2> DEFINE r == IF task.state = "ResetError" THEN task.reset ELSE "Init"
  <2>1. task.state \in {"ResetError", "OffAck", "ResetSiiOwnership", "Request"}
    BY <1>1, <1>7 DEF Task, TransferState, Busy
  <2>2. t = [task EXCEPT !.state = Following(task.state), !.reset = r]
    BY <1>7 DEF Recieved
  <2>3. Following(task.state) \in TransferState /\ r \in AlState
    BY <1>1, <2>1 DEF Following, TransferState, Task
  <2>4. /\ t \in Task /\ t.to = task.to /\ t.target = task.target
        /\ t.state = Following(task.state) /\ t.reset = r
    BY <1>1, <2>2, <2>3 DEF Task
  <2>5. QED
    BY <1>7, <2>1, <2>4 DEF Outcome, Following
<1>8. QED
  BY <1>4, <1>5, <1>6, <1>7

\* What next_pdu makes of a busy task.
LEMMA SendingTask ==
  ASSUME NEW t \in Task, t.state \notin {"Idle", "Error", "Complete", "panic"}
  PROVE  /\ CommandOf(t) \in Command /\ CommandOf(t) # Nop
         /\ Sending(t) \in Task
         /\ Sending(t).state = t.state /\ Sending(t).to = t.to /\ Sending(t).target = t.target
         /\ Sending(t).reset = t.reset /\ Sending(t).command = CommandOf(t)
         /\ CommandOf(Sending(t)) = CommandOf(t)
         /\ PduOf(t) \in Socket
         /\ PduOf(t).command = CommandOf(t) /\ PduOf(t).slaves = t.to.slaves
         /\ PduOf(t).recv_flag = FALSE
<1>1. /\ t.state \in {"Read", "ResetError", "OffAck", "ResetSiiOwnership", "Request", "Poll"}
      /\ t.to \in TargetSlave /\ t.target \in AlState /\ t.reset \in AlState
  BY TaskFields DEF TransferState
<1>2. t.to.slaves \in SUBSET Slave /\ t.to.all \in BOOLEAN
  BY <1>1, TargetSlaves
<1>3. CommandOf(t) \in Command /\ CommandOf(t) # Nop
  <2>1. CommandOf(t) \in [op : {"read", "write"}, all : BOOLEAN, reg : Register]
    BY <1>1, <1>2 DEF CommandOf, Register
  <2>2. CommandOf(t).op \in {"read", "write"}
    BY <2>1
  <2>3. QED
    BY <2>1, <2>2 DEF Command, Nop
<1>4. TimeoutOf(t.current, t.target) \in 0 .. MaxTimeout
  BY <1>1, LongestTimeout DEF TimeoutOf, AlState
<1>5. /\ Sending(t) \in Task
      /\ Sending(t).state = t.state /\ Sending(t).to = t.to /\ Sending(t).target = t.target
      /\ Sending(t).reset = t.reset /\ Sending(t).command = CommandOf(t)
  BY <1>3, <1>4 DEF Sending, Task
<1>6. CommandOf(Sending(t)) = CommandOf(t)
  BY <1>5 DEF CommandOf
<1>7. /\ PduOf(t) \in Socket
      /\ PduOf(t).command = CommandOf(t) /\ PduOf(t).slaves = t.to.slaves
      /\ PduOf(t).recv_flag = FALSE
  BY <1>1, <1>2, <1>3 DEF PduOf, NoPdu, Socket, AlState
<1>8. QED
  BY <1>3, <1>5, <1>6, <1>7

----------------------------------------------------------------------------
(* The invariant, action by action. *)

LEMMA TransferInitially == Init => TransferInv
<1>1. SUFFICES ASSUME Init PROVE TransferInv
  OBVIOUS
<1> DEFINE everyone == [all |-> TRUE, slaves |-> Slave]
<1>2. task = NewTask(everyone) /\ socket = NoPdu /\ everyone \in TargetSlave
  BY <1>1 DEF Init, TargetSlave
<1>3. task \in Task /\ task.state = "Idle"
  BY <1>2, LongestTimeout DEF NewTask, Task, TransferState, AlState, Command
<1>4. socket \in Socket
  BY <1>2 DEF NoPdu, Socket, Command, AlState
<1>5. elapsed \in 0 .. MaxElapsed /\ faults \in 0 .. MaxFaults
  BY <1>1, LongestTimeout, TimeAssumption DEF Init, MaxElapsed
<1>6. TypeOK
  BY <1>1, <1>3, <1>4, <1>5 DEF TypeOK, Init, NothingSeen
<1>7. QED
  BY <1>2, <1>3, <1>6 DEF TransferInv, PduIsOwn, AnswerTold, NoErrorSeen, EndedQuiet,
     CompleteMeansReached, WritesPrepared, Busy

\* A new task, from start or from a call that gives up, takes no answer for its own.
LEMMA NewTaskType ==
  ASSUME NEW to \in TargetSlave
  PROVE  /\ NewTask(to) \in Task /\ NewTask(to).state = "Idle" /\ NewTask(to).to = to
         /\ NewTask(to).command = Nop
  BY LongestTimeout DEF NewTask, Task, TransferState, AlState, Command

LEMMA StartKeeps ==
  ASSUME TransferInv, NEW to \in TargetSlave, NEW target \in AlTarget, Start(to, target)
  PROVE  TransferInv'
<1>1. /\ task' = [NewTask(to) EXCEPT !.state = "Read", !.target = target]
      /\ seen' = NothingSeen /\ pdi' = [s \in Slave |-> FALSE]
      /\ UNCHANGED <<elapsed, socket, al, err, request, faults>>
  BY DEF Start
<1>2. task' \in Task /\ task'.state = "Read" /\ task'.command = Nop
  <2>1. target \in AlState /\ "Read" \in TransferState
    BY AlTargetAssumption DEF TransferState
  <2>2. NewTask(to) \in Task /\ NewTask(to).command = Nop
    BY NewTaskType
  <2>3. QED
    BY <1>1, <2>1, <2>2 DEF Task
<1>3. TypeOK'
  BY <1>1, <1>2 DEF TransferInv, TypeOK, NothingSeen
<1>4. PduIsOwn'
  BY <1>1, <1>2 DEF TransferInv, PduIsOwn
<1>5. QED
  BY <1>2, <1>3, <1>4 DEF TransferInv, AnswerTold, NoErrorSeen, EndedQuiet,
     CompleteMeansReached, WritesPrepared

LEMMA GiveUpKeeps ==
  ASSUME TransferInv, GiveUp
  PROVE  TransferInv'
<1>1. /\ task' = NewTask(task.to) /\ elapsed' = 0 /\ seen' = NothingSeen
      /\ UNCHANGED <<socket, al, err, request, pdi, faults>>
  BY DEF GiveUp, deviceVars
<1>2. task' \in Task /\ task'.state = "Idle"
  BY <1>1, NewTaskType, TaskFields DEF TransferInv, TypeOK
<1>3. TypeOK'
  BY <1>1, <1>2, LongestTimeout, TimeAssumption DEF TransferInv, TypeOK, NothingSeen, MaxElapsed
<1>4. PduIsOwn'
  BY <1>1, <1>2 DEF TransferInv, PduIsOwn, Busy
<1>5. QED
  BY <1>2, <1>3, <1>4 DEF TransferInv, AnswerTold, NoErrorSeen, EndedQuiet,
     CompleteMeansReached, WritesPrepared, Busy

\* Steps of the slaves and of the clock change nothing the parts speak of.
LEMMA OthersKeep ==
  ASSUME TransferInv, TypeOK', UNCHANGED <<task, socket, seen, pdi>>
  PROVE  TransferInv'
<1>1. PduIsOwn' /\ NoErrorSeen' /\ EndedQuiet'
  BY DEF TransferInv, PduIsOwn, NoErrorSeen, EndedQuiet, Busy, CommandOf
<1>2. AnswerTold' /\ CompleteMeansReached' /\ WritesPrepared'
  BY DEF TransferInv, AnswerTold, CompleteMeansReached, WritesPrepared, TakenForBootstrap, Busy
<1>3. QED
  BY <1>1, <1>2 DEF TransferInv

LEMMA TickKeeps ==
  ASSUME TransferInv, Tick
  PROVE  TransferInv'
<1>1. UNCHANGED <<task, socket, al, err, request, pdi, faults, seen>>
      /\ elapsed < MaxElapsed /\ elapsed' = elapsed + 1
  BY DEF Tick, deviceVars
<1>2. MaxElapsed \in Nat
  BY LongestTimeout, TimeAssumption DEF MaxElapsed
<1>3. TypeOK'
  BY <1>1, <1>2 DEF TransferInv, TypeOK
<1>4. QED
  BY <1>1, <1>3, OthersKeep

LEMMA SlaveKeeps ==
  ASSUME TransferInv, NEW s \in Slave, SlaveReacts(s) \/ SlaveFails(s)
  PROVE  TransferInv'
<1>1. CASE SlaveReacts(s)
  <2>1. UNCHANGED <<task, elapsed, socket, pdi, faults, seen>> /\ request[s] # "none"
    BY <1>1 DEF SlaveReacts
  <2>2. request[s] \in AlState
    BY <2>1 DEF TransferInv, TypeOK
  <2>3. /\ request' \in [Slave -> AlState \cup {"none"}]
        /\ al' \in [Slave -> AlState] /\ err' \in [Slave -> BOOLEAN]
    BY <1>1, <2>2 DEF SlaveReacts, TransferInv, TypeOK
  <2>4. QED
    BY <2>1, <2>3, OthersKeep DEF TransferInv, TypeOK
<1>2. CASE SlaveFails(s)
  <2>1. UNCHANGED <<task, elapsed, socket, request, pdi, seen>>
        /\ faults < MaxFaults /\ faults' = faults + 1
    BY <1>2 DEF SlaveFails
  <2>2. al' \in [Slave -> AlState] /\ err' \in [Slave -> BOOLEAN]
    BY <1>2 DEF SlaveFails, TransferInv, TypeOK, AlState
  <2>3. faults' \in 0 .. MaxFaults
    BY <2>1, TimeAssumption DEF TransferInv, TypeOK
  <2>4. QED
    BY <2>1, <2>2, <2>3, OthersKeep DEF TransferInv, TypeOK
<1>3. QED
  BY <1>1, <1>2

\* The PDU of the task passes through the slaves; so may one that nobody waits for.
LEMMA ExchangeKeeps ==
  ASSUME TransferInv, Exchange
  PROVE  TransferInv'
<1>1. PICK reached \in SUBSET socket.slaves :
        /\ IF reached = socket.slaves THEN UNCHANGED faults
           ELSE faults < MaxFaults /\ faults' = faults + 1
        /\ CASE socket.command.reg = "AlControl" -> WriteControl(reached)
             [] socket.command.reg = "SiiAccess" -> WriteSiiAccess(reached)
             [] socket.command.reg = "AlStatus" -> ReadStatus
        /\ socket' = [socket EXCEPT
             !.recv_flag = TRUE,
             !.wkc_ok = (reached = socket.slaves),
             !.bits = IF socket.command.op = "read" THEN UNION {Bits(al[s]) : s \in reached} ELSE {},
             !.change_err = (socket.command.op = "read" /\ \E s \in reached : err[s])]
  BY Zenon DEF Exchange
<1>2. socket # NoPdu /\ ~socket.recv_flag /\ UNCHANGED <<task, elapsed>>
  BY DEF Exchange
<1>3. TypeOK /\ socket \in Socket /\ reached \subseteq Slave
  BY <1>1 DEF TransferInv, TypeOK, Socket
<1>4. socket.command \in [op : {"read", "write"}, all : BOOLEAN, reg : Register]
  BY <1>2, <1>3 DEF TransferInv, PduIsOwn, Socket, Command
<1>5. \/ socket.command.reg = "AlControl" /\ WriteControl(reached)
      \/ socket.command.reg = "SiiAccess" /\ WriteSiiAccess(reached)
      \/ socket.command.reg = "AlStatus" /\ ReadStatus
  BY <1>1, <1>4 DEF Register
<1>6. UNION {Bits(al[s]) : s \in reached} \in SUBSET (0 .. 3)
  BY <1>3, BitsOfStates DEF TypeOK
<1>7. /\ socket'.command = socket.command /\ socket'.slaves = socket.slaves
      /\ socket'.recv_flag = TRUE /\ socket'.wkc_ok = (reached = socket.slaves)
      /\ socket.command.op = "read" =>
           /\ socket'.bits = UNION {Bits(al[s]) : s \in reached}
           /\ socket'.change_err = \E s \in reached : err[s]
  BY <1>1, <1>3 DEF Socket
<1>8. socket' \in Socket
  <2> DEFINE b == IF socket.command.op = "read" THEN UNION {Bits(al[s]) : s \in reached} ELSE {}
             e == (socket.command.op = "read" /\ \E s \in reached : err[s])
             w == (reached = socket.slaves)
  <2>1. b \in SUBSET (0 .. 3)
    BY <1>6
  <2>2. e \in BOOLEAN /\ w \in BOOLEAN
    OBVIOUS
  <2>3. socket' = [socket EXCEPT !.recv_flag = TRUE, !.wkc_ok = w, !.bits = b, !.change_err = e]
    BY <1>1, Zenon
  <2> HIDE DEF b, e, w
  <2>4. QED
    BY <1>3, <2>1, <2>2, <2>3 DEF Socket
<1>9. faults' \in 0 .. MaxFaults
  BY <1>1, <1>3, TimeAssumption DEF TypeOK
<1>10. TypeOK'
  <2>1. CASE WriteControl(reached)
    <3>1. err' \in [Slave -> BOOLEAN]
      BY <2>1, <1>3 DEF WriteControl, TypeOK
    <3>2. request' \in [Slave -> AlState \cup {"none"}]
      BY <2>1, <1>3 DEF WriteControl, TypeOK, Socket
    <3>3. QED
      BY <1>2, <1>3, <1>8, <1>9, <2>1, <3>1, <3>2 DEF WriteControl, TypeOK
  <2>2. CASE WriteSiiAccess(reached)
    <3>1. pdi' \in [Slave -> BOOLEAN]
      BY <2>2, <1>3 DEF WriteSiiAccess, TypeOK
    <3>2. QED
      BY <1>2, <1>3, <1>8, <1>9, <2>2, <3>1 DEF WriteSiiAccess, TypeOK
  <2>3. CASE ReadStatus
    <3>1. seen' \in [Slave -> [al : AlState \cup {"none"}, err : BOOLEAN]]
      BY <2>3, <1>3 DEF ReadStatus, TypeOK
    <3>2. QED
      BY <1>2, <1>3, <1>8, <1>9, <2>3, <3>1 DEF ReadStatus, TypeOK, deviceVars
  <2>4. QED
    BY <1>5, <2>1, <2>2, <2>3
<1>11. PduIsOwn' /\ EndedQuiet'
  <2>1. socket.command # Nop
    BY <1>2 DEF TransferInv, PduIsOwn
  <2>2. task.state \notin {"Complete", "Error", "panic"}
    BY <1>2 DEF TransferInv, EndedQuiet
  <2>3. QED
    BY <1>2, <1>7, <2>1, <2>2 DEF TransferInv, PduIsOwn, EndedQuiet, Busy, CommandOf
\* The registers that a busy task with a PDU under way addresses.
<1>12. ASSUME Busy, task.command # Nop
       PROVE  /\ socket.slaves = task.to.slaves
              /\ task.state \in {"Read", "Poll"} <=> socket.command.reg = "AlStatus"
              /\ task.state = "ResetSiiOwnership" <=> socket.command.reg = "SiiAccess"
              /\ socket.command.reg = "AlStatus" => socket.command.op = "read"
  <2>1. socket.slaves = task.to.slaves /\ socket.command = CommandOf(task)
    BY <1>12 DEF TransferInv, PduIsOwn
  <2>2. task.state \in {"Read", "ResetError", "OffAck", "ResetSiiOwnership", "Request", "Poll"}
    BY <1>3, <1>12, TaskFields DEF TypeOK, Busy, TransferState
  <2>3. QED
    BY <2>1, <2>2 DEF CommandOf
<1>13. AnswerTold'
  <2>1. SUFFICES ASSUME Busy, task.command # Nop, reached = task.to.slaves
                 PROVE  /\ task.state \in {"Read", "Poll"} =>
                             /\ \A s \in task.to.slaves : seen'[s].al \in AlState
                             /\ socket'.bits = UNION {Bits(seen'[s].al) : s \in task.to.slaves}
                             /\ ~socket'.change_err => \A s \in task.to.slaves : ~seen'[s].err
                        /\ task.state = "ResetSiiOwnership" => \A s \in task.to.slaves : pdi'[s]
    BY <1>2, <1>7, <1>12 DEF AnswerTold, Busy
  <2>2. CASE task.state \in {"Read", "Poll"}
    <3>1. /\ socket'.bits = UNION {Bits(al[s]) : s \in reached}
          /\ socket'.change_err = \E s \in reached : err[s]
          /\ seen' = [s \in Slave |-> [al |-> al[s], err |-> err[s]]]
      BY <1>5, <1>7, <1>12, <2>1, <2>2 DEF ReadStatus
    <3>2. \A s \in reached : seen'[s].al = al[s] /\ seen'[s].err = err[s] /\ al[s] \in AlState
      BY <1>3, <3>1 DEF TypeOK
    <3>3. {Bits(al[s]) : s \in reached} = {Bits(seen'[s].al) : s \in reached}
      BY <3>2
    <3>4. QED
      BY <2>1, <2>2, <3>1, <3>2, <3>3
  <2>3. CASE task.state = "ResetSiiOwnership"
    BY <1>3, <1>5, <1>12, <2>1, <2>3 DEF WriteSiiAccess
  <2>4. QED
    BY <2>2, <2>3
<1>14. NoErrorSeen' /\ CompleteMeansReached' /\ WritesPrepared'
  <2>1. CASE task.state \in {"ResetSiiOwnership", "Request", "ResetError", "OffAck"}
    <3>1. Busy /\ task.command # Nop
      BY <1>2, <2>1 DEF TransferInv, PduIsOwn, Busy
    <3>2. seen' = seen
      BY <1>5, <1>12, <2>1, <3>1 DEF WriteControl, WriteSiiAccess
    <3>3. \A s \in task.to.slaves : pdi[s] => pdi'[s]
      <4>1. task.to.slaves \subseteq Slave
        BY <1>3, TaskFields, TargetSlaves DEF TypeOK
      <4>2. QED
        BY <1>5, <4>1 DEF WriteControl, WriteSiiAccess, ReadStatus, deviceVars
    <3>4. QED
      BY <1>2, <2>1, <3>2, <3>3 DEF TransferInv, NoErrorSeen, CompleteMeansReached, WritesPrepared,
         TakenForBootstrap
  <2>2. CASE task.state = "Poll"
    <3>1. \A s \in task.to.slaves : pdi[s] => pdi'[s]
      <4>1. task.to.slaves \subseteq Slave
        BY <1>3, TaskFields, TargetSlaves DEF TypeOK
      <4>2. QED
        BY <1>5, <4>1 DEF WriteControl, WriteSiiAccess, ReadStatus, deviceVars
    <3>2. QED
      BY <1>2, <2>2, <3>1 DEF TransferInv, NoErrorSeen, CompleteMeansReached, WritesPrepared
  <2>3. CASE task.state \in {"Idle", "Read"}
    BY <1>2, <2>3 DEF NoErrorSeen, CompleteMeansReached, WritesPrepared
  <2>4. CASE task.state \in {"Complete", "Error", "panic"}
    BY <1>2, <2>4 DEF TransferInv, EndedQuiet
  <2>5. QED
    BY <1>3, <2>1, <2>2, <2>3, <2>4, TaskFields DEF TypeOK, TransferState
<1>15. QED
  BY <1>10, <1>11, <1>13, <1>14 DEF TransferInv

\* The task takes its answer and sends its next PDU.
LEMMA StepKeeps ==
  ASSUME TransferInv, Step
  PROVE  TransferInv'
<1> DEFINE busy(t) == t.state \notin {"Idle", "Error", "Complete", "panic"}
<1>1. PICK t \in (IF socket.recv_flag THEN Recieved(task) ELSE {task}) :
        /\ task' = IF busy(t) THEN Sending(t) ELSE t
        /\ socket' = IF busy(t) THEN PduOf(t) ELSE NoPdu
        /\ elapsed' = IF task.state = "Poll" /\ busy(t) THEN elapsed ELSE 0
  BY Zenon DEF Step
<1>2. /\ Busy /\ (socket.recv_flag \/ socket = NoPdu)
      /\ UNCHANGED <<al, err, request, pdi, faults, seen>>
  BY DEF Step, deviceVars
<1>3. TypeOK /\ task \in Task /\ task.to \in TargetSlave
  BY TaskFields DEF TransferInv, TypeOK
\* A task without an answer is a new one.
<1>4. CASE ~socket.recv_flag
  <2>1. t = task /\ busy(t) /\ task.state = "Read"
    <3>1. t = task /\ socket = NoPdu
      BY <1>1, <1>2, <1>4
    <3>2. socket.command = Nop
      BY <3>1 DEF NoPdu
    <3>3. task.command = Nop \/ socket.command = CommandOf(task)
      BY <1>2 DEF TransferInv, PduIsOwn
    <3>4. CommandOf(task) # Nop
      BY <1>2, <1>3, SendingTask DEF Busy
    <3>5. QED
      BY <1>2, <3>1, <3>2, <3>3, <3>4 DEF TransferInv, PduIsOwn, Busy
  <2>2. task' = Sending(task) /\ socket' = PduOf(task) /\ elapsed' = 0
    BY <1>1, <2>1
  <2>3. /\ task' \in Task /\ task'.state = "Read" /\ socket' \in Socket /\ ~socket'.recv_flag
        /\ task'.command = socket'.command /\ socket'.command = CommandOf(task')
        /\ socket'.command # Nop /\ socket'.slaves = task'.to.slaves
    BY <1>3, <2>1, <2>2, SendingTask
  <2>4. TypeOK'
    BY <1>2, <1>3, <2>2, <2>3, LongestTimeout, TimeAssumption DEF TypeOK, MaxElapsed
  <2>5. QED
    BY <2>3, <2>4 DEF TransferInv, PduIsOwn, AnswerTold, NoErrorSeen, EndedQuiet,
       CompleteMeansReached, WritesPrepared
<1>5. CASE socket.recv_flag
  <2>1. t \in Task /\ t.to = task.to /\ t.target = task.target /\ Outcome(t)
    BY <1>1, <1>2, <1>3, <1>5, RecievedOutcome
  <2>2. /\ task' \in Task /\ task'.state = t.state /\ task'.to = task.to
        /\ task'.target = task.target /\ task'.reset = t.reset /\ socket' \in Socket
    <3>1. CASE busy(t)
      BY <1>1, <2>1, <3>1, SendingTask
    <3>2. CASE ~busy(t)
      <4>1. NoPdu \in Socket
        BY DEF NoPdu, Socket, Command, AlState
      <4>2. QED
        BY <1>1, <2>1, <3>2, <4>1
    <3>3. QED
      BY <3>1, <3>2
  <2>3. TypeOK'
    BY <1>1, <1>2, <1>3, <2>2, LongestTimeout, TimeAssumption DEF TypeOK, MaxElapsed
  <2>4. PduIsOwn' /\ EndedQuiet' /\ ~socket'.recv_flag
    <3>1. CASE busy(t)
      <4>1. /\ task'.command = socket'.command /\ socket'.command = CommandOf(task')
            /\ socket'.command # Nop /\ socket'.slaves = task'.to.slaves /\ ~socket'.recv_flag
        BY <1>1, <2>1, <3>1, SendingTask
      <4>2. QED
        BY <2>2, <3>1, <4>1 DEF PduIsOwn, EndedQuiet
    <3>2. CASE ~busy(t)
      <4>1. socket' = NoPdu /\ ~Busy'
        BY <1>1, <2>2, <3>2 DEF Busy
      <4>2. QED
        BY <4>1 DEF PduIsOwn, EndedQuiet, NoPdu
    <3>3. QED
      BY <3>1, <3>2
  <2>5. AnswerTold'
    BY <2>4 DEF AnswerTold
  <2> DEFINE a == AlStateFrom(socket.bits)
  \* What an accepted answer to a read says of the slaves.
  <2>6. ASSUME ExpectedPdu(task), task.state \in {"Read", "Poll"}, a \in AlState
        PROVE  (\A s \in task.to.slaves : seen[s].al = a) \/ (task.to.all /\ a = "Bootstrap")
    <3>1. /\ \A s \in task.to.slaves : seen[s].al \in AlState
          /\ socket.bits = UNION {Bits(seen[s].al) : s \in task.to.slaves}
      BY <1>2, <1>5, <2>6, ExpectedIsSent DEF TransferInv, AnswerTold, ExpectedPdu
    <3>2. Bits(a) = socket.bits
      BY <2>6, StateFromBits
    <3> HIDE DEF a
    <3>3. QED
      BY <1>3, <2>6, <3>1, <3>2, SeenInRead
  <2>7. NoErrorSeen'
    <3>1. SUFFICES ASSUME t.state \in {"ResetSiiOwnership", "Request"}
                   PROVE  \A s \in task.to.slaves : ~seen[s].err
      BY <1>2, <2>2 DEF NoErrorSeen
    <3>2. CASE t.state = "ResetSiiOwnership"
      <4>1. task.state = "Read" /\ ~socket.change_err /\ ExpectedPdu(task)
        BY <2>1, <3>2 DEF Outcome
      <4>2. QED
        BY <1>2, <1>5, <4>1, ExpectedIsSent DEF TransferInv, AnswerTold, ExpectedPdu
    <3>3. CASE t.state = "Request"
      BY <2>1, <3>3 DEF Outcome, TransferInv, NoErrorSeen
    <3>4. QED
      BY <3>1, <3>2, <3>3
  <2>8. CompleteMeansReached'
    <3>1. SUFFICES ASSUME t.state = "Complete"
                   PROVE  \/ \A s \in task.to.slaves : seen[s].al = task.target
                          \/ task.to.all /\ task.target = "Bootstrap"
      BY <1>2, <2>2 DEF CompleteMeansReached, TakenForBootstrap
    <3>2. ExpectedPdu(task) /\ task.state \in {"Read", "Poll"} /\ a = task.target
      BY <2>1, <3>1 DEF Outcome
    <3>3. QED
      BY <1>3, <2>6, <3>2, TaskFields
  <2>9. WritesPrepared'
    <3>1. ASSUME t.state \in {"Request", "Poll"}
          PROVE  \A s \in task.to.slaves : pdi[s]
      <4>1. CASE task.state \in {"Request", "Poll"}
        BY <4>1 DEF TransferInv, WritesPrepared
      <4>2. CASE task.state = "ResetSiiOwnership" /\ ExpectedPdu(task)
        BY <1>2, <1>5, <4>2, ExpectedIsSent DEF TransferInv, AnswerTold, ExpectedPdu
      <4>3. QED
        BY <2>1, <3>1, <4>1, <4>2 DEF Outcome
    <3>2. ASSUME t.state \in {"ResetError", "OffAck"}
          PROVE  \/ \A s \in task.to.slaves : t.reset \in {seen[s].al, "Init"}
                 \/ task.to.all /\ t.reset = "Bootstrap"
      <4>1. CASE task.state = "ResetError" /\ t.reset = task.reset
        BY <4>1 DEF TransferInv, WritesPrepared, TakenForBootstrap
      <4>2. CASE /\ ExpectedPdu(task) /\ task.state = "Read"
                 /\ t.reset = IF a = "InvalidOrMixed" THEN "Init" ELSE a
        <5>1. CASE a = "InvalidOrMixed"
          BY <4>2, <5>1
        <5>2. CASE a # "InvalidOrMixed"
          <6>1. a \in AlState /\ t.reset = a
            BY <4>2, <5>2, StateFromBits
          <6>2. QED
            BY <2>6, <4>2, <6>1
        <5>3. QED
          BY <5>1, <5>2
      <4>3. QED
        BY <2>1, <3>2, <4>1, <4>2 DEF Outcome
    <3>3. QED
      BY <1>2, <2>2, <2>7, <3>1, <3>2 DEF WritesPrepared, TakenForBootstrap, NoErrorSeen
  <2>10. QED
    BY <2>3, <2>4, <2>5, <2>7, <2>8, <2>9 DEF TransferInv
<1>6. QED
  BY <1>4, <1>5

LEMMA NextKeeps ==
  ASSUME TransferInv, [Next]_vars
  PROVE  TransferInv'
<1>1. CASE UNCHANGED vars
  <2>1. UNCHANGED <<task, elapsed, socket, al, err, request, pdi, faults, seen>>
    BY <1>1 DEF vars, deviceVars
  <2>2. TypeOK'
    BY <2>1 DEF TransferInv, TypeOK
  <2>3. QED
    BY <2>1, <2>2, OthersKeep
<1>2. CASE Next
  BY <1>2, StartKeeps, GiveUpKeeps, StepKeeps, TickKeeps, ExchangeKeeps, SlaveKeeps, Zenon DEF Next
<1>3. QED
  BY <1>1, <1>2

LEMMA TransferInvariance == Spec => []TransferInv
  BY TransferInitially, NextKeeps, PTL DEF Spec

----------------------------------------------------------------------------
(* The task, the registers it writes and what it has seen keep their types *)
(* for every network, whatever transfers are given up.                     *)
THEOREM TypeCorrect == Spec => []TypeOK
<1>1. TransferInv => TypeOK
  BY DEF TransferInv
<1>2. QED
  BY <1>1, TransferInvariance, PTL

(* AlStateTransferTask completes only when one read, answered by all its   *)
(* slaves, showed all of them in the target state, or when a broadcast     *)
(* took Init and PreOperational together for Bootstrap.                    *)
THEOREM CompleteAlwaysMeansReached == Spec => []CompleteMeansReached
<1>1. TransferInv => CompleteMeansReached
  BY DEF TransferInv
<1>2. QED
  BY <1>1, TransferInvariance, PTL

(* The request goes only to slaves that own their EEPROM and showed no     *)
(* error, and the acknowledgement of an error asks no slave for a state it *)
(* is not in, Init and the mixture read as Bootstrap excepted.             *)
THEOREM WritesAlwaysPrepared == Spec => []WritesPrepared
<1>1. TransferInv => WritesPrepared
  BY DEF TransferInv
<1>2. QED
  BY <1>1, TransferInvariance, PTL
=============================================================================

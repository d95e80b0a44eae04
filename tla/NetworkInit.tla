----------------------------- MODULE NetworkInit -----------------------------
(***************************************************************************)
(* task/network_initilize.rs with slave/network.rs: init counts the slaves *)
(* with a broadcast and initialises one after the other.  The inner tasks  *)
(* are the operators of SlaveInit and SiiReader and, for the way to Init,  *)
(* those of AlStateTransfer.  All of them see the same command, so that    *)
(* one comparison stands for theirs.                                       *)
(*                                                                         *)
(* A call runs in block_on, which gives up after 100000 steps or with an   *)
(* error of the link and then leaves the PDU in the socket.  The slaves    *)
(* are external: registers, the EEPROM that loads words some time after it *)
(* was asked to, and its user on the other side, the PDI.                  *)
(***************************************************************************)
EXTENDS SlaveInit, FiniteSets

CONSTANTS
  Buses,         \* the networks: [slaves : a sequence of profiles, capacity]
  MaxSlaves,
  MaxCalls,
  MaxFaults      \* missed PDUs, calls that give up, reads of the PDI, EEPROM errors

Pos == 0 .. MaxSlaves - 1

AlStates == {"Init", "PreOperational", "Bootstrap", "SafeOperational", "Operational"}

\* A slave: the words of its EEPROM that are read and the registers that init looks at.
IsProfile(f) ==
  /\ \A a \in 0 .. 31 : f.eeprom[a] \in U16
  /\ {f.long, f.check_sum_error, f.loaded, f.dc, f.dc_range, f.lrw, f.err} \subseteq BOOLEAN
  /\ {f.ram, f.fmmu, f.sm} \subseteq Nat
  /\ f.linked \subseteq 0 .. 3 /\ f.al \in AlStates

ASSUME BusAssumption ==
  /\ MaxSlaves \in Nat \ {0}
  /\ \A b \in Buses : Len(b.slaves) \in 0 .. MaxSlaves /\ b.capacity \in Nat
  /\ \A b \in Buses : \A i \in 1 .. Len(b.slaves) : IsProfile(b.slaves[i])
  /\ MaxCalls \in Nat /\ MaxFaults \in Nat

\* block_on gives up before the timers of the SII reader and of the transfer run out.
ASSUME TimerAssumption == StepLimit <= SiiTimeout /\ StepLimit <= 5000 * 1000

VARIABLES
  bus,          \* the network that is connected
  task,         \* NetworkInitTask
  network,      \* Network: the slaves that were pushed
  socket,       \* the PDU and its answer
  al, err, request, pdi,   \* slaves: as in AlStateTransfer
  ee,           \* slaves: the EEPROM interface
  regs,         \* slaves: registers
  faults, calls,
  ignored,      \* history: slaves whose EEPROM was read in spite of an error or of the PDI
  miscounted    \* history: the count was not the answer of all slaves

alVars == <<al, err, request, pdi>>
deviceVars == <<alVars, ee, regs>>
vars == <<bus, task, network, socket, deviceVars, faults, calls, ignored, miscounted>>

Slaves == 0 .. Len(bus.slaves) - 1
Profile(p) == bus.slaves[p + 1]

AlAnswer ==
  IF socket.command.reg[1] = "AlStatus" /\ socket.wkc = 1 THEN socket.answer
  ELSE [bits |-> {}, change_err |-> FALSE]

\* The transfer of the slave at the position of the task; the timeout, 5000 s, is
\* beyond the largest time of block_on.
AL == INSTANCE AlStateTransfer WITH
  Slave <- Pos, Single <- Pos, AlTarget <- {"Init"},
  PreOpTimeout <- 3000, SafeOpOpTimeout <- 10000, BackToInitTimeout <- 5000,
  BackToSafeOpTimeout <- 200, Factor <- 1000,
  task <- task.init.al, elapsed <- StepLimit, seen <- 0,
  socket <- [command |-> task.init.al.command, wkc_ok |-> socket.wkc = 1,
             bits |-> AlAnswer.bits, change_err |-> AlAnswer.change_err]

NewAl(position) ==
  [AL!NewTask([all |-> FALSE, slaves |-> {position}]) EXCEPT !.state = "Read"]

----------------------------------------------------------------------------
\* Command::default is a read of register 0, which is DlInformation.
DefaultCommand == [op |-> "APRD", reg |-> <<"DlInformation", 0>>]

NoPdu == [command |-> DefaultCommand, position |-> -1, value |-> 0, recv_flag |-> FALSE,
          wkc |-> 0, answer |-> 0]

NetworkInitState == {"Idle", "Error", "CountSlaves", "StartInitSlaves", "WaitInitSlaves",
                     "Complete", "panic"}

\* NetworkInitTask::new
NewNetworkInit ==
  [state |-> "Idle", count |-> 0, num_slaves |-> 0, error |-> "none",
   command |-> DefaultCommand, init |-> NewSlaveInit(NewAl(0))]

NetworkBusy(t) == t.state \in {"CountSlaves", "StartInitSlaves", "WaitInitSlaves"}

Busy == NetworkBusy(task)

\* What init writes or clears; the words of the EEPROM that are read at address a.
Registers(profile) ==
  {<<r, 0>> : r \in {"DlControl", "RxErrorCounter", "WatchDogDivider", "DlUserWatchDog",
                     "SyncManagerChannelWatchDog"}}
    \cup {<<"FmmuRegister", n>> : n \in 0 .. profile.fmmu - 1}
    \cup {<<"SyncManagerControl", n>> : n \in 0 .. profile.sm - 1}
    \cup (IF profile.dc THEN {<<r, 0>> : r \in {"DcActivation", "CyclicOperationStartTime",
                                                "Sync0CycleTime", "Sync1CycleTime"}}
          ELSE {})

Words(profile, a, old) ==
  [i \in 1 .. 4 |-> IF profile.long \/ i <= 2 THEN profile.eeprom[a + i - 1] ELSE old[i]]

Init ==
  /\ bus \in Buses
  /\ task = NewNetworkInit
  /\ network = <<>>
  /\ socket = NoPdu
  /\ al = [p \in Pos |-> IF p \in Slaves THEN Profile(p).al ELSE "Init"]
  /\ err = [p \in Pos |-> p \in Slaves /\ Profile(p).err]
  /\ request = [p \in Pos |-> "none"]
  /\ pdi = [p \in Pos |-> FALSE]
  /\ ee = [p \in Pos |-> [busy |-> FALSE, loading |-> 0, address |-> 0,
                          command_error |-> FALSE, data |-> <<0, 0, 0, 0>>]]
  /\ regs = [p \in Pos |-> [dirty |-> IF p \in Slaves THEN Registers(Profile(p)) ELSE {},
                            station |-> 1, sm |-> [n \in SmNumber |-> NoSm],
                            active |-> {}]]
  /\ faults = 0 /\ calls = 0
  /\ ignored = {} /\ miscounted = FALSE

----------------------------------------------------------------------------
\* init: a new task with the network of the master.
Start ==
  /\ ~Busy /\ task.state # "panic"
  /\ calls < MaxCalls
  /\ calls' = calls + 1
  /\ task' = [NewNetworkInit EXCEPT !.state = "CountSlaves"]
  /\ UNCHANGED <<bus, network, socket, deviceVars, faults, ignored, miscounted>>

\* block_on returns an error of the link, or Timeout.
GiveUp ==
  /\ Busy
  /\ faults < MaxFaults
  /\ faults' = faults + 1
  /\ task' = [NewNetworkInit EXCEPT !.state = "Error", !.error = "GivenUp"]
  /\ UNCHANGED <<bus, network, socket, deviceVars, calls, ignored, miscounted>>

----------------------------------------------------------------------------
(* recieve_and_process; results are pairs of the task and the network. *)

Result(t, slaves) == [task |-> t, slaves |-> slaves]

\* CountSlaves, with Network::clear.
Counted(t) ==
  Result([t EXCEPT !.num_slaves = socket.wkc, !.count = 0,
                   !.state = IF socket.wkc = 0 THEN "Complete" ELSE "StartInitSlaves"],
         <<>>)

\* The slave that is pushed: mailbox count 0, and FMMU 2 for the status of the mailbox
\* if there is one and the slave has two.
NewSlave(info) ==
  [info |-> info, mailbox_count |-> 0,
   status_fmmu |-> 2 <= info.number_of_fmmu /\ \E n \in SmNumber : info.sm[n].kind = "MailboxTx"]

\* Mutant: the end of the table is not looked at.
PushedBeyond(t, slaves, i) ==
  Result([t EXCEPT !.init = i, !.count = @ + 1,
                   !.state = IF t.count + 1 < t.num_slaves THEN "StartInitSlaves" ELSE "Complete"],
         Append(slaves, NewSlave(i.info)))

\* Mutant: the last place of the table is not used.
PushedEarly(t, slaves, i) ==
  IF Len(slaves) + 1 >= bus.capacity
  THEN Result([t EXCEPT !.init = i, !.state = "Error", !.error = "TooManySlaves"], slaves)
  ELSE PushedBeyond(t, slaves, i)

\* Network::push_slave and what follows.
Pushed(t, slaves, i) ==
  LET u == [t EXCEPT !.init = i]
      full == Len(slaves) >= bus.capacity
  IN CASE full -> Result([u EXCEPT !.state = "Error", !.error = "TooManySlaves"], slaves)
       [] ~full /\ t.count + 1 < t.num_slaves ->
            Result([u EXCEPT !.state = "StartInitSlaves", !.count = @ + 1],
                   Append(slaves, NewSlave(i.info)))
       [] ~full /\ t.count + 1 >= t.num_slaves ->
            Result([u EXCEPT !.state = "Complete"], Append(slaves, NewSlave(i.info)))

\* StartInitSlaves: whatever became of the first PDU, the task goes on to wait.
SlaveStarted(t, slaves, i) ==
  Result([t EXCEPT !.init = i, !.state = "WaitInitSlaves"], slaves)

\* Mutant: a slave that fails is waited for.
SlaveWaitedDeaf(t, slaves, i) ==
  IF i.state = "Complete" THEN Pushed(t, slaves, i) ELSE Result([t EXCEPT !.init = i], slaves)

\* WaitInitSlaves
SlaveWaited(t, slaves, i) ==
  CASE i.state = "Complete" -> Pushed(t, slaves, i)
    [] i.state = "Error" -> Result([t EXCEPT !.init = i, !.state = "Error", !.error = i.error], slaves)
    [] i.state = "panic" -> Result([t EXCEPT !.init = i, !.state = "panic"], slaves)
    [] OTHER -> Result([t EXCEPT !.init = i], slaves)

Recieved(t) ==
  LET inits == SlaveInitRecieved(t.init, socket.wkc, socket.answer, AL!Recieved(t.init.al)) IN
  CASE socket.command # t.command ->
         {Result([t EXCEPT !.state = "Error", !.error = "UnexpectedCommand"], network)}
    [] socket.command = t.command /\ t.state = "CountSlaves" -> {Counted(t)}
    [] socket.command = t.command /\ t.state = "StartInitSlaves" ->
         {SlaveStarted(t, network, i) : i \in inits}
    [] socket.command = t.command /\ t.state = "WaitInitSlaves" ->
         {SlaveWaited(t, network, i) : i \in inits}

----------------------------------------------------------------------------
(* next_pdu *)

Pdu(op, reg, position, value) ==
  [NoPdu EXCEPT !.command = [op |-> op, reg |-> reg], !.position = position, !.value = value]

\* The PDU of the slave's task, or of its inner transfer.
InitPdu(i) ==
  LET a == AL!PduOf(i.al) IN
  CASE i.state \in Ended -> NoPdu
    [] i.state = "RequestInitState" ->
         Pdu(IF a.command.op = "read" THEN "APRD" ELSE "APWR", <<a.command.reg, 0>>, i.position,
             [al |-> a.value, ack |-> a.ack, owner |-> TRUE])
    [] i.state \notin Ended \cup {"RequestInitState"} ->
         Pdu(OpOf(i), RegisterOf(i), i.position,
             [data |-> ValueOf(i), all |-> i.state = "ClearSm", owner |-> FALSE])

\* The inner tasks of the slave when it sends.
InitSending(i) ==
  LET u == SlaveInitSending(i, NewAl(i.position)) IN
  IF u.state = "RequestInitState" THEN [u EXCEPT !.al = AL!Sending(@)] ELSE u

Sending(t) ==
  CASE t.state = "StartInitSlaves" ->
         [t EXCEPT !.init = InitSending(SlaveInitStart(@, t.count))]
    [] t.state = "WaitInitSlaves" -> [t EXCEPT !.init = InitSending(@)]
    [] OTHER -> t

PduOf(t) ==
  CASE t.state = "CountSlaves" -> Pdu("BWR", <<"DlControl", 0>>, -1, 0)
    [] t.state \in {"StartInitSlaves", "WaitInitSlaves"} -> InitPdu(t.init)
    [] OTHER -> NoPdu

\* process_one_step, after a poll that returned Ok(true).
Step ==
  /\ Busy
  /\ socket.recv_flag \/ socket = NoPdu
  /\ \E r \in (IF socket.recv_flag THEN Recieved(task) ELSE {Result(task, network)}) :
       LET u == Sending(r.task)
           pdu == PduOf(u)
       IN /\ task' = IF pdu = NoPdu THEN u ELSE [u EXCEPT !.command = pdu.command]
          /\ socket' = pdu
          /\ network' = r.slaves
  /\ ignored' = IF /\ socket.recv_flag /\ socket.wkc = 1
                   /\ task.state = "WaitInitSlaves" /\ task.init.state \in SiiStates
                   /\ OverwrittenError(task.init.sii, socket.answer)
                THEN ignored \cup {task.init.position} ELSE ignored
  /\ miscounted' = IF task.state = "CountSlaves" /\ socket.recv_flag
                   THEN socket.command.op # "BWR" \/ socket.wkc # Len(bus.slaves)
                   ELSE miscounted
  /\ UNCHANGED <<bus, deviceVars, faults, calls>>

----------------------------------------------------------------------------
(* The slaves, external. *)

\* The registers of slave p as they are read.
ReadOf(p, reg) ==
  CASE reg = "AlStatus" -> [bits |-> AL!Bits(al[p]), change_err |-> err[p]]
    [] reg = "DlStatus" -> [pdi_operational |-> Profile(p).loaded, linked |-> Profile(p).linked]
    [] reg = "DlInformation" ->
         [dc |-> Profile(p).dc, dc_range |-> Profile(p).dc_range, lrw |-> Profile(p).lrw,
          ram |-> Profile(p).ram, fmmu |-> Profile(p).fmmu, sm |-> Profile(p).sm]
    [] reg = "SiiControl" ->
         [check_sum_error |-> Profile(p).check_sum_error, device_info_error |-> FALSE,
          address_algorithm |-> TRUE, busy |-> ee[p].busy,
          command_error |-> ee[p].command_error, long |-> Profile(p).long]
    [] reg = "SiiAccess" -> [owner |-> pdi[p]]
    [] reg = "SiiData" -> ee[p].data
    [] reg = "PdiControl" -> 0

\* A read operation is ignored while another one is running or the PDI has the EEPROM.
EeAfterWrite(p, reg, value) ==
  CASE reg = "SiiAddress" -> [ee[p] EXCEPT !.address = value.data]
    [] reg = "SiiControl" ->
         IF ee[p].busy \/ pdi[p] THEN ee[p]
         ELSE [ee[p] EXCEPT !.busy = TRUE, !.loading = ee[p].address, !.command_error = FALSE]
    [] OTHER -> ee[p]

RegsAfterWrite(p, reg, value) ==
  LET n == reg[2]
      clean == [regs[p] EXCEPT !.dirty = @ \ {reg}]
  IN CASE reg[1] = "FixedStationAddress" -> [regs[p] EXCEPT !.station = value.data]
       [] reg[1] = "SyncManagerControl" /\ n \in SmNumber ->
            [clean EXCEPT !.sm[n] = value.data, !.active = IF value.all THEN @ \ {n} ELSE @]
       [] reg[1] = "SyncManagerActivation" ->
            [regs[p] EXCEPT !.active = IF value.data THEN @ \cup {n} ELSE @ \ {n}]
       [] OTHER -> clean

\* A write to slave p; the AL control register as in AlStateTransfer.
Write(p, reg, value) ==
  /\ err' = [err EXCEPT ![p] = @ /\ ~(reg[1] = "AlControl" /\ value.ack)]
  /\ request' = [request EXCEPT ![p] =
       IF reg[1] = "AlControl" /\ value.al # al[p] /\ (value.ack \/ ~err[p]) THEN value.al ELSE @]
  /\ pdi' = [pdi EXCEPT ![p] = IF reg[1] = "SiiAccess" THEN value.owner ELSE @]
  /\ ee' = [ee EXCEPT ![p] = EeAfterWrite(p, reg[1], value)]
  /\ regs' = [regs EXCEPT ![p] = RegsAfterWrite(p, reg, value)]
  /\ UNCHANGED al

\* The PDU comes back; a slave it is for may have missed it.
Exchange ==
  /\ socket # NoPdu /\ ~socket.recv_flag
  /\ LET c == socket.command
         asked == IF c.op = "BWR" THEN Slaves ELSE {socket.position}
     IN \E reached \in {asked, {}} \cup (IF c.op = "BWR" THEN SUBSET asked ELSE {}) :
          /\ IF reached = asked THEN UNCHANGED faults
             ELSE faults < MaxFaults /\ faults' = faults + 1
          /\ socket' = [socket EXCEPT
               !.recv_flag = TRUE, !.wkc = Cardinality(reached),
               !.answer = IF c.op = "APRD" /\ reached # {}
                          THEN ReadOf(socket.position, c.reg[1]) ELSE 0]
          /\ CASE c.op = "APWR" /\ reached # {} -> Write(socket.position, c.reg, socket.value)
               [] c.op = "BWR" ->
                    /\ regs' = [p \in Pos |-> IF p \in reached
                                              THEN [regs[p] EXCEPT !.dirty = @ \ {c.reg}] ELSE regs[p]]
                    /\ UNCHANGED <<alVars, ee>>
               [] OTHER -> UNCHANGED deviceVars
  /\ UNCHANGED <<bus, task, network, calls, ignored, miscounted>>

\* A slave always goes back to Init.
SlaveReacts(p) ==
  /\ request[p] # "none"
  /\ al' = [al EXCEPT ![p] = request[p]]
  /\ request' = [request EXCEPT ![p] = "none"]
  /\ UNCHANGED <<bus, task, network, socket, err, pdi, ee, regs, faults, calls, ignored, miscounted>>

\* The EEPROM has loaded the words, or does not answer.
EepromLoads(p) ==
  /\ ee[p].busy
  /\ \/ /\ ee' = [ee EXCEPT ![p].busy = FALSE,
                            ![p].data = Words(Profile(p), ee[p].loading, @)]
        /\ UNCHANGED faults
     \/ /\ faults < MaxFaults
        /\ faults' = faults + 1
        /\ ee' = [ee EXCEPT ![p].busy = FALSE, ![p].command_error = TRUE]
  /\ UNCHANGED <<bus, task, network, socket, alVars, regs, calls, ignored, miscounted>>

\* The reader has looked whether the EEPROM is busy and has not taken it yet.
LookedBefore(p) ==
  /\ task.state = "WaitInitSlaves" /\ task.init.position = p /\ task.init.state \in SiiStates
  /\ task.init.sii.state = "SetOwnership" \/ (task.init.sii.state = "Init" /\ socket.recv_flag)

\* The PDI, which was given the EEPROM, reads it.
PdiReads(p) ==
  /\ pdi[p] /\ ~ee[p].busy
  /\ faults < MaxFaults
  /\ faults' = faults + 1
  /\ ee' = [ee EXCEPT ![p].busy = TRUE, ![p].loading = 0]
  /\ ignored' = IF LookedBefore(p) THEN ignored \cup {p} ELSE ignored
  /\ UNCHANGED <<bus, task, network, socket, alVars, regs, calls, miscounted>>

Next ==
  \/ Start \/ GiveUp \/ Step \/ Exchange
  \/ \E p \in Pos : SlaveReacts(p) \/ EepromLoads(p) \/ PdiReads(p)

Spec == Init /\ [][Next]_vars

\* The call runs, frames come back, slaves react and their EEPROMs load.
FairSpec ==
  /\ Spec /\ WF_vars(Step) /\ WF_vars(Exchange)
  /\ \A p \in Pos : WF_vars(SlaveReacts(p)) /\ WF_vars(EepromLoads(p))

----------------------------------------------------------------------------
(* Properties *)

TypeOK ==
  /\ task.state \in NetworkInitState
  /\ task.count \in Nat /\ task.num_slaves \in 0 .. MaxSlaves
  /\ task.init.state \in SlaveInitState /\ task.init.position \in Pos
  /\ task.init.n \in 0 .. 4
  /\ task.init.sii.state \in SiiState
  /\ task.init.al \in AL!Task
  /\ Len(network) <= bus.capacity
  /\ al \in [Pos -> AlStates] /\ request \in [Pos -> AlStates \cup {"none"}]
  /\ err \in [Pos -> BOOLEAN] /\ pdi \in [Pos -> BOOLEAN]
  /\ faults \in 0 .. MaxFaults /\ calls \in 0 .. MaxCalls
  /\ ignored \subseteq Pos /\ miscounted \in BOOLEAN

\* The mailbox the EEPROM describes with the words at a: any word that comes with the
\* size counts for it.
MailboxIn(p, a) ==
  Profile(p).sm >= 4 /\ \E i \in 1 .. 4 : Words(Profile(p), a, <<0, 0, 0, 0>>)[i] # 0

SmIn(p, n) ==
  LET size(a) == Smaller(Profile(p).eeprom[a], MAX_SM_SIZE)
      rx == MailboxIn(p, StandardRxMailboxSize)
      tx == MailboxIn(p, StandardTxMailboxSize)
      two == Profile(p).sm >= 2
  IN CASE n = 0 /\ rx -> [kind |-> "MailboxRx", size |-> size(25), start |-> Profile(p).eeprom[24]]
       [] n = 1 /\ tx -> [kind |-> "MailboxTx", size |-> size(27), start |-> Profile(p).eeprom[26]]
       [] (n = 2 /\ rx) \/ (n = 0 /\ ~rx /\ two) -> ProcessDataSm("ProcessDataRx")
       [] (n = 3 /\ tx) \/ (n = 1 /\ ~tx /\ two) -> ProcessDataSm("ProcessDataTx")
       [] OTHER -> NoSm

(* What the master knows of a slave is what this slave and its EEPROM say, *)
(* however often calls were given up, PDUs missed and EEPROM reads left    *)
(* running, unless the reader found the EEPROM faulty, busy or not its own *)
(* and went on all the same, or the PDI began to read between that look    *)
(* and the moment the reader took the EEPROM.                              *)
InfoIsOwn ==
  \A k \in DOMAIN network :
    LET p == k - 1
        info == network[k].info
    IN p \notin ignored =>
         /\ info.vender_id = Profile(p).eeprom[VenderId]
         /\ info.product_code = Profile(p).eeprom[ProductCode]
         /\ info.revision_number = Profile(p).eeprom[RevisionNumber]
         /\ info.support_coe = ((Profile(p).eeprom[MailboxProtocol] \div 4) % 2 = 1)
         /\ info.sm = [n \in SmNumber |-> SmIn(p, n)]
         /\ info.number_of_fmmu = Profile(p).fmmu /\ info.number_of_sm = Profile(p).sm
         /\ info.support_dc = Profile(p).dc /\ info.linked = Profile(p).linked

\* The octets of an area.
Area(start, size) == start .. start + size - 1

\* The EEPROM puts both mailboxes into the memory that the slave has.
MailboxesInRam(info) ==
  \A n \in {0, 1} : RamStart <= info.sm[n].start
                     /\ info.sm[n].start + info.sm[n].size <= RamEnd(info) + 1

(* init that returns Ok has brought every slave it pushed to Init with its *)
(* registers reset, its address set and the mailboxes of its EEPROM        *)
(* switched on; the area for the process data touches no mailbox and,      *)
(* unless the EEPROM puts a mailbox outside of the RAM, lies in the RAM.   *)
(* All slaves were pushed unless one of them missed the count, or the      *)
(* count was the answer to the read of DlInformation of a call that had    *)
(* given up, which looks like the default command.  FMMUs from the fifth   *)
(* and sync managers from the sixth keep what they had.                    *)
ReadyWhenComplete ==
  task.state = "Complete" =>
    /\ miscounted \/ Len(network) = Len(bus.slaves)
    /\ \A p \in 0 .. Len(network) - 1 :
         LET info == network[p + 1].info IN
         /\ al[p] = "Init"
         /\ regs[p].station = p + 1 /\ info.configured_address = p + 1
         /\ \A r \in regs[p].dirty :
              r[1] \in {"FmmuRegister", "SyncManagerControl"} /\ r[2] \notin FmmuCleared
         /\ \A r \in regs[p].dirty : r[1] = "SyncManagerControl" => r[2] \notin SmCleared
         /\ \A n \in SmNumber :
              IF IsMailbox(info.sm[n]) THEN regs[p].sm[n] = info.sm[n] /\ n \in regs[p].active
              ELSE regs[p].sm[n] = NoSm /\ n \notin regs[p].active
         /\ info.pdo_size > 0 =>
              /\ \A n \in {0, 1} : Area(info.pdo_start, info.pdo_size)
                                     \cap Area(info.sm[n].start, info.sm[n].size) = {}
              /\ MailboxesInRam(info) =>
                   Area(info.pdo_start, info.pdo_size) \subseteq RamStart .. RamEnd(info)

(* init fails or panics only for a reason outside: a slave that missed a   *)
(* PDU, a call before that had given up, more slaves than the buffer has   *)
(* room for, or a slave that is not supported.                             *)
FailsWithCause ==
  LET unsupported(p) == ~Profile(p).loaded \/ ~Profile(p).lrw \/ (Profile(p).dc /\ ~Profile(p).dc_range)
  IN /\ task.state = "Error" =>
          CASE task.error = "TooManySlaves" ->
                 Len(network) = bus.capacity /\ bus.capacity < Len(bus.slaves)
            [] task.error = "FailedToLoadEEPROM" -> ~Profile(task.init.position).loaded
            [] OTHER -> faults > 0
     /\ task.state = "panic" =>
          \/ unsupported(task.init.position)
          \/ AreaOverflows([task.init.info EXCEPT !.sm = [n \in SmNumber |-> SmIn(task.init.position, n)]])
          \/ task.init.al.state = "panic" \/ task.init.position \in ignored

\* A slave that missed its first PDU.
FirstPduMissed ==
  /\ task.state = "WaitInitSlaves" /\ task.init.state = "Error"
  /\ task.command.reg = <<"DlControl", 0>>

(* init ends without the limit of steps, for every slave that reacts and   *)
(* whose EEPROM loads.  The exception is a slave that misses its first     *)
(* PDU: the task waits for a task that has failed, sends nothing any more  *)
(* and is ended by the limit, with Timeout in place of UnexpectedWkc.      *)
InitEnds == Busy ~> (~Busy \/ FirstPduMissed)
=============================================================================
